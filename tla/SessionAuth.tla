----------------------------- MODULE SessionAuth -----------------------------
(***************************************************************************)
(* How the v1 program keeps a session: the auth client                     *)
(* (internal/traderepublc/api/auth/client.go), the API client it calls     *)
(* (api/client.go), the token files and the login dialogue                 *)
(* (internal/console/auth.go).                                             *)
(*                                                                         *)
(* Two goroutines share an auth client without a lock: the main one, which *)
(* builds it, refreshes once, works, and logs in when the server refuses   *)
(* it, and one that refreshes the session at a tick.  With                 *)
(* --write-responses main builds two applications and runs the second: two *)
(* clients with a memory each, three goroutines, one ticker and one pair   *)
(* of token files.  A token is abstracted to what the server thinks of it: *)
(* "none" (empty), "stale" (refused) or "live".  Phone number, PIN and     *)
(* code are left out: when they are wrong the call fails.                  *)
(***************************************************************************)
EXTENDS Naturals

CONSTANTS MaxApps,        \* applications a run may build: 2 with --write-responses
          StoredSession, StoredRefresh,  \* what .session and .refresh may hold at first
          MaxTicks,       \* bound: ticks of the refresh ticker
          MaxExpiries,    \* bound: times the server lets all tokens of a kind expire
          MaxFaults       \* bound: failed calls, failed writes and crashes

Token == {"none", "stale", "live"}

ASSUME SessionAssumption ==
  /\ MaxApps \in Nat \ {0} /\ StoredSession \cup StoredRefresh \subseteq Token
  /\ {MaxTicks, MaxExpiries, MaxFaults} \subseteq Nat

\* Goroutines: main, and the one each client starts, named after it.
Main == 0
Clients == 1..MaxApps
Proc == {Main} \cup Clients

VARIABLES
  pc,           \* pc[p]: what goroutine p does next
  after,        \* after[p]: where p goes on when the session token is written
  app, apps,                 \* the application main is at, and how many it builds
  session, refresh,          \* by client: Client.sessionToken and .refreshToken
  sessionFile, refreshFile,  \* .session and .refresh
  tok,          \* tok[p]: the session token p was answered and has not stored
  newRefresh,   \* the refresh token main was answered and has not stored
  buf,          \* buf[p]: the copy of the session token p is writing
  ticks, expiries, faults    \* counted for the bounds

memory == <<app, apps, session, refresh>>
tokenFiles == <<sessionFile, refreshFile>>
answers == <<tok, newRefresh, buf>>
counts == <<ticks, expiries, faults>>
authVars == <<pc, after, memory, tokenFiles, answers, counts>>

NoProcess == [p \in Proc |-> "off"]
NoTokens == [c \in Clients |-> "none"]
NoAnswers == [p \in Proc |-> "none"]

AuthInit == /\ pc = NoProcess /\ after = NoProcess
            /\ app = 1 /\ apps = 1
            /\ session = NoTokens /\ refresh = NoTokens
            /\ sessionFile \in StoredSession /\ refreshFile \in StoredRefresh
            /\ tok = NoAnswers /\ newRefresh = "none" /\ buf = NoAnswers
            /\ ticks = 0 /\ expiries = 0 /\ faults = 0

Stopped == {"off", "done", "failed"}
Running == pc[Main] \notin Stopped

Goto(p, l) == pc' = [pc EXCEPT ![p] = l]
\* The process ends, its goroutines and its memory with it.
Exit(l) == /\ pc' = [NoProcess EXCEPT ![Main] = l] /\ after' = NoProcess
           /\ app' = 1 /\ apps' = 1 /\ session' = NoTokens /\ refresh' = NoTokens
           /\ tok' = NoAnswers /\ newRefresh' = "none" /\ buf' = NoAnswers
Fault == faults < MaxFaults /\ faults' = faults + 1 /\ UNCHANGED <<ticks, expiries>>

(***************************************************************************)
(* Reading a token while the other goroutine of the client assigns it is a *)
(* data race: it yields the old token, the new one, or a mixture the       *)
(* server refuses.                                                         *)
(***************************************************************************)
Client(p) == IF p = Main THEN app ELSE p
Assigned(p, l) == \E q \in Proc \ {p} : Client(q) = Client(p) /\ pc[q] = l
SessionRead(p) == {session[Client(p)]} \cup (IF Assigned(p, "set") THEN {"stale"} ELSE {})
RefreshRead(p) == {refresh[Client(p)]} \cup (IF Assigned(p, "setRefresh") THEN {"stale"} ELSE {})

\* The server gives a session to who shows a refresh token it accepts.
Granted(cookie) == IF cookie = "live" THEN "live" ELSE "none"

(***************************************************************************)
(* NewClient and refreshSession.                                           *)
(***************************************************************************)
\* Mutant: .refresh is not loaded.
LoadWithoutRefresh(c, s, f) == /\ session' = [s EXCEPT ![c] = sessionFile]
                               /\ refresh' = f
\* NewClient loads both files; a missing one is an empty token.
Load(c, s, f) == /\ session' = [s EXCEPT ![c] = sessionFile]
                 /\ refresh' = [f EXCEPT ![c] = refreshFile]

\* The program starts with the first client: its goroutine runs, and main refreshes.
Start == /\ pc[Main] \in Stopped
         /\ app' = 1 /\ apps' \in Clients
         /\ Load(1, NoTokens, NoTokens)
         /\ pc' = [NoProcess EXCEPT ![Main] = "refresh", ![1] = "idle"]
         /\ UNCHANGED <<after, tokenFiles, answers, counts>>

\* The next application is built; the goroutine of the one before goes on.
NewClient == /\ pc[Main] = "new"
             /\ app' = app + 1
             /\ Load(app', session, refresh)
             /\ pc' = [pc EXCEPT ![Main] = "refresh", ![app'] = "idle"]
             /\ UNCHANGED <<after, apps, tokenFiles, answers, counts>>

RefreshingAsMain(p) == /\ pc[p] = IF p = Main THEN "refresh" ELSE "idle"  \* mutant: one continuation
                       /\ Goto(p, "set")
                       /\ after' = [after EXCEPT ![p] = "connect"]
Refreshing(p) == /\ pc[p] = IF p = Main THEN "refresh" ELSE "idle"
                 /\ Goto(p, "set")
                 /\ after' = [after EXCEPT ![p] = IF p = Main THEN "connect" ELSE "idle"]

\* The session is asked for and the server answers; the answer is under way.
RefreshSession(p) ==
  /\ Refreshing(p)
  /\ p # Main => ticks < MaxTicks
  /\ ticks' = IF p # Main THEN ticks + 1 ELSE ticks
  /\ \E cookie \in RefreshRead(p) : tok' = [tok EXCEPT ![p] = Granted(cookie)]
  /\ UNCHANGED <<memory, tokenFiles, newRefresh, buf, expiries, faults>>

\* The call fails: that is logged, and the empty token is used all the same.
RefreshFails(p) == /\ Refreshing(p)
                   /\ Fault
                   /\ tok' = [tok EXCEPT ![p] = "none"]
                   /\ UNCHANGED <<memory, tokenFiles, newRefresh, buf>>

(***************************************************************************)
(* writeSessionToken: memory first, then the file, which os.WriteFile      *)
(* truncates before it writes the copy WriteToFile was called on.          *)
(***************************************************************************)
SetSession(p) == /\ pc[p] = "set"
                 /\ session' = [session EXCEPT ![Client(p)] = tok[p]]
                 /\ tok' = [tok EXCEPT ![p] = "none"]
                 /\ Goto(p, "truncate")
                 /\ UNCHANGED <<after, app, apps, refresh, tokenFiles, newRefresh, buf, counts>>

TruncateSession(p) == /\ pc[p] = "truncate"
                      /\ \E v \in SessionRead(p) : buf' = [buf EXCEPT ![p] = v]
                      /\ sessionFile' = "none"
                      /\ Goto(p, "flush")
                      /\ UNCHANGED <<after, memory, refreshFile, tok, newRefresh, counts>>

FlushSession(p) == /\ pc[p] = "flush"
                   /\ sessionFile' = buf[p]
                   /\ buf' = [buf EXCEPT ![p] = "none"]
                   /\ Goto(p, after[p])
                   /\ after' = [after EXCEPT ![p] = "off"]
                   /\ UNCHANGED <<memory, refreshFile, tok, newRefresh, counts>>

\* refreshSession ignores the error, Login and ProvideOTP return it.
WriteSessionFails(p) == /\ pc[p] \in {"truncate", "flush"}
                        /\ Fault
                        /\ IF after[p] \in {"connect", "idle"}
                             THEN /\ Goto(p, after[p])
                                  /\ after' = [after EXCEPT ![p] = "off"]
                                  /\ buf' = [buf EXCEPT ![p] = "none"]
                                  /\ UNCHANGED <<memory, tok, newRefresh>>
                             ELSE Exit("failed")
                        /\ UNCHANGED tokenFiles

(***************************************************************************)
(* AuthService.Login: the refresh token goes along; the server answers     *)
(* with a session, or with a process that asks for the code it sent.       *)
(***************************************************************************)
\* Mutant: the session token of the reply is not stored.
LoginWithoutToken == /\ pc[Main] = "login"
                     /\ IF refresh[app] = "live" THEN Goto(Main, "reconnect") ELSE Goto(Main, "otp")
                     /\ UNCHANGED <<after, memory, tokenFiles, answers, counts>>
Login == /\ pc[Main] = "login"
         /\ IF Granted(refresh[app]) = "live"
              THEN /\ tok' = [tok EXCEPT ![Main] = "live"]
                   /\ after' = [after EXCEPT ![Main] = "reconnect"]
                   /\ Goto(Main, "set")
              ELSE /\ Goto(Main, "otp")
                   /\ UNCHANGED <<tok, after>>
         /\ UNCHANGED <<memory, tokenFiles, newRefresh, buf, counts>>

\* ProvideOTP: both tokens are answered; the session token is stored first.
ProvideOTP == /\ pc[Main] = "otp"
              /\ tok' = [tok EXCEPT ![Main] = "live"]
              /\ newRefresh' = "live"
              /\ after' = [after EXCEPT ![Main] = "setRefresh"]
              /\ Goto(Main, "set")
              /\ UNCHANGED <<memory, tokenFiles, buf, counts>>

LoginFails == /\ pc[Main] \in {"login", "otp"}
              /\ Fault
              /\ Exit("failed")
              /\ UNCHANGED tokenFiles

\* writeRefreshToken.
SetRefresh == /\ pc[Main] = "setRefresh"
              /\ refresh' = [refresh EXCEPT ![app] = newRefresh]
              /\ newRefresh' = "none"
              /\ Goto(Main, "truncateRefresh")
              /\ UNCHANGED <<after, app, apps, session, tokenFiles, tok, buf, counts>>

TruncateRefresh == /\ pc[Main] = "truncateRefresh"
                   /\ refreshFile' = "none"
                   /\ Goto(Main, "flushRefresh")
                   /\ UNCHANGED <<after, memory, sessionFile, answers, counts>>

FlushRefresh == /\ pc[Main] = "flushRefresh"
                /\ refreshFile' = refresh[app]
                /\ Goto(Main, "reconnect")
                /\ UNCHANGED <<after, memory, sessionFile, answers, counts>>

WriteRefreshFails == /\ pc[Main] \in {"truncateRefresh", "flushRefresh"}
                     /\ Fault
                     /\ Exit("failed")
                     /\ UNCHANGED tokenFiles

(***************************************************************************)
(* The environment: the process dies, or the server no longer accepts the  *)
(* tokens it gave, wherever they are.                                      *)
(***************************************************************************)
Crash == /\ Running
         /\ Fault
         /\ Exit("off")
         /\ UNCHANGED tokenFiles

Aged(t) == IF t = "live" THEN "stale" ELSE t

ExpireSessions == /\ expiries < MaxExpiries /\ expiries' = expiries + 1
                  /\ session' = [c \in Clients |-> Aged(session[c])] /\ sessionFile' = Aged(sessionFile)
                  /\ tok' = [p \in Proc |-> Aged(tok[p])]
                  /\ buf' = [p \in Proc |-> Aged(buf[p])]
                  /\ UNCHANGED <<pc, after, app, apps, refresh, refreshFile, newRefresh, ticks, faults>>

ExpireRefresh == /\ expiries < MaxExpiries /\ expiries' = expiries + 1
                 /\ refresh' = [c \in Clients |-> Aged(refresh[c])] /\ refreshFile' = Aged(refreshFile)
                 /\ newRefresh' = Aged(newRefresh)
                 /\ UNCHANGED <<pc, after, app, apps, session, sessionFile, tok, buf, ticks, faults>>

WriteStep(p) == \/ SetSession(p) \/ TruncateSession(p) \/ FlushSession(p) \/ WriteSessionFails(p)
LoginStep == \/ Login \/ ProvideOTP \/ LoginFails
             \/ SetRefresh \/ TruncateRefresh \/ FlushRefresh \/ WriteRefreshFails
TickerStep == \E c \in Clients : RefreshSession(c) \/ RefreshFails(c) \/ WriteStep(c)
MainAuthStep == NewClient \/ RefreshSession(Main) \/ RefreshFails(Main) \/ WriteStep(Main) \/ LoginStep
Expire == ExpireSessions \/ ExpireRefresh

AuthLocations == Stopped \cup {"new", "refresh", "set", "truncate", "flush", "login", "otp", "setRefresh",
                               "truncateRefresh", "flushRefresh", "connect", "reconnect", "idle"}

AuthTypeOK == /\ after \in [Proc -> {"off", "connect", "reconnect", "setRefresh", "idle"}]
              /\ apps \in Clients /\ app \in 1..apps
              /\ session \in [Clients -> Token] /\ refresh \in [Clients -> Token]
              /\ {sessionFile, refreshFile, newRefresh} \subseteq Token
              /\ tok \in [Proc -> Token] /\ buf \in [Proc -> Token]
              /\ ticks \in 0..MaxTicks /\ expiries \in 0..MaxExpiries /\ faults \in 0..MaxFaults
=============================================================================
