------------------------- MODULE TimelineReader_proofs -------------------------
(***************************************************************************)
(* Theorems about TimelineReader, for any number of applications, pages,   *)
(* details requests, ticks, expiries, faults and unasked messages: each    *)
(* request gets its own answer while the server says only what it is asked *)
(* for, a run that ends well skips no page, and nobody is asked for a code *)
(* while the refresh token on disk is accepted.                            *)
(***************************************************************************)
EXTENDS TimelineReader, TLAPS

\* The steps of SessionAuth.
AuthStep == MainAuthStep \/ TickerStep \/ Crash \/ Expire

\* The reader takes a message for the answer to its request.
Taken == Return \/ SkipRefused

\* Where the goroutines are, and where they go on when a token is written.
Writing == {"set", "truncate", "flush"}
Location ==
  /\ pc \in [Proc -> AuthLocations \cup {"sub", "recv"}]
  /\ pc[Main] # "idle"
  /\ pc[Main] \in Writing => after[Main] # "off"
  /\ after[Main] \in {"off", "connect", "reconnect", "setRefresh"}
  /\ \A c \in Clients : /\ pc[c] \in {"off", "idle"} \cup Writing
                        /\ after[c] \in {"off", "idle"}
                        /\ pc[c] \in Writing => after[c] = "idle"
  /\ pc[Main] = "new" => app < apps

\* The request is one of the list or the details; the reader waits for what the
\* server serves.
Reading ==
  /\ request \in 1..Pages + Details + 1
  /\ Running => request \in Requests
  /\ inbox \in Seq(Message)
  /\ serving \subseteq Requests /\ answered \subseteq serving
  /\ results \in Seq([asked : Requests, got : Requests \cup {0}])
  /\ odd \in BOOLEAN /\ refused \in BOOLEAN
  /\ odds \in 0..MaxOdd

\* As long as there is a refresh token on disk that the server accepts, main has it,
\* and a user who is asked for a code has none.
AskedForCode == \/ pc[Main] \in {"otp", "setRefresh"}
                \/ pc[Main] \in Writing /\ after[Main] = "setRefresh"
TokenKept ==
  /\ Running /\ refreshFile = "live" => refresh[app] = "live"
  /\ AskedForCode => refreshFile # "live"

NoneRefused == \A k \in 1..Len(inbox) : inbox[k].kind # "Authentication Error"

\* The server serves what Read asks for, and nothing when Read is about to ask: in the
\* list, and later too as long as nothing unasked for came.
Serves ==
  /\ Running /\ (request <= Pages \/ ~odd) =>
       serving \subseteq {request} /\ (pc[Main] = "sub" => serving = {})
  /\ refused => odd
  /\ Running /\ ~refused => NoneRefused

IsData(k) == inbox[k].kind = "A"
IsError(k) == inbox[k].kind = "other error"
IsAnswer(k) == IsData(k) \/ IsError(k)

\* Without anything unasked for, at most one message is data or an error state, the answer
\* to this request, and a request that was refused is served no longer.
HasAnswer == \E k \in 1..Len(inbox) : IsAnswer(k)
HasError == \E k \in 1..Len(inbox) : IsError(k)
OwnAnswer ==
  /\ request = Len(results) + 1
  /\ \A k \in 1..Len(inbox) : IsAnswer(k) => inbox[k].of = request
  /\ \A j, k \in 1..Len(inbox) : IsAnswer(j) /\ IsAnswer(k) => j = k
OneAnswer ==
  ~odd /\ Running => /\ OwnAnswer
                     /\ HasAnswer => serving \subseteq answered
                     /\ HasError => serving = {}
                     /\ pc[Main] = "sub" => ~HasAnswer

\* The pages under way are this one and the one before, in order.
PagesInOrder ==
  /\ \A k \in 1..Len(inbox) : IsData(k) => inbox[k].of \in {request - 1, request}
  /\ \A j, k \in 1..Len(inbox) : IsData(j) /\ IsData(k) /\ j <= k => inbox[j].of <= inbox[k].of
PagesUnderWay == ~refused /\ Running /\ request <= Pages => PagesInOrder

\* The first reads are those of the list; the last page read is the one before this.
ReadSoFar(last) ==
  /\ \A n \in 1..Len(results) : results[n].asked <= Pages <=> n <= last
  /\ IF last = 0 THEN request = 1
                 ELSE /\ results[1].got = 1
                      /\ results[last].got = IF request <= Pages THEN request - 1 ELSE Pages
  /\ request <= Pages => last = Len(results)
  /\ \A n \in 1..last - 1 : results[n + 1].got \in {results[n].got, results[n].got + 1}
ReadUpToHere == \E last \in 0..Len(results) : ReadSoFar(last)
PagesRead ==
  /\ ~refused /\ (Running \/ pc[Main] = "done") => ReadUpToHere
  /\ pc[Main] = "done" => request > Pages

ReaderInv == /\ AuthTypeOK /\ Location /\ Reading
             /\ TokenKept /\ Serves /\ OneAnswer /\ AnswersAreOwn /\ PagesUnderWay /\ PagesRead

LEMMA Constants ==
  /\ MaxApps \in Nat /\ MaxApps > 0 /\ Pages \in Nat /\ Pages > 0 /\ Details \in Nat
  /\ MaxTicks \in Nat /\ MaxExpiries \in Nat /\ MaxFaults \in Nat /\ MaxOdd \in Nat
  /\ StoredSession \subseteq Token /\ StoredRefresh \subseteq Token
<1>1. /\ MaxApps \in Nat \ {0} /\ StoredSession \cup StoredRefresh \subseteq Token
      /\ {MaxTicks, MaxExpiries, MaxFaults} \subseteq Nat
  BY SessionAssumption DEF SessionAssumption
<1>2. Pages \in Nat \ {0} /\ {Details, MaxOdd, MaxOddApps} \subseteq Nat
  BY ReaderAssumption DEF ReaderAssumption
<1> QED
  BY <1>1, <1>2

\* Main is no client; each goroutine belongs to one.
LEMMA Goroutines ==
  /\ Main \in Proc /\ Main \notin Clients /\ 1 \in Clients
  /\ Proc = {Main} \cup Clients /\ Clients \subseteq Nat
  BY Constants DEF Main, Clients, Proc

LEMMA ClientType == ASSUME AuthTypeOK, NEW p \in Proc PROVE Client(p) \in Clients /\ app \in Clients
  BY Constants DEF AuthTypeOK, Client, Proc, Clients, Main

\* Every step of the session is one of these.
LEMMA AuthSteps ==
  ASSUME AuthStep
  PROVE  \/ NewClient \/ Login \/ ProvideOTP \/ LoginFails
         \/ SetRefresh \/ TruncateRefresh \/ FlushRefresh \/ WriteRefreshFails
         \/ Crash \/ ExpireSessions \/ ExpireRefresh
         \/ \E p \in Proc : \/ RefreshSession(p) \/ RefreshFails(p)
                            \/ SetSession(p) \/ TruncateSession(p) \/ FlushSession(p)
                            \/ WriteSessionFails(p)
<1>1. Main \in Proc /\ \A c \in Clients : c \in Proc
  BY Goroutines
<1> QED
  BY <1>1, Zenon DEF AuthStep, MainAuthStep, TickerStep, Expire, WriteStep, LoginStep

\* Every step is one of these.
LEMMA Steps ==
  ASSUME [Next]_vars
  PROVE  \/ Begin \/ Connect \/ Subscribe \/ ReadContinue \/ ReadUnauthorized \/ ReadError
         \/ Taken \/ ReadFails \/ Answer \/ SayContinue \/ Update \/ RefuseAuth \/ RefuseOther
         \/ AuthStep /\ UNCHANGED readerVars
         \/ UNCHANGED vars
  BY Zenon DEF Next, MainStep, ServerStep, AuthStep, Taken

(***************************************************************************)
(* The tokens have their types.                                            *)
(***************************************************************************)
LEMMA ExitType == ASSUME NEW l, Exit(l), UNCHANGED tokenFiles, AuthTypeOK,
                         ticks' \in 0..MaxTicks, expiries' \in 0..MaxExpiries, faults' \in 0..MaxFaults
                  PROVE  AuthTypeOK'
<1>1. 1 \in Clients /\ 1 \in 1..1
  BY Goroutines
<1> QED
  BY <1>1, Zenon DEF Exit, AuthTypeOK, tokenFiles, NoProcess, NoTokens, NoAnswers, Token

LEMMA FaultType == ASSUME AuthTypeOK, Fault
                   PROVE  /\ ticks' \in 0..MaxTicks /\ expiries' \in 0..MaxExpiries
                          /\ faults' \in 0..MaxFaults
  BY Constants DEF AuthTypeOK, Fault

LEMMA AgedType == \A t \in Token : Aged(t) \in Token
  BY DEF Aged, Token

LEMMA ReadType == ASSUME AuthTypeOK, NEW p \in Proc
                  PROVE  /\ SessionRead(p) \subseteq Token
                         /\ \A t \in Token : Granted(t) \in Token
  BY ClientType DEF AuthTypeOK, SessionRead, Granted, Token

LEMMA AuthTypeStep ==
  ASSUME AuthTypeOK, Location, AuthStep
  PROVE  AuthTypeOK'
<1> USE DEF AuthTypeOK
<1>1. CASE NewClient
  <2>1. app' \in 1..apps /\ app' \in Clients
    BY <1>1, Constants DEF NewClient, Location, Clients
  <2> QED
    BY <1>1, <2>1 DEF NewClient, Load, tokenFiles, answers, counts
<1>2. CASE Login
  BY <1>2, Goroutines DEF Login, Token, memory, tokenFiles, counts
<1>3. CASE ProvideOTP
  BY <1>3, Goroutines DEF ProvideOTP, Token, memory, tokenFiles, counts
<1>4. CASE LoginFails
  BY <1>4, FaultType, ExitType DEF LoginFails
<1>5. CASE SetRefresh
  BY <1>5, ClientType DEF SetRefresh, Token, tokenFiles, counts
<1>6. CASE TruncateRefresh
  BY <1>6 DEF TruncateRefresh, Token, memory, answers, counts
<1>7. CASE FlushRefresh
  BY <1>7, ClientType, Goroutines DEF FlushRefresh, memory, answers, counts
<1>8. CASE WriteRefreshFails
  BY <1>8, FaultType, ExitType DEF WriteRefreshFails
<1>9. CASE Crash
  BY <1>9, FaultType, ExitType DEF Crash
<1>10. CASE ExpireSessions
  BY <1>10, AgedType, Constants DEF ExpireSessions
<1>11. CASE ExpireRefresh
  BY <1>11, AgedType, Constants DEF ExpireRefresh
<1>12. ASSUME NEW p \in Proc, RefreshSession(p) PROVE AuthTypeOK'
  <2>1. RefreshRead(p) \subseteq Token
    BY ClientType DEF RefreshRead, Token
  <2>2. \A t \in Token : Granted(t) \in Token
    BY ReadType
  <2>3. tok' \in [Proc -> Token]
    BY <1>12, <2>1, <2>2 DEF RefreshSession
  <2>4. after' \in [Proc -> {"off", "connect", "reconnect", "setRefresh", "idle"}]
    BY <1>12 DEF RefreshSession, Refreshing
  <2>5. ticks' \in 0..MaxTicks
    BY <1>12, Constants DEF RefreshSession
  <2> QED
    BY <1>12, <2>3, <2>4, <2>5 DEF RefreshSession, memory, tokenFiles
<1>13. ASSUME NEW p \in Proc, RefreshFails(p) PROVE AuthTypeOK'
  BY <1>13, FaultType DEF RefreshFails, Refreshing, Token, memory, tokenFiles
<1>14. ASSUME NEW p \in Proc, SetSession(p) PROVE AuthTypeOK'
  BY <1>14, ClientType DEF SetSession, Token, tokenFiles, counts
<1>15. ASSUME NEW p \in Proc, TruncateSession(p) PROVE AuthTypeOK'
  <2>1. SessionRead(p) \subseteq Token
    BY ReadType
  <2> QED
    BY <1>15, <2>1 DEF TruncateSession, Token, memory, counts
<1>16. ASSUME NEW p \in Proc, FlushSession(p) PROVE AuthTypeOK'
  BY <1>16 DEF FlushSession, Token, memory, counts
<1>17. ASSUME NEW p \in Proc, WriteSessionFails(p) PROVE AuthTypeOK'
  <2>1. CASE after[p] \in {"connect", "idle"}
    BY <1>17, <2>1, FaultType DEF WriteSessionFails, Token, memory, tokenFiles
  <2>2. CASE after[p] \notin {"connect", "idle"}
    BY <1>17, <2>2, FaultType, ExitType DEF WriteSessionFails
  <2> QED
    BY <2>1, <2>2
<1> QED
  BY AuthSteps, <1>1, <1>2, <1>3, <1>4, <1>5, <1>6, <1>7, <1>8, <1>9, <1>10, <1>11, <1>12,
     <1>13, <1>14, <1>15, <1>16, <1>17

LEMMA ReaderAuthType ==
  ASSUME AuthTypeOK, Location, [Next]_vars, ~AuthStep
  PROVE  AuthTypeOK'
<1>1. CASE Begin
  <2>1. 1 \in Clients
    BY Goroutines
  <2>2. app' \in 1..apps' /\ apps' \in Clients
    BY <1>1, <2>1 DEF Begin, Start, Clients
  <2> QED
    BY <1>1, <2>2 DEF Begin, Start, Load, NoTokens, AuthTypeOK, tokenFiles, answers, counts, Token
<1>2. CASE Connect \/ Subscribe \/ ReadUnauthorized
  BY <1>2 DEF Connect, Subscribe, ReadUnauthorized, AuthTypeOK, memory, tokenFiles, answers, counts
<1>3. CASE \/ ReadContinue \/ Answer \/ SayContinue \/ Update \/ RefuseAuth \/ RefuseOther
           \/ UNCHANGED vars
  <2>1. UNCHANGED authVars
    BY <1>3, Zenon DEF ReadContinue, Answer, SayContinue, Update, Unasked, RefuseAuth, RefuseOther, Say, vars
  <2> QED
    BY <2>1 DEF authVars, AuthTypeOK, memory, tokenFiles, answers, counts
<1>4. CASE ReadError \/ ReadFails
  <2>1. ticks' \in 0..MaxTicks /\ expiries' \in 0..MaxExpiries /\ faults' \in 0..MaxFaults
    BY <1>4, FaultType DEF ReadError, ReadFails, counts, AuthTypeOK
  <2> QED
    BY <1>4, <2>1, ExitType DEF ReadError, ReadFails
<1>5. CASE Taken
  <2>1. UNCHANGED <<tokenFiles, counts>>
    BY <1>5 DEF Taken, Return, SkipRefused
  <2>2. CASE Exit("done")
    BY <2>1, <2>2, ExitType DEF counts, AuthTypeOK
  <2>3. CASE UNCHANGED <<after, memory, answers>>
    BY <2>1, <2>3 DEF counts, AuthTypeOK, memory, answers, tokenFiles
  <2> QED
    BY <1>5, <2>2, <2>3 DEF Taken, Return, SkipRefused, Proceed
<1> QED
  BY Steps, <1>1, <1>2, <1>3, <1>4, <1>5

LEMMA AuthType == AuthTypeOK /\ Location /\ [Next]_vars => AuthTypeOK'
  BY AuthTypeStep, ReaderAuthType

(***************************************************************************)
(* Where the goroutines are.                                               *)
(***************************************************************************)
\* A process that ends leaves no goroutine.
LEMMA ExitLocation ==
  ASSUME NEW l \in Stopped, Exit(l)
  PROVE  Location' /\ pc'[Main] = l /\ \A c \in Clients : pc'[c] = "off"
  BY Goroutines DEF Exit, NoProcess, Location, AuthLocations, Stopped, Writing

\* A goroutine that goes on within its own locations.
LEMMA MainLocation ==
  ASSUME Location, NEW l \in (AuthLocations \cup {"sub", "recv"}) \ {"idle"}, Goto(Main, l),
         \A c \in Clients : after'[c] = after[c],
         after'[Main] \in {"off", "connect", "reconnect", "setRefresh"},
         l \in Writing => after'[Main] # "off",
         l = "new" => app' < apps'
  PROVE  Location'
  BY Goroutines DEF Location, Goto

LEMMA ClientLocation ==
  ASSUME Location, NEW c \in Clients, NEW l \in {"idle"} \cup Writing, Goto(c, l),
         \A p \in Proc \ {c} : after'[p] = after[p],
         after'[c] \in {"off", "idle"}, l \in Writing => after'[c] = "idle",
         UNCHANGED <<app, apps>>
  PROVE  Location'
  BY Goroutines DEF Location, Goto, AuthLocations, Writing

LEMMA LocationAuthStep ==
  ASSUME AuthTypeOK, Location, AuthStep
  PROVE  Location'
<1>1. CASE NewClient
  <2>1. app + 1 \in Clients /\ app + 1 # Main
    BY <1>1, Constants, Goroutines DEF NewClient, Location, AuthTypeOK, Clients
  <2>2. pc' = [pc EXCEPT ![Main] = "refresh", ![app + 1] = "idle"] /\ UNCHANGED after
    BY <1>1 DEF NewClient
  <2> QED
    BY <2>1, <2>2, Goroutines DEF Location, AuthLocations, Writing
<1>2. CASE Login
  <2>1. CASE Granted(refresh[app]) = "live"
    BY <1>2, <2>1, MainLocation, Goroutines DEF Login, AuthLocations, AuthTypeOK
  <2>2. CASE Granted(refresh[app]) # "live"
    BY <1>2, <2>2, MainLocation, Goroutines DEF Login, AuthLocations, Location, Writing
  <2> QED
    BY <2>1, <2>2
<1>3. CASE ProvideOTP
  BY <1>3, MainLocation, Goroutines DEF ProvideOTP, AuthLocations, AuthTypeOK
<1>4. CASE LoginFails
  BY <1>4, ExitLocation DEF LoginFails, Stopped
<1>5. CASE SetRefresh
  BY <1>5, MainLocation, Goroutines DEF SetRefresh, AuthLocations, Location, Writing
<1>6. CASE TruncateRefresh
  BY <1>6, MainLocation, Goroutines DEF TruncateRefresh, AuthLocations, Location, Writing
<1>7. CASE FlushRefresh
  BY <1>7, MainLocation, Goroutines DEF FlushRefresh, AuthLocations, Location, Writing
<1>8. CASE WriteRefreshFails
  BY <1>8, ExitLocation DEF WriteRefreshFails, Stopped
<1>9. CASE Crash
  BY <1>9, ExitLocation DEF Crash, Stopped
<1>10. CASE ExpireSessions \/ ExpireRefresh
  BY <1>10 DEF ExpireSessions, ExpireRefresh, Location
<1>11. ASSUME NEW p \in Proc, \/ RefreshSession(p) \/ RefreshFails(p) \/ SetSession(p)
                              \/ TruncateSession(p) \/ FlushSession(p) \/ WriteSessionFails(p)
       PROVE  Location'
  <2>1. CASE RefreshSession(p) \/ RefreshFails(p)
    <3>1. /\ Goto(p, "set") /\ UNCHANGED <<app, apps>>
          /\ after' = [after EXCEPT ![p] = IF p = Main THEN "connect" ELSE "idle"]
      BY <2>1, Zenon DEF RefreshSession, RefreshFails, Refreshing, memory
    <3>2. CASE p = Main
      BY <3>1, <3>2, MainLocation, Goroutines DEF AuthLocations, AuthTypeOK
    <3>3. CASE p \in Clients
      BY <3>1, <3>3, ClientLocation, Goroutines DEF Writing, AuthTypeOK
    <3> QED
      BY <3>2, <3>3, Goroutines
  <2>2. CASE SetSession(p) \/ TruncateSession(p)
    <3>1. PICK l \in {"truncate", "flush"} : Goto(p, l)
      BY <2>2 DEF SetSession, TruncateSession
    <3>2. UNCHANGED <<after, app, apps>> /\ pc[p] \in Writing
      BY <2>2 DEF SetSession, TruncateSession, memory, Writing
    <3>3. CASE p = Main
      BY <3>1, <3>2, <3>3, MainLocation DEF AuthLocations, Location
    <3>4. CASE p \in Clients
      BY <3>1, <3>2, <3>4, ClientLocation DEF Location, Writing
    <3> QED
      BY <3>3, <3>4, Goroutines
  <2>3. CASE \/ FlushSession(p)
             \/ WriteSessionFails(p) /\ after[p] \in {"connect", "idle"}
    <3>1. /\ Goto(p, after[p]) /\ after' = [after EXCEPT ![p] = "off"]
          /\ UNCHANGED <<app, apps>> /\ pc[p] \in Writing
      BY <2>3 DEF FlushSession, WriteSessionFails, memory, Writing
    <3>2. CASE p = Main
      <4>1. after[Main] \in {"connect", "reconnect", "setRefresh"}
        BY <3>1, <3>2 DEF Location
      <4> QED
        BY <3>1, <3>2, <4>1, MainLocation, Goroutines DEF AuthLocations, AuthTypeOK, Writing
    <3>3. CASE p \in Clients
      <4>1. after[p] = "idle"
        BY <3>1, <3>3 DEF Location
      <4> QED
        BY <3>1, <3>3, <4>1, ClientLocation, Goroutines DEF AuthTypeOK, Writing
    <3> QED
      BY <3>2, <3>3, Goroutines
  <2>4. CASE WriteSessionFails(p) /\ after[p] \notin {"connect", "idle"}
    BY <2>4, ExitLocation DEF WriteSessionFails, Stopped
  <2> QED
    BY <1>11, <2>1, <2>2, <2>3, <2>4
<1> QED
  BY AuthSteps, <1>1, <1>2, <1>3, <1>4, <1>5, <1>6, <1>7, <1>8, <1>9, <1>10, <1>11

LEMMA LocationStep == AuthTypeOK /\ Location /\ [Next]_vars => Location'
<1> SUFFICES ASSUME AuthTypeOK, Location, [Next]_vars
             PROVE  Location'
  OBVIOUS
<1>1. CASE Begin
  BY <1>1, Goroutines DEF Begin, Start, NoProcess, Location, AuthLocations, Writing, Stopped
<1>2. CASE Connect
  <2>1. PICK l \in {"new", "sub"} : Goto(Main, l) /\ (l = "new" => app < apps)
    BY <1>2, Zenon DEF Connect
  <2>2. UNCHANGED <<after, app, apps>>
    BY <1>2 DEF Connect, memory
  <2> QED
    BY <2>1, <2>2, MainLocation DEF AuthLocations, Location, Writing
<1>3. CASE Subscribe \/ ReadUnauthorized
  <2>1. PICK l \in {"recv", "login"} : Goto(Main, l)
    BY <1>3 DEF Subscribe, ReadUnauthorized
  <2>2. UNCHANGED <<after, app, apps>>
    BY <1>3 DEF Subscribe, ReadUnauthorized, memory
  <2> QED
    BY <2>1, <2>2, MainLocation DEF AuthLocations, Location, Writing
<1>4. CASE ReadError \/ ReadFails
  BY <1>4, ExitLocation DEF ReadError, ReadFails, Stopped
<1>5. CASE Taken
  <2>1. CASE Exit("done")
    BY <2>1, ExitLocation DEF Stopped
  <2>2. CASE Goto(Main, "sub") /\ UNCHANGED <<after, memory, answers>>
    BY <2>2, MainLocation DEF AuthLocations, Location, Writing, memory
  <2> QED
    BY <1>5, <2>1, <2>2 DEF Taken, Return, SkipRefused, Proceed
<1>6. CASE \/ ReadContinue \/ Answer \/ SayContinue \/ Update \/ RefuseAuth \/ RefuseOther
           \/ UNCHANGED vars
  <2>1. UNCHANGED <<pc, after, app, apps>>
    BY <1>6 DEF ReadContinue, Answer, SayContinue, Update, Unasked, RefuseAuth, RefuseOther, Say,
                vars, authVars, memory
  <2> QED
    BY <2>1 DEF Location
<1> QED
  BY Steps, LocationAuthStep, <1>1, <1>2, <1>3, <1>4, <1>5, <1>6

\* A step of the session starts no run, ends none well, and neither asks nor reads.
LEMMA AuthFrame ==
  ASSUME AuthTypeOK, Location, AuthStep
  PROVE  /\ Running' => Running
         /\ pc'[Main] \in {"sub", "recv", "done"} => pc'[Main] = pc[Main]
<1> USE DEF Running, Stopped
<1>1. CASE NewClient
  BY <1>1, Goroutines DEF NewClient, Location, Clients
<1>2. CASE Login \/ ProvideOTP \/ SetRefresh \/ TruncateRefresh \/ FlushRefresh
  <2>1. pc[Main] \in {"login", "otp", "setRefresh", "truncateRefresh", "flushRefresh"}
    BY <1>2 DEF Login, ProvideOTP, SetRefresh, TruncateRefresh, FlushRefresh
  <2>2. PICK l \in {"set", "otp", "truncateRefresh", "flushRefresh", "reconnect"} : Goto(Main, l)
    BY <1>2 DEF Login, ProvideOTP, SetRefresh, TruncateRefresh, FlushRefresh
  <2> QED
    BY <2>1, <2>2, Goroutines DEF Goto, Location
<1>3. CASE LoginFails \/ WriteRefreshFails \/ Crash
  <2>1. Exit("failed") \/ (Exit("off") /\ Running)
    BY <1>3 DEF LoginFails, WriteRefreshFails, Crash
  <2>2. pc'[Main] = "failed" \/ pc'[Main] = "off"
    BY <2>1, ExitLocation
  <2> QED
    BY <2>2
<1>4. CASE ExpireSessions \/ ExpireRefresh
  BY <1>4 DEF ExpireSessions, ExpireRefresh
<1>5. ASSUME NEW p \in Proc, \/ RefreshSession(p) \/ RefreshFails(p) \/ SetSession(p)
                             \/ TruncateSession(p) \/ FlushSession(p) \/ WriteSessionFails(p)
      PROVE  /\ Running' => Running
             /\ pc'[Main] \in {"sub", "recv", "done"} => pc'[Main] = pc[Main]
  <2>1. CASE Exit("failed")
    <3>1. pc'[Main] = "failed"
      BY <2>1, ExitLocation
    <3> QED
      BY <3>1
  <2>2. CASE ~Exit("failed")
    <3>1. PICK l \in {"set", "truncate", "flush", after[p]} :
               Goto(p, l) /\ pc[p] \in {"refresh", "idle"} \cup Writing
      BY <1>5, <2>2, Zenon DEF RefreshSession, RefreshFails, Refreshing, SetSession,
         TruncateSession, FlushSession, WriteSessionFails, Writing
    <3>2. CASE p = Main
      <4>1. pc[Main] \notin {"off", "done", "failed"} /\ pc' = [pc EXCEPT ![Main] = l]
        BY <3>1, <3>2 DEF Location, Goto, Writing
      <4>2. l \notin {"sub", "recv", "done"}
        BY <3>1, <3>2 DEF Location
      <4> QED
        BY <4>1, <4>2, Goroutines DEF Location
    <3>3. CASE p \in Clients
      BY <3>1, <3>3, Goroutines DEF Goto
    <3> QED
      BY <3>2, <3>3, Goroutines
  <2> QED
    BY <2>1, <2>2
<1> QED
  BY AuthSteps, <1>1, <1>2, <1>3, <1>4, <1>5

(***************************************************************************)
(* The reader's variables have their types.                                *)
(***************************************************************************)
LEMMA Messages ==
  /\ \A r \in Requests : Data(r) \in Message /\ Refusal(r) \in Message
  /\ Continue \in Message /\ Unauthorized \in Message /\ AuthError \in Message
  /\ \A m \in Message : /\ m.of \in Requests \cup {0}
                        /\ m.kind \in {"A", "other error"} => m.of \in Requests
                        /\ m.kind = "Authentication Error" => m = AuthError
<1> DEFINE Other == {Continue, Unauthorized, AuthError}
           Own(r) == {Data(r), Refusal(r)}
           Owns == {Own(r) : r \in Requests}
<1>0. Message = (UNION Owns) \cup Other
  BY Zenon DEF Message
<1>1. ASSUME NEW r \in Requests PROVE Data(r) \in Message /\ Refusal(r) \in Message
  BY Zenon DEF Message
<1>2. Continue \in Message /\ Unauthorized \in Message /\ AuthError \in Message
  <2>1. Continue \in Other /\ Unauthorized \in Other /\ AuthError \in Other
    OBVIOUS
  <2> HIDE DEF Other, Owns
  <2>2. ASSUME NEW S, NEW T, NEW x \in T PROVE x \in S \cup T
    OBVIOUS
  <2>3. \A x \in Other : x \in (UNION Owns) \cup Other
    BY <2>2, Zenon
  <2> QED
    BY <1>0, <2>1, <2>3, Zenon
<1>3. ASSUME NEW m \in Message
      PROVE  /\ m.of \in Requests \cup {0}
             /\ m.kind \in {"A", "other error"} => m.of \in Requests
             /\ m.kind = "Authentication Error" => m = AuthError
  <2>1. CASE m \in {Continue, Unauthorized, AuthError}
    <3>1. /\ Continue.of = 0 /\ Unauthorized.of = 0 /\ AuthError.of = 0
          /\ Continue.kind = "C" /\ Unauthorized.kind = "Unauthorized"
          /\ AuthError.kind = "Authentication Error"
      BY DEF Continue, Unauthorized, AuthError
    <3> QED
      BY <2>1, <3>1
  <2>2. ASSUME NEW r \in Requests, m \in {Data(r), Refusal(r)}
        PROVE  m.of \in Requests /\ m.kind # "Authentication Error"
    <3>1. /\ Data(r).of = r /\ Refusal(r).of = r
          /\ Data(r).kind = "A" /\ Refusal(r).kind = "other error"
      BY DEF Data, Refusal
    <3> QED
      BY <2>2, <3>1
  <2>3. m \in {Continue, Unauthorized, AuthError} \/ \E r \in Requests : m \in {Data(r), Refusal(r)}
    <3>1. m \in Other \/ \E S \in Owns : m \in S
      <4> HIDE DEF Other, Owns
      <4>1. m \in (UNION Owns) \cup Other
        BY <1>0, <1>3, Zenon
      <4>2. m \in UNION Owns \/ m \in Other
        BY <4>1, Zenon
      <4> QED
        BY <4>2, Zenon
    <3>2. \A S \in Owns : \E r \in Requests : S = Own(r)
      BY Zenon
    <3>3. (\E S \in Owns : m \in S) => \E r \in Requests : m \in Own(r)
      <4> HIDE DEF Own, Owns
      <4> QED
        BY <3>2, Zenon
    <3> QED
      BY <3>1, <3>3, Zenon
  <2> QED
    BY <2>1, <2>2, <2>3, Zenon
<1> QED
  BY <1>1, <1>2, <1>3

\* What the sequences of the reader hold.
LEMMA Sequenced ==
  ASSUME NEW S
  PROVE  /\ <<>> \in Seq(S)
         /\ \A s \in Seq(S) : s # <<>> => Head(s) \in S /\ Tail(s) \in Seq(S)
         /\ \A s \in Seq(S) : \A e \in S : Append(s, e) \in Seq(S)
  OBVIOUS

LEMMA NextRequestType ==
  ASSUME request \in Requests, NEW got \in Requests \cup {0}
  PROVE  NextRequest(got) \in 1..Pages + Details + 1
  BY Constants DEF NextRequest, Requests

\* What the reader has after it took a message for the answer.
LEMMA Returned ==
  ASSUME Reading, Taken
  PROVE  /\ pc[Main] = "recv" /\ inbox # <<>> /\ Head(inbox) \in Message
         /\ \/ /\ Head(inbox).kind \in {"A", "Authentication Error"}
               /\ serving' = serving \ {request} /\ answered' = answered \ {request}
            \/ /\ Head(inbox).kind = "other error" /\ request > Pages
               /\ UNCHANGED <<serving, answered>>
         /\ inbox' = Tail(inbox) \/ inbox' = Append(Tail(inbox), Continue)
         /\ results' = Append(results, [asked |-> request, got |-> Head(inbox).of])
         /\ request' = NextRequest(Head(inbox).of)
         /\ UNCHANGED <<tokenFiles, counts, server>>
         /\ IF request' \in Requests THEN Goto(Main, "sub") /\ UNCHANGED <<after, memory, answers>>
                                     ELSE Exit("done")
<1>1. Head(inbox) \in Message
  BY Sequenced DEF Reading, Taken, Return, SkipRefused, Arrived
<1>2. CASE Return
  BY <1>1, <1>2, Zenon DEF Return, Arrived, Unsubscribe, Proceed
<1>3. CASE SkipRefused
  <2>1. request > Pages /\ request' = request + 1 /\ Head(inbox).kind = "other error"
    BY <1>3 DEF SkipRefused, Arrived
  <2>2. request' = NextRequest(Head(inbox).of)
    BY <2>1, Zenon DEF NextRequest
  <2> QED
    BY <1>1, <1>3, <2>1, <2>2, Zenon DEF SkipRefused, Arrived, Proceed
<1> QED
  BY <1>2, <1>3 DEF Taken

LEMMA ReadingStep == AuthTypeOK /\ Location /\ Reading /\ [Next]_vars => Reading'
<1> SUFFICES ASSUME AuthTypeOK, Location, Reading, [Next]_vars
             PROVE  Reading'
  OBVIOUS
<1> USE DEF Reading
<1>1. CASE Begin
  <2>1. 1 \in Requests /\ 1 \in 1..Pages + Details + 1
    BY Constants DEF Requests
  <2>2. /\ request' = 1 /\ inbox' = <<>> /\ serving' = {} /\ answered' = {}
        /\ results' = <<>> /\ odd' = FALSE /\ refused' = FALSE /\ odds' = odds
    BY <1>1 DEF Begin
  <2> QED
    BY <2>1, <2>2, Sequenced
<1>2. CASE Connect
  <2>1. Running /\ inbox' = <<>> /\ serving' = {} /\ answered' = {}
    BY <1>2 DEF Connect, Running, Stopped
  <2> QED
    BY <1>2, <2>1, Sequenced DEF Connect, server
<1>3. CASE Subscribe
  <2>1. request \in Requests
    BY <1>3 DEF Subscribe, Running, Stopped
  <2>2. inbox' \in Seq(Message) /\ serving' \subseteq Requests /\ answered' \subseteq serving'
    <3>1. Append(inbox, Unauthorized) \in Seq(Message)
      BY Messages, Sequenced
    <3>2. /\ answered' = answered
          /\ \/ serving' = serving \cup {request} /\ inbox' = inbox
             \/ inbox' = Append(inbox, Unauthorized) /\ serving' = serving
      BY <1>3, Zenon DEF Subscribe
    <3> QED
      BY <2>1, <3>1, <3>2
  <2> QED
    BY <1>3, <2>1, <2>2 DEF Subscribe, server
<1>4. CASE ReadContinue
  BY <1>4 DEF ReadContinue, Arrived, server, authVars, Running
<1>5. CASE ReadUnauthorized
  <2>1. request \in Requests
    BY <1>5 DEF ReadUnauthorized, Arrived, Running, Stopped
  <2> QED
    BY <1>5, <2>1 DEF ReadUnauthorized, Arrived, server
<1>6. CASE ReadError \/ ReadFails
  <2>1. pc'[Main] = "failed"
    BY <1>6, ExitLocation DEF ReadError, ReadFails, Stopped
  <2> QED
    BY <1>6, <2>1 DEF ReadError, ReadFails, readerVars, Running, Stopped
<1>7. CASE Taken
  <2>1. request \in Requests
    BY <1>7, Returned DEF Running, Stopped
  <2>2. Head(inbox).of \in Requests \cup {0}
    BY <1>7, Returned, Messages
  <2>3. request' \in 1..Pages + Details + 1
    BY <1>7, Returned, <2>1, <2>2, NextRequestType
  <2>4. Running' => request' \in Requests
    BY <1>7, Returned, ExitLocation DEF Running, Stopped
  <2>5. inbox' \in Seq(Message)
    <3>1. Tail(inbox) \in Seq(Message) /\ Continue \in Message
      BY <1>7, Returned, Messages, Sequenced
    <3>2. Append(Tail(inbox), Continue) \in Seq(Message)
      BY <3>1
    <3>3. inbox' = Tail(inbox) \/ inbox' = Append(Tail(inbox), Continue)
      BY <1>7, Returned
    <3> QED
      BY <3>1, <3>2, <3>3, Zenon
  <2>6. results' \in Seq([asked : Requests, got : Requests \cup {0}])
    <3>1. [asked |-> request, got |-> Head(inbox).of] \in [asked : Requests, got : Requests \cup {0}]
      BY <2>1, <2>2
    <3>2. results' = Append(results, [asked |-> request, got |-> Head(inbox).of])
      BY <1>7, Returned
    <3>3. results \in Seq([asked : Requests, got : Requests \cup {0}])
      OBVIOUS
    <3> QED
      BY <3>1, <3>2, <3>3, Sequenced, Zenon
  <2>7. serving' \subseteq Requests /\ answered' \subseteq serving'
    BY <1>7, Returned
  <2> QED
    BY <1>7, Returned, <2>3, <2>4, <2>5, <2>6, <2>7 DEF server
<1>8. CASE Answer \/ SayContinue \/ Update \/ RefuseAuth \/ RefuseOther
  <2>1. PICK m \in Message : inbox' = Append(inbox, m)
    BY <1>8, Messages, Zenon DEF Answer, SayContinue, Update, Unasked, RefuseAuth, RefuseOther, Say
  <2>2. inbox' \in Seq(Message)
    BY <2>1, Sequenced
  <2>3. serving' \subseteq Requests /\ answered' \subseteq serving'
    BY <1>8 DEF Answer, SayContinue, Update, Unasked, RefuseAuth, RefuseOther
  <2>4. UNCHANGED <<pc, request, results>>
    BY <1>8, Zenon DEF Answer, SayContinue, Update, Unasked, RefuseAuth, RefuseOther, Say, authVars
  <2>5. odds' \in 0..MaxOdd
    BY <1>8, Constants DEF Answer, SayContinue, Update, Unasked, RefuseAuth, RefuseOther, server
  <2>6. odd' \in BOOLEAN /\ refused' \in BOOLEAN
    BY <1>8, Zenon DEF Answer, SayContinue, Update, Unasked, RefuseAuth, RefuseOther, server
  <2> QED
    BY <2>2, <2>3, <2>4, <2>5, <2>6, Zenon DEF Running
<1>9. CASE AuthStep /\ UNCHANGED readerVars
  BY <1>9, AuthFrame DEF readerVars
<1>10. CASE UNCHANGED vars
  BY <1>10 DEF vars, authVars, readerVars, Running
<1> QED
  BY Steps, <1>1, <1>2, <1>3, <1>4, <1>5, <1>6, <1>7, <1>8, <1>9, <1>10

LEMMA TypesInit == Init => AuthTypeOK /\ Location /\ Reading
<1> SUFFICES ASSUME Init PROVE AuthTypeOK /\ Location /\ Reading
  OBVIOUS
<1>1. 1 \in Clients /\ 1 \in 1..1
  BY Goroutines
<1>2. StoredSession \subseteq Token /\ StoredRefresh \subseteq Token
  BY Constants
<1>3. AuthTypeOK
  BY <1>1, <1>2, Constants DEF Init, AuthInit, AuthTypeOK, NoProcess, NoTokens, NoAnswers, Token
<1>4. Location
  BY Goroutines DEF Init, AuthInit, Location, NoProcess, AuthLocations, Writing, Stopped
<1>5. Reading
  <2>1. 1 \in Requests /\ 1 \in 1..Pages + Details + 1 /\ 0 \in 0..MaxOdd
    BY Constants DEF Requests
  <2> QED
    BY <2>1, Sequenced DEF Init, Reading
<1> QED
  BY <1>3, <1>4, <1>5

(***************************************************************************)
(* Main has the refresh token that is on disk.                             *)
(***************************************************************************)
LEMMA TokenEnds == ASSUME pc'[Main] \in Stopped PROVE TokenKept'
  BY DEF Stopped, TokenKept, Running, AskedForCode, Writing

LEMMA TokenQuiet ==
  ASSUME TokenKept, UNCHANGED <<refresh, refreshFile, app>>, Running' => Running,
         AskedForCode' => AskedForCode
  PROVE  TokenKept'
  BY DEF TokenKept

LEMMA TokenAuthStep ==
  ASSUME AuthTypeOK, Location, TokenKept, AuthStep
  PROVE  TokenKept'
<1>0. Main \in Proc /\ pc \in [Proc -> AuthLocations \cup {"sub", "recv"}] /\ app \in Clients
  BY Goroutines, ClientType DEF Location
<1>1. CASE NewClient
  <2>1. refresh' = [refresh EXCEPT ![app + 1] = refreshFile] /\ app' = app + 1
        /\ refreshFile' = refreshFile /\ pc' = [pc EXCEPT ![Main] = "refresh", ![app'] = "idle"]
    BY <1>1, Zenon DEF NewClient, Load, tokenFiles
  <2>2. app + 1 \in Clients /\ Main # app + 1
    BY <1>1, Constants, Goroutines DEF NewClient, Location, AuthTypeOK, Clients
  <2>3. pc'[Main] = "refresh"
    BY <1>0, <2>1, <2>2
  <2> QED
    BY <2>1, <2>2, <2>3 DEF TokenKept, AskedForCode, AuthTypeOK, Writing
<1>2. CASE Login
  <2>1. UNCHANGED <<refresh, refreshFile, app>> /\ Running
    BY <1>2 DEF Login, memory, tokenFiles, Running, Stopped
  <2>2. CASE Granted(refresh[app]) = "live"
    <3>1. pc'[Main] = "set" /\ after'[Main] = "reconnect"
      BY <1>0, <1>2, <2>2 DEF Login, Goto, AuthTypeOK
    <3> QED
      BY <2>1, <3>1 DEF TokenKept, AskedForCode
  <2>3. CASE Granted(refresh[app]) # "live"
    <3>1. refresh[app] # "live"
      BY <2>3 DEF Granted
    <3> QED
      BY <2>1, <3>1 DEF TokenKept
  <2> QED
    BY <2>2, <2>3
<1>3. CASE ProvideOTP
  BY <1>3, TokenQuiet DEF ProvideOTP, memory, tokenFiles, AskedForCode, Running, Stopped
<1>4. CASE LoginFails \/ WriteRefreshFails \/ Crash
  <2>1. PICK l \in Stopped : Exit(l)
    BY <1>4 DEF LoginFails, WriteRefreshFails, Crash, Stopped
  <2> QED
    BY <2>1, ExitLocation, TokenEnds
<1>5. CASE SetRefresh
  <2>1. refreshFile # "live" /\ refreshFile' = refreshFile /\ pc'[Main] = "truncateRefresh"
    BY <1>0, <1>5 DEF SetRefresh, Goto, TokenKept, AskedForCode, tokenFiles
  <2> QED
    BY <2>1 DEF TokenKept
<1>6. CASE TruncateRefresh
  BY <1>6 DEF TruncateRefresh, TokenKept
<1>7. CASE FlushRefresh
  <2>1. refreshFile' = refresh[app] /\ UNCHANGED <<refresh, app>> /\ pc'[Main] = "reconnect"
    BY <1>0, <1>7 DEF FlushRefresh, Goto, memory
  <2> QED
    BY <2>1 DEF TokenKept, AskedForCode, Writing
<1>8. CASE ExpireSessions
  BY <1>8, TokenQuiet DEF ExpireSessions, Running, AskedForCode
<1>9. CASE ExpireRefresh
  <2>1. refreshFile' # "live"
    BY <1>9 DEF ExpireRefresh, Aged
  <2> QED
    BY <2>1 DEF TokenKept
<1>10. ASSUME NEW p \in Proc, \/ RefreshSession(p) \/ RefreshFails(p) \/ SetSession(p)
                              \/ TruncateSession(p) \/ FlushSession(p) \/ WriteSessionFails(p)
       PROVE  TokenKept'
  <2>1. CASE Exit("failed")
    BY <2>1, ExitLocation, TokenEnds DEF Stopped
  <2>2. CASE ~Exit("failed")
    <3>1. UNCHANGED <<refresh, refreshFile, app>>
      BY <1>10, <2>2 DEF RefreshSession, RefreshFails, SetSession, TruncateSession, FlushSession,
         WriteSessionFails, memory, tokenFiles
    <3>2. Running' => Running
      BY AuthFrame
    <3>3. AskedForCode' => AskedForCode
      <4>1. CASE RefreshSession(p) \/ RefreshFails(p)
        <5>1. Goto(p, "set") /\ after' = [after EXCEPT ![p] = IF p = Main THEN "connect" ELSE "idle"]
          BY <4>1, Zenon DEF RefreshSession, RefreshFails, Refreshing
        <5> QED
          BY <1>0, <5>1 DEF Goto, AuthTypeOK, AskedForCode, Writing
      <4>2. CASE SetSession(p) \/ TruncateSession(p)
        <5>1. (Goto(p, "truncate") \/ Goto(p, "flush")) /\ pc[p] \in Writing /\ UNCHANGED after
          BY <4>2 DEF SetSession, TruncateSession, Writing
        <5> QED
          BY <1>0, <5>1 DEF Goto, AskedForCode, Writing
      <4>3. CASE FlushSession(p) \/ WriteSessionFails(p)
        <5>1. Goto(p, after[p]) /\ pc[p] \in Writing /\ after' = [after EXCEPT ![p] = "off"]
          BY <2>2, <4>3 DEF FlushSession, WriteSessionFails, Writing
        <5> QED
          BY <1>0, <5>1 DEF Goto, AuthTypeOK, AskedForCode, Writing, Location
      <4> QED
        BY <1>10, <4>1, <4>2, <4>3
    <3> QED
      BY <3>1, <3>2, <3>3, TokenQuiet
  <2> QED
    BY <2>1, <2>2
<1> QED
  BY AuthSteps, <1>1, <1>2, <1>3, <1>4, <1>5, <1>6, <1>7, <1>8, <1>9, <1>10

LEMMA TokenStep == AuthTypeOK /\ Location /\ TokenKept /\ [Next]_vars => TokenKept'
<1> SUFFICES ASSUME AuthTypeOK, Location, TokenKept, [Next]_vars
             PROVE  TokenKept'
  OBVIOUS
<1>0. Main \in Proc /\ pc \in [Proc -> AuthLocations \cup {"sub", "recv"}] /\ 1 \in Clients
  BY Goroutines DEF Location
<1>1. CASE Begin
  <2>1. /\ app' = 1 /\ refresh' = [NoTokens EXCEPT ![1] = refreshFile] /\ refreshFile' = refreshFile
        /\ pc' = [NoProcess EXCEPT ![Main] = "refresh", ![1] = "idle"]
    BY <1>1, Zenon DEF Begin, Start, Load, tokenFiles
  <2>2. pc'[Main] = "refresh" /\ refresh'[app'] = refreshFile'
    BY <1>0, <2>1, Goroutines DEF NoProcess, NoTokens, Main
  <2> QED
    BY <2>2 DEF TokenKept, AskedForCode, Writing
<1>2. CASE Connect \/ Subscribe \/ ReadUnauthorized
  <2>1. UNCHANGED <<refresh, refreshFile, app>> /\ Running
    BY <1>2 DEF Connect, Subscribe, ReadUnauthorized, Arrived, memory, tokenFiles, Running, Stopped
  <2>2. pc'[Main] \in {"new", "sub", "recv", "login"}
    BY <1>0, <1>2 DEF Connect, Subscribe, ReadUnauthorized, Goto
  <2> QED
    BY <2>1, <2>2, TokenQuiet DEF AskedForCode, Writing
<1>3. CASE ReadError \/ ReadFails
  BY <1>3, ExitLocation, TokenEnds DEF ReadError, ReadFails, Stopped
<1>4. CASE Taken
  <2>1. CASE Exit("done")
    BY <2>1, ExitLocation, TokenEnds DEF Stopped
  <2>2. CASE Goto(Main, "sub") /\ UNCHANGED <<after, memory, answers>>
    <3>1. pc'[Main] = "sub" /\ Running /\ refreshFile' = refreshFile
      BY <1>0, <1>4, <2>2 DEF Taken, Return, SkipRefused, Arrived, Goto, Running, Stopped, tokenFiles
    <3> QED
      BY <2>2, <3>1, TokenQuiet DEF memory, AskedForCode, Writing
  <2> QED
    BY <1>4, <2>1, <2>2 DEF Taken, Return, SkipRefused, Proceed
<1>5. CASE \/ ReadContinue \/ Answer \/ SayContinue \/ Update \/ RefuseAuth \/ RefuseOther
           \/ UNCHANGED vars
  <2>1. UNCHANGED <<pc, after, refresh, refreshFile, app>>
    BY <1>5 DEF ReadContinue, Answer, SayContinue, Update, Unasked, RefuseAuth, RefuseOther, Say,
                vars, authVars, memory, tokenFiles
  <2> QED
    BY <2>1, TokenQuiet DEF Running, AskedForCode
<1> QED
  BY Steps, TokenAuthStep, <1>1, <1>2, <1>3, <1>4, <1>5

(***************************************************************************)
(* The messages under way.                                                 *)
(***************************************************************************)
LEMMA InboxIs ==
  ASSUME Reading
  PROVE  /\ Len(inbox) \in Nat /\ \A k \in 1..Len(inbox) : inbox[k] \in Message
         /\ inbox # <<>> => 1 \in 1..Len(inbox) /\ Head(inbox) = inbox[1]
  BY DEF Reading

LEMMA InboxTail ==
  ASSUME Reading, inbox # <<>>,
         inbox' = Tail(inbox) \/ inbox' = Append(Tail(inbox), Continue)
  PROVE  \A k \in 1..Len(inbox') : \/ k + 1 \in 1..Len(inbox) /\ inbox'[k] = inbox[k + 1]
                                   \/ inbox'[k].kind = "C"
<1>1. /\ Len(inbox) \in Nat /\ Tail(inbox) \in Seq(Message) /\ Len(Tail(inbox)) = Len(inbox) - 1
      /\ \A k \in 1..Len(inbox) - 1 : Tail(inbox)[k] = inbox[k + 1]
  BY DEF Reading
<1>2. Continue.kind = "C"
  BY DEF Continue
<1> QED
  BY <1>1, <1>2

LEMMA InboxAppend ==
  ASSUME Reading, NEW m \in Message, inbox' = Append(inbox, m)
  PROVE  \A k \in 1..Len(inbox') : \/ k \in 1..Len(inbox) /\ inbox'[k] = inbox[k]
                                   \/ k = Len(inbox) + 1 /\ inbox'[k] = m
  BY DEF Reading

\* What the kinds of message the server sends are.
LEMMA Kinds ==
  /\ \A r \in Requests : /\ Data(r).kind = "A" /\ Data(r).of = r
                         /\ Refusal(r).kind = "other error" /\ Refusal(r).of = r
  /\ Continue.kind = "C" /\ Unauthorized.kind = "Unauthorized"
  /\ AuthError.kind = "Authentication Error"
  BY DEF Data, Refusal, Continue, Unauthorized, AuthError

\* What the server does.
LEMMA Served ==
  ASSUME Reading, Answer \/ SayContinue \/ Update \/ RefuseAuth \/ RefuseOther
  PROVE  /\ Running /\ UNCHANGED <<pc, request, results>> /\ serving # {}
         /\ serving' \subseteq serving
         /\ \/ /\ SayContinue /\ inbox' = Append(inbox, Continue)
               /\ UNCHANGED <<answered, serving, odd, refused>>
            \/ \E r \in serving :
                 \/ /\ Answer /\ r \notin answered /\ answered' = answered \cup {r}
                    /\ inbox' = Append(inbox, Data(r)) /\ UNCHANGED <<serving, odd, refused>>
                 \/ /\ Update /\ inbox' = Append(inbox, Data(r)) /\ odd' = TRUE
                    /\ UNCHANGED <<answered, serving, refused>>
                 \/ /\ RefuseAuth /\ inbox' = Append(inbox, AuthError)
                    /\ odd' = TRUE /\ refused' = TRUE
                 \/ /\ RefuseOther /\ r \notin answered /\ serving' = serving \ {r}
                    /\ inbox' = Append(inbox, Refusal(r)) /\ UNCHANGED <<answered, odd, refused>>
<1>1. Running /\ UNCHANGED <<pc, request, results>>
  BY Zenon DEF Answer, SayContinue, Update, Unasked, RefuseAuth, RefuseOther, Say, authVars
<1>2. CASE SayContinue
  BY <1>1, <1>2, Zenon DEF SayContinue, Say, server
<1>3. CASE Answer
  <2>1. PICK r \in serving \ answered : Say(Data(r)) /\ answered' = answered \cup {r}
    BY <1>3, Zenon DEF Answer
  <2> QED
    BY <1>1, <1>3, <2>1 DEF Answer, Say, server
<1>4. CASE Update
  <2>1. PICK r \in answered : Say(Data(r))
    BY <1>4, Zenon DEF Update, Unasked
  <2> QED
    BY <1>1, <1>4, <2>1 DEF Update, Unasked, Say, Reading
<1>5. CASE RefuseAuth
  <2>1. PICK r \in serving \ answered : Say(AuthError) /\ serving' = serving \ {r}
    BY <1>5, Zenon DEF RefuseAuth, Unasked
  <2> QED
    BY <1>1, <1>5, <2>1 DEF RefuseAuth, Unasked, Say
<1>6. CASE RefuseOther
  <2>1. PICK r \in serving \ answered : Say(Refusal(r)) /\ serving' = serving \ {r}
    BY <1>6, Zenon DEF RefuseOther
  <2> QED
    BY <1>1, <1>6, <2>1 DEF RefuseOther, Say, server
<1> QED
  BY <1>2, <1>3, <1>4, <1>5, <1>6

\* The steps of the reader's loop that change what it asks for.
LEMMA Subscribed ==
  ASSUME Subscribe
  PROVE  /\ pc[Main] = "sub" /\ UNCHANGED <<request, results, answered, odd, refused>>
         /\ \/ serving' = serving \cup {request} /\ inbox' = inbox
            \/ inbox' = Append(inbox, Unauthorized) /\ serving' = serving
  BY Zenon DEF Subscribe, server

LEMMA Dropped ==
  ASSUME ReadContinue \/ ReadUnauthorized
  PROVE  /\ pc[Main] = "recv" /\ inbox # <<>> /\ inbox' = Tail(inbox)
         /\ UNCHANGED <<request, results, serving, answered, odd, refused>>
  BY Zenon DEF ReadContinue, ReadUnauthorized, Arrived, server

LEMMA Connected ==
  ASSUME Connect
  PROVE  /\ Running /\ inbox' = <<>> /\ serving' = {} /\ answered' = {}
         /\ UNCHANGED <<request, results, odd, refused>>
  BY Zenon DEF Connect, server, Running, Stopped

\* Where main is after a step of the reader.
LEMMA ReaderMoves ==
  ASSUME Location
  PROVE  /\ Begin => pc'[Main] = "refresh"
         /\ Subscribe => pc'[Main] = "recv"
         /\ ReadContinue => pc'[Main] = "recv"
         /\ ReadUnauthorized => pc'[Main] = "login"
         /\ ReadError \/ ReadFails => pc'[Main] = "failed" /\ UNCHANGED readerVars
         /\ Connect => pc'[Main] \in {"new", "sub"}
<1>1. Main \in Proc /\ pc \in [Proc -> AuthLocations \cup {"sub", "recv"}] /\ Main # 1
  BY Goroutines DEF Location, Main
<1>2. Begin => pc'[Main] = "refresh"
  BY <1>1 DEF Begin, Start, NoProcess
<1>3. ReadError \/ ReadFails => pc'[Main] = "failed" /\ UNCHANGED readerVars
  BY ExitLocation DEF ReadError, ReadFails, Stopped
<1>4. ReadContinue => pc'[Main] = "recv"
  BY DEF ReadContinue, Arrived, authVars
<1> QED
  BY <1>1, <1>2, <1>3, <1>4 DEF Subscribe, ReadUnauthorized, Connect, Goto

LEMMA NoneRefusedInEmpty == inbox' = <<>> => NoneRefused'
<1> SUFFICES ASSUME inbox' = <<>> PROVE NoneRefused'
  OBVIOUS
<1>1. Len(inbox') = 0
  OBVIOUS
<1>2. 1..Len(inbox') = {}
  BY <1>1
<1> QED
  BY <1>2, Zenon DEF NoneRefused

LEMMA NoneRefusedKeeps ==
  ASSUME Reading, NoneRefused
  PROVE  /\ inbox # <<>> /\ (inbox' = Tail(inbox) \/ inbox' = Append(Tail(inbox), Continue)) => NoneRefused'
         /\ \A m \in Message \ {AuthError} : inbox' = Append(inbox, m) => NoneRefused'
         /\ inbox' = inbox => NoneRefused'
<1>1. inbox # <<>> /\ (inbox' = Tail(inbox) \/ inbox' = Append(Tail(inbox), Continue)) => NoneRefused'
  BY InboxTail DEF NoneRefused
<1>2. ASSUME NEW m \in Message \ {AuthError}, inbox' = Append(inbox, m) PROVE NoneRefused'
  <2>1. m.kind # "Authentication Error"
    BY Messages
  <2> QED
    BY <1>2, <2>1, InboxAppend DEF NoneRefused
<1> QED
  BY <1>1, <1>2 DEF NoneRefused

LEMMA ServesStep ==
  AuthTypeOK /\ Location /\ Reading /\ Serves /\ OneAnswer /\ [Next]_vars => Serves'
<1> SUFFICES ASSUME AuthTypeOK, Location, Reading, Serves, OneAnswer, [Next]_vars
             PROVE  Serves'
  OBVIOUS
<1> DEFINE Own == request <= Pages \/ ~odd
           Alone == serving \subseteq {request} /\ (pc[Main] = "sub" => serving = {})
<1>0. /\ Continue \in Message \ {AuthError} /\ Unauthorized \in Message \ {AuthError}
      /\ \A r \in Requests : /\ Data(r) \in Message \ {AuthError}
                            /\ Refusal(r) \in Message \ {AuthError}
  BY Messages, Kinds
<1>a. /\ Running /\ Own => Alone
      /\ refused => odd
      /\ Running /\ ~refused => NoneRefused
  BY Zenon DEF Serves
<1>b. SUFFICES /\ Running' /\ Own' => Alone'
               /\ refused' => odd'
               /\ Running' /\ ~refused' => NoneRefused'
  BY Zenon DEF Serves
<1>1. CASE Begin \/ Connect
  <2>1. serving' = {} /\ inbox' = <<>>
    BY <1>1, Connected, Zenon DEF Begin
  <2>2. NoneRefused' /\ Alone'
    BY <2>1, NoneRefusedInEmpty, Zenon
  <2>3. refused' = FALSE \/ (odd' = odd /\ refused' = refused)
    BY <1>1, Connected, Zenon DEF Begin
  <2>4. (refused' = FALSE) => ~refused'
    OBVIOUS
  <2> QED
    BY <1>a, <2>2, <2>3,  <2>4
<1>3. CASE Subscribe
  <2>1. Running /\ pc[Main] = "sub" /\ pc'[Main] = "recv"
    BY <1>3, Subscribed, ReaderMoves DEF Running, Stopped
  <2>2. NoneRefused => NoneRefused'
    BY <1>0, <1>3, Subscribed, NoneRefusedKeeps, Zenon
  <2>3. odd' = odd /\ refused' = refused /\ request' = request
    BY <1>3, Subscribed
  <2>4. Own => Alone'
    BY <1>3, <1>a, <2>1, <2>3, Subscribed
  <2> QED
    BY <1>a, <2>1, <2>2, <2>3, <2>4, Zenon
<1>4. CASE ReadContinue \/ ReadUnauthorized
  <2>1. Running /\ pc'[Main] # "sub"
    BY <1>4, Dropped, ReaderMoves DEF Running, Stopped
  <2>2. NoneRefused => NoneRefused'
    BY <1>4, Dropped, NoneRefusedKeeps, Zenon
  <2>3. odd' = odd /\ refused' = refused /\ serving' = serving /\ request' = request
    BY <1>4, Dropped
  <2> QED
    BY <1>a, <2>1, <2>2, <2>3, Zenon
<1>5. CASE ReadError \/ ReadFails
  <2>1. ~Running'
    BY <1>5, ReaderMoves DEF Running, Stopped
  <2>2. odd' = odd /\ refused' = refused
    BY <1>5, ReaderMoves DEF readerVars
  <2> QED
    BY <1>a, <2>1, <2>2, Zenon
<1>6. CASE Taken
  <2>1. Running /\ UNCHANGED <<odd, refused>> /\ request \in Requests
    BY <1>6, Returned DEF Running, Stopped, server, Reading
  <2>2. NoneRefused => NoneRefused'
    BY <1>6, Returned, NoneRefusedKeeps, Zenon
  <2>3. ASSUME Own'
        PROVE  serving' = {}
    <3>1. Own
      <4>1. request > Pages => request' > Pages
        <5>1. request' = NextRequest(Head(inbox).of)
          BY <1>6, Returned, Zenon
        <5>2. request \in Nat /\ Pages \in Nat
          BY <2>1, Constants DEF Requests
        <5> QED
          BY <5>1, <5>2 DEF NextRequest
      <4>2. request' <= Pages => request <= Pages
        BY <2>1, <4>1, ReadingStep, Constants DEF Reading, Requests
      <4> QED
        BY <2>1, <2>3, <4>2, Zenon
    <3>2. serving \subseteq {request}
      BY <1>a, <2>1, <3>1
    <3>3. CASE serving' = serving \ {request}
      BY <3>2, <3>3
    <3>4. CASE /\ Head(inbox).kind = "other error" /\ request > Pages
               /\ UNCHANGED <<serving, answered>>
      <4>1. ~(request <= Pages)
        <5>1. request \in Nat /\ Pages \in Nat
          BY <2>1, Constants DEF Requests
        <5>2. request > Pages
          BY <3>4, Zenon
        <5> QED
          BY <5>1, <5>2
      <4>2. ~odd
        BY <3>1, <4>1
      <4>3. HasError
        BY <1>6, <3>4, Returned, InboxIs DEF HasError, IsError
      <4>4. serving = {}
        BY <2>1, <4>2, <4>3, Zenon DEF OneAnswer
      <4> QED
        BY <3>4, <4>4
    <3> QED
      BY <1>6, Returned, <3>3, <3>4
  <2>4. Own' => Alone'
    BY <2>3
  <2> QED
    BY <1>a, <2>1, <2>2, <2>4, Zenon
<1>7. CASE Answer \/ SayContinue \/ Update \/ RefuseAuth \/ RefuseOther
  <2>1. NoneRefused => NoneRefused' \/ refused' = TRUE
    BY <1>0, <1>7, Served, NoneRefusedKeeps, Zenon DEF Reading
  <2>2. Running /\ UNCHANGED <<pc, request>> /\ serving' \subseteq serving
    BY <1>7, Served, Zenon
  <2>3. /\ odd' = odd \/ odd' = TRUE
        /\ refused' = refused \/ (refused' = TRUE /\ odd' = TRUE)
    BY <1>7, Served DEF SayContinue, server
  <2>4. Own' => Own
    BY <2>2, <2>3, Zenon
  <2>5. Alone => Alone'
    BY <2>2
  <2>6. (refused' => odd') /\ (refused => refused')
    <3>1. CASE refused' = refused
      <4>1. (refused' => refused) /\ (refused => refused')
        BY <3>1
      <4>2. odd => odd'
        <5>1. (odd' = odd \/ odd' = TRUE) => (odd => odd')
          OBVIOUS
        <5> QED
          BY <2>3, <5>1, Zenon
      <4> QED
        BY <1>a, <4>1, <4>2, Zenon
    <3>2. CASE refused' = TRUE /\ odd' = TRUE
      BY <3>2, Zenon
    <3> QED
      BY <2>3, <3>1, <3>2, Zenon
  <2> QED
    BY <1>a, <2>1, <2>2, <2>4, <2>5, <2>6, Zenon
<1>8. CASE AuthStep /\ UNCHANGED readerVars
  <2>1. (Running' => Running) /\ (pc'[Main] = "sub" => pc[Main] = "sub")
    BY <1>8, AuthFrame
  <2>2. UNCHANGED <<serving, request, odd, refused>> /\ (NoneRefused => NoneRefused')
    BY <1>8, NoneRefusedKeeps, Zenon DEF readerVars
  <2> QED
    BY <1>a, <2>1, <2>2, Zenon
<1>9. CASE UNCHANGED vars
  <2>1. UNCHANGED <<pc, serving, request, odd, refused>> /\ (NoneRefused => NoneRefused')
    BY <1>9, NoneRefusedKeeps, Zenon DEF vars, authVars, readerVars
  <2> QED
    BY <1>a, <2>1, Zenon DEF Running
<1> QED
  BY Steps, <1>1, <1>3, <1>4, <1>5, <1>6, <1>7, <1>8, <1>9

(***************************************************************************)
(* Each request gets its own answer.                                       *)
(***************************************************************************)
LEMMA EmptyInbox == ASSUME inbox' = <<>> PROVE ~HasAnswer' /\ ~HasError' /\ 1..Len(inbox') = {}
<1>1. Len(inbox') = 0
  OBVIOUS
<1>2. 1..Len(inbox') = {}
  BY <1>1
<1> QED
  BY <1>2, Zenon DEF HasAnswer, HasError

\* A message is sent that is no answer.
OtherSent == \E m \in Message : m.kind # "A" /\ m.kind # "other error" /\ inbox' = Append(inbox, m)

\* A step that reads a message, or sends one that is no answer.
LEMMA OtherMessage ==
  ASSUME Reading, UNCHANGED <<request, results>>,
         \/ inbox' = inbox
         \/ inbox # <<>> /\ inbox' = Tail(inbox)
         \/ OtherSent
  PROVE  (OwnAnswer => OwnAnswer') /\ (HasAnswer' => HasAnswer) /\ (HasError' => HasError)
<1> USE DEF IsAnswer, IsData, IsError
<1>1. CASE inbox' = inbox
  BY <1>1 DEF OwnAnswer, HasAnswer, HasError
<1>2. CASE inbox # <<>> /\ inbox' = Tail(inbox)
  <2>1. \A k \in 1..Len(inbox') : IsAnswer(k)' => k + 1 \in 1..Len(inbox) /\ inbox'[k] = inbox[k + 1]
    BY <1>2, InboxTail
  <2>2. Len(inbox') \in Nat
    <3>1. Tail(inbox) \in Seq(Message)
      BY <1>2, Sequenced, Zenon DEF Reading
    <3>2. inbox' = Tail(inbox)
      BY <1>2
    <3> QED
      BY <3>1, <3>2
  <2>3. (HasAnswer' => HasAnswer) /\ (HasError' => HasError)
    BY <2>1 DEF HasAnswer, HasError
  <2>4. ASSUME OwnAnswer PROVE OwnAnswer'
    <3>1. \A k \in 1..Len(inbox') : IsAnswer(k)' => inbox'[k].of = request
      BY <2>1, <2>4 DEF OwnAnswer
    <3>2. \A j, k \in 1..Len(inbox') : IsAnswer(j)' /\ IsAnswer(k)' => j + 1 = k + 1
      BY <2>1, <2>4 DEF OwnAnswer
    <3>3. \A j, k \in 1..Len(inbox') : IsAnswer(j)' /\ IsAnswer(k)' => j = k
      <4>1. ASSUME NEW n \in Nat, NEW j \in 1..n, NEW k \in 1..n, j + 1 = k + 1 PROVE j = k
        <5>1. j \in Nat /\ k \in Nat
          OBVIOUS
        <5> QED
          BY <4>1, <5>1
      <4> HIDE DEF IsAnswer
      <4> QED
        BY <2>2, <3>2, <4>1, Zenon
    <3> QED
      BY <2>4, <3>1, <3>3 DEF OwnAnswer
  <2> QED
    BY <2>3, <2>4
<1>3. ASSUME NEW m \in Message, m.kind # "A" /\ m.kind # "other error", inbox' = Append(inbox, m)
      PROVE  (OwnAnswer => OwnAnswer') /\ (HasAnswer' => HasAnswer) /\ (HasError' => HasError)
  <2>1. \A k \in 1..Len(inbox') : IsAnswer(k)' => k \in 1..Len(inbox) /\ inbox'[k] = inbox[k]
    BY <1>3, InboxAppend
  <2> QED
    BY <2>1 DEF OwnAnswer, HasAnswer, HasError
<1> QED
  BY <1>1, <1>2, <1>3, Zenon DEF OtherSent

LEMMA AnswerSent ==
  ASSUME Reading, OwnAnswer, ~HasAnswer, request \in Requests,
         NEW m \in {Data(request), Refusal(request)},
         inbox' = Append(inbox, m), UNCHANGED <<request, results>>
  PROVE  OwnAnswer'
<1>1. m \in Message /\ m.of = request
  BY Messages, Kinds
<1>2. \A k \in 1..Len(inbox') : IsAnswer(k)' => k = Len(inbox) + 1 /\ inbox'[k] = m
  BY <1>1, InboxAppend DEF IsAnswer, IsData, IsError, HasAnswer
<1> QED
  BY <1>1, <1>2 DEF OwnAnswer

\* What the reader takes for its answer is the answer to its request.
LEMMA OwnAnswerRead ==
  ASSUME AuthTypeOK, Location, Reading, Serves, OneAnswer, Taken, ~odd
  PROVE  /\ Running /\ OwnAnswer' /\ ~HasAnswer' /\ ~HasError'
         /\ results' = Append(results, [asked |-> request, got |-> request])
         /\ request = Len(results) + 1
<1>1. /\ Running /\ pc[Main] = "recv" /\ request \in Requests
      /\ Head(inbox) = inbox[1] /\ 1 \in 1..Len(inbox)
  BY Returned, InboxIs DEF Running, Stopped, Reading
<1>2. OwnAnswer /\ NoneRefused
  BY <1>1, Zenon DEF OneAnswer, Serves
<1>3. IsAnswer(1) /\ inbox[1].of = request
  <2>1. inbox[1].kind \in {"A", "other error"}
    BY <1>1, <1>2, Returned DEF NoneRefused
  <2>2. IsAnswer(1)
    BY <2>1 DEF IsAnswer, IsData, IsError
  <2> QED
    BY <1>1, <1>2, <2>2 DEF OwnAnswer
<1>4. results' = Append(results, [asked |-> request, got |-> request]) /\ request' = NextRequest(request)
  BY <1>1, <1>3, Returned, Zenon
<1>5. request = Len(results) + 1
  BY <1>2 DEF OwnAnswer
<1>6. request' = request + 1
  BY <1>1, <1>4, Constants DEF NextRequest, Requests
<1>7. request' = Len(results') + 1
  BY <1>4, <1>5, <1>6 DEF Reading
<1>8. ~HasAnswer'
  <2> SUFFICES ASSUME NEW k \in 1..Len(inbox'), IsAnswer(k)' PROVE FALSE
    BY DEF HasAnswer
  <2>1. k + 1 \in 1..Len(inbox) /\ IsAnswer(k + 1)
    BY Returned, InboxTail DEF IsAnswer, IsData, IsError
  <2>2. k + 1 = 1
    BY <1>1, <1>2, <1>3, <2>1 DEF OwnAnswer
  <2>3. k \in Nat /\ k >= 1
    <3>0. Tail(inbox) \in Seq(Message) /\ Continue \in Message
      BY Returned, Messages, Sequenced DEF Reading
    <3>1. Len(Tail(inbox)) \in Nat /\ Len(Append(Tail(inbox), Continue)) \in Nat
      BY <3>0
    <3>2. Len(inbox') \in Nat
      BY <3>1, Returned
    <3> QED
      BY <3>2
  <2> QED
    BY <2>2, <2>3
<1>9. ~HasError'
  BY <1>8, Zenon DEF HasAnswer, HasError, IsAnswer
<1>10. OwnAnswer'
  BY <1>7, <1>8, Zenon DEF OwnAnswer, HasAnswer
<1> QED
  BY <1>1, <1>4, <1>5, <1>8, <1>9, <1>10

LEMMA OneAnswerStep ==
  AuthTypeOK /\ Location /\ Reading /\ Serves /\ OneAnswer /\ [Next]_vars => OneAnswer'
<1> SUFFICES ASSUME AuthTypeOK, Location, Reading, Serves, OneAnswer, [Next]_vars
             PROVE  OneAnswer'
  OBVIOUS
<1>0. /\ Unauthorized \in Message /\ Unauthorized.kind \notin {"A", "other error"}
      /\ Continue \in Message /\ Continue.kind \notin {"A", "other error"}
      /\ \A m \in {Continue, Unauthorized} : inbox' = Append(inbox, m) => OtherSent
  <2>1. /\ Unauthorized \in Message /\ Unauthorized.kind \notin {"A", "other error"}
        /\ Continue \in Message /\ Continue.kind \notin {"A", "other error"}
    BY Messages, Kinds
  <2>2. ASSUME NEW m \in {Continue, Unauthorized}, inbox' = Append(inbox, m) PROVE OtherSent
    <3>1. m \in Message /\ m.kind # "A" /\ m.kind # "other error"
      BY <2>1
    <3> QED
      BY <2>2, <3>1, Zenon DEF OtherSent
  <2> QED
    BY <2>1, <2>2
<1>1. CASE Begin
  <2>1. pc'[Main] = "refresh" /\ inbox' = <<>> /\ request' = 1 /\ results' = <<>>
    BY <1>1, ReaderMoves DEF Begin
  <2>2. OwnAnswer' /\ ~HasAnswer' /\ ~HasError'
    BY <2>1, EmptyInbox DEF OwnAnswer
  <2> QED
    BY <2>2, Zenon DEF OneAnswer
<1>2. CASE Connect
  <2>1. Running /\ odd' = odd /\ inbox' = <<>> /\ request' = request /\ results' = results
    BY <1>2, Connected
  <2>2. ~HasAnswer' /\ ~HasError' /\ (OwnAnswer => OwnAnswer')
    BY <2>1, EmptyInbox DEF OwnAnswer
  <2> QED
    BY <2>1, <2>2, Zenon DEF OneAnswer
<1>3. CASE Subscribe
  <2>1. /\ Running /\ pc[Main] = "sub" /\ odd' = odd
        /\ inbox' = inbox \/ inbox' = Append(inbox, Unauthorized)
    BY <1>3, Subscribed DEF Running, Stopped
  <2>2. (OwnAnswer => OwnAnswer') /\ (HasAnswer' => HasAnswer)
    <3>1. inbox' = inbox \/ OtherSent
      BY <1>0, <2>1
    <3> QED
      BY <1>3, <3>1, Subscribed, OtherMessage, Zenon
  <2>3. HasError' => HasAnswer'
    BY Zenon DEF HasAnswer, HasError, IsAnswer
  <2> QED
    BY <2>1, <2>2, <2>3, Zenon DEF OneAnswer
<1>4. CASE ReadContinue \/ ReadUnauthorized
  <2>1. Running /\ odd' = odd /\ answered' = answered /\ serving' = serving /\ pc'[Main] # "sub"
    BY <1>4, Dropped, ReaderMoves DEF Running, Stopped
  <2>2. (OwnAnswer => OwnAnswer') /\ (HasAnswer' => HasAnswer) /\ (HasError' => HasError)
    BY <1>4, Dropped, OtherMessage
  <2> QED
    BY <2>1, <2>2, Zenon DEF OneAnswer
<1>5. CASE ReadError \/ ReadFails
  <2>1. ~Running'
    BY <1>5, ReaderMoves DEF Running, Stopped
  <2> QED
    BY <2>1 DEF OneAnswer
<1>6. CASE Taken
  <2>1. odd' = odd
    BY <1>6, Returned DEF server
  <2> QED
    BY <1>6, <2>1, OwnAnswerRead, Zenon DEF OneAnswer
<1>7. CASE Answer \/ RefuseOther
  <2>1. PICK r \in serving :
           /\ r \notin answered
           /\ \/ /\ answered' = answered \cup {r} /\ inbox' = Append(inbox, Data(r))
                 /\ serving' = serving
              \/ /\ serving' = serving \ {r} /\ inbox' = Append(inbox, Refusal(r))
                 /\ answered' = answered
    BY <1>7, Zenon DEF Answer, RefuseOther, Say
  <2>2. Running /\ UNCHANGED <<pc, request, results, odd>>
    BY <1>7, Zenon DEF Answer, RefuseOther, Say, authVars, server
  <2>3. SUFFICES ASSUME ~odd
                 PROVE  /\ OwnAnswer'
                        /\ serving' \subseteq answered'
                        /\ HasError' => serving' = {}
                        /\ pc'[Main] # "sub"
    BY <2>2, Zenon DEF OneAnswer
  <2>4. serving \subseteq {request} /\ (pc[Main] = "sub" => serving = {})
    BY <2>2, <2>3, Zenon DEF Serves
  <2>5. r = request /\ serving = {r} /\ pc[Main] # "sub"
    BY <2>1, <2>4
  <2>6. OwnAnswer /\ ~HasAnswer
    <3>1. /\ OwnAnswer
          /\ HasAnswer => serving \subseteq answered
      BY <2>2, <2>3, Zenon DEF OneAnswer
    <3> QED
      BY <2>1, <3>1
  <2>7. request \in Requests
    BY <2>2 DEF Reading
  <2>8. OwnAnswer'
    BY <2>1, <2>2, <2>5, <2>6, <2>7, AnswerSent
  <2>9. serving' \subseteq answered'
    BY <2>1, <2>5
  <2>10. CASE serving' = serving /\ inbox' = Append(inbox, Data(r))
    <3>1. ~HasError'
      <4>1. Data(r) \in Message /\ Data(r).kind = "A"
        BY <2>5, <2>7, Messages, Kinds
      <4> QED
        BY <2>6, <2>10, <4>1, InboxAppend DEF HasError, HasAnswer, IsAnswer, IsError
    <3> QED
      BY <2>2, <2>5, <2>8, <2>9, <3>1
  <2>11. CASE serving' = serving \ {r}
    BY <2>2, <2>5, <2>8, <2>9, <2>11
  <2> QED
    BY <2>1, <2>10, <2>11
<1>8. CASE SayContinue
  <2>1. /\ Running /\ odd' = odd /\ answered' = answered /\ serving' = serving /\ pc' = pc
        /\ request' = request /\ results' = results /\ inbox' = Append(inbox, Continue)
    BY <1>8, Zenon DEF SayContinue, Say, server, authVars
  <2>2. (OwnAnswer => OwnAnswer') /\ (HasAnswer' => HasAnswer) /\ (HasError' => HasError)
    <3>1. OtherSent
      BY <1>0, <2>1
    <3> QED
      BY <2>1, <3>1, OtherMessage
  <2> QED
    BY <2>1, <2>2, Zenon DEF OneAnswer
<1>9. CASE Update \/ RefuseAuth
  <2>1. odd' = TRUE
    BY <1>9 DEF Update, Unasked, RefuseAuth
  <2> QED
    BY <2>1, Zenon DEF OneAnswer
<1>10. CASE AuthStep /\ UNCHANGED readerVars
  <2>1. (Running' => Running) /\ (pc'[Main] = "sub" => pc[Main] = "sub")
    BY <1>10, AuthFrame
  <2>2. /\ odd' = odd /\ answered' = answered /\ serving' = serving
        /\ inbox' = inbox /\ request' = request /\ results' = results
    BY <1>10 DEF readerVars
  <2>3. (OwnAnswer => OwnAnswer') /\ (HasAnswer' => HasAnswer) /\ (HasError' => HasError)
    BY <2>2, OtherMessage
  <2> QED
    BY <2>1, <2>2, <2>3, Zenon DEF OneAnswer
<1>11. CASE UNCHANGED vars
  BY <1>11 DEF vars, authVars, readerVars, Running, OneAnswer, OwnAnswer, HasAnswer, HasError,
               IsAnswer, IsData, IsError
<1> QED
  BY Steps, <1>1, <1>2, <1>3, <1>4, <1>5, <1>6, <1>7, <1>8, <1>9, <1>10, <1>11

\* Only Begin and an answer taken change what was read.
LEMMA ResultsFrame ==
  ASSUME Location, [Next]_vars, ~Begin, ~Taken
  PROVE  results' = results /\ request' = request
<1>1. CASE Connect \/ Subscribe \/ ReadContinue \/ ReadUnauthorized
  BY <1>1 DEF Connect, Subscribe, ReadContinue, ReadUnauthorized
<1>2. CASE ReadError \/ ReadFails
  BY <1>2 DEF ReadError, ReadFails, readerVars
<1>4. CASE UNCHANGED readerVars \/ UNCHANGED vars
  BY <1>4 DEF readerVars, vars
<1>3. CASE Answer \/ SayContinue \/ Update \/ RefuseAuth \/ RefuseOther
  BY <1>3 DEF Answer, SayContinue, Update, Unasked, RefuseAuth, RefuseOther, Say
<1> QED
  BY Steps, <1>1, <1>2, <1>3, <1>4

LEMMA AnswersStep ==
  /\ AuthTypeOK /\ Location /\ Reading /\ Serves /\ OneAnswer /\ AnswersAreOwn
  /\ [Next]_vars
  => AnswersAreOwn'
<1> SUFFICES ASSUME AuthTypeOK, Location, Reading, Serves, OneAnswer, AnswersAreOwn, [Next]_vars
             PROVE  AnswersAreOwn'
  OBVIOUS
<1>1. CASE Begin
  <2>1. results' = <<>>
    BY <1>1 DEF Begin
  <2> QED
    BY <2>1 DEF AnswersAreOwn
<1>2. CASE Taken
  <2>1. odd' = odd
    BY <1>2, Returned DEF server
  <2>2. ASSUME ~odd
        PROVE  \A n \in 1..Len(results') : results'[n] = [asked |-> n, got |-> n]
    <3>1. /\ results' = Append(results, [asked |-> request, got |-> request])
          /\ request = Len(results) + 1
      BY <1>2, <2>2, OwnAnswerRead
    <3>2. \A n \in 1..Len(results) : results[n] = [asked |-> n, got |-> n]
      BY <2>2, Zenon DEF AnswersAreOwn
    <3>3. /\ Len(results) \in Nat /\ Len(results') = Len(results) + 1
          /\ results'[Len(results) + 1] = [asked |-> request, got |-> request]
          /\ \A n \in 1..Len(results) : results'[n] = results[n]
      BY <3>1 DEF Reading
    <3>4. ASSUME NEW n \in 1..Len(results') PROVE n \in 1..Len(results) \/ n = Len(results) + 1
      BY <3>3
    <3> QED
      BY <3>1, <3>2, <3>3, <3>4, Zenon
  <2> QED
    BY <2>1, <2>2, Zenon DEF AnswersAreOwn
<1>3. CASE ~Begin /\ ~Taken
  <2>1. results' = results
    BY <1>3, ResultsFrame
  <2>2. odd' = odd \/ odd' = TRUE
    BY <1>3, Steps, Zenon DEF Connect, Subscribe, ReadContinue, ReadUnauthorized, ReadError, ReadFails,
       Answer, SayContinue, Update, Unasked, RefuseAuth, RefuseOther, readerVars, vars, server
  <2> QED
    BY <2>1, <2>2, Zenon DEF AnswersAreOwn
<1> QED
  BY <1>1, <1>2, <1>3

(***************************************************************************)
(* No page is skipped.                                                     *)
(***************************************************************************)
LEMMA OtherMessagePages ==
  ASSUME Reading, PagesInOrder, request' = request,
         \/ inbox' = inbox
         \/ inbox # <<>> /\ inbox' = Tail(inbox)
         \/ \E m \in Message : m.kind # "A" /\ inbox' = Append(inbox, m)
  PROVE  PagesInOrder'
<1>1. CASE inbox' = inbox
  BY <1>1 DEF PagesInOrder, IsData
<1>2. CASE inbox # <<>> /\ inbox' = Tail(inbox)
  <2>1. \A k \in 1..Len(inbox') : IsData(k)' => k + 1 \in 1..Len(inbox) /\ inbox'[k] = inbox[k + 1]
    BY <1>2, InboxTail DEF IsData
  <2>2. Len(inbox') \in Nat
    BY <1>2 DEF Reading
  <2>3. \A k \in 1..Len(inbox') : IsData(k)' => inbox'[k].of \in {request - 1, request}
    BY <2>1 DEF PagesInOrder, IsData
  <2>4. \A j, k \in 1..Len(inbox') : IsData(j)' /\ IsData(k)' /\ j <= k => inbox'[j].of <= inbox'[k].of
    BY <2>1, <2>2 DEF PagesInOrder, IsData
  <2> QED
    BY <2>3, <2>4 DEF PagesInOrder
<1>3. ASSUME NEW m \in Message, m.kind # "A", inbox' = Append(inbox, m)
      PROVE  PagesInOrder'
  <2>1. \A k \in 1..Len(inbox') : IsData(k)' => k \in 1..Len(inbox) /\ inbox'[k] = inbox[k]
    BY <1>3, InboxAppend DEF IsData
  <2> QED
    BY <2>1 DEF PagesInOrder, IsData
<1> QED
  BY <1>1, <1>2, <1>3

LEMMA PageSent ==
  ASSUME Reading, PagesInOrder, request \in Requests,
         inbox' = Append(inbox, Data(request)), request' = request
  PROVE  PagesInOrder'
<1>0. request \in Nat
  BY Constants DEF Requests
<1>1. Data(request) \in Message /\ Data(request).of = request /\ request \in Nat
  BY <1>0, Messages, Kinds
<1>2. /\ Len(inbox) \in Nat
      /\ \A k \in 1..Len(inbox') : \/ k \in 1..Len(inbox) /\ inbox'[k] = inbox[k]
                                   \/ k = Len(inbox) + 1 /\ inbox'[k].of = request
  BY <1>1, InboxIs, InboxAppend
<1>3. \A k \in 1..Len(inbox') : IsData(k)' => inbox'[k].of \in {request - 1, request}
  BY <1>2 DEF PagesInOrder, IsData
<1>4. \A j, k \in 1..Len(inbox') : IsData(j)' /\ IsData(k)' /\ j <= k => inbox'[j].of <= inbox'[k].of
  BY <1>1, <1>2 DEF PagesInOrder, IsData
<1> QED
  BY <1>1, <1>3, <1>4 DEF PagesInOrder

\* What the reader takes in the list is this page or the one before, and data.
LEMMA PageRead ==
  ASSUME AuthTypeOK, Location, Reading, Serves, Taken, ~refused,
         request <= Pages => PagesInOrder
  PROVE  /\ Running /\ 1 \in 1..Len(inbox) /\ request \in Requests
         /\ inbox[1].of \in Requests
         /\ request <= Pages => IsData(1) /\ inbox[1].of \in {request - 1, request}
         /\ request' = NextRequest(inbox[1].of)
         /\ results' = Append(results, [asked |-> request, got |-> inbox[1].of])
<1>1. /\ Running /\ request \in Requests /\ Head(inbox) = inbox[1] /\ 1 \in 1..Len(inbox)
  BY Returned, InboxIs DEF Running, Stopped, Reading
<1>2. NoneRefused
  BY <1>1, Zenon DEF Serves
<1>3. inbox[1].kind \in {"A", "other error"} /\ (request <= Pages => IsData(1))
  <2>1. inbox[1].kind # "Authentication Error"
    BY <1>1, <1>2 DEF NoneRefused
  <2>2. inbox[1].kind = "A" \/ (inbox[1].kind = "other error" /\ request > Pages)
    BY <1>1, <2>1, Returned
  <2>3. request > Pages => ~(request <= Pages)
    BY <1>1, Constants DEF Requests
  <2> QED
    BY <2>2, <2>3, Zenon DEF IsData
<1>4. inbox[1].of \in Requests
  BY <1>1, <1>3, InboxIs, Messages
<1>5. request <= Pages => inbox[1].of \in {request - 1, request}
  BY <1>1, <1>3 DEF PagesInOrder
<1> QED
  BY <1>1, <1>3, <1>4, <1>5, Returned

LEMMA PagesLeft ==
  ASSUME AuthTypeOK, Location, Reading, Serves, Taken, ~refused,
         request <= Pages => PagesInOrder, request' <= Pages
  PROVE  PagesInOrder'
<1> DEFINE got == inbox[1].of
<1>0. /\ 1 \in 1..Len(inbox) /\ request \in Nat /\ got \in Nat
      /\ request' = NextRequest(got)
  BY PageRead, Constants DEF Requests
<1>2. request <= Pages /\ request' = got + 1
  BY <1>0, Constants DEF NextRequest
<1>1. IsData(1) /\ 1 \in 1..Len(inbox) /\ request \in Nat /\ got \in Nat
  BY <1>0, <1>2, PageRead
<1>3. PagesInOrder
  BY <1>2
<1>4. \A k \in 1..Len(inbox') : IsData(k)' => k + 1 \in 1..Len(inbox) /\ inbox'[k] = inbox[k + 1]
  BY Returned, InboxTail DEF IsData
<1>5. Len(inbox') \in Nat
  <2>0. Tail(inbox) \in Seq(Message) /\ Continue \in Message
    BY Returned, Messages, Sequenced DEF Reading
  <2>1. Len(Tail(inbox)) \in Nat /\ Len(Append(Tail(inbox), Continue)) \in Nat
    BY <2>0
  <2> QED
    BY <2>1, Returned
<1>6. ASSUME NEW k \in 1..Len(inbox'), IsData(k)'
      PROVE  inbox'[k].of \in {got, got + 1}
  <2>1. /\ k + 1 \in 1..Len(inbox) /\ IsData(k + 1) /\ inbox'[k] = inbox[k + 1] /\ 1 <= k + 1
    BY <1>4, <1>5, <1>6 DEF IsData
  <2>2. got \in {request - 1, request} /\ inbox[k + 1].of \in {request - 1, request}
    BY <1>1, <1>3, <2>1 DEF PagesInOrder
  <2>3. got <= inbox[k + 1].of
    BY <1>1, <1>3, <2>1 DEF PagesInOrder
  <2> QED
    BY <1>1, <2>1, <2>2, <2>3
<1>7. \A j, k \in 1..Len(inbox') : IsData(j)' /\ IsData(k)' /\ j <= k => inbox'[j].of <= inbox'[k].of
  BY <1>3, <1>4, <1>5 DEF PagesInOrder, IsData
<1> QED
  BY <1>1, <1>2, <1>6, <1>7 DEF PagesInOrder

LEMMA PagesUnderWayStep ==
  AuthTypeOK /\ Location /\ Reading /\ Serves /\ PagesUnderWay /\ [Next]_vars => PagesUnderWay'
<1> SUFFICES ASSUME AuthTypeOK, Location, Reading, Serves, PagesUnderWay, [Next]_vars
             PROVE  PagesUnderWay'
  OBVIOUS
<1>0. /\ Unauthorized \in Message /\ Unauthorized.kind # "A"
      /\ Continue \in Message /\ Continue.kind # "A"
      /\ \A r \in Requests : Refusal(r) \in Message /\ Refusal(r).kind # "A"
  BY Messages, Kinds
<1>1. CASE Begin \/ Connect
  <2>1. inbox' = <<>>
    BY <1>1, Connected DEF Begin
  <2>2. PagesInOrder'
    BY <2>1, EmptyInbox, Zenon DEF PagesInOrder
  <2> QED
    BY <2>2 DEF PagesUnderWay
<1>2. CASE Subscribe \/ ReadContinue \/ ReadUnauthorized
  <2>1. /\ Running /\ refused' = refused /\ request' = request
        /\ \/ inbox' = inbox
           \/ inbox # <<>> /\ inbox' = Tail(inbox)
           \/ inbox' = Append(inbox, Unauthorized)
    BY <1>2, Subscribed, Dropped DEF Running, Stopped
  <2>2. PagesInOrder => PagesInOrder'
    BY <1>0, <2>1, OtherMessagePages
  <2> QED
    BY <2>1, <2>2, Zenon DEF PagesUnderWay
<1>3. CASE ReadError \/ ReadFails
  <2>1. ~Running'
    BY <1>3, ReaderMoves DEF Running, Stopped
  <2> QED
    BY <2>1 DEF PagesUnderWay
<1>4. CASE Taken
  <2>1. refused' = refused /\ Running
    BY <1>4, Returned DEF server, Running, Stopped
  <2> QED
    BY <1>4, <2>1, PagesLeft, Zenon DEF PagesUnderWay
<1>5. CASE Answer \/ Update
  <2>1. PICK r \in serving : inbox' = Append(inbox, Data(r))
    BY <1>5, Served, Zenon DEF Answer, Update, Unasked, Say, Reading
  <2>2. Running /\ refused' = refused /\ request' = request /\ request \in Requests
    BY <1>5, Served DEF Answer, Update, Unasked, Say, server, Reading
  <2>3. ASSUME request <= Pages PROVE r = request
    <3>1. serving \subseteq {request}
      BY <2>2, <2>3, Zenon DEF Serves
    <3> QED
      BY <2>1, <3>1
  <2>4. request <= Pages /\ PagesInOrder => PagesInOrder'
    BY <2>1, <2>2, <2>3, PageSent
  <2> QED
    BY <2>2, <2>4, Zenon DEF PagesUnderWay
<1>6. CASE SayContinue \/ RefuseOther
  <2>1. /\ Running /\ refused' = refused /\ request' = request
        /\ \/ inbox' = Append(inbox, Continue)
           \/ \E r \in Requests : inbox' = Append(inbox, Refusal(r))
    <3>1. CASE SayContinue
      BY <3>1, Zenon DEF SayContinue, Say, server
    <3>2. CASE RefuseOther
      <4>1. PICK r \in serving : Say(Refusal(r))
        BY <3>2, Zenon DEF RefuseOther
      <4>2. r \in Requests
        BY <4>1 DEF Reading
      <4> QED
        BY <3>2, <4>1, <4>2, Zenon DEF RefuseOther, Say, server
    <3> QED
      BY <1>6, <3>1, <3>2
  <2>2. PagesInOrder => PagesInOrder'
    BY <1>0, <2>1, OtherMessagePages
  <2> QED
    BY <2>1, <2>2, Zenon DEF PagesUnderWay
<1>7. CASE RefuseAuth
  <2>1. refused' = TRUE
    BY <1>7 DEF RefuseAuth, Unasked
  <2> QED
    BY <2>1, Zenon DEF PagesUnderWay
<1>8. CASE AuthStep /\ UNCHANGED readerVars
  <2>1. (Running' => Running) /\ refused' = refused /\ request' = request /\ inbox' = inbox
    BY <1>8, AuthFrame DEF readerVars
  <2>2. PagesInOrder => PagesInOrder'
    BY <2>1, OtherMessagePages
  <2> QED
    BY <2>1, <2>2, Zenon DEF PagesUnderWay
<1>9. CASE UNCHANGED vars
  BY <1>9 DEF vars, authVars, readerVars, Running, PagesUnderWay, PagesInOrder, IsData
<1> QED
  BY Steps, <1>1, <1>2, <1>3, <1>4, <1>5, <1>6, <1>7, <1>8, <1>9

\* Reading a page of the list: the one before again, or this one.
LEMMA PageRecorded ==
  ASSUME Reading, NEW last \in 0..Len(results), ReadSoFar(last),
         request \in Requests, NEW got \in Requests,
         request <= Pages => got \in {request - 1, request},
         results' = Append(results, [asked |-> request, got |-> got]),
         request' = NextRequest(got)
  PROVE  \E l \in 0..Len(results') : ReadSoFar(l)'
<1>1. /\ Len(results) \in Nat /\ Len(results') = Len(results) + 1
      /\ results'[Len(results) + 1] = [asked |-> request, got |-> got]
      /\ \A n \in 1..Len(results) : results'[n] = results[n]
  BY DEF Reading
<1>2. /\ request \in Nat /\ got \in Nat /\ request >= 1 /\ got >= 1 /\ last \in Nat
      /\ Pages \in Nat /\ Pages > 0
  BY <1>1, Constants DEF Requests
<1>3. \A n \in 1..Len(results') : n \in 1..Len(results) \/ n = Len(results) + 1
  BY <1>1
<1>4. \A n \in 1..Len(results) : results[n].asked <= Pages <=> n <= last
  BY DEF ReadSoFar
<1>5. IF last = 0 THEN request = 1
                  ELSE /\ results[1].got = 1
                       /\ results[last].got = IF request <= Pages THEN request - 1 ELSE Pages
  BY Zenon DEF ReadSoFar
<1>6. /\ request <= Pages => last = Len(results)
      /\ \A n \in 1..last - 1 : results[n + 1].got \in {results[n].got, results[n].got + 1}
  BY DEF ReadSoFar
<1>7. CASE request <= Pages
  <2>9. PICK l \in Nat : l = Len(results) + 1
    BY <1>1
  <2>0. last = Len(results)
    BY <1>6, <1>7
  <2>1. l \in 0..Len(results') /\ l # 0 /\ l = Len(results')
    BY <1>1, <2>9
  <2>2. \A n \in 1..Len(results') : results'[n].asked <= Pages <=> n <= l
    <3>1. results'[Len(results) + 1].asked = request
      BY <1>1
    <3> QED
      BY <1>1, <1>3, <1>4, <1>7, <2>0, <2>9, <3>1
  <2>3. results'[l].got = got
    BY <1>1, <2>9
  <2>4. IF request' <= Pages THEN request' = got + 1 ELSE got = Pages
    BY <1>2, <1>7 DEF NextRequest
  <2>5. results'[1].got = 1
    <3>1. CASE last = 0
      BY <1>1, <1>2, <1>5, <1>7, <2>0, <3>1
    <3>2. CASE last # 0
      BY <1>1, <1>2, <1>5, <2>0, <3>2
    <3> QED
      BY <3>1, <3>2
  <2>6. results'[l].got = IF request' <= Pages THEN request' - 1 ELSE Pages
    <3>1. CASE request' <= Pages
      <4>1. got = request' - 1
        BY <1>2, <2>4, <3>1
      <4> QED
        BY <2>3, <3>1, <4>1
    <3>2. CASE ~(request' <= Pages)
      BY <2>3, <2>4, <3>2
    <3> QED
      BY <3>1, <3>2
  <2>7. ASSUME NEW n \in 1..l - 1
        PROVE  results'[n + 1].got \in {results'[n].got, results'[n].got + 1}
    <3>1. CASE n = last
      <4>1. results[n].got = request - 1 /\ results'[n] = results[n]
        BY <1>1, <1>5, <1>7, <2>0, <2>7, <2>9, <3>1
      <4>2. results'[n + 1].got = got
        BY <2>0, <2>3, <2>9, <3>1
      <4> QED
        <5>1. got = request - 1 \/ got = request - 1 + 1
          BY <1>2, <1>7
        <5> QED
          BY <4>1, <4>2, <5>1
    <3>2. CASE n # last
      <4>1. n \in 1..last - 1 /\ results'[n] = results[n] /\ results'[n + 1] = results[n + 1]
        BY <1>1, <2>0, <2>7, <2>9, <3>2
      <4> QED
        BY <1>6, <4>1
    <3> QED
      BY <3>1, <3>2
  <2>8. ReadSoFar(l)'
    BY <2>1, <2>2, <2>5, <2>6, <2>7, Zenon DEF ReadSoFar
  <2> QED
    BY <2>1, <2>8
<1>8. CASE request > Pages
  <2>1. request' > Pages /\ last > 0
    BY <1>2, <1>5, <1>8 DEF NextRequest
  <2>2. last \in 1..Len(results) /\ last \in 0..Len(results')
    BY <1>1, <2>1
  <2>3. \A n \in 1..Len(results') : results'[n].asked <= Pages <=> n <= last
    <3>1. results'[Len(results) + 1].asked = request
      BY <1>1
    <3> QED
      BY <1>1, <1>2, <1>3, <1>4, <1>8, <2>2, <3>1
  <2>4. results'[1].got = 1 /\ results'[last].got = Pages
    BY <1>1, <1>5, <1>8, <1>2, <2>2
  <2>5. \A n \in 1..last - 1 : results'[n + 1].got \in {results'[n].got, results'[n].got + 1}
    BY <1>1, <1>6, <2>2
  <2>6. ~(request' <= Pages)
    BY <1>2, <1>8 DEF NextRequest
  <2>7. last # 0
    BY <1>2, <2>1
  <2>8. ReadSoFar(last)'
    BY <2>3, <2>4, <2>5, <2>6, <2>7, Zenon DEF ReadSoFar
  <2> QED
    BY <2>2, <2>8
<1> QED
  BY <1>2, <1>7, <1>8

LEMMA PagesReadStep ==
  /\ AuthTypeOK /\ Location /\ Reading /\ Serves /\ PagesUnderWay /\ PagesRead
  /\ [Next]_vars
  => PagesRead'
<1> SUFFICES ASSUME AuthTypeOK, Location, Reading, Serves, PagesUnderWay, PagesRead, [Next]_vars
             PROVE  PagesRead'
  OBVIOUS
<1>1. CASE Begin
  <2>1. results' = <<>> /\ request' = 1 /\ pc'[Main] = "refresh"
    BY <1>1, ReaderMoves DEF Begin
  <2>2. Len(results') = 0
    BY <2>1
  <2>3. ReadSoFar(0)'
    BY <2>1, <2>2 DEF ReadSoFar
  <2>4. ReadUpToHere'
    BY <2>2, <2>3 DEF ReadUpToHere
  <2> QED
    BY <2>1, <2>4 DEF PagesRead
<1>2. CASE Taken
  <2>1. refused' = refused /\ Running
    BY <1>2, Returned DEF server, Running, Stopped
  <2>2. ASSUME ~refused PROVE ReadUpToHere'
    <3>1. request <= Pages => PagesInOrder
      BY <2>1, <2>2, Zenon DEF PagesUnderWay
    <3>2. PICK last \in 0..Len(results) : ReadSoFar(last)
      BY <2>1, <2>2, Zenon DEF PagesRead, ReadUpToHere
    <3> QED
      BY <1>2, <2>2, <3>1, <3>2, PageRead, PageRecorded DEF ReadUpToHere
  <2>3. pc'[Main] = "done" => request' > Pages
    <3>1. CASE request' \in Requests
      <4>1. Goto(Main, "sub")
        BY <1>2, <3>1, Returned
      <4> QED
        BY <4>1, Goroutines DEF Goto, Location
    <3>2. CASE request' \notin Requests
      <4>1. Reading'
        BY ReadingStep
      <4> QED
        BY <3>2, <4>1, Constants DEF Reading, Requests
    <3> QED
      BY <3>1, <3>2
  <2> QED
    BY <2>1, <2>2, <2>3, Zenon DEF PagesRead
<1>3. CASE ~Begin /\ ~Taken
  <2>1. results' = results /\ request' = request
    BY <1>3, ResultsFrame
  <2>2. refused' = refused \/ refused' = TRUE
    BY <1>3, Steps, Zenon DEF Connect, Subscribe, ReadContinue, ReadUnauthorized, ReadError, ReadFails,
       Answer, SayContinue, Update, Unasked, RefuseAuth, RefuseOther, readerVars, vars, server
  <2>3. (Running' => Running) /\ (pc'[Main] = "done" => pc[Main] = "done")
    <3>1. CASE AuthStep /\ UNCHANGED readerVars
      <4>1. pc'[Main] = "done" => pc'[Main] = pc[Main]
        BY <3>1, AuthFrame
      <4> QED
        BY <3>1, <4>1, AuthFrame
    <3>2. CASE Connect \/ Subscribe \/ ReadContinue \/ ReadUnauthorized \/ ReadError \/ ReadFails
      <4>1. pc'[Main] \in {"new", "sub", "recv", "login", "failed"}
        BY <3>2, ReaderMoves
      <4>2. Running
        BY <3>2 DEF Connect, Subscribe, ReadContinue, ReadUnauthorized, ReadError, ReadFails, Arrived,
                    Running, Stopped
      <4> QED
        BY <4>1, <4>2
    <3>3. CASE \/ Answer \/ SayContinue \/ Update \/ RefuseAuth \/ RefuseOther \/ UNCHANGED vars
      <4>1. pc' = pc
        BY <3>3, Served DEF vars, authVars
      <4> QED
        BY <4>1 DEF Running
    <3> QED
      BY <1>3, Steps, <3>1, <3>2, <3>3
  <2>4. ReadUpToHere => ReadUpToHere'
    BY <2>1 DEF ReadUpToHere, ReadSoFar
  <2>5. request > Pages => request' > Pages
    BY <2>1
  <2> QED
    BY <2>2, <2>3, <2>4, <2>5, Zenon DEF PagesRead
<1> QED
  BY <1>1, <1>2, <1>3

(***************************************************************************)
(* The theorems.                                                           *)
(***************************************************************************)
LEMMA Initially == Init => ReaderInv
<1> SUFFICES ASSUME Init PROVE ReaderInv
  OBVIOUS
<1>1. AuthTypeOK /\ Location /\ Reading
  BY TypesInit
<1>2. /\ pc[Main] = "off" /\ ~Running /\ serving = {} /\ results = <<>>
      /\ refused = FALSE /\ odd = FALSE
  BY Goroutines DEF Init, AuthInit, NoProcess, Running, Stopped
<1>3. TokenKept
  BY <1>2 DEF TokenKept, AskedForCode, Writing
<1>4. AnswersAreOwn
  BY <1>2 DEF AnswersAreOwn
<1>5. PagesRead /\ PagesUnderWay /\ OneAnswer
  BY <1>2 DEF PagesRead, PagesUnderWay, OneAnswer
<1>6. Serves
  BY <1>2 DEF Serves
<1> QED
  BY <1>1, <1>3, <1>4, <1>5, <1>6 DEF ReaderInv

LEMMA Inductive == ReaderInv /\ [Next]_vars => ReaderInv'
  BY AuthType, LocationStep, ReadingStep, TokenStep, ServesStep, OneAnswerStep, AnswersStep,
     PagesUnderWayStep, PagesReadStep, Zenon DEF ReaderInv

LEMMA ReaderInvHolds == Spec => []ReaderInv
  BY Initially, Inductive, PTL DEF Spec

\* Every variable of the reader and of the session keeps its type, and the reader
\* never waits for an answer to a request that does not exist.
THEOREM TypeCorrect == Spec => []TypeOK
<1>1. ReaderInv => TypeOK
  <2> SUFFICES ASSUME AuthTypeOK, Location, Reading PROVE TypeOK
    BY DEF ReaderInv
  <2>1. pc[Main] \in (AuthLocations \cup {"sub", "recv"}) \ {"idle"}
    BY Goroutines DEF Location
  <2>2. \A c \in Clients : pc[c] \in {"off", "idle", "set", "truncate", "flush"}
    BY DEF Location, Writing
  <2>3. pc[Main] \in {"sub", "recv"} => request \in Requests
    BY DEF Reading, Running, Stopped
  <2> QED
    BY <2>1, <2>2, <2>3, Zenon DEF Reading, TypeOK
<1> QED
  BY <1>1, ReaderInvHolds, PTL

\* While the server says nothing unasked for, each request is answered with its own data
\* or its own error state, and none is asked twice or passed over, whatever logins,
\* expiries, refreshes and skipped requests come between.
THEOREM OwnAnswers == Spec => []AnswersAreOwn
<1>1. ReaderInv => AnswersAreOwn
  BY DEF ReaderInv
<1> QED
  BY <1>1, ReaderInvHolds, PTL

\* A run that ends well has read every page of the list, in order, before the details,
\* even if the server sent data again, as long as it refused no request in between.
THEOREM EveryPage == Spec => []NoPageSkipped
<1>1. ReaderInv => NoPageSkipped
  <2> SUFFICES ASSUME Reading, PagesRead, pc[Main] = "done", ~refused
               PROVE  \E last \in 1..Len(results) :
                        /\ \A n \in 1..Len(results) : results[n].asked <= Pages <=> n <= last
                        /\ results[1].got = 1 /\ results[last].got = Pages
                        /\ \A n \in 1..last - 1 :
                             results[n + 1].got \in {results[n].got, results[n].got + 1}
    BY Zenon DEF ReaderInv, NoPageSkipped
  <2>1. request > Pages
    BY DEF PagesRead
  <2>2. ReadUpToHere
    BY Zenon DEF PagesRead
  <2>3. PICK last \in 0..Len(results) : ReadSoFar(last)
    BY <2>2 DEF ReadUpToHere
  <2>4. Len(results) \in Nat /\ ~(request <= Pages) /\ request # 1
    BY <2>1, Constants DEF Reading
  <2>5. last \in 1..Len(results)
    BY <2>3, <2>4 DEF ReadSoFar
  <2> QED
    BY <2>3, <2>4, <2>5 DEF ReadSoFar
<1> QED
  BY <1>1, ReaderInvHolds, PTL

\* A code is asked for only when the refresh token on disk is not accepted: main holds
\* that token, and Login showed it to the server.
THEOREM KnownDevice == Spec => []NoCodeForKnownDevice
<1>1. ReaderInv => NoCodeForKnownDevice
  BY DEF ReaderInv, TokenKept, AskedForCode, NoCodeForKnownDevice
<1> QED
  BY <1>1, ReaderInvHolds, PTL
=============================================================================
