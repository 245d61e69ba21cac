---------------------------- MODULE WebSocketClient ----------------------------
(***************************************************************************)
(* The v2 WebSocket client (v2/internal/traderepublic/api/websocketclient) *)
(* with the goroutine that uses it (v2/cmd/websocket-downloader/main.go),  *)
(* one reader goroutine per subscription, the mutex, the channels, the     *)
(* server and a network that can lose a connection or fall silent.         *)
(*                                                                         *)
(* Process 0 is the user: it connects, subscribes, waits for the channel   *)
(* of a subscription or for its context, and closes the client at its end, *)
(* which ends the process with every goroutine.  Process s > 0 is the      *)
(* reader of subscription s.  Payloads are abstracted to the subscription  *)
(* the server sent them for.  The five seconds reconnect sleeps are part   *)
(* of its first step; the session token is not empty (an empty one makes   *)
(* subscribe return ErrAuthRequired without an effect).                    *)
(***************************************************************************)
EXTENDS Naturals, Integers, Sequences, FiniteSets

CONSTANTS MaxSubs,         \* bound: subscriptions the user makes
          MaxConns,        \* bound: connections dialled
          MaxInbox,        \* bound: unread messages on a connection
          MaxLost,         \* bound: connections the network resets
          MaxSilent,       \* bound: connections that fall silent, with no error
          MaxOutstanding,  \* subscriptions the user waits for at a time: 1 for main.go
          CanExpire        \* TRUE: the context of the user may expire

ASSUME ClientAssumption ==
  /\ {MaxSubs, MaxConns, MaxInbox, MaxLost, MaxSilent} \subseteq Nat
  /\ MaxOutstanding \in Nat \ {0}
  /\ CanExpire \in BOOLEAN

Sub  == 1..MaxSubs
Conn == 1..MaxConns
User == 0
Proc == {User} \cup Sub
Nobody == -1
None == 0                  \* conn = None: c.conn is nil

\* "A" carries data; "C" says that more follows, and stands for every message after
\* which the reader reads on (an unknown state, an error that does not parse); "E" is
\* an error.  The reply to the connect message does not parse as a message.
Message == [id : Sub, state : {"A", "C", "E"}]
Connected == [id |-> 0, state |-> "connected"]

VARIABLES
  pc,          \* pc[p]: where process p is
  conn,        \* c.conn
  closed,      \* c.closed
  mu,          \* the process that holds c.mu
  subID,       \* c.subID
  reads,       \* reads[s]: the connection reader s called ReadMessage on
  chan,        \* chan[s]: the data in the channel of s
  ended,       \* the channels that were closed
  waiting,     \* the subscriptions the user waits for
  link,        \* link[k]: the state of connection k
  inbox,       \* inbox[k]: what the server sent on k and nobody read
  open,        \* open[k]: the subscriptions the server serves on k
  expired,     \* the user's context is done
  panicked,    \* a goroutine dereferenced a nil connection
  lost, silenced,  \* faults so far
  put          \* history: put[s]: everything ever put into the channel of s

clientVars == <<conn, closed, mu, subID>>
chanVars   == <<chan, ended, put>>
netVars    == <<link, inbox, open>>
envVars    == <<expired, panicked, lost, silenced>>
vars == <<pc, clientVars, reads, chanVars, waiting, netVars, envVars>>

Init == /\ pc = [p \in Proc |-> IF p = User THEN "start" ELSE "none"]
        /\ conn = None /\ closed = FALSE /\ mu = Nobody /\ subID = 0
        /\ reads = [s \in Sub |-> None]
        /\ chan = [s \in Sub |-> <<>>] /\ ended = {} /\ put = [s \in Sub |-> <<>>]
        /\ waiting = {}
        /\ link = [k \in Conn |-> "unused"]
        /\ inbox = [k \in Conn |-> <<>>] /\ open = [k \in Conn |-> {}]
        /\ expired = FALSE /\ panicked = FALSE /\ lost = 0 /\ silenced = 0

Running == pc[User] # "exit"
Goto(p, l) == pc' = [pc EXCEPT ![p] = l]
Unlock == mu' = Nobody

\* ReadMessage is blocked on k in these processes; gorilla allows one at a time.
Readers(k) == {p \in Proc : \/ pc[p] = "read" /\ reads[p] = k
                            \/ pc[p] = "reply" /\ conn = k}
Arrived(k) == link[k] \in {"up", "silent"} /\ inbox[k] # <<>>
Reset(k) == link[k] \in {"lost", "shut"}
Broken(k) == Reset(k) \/ Cardinality(Readers(k)) > 1
Consume(k) == inbox' = [inbox EXCEPT ![k] = Tail(@)]

(***************************************************************************)
(* Connect and reconnect share their handshake; both hold c.mu from end to *)
(* end.                                                                    *)
(***************************************************************************)
\* Connect takes the mutex and returns at once if there is a connection.
Connect == /\ pc[User] = "start" /\ mu = Nobody
           /\ IF conn # None
                THEN Goto(User, "ready") /\ UNCHANGED mu
                ELSE Goto(User, "dial") /\ mu' = User
           /\ UNCHANGED <<conn, closed, subID, reads, chanVars, waiting, netVars, envVars>>

\* reconnect takes the mutex, closes the connection there is, and sleeps.
Reconnect(s) == /\ Running /\ pc[s] = "lock" /\ mu = Nobody
                /\ mu' = s /\ conn' = None /\ closed' = FALSE
                /\ link' = [k \in Conn |-> IF k = conn THEN "shut" ELSE link[k]]
                /\ Goto(s, "dial")
                /\ UNCHANGED <<subID, reads, chanVars, waiting, inbox, open, envVars>>

\* The handshake of p returns an error: the user gives up, a reader closes its
\* channel.  The connection stays what it is.
HandshakeErrorLocked(p) ==  \* mutant: the mutex is not unlocked
  /\ UNCHANGED mu
  /\ Goto(p, IF p = User THEN "exit" ELSE "done")
  /\ ended' = IF p = User THEN ended ELSE ended \cup {p}
  /\ UNCHANGED <<subID, reads, chan, put, waiting, inbox, open, envVars>>
HandshakeErrorReadsOn(p) ==  \* mutant: the error of reconnect is ignored
  /\ Unlock
  /\ Goto(p, IF p = User THEN "exit" ELSE "check")
  /\ UNCHANGED <<ended, subID, reads, chan, put, waiting, inbox, open, envVars>>
HandshakeError(p) ==
  /\ Unlock
  /\ Goto(p, IF p = User THEN "exit" ELSE "done")
  /\ ended' = IF p = User THEN ended ELSE ended \cup {p}
  /\ UNCHANGED <<subID, reads, chan, put, waiting, inbox, open, envVars>>

Unused == {k \in Conn : link[k] = "unused"}

Dial(p) == /\ Running /\ pc[p] = "dial" /\ ~expired /\ Unused # {}
           /\ conn' = CHOOSE k \in Unused : \A j \in Unused : k <= j
           /\ link' = [link EXCEPT ![conn'] = "up"]
           /\ closed' = IF p = User THEN FALSE ELSE closed
           /\ Goto(p, "hello")
           /\ UNCHANGED <<mu, subID, reads, chanVars, waiting, inbox, open, envVars>>

\* The dial fails, because the network does or the context is done.
DialFails(p) == /\ Running /\ pc[p] = "dial"
                /\ HandshakeError(p)
                /\ UNCHANGED <<conn, closed, link>>

\* The connect message is written; the server replies.
Hello(p) == /\ Running /\ pc[p] = "hello" /\ link[conn] # "shut"
            /\ inbox' = IF link[conn] = "up" THEN [inbox EXCEPT ![conn] = Append(@, Connected)]
                                             ELSE inbox
            /\ Goto(p, "reply")
            /\ UNCHANGED <<clientVars, reads, chanVars, waiting, link, open, envVars>>

HelloFails(p) == /\ Running /\ pc[p] = "hello" /\ Reset(conn)
                 /\ HandshakeError(p)
                 /\ UNCHANGED <<conn, closed, link>>

\* Whatever arrives first is taken for the reply.  There is no deadline.
Reply(p) == /\ Running /\ pc[p] = "reply" /\ Arrived(conn)
            /\ Consume(conn)
            /\ Unlock
            /\ Goto(p, IF p = User THEN "ready" ELSE "check")
            /\ UNCHANGED <<conn, closed, subID, reads, chanVars, waiting, link, open, envVars>>

ReplyFails(p) == /\ Running /\ pc[p] = "reply" /\ Broken(conn)
                 /\ HandshakeError(p)
                 /\ UNCHANGED <<conn, closed, link>>

Handshake(p) == \/ Dial(p) \/ DialFails(p) \/ Hello(p) \/ HelloFails(p)
                \/ Reply(p) \/ ReplyFails(p)

(***************************************************************************)
(* The user.                                                               *)
(***************************************************************************)
Refused == conn = None \/ closed

\* subscribe writes the request, numbers it and starts its reader.  A write on
\* a connection that was lost unnoticed reaches nobody.
Subscribe == /\ pc[User] = "ready" /\ mu = Nobody /\ ~Refused
             /\ Cardinality(waiting) < MaxOutstanding /\ subID < MaxSubs
             /\ link[conn] # "shut"
             /\ subID' = subID + 1
             /\ open' = IF link[conn] = "up" THEN [open EXCEPT ![conn] = @ \cup {subID'}]
                                             ELSE open
             /\ Goto(subID', "check")
             /\ waiting' = waiting \cup {subID'}
             /\ UNCHANGED <<conn, closed, mu, reads, chanVars, link, inbox, envVars>>

\* subscribe returns an error: it has no open connection, which leaves the user
\* with nothing more to do, or the write failed, which uses up the number.
SubscribeFails == /\ pc[User] = "ready" /\ mu = Nobody
                  /\ Cardinality(waiting) < MaxOutstanding /\ subID < MaxSubs
                  /\ \/ Refused /\ Goto(User, "leave") /\ UNCHANGED subID
                     \/ /\ ~Refused /\ Reset(conn)
                        /\ subID' = subID + 1
                        /\ \E l \in {"ready", "leave"} : Goto(User, l)
                  /\ UNCHANGED <<conn, closed, mu, reads, chanVars, waiting, netVars, envVars>>

\* The user takes the data of s, or nil when the channel is closed and empty.
Receive(s) == /\ pc[User] = "ready" /\ s \in waiting
              /\ chan[s] # <<>> \/ s \in ended
              /\ chan' = [chan EXCEPT ![s] = IF @ = <<>> THEN @ ELSE Tail(@)]
              /\ waiting' = waiting \ {s}
              /\ UNCHANGED <<pc, clientVars, reads, ended, put, netVars, envVars>>

\* The context is done first: the user forgets s, and goes on (a detail) or
\* leaves (a page).
GiveUp(s) == /\ pc[User] = "ready" /\ s \in waiting /\ expired
             /\ waiting' = waiting \ {s}
             /\ \E l \in {"ready", "leave"} : Goto(User, l)
             /\ UNCHANGED <<clientVars, reads, chanVars, netVars, envVars>>

\* The user has what it wants.
Finish == /\ pc[User] = "ready" /\ waiting = {}
          /\ Goto(User, "leave")
          /\ UNCHANGED <<clientVars, reads, chanVars, waiting, netVars, envVars>>

\* The deferred Close, after which the process exits.
Close == /\ pc[User] = "leave" /\ mu = Nobody
         /\ closed' = (closed \/ conn # None)
         /\ link' = [k \in Conn |-> IF k = conn THEN "shut" ELSE link[k]]
         /\ Goto(User, "exit")
         /\ UNCHANGED <<conn, mu, subID, reads, chanVars, waiting, inbox, open, envVars>>

UserStep == \/ Connect \/ Handshake(User) \/ Subscribe \/ SubscribeFails
            \/ \E s \in Sub : Receive(s) \/ GiveUp(s)
            \/ Finish \/ Close

(***************************************************************************)
(* The reader of subscription s.                                           *)
(***************************************************************************)
EndReader(s) == Goto(s, "done") /\ ended' = ended \cup {s} /\ UNCHANGED <<chan, put>>

StopReader(s) == /\ Running /\ pc[s] = "check" /\ expired
                 /\ EndReader(s)
                 /\ UNCHANGED <<clientVars, reads, waiting, netVars, envVars>>

StartReadLate(s) == /\ Running /\ pc[s] = "check" /\ conn # None  \* mutant: no ctx.Done
                    /\ reads' = [reads EXCEPT ![s] = conn]
                    /\ Goto(s, "read")
                    /\ UNCHANGED <<clientVars, chanVars, waiting, netVars, envVars>>
\* c.conn is read without the mutex and ReadMessage called on it, which on a nil
\* connection panics and ends the program.
StartRead(s) == /\ Running /\ pc[s] = "check" /\ ~expired
                /\ panicked' = (conn = None)
                /\ reads' = [reads EXCEPT ![s] = conn]
                /\ IF panicked' THEN Goto(User, "exit") ELSE Goto(s, "read")
                /\ UNCHANGED <<clientVars, chanVars, waiting, netVars, expired, lost, silenced>>

ReadFails(s) == /\ Running /\ pc[s] = "read" /\ Broken(reads[s])
                /\ Goto(s, "lock")
                /\ UNCHANGED <<clientVars, reads, chanVars, waiting, netVars, envVars>>

IsAny(m, s) == m.id # 0 /\ s # 0  \* mutant: the id is not compared
IsPrevious(m, s) == m.id = s - 1  \* mutant: numbered from zero
IsOwn(m, s) == m.id = s

\* Mutant: the reader goes on after data.
ReadOn(s) == /\ Running /\ pc[s] = "read" /\ Arrived(reads[s])
             /\ Consume(reads[s])
             /\ Goto(s, "check")
             /\ LET m == Head(inbox[reads[s]]) IN
                  IF IsOwn(m, s) /\ m.state = "A"
                    THEN /\ chan' = [chan EXCEPT ![s] = Append(@, m.id)]
                         /\ put' = [put EXCEPT ![s] = Append(@, m.id)]
                    ELSE UNCHANGED <<chan, put>>
             /\ UNCHANGED <<clientVars, reads, ended, waiting, link, open, envVars>>
\* The next message: data is put into the channel, an error ends the reader,
\* anything else, and every message of another subscription, is dropped.
Read(s) ==
  /\ Running /\ pc[s] = "read" /\ Arrived(reads[s])
  /\ Consume(reads[s])
  /\ LET m == Head(inbox[reads[s]]) IN
       \/ /\ ~IsOwn(m, s) \/ m.state \in {"C", "connected"}
          /\ Goto(s, "check")
          /\ UNCHANGED chanVars
       \/ /\ IsOwn(m, s) /\ m.state = "A"
          /\ chan' = [chan EXCEPT ![s] = Append(@, m.id)]
          /\ put' = [put EXCEPT ![s] = Append(@, m.id)]
          /\ Goto(s, "unsub")
          /\ UNCHANGED ended
       \/ /\ IsOwn(m, s) /\ m.state = "E"
          /\ EndReader(s)
  /\ UNCHANGED <<clientVars, reads, waiting, link, open, envVars>>

NoUnsubscribe(s) == /\ Running /\ pc[s] = "unsub" /\ mu = Nobody  \* mutant: no message
                    /\ EndReader(s)
                    /\ UNCHANGED <<clientVars, reads, waiting, netVars, envVars>>
\* unsubscribe tells the server, then the reader returns.
Unsubscribe(s) == /\ Running /\ pc[s] = "unsub" /\ mu = Nobody
                  /\ open' = IF ~Refused /\ link[conn] = "up"
                               THEN [open EXCEPT ![conn] = @ \ {s}] ELSE open
                  /\ EndReader(s)
                  /\ UNCHANGED <<clientVars, reads, waiting, link, inbox, envVars>>

ReaderStep(s) == \/ StopReader(s) \/ StartRead(s) \/ ReadFails(s) \/ Read(s)
                 \/ Reconnect(s) \/ Handshake(s) \/ Unsubscribe(s)

(***************************************************************************)
(* The server, the network and the clock.                                  *)
(***************************************************************************)
Send(k, s, state) ==
  /\ Running /\ link[k] = "up" /\ s \in open[k] /\ Len(inbox[k]) < MaxInbox
  /\ inbox' = [inbox EXCEPT ![k] = Append(@, [id |-> s, state |-> state])]
  /\ open' = IF state = "E" THEN [open EXCEPT ![k] = @ \ {s}] ELSE open
  /\ UNCHANGED <<pc, clientVars, reads, chanVars, waiting, link, envVars>>

\* A live connection is reset: what was under way is gone, reads and writes fail.
Lose(k) == /\ Running /\ link[k] = "up" /\ lost < MaxLost
           /\ lost' = lost + 1
           /\ link' = [link EXCEPT ![k] = "lost"]
           /\ inbox' = [inbox EXCEPT ![k] = <<>>]
           /\ UNCHANGED <<pc, clientVars, reads, chanVars, waiting, open, expired, panicked, silenced>>

\* A live connection falls silent: nothing arrives any more and nothing fails.
Silence(k) == /\ Running /\ link[k] = "up" /\ silenced < MaxSilent
              /\ silenced' = silenced + 1
              /\ link' = [link EXCEPT ![k] = "silent"]
              /\ UNCHANGED <<pc, clientVars, reads, chanVars, waiting, inbox, open, expired, panicked, lost>>

Expire == /\ Running /\ CanExpire /\ ~expired
          /\ expired' = TRUE
          /\ UNCHANGED <<pc, clientVars, reads, chanVars, waiting, netVars, panicked, lost, silenced>>

\* The server comes to an answer for s.
Serve(s) == \E k \in Conn : Send(k, s, "A") \/ Send(k, s, "E")

Next == \/ UserStep
        \/ \E s \in Sub : ReaderStep(s)
        \/ \E k \in Conn, s \in Sub, state \in {"A", "C", "E"} : Send(k, s, state)
        \/ \E k \in Conn : Lose(k) \/ Silence(k)
        \/ Expire

Spec == Init /\ [][Next]_vars

(***************************************************************************)
(* Each goroutine that can go on does.  The server answers a subscription  *)
(* it serves; strong fairness, because the bound on unread messages may    *)
(* keep it from sending now and then.  Nothing makes the network fail or   *)
(* the context expire.                                                     *)
(***************************************************************************)
FairSpec == /\ Spec
            /\ WF_vars(UserStep)
            /\ \A s \in Sub : WF_vars(ReaderStep(s)) /\ SF_vars(Serve(s))

(***************************************************************************)
(* Properties.                                                             *)
(***************************************************************************)
Locations == {"none", "start", "ready", "leave", "exit", "check", "read", "lock",
              "dial", "hello", "reply", "unsub", "done"}
Links == {"unused", "up", "lost", "silent", "shut"}

\* Every variable has its type; no channel ever holds more than one datum, so the
\* branch that drops data because a channel is full is never taken, and whoever
\* is in the handshake or in reconnect holds the mutex.
TypeOK ==
  /\ pc \in [Proc -> Locations]
  /\ conn \in Conn \cup {None} /\ closed \in BOOLEAN /\ mu \in Proc \cup {Nobody}
  /\ subID \in 0..MaxSubs
  /\ reads \in [Sub -> Conn \cup {None}]
  /\ chan \in [Sub -> Seq(Sub)] /\ put \in [Sub -> Seq(Sub)]
  /\ \A s \in Sub : Len(chan[s]) <= 1
  /\ ended \subseteq Sub /\ waiting \subseteq Sub
  /\ link \in [Conn -> Links]
  /\ inbox \in [Conn -> Seq(Message \cup {Connected})]
  /\ open \in [Conn -> SUBSET Sub]
  /\ expired \in BOOLEAN /\ panicked \in BOOLEAN
  /\ lost \in 0..MaxLost /\ silenced \in 0..MaxSilent
  /\ \A p \in Proc : pc[p] \in {"dial", "hello", "reply"} => mu = p

\* A user that waits for one subscription at a time, as main.go does, has at most
\* one goroutine reading or reconnecting, although it forgets a subscription
\* whose reader is still blocked when its context is done.  The connection
\* supports a single reader.
Busy(p) == pc[p] \in {"read", "lock", "dial", "hello", "reply"}
OneReader == \A p, q \in Proc : Busy(p) /\ Busy(q) => p = q

\* No reader calls ReadMessage on the nil connection a failed reconnect leaves.
NoNilConnection == ~panicked

\* When the reader of an answered subscription has returned, the server does not
\* serve it any more (README.md:115).
UnsubscribedAfterData ==
  \A s \in Sub, k \in Conn :
    pc[s] = "done" /\ put[s] # <<>> /\ link[k] = "up" => s \notin open[k]

\* The client keeps what Subscriptions promises.
S == INSTANCE Subscriptions WITH made <- subID, answers <- put
KeepsPromises == S!SSpec

\* As long as the network is sound, the user gets data or nil for what it waits
\* for.
AnsweredIfSound ==
  \A s \in Sub : (s \in waiting) ~> (s \notin waiting \/ lost + silenced > 0 \/ ~Running)

\* Once its context is done the program ends, whatever connections were lost, as
\* long as none fell silent.
EndsAfterTimeout == expired ~> (~Running \/ silenced > 0)

\* websocketclient/README.md:116: a lost connection is reconnected.  Nobody subscribes
\* again on the new one, so the user waits for ever.
EverySubscriptionAnswered ==
  \A s \in Sub : (s \in waiting) ~> (s \notin waiting \/ ~Running)

\* cmd/websocket-downloader/README.md:50: the timeout is for the entire operation.
TimeoutEndsOperation == expired ~> ~Running
=============================================================================
