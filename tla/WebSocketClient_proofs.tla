------------------------- MODULE WebSocketClient_proofs -------------------------
(***************************************************************************)
(* Theorems about WebSocketClient, for every number of subscriptions,      *)
(* connections, unread messages and faults: the client keeps the promises  *)
(* of Subscriptions and leaves nothing subscribed after data; a user who   *)
(* waits for one subscription at a time never has two readers at work and  *)
(* never reads on a nil connection.                                        *)
(***************************************************************************)
EXTENDS WebSocketClient, FiniteSetTheorems, WellFoundedInduction, TLAPS

\* The reader of s works on a connection, or is about to.
Reading == {"check", "read", "lock", "dial", "hello", "reply"}
Live(s) == pc[s] \in Reading

\* Who holds the mutex knows what conn is; a closed client has no user.
Locking ==
  /\ \A p \in Proc : pc[p] = "dial" => conn = None
  /\ \A p \in Proc : pc[p] \in {"hello", "reply"} => conn \in Conn
  /\ closed => ~Running

\* What a reader has delivered, by where it is.
Delivery ==
  \A s \in Sub :
    /\ pc[s] \in Reading \cup {"none", "unsub", "done"}
    /\ pc[s] = "read" => reads[s] \in Conn
    /\ pc[s] \in Reading \cup {"none"} => put[s] = <<>>
    /\ put[s] \in {<<>>, <<s>>} /\ chan[s] \in {<<>>, put[s]}
    /\ s \in ended <=> pc[s] = "done"
    /\ pc[s] # "none" => s <= subID

\* The server only serves on the connection the client uses.
Serving ==
  /\ \A k \in Conn : link[k] = "up" => k = conn
  /\ \A k \in Conn : link[k] = "unused" => open[k] = {}
  /\ \A k \in Conn : \A s \in open[k] : s <= subID

ClientInv == TypeOK /\ Locking /\ Delivery /\ Serving /\ UnsubscribedAfterData

\* With one subscription at a time, only the reader waited for works, until the
\* context is done.
OneAtATime ==
  /\ \A s, t \in waiting : s = t
  /\ pc[User] \in {"start", "dial", "hello", "reply", "ready", "leave", "exit"}
  /\ pc[User] \in {"start", "dial", "hello", "reply"} => \A s \in Sub : pc[s] = "none"
  /\ ~expired => \A s \in Sub : Live(s) => s \in waiting
  /\ \A s \in Sub : pc[s] \in {"check", "read"} /\ ~expired => conn \in Conn
  /\ OneReader /\ NoNilConnection

\* A set of numbers that is not empty has a least one.
LEMMA Least ==
  ASSUME NEW T, T \subseteq Nat, T # {}
  PROVE  \E x \in T : \A y \in T : x <= y
<1>1. IsWellFoundedOn(OpToRel(<, Nat), Nat)
  BY NatLessThanWellFounded, Zenon
<1>2. PICK x \in T : \A y \in T : ~ (<<y, x>> \in OpToRel(<, Nat))
  BY <1>1, WFMin, Zenon
<1>3. \A y \in T : <<y, x>> \in OpToRel(<, Nat) <=> y < x
  BY Zenon DEF OpToRel
<1>4. x \in Nat /\ \A y \in T : y \in Nat /\ ~(y < x)
  BY <1>2, <1>3
<1>5. \A y \in T : x <= y
  BY <1>4
<1> QED
  BY <1>5

\* What the provers need of the constants.
LEMMA Constants ==
  /\ MaxSubs \in Nat /\ MaxConns \in Nat /\ MaxInbox \in Nat /\ MaxLost \in Nat /\ MaxSilent \in Nat
  /\ Sub \subseteq Nat \ {0} /\ Conn \subseteq Nat \ {0} /\ User \in Proc /\ Sub \subseteq Proc
  /\ Proc \subseteq Nat /\ User \notin Sub /\ None \notin Conn /\ Nobody \notin Proc
  BY ClientAssumption DEF ClientAssumption, Sub, Conn, Proc, User, None, Nobody

\* The connection dialled is one nobody used.
LEMMA Dialled ==
  ASSUME NEW p, Dial(p)
  PROVE  conn' \in Conn /\ link[conn'] = "unused"
<1>1. Unused # {} /\ Unused \subseteq Nat /\ Unused \subseteq Conn
  BY Constants DEF Dial, Unused
<1>2. \E k \in Unused : \A j \in Unused : k <= j
  BY <1>1, Least
<1>3. conn' \in Unused
  BY <1>2, Zenon DEF Dial
<1> QED
  BY <1>1, <1>3 DEF Unused

\* The handshake of p ends with an error.
Failure(p) == DialFails(p) \/ HelloFails(p) \/ ReplyFails(p)

\* Every step is one of these.
LEMMA Steps ==
  ASSUME [Next]_vars
  PROVE  \/ Connect \/ Subscribe \/ SubscribeFails \/ Finish \/ Close \/ Expire
         \/ UNCHANGED vars
         \/ \E s \in Sub : Receive(s) \/ GiveUp(s)
         \/ \E p \in Proc : Dial(p) \/ Hello(p) \/ Reply(p) \/ Failure(p)
         \/ \E s \in Sub : \/ StopReader(s) \/ StartRead(s) \/ ReadFails(s) \/ Read(s)
                           \/ Reconnect(s) \/ Unsubscribe(s)
         \/ \E k \in Conn, s \in Sub, state \in {"A", "C", "E"} : Send(k, s, state)
         \/ \E k \in Conn : Lose(k) \/ Silence(k)
  BY Constants DEF Next, UserStep, ReaderStep, Handshake, Failure

(***************************************************************************)
(* Type correctness, with what it needs: the mutex and the connections a   *)
(* process works on.                                                       *)
(***************************************************************************)
\* What a failed handshake does.
LEMMA FailureStep ==
  ASSUME NEW p \in Proc, Failure(p)
  PROVE  /\ Running /\ pc[p] \in {"dial", "hello", "reply"}
         /\ mu' = Nobody /\ pc' = [pc EXCEPT ![p] = IF p = User THEN "exit" ELSE "done"]
         /\ ended' = IF p = User THEN ended ELSE ended \cup {p}
         /\ UNCHANGED <<conn, closed, subID, reads, chan, put, waiting, netVars, envVars>>
  BY DEF Failure, DialFails, HelloFails, ReplyFails, HandshakeError, Unlock, Goto, netVars

\* A new subscription has the next number, and a connection.
LEMMA Subscribed ==
  ASSUME ClientInv, Subscribe
  PROVE  subID \in Nat /\ subID' = subID + 1 /\ subID' \in Sub /\ conn \in Conn
<1>1. subID \in 0..MaxSubs /\ subID < MaxSubs /\ subID' = subID + 1 /\ MaxSubs \in Nat
  BY Constants DEF Subscribe, ClientInv, TypeOK
<1>2. conn \in Conn
  BY DEF Subscribe, Refused, ClientInv, TypeOK
<1> QED
  BY <1>1, <1>2 DEF Sub

\* Where processes are and who holds the mutex.
ControlType ==
  /\ pc \in [Proc -> Locations] /\ mu \in Proc \cup {Nobody}
  /\ \A p \in Proc : pc[p] \in {"dial", "hello", "reply"} => mu = p

LEMMA ControlTypeStep == ClientInv /\ [Next]_vars => ControlType'
<1> SUFFICES ASSUME ClientInv, [Next]_vars PROVE ControlType'
  OBVIOUS
<1>1. ControlType
  BY DEF ClientInv, TypeOK, ControlType
<1>2. User \in Proc /\ Sub \subseteq Proc /\ Nobody \notin Proc /\ User \notin Sub
  BY Constants
<1> USE <1>1, <1>2 DEF ControlType, Goto, Locations
<1>3. CASE Connect
  BY <1>3 DEF Connect
<1>4. CASE Subscribe
  <2>1. subID' \in Sub
    BY <1>4, Subscribed
  <2> QED
    BY <1>4, <2>1 DEF Subscribe
<1>5. CASE SubscribeFails \/ Finish \/ Close
  BY <1>5 DEF SubscribeFails, Finish, Close, clientVars
<1>6. CASE Expire \/ UNCHANGED vars
  BY <1>6 DEF Expire, vars, clientVars
<1>7. ASSUME NEW s \in Sub, Receive(s) \/ GiveUp(s) PROVE ControlType'
  BY <1>7 DEF Receive, GiveUp, clientVars
<1>8. ASSUME NEW p \in Proc, Dial(p) \/ Hello(p) PROVE ControlType'
  BY <1>8 DEF Dial, Hello, clientVars
<1>9. ASSUME NEW p \in Proc, Reply(p) PROVE ControlType'
  BY <1>9 DEF Reply, Unlock
<1>10. ASSUME NEW p \in Proc, Failure(p) PROVE ControlType'
  BY <1>10, FailureStep
<1>11. ASSUME NEW s \in Sub, StopReader(s) \/ ReadFails(s) \/ Unsubscribe(s) PROVE ControlType'
  BY <1>11 DEF StopReader, ReadFails, Unsubscribe, EndReader, clientVars
<1>12. ASSUME NEW s \in Sub, StartRead(s) PROVE ControlType'
  BY <1>12 DEF StartRead, clientVars
<1>13. ASSUME NEW s \in Sub, Read(s) PROVE ControlType'
  <2>1. mu' = mu /\ pc[s] = "read" /\ \E l \in {"check", "unsub", "done"} : pc' = [pc EXCEPT ![s] = l]
    BY <1>13, Zenon DEF Read, EndReader, clientVars
  <2> QED
    BY <2>1
<1>14. ASSUME NEW s \in Sub, Reconnect(s) PROVE ControlType'
  BY <1>14 DEF Reconnect
<1>15. ASSUME NEW k \in Conn, NEW s \in Sub, NEW state, Send(k, s, state) PROVE ControlType'
  BY <1>15 DEF Send, clientVars
<1>16. ASSUME NEW k \in Conn, Lose(k) \/ Silence(k) PROVE ControlType'
  BY <1>16 DEF Lose, Silence, clientVars
<1> QED
  BY <1>3, <1>4, <1>5, <1>6, <1>7, <1>8, <1>9, <1>10, <1>11, <1>12, <1>13, <1>14, <1>15, <1>16, Steps

\* What the client knows of its connection.
LEMMA LockingStep == ClientInv /\ [Next]_vars => Locking'
<1> SUFFICES ASSUME ClientInv, [Next]_vars PROVE Locking'
  OBVIOUS
<1>1. ControlType /\ Locking /\ conn \in Conn \cup {None}
  BY DEF ClientInv, TypeOK, ControlType
<1>2. User \in Proc /\ Sub \subseteq Proc /\ Nobody \notin Proc /\ User \notin Sub
  BY Constants
<1> USE <1>1, <1>2 DEF ControlType, Locking, Goto, Locations, Running
<1>3. CASE Connect
  BY <1>3 DEF Connect
<1>4. CASE Subscribe
  <2>1. subID' \in Sub
    BY <1>4, Subscribed
  <2> QED
    BY <1>4, <2>1 DEF Subscribe
<1>5. CASE SubscribeFails \/ Finish \/ Close
  BY <1>5 DEF SubscribeFails, Finish, Close, clientVars
<1>6. CASE Expire \/ UNCHANGED vars
  BY <1>6 DEF Expire, vars, clientVars
<1>7. ASSUME NEW s \in Sub, Receive(s) \/ GiveUp(s) PROVE Locking'
  BY <1>7 DEF Receive, GiveUp, clientVars
<1>8. ASSUME NEW p \in Proc, Dial(p) PROVE Locking'
  BY <1>8, Dialled DEF Dial
<1>9. ASSUME NEW p \in Proc, Hello(p) \/ Reply(p) PROVE Locking'
  BY <1>9 DEF Hello, Reply, clientVars
<1>10. ASSUME NEW p \in Proc, Failure(p) PROVE Locking'
  BY <1>10, FailureStep
<1>11. ASSUME NEW s \in Sub, StopReader(s) \/ ReadFails(s) \/ Unsubscribe(s) PROVE Locking'
  BY <1>11 DEF StopReader, ReadFails, Unsubscribe, EndReader, clientVars
<1>12. ASSUME NEW s \in Sub, StartRead(s) PROVE Locking'
  BY <1>12 DEF StartRead, clientVars
<1>13. ASSUME NEW s \in Sub, Read(s) PROVE Locking'
  <2>1. /\ UNCHANGED clientVars /\ pc[s] = "read"
        /\ \E l \in {"check", "unsub", "done"} : pc' = [pc EXCEPT ![s] = l]
    BY <1>13, Zenon DEF Read, EndReader
  <2> QED
    BY <2>1 DEF clientVars
<1>14. ASSUME NEW s \in Sub, Reconnect(s) PROVE Locking'
  BY <1>14 DEF Reconnect
<1>15. ASSUME NEW k \in Conn, NEW s \in Sub, NEW state, Send(k, s, state) PROVE Locking'
  BY <1>15 DEF Send, clientVars
<1>16. ASSUME NEW k \in Conn, Lose(k) \/ Silence(k) PROVE Locking'
  BY <1>16 DEF Lose, Silence, clientVars
<1> QED
  BY <1>3, <1>4, <1>5, <1>6, <1>7, <1>8, <1>9, <1>10, <1>11, <1>12, <1>13, <1>14, <1>15, <1>16, Steps

\* What reading a message does: it is dropped, delivered, or ends the reader.
LEMMA ReadStep ==
  ASSUME ClientInv, NEW s \in Sub, Read(s)
  PROVE  /\ Running /\ pc[s] = "read" /\ reads[s] \in Conn /\ inbox[reads[s]] # <<>>
         /\ inbox' = [inbox EXCEPT ![reads[s]] = Tail(@)]
         /\ UNCHANGED <<clientVars, reads, waiting, link, open, envVars>>
         /\ \/ /\ pc' = [pc EXCEPT ![s] = "check"] /\ UNCHANGED chanVars
            \/ /\ pc' = [pc EXCEPT ![s] = "unsub"] /\ ended' = ended
               /\ chan' = [chan EXCEPT ![s] = <<s>>] /\ put' = [put EXCEPT ![s] = <<s>>]
            \/ /\ pc' = [pc EXCEPT ![s] = "done"] /\ ended' = ended \cup {s}
               /\ UNCHANGED <<chan, put>>
<1>1. /\ Running /\ pc[s] = "read" /\ inbox[reads[s]] # <<>>
      /\ inbox' = [inbox EXCEPT ![reads[s]] = Tail(@)]
      /\ UNCHANGED <<clientVars, reads, waiting, link, open, envVars>>
  BY Zenon DEF Read, Arrived, Consume
<1>2. reads[s] \in Conn /\ put[s] = <<>> /\ chan[s] = <<>>
  BY <1>1 DEF ClientInv, Delivery, Reading
<1>3. chan \in [Sub -> Seq(Sub)] /\ put \in [Sub -> Seq(Sub)]
  BY DEF ClientInv, TypeOK
<1>4. Append(<<>>, s) = <<s>>
  OBVIOUS
<1> DEFINE m == Head(inbox[reads[s]])
<1>5. \/ Goto(s, "check") /\ UNCHANGED chanVars
      \/ /\ m.id = s /\ Goto(s, "unsub") /\ ended' = ended
         /\ chan' = [chan EXCEPT ![s] = Append(@, m.id)]
         /\ put' = [put EXCEPT ![s] = Append(@, m.id)]
      \/ Goto(s, "done") /\ ended' = ended \cup {s} /\ UNCHANGED <<chan, put>>
  BY Zenon DEF Read, IsOwn, EndReader
<1>6. [chan EXCEPT ![s] = Append(@, s)] = [chan EXCEPT ![s] = <<s>>]
      /\ [put EXCEPT ![s] = Append(@, s)] = [put EXCEPT ![s] = <<s>>]
  BY <1>2, <1>3, <1>4
<1> QED
  BY <1>1, <1>2, <1>5, <1>6, Zenon DEF Goto

\* What is delivered, by where the reader is.
LEMMA DeliveryStep == ClientInv /\ [Next]_vars => Delivery'
<1> SUFFICES ASSUME ClientInv, [Next]_vars PROVE Delivery'
  OBVIOUS
<1>1. /\ pc \in [Proc -> Locations] /\ Delivery /\ reads \in [Sub -> Conn \cup {None}]
      /\ chan \in [Sub -> Seq(Sub)] /\ put \in [Sub -> Seq(Sub)] /\ subID \in Nat
      /\ ended \subseteq Sub
  BY Constants DEF ClientInv, TypeOK
<1>2. User \in Proc /\ Sub \subseteq Proc /\ User \notin Sub /\ Sub \subseteq Nat
  BY Constants
<1> USE <1>1, <1>2 DEF Delivery, Goto, Reading
<1>3. CASE Connect \/ SubscribeFails \/ Finish \/ Close
  BY <1>3 DEF Connect, SubscribeFails, Finish, Close, clientVars, chanVars
<1>4. CASE Subscribe
  <2>1. /\ pc' = [pc EXCEPT ![subID + 1] = "check"] /\ subID' = subID + 1 /\ subID + 1 \in Sub
        /\ UNCHANGED <<chan, ended, put, reads>>
    BY <1>4, Subscribed, Zenon DEF Subscribe, chanVars
  <2>2. pc[subID + 1] = "none"
    BY <2>1
  <2> QED
    BY <2>1, <2>2
<1>5. CASE Expire \/ UNCHANGED vars
  BY <1>5 DEF Expire, vars, clientVars, chanVars
<1>6. ASSUME NEW s \in Sub, Receive(s) PROVE Delivery'
  <2>1. /\ chan' = [chan EXCEPT ![s] = IF @ = <<>> THEN @ ELSE Tail(@)]
        /\ UNCHANGED <<pc, ended, put, reads, subID>>
    BY <1>6 DEF Receive, clientVars
  <2>2. Tail(<<s>>) = <<>>
    OBVIOUS
  <2>3. chan'[s] = <<>> /\ \A t \in Sub : t # s => chan'[t] = chan[t]
    BY <2>1, <2>2
  <2> QED
    BY <2>1, <2>3
<1>7. ASSUME NEW s \in Sub, GiveUp(s) PROVE Delivery'
  BY <1>7 DEF GiveUp, clientVars, chanVars
<1>8. ASSUME NEW p \in Proc, Dial(p) \/ Hello(p) \/ Reply(p) PROVE Delivery'
  <2>1. /\ \E l \in {"hello", "reply", "ready", "check"} : pc' = [pc EXCEPT ![p] = l]
        /\ (p # User => pc'[p] # "ready") /\ pc[p] \in {"dial", "hello", "reply"}
        /\ UNCHANGED <<chan, ended, put, reads, subID>>
    BY <1>8 DEF Dial, Hello, Reply, clientVars, chanVars
  <2> QED
    BY <2>1
<1>9. ASSUME NEW p \in Proc, Failure(p) PROVE Delivery'
  <2>1. p \in Sub \/ p = User
    BY DEF Proc
  <2> QED
    BY <1>9, <2>1, FailureStep
<1>10. ASSUME NEW s \in Sub, StopReader(s) \/ Unsubscribe(s) PROVE Delivery'
  BY <1>10 DEF StopReader, Unsubscribe, EndReader, clientVars
<1>11. ASSUME NEW s \in Sub, ReadFails(s) \/ Reconnect(s) PROVE Delivery'
  BY <1>11 DEF ReadFails, Reconnect, clientVars, chanVars
<1>12. ASSUME NEW s \in Sub, StartRead(s) PROVE Delivery'
  <2>1. /\ reads' = [reads EXCEPT ![s] = conn] /\ pc[s] = "check"
        /\ UNCHANGED <<chan, ended, put, subID>>
        /\ \/ conn \in Conn /\ pc' = [pc EXCEPT ![s] = "read"]
           \/ pc' = [pc EXCEPT ![User] = "exit"]
    BY <1>12 DEF StartRead, clientVars, chanVars, ClientInv, TypeOK
  <2> QED
    BY <2>1
<1>13. ASSUME NEW s \in Sub, Read(s) PROVE Delivery'
  BY <1>13, ReadStep DEF chanVars, clientVars
<1>14. ASSUME NEW k \in Conn, NEW s \in Sub, NEW state, Send(k, s, state) PROVE Delivery'
  BY <1>14 DEF Send, clientVars, chanVars
<1>15. ASSUME NEW k \in Conn, Lose(k) \/ Silence(k) PROVE Delivery'
  BY <1>15 DEF Lose, Silence, clientVars, chanVars
<1> QED
  BY <1>3, <1>4, <1>5, <1>6, <1>7, <1>8, <1>9, <1>10, <1>11, <1>12, <1>13, <1>14, <1>15, Steps

\* What the server serves, and on which connection.
LEMMA ServingStep == ClientInv /\ [Next]_vars => Serving'
<1> SUFFICES ASSUME ClientInv, [Next]_vars PROVE Serving'
  OBVIOUS
<1>1. /\ Serving /\ Locking /\ subID \in Nat
      /\ link \in [Conn -> Links] /\ open \in [Conn -> SUBSET Sub] /\ conn \in Conn \cup {None}
  BY Constants DEF ClientInv, TypeOK
<1>2. User \in Proc /\ Sub \subseteq Proc /\ Sub \subseteq Nat /\ None \notin Conn
  BY Constants
<1> USE <1>1, <1>2 DEF Serving
<1>3. CASE Connect \/ SubscribeFails \/ Finish \/ Expire \/ UNCHANGED vars
  <2>1. UNCHANGED <<conn, link, open>> /\ subID' \in {subID, subID + 1}
    BY <1>3 DEF Connect, SubscribeFails, Finish, Expire, vars, clientVars, netVars
  <2> QED
    BY <2>1
<1>4. CASE Subscribe
  <2>1. /\ subID' = subID + 1 /\ subID + 1 \in Sub /\ conn \in Conn
        /\ UNCHANGED <<conn, link>>
        /\ open' = IF link[conn] = "up" THEN [open EXCEPT ![conn] = @ \cup {subID + 1}] ELSE open
    BY <1>4, Subscribed, Zenon DEF Subscribe
  <2> QED
    BY <2>1
<1>5. CASE Close
  BY <1>5 DEF Close
<1>6. ASSUME NEW s \in Sub, Receive(s) \/ GiveUp(s) PROVE Serving'
  BY <1>6 DEF Receive, GiveUp, clientVars, netVars
<1>7. ASSUME NEW p \in Proc, Dial(p) PROVE Serving'
  <2>1. /\ conn = None /\ conn' \in Conn /\ link' = [link EXCEPT ![conn'] = "up"]
        /\ UNCHANGED <<open, subID>>
    BY <1>7, Dialled DEF Dial, Locking
  <2> QED
    BY <2>1
<1>8. ASSUME NEW p \in Proc, Hello(p) \/ Reply(p) PROVE Serving'
  BY <1>8 DEF Hello, Reply, clientVars
<1>9. ASSUME NEW p \in Proc, Failure(p) PROVE Serving'
  BY <1>9, FailureStep DEF netVars
<1>10. ASSUME NEW s \in Sub, StopReader(s) \/ StartRead(s) \/ ReadFails(s) PROVE Serving'
  BY <1>10 DEF StopReader, StartRead, ReadFails, clientVars, netVars
<1>11. ASSUME NEW s \in Sub, Unsubscribe(s) PROVE Serving'
  BY <1>11 DEF Unsubscribe, clientVars, Refused
<1>12. ASSUME NEW s \in Sub, Read(s) PROVE Serving'
  <2>1. UNCHANGED <<conn, link, open, subID>>
    BY <1>12, ReadStep DEF clientVars
  <2> QED
    BY <2>1
<1>13. ASSUME NEW s \in Sub, Reconnect(s) PROVE Serving'
  BY <1>13 DEF Reconnect
<1>14. ASSUME NEW k \in Conn, NEW s \in Sub, NEW state, Send(k, s, state) PROVE Serving'
  BY <1>14 DEF Send, clientVars
<1>15. ASSUME NEW k \in Conn, Lose(k) \/ Silence(k) PROVE Serving'
  BY <1>15 DEF Lose, Silence, clientVars
<1> QED
  BY <1>3, <1>4, <1>5, <1>6, <1>7, <1>8, <1>9, <1>10, <1>11, <1>12, <1>13, <1>14, <1>15, Steps

\* An answered subscription whose reader returned is not served.
LEMMA UnsubscribedStep == ClientInv /\ [Next]_vars => UnsubscribedAfterData'
<1> SUFFICES ASSUME ClientInv, [Next]_vars PROVE UnsubscribedAfterData'
  OBVIOUS
<1>1. /\ pc \in [Proc -> Locations] /\ put \in [Sub -> Seq(Sub)]
      /\ link \in [Conn -> Links] /\ open \in [Conn -> SUBSET Sub] /\ conn \in Conn \cup {None}
      /\ UnsubscribedAfterData
  BY DEF ClientInv, TypeOK
<1>2. /\ User \in Proc /\ Sub \subseteq Proc /\ None \notin Conn /\ User \notin Sub
  BY Constants
<1>3. ASSUME NEW t \in Sub, pc[t] \in Reading PROVE put[t] = <<>>
  BY <1>3 DEF ClientInv, Delivery
<1> USE <1>1, <1>2 DEF UnsubscribedAfterData, Goto
<1>4. CASE Connect \/ SubscribeFails \/ Finish \/ Expire \/ UNCHANGED vars
  BY <1>4 DEF Connect, SubscribeFails, Finish, Expire, vars, chanVars, netVars
<1>5. CASE Subscribe
  <2>1. /\ subID + 1 \in Sub /\ conn \in Conn /\ pc' = [pc EXCEPT ![subID + 1] = "check"]
        /\ UNCHANGED <<put, link>>
        /\ open' = IF link[conn] = "up" THEN [open EXCEPT ![conn] = @ \cup {subID + 1}] ELSE open
    BY <1>5, Subscribed, Zenon DEF Subscribe, chanVars
  <2> QED
    BY <2>1
<1>6. CASE Close
  BY <1>6 DEF Close, chanVars
<1>7. ASSUME NEW s \in Sub, Receive(s) \/ GiveUp(s) PROVE UnsubscribedAfterData'
  BY <1>7 DEF Receive, GiveUp, chanVars, netVars
<1>8. ASSUME NEW p \in Proc, Dial(p) PROVE UnsubscribedAfterData'
  <2>1. /\ conn' \in Conn /\ open[conn'] = {} /\ link' = [link EXCEPT ![conn'] = "up"]
        /\ pc' = [pc EXCEPT ![p] = "hello"] /\ UNCHANGED <<open, put>>
    BY <1>8, Dialled DEF Dial, chanVars, ClientInv, Serving
  <2> QED
    BY <2>1
<1>9. ASSUME NEW p \in Proc, Hello(p) \/ Reply(p) PROVE UnsubscribedAfterData'
  BY <1>9 DEF Hello, Reply, chanVars
<1>10. ASSUME NEW p \in Proc, Failure(p) PROVE UnsubscribedAfterData'
  BY <1>3, <1>10, FailureStep DEF netVars, Reading
<1>11. ASSUME NEW s \in Sub, StopReader(s) \/ StartRead(s) \/ ReadFails(s) PROVE UnsubscribedAfterData'
  <2>1. /\ pc[s] \in Reading /\ UNCHANGED <<put, link, open>>
        /\ \E p \in {s, User}, l \in {"done", "exit", "read", "lock"} : pc' = [pc EXCEPT ![p] = l]
    BY <1>11 DEF StopReader, StartRead, ReadFails, EndReader, chanVars, netVars, Reading
  <2>2. \A t \in Sub : t # s /\ pc'[t] = "done" => pc[t] = "done"
    BY <2>1
  <2>3. put[s] = <<>>
    BY <1>3, <2>1
  <2> QED
    BY <2>1, <2>2, <2>3
<1>12. ASSUME NEW s \in Sub, Unsubscribe(s) PROVE UnsubscribedAfterData'
  <2>1. /\ Running /\ pc' = [pc EXCEPT ![s] = "done"] /\ UNCHANGED <<put, link>>
        /\ open' = IF ~Refused /\ link[conn] = "up" THEN [open EXCEPT ![conn] = @ \ {s}] ELSE open
    BY <1>12, Zenon DEF Unsubscribe, EndReader
  <2>2. \A k \in Conn : link[k] = "up" => k = conn /\ ~Refused
    BY <2>1 DEF ClientInv, Serving, Locking, Refused
  <2> QED
    BY <2>1, <2>2
<1>13. ASSUME NEW s \in Sub, Read(s) PROVE UnsubscribedAfterData'
  <2>1. /\ pc[s] = "read" /\ put[s] = <<>> /\ UNCHANGED <<link, open>>
        /\ \/ \E l \in {"check", "done"} : pc' = [pc EXCEPT ![s] = l] /\ put' = put
           \/ pc' = [pc EXCEPT ![s] = "unsub"] /\ put' = [put EXCEPT ![s] = <<s>>]
    BY <1>3, <1>13, ReadStep DEF chanVars, Reading
  <2> QED
    BY <2>1
<1>14. ASSUME NEW s \in Sub, Reconnect(s) PROVE UnsubscribedAfterData'
  BY <1>14 DEF Reconnect, chanVars
<1>15. ASSUME NEW k \in Conn, NEW s \in Sub, NEW state, Send(k, s, state) PROVE UnsubscribedAfterData'
  BY <1>15 DEF Send, chanVars
<1>16. ASSUME NEW k \in Conn, Lose(k) \/ Silence(k) PROVE UnsubscribedAfterData'
  BY <1>16 DEF Lose, Silence, chanVars
<1> QED
  BY <1>4, <1>5, <1>6, <1>7, <1>8, <1>9, <1>10, <1>11, <1>12, <1>13, <1>14, <1>15, <1>16, Steps

\* What is typed apart from the control state.
ClientType ==
  /\ conn \in Conn \cup {None} /\ closed \in BOOLEAN /\ subID \in 0..MaxSubs
  /\ reads \in [Sub -> Conn \cup {None}] /\ waiting \subseteq Sub
ChannelType ==
  /\ chan \in [Sub -> Seq(Sub)] /\ put \in [Sub -> Seq(Sub)] /\ ended \subseteq Sub
  /\ \A s \in Sub : Len(chan[s]) <= 1
NetworkType ==
  /\ link \in [Conn -> Links] /\ open \in [Conn -> SUBSET Sub]
  /\ inbox \in [Conn -> Seq(Message \cup {Connected})]
EnvironmentType ==
  /\ expired \in BOOLEAN /\ panicked \in BOOLEAN
  /\ lost \in 0..MaxLost /\ silenced \in 0..MaxSilent

LEMMA TypeParts == TypeOK <=> ControlType /\ ClientType /\ ChannelType /\ NetworkType /\ EnvironmentType
  BY DEF TypeOK, ControlType, ClientType, ChannelType, NetworkType, EnvironmentType

LEMMA ClientTypeStep == ClientInv /\ [Next]_vars => ClientType'
<1> SUFFICES ASSUME ClientInv, [Next]_vars PROVE ClientType'
  OBVIOUS
<1>1. ClientType /\ MaxSubs \in Nat
  BY TypeParts, Constants DEF ClientInv
<1> USE <1>1 DEF ClientType
<1>2. CASE Connect \/ Finish \/ Close \/ Expire \/ UNCHANGED vars
  BY <1>2 DEF Connect, Finish, Close, Expire, vars, clientVars
<1>3. CASE Subscribe
  <2>1. UNCHANGED <<conn, closed, reads>> /\ waiting' = waiting \cup {subID'}
    BY <1>3 DEF Subscribe
  <2>2. subID' \in Sub /\ subID' \in 0..MaxSubs
    BY <1>3, Subscribed DEF Sub
  <2> QED
    BY <2>1, <2>2
<1>4. CASE SubscribeFails
  BY <1>4 DEF SubscribeFails
<1>5. ASSUME NEW s \in Sub, Receive(s) \/ GiveUp(s) PROVE ClientType'
  BY <1>5 DEF Receive, GiveUp, clientVars
<1>6. ASSUME NEW p \in Proc, Dial(p) PROVE ClientType'
  BY <1>6, Dialled DEF Dial
<1>7. ASSUME NEW p \in Proc, Hello(p) \/ Reply(p) PROVE ClientType'
  BY <1>7 DEF Hello, Reply, clientVars
<1>8. ASSUME NEW p \in Proc, Failure(p) PROVE ClientType'
  BY <1>8, FailureStep
<1>9. ASSUME NEW s \in Sub, StopReader(s) \/ ReadFails(s) \/ Unsubscribe(s) PROVE ClientType'
  BY <1>9 DEF StopReader, ReadFails, Unsubscribe, clientVars
<1>10. ASSUME NEW s \in Sub, StartRead(s) PROVE ClientType'
  BY <1>10 DEF StartRead, clientVars
<1>11. ASSUME NEW s \in Sub, Read(s) PROVE ClientType'
  <2>1. UNCHANGED <<clientVars, reads, waiting>>
    BY <1>11, ReadStep
  <2> QED
    BY <2>1 DEF clientVars
<1>12. ASSUME NEW s \in Sub, Reconnect(s) PROVE ClientType'
  BY <1>12 DEF Reconnect
<1>13. ASSUME NEW k \in Conn, NEW s \in Sub, NEW state, Send(k, s, state) PROVE ClientType'
  BY <1>13 DEF Send, clientVars
<1>14. ASSUME NEW k \in Conn, Lose(k) \/ Silence(k) PROVE ClientType'
  BY <1>14 DEF Lose, Silence, clientVars
<1> QED
  BY <1>2, <1>3, <1>4, <1>5, <1>6, <1>7, <1>8, <1>9, <1>10, <1>11, <1>12, <1>13, <1>14, Steps

LEMMA ChannelTypeStep == ClientInv /\ [Next]_vars => ChannelType'
<1> SUFFICES ASSUME ClientInv, [Next]_vars PROVE ChannelType'
  OBVIOUS
<1>1. ChannelType
  BY TypeParts DEF ClientInv
<1>2. \A s \in Sub : <<s>> \in Seq(Sub) /\ Len(<<s>>) = 1
  OBVIOUS
<1>3. \A s \in Sub : chan[s] = <<>> \/ (chan[s] = <<s>> /\ Tail(chan[s]) = <<>>)
  <2>1. \A s \in Sub : Tail(<<s>>) = <<>>
    OBVIOUS
  <2>2. \A s \in Sub : chan[s] = <<>> \/ chan[s] = <<s>>
    BY DEF ClientInv, Delivery
  <2> QED
    BY <2>1, <2>2
<1> USE <1>1 DEF ChannelType
<1>4. CASE Connect \/ Subscribe \/ SubscribeFails \/ Finish \/ Close \/ Expire \/ UNCHANGED vars
  BY <1>4 DEF Connect, Subscribe, SubscribeFails, Finish, Close, Expire, vars, chanVars
<1>5. ASSUME NEW s \in Sub, Receive(s) PROVE ChannelType'
  <2>1. chan' = [chan EXCEPT ![s] = <<>>] /\ UNCHANGED <<put, ended>>
    BY <1>3, <1>5 DEF Receive
  <2> QED
    BY <2>1
<1>6. ASSUME NEW s \in Sub, GiveUp(s) PROVE ChannelType'
  BY <1>6 DEF GiveUp, chanVars
<1>7. ASSUME NEW p \in Proc, Dial(p) \/ Hello(p) \/ Reply(p) PROVE ChannelType'
  BY <1>7 DEF Dial, Hello, Reply, chanVars
<1>8. ASSUME NEW p \in Proc, Failure(p) PROVE ChannelType'
  <2>1. p \in Sub \/ p = User
    BY DEF Proc
  <2> QED
    BY <1>8, <2>1, FailureStep
<1>9. ASSUME NEW s \in Sub, StopReader(s) \/ Unsubscribe(s) PROVE ChannelType'
  BY <1>9 DEF StopReader, Unsubscribe, EndReader
<1>10. ASSUME NEW s \in Sub, StartRead(s) \/ ReadFails(s) \/ Reconnect(s) PROVE ChannelType'
  BY <1>10 DEF StartRead, ReadFails, Reconnect, chanVars
<1>11. ASSUME NEW s \in Sub, Read(s) PROVE ChannelType'
  <2>1. \/ UNCHANGED <<chan, put, ended>>
        \/ /\ chan' = [chan EXCEPT ![s] = <<s>>] /\ put' = [put EXCEPT ![s] = <<s>>]
           /\ ended' = ended
        \/ UNCHANGED <<chan, put>> /\ ended' = ended \cup {s}
    BY <1>11, ReadStep, Zenon DEF chanVars
  <2>2. CASE UNCHANGED <<chan, put>> /\ ended' \in {ended, ended \cup {s}}
    BY <2>2
  <2>3. CASE /\ chan' = [chan EXCEPT ![s] = <<s>>] /\ put' = [put EXCEPT ![s] = <<s>>]
             /\ ended' = ended
    <3>1. chan' \in [Sub -> Seq(Sub)] /\ put' \in [Sub -> Seq(Sub)]
      BY <1>2, <2>3
    <3>2. \A t \in Sub : chan'[t] = chan[t] \/ chan'[t] = <<t>>
      BY <2>3
    <3> QED
      BY <1>2, <2>3, <3>1, <3>2
  <2> QED
    BY <2>1, <2>2, <2>3
<1>12. ASSUME NEW k \in Conn, NEW s \in Sub, NEW state, Send(k, s, state) PROVE ChannelType'
  BY <1>12 DEF Send, chanVars
<1>13. ASSUME NEW k \in Conn, Lose(k) \/ Silence(k) PROVE ChannelType'
  BY <1>13 DEF Lose, Silence, chanVars
<1> QED
  BY <1>4, <1>5, <1>6, <1>7, <1>8, <1>9, <1>10, <1>11, <1>12, <1>13, Steps

LEMMA NetworkTypeStep == ClientInv /\ [Next]_vars => NetworkType'
<1> SUFFICES ASSUME ClientInv, [Next]_vars PROVE NetworkType'
  OBVIOUS
<1>1. NetworkType /\ conn \in Conn \cup {None} /\ Locking
  BY TypeParts DEF ClientInv, ClientType
<1> DEFINE M == Message \cup {Connected}
<1>2. \A q \in Seq(M) : /\ Append(q, Connected) \in Seq(M)
                         /\ \A m \in Message : Append(q, m) \in Seq(M)
                         /\ q # <<>> => Tail(q) \in Seq(M)
  OBVIOUS
<1>3. <<>> \in Seq(M)
  OBVIOUS
<1> HIDE DEF M
<1> USE <1>1 DEF NetworkType
<1>4. CASE Connect \/ SubscribeFails \/ Finish \/ Expire \/ UNCHANGED vars
  BY <1>4 DEF Connect, SubscribeFails, Finish, Expire, vars, netVars
<1>5. CASE Subscribe
  <2>1. /\ subID' \in Sub /\ conn \in Conn /\ UNCHANGED <<link, inbox>>
        /\ open' = IF link[conn] = "up" THEN [open EXCEPT ![conn] = @ \cup {subID'}] ELSE open
    BY <1>5, Subscribed, Zenon DEF Subscribe
  <2> QED
    BY <2>1
<1>6. CASE Close
  BY <1>6 DEF Close, Links
<1>7. ASSUME NEW s \in Sub, Receive(s) \/ GiveUp(s) PROVE NetworkType'
  BY <1>7 DEF Receive, GiveUp, netVars
<1>8. ASSUME NEW p \in Proc, Dial(p) PROVE NetworkType'
  <2>1. conn' \in Conn /\ link' = [link EXCEPT ![conn'] = "up"] /\ UNCHANGED <<inbox, open>>
    BY <1>8, Dialled DEF Dial
  <2> QED
    BY <2>1 DEF Links
<1>9. ASSUME NEW p \in Proc, Hello(p) PROVE NetworkType'
  <2>1. /\ conn \in Conn /\ UNCHANGED <<link, open>>
        /\ inbox' = [inbox EXCEPT ![conn] = Append(@, Connected)] \/ inbox' = inbox
    BY <1>9 DEF Hello, Locking
  <2> QED
    BY <1>2, <2>1 DEF M
<1>10. ASSUME NEW p \in Proc, Reply(p) PROVE NetworkType'
  <2>1. /\ conn \in Conn /\ UNCHANGED <<link, open>>
        /\ inbox' = [inbox EXCEPT ![conn] = Tail(@)] /\ inbox[conn] # <<>>
    BY <1>10 DEF Reply, Locking, Arrived, Consume
  <2> QED
    BY <1>2, <2>1 DEF M
<1>11. ASSUME NEW p \in Proc, Failure(p) PROVE NetworkType'
  BY <1>11, FailureStep DEF netVars
<1>12. ASSUME NEW s \in Sub, StopReader(s) \/ StartRead(s) \/ ReadFails(s) PROVE NetworkType'
  BY <1>12 DEF StopReader, StartRead, ReadFails, netVars
<1>13. ASSUME NEW s \in Sub, Unsubscribe(s) PROVE NetworkType'
  BY <1>13 DEF Unsubscribe, Refused
<1>14. ASSUME NEW s \in Sub, Read(s) PROVE NetworkType'
  <2>1. /\ reads[s] \in Conn /\ inbox[reads[s]] # <<>> /\ UNCHANGED <<link, open>>
        /\ inbox' = [inbox EXCEPT ![reads[s]] = Tail(@)]
    BY <1>14, ReadStep
  <2> QED
    BY <1>2, <2>1 DEF M
<1>15. ASSUME NEW s \in Sub, Reconnect(s) PROVE NetworkType'
  BY <1>15 DEF Reconnect, Links
<1>16. ASSUME NEW k \in Conn, NEW s \in Sub, NEW state \in {"A", "C", "E"}, Send(k, s, state)
       PROVE  NetworkType'
  <2>1. [id |-> s, state |-> state] \in Message
    BY DEF Message
  <2>2. /\ link' = link /\ inbox' = [inbox EXCEPT ![k] = Append(@, [id |-> s, state |-> state])]
        /\ open' = [open EXCEPT ![k] = @ \ {s}] \/ open' = open
    BY <1>16 DEF Send
  <2>3. link' \in [Conn -> Links] /\ open' \in [Conn -> SUBSET Sub]
    BY <2>2
  <2>4. Append(inbox[k], [id |-> s, state |-> state]) \in Seq(M)
    BY <1>2, <2>1 DEF M
  <2>5. inbox' \in [Conn -> Seq(M)]
    BY <2>2, <2>4 DEF M
  <2> QED
    BY <2>3, <2>5 DEF M
<1>17. ASSUME NEW k \in Conn, Lose(k) \/ Silence(k) PROVE NetworkType'
  BY <1>3, <1>17 DEF Lose, Silence, Links, M
<1> QED
  BY <1>4, <1>5, <1>6, <1>7, <1>8, <1>9, <1>10, <1>11, <1>12, <1>13, <1>14, <1>15, <1>16, <1>17, Steps

LEMMA EnvironmentTypeStep == ClientInv /\ [Next]_vars => EnvironmentType'
<1> SUFFICES ASSUME ClientInv, [Next]_vars PROVE EnvironmentType'
  OBVIOUS
<1>1. EnvironmentType /\ MaxLost \in Nat /\ MaxSilent \in Nat
  BY TypeParts, Constants DEF ClientInv
<1> USE <1>1 DEF EnvironmentType
<1>2. CASE Expire
  BY <1>2 DEF Expire
<1>3. ASSUME NEW s \in Sub, StartRead(s) PROVE EnvironmentType'
  BY <1>3 DEF StartRead
<1>4. ASSUME NEW k \in Conn, Lose(k) \/ Silence(k) PROVE EnvironmentType'
  BY <1>4 DEF Lose, Silence
<1>5. ASSUME UNCHANGED envVars PROVE EnvironmentType'
  BY <1>5 DEF envVars
<1>6. ASSUME NEW p \in Proc, Failure(p) PROVE UNCHANGED envVars
  BY <1>6, FailureStep
<1>7. ASSUME NEW p \in Proc, Dial(p) \/ Hello(p) \/ Reply(p) PROVE UNCHANGED envVars
  BY <1>7 DEF Dial, Hello, Reply
<1>8. ASSUME NEW s \in Sub,
             \/ StopReader(s) \/ ReadFails(s) \/ Read(s) \/ Reconnect(s) \/ Unsubscribe(s)
             \/ Receive(s) \/ GiveUp(s)
      PROVE  UNCHANGED envVars
  BY <1>8 DEF StopReader, ReadFails, Read, Reconnect, Unsubscribe, Receive, GiveUp
<1>9. ASSUME NEW k, NEW s, NEW state, Send(k, s, state) PROVE UNCHANGED envVars
  BY <1>9 DEF Send
<1>10. ASSUME Connect \/ Subscribe \/ SubscribeFails \/ Finish \/ Close \/ UNCHANGED vars
       PROVE  UNCHANGED envVars
  BY <1>10 DEF Connect, Subscribe, SubscribeFails, Finish, Close, vars
<1> QED
  BY <1>2, <1>3, <1>4, <1>5, <1>6, <1>7, <1>8, <1>9, <1>10, Steps

(***************************************************************************)
(* The invariant, and what follows from it.                                *)
(***************************************************************************)
LEMMA InvInit == Init => ClientInv
<1> SUFFICES ASSUME Init PROVE ClientInv
  OBVIOUS
<1>1. /\ pc = [p \in Proc |-> IF p = User THEN "start" ELSE "none"]
      /\ conn = None /\ closed = FALSE /\ mu = Nobody /\ subID = 0
      /\ reads = [s \in Sub |-> None] /\ waiting = {} /\ ended = {}
      /\ chan = [s \in Sub |-> <<>>] /\ put = [s \in Sub |-> <<>>]
      /\ link = [k \in Conn |-> "unused"] /\ inbox = [k \in Conn |-> <<>>]
      /\ open = [k \in Conn |-> {}]
      /\ expired = FALSE /\ panicked = FALSE /\ lost = 0 /\ silenced = 0
  BY DEF Init
<1>2. User \in Proc /\ Sub \subseteq Proc /\ User \notin Sub /\ None \notin Conn /\ MaxSubs \in Nat
  BY Constants
<1>3. ControlType
  BY <1>1 DEF ControlType, Locations
<1>4. ClientType /\ ChannelType
  <2>0. closed \in BOOLEAN
    BY <1>1, Zenon
  <2>1. conn = None /\ subID \in 0..MaxSubs /\ waiting \subseteq Sub
    BY <1>1, <1>2
  <2>2. reads \in [Sub -> Conn \cup {None}]
    BY <1>1
  <2>3. ClientType
    BY <2>0, <2>1, <2>2 DEF ClientType
  <2>4. ChannelType
    BY <1>1 DEF ChannelType
  <2> QED
    BY <2>3, <2>4
<1>5. NetworkType
  BY <1>1 DEF NetworkType, Links
<1>6. EnvironmentType
  <2>1. expired \in BOOLEAN /\ panicked \in BOOLEAN
    BY <1>1, Zenon
  <2>2. lost \in 0..MaxLost /\ silenced \in 0..MaxSilent
    BY <1>1, Constants
  <2> QED
    BY <2>1, <2>2 DEF EnvironmentType
<1>7. Locking
  BY <1>1 DEF Locking
<1>8. Delivery
  BY <1>1, <1>2 DEF Delivery, Reading
<1>9. Serving /\ UnsubscribedAfterData
  BY <1>1, <1>2 DEF Serving, UnsubscribedAfterData
<1> QED
  BY <1>3, <1>4, <1>5, <1>6, <1>7, <1>8, <1>9, TypeParts DEF ClientInv

\* Every step keeps the invariant.
LEMMA InvStep == ClientInv /\ [Next]_vars => ClientInv'
<1>1. ClientInv /\ [Next]_vars => TypeOK'
  BY ControlTypeStep, ClientTypeStep, ChannelTypeStep, NetworkTypeStep, EnvironmentTypeStep
  DEF TypeOK, ControlType, ClientType, ChannelType, NetworkType, EnvironmentType
<1> QED
  BY <1>1, LockingStep, DeliveryStep, ServingStep, UnsubscribedStep DEF ClientInv

LEMMA Invariance == Spec => []ClientInv
<1> QED
  BY InvInit, InvStep, PTL DEF Spec

\* Every variable keeps its type, no channel ever needs room for a second datum,
\* and whoever is in a handshake holds the mutex, however many subscriptions
\* the user waits for at a time.
THEOREM TypeCorrect == Spec => []TypeOK
<1>1. ClientInv => TypeOK
  BY DEF ClientInv
<1> QED
  BY <1>1, Invariance, PTL

\* When the reader of an answered subscription has returned, the server does not
\* serve it on any live connection.
THEOREM NothingLeftSubscribed == Spec => []UnsubscribedAfterData
<1>1. ClientInv => UnsubscribedAfterData
  BY DEF ClientInv
<1> QED
  BY <1>1, Invariance, PTL

(***************************************************************************)
(* One subscription at a time.                                             *)
(***************************************************************************)
\* A user allowed a single outstanding subscription makes one when it waits for
\* none.
LEMMA NoneWaiting ==
  ASSUME MaxOutstanding = 1, ClientInv, Subscribe
  PROVE  waiting = {}
<1>1. waiting \subseteq 1..MaxSubs /\ MaxSubs \in Nat
  BY Constants DEF ClientInv, TypeOK, Sub
<1>2. IsFiniteSet(waiting)
  <2>1. IsFiniteSet(1..MaxSubs)
    BY <1>1, FS_Interval
  <2> QED
    BY <1>1, <2>1, FS_Subset
<1>3. Cardinality(waiting) \in Nat /\ Cardinality(waiting) < 1
  BY <1>2, FS_CardinalityType DEF Subscribe
<1>4. Cardinality(waiting) = 0
  BY <1>3
<1> QED
  BY <1>2, <1>4, FS_EmptySet

LEMMA OneInit == Init => OneAtATime
  BY Constants DEF Init, OneAtATime, OneReader, NoNilConnection, Busy, Live, Reading

\* Every step keeps the readers apart.
LEMMA OneStep == MaxOutstanding = 1 /\ ClientInv /\ OneAtATime /\ [Next]_vars => OneAtATime'
<1> SUFFICES ASSUME MaxOutstanding = 1, ClientInv, OneAtATime, [Next]_vars PROVE OneAtATime'
  OBVIOUS
<1>1. pc \in [Proc -> Locations] /\ conn \in Conn \cup {None} /\ waiting \subseteq Sub
  BY DEF ClientInv, TypeOK
<1>2. /\ User \in Proc /\ Sub \subseteq Proc /\ None \notin Conn /\ User \notin Sub
      /\ \A p \in Proc : p = User \/ p \in Sub
  BY Constants DEF Proc
<1> USE <1>1, <1>2 DEF OneAtATime, OneReader, NoNilConnection, Busy, Live, Reading, Goto
<1>3. CASE Connect
  BY <1>3 DEF Connect, envVars
<1>4. CASE Subscribe
  <2>1. /\ subID' \in Sub /\ conn \in Conn /\ conn' = conn /\ waiting' = {subID'}
        /\ pc' = [pc EXCEPT ![subID'] = "check"] /\ pc[User] = "ready"
        /\ UNCHANGED <<expired, panicked>>
    BY <1>4, Subscribed, NoneWaiting DEF Subscribe, envVars
  <2>2. ~expired => \A s \in Sub : ~Live(s)
    BY <1>4, NoneWaiting
  <2> QED
    BY <2>1, <2>2
<1>5. CASE SubscribeFails \/ Finish \/ Close
  <2>1. /\ pc[User] \in {"ready", "leave"} /\ UNCHANGED <<conn, waiting, expired, panicked>>
        /\ \E l \in {"ready", "leave", "exit"} : pc' = [pc EXCEPT ![User] = l]
    BY <1>5 DEF SubscribeFails, Finish, Close, clientVars, envVars
  <2> QED
    BY <2>1
<1>6. CASE Expire \/ UNCHANGED vars
  BY <1>6 DEF Expire, vars, clientVars, envVars
<1>7. ASSUME NEW s \in Sub, Receive(s) PROVE OneAtATime'
  <2>1. /\ UNCHANGED <<pc, conn, expired, panicked>> /\ waiting' = waiting \ {s}
        /\ (chan[s] # <<>> \/ s \in ended)
    BY <1>7 DEF Receive, clientVars, envVars
  <2>2. ~Live(s)
    BY <2>1 DEF ClientInv, Delivery
  <2> QED
    BY <2>1, <2>2
<1>8. ASSUME NEW s \in Sub, GiveUp(s) PROVE OneAtATime'
  <2>1. /\ expired /\ UNCHANGED <<conn, expired, panicked>> /\ waiting' = waiting \ {s}
        /\ \E l \in {"ready", "leave"} : pc' = [pc EXCEPT ![User] = l]
    BY <1>8 DEF GiveUp, clientVars, envVars
  <2> QED
    BY <2>1
<1>9. ASSUME NEW p \in Proc, Dial(p) PROVE OneAtATime'
  <2>1. /\ pc[p] = "dial" /\ pc' = [pc EXCEPT ![p] = "hello"] /\ conn' \in Conn
        /\ UNCHANGED <<waiting, expired, panicked>>
    BY <1>9, Dialled DEF Dial, envVars
  <2> QED
    BY <2>1
<1>10. ASSUME NEW p \in Proc, Hello(p) PROVE OneAtATime'
  <2>1. /\ pc[p] = "hello" /\ pc' = [pc EXCEPT ![p] = "reply"]
        /\ UNCHANGED <<conn, waiting, expired, panicked>>
    BY <1>10 DEF Hello, clientVars, envVars
  <2> QED
    BY <2>1
<1>11. ASSUME NEW p \in Proc, Reply(p) PROVE OneAtATime'
  <2>1. /\ pc[p] = "reply" /\ pc' = [pc EXCEPT ![p] = IF p = User THEN "ready" ELSE "check"]
        /\ UNCHANGED <<conn, waiting, expired, panicked>>
    BY <1>11 DEF Reply, envVars
  <2>2. conn \in Conn
    BY <2>1 DEF ClientInv, Locking
  <2> QED
    BY <2>1, <2>2
<1>12. ASSUME NEW p \in Proc, Failure(p) PROVE OneAtATime'
  <2>1. /\ pc' = [pc EXCEPT ![p] = IF p = User THEN "exit" ELSE "done"]
        /\ pc[p] \in {"dial", "hello", "reply"} /\ UNCHANGED <<conn, waiting, expired, panicked>>
    BY <1>12, FailureStep DEF envVars
  <2> QED
    BY <2>1
<1>13. ASSUME NEW s \in Sub, StopReader(s) \/ ReadFails(s) \/ Unsubscribe(s) PROVE OneAtATime'
  <2>1. /\ UNCHANGED <<conn, waiting, expired, panicked>>
        /\ \/ pc' = [pc EXCEPT ![s] = "done"]
           \/ pc[s] = "read" /\ pc' = [pc EXCEPT ![s] = "lock"]
    BY <1>13 DEF StopReader, ReadFails, Unsubscribe, EndReader, clientVars, envVars
  <2>2. pc[s] # "none"
    BY <1>13 DEF StopReader, ReadFails, Unsubscribe
  <2> QED
    BY <2>1, <2>2
<1>14. ASSUME NEW s \in Sub, StartRead(s) PROVE OneAtATime'
  <2>1. conn \in Conn
    BY <1>14 DEF StartRead
  <2>2. /\ ~expired /\ pc[s] = "check" /\ pc' = [pc EXCEPT ![s] = "read"]
        /\ UNCHANGED <<conn, waiting, expired>> /\ panicked' = FALSE
    BY <1>14, <2>1 DEF StartRead, clientVars
  <2>3. ~Busy(User)
    BY <2>2
  <2>4. \A t \in Sub : ~Busy(t)
    <3> SUFFICES ASSUME NEW t \in Sub, Busy(t) PROVE FALSE
      OBVIOUS
    <3>1. s \in waiting /\ t \in waiting
      BY <2>2
    <3>2. s = t
      BY <3>1
    <3> QED
      BY <2>2, <3>2
  <2>5. \A p \in Proc : ~Busy(p)
    BY <2>3, <2>4
  <2> QED
    BY <2>1, <2>2, <2>5
<1>15. ASSUME NEW s \in Sub, Read(s) PROVE OneAtATime'
  <2>1. /\ pc[s] = "read" /\ UNCHANGED <<conn, waiting, expired, panicked>>
        /\ \E l \in {"check", "unsub", "done"} : pc' = [pc EXCEPT ![s] = l]
    BY <1>15, ReadStep, Zenon DEF clientVars, envVars
  <2> QED
    BY <2>1
<1>16. ASSUME NEW s \in Sub, Reconnect(s) PROVE OneAtATime'
  <2>1. /\ pc[s] = "lock" /\ pc' = [pc EXCEPT ![s] = "dial"]
        /\ UNCHANGED <<waiting, expired, panicked>>
    BY <1>16 DEF Reconnect, envVars
  <2>2. ~expired => \A t \in Sub : pc[t] \notin {"check", "read"}
    BY <2>1
  <2> QED
    BY <2>1, <2>2
<1>17. ASSUME NEW k \in Conn, NEW s \in Sub, NEW state, Send(k, s, state) PROVE OneAtATime'
  BY <1>17 DEF Send, clientVars, envVars
<1>18. ASSUME NEW k \in Conn, Lose(k) \/ Silence(k) PROVE OneAtATime'
  BY <1>18 DEF Lose, Silence, clientVars, envVars
<1> QED
  BY <1>3, <1>4, <1>5, <1>6, <1>7, <1>8, <1>9, <1>10, <1>11, <1>12, <1>13, <1>14, <1>15, <1>16, <1>17, <1>18, Steps

LEMMA OneInvariance ==
  ASSUME MaxOutstanding = 1
  PROVE  Spec => []OneAtATime
<1>1. ClientInv /\ OneAtATime /\ [Next]_vars => OneAtATime'
  BY OneStep
<1> QED
  BY <1>1, OneInit, Invariance, PTL DEF Spec

\* A user that waits for one subscription at a time has at most one goroutine
\* reading or reconnecting, whatever it gave up waiting for.
THEOREM SingleReader ==
  ASSUME MaxOutstanding = 1
  PROVE  Spec => []OneReader
<1>1. OneAtATime => OneReader
  BY DEF OneAtATime
<1> QED
  BY <1>1, OneInvariance, PTL

\* Such a user never has a reader call ReadMessage on a nil connection.
THEOREM NeverNil ==
  ASSUME MaxOutstanding = 1
  PROVE  Spec => []NoNilConnection
<1>1. OneAtATime => NoNilConnection
  BY DEF OneAtATime
<1> QED
  BY <1>1, OneInvariance, PTL

(***************************************************************************)
(* The client implements Subscriptions.                                    *)
(***************************************************************************)
LEMMA PromiseInit == Init => S!SInit
  BY DEF Init, S!SInit

\* Every step is a step of Subscriptions or leaves its variables alone.
LEMMA PromiseStep == ClientInv /\ [Next]_vars => [S!SNext]_<<subID, put, ended>>
<1> SUFFICES ASSUME ClientInv, [Next]_vars PROVE S!SNext \/ UNCHANGED <<subID, put, ended>>
  OBVIOUS
<1>1. /\ subID \in 0..MaxSubs /\ MaxSubs \in Nat /\ Sub \subseteq Proc /\ User \notin Sub
      /\ Delivery
  BY Constants DEF ClientInv, TypeOK
<1>2. ASSUME NEW s \in Sub, pc[s] \in Reading \cup {"unsub"}
      PROVE  s <= subID /\ s \notin ended /\ (pc[s] \in Reading => put[s] = <<>>)
  BY <1>1, <1>2 DEF Delivery, Reading
<1>3. ASSUME NEW s \in Sub, pc[s] \in Reading \cup {"unsub"},
             ended' = ended \cup {s}, UNCHANGED <<subID, put>>
      PROVE  S!SNext
  <2>1. S!End(s)
    BY <1>2, <1>3 DEF S!End
  <2> QED
    BY <2>1 DEF S!SNext
<1>4. CASE Subscribe
  <2>1. S!Subscribe
    BY <1>4, Subscribed DEF Subscribe, S!Subscribe, chanVars
  <2> QED
    BY <2>1 DEF S!SNext
<1>5. CASE SubscribeFails
  <2>1. subID' = subID + 1 => S!Subscribe
    BY <1>1, <1>5 DEF SubscribeFails, S!Subscribe, chanVars, Sub
  <2> QED
    BY <1>5, <2>1 DEF SubscribeFails, S!SNext, chanVars
<1>6. ASSUME NEW p \in Proc, Failure(p) PROVE S!SNext \/ UNCHANGED <<subID, put, ended>>
  <2>1. CASE p = User
    BY <1>6, <2>1, FailureStep
  <2>2. CASE p \in Sub /\ p # User
    BY <1>3, <1>6, <2>2, FailureStep DEF Reading
  <2> QED
    BY <1>1, <2>1, <2>2 DEF Proc
<1>7. ASSUME NEW s \in Sub, StopReader(s) \/ Unsubscribe(s) PROVE S!SNext
  BY <1>3, <1>7 DEF StopReader, Unsubscribe, EndReader, clientVars, Reading
<1>8. ASSUME NEW s \in Sub, Read(s) PROVE S!SNext \/ UNCHANGED <<subID, put, ended>>
  <2>1. /\ pc[s] = "read" /\ subID' = subID
        /\ \/ UNCHANGED <<put, ended>>
           \/ ended' = ended /\ put' = [put EXCEPT ![s] = <<s>>]
           \/ ended' = ended \cup {s} /\ put' = put
    BY <1>8, ReadStep, Zenon DEF clientVars, chanVars
  <2>2. ASSUME ended' = ended, put' = [put EXCEPT ![s] = <<s>>] PROVE S!SNext
    <3>1. S!Answer(s)
      BY <1>2, <2>1, <2>2 DEF S!Answer, Reading
    <3> QED
      BY <3>1 DEF S!SNext
  <2> QED
    BY <1>3, <2>1, <2>2 DEF Reading
<1>9. ASSUME NEW p \in Proc, Dial(p) \/ Hello(p) \/ Reply(p) PROVE UNCHANGED <<subID, put, ended>>
  BY <1>9 DEF Dial, Hello, Reply, clientVars, chanVars
<1>10. ASSUME NEW s \in Sub,
              StartRead(s) \/ ReadFails(s) \/ Reconnect(s) \/ Receive(s) \/ GiveUp(s)
       PROVE  UNCHANGED <<subID, put, ended>>
  BY <1>10 DEF StartRead, ReadFails, Reconnect, Receive, GiveUp, clientVars, chanVars
<1>11. ASSUME NEW k, NEW s, NEW state, Send(k, s, state) PROVE UNCHANGED <<subID, put, ended>>
  BY <1>11 DEF Send, clientVars, chanVars
<1>12. ASSUME NEW k, Lose(k) \/ Silence(k) PROVE UNCHANGED <<subID, put, ended>>
  BY <1>12 DEF Lose, Silence, clientVars, chanVars
<1>13. ASSUME Connect \/ Finish \/ Close \/ Expire \/ UNCHANGED vars
       PROVE  UNCHANGED <<subID, put, ended>>
  BY <1>13 DEF Connect, Finish, Close, Expire, vars, clientVars, chanVars
<1> QED
  BY <1>4, <1>5, <1>6, <1>7, <1>8, <1>9, <1>10, <1>11, <1>12, <1>13, Steps

\* Each subscription hands over at most one answer, its own, and says nothing
\* after its channel is closed, whatever the network does.
THEOREM ImplementsSubscriptions == Spec => KeepsPromises
<1> QED
  BY PromiseInit, PromiseStep, Invariance, PTL DEF Spec, KeepsPromises, S!SSpec, S!svars
=============================================================================
