---------------------------- MODULE Subscriptions ----------------------------
(***************************************************************************)
(* What the v2 WebSocket client promises its user: subscriptions are made  *)
(* one after the other, each hands over at most one answer, its own, and a *)
(* subscription that was ended says nothing any more.                      *)
(***************************************************************************)
EXTENDS Naturals, Sequences

CONSTANT Sub              \* subscription numbers, 1..n

VARIABLES made,           \* how many subscriptions were made
          answers,        \* answers[s]: what was put into the channel of s
          ended           \* the subscriptions whose channel was closed

svars == <<made, answers, ended>>

SInit == made = 0 /\ answers = [s \in Sub |-> <<>>] /\ ended = {}

Subscribe == made + 1 \in Sub /\ made' = made + 1 /\ UNCHANGED <<answers, ended>>

Answer(s) == /\ s <= made /\ s \notin ended /\ answers[s] = <<>>
             /\ answers' = [answers EXCEPT ![s] = <<s>>]
             /\ UNCHANGED <<made, ended>>

End(s) == /\ s <= made /\ s \notin ended
          /\ ended' = ended \cup {s}
          /\ UNCHANGED <<made, answers>>

SNext == Subscribe \/ \E s \in Sub : Answer(s) \/ End(s)

SSpec == SInit /\ [][SNext]_svars
=============================================================================
