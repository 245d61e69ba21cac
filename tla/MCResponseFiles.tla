---------------------------- MODULE MCResponseFiles ----------------------------
(***************************************************************************)
(* Two lists: four transactions on two pages, the second without details, *)
(* the fourth with details that cannot be processed, and one activity.     *)
(***************************************************************************)
EXTENDS ResponseFiles

MCTimelines == <<"timelineTransactions", "timelineActivityLog">>
MCLongest == [l \in {"timelineTransactions", "timelineActivityLog"} |->
                IF l = "timelineTransactions" THEN 4 ELSE 1]
MCBare == {<<"timelineTransactions", 2>>}
MCBlocked == {<<"timelineTransactions", 4>>}
================================================================================
