------------------------- MODULE MCActivityPipeline -------------------------
(***************************************************************************)
(* An instance of ActivityPipeline for TLC: three entries, one of them     *)
(* without details, two documents of one entry with one path.              *)
(***************************************************************************)
EXTENDS ActivityPipeline

CONSTANTS e1, e2, d1, d2, d3, p1, p3

MCEntry == {e1, e2}
MCDoc == {d1, d2, d3}
MCPath == {p1, p3}
MCLog == <<e1, NoDetails, e2>>
MCDocsOf == (e1 :> <<d1, d2>>) @@ (e2 :> <<d3>>)
MCPathOf == (d1 :> p1) @@ (d2 :> p1) @@ (d3 :> p3)
MCVerdicts == {"nil", "normalize failed"} \cup Aborting
=============================================================================
