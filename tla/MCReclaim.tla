----------------------------- MODULE MCReclaim -----------------------------
(* Reclaim, with the processes each run puts on each device. *)
EXTENDS Reclaim, TLC

CONSTANTS d1, d2, p1, p2

OneEach == (p1 :> d1) @@ (p2 :> d2)
Alone   == (p1 :> d1)
Both    == (p1 :> d1) @@ (p2 :> d1)

Symmetry == Permutations(Record)
=============================================================================
