------------------------------ MODULE MCReads ------------------------------
(* Reads, for TLC: the processes are interchangeable and so are the memories. *)
EXTENDS Reads, TLC

Symmetry == Permutations(Host) \cup Permutations(Memory)
=============================================================================
