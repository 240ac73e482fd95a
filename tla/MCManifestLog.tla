--------------------------- MODULE MCManifestLog ---------------------------
(* ManifestLog, with the symmetries TLC may use on safety runs. *)
EXTENDS ManifestLog, TLC

Symmetry == Permutations(Process) \cup Permutations(Record)
=============================================================================
