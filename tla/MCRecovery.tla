----------------------------- MODULE MCRecovery -----------------------------
(* Recovery, with the conversation each memory came from. *)
EXTENDS Recovery, TLC

CONSTANTS s1, m1

OneEach == (m1 :> s1)

(* In a behaviour at most one thing goes wrong: a record is reclaimed      *)
(* elsewhere, something is cut short, or the device's other process takes  *)
(* something away while a restore runs, and then once.                     *)
Mishaps == {i \in 1..3 : <<reclaimed' # {}, faults' > 0, job'.dropped # {}>>[i]}
OneMishap ==
  /\ Cardinality(Mishaps) <= 1
  /\ job.dropped # {} => job'.dropped \in {{}, job.dropped}

(* A restore that is run again follows one that ended or was cut short, and *)
(* is of conversations of one chunk a device.                               *)
ShortRunAgain ==
  restores' > 1 =>
    /\ reclaimed' = {} /\ job'.dropped = {}
    /\ \A c \in Chunk \cap (account' \cup body' \cup reclaimed') : c.seq = 0

RestoreNext == Next /\ OneMishap /\ ShortRunAgain
=============================================================================
