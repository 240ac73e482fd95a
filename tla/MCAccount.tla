----------------------------- MODULE MCAccount -----------------------------
(***************************************************************************)
(* What the account holds, for TLC: two devices use it, or either of them  *)
(* alone.  Alone a device has every command, four batches and two          *)
(* failures; the two at once have two batches and one failure, which comes *)
(* after any look at the whole account (orphans, unreadable) has ended.    *)
(***************************************************************************)
EXTENDS MCReclaim

VARIABLE actors   \* the processes that act in a behaviour

PairSlabs  == 2
PairFaults == 1

(* A batch another process is still putting objects on may look like an    *)
(* orphan, and its release would cost the batch, as OrphansRace.cfg        *)
(* shows.  Here the two never meet.                                        *)
TakenForOrphan ==
  \E p, q \in Process :
    /\ job'[p].cmd = "orphans" /\ job'[p].pc = "unpin"
    /\ job'[q].pc = "pinobj" /\ job'[q].slab \in job'[p].slabs

WithinPair ==
  /\ Len(owner') <= PairSlabs /\ faults' <= PairFaults
  /\ ~TakenForOrphan
  /\ \A p \in Process : job'[p].cmd \in {"orphans", "unreadable"} => faults' = 0

AccountInit == Init /\ actors \in SUBSET Process \ {{}}

AccountNext ==
  /\ UNCHANGED actors
  /\ Next
  /\ \A p \in Process \ actors : job'[p] = job[p]
  /\ actors = Process => WithinPair

AccountSpec == AccountInit /\ [][AccountNext]_<<actors, vars>>

(* The two devices of OneEach are interchangeable, each with its process. *)
Swap == (d1 :> d2) @@ (d2 :> d1) @@ (p1 :> p2) @@ (p2 :> p1)
AccountSymmetry == Permutations(Record) \cup {Swap} \cup {f @@ Swap : f \in Permutations(Record)}
=============================================================================
