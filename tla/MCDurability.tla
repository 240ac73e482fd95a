---------------------------- MODULE MCDurability ----------------------------
(***************************************************************************)
(* Durability, for TLC.  In the takeover scene processes without a timer   *)
(* write, flush and forget one record while their claims lapse under them; *)
(* in the host scene the processes with a timer have the whole vault to    *)
(* themselves, and their flushes end before their claims do.               *)
(***************************************************************************)
EXTENDS Durability, TLC

CONSTANT Scenes
VARIABLE scene

Takeover ==
  /\ \A p \in Host : mode'[p] = "closed"
  /\ \A r, s \in Record : status'[r] # "new" /\ status'[s] # "new" => r = s

HostAlone ==
  /\ \A p \in Process \ Host : mode'[p] = "closed"
  /\ \A t \in Thread, r \in queued' :
       flush'[t].pc \in Holding /\ r \in flush'[t].batch => claim'[r] <= Timeout

SceneInit == DurabilityInit /\ scene \in Scenes

SceneNext ==
  /\ DurabilityNext /\ UNCHANGED scene
  /\ scene = "takeover" => Takeover
  /\ scene = "host" => HostAlone

SceneSpec == SceneInit /\ [][SceneNext]_<<scene, vars, answers>>

Symmetry ==
  Permutations(Process \ (Host \cup Shell)) \cup Permutations(Host) \cup Permutations(Shell)
    \cup Permutations(Record)
=============================================================================
