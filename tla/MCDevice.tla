------------------------------ MODULE MCDevice ------------------------------
(***************************************************************************)
(* What a device keeps and brings back, for TLC: the memories written,     *)
(* moved, forgotten and read on it (Reads), its index files (IndexStore),  *)
(* the restore of a vault on a new device (Recovery) and the opening of a  *)
(* vault (Startup).  The modules share no variable, so a behaviour belongs *)
(* to one of them, its scene, and the others stay where they started.      *)
(***************************************************************************)
EXTENDS MCRecovery, IndexStore, Startup, Reads

CONSTANTS Scenes,        \* the scenes a run plays
          older, newer   \* the two processes of the startup scene

VARIABLE scene

(* The two builds of the startup scene know different schemas. *)
TwoBuilds == (older :> 1) @@ (newer :> 2)

(* A startup that is not played starts from one of its initial states. *)
StartupAtRest ==
  version = 0 /\ columns = "none" /\ onDisk = [f \in File |-> "absent"]

DeviceInit ==
  /\ scene \in Scenes
  /\ Init /\ IndexInit /\ StartInit /\ ReadsInit
  /\ scene # "startup" => StartupAtRest
  /\ scene # "reads" => minted = {}

(* A behaviour of the reads scene in which something ends early writes one slab. *)
CutShortOrMoved == cuts' > 0 => slabs' < MaxSlab

DeviceNext ==
  /\ UNCHANGED scene
  /\ \/ scene = "restore" /\ RestoreNext /\ UNCHANGED <<indexVars, startVars, readsVars>>
     \/ scene = "index" /\ IndexNext /\ UNCHANGED <<vars, startVars, readsVars>>
     \/ scene = "startup" /\ StartNext /\ UNCHANGED <<vars, indexVars, readsVars>>
     \/ scene = "reads" /\ ReadsNext /\ CutShortOrMoved /\ UNCHANGED <<vars, indexVars, startVars>>

DeviceSpec == DeviceInit /\ [][DeviceNext]_<<scene, vars, indexVars, startVars, readsVars>>

(* The processes and the records of the index and reads scenes are interchangeable. *)
Symmetry == Permutations(Process) \cup Permutations(Subject)

(* The type invariants of the modules whose code the scenes play. *)
TypesOK == TypeOK /\ IndexTypeOK /\ StartupTypeOK /\ ReadsTypeOK
=============================================================================
