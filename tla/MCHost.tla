------------------------------- MODULE MCHost -------------------------------
(***************************************************************************)
(* What a host must bring to an end, for TLC: its flushes (Packer) and its *)
(* reads of remembered locations (Locations).  The modules share no        *)
(* variable, so a behaviour belongs to one of them, its scene, and the     *)
(* other stays where it started.                                           *)
(***************************************************************************)
EXTENDS Packer, Locations

CONSTANTS Scenes, o1, f1, h1, h2
VARIABLE scene

Flushing == scene = "flushes"
Reading  == scene \in {"one object", "one reader"}

(* Storage hosts are interchangeable, so the slab may as well be on h1 and h2 at first. *)
HostInit ==
  /\ scene \in Scenes
  /\ Init /\ LocationsInit
  /\ hosting = {h1, h2}
  /\ Flushing => listed = NetHost

(* In a behaviour either an object is deleted or a call is refused; each    *)
(* shortens a read whatever the others do, and the network then rests.      *)
OneMishap ==
  /\ refusals' = 0 \/ kept' = ObjectId
  /\ Cardinality(ObjectId \ kept') <= 1
  /\ refusals' > 0 \/ kept' # ObjectId => moves' = 0

(* Reads are at once of one object, or of several but one at a time. *)
ReadsOfScene ==
  IF scene = "one object"
  THEN /\ ObjectId \ kept' \subseteq {o1}
       /\ \A f \in Reader : fetches'[f].object \in {o1, NoObject}
  ELSE \A f \in Reader \ {f1} : fetches'[f] = NoFetch

HostNext ==
  /\ UNCHANGED scene
  /\ \/ Flushing /\ Next /\ UNCHANGED locationVars
     \/ Reading /\ LocationsNext /\ OneMishap /\ ReadsOfScene /\ UNCHANGED vars

(* The fairness of HandSpec and of LocationsFairSpec, each in its scene. *)
HostFairness ==
  /\ WF_vars(Flushing /\ Tick)
  /\ \A t \in Thread : WF_vars(Flushing /\ FlushStep(t))
  /\ \A p \in Process :
       /\ WF_vars(Flushing /\ Enqueue(p)) /\ WF_vars(Flushing /\ AddCount(p))
       /\ WF_vars(Flushing /\ ForgetCatalog(p)) /\ WF_vars(Flushing /\ ForgetBody(p))
  /\ \A p \in Host :
       /\ SF_vars(Flushing /\ Open(p) /\ mode'[p] = "online")
       /\ SF_vars(Flushing /\ Close(p) /\ mode[p] = "offline")
       /\ SF_vars(Flushing /\ FlushClaim(<<p, "call">>))
  /\ WF_locationVars(Reading /\ HostsGrowOld)
  /\ \A f \in Reader : WF_locationVars(Reading /\ ReadOn(f))

HostSpec == HostInit /\ [][HostNext]_<<scene, vars, locationVars>> /\ HostFairness
=============================================================================
