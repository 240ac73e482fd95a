----------------------------- MODULE Locations -----------------------------
(***************************************************************************)
(* Reading an object through the cached location metadata (fetchRemote and *)
(* fetchCached of vault/fetch.go, local/slabmeta.go, sia/location.go).     *)
(*                                                                         *)
(* A location is cached in two halves: a row per object, and a row per     *)
(* slab with the hosts of its sectors, which every object over that slab   *)
(* shares.  Either half is trusted until it is SlabMetaTTL old, and the    *)
(* hosts the network lists until the set is HostSetTTL old.  Meanwhile the *)
(* network repairs slabs onto other hosts, and hosts join it and leave it. *)
(* The database may refuse any call, and the list of hosts may not be had; *)
(* the indexer itself answers, for what a read does without it is nothing  *)
(* the cache could change.                                                 *)
(*                                                                         *)
(* The objects here are all over one slab.  A row that has expired is      *)
(* treated like one that is not there, and so it is here.                  *)
(***************************************************************************)
EXTENDS Integers, FiniteSets

CONSTANTS
  ObjectId,   (* objects over the slab                              *)
  NetHost,    (* hosts of the storage network                       *)
  Reader,     (* reads that can be under way at once                *)
  Shards,     (* sectors a slab has                                 *)
  MinShards,  (* sectors it takes to read it                        *)
  NoObject,   (* what a read that has not begun reads               *)
  MaxMove,    (* bound: sectors moved, hosts joining and leaving    *)
  MaxRefusal  (* bound: calls the database or the network refuses   *)

ASSUME ShardAssumption ==
  /\ MinShards \in 1..Shards /\ Shards \in 1..Cardinality(NetHost)
  /\ IsFiniteSet(NetHost) /\ NoObject \notin ObjectId
  /\ MaxMove \in Nat /\ MaxRefusal \in Nat

VARIABLES
  kept,      (* network: objects the indexer knows                          *)
  hosting,   (* network: the hosts of the slab's sectors                    *)
  listed,    (* network: the hosts it lists                                 *)
  moves,     (* how often sectors or hosts moved                            *)
  refusals,  (* calls refused so far                                        *)
  objectRow, (* object_cache: the objects it has a young row of             *)
  slabRow,   (* slab_cache: the hosts in the slab's row, or none            *)
  hostSet,   (* Client.hosts: the hosts listed when it was fetched          *)
  hostAge,   (* Client.hostsAt                                              *)
  fetches    (* the reads                                                   *)

locationVars == <<kept, hosting, listed, moves, refusals, objectRow, slabRow, hostSet, hostAge, fetches>>
elsewhere    == <<kept, hosting, listed, moves>>
hostsKnown   == <<hostSet, hostAge>>
rows         == <<objectRow, slabRow>>

NoFetch == [at |-> "idle", object |-> NoObject, list |-> {}]
NoSlabRow == {}

LocationsInit ==
  /\ kept = ObjectId /\ moves = 0 /\ refusals = 0
  /\ hosting \in {hs \in SUBSET NetHost : Cardinality(hs) = Shards}
  /\ listed \in {hs \in SUBSET NetHost : hosting \subseteq hs}
  /\ objectRow = {} /\ slabRow = NoSlabRow
  /\ hostSet = {} /\ hostAge = "none"
  /\ fetches = [f \in Reader |-> NoFetch]

FetchAt(f, where) == fetches[f].at = where
Then(f, where) == fetches' = [fetches EXCEPT ![f].at = where, ![f].list = {}]

(* A call that is not answered, and one of the database, which ends the read. *)
Refused == refusals < MaxRefusal /\ refusals' = refusals + 1
Refuses(f) == Refused /\ Then(f, "failed")

(* fetchRemote begins: GetLocation and its age. *)
GetLocation(f, o) ==
  LET Reading(at) == fetches' = [fetches EXCEPT ![f] = [NoFetch EXCEPT !.at = at, !.object = o]]
  IN
  /\ fetches[f] = NoFetch
  /\ \/ Reading(IF o \in objectRow THEN "slab" ELSE "ask") /\ UNCHANGED refusals
     \/ Reading("failed") /\ Refused
  /\ UNCHANGED <<elsewhere, rows, hostsKnown>>

(* GetSlabMeta and its age. *)
GetSlabMeta(f) ==
  /\ FetchAt(f, "slab")
  /\ \/ /\ slabRow # NoSlabRow
        /\ fetches' = [fetches EXCEPT ![f].at = "hosts", ![f].list = slabRow]
        /\ UNCHANGED refusals
     \/ slabRow = NoSlabRow /\ Then(f, "ask") /\ UNCHANGED refusals
     \/ Refuses(f)
  /\ UNCHANGED <<elsewhere, rows, hostsKnown>>

(* checkReachable: enough of the cached hosts are ones the network lists. *)
StillReachable(f, known) == Cardinality(fetches[f].list \cap known) >= MinShards

Check(f, known) ==
  IF StillReachable(f, known) THEN fetches' = [fetches EXCEPT ![f].at = "read"] ELSE Then(f, "drop")

(* Mutant: the set in memory is used however old it is. *)
CheckRemembered(f) ==
  /\ FetchAt(f, "hosts")
  /\ \/ hostAge # "none" /\ Check(f, hostSet) /\ UNCHANGED <<hostsKnown, refusals>>
     \/ /\ hostAge = "none" /\ Check(f, listed)
        /\ hostSet' = listed /\ hostAge' = "fresh" /\ UNCHANGED refusals
  /\ UNCHANGED <<elsewhere, rows>>

(***************************************************************************)
(* knownHosts: the set in memory while it is young, else the network's,    *)
(* which may not answer.                                                   *)
(***************************************************************************)
CheckReachable(f) ==
  /\ FetchAt(f, "hosts")
  /\ \/ hostAge = "fresh" /\ Check(f, hostSet) /\ UNCHANGED <<hostsKnown, refusals>>
     \/ /\ hostAge # "fresh" /\ Check(f, listed)
        /\ hostSet' = listed /\ hostAge' = "fresh" /\ UNCHANGED refusals
     \/ hostAge # "fresh" /\ Refused /\ Then(f, "drop") /\ UNCHANGED hostsKnown
  /\ UNCHANGED <<elsewhere, rows>>

(* DownloadAt's read of the sectors: from the hosts that still have them. *)
ReadAt(f) ==
  /\ FetchAt(f, "read")
  /\ Then(f, IF Cardinality(fetches[f].list \cap hosting \cap listed) >= MinShards
             THEN "answered" ELSE "drop")
  /\ UNCHANGED <<elsewhere, refusals, rows, hostsKnown>>

(* Mutant: a location that did not work fails the read and stays. *)
FailRead(f) ==
  /\ FetchAt(f, "drop")
  /\ Then(f, "failed")
  /\ UNCHANGED <<elsewhere, refusals, rows, hostsKnown>>

(* forgetLocation: the object's row goes, then the slab's, and the read    *)
(* asks the indexer.                                                       *)
ForgetLocation(f) ==
  /\ FetchAt(f, "drop")
  /\ \/ /\ objectRow' = objectRow \ {fetches[f].object}
        /\ Then(f, "dropSlab")
        /\ UNCHANGED refusals
     \/ Refuses(f) /\ UNCHANGED objectRow
  /\ UNCHANGED <<elsewhere, slabRow, hostsKnown>>

ForgetSlabMeta(f) ==
  /\ FetchAt(f, "dropSlab")
  /\ \/ /\ slabRow' = NoSlabRow
        /\ Then(f, "ask")
        /\ UNCHANGED refusals
     \/ Refuses(f) /\ UNCHANGED slabRow
  /\ UNCHANGED <<elsewhere, objectRow, hostsKnown>>

(* LocationFor and Download. *)
AskIndexer(f) ==
  /\ FetchAt(f, "ask")
  /\ IF fetches[f].object \in kept
     THEN fetches' = [fetches EXCEPT ![f].at = "cacheSlab", ![f].list = hosting]
     ELSE Then(f, "failed")
  /\ UNCHANGED <<elsewhere, refusals, rows, hostsKnown>>

(* Mutant: a host the network no longer lists is left out of the row. *)
CacheListed(f) ==
  /\ FetchAt(f, "cacheSlab")
  /\ slabRow' = fetches[f].list \cap listed
  /\ Then(f, "cacheObject")
  /\ UNCHANGED <<elsewhere, refusals, objectRow, hostsKnown>>

(* cacheLocation: the slab's row, then the object's. *)
CacheSlab(f) ==
  /\ FetchAt(f, "cacheSlab")
  /\ \/ /\ slabRow' = fetches[f].list
        /\ Then(f, "cacheObject")
        /\ UNCHANGED refusals
     \/ Refuses(f) /\ UNCHANGED slabRow
  /\ UNCHANGED <<elsewhere, objectRow, hostsKnown>>

CacheObject(f) ==
  /\ FetchAt(f, "cacheObject")
  /\ \/ /\ objectRow' = objectRow \cup {fetches[f].object}
        /\ Then(f, "answered")
        /\ UNCHANGED refusals
     \/ Refuses(f) /\ UNCHANGED objectRow
  /\ UNCHANGED <<elsewhere, slabRow, hostsKnown>>

Finish(f) ==
  /\ fetches[f].at \in {"answered", "failed"}
  /\ fetches' = [fetches EXCEPT ![f] = NoFetch]
  /\ UNCHANGED <<elsewhere, refusals, rows, hostsKnown>>

(* A row or the host set reaches its time to live. *)
RowGrowsOld ==
  /\ \/ \E o \in objectRow : objectRow' = objectRow \ {o} /\ UNCHANGED slabRow
     \/ slabRow # NoSlabRow /\ slabRow' = NoSlabRow /\ UNCHANGED objectRow
  /\ UNCHANGED <<elsewhere, refusals, hostsKnown, fetches>>
HostsGrowOld ==
  /\ hostAge = "fresh" /\ hostAge' = "old"
  /\ UNCHANGED <<elsewhere, refusals, rows, hostSet, fetches>>

(* The network moves a sector to a host it lists; a host without one leaves; *)
(* a host joins.                                                             *)
Move ==
  /\ moves < MaxMove /\ moves' = moves + 1
  /\ \/ \E from \in hosting, to \in listed \ hosting :
          hosting' = (hosting \ {from}) \cup {to} /\ UNCHANGED listed
     \/ \E h \in listed \ hosting : listed' = listed \ {h} /\ UNCHANGED hosting
     \/ \E h \in NetHost \ listed : listed' = listed \cup {h} /\ UNCHANGED hosting
  /\ UNCHANGED <<kept, refusals, rows, hostsKnown, fetches>>

(* A reclaim or a repack, of this device or another, deletes an object. *)
Delete ==
  \E o \in kept :
    /\ kept' = kept \ {o}
    /\ UNCHANGED <<hosting, listed, moves, refusals, rows, hostsKnown, fetches>>

(* A step of a read under way. *)
ReadOn(f) ==
  \/ GetSlabMeta(f) \/ CheckReachable(f) \/ ReadAt(f) \/ ForgetLocation(f) \/ ForgetSlabMeta(f)
  \/ AskIndexer(f) \/ CacheSlab(f) \/ CacheObject(f) \/ Finish(f)

LocationsNext ==
  \/ \E f \in Reader : ReadOn(f) \/ \E o \in ObjectId : GetLocation(f, o)
  \/ RowGrowsOld \/ HostsGrowOld \/ Move \/ Delete

LocationsSpec == LocationsInit /\ [][LocationsNext]_locationVars

(* A read that has begun goes on, and the host set reaches its time to live. *)
LocationsFairness ==
  WF_locationVars(HostsGrowOld) /\ \A f \in Reader : WF_locationVars(ReadOn(f))

LocationsFairSpec == LocationsSpec /\ LocationsFairness

-----------------------------------------------------------------------------

(***************************************************************************)
(* The hosts of a cached slab row are a whole slab's, and a read under way *)
(* is a read of an object.                                                 *)
(***************************************************************************)
LocationsTypeOK ==
  /\ Cardinality(hosting) = Shards /\ hosting \subseteq listed /\ listed \subseteq NetHost
  /\ slabRow = NoSlabRow \/ Cardinality(slabRow) = Shards
  /\ objectRow \subseteq ObjectId
  /\ hostSet \subseteq NetHost
  /\ moves \in 0..MaxMove /\ refusals \in 0..MaxRefusal
  /\ \A f \in Reader : fetches[f] = NoFetch \/ fetches[f].object \in ObjectId

(***************************************************************************)
(* "A location that failed is dropped rather than left to fail again on    *)
(* every subsequent read" (fetchCached): once the network rests, the reads *)
(* that find a location that does not work come to an end, whatever they   *)
(* had in hand when it came to rest and however many more there are.       *)
(***************************************************************************)
DropsEnd == <>[](\A f \in Reader : ~FetchAt(f, "drop"))

(***************************************************************************)
(* "the whole point of the tier is that missing it costs latency and       *)
(* nothing else" (fetchCached): a read fails only for an object the        *)
(* indexer no longer has.                                                  *)
(***************************************************************************)
CacheCostsNoAnswer == \A f \in Reader : FetchAt(f, "failed") => fetches[f].object \notin kept

(***************************************************************************)
(* "checkReachable refuses metadata the SDK's slab reader would crash on": *)
(* the reader drops the hosts it does not recognise and ends the process   *)
(* when fewer than MinShards are left, so it is given that many of those   *)
(* the network listed when they were checked.                              *)
(***************************************************************************)
CheckedIsEnough ==
  [][\A f \in Reader : FetchAt(f, "hosts") /\ FetchAt(f, "read")' =>
       Cardinality(fetches[f].list \cap listed) >= MinShards]_locationVars
=============================================================================
