------------------------------ MODULE Reclaim ------------------------------
(***************************************************************************)
(* Giving storage back: Sweep, ReleaseOrphans, DropUnreadable and Repack   *)
(* (store/reclaim, vault/reclaim.go) over the slab ledger of each device   *)
(* (local/slabs.go), beside the flushes, forgets and hydrates of the       *)
(* processes that have the vault open.                                     *)
(*                                                                         *)
(* Several devices share one indexer account; the processes of one device  *)
(* share its queue, ledger and catalog files, and each keeps the copy of   *)
(* the catalog it read when it opened the vault.  Only `sennit reclaim`    *)
(* reclaims, so a process runs one operation at a time here.  How a flush  *)
(* claims its rows and is taken over is module Packer's subject: here the  *)
(* rows of a flush belong to it until it ends or its process dies.         *)
(***************************************************************************)
EXTENDS Integers, Sequences, FiniteSets

CONSTANTS
  Device,    (* installations of the vault on one account                  *)
  Process,   (* processes that may open it                                 *)
  Home,      (* the device of each process                                 *)
  Record,    (* record ids                                                 *)
  Commands,  (* the maintenance commands users run                         *)
  MaxSlab,   (* bound: how many batches are ever uploaded                  *)
  MaxFault   (* bound: how many calls fail or processes die                *)

Command == {"reclaim", "repack", "orphans", "unreadable", "hydrate", "ownership",
            "release-all"}

ASSUME HomeAssumption == Home \in [Process -> Device]
ASSUME CommandAssumption == Commands \subseteq Command
ASSUME BoundAssumption == MaxSlab \in Nat /\ MaxFault \in Nat

VARIABLES
  (* each device *)
  queued,   (* records with a row in the queue                             *)
  ledger,   (* the origin of each slab the ledger lists, or "none"         *)
  catalog,  (* the catalog's files: the slab of each record, or None       *)
  (* the indexer *)
  pinned,   (* slabs the account is billed for                             *)
  objects,  (* <<record, slab>> pairs the indexer lists                    *)
  (* each process *)
  mem,      (* its copy of the catalog                                     *)
  pending,  (* the records it counts as queued (Packer.Pending)            *)
  job,      (* the operation it runs                                       *)
  (* history *)
  owner,    (* the device that uploaded slab 1, 2, ...                     *)
  taken,    (* slabs a device took over with TakeOwnership                 *)
  born,     (* records ever remembered                                     *)
  faults    (* failures so far                                             *)

vars == <<queued, ledger, catalog, pinned, objects, mem, pending, job,
          owner, taken, born, faults>>
history == <<taken, born, faults>>

None   == 0
Slab   == 1..MaxSlab
Object == Record \X Slab
Origin == {"none", "hydrated", "pinned"}

(* What the indexer can serve: an object whose slab went is listed, and opens for no key. *)
Readable(o) == o \in objects /\ o[2] \in pinned

(* recs: the records written; todo: those the loop has left; slab: the slab *)
(* written or being released; objs, slabs: what is left to delete, release. *)
Idle   == [cmd |-> "none", pc |-> "idle", recs |-> {}, todo |-> {}, slab |-> None,
           objs |-> {}, slabs |-> {}]
Closed == [Idle EXCEPT !.pc = "closed"]

At(p, where) == job[p].pc = where
Go(p, where) == job' = [job EXCEPT ![p].pc = where]
End(p)       == job' = [job EXCEPT ![p] = Idle]

(* The objects process p's copy of the catalog names, and the slabs they are on. *)
LiveObjects(p) == {o \in Object : mem[p][o[1]] = o[2]}
LiveSlabs(p)   == {o[2] : o \in LiveObjects(p)}

(* Rows another flush of the device is writing. *)
Claimed(d) == UNION {job[q].recs : q \in {q \in Process : Home[q] = d /\ job[q].cmd = "flush"}}

Init ==
  /\ queued = [d \in Device |-> {}]
  /\ ledger = [d \in Device |-> [s \in Slab |-> "none"]]
  /\ catalog = [d \in Device |-> [r \in Record |-> None]]
  /\ pinned = {}
  /\ objects = {}
  /\ mem = [p \in Process |-> [r \in Record |-> None]]
  /\ pending = [p \in Process |-> {}]
  /\ job = [p \in Process |-> Closed]
  /\ owner = <<>>
  /\ taken = {}
  /\ born = {}
  /\ faults = 0

(***************************************************************************)
(* Opening, closing, dying.                                                *)
(***************************************************************************)
(* Open reads the catalog and the size of the queue. *)
Open(p) ==
  /\ At(p, "closed")
  /\ mem' = [mem EXCEPT ![p] = catalog[Home[p]]]
  /\ pending' = [pending EXCEPT ![p] = queued[Home[p]]]
  /\ End(p)
  /\ UNCHANGED <<queued, ledger, catalog, pinned, objects, owner, history>>

(* A process that is gone takes its copy, its count and its operation with it. *)
Gone(p) ==
  /\ mem' = [mem EXCEPT ![p] = [r \in Record |-> None]]
  /\ pending' = [pending EXCEPT ![p] = {}]
  /\ job' = [job EXCEPT ![p] = Closed]

Close(p) ==
  /\ At(p, "idle")
  /\ Gone(p)
  /\ UNCHANGED <<queued, ledger, catalog, pinned, objects, owner, history>>

Crash(p) ==
  /\ job[p].cmd # "none"
  /\ faults < MaxFault
  /\ faults' = faults + 1
  /\ Gone(p)
  /\ UNCHANGED <<queued, ledger, catalog, pinned, objects, owner, taken, born>>

(* A call to the indexer, the database or the catalog fails: the operation returns. *)
Fails(p) ==
  /\ job[p].cmd # "none"
  /\ faults < MaxFault
  /\ faults' = faults + 1
  /\ End(p)
  /\ UNCHANGED <<queued, ledger, catalog, pinned, objects, mem, pending, owner, taken, born>>

(***************************************************************************)
(* Remembering, flushing, forgetting.                                      *)
(***************************************************************************)
Remember(p, r) ==
  /\ At(p, "idle")
  /\ r \notin born
  /\ born' = born \cup {r}
  /\ queued' = [queued EXCEPT ![Home[p]] = @ \cup {r}]
  /\ pending' = [pending EXCEPT ![p] = @ \cup {r}]
  /\ UNCHANGED <<ledger, catalog, pinned, objects, mem, job, owner, taken, faults>>

(* PutBatch up to its first pin: the batch is uploaded and its slab recorded. *)
PutBatch(p, cmd, recs, objs, slabs) ==
  LET d == Home[p]
      s == Len(owner) + 1 IN
  /\ Len(owner) < MaxSlab
  /\ owner' = Append(owner, d)
  /\ ledger' = [ledger EXCEPT ![d][s] = "pinned"]
  /\ job' = [job EXCEPT ![p] = [cmd |-> cmd, pc |-> "pinslab", recs |-> recs, todo |-> recs,
                                slab |-> s, objs |-> objs, slabs |-> slabs]]

FlushWrite(p) ==
  LET batch == queued[Home[p]] \ Claimed(Home[p]) IN
  /\ At(p, "idle")
  /\ batch # {}
  /\ PutBatch(p, "flush", batch, {}, {})
  /\ UNCHANGED <<queued, catalog, pinned, objects, mem, pending, history>>

PinSlabs(p) ==
  /\ At(p, "pinslab")
  /\ pinned' = pinned \cup {job[p].slab}
  /\ Go(p, "pinobj")
  /\ UNCHANGED <<queued, ledger, catalog, objects, mem, pending, owner, history>>

(* The indexer takes an object over a slab it has pinned, and refuses any other. *)
PinObject(p, r) ==
  /\ At(p, "pinobj")
  /\ r \in job[p].todo
  /\ IF job[p].slab \in pinned
       THEN /\ objects' = objects \cup {<<r, job[p].slab>>}
            /\ job' = [job EXCEPT ![p].todo = @ \ {r}]
       ELSE /\ End(p)
            /\ UNCHANGED objects
  /\ UNCHANGED <<queued, ledger, catalog, pinned, mem, pending, owner, history>>

(* Mutant: everything the copy names is catalogued at the new slab. *)
WrittenAll(p) ==
  /\ At(p, "pinobj")
  /\ job[p].todo = {}
  /\ job' = [job EXCEPT ![p].todo = job[p].recs \cup {r \in Record : mem[p][r] # None},
                        ![p].pc = "catalog"]
  /\ UNCHANGED <<queued, ledger, catalog, pinned, objects, mem, pending, owner, history>>

(* PutBatch returns, and each record written is catalogued in turn. *)
Written(p) ==
  /\ At(p, "pinobj")
  /\ job[p].todo = {}
  /\ job' = [job EXCEPT ![p].todo = job[p].recs, ![p].pc = "catalog"]
  /\ UNCHANGED <<queued, ledger, catalog, pinned, objects, mem, pending, owner, history>>

(* Append changes the files and the process's own copy. *)
AppendEntry(p, r, s) ==
  /\ catalog' = [catalog EXCEPT ![Home[p]][r] = s]
  /\ mem' = [mem EXCEPT ![p][r] = s]

(* recordFlush, or for a repack relocate: the record's entry names the new slab. *)
RecordEntry(p, r) ==
  /\ At(p, "catalog")
  /\ r \in job[p].todo
  /\ AppendEntry(p, r, job[p].slab)
  /\ job' = [job EXCEPT ![p].todo = @ \ {r}]
  /\ UNCHANGED <<queued, ledger, pinned, objects, pending, owner, history>>

(* The flush drops its rows and counts the queue again. *)
FlushDrop(p) ==
  LET d == Home[p] IN
  /\ At(p, "catalog")
  /\ job[p].cmd = "flush"
  /\ job[p].todo = {}
  /\ queued' = [queued EXCEPT ![d] = @ \ job[p].recs]
  /\ pending' = [pending EXCEPT ![p] = queued[d] \ job[p].recs]
  /\ End(p)
  /\ UNCHANGED <<ledger, catalog, pinned, objects, mem, owner, history>>

(* Forget withdraws the record from the queue and removes its entry; it    *)
(* refuses a record a flush is writing, and one it finds in neither place. *)
Forget(p, r) ==
  LET d == Home[p] IN
  /\ At(p, "idle")
  /\ r \notin Claimed(d)
  /\ r \in queued[d] \/ mem[p][r] # None
  /\ queued' = [queued EXCEPT ![d] = @ \ {r}]
  /\ pending' = [pending EXCEPT ![p] = IF r \in queued[d] THEN queued[d] \ {r} ELSE @]
  /\ IF mem[p][r] # None THEN AppendEntry(p, r, None) ELSE UNCHANGED <<catalog, mem>>
  /\ UNCHANGED <<ledger, pinned, objects, job, owner, history>>

(***************************************************************************)
(* Hydrating, and taking ownership of what was hydrated.                   *)
(***************************************************************************)
(* hydrateFrame catalogues a record it could read, then adopts the slab. *)
HydrateAppend(p, o) ==
  /\ "hydrate" \in Commands
  /\ At(p, "idle")
  /\ Readable(o)
  /\ AppendEntry(p, o[1], o[2])
  /\ job' = [job EXCEPT ![p] = [Idle EXCEPT !.cmd = "hydrate", !.pc = "adopt", !.slab = o[2]]]
  /\ UNCHANGED <<queued, ledger, pinned, objects, pending, owner, history>>

(* Mutant: a hydrated slab is filed as one this device pinned. *)
AdoptedAsPinned(origin) == "pinned"

(* A slab the ledger has as pinned here stays so. *)
Adopted(origin) == IF origin = "pinned" THEN "pinned" ELSE "hydrated"

HydrateAdopt(p) ==
  /\ At(p, "adopt")
  /\ ledger' = [ledger EXCEPT ![Home[p]][job[p].slab] = Adopted(@)]
  /\ End(p)
  /\ UNCHANGED <<queued, catalog, pinned, objects, mem, pending, owner, history>>

TakeOwnership(p) ==
  LET d == Home[p] IN
  /\ "ownership" \in Commands
  /\ At(p, "idle")
  /\ pending[p] = {}
  /\ ledger' = [ledger EXCEPT ![d] = [s \in Slab |-> IF @[s] = "none" THEN "none" ELSE "pinned"]]
  /\ taken' = taken \cup {s \in Slab : ledger[d][s] = "hydrated"}
  /\ UNCHANGED <<queued, catalog, pinned, objects, mem, pending, job, owner, born, faults>>

(***************************************************************************)
(* Sweeping.                                                               *)
(***************************************************************************)
Tracked(d) == {s \in Slab : ledger[d][s] # "none"}
Releasable(d) == {s \in Slab : ledger[d][s] = "pinned"}

(* The --release-all flag of a reclaim. *)
ReleaseAll == {FALSE} \cup {"release-all" \in Commands}

(* Live.Check: an empty catalog bounds no deletion unless the caller says it is empty. *)
Check(p, releaseAll) ==
  \/ LiveObjects(p) # {}
  \/ Tracked(Home[p]) = {}
  \/ releaseAll

(* Sweep reads the ledger and checks the keep-set; nothing may be queued. *)
SweepBegin(p) ==
  /\ "reclaim" \in Commands
  /\ At(p, "idle")
  /\ pending[p] = {}
  /\ \E releaseAll \in ReleaseAll : Check(p, releaseAll)
  /\ job' = [job EXCEPT ![p] = [Idle EXCEPT !.cmd = "sweep", !.pc = "walk",
                                            !.slabs = Releasable(Home[p])]]
  /\ UNCHANGED <<queued, ledger, catalog, pinned, objects, mem, pending, owner, history>>

(* Mutant: only slabs the walk met an object on are released. *)
ReleaseOccupied(p, ours) == {o[2] : o \in {o \in objects : o[2] \in ours}} \ LiveSlabs(p)

(* planSweep, over the slabs that are ours: the objects the catalog does not *)
(* name, and the slabs it names nothing on.  An object that will not open    *)
(* is listed without its slab, so the plan leaves it alone.                  *)
DeadObjects(p, ours)     == {o \in objects \ LiveObjects(p) : Readable(o) /\ o[2] \in ours}
ReleasableSlabs(p, ours) == ours \ LiveSlabs(p)

SweepWalk(p) ==
  /\ At(p, "walk")
  /\ job' = [job EXCEPT ![p].objs = DeadObjects(p, job[p].slabs),
                        ![p].slabs = ReleasableSlabs(p, @),
                        ![p].pc = "delete"]
  /\ UNCHANGED <<queued, ledger, catalog, pinned, objects, mem, pending, owner, history>>

(* Deleting an object that is gone is a success. *)
DeleteObject(p, o) ==
  /\ At(p, "delete")
  /\ o \in job[p].objs
  /\ objects' = objects \ {o}
  /\ job' = [job EXCEPT ![p].objs = @ \ {o}]
  /\ UNCHANGED <<queued, ledger, catalog, pinned, mem, pending, owner, history>>

(* Mutant: the sweep goes on without waiting for the deletions. *)
DeletedEarly(p) ==
  /\ At(p, "delete")
  /\ job' = [job EXCEPT ![p].objs = {}, ![p].pc = "unpin"]
  /\ UNCHANGED <<queued, ledger, catalog, pinned, objects, mem, pending, owner, history>>

Deleted(p) ==
  /\ At(p, "delete")
  /\ job[p].objs = {}
  /\ Go(p, "unpin")
  /\ UNCHANGED <<queued, ledger, catalog, pinned, objects, mem, pending, owner, history>>

(* Mutant: the ledger row goes before the slab is released. *)
UnledgerFirst(p, s) ==
  /\ At(p, "unpin")
  /\ s \in job[p].slabs
  /\ ledger' = [ledger EXCEPT ![Home[p]][s] = "none"]
  /\ job' = [job EXCEPT ![p].slab = s, ![p].slabs = @ \ {s}, ![p].pc = "unledger"]
  /\ UNCHANGED <<queued, catalog, pinned, objects, mem, pending, owner, history>>

(* Unpin releases a slab, one that is gone too, and then drops it from the ledger. *)
UnpinSlab(p, s) ==
  /\ At(p, "unpin")
  /\ s \in job[p].slabs
  /\ pinned' = pinned \ {s}
  /\ job' = [job EXCEPT ![p].slab = s, ![p].slabs = @ \ {s}, ![p].pc = "unledger"]
  /\ UNCHANGED <<queued, ledger, catalog, objects, mem, pending, owner, history>>

ForgetSlab(p) ==
  /\ At(p, "unledger")
  /\ ledger' = [ledger EXCEPT ![Home[p]][job[p].slab] = "none"]
  /\ Go(p, "unpin")
  /\ UNCHANGED <<queued, catalog, pinned, objects, mem, pending, owner, history>>

Released(p) ==
  /\ At(p, "unpin")
  /\ job[p].slabs = {}
  /\ End(p)
  /\ UNCHANGED <<queued, ledger, catalog, pinned, objects, mem, pending, owner, history>>

(***************************************************************************)
(* Orphaned slabs and unreadable objects.                                  *)
(***************************************************************************)
(* Orphans asks what is pinned, then what is on it. *)
OrphansBegin(p) ==
  /\ "orphans" \in Commands
  /\ At(p, "idle")
  /\ pending[p] = {}
  /\ job' = [job EXCEPT ![p] = [Idle EXCEPT !.cmd = "orphans", !.pc = "occupied", !.slabs = pinned]]
  /\ UNCHANGED <<queued, ledger, catalog, pinned, objects, mem, pending, owner, history>>

Occupied == {o[2] : o \in {o \in objects : Readable(o)}}

(* checkOccupancy: a walk that found nothing must be vouched for. *)
Occupancy(slabs, releaseAll) == slabs = {} \/ Occupied # {} \/ releaseAll

OrphansWalk(p) ==
  /\ At(p, "occupied")
  /\ \E releaseAll \in ReleaseAll :
       IF Occupancy(job[p].slabs, releaseAll)
         THEN job' = [job EXCEPT ![p].slabs = @ \ Occupied, ![p].pc = "unpin"]
         ELSE End(p)
  /\ UNCHANGED <<queued, ledger, catalog, pinned, objects, mem, pending, owner, history>>

DropUnreadable(p) ==
  /\ "unreadable" \in Commands
  /\ At(p, "idle")
  /\ pending[p] = {}
  /\ job' = [job EXCEPT ![p] = [Idle EXCEPT !.cmd = "unreadable", !.pc = "delete",
                                            !.objs = {o \in objects : ~Readable(o)}]]
  /\ UNCHANGED <<queued, ledger, catalog, pinned, objects, mem, pending, owner, history>>

(***************************************************************************)
(* Repacking.                                                              *)
(***************************************************************************)
(* Repack takes the records its copy of the catalog names, if every slab   *)
(* they are on is this device's to release.                                *)
RepackBegin(p) ==
  LET held == LiveObjects(p) IN
  /\ "repack" \in Commands
  /\ At(p, "idle")
  /\ pending[p] = {}
  /\ held # {}
  /\ LiveSlabs(p) \subseteq Releasable(Home[p])
  /\ job' = [job EXCEPT ![p] = [Idle EXCEPT !.cmd = "repack", !.pc = "read",
                                !.recs = {o[1] : o \in held}, !.todo = {o[1] : o \in held},
                                !.objs = held, !.slabs = LiveSlabs(p)]]
  /\ UNCHANGED <<queued, ledger, catalog, pinned, objects, mem, pending, owner, history>>

(* A record that cannot be downloaded ends the repack before anything is written. *)
RepackRead(p, r) ==
  /\ At(p, "read")
  /\ r \in job[p].todo
  /\ IF Readable(<<r, mem[p][r]>>) THEN job' = [job EXCEPT ![p].todo = @ \ {r}] ELSE End(p)
  /\ UNCHANGED <<queued, ledger, catalog, pinned, objects, mem, pending, owner, history>>

RepackWrite(p) ==
  /\ At(p, "read")
  /\ job[p].todo = {}
  /\ PutBatch(p, "repack", job[p].recs, job[p].objs, job[p].slabs)
  /\ UNCHANGED <<queued, catalog, pinned, objects, mem, pending, history>>

(* Every record is catalogued where it is now: the old copies are retired. *)
RepackRetire(p) ==
  /\ At(p, "catalog")
  /\ job[p].cmd = "repack"
  /\ job[p].todo = {}
  /\ Go(p, "delete")
  /\ UNCHANGED <<queued, ledger, catalog, pinned, objects, mem, pending, owner, history>>

Next ==
  \E p \in Process :
    \/ Open(p) \/ Close(p) \/ Crash(p) \/ Fails(p)
    \/ FlushWrite(p) \/ PinSlabs(p) \/ Written(p) \/ FlushDrop(p)
    \/ HydrateAdopt(p) \/ TakeOwnership(p)
    \/ SweepBegin(p) \/ SweepWalk(p) \/ Deleted(p) \/ ForgetSlab(p) \/ Released(p)
    \/ OrphansBegin(p) \/ OrphansWalk(p) \/ DropUnreadable(p)
    \/ RepackBegin(p) \/ RepackWrite(p) \/ RepackRetire(p)
    \/ \E r \in Record : \/ Remember(p, r) \/ PinObject(p, r) \/ RecordEntry(p, r)
                         \/ Forget(p, r) \/ RepackRead(p, r)
    \/ \E o \in Object : HydrateAppend(p, o) \/ DeleteObject(p, o)
    \/ \E s \in Slab : UnpinSlab(p, s)

Spec == Init /\ [][Next]_vars

(***************************************************************************)
(* Properties.                                                             *)
(***************************************************************************)
(* Every variable has its type; an operation has what is left of its own work. *)
TypeOK ==
  /\ queued \in [Device -> SUBSET Record]
  /\ ledger \in [Device -> [Slab -> Origin]]
  /\ catalog \in [Device -> [Record -> Slab \cup {None}]]
  /\ pinned \in SUBSET Slab
  /\ objects \in SUBSET Object
  /\ mem \in [Process -> [Record -> Slab \cup {None}]]
  /\ pending \in [Process -> SUBSET Record]
  /\ owner \in Seq(Device) /\ Len(owner) <= MaxSlab
  /\ taken \in SUBSET Slab
  /\ born \in SUBSET Record
  /\ faults \in 0..MaxFault
  /\ \A p \in Process :
       /\ job[p].recs \subseteq Record /\ job[p].todo \subseteq job[p].recs
       /\ job[p].slab \in Slab \cup {None}
       /\ job[p].objs \subseteq Object /\ job[p].slabs \subseteq Slab

(* No command costs a device a record: whatever a device's catalog says is *)
(* on a slab it uploaded itself can be read there, unless another device   *)
(* took ownership of the slab.                                             *)
Kept ==
  \A d \in Device : \A r \in Record :
    LET s == catalog[d][r] IN
    s # None /\ owner[s] = d /\ s \notin taken => Readable(<<r, s>>)

(* Objects first, then slabs: no object is ever left over a slab that was  *)
(* released, where it would be listed for ever and open for no key.        *)
NoneUnreadable == \A o \in objects : o[2] \in pinned

(* Storage that is billed can be found again: a pinned slab is in the      *)
(* ledger of the device that uploaded it, wherever a command stopped.      *)
BilledIsFindable == \A s \in pinned : ledger[owner[s]][s] = "pinned"

(* A sweep that ends releases all it may: what this device still has       *)
(* pinned then holds a catalogued record.                                  *)
Swept ==
  \A p \in Process :
    job[p].cmd = "sweep" /\ At(p, "unpin") /\ job[p].slabs = {} =>
      \A s \in Releasable(Home[p]) : \E r \in Record : catalog[Home[p]][r] = s

(* Whatever stops a sweep or a release of orphans, it strands nothing: no  *)
(* step of either releases a slab that an object the indexer lists is on,  *)
(* unless a device took the slab from the one still writing to it.         *)
StrandsNothing ==
  [][\A p \in Process :
       job[p].cmd \in {"sweep", "orphans"} /\ job'[p] # job[p] =>
         \A o \in objects' : o[2] \in pinned \ taken => o[2] \in pinned']_vars
=============================================================================
