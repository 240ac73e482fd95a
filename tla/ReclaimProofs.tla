--------------------------- MODULE ReclaimProofs ---------------------------
(***************************************************************************)
(* Giving storage back, for any number of devices, processes, records,     *)
(* batches and faults (Reclaim).                                           *)
(***************************************************************************)
EXTENDS Reclaim, TLAPS

Cmd   == {"none", "flush", "hydrate", "sweep", "orphans", "unreadable", "repack"}
Stage == {"closed", "idle", "pinslab", "pinobj", "catalog", "adopt", "walk", "delete", "unpin",
          "unledger", "occupied", "read"}

JobRow ==
  [cmd : Cmd, pc : Stage, recs : SUBSET Record, todo : SUBSET Record, slab : Slab \cup {None},
   objs : SUBSET Object, slabs : SUBSET Slab]

(* Which command is at which stage, and which stages have a slab. *)
JobStage(p) ==
  /\ job[p].todo \subseteq job[p].recs
  /\ job[p].cmd = "none" <=> job[p].pc \in {"closed", "idle"}
  /\ job[p].pc \in {"pinslab", "pinobj", "catalog"} => job[p].cmd \in {"flush", "repack"}
  /\ job[p].pc \in {"pinslab", "pinobj", "catalog", "adopt", "unledger"} => job[p].slab \in Slab
  /\ job[p].pc = "walk" => job[p].cmd = "sweep"
  /\ job[p].pc = "read" => job[p].cmd = "repack"
  /\ job[p].pc = "occupied" => job[p].cmd = "orphans"
  /\ job[p].pc = "adopt" => job[p].cmd = "hydrate"
  /\ job[p].cmd = "sweep" => job[p].pc \in {"walk", "delete", "unpin", "unledger"}
  /\ job[p].cmd = "orphans" => job[p].pc \in {"occupied", "unpin", "unledger"}

DeviceTypes ==
  /\ queued \in [Device -> SUBSET Record]
  /\ ledger \in [Device -> [Slab -> Origin]]
  /\ catalog \in [Device -> [Record -> Slab \cup {None}]]
  /\ pinned \in SUBSET Slab
  /\ objects \in SUBSET Object
  /\ mem \in [Process -> [Record -> Slab \cup {None}]]
  /\ pending \in [Process -> SUBSET Record]
  /\ owner \in Seq(Device) /\ Len(owner) <= MaxSlab
  /\ taken \in SUBSET Slab
  /\ born \in SUBSET Record
  /\ faults \in 0..MaxFault

JobTypes == job \in [Process -> JobRow] /\ \A p \in Process : JobStage(p)

ReclaimTypes == DeviceTypes /\ JobTypes

(* What a step makes of the operation of a process; the others go on as they were. *)
Others(p) == job' \in [Process -> JobRow] /\ \A q \in Process : q # p => job'[q] = job[q]

Row(p, cmd, pc, recs, todo, slab, objs, slabs) ==
  /\ Others(p)
  /\ job'[p].cmd = cmd /\ job'[p].pc = pc /\ job'[p].recs = recs /\ job'[p].todo = todo
  /\ job'[p].slab = slab /\ job'[p].objs = objs /\ job'[p].slabs = slabs

(* The operation goes on at another stage. *)
OnTo(p, pc) ==
  Row(p, job[p].cmd, pc, job[p].recs, job[p].todo, job[p].slab, job[p].objs, job[p].slabs)

Rest(p, pc) == Row(p, "none", pc, {}, {}, None, {}, {})

LEMMA RestIsTyped ==
  /\ Idle \in JobRow /\ Closed \in JobRow
  /\ Idle.cmd = "none" /\ Idle.pc = "idle" /\ Idle.recs = {} /\ Idle.todo = {} /\ Idle.slab = None
  /\ Idle.objs = {} /\ Idle.slabs = {}
  /\ Closed.cmd = "none" /\ Closed.pc = "closed" /\ Closed.recs = {} /\ Closed.todo = {}
  /\ Closed.slab = None /\ Closed.objs = {} /\ Closed.slabs = {}
BY DEF Idle, Closed, JobRow, Cmd, Stage

(* An operation that ends, and a process that is gone. *)
LEMMA RestRows ==
  ASSUME JobTypes, NEW p \in Process
  PROVE  /\ End(p) => Rest(p, "idle")
         /\ job' = [job EXCEPT ![p] = Closed] => Rest(p, "closed")
BY RestIsTyped DEF JobTypes, End, Rest, Row, Others

(* An operation that is given a whole row. *)
LEMMA NewRow ==
  ASSUME JobTypes, NEW p \in Process, NEW row \in JobRow, job' = [job EXCEPT ![p] = row]
  PROVE  Row(p, row.cmd, row.pc, row.recs, row.todo, row.slab, row.objs, row.slabs)
BY DEF JobTypes, Row, Others

LEMMA GoRows ==
  ASSUME JobTypes, NEW p \in Process, NEW pc \in Stage, Go(p, pc)
  PROVE  OnTo(p, pc)
BY DEF JobTypes, JobRow, Go, OnTo, Row, Others

LEMMA TodoRows ==
  ASSUME JobTypes, NEW p \in Process, NEW pc \in Stage, NEW todo \in SUBSET Record,
         job' = [job EXCEPT ![p].todo = todo, ![p].pc = pc]
  PROVE  Row(p, job[p].cmd, pc, job[p].recs, todo, job[p].slab, job[p].objs, job[p].slabs)
BY DEF JobTypes, JobRow, Row, Others

LEMMA OneLessRows ==
  ASSUME JobTypes, NEW p \in Process, NEW x
  PROVE  /\ job' = [job EXCEPT ![p].todo = @ \ {x}] =>
              Row(p, job[p].cmd, job[p].pc, job[p].recs, job[p].todo \ {x}, job[p].slab,
                  job[p].objs, job[p].slabs)
         /\ job' = [job EXCEPT ![p].objs = @ \ {x}] =>
              Row(p, job[p].cmd, job[p].pc, job[p].recs, job[p].todo, job[p].slab,
                  job[p].objs \ {x}, job[p].slabs)
<1>1. job \in [Process -> JobRow] /\ job[p].todo \ {x} \in SUBSET Record /\ job[p].objs \ {x} \in SUBSET Object
  BY DEF JobTypes, JobRow
<1>2. ASSUME NEW todo \in SUBSET Record, job' = [job EXCEPT ![p].todo = todo]
      PROVE  Row(p, job[p].cmd, job[p].pc, job[p].recs, todo, job[p].slab, job[p].objs, job[p].slabs)
  BY <1>1, <1>2 DEF JobRow, Row, Others
<1>3. ASSUME NEW objs \in SUBSET Object, job' = [job EXCEPT ![p].objs = objs]
      PROVE  Row(p, job[p].cmd, job[p].pc, job[p].recs, job[p].todo, job[p].slab, objs, job[p].slabs)
  BY <1>1, <1>3 DEF JobRow, Row, Others
<1>4. PICK todo \in SUBSET Record : todo = job[p].todo \ {x}
  BY <1>1
<1>5. PICK objs \in SUBSET Object : objs = job[p].objs \ {x}
  BY <1>1
<1> QED BY <1>2, <1>3, <1>4, <1>5

(* The slab a batch is written to is the next one. *)
LEMMA PutBatchRows ==
  ASSUME DeviceTypes, JobTypes, NEW p \in Process, NEW cmd \in Cmd, NEW recs \in SUBSET Record,
         NEW objs \in SUBSET Object, NEW slabs \in SUBSET Slab, PutBatch(p, cmd, recs, objs, slabs)
  PROVE  /\ Row(p, cmd, "pinslab", recs, recs, Len(owner) + 1, objs, slabs)
         /\ Len(owner) + 1 \in Slab /\ owner' = Append(owner, Home[p])
         /\ ledger' = [ledger EXCEPT ![Home[p]][Len(owner) + 1] = "pinned"]
<1>1. Len(owner) + 1 \in Slab
  BY BoundAssumption DEF PutBatch, Slab, DeviceTypes
<1>2. PICK s \in Slab : s = Len(owner) + 1
  BY <1>1
<1> DEFINE row == [cmd |-> cmd, pc |-> "pinslab", recs |-> recs, todo |-> recs,
                   slab |-> s, objs |-> objs, slabs |-> slabs]
<1>3. row \in JobRow /\ row.cmd = cmd /\ row.pc = "pinslab" /\ row.recs = recs /\ row.todo = recs
      /\ row.slab = s /\ row.objs = objs /\ row.slabs = slabs
  BY DEF JobRow, Stage
<1>4. job' = [job EXCEPT ![p] = row]
  BY <1>2 DEF PutBatch
<1> HIDE DEF row
<1>5. Row(p, cmd, "pinslab", recs, recs, s, objs, slabs)
  BY <1>3, <1>4, NewRow
<1> QED BY <1>1, <1>2, <1>5 DEF PutBatch

LEMMA FlushRows ==
  ASSUME ReclaimTypes, NEW p \in Process
  PROVE  /\ Open(p) => Rest(p, "idle")
         /\ Close(p) \/ Crash(p) => Rest(p, "closed")
         /\ Fails(p) => Rest(p, "idle")
         /\ FlushWrite(p) => /\ PutBatch(p, "flush", queued[Home[p]] \ Claimed(Home[p]), {}, {})
                             /\ \E recs \in SUBSET Record :
                                  Row(p, "flush", "pinslab", recs, recs, Len(owner) + 1, {}, {})
         /\ PinSlabs(p) => OnTo(p, "pinobj")
         /\ \A r \in Record : PinObject(p, r) =>
              IF job[p].slab \in pinned
                THEN Row(p, job[p].cmd, job[p].pc, job[p].recs, job[p].todo \ {r}, job[p].slab,
                         job[p].objs, job[p].slabs)
                ELSE Rest(p, "idle")
         /\ Written(p) => Row(p, job[p].cmd, "catalog", job[p].recs, job[p].recs, job[p].slab,
                              job[p].objs, job[p].slabs)
         /\ \A r \in Record : RecordEntry(p, r) =>
              Row(p, job[p].cmd, job[p].pc, job[p].recs, job[p].todo \ {r}, job[p].slab,
                  job[p].objs, job[p].slabs)
         /\ FlushDrop(p) => Rest(p, "idle")
<1> USE DEF ReclaimTypes
<1>1. Open(p) \/ Fails(p) \/ FlushDrop(p) => Rest(p, "idle")
  BY RestRows DEF Open, Fails, FlushDrop
<1>2. Close(p) \/ Crash(p) => Rest(p, "closed")
  BY RestRows DEF Close, Crash, Gone
<1>3. ASSUME FlushWrite(p)
      PROVE  /\ PutBatch(p, "flush", queued[Home[p]] \ Claimed(Home[p]), {}, {})
             /\ \E recs \in SUBSET Record : Row(p, "flush", "pinslab", recs, recs, Len(owner) + 1, {}, {})
  <2>1. PutBatch(p, "flush", queued[Home[p]] \ Claimed(Home[p]), {}, {})
    BY <1>3 DEF FlushWrite
  <2>2. PICK recs \in SUBSET Record : recs = queued[Home[p]] \ Claimed(Home[p])
    BY HomeAssumption DEF DeviceTypes
  <2>3. "flush" \in Cmd
    BY DEF Cmd
  <2> QED BY <2>1, <2>2, <2>3, PutBatchRows
<1>4. PinSlabs(p) => OnTo(p, "pinobj")
  BY GoRows DEF PinSlabs, Stage
<1>5. ASSUME NEW r \in Record, PinObject(p, r)
      PROVE  IF job[p].slab \in pinned
               THEN Row(p, job[p].cmd, job[p].pc, job[p].recs, job[p].todo \ {r}, job[p].slab,
                        job[p].objs, job[p].slabs)
               ELSE Rest(p, "idle")
  BY <1>5, OneLessRows, RestRows DEF PinObject
<1>6. ASSUME Written(p)
      PROVE  Row(p, job[p].cmd, "catalog", job[p].recs, job[p].recs, job[p].slab,
                 job[p].objs, job[p].slabs)
  <2>1. PICK recs \in SUBSET Record : recs = job[p].recs
    BY DEF JobTypes, JobRow
  <2>2. job' = [job EXCEPT ![p].todo = recs, ![p].pc = "catalog"] /\ "catalog" \in Stage
    BY <1>6, <2>1 DEF Written, Stage
  <2> QED BY <2>1, <2>2, TodoRows
<1>7. \A r \in Record : RecordEntry(p, r) =>
        Row(p, job[p].cmd, job[p].pc, job[p].recs, job[p].todo \ {r}, job[p].slab,
            job[p].objs, job[p].slabs)
  BY OneLessRows DEF RecordEntry
<1> QED BY <1>1, <1>2, <1>3, <1>4, <1>5, <1>6, <1>7

LEMMA ReleaseRows ==
  ASSUME JobTypes, NEW p \in Process, NEW s \in Slab, NEW slabs \in SUBSET Slab, NEW objs \in SUBSET Object,
         NEW pc \in Stage
  PROVE  /\ job' = [job EXCEPT ![p].slab = s, ![p].slabs = slabs, ![p].pc = pc] =>
              Row(p, job[p].cmd, pc, job[p].recs, job[p].todo, s, job[p].objs, slabs)
         /\ job' = [job EXCEPT ![p].objs = objs, ![p].slabs = slabs, ![p].pc = pc] =>
              Row(p, job[p].cmd, pc, job[p].recs, job[p].todo, job[p].slab, objs, slabs)
         /\ job' = [job EXCEPT ![p].slabs = slabs, ![p].pc = pc] =>
              Row(p, job[p].cmd, pc, job[p].recs, job[p].todo, job[p].slab, job[p].objs, slabs)
BY DEF JobTypes, JobRow, Row, Others

LEMMA SweepRows ==
  ASSUME ReclaimTypes, NEW p \in Process
  PROVE  /\ \A o \in Object : HydrateAppend(p, o) => Row(p, "hydrate", "adopt", {}, {}, o[2], {}, {})
         /\ HydrateAdopt(p) => Rest(p, "idle")
         /\ SweepBegin(p) => Row(p, "sweep", "walk", {}, {}, None, {}, Releasable(Home[p]))
         /\ SweepWalk(p) => Row(p, job[p].cmd, "delete", job[p].recs, job[p].todo, job[p].slab,
                                DeadObjects(p, job[p].slabs), ReleasableSlabs(p, job[p].slabs))
         /\ \A o \in Object : DeleteObject(p, o) =>
              Row(p, job[p].cmd, job[p].pc, job[p].recs, job[p].todo, job[p].slab,
                  job[p].objs \ {o}, job[p].slabs)
         /\ Deleted(p) => OnTo(p, "unpin")
         /\ \A s \in Slab : UnpinSlab(p, s) =>
              Row(p, job[p].cmd, "unledger", job[p].recs, job[p].todo, s, job[p].objs, job[p].slabs \ {s})
         /\ ForgetSlab(p) => OnTo(p, "unpin")
         /\ Released(p) => Rest(p, "idle")
<1> USE DEF ReclaimTypes
<1>1. ASSUME NEW o \in Object, HydrateAppend(p, o) PROVE Row(p, "hydrate", "adopt", {}, {}, o[2], {}, {})
  <2>1. PICK slab \in Slab : slab = o[2]
    BY DEF Object
  <2> DEFINE row == [Idle EXCEPT !.cmd = "hydrate", !.pc = "adopt", !.slab = slab]
  <2>2. row \in JobRow /\ row.cmd = "hydrate" /\ row.pc = "adopt" /\ row.recs = {} /\ row.todo = {}
        /\ row.slab = slab /\ row.objs = {} /\ row.slabs = {}
    BY DEF Idle, JobRow, Cmd, Stage
  <2>3. job' = [job EXCEPT ![p] = row]
    BY <1>1, <2>1 DEF HydrateAppend
  <2> HIDE DEF row
  <2> QED BY <2>1, <2>2, <2>3, NewRow
<1>2. HydrateAdopt(p) \/ Released(p) => Rest(p, "idle")
  BY RestRows DEF HydrateAdopt, Released
<1>3. ASSUME SweepBegin(p) PROVE Row(p, "sweep", "walk", {}, {}, None, {}, Releasable(Home[p]))
  <2>1. PICK slabs \in SUBSET Slab : slabs = Releasable(Home[p])
    BY DEF Releasable
  <2> DEFINE row == [Idle EXCEPT !.cmd = "sweep", !.pc = "walk", !.slabs = slabs]
  <2>2. row \in JobRow /\ row.cmd = "sweep" /\ row.pc = "walk" /\ row.recs = {} /\ row.todo = {}
        /\ row.slab = None /\ row.objs = {} /\ row.slabs = slabs
    BY DEF Idle, JobRow, Cmd, Stage
  <2>3. job' = [job EXCEPT ![p] = row]
    BY <1>3, <2>1 DEF SweepBegin
  <2> HIDE DEF row
  <2> QED BY <2>1, <2>2, <2>3, NewRow
<1>4. ASSUME SweepWalk(p)
      PROVE  Row(p, job[p].cmd, "delete", job[p].recs, job[p].todo, job[p].slab,
                 DeadObjects(p, job[p].slabs), ReleasableSlabs(p, job[p].slabs))
  <2>1. PICK objs \in SUBSET Object : objs = DeadObjects(p, job[p].slabs)
    BY DEF DeadObjects, DeviceTypes
  <2>2. PICK slabs \in SUBSET Slab : slabs = ReleasableSlabs(p, job[p].slabs)
    BY DEF ReleasableSlabs, JobTypes, JobRow
  <2>3. job' = [job EXCEPT ![p].objs = objs, ![p].slabs = slabs, ![p].pc = "delete"] /\ "delete" \in Stage
    <3>1. job \in [Process -> JobRow]
      BY DEF JobTypes
    <3> QED BY <1>4, <2>1, <2>2, <3>1 DEF SweepWalk, Stage, JobRow
  <2>4. JobTypes => Row(p, job[p].cmd, "delete", job[p].recs, job[p].todo, job[p].slab, objs, slabs)
    BY <2>3 DEF JobTypes, JobRow, Row, Others
  <2> QED BY <2>1, <2>2, <2>4
<1>5. \A o \in Object : DeleteObject(p, o) =>
        Row(p, job[p].cmd, job[p].pc, job[p].recs, job[p].todo, job[p].slab, job[p].objs \ {o}, job[p].slabs)
  BY OneLessRows DEF DeleteObject
<1>6. Deleted(p) \/ ForgetSlab(p) => OnTo(p, "unpin")
  BY GoRows DEF Deleted, ForgetSlab, Stage
<1>7. ASSUME NEW s \in Slab, UnpinSlab(p, s)
      PROVE  Row(p, job[p].cmd, "unledger", job[p].recs, job[p].todo, s, job[p].objs, job[p].slabs \ {s})
  <2>1. PICK slabs \in SUBSET Slab : slabs = job[p].slabs \ {s}
    BY DEF JobTypes, JobRow
  <2>2. job' = [job EXCEPT ![p].slab = s, ![p].slabs = slabs, ![p].pc = "unledger"] /\ "unledger" \in Stage
    <3>1. job \in [Process -> JobRow]
      BY DEF JobTypes
    <3> QED BY <1>7, <2>1, <3>1 DEF UnpinSlab, Stage, JobRow
  <2>3. {} \in SUBSET Object
    OBVIOUS
  <2>4. Row(p, job[p].cmd, "unledger", job[p].recs, job[p].todo, s, job[p].objs, slabs)
    BY <2>2, <2>3, ReleaseRows
  <2> QED BY <2>1, <2>4
<1> QED BY <1>1, <1>2, <1>3, <1>4, <1>5, <1>6, <1>7

LEMMA RepackRows ==
  ASSUME ReclaimTypes, NEW p \in Process
  PROVE  /\ OrphansBegin(p) => Row(p, "orphans", "occupied", {}, {}, None, {}, pinned)
         /\ OrphansWalk(p) =>
              \/ Rest(p, "idle")
              \/ Row(p, job[p].cmd, "unpin", job[p].recs, job[p].todo, job[p].slab, job[p].objs,
                     job[p].slabs \ Occupied)
         /\ DropUnreadable(p) => Row(p, "unreadable", "delete", {}, {}, None, {o \in objects : ~Readable(o)}, {})
         /\ RepackBegin(p) => Row(p, "repack", "read", {o[1] : o \in LiveObjects(p)},
                                  {o[1] : o \in LiveObjects(p)}, None, LiveObjects(p), LiveSlabs(p))
         /\ \A r \in Record : RepackRead(p, r) =>
              \/ Rest(p, "idle")
              \/ Row(p, job[p].cmd, job[p].pc, job[p].recs, job[p].todo \ {r}, job[p].slab,
                     job[p].objs, job[p].slabs)
         /\ RepackWrite(p) => /\ PutBatch(p, "repack", job[p].recs, job[p].objs, job[p].slabs)
                              /\ Row(p, "repack", "pinslab", job[p].recs, job[p].recs, Len(owner) + 1,
                                     job[p].objs, job[p].slabs)
         /\ RepackRetire(p) => OnTo(p, "delete")
<1> USE DEF ReclaimTypes
<1>1. ASSUME OrphansBegin(p) PROVE Row(p, "orphans", "occupied", {}, {}, None, {}, pinned)
  <2>1. PICK slabs \in SUBSET Slab : slabs = pinned
    BY DEF DeviceTypes
  <2> DEFINE row == [Idle EXCEPT !.cmd = "orphans", !.pc = "occupied", !.slabs = slabs]
  <2>2. row \in JobRow /\ row.cmd = "orphans" /\ row.pc = "occupied" /\ row.recs = {} /\ row.todo = {}
        /\ row.slab = None /\ row.objs = {} /\ row.slabs = slabs
    BY DEF Idle, JobRow, Cmd, Stage
  <2>3. job' = [job EXCEPT ![p] = row]
    BY <1>1, <2>1 DEF OrphansBegin
  <2> HIDE DEF row
  <2> QED BY <2>1, <2>2, <2>3, NewRow
<1>2. ASSUME OrphansWalk(p)
      PROVE  \/ Rest(p, "idle")
             \/ Row(p, job[p].cmd, "unpin", job[p].recs, job[p].todo, job[p].slab, job[p].objs,
                    job[p].slabs \ Occupied)
  <2>1. PICK slabs \in SUBSET Slab : slabs = job[p].slabs \ Occupied
    BY DEF JobTypes, JobRow
  <2>2. End(p) \/ job' = [job EXCEPT ![p].slabs = job[p].slabs \ Occupied, ![p].pc = "unpin"]
    <3>1. job \in [Process -> JobRow]
      BY DEF JobTypes
    <3> QED BY <1>2, <3>1 DEF OrphansWalk, JobRow
  <2>3. CASE End(p)
    BY <2>3, RestRows
  <2>4. CASE job' = [job EXCEPT ![p].slabs = slabs, ![p].pc = "unpin"]
    <3>1. Row(p, job[p].cmd, "unpin", job[p].recs, job[p].todo, job[p].slab, job[p].objs, slabs)
      BY <2>4 DEF JobTypes, JobRow, Row, Others, Stage
    <3> QED BY <2>1, <3>1
  <2> QED BY <2>1, <2>2, <2>3, <2>4
<1>3. ASSUME DropUnreadable(p)
      PROVE  Row(p, "unreadable", "delete", {}, {}, None, {o \in objects : ~Readable(o)}, {})
  <2>1. PICK objs \in SUBSET Object : objs = {o \in objects : ~Readable(o)}
    BY DEF DeviceTypes
  <2> DEFINE row == [Idle EXCEPT !.cmd = "unreadable", !.pc = "delete", !.objs = objs]
  <2>2. row \in JobRow /\ row.cmd = "unreadable" /\ row.pc = "delete" /\ row.recs = {} /\ row.todo = {}
        /\ row.slab = None /\ row.objs = objs /\ row.slabs = {}
    BY DEF Idle, JobRow, Cmd, Stage
  <2>3. job' = [job EXCEPT ![p] = row]
    BY <1>3, <2>1 DEF DropUnreadable
  <2> HIDE DEF row
  <2> QED BY <2>1, <2>2, <2>3, NewRow
<1>4. ASSUME RepackBegin(p)
      PROVE  Row(p, "repack", "read", {o[1] : o \in LiveObjects(p)},
                 {o[1] : o \in LiveObjects(p)}, None, LiveObjects(p), LiveSlabs(p))
  <2>1. PICK objs \in SUBSET Object : objs = LiveObjects(p)
    BY DEF LiveObjects
  <2>2. PICK recs \in SUBSET Record : recs = {o[1] : o \in LiveObjects(p)}
    BY DEF LiveObjects, Object
  <2>3. PICK slabs \in SUBSET Slab : slabs = LiveSlabs(p)
    BY DEF LiveSlabs, LiveObjects, Object
  <2> DEFINE row == [Idle EXCEPT !.cmd = "repack", !.pc = "read", !.recs = recs, !.todo = recs,
                                 !.objs = objs, !.slabs = slabs]
  <2>4. row \in JobRow /\ row.cmd = "repack" /\ row.pc = "read" /\ row.recs = recs /\ row.todo = recs
        /\ row.slab = None /\ row.objs = objs /\ row.slabs = slabs
    BY DEF Idle, JobRow, Cmd, Stage
  <2>5. job' = [job EXCEPT ![p] = row]
    BY <1>4, <2>1, <2>2, <2>3 DEF RepackBegin
  <2> HIDE DEF row
  <2> QED BY <2>1, <2>2, <2>3, <2>4, <2>5, NewRow
<1>5. \A r \in Record : RepackRead(p, r) =>
        \/ Rest(p, "idle")
        \/ Row(p, job[p].cmd, job[p].pc, job[p].recs, job[p].todo \ {r}, job[p].slab,
               job[p].objs, job[p].slabs)
  BY OneLessRows, RestRows DEF RepackRead
<1>6. ASSUME RepackWrite(p)
      PROVE  /\ PutBatch(p, "repack", job[p].recs, job[p].objs, job[p].slabs)
             /\ Row(p, "repack", "pinslab", job[p].recs, job[p].recs, Len(owner) + 1,
                    job[p].objs, job[p].slabs)
  <2>1. PICK recs \in SUBSET Record, objs \in SUBSET Object, slabs \in SUBSET Slab :
          recs = job[p].recs /\ objs = job[p].objs /\ slabs = job[p].slabs
    BY DEF JobTypes, JobRow
  <2>2. PutBatch(p, "repack", recs, objs, slabs) /\ "repack" \in Cmd
    BY <1>6, <2>1 DEF RepackWrite, Cmd
  <2>3. Row(p, "repack", "pinslab", recs, recs, Len(owner) + 1, objs, slabs)
    BY <2>2, PutBatchRows
  <2> QED BY <2>1, <2>2, <2>3
<1>7. RepackRetire(p) => OnTo(p, "delete")
  BY GoRows DEF RepackRetire, Stage
<1> QED BY <1>1, <1>2, <1>3, <1>4, <1>5, <1>6, <1>7

(* What a step of a process does beside its own operation: its device's    *)
(* ledger and catalog, the next slab, a slab pinned by its writer, and     *)
(* what an operation releases or deletes.                                  *)
Frame(p) ==
  /\ \A q \in Process : q # p => mem'[q] = mem[q]
  /\ \A e \in Device : e # Home[p] => ledger'[e] = ledger[e] /\ catalog'[e] = catalog[e]
  /\ owner' = owner \/ owner' = Append(owner, Home[p])
  /\ taken \subseteq taken'
  /\ \A s \in pinned' \ pinned : At(p, "pinslab") /\ s = job[p].slab
  /\ \A o \in objects' \ objects : At(p, "pinobj") /\ job[p].slab \in pinned /\ o[2] = job[p].slab
  /\ \A s \in pinned \ pinned' : At(p, "unpin") /\ s \in job[p].slabs
  /\ \A o \in objects \ objects' : At(p, "delete") /\ o \in job[p].objs

shared == <<queued, ledger, catalog, pinned, objects, mem, pending, owner, taken, born, faults>>

(* The steps that only plan what comes next. *)
Plans(p) ==
  \/ Written(p) \/ SweepBegin(p) \/ SweepWalk(p) \/ Deleted(p) \/ Released(p)
  \/ OrphansBegin(p) \/ OrphansWalk(p) \/ DropUnreadable(p) \/ RepackBegin(p) \/ RepackRetire(p)
  \/ \E r \in Record : RepackRead(p, r)

LEMMA PlansFrame ==
  ASSUME DeviceTypes, NEW p \in Process, Plans(p)
  PROVE  DeviceTypes' /\ Frame(p) /\ UNCHANGED shared
<1>1. UNCHANGED shared
  BY DEF Plans, Written, SweepBegin, SweepWalk, Deleted, Released, OrphansBegin, OrphansWalk,
         DropUnreadable, RepackBegin, RepackRetire, RepackRead, shared, history
<1> QED BY <1>1 DEF shared, Frame, DeviceTypes

LEMMA OpensFrame ==
  ASSUME DeviceTypes, NEW p \in Process, Open(p) \/ Close(p) \/ Crash(p) \/ Fails(p)
  PROVE  DeviceTypes' /\ Frame(p) /\ UNCHANGED <<queued, ledger, catalog, pinned, objects, owner, taken, born>>
<1>1. UNCHANGED <<queued, ledger, catalog, pinned, objects, owner, taken, born>>
  BY DEF Open, Close, Crash, Fails, history
<1>2. Home[p] \in Device
  BY HomeAssumption
<1>3. mem' \in [Process -> [Record -> Slab \cup {None}]] /\ \A q \in Process : q # p => mem'[q] = mem[q]
  <2>1. mem \in [Process -> [Record -> Slab \cup {None}]] /\ catalog[Home[p]] \in [Record -> Slab \cup {None}]
    BY <1>2 DEF DeviceTypes
  <2>2. [r \in Record |-> None] \in [Record -> Slab \cup {None}]
    OBVIOUS
  <2>3. mem' = mem \/ \E m \in [Record -> Slab \cup {None}] : mem' = [mem EXCEPT ![p] = m]
    BY <2>1, <2>2 DEF Open, Close, Crash, Fails, Gone
  <2> QED BY <2>1, <2>3
<1>4. pending' \in [Process -> SUBSET Record]
  BY <1>2 DEF Open, Close, Crash, Fails, Gone, DeviceTypes
<1>5. faults' \in 0..MaxFault
  BY BoundAssumption DEF Open, Close, Crash, Fails, DeviceTypes, history
<1> QED BY <1>1, <1>3, <1>4, <1>5 DEF Frame, DeviceTypes

LEMMA QueueFrame ==
  ASSUME DeviceTypes, NEW p \in Process, (\E r \in Record : Remember(p, r)) \/ FlushDrop(p)
  PROVE  DeviceTypes' /\ Frame(p) /\ UNCHANGED <<ledger, catalog, pinned, objects, mem, owner, taken, faults>>
<1>1. UNCHANGED <<ledger, catalog, pinned, objects, mem, owner, taken, faults>>
  BY DEF Remember, FlushDrop, history
<1>2. Home[p] \in Device
  BY HomeAssumption
<1>3. ASSUME NEW r \in Record, Remember(p, r)
      PROVE  queued' \in [Device -> SUBSET Record] /\ pending' \in [Process -> SUBSET Record] /\ born' \in SUBSET Record
  BY <1>2, <1>3 DEF Remember, DeviceTypes
<1>4. ASSUME FlushDrop(p)
      PROVE  queued' \in [Device -> SUBSET Record] /\ pending' \in [Process -> SUBSET Record] /\ born' \in SUBSET Record
  <2>1. queued[Home[p]] \ job[p].recs \in SUBSET Record
    BY <1>2 DEF DeviceTypes
  <2>2. PICK left \in SUBSET Record : left = queued[Home[p]] \ job[p].recs
    BY <2>1
  <2>3. queued' = [queued EXCEPT ![Home[p]] = left] /\ pending' = [pending EXCEPT ![p] = left] /\ UNCHANGED born
    BY <1>4, <2>2 DEF FlushDrop, history
  <2> QED BY <1>2, <2>3 DEF DeviceTypes
<1> QED BY <1>1, <1>3, <1>4 DEF Frame, DeviceTypes

LEMMA WritesFrame ==
  ASSUME ReclaimTypes, NEW p \in Process, FlushWrite(p) \/ RepackWrite(p)
  PROVE  /\ DeviceTypes' /\ Frame(p)
         /\ UNCHANGED <<queued, catalog, pinned, objects, mem, pending, taken, born, faults>>
         /\ owner' = Append(owner, Home[p]) /\ Len(owner) + 1 \in Slab
         /\ ledger'[Home[p]] = [ledger[Home[p]] EXCEPT ![Len(owner) + 1] = "pinned"]
<1>1. UNCHANGED <<queued, catalog, pinned, objects, mem, pending, taken, born, faults>>
  BY DEF FlushWrite, RepackWrite, history
<1>2. Home[p] \in Device /\ DeviceTypes
  BY HomeAssumption DEF ReclaimTypes
<1>3. owner' = Append(owner, Home[p]) /\ Len(owner) < MaxSlab
  BY DEF FlushWrite, RepackWrite, PutBatch
<1>4. Len(owner) + 1 \in Slab
  BY <1>2, <1>3, BoundAssumption DEF Slab, DeviceTypes
<1>5. owner' \in Seq(Device) /\ Len(owner') <= MaxSlab
  BY <1>2, <1>3, BoundAssumption DEF DeviceTypes
<1>6. ledger' = [ledger EXCEPT ![Home[p]][Len(owner) + 1] = "pinned"]
  BY DEF FlushWrite, RepackWrite, PutBatch
<1>7. PICK s \in Slab : s = Len(owner) + 1
  BY <1>4
<1>8. "pinned" \in Origin
  BY DEF Origin
<1>9. ledger' \in [Device -> [Slab -> Origin]] /\ \A e \in Device : e # Home[p] => ledger'[e] = ledger[e]
  BY <1>2, <1>6, <1>7, <1>8 DEF DeviceTypes
<1>10. ledger'[Home[p]] = [ledger[Home[p]] EXCEPT ![Len(owner) + 1] = "pinned"]
  BY <1>2, <1>6, <1>7 DEF DeviceTypes
<1> QED BY <1>1, <1>2, <1>3, <1>4, <1>5, <1>9, <1>10 DEF Frame, DeviceTypes

LEMMA PinsFrame ==
  ASSUME ReclaimTypes, NEW p \in Process,
         \/ PinSlabs(p) \/ \E r \in Record : PinObject(p, r)
         \/ \E o \in Object : DeleteObject(p, o)
         \/ \E s \in Slab : UnpinSlab(p, s)
  PROVE  DeviceTypes' /\ Frame(p) /\ UNCHANGED <<queued, ledger, catalog, mem, pending, owner, taken, born, faults>>
<1>1. UNCHANGED <<queued, ledger, catalog, mem, pending, owner, taken, born, faults>>
  BY DEF PinSlabs, PinObject, DeleteObject, UnpinSlab, history
<1>2. DeviceTypes /\ JobStage(p)
  BY DEF ReclaimTypes, JobTypes
<1>3. CASE PinSlabs(p)
  <2>1. pinned' = pinned \cup {job[p].slab} /\ job[p].slab \in Slab /\ At(p, "pinslab") /\ UNCHANGED objects
    BY <1>2, <1>3 DEF PinSlabs, At, JobStage
  <2> QED BY <1>1, <1>2, <2>1 DEF Frame, DeviceTypes
<1>4. ASSUME NEW r \in Record, PinObject(p, r) PROVE DeviceTypes' /\ Frame(p)
  <2>1. /\ UNCHANGED pinned /\ At(p, "pinobj") /\ job[p].slab \in Slab
        /\ \/ UNCHANGED objects
           \/ objects' = objects \cup {<<r, job[p].slab>>} /\ job[p].slab \in pinned
    BY <1>2, <1>4 DEF PinObject, At, JobStage
  <2>2. <<r, job[p].slab>> \in Object /\ <<r, job[p].slab>>[2] = job[p].slab
    BY <2>1 DEF Object
  <2> QED BY <1>1, <1>2, <2>1, <2>2 DEF Frame, DeviceTypes
<1>5. ASSUME NEW o \in Object, DeleteObject(p, o) PROVE DeviceTypes' /\ Frame(p)
  BY <1>1, <1>2, <1>5 DEF DeleteObject, Frame, DeviceTypes
<1>6. ASSUME NEW s \in Slab, UnpinSlab(p, s) PROVE DeviceTypes' /\ Frame(p)
  BY <1>1, <1>2, <1>6 DEF UnpinSlab, Frame, DeviceTypes
<1> QED BY <1>1, <1>3, <1>4, <1>5, <1>6

LEMMA AppendEntryFrame ==
  ASSUME DeviceTypes, NEW p \in Process, NEW r \in Record, NEW s \in Slab \cup {None}, AppendEntry(p, r, s)
  PROVE  /\ catalog' \in [Device -> [Record -> Slab \cup {None}]]
         /\ mem' \in [Process -> [Record -> Slab \cup {None}]]
         /\ \A q \in Process : q # p => mem'[q] = mem[q]
         /\ \A e \in Device : e # Home[p] => catalog'[e] = catalog[e]
         /\ \A t \in Record : catalog'[Home[p]][t] = IF t = r THEN s ELSE catalog[Home[p]][t]
         /\ \A t \in Record : mem'[p][t] = IF t = r THEN s ELSE mem[p][t]
BY HomeAssumption DEF DeviceTypes, AppendEntry

(* The entries a step changes. *)
LEMMA EntriesFrame ==
  ASSUME ReclaimTypes, NEW p \in Process,
         \/ \E r \in Record : RecordEntry(p, r) \/ Forget(p, r)
         \/ \E o \in Object : HydrateAppend(p, o)
  PROVE  /\ DeviceTypes' /\ Frame(p)
         /\ UNCHANGED <<ledger, pinned, objects, owner, taken, born, faults>>
         /\ \A r \in Record : RecordEntry(p, r) => AppendEntry(p, r, job[p].slab)
         /\ \A o \in Object : HydrateAppend(p, o) => AppendEntry(p, o[1], o[2]) /\ o[1] \in Record /\ o[2] \in Slab
         /\ \A r \in Record : Forget(p, r) => AppendEntry(p, r, None) \/ UNCHANGED <<catalog, mem>>
<1>1. UNCHANGED <<ledger, pinned, objects, owner, taken, born, faults>>
  BY DEF RecordEntry, Forget, HydrateAppend, history
<1>2. DeviceTypes /\ JobStage(p) /\ Home[p] \in Device
  BY HomeAssumption DEF ReclaimTypes, JobTypes
<1>3. ASSUME NEW r \in Record, RecordEntry(p, r)
      PROVE  AppendEntry(p, r, job[p].slab) /\ job[p].slab \in Slab /\ UNCHANGED <<queued, pending>>
  BY <1>2, <1>3 DEF RecordEntry, At, JobStage
<1>4. ASSUME NEW o \in Object, HydrateAppend(p, o)
      PROVE  AppendEntry(p, o[1], o[2]) /\ o[1] \in Record /\ o[2] \in Slab /\ UNCHANGED <<queued, pending>>
  BY <1>4 DEF HydrateAppend, Object
<1>5. ASSUME NEW r \in Record, Forget(p, r)
      PROVE  /\ AppendEntry(p, r, None) \/ UNCHANGED <<catalog, mem>>
             /\ queued' \in [Device -> SUBSET Record] /\ pending' \in [Process -> SUBSET Record]
  <2>1. AppendEntry(p, r, None) \/ UNCHANGED <<catalog, mem>>
    BY <1>5 DEF Forget
  <2>2. queued' = [queued EXCEPT ![Home[p]] = queued[Home[p]] \ {r}] /\ queued[Home[p]] \in SUBSET Record
    BY <1>2, <1>5 DEF Forget, DeviceTypes
  <2>3. \E left \in SUBSET Record : pending' = [pending EXCEPT ![p] = left]
    <3>1. queued[Home[p]] \ {r} \in SUBSET Record /\ pending[p] \in SUBSET Record
      BY <1>2, <2>2 DEF DeviceTypes
    <3>2. pending' = [pending EXCEPT ![p] = IF r \in queued[Home[p]] THEN queued[Home[p]] \ {r} ELSE pending[p]]
      BY <1>2, <1>5 DEF Forget, DeviceTypes
    <3> QED BY <3>1, <3>2
  <2> QED BY <1>2, <2>1, <2>2, <2>3 DEF DeviceTypes
<1>6. ASSUME NEW r \in Record, NEW s \in Slab \cup {None}, AppendEntry(p, r, s),
             queued' \in [Device -> SUBSET Record], pending' \in [Process -> SUBSET Record]
      PROVE  DeviceTypes' /\ Frame(p)
  <2>1. /\ catalog' \in [Device -> [Record -> Slab \cup {None}]]
        /\ mem' \in [Process -> [Record -> Slab \cup {None}]]
        /\ \A q \in Process : q # p => mem'[q] = mem[q]
        /\ \A e \in Device : e # Home[p] => catalog'[e] = catalog[e]
    BY <1>2, <1>6, AppendEntryFrame
  <2> QED BY <1>1, <1>2, <1>6, <2>1 DEF Frame, DeviceTypes
<1>7. ASSUME UNCHANGED <<catalog, mem>>,
             queued' \in [Device -> SUBSET Record], pending' \in [Process -> SUBSET Record]
      PROVE  DeviceTypes' /\ Frame(p)
  BY <1>1, <1>2, <1>7 DEF Frame, DeviceTypes
<1>8. queued \in [Device -> SUBSET Record] /\ pending \in [Process -> SUBSET Record] /\ None \in Slab \cup {None}
  BY <1>2 DEF DeviceTypes
<1>9. ASSUME NEW r \in Record, RecordEntry(p, r) PROVE DeviceTypes' /\ Frame(p)
  BY <1>3, <1>6, <1>8, <1>9
<1>10. ASSUME NEW o \in Object, HydrateAppend(p, o) PROVE DeviceTypes' /\ Frame(p)
  <2>1. PICK r \in Record, s \in Slab \cup {None} : r = o[1] /\ s = o[2]
    BY <1>4, <1>10
  <2> QED BY <1>4, <1>6, <1>8, <1>10, <2>1
<1>11. ASSUME NEW r \in Record, Forget(p, r) PROVE DeviceTypes' /\ Frame(p)
  BY <1>5, <1>6, <1>7, <1>8, <1>11
<1>12. /\ \A r \in Record : RecordEntry(p, r) => AppendEntry(p, r, job[p].slab)
       /\ \A o \in Object : HydrateAppend(p, o) => AppendEntry(p, o[1], o[2]) /\ o[1] \in Record /\ o[2] \in Slab
       /\ \A r \in Record : Forget(p, r) => AppendEntry(p, r, None) \/ UNCHANGED <<catalog, mem>>
  BY <1>3, <1>4, <1>5
<1> QED BY <1>1, <1>9, <1>10, <1>11, <1>12

(* What becomes of the rows of the device's ledger. *)
LEMMA LedgerFrame ==
  ASSUME ReclaimTypes, NEW p \in Process, HydrateAdopt(p) \/ ForgetSlab(p) \/ TakeOwnership(p)
  PROVE  /\ DeviceTypes' /\ Frame(p)
         /\ UNCHANGED <<queued, catalog, pinned, objects, mem, pending, owner, born, faults>>
         /\ HydrateAdopt(p) => /\ UNCHANGED taken
                               /\ \A s \in Slab : ledger'[Home[p]][s] =
                                    IF s = job[p].slab THEN Adopted(ledger[Home[p]][s]) ELSE ledger[Home[p]][s]
         /\ ForgetSlab(p) => /\ UNCHANGED taken
                             /\ \A s \in Slab : ledger'[Home[p]][s] =
                                  IF s = job[p].slab THEN "none" ELSE ledger[Home[p]][s]
         /\ TakeOwnership(p) => /\ taken' = taken \cup {s \in Slab : ledger[Home[p]][s] = "hydrated"}
                                /\ \A s \in Slab : ledger'[Home[p]][s] =
                                     IF ledger[Home[p]][s] = "none" THEN "none" ELSE "pinned"
<1>1. UNCHANGED <<queued, catalog, pinned, objects, mem, pending, owner, born, faults>>
  BY DEF HydrateAdopt, ForgetSlab, TakeOwnership, history
<1>2. PICK d \in Device : d = Home[p]
  BY HomeAssumption
<1>3. DeviceTypes /\ JobStage(p) /\ ledger \in [Device -> [Slab -> Origin]]
  BY DEF ReclaimTypes, JobTypes, DeviceTypes
<1>4. "none" \in Origin /\ "pinned" \in Origin /\ \A o : Adopted(o) \in Origin
  BY DEF Origin, Adopted
<1>5. CASE HydrateAdopt(p)
  <2>1. PICK s \in Slab : s = job[p].slab
    BY <1>3, <1>5 DEF HydrateAdopt, At, JobStage
  <2>2. ledger' = [ledger EXCEPT ![d][s] = Adopted(ledger[d][s])] /\ UNCHANGED taken
    BY <1>2, <1>3, <1>5, <2>1 DEF HydrateAdopt, history
  <2>3. /\ ledger' \in [Device -> [Slab -> Origin]] /\ \A e \in Device : e # d => ledger'[e] = ledger[e]
        /\ \A t \in Slab : ledger'[d][t] = IF t = s THEN Adopted(ledger[d][t]) ELSE ledger[d][t]
    BY <1>3, <1>4, <2>2
  <2>4. ~ForgetSlab(p) /\ ~TakeOwnership(p)
    BY <1>5 DEF HydrateAdopt, ForgetSlab, TakeOwnership, At
  <2> QED BY <1>1, <1>2, <1>3, <2>1, <2>2, <2>3, <2>4 DEF Frame, DeviceTypes
<1>6. CASE ForgetSlab(p)
  <2>1. PICK s \in Slab : s = job[p].slab
    BY <1>3, <1>6 DEF ForgetSlab, At, JobStage
  <2>2. ledger' = [ledger EXCEPT ![d][s] = "none"] /\ UNCHANGED taken
    BY <1>2, <1>3, <1>6, <2>1 DEF ForgetSlab, history
  <2>3. /\ ledger' \in [Device -> [Slab -> Origin]] /\ \A e \in Device : e # d => ledger'[e] = ledger[e]
        /\ \A t \in Slab : ledger'[d][t] = IF t = s THEN "none" ELSE ledger[d][t]
    BY <1>3, <1>4, <2>2
  <2>4. ~HydrateAdopt(p) /\ ~TakeOwnership(p)
    BY <1>6 DEF HydrateAdopt, ForgetSlab, TakeOwnership, At
  <2> QED BY <1>1, <1>2, <1>3, <2>1, <2>2, <2>3, <2>4 DEF Frame, DeviceTypes
<1>7. CASE TakeOwnership(p)
  <2>1. PICK row : row = [s \in Slab |-> IF ledger[d][s] = "none" THEN "none" ELSE "pinned"]
    OBVIOUS
  <2>2. row \in [Slab -> Origin] /\ \A s \in Slab : row[s] = IF ledger[d][s] = "none" THEN "none" ELSE "pinned"
    BY <1>4, <2>1
  <2>3. ledger' = [ledger EXCEPT ![d] = row]
    BY <1>2, <1>3, <1>7, <2>1 DEF TakeOwnership
  <2>4. ledger' \in [Device -> [Slab -> Origin]] /\ ledger'[d] = row /\ \A e \in Device : e # d => ledger'[e] = ledger[e]
    BY <1>3, <2>2, <2>3
  <2>5. taken' = taken \cup {s \in Slab : ledger[d][s] = "hydrated"}
    BY <1>2, <1>7 DEF TakeOwnership
  <2>6. ~HydrateAdopt(p) /\ ~ForgetSlab(p)
    BY <1>7 DEF HydrateAdopt, ForgetSlab, TakeOwnership, At
  <2> QED BY <1>1, <1>2, <1>3, <2>2, <2>4, <2>5, <2>6 DEF Frame, DeviceTypes
<1> QED BY <1>5, <1>6, <1>7

(* The steps, by what they change. *)
Opens(p)   == Open(p) \/ Close(p) \/ Crash(p) \/ Fails(p)
Queues(p)  == (\E r \in Record : Remember(p, r)) \/ FlushDrop(p)
Writes(p)  == FlushWrite(p) \/ RepackWrite(p)
Pins(p)    == \/ PinSlabs(p) \/ \E r \in Record : PinObject(p, r)
              \/ \E o \in Object : DeleteObject(p, o)
              \/ \E s \in Slab : UnpinSlab(p, s)
Entries(p) == \/ \E r \in Record : RecordEntry(p, r) \/ Forget(p, r)
              \/ \E o \in Object : HydrateAppend(p, o)
Ledgers(p) == HydrateAdopt(p) \/ ForgetSlab(p) \/ TakeOwnership(p)

LEMMA NextSteps ==
  ASSUME Next
  PROVE  \E p \in Process : \/ Plans(p) \/ Opens(p) \/ Queues(p) \/ Writes(p) \/ Pins(p)
                            \/ Entries(p) \/ Ledgers(p)
BY DEF Next, Plans, Opens, Queues, Writes, Pins, Entries, Ledgers

LEMMA StepFrame ==
  ASSUME ReclaimTypes, NEW p \in Process,
         Plans(p) \/ Opens(p) \/ Queues(p) \/ Writes(p) \/ Pins(p) \/ Entries(p) \/ Ledgers(p)
  PROVE  DeviceTypes' /\ Frame(p)
<1>1. DeviceTypes
  BY DEF ReclaimTypes
<1>2. CASE Plans(p)
  BY <1>1, <1>2, PlansFrame
<1>3. CASE Opens(p)
  BY <1>1, <1>3, OpensFrame DEF Opens
<1>4. CASE Queues(p)
  BY <1>1, <1>4, QueueFrame DEF Queues
<1>5. CASE Writes(p)
  BY <1>5, WritesFrame DEF Writes
<1>6. CASE Pins(p)
  BY <1>6, PinsFrame DEF Pins
<1>7. CASE Entries(p)
  BY <1>7, EntriesFrame DEF Entries
<1>8. CASE Ledgers(p)
  BY <1>8, LedgerFrame DEF Ledgers
<1> QED BY <1>2, <1>3, <1>4, <1>5, <1>6, <1>7, <1>8

LEMMA RestStage ==
  ASSUME NEW p \in Process, NEW pc \in {"idle", "closed"}, Rest(p, pc)
  PROVE  Others(p) /\ JobStage(p)'
BY DEF Rest, Row, JobStage

LEMMA StepStage ==
  ASSUME ReclaimTypes, NEW p \in Process,
         Plans(p) \/ Opens(p) \/ Queues(p) \/ Writes(p) \/ Pins(p) \/ Entries(p) \/ Ledgers(p)
  PROVE  Others(p) /\ JobStage(p)'
<1>1. JobStage(p) /\ job \in [Process -> JobRow] /\ job[p] \in JobRow
  BY DEF ReclaimTypes, JobTypes
<1>2. CASE UNCHANGED job
  BY <1>1, <1>2 DEF Others, JobStage
<1>3. CASE Opens(p) \/ FlushDrop(p) \/ Released(p) \/ HydrateAdopt(p)
  BY <1>3, FlushRows, SweepRows, RestStage DEF Opens
<1>4. CASE FlushWrite(p)
  <2>1. Len(owner) + 1 \in Slab
    BY <1>4, WritesFrame
  <2> QED BY <1>4, <2>1, FlushRows DEF Row, JobStage
<1>5. CASE RepackWrite(p)
  <2>1. Len(owner) + 1 \in Slab
    BY <1>5, WritesFrame
  <2> QED BY <1>5, <2>1, RepackRows DEF Row, JobStage
<1>6. CASE PinSlabs(p) \/ Written(p)
  BY <1>1, <1>6, FlushRows DEF PinSlabs, Written, At, OnTo, Row, JobStage
<1>7. ASSUME NEW r \in Record, PinObject(p, r) \/ RecordEntry(p, r) PROVE Others(p) /\ JobStage(p)'
  <2>1. \/ Rest(p, "idle")
        \/ Row(p, job[p].cmd, job[p].pc, job[p].recs, job[p].todo \ {r}, job[p].slab,
               job[p].objs, job[p].slabs)
    BY <1>7, FlushRows
  <2>2. ASSUME Row(p, job[p].cmd, job[p].pc, job[p].recs, job[p].todo \ {r}, job[p].slab,
                   job[p].objs, job[p].slabs)
        PROVE  Others(p) /\ JobStage(p)'
    BY <1>1, <2>2 DEF Row, JobStage
  <2> QED BY <2>1, <2>2, RestStage
<1>8. ASSUME NEW o \in Object, DeleteObject(p, o) PROVE Others(p) /\ JobStage(p)'
  BY <1>1, <1>8, SweepRows DEF Row, JobStage
<1>9. ASSUME NEW s \in Slab, UnpinSlab(p, s) PROVE Others(p) /\ JobStage(p)'
  <2>1. Row(p, job[p].cmd, "unledger", job[p].recs, job[p].todo, s, job[p].objs, job[p].slabs \ {s})
    BY <1>9, SweepRows
  <2>2. job[p].pc = "unpin"
    BY <1>9 DEF UnpinSlab, At
  <2> QED BY <1>1, <2>1, <2>2 DEF Row, JobStage
<1>10. ASSUME NEW o \in Object, HydrateAppend(p, o) PROVE Others(p) /\ JobStage(p)'
  <2>1. o[2] \in Slab
    BY DEF Object
  <2> QED BY <1>10, <2>1, SweepRows DEF Row, JobStage
<1>11. CASE SweepBegin(p) \/ SweepWalk(p) \/ Deleted(p) \/ ForgetSlab(p)
  BY <1>1, <1>11, SweepRows DEF SweepWalk, Deleted, ForgetSlab, At, OnTo, Row, JobStage
<1>12. CASE OrphansBegin(p) \/ DropUnreadable(p) \/ RepackBegin(p)
  BY <1>12, RepackRows DEF Row, JobStage
<1>13. CASE OrphansWalk(p)
  <2>1. CASE Rest(p, "idle")
    BY <2>1, RestStage
  <2>2. ASSUME NEW slabs, Row(p, job[p].cmd, "unpin", job[p].recs, job[p].todo, job[p].slab, job[p].objs, slabs)
        PROVE  Others(p) /\ JobStage(p)'
    BY <1>1, <1>13, <2>2 DEF OrphansWalk, At, Row, JobStage
  <2> QED BY <1>13, <2>1, <2>2, RepackRows
<1>14. CASE RepackRetire(p)
  BY <1>1, <1>14, RepackRows DEF RepackRetire, At, OnTo, Row, JobStage
<1>15. ASSUME NEW r \in Record, RepackRead(p, r) PROVE Others(p) /\ JobStage(p)'
  <2>1. \/ Rest(p, "idle")
        \/ Row(p, job[p].cmd, job[p].pc, job[p].recs, job[p].todo \ {r}, job[p].slab,
               job[p].objs, job[p].slabs)
    BY <1>15, RepackRows
  <2>2. ASSUME Row(p, job[p].cmd, job[p].pc, job[p].recs, job[p].todo \ {r}, job[p].slab,
                   job[p].objs, job[p].slabs)
        PROVE  Others(p) /\ JobStage(p)'
    BY <1>1, <2>2 DEF Row, JobStage
  <2> QED BY <2>1, <2>2, RestStage
<1>16. ASSUME NEW r \in Record, Remember(p, r) \/ Forget(p, r) PROVE UNCHANGED job
  BY <1>16 DEF Remember, Forget
<1>17. TakeOwnership(p) => UNCHANGED job
  BY DEF TakeOwnership
<1> QED BY <1>2, <1>3, <1>4, <1>5, <1>6, <1>7, <1>8, <1>9, <1>10, <1>11, <1>12, <1>13, <1>14, <1>15,
           <1>16, <1>17 DEF Plans, Queues, Writes, Pins, Entries, Ledgers

LEMMA InitTypes == Init => ReclaimTypes
<1> SUFFICES ASSUME Init PROVE ReclaimTypes
  OBVIOUS
<1>1. DeviceTypes
  BY BoundAssumption DEF Init, DeviceTypes, Origin
<1>2. JobTypes
  BY RestIsTyped DEF Init, JobTypes, JobStage
<1> QED BY <1>1, <1>2 DEF ReclaimTypes

LEMMA NextTypes == ReclaimTypes /\ [Next]_vars => ReclaimTypes'
<1> SUFFICES ASSUME ReclaimTypes, [Next]_vars PROVE ReclaimTypes'
  OBVIOUS
<1>1. CASE UNCHANGED vars
  BY <1>1 DEF vars, history, ReclaimTypes, DeviceTypes, JobTypes, JobStage
<1>2. ASSUME NEW p \in Process,
             Plans(p) \/ Opens(p) \/ Queues(p) \/ Writes(p) \/ Pins(p) \/ Entries(p) \/ Ledgers(p)
      PROVE  ReclaimTypes'
  <2>1. DeviceTypes' /\ Others(p) /\ JobStage(p)'
    BY <1>2, StepFrame, StepStage
  <2>2. \A q \in Process : q # p => JobStage(q)'
    BY <2>1 DEF Others, JobStage, ReclaimTypes, JobTypes
  <2> QED BY <2>1, <2>2 DEF ReclaimTypes, JobTypes, Others
<1> QED BY <1>1, <1>2, NextSteps

(***************************************************************************)
(* Every variable keeps its type, and no operation has more left to do     *)
(* than it set out to, whatever commands, faults and deaths interleave.    *)
(***************************************************************************)
THEOREM ReclaimTypeCorrect == Spec => []TypeOK
<1>1. ReclaimTypes => TypeOK
  BY DEF ReclaimTypes, DeviceTypes, JobTypes, JobRow, JobStage, TypeOK
<1> QED BY <1>1, InitTypes, NextTypes, PTL DEF Spec

-----------------------------------------------------------------------------
(* The ledgers, when no device has two processes.                          *)

OnePerDevice == \A p, q \in Process : Home[p] = Home[q] => p = q

Known == 1..Len(owner)
Writing(p) == job[p].pc \in {"pinslab", "pinobj", "catalog"}

(* The slab a process writes, adopts or has just released. *)
JobLedger(p) ==
  /\ Writing(p) => job[p].slab \in Known /\ owner[job[p].slab] = Home[p]
  /\ At(p, "pinslab") => /\ job[p].slab \notin pinned /\ ledger[Home[p]][job[p].slab] = "pinned"
                         /\ \A o \in objects : o[2] # job[p].slab
  /\ At(p, "adopt") => job[p].slab \in Known
  /\ At(p, "unledger") => /\ job[p].slab \in Known
                          /\ owner[job[p].slab] = Home[p] => job[p].slab \notin pinned
  /\ \A s \in job[p].slabs : s \in Known

(* A ledger has as pinned what its device uploaded or took over. *)
Entitled(d) ==
  /\ \A s \in Slab : /\ ledger[d][s] # "none" => s \in Known
                     /\ ledger[d][s] = "pinned" => s \in taken \/ owner[s] = d
  /\ \A r \in Record : catalog[d][r] # None => catalog[d][r] \in Known

LedgerInv ==
  /\ pinned \subseteq Known /\ taken \subseteq Known /\ \A o \in objects : o[2] \in Known
  /\ \A d \in Device : Entitled(d)
  /\ BilledIsFindable
  /\ \A p \in Process : JobLedger(p)

LEMMA KnownGrows ==
  ASSUME ReclaimTypes, NEW p \in Process, Frame(p)
  PROVE  /\ Known \subseteq Slab /\ Len(owner) + 1 \notin Known
         /\ \A s \in Known : s \in Known' /\ owner'[s] = owner[s] /\ owner[s] \in Device
         /\ owner' = Append(owner, Home[p]) =>
              /\ Len(owner) + 1 \in Known' /\ owner'[Len(owner) + 1] = Home[p]
              /\ \A s \in Known' : s \in Known \/ s = Len(owner) + 1
<1>1. owner \in Seq(Device) /\ Len(owner) \in Nat /\ Len(owner) <= MaxSlab /\ Home[p] \in Device /\ MaxSlab \in Nat
  BY HomeAssumption, BoundAssumption DEF ReclaimTypes, DeviceTypes
<1>2. Known \subseteq Slab /\ Len(owner) + 1 \notin Known
  BY <1>1 DEF Known, Slab
<1>3. \A s \in Known : s \in Known' /\ owner'[s] = owner[s] /\ owner[s] \in Device
  <2>1. CASE owner' = owner
    BY <1>1, <2>1 DEF Known
  <2>2. CASE owner' = Append(owner, Home[p])
    BY <1>1, <2>2 DEF Known
  <2> QED BY <2>1, <2>2 DEF Frame
<1>4. owner' = Append(owner, Home[p]) =>
        /\ Len(owner) + 1 \in Known' /\ owner'[Len(owner) + 1] = Home[p]
        /\ \A s \in Known' : s \in Known \/ s = Len(owner) + 1
  BY <1>1 DEF Known
<1> QED BY <1>2, <1>3, <1>4

LEMMA OthersLedger ==
  ASSUME OnePerDevice, ReclaimTypes, LedgerInv, NEW p \in Process, Others(p), Frame(p),
         NEW q \in Process, q # p
  PROVE  JobLedger(q)'
<1>1. job'[q] = job[q] /\ JobLedger(q) /\ JobLedger(p) /\ Home[q] # Home[p] /\ Home[q] \in Device
  BY HomeAssumption DEF Others, OnePerDevice, LedgerInv
<1>2. ledger'[Home[q]] = ledger[Home[q]]
  BY <1>1 DEF Frame
<1>3. \A s \in Known : s \in Known' /\ owner'[s] = owner[s]
  BY KnownGrows
<1>4. ASSUME NEW s \in Known, owner[s] = Home[q]
      PROVE  (s \notin pinned => s \notin pinned') /\ \A o \in objects' : o[2] = s => o \in objects
  <2>1. Writing(p) => job[p].slab # s
    BY <1>1, <1>4 DEF JobLedger
  <2> QED BY <2>1 DEF Frame, At, Writing
<1>5. Writing(q) => job[q].slab \in Known /\ owner[job[q].slab] = Home[q]
  BY <1>1 DEF JobLedger
<1>6. At(q, "pinslab") => Writing(q)
  BY DEF At, Writing
<1>7. At(q, "pinslab") => /\ job[q].slab \notin pinned' /\ ledger'[Home[q]][job[q].slab] = "pinned"
                          /\ \A o \in objects' : o[2] # job[q].slab
  BY <1>1, <1>2, <1>4, <1>5, <1>6 DEF JobLedger
<1>8. At(q, "unledger") => /\ job[q].slab \in Known'
                           /\ owner'[job[q].slab] = Home[q] => job[q].slab \notin pinned'
  BY <1>1, <1>3, <1>4 DEF JobLedger
<1>9. /\ Writing(q) => job[q].slab \in Known' /\ owner'[job[q].slab] = Home[q]
      /\ At(q, "adopt") => job[q].slab \in Known'
      /\ \A s \in job[q].slabs : s \in Known'
  BY <1>1, <1>3, <1>5 DEF JobLedger
<1> QED BY <1>1, <1>7, <1>8, <1>9 DEF JobLedger, At, Writing

LEMMA LedgerStep ==
  ASSUME OnePerDevice, ReclaimTypes, ReclaimTypes', LedgerInv, NEW p \in Process, Others(p), Frame(p),
         JobLedger(p)', Entitled(Home[p])', taken' \subseteq Known',
         \A s \in pinned' : s \in Known /\ owner[s] = Home[p] => ledger'[Home[p]][s] = "pinned"
  PROVE  LedgerInv'
<1>1. \A s \in Known : s \in Known' /\ owner'[s] = owner[s] /\ owner[s] \in Device
  BY KnownGrows
<1>2. Writing(p) => job[p].slab \in Known /\ owner[job[p].slab] = Home[p]
  BY DEF LedgerInv, JobLedger
<1>3. \A s \in pinned' : s \in Known /\ (s \in pinned \/ owner[s] = Home[p])
  BY <1>2 DEF Frame, LedgerInv, At, Writing
<1>4. \A o \in objects' : o[2] \in Known'
  BY <1>1, <1>2 DEF Frame, LedgerInv, At, Writing
<1>5. ASSUME NEW d \in Device PROVE Entitled(d)'
  <2>1. CASE d = Home[p]
    BY <2>1
  <2>2. CASE d # Home[p]
    <3>1. ledger'[d] = ledger[d] /\ catalog'[d] = catalog[d] /\ taken \subseteq taken' /\ Entitled(d)
      BY <2>2 DEF Frame, LedgerInv
    <3> QED BY <1>1, <3>1 DEF Entitled
  <2> QED BY <2>1, <2>2
<1>6. BilledIsFindable'
  <2> SUFFICES ASSUME NEW s \in pinned' PROVE ledger'[owner'[s]][s] = "pinned"
    BY DEF BilledIsFindable
  <2>1. s \in Known /\ owner'[s] = owner[s] /\ owner[s] \in Device
    BY <1>1, <1>3
  <2>2. CASE owner[s] = Home[p]
    BY <2>1, <2>2
  <2>3. CASE owner[s] # Home[p]
    BY <1>3, <2>1, <2>3 DEF Frame, LedgerInv, BilledIsFindable
  <2> QED BY <2>2, <2>3
<1>7. \A q \in Process : JobLedger(q)'
  BY OthersLedger
<1> QED BY <1>1, <1>3, <1>4, <1>5, <1>6, <1>7 DEF LedgerInv

LEMMA LedgerStay ==
  ASSUME OnePerDevice, ReclaimTypes, ReclaimTypes', LedgerInv, NEW p \in Process, Others(p), Frame(p),
         JobLedger(p)', UNCHANGED <<ledger, catalog, taken, owner>>
  PROVE  LedgerInv'
<1>1. Home[p] \in Device
  BY HomeAssumption
<1>2. Entitled(Home[p])' /\ taken' \subseteq Known'
  BY <1>1 DEF LedgerInv, Entitled, Known
<1>3. \A s \in pinned' : s \in Known /\ owner[s] = Home[p] => ledger'[Home[p]][s] = "pinned"
  BY DEF Frame, LedgerInv, BilledIsFindable, JobLedger
<1> QED BY <1>2, <1>3, LedgerStep

LEMMA PlainLedger ==
  ASSUME ReclaimTypes, LedgerInv, NEW p \in Process, Frame(p),
         job'[p].pc \notin {"pinslab", "adopt", "unledger"},
         job'[p].pc \in {"pinobj", "catalog"} => Writing(p) /\ job'[p].slab = job[p].slab,
         \A s \in job'[p].slabs : s \in Known
  PROVE  JobLedger(p)'
<1>1. \A s \in Known : s \in Known' /\ owner'[s] = owner[s]
  BY KnownGrows
<1>2. JobLedger(p)
  BY DEF LedgerInv
<1> QED BY <1>1, <1>2 DEF JobLedger, Writing, At

LEMMA PlansLedger ==
  ASSUME OnePerDevice, ReclaimTypes, ReclaimTypes', LedgerInv, NEW p \in Process, Plans(p)
  PROVE  LedgerInv'
<1>1. Others(p) /\ Frame(p) /\ UNCHANGED <<ledger, catalog, taken, owner>>
  BY StepFrame, StepStage, PlansFrame DEF ReclaimTypes, shared
<1>2. JobLedger(p) /\ Entitled(Home[p]) /\ pinned \subseteq Known
  BY HomeAssumption DEF LedgerInv
<1>3. Releasable(Home[p]) \subseteq Known
  BY <1>2 DEF Entitled, Releasable
<1>4. \A s \in job'[p].slabs : s \in Known
  <2>1. CASE Written(p) \/ Deleted(p) \/ Released(p) \/ RepackRetire(p) \/ \E r \in Record : RepackRead(p, r)
    BY <1>2, <2>1, FlushRows, SweepRows, RepackRows DEF OnTo, Rest, Row, JobLedger
  <2>2. CASE SweepBegin(p) \/ SweepWalk(p)
    BY <1>2, <1>3, <2>2, SweepRows DEF Row, JobLedger, ReleasableSlabs
  <2>3. CASE OrphansBegin(p) \/ DropUnreadable(p)
    BY <1>2, <2>3, RepackRows DEF Row
  <2>4. CASE OrphansWalk(p)
    BY <1>2, <2>4, RepackRows DEF Row, Rest, JobLedger
  <2>5. CASE RepackBegin(p)
    BY <1>3, <2>5, RepackRows DEF RepackBegin, Row
  <2> QED BY <2>1, <2>2, <2>3, <2>4, <2>5 DEF Plans
<1>5. /\ job'[p].pc \notin {"pinslab", "adopt", "unledger"}
      /\ job'[p].pc \in {"pinobj", "catalog"} => Writing(p) /\ job'[p].slab = job[p].slab
  <2>1. CASE Written(p)
    BY <2>1, FlushRows DEF Row, Written, At, Writing
  <2>2. CASE SweepBegin(p) \/ SweepWalk(p) \/ Deleted(p) \/ Released(p)
    BY <2>2, SweepRows DEF OnTo, Rest, Row
  <2>3. CASE OrphansBegin(p) \/ OrphansWalk(p) \/ DropUnreadable(p) \/ RepackBegin(p) \/ RepackRetire(p)
    BY <2>3, RepackRows DEF OnTo, Rest, Row
  <2>4. CASE \E r \in Record : RepackRead(p, r)
    BY <2>4, RepackRows DEF RepackRead, At, Rest, Row
  <2> QED BY <2>1, <2>2, <2>3, <2>4 DEF Plans
<1>6. JobLedger(p)'
  BY <1>1, <1>4, <1>5, PlainLedger
<1> QED BY <1>1, <1>6, LedgerStay

LEMMA RestLedger ==
  ASSUME OnePerDevice, ReclaimTypes, ReclaimTypes', LedgerInv, NEW p \in Process, Opens(p) \/ Queues(p)
  PROVE  LedgerInv'
<1>1. Others(p) /\ Frame(p) /\ UNCHANGED <<ledger, catalog, taken, owner, pinned, objects>>
  BY StepFrame, StepStage, OpensFrame, QueueFrame DEF ReclaimTypes, Opens, Queues
<1>2. Rest(p, "idle") \/ Rest(p, "closed") \/ UNCHANGED job
  BY FlushRows DEF Opens, Queues, Remember
<1>3. CASE UNCHANGED job
  <2>1. JobLedger(p)'
    BY <1>1, <1>3 DEF LedgerInv, JobLedger, Writing, At, Known
  <2> QED BY <1>1, <2>1, LedgerStay
<1>4. CASE Rest(p, "idle") \/ Rest(p, "closed")
  <2>1. job'[p].pc \in {"idle", "closed"} /\ job'[p].slabs = {}
    BY <1>4 DEF Rest, Row
  <2>2. JobLedger(p)'
    BY <1>1, <2>1, PlainLedger
  <2> QED BY <1>1, <2>2, LedgerStay
<1> QED BY <1>2, <1>3, <1>4

LEMMA WritesLedger ==
  ASSUME OnePerDevice, ReclaimTypes, ReclaimTypes', LedgerInv, NEW p \in Process, Writes(p)
  PROVE  LedgerInv'
<1>1. /\ Others(p) /\ Frame(p) /\ UNCHANGED <<catalog, pinned, objects, taken>>
      /\ owner' = Append(owner, Home[p]) /\ Len(owner) + 1 \in Slab
      /\ ledger'[Home[p]] = [ledger[Home[p]] EXCEPT ![Len(owner) + 1] = "pinned"]
  BY StepFrame, StepStage, WritesFrame DEF Writes
<1>2. /\ \A s \in Known : s \in Known' /\ owner'[s] = owner[s]
      /\ Len(owner) + 1 \in Known' /\ owner'[Len(owner) + 1] = Home[p] /\ Len(owner) + 1 \notin Known
  BY <1>1, KnownGrows
<1>3. JobLedger(p) /\ Entitled(Home[p]) /\ pinned \subseteq Known /\ \A o \in objects : o[2] \in Known
  BY HomeAssumption DEF LedgerInv
<1>4. ledger[Home[p]] \in [Slab -> Origin]
  BY HomeAssumption DEF ReclaimTypes, DeviceTypes
<1>5. \A s \in Slab : ledger'[Home[p]][s] = IF s = Len(owner) + 1 THEN "pinned" ELSE ledger[Home[p]][s]
  BY <1>1, <1>4
<1>6. Entitled(Home[p])'
  BY <1>1, <1>2, <1>3, <1>5 DEF Entitled
<1>7. job'[p].pc = "pinslab" /\ job'[p].slab = Len(owner) + 1 /\ \A s \in job'[p].slabs : s \in Known
  BY <1>3, FlushRows, RepackRows DEF Writes, Row, JobLedger
<1>8. JobLedger(p)'
  BY <1>1, <1>2, <1>3, <1>5, <1>7 DEF JobLedger, Writing, At
<1>9. \A s \in pinned' : s \in Known /\ owner[s] = Home[p] => ledger'[Home[p]][s] = "pinned"
  <2>1. \A s \in pinned : owner[s] = Home[p] => ledger[Home[p]][s] = "pinned"
    BY DEF LedgerInv, BilledIsFindable
  <2>2. pinned \subseteq Slab
    BY DEF ReclaimTypes, DeviceTypes
  <2> QED BY <1>1, <1>5, <2>1, <2>2
<1>10. taken' \subseteq Known'
  BY <1>1, <1>2 DEF LedgerInv
<1> QED BY <1>1, <1>6, <1>8, <1>9, <1>10, LedgerStep

LEMMA PinsLedger ==
  ASSUME OnePerDevice, ReclaimTypes, ReclaimTypes', LedgerInv, NEW p \in Process, Pins(p)
  PROVE  LedgerInv'
<1>1. Others(p) /\ Frame(p) /\ UNCHANGED <<ledger, catalog, taken, owner>>
  BY StepFrame, StepStage, PinsFrame DEF Pins
<1>2. JobLedger(p)
  BY DEF LedgerInv
<1>3. JobLedger(p)'
  <2>1. CASE PinSlabs(p)
    BY <1>1, <1>2, <2>1, FlushRows, PlainLedger DEF PinSlabs, At, OnTo, Row, Writing, JobLedger
  <2>2. ASSUME NEW r \in Record, PinObject(p, r) PROVE JobLedger(p)'
    <3>1. At(p, "pinobj") /\ Writing(p)
      BY <2>2 DEF PinObject, At, Writing
    <3>2. \/ job'[p].pc = "idle" /\ job'[p].slabs = {}
          \/ job'[p].pc = "pinobj" /\ job'[p].slab = job[p].slab /\ job'[p].slabs = job[p].slabs
      BY <2>2, <3>1, FlushRows DEF Rest, Row, At
    <3> QED BY <1>1, <1>2, <3>1, <3>2, PlainLedger DEF JobLedger
  <2>3. ASSUME NEW o \in Object, DeleteObject(p, o) PROVE JobLedger(p)'
    <3>1. job'[p].pc = "delete" /\ job'[p].slabs = job[p].slabs
      BY <2>3, SweepRows DEF DeleteObject, At, Row
    <3> QED BY <1>1, <1>2, <3>1, PlainLedger DEF JobLedger
  <2>4. ASSUME NEW s \in Slab, UnpinSlab(p, s) PROVE JobLedger(p)'
    <3>1. job'[p].pc = "unledger" /\ job'[p].slab = s /\ job'[p].slabs \subseteq job[p].slabs
      BY <2>4, SweepRows DEF Row
    <3>2. s \in Known /\ s \notin pinned' /\ \A t \in job'[p].slabs : t \in Known
      BY <1>2, <2>4, <3>1 DEF UnpinSlab, JobLedger
    <3>3. Known' = Known
      BY <1>1 DEF Known
    <3> QED BY <3>1, <3>2, <3>3 DEF JobLedger, Writing, At
  <2> QED BY <2>1, <2>2, <2>3, <2>4 DEF Pins
<1> QED BY <1>1, <1>3, LedgerStay

LEMMA EntriesLedger ==
  ASSUME OnePerDevice, ReclaimTypes, ReclaimTypes', LedgerInv, NEW p \in Process, Entries(p)
  PROVE  LedgerInv'
<1>1. Others(p) /\ Frame(p) /\ UNCHANGED <<ledger, pinned, objects, owner, taken>>
  BY StepFrame, StepStage, EntriesFrame DEF Entries
<1>2. JobLedger(p) /\ Entitled(Home[p]) /\ pinned \subseteq Known /\ Known' = Known /\ DeviceTypes /\ Home[p] \in Device
  BY <1>1, HomeAssumption DEF LedgerInv, Known, ReclaimTypes
<1>3. ASSUME NEW r \in Record, NEW s \in Slab \cup {None}, AppendEntry(p, r, s), s # None => s \in Known
      PROVE  Entitled(Home[p])'
  <2>1. \A t \in Record : catalog'[Home[p]][t] = IF t = r THEN s ELSE catalog[Home[p]][t]
    BY <1>2, <1>3, AppendEntryFrame
  <2> QED BY <1>1, <1>2, <1>3, <2>1 DEF Entitled
<1>4. JobLedger(p)' /\ Entitled(Home[p])'
  <2>1. ASSUME NEW r \in Record, RecordEntry(p, r) PROVE JobLedger(p)' /\ Entitled(Home[p])'
    <3>1. At(p, "catalog") /\ Writing(p) /\ AppendEntry(p, r, job[p].slab) /\ job[p].slab \in Known /\ Known \subseteq Slab
      BY <1>1, <1>2, <2>1, KnownGrows DEF RecordEntry, At, Writing, JobLedger
    <3>2. job'[p].pc = "catalog" /\ job'[p].slab = job[p].slab /\ job'[p].slabs = job[p].slabs
      BY <2>1, <3>1, FlushRows DEF Row, At
    <3>3. JobLedger(p)'
      BY <1>1, <1>2, <3>1, <3>2, PlainLedger DEF JobLedger
    <3> QED BY <1>3, <3>1, <3>3
  <2>2. ASSUME NEW r \in Record, Forget(p, r) PROVE JobLedger(p)' /\ Entitled(Home[p])'
    <3>1. UNCHANGED job /\ (AppendEntry(p, r, None) \/ UNCHANGED <<catalog, mem>>)
      BY <2>2, EntriesFrame DEF Forget, Entries
    <3>2. JobLedger(p)'
      BY <1>1, <1>2, <3>1 DEF JobLedger, Writing, At
    <3>3. UNCHANGED catalog => Entitled(Home[p])'
      BY <1>1, <1>2 DEF Entitled
    <3> QED BY <1>3, <3>1, <3>2, <3>3
  <2>3. ASSUME NEW o \in Object, HydrateAppend(p, o) PROVE JobLedger(p)' /\ Entitled(Home[p])'
    <3>1. PICK r \in Record, s \in Slab : r = o[1] /\ s = o[2]
      BY DEF Object
    <3>2. AppendEntry(p, r, s) /\ s \in Known
      BY <1>2, <2>3, <3>1 DEF HydrateAppend, Readable
    <3>3. job'[p].pc = "adopt" /\ job'[p].slab = s /\ job'[p].slabs = {}
      BY <2>3, <3>1, SweepRows DEF Row
    <3>4. JobLedger(p)'
      BY <1>2, <3>2, <3>3 DEF JobLedger, Writing, At
    <3> QED BY <1>3, <3>2, <3>4
  <2> QED BY <2>1, <2>2, <2>3 DEF Entries
<1>5. \A s \in pinned' : s \in Known /\ owner[s] = Home[p] => ledger'[Home[p]][s] = "pinned"
  BY <1>1 DEF LedgerInv, BilledIsFindable
<1>6. taken' \subseteq Known'
  BY <1>1, <1>2 DEF LedgerInv
<1> QED BY <1>1, <1>4, <1>5, <1>6, LedgerStep

LEMMA LedgersLedger ==
  ASSUME OnePerDevice, ReclaimTypes, ReclaimTypes', LedgerInv, NEW p \in Process, Ledgers(p)
  PROVE  LedgerInv'
<1>1. Others(p) /\ Frame(p) /\ UNCHANGED <<catalog, pinned, objects, owner>>
  BY StepFrame, StepStage, LedgerFrame DEF Ledgers
<1>2. /\ JobLedger(p) /\ Entitled(Home[p]) /\ pinned \subseteq Known /\ taken \subseteq Known /\ Known' = Known
      /\ Known \subseteq Slab /\ Home[p] \in Device
  BY <1>1, HomeAssumption, KnownGrows DEF LedgerInv, Known
<1>3. \A s \in pinned : owner[s] = Home[p] => ledger[Home[p]][s] = "pinned"
  BY DEF LedgerInv, BilledIsFindable
<1>4. \A s \in Slab : ledger[Home[p]][s] \in {"none", "hydrated", "pinned"}
  BY <1>2 DEF ReclaimTypes, DeviceTypes, Origin
<1>5. CASE HydrateAdopt(p)
  <2>1. At(p, "adopt") /\ UNCHANGED taken /\ \A s \in Slab : ledger'[Home[p]][s] =
          IF s = job[p].slab THEN Adopted(ledger[Home[p]][s]) ELSE ledger[Home[p]][s]
    BY <1>5, LedgerFrame DEF HydrateAdopt
  <2>2. Entitled(Home[p])'
    BY <1>1, <1>2, <2>1 DEF Entitled, Adopted, JobLedger
  <2>3. \A s \in pinned' : s \in Known /\ owner[s] = Home[p] => ledger'[Home[p]][s] = "pinned"
    BY <1>1, <1>2, <1>3, <2>1 DEF Adopted
  <2>4. job'[p].pc = "idle" /\ job'[p].slabs = {}
    BY <1>5, SweepRows DEF Rest, Row
  <2>5. JobLedger(p)' /\ taken' \subseteq Known'
    BY <1>1, <1>2, <2>1, <2>4, PlainLedger
  <2> QED BY <1>1, <2>2, <2>3, <2>5, LedgerStep
<1>6. CASE ForgetSlab(p)
  <2>1. At(p, "unledger") /\ UNCHANGED taken /\ \A s \in Slab : ledger'[Home[p]][s] =
          IF s = job[p].slab THEN "none" ELSE ledger[Home[p]][s]
    BY <1>6, LedgerFrame DEF ForgetSlab
  <2>2. Entitled(Home[p])'
    BY <1>1, <1>2, <2>1 DEF Entitled
  <2>3. \A s \in pinned' : s \in Known /\ owner[s] = Home[p] => ledger'[Home[p]][s] = "pinned"
    BY <1>1, <1>2, <1>3, <2>1 DEF JobLedger
  <2>4. job'[p].pc = "unpin" /\ job'[p].slabs = job[p].slabs
    BY <1>6, SweepRows DEF OnTo, Row
  <2>5. JobLedger(p)' /\ taken' \subseteq Known'
    BY <1>1, <1>2, <2>1, <2>4, PlainLedger DEF JobLedger
  <2> QED BY <1>1, <2>2, <2>3, <2>5, LedgerStep
<1>7. CASE TakeOwnership(p)
  <2>1. /\ taken' = taken \cup {s \in Slab : ledger[Home[p]][s] = "hydrated"}
        /\ \A s \in Slab : ledger'[Home[p]][s] = IF ledger[Home[p]][s] = "none" THEN "none" ELSE "pinned"
        /\ UNCHANGED job
    BY <1>7, LedgerFrame DEF TakeOwnership
  <2>2. Entitled(Home[p])'
    BY <1>1, <1>2, <1>4, <2>1 DEF Entitled
  <2>3. \A s \in pinned' : s \in Known /\ owner[s] = Home[p] => ledger'[Home[p]][s] = "pinned"
    BY <1>1, <1>2, <1>3, <2>1
  <2>4. taken' \subseteq Known'
    BY <1>2, <2>1 DEF Entitled
  <2>5. At(p, "idle")
    BY <1>7 DEF TakeOwnership
  <2>6. JobLedger(p)'
    BY <1>1, <1>2, <2>1, <2>5 DEF JobLedger, Writing, At
  <2> QED BY <1>1, <2>2, <2>3, <2>4, <2>6, LedgerStep
<1> QED BY <1>5, <1>6, <1>7 DEF Ledgers

LEMMA InitLedger == Init => LedgerInv
<1> SUFFICES ASSUME Init PROVE LedgerInv
  OBVIOUS
<1>1. \A d \in Device : Entitled(d)
  BY DEF Init, Entitled
<1>2. \A p \in Process : JobLedger(p)
  BY RestIsTyped DEF Init, JobLedger, Writing, At
<1> QED BY <1>1, <1>2 DEF Init, LedgerInv, BilledIsFindable

LEMMA NextLedger ==
  ASSUME OnePerDevice
  PROVE  ReclaimTypes /\ ReclaimTypes' /\ LedgerInv /\ [Next]_vars => LedgerInv'
<1> SUFFICES ASSUME ReclaimTypes, ReclaimTypes', LedgerInv, [Next]_vars PROVE LedgerInv'
  OBVIOUS
<1>1. CASE UNCHANGED vars
  BY <1>1 DEF vars, LedgerInv, Entitled, BilledIsFindable, JobLedger, Known, Writing, At
<1> QED BY <1>1, NextSteps, PlansLedger, RestLedger, WritesLedger, PinsLedger, EntriesLedger, LedgersLedger

(***************************************************************************)
(* Storage that is billed can be found again: as long as no device has two *)
(* processes at it, a pinned slab is in the ledger of the device that      *)
(* uploaded it, wherever a flush, a sweep, a release of orphans or a       *)
(* repack stopped, and whatever the other devices do to the account.       *)
(***************************************************************************)
THEOREM BilledIsAlwaysFindable == OnePerDevice => (Spec => []BilledIsFindable)
<1> SUFFICES ASSUME OnePerDevice PROVE Spec => []BilledIsFindable
  OBVIOUS
<1>1. Init => ReclaimTypes /\ LedgerInv
  BY InitTypes, InitLedger
<1>2. ReclaimTypes /\ LedgerInv /\ [Next]_vars => (ReclaimTypes /\ LedgerInv)'
  BY NextTypes, NextLedger
<1>3. LedgerInv => BilledIsFindable
  BY DEF LedgerInv
<1> QED BY <1>1, <1>2, <1>3, PTL DEF Spec

-----------------------------------------------------------------------------
(* What a sweep has left to release, when no device has two processes.     *)

Copy(p) == ~At(p, "closed") => mem[p] = catalog[Home[p]]

Sweeping(p) ==
  job[p].cmd = "sweep" =>
    /\ At(p, "walk") => job[p].slabs = Releasable(Home[p])
    /\ ~At(p, "walk") => \A s \in Releasable(Home[p]) :
         \/ s \in job[p].slabs
         \/ At(p, "unledger") /\ s = job[p].slab
         \/ \E r \in Record : catalog[Home[p]][r] = s

SweepInv == \A p \in Process : Copy(p) /\ Sweeping(p)

LEMMA SweepStep ==
  ASSUME OnePerDevice, ReclaimTypes, SweepInv, NEW p \in Process, Others(p), Frame(p),
         Copy(p)', Sweeping(p)'
  PROVE  SweepInv'
<1> SUFFICES ASSUME NEW q \in Process, q # p PROVE Copy(q)' /\ Sweeping(q)'
  BY DEF SweepInv
<1>1. job'[q] = job[q] /\ mem'[q] = mem[q] /\ Home[q] # Home[p] /\ Home[q] \in Device
  BY HomeAssumption DEF Others, Frame, OnePerDevice
<1>2. ledger'[Home[q]] = ledger[Home[q]] /\ catalog'[Home[q]] = catalog[Home[q]]
  BY <1>1 DEF Frame
<1>3. Releasable(Home[q])' = Releasable(Home[q])
  BY <1>2 DEF Releasable
<1>4. Copy(q) /\ Sweeping(q)
  BY DEF SweepInv
<1> QED BY <1>1, <1>2, <1>3, <1>4 DEF Copy, Sweeping, At

(* A step of an operation that is no sweep, and that reads the catalog at most. *)
LEMMA AwaySweep ==
  ASSUME OnePerDevice, ReclaimTypes, SweepInv, NEW p \in Process, Others(p), Frame(p),
         job'[p].cmd # "sweep", ~At(p, "closed") \/ job'[p].pc = "closed",
         mem'[p] = mem[p] \/ job'[p].pc = "closed", catalog'[Home[p]] = catalog[Home[p]]
  PROVE  SweepInv'
<1>1. Copy(p)' /\ Sweeping(p)'
  BY DEF SweepInv, Copy, Sweeping, At
<1> QED BY <1>1, SweepStep

LEMMA PlansSweep ==
  ASSUME OnePerDevice, ReclaimTypes, ReclaimTypes', SweepInv, NEW p \in Process, Plans(p)
  PROVE  SweepInv'
<1>1. Others(p) /\ Frame(p) /\ UNCHANGED <<ledger, catalog, mem>>
  BY StepFrame, StepStage, PlansFrame DEF ReclaimTypes, shared
<1>2. ~At(p, "closed") /\ JobStage(p) /\ JobStage(p)' /\ job[p] \in JobRow
  BY DEF Plans, Written, SweepBegin, SweepWalk, Deleted, Released, OrphansBegin, OrphansWalk,
         DropUnreadable, RepackBegin, RepackRetire, RepackRead, At, ReclaimTypes, JobTypes
<1>3. Copy(p)' /\ Copy(p) /\ Sweeping(p)
  BY <1>1, <1>2 DEF SweepInv, Copy
<1>4. Releasable(Home[p])' = Releasable(Home[p])
  BY <1>1 DEF Releasable
<1>5. Sweeping(p)'
  <2>1. CASE SweepBegin(p)
    BY <1>4, <2>1, SweepRows DEF Row, Sweeping, At
  <2>2. CASE SweepWalk(p)
    <3>1. At(p, "walk") /\ job[p].cmd = "sweep" /\ job[p].slabs = Releasable(Home[p])
      BY <1>2, <1>3, <2>2 DEF SweepWalk, At, JobStage, Sweeping
    <3>2. job'[p].pc = "delete" /\ job'[p].slabs = job[p].slabs \ LiveSlabs(p)
      BY <2>2, SweepRows DEF Row, ReleasableSlabs
    <3>3. ASSUME NEW s \in LiveSlabs(p) PROVE \E r \in Record : catalog[Home[p]][r] = s
      <4>1. PICK o \in Object : mem[p][o[1]] = o[2] /\ s = o[2]
        BY <3>3 DEF LiveSlabs, LiveObjects
      <4>2. o[1] \in Record
        BY DEF Object
      <4> QED BY <1>2, <1>3, <4>1, <4>2 DEF Copy
    <3>4. \A s \in Releasable(Home[p]) : s \in job'[p].slabs \/ \E r \in Record : catalog[Home[p]][r] = s
      BY <3>1, <3>2, <3>3
    <3> QED BY <1>1, <1>4, <3>2, <3>4 DEF Sweeping, At
  <2>3. CASE Deleted(p)
    BY <1>1, <1>3, <1>4, <2>3, SweepRows DEF Deleted, OnTo, Row, Sweeping, At
  <2>4. CASE job'[p].cmd # "sweep"
    BY <2>4 DEF Sweeping
  <2>5. CASE Written(p) \/ RepackRetire(p) \/ Released(p) \/ OrphansBegin(p) \/ DropUnreadable(p) \/ RepackBegin(p)
    <3>1. job'[p].cmd # "sweep"
      BY <1>2, <2>5, FlushRows, SweepRows, RepackRows
         DEF Row, OnTo, Rest, Written, RepackRetire, At, JobStage
    <3> QED BY <3>1 DEF Sweeping
  <2>6. CASE OrphansWalk(p) \/ \E r \in Record : RepackRead(p, r)
    <3>1. job'[p].cmd # "sweep"
      BY <1>2, <2>6, RepackRows DEF Row, Rest, OrphansWalk, RepackRead, At, JobStage
    <3> QED BY <3>1 DEF Sweeping
  <2> QED BY <2>1, <2>2, <2>3, <2>5, <2>6 DEF Plans
<1> QED BY <1>1, <1>3, <1>5, SweepStep

LEMMA RestSweep ==
  ASSUME OnePerDevice, ReclaimTypes, ReclaimTypes', SweepInv, NEW p \in Process, Opens(p) \/ Queues(p)
  PROVE  SweepInv'
<1>1. Others(p) /\ Frame(p) /\ UNCHANGED <<ledger, catalog>> /\ JobStage(p)
  BY StepFrame, StepStage, OpensFrame, QueueFrame DEF ReclaimTypes, Opens, Queues, JobTypes
<1>2. CASE Open(p)
  <2>1. mem'[p] = catalog[Home[p]] /\ job'[p].cmd = "none"
    BY <1>2, FlushRows DEF Open, Rest, Row, ReclaimTypes, DeviceTypes
  <2>2. Copy(p)' /\ Sweeping(p)'
    BY <1>1, <2>1 DEF Copy, Sweeping
  <2> QED BY <1>1, <2>2, SweepStep
<1>3. CASE Close(p) \/ Crash(p)
  <2>1. job'[p].pc = "closed" /\ job'[p].cmd = "none"
    BY <1>3, FlushRows DEF Rest, Row
  <2> QED BY <1>1, <2>1, AwaySweep
<1>4. CASE Fails(p) \/ FlushDrop(p)
  <2>1. job'[p].cmd = "none" /\ ~At(p, "closed") /\ UNCHANGED mem
    BY <1>1, <1>4, FlushRows DEF Fails, FlushDrop, Rest, Row, At, JobStage
  <2> QED BY <1>1, <2>1, AwaySweep
<1>5. ASSUME NEW r \in Record, Remember(p, r) PROVE SweepInv'
  <2>1. job'[p].cmd = "none" /\ ~At(p, "closed") /\ UNCHANGED mem
    BY <1>1, <1>5 DEF Remember, At, JobStage
  <2> QED BY <1>1, <2>1, AwaySweep
<1> QED BY <1>2, <1>3, <1>4, <1>5 DEF Opens, Queues

LEMMA WorksSweep ==
  ASSUME OnePerDevice, ReclaimTypes, ReclaimTypes', SweepInv, NEW p \in Process, Writes(p) \/ Pins(p)
  PROVE  SweepInv'
<1>1. Others(p) /\ Frame(p) /\ UNCHANGED <<catalog, mem>> /\ JobStage(p) /\ job[p] \in JobRow
  BY StepFrame, StepStage, WritesFrame, PinsFrame DEF ReclaimTypes, Writes, Pins, JobTypes
<1>2. ~At(p, "closed")
  BY DEF Writes, Pins, FlushWrite, RepackWrite, PinSlabs, PinObject, DeleteObject, UnpinSlab, At
<1>3. CASE Writes(p)
  <2>1. job'[p].cmd \in {"flush", "repack"}
    BY <1>3, FlushRows, RepackRows DEF Writes, Row
  <2> QED BY <1>1, <1>2, <2>1, AwaySweep
<1>4. CASE PinSlabs(p) \/ \E r \in Record : PinObject(p, r)
  <2>1. job'[p].cmd # "sweep"
    BY <1>1, <1>4, FlushRows DEF PinSlabs, PinObject, At, JobStage, OnTo, Rest, Row
  <2> QED BY <1>1, <1>2, <2>1, AwaySweep
<1>5. ASSUME NEW o \in Object, DeleteObject(p, o) PROVE SweepInv'
  <2>1. Copy(p) /\ Sweeping(p) /\ UNCHANGED ledger
    BY <1>5, PinsFrame DEF SweepInv, Pins
  <2>2. Releasable(Home[p])' = Releasable(Home[p]) /\ Copy(p)'
    BY <1>1, <1>2, <2>1 DEF Releasable, Copy
  <2>3. Sweeping(p)'
    BY <1>1, <1>5, <2>1, <2>2, SweepRows DEF Row, Sweeping, At, DeleteObject
  <2> QED BY <1>1, <2>2, <2>3, SweepStep
<1>6. ASSUME NEW s \in Slab, UnpinSlab(p, s) PROVE SweepInv'
  <2>1. Copy(p) /\ Sweeping(p) /\ UNCHANGED ledger
    BY <1>6, PinsFrame DEF SweepInv, Pins
  <2>2. Releasable(Home[p])' = Releasable(Home[p]) /\ Copy(p)'
    BY <1>1, <1>2, <2>1 DEF Releasable, Copy
  <2>3. /\ At(p, "unpin") /\ job'[p].cmd = job[p].cmd /\ job'[p].pc = "unledger" /\ job'[p].slab = s
        /\ job'[p].slabs = job[p].slabs \ {s}
    BY <1>6, SweepRows DEF UnpinSlab, Row
  <2>4. Sweeping(p)'
    BY <1>1, <2>1, <2>2, <2>3 DEF Sweeping, At
  <2> QED BY <1>1, <2>2, <2>4, SweepStep
<1> QED BY <1>3, <1>4, <1>5, <1>6 DEF Pins

LEMMA EntriesSweep ==
  ASSUME OnePerDevice, ReclaimTypes, ReclaimTypes', SweepInv, NEW p \in Process, Entries(p)
  PROVE  SweepInv'
<1>1. Others(p) /\ Frame(p) /\ JobStage(p) /\ DeviceTypes /\ DeviceTypes' /\ Home[p] \in Device
  BY StepFrame, StepStage, HomeAssumption DEF ReclaimTypes, Entries, JobTypes
<1>2. ~At(p, "closed") /\ Copy(p)
  BY DEF Entries, RecordEntry, Forget, HydrateAppend, At, SweepInv
<1>3. ASSUME NEW r \in Record, NEW s \in Slab \cup {None}, AppendEntry(p, r, s)
      PROVE  mem'[p] = catalog'[Home[p]]
  <2>1. /\ \A t \in Record : catalog'[Home[p]][t] = IF t = r THEN s ELSE catalog[Home[p]][t]
        /\ \A t \in Record : mem'[p][t] = IF t = r THEN s ELSE mem[p][t]
    BY <1>1, <1>3, AppendEntryFrame
  <2>2. catalog'[Home[p]] \in [Record -> Slab \cup {None}] /\ mem'[p] \in [Record -> Slab \cup {None}]
    BY <1>1 DEF DeviceTypes
  <2>3. mem[p] = catalog[Home[p]]
    BY <1>2 DEF Copy
  <2> QED BY <2>1, <2>2, <2>3
<1>4. ASSUME UNCHANGED <<catalog, mem>> PROVE mem'[p] = catalog'[Home[p]]
  BY <1>2, <1>4 DEF Copy
<1>5. mem'[p] = catalog'[Home[p]] /\ job'[p].cmd # "sweep"
  <2>1. ASSUME NEW r \in Record, RecordEntry(p, r) PROVE mem'[p] = catalog'[Home[p]] /\ job'[p].cmd # "sweep"
    <3>1. AppendEntry(p, r, job[p].slab) /\ job[p].slab \in Slab /\ job'[p].cmd # "sweep"
      BY <1>1, <2>1, FlushRows DEF RecordEntry, At, JobStage, Row
    <3> QED BY <1>3, <3>1
  <2>2. ASSUME NEW r \in Record, Forget(p, r) PROVE mem'[p] = catalog'[Home[p]] /\ job'[p].cmd # "sweep"
    <3>1. (AppendEntry(p, r, None) \/ UNCHANGED <<catalog, mem>>) /\ job'[p].cmd # "sweep"
      BY <1>1, <2>2 DEF Forget, At, JobStage
    <3> QED BY <1>3, <1>4, <3>1
  <2>3. ASSUME NEW o \in Object, HydrateAppend(p, o) PROVE mem'[p] = catalog'[Home[p]] /\ job'[p].cmd # "sweep"
    <3>1. PICK r \in Record, s \in Slab : r = o[1] /\ s = o[2]
      BY DEF Object
    <3>2. AppendEntry(p, r, s) /\ job'[p].cmd = "hydrate"
      BY <2>3, <3>1, SweepRows DEF HydrateAppend, Row
    <3> QED BY <1>3, <3>2
  <2> QED BY <2>1, <2>2, <2>3 DEF Entries
<1>6. Copy(p)' /\ Sweeping(p)'
  BY <1>5 DEF Copy, Sweeping
<1> QED BY <1>1, <1>6, SweepStep

LEMMA LedgersSweep ==
  ASSUME OnePerDevice, ReclaimTypes, ReclaimTypes', SweepInv, NEW p \in Process, Ledgers(p)
  PROVE  SweepInv'
<1>1. Others(p) /\ Frame(p) /\ JobStage(p) /\ UNCHANGED <<catalog, mem>>
  BY StepFrame, StepStage, LedgerFrame DEF ReclaimTypes, Ledgers, JobTypes
<1>2. ~At(p, "closed") /\ Copy(p) /\ Sweeping(p)
  BY DEF Ledgers, HydrateAdopt, ForgetSlab, TakeOwnership, At, SweepInv
<1>3. CASE HydrateAdopt(p) \/ TakeOwnership(p)
  <2>1. job'[p].cmd # "sweep"
    BY <1>1, <1>3, SweepRows DEF HydrateAdopt, TakeOwnership, At, JobStage, Rest, Row
  <2> QED BY <1>1, <1>2, <2>1, AwaySweep
<1>4. CASE ForgetSlab(p)
  <2>1. /\ At(p, "unledger") /\ job'[p].cmd = job[p].cmd /\ job'[p].pc = "unpin" /\ job'[p].slabs = job[p].slabs
    BY <1>4, SweepRows DEF ForgetSlab, OnTo, Row
  <2>2. \A s \in Releasable(Home[p])' : s \in Releasable(Home[p]) /\ s # job[p].slab
    <3>1. \A s \in Slab : ledger'[Home[p]][s] = IF s = job[p].slab THEN "none" ELSE ledger[Home[p]][s]
      BY <1>4, LedgerFrame
    <3> QED BY <3>1 DEF Releasable
  <2>3. Copy(p)' /\ Sweeping(p)'
    BY <1>1, <1>2, <2>1, <2>2 DEF Copy, Sweeping, At
  <2> QED BY <1>1, <2>3, SweepStep
<1> QED BY <1>3, <1>4 DEF Ledgers

LEMMA InitSweep == Init => SweepInv
BY RestIsTyped DEF Init, SweepInv, Copy, Sweeping, At

LEMMA NextSweep ==
  ASSUME OnePerDevice
  PROVE  ReclaimTypes /\ ReclaimTypes' /\ SweepInv /\ [Next]_vars => SweepInv'
<1> SUFFICES ASSUME ReclaimTypes, ReclaimTypes', SweepInv, [Next]_vars PROVE SweepInv'
  OBVIOUS
<1>1. CASE UNCHANGED vars
  BY <1>1 DEF vars, SweepInv, Copy, Sweeping, At, Releasable
<1> QED BY <1>1, NextSteps, PlansSweep, RestSweep, WorksSweep, EntriesSweep, LedgersSweep

(***************************************************************************)
(* A sweep that comes to its end has released all it may: whatever its     *)
(* device still has pinned then holds a record of its catalog, whatever    *)
(* the other devices did meanwhile.                                        *)
(***************************************************************************)
THEOREM SweepAlwaysSweeps == OnePerDevice => (Spec => []Swept)
<1> SUFFICES ASSUME OnePerDevice PROVE Spec => []Swept
  OBVIOUS
<1>1. Init => ReclaimTypes /\ SweepInv
  BY InitTypes, InitSweep
<1>2. ReclaimTypes /\ SweepInv /\ [Next]_vars => (ReclaimTypes /\ SweepInv)'
  BY NextTypes, NextSweep
<1>3. SweepInv => Swept
  BY DEF SweepInv, Sweeping, Swept, At
<1> QED BY <1>1, <1>2, <1>3, PTL DEF Spec

-----------------------------------------------------------------------------
(* What a device catalogued can be read, when no device has two processes  *)
(* and none releases what it did not upload while another one writes.      *)

OrphansAlone == "orphans" \in Commands => \A d, e \in Device : d = e

Own(p, s) == s \in Known /\ (s \in taken \/ owner[s] = Home[p])

(* A slab that was released, and nobody is about to pin. *)
Dead(s) == s \in Known /\ s \notin pinned /\ \A q \in Process : At(q, "pinslab") => job[q].slab # s

KeptAt(d) ==
  \A r \in Record :
    catalog[d][r] # None /\ owner[catalog[d][r]] = d /\ catalog[d][r] \notin taken =>
      <<r, catalog[d][r]>> \in objects /\ catalog[d][r] \in pinned

(* What a batch has pinned is there when it is catalogued. *)
Lands(p) ==
  /\ At(p, "pinslab") => job[p].todo = job[p].recs
  /\ Writing(p) /\ job[p].slab \notin taken => \A r \in job[p].recs :
       At(p, "catalog") \/ (At(p, "pinobj") /\ r \notin job[p].todo) =>
         <<r, job[p].slab>> \in objects /\ job[p].slab \in pinned

Unused(p, s) == s \in taken \/ \A r \in Record : catalog[Home[p]][r] # s

(* An operation releases and deletes what is its own and in no use, or dead. *)
Frees(p) ==
  /\ \A s \in job[p].slabs : Own(p, s)
  /\ job[p].pc \in {"delete", "unpin", "unledger"} => \A s \in job[p].slabs : Unused(p, s)
  /\ At(p, "delete") => \A o \in job[p].objs :
       Dead(o[2]) \/ (Own(p, o[2]) /\ (o[2] \in taken \/ catalog[Home[p]][o[1]] # o[2]))
  /\ job[p].pc \in {"unpin", "unledger", "occupied"} => job[p].objs = {}

(* A repack retires the old copies of what it moves, and nothing else. *)
Moving(p) ==
  job[p].cmd = "repack" /\ job[p].pc \in {"read", "pinslab", "pinobj", "catalog"} =>
    /\ \A o \in job[p].objs : o[1] \in job[p].recs /\ o[2] \in job[p].slabs
    /\ Writing(p) => job[p].slab \notin job[p].slabs
    /\ \A r \in Record : mem[p][r] # None => r \in job[p].recs
    /\ At(p, "catalog") => \A r \in job[p].recs \ job[p].todo : mem[p][r] = job[p].slab

(* A sweep deletes every object that is on a slab before it releases it. *)
Empties(p) ==
  job[p].cmd \in {"sweep", "orphans"} /\ job[p].pc \in {"delete", "unpin", "unledger"} =>
    \A s \in job[p].slabs :
      s \in taken \/ s \notin pinned \/ \A o \in objects : o[2] = s => o \in job[p].objs

JobKeeps(p) == Lands(p) /\ Frees(p) /\ Moving(p) /\ Empties(p)

KeepInv == (\A d \in Device : KeptAt(d)) /\ \A p \in Process : JobKeeps(p)

StoreInv == ReclaimTypes /\ LedgerInv /\ SweepInv /\ KeepInv

(* A slab is pinned once, as soon as it is written. *)
PinsNew(p) == job'[p].pc = "pinslab" => job'[p].slab \notin Known

LEMMA KnownIsSlab ==
  ASSUME ReclaimTypes
  PROVE  Known \subseteq Slab /\ None \notin Known
BY BoundAssumption DEF ReclaimTypes, DeviceTypes, Known, Slab, None

LEMMA DeadStays ==
  ASSUME ReclaimTypes, NEW p \in Process, Others(p), Frame(p), PinsNew(p), NEW s, Dead(s)
  PROVE  Dead(s)'
<1>1. s \in Known'
  BY KnownGrows DEF Dead
<1>2. s \notin pinned'
  BY DEF Dead, Frame
<1>3. ASSUME NEW q \in Process, job'[q].pc = "pinslab" PROVE job'[q].slab # s
  <2>1. CASE q = p
    BY <1>3, <2>1 DEF PinsNew, Dead
  <2>2. CASE q # p
    BY <1>3, <2>2 DEF Others, Dead, At
  <2> QED BY <2>1, <2>2
<1> QED BY <1>1, <1>2, <1>3 DEF Dead, At

LEMMA OwnStays ==
  ASSUME ReclaimTypes, NEW p \in Process, Frame(p), NEW q \in Process, NEW s, Own(q, s)
  PROVE  Own(q, s)'
<1>1. s \in Known' /\ owner'[s] = owner[s] /\ taken \subseteq taken'
  BY KnownGrows DEF Own, Frame
<1> QED BY <1>1 DEF Own

(* No process touches the slabs of a device that is not its own. *)
LEMMA Untouched ==
  ASSUME StoreInv, NEW p \in Process, Frame(p), NEW s \in Known, owner[s] # Home[p], s \notin taken
  PROVE  /\ s \in pinned' <=> s \in pinned
         /\ \A o \in objects' : o[2] = s => o \in objects
         /\ s \in pinned => \A o \in objects : o[2] = s => o \in objects'
<1>1. JobLedger(p) /\ Frees(p)
  BY DEF StoreInv, LedgerInv, KeepInv, JobKeeps
<1>2. ~Own(p, s)
  BY DEF Own
<1>3. Writing(p) => job[p].slab # s
  BY <1>1 DEF JobLedger
<1>4. s \notin job[p].slabs
  BY <1>1, <1>2 DEF Frees
<1>5. s \in pinned /\ At(p, "delete") => \A o \in job[p].objs : o[2] # s
  BY <1>1, <1>2 DEF Frees, Dead
<1>6. (At(p, "pinslab") => Writing(p)) /\ (At(p, "pinobj") => Writing(p))
  BY DEF At, Writing
<1>7. s \in pinned' <=> s \in pinned
  BY <1>3, <1>4, <1>6 DEF Frame
<1>8. \A o \in objects' : o[2] = s => o \in objects
  BY <1>3, <1>6 DEF Frame
<1>9. s \in pinned => \A o \in objects : o[2] = s => o \in objects'
  BY <1>5 DEF Frame
<1> QED BY <1>7, <1>8, <1>9

LEMMA OthersKeep ==
  ASSUME OnePerDevice, StoreInv, NEW p \in Process, Others(p), Frame(p), PinsNew(p),
         NEW q \in Process, q # p
  PROVE  JobKeeps(q)'
<1>1. /\ job'[q] = job[q] /\ mem'[q] = mem[q] /\ Home[q] # Home[p] /\ Home[q] \in Device
      /\ ReclaimTypes /\ JobLedger(q) /\ JobKeeps(q) /\ taken \subseteq taken'
  BY HomeAssumption DEF Others, Frame, OnePerDevice, StoreInv, LedgerInv, KeepInv
<1>2. catalog'[Home[q]] = catalog[Home[q]]
  BY <1>1 DEF Frame
<1>3. Lands(q)'
  <2>1. At(q, "pinslab") => job[q].todo = job[q].recs
    BY <1>1 DEF JobKeeps, Lands
  <2>2. ASSUME Writing(q), job[q].slab \notin taken', NEW r \in job[q].recs,
               At(q, "catalog") \/ (At(q, "pinobj") /\ r \notin job[q].todo)
        PROVE  <<r, job[q].slab>> \in objects' /\ job[q].slab \in pinned'
    <3>1. PICK s \in Known : s = job[q].slab
      BY <1>1, <2>2 DEF JobLedger
    <3>2. owner[s] # Home[p] /\ s \notin taken
      BY <1>1, <2>2, <3>1 DEF JobLedger
    <3>3. <<r, s>> \in objects /\ s \in pinned
      BY <1>1, <2>2, <3>1, <3>2 DEF JobKeeps, Lands
    <3>4. s \in pinned' /\ \A o \in objects : o[2] = s => o \in objects'
      BY <3>2, <3>3, Untouched
    <3> QED BY <3>1, <3>3, <3>4
  <2> QED BY <1>1, <2>1, <2>2 DEF Lands, At, Writing
<1>4. Frees(q)'
  <2>1. \A s \in job[q].slabs : Own(q, s)'
    BY <1>1, OwnStays DEF JobKeeps, Frees
  <2>2. ASSUME NEW s, Unused(q, s) PROVE Unused(q, s)'
    BY <1>1, <1>2, <2>2 DEF Unused
  <2>3. ASSUME At(q, "delete"), NEW o \in job[q].objs
        PROVE  Dead(o[2])' \/ (Own(q, o[2])' /\ (o[2] \in taken' \/ catalog'[Home[q]][o[1]] # o[2]))
    <3>1. Dead(o[2]) \/ (Own(q, o[2]) /\ (o[2] \in taken \/ catalog[Home[q]][o[1]] # o[2]))
      BY <1>1, <2>3 DEF JobKeeps, Frees
    <3>2. CASE Dead(o[2])
      BY <1>1, <3>2, DeadStays
    <3>3. CASE Own(q, o[2]) /\ (o[2] \in taken \/ catalog[Home[q]][o[1]] # o[2])
      BY <1>1, <1>2, <3>3, OwnStays
    <3> QED BY <3>1, <3>2, <3>3
  <2>4. /\ job[q].pc \in {"delete", "unpin", "unledger"} => \A s \in job[q].slabs : Unused(q, s)
        /\ job[q].pc \in {"unpin", "unledger", "occupied"} => job[q].objs = {}
    BY <1>1 DEF JobKeeps, Frees
  <2> QED BY <1>1, <2>1, <2>2, <2>3, <2>4 DEF Frees, At
<1>5. Moving(q)'
  BY <1>1 DEF JobKeeps, Moving, Writing, At
<1>6. Empties(q)'
  <2> SUFFICES ASSUME job[q].cmd \in {"sweep", "orphans"}, job[q].pc \in {"delete", "unpin", "unledger"},
                      NEW s \in job[q].slabs, s \notin taken', s \in pinned'
               PROVE  \A o \in objects' : o[2] = s => o \in job[q].objs
    BY <1>1 DEF Empties
  <2>1. s \in Known /\ s \notin taken /\ owner[s] # Home[p]
    BY <1>1 DEF JobKeeps, Frees, Own
  <2>2. s \in pinned /\ \A o \in objects' : o[2] = s => o \in objects
    BY <2>1, Untouched
  <2> QED BY <1>1, <2>1, <2>2 DEF JobKeeps, Empties
<1> QED BY <1>3, <1>4, <1>5, <1>6 DEF JobKeeps

LEMMA KeepStep ==
  ASSUME OnePerDevice, StoreInv, NEW p \in Process, Others(p), Frame(p), PinsNew(p),
         KeptAt(Home[p])', JobKeeps(p)'
  PROVE  KeepInv'
<1>1. \A q \in Process : JobKeeps(q)'
  BY OthersKeep
<1>2. ASSUME NEW d \in Device, d # Home[p] PROVE KeptAt(d)'
  <2>1. catalog'[d] = catalog[d] /\ taken \subseteq taken' /\ KeptAt(d) /\ Entitled(d) /\ ReclaimTypes
    BY <1>2 DEF Frame, StoreInv, KeepInv, LedgerInv
  <2> SUFFICES ASSUME NEW r \in Record, catalog[d][r] # None, owner'[catalog[d][r]] = d, catalog[d][r] \notin taken'
               PROVE  <<r, catalog[d][r]>> \in objects' /\ catalog[d][r] \in pinned'
    BY <2>1 DEF KeptAt
  <2>2. PICK s \in Known : s = catalog[d][r]
    BY <2>1 DEF Entitled
  <2>3. owner[s] = d /\ s \notin taken
    BY <2>1, <2>2, KnownGrows
  <2>4. <<r, s>> \in objects /\ s \in pinned
    BY <2>1, <2>2, <2>3 DEF KeptAt
  <2>5. s \in pinned' /\ \A o \in objects : o[2] = s => o \in objects'
    BY <1>2, <2>3, <2>4, Untouched
  <2> QED BY <2>2, <2>4, <2>5
<1> QED BY <1>1, <1>2 DEF KeepInv

(* What the step of a process leaves alone of its own device. *)
LEMMA KeptStays ==
  ASSUME StoreInv, NEW p \in Process, Frame(p), catalog'[Home[p]] = catalog[Home[p]],
         pinned \subseteq pinned', objects \subseteq objects'
  PROVE  KeptAt(Home[p])'
<1>1. KeptAt(Home[p]) /\ Entitled(Home[p]) /\ ReclaimTypes /\ taken \subseteq taken'
  BY HomeAssumption DEF StoreInv, KeepInv, LedgerInv, Frame
<1>2. \A s \in Known : owner'[s] = owner[s]
  BY <1>1, KnownGrows
<1> QED BY <1>1, <1>2 DEF KeptAt, Entitled

(* An operation that has nothing to write, delete or release. *)
LEMMA IdleKeeps ==
  ASSUME NEW p \in Process, job'[p].slabs = {}, job'[p].objs = {},
         job'[p].pc \notin {"pinslab", "pinobj", "catalog", "read"}
  PROVE  JobKeeps(p)' /\ PinsNew(p)
BY DEF JobKeeps, Lands, Frees, Moving, Empties, PinsNew, At, Writing

LEMMA PlansKeep ==
  ASSUME OnePerDevice, StoreInv, NEW p \in Process, Plans(p), JobKeeps(p)', PinsNew(p)
  PROVE  KeepInv'
<1>1. Others(p) /\ Frame(p) /\ UNCHANGED <<catalog, pinned, objects>>
  BY StepFrame, StepStage, PlansFrame DEF StoreInv, ReclaimTypes, shared
<1>2. KeptAt(Home[p])'
  BY <1>1, KeptStays
<1> QED BY <1>1, <1>2, KeepStep

LEMMA WrittenKeeps ==
  ASSUME StoreInv, NEW p \in Process, Written(p)
  PROVE  JobKeeps(p)' /\ PinsNew(p)
<1>1. /\ job[p].pc = "pinobj" /\ job[p].todo = {} /\ job'[p].pc = "catalog" /\ job'[p].cmd = job[p].cmd
      /\ job'[p].recs = job[p].recs /\ job'[p].todo = job[p].recs /\ job'[p].slab = job[p].slab
      /\ job'[p].objs = job[p].objs /\ job'[p].slabs = job[p].slabs
  BY FlushRows DEF StoreInv, Written, At, Row
<1>2. UNCHANGED <<catalog, pinned, objects, mem, taken, owner>> /\ JobKeeps(p)
  BY DEF Written, history, StoreInv, KeepInv
<1>3. Lands(p)'
  BY <1>1, <1>2 DEF JobKeeps, Lands, At, Writing
<1>4. Frees(p)' /\ Empties(p)'
  BY <1>1, <1>2 DEF JobKeeps, Frees, Empties, At, Own, Known
<1>5. Moving(p)'
  BY <1>1, <1>2 DEF JobKeeps, Moving, At, Writing
<1>6. PinsNew(p)
  BY <1>1 DEF PinsNew
<1> QED BY <1>3, <1>4, <1>5, <1>6 DEF JobKeeps

LEMMA SweepPlanKeeps ==
  ASSUME StoreInv, NEW p \in Process, SweepBegin(p) \/ SweepWalk(p) \/ Deleted(p) \/ Released(p)
  PROVE  JobKeeps(p)' /\ PinsNew(p)
<1>1. /\ UNCHANGED <<catalog, pinned, objects, mem, taken, owner>> /\ Known' = Known
      /\ JobKeeps(p) /\ Entitled(Home[p]) /\ ReclaimTypes /\ JobStage(p) /\ JobLedger(p) /\ Copy(p)
  BY HomeAssumption
     DEF SweepBegin, SweepWalk, Deleted, Released, history, StoreInv, KeepInv, LedgerInv, SweepInv,
         ReclaimTypes, JobTypes, Known
<1>2. CASE SweepBegin(p)
  <2>1. job'[p].pc = "walk" /\ job'[p].slabs = Releasable(Home[p])
    BY <1>1, <1>2, SweepRows DEF Row
  <2>2. \A s \in Releasable(Home[p]) : Own(p, s)
    BY <1>1 DEF Entitled, Releasable, Own
  <2>3. \A s \in job'[p].slabs : Own(p, s)'
    BY <1>1, <2>1, <2>2 DEF Own
  <2> QED BY <2>1, <2>3 DEF JobKeeps, Lands, Frees, Moving, Empties, PinsNew, At, Writing
<1>3. CASE SweepWalk(p)
  <2>1. /\ At(p, "walk") /\ job[p].cmd = "sweep" /\ job'[p].cmd = "sweep" /\ job'[p].pc = "delete"
        /\ job'[p].objs = DeadObjects(p, job[p].slabs) /\ job'[p].slabs = job[p].slabs \ LiveSlabs(p)
    BY <1>1, <1>3, SweepRows DEF SweepWalk, At, JobStage, Row, ReleasableSlabs
  <2>2. mem[p] = catalog[Home[p]] /\ job[p].slabs \subseteq Slab
    BY <1>1, <2>1 DEF Copy, At, ReclaimTypes, JobTypes, JobRow
  <2>3. \A s \in job[p].slabs : Own(p, s)'
    BY <1>1 DEF JobKeeps, Frees, Own
  <2>4. ASSUME NEW s \in job'[p].slabs, NEW r \in Record PROVE catalog[Home[p]][r] # s
    <3>1. s \in Slab /\ s \notin LiveSlabs(p)
      BY <2>1, <2>2
    <3>2. <<r, s>> \in Object /\ <<r, s>>[1] = r /\ <<r, s>>[2] = s
      BY <3>1 DEF Object
    <3>3. mem[p][r] # s
      BY <3>1, <3>2 DEF LiveSlabs, LiveObjects
    <3> QED BY <2>2, <3>3
  <2>5. ASSUME NEW o \in job'[p].objs PROVE Own(p, o[2])' /\ catalog'[Home[p]][o[1]] # o[2]
    <3>1. o \in Object /\ o \notin LiveObjects(p) /\ o[2] \in job[p].slabs
      BY <1>1, <2>1 DEF DeadObjects, ReclaimTypes, DeviceTypes
    <3> QED BY <1>1, <2>2, <2>3, <3>1 DEF LiveObjects
  <2>6. Frees(p)'
    BY <1>1, <2>1, <2>3, <2>4, <2>5 DEF Frees, Unused, At
  <2>7. ASSUME NEW s \in job'[p].slabs, s \in pinned, NEW o \in objects, o[2] = s PROVE o \in job'[p].objs
    <3>1. s \in job[p].slabs /\ s \notin LiveSlabs(p)
      BY <2>1
    <3>2. o \notin LiveObjects(p)
      BY <2>7, <3>1 DEF LiveSlabs
    <3> QED BY <2>1, <2>7, <3>1, <3>2 DEF DeadObjects, Readable
  <2>8. Empties(p)'
    BY <1>1, <2>7 DEF Empties
  <2> QED BY <2>1, <2>6, <2>8 DEF JobKeeps, Lands, Moving, PinsNew, At, Writing
<1>4. CASE Deleted(p)
  <2>1. /\ job[p].pc = "delete" /\ job[p].objs = {} /\ job'[p].cmd = job[p].cmd /\ job'[p].pc = "unpin"
        /\ job'[p].objs = job[p].objs /\ job'[p].slabs = job[p].slabs
    BY <1>1, <1>4, SweepRows DEF Deleted, At, OnTo, Row
  <2>2. Frees(p)'
    BY <1>1, <2>1 DEF JobKeeps, Frees, Unused, Own, At
  <2>3. Empties(p)'
    BY <1>1, <2>1 DEF JobKeeps, Empties
  <2> QED BY <2>1, <2>2, <2>3 DEF JobKeeps, Lands, Moving, PinsNew, At, Writing
<1>5. CASE Released(p)
  BY <1>1, <1>5, SweepRows, IdleKeeps DEF Rest, Row
<1> QED BY <1>2, <1>3, <1>4, <1>5

LEMMA OrphansPlanKeeps ==
  ASSUME OrphansAlone, StoreInv, NEW p \in Process, OrphansBegin(p) \/ OrphansWalk(p) \/ DropUnreadable(p)
  PROVE  JobKeeps(p)' /\ PinsNew(p)
<1>1. /\ UNCHANGED <<catalog, pinned, objects, mem, taken, owner>> /\ Known' = Known
      /\ JobKeeps(p) /\ Home[p] \in Device /\ ReclaimTypes /\ JobStage(p) /\ LedgerInv
  BY HomeAssumption
     DEF OrphansBegin, OrphansWalk, DropUnreadable, history, StoreInv, KeepInv, ReclaimTypes, JobTypes, Known
<1>2. CASE OrphansBegin(p)
  <2>1. job'[p].pc = "occupied" /\ job'[p].cmd = "orphans" /\ job'[p].objs = {} /\ job'[p].slabs = pinned
    BY <1>1, <1>2, RepackRows DEF Row
  <2>2. \A s \in pinned : s \in Known /\ owner[s] \in Device
    <3>1. pinned \subseteq Known /\ owner \in Seq(Device)
      BY <1>1 DEF LedgerInv, ReclaimTypes, DeviceTypes
    <3> QED BY <3>1 DEF Known
  <2>3. \A s \in pinned : owner[s] = Home[p]
    BY <1>1, <1>2, <2>2 DEF OrphansAlone, OrphansBegin
  <2>4. \A s \in job'[p].slabs : Own(p, s)'
    BY <1>1, <2>1, <2>2, <2>3 DEF Own
  <2> QED BY <2>1, <2>4 DEF JobKeeps, Lands, Frees, Moving, Empties, PinsNew, At, Writing
<1>3. CASE OrphansWalk(p)
  <2>1. CASE Rest(p, "idle")
    BY <2>1, IdleKeeps DEF Rest, Row
  <2>2. CASE Row(p, job[p].cmd, "unpin", job[p].recs, job[p].todo, job[p].slab, job[p].objs,
                 job[p].slabs \ Occupied)
    <3>1. job[p].pc = "occupied" /\ job[p].cmd = "orphans"
      BY <1>1, <1>3 DEF OrphansWalk, At, JobStage
    <3>2. /\ job'[p].pc = "unpin" /\ job'[p].cmd = "orphans" /\ job'[p].objs = job[p].objs
          /\ job'[p].slabs = job[p].slabs \ Occupied
      BY <2>2, <3>1 DEF Row
    <3>3. job[p].objs = {}
      BY <1>1, <3>1 DEF JobKeeps, Frees
    <3>4. \A s \in job'[p].slabs : Own(p, s) /\ Own(p, s)'
      BY <1>1, <3>2 DEF JobKeeps, Frees, Own
    <3>5. ASSUME NEW s \in job'[p].slabs, s \notin taken, NEW r \in Record PROVE catalog[Home[p]][r] # s
      <4> SUFFICES ASSUME catalog[Home[p]][r] = s PROVE FALSE
        OBVIOUS
      <4>1. owner[s] = Home[p] /\ s \in Known
        BY <3>4, <3>5 DEF Own
      <4>2. s # None
        BY <4>1, KnownIsSlab DEF StoreInv
      <4>3. <<r, s>> \in objects /\ s \in pinned
        BY <1>1, <3>5, <4>1, <4>2 DEF StoreInv, KeepInv, KeptAt
      <4>4. s \in Occupied
        BY <4>3 DEF Occupied, Readable
      <4> QED BY <3>2, <4>4
    <3>6. Frees(p)'
      BY <1>1, <3>2, <3>3, <3>4, <3>5 DEF Frees, Unused, At
    <3>7. ASSUME NEW s \in job'[p].slabs, s \in pinned, NEW o \in objects, o[2] = s PROVE FALSE
      BY <3>2, <3>7 DEF Occupied, Readable
    <3>8. Empties(p)'
      BY <1>1, <3>7 DEF Empties
    <3> QED BY <3>2, <3>6, <3>8 DEF JobKeeps, Lands, Moving, PinsNew, At, Writing
  <2> QED BY <1>1, <1>3, <2>1, <2>2, RepackRows
<1>4. CASE DropUnreadable(p)
  <2>1. /\ job'[p].pc = "delete" /\ job'[p].cmd = "unreadable" /\ job'[p].slabs = {}
        /\ job'[p].objs = {o \in objects : ~Readable(o)}
    BY <1>1, <1>4, RepackRows DEF Row
  <2>2. Others(p) /\ Frame(p) /\ PinsNew(p)
    BY <1>1, <1>4, <2>1, StepStage, StepFrame DEF Plans, PinsNew
  <2>3. ASSUME NEW o \in job'[p].objs PROVE Dead(o[2])'
    <3>1. o \in objects /\ o[2] \notin pinned
      BY <2>1 DEF Readable
    <3>2. o[2] \in Known /\ \A q \in Process : At(q, "pinslab") => job[q].slab # o[2]
      BY <1>1, <3>1 DEF LedgerInv, JobLedger
    <3>3. Dead(o[2])
      BY <3>1, <3>2 DEF Dead
    <3> QED BY <1>1, <2>2, <3>3, DeadStays
  <2>4. Frees(p)'
    BY <2>1, <2>3 DEF Frees, At
  <2> QED BY <2>1, <2>2, <2>4 DEF JobKeeps, Lands, Moving, Empties, At, Writing
<1> QED BY <1>2, <1>3, <1>4

LEMMA RepackPlanKeeps ==
  ASSUME StoreInv, NEW p \in Process, RepackBegin(p) \/ RepackRetire(p) \/ \E r \in Record : RepackRead(p, r)
  PROVE  JobKeeps(p)' /\ PinsNew(p)
<1>1. /\ UNCHANGED <<catalog, pinned, objects, mem, taken, owner>> /\ Known' = Known
      /\ JobKeeps(p) /\ Entitled(Home[p]) /\ ReclaimTypes /\ JobStage(p) /\ JobLedger(p) /\ Copy(p)
  BY HomeAssumption
     DEF RepackBegin, RepackRetire, RepackRead, history, StoreInv, KeepInv, LedgerInv, SweepInv,
         ReclaimTypes, JobTypes, Known
<1>2. CASE RepackBegin(p)
  <2>1. /\ job'[p].cmd = "repack" /\ job'[p].pc = "read" /\ job'[p].recs = {o[1] : o \in LiveObjects(p)}
        /\ job'[p].objs = LiveObjects(p) /\ job'[p].slabs = LiveSlabs(p)
    BY <1>1, <1>2, RepackRows DEF Row
  <2>2. \A s \in LiveSlabs(p) : Own(p, s)
    BY <1>1, <1>2 DEF RepackBegin, Entitled, Releasable, Own
  <2>3. Frees(p)'
    BY <1>1, <2>1, <2>2 DEF Frees, Own, At
  <2>4. ASSUME NEW r \in Record, mem[p][r] # None PROVE r \in job'[p].recs
    <3>1. mem[p][r] \in Slab
      BY <1>1, <2>4 DEF ReclaimTypes, DeviceTypes
    <3>2. <<r, mem[p][r]>> \in Object /\ <<r, mem[p][r]>>[1] = r /\ <<r, mem[p][r]>>[2] = mem[p][r]
      BY <3>1 DEF Object
    <3>3. <<r, mem[p][r]>> \in LiveObjects(p)
      BY <3>2 DEF LiveObjects
    <3> QED BY <2>1, <3>2, <3>3
  <2>5. \A o \in job'[p].objs : o[1] \in job'[p].recs /\ o[2] \in job'[p].slabs
    BY <2>1 DEF LiveSlabs
  <2>6. Moving(p)'
    BY <1>1, <2>1, <2>4, <2>5 DEF Moving, At, Writing
  <2> QED BY <2>1, <2>3, <2>6 DEF JobKeeps, Lands, Empties, PinsNew, At, Writing
<1>3. CASE RepackRetire(p)
  <2>1. /\ job[p].pc = "catalog" /\ job[p].cmd = "repack" /\ job[p].todo = {}
        /\ job'[p].cmd = job[p].cmd /\ job'[p].pc = "delete" /\ job'[p].recs = job[p].recs
        /\ job'[p].objs = job[p].objs /\ job'[p].slabs = job[p].slabs
    BY <1>1, <1>3, RepackRows DEF RepackRetire, At, OnTo, Row
  <2>2. /\ \A o \in job[p].objs : o[1] \in job[p].recs /\ o[2] \in job[p].slabs
        /\ job[p].slab \notin job[p].slabs
        /\ \A r \in Record : mem[p][r] # None => r \in job[p].recs
        /\ \A r \in job[p].recs : mem[p][r] = job[p].slab
    BY <1>1, <2>1 DEF JobKeeps, Moving, At, Writing
  <2>3. mem[p] = catalog[Home[p]]
    BY <1>1, <2>1 DEF Copy, At
  <2>4. \A s \in job[p].slabs : Own(p, s) /\ s # None
    BY <1>1, KnownIsSlab DEF JobKeeps, Frees, Own
  <2>5. ASSUME NEW s \in job[p].slabs, NEW r \in Record PROVE catalog[Home[p]][r] # s
    BY <2>2, <2>3, <2>4, <2>5
  <2>6. job[p].recs \subseteq Record
    BY <1>1 DEF ReclaimTypes, JobTypes, JobRow
  <2>7. ASSUME NEW o \in job[p].objs PROVE Own(p, o[2]) /\ catalog[Home[p]][o[1]] # o[2]
    BY <2>2, <2>4, <2>5, <2>6, <2>7
  <2>8. Frees(p)'
    BY <1>1, <2>1, <2>4, <2>5, <2>7 DEF Frees, Unused, Own, At
  <2> QED BY <2>1, <2>8 DEF JobKeeps, Lands, Moving, Empties, PinsNew, At, Writing
<1>4. ASSUME NEW r \in Record, RepackRead(p, r) PROVE JobKeeps(p)' /\ PinsNew(p)
  <2>1. CASE Rest(p, "idle")
    BY <2>1, IdleKeeps DEF Rest, Row
  <2>2. CASE Row(p, job[p].cmd, job[p].pc, job[p].recs, job[p].todo \ {r}, job[p].slab, job[p].objs, job[p].slabs)
    <3>1. /\ job[p].pc = "read" /\ job'[p].cmd = job[p].cmd /\ job'[p].pc = job[p].pc /\ job'[p].recs = job[p].recs
          /\ job'[p].objs = job[p].objs /\ job'[p].slabs = job[p].slabs
      BY <1>4, <2>2 DEF RepackRead, At, Row
    <3>2. Frees(p)'
      BY <1>1, <3>1 DEF JobKeeps, Frees, Own, At
    <3>3. Moving(p)'
      BY <1>1, <3>1 DEF JobKeeps, Moving, At, Writing
    <3> QED BY <3>1, <3>2, <3>3 DEF JobKeeps, Lands, Empties, PinsNew, At, Writing
  <2> QED BY <1>1, <1>4, <2>1, <2>2, RepackRows
<1> QED BY <1>2, <1>3, <1>4

LEMMA AllPlansKeep ==
  ASSUME OnePerDevice, OrphansAlone, StoreInv, NEW p \in Process, Plans(p)
  PROVE  KeepInv'
<1>1. JobKeeps(p)' /\ PinsNew(p)
  BY WrittenKeeps, SweepPlanKeeps, OrphansPlanKeeps, RepackPlanKeeps DEF Plans
<1> QED BY <1>1, PlansKeep

(* An operation that ends leaves the store as it was. *)
LEMMA RestKeeps ==
  ASSUME OnePerDevice, StoreInv, NEW p \in Process, NEW pc \in {"idle", "closed"}, Rest(p, pc), Frame(p),
         UNCHANGED <<catalog, pinned, objects>>
  PROVE  KeepInv'
<1>1. Others(p) /\ JobKeeps(p)' /\ PinsNew(p)
  BY IdleKeeps DEF Rest, Row
<1>2. KeptAt(Home[p])'
  BY KeptStays
<1> QED BY <1>1, <1>2, KeepStep

LEMMA OpensKeep ==
  ASSUME OnePerDevice, StoreInv, NEW p \in Process, Opens(p)
  PROVE  KeepInv'
<1>1. Frame(p) /\ UNCHANGED <<catalog, pinned, objects>>
  BY OpensFrame DEF Opens, StoreInv, ReclaimTypes
<1>2. Rest(p, "idle") \/ Rest(p, "closed")
  BY FlushRows DEF Opens, StoreInv
<1> QED BY <1>1, <1>2, RestKeeps

(* An operation that goes on as it was while nothing of its own is touched. *)
LEMMA SameKeeps ==
  ASSUME OnePerDevice, StoreInv, NEW p \in Process, Others(p), Frame(p), At(p, "idle"), UNCHANGED <<job, pinned, objects>>,
         KeptAt(Home[p])'
  PROVE  KeepInv'
<1>1. job[p].pc = "idle" /\ job'[p] = job[p] /\ JobKeeps(p) /\ ReclaimTypes
  BY DEF At, StoreInv, KeepInv
<1>2. \A s \in job[p].slabs : Own(p, s)'
  BY <1>1, OwnStays DEF JobKeeps, Frees
<1>3. JobKeeps(p)' /\ PinsNew(p)
  BY <1>1, <1>2 DEF JobKeeps, Lands, Frees, Moving, Empties, PinsNew, At, Writing
<1> QED BY <1>3, KeepStep

LEMMA QueuesKeep ==
  ASSUME OnePerDevice, StoreInv, NEW p \in Process, Queues(p)
  PROVE  KeepInv'
<1>1. Frame(p) /\ Others(p) /\ UNCHANGED <<catalog, pinned, objects, mem>>
  BY QueueFrame, StepStage DEF Queues, StoreInv, ReclaimTypes
<1>2. CASE FlushDrop(p)
  BY <1>1, <1>2, FlushRows, RestKeeps DEF StoreInv
<1>3. ASSUME NEW r \in Record, Remember(p, r) PROVE KeepInv'
  <2>1. UNCHANGED job /\ At(p, "idle")
    BY <1>3 DEF Remember
  <2>2. KeptAt(Home[p])'
    BY <1>1, KeptStays
  <2> QED BY <1>1, <2>1, <2>2, SameKeeps
<1> QED BY <1>2, <1>3 DEF Queues

LEMMA WritesKeep ==
  ASSUME OnePerDevice, StoreInv, NEW p \in Process, Writes(p)
  PROVE  KeepInv'
<1>1. ReclaimTypes /\ JobKeeps(p) /\ JobLedger(p) /\ JobStage(p)
  BY DEF StoreInv, KeepInv, LedgerInv, ReclaimTypes, JobTypes
<1>2. Frame(p) /\ Others(p) /\ UNCHANGED <<catalog, pinned, objects, mem, taken>>
  BY <1>1, WritesFrame, StepStage DEF Writes
<1>3. Len(owner) + 1 \notin Known
  BY <1>1, <1>2, KnownGrows
<1>4. KeptAt(Home[p])'
  BY <1>2, KeptStays
<1>5. JobKeeps(p)' /\ PinsNew(p)
  <2>1. CASE FlushWrite(p)
    <3>1. /\ job'[p].cmd = "flush" /\ job'[p].pc = "pinslab" /\ job'[p].todo = job'[p].recs
          /\ job'[p].slab = Len(owner) + 1 /\ job'[p].slabs = {}
      BY <1>1, <2>1, FlushRows DEF Row
    <3> QED BY <1>3, <3>1 DEF JobKeeps, Lands, Frees, Moving, Empties, PinsNew, At, Writing
  <2>2. CASE RepackWrite(p)
    <3>1. /\ job'[p].cmd = "repack" /\ job'[p].pc = "pinslab" /\ job'[p].todo = job[p].recs
          /\ job'[p].recs = job[p].recs /\ job'[p].slab = Len(owner) + 1
          /\ job'[p].objs = job[p].objs /\ job'[p].slabs = job[p].slabs
      BY <1>1, <2>2, RepackRows DEF Row
    <3>2. job[p].pc = "read" /\ job[p].cmd = "repack"
      BY <1>1, <2>2 DEF RepackWrite, At, JobStage
    <3>3. Lands(p)' /\ Empties(p)' /\ PinsNew(p)
      BY <1>3, <3>1 DEF Lands, Empties, PinsNew, At, Writing
    <3>4. \A s \in job[p].slabs : Own(p, s)'
      BY <1>1, <1>2, OwnStays DEF JobKeeps, Frees
    <3>5. Frees(p)'
      BY <3>1, <3>4 DEF Frees, At
    <3>6. Len(owner) + 1 \notin job[p].slabs
      BY <1>1, <1>3 DEF JobLedger
    <3>7. Moving(p)'
      BY <1>1, <1>2, <3>1, <3>2, <3>6 DEF JobKeeps, Moving, At, Writing
    <3> QED BY <3>3, <3>5, <3>7 DEF JobKeeps
  <2> QED BY <2>1, <2>2 DEF Writes
<1> QED BY <1>2, <1>4, <1>5, KeepStep

(* A batch under way goes on with what it has to retire. *)
LEMMA WritingKeeps ==
  ASSUME StoreInv, NEW p \in Process, Frame(p), Writing(p), Lands(p)',
         job'[p].pc \in {"pinobj", "catalog"}, job'[p].cmd = job[p].cmd, job'[p].recs = job[p].recs,
         job'[p].slab = job[p].slab, job'[p].objs = job[p].objs, job'[p].slabs = job[p].slabs,
         \A r \in Record : mem'[p][r] # None => mem[p][r] # None \/ r \in job[p].recs,
         job[p].cmd = "repack" /\ job'[p].pc = "catalog" =>
           \A r \in job'[p].recs \ job'[p].todo : mem'[p][r] = job[p].slab
  PROVE  JobKeeps(p)' /\ PinsNew(p)
<1>1. ReclaimTypes /\ JobKeeps(p) /\ JobStage(p)
  BY DEF StoreInv, KeepInv, ReclaimTypes, JobTypes
<1>2. job[p].cmd \in {"flush", "repack"}
  BY <1>1 DEF JobStage, Writing
<1>3. \A s \in job[p].slabs : Own(p, s)'
  BY <1>1, OwnStays DEF JobKeeps, Frees
<1>4. Frees(p)'
  BY <1>3 DEF Frees, At
<1>5. Moving(p)'
  BY <1>1 DEF JobKeeps, Moving, Writing, At
<1>6. Empties(p)' /\ PinsNew(p)
  BY <1>2 DEF Empties, PinsNew
<1> QED BY <1>4, <1>5, <1>6 DEF JobKeeps

LEMMA PinsKeep ==
  ASSUME OnePerDevice, StoreInv, NEW p \in Process, Pins(p)
  PROVE  KeepInv'
<1>1. /\ ReclaimTypes /\ JobKeeps(p) /\ JobLedger(p) /\ JobStage(p) /\ KeptAt(Home[p]) /\ Entitled(Home[p])
  BY HomeAssumption DEF StoreInv, KeepInv, LedgerInv, ReclaimTypes, JobTypes
<1>2. Frame(p) /\ Others(p) /\ UNCHANGED <<catalog, mem, taken, owner>> /\ Known' = Known
  BY <1>1, PinsFrame, StepStage DEF Pins, Known
<1>3. CASE PinSlabs(p)
  <2>1. /\ job[p].pc = "pinslab" /\ job'[p].cmd = job[p].cmd /\ job'[p].pc = "pinobj" /\ job'[p].recs = job[p].recs
        /\ job'[p].todo = job[p].todo /\ job'[p].slab = job[p].slab
        /\ job'[p].objs = job[p].objs /\ job'[p].slabs = job[p].slabs
    BY <1>1, <1>3, FlushRows DEF PinSlabs, At, OnTo, Row
  <2>2. job[p].todo = job[p].recs
    BY <1>1, <2>1 DEF JobKeeps, Lands, At
  <2>3. Lands(p)'
    BY <2>1, <2>2 DEF Lands, At, Writing
  <2>4. JobKeeps(p)' /\ PinsNew(p)
    BY <1>2, <2>1, <2>3, WritingKeeps DEF Writing
  <2>5. pinned \subseteq pinned' /\ objects \subseteq objects'
    BY <1>3 DEF PinSlabs
  <2> QED BY <1>2, <2>4, <2>5, KeptStays, KeepStep
<1>4. ASSUME NEW r \in Record, PinObject(p, r) PROVE KeepInv'
  <2>1. pinned' = pinned /\ objects \subseteq objects' /\ job[p].pc = "pinobj"
    BY <1>4 DEF PinObject, At
  <2>2. KeptAt(Home[p])'
    BY <1>2, <2>1, KeptStays
  <2>3. CASE job[p].slab \notin pinned
    <3>1. Rest(p, "idle")
      BY <1>1, <1>4, <2>3, FlushRows
    <3> QED BY <1>2, <2>2, <3>1, IdleKeeps, KeepStep DEF Rest, Row
  <2>4. CASE job[p].slab \in pinned
    <3>1. /\ job'[p].cmd = job[p].cmd /\ job'[p].pc = job[p].pc /\ job'[p].recs = job[p].recs
          /\ job'[p].todo = job[p].todo \ {r} /\ job'[p].slab = job[p].slab
          /\ job'[p].objs = job[p].objs /\ job'[p].slabs = job[p].slabs
      BY <1>1, <1>4, <2>4, FlushRows DEF Row
    <3>2. objects' = objects \cup {<<r, job[p].slab>>}
      BY <1>4, <2>4 DEF PinObject
    <3>3. Lands(p)'
      BY <1>1, <1>2, <2>1, <2>4, <3>1, <3>2 DEF JobKeeps, Lands, At, Writing
    <3>4. JobKeeps(p)' /\ PinsNew(p)
      BY <1>2, <2>1, <3>1, <3>3, WritingKeeps DEF Writing
    <3> QED BY <1>2, <2>2, <3>4, KeepStep
  <2> QED BY <2>3, <2>4
<1>5. ASSUME NEW o \in Object, DeleteObject(p, o) PROVE KeepInv'
  <2>1. /\ job[p].pc = "delete" /\ job'[p].cmd = job[p].cmd /\ job'[p].pc = job[p].pc
        /\ job'[p].objs = job[p].objs \ {o} /\ job'[p].slabs = job[p].slabs
    BY <1>1, <1>5, SweepRows DEF DeleteObject, At, Row
  <2>2. objects' = objects \ {o} /\ pinned' = pinned /\ o \in job[p].objs
    BY <1>5 DEF DeleteObject
  <2>3. \A x \in job[p].objs :
          Dead(x[2]) \/ (Own(p, x[2]) /\ (x[2] \in taken \/ catalog[Home[p]][x[1]] # x[2]))
    BY <1>1, <2>1 DEF JobKeeps, Frees, At
  <2>4. ASSUME NEW r \in Record, catalog[Home[p]][r] # None, owner[catalog[Home[p]][r]] = Home[p],
               catalog[Home[p]][r] \notin taken
        PROVE  <<r, catalog[Home[p]][r]>> \in objects' /\ catalog[Home[p]][r] \in pinned'
    <3>1. <<r, catalog[Home[p]][r]>> \in objects /\ catalog[Home[p]][r] \in pinned
      BY <1>1, <2>4 DEF KeptAt
    <3>2. o # <<r, catalog[Home[p]][r]>>
      BY <2>2, <2>3, <2>4, <3>1 DEF Dead
    <3> QED BY <2>2, <3>1, <3>2
  <2>5. KeptAt(Home[p])'
    BY <1>2, <2>4 DEF KeptAt
  <2>6. PinsNew(p)
    BY <2>1 DEF PinsNew
  <2>7. \A s : Dead(s) => Dead(s)'
    BY <1>1, <1>2, <2>6, DeadStays
  <2>8. /\ \A s \in job[p].slabs : Own(p, s)' /\ Unused(p, s)'
        /\ \A s : Own(p, s) => Own(p, s)'
    BY <1>1, <1>2, <2>1 DEF JobKeeps, Frees, Own, Unused
  <2>9. Frees(p)'
    BY <1>2, <2>1, <2>3, <2>7, <2>8 DEF Frees, At
  <2>10. Empties(p)'
    BY <1>1, <1>2, <2>1, <2>2 DEF JobKeeps, Empties
  <2>11. JobKeeps(p)'
    BY <2>1, <2>9, <2>10 DEF JobKeeps, Lands, Moving, At, Writing
  <2> QED BY <1>2, <2>5, <2>6, <2>11, KeepStep
<1>6. ASSUME NEW s \in Slab, UnpinSlab(p, s) PROVE KeepInv'
  <2>1. /\ job[p].pc = "unpin" /\ job'[p].cmd = job[p].cmd /\ job'[p].pc = "unledger"
        /\ job'[p].objs = job[p].objs /\ job'[p].slabs = job[p].slabs \ {s}
    BY <1>1, <1>6, SweepRows DEF UnpinSlab, At, Row
  <2>2. objects' = objects /\ pinned' = pinned \ {s} /\ s \in job[p].slabs
    BY <1>6 DEF UnpinSlab
  <2>3. /\ \A t \in job[p].slabs : Own(p, t) /\ Unused(p, t)
        /\ job[p].objs = {}
    BY <1>1, <2>1 DEF JobKeeps, Frees
  <2>4. KeptAt(Home[p])'
    BY <1>1, <1>2, <2>2, <2>3 DEF KeptAt, Unused
  <2>5. Frees(p)'
    BY <1>2, <2>1, <2>3 DEF Frees, Own, Unused, At
  <2>6. Empties(p)'
    BY <1>1, <1>2, <2>1, <2>2 DEF JobKeeps, Empties
  <2>7. JobKeeps(p)' /\ PinsNew(p)
    BY <2>1, <2>5, <2>6 DEF JobKeeps, Lands, Moving, PinsNew, At, Writing
  <2> QED BY <1>2, <2>4, <2>7, KeepStep
<1> QED BY <1>3, <1>4, <1>5, <1>6 DEF Pins

LEMMA EntriesKeep ==
  ASSUME OnePerDevice, StoreInv, NEW p \in Process, Entries(p)
  PROVE  KeepInv'
<1>1. /\ ReclaimTypes /\ DeviceTypes /\ JobKeeps(p) /\ JobLedger(p) /\ JobStage(p) /\ KeptAt(Home[p])
  BY HomeAssumption DEF StoreInv, KeepInv, LedgerInv, ReclaimTypes, JobTypes
<1>2. Frame(p) /\ Others(p) /\ UNCHANGED <<ledger, pinned, objects, owner, taken>>
  BY <1>1, EntriesFrame, StepStage DEF Entries
<1>3. ASSUME NEW r \in Record, NEW s \in Slab \cup {None}, AppendEntry(p, r, s),
             s # None /\ owner[s] = Home[p] /\ s \notin taken => <<r, s>> \in objects /\ s \in pinned
      PROVE  KeptAt(Home[p])'
  <2>1. \A t \in Record : catalog'[Home[p]][t] = IF t = r THEN s ELSE catalog[Home[p]][t]
    BY <1>1, <1>3, AppendEntryFrame
  <2> QED BY <1>1, <1>2, <1>3, <2>1 DEF KeptAt
<1>4. ASSUME NEW r \in Record, RecordEntry(p, r) PROVE KeepInv'
  <2>1. /\ job[p].pc = "catalog" /\ r \in job[p].todo /\ job'[p].cmd = job[p].cmd /\ job'[p].pc = job[p].pc
        /\ job'[p].recs = job[p].recs /\ job'[p].todo = job[p].todo \ {r} /\ job'[p].slab = job[p].slab
        /\ job'[p].objs = job[p].objs /\ job'[p].slabs = job[p].slabs
    BY <1>1, <1>4, FlushRows DEF RecordEntry, At, Row
  <2>2. r \in job[p].recs /\ Writing(p)
    BY <1>1, <2>1 DEF JobStage, Writing
  <2>3. PICK s \in Slab : s = job[p].slab
    BY <1>1, <2>1 DEF JobStage
  <2>4. AppendEntry(p, r, s)
    BY <1>1, <1>4, <2>3, EntriesFrame DEF Entries
  <2>5. s \notin taken => <<r, s>> \in objects /\ s \in pinned
    BY <1>1, <2>1, <2>2, <2>3 DEF JobKeeps, Lands, At
  <2>6. KeptAt(Home[p])'
    BY <1>3, <2>4, <2>5
  <2>7. \A t \in Record : mem'[p][t] = IF t = r THEN s ELSE mem[p][t]
    BY <1>1, <2>4, AppendEntryFrame
  <2>8. Lands(p)'
    BY <1>1, <1>2, <2>1 DEF JobKeeps, Lands, At, Writing
  <2>9. job[p].recs \subseteq Record
    BY <1>1 DEF ReclaimTypes, JobTypes, JobRow
  <2>10. job[p].cmd = "repack" => \A t \in job'[p].recs \ job'[p].todo : mem'[p][t] = job[p].slab
    BY <1>1, <2>1, <2>3, <2>7, <2>9 DEF JobKeeps, Moving, At
  <2>11. \A t \in Record : mem'[p][t] # None => mem[p][t] # None \/ t \in job[p].recs
    BY <2>2, <2>7
  <2>12. JobKeeps(p)' /\ PinsNew(p)
    BY <1>2, <2>1, <2>2, <2>8, <2>10, <2>11, WritingKeeps
  <2> QED BY <1>2, <2>6, <2>12, KeepStep
<1>5. ASSUME NEW r \in Record, Forget(p, r) PROVE KeepInv'
  <2>1. At(p, "idle") /\ UNCHANGED job
    BY <1>5 DEF Forget
  <2>2. CASE AppendEntry(p, r, None)
    <3>1. KeptAt(Home[p])'
      BY <1>3, <2>2
    <3> QED BY <1>2, <2>1, <3>1, SameKeeps
  <2>3. CASE UNCHANGED <<catalog, mem>>
    <3>1. KeptAt(Home[p])'
      BY <1>2, <2>3, KeptStays
    <3> QED BY <1>2, <2>1, <3>1, SameKeeps
  <2> QED BY <1>1, <1>5, <2>2, <2>3, EntriesFrame DEF Entries
<1>6. ASSUME NEW o \in Object, HydrateAppend(p, o) PROVE KeepInv'
  <2>1. PICK r \in Record, s \in Slab : o = <<r, s>> /\ o[1] = r /\ o[2] = s
    BY DEF Object
  <2>2. AppendEntry(p, r, s) /\ <<r, s>> \in objects /\ s \in pinned
    BY <1>6, <2>1 DEF HydrateAppend, Readable
  <2>3. KeptAt(Home[p])'
    BY <1>3, <2>2
  <2>4. job'[p].pc = "adopt" /\ job'[p].objs = {} /\ job'[p].slabs = {}
    BY <1>1, <1>6, SweepRows DEF Row
  <2>5. JobKeeps(p)' /\ PinsNew(p)
    BY <2>4, IdleKeeps
  <2> QED BY <1>2, <2>3, <2>5, KeepStep
<1> QED BY <1>4, <1>5, <1>6 DEF Entries

LEMMA LedgersKeep ==
  ASSUME OnePerDevice, StoreInv, NEW p \in Process, Ledgers(p)
  PROVE  KeepInv'
<1>1. ReclaimTypes /\ JobKeeps(p)
  BY DEF StoreInv, KeepInv
<1>2. Frame(p) /\ Others(p) /\ UNCHANGED <<catalog, pinned, objects, mem, owner>>
  BY <1>1, LedgerFrame, StepStage DEF Ledgers
<1>3. KeptAt(Home[p])'
  BY <1>2, KeptStays
<1>4. CASE HydrateAdopt(p)
  BY <1>1, <1>2, <1>4, SweepRows, RestKeeps
<1>5. CASE ForgetSlab(p)
  <2>1. /\ job[p].pc = "unledger" /\ job'[p].cmd = job[p].cmd /\ job'[p].pc = "unpin"
        /\ job'[p].objs = job[p].objs /\ job'[p].slabs = job[p].slabs /\ UNCHANGED taken
    BY <1>1, <1>5, SweepRows DEF ForgetSlab, history, At, OnTo, Row
  <2>2. Frees(p)' /\ Empties(p)'
    BY <1>1, <1>2, <2>1 DEF JobKeeps, Frees, Empties, Own, Known, Unused, At
  <2>3. JobKeeps(p)' /\ PinsNew(p)
    BY <2>1, <2>2 DEF JobKeeps, Lands, Moving, PinsNew, At, Writing
  <2> QED BY <1>2, <1>3, <2>3, KeepStep
<1>6. CASE TakeOwnership(p)
  <2>1. At(p, "idle") /\ UNCHANGED job
    BY <1>6 DEF TakeOwnership
  <2> QED BY <1>2, <1>3, <2>1, SameKeeps
<1> QED BY <1>4, <1>5, <1>6 DEF Ledgers

LEMMA InitKeeps == Init => KeepInv
<1> SUFFICES ASSUME Init PROVE KeepInv
  OBVIOUS
<1>1. \A d \in Device : KeptAt(d)
  BY DEF Init, KeptAt
<1>2. ASSUME NEW p \in Process PROVE JobKeeps(p)
  <2>1. job[p].pc = "closed" /\ job[p].slabs = {} /\ job[p].objs = {}
    BY DEF Init, Closed, Idle
  <2> QED BY <2>1 DEF JobKeeps, Lands, Frees, Moving, Empties, At, Writing
<1> QED BY <1>1, <1>2 DEF KeepInv

LEMMA NextKeeps ==
  ASSUME OnePerDevice, OrphansAlone, StoreInv, [Next]_vars
  PROVE  KeepInv'
<1>1. CASE Next
  <2>1. PICK p \in Process : \/ Plans(p) \/ Opens(p) \/ Queues(p) \/ Writes(p) \/ Pins(p)
                             \/ Entries(p) \/ Ledgers(p)
    BY <1>1, NextSteps
  <2> QED BY <2>1, AllPlansKeep, OpensKeep, QueuesKeep, WritesKeep, PinsKeep, EntriesKeep, LedgersKeep
<1>2. CASE UNCHANGED vars
  <2>1. UNCHANGED <<catalog, pinned, objects, mem, job, owner, taken>>
    BY <1>2 DEF vars
  <2>2. (\A d \in Device : KeptAt(d)') /\ \A p \in Process : Lands(p)' /\ Moving(p)' /\ Empties(p)'
    BY <2>1 DEF StoreInv, KeepInv, JobKeeps, KeptAt, Lands, Moving, Empties, At, Writing
  <2>3. \A p \in Process : Frees(p)'
    BY <2>1 DEF StoreInv, KeepInv, JobKeeps, Frees, Own, Known, Unused, Dead, At
  <2> QED BY <2>2, <2>3 DEF KeepInv, JobKeeps
<1> QED BY <1>1, <1>2

LEMMA StoreIsKept ==
  ASSUME OnePerDevice, OrphansAlone
  PROVE  Spec => []StoreInv
<1>1. Init => StoreInv
  BY InitTypes, InitLedger, InitSweep, InitKeeps DEF StoreInv
<1>2. StoreInv /\ [Next]_vars => StoreInv'
  <2> SUFFICES ASSUME StoreInv, [Next]_vars PROVE StoreInv'
    OBVIOUS
  <2>1. ReclaimTypes'
    BY NextTypes DEF StoreInv
  <2>2. LedgerInv' /\ SweepInv'
    BY <2>1, NextLedger, NextSweep DEF StoreInv
  <2> QED BY <2>1, <2>2, NextKeeps DEF StoreInv
<1> QED BY <1>1, <1>2, PTL DEF Spec

(***************************************************************************)
(* No command costs a device a record: flushes, forgets, hydrates, sweeps, *)
(* releases of orphans, drops of unreadable objects and repacks, stopped   *)
(* wherever a fault or a crash stops them, leave every record a device has *)
(* catalogued on a slab of its own where the catalog says it is, with one  *)
(* process on a device and, where orphans are released, one device.        *)
(***************************************************************************)
THEOREM CataloguedIsAlwaysKept == OnePerDevice /\ OrphansAlone => (Spec => []Kept)
<1> SUFFICES ASSUME OnePerDevice, OrphansAlone PROVE Spec => []Kept
  OBVIOUS
<1>1. StoreInv => Kept
  BY DEF StoreInv, KeepInv, KeptAt, Kept, Readable
<1> QED BY <1>1, StoreIsKept, PTL

(***************************************************************************)
(* Objects first, then slabs: no step of a sweep or of a release of        *)
(* orphans unpins a slab that holds an object the indexer lists, so what   *)
(* stops either of them halfway strands nothing.                           *)
(***************************************************************************)
THEOREM SweepsStrandNothing == OnePerDevice /\ OrphansAlone => (Spec => StrandsNothing)
<1> SUFFICES ASSUME OnePerDevice, OrphansAlone PROVE Spec => StrandsNothing
  OBVIOUS
<1> DEFINE Step == \A p \in Process :
                     job[p].cmd \in {"sweep", "orphans"} /\ job'[p] # job[p] =>
                       \A o \in objects' : o[2] \in pinned \ taken => o[2] \in pinned'
<1>1. StoreInv /\ [Next]_vars => [Step]_vars
  <2> SUFFICES ASSUME StoreInv, Next, NEW p \in Process, job[p].cmd \in {"sweep", "orphans"}, job'[p] # job[p],
                      NEW o \in objects', o[2] \in pinned \ taken, o[2] \notin pinned'
               PROVE  FALSE
    OBVIOUS
  <2>1. PICK q \in Process : \/ Plans(q) \/ Opens(q) \/ Queues(q) \/ Writes(q) \/ Pins(q)
                             \/ Entries(q) \/ Ledgers(q)
    BY NextSteps
  <2>2. Frame(q) /\ Others(q)
    BY <2>1, StepFrame, StepStage DEF StoreInv
  <2>3. p = q
    BY <2>2 DEF Others
  <2>4. At(p, "unpin") /\ o[2] \in job[p].slabs /\ o \in objects
    BY <2>2, <2>3 DEF Frame, At
  <2>5. Empties(p) /\ Frees(p)
    BY DEF StoreInv, KeepInv, JobKeeps
  <2> QED BY <2>4, <2>5 DEF Empties, Frees, At
<1> QED BY <1>1, StoreIsKept, PTL DEF Spec, StrandsNothing

-----------------------------------------------------------------------------
(* Without repack, nothing is ever left over a slab that was released.     *)

(* An operation with slabs to release is a sweep or a release of orphans. *)
Careful(p) ==
  /\ job[p].cmd # "repack"
  /\ job[p].slabs # {} => job[p].cmd \in {"sweep", "orphans"}

NoRepack == "repack" \notin Commands
NoTakeover == "ownership" \notin Commands

CleanInv == taken = {} /\ NoneUnreadable /\ \A p \in Process : Careful(p)

LEMMA CarefulStep ==
  ASSUME NoRepack, ReclaimTypes, NEW p \in Process, Careful(p),
         Plans(p) \/ Opens(p) \/ Queues(p) \/ Writes(p) \/ Pins(p) \/ Entries(p) \/ Ledgers(p)
  PROVE  Careful(p)'
<1> USE DEF Careful
<1>1. JobStage(p)
  BY DEF ReclaimTypes, JobTypes
<1>2. ASSUME NEW pc, Rest(p, pc) PROVE Careful(p)'
  BY <1>2 DEF Rest, Row
<1>3. ASSUME NEW pc, NEW recs, NEW todo, NEW slab, NEW objs, NEW slabs, slabs \subseteq job[p].slabs,
             Row(p, job[p].cmd, pc, recs, todo, slab, objs, slabs)
      PROVE  Careful(p)'
  BY <1>3 DEF Row
<1>4. CASE UNCHANGED job
  BY <1>4
<1>5. CASE Opens(p) \/ FlushDrop(p) \/ Released(p) \/ HydrateAdopt(p)
  BY <1>2, <1>5, FlushRows, SweepRows DEF Opens
<1>6. CASE FlushWrite(p)
  BY <1>6, FlushRows DEF Row
<1>7. ~RepackBegin(p) /\ ~RepackWrite(p) /\ ~RepackRetire(p) /\ \A r \in Record : ~RepackRead(p, r)
  BY <1>1 DEF NoRepack, RepackBegin, RepackWrite, RepackRetire, RepackRead, JobStage, At
<1>8. CASE PinSlabs(p) \/ Written(p)
  BY <1>8, FlushRows DEF OnTo, Row
<1>9. ASSUME NEW r \in Record, PinObject(p, r) \/ RecordEntry(p, r) PROVE Careful(p)'
  BY <1>2, <1>3, <1>9, FlushRows
<1>10. ASSUME NEW o \in Object, DeleteObject(p, o) PROVE Careful(p)'
  BY <1>10, SweepRows DEF Row
<1>11. ASSUME NEW s \in Slab, UnpinSlab(p, s) PROVE Careful(p)'
  <2>1. Row(p, job[p].cmd, "unledger", job[p].recs, job[p].todo, s, job[p].objs, job[p].slabs \ {s})
    BY <1>11, SweepRows
  <2> QED BY <2>1 DEF Row
<1>12. ASSUME NEW o \in Object, HydrateAppend(p, o) PROVE Careful(p)'
  BY <1>12, SweepRows DEF Row
<1>13. CASE SweepBegin(p) \/ Deleted(p) \/ ForgetSlab(p)
  BY <1>13, SweepRows DEF OnTo, Row
<1>14. CASE SweepWalk(p)
  <2>1. job'[p].cmd = job[p].cmd /\ job[p].cmd = "sweep"
    BY <1>1, <1>14, SweepRows DEF SweepWalk, At, Row, JobStage
  <2> QED BY <2>1
<1>15. CASE OrphansBegin(p) \/ DropUnreadable(p)
  BY <1>15, RepackRows DEF Row
<1>16. CASE OrphansWalk(p)
  <2>1. job[p].slabs \ Occupied \subseteq job[p].slabs
    OBVIOUS
  <2> QED BY <1>2, <1>3, <1>16, <2>1, RepackRows
<1>17. ASSUME NEW r \in Record, Remember(p, r) \/ Forget(p, r) PROVE UNCHANGED job
  BY <1>17 DEF Remember, Forget
<1>18. TakeOwnership(p) => UNCHANGED job
  BY DEF TakeOwnership
<1> QED BY <1>4, <1>5, <1>6, <1>7, <1>8, <1>9, <1>10, <1>11, <1>12, <1>13, <1>14, <1>15, <1>16,
           <1>17, <1>18 DEF Plans, Queues, Writes, Pins, Entries, Ledgers

(* Only TakeOwnership takes a slab over. *)
LEMMA NothingTaken ==
  ASSUME NoTakeover, ReclaimTypes, NEW p \in Process,
         Plans(p) \/ Opens(p) \/ Queues(p) \/ Writes(p) \/ Pins(p) \/ Entries(p) \/ Ledgers(p)
  PROVE  taken' = taken
<1>1. Plans(p) => taken' = taken
  BY PlansFrame DEF ReclaimTypes, shared
<1>2. Opens(p) \/ Queues(p) \/ Writes(p) => taken' = taken
  BY DEF Opens, Open, Close, Crash, Fails, Queues, Remember, FlushDrop, Writes, FlushWrite, RepackWrite,
         history
<1>3. Pins(p) \/ Entries(p) => taken' = taken
  BY DEF Pins, PinSlabs, PinObject, DeleteObject, UnpinSlab, Entries, RecordEntry, Forget, HydrateAppend,
         history
<1>4. Ledgers(p) => taken' = taken
  BY DEF Ledgers, HydrateAdopt, ForgetSlab, TakeOwnership, NoTakeover, history
<1> QED BY <1>1, <1>2, <1>3, <1>4

LEMMA CleanStep ==
  ASSUME NoRepack, NoTakeover, StoreInv, CleanInv, Next
  PROVE  CleanInv'
<1>1. PICK p \in Process : \/ Plans(p) \/ Opens(p) \/ Queues(p) \/ Writes(p) \/ Pins(p)
                           \/ Entries(p) \/ Ledgers(p)
  BY NextSteps
<1>2. ReclaimTypes /\ Careful(p) /\ Empties(p) /\ Frees(p)
  BY DEF StoreInv, KeepInv, JobKeeps, CleanInv
<1>3. Frame(p) /\ Others(p)
  BY <1>1, <1>2, StepFrame, StepStage
<1>4. taken' = {}
  BY <1>1, <1>2, NothingTaken DEF CleanInv
<1>5. \A q \in Process : Careful(q)'
  <2>1. Careful(p)'
    BY <1>1, <1>2, CarefulStep
  <2>2. \A q \in Process : q # p => Careful(q)'
    BY <1>3 DEF Others, CleanInv, Careful
  <2> QED BY <2>1, <2>2
<1>6. ASSUME NEW o \in objects' PROVE o[2] \in pinned'
  <2>1. o[2] \in pinned
    BY <1>3, <1>6 DEF Frame, CleanInv, NoneUnreadable
  <2>2. ASSUME o[2] \notin pinned' PROVE FALSE
    <3>1. At(p, "unpin") /\ o[2] \in job[p].slabs
      BY <1>3, <2>1, <2>2 DEF Frame
    <3>2. job[p].cmd \in {"sweep", "orphans"} /\ job[p].objs = {}
      BY <1>2, <3>1 DEF Careful, Frees, At
    <3>3. o \in objects
      BY <1>3, <3>1 DEF Frame, At
    <3> QED BY <1>2, <2>1, <3>1, <3>2, <3>3 DEF Empties, At, CleanInv
  <2> QED BY <2>2
<1> QED BY <1>4, <1>5, <1>6 DEF CleanInv, NoneUnreadable

(***************************************************************************)
(* Only repack leaves an object listed over a slab that is gone: while     *)
(* nobody repacks and no device takes over another's slabs, flushes,       *)
(* sweeps, releases of orphans and drops of unreadable objects, stopped    *)
(* anywhere, keep the order store/reclaim/reclaim.go insists on.           *)
(***************************************************************************)
THEOREM OnlyRepackStrands ==
  OnePerDevice /\ OrphansAlone /\ NoRepack /\ NoTakeover => (Spec => []NoneUnreadable)
<1> SUFFICES ASSUME OnePerDevice, OrphansAlone, NoRepack, NoTakeover PROVE Spec => []NoneUnreadable
  OBVIOUS
<1>1. Init => CleanInv
  BY RestIsTyped DEF Init, CleanInv, NoneUnreadable, Careful
<1>2. StoreInv /\ CleanInv /\ [Next]_vars => CleanInv'
  <2>1. StoreInv /\ CleanInv /\ UNCHANGED vars => CleanInv'
    BY DEF vars, CleanInv, NoneUnreadable, Careful
  <2> QED BY <2>1, CleanStep
<1>3. CleanInv => NoneUnreadable
  BY DEF CleanInv
<1> QED BY <1>1, <1>2, <1>3, StoreIsKept, PTL DEF Spec
=============================================================================
