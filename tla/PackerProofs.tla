---------------------------- MODULE PackerProofs ----------------------------
(***************************************************************************)
(* The safety of the write path, for any number of processes, threads,     *)
(* records, slabs and faults, and for any ClaimTimeout, whether or not     *)
(* flushes outlive it (Packer), and of what it tells a writer (Durability).*)
(***************************************************************************)
EXTENDS Durability, TLAPS, FiniteSetTheorems

(* The size of any part of the queue is a number. *)
LEMMA SizeIsNat == ASSUME NEW S \in SUBSET Record PROVE Cardinality(S) \in Nat
  BY RecordAssumption, FS_Subset, FS_CardinalityType

USE DEF device, indexer

(* Init gives every variable a value of its type. *)
LEMMA TypeInit == Init => TypeOK
  BY RecordAssumption, BoundAssumption, TimeoutAssumption
  DEF Init, TypeOK, Quiet, Rest, FlushRecord, Holding, Writing, Placed, Entry, Slab,
      Free, None

(* A step of a call keeps the types. *)
LEMMA TypeCall ==
  ASSUME TypeOK, NEW p \in Process, Call(p) PROVE TypeOK'
<1> USE DEF TypeOK
<1>1. CASE Open(p)
  <2>1. Cardinality(queued) \in Nat BY SizeIsNat
  <2> QED BY <1>1, <2>1 DEF Open
<1>2. Rest \in FlushRecord /\ Rest.pc \notin Placed
  BY BoundAssumption DEF Rest, FlushRecord, Holding, Writing, Placed
<1>3. CASE Close(p) BY <1>2, <1>3 DEF Close, Gone, Entry, None
<1>4. CASE Crash(p) BY <1>2, <1>4, BoundAssumption DEF Crash, Gone, Entry, None
<1>5. CASE Enqueue(p)
  <2>1. op[p] \in Busy BY <1>5 DEF Enqueue, Quiet
  <2>2. [op[p] EXCEPT !.step = "queued"] \in Busy BY <2>1 DEF Busy
  <2>3. op' \in [Process -> {Quiet} \cup Busy] BY <1>5, <2>2 DEF Enqueue
  <2>4. op[p].rec \in Record BY <2>1 DEF Busy
  <2> QED BY <1>5, <2>3, <2>4 DEF Enqueue
<1>6. CASE AddCount(p) BY <1>6 DEF AddCount
<1>7. CASE ForgetCatalog(p)
  <2>1. op[p] \in Busy BY <1>7 DEF ForgetCatalog, Quiet
  <2>2. [op[p] EXCEPT !.step = "removed"] \in Busy BY <2>1 DEF Busy
  <2>3. op' \in [Process -> {Quiet} \cup Busy] BY <1>7, <2>2 DEF ForgetCatalog
  <2>4. op[p].rec \in Record /\ op[p].seen \in Nat BY <2>1 DEF Busy
  <2>5. pending' \in [Process -> Nat]
    BY <1>7, <2>4 DEF ForgetCatalog, SizeAfterWithdraw
  <2>6. Deleted \in Entry BY DEF Entry
  <2>7. catalog' \in [Record -> Entry] BY <1>7, <2>4, <2>6 DEF ForgetCatalog
  <2>8. mem' \in [Process -> [Record -> Entry]]
    <3>1. [mem[p] EXCEPT ![op[p].rec] = Deleted] \in [Record -> Entry]
      BY <2>4, <2>6
    <3> QED BY <1>7, <3>1 DEF ForgetCatalog
  <2>9. status' \in [Record -> {"new", "writing", "kept", "forgetting",
                                "forgotten"}]
    BY <1>7, <2>4 DEF ForgetCatalog
  <2> QED BY <1>7, <2>3, <2>5, <2>7, <2>8, <2>9 DEF ForgetCatalog
<1>8. CASE ForgetBody(p)
  <2>1. op[p] \in Busy BY <1>8 DEF ForgetBody, Quiet
  <2>2. op[p].rec \in Record BY <2>1 DEF Busy
  <2> QED BY <1>8, <2>2 DEF ForgetBody
<1>9. CASE CallFails(p) BY <1>9, BoundAssumption DEF CallFails
<1>10. ASSUME NEW r \in Record, RememberPut(p, r) PROVE TypeOK'
  <2>1. [step |-> "put", rec |-> r, seen |-> 0] \in Busy BY DEF Busy
  <2> QED BY <1>10, <2>1 DEF RememberPut
<1>11. ASSUME NEW r \in Record, ForgetWithdraw(p, r) PROVE TypeOK'
  <2>1. Cardinality(queued') \in Nat BY <1>11, SizeIsNat DEF ForgetWithdraw
  <2>2. [step |-> IF r \in queued THEN "withdrawn" ELSE "unqueued",
         rec |-> r, seen |-> Cardinality(queued')] \in Busy
    BY <2>1 DEF Busy
  <2>3. op' \in [Process -> {Quiet} \cup Busy]
    BY <1>11, <2>2 DEF ForgetWithdraw
  <2> QED BY <1>11, <2>3 DEF ForgetWithdraw
<1> QED
  BY <1>1, <1>3, <1>4, <1>5, <1>6, <1>7, <1>8, <1>9, <1>10, <1>11 DEF Call

(* A step that changes only what thread t holds keeps flush well formed. *)
LEMMA FlushUpdate ==
  ASSUME TypeOK, NEW t \in Thread, NEW f \in FlushRecord,
         f.pc \in Placed => f.slab \in Slab,
         flush' = [flush EXCEPT ![t] = f]
  PROVE  /\ flush' \in [Thread -> FlushRecord]
         /\ \A u \in Thread : flush'[u].pc \in Placed => flush'[u].slab \in Slab
  BY DEF TypeOK

(* A step of a flush keeps the types. *)
LEMMA TypeFlush ==
  ASSUME TypeOK, NEW t \in Thread,
         FlushClaim(t) \/ FlushStep(t) \/ PutBatchFails(t) \/ Abandon(t)
  PROVE  TypeOK'
<1> DEFINE Formed == /\ flush' \in [Thread -> FlushRecord]
                     /\ \A u \in Thread : flush'[u].pc \in Placed
                                             => flush'[u].slab \in Slab
<1>0. /\ t[1] \in Process
      /\ flush[t] \in FlushRecord
      /\ flush[t].batch \in SUBSET Record /\ flush[t].todo \in SUBSET Record
      /\ flush[t].seen \in Nat
      /\ flush[t].pc \in Placed => flush[t].slab \in Slab
  BY HostAssumption DEF Thread, FlushRecord, TypeOK
<1>r. Rest \in FlushRecord /\ Rest.pc = "idle"
  BY BoundAssumption DEF Rest, FlushRecord, Holding, Writing
<1>i. "idle" \notin Placed /\ "claimed" \notin Placed /\ "release" \notin Placed
      /\ "refresh" \notin Placed
  BY DEF Placed
<1>1. CASE FlushClaim(t)
  <2> DEFINE batch == {r \in Record : Claimable(r)}
             f == [Rest EXCEPT !.pc = "claimed", !.batch = batch]
  <2>1. f \in FlushRecord /\ f.pc = "claimed"
    BY <1>r DEF FlushRecord, Holding, Writing
  <2>2. flush' = [flush EXCEPT ![t] = f] BY <1>1 DEF FlushClaim
  <2>3. Formed BY <1>i, <2>1, <2>2, FlushUpdate
  <2>4. claim' \in [Record -> Age \cup {Free}]
    BY <1>1, TimeoutAssumption DEF FlushClaim, Age, TypeOK
  <2> QED BY <1>1, <2>3, <2>4 DEF FlushClaim, TypeOK
<1>2. CASE Upload(t)
  <2> DEFINE f == [flush[t] EXCEPT !.pc = "uploaded", !.slab = uploaded + 1]
  <2>1. uploaded + 1 \in 1..MaxSlab
    BY <1>2, BoundAssumption DEF Upload, TypeOK
  <2>2. f \in FlushRecord /\ f.slab \in Slab
    <3>1. uploaded + 1 \in 0..MaxSlab BY <2>1, BoundAssumption
    <3>2. f \in FlushRecord BY <1>0, <3>1 DEF FlushRecord, Holding, Writing
    <3>3. f.slab = uploaded + 1 BY <1>0 DEF FlushRecord
    <3> QED BY <2>1, <3>2, <3>3 DEF Slab
  <2>3. flush' = [flush EXCEPT ![t] = f] BY <1>2 DEF Upload
  <2>4. Formed BY <2>2, <2>3, FlushUpdate
  <2> QED BY <1>2, <2>1, <2>4 DEF Upload, TypeOK
<1>3. CASE RecordSlabs(t)
  <2> DEFINE f == [flush[t] EXCEPT !.pc = "tracked"]
  <2>1. flush[t].slab \in Slab BY <1>0, <1>3 DEF RecordSlabs, Placed
  <2>2. f \in FlushRecord /\ f.slab \in Slab
    BY <1>0, <2>1 DEF FlushRecord, Holding, Writing
  <2>3. flush' = [flush EXCEPT ![t] = f] BY <1>3 DEF RecordSlabs
  <2>4. Formed BY <2>2, <2>3, FlushUpdate
  <2> QED BY <1>3, <2>1, <2>4 DEF RecordSlabs, TypeOK
<1>4. CASE PinSlabs(t)
  <2> DEFINE f == [flush[t] EXCEPT !.pc = "pinning", !.todo = flush[t].batch]
  <2>1. flush[t].slab \in Slab BY <1>0, <1>4 DEF PinSlabs, Placed
  <2>2. f \in FlushRecord /\ f.slab \in Slab
    BY <1>0, <2>1 DEF FlushRecord, Holding, Writing
  <2>3. flush' = [flush EXCEPT ![t] = f] BY <1>4 DEF PinSlabs
  <2>4. Formed BY <2>2, <2>3, FlushUpdate
  <2> QED BY <1>4, <2>1, <2>4 DEF PinSlabs, TypeOK
<1>5. ASSUME NEW r \in Record, PinObject(t, r) PROVE TypeOK'
  <2> DEFINE left == flush[t].todo \ {r}
             f == [flush[t] EXCEPT
                     !.pc = IF left = {} THEN "catalog" ELSE "pinning",
                     !.todo = IF left = {} THEN flush[t].batch ELSE left]
  <2>1. flush[t].slab \in Slab BY <1>0, <1>5 DEF PinObject, Placed
  <2>2. f \in FlushRecord /\ f.slab \in Slab
    BY <1>0, <2>1 DEF FlushRecord, Holding, Writing
  <2>3. flush' = [flush EXCEPT ![t] = f] BY <1>5 DEF PinObject
  <2>4. Formed BY <2>2, <2>3, FlushUpdate
  <2> QED BY <1>5, <2>1, <2>4 DEF PinObject, TypeOK
<1>6. ASSUME NEW r \in Record, RecordFlush(t, r) PROVE TypeOK'
  <2> DEFINE left == flush[t].todo \ {r}
             f == [flush[t] EXCEPT
                     !.pc = IF left = {} THEN "drop" ELSE "catalog",
                     !.todo = left]
  <2>1. flush[t].slab \in Slab BY <1>0, <1>6 DEF RecordFlush, Placed
  <2>2. f \in FlushRecord /\ f.slab \in Slab
    BY <1>0, <2>1 DEF FlushRecord, Holding, Writing
  <2>3. flush' = [flush EXCEPT ![t] = f] BY <1>6 DEF RecordFlush
  <2>4. Formed BY <2>2, <2>3, FlushUpdate
  <2>5. /\ catalog' \in [Record -> Entry]
        /\ mem' \in [Process -> [Record -> Entry]]
    BY <1>0, <1>6, <2>1 DEF RecordFlush, TypeOK, Entry
  <2> QED BY <1>6, <2>4, <2>5 DEF RecordFlush, TypeOK
<1>7. CASE Release(t)
  <2>1. Formed BY <1>7, <1>r, <1>i, FlushUpdate DEF Release
  <2> QED BY <1>7, <2>1 DEF Release, TypeOK
<1>8. CASE DropQueued(t)
  <2> DEFINE f == [Rest EXCEPT !.pc = "refresh", !.seen = Cardinality(queued')]
  <2>1. Cardinality(queued') \in Nat BY <1>8, SizeIsNat DEF TypeOK, DropQueued
  <2>2. f \in FlushRecord /\ f.pc = "refresh"
    BY <1>r, <2>1 DEF FlushRecord
  <2>3. flush' = [flush EXCEPT ![t] = f] BY <1>8 DEF DropQueued
  <2>4. Formed BY <1>i, <2>2, <2>3, FlushUpdate
  <2> QED BY <1>8, <2>4 DEF DropQueued, TypeOK
<1>9. CASE Refresh(t)
  <2>1. Formed BY <1>9, <1>r, <1>i, FlushUpdate DEF Refresh
  <2> QED BY <1>0, <1>9, <2>1 DEF Refresh, TypeOK
<1>10. CASE PutBatchFails(t)
  <2> DEFINE f == [flush[t] EXCEPT !.pc = "release"]
  <2>1. f \in FlushRecord /\ f.pc = "release" BY <1>0 DEF FlushRecord, Holding
  <2>2. flush' = [flush EXCEPT ![t] = f] BY <1>10 DEF PutBatchFails
  <2>3. Formed BY <1>i, <2>1, <2>2, FlushUpdate
  <2> QED BY <1>10, <2>3, BoundAssumption DEF PutBatchFails, TypeOK
<1>11. CASE Abandon(t)
  <2>1. Formed BY <1>11, <1>r, <1>i, FlushUpdate DEF Abandon
  <2> QED BY <1>11, <2>1, BoundAssumption DEF Abandon, TypeOK
<1> QED
  BY <1>1, <1>2, <1>3, <1>4, <1>5, <1>6, <1>7, <1>8, <1>9, <1>10, <1>11
  DEF FlushStep

(* So does the passing of time. *)
LEMMA TypeTick == TypeOK /\ Tick => TypeOK'
  BY TimeoutAssumption DEF TypeOK, Tick, Ticking, Age, Free

(***************************************************************************)
(* TypeOK is an invariant of the write path.                               *)
(***************************************************************************)
THEOREM TypeCorrect == Spec => []TypeOK
<1>1. Init => TypeOK BY TypeInit
<1>2. TypeOK /\ [Next]_vars => TypeOK'
  <2> SUFFICES ASSUME TypeOK, [Next]_vars PROVE TypeOK' OBVIOUS
  <2>1. CASE UNCHANGED vars BY <2>1 DEF TypeOK, vars
  <2>2. CASE Next BY <2>2, TypeCall, TypeFlush, TypeTick DEF Next
  <2> QED BY <2>1, <2>2
<1> QED BY <1>1, <1>2, PTL DEF Spec

-----------------------------------------------------------------------------
(* Every slab the account is billed for is in the ledger.                  *)

(* A flush past recordSlabs has its slab in the ledger. *)
SlabLedgered ==
  \A t \in Thread : flush[t].pc \in {"tracked", "pinning", "catalog", "drop"}
                       => flush[t].slab \in ledger

LedgerInv == TypeOK /\ SlabLedgered /\ BilledIsLedgered

(***************************************************************************)
(* The ledger only grows and a slab is pinned only from "tracked", which a *)
(* flush reaches by recording its slab: a failure, a crash or a takeover   *)
(* at any point leaves every pinned slab listed.                           *)
(***************************************************************************)
THEOREM BilledIsAlwaysLedgered == Spec => []BilledIsLedgered
<1>1. Init => LedgerInv
  BY TypeInit DEF Init, LedgerInv, SlabLedgered, BilledIsLedgered, Rest
<1>2. LedgerInv /\ TypeOK' /\ [Next]_vars => LedgerInv'
  <2> SUFFICES ASSUME LedgerInv, TypeOK', [Next]_vars
               PROVE  SlabLedgered' /\ BilledIsLedgered'
    BY DEF LedgerInv
  <2> USE DEF LedgerInv, SlabLedgered, BilledIsLedgered
  <2>1. CASE UNCHANGED vars BY <2>1 DEF vars
  <2>2. CASE Tick BY <2>2 DEF Tick
  <2>3. ASSUME NEW p \in Process, Call(p) PROVE SlabLedgered' /\ BilledIsLedgered'
    <3>1. CASE Close(p) \/ Crash(p) BY <3>1 DEF Close, Crash, Gone, Rest
    <3>2. CASE ~(Close(p) \/ Crash(p))
      <4>1. UNCHANGED <<flush, ledger, pinned>>
        BY <2>3, <3>2 DEF Call, Open, Enqueue, AddCount, ForgetCatalog,
           ForgetBody, CallFails, RememberPut, ForgetWithdraw
      <4> QED BY <4>1
    <3> QED BY <3>1, <3>2
  <2>4. ASSUME NEW t \in Thread,
               FlushClaim(t) \/ FlushStep(t) \/ PutBatchFails(t) \/ Abandon(t)
        PROVE  SlabLedgered' /\ BilledIsLedgered'
    <3>0. flush \in [Thread -> FlushRecord] BY DEF TypeOK
    <3> USE DEF FlushRecord
    <3>1. CASE FlushClaim(t) BY <3>0, <3>1 DEF FlushClaim, Rest
    <3>2. CASE Upload(t) BY <3>0, <3>2 DEF Upload
    <3>3. CASE RecordSlabs(t) BY <3>0, <3>3 DEF RecordSlabs
    <3>4. CASE PinSlabs(t) BY <3>0, <3>4 DEF PinSlabs
    <3>5. ASSUME NEW r \in Record, PinObject(t, r)
          PROVE  SlabLedgered' /\ BilledIsLedgered'
      BY <3>0, <3>5 DEF PinObject
    <3>6. ASSUME NEW r \in Record, RecordFlush(t, r)
          PROVE  SlabLedgered' /\ BilledIsLedgered'
      BY <3>0, <3>6 DEF RecordFlush
    <3>7. CASE Release(t) BY <3>0, <3>7 DEF Release, Rest
    <3>8. CASE DropQueued(t) BY <3>0, <3>8 DEF DropQueued, Rest
    <3>9. CASE Refresh(t) BY <3>0, <3>9 DEF Refresh, Rest
    <3>10. CASE PutBatchFails(t) BY <3>0, <3>10 DEF PutBatchFails
    <3>11. CASE Abandon(t) BY <3>0, <3>11 DEF Abandon, Rest
    <3> QED
      BY <2>4, <3>1, <3>2, <3>3, <3>4, <3>5, <3>6, <3>7, <3>8, <3>9, <3>10,
         <3>11 DEF FlushStep
  <2> QED BY <2>1, <2>2, <2>3, <2>4 DEF Next
<1> QED BY <1>1, <1>2, TypeCorrect, PTL DEF Spec, LedgerInv

-----------------------------------------------------------------------------
(* No record that was promised is lost.                                    *)

(* Enqueue has run for the record. *)
Begun(r) == status[r] \in {"kept", "forgetting", "forgotten"}

(***************************************************************************)
(* Only a record that has been queued is in the queue, in a batch or in a  *)
(* catalog, and each one is being written by at most one Remember.         *)
(***************************************************************************)
OnlyBegun ==
  /\ \A r \in queued : Begun(r)
  /\ \A t \in Thread : \A r \in flush[t].batch : Begun(r)
  /\ \A r \in Record : catalog[r] \in Slab => Begun(r)
  /\ \A p \in Process : \A r \in Record : mem[p][r] \in Slab => Begun(r)
  /\ \A p \in Process :
       op[p].step \in {"withdrawn", "removed"} => Begun(op[p].rec)

OneWriter ==
  /\ \A p \in Process : op[p].step = "put" => status[op[p].rec] = "writing"
  /\ \A p, q \in Process : /\ op[p].step = "put" /\ op[q].step = "put"
                             /\ op[p].rec = op[q].rec
                             => p = q

(***************************************************************************)
(* What a flush has behind it: its slab pinned, its objects pinned, and    *)
(* the records it has catalogued located, up to the step it is at.         *)
(***************************************************************************)
Backed(t) ==
  LET f == flush[t] IN
  /\ f.todo \subseteq f.batch
  /\ f.pc \in {"pinning", "catalog", "drop"} => f.slab \in pinned
  /\ f.pc = "pinning" => \A r \in f.batch \ f.todo : <<r, f.slab>> \in objects
  /\ f.pc \in {"catalog", "drop"} => \A r \in f.batch : <<r, f.slab>> \in objects
  /\ f.pc = "catalog" =>
       \A r \in f.batch \ f.todo : status[r] = "kept" => Located(r)
  /\ f.pc = "drop" => \A r \in f.batch : status[r] = "kept" => Located(r)

AllBacked == \A t \in Thread : Backed(t)

DurableInv == TypeOK /\ OnlyBegun /\ OneWriter /\ AllBacked /\ Durable

(* A flush that does not move stays backed while nothing it rests on goes. *)
LEMMA BackedStable ==
  ASSUME NEW t \in Thread, Backed(t), flush'[t] = flush[t],
         pinned \subseteq pinned', objects \subseteq objects',
         \A r \in flush[t].batch : status'[r] = "kept" =>
             status[r] = "kept" /\ (Located(r) => Located(r)')
  PROVE  Backed(t)'
  BY DEF Backed

(* Init satisfies the strengthened invariant. *)
LEMMA DurableInit == Init => DurableInv
  BY TypeInit DEF Init, DurableInv, OnlyBegun, OneWriter, AllBacked, Backed,
     Durable, Rest, Quiet, Slab, None

(* A process that leaves takes with it only what it holds in memory. *)
LEMMA DurableGone ==
  ASSUME DurableInv, TypeOK', NEW p \in Process, Gone(p)
  PROVE  DurableInv'
<1> USE DEF DurableInv
<1>1. OnlyBegun' BY DEF OnlyBegun, Gone, Begun, Rest, Quiet, Slab, None, TypeOK
<1>2. OneWriter' BY DEF OneWriter, Gone, Quiet, TypeOK
<1>3. AllBacked'
  <2> SUFFICES ASSUME NEW t \in Thread PROVE Backed(t)' BY DEF AllBacked
  <2>1. CASE t[1] = p BY <2>1 DEF Gone, Backed, Rest
  <2>2. CASE t[1] # p BY <2>2, BackedStable DEF Gone, AllBacked, Located
  <2> QED BY <2>1, <2>2
<1>4. Durable' BY DEF Durable, Gone, Located
<1> QED BY <1>1, <1>2, <1>3, <1>4

(* A step of a call keeps every promise. *)
LEMMA DurableCall ==
  ASSUME DurableInv, TypeOK', NEW p \in Process, Call(p)
  PROVE  DurableInv'
<1> USE DEF DurableInv
<1>1. CASE Open(p)
  <2>1. OnlyBegun' BY <1>1 DEF OnlyBegun, Open, Begun, TypeOK
  <2>2. OneWriter' BY <1>1 DEF OneWriter, Open
  <2>3. AllBacked' BY <1>1, BackedStable DEF AllBacked, Open, Located
  <2>4. Durable' BY <1>1 DEF Durable, Open, Located
  <2> QED BY <2>1, <2>2, <2>3, <2>4
<1>2. CASE Close(p) BY <1>2, DurableGone DEF Close
<1>3. CASE Crash(p) BY <1>3, DurableGone DEF Crash
<1>4. ASSUME NEW r \in Record, RememberPut(p, r) PROVE DurableInv'
  <2>1. OnlyBegun'
    BY <1>4 DEF OnlyBegun, RememberPut, Begun, TypeOK, FlushRecord
  <2>2. OneWriter' BY <1>4 DEF OneWriter, RememberPut, TypeOK, Quiet
  <2>3. AllBacked'
    BY <1>4, BackedStable DEF AllBacked, RememberPut, Located, TypeOK
  <2>4. Durable' BY <1>4 DEF Durable, RememberPut, Located, TypeOK
  <2> QED BY <2>1, <2>2, <2>3, <2>4
<1>5. CASE Enqueue(p)
  <2> DEFINE r == op[p].rec
  <2>0. r \in Record /\ status[r] = "writing"
    BY <1>5 DEF OneWriter, Enqueue, TypeOK, Quiet, Busy
  <2>1. OnlyBegun'
    BY <1>5, <2>0 DEF OnlyBegun, Enqueue, Begun, TypeOK, FlushRecord
  <2>2. OneWriter'
    <3>1. op'[p].step = "queued" BY <1>5 DEF Enqueue, TypeOK, Busy, Quiet
    <3>2. \A q \in Process : q # p => op'[q] = op[q]
      BY <1>5 DEF Enqueue, TypeOK
    <3>3. \A q \in Process : q # p /\ op[q].step = "put" => op[q].rec # r
      BY <1>5 DEF OneWriter, Enqueue
    <3>4. \A s \in Record : s # r => status'[s] = status[s]
      BY <1>5 DEF Enqueue, TypeOK
    <3>5. \A q \in Process : op[q].step = "put" => op[q].rec \in Record
      BY DEF TypeOK, Busy, Quiet
    <3> QED BY <3>1, <3>2, <3>3, <3>4, <3>5 DEF OneWriter
  <2>3. AllBacked'
    <3> SUFFICES ASSUME NEW t \in Thread PROVE Backed(t)' BY DEF AllBacked
    <3>1. r \notin flush[t].batch BY <2>0 DEF OnlyBegun, Begun
    <3> QED BY <1>5, <3>1, BackedStable
            DEF AllBacked, Enqueue, Located, TypeOK, FlushRecord
  <2>4. Durable' BY <1>5, <2>0 DEF Durable, Enqueue, Located, TypeOK
  <2> QED BY <2>1, <2>2, <2>3, <2>4
<1>6. CASE AddCount(p)
  <2>1. OnlyBegun' BY <1>6 DEF OnlyBegun, AddCount, Begun, TypeOK, Quiet
  <2>2. OneWriter' BY <1>6 DEF OneWriter, AddCount, TypeOK, Quiet
  <2>3. AllBacked' BY <1>6, BackedStable DEF AllBacked, AddCount, Located
  <2>4. Durable' BY <1>6 DEF Durable, AddCount, Located
  <2> QED BY <2>1, <2>2, <2>3, <2>4
<1>7. CASE CallFails(p)
  <2>1. OnlyBegun' BY <1>7 DEF OnlyBegun, CallFails, Begun, TypeOK, Quiet
  <2>2. OneWriter' BY <1>7 DEF OneWriter, CallFails, TypeOK, Quiet
  <2>3. AllBacked' BY <1>7, BackedStable DEF AllBacked, CallFails, Located
  <2>4. Durable' BY <1>7 DEF Durable, CallFails, Located
  <2> QED BY <2>1, <2>2, <2>3, <2>4
<1>8. ASSUME NEW r \in Record, ForgetWithdraw(p, r) PROVE DurableInv'
  <2>0. r \in queued => Begun(r) BY DEF OnlyBegun
  <2>1. OnlyBegun'
    <3>1. \A s \in Record : Begun(s) => Begun(s)'
      BY <1>8 DEF ForgetWithdraw, Begun, TypeOK
    <3>2. op'[p].step = "withdrawn" => Begun(op[p].rec)'
      BY <1>8, <2>0, <3>1 DEF ForgetWithdraw, TypeOK
    <3>3. \A q \in Process : q # p => op'[q] = op[q]
      BY <1>8 DEF ForgetWithdraw, TypeOK
    <3>4. op'[p].step # "removed" BY <1>8 DEF ForgetWithdraw, TypeOK
    <3>5. \A q \in Process : op[q].step \in {"withdrawn", "removed"}
                                => op[q].rec \in Record
      BY DEF TypeOK, Busy, Quiet
    <3> QED BY <1>8, <3>1, <3>2, <3>3, <3>4, <3>5
            DEF OnlyBegun, ForgetWithdraw, TypeOK, FlushRecord
  <2>2. OneWriter'
    <3>1. \A q \in Process : op'[q].step = "put" => op'[q] = op[q]
      BY <1>8 DEF ForgetWithdraw, TypeOK
    <3>2. \A s \in Record : ~Begun(s) => status'[s] = status[s]
      BY <1>8, <2>0 DEF ForgetWithdraw, TypeOK
    <3>3. \A q \in Process : op[q].step = "put" => op[q].rec \in Record
      BY DEF TypeOK, Busy, Quiet
    <3> QED BY <3>1, <3>2, <3>3 DEF OneWriter, Begun
  <2>3. AllBacked'
    BY <1>8, BackedStable
    DEF AllBacked, ForgetWithdraw, Located, TypeOK, FlushRecord
  <2>4. Durable' BY <1>8 DEF Durable, ForgetWithdraw, Located, TypeOK
  <2> QED BY <2>1, <2>2, <2>3, <2>4
<1>9. CASE ForgetCatalog(p)
  <2> DEFINE r == op[p].rec
  <2>0. r \in Record BY <1>9 DEF ForgetCatalog, TypeOK, Busy, Quiet
  <2>1. CASE UNCHANGED <<catalog, mem, status>>
    <3>a. /\ \A q \in Process : q # p => op'[q] = op[q]
          /\ op'[p].step \in {"removed", "idle"}
          /\ op'[p].step = "removed" => op'[p].rec = r
      BY <1>9 DEF ForgetCatalog, TypeOK, Busy, Quiet
    <3>b. op'[p].step = "removed" => Begun(r)
      BY <1>9, <2>0 DEF ForgetCatalog, OnlyBegun, TypeOK, Quiet
    <3>1. OnlyBegun'
      BY <1>9, <2>0, <2>1, <3>a, <3>b DEF OnlyBegun, ForgetCatalog, Begun
    <3>2. OneWriter' BY <2>1, <3>a DEF OneWriter
    <3>3. AllBacked'
      BY <1>9, <2>1, BackedStable DEF AllBacked, ForgetCatalog, Located
    <3>4. Durable' BY <1>9, <2>1 DEF Durable, ForgetCatalog, Located
    <3> QED BY <3>1, <3>2, <3>3, <3>4
  <2>2. CASE /\ mem[p][r] \in Slab
             /\ catalog' = [catalog EXCEPT ![r] = Deleted]
             /\ mem' = [mem EXCEPT ![p][r] = Deleted]
             /\ status' = [status EXCEPT ![r] = "forgetting"]
             /\ op' = [op EXCEPT ![p].step = "removed"]
    <3>0. /\ Begun(r) /\ Begun(r)'
          /\ \A s \in Record : Begun(s) => Begun(s)'
          /\ \A s \in Record : s # r => status'[s] = status[s]
          /\ Deleted \notin Slab
      BY <2>0, <2>2 DEF OnlyBegun, Begun, TypeOK, Deleted, Slab
    <3>1. /\ op'[p].step = "removed" /\ op'[p].rec = r
          /\ \A q \in Process : q # p => op'[q] = op[q]
      BY <1>9, <2>2 DEF TypeOK, Busy, Quiet, ForgetCatalog
    <3>2. \A q \in Process : op[q].step # "idle" => op[q].rec \in Record
      BY DEF TypeOK, Busy, Quiet
    <3>3. OnlyBegun'
      <4>1. \A q \in Process : \A s \in Record :
              mem'[q][s] \in Slab => mem[q][s] \in Slab
        BY <2>0, <2>2, <3>0 DEF TypeOK
      <4>2. \A s \in Record : catalog'[s] \in Slab => catalog[s] \in Slab
        BY <2>0, <2>2, <3>0 DEF TypeOK
      <4>3. queued' = queued /\ flush' = flush BY <1>9 DEF ForgetCatalog
      <4> QED BY <2>0, <3>0, <3>1, <3>2, <4>1, <4>2, <4>3
              DEF OnlyBegun, TypeOK, FlushRecord
    <3>4. OneWriter' BY <3>0, <3>1, <3>2 DEF OneWriter, Begun
    <3>5. AllBacked'
      BY <1>9, <2>0, <2>2, BackedStable
      DEF AllBacked, ForgetCatalog, Located, TypeOK, FlushRecord
    <3>6. Durable' BY <1>9, <2>0, <2>2 DEF Durable, ForgetCatalog, Located, TypeOK
    <3> QED BY <3>3, <3>4, <3>5, <3>6
  <2> QED BY <1>9, <2>1, <2>2 DEF ForgetCatalog
<1>10. CASE ForgetBody(p)
  <2> DEFINE r == op[p].rec
  <2>0. r \in Record /\ Begun(r)
    BY <1>10 DEF ForgetBody, TypeOK, Busy, Quiet, OnlyBegun
  <2>1. OnlyBegun'
    BY <1>10, <2>0 DEF OnlyBegun, ForgetBody, Begun, TypeOK, Quiet, Busy, FlushRecord
  <2>2. OneWriter'
    BY <1>10, <2>0 DEF OneWriter, ForgetBody, Begun, TypeOK, Quiet, Busy
  <2>3. AllBacked'
    BY <1>10, <2>0, BackedStable
    DEF AllBacked, ForgetBody, Located, TypeOK, FlushRecord
  <2>4. Durable' BY <1>10, <2>0 DEF Durable, ForgetBody, Located, TypeOK
  <2> QED BY <2>1, <2>2, <2>3, <2>4
<1> QED
  BY <1>1, <1>2, <1>3, <1>4, <1>5, <1>6, <1>7, <1>8, <1>9, <1>10 DEF Call

(* A step of a flush keeps every promise. *)
LEMMA DurableFlush ==
  ASSUME DurableInv, TypeOK', NEW t \in Thread,
         FlushClaim(t) \/ FlushStep(t) \/ PutBatchFails(t) \/ Abandon(t)
  PROVE  DurableInv'
<1> USE DEF DurableInv
<1>0. /\ t[1] \in Process
      /\ flush \in [Thread -> FlushRecord]
      /\ flush[t].batch \in SUBSET Record /\ flush[t].todo \in SUBSET Record
      /\ Backed(t)
  BY HostAssumption DEF Thread, TypeOK, FlushRecord, AllBacked
(* A step that leaves the records where they are and t backed. *)
<1>1. ASSUME NEW f, flush' = [flush EXCEPT ![t] = f],
             f.batch \subseteq flush[t].batch \cup queued,
             queued' = queued, UNCHANGED <<catalog, mem, op, status>>,
             pinned \subseteq pinned', objects \subseteq objects', Backed(t)'
      PROVE  DurableInv'
  <2>1. OnlyBegun' BY <1>0, <1>1 DEF OnlyBegun, Begun
  <2>2. OneWriter' BY <1>1 DEF OneWriter
  <2>3. AllBacked'
    BY <1>0, <1>1, BackedStable DEF AllBacked, Located
  <2>4. Durable' BY <1>1 DEF Durable, Located
  <2> QED BY <2>1, <2>2, <2>3, <2>4
<1>2. CASE FlushClaim(t)
  <2> DEFINE batch == {r \in Record : Claimable(r)}
             f == [Rest EXCEPT !.pc = "claimed", !.batch = batch]
  <2>1. flush' = [flush EXCEPT ![t] = f] BY <1>2 DEF FlushClaim
  <2>2. f.batch \subseteq queued BY DEF Claimable, Rest
  <2>3. Backed(t)' BY <1>0, <2>1 DEF Backed, Rest
  <2> QED BY <1>1, <1>2, <2>1, <2>2, <2>3 DEF FlushClaim
<1>3. CASE Upload(t)
  <2> DEFINE f == [flush[t] EXCEPT !.pc = "uploaded", !.slab = uploaded + 1]
  <2>1. flush' = [flush EXCEPT ![t] = f] BY <1>3 DEF Upload
  <2>2. f.batch = flush[t].batch BY <1>0 DEF FlushRecord
  <2>3. Backed(t)' BY <1>0, <2>1 DEF Backed, FlushRecord
  <2> QED BY <1>1, <1>3, <2>1, <2>2, <2>3 DEF Upload
<1>4. CASE RecordSlabs(t)
  <2> DEFINE f == [flush[t] EXCEPT !.pc = "tracked"]
  <2>1. flush' = [flush EXCEPT ![t] = f] BY <1>4 DEF RecordSlabs
  <2>2. f.batch = flush[t].batch BY <1>0 DEF FlushRecord
  <2>3. Backed(t)' BY <1>0, <2>1 DEF Backed, FlushRecord
  <2> QED BY <1>1, <1>4, <2>1, <2>2, <2>3 DEF RecordSlabs
<1>5. CASE PinSlabs(t)
  <2> DEFINE f == [flush[t] EXCEPT !.pc = "pinning", !.todo = flush[t].batch]
  <2>1. flush' = [flush EXCEPT ![t] = f] BY <1>5 DEF PinSlabs
  <2>2. f.batch = flush[t].batch BY <1>0 DEF FlushRecord
  <2>3. Backed(t)' BY <1>0, <1>5, <2>1 DEF Backed, FlushRecord, PinSlabs
  <2> QED BY <1>1, <1>5, <2>1, <2>2, <2>3 DEF PinSlabs
<1>6. ASSUME NEW r \in Record, PinObject(t, r) PROVE DurableInv'
  <2> DEFINE left == flush[t].todo \ {r}
             f == [flush[t] EXCEPT
                     !.pc = IF left = {} THEN "catalog" ELSE "pinning",
                     !.todo = IF left = {} THEN flush[t].batch ELSE left]
  <2>1. flush' = [flush EXCEPT ![t] = f] BY <1>6 DEF PinObject
  <2>2. f.batch = flush[t].batch BY <1>0 DEF FlushRecord
  <2>3. Backed(t)'
    <3>1. \A s \in flush[t].batch \ left : <<s, flush[t].slab>> \in objects'
      BY <1>0, <1>6 DEF Backed, PinObject
    <3>2. flush'[t] = f BY <1>0, <2>1
    <3>3. /\ f.slab = flush[t].slab
          /\ left = {} => f.pc = "catalog" /\ f.todo = flush[t].batch
          /\ left # {} => f.pc = "pinning" /\ f.todo = left
      BY <1>0 DEF FlushRecord
    <3>4. flush[t].slab \in pinned' BY <1>0, <1>6 DEF Backed, PinObject
    <3>5. left \subseteq flush[t].batch BY <1>0 DEF Backed
    <3> QED BY <2>2, <3>1, <3>2, <3>3, <3>4, <3>5 DEF Backed
  <2> QED BY <1>1, <1>6, <2>1, <2>2, <2>3 DEF PinObject
<1>7. ASSUME NEW r \in Record, RecordFlush(t, r) PROVE DurableInv'
  <2> DEFINE left == flush[t].todo \ {r}
             f == [flush[t] EXCEPT
                     !.pc = IF left = {} THEN "drop" ELSE "catalog",
                     !.todo = left]
  <2>1. flush' = [flush EXCEPT ![t] = f] /\ flush'[t] = f
    BY <1>0, <1>7 DEF RecordFlush
  <2>2. /\ f.batch = flush[t].batch /\ f.slab = flush[t].slab /\ f.todo = left
        /\ left = {} => f.pc = "drop"
        /\ left # {} => f.pc = "catalog"
    BY <1>0 DEF FlushRecord
  <2>3. /\ r \in flush[t].batch /\ flush[t].slab \in Slab
        /\ flush[t].slab \in pinned /\ <<r, flush[t].slab>> \in objects
    BY <1>0, <1>7 DEF Backed, RecordFlush, TypeOK, Placed
  <2>4. /\ Located(r)'
        /\ \A s \in Record : Located(s) => Located(s)'
    BY <1>7, <2>3 DEF RecordFlush, Located, TypeOK
  <2>5. Begun(r) BY <2>3 DEF OnlyBegun
  <2>6. OnlyBegun'
    <3> HIDE DEF f, left
    <3>1. \A u \in Thread : flush'[u].batch = flush[u].batch
      BY <1>0, <2>1, <2>2
    <3>2. \A s \in Record : catalog'[s] \in Slab => catalog[s] \in Slab \/ s = r
      BY <1>7 DEF RecordFlush, TypeOK
    <3>3. \A q \in Process : \A s \in Record :
            mem'[q][s] \in Slab => mem[q][s] \in Slab \/ s = r
      BY <1>0, <1>7 DEF RecordFlush, TypeOK
    <3>4. UNCHANGED <<queued, op, status>> BY <1>7 DEF RecordFlush
    <3> QED BY <2>5, <3>1, <3>2, <3>3, <3>4 DEF OnlyBegun, Begun
  <2>7. OneWriter' BY <1>7 DEF OneWriter, RecordFlush
  <2>8. Backed(t)'
    <3>1. \A s \in flush[t].batch \ left : status[s] = "kept" => Located(s)'
      BY <1>0, <1>7, <2>4 DEF Backed, RecordFlush
    <3>2. left \subseteq flush[t].batch BY <1>0 DEF Backed
    <3>3. UNCHANGED <<status, pinned, objects>> BY <1>7 DEF RecordFlush, indexer
    <3>4. \A s \in flush[t].batch : <<s, flush[t].slab>> \in objects
      BY <1>0, <1>7 DEF Backed, RecordFlush
    <3> HIDE DEF f, left
    <3>5. f.pc \in {"drop", "catalog"} BY <2>2
    <3>6. f.pc = "drop" => \A s \in f.batch : status'[s] = "kept" => Located(s)'
      BY <2>2, <3>1, <3>3
    <3>7. \A s \in f.batch \ f.todo : status'[s] = "kept" => Located(s)'
      BY <2>2, <3>1, <3>3
    <3> QED BY <2>1, <2>2, <2>3, <3>2, <3>3, <3>4, <3>5, <3>6, <3>7 DEF Backed
  <2>9. AllBacked'
    <3> SUFFICES ASSUME NEW u \in Thread, u # t PROVE Backed(u)'
      BY <2>8 DEF AllBacked
    <3>1. flush'[u] = flush[u] /\ Backed(u) /\ flush[u].batch \subseteq Record
      BY <1>0, <2>1 DEF AllBacked, FlushRecord
    <3> QED BY <1>7, <2>4, <3>1, BackedStable DEF RecordFlush
  <2>10. Durable' BY <1>7, <2>4 DEF Durable, RecordFlush
  <2> QED BY <2>6, <2>7, <2>9, <2>10
<1>r. Rest.batch = {} /\ Rest.todo = {} /\ Rest.pc = "idle" BY DEF Rest
<1>8. CASE Release(t)
  <2>1. Backed(t)' BY <1>0, <1>8, <1>r DEF Backed, Release
  <2> QED BY <1>1, <1>8, <1>r, <2>1 DEF Release
<1>9. CASE DropQueued(t)
  <2> DEFINE f == [Rest EXCEPT !.pc = "refresh", !.seen = Cardinality(queued')]
  <2>1. flush' = [flush EXCEPT ![t] = f] /\ flush'[t] = f
    BY <1>0, <1>9 DEF DropQueued
  <2>2. f.batch = {} /\ f.todo = {} /\ f.pc = "refresh" BY DEF Rest
  <2>3. OnlyBegun'
    <3>1. \A u \in Thread : flush'[u].batch \subseteq flush[u].batch
      BY <1>0, <2>1, <2>2
    <3>2. UNCHANGED <<catalog, mem, op, status>> /\ queued' \subseteq queued
      BY <1>9 DEF DropQueued
    <3> QED BY <3>1, <3>2 DEF OnlyBegun, Begun
  <2>4. OneWriter' BY <1>9 DEF OneWriter, DropQueued
  <2>5. AllBacked'
    <3> SUFFICES ASSUME NEW u \in Thread PROVE Backed(u)' BY DEF AllBacked
    <3>1. CASE u = t BY <2>1, <2>2, <3>1 DEF Backed
    <3>2. CASE u # t
      BY <1>0, <1>9, <2>1, <3>2, BackedStable DEF AllBacked, DropQueued, Located
    <3> QED BY <3>1, <3>2
  <2>6. Durable'
    <3>1. UNCHANGED <<catalog, pinned, objects, status>> BY <1>9 DEF DropQueued
    <3>2. \A r \in flush[t].batch : status[r] = "kept" => Located(r)
      BY <1>0, <1>9 DEF Backed, DropQueued
    <3>3. queued' = queued \ flush[t].batch BY <1>9 DEF DropQueued
    <3> QED BY <3>1, <3>2, <3>3 DEF Durable, Located
  <2> QED BY <2>3, <2>4, <2>5, <2>6
<1>10. CASE Refresh(t)
  <2>1. Backed(t)' BY <1>0, <1>10, <1>r DEF Backed, Refresh
  <2> QED BY <1>1, <1>10, <1>r, <2>1 DEF Refresh
<1>11. CASE PutBatchFails(t)
  <2> DEFINE f == [flush[t] EXCEPT !.pc = "release"]
  <2>1. flush' = [flush EXCEPT ![t] = f] BY <1>11 DEF PutBatchFails
  <2>2. f.batch = flush[t].batch BY <1>0 DEF FlushRecord
  <2>3. Backed(t)' BY <1>0, <2>1 DEF Backed, FlushRecord
  <2> QED BY <1>1, <1>11, <2>1, <2>2, <2>3 DEF PutBatchFails
<1>12. CASE Abandon(t)
  <2>1. Backed(t)' BY <1>0, <1>12, <1>r DEF Backed, Abandon
  <2> QED BY <1>1, <1>12, <1>r, <2>1 DEF Abandon
<1> QED
  BY <1>2, <1>3, <1>4, <1>5, <1>6, <1>7, <1>8, <1>9, <1>10, <1>11, <1>12
  DEF FlushStep

(* Every step keeps every promise. *)
LEMMA DurableStep == DurableInv /\ TypeOK' /\ [Next]_vars => DurableInv'
<1> SUFFICES ASSUME DurableInv, TypeOK', [Next]_vars PROVE DurableInv' OBVIOUS
<1>1. CASE UNCHANGED vars
  BY <1>1 DEF vars, DurableInv, OnlyBegun, Begun, OneWriter, AllBacked,
     Backed, Durable, Located
<1>2. CASE Tick
  BY <1>2 DEF Tick, DurableInv, OnlyBegun, Begun, OneWriter, AllBacked,
     Backed, Durable, Located
<1> QED BY <1>1, <1>2, DurableCall, DurableFlush DEF Next

(* The strengthened invariant holds of the write path. *)
LEMMA DurableInvariant == Spec => []DurableInv
  BY DurableInit, DurableStep, TypeCorrect, PTL DEF Spec

(***************************************************************************)
(* Once Remember has queued a record, it is in the queue or catalogued at  *)
(* an object the indexer serves until somebody begins to forget it.  The   *)
(* queue row goes only from "drop", which a flush reaches after pinning    *)
(* the slab and the object and cataloguing the record; flushes that fail,  *)
(* die or are taken over leave the row, or a catalog entry that a later    *)
(* flush can only replace by another one as good.                          *)
(***************************************************************************)
THEOREM NothingPromisedIsLost == Spec => []Durable
<1>1. DurableInv => Durable BY DEF DurableInv
<1> QED BY <1>1, DurableInvariant, PTL

-----------------------------------------------------------------------------
(* Claims do their work while flushes end within ClaimTimeout.             *)

(* What a flush holds is still queued, under a claim that has not lapsed. *)
ClaimsLive ==
  \A t \in Thread, r \in Record :
    HeldBy(t, r) => r \in queued /\ claim[r] \in 0..Timeout

HeldInv == OneFlushPerRecord /\ ClaimsLive

(* A row that can be claimed or withdrawn is in no flush. *)
LEMMA ClaimableIsUnheld ==
  ASSUME ClaimsLive, NEW r \in Record, Claimable(r)
  PROVE  \A t \in Thread : ~HeldBy(t, r)
  BY TimeoutAssumption DEF ClaimsLive, Claimable, Stale, Free

(* A step of a call leaves the claims of the flushes under way alone. *)
LEMMA HeldCall ==
  ASSUME TypeOK, OnlyBegun, OneWriter, HeldInv, NEW p \in Process, Call(p)
  PROVE  HeldInv'
<1> USE DEF HeldInv, HeldBy
<1>1. ASSUME UNCHANGED <<queued, claim>>,
             \A t \in Thread : flush'[t] = flush[t] \/ flush'[t] = Rest
      PROVE  HeldInv'
  <2>1. Rest.batch = {} BY DEF Rest
  <2> QED BY <1>1, <2>1 DEF OneFlushPerRecord, ClaimsLive
<1>2. CASE Close(p) \/ Crash(p) BY <1>1, <1>2 DEF Close, Crash, Gone
<1>3. CASE Enqueue(p)
  <2> DEFINE r == op[p].rec
  <2>1. r \in Record /\ status[r] = "writing"
    BY <1>3 DEF OneWriter, Enqueue, TypeOK, Quiet, Busy
  <2>2. \A t \in Thread : r \notin flush[t].batch BY <2>1 DEF OnlyBegun, Begun
  <2>3. flush' = flush /\ \A s \in Record \ {r} :
           (s \in queued' <=> s \in queued) /\ claim'[s] = claim[s]
    BY <1>3 DEF Enqueue, TypeOK
  <2> QED BY <2>2, <2>3 DEF OneFlushPerRecord, ClaimsLive
<1>4. ASSUME NEW r \in Record, ForgetWithdraw(p, r) PROVE HeldInv'
  <2>1. \A t \in Thread : ~HeldBy(t, r)
    BY <1>4, ClaimableIsUnheld DEF ForgetWithdraw, ClaimsLive
  <2>2. flush' = flush /\ \A s \in Record \ {r} :
           (s \in queued' <=> s \in queued) /\ claim'[s] = claim[s]
    BY <1>4 DEF ForgetWithdraw, TypeOK
  <2> QED BY <2>1, <2>2 DEF OneFlushPerRecord, ClaimsLive
<1>5. CASE \/ Open(p) \/ AddCount(p) \/ ForgetCatalog(p) \/ ForgetBody(p)
           \/ CallFails(p) \/ \E r \in Record : RememberPut(p, r)
  BY <1>1, <1>5 DEF Open, AddCount, ForgetCatalog, ForgetBody, CallFails, RememberPut
<1> QED BY <1>2, <1>3, <1>4, <1>5 DEF Call

(* A flush claims what no flush holds, and lets go only of its own rows. *)
LEMMA HeldFlush ==
  ASSUME TypeOK, HeldInv, NEW t \in Thread,
         FlushClaim(t) \/ FlushStep(t) \/ PutBatchFails(t) \/ Abandon(t)
  PROVE  HeldInv'
<1> USE DEF HeldInv
<1>0. flush \in [Thread -> FlushRecord] /\ claim \in [Record -> Age \cup {Free}]
  BY DEF TypeOK
<1>1. CASE FlushClaim(t)
  <2> DEFINE batch == {r \in Record : Claimable(r)}
  <2>1. /\ flush'[t].batch = batch
        /\ \A u \in Thread : u # t => flush'[u] = flush[u]
    BY <1>0, <1>1 DEF FlushClaim, Rest
  <2>2. \A r \in batch : \A u \in Thread : ~HeldBy(u, r) BY ClaimableIsUnheld
  <2>3. /\ queued' = queued /\ batch \subseteq queued
        /\ \A r \in Record : claim'[r] = IF r \in batch THEN 0 ELSE claim[r]
    BY <1>1 DEF FlushClaim, Claimable
  <2>4. 0 \in 0..Timeout BY TimeoutAssumption
  <2> HIDE DEF batch
  <2> QED BY <2>1, <2>2, <2>3, <2>4 DEF OneFlushPerRecord, ClaimsLive, HeldBy
(* A step that goes on with the same batch, or ends holding nothing. *)
<1>2. ASSUME \A u \in Thread \ {t} : flush'[u] = flush[u],
             \A r \in Record : HeldBy(t, r)' =>
                HeldBy(t, r) /\ (r \in queued => r \in queued') /\ claim'[r] = claim[r],
             \A r \in Record : ~HeldBy(t, r) =>
                (r \in queued => r \in queued') /\ claim'[r] = claim[r]
      PROVE  HeldInv'
  BY <1>2 DEF OneFlushPerRecord, ClaimsLive, HeldBy
<1>3. CASE ~(FlushClaim(t) \/ Release(t) \/ DropQueued(t))
  <2>1. \/ Upload(t) \/ RecordSlabs(t) \/ PinSlabs(t)
        \/ \E r \in Record : PinObject(t, r) \/ RecordFlush(t, r)
        \/ Refresh(t) \/ PutBatchFails(t) \/ Abandon(t)
    BY <1>3 DEF FlushStep
  <2>2. /\ \A u \in Thread \ {t} : flush'[u] = flush[u]
        /\ \/ flush'[t].batch = flush[t].batch /\ flush[t].pc \in Holding
           \/ flush'[t].batch = {}
    <3> USE <1>0 DEF FlushRecord, Holding, Writing
    <3>1. CASE Upload(t) BY <3>1 DEF Upload
    <3>2. CASE RecordSlabs(t) BY <3>2 DEF RecordSlabs
    <3>3. CASE PinSlabs(t) BY <3>3 DEF PinSlabs
    <3>4. ASSUME NEW r \in Record, PinObject(t, r) \/ RecordFlush(t, r)
          PROVE  /\ \A u \in Thread \ {t} : flush'[u] = flush[u]
                 /\ flush'[t].batch = flush[t].batch /\ flush[t].pc \in Holding
      BY <3>4 DEF PinObject, RecordFlush
    <3>5. CASE Refresh(t) \/ Abandon(t) BY <3>5 DEF Refresh, Abandon, Rest
    <3>6. CASE PutBatchFails(t) BY <3>6 DEF PutBatchFails
    <3> QED BY <2>1, <3>1, <3>2, <3>3, <3>4, <3>5, <3>6
  <2>3. UNCHANGED <<queued, claim>>
    BY <2>1 DEF Upload, RecordSlabs, PinSlabs, PinObject, RecordFlush, Refresh,
       PutBatchFails, Abandon
  <2> QED BY <1>2, <2>2, <2>3 DEF HeldBy
<1>4. CASE Release(t)
  <2>1. \A r \in Record : ~HeldBy(t, r)' BY <1>0, <1>4 DEF Release, Rest, HeldBy
  <2>2. /\ \A u \in Thread \ {t} : flush'[u] = flush[u]
        /\ \A r \in Record : ~HeldBy(t, r) =>
              (r \in queued => r \in queued') /\ claim'[r] = claim[r]
    BY <1>0, <1>4 DEF Release, HeldBy, Holding
  <2> QED BY <1>2, <2>1, <2>2
<1>5. CASE DropQueued(t)
  <2>1. \A r \in Record : ~HeldBy(t, r)' BY <1>0, <1>5 DEF DropQueued, Rest, HeldBy
  <2>2. /\ \A u \in Thread \ {t} : flush'[u] = flush[u]
        /\ \A r \in Record : ~HeldBy(t, r) =>
              (r \in queued => r \in queued') /\ claim'[r] = claim[r]
    BY <1>0, <1>5 DEF DropQueued, HeldBy, Holding
  <2> QED BY <1>2, <2>1, <2>2
<1> QED BY <1>1, <1>3, <1>4, <1>5

(* Time passes only as far as the claims of flushes under way allow. *)
LEMMA HeldTick == TypeOK /\ HeldInv /\ ~SlowFlush /\ Tick => HeldInv'
<1> SUFFICES ASSUME TypeOK, HeldInv, ~SlowFlush, Tick PROVE HeldInv' OBVIOUS
<1>1. flush' = flush /\ queued' = queued BY DEF Tick
<1>2. OneFlushPerRecord' BY <1>1 DEF HeldInv, OneFlushPerRecord, HeldBy
<1>3. ClaimsLive'
  <2> SUFFICES ASSUME NEW t \in Thread, NEW r \in Record, HeldBy(t, r)'
               PROVE  r \in queued' /\ claim'[r] \in 0..Timeout
    BY DEF ClaimsLive
  <2>1. HeldBy(t, r) BY <1>1 DEF HeldBy
  <2>2. r \in queued /\ claim[r] \in 0..Timeout BY <2>1 DEF HeldInv, ClaimsLive
  <2>3. r \in Ticking BY <2>2 DEF Ticking
  <2>4. claim[r] < Timeout BY <2>1, <2>3 DEF Tick, HeldBy
  <2>5. claim'[r] = claim[r] + 1 BY <2>3 DEF Tick
  <2> QED BY <1>1, <2>2, <2>4, <2>5, TimeoutAssumption
<1> QED BY <1>2, <1>3 DEF HeldInv

(* While flushes end within ClaimTimeout, HeldInv is an invariant. *)
LEMMA HeldInvariant == ASSUME ~SlowFlush PROVE Spec => []HeldInv
<1>1. Init => HeldInv
  BY DEF Init, HeldInv, OneFlushPerRecord, ClaimsLive, HeldBy, Rest
<1>2. DurableInv /\ HeldInv /\ [Next]_vars => HeldInv'
  <2> SUFFICES ASSUME DurableInv, HeldInv, [Next]_vars PROVE HeldInv' OBVIOUS
  <2>1. CASE UNCHANGED vars
    BY <2>1 DEF vars, HeldInv, OneFlushPerRecord, ClaimsLive, HeldBy
  <2> QED BY <2>1, HeldCall, HeldFlush, HeldTick DEF Next, DurableInv
<1> QED BY <1>1, <1>2, DurableInvariant, PTL DEF Spec

(***************************************************************************)
(* As long as every flush ends within ClaimTimeout, no record is in two    *)
(* flushes at once and the row of a record that a flush is writing is      *)
(* claimed, however many processes and threads flush, fail and crash.  The *)
(* induction needs more: the row is still in the queue and its claim is    *)
(* not stale, since a stale one could be claimed or withdrawn.             *)
(***************************************************************************)
THEOREM ClaimsAlwaysHold == ~SlowFlush => (Spec => []ClaimsHold)
<1> SUFFICES ASSUME ~SlowFlush PROVE Spec => []ClaimsHold OBVIOUS
<1>1. HeldInv => ClaimsHold
  BY TimeoutAssumption DEF HeldInv, ClaimsHold, ClaimProtects, ClaimsLive, Free
<1> QED BY <1>1, HeldInvariant, PTL

-----------------------------------------------------------------------------
(* What one process forgets stays forgotten.                               *)

OneProcess == \A p, q \in Process : p = q

(***************************************************************************)
(* A vault that one process has open: its copy of the catalog is the       *)
(* catalog, a record it is forgetting is out of the queue from Withdraw    *)
(* on, and out of the catalog from Manifest.Remove on.                     *)
(***************************************************************************)
CopyIsCatalog == \A p \in Process : mode[p] # "closed" => mem[p] = catalog
ClosedIsQuiet == \A p \in Process : mode[p] = "closed" => op[p] = Quiet
Withdrawn ==
  \A p \in Process : op[p].step \in {"withdrawn", "unqueued", "removed"} =>
    /\ op[p].rec \notin queued
    /\ op[p].step = "removed" => catalog[op[p].rec] \notin Slab
Forgotten ==
  \A r \in Record : status[r] = "forgotten" => r \notin queued /\ catalog[r] \notin Slab

ForgetInv == CopyIsCatalog /\ ClosedIsQuiet /\ Withdrawn /\ Forgotten

(* A call of the one process keeps what has been forgotten away. *)
LEMMA ForgetCall ==
  ASSUME OneProcess, TypeOK, OneWriter, ForgetInv, NEW p \in Process, Call(p)
  PROVE  ForgetInv'
<1> USE DEF ForgetInv
<1>0. /\ \A q \in Process : q = p
      /\ op \in [Process -> {Quiet} \cup Busy]
      /\ op[p].step # "idle" => op[p] \in Busy /\ op[p].rec \in Record
      /\ Quiet.step = "idle"
  BY DEF OneProcess, TypeOK, Quiet, Busy
<1>1. CASE Open(p)
  BY <1>0, <1>1
  DEF Open, CopyIsCatalog, ClosedIsQuiet, Withdrawn, Forgotten, TypeOK
<1>2. CASE Close(p) \/ Crash(p)
  BY <1>0, <1>2
  DEF Close, Crash, Gone, CopyIsCatalog, ClosedIsQuiet, Withdrawn, Forgotten, TypeOK
<1>3. ASSUME NEW r \in Record, RememberPut(p, r) PROVE ForgetInv'
  BY <1>0, <1>3
  DEF RememberPut, CopyIsCatalog, ClosedIsQuiet, Withdrawn, Forgotten, TypeOK
<1>4. CASE Enqueue(p)
  <2> DEFINE r == op[p].rec
  <2>1. r \in Record /\ op[p].step = "put" BY <1>0, <1>4 DEF Enqueue
  <2>2. op'[p].step = "queued" BY <1>0, <1>4 DEF Enqueue, Busy
  <2>3. mode[p] # "closed" BY <1>0, <2>1 DEF ClosedIsQuiet
  <2>4. CopyIsCatalog' /\ ClosedIsQuiet'
    BY <1>0, <1>4, <2>3 DEF CopyIsCatalog, ClosedIsQuiet, Enqueue
  <2>5. Withdrawn' BY <1>0, <2>2 DEF Withdrawn
  <2>6. Forgotten' BY <1>4, <2>1 DEF Forgotten, Enqueue, TypeOK
  <2> QED BY <2>4, <2>5, <2>6
<1>5. CASE AddCount(p) \/ CallFails(p)
  BY <1>0, <1>5
  DEF AddCount, CallFails, CopyIsCatalog, ClosedIsQuiet, Withdrawn, Forgotten
<1>6. ASSUME NEW r \in Record, ForgetWithdraw(p, r) PROVE ForgetInv'
  <2>1. CopyIsCatalog' /\ ClosedIsQuiet'
    BY <1>0, <1>6 DEF CopyIsCatalog, ClosedIsQuiet, ForgetWithdraw
  <2>2. op'[p].rec = r /\ op'[p].step \in {"withdrawn", "unqueued"}
    BY <1>0, <1>6 DEF ForgetWithdraw
  <2>3. Withdrawn' BY <1>0, <1>6, <2>2 DEF Withdrawn, ForgetWithdraw
  <2>4. Forgotten' BY <1>6 DEF Forgotten, ForgetWithdraw, TypeOK
  <2> QED BY <2>1, <2>3, <2>4
<1>7. CASE ForgetCatalog(p)
  <2> DEFINE r == op[p].rec
  <2>1. r \in Record /\ r \notin queued /\ op[p].step # "idle"
    BY <1>0, <1>7 DEF ForgetCatalog, Withdrawn
  <2>2. mode[p] # "closed" /\ mem[p] = catalog
    BY <1>0, <2>1 DEF ClosedIsQuiet, CopyIsCatalog
  <2>3. queued' = queued /\ mode' = mode BY <1>7 DEF ForgetCatalog
  <2>4. CASE mem[p][r] \notin Slab /\ UNCHANGED <<catalog, mem, status>>
    <3>1. \/ op'[p] = Quiet
          \/ op'[p].rec = r /\ catalog[r] \notin Slab
      BY <1>0, <1>7, <2>2, <2>4 DEF ForgetCatalog, Busy
    <3> QED BY <1>0, <2>1, <2>2, <2>3, <2>4, <3>1
            DEF CopyIsCatalog, ClosedIsQuiet, Withdrawn, Forgotten
  <2>5. CASE /\ catalog' = [catalog EXCEPT ![r] = Deleted]
             /\ mem' = [mem EXCEPT ![p][r] = Deleted]
             /\ status' = [status EXCEPT ![r] = "forgetting"]
             /\ op' = [op EXCEPT ![p].step = "removed"]
    <3>1. op'[p].rec = r BY <1>0, <2>1, <2>5 DEF Busy
    <3>2. mem'[p] = catalog' BY <2>2, <2>5 DEF TypeOK
    <3>3. catalog'[r] \notin Slab BY <2>1, <2>5 DEF TypeOK, Deleted, Slab
    <3>4. Forgotten' BY <2>1, <2>3, <2>5 DEF Forgotten, TypeOK
    <3> QED BY <1>0, <2>1, <2>2, <2>3, <3>1, <3>2, <3>3, <3>4
            DEF CopyIsCatalog, ClosedIsQuiet, Withdrawn
  <2> QED BY <1>7, <2>4, <2>5 DEF ForgetCatalog
<1>8. CASE ForgetBody(p)
  <2>1. /\ op[p].rec \in Record /\ op[p].rec \notin queued
        /\ catalog[op[p].rec] \notin Slab
    BY <1>0, <1>8 DEF ForgetBody, Withdrawn
  <2> QED BY <1>0, <1>8, <2>1
          DEF ForgetBody, CopyIsCatalog, ClosedIsQuiet, Withdrawn, Forgotten, TypeOK
<1> QED BY <1>1, <1>2, <1>3, <1>4, <1>5, <1>6, <1>7, <1>8 DEF Call

(* A flush catalogues only records that are still queued. *)
LEMMA ForgetFlush ==
  ASSUME OneProcess, TypeOK, HeldInv, AllBacked, ForgetInv, NEW t \in Thread,
         FlushClaim(t) \/ FlushStep(t) \/ PutBatchFails(t) \/ Abandon(t)
  PROVE  ForgetInv'
<1> USE DEF ForgetInv
<1>1. ASSUME NEW r \in Record, RecordFlush(t, r) PROVE ForgetInv'
  <2>0. t[1] \in Process /\ \A q \in Process : q = t[1]
    BY HostAssumption DEF OneProcess, Thread
  <2>1. r \in queued
    BY <1>1 DEF RecordFlush, AllBacked, Backed, HeldInv, ClaimsLive, HeldBy, Holding
  <2>2. /\ UNCHANGED <<queued, op, mode, status>>
        /\ \A s \in Record \ {r} : catalog'[s] = catalog[s]
    BY <1>1 DEF RecordFlush, TypeOK
  <2>3. CopyIsCatalog'
    BY <1>1, <2>0, <2>2 DEF CopyIsCatalog, RecordFlush, TypeOK
  <2>4. \A q \in Process : op[q].step # "idle" => op[q].rec \in Record
    BY DEF TypeOK, Busy, Quiet
  <2>5. ClosedIsQuiet' /\ Withdrawn'
    BY <2>1, <2>2, <2>4 DEF ClosedIsQuiet, Withdrawn
  <2>6. Forgotten' BY <2>1, <2>2 DEF Forgotten
  <2> QED BY <2>3, <2>5, <2>6
<1>2. CASE ~\E r \in Record : RecordFlush(t, r)
  <2>1. UNCHANGED <<op, mode, status, catalog, mem>> /\ queued' \subseteq queued
    BY <1>2 DEF FlushClaim, FlushStep, Upload, RecordSlabs, PinSlabs, PinObject,
       Release, DropQueued, Refresh, PutBatchFails, Abandon
  <2> QED BY <2>1 DEF CopyIsCatalog, ClosedIsQuiet, Withdrawn, Forgotten
<1> QED BY <1>1, <1>2

(***************************************************************************)
(* A record that Forget has told its caller is gone is in neither the      *)
(* queue nor the catalog, and no flush will put it back, while one process *)
(* has the vault and its flushes end within ClaimTimeout: Withdraw takes   *)
(* no row that a flush holds, and a flush holds only rows of the queue.    *)
(***************************************************************************)
THEOREM ForgottenStays ==
  OneProcess /\ ~SlowFlush => (Spec => []ForgottenStaysForgotten)
<1> SUFFICES ASSUME OneProcess, ~SlowFlush PROVE Spec => []ForgottenStaysForgotten
  OBVIOUS
<1>1. Init => ForgetInv
  BY DEF Init, ForgetInv, CopyIsCatalog, ClosedIsQuiet, Withdrawn, Forgotten, Quiet
<1>2. DurableInv /\ HeldInv /\ ForgetInv /\ [Next]_vars => ForgetInv'
  <2> SUFFICES ASSUME DurableInv, HeldInv, ForgetInv, [Next]_vars PROVE ForgetInv'
    OBVIOUS
  <2>1. CASE UNCHANGED vars
    BY <2>1 DEF vars, ForgetInv, CopyIsCatalog, ClosedIsQuiet, Withdrawn, Forgotten
  <2>2. CASE Tick
    BY <2>2 DEF Tick, ForgetInv, CopyIsCatalog, ClosedIsQuiet, Withdrawn, Forgotten
  <2> QED BY <2>1, <2>2, ForgetCall, ForgetFlush DEF Next, DurableInv
<1>3. HeldInv /\ ForgetInv => ForgottenStaysForgotten
  BY DEF HeldInv, ClaimsLive, ForgetInv, Forgotten, ForgottenStaysForgotten
<1> QED BY <1>1, <1>2, <1>3, DurableInvariant, HeldInvariant, PTL DEF Spec

-----------------------------------------------------------------------------
(* What a writer is told of its records is true: every step of a writer is *)
(* one of the write path's or leaves it alone.                             *)

(* Every step a writer takes is a step of the write path, or none. *)
LEMMA WriterSteps == [DurabilityNext]_<<vars, answers>> => [Next]_vars
<1> SUFFICES ASSUME [DurabilityNext]_<<vars, answers>> PROVE Next \/ UNCHANGED vars
  OBVIOUS
<1>0. \A p \in Process : Lane(p) \in Thread BY DEF Lane, Thread
<1>1. CASE UNCHANGED <<vars, answers>> BY <1>1
<1>2. CASE Tick BY <1>2 DEF Next
<1>3. ASSUME NEW p \in Process, Writes(p) PROVE Next \/ UNCHANGED vars
  BY <1>0, <1>3 DEF Writes, Put, Count, AddFlushes, WaitFlushes, FlushReturns, Answer,
     FlushAlone, Broken, Next, Call, FlushStep
<1>4. ASSUME NEW p \in Process, Forgets(p) \/ Comes(p) PROVE Next \/ UNCHANGED vars
  BY <1>4 DEF Forgets, Comes, Next, Call
<1>5. ASSUME NEW t \in Thread, FlushGoesOn(t) PROVE Next \/ UNCHANGED vars
  BY <1>5 DEF FlushGoesOn, Next, FlushStep
<1> QED BY <1>1, <1>2, <1>3, <1>4, <1>5 DEF DurabilityNext

(* So the write path's invariant holds under writers too. *)
LEMMA WriterIsDurable == DurabilitySpec => []DurableInv
<1>1. DurabilityInit => Init BY DEF DurabilityInit
<1>2. DurabilitySpec => Spec BY <1>1, WriterSteps, PTL DEF DurabilitySpec, Spec
<1> QED BY <1>2, DurableInvariant, PTL

-----------------------------------------------------------------------------

(* A record that is catalogued at an object, unless it is being forgotten. *)
Stored(r) == Begun(r) /\ (status[r] = "kept" => Located(r))

(***************************************************************************)
(* Once stored, a record stays so: a flush that was taken over and comes   *)
(* back late replaces the catalog's entry by one that is as good.          *)
(***************************************************************************)
LEMMA StoredStays ==
  ASSUME DurableInv, [Next]_vars, NEW r \in Record, Stored(r)
  PROVE  Stored(r)'
<1> USE DEF DurableInv
<1>1. ASSUME UNCHANGED catalog, pinned \subseteq pinned', objects \subseteq objects',
             Begun(r)', status'[r] = "kept" => status[r] = "kept"
      PROVE  Stored(r)'
  BY <1>1 DEF Stored, Located
<1>2. ASSUME UNCHANGED <<catalog, status>>, pinned \subseteq pinned',
             objects \subseteq objects'
      PROVE  Stored(r)'
  BY <1>1, <1>2 DEF Stored, Begun
<1>3. CASE UNCHANGED vars BY <1>2, <1>3 DEF vars
<1>4. CASE Tick BY <1>2, <1>4 DEF Tick
<1>5. ASSUME NEW p \in Process, Call(p) PROVE Stored(r)'
  <2>1. CASE Open(p) \/ Close(p) \/ Crash(p) \/ AddCount(p) \/ CallFails(p)
    BY <1>2, <2>1 DEF Open, Close, Crash, Gone, AddCount, CallFails
  <2>2. CASE Enqueue(p)
    <3>1. op[p].rec # r
      BY <2>2 DEF Enqueue, OneWriter, Stored, Begun
    <3>2. status'[r] = status[r] BY <2>2, <3>1 DEF Enqueue, TypeOK
    <3> QED BY <1>1, <2>2, <3>2 DEF Enqueue, Stored, Begun
  <2>3. ASSUME NEW s \in Record, RememberPut(p, s) PROVE Stored(r)'
    <3>1. status'[r] = status[r]
      BY <2>3 DEF RememberPut, TypeOK, Stored, Begun
    <3> QED BY <1>1, <2>3, <3>1 DEF RememberPut, Stored, Begun
  <2>4. ASSUME NEW s \in Record, ForgetWithdraw(p, s) PROVE Stored(r)'
    <3>1. status'[r] \in {status[r], "forgetting"} BY <2>4 DEF ForgetWithdraw, TypeOK
    <3> QED BY <1>1, <2>4, <3>1 DEF ForgetWithdraw, Stored, Begun
  <2>5. CASE ForgetCatalog(p)
    <3>1. \/ UNCHANGED <<catalog, status>>
          \/ status'[r] = "forgetting"
          \/ status'[r] = status[r] /\ catalog'[r] = catalog[r]
      BY <2>5 DEF ForgetCatalog, TypeOK
    <3> QED BY <2>5, <3>1 DEF ForgetCatalog, Stored, Begun, Located
  <2>6. CASE ForgetBody(p)
    <3>1. status'[r] \in {status[r], "forgotten"} BY <2>6 DEF ForgetBody, TypeOK
    <3> QED BY <1>1, <2>6, <3>1 DEF ForgetBody, Stored, Begun
  <2> QED BY <1>5, <2>1, <2>2, <2>3, <2>4, <2>5, <2>6 DEF Call
<1>6. ASSUME NEW t \in Thread,
             FlushClaim(t) \/ FlushStep(t) \/ PutBatchFails(t) \/ Abandon(t)
      PROVE  Stored(r)'
  <2>1. ASSUME NEW s \in Record, RecordFlush(t, s) PROVE Stored(r)'
    <3>1. /\ flush[t].slab \in Slab /\ flush[t].slab \in pinned
          /\ <<s, flush[t].slab>> \in objects
      BY <2>1 DEF RecordFlush, AllBacked, Backed, TypeOK, Placed
    <3>2. Located(r) \/ r = s => Located(r)'
      BY <2>1, <3>1 DEF RecordFlush, Located, TypeOK
    <3> QED BY <2>1, <3>2 DEF RecordFlush, Stored, Begun
  <2>2. CASE ~\E s \in Record : RecordFlush(t, s)
    <3>1. /\ UNCHANGED <<catalog, status>>
          /\ pinned \subseteq pinned' /\ objects \subseteq objects'
      BY <1>6, <2>2 DEF FlushClaim, FlushStep, Upload, RecordSlabs, PinSlabs,
         PinObject, Release, DropQueued, Refresh, PutBatchFails, Abandon
    <3> QED BY <1>2, <3>1
  <2> QED BY <2>1, <2>2
<1> QED BY <1>3, <1>4, <1>5, <1>6 DEF Next

-----------------------------------------------------------------------------

WriteRecord ==
  [at : {"none", "putting", "added", "adding", "waiting", "settled"},
   wrote : SUBSET Record, owed : SUBSET Record, batch : SUBSET Record]

(* The flush a write waits for holds what the write thinks it does, or is    *)
(* past DropQueued with all of it stored.                                    *)
AwaitedFlush(p) ==
  call[p].at \in {"adding", "waiting"} =>
    \/ flush[Lane(p)].pc \in Holding /\ flush[Lane(p)].batch = call[p].batch
    \/ flush[Lane(p)].pc = "refresh" /\ \A r \in call[p].batch : Stored(r)

(* What a write no longer owes is stored. *)
SettledIsStored(p) == \A r \in call[p].wrote \ call[p].owed : Stored(r)

CallInv(p) == AwaitedFlush(p) /\ SettledIsStored(p)

ToldInv == \A r \in Record : told[r] = "network" => Stored(r)

AnswerInv ==
  /\ call \in [Process -> WriteRecord]
  /\ \A p \in Process : CallInv(p)
  /\ ToldInv

(* What the flush of the call lane of p may do while p only waits for it. *)
FlushKept(p) ==
  LET f == flush[Lane(p)]  g == flush'[Lane(p)] IN
  \/ g = f
  \/ f.pc \in Holding /\ g.pc \in Holding /\ g.batch = f.batch
  \/ f.pc = "drop" /\ g.pc = "refresh"

(* A write that only waits keeps what it relies on. *)
LEMMA WaitingCall ==
  ASSUME DurableInv, [Next]_vars, NEW p \in Process, call[p] \in WriteRecord,
         CallInv(p), call'[p] = call[p], FlushKept(p)
  PROVE  CallInv(p)'
<1>0. Lane(p) \in Thread BY DEF Lane, Thread
<1>1. call[p].batch \subseteq Record /\ call[p].wrote \subseteq Record
  BY DEF WriteRecord
<1>2. SettledIsStored(p)' BY <1>1, StoredStays DEF CallInv, SettledIsStored
<1>3. "refresh" \notin Holding BY DEF Holding, Writing
<1>4. AwaitedFlush(p)'
  <2> SUFFICES ASSUME call[p].at \in {"adding", "waiting"} PROVE AwaitedFlush(p)'
    BY DEF AwaitedFlush
  <2>1. CASE flush[Lane(p)].pc = "refresh" /\ \A r \in call[p].batch : Stored(r)
    BY <1>1, <1>3, <2>1, StoredStays DEF AwaitedFlush, FlushKept
  <2>2. CASE flush[Lane(p)].pc \in Holding /\ flush[Lane(p)].batch = call[p].batch
    <3>1. CASE flush[Lane(p)].pc = "drop" /\ flush'[Lane(p)].pc = "refresh"
      <4>1. \A r \in call[p].batch : Stored(r)
        BY <1>0, <2>2, <3>1 DEF DurableInv, AllBacked, Backed, OnlyBegun, Stored
      <4> QED BY <1>1, <3>1, <4>1, StoredStays DEF AwaitedFlush
    <3> QED BY <2>2, <3>1 DEF FlushKept, AwaitedFlush
  <2> QED BY <2>1, <2>2 DEF CallInv, AwaitedFlush
<1> QED BY <1>2, <1>4 DEF CallInv

(* What was told goes on being true. *)
LEMMA ToldStays ==
  ASSUME DurableInv, [Next]_vars, ToldInv, told' = told PROVE ToldInv'
  BY StoredStays DEF ToldInv

(* A step that no caller sees. *)
LEMMA AsideStep ==
  ASSUME DurableInv, AnswerInv, [Next]_vars, Aside,
         \A p \in Process : call[p].at \in {"adding", "waiting"} => FlushKept(p)
  PROVE  AnswerInv'
<1>1. call' = call /\ told' = told BY DEF Aside, answers
<1>2. ASSUME NEW p \in Process PROVE CallInv(p)'
  <2>1. call[p] \in WriteRecord /\ CallInv(p) BY DEF AnswerInv
  <2>2. CASE call[p].at \in {"adding", "waiting"}
    BY <1>1, <2>1, <2>2, WaitingCall
  <2>3. CASE call[p].at \notin {"adding", "waiting"}
    BY <1>1, <2>1, <2>3, StoredStays
    DEF CallInv, AwaitedFlush, SettledIsStored, WriteRecord
  <2> QED BY <2>2, <2>3
<1> QED BY <1>1, <1>2, ToldStays DEF AnswerInv

(* A step of the caller of p: the others only wait. *)
LEMMA CallerStep ==
  ASSUME DurableInv, AnswerInv, [Next]_vars, NEW p \in Process, NEW c \in WriteRecord,
         call' = [call EXCEPT ![p] = c], CallInv(p)', ToldInv',
         \A q \in Process \ {p} : flush'[Lane(q)] = flush[Lane(q)]
  PROVE  AnswerInv'
<1>1. call' \in [Process -> WriteRecord] BY DEF AnswerInv
<1>2. ASSUME NEW q \in Process \ {p} PROVE CallInv(q)'
  <2>1. call'[q] = call[q] /\ call[q] \in WriteRecord /\ CallInv(q) BY DEF AnswerInv
  <2>2. FlushKept(q) BY DEF FlushKept
  <2> QED BY <2>1, <2>2, WaitingCall
<1> QED BY <1>1, <1>2 DEF AnswerInv

(* The steps of a write keep what its caller relies on. *)
LEMMA WritesStep ==
  ASSUME Shell = {}, DurableInv, AnswerInv, [Next]_vars, NEW p \in Process, Writes(p)
  PROVE  AnswerInv'
<1> DEFINE c == call[p]  lane == Lane(p)
<1>0. /\ lane \in Thread /\ lane[1] = p /\ lane[2] = "call"
      /\ \A q \in Process : Lane(q) \in Thread /\ (q # p => Lane(q) # lane /\ Lane(q)[1] # p)
      /\ flush \in [Thread -> FlushRecord] /\ flush[lane] \in FlushRecord
      /\ call \in [Process -> WriteRecord] /\ c \in WriteRecord
      /\ CallInv(p) /\ ToldInv
      /\ c.wrote \subseteq Record /\ c.owed \subseteq Record /\ c.batch \subseteq Record
  BY DEF Lane, Thread, DurableInv, TypeOK, AnswerInv, WriteRecord
<1>n. NoCall \in WriteRecord BY DEF NoCall, WriteRecord
<1>t. told' = told => ToldInv' BY <1>0, ToldStays
(* The write ends. *)
<1>e. ASSUME call' = [call EXCEPT ![p] = NoCall], ToldInv',
             \A q \in Process \ {p} : flush'[Lane(q)] = flush[Lane(q)]
      PROVE  AnswerInv'
  <2>1. CallInv(p)'
    BY <1>0, <1>e DEF CallInv, AwaitedFlush, SettledIsStored, NoCall
  <2> QED BY <1>e, <1>n, <2>1, CallerStep
(* The caller hears of its records, each of which is stored if it should be. *)
<1>h. ASSUME NEW owed, Tells(p, OnNetwork(p, owed)), \A r \in c.wrote \ owed : Stored(r)
      PROVE  ToldInv'
  <2>1. \A r \in Record : told'[r] = "network" => told[r] = "network" \/ r \in c.wrote \ owed
    BY <1>h DEF Tells, OnNetwork
  <2> QED BY <1>0, <1>h, <2>1, StoredStays DEF ToldInv
<1>1. ASSUME NEW r \in Record, Put(p, r) PROVE AnswerInv'
  <2> DEFINE d == [c EXCEPT !.at = "putting", !.wrote = @ \cup {r}, !.owed = @ \cup {r}]
  <2>1. /\ d \in WriteRecord /\ d.at = "putting"
        /\ d.wrote = c.wrote \cup {r} /\ d.owed = c.owed \cup {r}
    BY <1>0 DEF WriteRecord
  <2>2. call' = [call EXCEPT ![p] = d] /\ call'[p] = d /\ told' = told
    BY <1>0, <1>1 DEF Put
  <2>3. flush' = flush BY <1>1 DEF Put, RememberPut
  <2> HIDE DEF d
  <2>4. CallInv(p)'
    BY <1>0, <2>1, <2>2, StoredStays DEF CallInv, AwaitedFlush, SettledIsStored
  <2> QED BY <1>t, <2>1, <2>2, <2>3, <2>4, CallerStep
<1>2. CASE Enqueue(p) /\ Aside
  BY <1>2, AsideStep DEF Enqueue, FlushKept
<1>3. CASE Count(p)
  <2> DEFINE d == [c EXCEPT !.at = "added"]
  <2>1. d \in WriteRecord /\ d.at = "added" /\ d.wrote = c.wrote /\ d.owed = c.owed
    BY <1>0 DEF WriteRecord
  <2>2. call' = [call EXCEPT ![p] = d] /\ call'[p] = d /\ told' = told
    BY <1>0, <1>3 DEF Count, Goes
  <2>3. flush' = flush BY <1>3 DEF Count, AddCount
  <2> HIDE DEF d
  <2>4. CallInv(p)'
    BY <1>0, <2>1, <2>2, StoredStays DEF CallInv, AwaitedFlush, SettledIsStored
  <2> QED BY <1>t, <2>1, <2>2, <2>3, <2>4, CallerStep
<1>4. ASSUME NEW next \in {"adding", "waiting"}, FlushClaim(lane), told' = told,
             call' = [call EXCEPT ![p].at = next, ![p].batch = {r \in Record : Claimable(r)}]
      PROVE  AnswerInv'
  <2> DEFINE b == {r \in Record : Claimable(r)}
             d == [c EXCEPT !.at = next, !.batch = b]
  <2>1. /\ d \in WriteRecord /\ d.at = next /\ d.wrote = c.wrote /\ d.owed = c.owed
        /\ d.batch = b
    BY <1>0 DEF WriteRecord
  <2>2. call' = [call EXCEPT ![p] = d] /\ call'[p] = d BY <1>0, <1>4
  <2>3. /\ flush'[lane].pc \in Holding /\ flush'[lane].batch = b
        /\ \A q \in Process \ {p} : flush'[Lane(q)] = flush[Lane(q)]
    BY <1>0, <1>4 DEF FlushClaim, Rest, Holding, Writing
  <2> HIDE DEF d, b
  <2>4. CallInv(p)'
    BY <1>0, <2>1, <2>2, <2>3, StoredStays DEF CallInv, AwaitedFlush, SettledIsStored
  <2> QED BY <1>4, <1>t, <2>1, <2>2, <2>3, <2>4, CallerStep
<1>5. CASE AddFlushes(p) BY <1>4, <1>5 DEF AddFlushes
<1>6. CASE WaitFlushes(p) BY <1>4, <1>6 DEF WaitFlushes
<1>7. CASE FlushReturns(p)
  <2> DEFINE left == Settle(c.owed, c.batch)
  <2>1. /\ flush[lane].pc = "refresh"
        /\ \A q \in Process \ {p} : flush'[Lane(q)] = flush[Lane(q)]
    BY <1>0, <1>7 DEF FlushReturns, Refresh
  <2>2. left = c.owed \ c.batch BY DEF Settle
  <2>3. c.at \in {"adding", "waiting"} => \A r \in c.batch : Stored(r)
    BY <1>0, <2>1 DEF CallInv, AwaitedFlush, Holding, Writing
  <2>4. c.at \in {"adding", "waiting"} => \A r \in c.wrote \ left : Stored(r)
    BY <1>0, <2>2, <2>3 DEF CallInv, SettledIsStored
  <2>5. CASE c.at = "adding" /\ told' = told /\
             call' = [call EXCEPT ![p] = [@ EXCEPT !.at = "settled", !.owed = left,
                                                   !.batch = {}]]
    <3> DEFINE d == [c EXCEPT !.at = "settled", !.owed = left, !.batch = {}]
    <3>1. /\ d \in WriteRecord /\ d.at = "settled" /\ d.wrote = c.wrote /\ d.owed = left
      BY <1>0, <2>2 DEF WriteRecord
    <3>2. call' = [call EXCEPT ![p] = d] /\ call'[p] = d BY <1>0, <2>5
    <3> HIDE DEF d, left
    <3>3. CallInv(p)'
      BY <1>0, <2>4, <2>5, <3>1, <3>2, StoredStays DEF CallInv, AwaitedFlush, SettledIsStored
    <3> QED BY <1>t, <2>1, <2>5, <3>1, <3>2, <3>3, CallerStep
  <2>6. CASE c.at = "waiting" /\ Tells(p, OnNetwork(p, left))
    <3>1. ToldInv' BY <1>h, <2>4, <2>6
    <3> QED BY <1>e, <2>1, <2>6, <3>1 DEF Tells
  <2>7. CASE c.at \notin {"adding", "waiting"} /\ Aside
    BY <2>1, <2>7, AsideStep DEF FlushKept
  <2> QED BY <1>7, <2>5, <2>6, <2>7 DEF FlushReturns
<1>8. CASE Answer(p)
  <2>1. OnNetwork(p, c.owed) = (c.owed = {}) BY DEF OnNetwork
  <2>2. Tells(p, OnNetwork(p, c.owed)) /\ flush' = flush
    BY <1>8, <2>1 DEF Answer, vars
  <2>3. ToldInv' BY <1>0, <1>h, <2>2 DEF CallInv, SettledIsStored
  <2> QED BY <1>e, <2>2, <2>3 DEF Tells
<1>9. CASE FlushAlone(p)
  <2>1. \A q \in Process \ {p} : flush'[Lane(q)] = flush[Lane(q)]
    BY <1>0, <1>9 DEF FlushAlone, FlushClaim
  <2> QED BY <1>9, <2>1, AsideStep DEF FlushAlone, FlushKept
<1>10. CASE Broken(p)
  <2>1. \A q \in Process \ {p} : flush'[Lane(q)] = flush[Lane(q)]
    BY <1>0, <1>10 DEF Broken, CallFails, Crash, Gone, Release, Abandon
  <2> QED BY <1>10, <1>e, <1>t, <2>1 DEF Broken, Fails
<1> QED
  BY <1>1, <1>2, <1>3, <1>5, <1>6, <1>7, <1>8, <1>9, <1>10 DEF Writes

(* A flush goes on as the write that waits for it expects. *)
LEMMA FlushGoesOnStep ==
  ASSUME DurableInv, AnswerInv, [Next]_vars, NEW t \in Thread, FlushGoesOn(t)
  PROVE  AnswerInv'
<1>0. flush \in [Thread -> FlushRecord] /\ flush[t] \in FlushRecord
  BY DEF DurableInv, TypeOK
<1>1. \A u \in Thread \ {t} : flush'[u] = flush[u]
  BY <1>0 DEF FlushGoesOn, Upload, RecordSlabs, PinSlabs, DropQueued, PutBatchFails,
     PinObject, RecordFlush, FlushClaim, Release, Refresh, Abandon
<1>2. CASE t[2] = "timer"
  <2>1. \A p \in Process : Lane(p) \in Thread \ {t} BY <1>2 DEF Lane, Thread
  <2> QED BY <1>1, <2>1, AsideStep DEF FlushGoesOn, FlushKept
<1>3. CASE t[2] # "timer"
  <2>1. \/ /\ flush[t].pc \in Holding /\ flush'[t].pc \in Holding
           /\ flush'[t].batch = flush[t].batch
        \/ flush[t].pc = "drop" /\ flush'[t].pc = "refresh"
    <3> USE <1>0 DEF FlushRecord, Holding, Writing
    <3>1. CASE Upload(t) BY <3>1 DEF Upload
    <3>2. CASE RecordSlabs(t) BY <3>2 DEF RecordSlabs
    <3>3. CASE PinSlabs(t) BY <3>3 DEF PinSlabs
    <3>4. CASE DropQueued(t) BY <3>4 DEF DropQueued, Rest
    <3>5. CASE PutBatchFails(t) BY <3>5 DEF PutBatchFails
    <3>6. ASSUME NEW r \in Record, PinObject(t, r) \/ RecordFlush(t, r)
          PROVE  /\ flush[t].pc \in Holding /\ flush'[t].pc \in Holding
                 /\ flush'[t].batch = flush[t].batch
      BY <3>6 DEF PinObject, RecordFlush
    <3> QED BY <1>3, <3>1, <3>2, <3>3, <3>4, <3>5, <3>6 DEF FlushGoesOn
  <2>2. \A p \in Process : Lane(p) \in Thread BY DEF Lane, Thread
  <2> QED BY <1>1, <2>1, <2>2, AsideStep DEF FlushGoesOn, FlushKept
<1> QED BY <1>2, <1>3

(***************************************************************************)
(* No writer is told a record is on the network before it is, while none   *)
(* runs `sennit remember --flush`: a write counts as settled only what the *)
(* flush it waited for had claimed and catalogued, and what is catalogued  *)
(* at an object stays so until somebody begins to forget it.               *)
(***************************************************************************)
THEOREM ToldIsAlwaysStored == Shell = {} => (DurabilitySpec => []ToldIsStored)
<1> SUFFICES ASSUME Shell = {} PROVE DurabilitySpec => []ToldIsStored OBVIOUS
<1>1. DurabilityInit => AnswerInv
  BY DEF DurabilityInit, AnswerInv, CallInv, AwaitedFlush, SettledIsStored, ToldInv,
     NoCall, WriteRecord
<1>2. DurableInv /\ AnswerInv /\ [DurabilityNext]_<<vars, answers>> => AnswerInv'
  <2> SUFFICES ASSUME DurableInv, AnswerInv, [DurabilityNext]_<<vars, answers>>
               PROVE  AnswerInv'
    OBVIOUS
  <2>0. [Next]_vars BY WriterSteps
  <2>1. CASE UNCHANGED <<vars, answers>>
    BY <2>0, <2>1, AsideStep DEF Aside, vars, FlushKept
  <2>2. CASE Tick /\ Aside BY <2>0, <2>2, AsideStep DEF Tick, FlushKept
  <2>3. ASSUME NEW p \in Process, Forgets(p) PROVE AnswerInv'
    BY <2>0, <2>3, AsideStep DEF Forgets, ForgetWithdraw, ForgetCatalog, ForgetBody,
       CallFails, FlushKept
  <2>4. ASSUME NEW p \in Process, Comes(p) PROVE AnswerInv'
    <3>1. \A q \in Process : Lane(q) \in Thread /\ Lane(q)[1] = q
      BY DEF Lane, Thread
    <3>2. CASE Open(p) BY <2>0, <2>4, <3>2, AsideStep DEF Comes, Open, FlushKept
    <3>3. CASE call[p].at = "none" /\ Close(p)
      <4>1. \A q \in Process \ {p} : flush'[Lane(q)] = flush[Lane(q)]
        BY <3>1, <3>3 DEF Close, Gone
      <4> QED BY <2>0, <2>4, <3>3, <4>1, AsideStep DEF Comes, FlushKept
    <3> QED BY <2>4, <3>2, <3>3 DEF Comes
  <2> QED BY <2>0, <2>1, <2>2, <2>3, <2>4, WritesStep, FlushGoesOnStep
          DEF DurabilityNext
<1>3. AnswerInv => ToldIsStored BY DEF AnswerInv, ToldInv, Stored, ToldIsStored
<1> QED BY <1>1, <1>2, <1>3, WriterIsDurable, PTL DEF DurabilitySpec
=============================================================================
