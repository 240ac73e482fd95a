------------------------------- MODULE Packer -------------------------------
(***************************************************************************)
(* The write path of a sennit vault: Remember puts a record on the device  *)
(* and queues it (vault/remember.go), the packer claims the queue and      *)
(* writes it as one batch (store/packer/packer.go), the store uploads the  *)
(* batch, records its slab in the ledger and pins it (store/store.go), and *)
(* the vault catalogues where each record landed before the queue rows are *)
(* dropped.  Forget takes a record back (vault/reclaim.go).                *)
(*                                                                         *)
(* Several processes have the same vault open: every command and every     *)
(* agent's server is one.  They share the device database (queue, ledger,  *)
(* bodies) and the catalog's files, and each keeps its own copy of the     *)
(* catalog and its own idea of how full the queue is.  A process flushes   *)
(* from a call it serves and, once StartFlushing ran, from a timer.        *)
(***************************************************************************)
EXTENDS Integers, FiniteSets

CONSTANTS
  Process,    (* the processes that may have the vault open              *)
  Record,     (* record ids; a record's body, frame and CID follow its id *)
  Host,       (* those that run a flush timer (StartFlushing)             *)
  NoRecord,   (* what a process that serves no Remember or Forget holds   *)
  Timeout,    (* ClaimTimeout, in ticks                                   *)
  SlowFlush,  (* whether a flush may outlive ClaimTimeout                 *)
  MaxSlab,    (* bound: how many batches are ever uploaded                *)
  MaxFault    (* bound: how many calls fail or processes die              *)

ASSUME RecordAssumption == IsFiniteSet(Record) /\ NoRecord \notin Record
ASSUME HostAssumption == Host \subseteq Process
ASSUME TimeoutAssumption == Timeout \in Nat
ASSUME SlowFlushAssumption == SlowFlush \in BOOLEAN
ASSUME BoundAssumption == MaxSlab \in Nat /\ MaxFault \in Nat

VARIABLES
  (* the device database, shared by every process *)
  body,      (* records with a local copy: body, vector, ranking rows      *)
  queued,    (* records with a row in the queue table                      *)
  claim,     (* age of each row's claim, or Free                           *)
  ledger,    (* slabs the ledger lists                                     *)
  (* the catalog's files, shared by every process *)
  catalog,   (* each record's latest entry: its slab, None or Deleted      *)
  (* the indexer, shared by every process *)
  uploaded,  (* how many slabs have been uploaded; their ids are 1, 2, ... *)
  pinned,    (* slabs the account is billed for                            *)
  objects,   (* <<record, slab>> pairs the indexer can serve               *)
  (* each process *)
  mode,      (* "closed", or open "online" or "offline"                    *)
  mem,       (* its copy of the catalog                                    *)
  pending,   (* Packer.state.Records                                       *)
  op,        (* the Remember or Forget it serves                           *)
  flush,     (* what each of its flushing threads is doing                 *)
  (* history *)
  status,    (* how far each record's life has got, as callers were told   *)
  faults     (* failures so far                                            *)

vars == <<body, queued, claim, ledger, catalog, uploaded, pinned, objects,
          mode, mem, pending, op, flush, status, faults>>

device  == <<body, queued, claim, ledger>>
indexer == <<uploaded, pinned, objects>>

Free    == -1
None    == 0
Deleted == -1

(* A process flushes from the calls it serves, and a host from its timer. *)
Thread == (Process \X {"call"}) \cup (Host \X {"timer"})
Slab   == 1..MaxSlab
Entry  == Slab \cup {None, Deleted}
Age    == 0..(Timeout + 1)

Quiet == [step |-> "idle", rec |-> NoRecord, seen |-> 0]
Rest  == [pc |-> "idle", batch |-> {}, slab |-> 0, todo |-> {}, seen |-> 0]

(* Where PutBatch can fail; the caller then hands the batch back. *)
Writing == {"claimed", "uploaded", "tracked", "pinning"}
(* A flush that still owns rows it claimed. *)
Holding == Writing \cup {"release", "catalog", "drop"}

(***************************************************************************)
(* A claim older than ClaimTimeout is one the next flush takes over and    *)
(* the next withdrawal ignores.                                            *)
(***************************************************************************)
NeverStale(r) == FALSE              (* mutant: claims never lapse *)
Stale(r)      == claim[r] > Timeout

AnyRow(r)    == r \in queued         (* mutant: claims are not looked at *)
Claimable(r) == r \in queued /\ (claim[r] = Free \/ Stale(r))

-----------------------------------------------------------------------------

Init ==
  /\ body = {} /\ queued = {} /\ ledger = {}
  /\ claim = [r \in Record |-> Free]
  /\ catalog = [r \in Record |-> None]
  /\ uploaded = 0 /\ pinned = {} /\ objects = {}
  /\ mode = [p \in Process |-> "closed"]
  /\ mem = [p \in Process |-> [r \in Record |-> None]]
  /\ pending = [p \in Process |-> 0]
  /\ op = [p \in Process |-> Quiet]
  /\ flush = [t \in Thread |-> Rest]
  /\ status = [r \in Record |-> "new"]
  /\ faults = 0

-----------------------------------------------------------------------------
(* A process opens the vault and leaves it.                                *)

(***************************************************************************)
(* Open replays the catalog into the process's copy and reads the queue's  *)
(* size once.  An indexer that cannot be reached leaves it offline.        *)
(***************************************************************************)
Open(p) ==
  /\ mode[p] = "closed"
  /\ \E m \in {"online", "offline"} : mode' = [mode EXCEPT ![p] = m]
  /\ mem' = [mem EXCEPT ![p] = catalog]
  /\ pending' = [pending EXCEPT ![p] = Cardinality(queued)]
  /\ UNCHANGED <<device, catalog, indexer, op, flush, status, faults>>

(* What a process holds in memory goes with it; claims stay in the table. *)
Gone(p) ==
  /\ mode' = [mode EXCEPT ![p] = "closed"]
  /\ mem' = [mem EXCEPT ![p] = [r \in Record |-> None]]
  /\ pending' = [pending EXCEPT ![p] = 0]
  /\ op' = [op EXCEPT ![p] = Quiet]
  /\ flush' = [t \in Thread |-> IF t[1] = p THEN Rest ELSE flush[t]]
  /\ UNCHANGED <<device, catalog, indexer, status>>

(* Close waits for a flush under way (Packer.Stop). *)
Close(p) ==
  /\ mode[p] # "closed" /\ op[p] = Quiet
  /\ \A t \in Thread : t[1] = p => flush[t] = Rest
  /\ Gone(p)
  /\ UNCHANGED faults

Crash(p) ==
  /\ mode[p] # "closed" /\ faults < MaxFault
  /\ Gone(p)
  /\ faults' = faults + 1

-----------------------------------------------------------------------------
(* Remember.                                                               *)

(* PutBody, putVector and PutRankingMeta, before anything is queued. *)
RememberPut(p, r) ==
  /\ mode[p] # "closed" /\ op[p] = Quiet
  /\ status[r] = "new"
  /\ body' = body \cup {r}
  /\ status' = [status EXCEPT ![r] = "writing"]
  /\ op' = [op EXCEPT ![p] = [step |-> "put", rec |-> r, seen |-> 0]]
  /\ UNCHANGED <<queued, claim, ledger, catalog, indexer, mode, mem, pending,
                 flush, faults>>

(* Packer.Add, up to the row: from here on the record is promised. *)
Enqueue(p) ==
  /\ op[p].step = "put"
  /\ queued' = queued \cup {op[p].rec}
  /\ claim' = [claim EXCEPT ![op[p].rec] = Free]
  /\ status' = [status EXCEPT ![op[p].rec] = "kept"]
  /\ op' = [op EXCEPT ![p].step = "queued"]
  /\ UNCHANGED <<body, ledger, catalog, indexer, mode, mem, pending, flush,
                 faults>>

(***************************************************************************)
(* Packer.Add, the part under the packer's mutex.  The flush it may find   *)
(* due is a FlushClaim of the "call" lane.                                 *)
(***************************************************************************)
AddCount(p) ==
  /\ op[p].step = "queued"
  /\ pending' = [pending EXCEPT ![p] = @ + 1]
  /\ op' = [op EXCEPT ![p] = Quiet]
  /\ UNCHANGED <<device, catalog, indexer, mode, mem, flush, status, faults>>

-----------------------------------------------------------------------------
(* Flushing.                                                               *)

(***************************************************************************)
(* Packer.flush claims every claimable row in one statement.  The timer    *)
(* only flushes when the process's own count says something is queued; a   *)
(* call flushes whatever the table holds.  With nothing to claim, flush    *)
(* returns without a change.                                               *)
(***************************************************************************)
FlushClaim(t) ==
  LET batch == {r \in Record : Claimable(r)} IN
  /\ mode[t[1]] = "online" /\ flush[t] = Rest
  /\ t[2] = "timer" => pending[t[1]] > 0
  /\ batch # {}
  /\ claim' = [r \in Record |-> IF r \in batch THEN 0 ELSE claim[r]]
  /\ flush' = [flush EXCEPT ![t] = [Rest EXCEPT !.pc = "claimed",
                                                !.batch = batch]]
  /\ UNCHANGED <<body, queued, ledger, catalog, indexer, mode, mem, pending,
                 op, status, faults>>

(* Store.PutBatch: the upload finalizes and the slab's id exists. *)
Upload(t) ==
  /\ flush[t].pc = "claimed" /\ uploaded < MaxSlab
  /\ uploaded' = uploaded + 1
  /\ flush' = [flush EXCEPT ![t].pc = "uploaded", ![t].slab = uploaded + 1]
  /\ UNCHANGED <<device, catalog, pinned, objects, mode, mem, pending, op,
                 status, faults>>

(* Store.PutBatch: the ledger entry, by Vault.recordSlabs. *)
RecordSlabs(t) ==
  /\ flush[t].pc = "uploaded"
  /\ ledger' = ledger \cup {flush[t].slab}
  /\ flush' = [flush EXCEPT ![t].pc = "tracked"]
  /\ UNCHANGED <<body, queued, claim, catalog, indexer, mode, mem, pending,
                 op, status, faults>>

(* Mutant: pins what the ledger may not have yet. *)
PinUnrecorded(t) ==
  /\ flush[t].pc \in {"uploaded", "tracked"}
  /\ pinned' = pinned \cup {flush[t].slab}
  /\ flush' = [flush EXCEPT ![t].pc = "pinning", ![t].todo = flush[t].batch]
  /\ UNCHANGED <<device, catalog, uploaded, objects, mode, mem, pending, op,
                 status, faults>>

(* Store.PutBatch: from here on the account is billed for the slab. *)
PinSlabs(t) ==
  /\ flush[t].pc = "tracked"
  /\ pinned' = pinned \cup {flush[t].slab}
  /\ flush' = [flush EXCEPT ![t].pc = "pinning", ![t].todo = flush[t].batch]
  /\ UNCHANGED <<device, catalog, uploaded, objects, mode, mem, pending, op,
                 status, faults>>

(* PinObjects: the batch's objects land one by one, in any order. *)
PinObject(t, r) ==
  LET left == flush[t].todo \ {r} IN
  /\ flush[t].pc = "pinning" /\ r \in flush[t].todo
  /\ objects' = objects \cup {<<r, flush[t].slab>>}
  /\ flush' = [flush EXCEPT
        ![t].pc = IF left = {} THEN "catalog" ELSE "pinning",
        ![t].todo = IF left = {} THEN flush[t].batch ELSE left]
  /\ UNCHANGED <<device, catalog, uploaded, pinned, mode, mem, pending, op,
                 status, faults>>

(* A call PutBatch makes fails, with or without its effect. *)
PutBatchFails(t) ==
  /\ flush[t].pc \in Writing /\ faults < MaxFault
  /\ flush' = [flush EXCEPT ![t].pc = "release"]
  /\ faults' = faults + 1
  /\ UNCHANGED <<device, catalog, indexer, mode, mem, pending, op, status>>

(* Mutant: frees the whole queue. *)
ReleaseAll(t) ==
  /\ flush[t].pc = "release"
  /\ claim' = [r \in Record |-> Free]
  /\ flush' = [flush EXCEPT ![t] = Rest]
  /\ UNCHANGED <<body, queued, ledger, catalog, indexer, mode, mem, pending,
                 op, status, faults>>

(* ReleaseQueued frees the rows by id, whoever holds their claim by now. *)
Release(t) ==
  /\ flush[t].pc = "release"
  /\ claim' = [r \in Record |-> IF r \in flush[t].batch THEN Free ELSE claim[r]]
  /\ flush' = [flush EXCEPT ![t] = Rest]
  /\ UNCHANGED <<body, queued, ledger, catalog, indexer, mode, mem, pending,
                 op, status, faults>>

(***************************************************************************)
(* Vault.recordFlush appends one entry per record, to the files and then   *)
(* to the process's copy.  An entry replaces whatever the catalog held.    *)
(***************************************************************************)
RecordFlush(t, r) ==
  LET left == flush[t].todo \ {r} IN
  /\ flush[t].pc = "catalog" /\ r \in flush[t].todo
  /\ catalog' = [catalog EXCEPT ![r] = flush[t].slab]
  /\ mem' = [mem EXCEPT ![t[1]][r] = flush[t].slab]
  /\ flush' = [flush EXCEPT ![t].pc = IF left = {} THEN "drop" ELSE "catalog",
                            ![t].todo = left]
  /\ UNCHANGED <<device, indexer, mode, pending, op, status, faults>>

(* Mutant: drops the rows before every record is catalogued. *)
DropEarly(t) ==
  /\ flush[t].pc \in {"catalog", "drop"}
  /\ queued' = queued \ flush[t].batch
  /\ claim' = [r \in Record |-> IF r \in flush[t].batch THEN Free ELSE claim[r]]
  /\ flush' = [flush EXCEPT ![t] = [Rest EXCEPT !.pc = "refresh",
                                       !.seen = Cardinality(queued')]]
  /\ UNCHANGED <<body, ledger, catalog, indexer, mode, mem, pending, op,
                 status, faults>>

(* DropQueued deletes the rows by id; refresh then reads the queue's size. *)
DropQueued(t) ==
  /\ flush[t].pc = "drop"
  /\ queued' = queued \ flush[t].batch
  /\ claim' = [r \in Record |-> IF r \in flush[t].batch THEN Free ELSE claim[r]]
  /\ flush' = [flush EXCEPT ![t] = [Rest EXCEPT !.pc = "refresh",
                                       !.seen = Cardinality(queued')]]
  /\ UNCHANGED <<body, ledger, catalog, indexer, mode, mem, pending, op,
                 status, faults>>

(* refresh stores, under the mutex, the size it read before it took it. *)
Refresh(t) ==
  /\ flush[t].pc = "refresh"
  /\ pending' = [pending EXCEPT ![t[1]] = flush[t].seen]
  /\ flush' = [flush EXCEPT ![t] = Rest]
  /\ UNCHANGED <<device, catalog, indexer, mode, mem, op, status, faults>>

(***************************************************************************)
(* Cataloguing, dropping, or handing back fails: the flush ends with its   *)
(* claims in place, and they lapse.                                        *)
(***************************************************************************)
Abandon(t) ==
  /\ flush[t].pc \in {"catalog", "drop", "refresh", "release"}
  /\ faults < MaxFault
  /\ flush' = [flush EXCEPT ![t] = Rest]
  /\ faults' = faults + 1
  /\ UNCHANGED <<device, catalog, indexer, mode, mem, pending, op, status>>

-----------------------------------------------------------------------------
(* Forget.                                                                 *)

(* Mutant: withdraws a row some flush is writing. *)
WithdrawClaimed(p, r) ==
  /\ mode[p] # "closed" /\ op[p] = Quiet
  /\ status[r] # "new"
  /\ queued' = queued \ {r}
  /\ claim' = [claim EXCEPT ![r] = Free]
  /\ status' = IF r \in queued THEN [status EXCEPT ![r] = "forgetting"]
                               ELSE status
  /\ op' = [op EXCEPT ![p] =
              [step |-> IF r \in queued THEN "withdrawn" ELSE "unqueued",
               rec |-> r, seen |-> Cardinality(queued')]]
  /\ UNCHANGED <<body, ledger, catalog, indexer, mode, mem, pending, flush,
                 faults>>

(***************************************************************************)
(* Packer.Withdraw: one statement deletes the row unless a live claim      *)
(* holds it, in which case Forget is refused with nothing changed.         *)
(***************************************************************************)
ForgetWithdraw(p, r) ==
  /\ mode[p] # "closed" /\ op[p] = Quiet
  /\ status[r] # "new"
  /\ r \in queued => Claimable(r)
  /\ queued' = queued \ {r}
  /\ claim' = [claim EXCEPT ![r] = Free]
  /\ status' = IF r \in queued THEN [status EXCEPT ![r] = "forgetting"]
                               ELSE status
  /\ op' = [op EXCEPT ![p] =
              [step |-> IF r \in queued THEN "withdrawn" ELSE "unqueued",
               rec |-> r, seen |-> Cardinality(queued')]]
  /\ UNCHANGED <<body, ledger, catalog, indexer, mode, mem, pending, flush,
                 faults>>

(* Mutant: takes the withdrawn record off the process's own count. *)
CountDown(p) == pending[p] - 1
(* Packer.refresh after a withdrawal: the size the table had, not a count. *)
SizeAfterWithdraw(p) == op[p].seen

(***************************************************************************)
(* Manifest.Remove looks the record up in the process's copy and appends a *)
(* removal.  A record it does not find there is an error, unless this call *)
(* just withdrew it from the queue.                                        *)
(***************************************************************************)
ForgetCatalog(p) ==
  LET r == op[p].rec IN
  /\ op[p].step \in {"withdrawn", "unqueued"}
  /\ pending' = [pending EXCEPT ![p] = IF op[p].step = "withdrawn"
                                       THEN SizeAfterWithdraw(p) ELSE @]
  /\ \/ /\ mem[p][r] \in Slab
        /\ catalog' = [catalog EXCEPT ![r] = Deleted]
        /\ mem' = [mem EXCEPT ![p][r] = Deleted]
        /\ status' = [status EXCEPT ![r] = "forgetting"]
        /\ op' = [op EXCEPT ![p].step = "removed"]
     \/ /\ mem[p][r] \notin Slab /\ op[p].step = "withdrawn"
        /\ op' = [op EXCEPT ![p].step = "removed"]
        /\ UNCHANGED <<catalog, mem, status>>
     \/ /\ mem[p][r] \notin Slab /\ op[p].step = "unqueued"
        /\ op' = [op EXCEPT ![p] = Quiet]
        /\ UNCHANGED <<catalog, mem, status>>
  /\ UNCHANGED <<device, indexer, mode, flush, faults>>

(* ForgetBody, removeVector and ForgetRankingMeta; the caller is told. *)
ForgetBody(p) ==
  /\ op[p].step = "removed"
  /\ body' = body \ {op[p].rec}
  /\ status' = [status EXCEPT ![op[p].rec] = "forgotten"]
  /\ op' = [op EXCEPT ![p] = Quiet]
  /\ UNCHANGED <<queued, claim, ledger, catalog, indexer, mode, mem, pending,
                 flush, faults>>

(* A write to the device fails: the call ends where it had got to. *)
CallFails(p) ==
  /\ op[p].step \in {"put", "withdrawn", "unqueued", "removed"}
  /\ faults < MaxFault
  /\ op' = [op EXCEPT ![p] = Quiet]
  /\ faults' = faults + 1
  /\ UNCHANGED <<device, catalog, indexer, mode, mem, pending, flush, status>>

-----------------------------------------------------------------------------
(***************************************************************************)
(* Time passes and claims age.  Without SlowFlush every flush ends before  *)
(* its claim lapses, which is what DefaultClaimTimeout is chosen for.      *)
(***************************************************************************)
Ticking == {r \in queued : claim[r] \in 0..Timeout}

Tick ==
  /\ Ticking # {}
  /\ SlowFlush \/ \A t \in Thread : \A r \in Ticking :
        (flush[t].pc \in Holding /\ r \in flush[t].batch) => claim[r] < Timeout
  /\ claim' = [r \in Record |-> IF r \in Ticking THEN claim[r] + 1 ELSE claim[r]]
  /\ UNCHANGED <<body, queued, ledger, catalog, indexer, mode, mem, pending,
                 op, flush, status, faults>>

Call(p) ==
  \/ Open(p) \/ Close(p) \/ Crash(p)
  \/ Enqueue(p) \/ AddCount(p)
  \/ ForgetCatalog(p) \/ ForgetBody(p) \/ CallFails(p)
  \/ \E r \in Record : RememberPut(p, r) \/ ForgetWithdraw(p, r)

FlushStep(t) ==
  \/ Upload(t) \/ RecordSlabs(t) \/ PinSlabs(t)
  \/ \E r \in Record : PinObject(t, r) \/ RecordFlush(t, r)
  \/ Release(t) \/ DropQueued(t) \/ Refresh(t)

Next ==
  \/ Tick
  \/ \E p \in Process : Call(p)
  \/ \E t \in Thread :
       FlushClaim(t) \/ FlushStep(t) \/ PutBatchFails(t) \/ Abandon(t)

Spec == Init /\ [][Next]_vars

-----------------------------------------------------------------------------
(* Safety.                                                                 *)

(* A record the catalog places on an object the indexer can serve. *)
Located(r) ==
  /\ catalog[r] \in Slab /\ catalog[r] \in pinned
  /\ <<r, catalog[r]>> \in objects

(* What op holds of a process that serves a Remember or a Forget. *)
Busy == [step : {"put", "queued", "withdrawn", "unqueued", "removed"},
         rec : Record, seen : Nat]
(* What flush holds of a thread. *)
FlushRecord == [pc : Holding \cup {"idle", "refresh"}, batch : SUBSET Record,
                slab : 0..MaxSlab, todo : SUBSET Record, seen : Nat]

(* The steps at which a batch has a slab. *)
Placed == {"uploaded", "tracked", "pinning", "catalog", "drop"}

(***************************************************************************)
(* Every variable keeps its type.                                          *)
(***************************************************************************)
TypeOK ==
  /\ body \subseteq Record /\ queued \subseteq Record
  /\ claim \in [Record -> Age \cup {Free}]
  /\ ledger \subseteq Slab /\ pinned \subseteq Slab
  /\ uploaded \in 0..MaxSlab
  /\ objects \subseteq Record \X Slab
  /\ catalog \in [Record -> Entry]
  /\ mode \in [Process -> {"closed", "online", "offline"}]
  /\ mem \in [Process -> [Record -> Entry]]
  /\ pending \in [Process -> Nat]
  /\ op \in [Process -> {Quiet} \cup Busy]
  /\ flush \in [Thread -> FlushRecord]
  /\ \A t \in Thread : flush[t].pc \in Placed => flush[t].slab \in Slab
  /\ status \in [Record -> {"new", "writing", "kept", "forgetting",
                             "forgotten"}]
  /\ faults \in 0..MaxFault

(***************************************************************************)
(* A record that was queued and that nobody has begun to forget is still   *)
(* in the queue or is catalogued at an object the indexer serves, whatever *)
(* crashed, failed, or took over whose flush in between.                   *)
(***************************************************************************)
Durable == \A r \in Record : status[r] = "kept" => r \in queued \/ Located(r)

(***************************************************************************)
(* Every slab the account is billed for is one the ledger can find again,  *)
(* even when the flush that pinned it died half way through pinning.       *)
(***************************************************************************)
BilledIsLedgered == pinned \subseteq ledger

(***************************************************************************)
(* No two flushes write the same record at the same time, and the row of a *)
(* record a flush is writing is protected by a claim: nothing is paid for  *)
(* twice while flushes end within ClaimTimeout.                            *)
(***************************************************************************)
HeldBy(t, r) == flush[t].pc \in Holding /\ r \in flush[t].batch

OneFlushPerRecord ==
  \A r \in Record : \A t, u \in Thread : HeldBy(t, r) /\ HeldBy(u, r) => t = u

ClaimProtects ==
  \A t \in Thread, r \in Record :
    HeldBy(t, r) /\ r \in queued => claim[r] # Free

(***************************************************************************)
(* Claims do their work: no record is in two flushes at once, and none     *)
(* that a flush is writing can be claimed by the next, whichever of the    *)
(* timer, a call and a retry after a failed upload runs it.                *)
(***************************************************************************)
ClaimsHold == OneFlushPerRecord /\ ClaimProtects

(***************************************************************************)
(* Once Forget has told its caller the record is gone, the record is in    *)
(* neither the queue nor the catalog's files, and no flush under way will  *)
(* put it back.                                                            *)
(***************************************************************************)
ForgottenStaysForgotten ==
  \A r \in Record : status[r] = "forgotten" =>
    /\ r \notin queued /\ catalog[r] \notin Slab
    /\ \A t \in Thread : ~HeldBy(t, r)

-----------------------------------------------------------------------------
(* Liveness.                                                               *)

(***************************************************************************)
(* Calls and flushes under way go on, time passes, and a host that is not  *)
(* connected comes back: what every process does when it is not killed.    *)
(***************************************************************************)
Progress ==
  /\ WF_vars(Tick)
  /\ \A t \in Thread : WF_vars(FlushStep(t))
  /\ \A p \in Process :
       /\ WF_vars(Enqueue(p)) /\ WF_vars(AddCount(p))
       /\ WF_vars(ForgetCatalog(p)) /\ WF_vars(ForgetBody(p))
  /\ \A p \in Host :
       /\ SF_vars(Open(p) /\ mode'[p] = "online")
       /\ SF_vars(Close(p) /\ mode[p] = "offline")

(* Somebody runs `sennit flush` again and again. *)
FlushedByHand == \A p \in Host : SF_vars(FlushClaim(<<p, "call">>))
(* The timers run. *)
FlushedByTimer == \A p \in Host : SF_vars(FlushClaim(<<p, "timer">>))

HandSpec  == Spec /\ Progress /\ FlushedByHand
TimerSpec == Spec /\ Progress /\ FlushedByTimer

(***************************************************************************)
(* Every queued record eventually leaves the queue, for the network or     *)
(* because it was forgotten, however a flush of it ended before.           *)
(***************************************************************************)
Drained == \A r \in Record : r \in queued ~> r \notin queued
=============================================================================
