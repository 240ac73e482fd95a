---------------------------- MODULE ManifestLog ----------------------------
(***************************************************************************)
(* The catalog's files (manifest/log.go, lines.go, snapshot.go) and the    *)
(* copy of them each process keeps (manifest/manifest.go).                 *)
(*                                                                         *)
(* A snapshot holds one sealed line per record; the log holds every change *)
(* since.  Every process with the vault open appends to the one log, and   *)
(* any of them may fold it into a fresh snapshot; a file lock, which the   *)
(* system takes from a process that dies, covers every change of the files *)
(* and the reading that decides what to cut off them.                      *)
(*                                                                         *)
(* Replaying a file keeps the last line of each record, so a file is the   *)
(* function from records to their last line in it.  What a crash leaves is *)
(* a last line without its newline: unreadable if it was cut anywhere but  *)
(* at the newline, whole otherwise.                                        *)
(***************************************************************************)
EXTENDS Integers, FiniteSets

CONSTANTS
  Process,   (* the processes that may have the catalog open  *)
  Record,    (* record ids                                    *)
  Nobody,    (* who holds a lock nobody holds                 *)
  NoRecord,  (* what a process with no change in hand holds   *)
  MaxStamp,  (* bound: how many changes are ever written      *)
  MaxFault   (* bound: how many steps fail or processes die   *)

ASSUME SentinelAssumption == Nobody \notin Process /\ NoRecord \notin Record
ASSUME BoundAssumption == MaxStamp \in Nat /\ MaxFault \in Nat

VARIABLES
  snap,   (* manifest.snapshot                                            *)
  log,    (* manifest.log, up to its last newline                         *)
  tail,   (* what follows that newline                                    *)
  lock,   (* who holds manifest.lock                                      *)
  pc,     (* where each process is                                        *)
  task,   (* what it wants the lock for, and the change it appends        *)
  held,   (* what its compaction read from the files                      *)
  mem,    (* Manifest.entries, its copy of the catalog                    *)
  dropped,(* Log.dropped                                                  *)
  stamp,  (* history: how many changes have been written, whole or not    *)
  acked,  (* history: the latest change of each record Append answered for *)
  faults  (* failures so far                                              *)

vars == <<snap, log, tail, lock, pc, task, held, mem, dropped, stamp, acked,
          faults>>
files == <<snap, log, tail>>

(* A change is numbered when it is written; 0 is "no line". *)
Absent == [n |-> 0, del |-> FALSE]
Line   == [n : 1..MaxStamp, del : BOOLEAN]
Change == Line \cup {Absent}
Empty  == [r \in Record |-> Absent]

NoTail     == [kind |-> "none", rec |-> NoRecord, chg |-> Absent]
Torn       == [kind |-> "torn", rec |-> NoRecord, chg |-> Absent]
Whole(r,c) == [kind |-> "line", rec |-> r, chg |-> c]

(* What a process wants the lock for. *)
Idle      == [kind |-> "none", rec |-> NoRecord, del |-> FALSE]
Opening   == [kind |-> "open", rec |-> NoRecord, del |-> FALSE]
Folding   == [kind |-> "compact", rec |-> NoRecord, del |-> FALSE]
Appending == [kind : {"append"}, rec : Record, del : BOOLEAN]

(* Where a process that holds the lock can be. *)
Locked == {"settle", "load", "write", "sync", "fold", "install", "empty"}

(***************************************************************************)
(* readEntries over the snapshot and then the log: the last line of each   *)
(* record, a last line that lacks only its newline included.               *)
(***************************************************************************)
Replay(r) ==
  IF tail.kind = "line" /\ tail.rec = r THEN tail.chg
  ELSE IF log[r] # Absent THEN log[r] ELSE snap[r]
Files == [r \in Record |-> Replay(r)]

Init ==
  /\ snap = Empty /\ log = Empty /\ tail = NoTail
  /\ lock = Nobody
  /\ pc = [p \in Process |-> "closed"]
  /\ task = [p \in Process |-> Idle]
  /\ held = [p \in Process |-> Empty]
  /\ mem = [p \in Process |-> Empty]
  /\ dropped = [p \in Process |-> 0]
  /\ stamp = 0
  /\ acked = [r \in Record |-> 0]
  /\ faults = 0

-----------------------------------------------------------------------------
(* Asking for the lock and leaving it.                                     *)

(***************************************************************************)
(* OpenLog and Load, Append of a placed record, Remove of a record the     *)
(* copy holds, and Compact.  Manifest.mu and Log.mu keep a process to one  *)
(* of them at a time.                                                      *)
(***************************************************************************)
Ask(p, want) ==
  /\ pc' = [pc EXCEPT ![p] = "waiting"]
  /\ task' = [task EXCEPT ![p] = want]
  /\ UNCHANGED <<files, lock, held, mem, dropped, stamp, acked, faults>>

Open(p) ==
  /\ pc[p] = "closed"
  /\ Ask(p, Opening)

(* Bound: every append asked for can still be numbered. *)
Room == stamp + Cardinality({p \in Process : task[p].kind = "append"}) < MaxStamp

Append(p, r) ==
  /\ pc[p] = "idle" /\ Room
  /\ Ask(p, [kind |-> "append", rec |-> r, del |-> FALSE])

Remove(p, r) ==
  /\ pc[p] = "idle" /\ Room
  /\ mem[p][r] # Absent /\ ~mem[p][r].del
  /\ Ask(p, [kind |-> "append", rec |-> r, del |-> TRUE])

Compact(p) ==
  /\ pc[p] = "idle"
  /\ Ask(p, Folding)

(* filelock.Mutex.Lock waits until nobody holds it. *)
Take(p) ==
  /\ pc[p] = "waiting" /\ lock = Nobody
  /\ lock' = p
  /\ pc' = [pc EXCEPT ![p] = "settle"]
  /\ UNCHANGED <<files, task, held, mem, dropped, stamp, acked, faults>>

(* Log.Close; what the process kept in memory goes with it. *)
Close(p) ==
  /\ pc[p] = "idle"
  /\ pc' = [pc EXCEPT ![p] = "closed"]
  /\ mem' = [mem EXCEPT ![p] = Empty]
  /\ dropped' = [dropped EXCEPT ![p] = 0]
  /\ UNCHANGED <<files, lock, task, held, stamp, acked, faults>>

(* The deferred Unlock of an operation that did what it was asked. *)
Return(p) ==
  /\ lock' = Nobody
  /\ pc' = [pc EXCEPT ![p] = "idle"]
  /\ task' = [task EXCEPT ![p] = Idle]

(* Mutant: an operation that fails returns without unlocking. *)
FailLocked(p) ==
  /\ faults < MaxFault
  /\ pc' = [pc EXCEPT ![p] = IF task[p].kind = "open" THEN "closed" ELSE "idle"]
  /\ task' = [task EXCEPT ![p] = Idle]
  /\ faults' = faults + 1
  /\ UNCHANGED lock

(* The deferred Unlock of one that failed. *)
Fail(p) ==
  /\ faults < MaxFault
  /\ lock' = Nobody
  /\ pc' = [pc EXCEPT ![p] = IF task[p].kind = "open" THEN "closed" ELSE "idle"]
  /\ task' = [task EXCEPT ![p] = Idle]
  /\ faults' = faults + 1

-----------------------------------------------------------------------------
(* Under the lock.                                                         *)

(* What an operation does once the log ends where a line ends. *)
AfterSettle(kind) ==
  IF kind = "open" THEN "load" ELSE IF kind = "append" THEN "write" ELSE "fold"

(* Mutant: appends where the last process stopped. *)
Unsettled(p) ==
  /\ pc[p] = "settle"
  /\ pc' = [pc EXCEPT ![p] = AfterSettle(task[p].kind)]
  /\ UNCHANGED <<files, lock, task, held, mem, dropped, stamp, acked, faults>>

(***************************************************************************)
(* settle, and the cut replay makes before it: a last line nothing can     *)
(* read is taken off and counted, and a whole one is given its newline.    *)
(***************************************************************************)
Settle(p) ==
  /\ pc[p] = "settle"
  /\ pc' = [pc EXCEPT ![p] = AfterSettle(task[p].kind)]
  /\ tail' = NoTail
  /\ log' = IF tail.kind = "line" THEN [log EXCEPT ![tail.rec] = tail.chg] ELSE log
  /\ dropped' = [dropped EXCEPT ![p] = IF tail.kind = "torn" THEN @ + 1 ELSE @]
  /\ UNCHANGED <<snap, lock, task, held, mem, stamp, acked, faults>>

(* Load keeps what Replay read. *)
Load(p) ==
  /\ pc[p] = "load"
  /\ mem' = [mem EXCEPT ![p] = Files]
  /\ Return(p)
  /\ UNCHANGED <<files, held, dropped, stamp, acked, faults>>

(* The change p appends, with the number the next change gets. *)
Mine(p) == [n |-> stamp + 1, del |-> task[p].del]

(***************************************************************************)
(* Append writes the line where the log ends.  Written after an unfinished *)
(* line it would be part of that line, and nothing could read either.      *)
(***************************************************************************)
Write(p) ==
  /\ pc[p] = "write" /\ stamp < MaxStamp
  /\ log' = IF tail = NoTail THEN [log EXCEPT ![task[p].rec] = Mine(p)] ELSE log
  /\ tail' = IF tail = NoTail THEN NoTail ELSE Torn
  /\ stamp' = stamp + 1
  /\ pc' = [pc EXCEPT ![p] = "sync"]
  /\ UNCHANGED <<snap, lock, task, held, mem, dropped, acked, faults>>

(* Nothing, part of the line, or all of it but the newline reached the file. *)
PartWritten(p) ==
  \/ UNCHANGED <<tail, stamp>>
  \/ tail' = Torn /\ UNCHANGED stamp
  \/ /\ stamp < MaxStamp
     /\ tail' = Whole(task[p].rec, Mine(p))
     /\ stamp' = stamp + 1

(* The write fails, and so may the cut that takes its part of a line off. *)
WriteFails(p) ==
  /\ pc[p] = "write"
  /\ Fail(p)
  /\ PartWritten(p)
  /\ UNCHANGED <<snap, log, held, mem, dropped, acked>>

(* Once the log is synced, the change is added to the copy and answered for. *)
Synced(p) ==
  LET r == task[p].rec IN
  /\ pc[p] = "sync"
  /\ mem' = [mem EXCEPT ![p][r] = [n |-> stamp, del |-> task[p].del]]
  /\ acked' = [acked EXCEPT ![r] = stamp]
  /\ Return(p)
  /\ UNCHANGED <<files, held, dropped, stamp, faults>>

(* Mutant: the snapshot is written from the process's own copy. *)
FoldCopy(p) ==
  /\ pc[p] = "fold"
  /\ held' = [held EXCEPT ![p] = mem[p]]
  /\ pc' = [pc EXCEPT ![p] = "install"]
  /\ UNCHANGED <<files, lock, task, mem, dropped, stamp, acked, faults>>

(* Mutant: removal markers are left out of the snapshot. *)
FoldLive(p) ==
  /\ pc[p] = "fold"
  /\ held' = [held EXCEPT ![p] =
                [r \in Record |-> IF Replay(r).del THEN Absent ELSE Replay(r)]]
  /\ pc' = [pc EXCEPT ![p] = "install"]
  /\ UNCHANGED <<files, lock, task, mem, dropped, stamp, acked, faults>>

(* compact reads the files back under the lock it will empty the log under. *)
Fold(p) ==
  /\ pc[p] = "fold"
  /\ held' = [held EXCEPT ![p] = Files]
  /\ pc' = [pc EXCEPT ![p] = "install"]
  /\ UNCHANGED <<files, lock, task, mem, dropped, stamp, acked, faults>>

(* The snapshot, written whole under another name, is renamed into place. *)
Install(p) ==
  /\ pc[p] = "install"
  /\ snap' = held[p]
  /\ pc' = [pc EXCEPT ![p] = "empty"]
  /\ UNCHANGED <<log, tail, lock, task, held, mem, dropped, stamp, acked, faults>>

(* cut(0) empties the log. *)
EmptyLog(p) ==
  /\ pc[p] = "empty"
  /\ log' = Empty
  /\ held' = [held EXCEPT ![p] = Empty]
  /\ Return(p)
  /\ UNCHANGED <<snap, tail, mem, dropped, stamp, acked, faults>>

(* Any other step under the lock fails and leaves the files as they are. *)
StepFails(p) ==
  /\ pc[p] \in Locked \ {"write"}
  /\ Fail(p)
  /\ held' = [held EXCEPT ![p] = Empty]
  /\ UNCHANGED <<files, mem, dropped, stamp, acked>>

(* The process dies; the system releases its lock. *)
Crash(p) ==
  /\ pc[p] # "closed" /\ faults < MaxFault
  /\ IF pc[p] = "write" THEN PartWritten(p) ELSE UNCHANGED <<tail, stamp>>
  /\ lock' = IF lock = p THEN Nobody ELSE lock
  /\ pc' = [pc EXCEPT ![p] = "closed"]
  /\ task' = [task EXCEPT ![p] = Idle]
  /\ held' = [held EXCEPT ![p] = Empty]
  /\ mem' = [mem EXCEPT ![p] = Empty]
  /\ dropped' = [dropped EXCEPT ![p] = 0]
  /\ faults' = faults + 1
  /\ UNCHANGED <<snap, log, acked>>

UnderLock(p) ==
  \/ Settle(p) \/ Load(p) \/ Write(p) \/ Synced(p)
  \/ Fold(p) \/ Install(p) \/ EmptyLog(p)

Next ==
  \E p \in Process :
    \/ Open(p) \/ Compact(p) \/ Close(p)
    \/ \E r \in Record : Append(p, r) \/ Remove(p, r)
    \/ Take(p) \/ UnderLock(p)
    \/ WriteFails(p) \/ StepFails(p) \/ Crash(p)

Spec == Init /\ [][Next]_vars

-----------------------------------------------------------------------------
(* Safety.                                                                 *)

(***************************************************************************)
(* Every variable keeps its type, and the lock is held by the one process  *)
(* that is between taking it and its deferred Unlock, if any.              *)
(***************************************************************************)
TypeOK ==
  /\ snap \in [Record -> Change] /\ log \in [Record -> Change]
  /\ tail \in {NoTail, Torn} \cup [kind : {"line"}, rec : Record, chg : Line]
  /\ lock \in Process \cup {Nobody}
  /\ pc \in [Process -> Locked \cup {"closed", "idle", "waiting"}]
  /\ task \in [Process -> {Idle, Opening, Folding} \cup Appending]
  /\ held \in [Process -> [Record -> Change]]
  /\ mem \in [Process -> [Record -> Change]]
  /\ dropped \in [Process -> Nat]
  /\ stamp \in 0..MaxStamp /\ acked \in [Record -> 0..MaxStamp]
  /\ faults \in 0..MaxFault
  /\ \A p \in Process : pc[p] \in Locked <=> lock = p

(***************************************************************************)
(* Everything in a process's copy is in the files, at the same change or a *)
(* later one: no process acts on an entry the disk has lost.               *)
(***************************************************************************)
CopyBehindFiles ==
  \A p \in Process, r \in Record : mem[p][r].n <= Replay(r).n

(***************************************************************************)
(* A change Append answered for is in the files until a later change of    *)
(* the same record is, whichever process dies in the middle of which line. *)
(***************************************************************************)
AcknowledgedIsKept == \A r \in Record : acked[r] <= Replay(r).n

(***************************************************************************)
(* The files implement the catalog: replaying them never shows an older    *)
(* change where a newer one was in effect, through crashes in the middle   *)
(* of a line, failed writes and compactions cut short, and a change Append *)
(* answered for is there until a later one of the same record.             *)
(***************************************************************************)
Abstract == INSTANCE Catalog WITH entry <- Files, promised <- acked
ImplementsCatalog == Abstract!Spec

-----------------------------------------------------------------------------
(* Liveness.                                                               *)

(* A blocking lock is granted, and a process under it goes on to the end. *)
Fairness == \A p \in Process : SF_vars(Take(p)) /\ WF_vars(UnderLock(p))
FairSpec == Spec /\ Fairness

(***************************************************************************)
(* Nobody waits for the lock for ever, even behind a process that died or  *)
(* failed under it.                                                        *)
(***************************************************************************)
Served == \A p \in Process : pc[p] = "waiting" ~> pc[p] \in {"idle", "closed"}
=============================================================================
