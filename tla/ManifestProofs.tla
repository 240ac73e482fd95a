--------------------------- MODULE ManifestProofs ---------------------------
(***************************************************************************)
(* The catalog's files implement the catalog, for any number of processes, *)
(* records, changes and faults.                                            *)
(***************************************************************************)
EXTENDS ManifestLog, TLAPS

(***************************************************************************)
(* The invariant.  What is on disk is numbered, the log is never behind    *)
(* the snapshot it is replayed over, and past Settle it ends in a newline. *)
(***************************************************************************)
Numbered ==
  /\ \A r \in Record : snap[r].n <= stamp /\ log[r].n <= stamp
  /\ tail.kind = "line" => tail.chg.n = stamp
LogAhead == \A r \in Record : log[r] # Absent => snap[r].n <= log[r].n
Settled  == \A p \in Process : pc[p] \in Locked \ {"settle"} => tail = NoTail

(* What a process knows where it is. *)
Knows(p) ==
  /\ pc[p] \in Locked \cup {"waiting"} <=> task[p] # Idle
  /\ pc[p] \in {"write", "sync"} => task[p] \in Appending
  /\ pc[p] = "sync" =>
       stamp > 0 /\ log[task[p].rec] = [n |-> stamp, del |-> task[p].del]
  /\ pc[p] = "install" => held[p] = Files
  /\ pc[p] = "empty" => \A r \in Record : log[r] = Absent \/ log[r] = snap[r]
  /\ task[p] \in Appending /\ task[p].del => mem[p][task[p].rec].n > 0
Aware == \A p \in Process : Knows(p)

FileInv ==
  /\ TypeOK /\ Numbered /\ LogAhead /\ Settled /\ Aware
  /\ CopyBehindFiles /\ AcknowledgedIsKept

-----------------------------------------------------------------------------
(* Types.                                                                  *)

USE DEF files

(* Init gives every variable a value of its type. *)
LEMMA TypeInit == Init => TypeOK
  BY SentinelAssumption, BoundAssumption DEF Init, TypeOK, Empty, Change, Locked

(* The forms a process's task and place take. *)
LEMMA AskTypes ==
  ASSUME TypeOK, NEW p \in Process, pc[p] \notin Locked,
         NEW w \in {Idle, Opening, Folding} \cup Appending, Ask(p, w)
  PROVE  TypeOK'
  BY DEF TypeOK, Ask, Locked

(* Asking, taking, and leaving keep the types. *)
LEMMA TypeLock ==
  ASSUME TypeOK, NEW p \in Process,
         \/ Open(p) \/ Compact(p) \/ Close(p) \/ Take(p)
         \/ \E r \in Record : Append(p, r) \/ Remove(p, r)
  PROVE  TypeOK'
<1>1. CASE Open(p)
  BY <1>1, AskTypes DEF Open, Locked
<1>2. CASE Compact(p)
  BY <1>2, AskTypes DEF Compact, Locked
<1>3. ASSUME NEW r \in Record, Append(p, r) \/ Remove(p, r) PROVE TypeOK'
  <2>1. PICK d \in BOOLEAN : Ask(p, [kind |-> "append", rec |-> r, del |-> d])
    BY <1>3 DEF Append, Remove
  <2>2. [kind |-> "append", rec |-> r, del |-> d] \in Appending BY DEF Appending
  <2>3. pc[p] = "idle" BY <1>3 DEF Append, Remove
  <2> QED BY <2>1, <2>2, <2>3, AskTypes DEF Locked
<1>4. CASE Close(p)
  BY <1>4 DEF Close, TypeOK, Empty, Change, Locked
<1>5. CASE Take(p)
  BY <1>5, SentinelAssumption DEF Take, TypeOK, Locked
<1> QED BY <1>1, <1>2, <1>3, <1>4, <1>5

(* The number and the kind of the change p writes. *)
LEMMA MineType ==
  ASSUME TypeOK, NEW p \in Process, task[p] \in Appending, stamp < MaxStamp
  PROVE  Mine(p) \in Line /\ task[p].rec \in Record
  BY BoundAssumption DEF TypeOK, Mine, Line, Appending

(* What replaying the files gives is a change of each record. *)
LEMMA ReplayType == ASSUME TypeOK PROVE Files \in [Record -> Change]
  BY DEF TypeOK, Files, Replay, Change, NoTail, Torn

(* Steps under the lock keep the types, given what the process is doing. *)
LEMMA TypeUnderLock ==
  ASSUME TypeOK, Aware, NEW p \in Process,
         UnderLock(p) \/ WriteFails(p) \/ StepFails(p) \/ Crash(p)
  PROVE  TypeOK'
<1>1. CASE Settle(p)
  <2>1. task[p].kind \in {"open", "append", "compact"}
    <3>1. task[p] \in {Opening, Folding} \cup Appending
      BY <1>1 DEF Settle, Aware, Knows, TypeOK, Locked
    <3> QED BY <3>1 DEF Opening, Folding, Appending
  <2>2. AfterSettle(task[p].kind) \in Locked
    BY <2>1 DEF AfterSettle, Locked
  <2>3. log' \in [Record -> Change]
    BY <1>1 DEF Settle, TypeOK, Change, NoTail, Torn
  <2>4. dropped' \in [Process -> Nat]
    BY <1>1 DEF Settle, TypeOK
  <2>5. pc[p] \in Locked BY <1>1 DEF Settle, Locked
  <2> QED BY <1>1, <2>2, <2>3, <2>4, <2>5 DEF Settle, TypeOK
<1>2. CASE Load(p)
  BY <1>2, ReplayType, SentinelAssumption DEF Load, Return, TypeOK, Locked
<1>3. CASE Write(p)
  <2>1. Mine(p) \in Line /\ task[p].rec \in Record
    BY <1>3, MineType DEF Write, Aware, Knows
  <2> QED BY <1>3, <2>1, BoundAssumption DEF Write, TypeOK, Locked, Change
<1>4. CASE Synced(p)
  <2>1. task[p].rec \in Record /\ task[p].del \in BOOLEAN
    BY <1>4 DEF Synced, Aware, Knows, Appending
  <2>2. [n |-> stamp, del |-> task[p].del] \in Change
    BY <1>4, <2>1 DEF Synced, Aware, Knows, TypeOK
  <2>3. mem' \in [Process -> [Record -> Change]]
    BY <1>4, <2>1, <2>2 DEF Synced, TypeOK
  <2> QED BY <1>4, <2>1, <2>3, SentinelAssumption DEF Synced, Return, TypeOK, Locked
<1>5. CASE Fold(p)
  BY <1>5, ReplayType DEF Fold, TypeOK, Locked
<1>6. CASE Install(p)
  BY <1>6 DEF Install, TypeOK, Locked
<1>7. CASE EmptyLog(p)
  BY <1>7, SentinelAssumption DEF EmptyLog, Return, TypeOK, Locked, Empty, Change
<1>8. CASE WriteFails(p)
  <2>1. task[p] \in Appending BY <1>8 DEF WriteFails, Aware, Knows
  <2>2. /\ tail' \in {NoTail, Torn} \cup [kind : {"line"}, rec : Record, chg : Line]
        /\ stamp' \in 0..MaxStamp
    BY <1>8, <2>1, MineType, BoundAssumption
    DEF WriteFails, PartWritten, Whole, TypeOK
  <2> QED BY <1>8, <2>2, SentinelAssumption, BoundAssumption
          DEF WriteFails, Fail, TypeOK, Locked
<1>9. CASE StepFails(p)
  BY <1>9, SentinelAssumption, BoundAssumption
  DEF StepFails, Fail, TypeOK, Locked, Empty, Change
<1>10. CASE Crash(p)
  <2>1. pc[p] = "write" => task[p] \in Appending BY DEF Aware, Knows
  <2>2. /\ tail' \in {NoTail, Torn} \cup [kind : {"line"}, rec : Record, chg : Line]
        /\ stamp' \in 0..MaxStamp
    BY <1>10, <2>1, MineType, BoundAssumption
    DEF Crash, PartWritten, Whole, TypeOK
  <2> QED BY <1>10, <2>2, SentinelAssumption, BoundAssumption
          DEF Crash, TypeOK, Locked, Empty, Change
<1> QED
  BY <1>1, <1>2, <1>3, <1>4, <1>5, <1>6, <1>7, <1>8, <1>9, <1>10 DEF UnderLock

-----------------------------------------------------------------------------
(* What the steps do to what the files hold.                               *)

(* A step that leaves the files alone leaves what they replay to. *)
LEMMA SameFiles ==
  ASSUME UNCHANGED files PROVE Files' = Files /\ \A r \in Record : Replay(r)' = Replay(r)
  BY DEF Files, Replay

(* Only the holder of the lock is past Settle or about to write. *)
LEMMA OneHolder ==
  ASSUME TypeOK, NEW p \in Process, NEW q \in Process, pc[p] \in Locked, q # p
  PROVE  pc[q] \notin Locked
  BY DEF TypeOK

(* Neither settling, nor installing, nor emptying changes what is replayed. *)
LEMMA KeptFiles ==
  ASSUME FileInv, NEW p \in Process, Settle(p) \/ Install(p) \/ EmptyLog(p)
  PROVE  \A r \in Record : Replay(r)' = Replay(r)
<1> SUFFICES ASSUME NEW r \in Record PROVE Replay(r)' = Replay(r)
  OBVIOUS
<1>1. CASE Settle(p)
  <2>1. snap' = snap /\ tail' = NoTail /\ NoTail.kind = "none"
    BY <1>1 DEF Settle, NoTail
  <2>2. CASE tail.kind # "line"
    BY <1>1, <2>1, <2>2 DEF Settle, Replay
  <2>3. CASE tail.kind = "line"
    <3>1. tail.rec \in Record /\ tail.chg \in Line
      BY <2>3 DEF FileInv, TypeOK, NoTail, Torn
    <3>2. tail.chg # Absent BY <3>1 DEF Line, Absent
    <3>3. log' = [log EXCEPT ![tail.rec] = tail.chg] BY <1>1, <2>3 DEF Settle
    <3>4. log \in [Record -> Change] BY DEF FileInv, TypeOK
    <3> QED BY <2>1, <2>3, <3>1, <3>2, <3>3, <3>4 DEF Replay
  <2> QED BY <2>2, <2>3
<1>2. CASE Install(p)
  <2>1. held[p] = Files BY <1>2 DEF Install, FileInv, Aware, Knows
  <2> QED BY <1>2, <2>1 DEF Install, Replay, Files, FileInv, Settled, Locked, NoTail
<1>3. CASE EmptyLog(p)
  <2>1. log[r] = Absent \/ log[r] = snap[r] BY <1>3 DEF EmptyLog, FileInv, Aware, Knows
  <2>2. tail = NoTail BY <1>3 DEF EmptyLog, FileInv, Settled, Locked
  <2> QED BY <1>3, <2>1, <2>2 DEF EmptyLog, Replay, Empty, NoTail
<1> QED BY <1>1, <1>2, <1>3

(***************************************************************************)
(* A change that reaches the file whole, with its newline or without it,   *)
(* is the newest of all and the only one that is.                          *)
(***************************************************************************)
Reaches(p) ==
  /\ pc[p] = "write" /\ stamp < MaxStamp /\ stamp' = stamp + 1 /\ snap' = snap
  /\ \/ log' = [log EXCEPT ![task[p].rec] = Mine(p)] /\ tail' = NoTail
     \/ log' = log /\ tail' = Whole(task[p].rec, Mine(p))

LEMMA NewChange ==
  ASSUME FileInv, NEW p \in Process, Reaches(p)
  PROVE  /\ task[p] \in Appending /\ task[p].rec \in Record /\ Mine(p) \in Line
         /\ Files' = [Files EXCEPT ![task[p].rec] = Mine(p)]
         /\ \A r \in Record : Replay(r)' = IF r = task[p].rec THEN Mine(p) ELSE Replay(r)
         /\ \A r \in Record : Mine(p).n > Replay(r).n
         /\ Mine(p).del => Replay(task[p].rec).n > 0
<1>1. task[p] \in Appending /\ task[p].rec \in Record /\ Mine(p) \in Line
  BY MineType DEF Reaches, FileInv, Aware, Knows
<1>2. tail = NoTail BY DEF Reaches, FileInv, Settled, Locked
<1>3. \A r \in Record : Replay(r)' = IF r = task[p].rec THEN Mine(p) ELSE Replay(r)
  <2>1. NoTail.kind = "none" /\ Mine(p) # Absent /\ log \in [Record -> Change]
    BY <1>1 DEF NoTail, Line, Absent, FileInv, TypeOK
  <2>2. CASE log' = [log EXCEPT ![task[p].rec] = Mine(p)] /\ tail' = NoTail
    BY <1>1, <1>2, <2>1, <2>2 DEF Reaches, Replay
  <2>3. CASE log' = log /\ tail' = Whole(task[p].rec, Mine(p))
    <3>1. tail'.kind = "line" /\ tail'.rec = task[p].rec /\ tail'.chg = Mine(p)
      BY <2>3 DEF Whole
    <3> QED BY <1>2, <2>1, <2>3, <3>1 DEF Reaches, Replay
  <2> QED BY <2>2, <2>3 DEF Reaches
<1>4. Files' = [Files EXCEPT ![task[p].rec] = Mine(p)] BY <1>3 DEF Files
<1>5. \A r \in Record : Mine(p).n > Replay(r).n
  BY <1>2 DEF Replay, Mine, NoTail, FileInv, Numbered, TypeOK, Change, Line, Absent
<1>6. Mine(p).del => Replay(task[p].rec).n > 0
  <2>1. Replay(task[p].rec) \in Change /\ mem[p][task[p].rec] \in Change
    BY <1>1, ReplayType DEF Files, FileInv, TypeOK
  <2>2. mem[p][task[p].rec].n <= Replay(task[p].rec).n
    BY <1>1 DEF FileInv, CopyBehindFiles
  <2>3. Mine(p).del = task[p].del BY DEF Mine
  <2>4. Mine(p).del => mem[p][task[p].rec].n > 0 BY <1>1, <2>3 DEF FileInv, Aware, Knows
  <2> QED BY <2>1, <2>2, <2>4 DEF Change, Line, Absent
<1> QED BY <1>1, <1>3, <1>4, <1>5, <1>6

(* What a step does to the files: nothing seen, or one new change. *)
LEMMA FilesStep ==
  ASSUME FileInv, Next
  PROVE  \/ \A r \in Record : Replay(r)' = Replay(r)
         \/ \E p \in Process : Reaches(p)
<1>1. CASE UNCHANGED files BY <1>1, SameFiles
<1> SUFFICES ASSUME ~UNCHANGED files, NEW p \in Process,
                    \/ Settle(p) \/ Install(p) \/ EmptyLog(p) \/ Write(p)
                    \/ WriteFails(p) \/ Crash(p)
             PROVE  (\A r \in Record : Replay(r)' = Replay(r)) \/ Reaches(p)
  BY <1>1 DEF Next, UnderLock, Open, Append, Remove, Compact, Ask, Take, Close, Load,
              Synced, Fold, StepFails
<1>2. CASE Settle(p) \/ Install(p) \/ EmptyLog(p) BY <1>2, KeptFiles
<1>3. CASE Write(p)
  BY <1>3 DEF Write, Reaches, FileInv, Settled, Locked
<1>4. ASSUME pc[p] = "write", PartWritten(p), UNCHANGED <<snap, log>>
      PROVE  (\A r \in Record : Replay(r)' = Replay(r)) \/ Reaches(p)
  <2>1. tail = NoTail BY <1>4 DEF FileInv, Settled, Locked
  <2>2. CASE tail' = Torn
    BY <1>4, <2>1, <2>2 DEF Replay, NoTail, Torn
  <2> QED BY <1>4, <2>1, <2>2 DEF PartWritten, Reaches, Replay
<1>5. CASE WriteFails(p) BY <1>4, <1>5 DEF WriteFails
<1>6. CASE Crash(p) BY <1>4, <1>6 DEF Crash
<1> QED BY <1>2, <1>3, <1>5, <1>6

-----------------------------------------------------------------------------
(* The invariant is inductive.                                             *)

(* Types, by the two lemmas above. *)
LEMMA TypeStep == ASSUME FileInv, Next PROVE TypeOK'
  BY TypeLock, TypeUnderLock DEF Next, FileInv

(* The numbers on disk are numbers. *)
LEMMA DiskNumbers ==
  ASSUME TypeOK
  PROVE  /\ stamp \in Nat
         /\ \A r \in Record : snap[r].n \in Nat /\ log[r].n \in Nat
         /\ \A r \in Record : log[r] # Absent => log[r].n > 0
         /\ tail.kind = "line" => tail.rec \in Record /\ tail.chg.n \in Nat
  BY BoundAssumption DEF TypeOK, Change, Line, Absent, NoTail, Torn

(* The steps that touch the files, and what holds where each is taken. *)
LEMMA FileSteps ==
  ASSUME Next, ~UNCHANGED <<files, stamp>>
  PROVE  \E p \in Process :
           \/ Settle(p) \/ Install(p) \/ EmptyLog(p) \/ Write(p)
           \/ pc[p] = "write" /\ PartWritten(p) /\ UNCHANGED <<snap, log>>
  BY DEF Next, UnderLock, Open, Append, Remove, Compact, Ask, Take, Close, Load,
         Synced, Fold, StepFails, WriteFails, Crash

(* No step puts a number on disk that has not been given out. *)
LEMMA NumberedStep ==
  ASSUME FileInv, Next PROVE Numbered'
<1> USE DEF Numbered
<1>1. CASE UNCHANGED <<files, stamp>> BY <1>1 DEF FileInv
<1>2. CASE ~UNCHANGED <<files, stamp>>
  <2>1. PICK p \in Process :
           \/ Settle(p) \/ Install(p) \/ EmptyLog(p) \/ Write(p)
           \/ pc[p] = "write" /\ PartWritten(p) /\ UNCHANGED <<snap, log>>
    BY <1>2, FileSteps
  <2>2. TypeOK /\ Numbered BY DEF FileInv
  <2>3. CASE Settle(p)
    BY <2>2, <2>3, DiskNumbers DEF Settle, TypeOK, NoTail
  <2>4. CASE Install(p)
    <3>1. held[p] = Files /\ tail = NoTail
      BY <2>4 DEF Install, FileInv, Aware, Knows, Settled, Locked
    <3>2. \A r \in Record : snap'[r] = snap[r] \/ snap'[r] = log[r]
      BY <2>4, <3>1 DEF Install, Files, Replay, NoTail
    <3> QED BY <2>2, <2>4, <3>2 DEF Install
  <2>5. CASE EmptyLog(p)
    BY <2>2, <2>5, DiskNumbers DEF EmptyLog, Empty, Absent
  <2>6. CASE Write(p)
    <3>1. tail = NoTail BY <2>6 DEF Write, FileInv, Settled, Locked
    <3>2. \A r \in Record : log'[r] = log[r] \/ log'[r] = Mine(p)
      BY <2>2, <2>6 DEF Write, TypeOK
    <3> QED BY <2>2, <2>6, <3>1, <3>2, DiskNumbers DEF Write, Mine, NoTail
  <2>7. CASE pc[p] = "write" /\ PartWritten(p) /\ UNCHANGED <<snap, log>>
    <3>1. tail = NoTail BY <2>7 DEF FileInv, Settled, Locked
    <3> QED BY <2>2, <2>7, <3>1, DiskNumbers DEF PartWritten, Whole, Mine, NoTail, Torn
  <2> QED BY <2>1, <2>3, <2>4, <2>5, <2>6, <2>7
<1> QED BY <1>1, <1>2

(* No step puts the log behind the snapshot it is replayed over. *)
LEMMA LogAheadStep ==
  ASSUME FileInv, Next PROVE LogAhead'
<1> USE DEF LogAhead
<1>1. CASE UNCHANGED <<files, stamp>> BY <1>1 DEF FileInv
<1>2. CASE ~UNCHANGED <<files, stamp>>
  <2>1. PICK p \in Process :
           \/ Settle(p) \/ Install(p) \/ EmptyLog(p) \/ Write(p)
           \/ pc[p] = "write" /\ PartWritten(p) /\ UNCHANGED <<snap, log>>
    BY <1>2, FileSteps
  <2>2. TypeOK /\ Numbered /\ LogAhead BY DEF FileInv
  <2>3. CASE Settle(p)
    BY <2>2, <2>3, DiskNumbers DEF Settle, TypeOK, Numbered
  <2>4. CASE Install(p)
    <3>1. held[p] = Files /\ tail = NoTail
      BY <2>4 DEF Install, FileInv, Aware, Knows, Settled, Locked
    <3>2. \A r \in Record : log[r] # Absent => snap'[r] = log[r]
      BY <2>4, <3>1 DEF Install, Files, Replay, NoTail
    <3> QED BY <2>2, <2>4, <3>2, DiskNumbers DEF Install
  <2>5. CASE EmptyLog(p)
    BY <2>5 DEF EmptyLog, Empty
  <2>6. CASE Write(p)
    <3>1. \A r \in Record : log'[r] = log[r] \/ log'[r] = Mine(p)
      BY <2>2, <2>6 DEF Write, TypeOK
    <3> QED BY <2>2, <2>6, <3>1, DiskNumbers DEF Write, Mine, Numbered
  <2>7. CASE pc[p] = "write" /\ PartWritten(p) /\ UNCHANGED <<snap, log>>
    BY <2>2, <2>7
  <2> QED BY <2>1, <2>3, <2>4, <2>5, <2>6, <2>7
<1> QED BY <1>1, <1>2

(* Only Settle is taken with an unfinished last line. *)
LEMMA SettledStep ==
  ASSUME FileInv, Next PROVE Settled'
<1>1. TypeOK /\ Settled BY DEF FileInv
<1>2. TypeOK' BY TypeStep
<1>3. PICK p \in Process :
        \/ Open(p) \/ Compact(p) \/ Close(p)
        \/ \E r \in Record : Append(p, r) \/ Remove(p, r)
        \/ Take(p) \/ UnderLock(p)
        \/ WriteFails(p) \/ StepFails(p) \/ Crash(p)
  BY DEF Next
<1> SUFFICES ASSUME NEW q \in Process, pc'[q] \in Locked \ {"settle"}
             PROVE  tail' = NoTail
  BY DEF Settled
<1>4. CASE Settle(p) BY <1>4 DEF Settle
<1>5. CASE q = p
  BY <1>1, <1>3, <1>4, <1>5
  DEF Open, Compact, Close, Append, Remove, Ask, Take, UnderLock, Load, Write, Synced,
      Fold, Install, EmptyLog, WriteFails, StepFails, Crash, Return, Fail, Settled,
      Locked, TypeOK
<1>6. CASE q # p
  <2>1. pc'[q] = pc[q]
    BY <1>1, <1>3, <1>6
    DEF Open, Compact, Close, Append, Remove, Ask, Take, UnderLock, Settle, Load, Write,
        Synced, Fold, Install, EmptyLog, WriteFails, StepFails, Crash, Return, Fail,
        TypeOK
  <2>2. tail = NoTail BY <1>1, <2>1 DEF Settled
  <2>3. pc[p] \notin Locked BY <1>1, <1>6, <2>1 DEF TypeOK
  <2> QED BY <1>3, <2>2, <2>3
    DEF Open, Compact, Close, Append, Remove, Ask, Take, UnderLock, Settle, Load, Write,
        Synced, Fold, Install, EmptyLog, WriteFails, StepFails, Crash, Locked
<1> QED BY <1>5, <1>6

(* The number a process or a caller knows of is not taken back. *)
LEMMA Monotone ==
  ASSUME FileInv, Next, NEW r \in Record
  PROVE  Replay(r).n \in Nat /\ Replay(r)'.n \in Nat /\ Replay(r).n <= Replay(r)'.n
<1>1. Replay(r).n \in Nat
  BY ReplayType DEF FileInv, Files, Change, Line, Absent
<1>2. CASE \A q \in Record : Replay(q)' = Replay(q) BY <1>1, <1>2
<1>3. ASSUME NEW p \in Process, Reaches(p)
      PROVE  Replay(r)'.n \in Nat /\ Replay(r).n <= Replay(r)'.n
  <2>1. Mine(p).n \in Nat /\ Mine(p).n > Replay(r).n BY <1>3, NewChange DEF Line
  <2>2. Replay(r)' = Mine(p) \/ Replay(r)' = Replay(r) BY <1>3, NewChange
  <2> QED BY <1>1, <2>1, <2>2
<1> QED BY <1>1, <1>2, <1>3, FilesStep

(* What the files replay to where p has just synced its line. *)
LEMMA SyncedLine ==
  ASSUME FileInv, NEW p \in Process, Synced(p)
  PROVE  task[p].rec \in Record /\ stamp > 0
         /\ Replay(task[p].rec) = [n |-> stamp, del |-> task[p].del]
<1>1. /\ log[task[p].rec] = [n |-> stamp, del |-> task[p].del]
      /\ task[p].rec \in Record /\ stamp > 0
  BY DEF Synced, FileInv, Aware, Knows, Appending
<1>2. tail = NoTail BY DEF Synced, FileInv, Settled, Locked
<1>3. log[task[p].rec] # Absent
  BY <1>1 DEF Absent
<1> QED BY <1>1, <1>2, <1>3 DEF Replay, NoTail

(* Every entry of a copy was read from the files or is in them already. *)
LEMMA CopyStep ==
  ASSUME FileInv, Next PROVE CopyBehindFiles'
<1> SUFFICES ASSUME NEW q \in Process, NEW r \in Record
             PROVE  mem'[q][r].n <= Replay(r)'.n
  BY DEF CopyBehindFiles
<1>1. TypeOK /\ CopyBehindFiles /\ Aware /\ Settled BY DEF FileInv
<1>2. Replay(r).n \in Nat /\ Replay(r)'.n \in Nat /\ Replay(r).n <= Replay(r)'.n
  BY Monotone
<1>3. mem[q][r].n \in Nat /\ mem[q][r].n <= Replay(r).n
  BY <1>1 DEF TypeOK, CopyBehindFiles, Change, Line, Absent
<1>4. CASE mem'[q][r] = mem[q][r] \/ mem'[q][r] = Absent \/ mem'[q][r] = Replay(r)
  BY <1>2, <1>3, <1>4 DEF Absent
<1>5. CASE mem' = mem BY <1>4, <1>5
<1>6. ASSUME NEW p \in Process, mem' = [mem EXCEPT ![p] = Empty]
      PROVE  mem'[q][r] = mem[q][r] \/ mem'[q][r] = Absent
  BY <1>1, <1>6 DEF TypeOK, Empty
<1>7. ASSUME NEW p \in Process, Load(p)
      PROVE  mem'[q][r] = mem[q][r] \/ mem'[q][r] = Replay(r)
  BY <1>1, <1>7 DEF Load, TypeOK, Files
<1>8. ASSUME NEW p \in Process, Synced(p)
      PROVE  mem'[q][r] = mem[q][r] \/ mem'[q][r] = Replay(r)
  BY <1>1, <1>8, SyncedLine DEF Synced, TypeOK
<1> QED
  BY <1>4, <1>5, <1>6, <1>7, <1>8
  DEF Next, UnderLock, Open, Append, Remove, Compact, Ask, Take, Close, Settle, Write,
      Fold, Install, EmptyLog, StepFails, WriteFails, Crash

(* What a caller was told of stays in the files. *)
LEMMA AckedStep ==
  ASSUME FileInv, Next PROVE AcknowledgedIsKept'
<1> SUFFICES ASSUME NEW r \in Record PROVE acked'[r] <= Replay(r)'.n
  BY DEF AcknowledgedIsKept
<1>1. Replay(r).n \in Nat /\ Replay(r)'.n \in Nat /\ Replay(r).n <= Replay(r)'.n
  BY Monotone
<1>2. acked \in [Record -> Nat] /\ acked[r] <= Replay(r).n
  BY BoundAssumption DEF FileInv, AcknowledgedIsKept, TypeOK
<1>3. CASE acked' = acked BY <1>1, <1>2, <1>3
<1>4. ASSUME NEW p \in Process, Synced(p) PROVE acked'[r] <= Replay(r)'.n
  <2>1. acked' = [acked EXCEPT ![task[p].rec] = stamp] BY <1>4 DEF Synced
  <2>2. CASE r = task[p].rec
    <3>1. acked'[r] = stamp BY <1>2, <2>1, <2>2
    <3>2. Replay(r) = [n |-> stamp, del |-> task[p].del] BY <1>4, <2>2, SyncedLine
    <3>3. Replay(r).n = stamp BY <3>2
    <3> QED BY <1>1, <3>1, <3>3
  <2>3. CASE r # task[p].rec BY <1>1, <1>2, <2>1, <2>3
  <2> QED BY <2>2, <2>3
<1> QED
  BY <1>3, <1>4
  DEF Next, UnderLock, Open, Append, Remove, Compact, Ask, Take, Close, Settle, Load,
      Write, Fold, Install, EmptyLog, StepFails, WriteFails, Crash

(* A step of another process leaves what q knows true. *)
LEMMA AwareOther ==
  ASSUME FileInv, NEW p \in Process, NEW q \in Process, p # q,
         \/ Open(p) \/ Compact(p) \/ Close(p)
         \/ \E r \in Record : Append(p, r) \/ Remove(p, r)
         \/ Take(p) \/ UnderLock(p)
         \/ WriteFails(p) \/ StepFails(p) \/ Crash(p)
  PROVE  /\ pc'[q] = pc[q] /\ task'[q] = task[q] /\ held'[q] = held[q]
         /\ mem'[q] = mem[q]
         /\ pc[q] \in Locked => UNCHANGED <<files, stamp>>
<1>1. TypeOK BY DEF FileInv
<1>2. /\ pc'[q] = pc[q] /\ task'[q] = task[q] /\ held'[q] = held[q]
      /\ mem'[q] = mem[q]
  BY <1>1
  DEF Open, Compact, Close, Append, Remove, Ask, Take, UnderLock, Settle, Load, Write,
      Synced, Fold, Install, EmptyLog, WriteFails, StepFails, Crash, Return, Fail,
      TypeOK
<1>3. ASSUME pc[q] \in Locked PROVE UNCHANGED <<files, stamp>>
  <2>1. pc[p] \notin Locked BY <1>1, <1>3, OneHolder
  <2> QED BY <2>1
    DEF Open, Compact, Close, Append, Remove, Ask, Take, UnderLock, Settle, Load, Write,
        Synced, Fold, Install, EmptyLog, WriteFails, StepFails, Crash, Locked
<1> QED BY <1>2, <1>3

(* What p knows where a step of its own takes it. *)
LEMMA AwareOwn ==
  ASSUME FileInv, NEW p \in Process,
         \/ Open(p) \/ Compact(p) \/ Close(p)
         \/ \E r \in Record : Append(p, r) \/ Remove(p, r)
         \/ Take(p) \/ UnderLock(p)
         \/ WriteFails(p) \/ StepFails(p) \/ Crash(p)
  PROVE  Knows(p)'
<1> USE DEF Knows
<1>1. TypeOK /\ Aware /\ Settled BY DEF FileInv
<1>2. Idle # Opening /\ Idle # Folding /\ Idle \notin Appending
      /\ Opening \notin Appending /\ Folding \notin Appending
  BY DEF Idle, Opening, Folding, Appending
<1>3. CASE Open(p) BY <1>1, <1>2, <1>3 DEF Open, Ask, TypeOK, Locked
<1>4. CASE Compact(p) BY <1>1, <1>2, <1>4 DEF Compact, Ask, TypeOK, Locked
<1>5. CASE Close(p)
  <2>1. task[p] = Idle BY <1>1, <1>5 DEF Close, Aware, Locked
  <2> QED BY <1>1, <1>2, <1>5, <2>1 DEF Close, TypeOK, Locked
<1>6. ASSUME NEW r \in Record, Append(p, r)
      PROVE  Knows(p)'
  <2>1. /\ pc'[p] = "waiting"
        /\ task'[p] = [kind |-> "append", rec |-> r, del |-> FALSE]
    BY <1>1, <1>6 DEF Append, Ask, TypeOK
  <2>2. task'[p] \in Appending /\ ~task'[p].del BY <2>1 DEF Appending
  <2> QED BY <1>2, <2>1, <2>2 DEF Locked
<1>7. ASSUME NEW r \in Record, Remove(p, r)
      PROVE  Knows(p)'
  <2>1. mem[p][r] \in Change /\ mem[p][r] # Absent BY <1>1, <1>7 DEF Remove, TypeOK
  <2>2. mem[p][r].n > 0 BY <2>1 DEF Change, Line
  <2>3. /\ pc'[p] = "waiting" /\ mem' = mem
        /\ task'[p] = [kind |-> "append", rec |-> r, del |-> TRUE]
    BY <1>1, <1>7 DEF Remove, Ask, TypeOK
  <2>4. task'[p] \in Appending /\ task'[p].rec = r BY <2>3 DEF Appending
  <2> QED BY <1>2, <2>2, <2>3, <2>4 DEF Locked
<1>8. CASE Take(p) BY <1>1, <1>8 DEF Take, Aware, TypeOK, Locked
<1>9. CASE Settle(p)
  <2>1. pc' = [pc EXCEPT ![p] = AfterSettle(task[p].kind)] /\ UNCHANGED <<task, mem>>
    BY <1>9 DEF Settle
  <2>2. task[p] \in {Opening, Folding} \cup Appending
    BY <1>1, <1>9 DEF Settle, Aware, TypeOK, Locked
  <2>3. AfterSettle(task[p].kind) \in {"load", "write", "fold"}
        /\ (AfterSettle(task[p].kind) = "write" => task[p] \in Appending)
    BY <2>2 DEF AfterSettle, Opening, Folding
  <2>4. task[p] # Idle BY <1>2, <2>2
  <2>5. pc'[p] = AfterSettle(task[p].kind) BY <1>1, <2>1 DEF TypeOK
  <2> QED BY <1>1, <2>1, <2>3, <2>4, <2>5 DEF Aware, Locked
<1>10. CASE Load(p) \/ Synced(p) \/ EmptyLog(p)
  BY <1>1, <1>2, <1>10 DEF Load, Synced, EmptyLog, Return, TypeOK, Locked
<1>11. CASE WriteFails(p) \/ StepFails(p)
  BY <1>1, <1>2, <1>11 DEF WriteFails, StepFails, Fail, TypeOK, Locked
<1>12. CASE Crash(p)
  BY <1>1, <1>2, <1>12 DEF Crash, TypeOK, Locked
<1>13. CASE Write(p)
  <2>1. tail = NoTail /\ task[p] \in Appending
    BY <1>1, <1>13 DEF Write, Settled, Locked, Aware
  <2>2. log' = [log EXCEPT ![task[p].rec] = Mine(p)] /\ stamp' = stamp + 1
    BY <1>13, <2>1 DEF Write
  <2>3. stamp' > 0 /\ log'[task[p].rec] = [n |-> stamp', del |-> task[p].del]
    BY <1>1, <2>1, <2>2, BoundAssumption DEF Mine, TypeOK, Appending
  <2> QED BY <1>1, <1>13, <2>1, <2>3 DEF Write, Aware, TypeOK, Locked
<1>14. CASE Fold(p)
  <2>1. Files' = Files BY <1>14, SameFiles DEF Fold
  <2> QED BY <1>1, <1>14, <2>1 DEF Fold, Aware, TypeOK, Locked
<1>15. CASE Install(p)
  <2>1. \A r \in Record : log'[r] = Absent \/ log'[r] = snap'[r]
    <3>1. held[p] = Files /\ tail = NoTail /\ snap' = held[p] /\ log' = log
      BY <1>1, <1>15 DEF Install, Aware, Settled, Locked
    <3>2. \A r \in Record : log[r] # Absent => Replay(r) = log[r]
      BY <3>1 DEF Replay, NoTail
    <3> QED BY <3>1, <3>2 DEF Files
  <2> QED BY <1>1, <1>15, <2>1 DEF Install, Aware, TypeOK, Locked
<1> QED
  BY <1>3, <1>4, <1>5, <1>6, <1>7, <1>8, <1>9, <1>10, <1>11, <1>12, <1>13, <1>14, <1>15
  DEF UnderLock

(* What every process knows stays true. *)
LEMMA AwareStep ==
  ASSUME FileInv, Next PROVE Aware'
<1> SUFFICES ASSUME NEW q \in Process PROVE Knows(q)'
  BY DEF Aware
<1>1. PICK p \in Process :
        \/ Open(p) \/ Compact(p) \/ Close(p)
        \/ \E r \in Record : Append(p, r) \/ Remove(p, r)
        \/ Take(p) \/ UnderLock(p)
        \/ WriteFails(p) \/ StepFails(p) \/ Crash(p)
  BY DEF Next
<1>2. CASE q = p BY <1>1, <1>2, AwareOwn
<1>3. CASE q # p
  <2>1. Knows(q) BY DEF FileInv, Aware
  <2>2. /\ pc'[q] = pc[q] /\ task'[q] = task[q] /\ held'[q] = held[q]
        /\ mem'[q] = mem[q]
        /\ pc[q] \in Locked => UNCHANGED <<files, stamp>>
    BY <1>1, <1>3, AwareOther
  <2>3. CASE pc[q] \in Locked
    <3>1. Files' = Files BY <2>2, <2>3, SameFiles
    <3> QED BY <2>1, <2>2, <2>3, <3>1 DEF Knows
  <2>4. CASE pc[q] \notin Locked
    BY <2>1, <2>2, <2>4 DEF Knows, Locked
  <2> QED BY <2>3, <2>4
<1> QED BY <1>2, <1>3

(* The invariant holds initially. *)
LEMMA InvInit == ASSUME Init PROVE FileInv
<1>1. TypeOK BY TypeInit
<1>2. Numbered /\ LogAhead
  BY DEF Init, Numbered, LogAhead, Empty, Absent, NoTail
<1>3. Settled /\ Aware
  BY DEF Init, Settled, Aware, Knows, Locked, Idle, Appending
<1>4. \A r \in Record : Replay(r) = Absent
  BY DEF Init, Replay, Empty, NoTail
<1>5. CopyBehindFiles /\ AcknowledgedIsKept
  BY <1>4 DEF Init, CopyBehindFiles, AcknowledgedIsKept, Empty, Absent
<1> QED BY <1>1, <1>2, <1>3, <1>5 DEF FileInv

(* And every step keeps it. *)
LEMMA InvStep == ASSUME FileInv, [Next]_vars PROVE FileInv'
<1>1. CASE Next
  BY <1>1, TypeStep, NumberedStep, LogAheadStep, SettledStep, AwareStep, CopyStep,
     AckedStep DEF FileInv
<1>2. CASE UNCHANGED vars
  BY <1>2 DEF vars, FileInv, TypeOK, Numbered, LogAhead, Settled, Aware, Knows,
              CopyBehindFiles, AcknowledgedIsKept, Files, Replay
<1> QED BY <1>1, <1>2

LEMMA Invariance == Spec => []FileInv
<1>1. Init => FileInv BY InvInit
<1>2. FileInv /\ [Next]_vars => FileInv' BY InvStep
<1> QED BY <1>1, <1>2, PTL DEF Spec

(***************************************************************************)
(* Every variable of the catalog's files and copies keeps its type, and    *)
(* the file lock is held by exactly the process that is under it, whoever  *)
(* failed or died there.                                                   *)
(***************************************************************************)
THEOREM LogTypeCorrect == Spec => []TypeOK
<1>1. FileInv => TypeOK BY DEF FileInv
<1> QED BY <1>1, Invariance, PTL

(***************************************************************************)
(* No process's copy of the catalog is ever ahead of the files: what it    *)
(* reads there is on disk, at that change or a later one.                  *)
(***************************************************************************)
THEOREM CopyNeverAhead == Spec => []CopyBehindFiles
<1>1. FileInv => CopyBehindFiles BY DEF FileInv
<1> QED BY <1>1, Invariance, PTL

(***************************************************************************)
(* What Append answered for is in the files for good, or a later change of *)
(* the same record is.                                                     *)
(***************************************************************************)
THEOREM PromisesKept == Spec => []AcknowledgedIsKept
<1>1. FileInv => AcknowledgedIsKept BY DEF FileInv
<1> QED BY <1>1, Invariance, PTL

(***************************************************************************)
(* The log and its snapshot implement the catalog: through torn lines,     *)
(* failed writes, compactions cut short and crashes, what the files replay *)
(* to changes one record at a time, only ever to a newer change, and what  *)
(* Append answered for is never lost.                                      *)
(***************************************************************************)
THEOREM FilesImplementCatalog == Spec => ImplementsCatalog
<1>1. Init => Abstract!Init
  BY DEF Init, Abstract!Init, Files, Replay, Empty, NoTail, Absent, Abstract!Absent
<1>2. FileInv /\ [Next]_vars => [Abstract!Next]_(Abstract!catalogVars)
  <2> SUFFICES ASSUME FileInv, [Next]_vars
               PROVE  Abstract!Next \/ (Files' = Files /\ acked' = acked)
    BY DEF Abstract!catalogVars
  <2>1. CASE UNCHANGED vars BY <2>1, SameFiles DEF vars
  <2>2. ASSUME NEW p \in Process, Synced(p) PROVE Abstract!Next
    <3>1. task[p].rec \in Record /\ Replay(task[p].rec) = [n |-> stamp, del |-> task[p].del]
      BY <2>2, SyncedLine
    <3>2. Files[task[p].rec].n = stamp BY <3>1 DEF Files
    <3>3. Files' = Files BY <2>2, SameFiles DEF Synced
    <3>4. Abstract!Promise(task[p].rec)
      BY <2>2, <3>2, <3>3 DEF Abstract!Promise, Synced
    <3> QED BY <3>1, <3>4 DEF Abstract!Next
  <2>3. ASSUME NEW p \in Process, Reaches(p), acked' = acked PROVE Abstract!Next
    <3>1. /\ task[p].rec \in Record /\ Mine(p) \in Line
          /\ Files' = [Files EXCEPT ![task[p].rec] = Mine(p)]
          /\ \A r \in Record : Mine(p).n > Replay(r).n
          /\ Mine(p).del => Replay(task[p].rec).n > 0
      BY <2>3, NewChange
    <3>2. \A r \in Record : Files[r] = Replay(r) BY DEF Files
    <3>3. Mine(p) \in Abstract!Change BY <3>1 DEF Line, Abstract!Change
    <3>4. Abstract!Put(task[p].rec)
      BY <2>3, <3>1, <3>2, <3>3 DEF Abstract!Put
    <3> QED BY <3>1, <3>4 DEF Abstract!Next
  <2>4. CASE Next /\ ~\E p \in Process : Synced(p)
    <3>1. acked' = acked
      BY <2>4 DEF Next, UnderLock, Open, Append, Remove, Compact, Ask, Take, Close,
                  Settle, Load, Write, Fold, Install, EmptyLog, StepFails, WriteFails,
                  Crash
    <3>2. CASE \A r \in Record : Replay(r)' = Replay(r)
      BY <3>1, <3>2 DEF Files
    <3> QED BY <2>3, <2>4, <3>1, <3>2, FilesStep
  <2> QED BY <2>1, <2>2, <2>4
<1> QED BY <1>1, <1>2, Invariance, PTL DEF Spec, ImplementsCatalog, Abstract!Spec
=============================================================================
