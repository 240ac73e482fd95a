---------------------------- MODULE DeviceProofs ----------------------------
(***************************************************************************)
(* Theorems about what a device keeps and brings back: its index files     *)
(* (IndexStore), the restore of a vault from the network (Recovery) and    *)
(* the opening of a vault (Startup).                                       *)
(***************************************************************************)
EXTENDS IndexStore, Recovery, Startup, FiniteSetTheorems, SequenceTheorems, TLAPS

USE DEF None, Unknown

(***************************************************************************)
(* The index files.                                                        *)
(*                                                                         *)
(* settle trusts a delta of the size its process left it at, so the index  *)
(* rests on one thing: no delta that ends in an unfinished line has that   *)
(* size.  One process alone never meets such a delta; with several, lines  *)
(* of two lengths can come to the remembered size in a delta emptied and   *)
(* written anew, and until that has happened the files are whole.          *)
(***************************************************************************)
OneUser == \A p, q \in Process : p = q

(* The files are the lines written: the delta's line of a record is the    *)
(* last one written, and the base has what it says when there is none.     *)
FilesAreWritten ==
  \A r \in Subject :
    /\ delta[r] = NoLine => base[r] = Latest(r)
    /\ delta[r] # NoLine => delta[r] = written[r]
    /\ written[r].n <= stamp

LoadedWasWritten ==
  \A p \in Process, r \in Subject :
    loaded[p][r] # None => loaded[p][r] = Latest(r) \/ loaded[p][r] < written[r].n

IndexInv == IndexTypeOK /\ (~misled => FilesAreWritten /\ LoadedWasWritten)

LEMMA LineSize ==
  ASSUME NEW removed \in BOOLEAN
  PROVE  Size(removed) \in Nat \ {0}
BY SizeAssumption DEF Size

(* Until settle is misled it leaves nothing of an unfinished line. *)
LEMMA SettleSettles ==
  ASSUME IndexTypeOK, NEW p \in Process, Misled(p), ~misled'
  PROVE  ~misled /\ Unfinished(p) = 0
BY DEF IndexTypeOK, Misled, Coincides, Unfinished

(* What the files say of a record is what was last written of it. *)
LEMMA FilesReadBack ==
  ASSUME FilesAreWritten, NEW r \in Subject
  PROVE  Vector(r) = Latest(r)
BY DEF FilesAreWritten, Vector, Latest

LEMMA IndexStart == IndexInit => IndexInv
<1> SUFFICES ASSUME IndexInit PROVE IndexInv
  OBVIOUS
<1> USE DEF IndexInit
<1>1. IndexTypeOK
  <2>1. NoLine \in Line
    BY IndexBounds DEF NoLine, Line
  <2>2. misled \in BOOLEAN
    OBVIOUS
  <2> QED BY <2>1, <2>2, IndexBounds DEF IndexTypeOK
<1>2. FilesAreWritten /\ LoadedWasWritten
  BY DEF FilesAreWritten, LoadedWasWritten, Latest, NoLine
<1> QED BY <1>1, <1>2 DEF IndexInv

(* Types hold for lines of any lengths and any number of processes. *)
LEMMA IndexTypeStep ==
  ASSUME IndexTypeOK, IndexNext PROVE IndexTypeOK'
<1>1. /\ Hydrated \in [Subject -> 0..MaxStamp] /\ [r \in Subject |-> None] \in [Subject -> 0..MaxStamp]
      /\ [r \in Subject |-> NoLine] \in [Subject -> Line]
  BY IndexBounds DEF Hydrated, Vector, NoLine, Line, IndexTypeOK
<1>2. \A p \in Process : Unfinished(p) \in Nat
  BY DEF Unfinished, IndexTypeOK
<1>3. failures < MaxFailure => failures + 1 \in 0..MaxFailure
  BY IndexBounds DEF IndexTypeOK
<1>4. PICK p \in Process :
        \/ Open(p) \/ Close(p) \/ Fold(p) \/ FoldStops(p)
        \/ \E r \in Subject, removed \in BOOLEAN :
             AppendLine(p, r, removed) \/ AppendDies(p, r, removed) \/ AppendFails(p, r, removed)
  BY DEF IndexNext
<1>5. misled' \in BOOLEAN
  <2>1. Misled(p) \/ misled' = misled
    BY <1>4, Zenon DEF Open, Close, Fold, FoldStops, AppendLine, AppendDies, AppendFails
  <2> QED BY <2>1 DEF Misled, Coincides, IndexTypeOK
<1>6. PICK left \in Nat : left = Unfinished(p)
  BY <1>2
<1>7. whole \in Nat /\ whole + left \in Nat
  BY DEF IndexTypeOK
<1>8. CASE Open(p)
  <2>1. tail' = [tail EXCEPT ![p] = whole + left] /\ torn' = left
    BY <1>6, <1>8, Zenon DEF Open
  <2>2. tail' \in [Process -> Nat \cup {Unknown}]
    BY <1>7, <2>1 DEF IndexTypeOK
  <2> QED BY <1>1, <1>8, <1>5, <2>1, <2>2 DEF Open, IndexTypeOK
<1>9. CASE Close(p)
  BY <1>1, <1>9 DEF Close, IndexTypeOK
<1>10. CASE Fold(p)
  BY <1>1, <1>10 DEF Fold, IndexTypeOK
<1>11. CASE FoldStops(p)
  BY <1>1, <1>3, <1>11 DEF FoldStops, IndexTypeOK
<1>12. ASSUME NEW r \in Subject, NEW removed \in BOOLEAN,
              AppendDies(p, r, removed) \/ AppendFails(p, r, removed)
       PROVE  IndexTypeOK'
  <2>1. Size(removed) \in Nat \ {0}
    BY LineSize
  <2>2. torn' \in Nat
    <3>1. PICK part \in 0..(Size(removed) - 1) : torn' = left + part
      BY <1>6, <1>12, Zenon DEF AppendDies, AppendFails
    <3> QED BY <2>1, <3>1
  <2>3. /\ failures' \in 0..MaxFailure
        /\ base' = base /\ delta' = delta /\ whole' = whole /\ written' = written /\ stamp' = stamp
    BY <1>3, <1>12, Zenon DEF AppendDies, AppendFails
  <2>4. open' \subseteq Process
    BY <1>12 DEF AppendDies, AppendFails, IndexTypeOK
  <2>5. tail' = [tail EXCEPT ![p] = Unknown] \/ tail' = [tail EXCEPT ![p] = whole + left]
    BY <1>6, <1>12, Zenon DEF AppendDies, AppendFails
  <2>6. tail' \in [Process -> Nat \cup {Unknown}]
    BY <1>7, <2>5 DEF IndexTypeOK
  <2>7. loaded' = loaded \/ loaded' = [loaded EXCEPT ![p] = [x \in Subject |-> None]]
    BY <1>12, Zenon DEF AppendDies, AppendFails
  <2>8. loaded' \in [Process -> [Subject -> 0..MaxStamp]]
    BY <1>1, <2>7 DEF IndexTypeOK
  <2> QED BY <1>5, <2>2, <2>3, <2>4, <2>6, <2>8 DEF IndexTypeOK
<1>13. ASSUME NEW r \in Subject, NEW removed \in BOOLEAN, AppendLine(p, r, removed)
       PROVE  IndexTypeOK'
  <2>1. PICK size \in Nat : size = Size(removed)
    BY LineSize
  <2>2. stamp \in Nat /\ stamp + 1 \in 0..MaxStamp
    BY <1>13, IndexBounds DEF AppendLine, IndexTypeOK
  <2>3. PICK line \in Line : line = [n |-> stamp + 1, removed |-> removed]
    BY <2>2 DEF Line
  <2>4. /\ stamp' = stamp + 1 /\ written' = [written EXCEPT ![r] = line]
        /\ \/ delta' = [delta EXCEPT ![r] = line] /\ whole' = whole + size /\ torn' = 0
           \/ torn' = left + size /\ delta' = delta /\ whole' = whole
        /\ tail' = [tail EXCEPT ![p] = whole + left + size]
        /\ base' = base /\ open' = open /\ failures' = failures
    BY <1>6, <1>13, <2>1, <2>3, Zenon DEF AppendLine
  <2>5. whole' \in Nat /\ torn' \in Nat
    BY <1>7, <2>4
  <2>6. PICK end \in Nat : end = whole + left + size
    BY <1>7
  <2>7. tail' \in [Process -> Nat \cup {Unknown}]
    BY <2>4, <2>6 DEF IndexTypeOK
  <2>8. delta' \in [Subject -> Line] /\ written' \in [Subject -> Line]
    BY <2>4 DEF IndexTypeOK
  <2>9. PICK entry \in 0..MaxStamp : entry = IF removed THEN None ELSE stamp + 1
    BY <2>2, IndexBounds
  <2>10. loaded' = [loaded EXCEPT ![p][r] = entry]
    BY <1>13, <2>9, Zenon DEF AppendLine
  <2>11. loaded' \in [Process -> [Subject -> 0..MaxStamp]]
    BY <2>10 DEF IndexTypeOK
  <2> QED BY <1>5, <2>2, <2>4, <2>5, <2>7, <2>8, <2>11 DEF IndexTypeOK
<1> QED BY <1>4, <1>8, <1>9, <1>10, <1>11, <1>12, <1>13

(* A step after which a process has loaded what the files say, nothing, or what it had. *)
LEMMA LoadedKept ==
  ASSUME IndexTypeOK, FilesAreWritten, LoadedWasWritten, UNCHANGED written, NEW p \in Process,
         \/ UNCHANGED loaded
         \/ loaded' = [loaded EXCEPT ![p] = Hydrated]
         \/ loaded' = [loaded EXCEPT ![p] = [r \in Subject |-> None]]
  PROVE  LoadedWasWritten'
<1>1. loaded \in [Process -> [Subject -> 0..MaxStamp]]
  BY DEF IndexTypeOK
<1>2. \A q \in Process, r \in Subject : loaded'[q][r] \in {loaded[q][r], Vector(r), None}
  BY <1>1 DEF Hydrated
<1>3. \A r \in Subject : Vector(r) = Latest(r)
  BY FilesReadBack
<1> SUFFICES ASSUME NEW q \in Process, NEW r \in Subject, loaded'[q][r] # None
             PROVE  loaded'[q][r] = Latest(r) \/ loaded'[q][r] < written[r].n
  BY DEF LoadedWasWritten, Latest
<1> QED BY <1>2, <1>3 DEF LoadedWasWritten

(* Steps that write no line. *)
LEMMA KeepingStep ==
  ASSUME IndexTypeOK, FilesAreWritten, LoadedWasWritten, NEW p \in Process,
         \/ Open(p) \/ Close(p) \/ Fold(p) \/ FoldStops(p)
         \/ \E r \in Subject, removed \in BOOLEAN :
              AppendDies(p, r, removed) \/ AppendFails(p, r, removed)
  PROVE  FilesAreWritten' /\ LoadedWasWritten'
<1>1. /\ UNCHANGED <<written, stamp>>
      /\ \/ UNCHANGED loaded
         \/ loaded' = [loaded EXCEPT ![p] = Hydrated]
         \/ loaded' = [loaded EXCEPT ![p] = [r \in Subject |-> None]]
  BY DEF Open, Close, Fold, FoldStops, AppendDies, AppendFails
<1>2. \A r \in Subject : Hydrated[r] = Latest(r)
  BY FilesReadBack DEF Hydrated
<1>3. \/ UNCHANGED <<base, delta>>
      \/ base' = Hydrated /\ (UNCHANGED delta \/ delta' = [r \in Subject |-> NoLine])
  BY DEF Open, Close, Fold, FoldStops, AppendDies, AppendFails
<1>4. FilesAreWritten'
  BY <1>1, <1>2, <1>3 DEF FilesAreWritten, Latest
<1> QED BY <1>1, <1>4, LoadedKept

LEMMA AppendLineStep ==
  ASSUME IndexTypeOK, FilesAreWritten, LoadedWasWritten, NEW p \in Process, NEW r \in Subject,
         NEW removed \in BOOLEAN, AppendLine(p, r, removed), Unfinished(p) = 0
  PROVE  FilesAreWritten' /\ LoadedWasWritten'
<1> DEFINE line == [n |-> stamp + 1, removed |-> removed]
<1>1. stamp \in Nat /\ stamp + 1 \in 0..MaxStamp
  BY IndexBounds DEF IndexTypeOK, AppendLine
<1>2. /\ delta' = [delta EXCEPT ![r] = line] /\ written' = [written EXCEPT ![r] = line]
      /\ stamp' = stamp + 1 /\ base' = base
      /\ loaded' = [loaded EXCEPT ![p][r] = IF removed THEN None ELSE stamp + 1]
  <2> HIDE DEF None
  <2> QED BY Zenon DEF AppendLine
<1>3. line \in Line /\ line # NoLine /\ line.n = stamp + 1 /\ line.removed = removed
  BY <1>1 DEF Line, NoLine
<1> HIDE DEF line
<1>4. FilesAreWritten'
  <2> SUFFICES ASSUME NEW q \in Subject
               PROVE  /\ delta'[q] = NoLine => base'[q] = Latest(q)'
                      /\ delta'[q] # NoLine => delta'[q] = written'[q]
                      /\ written'[q].n <= stamp'
    BY DEF FilesAreWritten
  <2>1. delta \in [Subject -> Line] /\ written \in [Subject -> Line]
    BY DEF IndexTypeOK
  <2>2. CASE q = r
    BY <1>1, <1>2, <1>3, <2>1, <2>2
  <2>3. CASE q # r
    <3>1. delta'[q] = delta[q] /\ written'[q] = written[q] /\ base'[q] = base[q]
      BY <1>2, <2>1, <2>3
    <3>2. written[q].n <= stamp /\ written[q].n \in Nat
      BY <2>1 DEF FilesAreWritten, Line
    <3> QED BY <1>1, <1>2, <3>1, <3>2 DEF FilesAreWritten, Latest
  <2> QED BY <2>2, <2>3
<1>5. LoadedWasWritten'
  <2> SUFFICES ASSUME NEW o \in Process, NEW q \in Subject, loaded'[o][q] # None
               PROVE  loaded'[o][q] = Latest(q)' \/ loaded'[o][q] < written'[q].n
    BY DEF LoadedWasWritten
  <2>1. /\ loaded \in [Process -> [Subject -> 0..MaxStamp]]
        /\ written \in [Subject -> Line] /\ written[q].n \in Nat /\ loaded[o][q] \in Nat
    BY DEF IndexTypeOK, Line
  <2>2. loaded[o][q] # None => loaded[o][q] = Latest(q) \/ loaded[o][q] < written[q].n
    BY DEF LoadedWasWritten
  <2>3. CASE q # r
    <3>1. loaded'[o][q] = loaded[o][q] /\ written'[q] = written[q]
      BY <1>2, <2>1, <2>3
    <3> QED BY <3>1, <2>2 DEF Latest
  <2>4. CASE q = r /\ o # p
    <3>1. loaded'[o][q] = loaded[o][q] /\ written'[q] = line
      BY <1>2, <2>1, <2>4
    <3>2. loaded[o][q] <= written[q].n
      BY <2>1, <2>2, <3>1 DEF Latest
    <3>3. written[q].n <= stamp
      BY DEF FilesAreWritten
    <3> QED BY <1>1, <1>3, <2>1, <3>1, <3>2, <3>3
  <2>5. CASE q = r /\ o = p
    <3>1. loaded'[o][q] = (IF removed THEN None ELSE stamp + 1) /\ written'[q] = line
      BY <1>2, <2>1, <2>5
    <3> QED BY <1>3, <3>1 DEF Latest
  <2> QED BY <2>3, <2>4, <2>5
<1> QED BY <1>4, <1>5

LEMMA IndexStep ==
  ASSUME IndexInv, IndexNext
  PROVE  IndexInv'
<1>1. IndexTypeOK'
  BY IndexTypeStep DEF IndexInv
<1>2. ASSUME ~misled' PROVE FilesAreWritten' /\ LoadedWasWritten'
  <2>1. PICK p \in Process :
          \/ Open(p) \/ Close(p) \/ Fold(p) \/ FoldStops(p)
          \/ \E r \in Subject, removed \in BOOLEAN :
               AppendLine(p, r, removed) \/ AppendDies(p, r, removed) \/ AppendFails(p, r, removed)
    BY DEF IndexNext
  <2>2. CASE \E r \in Subject, removed \in BOOLEAN : AppendLine(p, r, removed)
    <3>1. Misled(p)
      BY <2>2 DEF AppendLine
    <3>2. ~misled /\ Unfinished(p) = 0
      BY <1>2, <3>1, SettleSettles DEF IndexInv
    <3> QED BY <2>2, <3>2, AppendLineStep DEF IndexInv
  <2>3. CASE \/ Open(p) \/ Close(p) \/ Fold(p) \/ FoldStops(p)
             \/ \E r \in Subject, removed \in BOOLEAN :
                  AppendDies(p, r, removed) \/ AppendFails(p, r, removed)
    <3>1. Misled(p) \/ UNCHANGED misled
      BY <2>3 DEF Open, Close, Fold, FoldStops, AppendDies, AppendFails
    <3>2. ~misled
      BY <1>2, <3>1, SettleSettles DEF IndexInv
    <3> QED BY <2>3, <3>2, KeepingStep DEF IndexInv
  <2> QED BY <2>1, <2>2, <2>3
<1> QED BY <1>1, <1>2 DEF IndexInv

(***************************************************************************)
(* Whatever is cut short, folded, closed or reopened by however many       *)
(* processes, and whatever lengths their lines have, the index files read  *)
(* back every vector Append answered for, and no process searches a vector *)
(* they do not hold or held until a later line of the same record, as long *)
(* as settle has not taken a delta of the size it remembers for a whole    *)
(* one (index/persist.go, index/tail.go).                                  *)
(***************************************************************************)
THEOREM IndexIsAlwaysWhole == IndexSpec => []IndexIsWhole
<1>1. IndexInit => IndexInv
  BY IndexStart
<1>2. IndexInv /\ [IndexNext]_indexVars => IndexInv'
  <2>1. IndexInv /\ UNCHANGED indexVars => IndexInv'
    BY DEF indexVars, IndexInv, IndexTypeOK, FilesAreWritten, LoadedWasWritten, Latest
  <2> QED BY <2>1, IndexStep
<1>3. IndexInv => IndexIsWhole
  <2> SUFFICES ASSUME IndexInv, ~misled PROVE ReadsBack /\ SearchedIsDurable
    BY DEF IndexIsWhole
  <2>1. FilesAreWritten /\ LoadedWasWritten
    BY DEF IndexInv
  <2>2. ReadsBack
    BY <2>1, FilesReadBack DEF ReadsBack
  <2>3. SearchedIsDurable
    <3> SUFFICES ASSUME NEW p \in Process, NEW r \in Subject, loaded[p][r] # None
                 PROVE  Vector(r) = loaded[p][r] \/ written[r].n > loaded[p][r]
      BY DEF SearchedIsDurable
    <3>1. loaded[p][r] \in Nat /\ written[r].n \in Nat
      BY DEF IndexInv, IndexTypeOK, Line
    <3> QED BY <2>1, <3>1, FilesReadBack DEF LoadedWasWritten
  <2> QED BY <2>2, <2>3
<1> QED BY <1>1, <1>2, <1>3, PTL DEF IndexSpec

(***************************************************************************)
(* The one process that uses an index is never misled, for a delta of the  *)
(* size it left it at is the one it left, so its index files are whole     *)
(* whatever lengths lines have (index/tail.go).                            *)
(***************************************************************************)
THEOREM OneUserIsNeverMisled ==
  OneUser => (IndexSpec => [](ReadsBack /\ SearchedIsDurable))
<1> SUFFICES ASSUME OneUser PROVE IndexSpec => [](ReadsBack /\ SearchedIsDurable)
  OBVIOUS
<1> DEFINE Inv == ~misled /\ \A p \in Process : tail[p] # Unknown => tail[p] = whole
<1>1. IndexInit => IndexTypeOK /\ Inv
  BY IndexStart DEF IndexInit, IndexInv
<1>2. IndexTypeOK /\ Inv /\ [IndexNext]_indexVars => IndexTypeOK' /\ Inv'
  <2> SUFFICES ASSUME IndexTypeOK, Inv, [IndexNext]_indexVars PROVE IndexTypeOK' /\ Inv'
    OBVIOUS
  <2>1. CASE UNCHANGED indexVars
    BY <2>1 DEF indexVars, IndexTypeOK
  <2>2. CASE IndexNext
    <3>1. IndexTypeOK'
      BY <2>2, IndexTypeStep
    <3>2. PICK p \in Process :
            \/ Open(p) \/ Close(p) \/ Fold(p) \/ FoldStops(p)
            \/ \E r \in Subject, removed \in BOOLEAN :
                 AppendLine(p, r, removed) \/ AppendDies(p, r, removed) \/ AppendFails(p, r, removed)
      BY <2>2 DEF IndexNext
    <3>3. whole \in Nat /\ torn \in Nat /\ tail \in [Process -> Nat \cup {Unknown}]
      BY DEF IndexTypeOK
    <3>4. ~Coincides(p) /\ Unfinished(p) = 0
      BY <3>3 DEF Coincides, Unfinished
    <3>5. ~misled'
      BY <3>2, <3>4 DEF Misled, Open, Close, Fold, FoldStops, AppendLine, AppendDies, AppendFails
    <3>6. tail'[p] # Unknown => tail'[p] = whole'
      <4>1. CASE \E r \in Subject, removed \in BOOLEAN : AppendLine(p, r, removed)
        <5>1. PICK r \in Subject, removed \in BOOLEAN : AppendLine(p, r, removed)
          BY <4>1
        <5>2. Size(removed) \in Nat
          BY LineSize
        <5>3. whole' = whole + Size(removed) /\ tail' = [tail EXCEPT ![p] = whole + 0 + Size(removed)]
          BY <3>4, <5>1 DEF AppendLine
        <5> QED BY <3>3, <5>2, <5>3
      <4>2. CASE Open(p) \/ Close(p) \/ Fold(p) \/ FoldStops(p)
        BY <3>3, <3>4, <4>2 DEF Open, Close, Fold, FoldStops
      <4>3. CASE \E r \in Subject, removed \in BOOLEAN :
                   AppendDies(p, r, removed) \/ AppendFails(p, r, removed)
        <5>1. whole' = whole /\ (\/ tail' = [tail EXCEPT ![p] = Unknown]
                                 \/ tail' = [tail EXCEPT ![p] = whole + 0])
          BY <3>4, <4>3 DEF AppendDies, AppendFails
        <5> QED BY <3>3, <5>1
      <4> QED BY <3>2, <4>1, <4>2, <4>3
    <3>7. \A q \in Process : q = p
      BY DEF OneUser
    <3> QED BY <3>1, <3>5, <3>6, <3>7
  <2> QED BY <2>1, <2>2
<1>3. Inv /\ IndexIsWhole => ReadsBack /\ SearchedIsDurable
  BY DEF IndexIsWhole
<1> QED BY <1>1, <1>2, <1>3, IndexIsAlwaysWhole, PTL DEF IndexSpec

(***************************************************************************)
(* Whatever lengths lines have and however many processes share the index  *)
(* files, even where another's unfinished line is taken for a whole one    *)
(* (index/persist.go, index/tail.go), sizes and line numbers stay counts.  *)
(***************************************************************************)
THEOREM IndexTypeCorrect == IndexSpec => []IndexTypeOK
<1>1. IndexInit => IndexTypeOK
  BY IndexStart DEF IndexInv
<1>2. IndexTypeOK /\ [IndexNext]_indexVars => IndexTypeOK'
  <2>1. IndexTypeOK /\ UNCHANGED indexVars => IndexTypeOK'
    BY DEF indexVars, IndexTypeOK
  <2> QED BY <2>1, IndexTypeStep
<1> QED BY <1>1, <1>2, PTL DEF IndexSpec

(***************************************************************************)
(* The restore.                                                            *)
(***************************************************************************)
StoreName == {"catalog", "body", "ranked", "vector"}
HeadRow == [held : BOOLEAN, version : Nat, chunks : Seq(Chunk), links : SUBSET Remembered, gap : BOOLEAN]
JobRow ==
  [cmd : {"none", "hydrate", "recover"},
   pc : {"idle", "walk", "group", "heads", "version", "put", "done"},
   depth : Depth, listed : SUBSET Record, todo : SUBSET (Record \cup Session),
   item : SUBSET (Record \cup Session), steps : Seq(StoreName), known : SUBSET Record,
   found : SUBSET Record, expect : Nat, dropped : SUBSET (Record \cup Session)]

In(x, st) == \E i \in DOMAIN st : st[i] = x
Pending(store) == In(store, job.steps)

(* What is stored next is something its stores take. *)
StepsFit ==
  /\ Pending("catalog") \/ Pending("body") => job.item \subseteq Record
  /\ Pending("ranked") \/ Pending("vector") => job.item \subseteq Session \cup Remembered

(* A restore stores records while it walks and heads while it rebuilds; a  *)
(* head about to be written is its item too.                               *)
JobFits ==
  /\ StepsFit
  /\ At("idle") => job = NoRestore
  /\ job.steps # <<>> => At("walk") \/ At("heads")
  /\ job.steps = <<>> /\ ~At("version") /\ ~At("put") => job.item = {}
  /\ At("version") \/ At("put") => job.item \subseteq Session

StoreTypes ==
  /\ account \subseteq Record /\ reclaimed \subseteq Record /\ account \cap reclaimed = {}
  /\ catalog \subseteq Record /\ body \subseteq Record
  /\ ranked \subseteq Session \cup Remembered /\ vector \subseteq Session \cup Remembered

CountTypes == restores \in 0..MaxRestore /\ faults \in 0..MaxFault

Versioned(h) == h.held <=> h.version > 0

HeadTypes ==
  /\ head \in [Session -> HeadRow]
  /\ \A s \in Session : Versioned(head[s])

SaveTypes == save \in [chunk : SUBSET Chunk, read : HeadRow]

RestoreTypes ==
  StoreTypes /\ CountTypes /\ HeadTypes /\ SaveTypes /\ job \in JobRow /\ JobFits

(* Every set a head is rebuilt from is finite, for records come one by one. *)
StoresFinite == IsFiniteSet(account) /\ IsFiniteSet(body)
JobFinite    == IsFiniteSet(job.item) /\ IsFiniteSet(job.found)

(* A head without a hole numbers its chunks by their places; one with a    *)
(* hole is sorted up to what was appended to it here.                      *)
Ordered(s, h) ==
  \A i \in DOMAIN h.chunks :
    /\ h.chunks[i].of = s
    /\ ~h.gap => h.chunks[i].seq = i - 1
    /\ \A j \in DOMAIN h.chunks :
         /\ h.chunks[i] = h.chunks[j] => i = j
         /\ i < j => \/ h.chunks[i].seq <= h.chunks[j].seq
                     \/ h.gap /\ h.chunks[j].by = "here"

HeadsOrdered == \A s \in Session : Ordered(s, head[s])

(* A save appends to the head it read a chunk the head does not name. *)
SaveOrdered ==
  \A c \in save.chunk :
    /\ Ordered(c.of, save.read)
    /\ c.seq = Len(save.read.chunks) /\ c.by = "here"
    /\ \A i \in DOMAIN save.read.chunks : save.read.chunks[i] # c

(* The records of a set are where a restore of that depth puts them. *)
PutBack(recs) ==
  /\ recs \subseteq catalog
  /\ job.depth >= Metadata => recs \subseteq body /\ recs \cap Remembered \subseteq ranked
  /\ job.depth = Index => recs \cap Remembered \subseteq vector

(* What the walk is storing is in each store it has to reach, or will be, *)
(* or was taken off the device meanwhile.                                  *)
Underway ==
  \A o \in job.item \ job.dropped :
    /\ o \in catalog \/ Pending("catalog")
    /\ job.depth >= Metadata => /\ o \in body \/ Pending("body")
                                /\ o \in Remembered => o \in ranked \/ Pending("ranked")
    /\ job.depth = Index /\ o \in Remembered => o \in vector \/ Pending("vector")

Rebuilds == job.cmd = "hydrate" /\ job.depth >= Metadata
Heading  == At("heads") \/ At("version") \/ At("put")
Back     == job.listed \ job.dropped

(* The conversation of c has its head, or went. *)
HeadBack(c) == c.of \in job.dropped \/ Held(c.of)

WalkInv ==
  /\ At("walk") => PutBack(Back \ (job.todo \cup job.item)) /\ Underway
  /\ At("group") \/ Heading => Rebuilds
  /\ At("group") \/ Heading \/ At("done") => PutBack(Back)
  /\ Heading => \A c \in Back \cap Chunk : HeadBack(c) \/ c.of \in job.todo
  /\ At("done") /\ Rebuilds => \A c \in Back \cap Chunk : HeadBack(c)

RestoreInv ==
  RestoreTypes /\ StoresFinite /\ JobFinite /\ HeadsOrdered /\ SaveOrdered /\ WalkInv

USE DEF Depth, Metadata, Index

(* st is a list of the stores in set. *)
Lists(st, set) == st \in Seq(StoreName) /\ st # <<>> /\ \A x \in StoreName : In(x, st) <=> x \in set

LEMMA StoreLists ==
  ASSUME NEW a \in StoreName, NEW b \in StoreName, NEW c \in StoreName
  PROVE  Lists(<<a>>, {a}) /\ Lists(<<a, b>>, {a, b}) /\ Lists(<<a, b, c>>, {a, b, c})
<1>1. Lists(<<a>>, {a})
  BY DEF In, Lists
<1>2. Lists(<<a, b>>, {a, b})
  BY DEF In, Lists
<1>3. Lists(<<a, b, c>>, {a, b, c})
  BY DEF In, Lists
<1> QED BY <1>1, <1>2, <1>3

LEMMA ListOfFour ==
  ASSUME NEW a \in StoreName, NEW b \in StoreName, NEW c \in StoreName, NEW d \in StoreName
  PROVE  Lists(<<a, b, c, d>>, {a, b, c, d})
BY DEF In, Lists

(* The stores a record goes to, for each command and depth. *)
LEMMA StoresCover ==
  ASSUME NEW cmd \in {"none", "hydrate", "recover"}, NEW depth \in Depth, NEW o \in Record
  PROVE  LET st == Stores(cmd, depth, o)
         IN  /\ st \in Seq(StoreName) /\ st # <<>>
             /\ In("ranked", st) \/ In("vector", st) => o \in Remembered
             /\ In("catalog", st)
             /\ depth >= Metadata => In("body", st) /\ (o \in Remembered => In("ranked", st))
             /\ depth = Index /\ o \in Remembered => In("vector", st)
<1>1. o \in Chunk \/ o \in Remembered
  BY DEF Record
<1>2. ~(o \in Chunk /\ o \in Remembered)
  BY RecordAssumption
<1>3. "catalog" \in StoreName /\ "body" \in StoreName /\ "ranked" \in StoreName /\ "vector" \in StoreName
  BY DEF StoreName
<1> DEFINE st == Stores(cmd, depth, o)
<1>4. ASSUME NEW set, Lists(st, set), "catalog" \in set,
             ("ranked" \in set \/ "vector" \in set) => o \in Remembered,
             depth >= Metadata => "body" \in set /\ (o \in Remembered => "ranked" \in set),
             depth = Index /\ o \in Remembered => "vector" \in set
      PROVE  /\ st \in Seq(StoreName) /\ st # <<>>
             /\ In("ranked", st) \/ In("vector", st) => o \in Remembered
             /\ In("catalog", st)
             /\ depth >= Metadata => In("body", st) /\ (o \in Remembered => In("ranked", st))
             /\ depth = Index /\ o \in Remembered => In("vector", st)
  BY <1>3, <1>4 DEF Lists
<1>5. CASE o \in Chunk
  <2>1. CASE st = <<"catalog">>
    <3>1. ~(depth >= Metadata)
      BY <1>5, <2>1 DEF Stores
    <3>2. Lists(st, {"catalog"})
      BY <1>3, <2>1, StoreLists
    <3> QED BY <1>2, <1>4, <1>5, <3>1, <3>2
  <2>2. CASE st = <<"catalog", "body">>
    <3>1. Lists(st, {"catalog", "body"})
      BY <1>3, <2>2, StoreLists
    <3> QED BY <1>2, <1>4, <1>5, <3>1
  <2>3. CASE st = <<"body", "catalog">>
    <3>1. Lists(st, {"body", "catalog"})
      BY <1>3, <2>3, StoreLists
    <3> QED BY <1>2, <1>4, <1>5, <3>1
  <2> QED BY <1>5, <2>1, <2>2, <2>3 DEF Stores
<1>6. CASE o \in Remembered
  <2>1. CASE st = <<"catalog">>
    <3>1. ~(depth >= Metadata)
      BY <1>2, <1>6, <2>1 DEF Stores
    <3>2. Lists(st, {"catalog"})
      BY <1>3, <2>1, StoreLists
    <3> QED BY <1>4, <1>6, <3>1, <3>2
  <2>2. CASE st = <<"catalog", "body", "ranked">>
    <3>1. depth # Index
      <4>1. Len(st) = 3
        BY <2>2
      <4>2. depth = Index => Len(st) = 4
        BY <1>2, <1>6 DEF Stores
      <4> QED BY <4>1, <4>2
    <3>2. Lists(st, {"catalog", "body", "ranked"})
      BY <1>3, <2>2, StoreLists
    <3> QED BY <1>4, <1>6, <3>1, <3>2
  <2>3. CASE st = <<"body", "ranked", "catalog">>
    <3>1. depth # Index
      <4>1. Len(st) = 3
        BY <2>3
      <4>2. depth = Index => Len(st) = 4
        BY <1>2, <1>6 DEF Stores
      <4> QED BY <4>1, <4>2
    <3>2. Lists(st, {"body", "ranked", "catalog"})
      BY <1>3, <2>3, StoreLists
    <3> QED BY <1>4, <1>6, <3>1, <3>2
  <2>4. CASE st = <<"catalog", "body", "ranked", "vector">>
    <3>1. Lists(st, {"catalog", "body", "ranked", "vector"})
      BY <1>3, <2>4, ListOfFour
    <3> QED BY <1>4, <1>6, <3>1
  <2>5. CASE st = <<"body", "ranked", "catalog", "vector">>
    <3>1. Lists(st, {"body", "ranked", "catalog", "vector"})
      BY <1>3, <2>5, ListOfFour
    <3> QED BY <1>4, <1>6, <3>1
  <2>6. depth = 0 => st = <<"catalog">> \/ st = <<"body", "ranked", "catalog">>
    BY <1>2, <1>6 DEF Stores
  <2>7. depth = 1 => st = <<"catalog", "body", "ranked">> \/ st = <<"body", "ranked", "catalog">>
    BY <1>2, <1>6 DEF Stores
  <2>8. depth = 2 => \/ st = <<"catalog", "body", "ranked", "vector">>
                     \/ st = <<"body", "ranked", "catalog", "vector">>
    BY <1>2, <1>6 DEF Stores
  <2>9. depth = 0 \/ depth = 1 \/ depth = 2
    OBVIOUS
  <2> QED BY <2>1, <2>2, <2>3, <2>4, <2>5, <2>6, <2>7, <2>8, <2>9
<1> QED BY <1>1, <1>5, <1>6

(* What is left once the first store was written. *)
LEMMA StepsShrink ==
  ASSUME NEW st \in Seq(StoreName), st # <<>>
  PROVE  /\ Tail(st) \in Seq(StoreName) /\ Head(st) \in StoreName
         /\ Len(st) = 1 <=> Tail(st) = <<>>
         /\ \A x : In(x, st) <=> x = Head(st) \/ In(x, Tail(st))
<1>1. Tail(st) \in Seq(StoreName) /\ Head(st) \in StoreName /\ (Len(st) = 1 <=> Tail(st) = <<>>)
  <2>1. Len(st) \in Nat \ {0} /\ st \in [1..Len(st) -> StoreName]
    BY EmptySeq, LenProperties
  <2>2. Tail(st) \in Seq(StoreName) /\ Head(st) \in StoreName /\ Len(Tail(st)) = Len(st) - 1
    BY <2>1
  <2>3. Len(Tail(st)) = 0 <=> Tail(st) = <<>>
    BY <2>2, EmptySeq
  <2>4. Len(st) = 1 <=> Len(Tail(st)) = 0
    BY <2>1, <2>2
  <2> QED BY <2>2, <2>3, <2>4
<1>2. ASSUME NEW x PROVE In(x, st) <=> x = Head(st) \/ In(x, Tail(st))
  <2>1. Len(st) \in Nat \ {0} /\ DOMAIN st = 1..Len(st) /\ Head(st) = st[1]
    BY EmptySeq, LenProperties
  <2>2. DOMAIN Tail(st) = 1..(Len(st) - 1) /\ \A i \in 1..(Len(st) - 1) : Tail(st)[i] = st[i + 1]
    BY <2>1
  <2>3. ASSUME NEW i \in DOMAIN st, st[i] = x PROVE x = Head(st) \/ In(x, Tail(st))
    <3>1. CASE i = 1
      BY <2>1, <2>3, <3>1
    <3>2. CASE i # 1
      <4>1. i - 1 \in 1..(Len(st) - 1) /\ (i - 1) + 1 = i
        BY <2>1, <3>2
      <4> QED BY <2>2, <2>3, <4>1 DEF In
    <3> QED BY <3>1, <3>2
  <2>4. ASSUME NEW i \in DOMAIN Tail(st), Tail(st)[i] = x PROVE In(x, st)
    <3>1. i + 1 \in DOMAIN st /\ st[i + 1] = x
      BY <2>1, <2>2, <2>4
    <3> QED BY <3>1 DEF In
  <2>5. In(Head(st), st)
    BY <2>1 DEF In
  <2> QED BY <2>3, <2>4, <2>5 DEF In
<1> QED BY <1>1, <1>2

LEMMA EmptyHead ==
  /\ NoHead \in HeadRow /\ Versioned(NoHead) /\ NoHead.chunks = <<>> /\ DOMAIN <<>> = {}
  /\ \A s : Ordered(s, NoHead)
BY EmptySeq DEF NoHead, HeadRow, Versioned, Ordered

LEMMA EmptySave ==
  /\ NoSave \in [chunk : SUBSET Chunk, read : HeadRow] /\ NoSave.chunk = {}
BY EmptyHead DEF NoSave

LEMMA EmptyJob ==
  /\ NoRestore \in JobRow /\ NoRestore.pc = "idle" /\ NoRestore.steps = <<>>
  /\ NoRestore.item = {} /\ NoRestore.found = {} /\ NoRestore.dropped = {}
BY EmptySeq DEF NoRestore, JobRow

LEMMA NothingPending ==
  ASSUME job.steps = <<>>
  PROVE  ~Pending("catalog") /\ ~Pending("body") /\ ~Pending("ranked") /\ ~Pending("vector")
BY EmptyHead DEF Pending, In

(* A restore that is over leaves nothing to store. *)
LEMMA JobOver ==
  ASSUME job = NoRestore
  PROVE  job \in JobRow /\ JobFits /\ WalkInv /\ JobFinite
<1>1. ~Pending("catalog") /\ ~Pending("body") /\ ~Pending("ranked") /\ ~Pending("vector")
  BY EmptyJob, NothingPending
<1> QED BY <1>1, EmptyJob, FS_EmptySet DEF JobFits, StepsFit, WalkInv, Heading, At, JobFinite

LEMMA JobOverNext ==
  ASSUME job' = NoRestore
  PROVE  (job \in JobRow)' /\ JobFits' /\ WalkInv' /\ JobFinite'
<1>1. ~Pending("catalog")' /\ ~Pending("body")' /\ ~Pending("ranked")' /\ ~Pending("vector")'
  BY EmptyJob, EmptyHead DEF Pending, In
<1> QED BY <1>1, EmptyJob, FS_EmptySet DEF JobFits, StepsFit, WalkInv, Heading, At, JobFinite

LEMMA RestoreStart == Init => RestoreInv
<1> SUFFICES ASSUME Init PROVE RestoreInv
  OBVIOUS
<1> USE DEF Init
<1>1. job \in JobRow /\ JobFits /\ WalkInv /\ JobFinite
  BY JobOver
<1>2. CountTypes
  BY BoundAssumption DEF CountTypes
<1>3. StoreTypes /\ HeadTypes /\ SaveTypes
  BY EmptyHead, EmptySave DEF StoreTypes, HeadTypes, SaveTypes
<1>4. StoresFinite /\ HeadsOrdered /\ SaveOrdered
  BY EmptyHead, EmptySave, FS_EmptySet DEF StoresFinite, HeadsOrdered, SaveOrdered
<1> QED BY <1>1, <1>2, <1>3, <1>4 DEF RestoreInv, RestoreTypes

(* What a step beside the restore leaves of its job: all, but for what the *)
(* step took off the device.                                               *)
LEMMA JobBeside ==
  ASSUME RestoreInv, ~At("idle"), NEW gone \in SUBSET (Record \cup Session),
         Dropped(gone) \/ (gone = {} /\ UNCHANGED job)
  PROVE  /\ job' \in JobRow /\ job'.dropped = job.dropped \cup gone
         /\ job'.cmd = job.cmd /\ job'.pc = job.pc /\ job'.depth = job.depth
         /\ job'.listed = job.listed /\ job'.todo = job.todo /\ job'.item = job.item
         /\ job'.steps = job.steps /\ job'.found = job.found /\ job'.expect = job.expect
<1>1. job \in JobRow
  BY DEF RestoreInv, RestoreTypes
<1>2. CASE Dropped(gone)
  <2>1. job' = [job EXCEPT !.dropped = @ \cup gone]
    BY <1>2 DEF Dropped
  <2> QED BY <1>1, <2>1 DEF JobRow
<1>3. CASE gone = {} /\ UNCHANGED job
  BY <1>1, <1>3
<1> QED BY <1>2, <1>3

(* A step beside the restore takes nothing off the device but gone. *)
LEMMA BesideStep ==
  ASSUME RestoreInv, NEW gone \in SUBSET (Record \cup Session),
         Dropped(gone) \/ (gone = {} /\ UNCHANGED job),
         catalog \ gone \subseteq catalog', body \ gone \subseteq body',
         ranked \ gone \subseteq ranked', vector \ gone \subseteq vector',
         \A s \in Session : Held(s) => s \in gone \/ Held(s)'
  PROVE  (job \in JobRow)' /\ JobFits' /\ JobFinite' /\ WalkInv'
<1>1. CASE At("idle")
  <2>1. job = NoRestore
    BY <1>1 DEF RestoreInv, RestoreTypes, JobFits
  <2>2. job' = NoRestore
    BY <1>1, <2>1 DEF Dropped
  <2> QED BY <2>2, JobOverNext
<1>2. CASE ~At("idle")
  <2>1. /\ job' \in JobRow /\ job'.dropped = job.dropped \cup gone
        /\ job'.cmd = job.cmd /\ job'.pc = job.pc /\ job'.depth = job.depth
        /\ job'.listed = job.listed /\ job'.todo = job.todo /\ job'.item = job.item
        /\ job'.steps = job.steps /\ job'.found = job.found /\ job'.expect = job.expect
    BY <1>2, JobBeside
  <2>2. JobFits'
    BY <1>2, <2>1 DEF RestoreInv, RestoreTypes, JobFits, StepsFit, Pending, At
  <2>3. JobFinite'
    BY <2>1 DEF RestoreInv, JobFinite
  <2>4. ASSUME NEW recs, PutBack(recs) PROVE PutBack(recs \ gone)'
    BY <2>1, <2>4 DEF PutBack
  <2>5. ASSUME At("walk")
        PROVE  PutBack(Back \ (job.todo \cup job.item))' /\ Underway'
    <3>1. PutBack(Back \ (job.todo \cup job.item)) /\ Underway
      BY <2>5 DEF RestoreInv, WalkInv
    <3>2. (Back \ (job.todo \cup job.item))' = (Back \ (job.todo \cup job.item)) \ gone
      BY <2>1 DEF Back
    <3>3. PutBack(Back \ (job.todo \cup job.item))'
      BY <2>1, <3>1, <3>2 DEF PutBack
    <3>4. Underway'
      BY <2>1, <3>1 DEF Underway, Pending
    <3> QED BY <3>3, <3>4
  <2>6. ASSUME PutBack(Back) PROVE PutBack(Back)'
    <3>1. Back' = Back \ gone
      BY <2>1 DEF Back
    <3> QED BY <2>1, <2>6, <3>1 DEF PutBack
  <2>7. ASSUME NEW c \in Chunk, HeadBack(c) PROVE HeadBack(c)'
    <3>1. c.of \in Session
      BY DEF Chunk
    <3> QED BY <2>1, <2>7, <3>1 DEF HeadBack
  <2>8. Back' \subseteq Back
    BY <2>1 DEF Back
  <2>9. WalkInv'
    BY <2>1, <2>5, <2>6, <2>7, <2>8 DEF RestoreInv, WalkInv, Heading, At, Rebuilds
  <2> QED BY <2>1, <2>2, <2>3, <2>9
<1> QED BY <1>1, <1>2

(* A step of the other device changes the account alone. *)
LEMMA FarStep ==
  ASSUME RestoreInv, NEW o \in Record, FarWrite(o) \/ FarDrop(o)
  PROVE  RestoreInv'
<1>1. UNCHANGED <<onDevice, save, job, counts>>
  BY DEF FarWrite, FarDrop
<1>2. account' \subseteq Record /\ reclaimed' \subseteq Record /\ account' \cap reclaimed' = {}
  BY DEF FarWrite, FarDrop, RestoreInv, RestoreTypes, StoreTypes
<1>3. IsFiniteSet(account')
  BY FS_AddElement, FS_RemoveElement DEF FarWrite, FarDrop, RestoreInv, StoresFinite
<1> USE DEF onDevice, counts
<1>4. (job \in JobRow)' /\ JobFits' /\ JobFinite' /\ WalkInv'
  <2>1. {} \in SUBSET (Record \cup Session)
    OBVIOUS
  <2> QED BY <1>1, <2>1, BesideStep DEF Held
<1>5. RestoreTypes'
  BY <1>1, <1>2, <1>4 DEF RestoreInv, RestoreTypes, StoreTypes, CountTypes, HeadTypes, SaveTypes
<1>6. StoresFinite' /\ HeadsOrdered' /\ SaveOrdered'
  BY <1>1, <1>3 DEF RestoreInv, StoresFinite, HeadsOrdered, SaveOrdered
<1> QED BY <1>4, <1>5, <1>6 DEF RestoreInv

(* A chunk appended to an ordered head, in the place after its last. *)
LEMMA AppendOrdered ==
  ASSUME NEW s \in Session, NEW h \in HeadRow, NEW g \in HeadRow, NEW c \in Chunk, Ordered(s, h),
         c.of = s, c.seq = Len(h.chunks), c.by = "here",
         \A i \in DOMAIN h.chunks : h.chunks[i] # c,
         g.chunks = Append(h.chunks, c), g.gap = h.gap
  PROVE  Ordered(s, g)
<1> DEFINE old == h.chunks
<1>1. old \in Seq(Chunk)
  BY DEF HeadRow
<1>2. /\ Len(old) \in Nat /\ DOMAIN old = 1..Len(old) /\ DOMAIN g.chunks = 1..(Len(old) + 1)
      /\ \A i \in 1..Len(old) : g.chunks[i] = old[i]
      /\ g.chunks[Len(old) + 1] = c
  BY <1>1
<1>3. \A k \in 1..Len(old) :
        /\ old[k].of = s /\ (~h.gap => old[k].seq = k - 1) /\ old[k] # c
        /\ \A j \in 1..Len(old) :
             /\ old[k] = old[j] => k = j
             /\ k < j => old[k].seq <= old[j].seq \/ (h.gap /\ old[j].by = "here")
  BY <1>2 DEF Ordered
<1> HIDE DEF old
<1> SUFFICES ASSUME NEW i \in 1..(Len(old) + 1)
             PROVE  /\ g.chunks[i].of = s
                    /\ ~g.gap => g.chunks[i].seq = i - 1
                    /\ \A j \in 1..(Len(old) + 1) :
                         /\ g.chunks[i] = g.chunks[j] => i = j
                         /\ i < j => \/ g.chunks[i].seq <= g.chunks[j].seq
                                     \/ g.gap /\ g.chunks[j].by = "here"
  BY <1>2 DEF Ordered
<1>4. c.seq = Len(old)
  BY DEF old
<1>5. CASE i = Len(old) + 1
  <2>1. g.chunks[i] = c
    BY <1>2, <1>5
  <2>2. ASSUME NEW j \in 1..(Len(old) + 1)
        PROVE  (g.chunks[i] = g.chunks[j] => i = j) /\ ~(i < j)
    <3>1. j = Len(old) + 1 \/ j \in 1..Len(old)
      BY <1>2
    <3> QED BY <1>2, <1>3, <1>5, <2>1, <3>1
  <2> QED BY <1>2, <1>4, <1>5, <2>1, <2>2
<1>6. CASE i \in 1..Len(old)
  <2>1. g.chunks[i] = old[i]
    BY <1>2, <1>6
  <2>2. ASSUME NEW j \in 1..(Len(old) + 1)
        PROVE  /\ g.chunks[i] = g.chunks[j] => i = j
               /\ i < j => \/ g.chunks[i].seq <= g.chunks[j].seq
                           \/ g.gap /\ g.chunks[j].by = "here"
    <3>1. CASE j \in 1..Len(old)
      BY <1>2, <1>3, <1>6, <2>1, <3>1
    <3>2. CASE j = Len(old) + 1
      <4>1. g.chunks[j] = c
        BY <1>2, <3>2
      <4>2. CASE ~h.gap
        <5>1. old[i].seq <= c.seq
          BY <1>2, <1>3, <1>4, <1>6, <4>2
        <5> QED BY <1>3, <1>6, <2>1, <4>1, <5>1
      <4> QED BY <1>3, <1>6, <2>1, <4>1, <4>2
    <3> QED BY <1>2, <3>1, <3>2
  <2> QED BY <1>3, <1>6, <2>1, <2>2
<1> QED BY <1>2, <1>5, <1>6

LEMMA SaveChunkStep ==
  ASSUME RestoreInv, NEW s \in Session, SaveChunk(s)
  PROVE  RestoreInv'
<1> DEFINE c == [of |-> s, seq |-> Len(head[s].chunks), by |-> "here"]
<1>1. /\ c \in Chunk /\ c \notin Named(s)
      /\ body' = body \cup {c}
      /\ save' = [chunk |-> {c}, read |-> head[s]]
      /\ UNCHANGED <<account, reclaimed, catalog, ranked, vector, head, job, counts>>
  BY DEF SaveChunk, Known
<1>2. c.of = s /\ c.seq = Len(head[s].chunks) /\ c.by = "here"
  OBVIOUS
<1> HIDE DEF c
<1>3. IsFiniteSet(body') /\ IsFiniteSet(account')
  BY <1>1, FS_AddElement DEF RestoreInv, StoresFinite
<1>4. (job \in JobRow)' /\ JobFits' /\ JobFinite' /\ WalkInv'
  <2>1. {} \in SUBSET (Record \cup Session)
    OBVIOUS
  <2> QED BY <1>1, <2>1, BesideStep DEF Held
<1>5. RestoreTypes'
  <2>1. body' \subseteq Record
    BY <1>1 DEF RestoreInv, RestoreTypes, StoreTypes, Record
  <2>2. SaveTypes'
    BY <1>1 DEF RestoreInv, RestoreTypes, HeadTypes, SaveTypes
  <2> QED BY <1>1, <1>4, <2>1, <2>2 DEF RestoreInv, RestoreTypes, StoreTypes, CountTypes, HeadTypes, counts
<1>6. SaveOrdered'
  <2>1. save'.chunk = {c} /\ save'.read = head[s]
    BY <1>1
  <2>2. \A i \in DOMAIN head[s].chunks : head[s].chunks[i] # c
    BY <1>1 DEF Named
  <2> QED BY <1>2, <2>1, <2>2 DEF RestoreInv, HeadsOrdered, SaveOrdered
<1>7. StoresFinite' /\ HeadsOrdered'
  BY <1>1, <1>3 DEF RestoreInv, StoresFinite, HeadsOrdered
<1> QED BY <1>4, <1>5, <1>6, <1>7 DEF RestoreInv

LEMMA SaveHeadStep ==
  ASSUME RestoreInv, NEW c \in Chunk, SaveHead(c)
  PROVE  RestoreInv'
<1>1. c \in save.chunk /\ save' = NoSave /\ UNCHANGED <<account, reclaimed, counts>> /\ c.of \in Session
  BY DEF SaveHead, Chunk
<1>2. save \in [chunk : SUBSET Chunk, read : HeadRow] /\ head \in [Session -> HeadRow]
  BY DEF RestoreInv, RestoreTypes, SaveTypes, HeadTypes
<1>3. SaveTypes' /\ SaveOrdered'
  BY <1>1, EmptySave DEF SaveTypes, SaveOrdered
<1>4. CASE /\ head' = [head EXCEPT ![c.of] = Extended(c)]
           /\ ranked' = ranked \cup {c.of} /\ vector' = vector \cup {c.of}
           /\ UNCHANGED <<catalog, body, job>>
  <2>1. /\ Extended(c) \in HeadRow /\ Extended(c).held /\ Versioned(Extended(c))
        /\ Extended(c).chunks = Append(save.read.chunks, c) /\ Extended(c).gap = save.read.gap
    <3>1. save.read \in HeadRow
      BY <1>2
    <3>2. save.read.chunks \in Seq(Chunk) /\ Append(save.read.chunks, c) \in Seq(Chunk)
      BY <3>1 DEF HeadRow
    <3>3. Extended(c) = [held |-> TRUE, version |-> save.read.version + 1,
                         chunks |-> Append(save.read.chunks, c), links |-> save.read.links,
                         gap |-> save.read.gap]
      BY DEF Extended
    <3>4. /\ save.read.version \in Nat /\ save.read.version + 1 \in Nat /\ save.read.version + 1 > 0
          /\ save.read.links \in SUBSET Remembered /\ save.read.gap \in BOOLEAN
      BY <3>1 DEF HeadRow
    <3> HIDE DEF Extended
    <3> QED BY <3>2, <3>3, <3>4 DEF HeadRow, Versioned
  <2>2. Ordered(c.of, Extended(c))
    BY <1>1, <1>2, <2>1, AppendOrdered DEF RestoreInv, SaveOrdered
  <2>3. head'[c.of] = Extended(c) /\ \A s \in Session \ {c.of} : head'[s] = head[s]
    BY <1>1, <1>2, <1>4
  <2>4. (job \in JobRow)' /\ JobFits' /\ JobFinite' /\ WalkInv'
    <3>1. {} \in SUBSET (Record \cup Session)
      OBVIOUS
    <3>2. \A s \in Session : Held(s) => Held(s)'
      BY <2>1, <2>3 DEF Held
    <3> QED BY <1>4, <3>1, <3>2, BesideStep
  <2>5. HeadTypes'
    <3>1. head' \in [Session -> HeadRow]
      BY <1>2, <1>4, <2>1
    <3> QED BY <2>1, <2>3, <3>1 DEF RestoreInv, RestoreTypes, HeadTypes
  <2>6. RestoreTypes'
    BY <1>1, <1>3, <1>4, <2>4, <2>5 DEF RestoreInv, RestoreTypes, StoreTypes, CountTypes, counts
  <2>7. HeadsOrdered' /\ StoresFinite'
    BY <1>1, <1>4, <2>2, <2>3 DEF RestoreInv, HeadsOrdered, StoresFinite
  <2> QED BY <1>3, <2>4, <2>6, <2>7 DEF RestoreInv
<1>5. CASE /\ body' = body \ {c} /\ catalog' = catalog \ {c}
           /\ Dropped({c})
           /\ UNCHANGED <<ranked, vector, head>>
  <2>1. (job \in JobRow)' /\ JobFits' /\ JobFinite' /\ WalkInv'
    <3>1. {c} \in SUBSET (Record \cup Session)
      BY DEF Record
    <3> QED BY <1>5, <3>1, BesideStep DEF Held
  <2>2. RestoreTypes'
    BY <1>1, <1>3, <1>5, <2>1 DEF RestoreInv, RestoreTypes, StoreTypes, CountTypes, HeadTypes, counts
  <2>3. HeadsOrdered' /\ StoresFinite'
    BY <1>1, <1>5, FS_RemoveElement DEF RestoreInv, HeadsOrdered, StoresFinite
  <2> QED BY <1>3, <2>1, <2>2, <2>3 DEF RestoreInv
<1> QED BY <1>4, <1>5 DEF SaveHead

LEMMA SaveStopsStep ==
  ASSUME RestoreInv, SaveStops
  PROVE  RestoreInv'
<1>1. /\ save' = NoSave /\ faults' \in 0..MaxFault
      /\ UNCHANGED <<account, reclaimed, onDevice, job, restores>>
  BY BoundAssumption DEF SaveStops, RestoreInv, RestoreTypes, CountTypes
<1> USE DEF onDevice
<1>2. (job \in JobRow)' /\ JobFits' /\ JobFinite' /\ WalkInv'
  <2>1. {} \in SUBSET (Record \cup Session)
    OBVIOUS
  <2> QED BY <1>1, <2>1, BesideStep DEF Held
<1>3. SaveTypes' /\ SaveOrdered'
  BY <1>1, EmptySave DEF SaveTypes, SaveOrdered
<1>4. RestoreTypes'
  BY <1>1, <1>2, <1>3 DEF RestoreInv, RestoreTypes, StoreTypes, CountTypes, HeadTypes
<1> QED BY <1>1, <1>2, <1>3, <1>4 DEF RestoreInv, StoresFinite, HeadsOrdered

LEMMA FlushHereStep ==
  ASSUME RestoreInv, FlushHere
  PROVE  RestoreInv'
<1> USE DEF FlushHere
<1>1. Unflushed \subseteq body /\ Unflushed \cap reclaimed = {}
  BY DEF Unflushed
<1>2. IsFiniteSet(account')
  BY <1>1, FS_Subset, FS_Union DEF RestoreInv, StoresFinite
<1>3. (job \in JobRow)' /\ JobFits' /\ JobFinite' /\ WalkInv'
  <2>1. {} \in SUBSET (Record \cup Session)
    OBVIOUS
  <2> QED BY <2>1, BesideStep DEF Held
<1>4. RestoreTypes'
  BY <1>1, <1>3 DEF RestoreInv, RestoreTypes, StoreTypes, CountTypes, HeadTypes, SaveTypes, counts
<1> QED BY <1>2, <1>3, <1>4 DEF RestoreInv, StoresFinite, HeadsOrdered, SaveOrdered

LEMMA ForgetSessionStep ==
  ASSUME RestoreInv, NEW s \in Session, ForgetSession(s)
  PROVE  RestoreInv'
<1>1. /\ body' = body \ Named(s) /\ catalog' = catalog \ Named(s)
      /\ ranked' = ranked \ {s} /\ vector' = vector \ {s}
      /\ head' = [head EXCEPT ![s] = NoHead]
      /\ Dropped(Named(s) \cup {s})
      /\ UNCHANGED <<account, reclaimed, save, counts>>
  BY DEF ForgetSession
<1>2. head \in [Session -> HeadRow] /\ \A q \in Session : Versioned(head[q])
  BY DEF RestoreInv, RestoreTypes, HeadTypes
<1>3. head'[s] = NoHead /\ \A q \in Session \ {s} : head'[q] = head[q]
  BY <1>1, <1>2
<1>4. HeadTypes'
  BY <1>1, <1>2, <1>3, EmptyHead DEF HeadTypes
<1>5. Named(s) \subseteq Chunk
  BY <1>2, ElementOfSeq, LenProperties DEF Named, HeadRow
<1>6. (job \in JobRow)' /\ JobFits' /\ JobFinite' /\ WalkInv'
  <2>1. Named(s) \cup {s} \in SUBSET (Record \cup Session)
    BY <1>5 DEF Record
  <2>2. \A q \in Session : Held(q) => q \in Named(s) \cup {s} \/ Held(q)'
    BY <1>3 DEF Held
  <2> QED BY <1>1, <2>1, <2>2, BesideStep
<1>7. StoresFinite'
  <2>1. body' \in SUBSET body
    BY <1>1
  <2> QED BY <1>1, <2>1, FS_Subset DEF RestoreInv, StoresFinite
<1>8. RestoreTypes'
  BY <1>1, <1>4, <1>6 DEF RestoreInv, RestoreTypes, StoreTypes, CountTypes, SaveTypes, counts
<1>9. HeadsOrdered' /\ SaveOrdered'
  BY <1>1, <1>3, EmptyHead DEF RestoreInv, HeadsOrdered, SaveOrdered
<1> QED BY <1>6, <1>7, <1>8, <1>9 DEF RestoreInv

LEMMA ForgetStep ==
  ASSUME RestoreInv, NEW m \in Remembered, Forget(m)
  PROVE  RestoreInv'
<1> USE DEF Forget
<1>1. (job \in JobRow)' /\ JobFits' /\ JobFinite' /\ WalkInv'
  <2>1. {m} \in SUBSET (Record \cup Session)
    BY DEF Record
  <2> QED BY <2>1, BesideStep DEF Held
<1>2. RestoreTypes'
  BY <1>1 DEF RestoreInv, RestoreTypes, StoreTypes, CountTypes, HeadTypes, SaveTypes, counts
<1>3. StoresFinite' /\ HeadsOrdered' /\ SaveOrdered'
  BY FS_RemoveElement DEF RestoreInv, StoresFinite, HeadsOrdered, SaveOrdered
<1> QED BY <1>1, <1>2, <1>3 DEF RestoreInv

(* Steps that change nothing but the job, and end it. *)
LEMMA EndingStep ==
  ASSUME RestoreInv, job' = NoRestore, UNCHANGED <<account, reclaimed, onDevice, save, restores>>,
         faults' \in 0..MaxFault
  PROVE  RestoreInv'
<1> USE DEF onDevice
<1>1. (job \in JobRow)' /\ JobFits' /\ WalkInv' /\ JobFinite'
  BY JobOverNext
<1>2. RestoreTypes'
  BY <1>1 DEF RestoreInv, RestoreTypes, StoreTypes, CountTypes, HeadTypes, SaveTypes
<1>3. StoresFinite' /\ HeadsOrdered' /\ SaveOrdered'
  BY DEF RestoreInv, StoresFinite, HeadsOrdered, SaveOrdered
<1> QED BY <1>1, <1>2, <1>3 DEF RestoreInv

LEMMA EndSteps ==
  ASSUME RestoreInv, Finish \/ CutShort
  PROVE  RestoreInv'
<1>1. job' = NoRestore /\ UNCHANGED <<account, reclaimed, onDevice, save, restores>>
  BY DEF Finish, CutShort, counts
<1>2. faults' \in 0..MaxFault
  BY BoundAssumption DEF Finish, CutShort, RestoreInv, RestoreTypes, CountTypes, counts
<1> QED BY <1>1, <1>2, EndingStep

(* A step of the restore that keeps the stores, the heads and the counts. *)
LEMMA JobStep ==
  ASSUME RestoreInv, UNCHANGED <<account, reclaimed, onDevice, save, counts>>,
         (job \in JobRow)', JobFits', JobFinite', WalkInv'
  PROVE  RestoreInv'
BY DEF RestoreInv, RestoreTypes, StoreTypes, CountTypes, HeadTypes, SaveTypes, StoresFinite,
       HeadsOrdered, SaveOrdered, onDevice, counts

LEMMA BeginStep ==
  ASSUME RestoreInv, NEW cmd \in {"hydrate", "recover"}, NEW depth \in Depth, Begin(cmd, depth)
  PROVE  RestoreInv'
<1>1. /\ UNCHANGED <<account, reclaimed, onDevice, save, faults>>
      /\ job' = [NoRestore EXCEPT !.cmd = cmd, !.pc = "walk", !.depth = depth,
                                  !.listed = account, !.todo = account, !.known = catalog]
  BY DEF Begin
<1>2. restores' \in 0..MaxRestore
  BY BoundAssumption DEF Begin, RestoreInv, RestoreTypes, CountTypes
<1>3. job' = [cmd |-> cmd, pc |-> "walk", depth |-> depth, listed |-> account, todo |-> account,
              item |-> {}, steps |-> <<>>, known |-> catalog, found |-> {}, expect |-> 0,
              dropped |-> {}]
  BY <1>1 DEF NoRestore
<1>4. account \subseteq Record /\ catalog \subseteq Record
  BY DEF RestoreInv, RestoreTypes, StoreTypes
<1>5. job' \in JobRow
  BY <1>3, <1>4, EmptySeq DEF JobRow
<1>6. /\ job'.pc = "walk" /\ job'.steps = <<>> /\ job'.item = {} /\ job'.found = {}
      /\ job'.listed = account /\ job'.todo = account
  BY <1>3
<1>7. JobFits'
  <2>1. ~Pending("catalog")' /\ ~Pending("body")' /\ ~Pending("ranked")' /\ ~Pending("vector")'
    BY <1>6, EmptyHead DEF Pending, In
  <2> QED BY <1>6, <2>1 DEF JobFits, StepsFit, At
<1>8. JobFinite'
  BY <1>6, FS_EmptySet DEF JobFinite
<1>9. WalkInv'
  BY <1>6 DEF WalkInv, At, Heading, Back, PutBack, Underway
<1>10. RestoreTypes'
  BY <1>1, <1>2, <1>5, <1>7
     DEF RestoreInv, RestoreTypes, StoreTypes, CountTypes, HeadTypes, SaveTypes, onDevice
<1>11. StoresFinite' /\ HeadsOrdered' /\ SaveOrdered'
  BY <1>1 DEF RestoreInv, StoresFinite, HeadsOrdered, SaveOrdered, onDevice
<1> QED BY <1>8, <1>9, <1>10, <1>11 DEF RestoreInv

LEMMA ReadObjectStep ==
  ASSUME RestoreInv, NEW o \in Record, ReadObject(o)
  PROVE  RestoreInv'
<1>1. UNCHANGED <<account, reclaimed, onDevice, save, counts>> /\ At("walk") /\ job.steps = <<>> /\ o \in job.todo
  BY DEF ReadObject
<1>2. CASE job' = NoRestore
  <2>1. faults' \in 0..MaxFault
    BY <1>1 DEF RestoreInv, RestoreTypes, CountTypes, counts
  <2> QED BY <1>1, <1>2, <2>1, EndingStep DEF counts
<1>3. CASE job' = [job EXCEPT !.todo = @ \ {o}, !.item = {o}, !.steps = Stores(job.cmd, job.depth, o)]
  <2> DEFINE st == Stores(job.cmd, job.depth, o)
  <2>1. job \in JobRow
    BY DEF RestoreInv, RestoreTypes
  <2>2. /\ st \in Seq(StoreName) /\ st # <<>>
        /\ In("ranked", st) \/ In("vector", st) => o \in Remembered
        /\ In("catalog", st)
        /\ job.depth >= Metadata => In("body", st) /\ (o \in Remembered => In("ranked", st))
        /\ job.depth = Index /\ o \in Remembered => In("vector", st)
    <3>1. job.cmd \in {"none", "hydrate", "recover"} /\ job.depth \in Depth
      BY <2>1 DEF JobRow
    <3> QED BY <3>1, StoresCover
  <2> HIDE DEF st
  <2>3. /\ job'.todo = job.todo \ {o} /\ job'.item = {o} /\ job'.steps = st
        /\ job'.pc = "walk" /\ job'.depth = job.depth /\ job'.listed = job.listed
        /\ job'.found = job.found /\ job'.dropped = job.dropped /\ job' \in JobRow
    BY <1>1, <1>3, <2>1, <2>2 DEF JobRow, At, st
  <2>4. JobFits'
    BY <2>2, <2>3 DEF JobFits, StepsFit, Pending, At
  <2>5. JobFinite'
    <3>1. IsFiniteSet({o})
      BY FS_Singleton
    <3> QED BY <2>3, <3>1 DEF RestoreInv, JobFinite
  <2>6. job.item = {}
    BY <1>1 DEF RestoreInv, RestoreTypes, JobFits, At
  <2>7. WalkInv'
    <3>1. PutBack(Back \ (job.todo \cup job.item))'
      <4>1. PutBack(Back \ (job.todo \cup job.item))
        BY <1>1 DEF RestoreInv, WalkInv
      <4>2. (Back \ (job.todo \cup job.item))' \subseteq Back \ (job.todo \cup job.item)
        BY <2>3, <2>6 DEF Back
      <4> QED BY <1>1, <2>3, <4>1, <4>2 DEF PutBack, onDevice
    <3>2. Underway'
      BY <2>2, <2>3 DEF Underway, Pending
    <3> QED BY <2>3, <3>1, <3>2 DEF WalkInv, Heading, At
  <2> QED BY <1>1, <2>3, <2>4, <2>5, <2>7, JobStep
<1> QED BY <1>2, <1>3 DEF ReadObject

LEMMA StoreStep ==
  ASSUME RestoreInv, Store
  PROVE  RestoreInv'
<1> DEFINE st == job.steps
<1>1. job \in JobRow /\ st \in Seq(StoreName) /\ st # <<>>
  BY DEF RestoreInv, RestoreTypes, JobRow, Store
<1>2. /\ Tail(st) \in Seq(StoreName) /\ Head(st) \in StoreName
      /\ Len(st) = 1 <=> Tail(st) = <<>>
      /\ \A x : In(x, st) <=> x = Head(st) \/ In(x, Tail(st))
  BY <1>1, StepsShrink
<1>3. /\ UNCHANGED <<account, reclaimed, head, save, counts>>
      /\ catalog' = IF Head(st) = "catalog" THEN catalog \cup job.item ELSE catalog
      /\ body' = IF Head(st) = "body" THEN body \cup job.item ELSE body
      /\ ranked' = IF Head(st) = "ranked" THEN ranked \cup job.item ELSE ranked
      /\ vector' = IF Head(st) = "vector" THEN vector \cup job.item ELSE vector
  BY <1>1 DEF Store, Into
<1>4. /\ catalog' \subseteq Record /\ body' \subseteq Record
      /\ ranked' \subseteq Session \cup Remembered /\ vector' \subseteq Session \cup Remembered
  BY <1>2, <1>3 DEF RestoreInv, RestoreTypes, StoreTypes, JobFits, StepsFit, Pending, st
<1>5. Into("catalog", job.known) \subseteq Record
  BY <1>1, <1>2 DEF RestoreInv, RestoreTypes, JobFits, StepsFit, Pending, Into, JobRow, st
<1>6. /\ job' \in JobRow /\ job'.steps = Tail(st)
      /\ job'.item = IF Tail(st) = <<>> THEN {} ELSE job.item
      /\ job'.pc = job.pc /\ job'.depth = job.depth /\ job'.listed = job.listed
      /\ job'.todo = job.todo /\ job'.cmd = job.cmd /\ job'.found = job.found
      /\ job'.dropped = job.dropped
  BY <1>1, <1>2, <1>5 DEF Store, JobRow
<1> HIDE DEF st
<1>7. /\ catalog \subseteq catalog' /\ body \subseteq body'
      /\ ranked \subseteq ranked' /\ vector \subseteq vector'
  BY <1>3
<1>8. At("walk") \/ At("heads")
  BY <1>1 DEF RestoreInv, RestoreTypes, JobFits, st
<1>9. JobFits'
  <2>1. StepsFit'
    BY <1>2, <1>6 DEF RestoreInv, RestoreTypes, JobFits, StepsFit, Pending, st
  <2> QED BY <1>6, <1>8, <2>1 DEF JobFits, At
<1>10. RestoreTypes'
  BY <1>3, <1>4, <1>6, <1>9
     DEF RestoreInv, RestoreTypes, StoreTypes, CountTypes, HeadTypes, SaveTypes, counts
<1>11. StoresFinite' /\ JobFinite'
  <2>1. IsFiniteSet(body')
    BY <1>3, FS_Union DEF RestoreInv, StoresFinite, JobFinite
  <2>2. IsFiniteSet(job'.item)
    BY <1>6, FS_EmptySet DEF RestoreInv, JobFinite
  <2> QED BY <1>3, <1>6, <2>1, <2>2 DEF RestoreInv, StoresFinite, JobFinite
<1>12. HeadsOrdered' /\ SaveOrdered'
  BY <1>3 DEF RestoreInv, HeadsOrdered, SaveOrdered
<1>13. WalkInv'
  <2>1. CASE At("walk")
    <3>1. PutBack(Back \ (job.todo \cup job.item)) /\ Underway
      BY <2>1 DEF RestoreInv, WalkInv
    <3>2. ASSUME NEW o \in job.item \ job.dropped
          PROVE  /\ o \in catalog' \/ In("catalog", Tail(st))
                 /\ job.depth >= Metadata =>
                      /\ o \in body' \/ In("body", Tail(st))
                      /\ o \in Remembered => o \in ranked' \/ In("ranked", Tail(st))
                 /\ job.depth = Index /\ o \in Remembered => o \in vector' \/ In("vector", Tail(st))
      BY <1>2, <1>3, <3>1 DEF Underway, Pending, st
    <3>3. Underway'
      BY <1>6, <3>2 DEF Underway, Pending
    <3>4. CASE Tail(st) # <<>>
      <4>1. PutBack(Back \ (job.todo \cup job.item))'
        BY <1>6, <1>7, <3>1, <3>4 DEF PutBack, Back
      <4> QED BY <1>6, <2>1, <3>3, <4>1 DEF WalkInv, Heading, At
    <3>5. CASE Tail(st) = <<>>
      <4>1. ~In("catalog", Tail(st)) /\ ~In("body", Tail(st)) /\ ~In("ranked", Tail(st))
            /\ ~In("vector", Tail(st))
        BY <3>5, EmptyHead DEF In
      <4>2. PutBack(Back \ (job.todo \cup job.item))'
        BY <1>6, <1>7, <3>1, <3>2, <3>5, <4>1 DEF PutBack, Back
      <4> QED BY <1>6, <2>1, <3>3, <4>2 DEF WalkInv, Heading, At
    <3> QED BY <3>4, <3>5
  <2>2. CASE At("heads")
    <3>1. /\ Rebuilds /\ PutBack(Back)
          /\ \A c \in Back \cap Chunk : HeadBack(c) \/ c.of \in job.todo
      BY <2>2 DEF RestoreInv, WalkInv, Heading
    <3>2. PutBack(Back)'
      BY <1>6, <1>7, <3>1 DEF PutBack, Back
    <3>3. (\A c \in Back \cap Chunk : HeadBack(c) \/ c.of \in job.todo)'
      BY <1>3, <1>6, <3>1 DEF HeadBack, Held, Back
    <3>4. Rebuilds'
      BY <1>6, <3>1 DEF Rebuilds
    <3> QED BY <1>6, <2>2, <3>2, <3>3, <3>4 DEF WalkInv, Heading, At
  <2> QED BY <1>8, <2>1, <2>2
<1> QED BY <1>10, <1>11, <1>12, <1>13 DEF RestoreInv

(* The restore goes on to its next part, with nothing being stored. *)
LEMMA TurnStep ==
  ASSUME RestoreInv, WalkEnds \/ RebuildEnds
  PROVE  RestoreInv'
<1>1. /\ UNCHANGED <<account, reclaimed, onDevice, save, counts>> /\ job.steps = <<>> /\ job.todo = {}
      /\ At("walk") \/ At("heads")
  BY DEF WalkEnds, RebuildEnds
<1>2. job \in JobRow /\ job.item = {}
  BY <1>1 DEF RestoreInv, RestoreTypes, JobFits, At
<1>3. /\ job' \in JobRow /\ job'.steps = job.steps /\ job'.item = job.item
      /\ job'.depth = job.depth /\ job'.listed = job.listed /\ job'.dropped = job.dropped
      /\ job'.todo = job.todo /\ job'.cmd = job.cmd /\ job'.found = job.found
      /\ job'.pc = IF At("walk") /\ Rebuilds THEN "group" ELSE "done"
  BY <1>2 DEF WalkEnds, RebuildEnds, JobRow, At, Rebuilds
<1>4. JobFits'
  BY <1>1, <1>2, <1>3, NothingPending DEF JobFits, StepsFit, Pending, At
<1>5. JobFinite'
  BY <1>3 DEF RestoreInv, JobFinite
<1>6. PutBack(Back)
  BY <1>1, <1>2 DEF RestoreInv, WalkInv, Heading, PutBack
<1>7. PutBack(Back)'
  BY <1>1, <1>3, <1>6 DEF PutBack, Back, onDevice
<1>8. (At("done") /\ Rebuilds)' => \A c \in Back \cap Chunk : HeadBack(c)
  BY <1>1, <1>3 DEF RestoreInv, WalkInv, Heading, At, Rebuilds
<1>9. WalkInv'
  BY <1>1, <1>3, <1>7, <1>8 DEF WalkInv, Heading, At, Rebuilds, HeadBack, Held, Back, onDevice
<1> QED BY <1>1, <1>3, <1>4, <1>5, <1>9, JobStep

LEMMA GroupStep ==
  ASSUME RestoreInv, Group
  PROVE  RestoreInv'
<1>1. /\ At("group") /\ body' = body \cup Reachable
      /\ UNCHANGED <<account, reclaimed, catalog, ranked, vector, head, save, counts>>
  BY DEF Group
<1>2. job \in JobRow /\ job.steps = <<>> /\ job.item = {}
  BY <1>1 DEF RestoreInv, RestoreTypes, JobFits, At
<1>3. /\ Reachable \subseteq body \cup account /\ Reachable \subseteq Chunk
      /\ body \cap Chunk \subseteq Reachable /\ Reachable \subseteq Record
  BY DEF Reachable, Record
<1>4. {c.of : c \in Reachable} \subseteq Session
  BY <1>3 DEF Chunk
<1> DEFINE read == Reachable \cup (Remembered \cap body)
<1>5. read \subseteq Record /\ read \subseteq body \cup account
  BY <1>3 DEF Record
<1>6. /\ job' \in JobRow /\ job'.steps = <<>> /\ job'.item = {}
      /\ job'.depth = job.depth /\ job'.listed = job.listed /\ job'.dropped = job.dropped
      /\ job'.todo = {c.of : c \in Reachable} /\ job'.cmd = job.cmd
      /\ job'.found = read
      /\ job'.pc = "heads"
  BY <1>2, <1>4, <1>5 DEF Group, JobRow
<1> HIDE DEF read
<1>7. JobFits'
  <2>1. ~Pending("catalog")' /\ ~Pending("body")' /\ ~Pending("ranked")' /\ ~Pending("vector")'
    BY <1>6, EmptyHead DEF Pending, In
  <2> QED BY <1>6, <2>1 DEF JobFits, StepsFit, At
<1>8. RestoreTypes'
  <2>1. body' \subseteq Record
    BY <1>1, <1>3 DEF RestoreInv, RestoreTypes, StoreTypes
  <2> QED BY <1>1, <1>6, <1>7, <2>1
          DEF RestoreInv, RestoreTypes, StoreTypes, CountTypes, HeadTypes, SaveTypes, counts
<1>9. StoresFinite' /\ JobFinite'
  <2>1. IsFiniteSet(body \cup account)
    BY FS_Union DEF RestoreInv, StoresFinite
  <2>2. IsFiniteSet(Reachable) /\ IsFiniteSet(read)
    BY <1>3, <1>5, <2>1, FS_Subset
  <2>3. IsFiniteSet(body')
    BY <1>1, <2>2, FS_Union DEF RestoreInv, StoresFinite
  <2> QED BY <1>1, <1>6, <2>2, <2>3, FS_EmptySet DEF RestoreInv, StoresFinite, JobFinite
<1>10. HeadsOrdered' /\ SaveOrdered'
  BY <1>1 DEF RestoreInv, HeadsOrdered, SaveOrdered
<1>11. WalkInv'
  <2>1. Rebuilds /\ PutBack(Back)
    BY <1>1 DEF RestoreInv, WalkInv
  <2>2. PutBack(Back)' /\ Rebuilds'
    BY <1>1, <1>6, <2>1 DEF PutBack, Rebuilds, Back
  <2>3. Back' \subseteq body
    BY <1>6, <2>1 DEF PutBack, Rebuilds, Back
  <2>4. \A c \in Back' \cap Chunk : c.of \in job'.todo
    BY <1>3, <1>6, <2>3
  <2> QED BY <1>6, <2>2, <2>4 DEF WalkInv, Heading, At
<1> QED BY <1>8, <1>9, <1>10, <1>11 DEF RestoreInv

(* A head is looked for: it is there, or it is to be written. *)
LEMMA LookUpStep ==
  ASSUME RestoreInv, NEW s \in Session, LookUp(s)
  PROVE  RestoreInv'
<1>1. /\ At("heads") /\ job.steps = <<>> /\ s \in job.todo
      /\ UNCHANGED <<account, reclaimed, onDevice, save, counts>>
  BY DEF LookUp
<1>2. job \in JobRow /\ job.item = {}
  BY <1>1 DEF RestoreInv, RestoreTypes, JobFits, At
<1>3. /\ job' \in JobRow /\ job'.steps = <<>> /\ job'.dropped = job.dropped
      /\ job'.depth = job.depth /\ job'.listed = job.listed
      /\ job'.cmd = job.cmd /\ job'.found = job.found
      /\ \/ /\ Held(s) /\ job'.pc = "heads" /\ job'.item = {} /\ job'.todo = job.todo \ {s}
         \/ /\ ~Held(s) /\ job'.pc = "version" /\ job'.item = {s} /\ job'.todo = job.todo
  BY <1>1, <1>2 DEF LookUp, JobRow, At
<1>4. JobFits'
  <2>1. ~Pending("catalog")' /\ ~Pending("body")' /\ ~Pending("ranked")' /\ ~Pending("vector")'
    BY <1>3, EmptyHead DEF Pending, In
  <2> QED BY <1>3, <2>1 DEF JobFits, StepsFit, At
<1>5. JobFinite'
  <2>1. IsFiniteSet({s}) /\ IsFiniteSet({})
    BY FS_Singleton, FS_EmptySet
  <2> QED BY <1>3, <2>1 DEF RestoreInv, JobFinite
<1>6. WalkInv'
  <2>1. Rebuilds /\ PutBack(Back) /\ \A c \in Back \cap Chunk : HeadBack(c) \/ c.of \in job.todo
    BY <1>1 DEF RestoreInv, WalkInv, Heading
  <2>2. PutBack(Back)' /\ Rebuilds'
    BY <1>1, <1>3, <2>1 DEF PutBack, Rebuilds, Back, onDevice
  <2>3. (\A c \in Back \cap Chunk : HeadBack(c) \/ c.of \in job.todo)'
    BY <1>1, <1>3, <2>1 DEF HeadBack, Held, Back, onDevice
  <2> QED BY <1>3, <2>2, <2>3 DEF WalkInv, Heading, At
<1> QED BY <1>1, <1>3, <1>4, <1>5, <1>6, JobStep

LEMMA ReadVersionStep ==
  ASSUME RestoreInv, NEW s \in Session, LookAgain(s)
  PROVE  RestoreInv'
<1>1. At("version") /\ UNCHANGED <<account, reclaimed, onDevice, save, counts>>
  BY DEF LookAgain
<1>2. job \in JobRow /\ job.steps = <<>> /\ head[s].version \in Nat
  BY <1>1 DEF RestoreInv, RestoreTypes, JobFits, At, HeadTypes, HeadRow
<1>3. /\ job' \in JobRow /\ job'.steps = <<>> /\ job'.dropped = job.dropped
      /\ job'.depth = job.depth /\ job'.listed = job.listed
      /\ job'.cmd = job.cmd /\ job'.found = job.found
      /\ job'.pc = "put" /\ job'.item = job.item /\ job'.todo = job.todo
  BY <1>2 DEF LookAgain, JobRow
<1>4. JobFits'
  <2>1. ~Pending("catalog")' /\ ~Pending("body")' /\ ~Pending("ranked")' /\ ~Pending("vector")'
    BY <1>3, EmptyHead DEF Pending, In
  <2>2. job.item \subseteq Session
    BY <1>1 DEF RestoreInv, RestoreTypes, JobFits
  <2> QED BY <1>3, <2>1, <2>2 DEF JobFits, StepsFit, At
<1>5. JobFinite'
  BY <1>3 DEF RestoreInv, JobFinite
<1>6. WalkInv'
  <2>1. Rebuilds /\ PutBack(Back) /\ \A c \in Back \cap Chunk : HeadBack(c) \/ c.of \in job.todo
    BY <1>1 DEF RestoreInv, WalkInv, Heading
  <2>2. PutBack(Back)' /\ Rebuilds'
    BY <1>1, <1>3, <2>1 DEF PutBack, Rebuilds, Back, onDevice
  <2>3. (\A c \in Back \cap Chunk : HeadBack(c) \/ c.of \in job.todo)'
    BY <1>1, <1>3, <2>1 DEF HeadBack, Held, Back, onDevice
  <2> QED BY <1>3, <2>2, <2>3 DEF WalkInv, Heading, At
<1> QED BY <1>1, <1>3, <1>4, <1>5, <1>6, JobStep

(* A head rebuilt from the chunks of its session. *)
LEMMA SortedHead ==
  ASSUME NEW s, NEW cs, IsFiniteSet(cs), cs \subseteq Chunk, \A c \in cs : c.of = s, NEW q \in Sorted(cs)
  PROVE  /\ q \in Seq(Chunk)
         /\ \A i \in DOMAIN q :
              /\ q[i] \in cs /\ q[i].of = s
              /\ ~HasSequenceGap(q) => q[i].seq = i - 1
              /\ \A j \in DOMAIN q : (q[i] = q[j] => i = j) /\ (i < j => q[i].seq <= q[j].seq)
<1>1. Cardinality(cs) \in Nat
  BY FS_CardinalityType
<1>2. q \in [1..Cardinality(cs) -> cs]
  BY DEF Sorted, Orders
<1>3. q \in Seq(Chunk)
  BY <1>1, <1>2
<1>4. \A i, j \in DOMAIN q : (q[i] = q[j] => i = j) /\ (i < j => q[i].seq <= q[j].seq)
  BY DEF Sorted, Orders
<1>5. \A i \in DOMAIN q : ~HasSequenceGap(q) => q[i].seq = i - 1
  BY DEF HasSequenceGap
<1> QED BY <1>2, <1>3, <1>4, <1>5

LEMMA PutHeadStep ==
  ASSUME RestoreInv, NEW s \in Session, PutHead(s)
  PROVE  RestoreInv'
<1>1. /\ At("put") /\ s \in job.item
      /\ UNCHANGED <<account, reclaimed, catalog, body, ranked, vector, save, counts>>
  BY DEF PutHead
<1>2. job \in JobRow /\ job.steps = <<>> /\ head \in [Session -> HeadRow]
  BY <1>1 DEF RestoreInv, RestoreTypes, JobFits, At, HeadTypes
<1>3. ASSUME job' = NoRestore, UNCHANGED head
      PROVE  RestoreInv'
  <2>1. faults' \in 0..MaxFault
    BY <1>1 DEF RestoreInv, RestoreTypes, CountTypes, counts
  <2> QED BY <1>1, <1>3, <2>1, EndingStep DEF counts, onDevice
<1>4. ASSUME NEW q \in Sorted(ChunksOf(s)),
             head' = [head EXCEPT ![s] = [held |-> TRUE, version |-> job.expect + 1, chunks |-> q,
                                          links |-> Backlinks(s), gap |-> HasSequenceGap(q)]],
             job' = [job EXCEPT !.pc = "heads", !.todo = @ \ {s}, !.expect = 0,
                                !.steps = IF job.depth = Index THEN <<"ranked", "vector">>
                                                               ELSE <<"ranked">>]
      PROVE  RestoreInv'
  <2> DEFINE st == IF job.depth = Index THEN <<"ranked", "vector">> ELSE <<"ranked">>
             row == [held |-> TRUE, version |-> job.expect + 1, chunks |-> q,
                     links |-> Backlinks(s), gap |-> HasSequenceGap(q)]
  <2>1. st \in Seq(StoreName) /\ st # <<>> /\ ~In("catalog", st) /\ ~In("body", st)
    <3>1. "ranked" \in StoreName /\ "vector" \in StoreName /\ "catalog" \in StoreName /\ "body" \in StoreName
      BY DEF StoreName
    <3>2. Lists(<<"ranked">>, {"ranked"}) /\ Lists(<<"ranked", "vector">>, {"ranked", "vector"})
      BY <3>1, StoreLists
    <3> QED BY <3>1, <3>2 DEF Lists
  <2>2. /\ job' \in JobRow /\ job'.steps = st /\ job'.item = job.item
        /\ job'.depth = job.depth /\ job'.listed = job.listed /\ job'.dropped = job.dropped
        /\ job'.todo = job.todo \ {s} /\ job'.cmd = job.cmd /\ job'.found = job.found
        /\ job'.pc = "heads"
    BY <1>2, <1>4, <2>1 DEF JobRow
  <2> HIDE DEF st
  <2>3. ChunksOf(s) \subseteq Chunk /\ \A c \in ChunksOf(s) : c.of = s
    BY DEF ChunksOf
  <2>4. IsFiniteSet(ChunksOf(s))
    <3>1. ChunksOf(s) \in SUBSET job.found
      BY DEF ChunksOf
    <3> QED BY <3>1, FS_Subset DEF RestoreInv, JobFinite
  <2>5. /\ q \in Seq(Chunk)
        /\ \A i \in DOMAIN q :
             /\ q[i] \in ChunksOf(s) /\ q[i].of = s
             /\ ~HasSequenceGap(q) => q[i].seq = i - 1
             /\ \A j \in DOMAIN q : (q[i] = q[j] => i = j) /\ (i < j => q[i].seq <= q[j].seq)
    BY <2>3, <2>4, SortedHead
  <2>6. HasSequenceGap(q) \in BOOLEAN /\ Backlinks(s) \subseteq Remembered
    BY DEF HasSequenceGap, Backlinks
  <2>7. row \in HeadRow /\ Versioned(row) /\ Ordered(s, row)
    <3>1. job.expect + 1 \in Nat /\ job.expect + 1 > 0
      BY <1>2 DEF JobRow
    <3>2. row.chunks = q /\ row.gap = HasSequenceGap(q)
      OBVIOUS
    <3>3. Ordered(s, row)
      <4> HIDE DEF row
      <4> QED BY <2>5, <3>2 DEF Ordered
    <3> QED BY <2>5, <2>6, <3>1, <3>3 DEF HeadRow, Versioned
  <2>8. head'[s] = row /\ row.held /\ \A o \in Session \ {s} : head'[o] = head[o]
    BY <1>2, <1>4
  <2>9. head' \in [Session -> HeadRow]
    BY <1>2, <1>4, <2>7
  <2> HIDE DEF row
  <2>10. JobFits'
    <3>1. job.item \subseteq Session
      BY <1>1 DEF RestoreInv, RestoreTypes, JobFits
    <3> QED BY <2>1, <2>2, <3>1 DEF JobFits, StepsFit, Pending, At
  <2>11. RestoreTypes'
    <3>1. HeadTypes'
      BY <2>7, <2>8, <2>9 DEF RestoreInv, RestoreTypes, HeadTypes
    <3> QED BY <1>1, <2>2, <2>10, <3>1
            DEF RestoreInv, RestoreTypes, StoreTypes, CountTypes, SaveTypes, counts
  <2>12. StoresFinite' /\ JobFinite' /\ SaveOrdered' /\ HeadsOrdered'
    BY <1>1, <2>2, <2>7, <2>8 DEF RestoreInv, StoresFinite, JobFinite, SaveOrdered, HeadsOrdered
  <2>13. WalkInv'
    <3>1. Rebuilds /\ PutBack(Back) /\ \A c \in Back \cap Chunk : HeadBack(c) \/ c.of \in job.todo
      BY <1>1 DEF RestoreInv, WalkInv, Heading
    <3>2. PutBack(Back)' /\ Rebuilds'
      BY <1>1, <2>2, <3>1 DEF PutBack, Rebuilds, Back
    <3>3. (\A c \in Back \cap Chunk : HeadBack(c) \/ c.of \in job.todo)'
      <4> SUFFICES ASSUME NEW c \in Back \cap Chunk PROVE HeadBack(c)' \/ c.of \in job'.todo
        BY <2>2 DEF Back
      <4>1. c.of \in Session
        BY DEF Chunk
      <4> QED BY <2>2, <2>8, <3>1, <4>1 DEF HeadBack, Held
    <3> QED BY <2>2, <3>2, <3>3 DEF WalkInv, Heading, At
  <2> QED BY <2>11, <2>12, <2>13 DEF RestoreInv
<1> QED BY <1>3, <1>4 DEF PutHead

LEMMA RestoreInvariant == Spec => []RestoreInv
<1>1. Init => RestoreInv
  BY RestoreStart
<1>2. RestoreInv /\ [Next]_vars => RestoreInv'
  <2> SUFFICES ASSUME RestoreInv, [Next]_vars PROVE RestoreInv'
    OBVIOUS
  <2>1. CASE UNCHANGED vars
    <3>1. JobFits' /\ WalkInv' /\ JobFinite'
      BY <2>1 DEF vars, RestoreInv, RestoreTypes, JobFits, StepsFit, JobFinite, WalkInv, Heading, Pending,
                  At, PutBack, Underway, Rebuilds, Back, HeadBack, Held
    <3> QED BY <2>1, <3>1 DEF vars, RestoreInv, RestoreTypes, StoreTypes, CountTypes, HeadTypes,
                              SaveTypes, StoresFinite, HeadsOrdered, SaveOrdered
  <2>2. CASE Restoring
    BY <2>2, StoreStep, TurnStep, GroupStep, EndSteps, BeginStep, ReadObjectStep, LookUpStep,
       ReadVersionStep, PutHeadStep
       DEF Restoring
  <2>3. CASE \E o \in Record : FarWrite(o) \/ FarDrop(o)
    BY <2>3, FarStep
  <2>4. CASE \E s \in Session : SaveChunk(s) \/ ForgetSession(s)
    BY <2>4, SaveChunkStep, ForgetSessionStep
  <2>5. CASE \E c \in Chunk : SaveHead(c)
    BY <2>5, SaveHeadStep
  <2>6. CASE \E m \in Remembered : Forget(m)
    BY <2>6, ForgetStep
  <2>7. CASE FlushHere \/ SaveStops
    BY <2>7, FlushHereStep, SaveStopsStep
  <2> QED BY <2>1, <2>2, <2>3, <2>4, <2>5, <2>6, <2>7 DEF Next
<1> QED BY <1>1, <1>2, PTL DEF Spec

(***************************************************************************)
(* Every variable of a device that restores a vault keeps its type, and a  *)
(* head names each chunk of its own conversation once, whatever is cut     *)
(* short, saved, forgotten and restored again (vault/hydrate.go,           *)
(* vault/recover.go, vault/rebuild.go).                                    *)
(***************************************************************************)
THEOREM RestoreTypeCorrect == Spec => []TypeOK
<1>1. RestoreInv => TypeOK
  <2> SUFFICES ASSUME RestoreInv PROVE TypeOK
    OBVIOUS
  <2>1. job.depth \in Depth /\ job.listed \subseteq Record /\ job.found \subseteq Record
    BY DEF RestoreInv, RestoreTypes, JobRow
  <2>2. ASSUME NEW s \in Session
        PROVE  /\ head[s].links \subseteq Remembered
               /\ head[s].chunks \in Seq({c \in Chunk : c.of = s})
               /\ \A i, j \in DOMAIN head[s].chunks : head[s].chunks[i] = head[s].chunks[j] => i = j
               /\ head[s].version \in Nat /\ (Held(s) <=> head[s].version > 0)
    <3>1. head[s].links \subseteq Remembered /\ head[s].chunks \in Seq(Chunk) /\ head[s].version \in Nat
      BY DEF RestoreInv, RestoreTypes, HeadTypes, HeadRow
    <3>2. /\ Len(head[s].chunks) \in Nat /\ DOMAIN head[s].chunks = 1..Len(head[s].chunks)
          /\ head[s].chunks \in [1..Len(head[s].chunks) -> Chunk]
      BY <3>1, LenProperties
    <3>3. \A i \in 1..Len(head[s].chunks) : head[s].chunks[i] \in {c \in Chunk : c.of = s}
      BY <3>2 DEF RestoreInv, HeadsOrdered, Ordered
    <3>4. head[s].chunks \in [1..Len(head[s].chunks) -> {c \in Chunk : c.of = s}]
      BY <3>2, <3>3
    <3>5. head[s].chunks \in Seq({c \in Chunk : c.of = s})
      BY <3>2, <3>4, SeqDef
    <3>6. \A i, j \in DOMAIN head[s].chunks : head[s].chunks[i] = head[s].chunks[j] => i = j
      BY DEF RestoreInv, HeadsOrdered, Ordered
    <3>7. Held(s) <=> head[s].version > 0
      BY DEF RestoreInv, RestoreTypes, HeadTypes, Versioned, Held
    <3> QED BY <3>1, <3>5, <3>6, <3>7
  <2>3. save.chunk \subseteq Chunk
    BY DEF RestoreInv, RestoreTypes, SaveTypes
  <2> QED BY <2>1, <2>2, <2>3 DEF RestoreInv, RestoreTypes, StoreTypes, CountTypes, TypeOK
<1> QED BY <1>1, RestoreInvariant, PTL

(***************************************************************************)
(* Whatever order the network gives the chunks back in, and whatever is    *)
(* appended, flushed, forgotten or restored again, the turns of a          *)
(* conversation are in the order of their numbers, also where a save runs  *)
(* beside the restore and one writes over the other; but for those appended *)
(* to a head whose hole the rebuild reported (vault/rebuild.go).           *)
(***************************************************************************)
THEOREM TurnsAlwaysInOrder == Spec => []InOrder
<1>1. RestoreInv => InOrder
  BY DEF RestoreInv, HeadsOrdered, Ordered, InOrder
<1> QED BY <1>1, RestoreInvariant, PTL

(***************************************************************************)
(* A hydrate or a recover that ends has put back everything the feed       *)
(* listed, to its depth, whatever earlier ones left half done and whatever *)
(* the other device reclaimed meanwhile, but for what another process of   *)
(* the device took off it; a hydrate has given every conversation of a     *)
(* listed chunk a head (vault/hydrate.go, vault/recover.go,                *)
(* vault/rebuild.go).                                                      *)
(***************************************************************************)
THEOREM RestoreAlwaysRestores == Spec => []Restored
<1>1. RestoreInv => Restored
  BY DEF RestoreInv, WalkInv, Restored, PutBack, Rebuilds, Back, HeadBack
<1> QED BY <1>1, RestoreInvariant, PTL

(* A device on which one restore was begun: until then each head it holds  *)
(* was saved there and is searched, and while it hydrates for the index    *)
(* each head it holds is searched or is about to be.                       *)
Searched(s) == s \in vector \/ (s \in job.item /\ Pending("vector"))

SearchInv ==
  /\ restores = 0 => At("idle") /\ \A s \in Session : Held(s) => s \in vector
  /\ ~At("idle") /\ job.depth = Index => \A s \in Session : Held(s) => Searched(s)

(* A step of a restore that has nothing left to store and writes no head. *)
LEMMA SearchGoesOn ==
  ASSUME RestoreInv, SearchInv, ~At("idle"), job.steps = <<>>,
         UNCHANGED <<vector, head, restores>>, job'.depth = job.depth
  PROVE  SearchInv'
<1>1. ~Pending("vector")
  BY EmptyHead DEF Pending, In
<1>2. restores' # 0
  BY DEF SearchInv
<1>3. job'.depth = Index => \A s \in Session : Held(s)' => s \in vector'
  BY <1>1 DEF SearchInv, Searched, Held
<1> QED BY <1>2, <1>3 DEF SearchInv, Searched

LEMMA SearchStore ==
  ASSUME RestoreInv, SearchInv, Store
  PROVE  SearchInv'
<1>1. PICK st \in Seq(StoreName) : st = job.steps /\ st # <<>> /\ job \in JobRow
  BY DEF RestoreInv, RestoreTypes, JobRow, Store
<1>2. /\ Len(st) = 1 <=> Tail(st) = <<>>
      /\ \A x : In(x, st) <=> x = Head(st) \/ In(x, Tail(st))
  BY <1>1, StepsShrink
<1>3. /\ job'.steps = Tail(st) /\ job'.item = (IF Len(st) = 1 THEN {} ELSE job.item)
      /\ job'.pc = job.pc /\ job'.depth = job.depth /\ head' = head /\ restores' = restores
      /\ vector' = IF Head(st) = "vector" THEN vector \cup job.item ELSE vector
  BY <1>1 DEF Store, JobRow, Into, counts
<1>4. ~In("vector", <<>>)
  BY EmptyHead DEF In
<1>5. ~At("idle")
  BY <1>1 DEF RestoreInv, RestoreTypes, JobFits, At
<1>6. restores # 0
  BY <1>5 DEF SearchInv
<1>7. ASSUME NEW s \in Session, Searched(s) PROVE Searched(s)'
  <2>1. CASE s \in vector
    BY <1>3, <2>1 DEF Searched
  <2>2. CASE s \in job.item /\ In("vector", st) /\ Head(st) = "vector"
    BY <1>3, <2>2 DEF Searched
  <2>3. CASE s \in job.item /\ In("vector", st) /\ Head(st) # "vector"
    <3>1. In("vector", Tail(st)) /\ Tail(st) # <<>>
      BY <1>2, <1>4, <2>3
    <3> QED BY <1>2, <1>3, <2>3, <3>1 DEF Searched, Pending
  <2> QED BY <1>1, <1>7, <2>1, <2>2, <2>3 DEF Searched, Pending
<1> QED BY <1>3, <1>5, <1>6, <1>7 DEF SearchInv, At, Held

LEMMA SearchRebuild ==
  ASSUME RestoreInv, SearchInv, NEW s \in Session, LookUp(s) \/ LookAgain(s) \/ PutHead(s)
  PROVE  SearchInv'
<1>1. ~At("idle") /\ job \in JobRow /\ head \in [Session -> HeadRow] /\ UNCHANGED <<vector, restores>>
  BY DEF LookUp, LookAgain, PutHead, At, RestoreInv, RestoreTypes, HeadTypes, counts, onDevice
<1>2. job.steps = <<>>
  BY DEF LookUp, LookAgain, PutHead, At, RestoreInv, RestoreTypes, JobFits
<1>3. CASE UNCHANGED head /\ job'.depth = job.depth
  BY <1>1, <1>2, <1>3, SearchGoesOn
<1>4. CASE job' = NoRestore
  BY <1>1, <1>4, EmptyJob DEF SearchInv, At
<1>5. CASE /\ PutHead(s)
           /\ \E row : head' = [head EXCEPT ![s] = row]
           /\ job' = [job EXCEPT !.pc = "heads", !.todo = @ \ {s}, !.expect = 0,
                                 !.steps = IF job.depth = Index THEN <<"ranked", "vector">>
                                                                ELSE <<"ranked">>]
  <2>1. job'.depth = job.depth /\ job'.item = job.item /\ job'.pc = "heads" /\ s \in job.item
        /\ (job.depth = Index => job'.steps = <<"ranked", "vector">>)
    BY <1>1, <1>5 DEF JobRow, PutHead
  <2>2. In("vector", <<"ranked", "vector">>)
    <3>1. 2 \in DOMAIN <<"ranked", "vector">> /\ <<"ranked", "vector">>[2] = "vector"
      OBVIOUS
    <3> QED BY <3>1, Zenon DEF In
  <2>3. job.depth = Index => Searched(s)'
    BY <2>1, <2>2 DEF Searched, Pending
  <2>4. ~Pending("vector")
    BY <1>2, NothingPending
  <2>5. job.depth = Index => \A t \in Session : t # s /\ Held(t)' => t \in vector'
    BY <1>1, <1>5, <2>4 DEF SearchInv, Searched, Held
  <2>6. restores' # 0
    BY <1>1 DEF SearchInv
  <2> QED BY <2>1, <2>3, <2>5, <2>6 DEF SearchInv, Searched
<1>6. LookUp(s) \/ LookAgain(s) => UNCHANGED head /\ job'.depth = job.depth
  BY <1>1 DEF LookUp, LookAgain, onDevice, JobRow
<1> QED BY <1>3, <1>4, <1>5, <1>6 DEF PutHead

(* A step beside the restore: the heads it adds are searched, and what it  *)
(* takes out of the index has no head any more.                            *)
LEMMA SearchBeside ==
  ASSUME RestoreInv, SearchInv, NEW gone \in SUBSET (Record \cup Session),
         Dropped(gone) \/ (gone = {} /\ UNCHANGED job), UNCHANGED restores,
         \A s \in Session : Held(s)' => \/ s \in vector'
                                        \/ Held(s) /\ (s \in vector => s \in vector')
  PROVE  SearchInv'
<1>1. CASE At("idle")
  <2>1. job' = job
    BY <1>1 DEF Dropped
  <2>2. restores = 0 => \A s \in Session : Held(s) => s \in vector
    BY DEF SearchInv
  <2> QED BY <1>1, <2>1, <2>2 DEF SearchInv, At
<1>2. CASE ~At("idle")
  <2>1. job'.pc = job.pc /\ job'.depth = job.depth /\ job'.item = job.item /\ job'.steps = job.steps
    BY <1>2, JobBeside
  <2>2. restores # 0
    BY <1>2 DEF SearchInv
  <2> QED BY <1>2, <2>1, <2>2 DEF SearchInv, Searched, Pending, At
<1> QED BY <1>1, <1>2

LEMMA SearchBesides ==
  ASSUME RestoreInv, SearchInv,
         \/ \E o \in Record : FarWrite(o) \/ FarDrop(o)
         \/ \E s \in Session : SaveChunk(s) \/ ForgetSession(s)
         \/ \E c \in Chunk : SaveHead(c)
         \/ \E m \in Remembered : Forget(m)
         \/ FlushHere \/ SaveStops
  PROVE  SearchInv'
<1>1. {} \in SUBSET (Record \cup Session) /\ head \in [Session -> HeadRow]
  BY DEF RestoreInv, RestoreTypes, HeadTypes
<1>2. ASSUME UNCHANGED <<vector, head, job, restores>> PROVE SearchInv'
  BY <1>1, <1>2, SearchBeside DEF Held
<1>3. ASSUME NEW s \in Session, ForgetSession(s) PROVE SearchInv'
  <2>1. /\ Dropped(Named(s) \cup {s}) /\ UNCHANGED restores
        /\ vector' = vector \ {s} /\ head' = [head EXCEPT ![s] = NoHead]
    BY <1>3 DEF ForgetSession, counts
  <2>2. Named(s) \cup {s} \in SUBSET (Record \cup Session)
    BY <1>1, ElementOfSeq, LenProperties DEF Named, HeadRow, Record
  <2>3. ~Held(s)' /\ \A q \in Session \ {s} : Held(q)' = Held(q)
    BY <1>1, <2>1 DEF Held, NoHead
  <2> QED BY <2>1, <2>2, <2>3, SearchBeside
<1>4. ASSUME NEW c \in Chunk, SaveHead(c) PROVE SearchInv'
  <2>1. c.of \in Session /\ {c} \in SUBSET (Record \cup Session) /\ UNCHANGED restores
    BY <1>4 DEF Chunk, Record, SaveHead, counts
  <2>2. CASE /\ head' = [head EXCEPT ![c.of] = Extended(c)]
             /\ vector' = vector \cup {c.of}
             /\ UNCHANGED job
    <3>1. \A s \in Session : Held(s)' => \/ s \in vector'
                                         \/ Held(s) /\ (s \in vector => s \in vector')
      BY <1>1, <2>1, <2>2 DEF Held
    <3> QED BY <1>1, <2>1, <2>2, <3>1, SearchBeside
  <2>3. CASE Dropped({c}) /\ UNCHANGED <<vector, head>>
    BY <2>1, <2>3, SearchBeside DEF Held
  <2> QED BY <1>4, <2>2, <2>3 DEF SaveHead
<1>5. ASSUME NEW m \in Remembered, Forget(m) PROVE SearchInv'
  <2>1. {m} \in SUBSET (Record \cup Session) /\ m \notin Session
    BY NamesAssumption DEF Record
  <2>2. Dropped({m}) /\ UNCHANGED <<head, restores>> /\ vector' = vector \ {m}
    BY <1>5 DEF Forget, counts
  <2>3. \A s \in Session : Held(s)' => Held(s) /\ (s \in vector => s \in vector')
    BY <2>1, <2>2, NamesAssumption DEF Held
  <2> QED BY <2>1, <2>2, <2>3, SearchBeside
<1>6. ASSUME \/ \E o \in Record : FarWrite(o) \/ FarDrop(o)
             \/ \E s \in Session : SaveChunk(s)
             \/ FlushHere \/ SaveStops
      PROVE  UNCHANGED <<vector, head, job, restores>>
  BY <1>6 DEF FarWrite, FarDrop, SaveChunk, FlushHere, SaveStops, onDevice, counts
<1> QED BY <1>2, <1>3, <1>4, <1>5, <1>6

LEMMA SearchStep ==
  ASSUME MaxRestore <= 1, RestoreInv, SearchInv, [Next]_vars
  PROVE  SearchInv'
<1>1. CASE UNCHANGED vars
  BY <1>1 DEF vars, SearchInv, Searched, Pending, At, Held
<1>2. ASSUME NEW cmd, NEW depth, Begin(cmd, depth) PROVE SearchInv'
  <2>1. restores = 0 /\ restores' = 1
    BY <1>2, BoundAssumption DEF Begin, RestoreInv, RestoreTypes, CountTypes
  <2>2. \A s \in Session : Held(s)' => s \in vector'
    BY <1>2, <2>1 DEF Begin, onDevice, SearchInv, Held
  <2> QED BY <2>1, <2>2 DEF SearchInv, Searched
<1>3. ASSUME job' = NoRestore, UNCHANGED restores, ~At("idle") PROVE SearchInv'
  BY <1>3, EmptyJob DEF SearchInv, At
<1>4. ASSUME NEW o \in Record, ReadObject(o) PROVE SearchInv'
  <2>1. ~At("idle") /\ job.steps = <<>> /\ UNCHANGED <<vector, head, restores>>
    BY <1>4 DEF ReadObject, At, onDevice, counts
  <2>2. job' = NoRestore \/ job'.depth = job.depth
    BY <1>4 DEF ReadObject, RestoreInv, RestoreTypes, JobRow
  <2> QED BY <1>3, <2>1, <2>2, SearchGoesOn
<1>5. CASE WalkEnds \/ RebuildEnds \/ Group
  <2>1. ~At("idle") /\ job.steps = <<>> /\ UNCHANGED <<vector, head, restores>>
    BY <1>5 DEF WalkEnds, RebuildEnds, Group, At, onDevice, counts, RestoreInv, RestoreTypes, JobFits
  <2>2. job'.depth = job.depth
    BY <1>5 DEF WalkEnds, RebuildEnds, Group, RestoreInv, RestoreTypes, JobRow
  <2> QED BY <2>1, <2>2, SearchGoesOn
<1>6. CASE Finish \/ CutShort
  BY <1>3, <1>6 DEF Finish, CutShort, counts, At
<1> QED BY <1>1, <1>2, <1>4, <1>5, <1>6, SearchStore, SearchRebuild, SearchBesides
        DEF Next, Restoring

(***************************************************************************)
(* A hydrate for the index makes every conversation on the device          *)
(* searchable (vault/rebuild.go) if it is the first restore begun there;   *)
(* one begun before, at a lower depth or cut short, may leave heads that   *)
(* it passes over.                                                         *)
(***************************************************************************)
THEOREM FirstRestoreIsSearchable == MaxRestore <= 1 => (Spec => []Searchable)
<1> SUFFICES ASSUME MaxRestore <= 1 PROVE Spec => []Searchable
  OBVIOUS
<1>1. Init => SearchInv
  BY EmptyJob, EmptyHead DEF Init, SearchInv, At, Held, NoHead
<1>2. RestoreInv /\ SearchInv /\ [Next]_vars => SearchInv'
  BY SearchStep
<1>3. RestoreInv /\ SearchInv => Searchable
  <2> SUFFICES ASSUME RestoreInv, SearchInv, At("done"), job.depth = Index, NEW s \in Session, Held(s)
               PROVE  s \in vector
    BY DEF Searchable
  <2>1. job.steps = <<>> /\ ~At("idle")
    BY DEF RestoreInv, RestoreTypes, JobFits, At
  <2>2. ~Pending("vector")
    BY <2>1, EmptyHead DEF Pending, In
  <2> QED BY <2>1, <2>2 DEF SearchInv, Searched
<1> QED BY <1>1, <1>2, <1>3, RestoreInvariant, PTL DEF Spec

-----------------------------------------------------------------------------
(***************************************************************************)
(* The opening of a vault, for any number of processes of any builds, any  *)
(* number of model files and any number of starts.                         *)
(***************************************************************************)

USE DEF database, model, Stage, Moves

OpeningRecord == [at : Stages, phrase : Phrases \cup {NoPhrase}, step : Nat,
                  file : 1..(Files + 1), attempt : 1..Attempts, online : BOOLEAN]

LEMMA SchemaIsNat == Schema \subseteq Nat \ {0}
  BY StartupAssumption DEF Schema

LEMMA ClosedIsTyped == Closed \in OpeningRecord
  BY StartupAssumption DEF Closed, OpeningRecord, Stages

(* The process that steps is the only one whose opening changes. *)
LEMMA OpeningUpdate ==
  ASSUME StartupTypeOK, NEW p \in Opener, NEW o \in OpeningRecord,
         opening' = [opening EXCEPT ![p] = o]
  PROVE  opening' \in [Opener -> OpeningRecord]
  BY DEF StartupTypeOK, OpeningRecord

(* A process that only moves on keeps the type of its opening. *)
LEMMA MovesIsTyped ==
  ASSUME StartupTypeOK, NEW p \in Opener, NEW stage \in Stages, Moves(p, stage)
  PROVE  opening' \in [Opener -> OpeningRecord]
  BY DEF StartupTypeOK, OpeningRecord

(* What is transferred and renamed is one of the model's files. *)
FileNamed ==
  \A p \in Opener : Stage(p) \in {"transfer", "rename"} => opening[p].file \in File

(* A step of an open keeps every type. *)
LEMMA StartTypeStep ==
  ASSUME StartupTypeOK, FileNamed, [StartNext]_startVars PROVE StartupTypeOK'
<1> USE DEF StartupTypeOK
<1>0. opening \in [Opener -> OpeningRecord] /\ Closed \in OpeningRecord
  BY ClosedIsTyped DEF OpeningRecord
<1>s. ASSUME opening' \in [Opener -> OpeningRecord], UNCHANGED <<database, model, started>>
      PROVE  StartupTypeOK'
  BY <1>s DEF OpeningRecord
<1>1. CASE UNCHANGED startVars BY <1>1 DEF startVars
<1>2. ASSUME NEW p \in Opener, Begins(p) PROVE StartupTypeOK'
  <2>1. PICK typed \in Phrases : opening' =
          [opening EXCEPT ![p] = [Closed EXCEPT !.at = "schema", !.phrase = typed]]
    BY <1>2 DEF Begins
  <2>2. [Closed EXCEPT !.at = "schema", !.phrase = typed] \in OpeningRecord
    BY <1>0 DEF OpeningRecord, Stages
  <2>3. opening' \in [Opener -> OpeningRecord] BY <2>1, <2>2, OpeningUpdate
  <2>4. started' \in 0..MaxStart BY <1>2, StartupAssumption DEF Begins
  <2> QED BY <1>2, <2>3, <2>4 DEF Begins, OpeningRecord
<1>3. ASSUME NEW p \in Opener, Unopened(p), UNCHANGED <<database, onDisk, late, started>>,
             staged' \in [File -> {"absent", "partial", "whole", "other"}]
      PROVE  StartupTypeOK'
  BY <1>3, MovesIsTyped DEF Unopened, OpeningRecord, Stages
<1>4. ASSUME NEW p \in Opener, ReadVersion(p) PROVE StartupTypeOK'
  <2>1. CASE version > KnownSchema[p] BY <1>3, <1>4, <2>1 DEF ReadVersion
  <2>2. CASE ~(version > KnownSchema[p])
    <3> DEFINE o == [opening[p] EXCEPT !.at = "migrate", !.step = version + 1]
    <3>1. "migrate" \in Stages BY DEF Stages
    <3>4. version + 1 \in Nat OBVIOUS
    <3>2. o \in OpeningRecord
      <4> HIDE DEF StartupTypeOK
      <4> QED BY <1>0, <3>1, <3>4 DEF OpeningRecord
    <3>3. opening' = [opening EXCEPT ![p] = o] BY <1>4, <2>2 DEF ReadVersion
    <3> QED BY <1>4, <1>s, <2>2, <3>2, <3>3, OpeningUpdate DEF ReadVersion
  <2> QED BY <2>1, <2>2
<1>5. ASSUME NEW p \in Opener, ApplyUp(p) PROVE StartupTypeOK'
  <2> DEFINE o == [opening[p] EXCEPT !.step = opening[p].step + 1]
  <2>1. o \in OpeningRecord /\ opening[p].step \in Nat BY <1>0 DEF OpeningRecord
  <2>2. opening' = [opening EXCEPT ![p] = o] BY <1>5 DEF ApplyUp
  <2>3. opening' \in [Opener -> OpeningRecord] BY <2>1, <2>2, OpeningUpdate
  <2>4. /\ version' \in Nat /\ applied' \in [Schema -> Nat]
        /\ columns' \in {"none", "old", "new"} /\ phraseCheck' = phraseCheck
    BY <1>5, <2>1 DEF ApplyUp, ColumnsAfter
  <2> QED BY <1>5, <2>3, <2>4 DEF ApplyUp, OpeningRecord
<1>6. ASSUME NEW p \in Opener, \/ Migrated(p) \/ FetchModel(p) \/ OpenIndex(p)
                               \/ OpenPacker(p)
      PROVE  StartupTypeOK'
  BY <1>6, <1>s, MovesIsTyped DEF Migrated, FetchModel, OpenIndex, OpenPacker, Stages
<1>7. ASSUME NEW p \in Opener, ReadCheck(p) PROVE StartupTypeOK'
  <2>1. CASE phraseCheck \in {NoPhrase, opening[p].phrase}
    BY <1>7, <1>s, <2>1, MovesIsTyped DEF ReadCheck, Stages
  <2>2. CASE phraseCheck \notin {NoPhrase, opening[p].phrase}
    BY <1>3, <1>7, <2>2 DEF ReadCheck
  <2> QED BY <2>1, <2>2
<1>8. ASSUME NEW p \in Opener, PutCheck(p) PROVE StartupTypeOK'
  <2>1. opening' \in [Opener -> OpeningRecord] BY <1>8, MovesIsTyped DEF PutCheck, Stages
  <2> QED BY <1>0, <1>8, <2>1 DEF PutCheck, OpeningRecord
<1>9. ASSUME NEW p \in Opener, Alone(p) \/ GiveUp(p) PROVE StartupTypeOK'
  <2>1. opening' \in [Opener -> OpeningRecord]
    BY <1>9, MovesIsTyped DEF Alone, GiveUp, Stages
  <2> QED BY <1>9, <2>1 DEF Alone, GiveUp, OpeningRecord
<1>10. ASSUME NEW p \in Opener, GrantedLate(p) \/ GivenBack(p) PROVE StartupTypeOK'
  BY <1>10 DEF GrantedLate, GivenBack
<1>11. ASSUME NEW p \in Opener, NextFile(p) PROVE StartupTypeOK'
  <2>0. opening[p].file \in 1..(Files + 1) BY <1>0 DEF OpeningRecord
  <2>1. CASE opening[p].file > Files
    <3>1. opening' \in [Opener -> OpeningRecord]
      BY <1>11, <2>1, MovesIsTyped DEF NextFile, Stages
    <3> QED BY <1>11, <2>1, <3>1 DEF NextFile, OpeningRecord
  <2>2. CASE ~(opening[p].file > Files)
    <3> DEFINE o == [opening[p] EXCEPT !.file = opening[p].file + 1]
    <3>1. opening[p].file + 1 \in 1..(Files + 1) BY <2>0, <2>2, StartupAssumption
    <3>2. o \in OpeningRecord BY <1>0, <3>1 DEF OpeningRecord
    <3>3. opening' = [opening EXCEPT ![p] = o] BY <1>11, <2>2 DEF NextFile
    <3>4. opening' \in [Opener -> OpeningRecord] BY <3>2, <3>3, OpeningUpdate
    <3> QED BY <1>11, <2>2, <3>4 DEF NextFile, OpeningRecord
  <2> QED BY <2>1, <2>2
<1>12. ASSUME NEW p \in Opener, Download(p) \/ Received(p) PROVE StartupTypeOK'
  <2>1. opening' \in [Opener -> OpeningRecord]
    BY <1>12, MovesIsTyped DEF Download, Received, Stages
  <2> QED BY <1>12, <2>1 DEF Download, Received, OpeningRecord
<1>13. ASSUME NEW p \in Opener, BrokenTransfer(p) PROVE StartupTypeOK'
  <2> DEFINE o == [opening[p] EXCEPT !.at = "file", !.attempt = opening[p].attempt + 1]
  <2>1. opening[p].attempt + 1 \in 1..Attempts
    BY <1>0, <1>13, StartupAssumption DEF BrokenTransfer, OpeningRecord
  <2>2. o \in OpeningRecord BY <1>0, <2>1 DEF OpeningRecord, Stages
  <2>3. opening' = [opening EXCEPT ![p] = o] BY <1>13 DEF BrokenTransfer
  <2> QED BY <1>13, <1>s, <2>2, <2>3, OpeningUpdate DEF BrokenTransfer
<1>14. ASSUME NEW p \in Opener, HubFails(p) PROVE StartupTypeOK'
  <2>1. staged' \in [File -> {"absent", "partial", "whole", "other"}]
    BY <1>14 DEF HubFails
  <2> QED BY <1>14, <1>3, <2>1 DEF HubFails
<1>18. ASSUME NEW p \in Opener, OpenFails(p) PROVE StartupTypeOK'
  BY <1>18, <1>3 DEF OpenFails
<1>15. ASSUME NEW p \in Opener, Rename(p) PROVE StartupTypeOK'
  <2> DEFINE o == [opening[p] EXCEPT !.at = "file", !.file = opening[p].file + 1,
                                     !.attempt = 1]
  <2>0. opening[p].file \in File BY <1>15 DEF Rename, FileNamed
  <2>1. opening[p].file + 1 \in 1..(Files + 1) /\ 1 \in 1..Attempts
    BY <2>0, StartupAssumption DEF File
  <2>2. o \in OpeningRecord
    <3>1. "file" \in Stages BY DEF Stages
    <3> QED BY <1>0, <2>1, <3>1 DEF OpeningRecord
  <2>3. opening' = [opening EXCEPT ![p] = o] BY <1>15 DEF Rename
  <2>4. opening' \in [Opener -> OpeningRecord] BY <2>2, <2>3, OpeningUpdate
  <2>5. /\ onDisk' \in [File -> {"absent", "short", "whole", "other"}]
        /\ staged' \in [File -> {"absent", "partial", "whole", "other"}]
    BY <1>15, <2>0 DEF Rename
  <2> QED BY <1>15, <2>4, <2>5 DEF Rename, OpeningRecord
<1>16. ASSUME NEW p \in Opener, Connect(p) PROVE StartupTypeOK'
  <2>1. PICK reached \in BOOLEAN :
          opening' = [opening EXCEPT ![p].at = "packer", ![p].online = reached]
    BY <1>16 DEF Connect
  <2> DEFINE o == [opening[p] EXCEPT !.at = "packer", !.online = reached]
  <2>2. "packer" \in Stages BY DEF Stages
  <2>3. o \in OpeningRecord BY <1>0, <2>2 DEF OpeningRecord
  <2>4. opening' = [opening EXCEPT ![p] = o] BY <2>1
  <2>5. opening' \in [Opener -> OpeningRecord] BY <2>3, <2>4, OpeningUpdate
  <2> QED BY <1>16, <1>s, <2>5 DEF Connect
<1>17. ASSUME NEW p \in Opener, Ends(p) PROVE StartupTypeOK'
  <2>1. opening' \in [Opener -> OpeningRecord] BY <1>0, <1>17, OpeningUpdate DEF Ends
  <2> QED BY <1>17, <2>1 DEF Ends, OpeningRecord
<1> QED
  BY <1>1, <1>2, <1>4, <1>5, <1>6, <1>7, <1>8, <1>9, <1>10, <1>11, <1>12, <1>13, <1>14,
     <1>15, <1>16, <1>17, <1>18
  DEF StartNext

-----------------------------------------------------------------------------
(* The fetch of the model.                                                 *)

Fetching(p) == Stage(p) \in {"file", "transfer", "rename"}

Loading(p) == Stage(p) \in {"load", "connect", "packer", "open"}
Before(p) == Stage(p) \in {"schema", "migrate", "phrase", "put check", "model", "wait"}

(***************************************************************************)
(* What a process that opens the vault relies on: whoever fetches holds    *)
(* the lock; a request for it that came too late is one of a process that  *)
(* has given up; a fetch begins at the first file, leaves whole files      *)
(* behind it, and gives a file its name once what is staged for it is      *)
(* whole.                                                                  *)
(***************************************************************************)
OpenerInv(p) ==
  /\ Stage(p) \in {"transfer", "rename"} => opening[p].file \in File
  /\ Fetching(p) => fetchLock = p
  /\ p \in late => Stage(p) = "unopened"
  /\ Before(p) => opening[p].file = 1
  /\ Fetching(p) => \A f \in File : f < opening[p].file => onDisk[f] = "whole"
  /\ Stage(p) = "rename" => staged[opening[p].file] = "whole"
  /\ Loading(p) => \A f \in File : onDisk[f] = "whole"

(* Nothing but the pinned bytes is ever under a name that counts. *)
NothingElse == \A f \in File : onDisk[f] # "other" /\ staged[f] # "other"

FetchInv == (\A p \in Opener : OpenerInv(p)) /\ NothingElse /\ LockIsWorked

(* A step of p that leaves the others what they rely on. *)
LEMMA OneSteps ==
  ASSUME StartupTypeOK, FetchInv, NEW p \in Opener,
         \A q \in Opener \ {p} : opening'[q] = opening[q] /\ (q \in late' <=> q \in late),
         \/ fetchLock' = fetchLock
         \/ fetchLock = p /\ fetchLock' = Nobody
         \/ fetchLock = Nobody /\ fetchLock' = p,
         ~Fetching(p) => staged' = staged,
         \A f \in File : onDisk[f] = "whole" => onDisk'[f] = "whole",
         OpenerInv(p)', NothingElse',
         fetchLock' = p => Fetching(p)' \/ p \in late'
  PROVE  FetchInv'
<1>0. Nobody \notin Opener /\ fetchLock \in Opener \cup {Nobody}
  BY StartupAssumption DEF StartupTypeOK
<1>1. ASSUME NEW q \in Opener \ {p} PROVE OpenerInv(q)'
  <2>1. OpenerInv(q) /\ OpenerInv(p) BY DEF FetchInv
  <2>2. Fetching(q) => ~Fetching(p) /\ fetchLock' = q
    BY <1>0, <2>1 DEF OpenerInv
  <2> QED BY <2>1, <2>2 DEF OpenerInv, Fetching, Loading, Before
<1>2. LockIsWorked'
  <2>1. CASE fetchLock' = p BY <2>1 DEF LockIsWorked, Fetching
  <2>2. CASE fetchLock' # p /\ fetchLock' # Nobody
    BY <1>0, <2>2 DEF FetchInv, LockIsWorked
  <2> QED BY <2>1, <2>2 DEF LockIsWorked
<1> QED BY <1>1, <1>2 DEF FetchInv

(* A process that fetches nothing moves on, and the model stays as it is. *)
LEMMA MovesOn ==
  ASSUME StartupTypeOK, FetchInv, NEW p \in Opener, NEW o \in OpeningRecord,
         UNCHANGED model, opening' = [opening EXCEPT ![p] = o],
         ~Fetching(p), p \notin late, o.file = opening[p].file,
         o.at \notin {"file", "transfer", "rename"},
         o.at \in {"schema", "migrate", "phrase", "put check", "model", "wait"} => o.file = 1,
         o.at \in {"load", "connect", "packer", "open"} => \A f \in File : onDisk[f] = "whole"
  PROVE  FetchInv'
<1>1. opening'[p] = o /\ \A q \in Opener \ {p} : opening'[q] = opening[q]
  BY DEF StartupTypeOK
<1>2. OpenerInv(p)' BY <1>1 DEF OpenerInv, Fetching, Loading, Before
<1>3. NothingElse' BY DEF FetchInv, NothingElse
<1>4. fetchLock' # p BY StartupAssumption DEF FetchInv, LockIsWorked, Fetching
<1> QED BY <1>1, <1>2, <1>3, <1>4, OneSteps

(* An open fails, and what it held of the lock goes. *)
LEMMA UnopenedStep ==
  ASSUME StartupTypeOK, FetchInv, NEW p \in Opener, Unopened(p), UNCHANGED <<onDisk, late>>,
         NothingElse', ~Fetching(p) => staged' = staged
  PROVE  FetchInv'
<1>1. /\ opening'[p].at = "unopened"
      /\ \A q \in Opener \ {p} : opening'[q] = opening[q]
  BY DEF Unopened, StartupTypeOK
<1>2. OpenerInv(p)' BY <1>1 DEF OpenerInv, Fetching, Loading, Before
<1> QED BY <1>1, <1>2, OneSteps, StartupAssumption DEF Unopened

(* Every step of an open keeps the fetch sound. *)
LEMMA FetchStep ==
  ASSUME StartupTypeOK, FetchInv, [StartNext]_startVars PROVE FetchInv'
<1>0. /\ opening \in [Opener -> OpeningRecord] /\ Nobody \notin Opener
      /\ \A p \in Opener : opening[p] \in OpeningRecord /\ OpenerInv(p)
      /\ late \subseteq Opener
      /\ onDisk \in [File -> {"absent", "short", "whole", "other"}]
      /\ staged \in [File -> {"absent", "partial", "whole", "other"}]
      /\ NothingElse /\ LockIsWorked
  BY StartupAssumption DEF StartupTypeOK, OpeningRecord, FetchInv
<1>1. CASE UNCHANGED startVars
  BY <1>1 DEF startVars, FetchInv, OpenerInv, NothingElse, LockIsWorked, Fetching,
     Loading, Before
<1>2. ASSUME NEW p \in Opener, Begins(p) PROVE FetchInv'
  <2>1. PICK typed \in Phrases : opening' =
          [opening EXCEPT ![p] = [Closed EXCEPT !.at = "schema", !.phrase = typed]]
    BY <1>2 DEF Begins
  <2>2. opening'[p].at = "schema" /\ opening'[p].file = 1
    BY <1>0, <2>1 DEF Closed
  <2>3. p \notin late /\ ~Fetching(p) BY <1>0, <1>2 DEF Begins, OpenerInv, Fetching
  <2>4. OpenerInv(p)' BY <1>2, <2>2, <2>3 DEF Begins, OpenerInv, Fetching, Loading, Before
  <2>5. fetchLock # p BY <1>0, <2>3 DEF LockIsWorked, Fetching
  <2> QED BY <1>0, <1>2, <2>1, <2>4, <2>5, OneSteps DEF Begins, NothingElse
<1>3. ASSUME NEW p \in Opener, ~Fetching(p), p \notin late, NEW stage \in Stages,
             Moves(p, stage), UNCHANGED model,
             stage \notin {"file", "transfer", "rename"},
             stage \in {"schema", "migrate", "phrase", "put check", "model", "wait"} =>
               Before(p),
             stage \in {"load", "connect", "packer", "open"} => Loading(p) \/ Present
      PROVE  FetchInv'
  <2> DEFINE o == [opening[p] EXCEPT !.at = stage]
  <2>1. o \in OpeningRecord /\ o.at = stage /\ o.file = opening[p].file
    BY <1>0 DEF OpeningRecord
  <2>2. opening' = [opening EXCEPT ![p] = o] BY <1>3
  <2>3. Before(p) => o.file = 1 BY <1>0, <2>1 DEF OpenerInv
  <2>4. Loading(p) \/ Present => \A f \in File : onDisk[f] = "whole"
    BY <1>0 DEF OpenerInv, Present, Holds, NothingElse
  <2> HIDE DEF o
  <2> QED BY <1>3, <2>1, <2>2, <2>3, <2>4, MovesOn
<1>4. \A p \in Opener : Stage(p) # "unopened" => p \notin late BY <1>0 DEF OpenerInv
<1>5. ASSUME NEW p \in Opener, ReadVersion(p) PROVE FetchInv'
  <2>1. CASE version > KnownSchema[p]
    BY <1>0, <1>5, <2>1, UnopenedStep DEF ReadVersion, NothingElse
  <2>2. CASE ~(version > KnownSchema[p])
    <3> DEFINE o == [opening[p] EXCEPT !.at = "migrate", !.step = version + 1]
    <3>1. version + 1 \in Nat BY DEF StartupTypeOK
    <3>2. "migrate" \in Stages BY DEF Stages
    <3>3. o \in OpeningRecord /\ o.at = "migrate" /\ o.file = opening[p].file
      BY <1>0, <3>1, <3>2 DEF OpeningRecord
    <3>4. opening' = [opening EXCEPT ![p] = o] /\ UNCHANGED model /\ Stage(p) = "schema"
      BY <1>5, <2>2 DEF ReadVersion
    <3>5. opening[p].file = 1 BY <1>0, <3>4 DEF OpenerInv, Before
    <3> HIDE DEF o
    <3> QED BY <1>4, <3>3, <3>4, <3>5, MovesOn DEF Fetching
  <2> QED BY <2>1, <2>2
<1>6. ASSUME NEW p \in Opener, ApplyUp(p) PROVE FetchInv'
  <2> DEFINE o == [opening[p] EXCEPT !.step = opening[p].step + 1]
  <2>1. /\ o \in OpeningRecord /\ o.at = opening[p].at /\ o.file = opening[p].file
    BY <1>0 DEF OpeningRecord
  <2>2. opening' = [opening EXCEPT ![p] = o] /\ UNCHANGED model /\ Stage(p) = "migrate"
    BY <1>6 DEF ApplyUp
  <2>3. opening[p].file = 1 BY <1>0, <2>2 DEF OpenerInv, Before
  <2> HIDE DEF o
  <2> QED BY <1>4, <2>1, <2>2, <2>3, MovesOn DEF Fetching
<1>7. ASSUME NEW p \in Opener, \/ Migrated(p) \/ FetchModel(p) \/ OpenIndex(p)
                               \/ OpenPacker(p)
      PROVE  FetchInv'
  BY <1>3, <1>4, <1>7
  DEF Migrated, FetchModel, OpenIndex, OpenPacker, Stages, Fetching, Loading, Before
<1>8. ASSUME NEW p \in Opener, ReadCheck(p) PROVE FetchInv'
  <2>1. CASE phraseCheck \in {NoPhrase, opening[p].phrase}
    <3>1. PICK stage \in {"put check", "model"} : Moves(p, stage)
      BY <1>8, <2>1 DEF ReadCheck
    <3> QED BY <1>3, <1>4, <1>8, <2>1, <3>1 DEF ReadCheck, Stages, Fetching, Before
  <2>2. CASE phraseCheck \notin {NoPhrase, opening[p].phrase}
    BY <1>0, <1>8, <2>2, UnopenedStep DEF ReadCheck, NothingElse
  <2> QED BY <2>1, <2>2
<1>9. ASSUME NEW p \in Opener, PutCheck(p) PROVE FetchInv'
  BY <1>3, <1>4, <1>9 DEF PutCheck, Stages, Fetching, Before
<1>10. ASSUME NEW p \in Opener, Alone(p) PROVE FetchInv'
  <2>1. /\ opening'[p].at = "file" /\ opening'[p].file = opening[p].file
        /\ \A q \in Opener \ {p} : opening'[q] = opening[q]
    BY <1>0, <1>10 DEF Alone, OpeningRecord
  <2>2. opening[p].file = 1 /\ p \notin late
    BY <1>0, <1>10 DEF Alone, OpenerInv, Before
  <2>3. OpenerInv(p)'
    <3>1. \A f \in File : ~(f < 1) BY DEF File
    <3> QED BY <1>10, <2>1, <2>2, <3>1 DEF Alone, OpenerInv, Fetching, Loading, Before
  <2> QED BY <1>0, <1>10, <2>1, <2>3, OneSteps DEF Alone, NothingElse, Fetching
<1>11. ASSUME NEW p \in Opener, GiveUp(p) PROVE FetchInv'
  <2>1. /\ opening'[p].at = "unopened"
        /\ \A q \in Opener \ {p} : opening'[q] = opening[q] /\ (q \in late' <=> q \in late)
    BY <1>0, <1>11 DEF GiveUp, OpeningRecord
  <2>2. OpenerInv(p)' BY <2>1 DEF OpenerInv, Fetching, Loading, Before
  <2> QED BY <1>0, <1>11, <2>1, <2>2, OneSteps DEF GiveUp, NothingElse
<1>12. ASSUME NEW p \in Opener, GrantedLate(p) \/ GivenBack(p) PROVE FetchInv'
  <2>1. Stage(p) = "unopened" /\ Stage(p)' = "unopened"
    BY <1>0, <1>12 DEF GrantedLate, GivenBack, OpenerInv
  <2>2. OpenerInv(p)' BY <2>1 DEF OpenerInv, Fetching, Loading, Before
  <2> QED BY <1>0, <1>12, <2>2, OneSteps DEF GrantedLate, GivenBack, NothingElse
<1>13. ASSUME NEW p \in Opener, NextFile(p) PROVE FetchInv'
  <2> DEFINE f == opening[p].file
  <2>0. /\ f \in 1..(Files + 1) /\ Fetching(p) /\ p \notin late /\ fetchLock = p
        /\ \A g \in File : g < f => onDisk[g] = "whole"
    BY <1>0, <1>13 DEF NextFile, Fetching, OpenerInv, OpeningRecord
  <2>1. CASE f > Files
    <3>1. /\ opening'[p].at = "load"
          /\ \A q \in Opener \ {p} : opening'[q] = opening[q]
      BY <1>0, <1>13, <2>1 DEF NextFile, OpeningRecord
    <3>2. \A g \in File : onDisk[g] = "whole"
      BY <2>0, <2>1, StartupAssumption DEF File
    <3>3. OpenerInv(p)'
      BY <1>13, <2>0, <3>1, <3>2 DEF NextFile, OpenerInv, Fetching, Loading, Before
    <3> QED BY <1>0, <1>13, <2>0, <2>1, <3>1, <3>3, OneSteps DEF NextFile, NothingElse
  <2>2. CASE ~(f > Files)
    <3>1. /\ opening'[p].at = "file" /\ opening'[p].file = f + 1
          /\ \A q \in Opener \ {p} : opening'[q] = opening[q]
      BY <1>0, <1>13, <2>2 DEF NextFile, OpeningRecord
    <3>2. f \in File BY <2>0, <2>2, StartupAssumption DEF File
    <3>3. onDisk[f] = "whole" BY <1>0, <1>13, <2>2, <3>2 DEF NextFile, Holds, NothingElse
    <3>4. \A g \in File : g < f + 1 => onDisk[g] = "whole"
      BY <2>0, <3>2, <3>3 DEF File
    <3>5. UNCHANGED model BY <1>13, <2>2 DEF NextFile
    <3>6. OpenerInv(p)'
      BY <2>0, <3>1, <3>4, <3>5 DEF OpenerInv, Fetching, Loading, Before
    <3> QED BY <1>0, <2>0, <3>1, <3>5, <3>6, OneSteps DEF NothingElse, Fetching
  <2> QED BY <2>1, <2>2
<1>14. ASSUME NEW p \in Opener, Download(p) PROVE FetchInv'
  <2> DEFINE f == opening[p].file
  <2>0. /\ f \in 1..(Files + 1) /\ Fetching(p) /\ p \notin late /\ fetchLock = p
        /\ \A g \in File : g < f => onDisk[g] = "whole"
    BY <1>0, <1>14 DEF Download, Fetching, OpenerInv, OpeningRecord
  <2>1. f \in File BY <1>14, <2>0, StartupAssumption DEF Download, File
  <2>2. /\ opening'[p].at = "transfer" /\ opening'[p].file = f
        /\ \A q \in Opener \ {p} : opening'[q] = opening[q]
    BY <1>0, <1>14 DEF Download, OpeningRecord
  <2>3. OpenerInv(p)'
    BY <1>14, <2>0, <2>1, <2>2 DEF Download, OpenerInv, Fetching, Loading, Before
  <2>4. NothingElse' BY <1>0, <1>14, <2>1 DEF Download, NothingElse
  <2> QED BY <1>0, <1>14, <2>0, <2>2, <2>3, <2>4, OneSteps DEF Download, Fetching
<1>15. ASSUME NEW p \in Opener, Received(p) PROVE FetchInv'
  <2> DEFINE f == opening[p].file
  <2>0. /\ f \in File /\ Fetching(p) /\ p \notin late /\ fetchLock = p
        /\ \A g \in File : g < f => onDisk[g] = "whole"
    BY <1>0, <1>15 DEF Received, Fetching, OpenerInv, OpeningRecord
  <2>1. /\ opening'[p].at = "rename" /\ opening'[p].file = f
        /\ \A q \in Opener \ {p} : opening'[q] = opening[q]
    BY <1>0, <1>15 DEF Received, OpeningRecord
  <2>2. staged'[f] = "whole" BY <1>0, <1>15, <2>0 DEF Received
  <2>3. OpenerInv(p)'
    BY <1>15, <2>0, <2>1, <2>2 DEF Received, OpenerInv, Fetching, Loading, Before
  <2>4. NothingElse' BY <1>0, <1>15, <2>0 DEF Received, NothingElse
  <2> QED BY <1>0, <1>15, <2>0, <2>1, <2>3, <2>4, OneSteps DEF Received, Fetching
<1>16. ASSUME NEW p \in Opener, BrokenTransfer(p) PROVE FetchInv'
  <2>0. /\ Fetching(p) /\ p \notin late /\ fetchLock = p
        /\ \A g \in File : g < opening[p].file => onDisk[g] = "whole"
    BY <1>0, <1>16 DEF BrokenTransfer, AskingHub, Fetching, OpenerInv
  <2>1. /\ opening'[p].at = "file" /\ opening'[p].file = opening[p].file
        /\ \A q \in Opener \ {p} : opening'[q] = opening[q]
    BY <1>0, <1>16 DEF BrokenTransfer, OpeningRecord
  <2>2. UNCHANGED model BY <1>16 DEF BrokenTransfer
  <2>3. OpenerInv(p)' BY <2>0, <2>1, <2>2 DEF OpenerInv, Fetching, Loading, Before
  <2> QED BY <1>0, <2>0, <2>1, <2>2, <2>3, OneSteps DEF NothingElse, Fetching
<1>17. ASSUME NEW p \in Opener, HubFails(p) PROVE FetchInv'
  <2>1. Fetching(p) BY <1>17 DEF HubFails, AskingHub, Fetching
  <2>2. NothingElse' BY <1>0, <1>17 DEF HubFails, NothingElse
  <2> QED BY <1>17, <2>1, <2>2, UnopenedStep DEF HubFails
<1>18. ASSUME NEW p \in Opener, Rename(p) PROVE FetchInv'
  <2> DEFINE f == opening[p].file
  <2>0. /\ f \in File /\ Fetching(p) /\ p \notin late /\ fetchLock = p
        /\ \A g \in File : g < f => onDisk[g] = "whole"
        /\ staged[f] = "whole"
    BY <1>0, <1>18 DEF Rename, Fetching, OpenerInv, OpeningRecord
  <2>1. /\ opening'[p].at = "file" /\ opening'[p].file = f + 1
        /\ \A q \in Opener \ {p} : opening'[q] = opening[q]
    BY <1>0, <1>18 DEF Rename, OpeningRecord
  <2>2. /\ onDisk' = [onDisk EXCEPT ![f] = "whole"]
        /\ staged' = [staged EXCEPT ![f] = "absent"]
        /\ UNCHANGED <<fetchLock, late>>
    BY <1>18, <2>0 DEF Rename
  <2>3. \A g \in File : g < f + 1 => onDisk'[g] = "whole"
    <3>1. \A g \in File : g < f + 1 => g < f \/ g = f BY <2>0 DEF File
    <3> QED BY <1>0, <2>0, <2>2, <3>1
  <2>4. OpenerInv(p)'
    BY <2>0, <2>1, <2>2, <2>3 DEF OpenerInv, Fetching, Loading, Before
  <2>5. NothingElse' BY <1>0, <2>0, <2>2 DEF NothingElse
  <2>6. \A g \in File : onDisk[g] = "whole" => onDisk'[g] = "whole" BY <1>0, <2>0, <2>2
  <2> QED BY <2>0, <2>1, <2>2, <2>4, <2>5, <2>6, OneSteps DEF Fetching
<1>19. ASSUME NEW p \in Opener, Connect(p) PROVE FetchInv'
  <2>1. PICK reached \in BOOLEAN :
          opening' = [opening EXCEPT ![p].at = "packer", ![p].online = reached]
    BY <1>19 DEF Connect
  <2> DEFINE o == [opening[p] EXCEPT !.at = "packer", !.online = reached]
  <2>2. "packer" \in Stages BY DEF Stages
  <2>3. o \in OpeningRecord /\ o.at = "packer" /\ o.file = opening[p].file
    BY <1>0, <2>2 DEF OpeningRecord
  <2>4. opening' = [opening EXCEPT ![p] = o] BY <2>1
  <2>5. UNCHANGED model /\ Stage(p) = "connect" BY <1>19 DEF Connect
  <2>6. \A f \in File : onDisk[f] = "whole" BY <1>0, <2>5 DEF OpenerInv, Loading
  <2> HIDE DEF o
  <2> QED BY <1>4, <2>3, <2>4, <2>5, <2>6, MovesOn DEF Fetching
<1>20. ASSUME NEW p \in Opener, OpenFails(p) PROVE FetchInv'
  BY <1>0, <1>20, UnopenedStep DEF OpenFails, NothingElse
<1>21. ASSUME NEW p \in Opener, Ends(p) PROVE FetchInv'
  <2>1. /\ opening'[p].at = "down" /\ p \notin late'
        /\ \A q \in Opener \ {p} : opening'[q] = opening[q] /\ (q \in late' <=> q \in late)
    BY <1>0, <1>21 DEF Ends, Closed
  <2>2. OpenerInv(p)' BY <2>1 DEF OpenerInv, Fetching, Loading, Before
  <2> QED BY <1>0, <1>21, <2>1, <2>2, OneSteps DEF Ends, NothingElse
<1> QED
  BY <1>1, <1>2, <1>5, <1>6, <1>7, <1>8, <1>9, <1>10, <1>11, <1>12, <1>13, <1>14, <1>15,
     <1>16, <1>17, <1>18, <1>19, <1>20, <1>21
  DEF StartNext

(* Init gives every variable a value of its type. *)
LEMMA StartTypeInit == StartInit => StartupTypeOK
<1> SUFFICES ASSUME StartInit PROVE StartupTypeOK OBVIOUS
<1>1. opening \in [Opener -> OpeningRecord] BY ClosedIsTyped DEF StartInit
<1>2. version \in Nat /\ applied \in [Schema -> Nat] BY SchemaIsNat DEF StartInit
<1>3. started \in 0..MaxStart BY StartupAssumption DEF StartInit
<1> QED BY <1>1, <1>2, <1>3 DEF StartInit, StartupTypeOK, OpeningRecord

(* Types and the fetch's invariant hold of every open. *)
LEMMA FetchInvariant == StartSpec => [](StartupTypeOK /\ FetchInv)
<1>1. StartInit => StartupTypeOK /\ FetchInv
  <2>1. StartInit => \A p \in Opener : Stage(p) = "down" /\ p \notin late
    <3>1. StartInit => opening = [p \in Opener |-> Closed] /\ late = {} BY DEF StartInit
    <3>2. Closed.at = "down" BY DEF Closed
    <3> QED BY <3>1, <3>2
  <2>2. StartInit => NothingElse /\ LockIsWorked
    <3> SUFFICES ASSUME StartInit PROVE NothingElse /\ LockIsWorked OBVIOUS
    <3>1. LockIsWorked BY DEF StartInit, LockIsWorked
    <3>2. onDisk \in [File -> {"absent", "short", "whole"}] BY DEF StartInit
    <3>3. staged = [f \in File |-> "absent"] BY DEF StartInit
    <3> QED BY <3>1, <3>2, <3>3 DEF NothingElse
  <2>3. StartInit => FetchInv
    BY <2>1, <2>2 DEF FetchInv, OpenerInv, Fetching, Loading, Before
  <2> QED BY <2>3, StartTypeInit
<1>2. StartupTypeOK /\ FetchInv /\ [StartNext]_startVars => (StartupTypeOK /\ FetchInv)'
  <2>1. FetchInv => FileNamed BY DEF FetchInv, OpenerInv, FileNamed
  <2> QED BY <2>1, StartTypeStep, FetchStep
<1> QED BY <1>1, <1>2, PTL DEF StartSpec

(***************************************************************************)
(* Whichever builds open a vault together, and wherever an open fails or   *)
(* its process dies, no attempt goes past the last, no file is asked for   *)
(* past the end of the model's list (embed/fetch.go), and nobody but a     *)
(* process that opens a vault has the fetch lock.                          *)
(***************************************************************************)
THEOREM StartupTypeCorrect == StartSpec => []StartupTypeOK
  BY FetchInvariant, PTL

(***************************************************************************)
(* However many processes open a vault at once, give up or die: none loads *)
(* the model before every file of it is whole, and the fetch lock is never *)
(* left with a process that has stopped fetching.  The lock makes the      *)
(* fetcher unique, so what it staged is still whole when it renames it,    *)
(* and a file that is whole is never replaced by anything else.            *)
(***************************************************************************)
THEOREM FetchIsAlwaysSound == StartSpec => []FetchIsSound
<1>1. FetchInv => FetchIsSound
  BY DEF FetchInv, FetchIsSound, OpenerInv, Loading, LoadsWholeModel
<1> QED BY <1>1, FetchInvariant, PTL

-----------------------------------------------------------------------------
(* The schema.                                                             *)

(* A process is never more than one step ahead of the database, since the    *)
(* version only grows: a step that is still owed is the next one.            *)
NextStep == \A p \in Opener : Stage(p) = "migrate" => opening[p].step <= version + 1

SchemaInv == NextStep /\ SchemaIsItsVersion

(* A step of an open keeps the schema and its number together. *)
LEMMA SchemaStep ==
  ASSUME StartupTypeOK, SchemaInv, [StartNext]_startVars PROVE SchemaInv'
<1> USE DEF SchemaInv
<1>0. /\ opening \in [Opener -> OpeningRecord] /\ version \in Nat
      /\ applied \in [Schema -> Nat]
      /\ \A p \in Opener : opening[p] \in OpeningRecord /\ opening[p].step \in Nat
  BY DEF StartupTypeOK, OpeningRecord
<1>1. ASSUME NEW p \in Opener, ApplyUp(p) PROVE SchemaInv'
  <2> DEFINE step == opening[p].step
  <2>1. step \in Nat /\ step <= version + 1 /\ step <= KnownSchema[p]
    BY <1>0, <1>1 DEF ApplyUp, NextStep
  <2>2. /\ opening'[p].step = step + 1 /\ opening'[p].at = "migrate"
        /\ \A q \in Opener \ {p} : opening'[q] = opening[q]
    BY <1>0, <1>1 DEF ApplyUp, OpeningRecord
  <2>3. CASE StillOwed(step)
    <3>1. step = version + 1 BY <1>0, <2>1, <2>3 DEF StillOwed
    <3>2. step \in Schema
      BY <1>0, <2>1, <3>1, StartupAssumption DEF Schema
    <3>3. version' = step /\ applied' = [applied EXCEPT ![step] = @ + 1]
      BY <1>1, <2>3 DEF ApplyUp
    <3>4. applied[step] = 0
      BY <1>0, <3>1, <3>2 DEF SchemaIsItsVersion
    <3>5. \A s \in Schema : applied'[s] = IF s <= version' THEN 1 ELSE 0
      <4> SUFFICES ASSUME NEW s \in Schema
                   PROVE  applied'[s] = IF s <= step THEN 1 ELSE 0
        BY <3>3
      <4>1. s \in Nat BY SchemaIsNat
      <4>2. CASE s = step BY <1>0, <3>3, <3>4, <4>1, <4>2
      <4>3. CASE s # step
        <5>1. applied'[s] = applied[s] BY <1>0, <3>3, <4>3
        <5>2. s <= step <=> s <= version BY <1>0, <3>1, <4>1, <4>3
        <5> QED BY <5>1, <5>2 DEF SchemaIsItsVersion
      <4> QED BY <4>2, <4>3
    <3>6. columns' = "new"
      <4>1. columns' = ColumnsAfter(step) BY <1>1, <2>3 DEF ApplyUp
      <4>2. step # 1 => version >= 1 BY <1>0, <3>1
      <4> QED BY <4>1, <4>2 DEF ColumnsAfter, SchemaIsItsVersion
    <3>7. NextStep'
      BY <1>0, <2>1, <2>2, <3>1, <3>3 DEF NextStep
    <3> QED BY <3>5, <3>6, <3>7 DEF SchemaIsItsVersion
  <2>4. CASE ~StillOwed(step)
    <3>1. UNCHANGED database BY <1>1, <2>4 DEF ApplyUp
    <3>2. step <= version BY <1>0, <2>1, <2>4 DEF StillOwed
    <3>3. NextStep' BY <1>0, <2>1, <2>2, <3>1, <3>2 DEF NextStep
    <3> QED BY <3>1, <3>3 DEF SchemaIsItsVersion
  <2> QED BY <2>3, <2>4
(* Any other step leaves the database's tables and goes to no later step. *)
<1>2. ASSUME UNCHANGED <<version, applied, columns>>,
             \A p \in Opener : opening'[p].at = "migrate" =>
               \/ opening[p].at = "migrate" /\ opening'[p].step = opening[p].step
               \/ opening'[p].step = version + 1
      PROVE  SchemaInv'
  <2>1. NextStep' BY <1>0, <1>2 DEF NextStep
  <2>2. SchemaIsItsVersion' BY <1>2 DEF SchemaIsItsVersion
  <2> QED BY <2>1, <2>2
<1>3. CASE UNCHANGED startVars BY <1>2, <1>3 DEF startVars
<1>4. ASSUME NEW p \in Opener, ReadVersion(p) PROVE SchemaInv'
  BY <1>0, <1>2, <1>4 DEF ReadVersion, Unopened, OpeningRecord
(* A process that goes anywhere else, and the others where they were. *)
<1>5. ASSUME NEW p \in Opener, UNCHANGED <<version, applied, columns>>, NEW o,
             opening' = [opening EXCEPT ![p] = o], o.at # "migrate"
      PROVE  SchemaInv'
  BY <1>0, <1>2, <1>5
<1>6. ASSUME NEW p \in Opener, UNCHANGED <<version, applied, columns>>, NEW stage,
             Moves(p, stage), stage # "migrate"
      PROVE  SchemaInv'
  <2>1. [opening[p] EXCEPT !.at = stage].at = stage BY <1>0 DEF OpeningRecord
  <2> QED BY <1>5, <1>6, <2>1
<1>9. ASSUME NEW p \in Opener, \/ Migrated(p) \/ ReadCheck(p) \/ PutCheck(p)
                               \/ FetchModel(p) \/ Alone(p) \/ GiveUp(p)
      PROVE  SchemaInv'
  BY <1>6, <1>9 DEF Migrated, ReadCheck, PutCheck, FetchModel, Alone, GiveUp, Unopened
<1>10. ASSUME NEW p \in Opener, \/ Download(p) \/ Received(p) \/ HubFails(p)
                                \/ OpenIndex(p) \/ OpenPacker(p) \/ OpenFails(p)
      PROVE  SchemaInv'
  BY <1>6, <1>10 DEF Download, Received, HubFails, OpenIndex, OpenPacker, OpenFails, Unopened
<1>11. ASSUME NEW p \in Opener, Begins(p) \/ Ends(p) PROVE SchemaInv'
  <2>1. /\ Closed.at = "down"
        /\ \A typed : [Closed EXCEPT !.at = "schema", !.phrase = typed].at = "schema"
    BY DEF Closed
  <2> QED BY <1>5, <1>11, <2>1 DEF Begins, Ends
<1>12. ASSUME NEW p \in Opener, BrokenTransfer(p) \/ Rename(p) \/ Connect(p)
       PROVE  SchemaInv'
  <2>1. /\ UNCHANGED <<version, applied, columns>> /\ opening'[p].at # "migrate"
        /\ \A q \in Opener \ {p} : opening'[q] = opening[q]
    <3>1. CASE BrokenTransfer(p) BY <1>0, <3>1 DEF BrokenTransfer, OpeningRecord
    <3>2. CASE Rename(p) BY <1>0, <3>2 DEF Rename, OpeningRecord
    <3>3. CASE Connect(p) BY <1>0, <3>3 DEF Connect, OpeningRecord
    <3> QED BY <1>12, <3>1, <3>2, <3>3
  <2> QED BY <1>2, <2>1
<1>7. ASSUME NEW p \in Opener, NextFile(p) PROVE SchemaInv'
  <2>1. /\ UNCHANGED <<version, applied, columns>> /\ opening'[p].at # "migrate"
        /\ \A q \in Opener \ {p} : opening'[q] = opening[q]
    BY <1>0, <1>7 DEF NextFile, OpeningRecord
  <2> QED BY <1>2, <2>1
<1>8. ASSUME NEW p \in Opener, GrantedLate(p) \/ GivenBack(p) PROVE SchemaInv'
  BY <1>2, <1>8 DEF GrantedLate, GivenBack
<1> QED BY <1>1, <1>3, <1>4, <1>7, <1>8, <1>9, <1>10, <1>11, <1>12 DEF StartNext

(***************************************************************************)
(* Whichever builds migrate a database together, and wherever one of them  *)
(* dies: the version names exactly the steps that ran, each of them once.  *)
(* The version a process read before its turn may be stale by then; the    *)
(* second look under the write lock makes a step it still owes the next    *)
(* one.                                                                    *)
(***************************************************************************)
THEOREM SchemaIsAlwaysItsVersion == StartSpec => []SchemaIsItsVersion
<1>1. StartInit => SchemaInv
  BY SchemaIsNat DEF StartInit, SchemaInv, NextStep, SchemaIsItsVersion, Closed
<1>2. StartupTypeOK /\ SchemaInv /\ [StartNext]_startVars => SchemaInv'
  BY SchemaStep
<1>3. SchemaInv => SchemaIsItsVersion BY DEF SchemaInv
<1> QED BY <1>1, <1>2, <1>3, FetchInvariant, PTL DEF StartSpec
=============================================================================
