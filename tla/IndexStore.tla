----------------------------- MODULE IndexStore -----------------------------
(***************************************************************************)
(* The persisted vector index (index/persist.go, index/tail.go) and the    *)
(* searchable copy each process loads from it (vault/vectors.go).          *)
(*                                                                         *)
(* A base holds one vector per record; the delta holds every vector and    *)
(* removal since.  Every operation on the two files runs under one file    *)
(* lock, which ManifestLog models step by step, so here an operation is    *)
(* one step, and a step of its own for each way it can be cut short.       *)
(*                                                                         *)
(* A record's line in the delta is framed by its length, so what matters   *)
(* of a delta is the last whole line of each record, how long the whole    *)
(* lines are together, and how much of an unfinished line follows them.    *)
(***************************************************************************)
EXTENDS Integers

CONSTANTS
  Process,      (* the processes that may have the index open            *)
  Subject,      (* record ids                                            *)
  VectorSize,   (* how long a line that carries a vector is              *)
  RemovalSize,  (* how long a line that removes one is                   *)
  MaxStamp,     (* bound: how many lines are ever written                *)
  MaxFailure    (* bound: how many operations fail or processes die      *)

ASSUME SizeAssumption == VectorSize \in Nat \ {0} /\ RemovalSize \in Nat \ {0}
ASSUME IndexBounds == MaxStamp \in Nat /\ MaxFailure \in Nat

VARIABLES
  base,     (* index.base: the number of each record's vector, or None      *)
  delta,    (* index.delta: the last whole line of each record              *)
  whole,    (* how long its whole lines are                                 *)
  torn,     (* how much of an unfinished line follows them                  *)
  open,     (* processes that have the index open                           *)
  tail,     (* Store.tail: the size each process last left the delta at     *)
  loaded,   (* its searchable index                                         *)
  written,  (* history: the last line of each record written whole          *)
  stamp,    (* history: how many lines have been written whole              *)
  misled,   (* history: whether settle ever took an unfinished line for whole *)
  failures  (* failures so far                                              *)

indexVars ==
  <<base, delta, whole, torn, open, tail, loaded, written, stamp, misled, failures>>

None    == 0
Unknown == -1

(* A line is numbered when it is written; number 0 is "no line". *)
NoLine == [n |-> 0, removed |-> FALSE]
Line   == [n : 0..MaxStamp, removed : BOOLEAN]

Size(removed) == IF removed THEN RemovalSize ELSE VectorSize

(***************************************************************************)
(* hydrate: the delta replayed over the base, removals left out.           *)
(***************************************************************************)
Vector(r) ==
  IF delta[r] = NoLine THEN base[r]
  ELSE IF delta[r].removed THEN None ELSE delta[r].n
Hydrated == [r \in Subject |-> Vector(r)]

(* Mutant: the delta is cut back to the size p remembers. *)
RememberedEnd(p) == IF tail[p] = Unknown THEN 0 ELSE tail[p] - whole

(* A delta p takes to end where a line ends, for it has the size p left it *)
(* at, while an unfinished line ends it: other processes emptied the delta *)
(* and wrote it anew, up to that size.                                     *)
Coincides(p) == torn # 0 /\ whole + torn = tail[p]
Misled(p)    == misled' = (misled \/ Coincides(p))

(***************************************************************************)
(* What settle leaves of an unfinished line at the end of the delta when p *)
(* calls it: a delta of the size p left it at is not read.                 *)
(***************************************************************************)
Unfinished(p) == IF whole + torn = tail[p] THEN torn ELSE 0

IndexInit ==
  /\ base = [r \in Subject |-> None]
  /\ delta = [r \in Subject |-> NoLine]
  /\ whole = 0 /\ torn = 0
  /\ open = {}
  /\ tail = [p \in Process |-> Unknown]
  /\ loaded = [p \in Process |-> [r \in Subject |-> None]]
  /\ written = [r \in Subject |-> NoLine]
  /\ stamp = 0 /\ misled = FALSE /\ failures = 0

-----------------------------------------------------------------------------

(* OpenStore settles the end of the delta, and the vault loads what it reads. *)
Open(p) ==
  /\ p \notin open
  /\ open' = open \cup {p}
  /\ torn' = Unfinished(p)
  /\ tail' = [tail EXCEPT ![p] = whole + Unfinished(p)]
  /\ loaded' = [loaded EXCEPT ![p] = Hydrated]
  /\ Misled(p)
  /\ UNCHANGED <<base, delta, whole, written, stamp, failures>>

(* The process closes the index, or dies outside any operation of it. *)
Close(p) ==
  /\ p \in open
  /\ open' = open \ {p}
  /\ tail' = [tail EXCEPT ![p] = Unknown]
  /\ loaded' = [loaded EXCEPT ![p] = [r \in Subject |-> None]]
  /\ UNCHANGED <<base, delta, whole, torn, written, stamp, misled, failures>>

(***************************************************************************)
(* Append, from putVector or removeVector: settle, write one line where    *)
(* the delta then ends, sync, and only then change the searchable index.   *)
(* A line written after an unfinished one is read as the rest of it.       *)
(***************************************************************************)
AppendLine(p, r, removed) ==
  LET line == [n |-> stamp + 1, removed |-> removed]
      left == Unfinished(p)
  IN
  /\ p \in open /\ stamp < MaxStamp
  /\ stamp' = stamp + 1
  /\ written' = [written EXCEPT ![r] = line]
  /\ IF left = 0
     THEN /\ delta' = [delta EXCEPT ![r] = line]
          /\ whole' = whole + Size(removed)
          /\ torn' = 0
     ELSE /\ torn' = left + Size(removed)
          /\ UNCHANGED <<delta, whole>>
  /\ tail' = [tail EXCEPT ![p] = whole + left + Size(removed)]
  /\ loaded' = [loaded EXCEPT ![p][r] = IF removed THEN None ELSE stamp + 1]
  /\ Misled(p)
  /\ UNCHANGED <<base, open, failures>>

(* Part of the line is written and the process dies. *)
AppendDies(p, r, removed) ==
  /\ p \in open /\ failures < MaxFailure
  /\ \E part \in 0..(Size(removed) - 1) : torn' = Unfinished(p) + part
  /\ open' = open \ {p}
  /\ tail' = [tail EXCEPT ![p] = Unknown]
  /\ loaded' = [loaded EXCEPT ![p] = [q \in Subject |-> None]]
  /\ failures' = failures + 1
  /\ Misled(p)
  /\ UNCHANGED <<base, delta, whole, written, stamp>>

(* Mutant: the searchable index is changed before the files are. *)
LoadFirst(p, r, removed) ==
  /\ p \in open /\ failures < MaxFailure
  /\ \E part \in 0..(Size(removed) - 1) : torn' = Unfinished(p) + part
  /\ tail' = [tail EXCEPT ![p] = whole + Unfinished(p)]
  /\ loaded' = [loaded EXCEPT ![p][r] = IF removed THEN None ELSE stamp + 1]
  /\ failures' = failures + 1
  /\ Misled(p)
  /\ UNCHANGED <<base, delta, whole, open, written, stamp>>

(* The write fails; the cut that takes its part off works or fails as well. *)
AppendFails(p, r, removed) ==
  /\ p \in open /\ failures < MaxFailure
  /\ \E part \in 0..(Size(removed) - 1) : torn' = Unfinished(p) + part
  /\ tail' = [tail EXCEPT ![p] = whole + Unfinished(p)]
  /\ failures' = failures + 1
  /\ Misled(p)
  /\ UNCHANGED <<base, delta, whole, open, loaded, written, stamp>>

(* Mutant: the new base is written from the searchable index. *)
FoldLoaded(p) ==
  /\ p \in open
  /\ base' = loaded[p]
  /\ delta' = [r \in Subject |-> NoLine]
  /\ whole' = 0 /\ torn' = 0
  /\ tail' = [tail EXCEPT ![p] = 0]
  /\ UNCHANGED <<open, loaded, written, stamp, misled, failures>>

(***************************************************************************)
(* fold: hydrate, install the new base, empty the delta.  Removals are not *)
(* carried into the base.                                                  *)
(***************************************************************************)
Fold(p) ==
  /\ p \in open
  /\ base' = Hydrated
  /\ delta' = [r \in Subject |-> NoLine]
  /\ whole' = 0 /\ torn' = 0
  /\ tail' = [tail EXCEPT ![p] = 0]
  /\ UNCHANGED <<open, loaded, written, stamp, misled, failures>>

(* The delta is not emptied: the process dies first, or the cut fails. *)
FoldStops(p) ==
  /\ p \in open /\ failures < MaxFailure
  /\ base' = Hydrated
  /\ \/ /\ open' = open \ {p}
        /\ tail' = [tail EXCEPT ![p] = Unknown]
        /\ loaded' = [loaded EXCEPT ![p] = [r \in Subject |-> None]]
     \/ UNCHANGED <<open, tail, loaded>>
  /\ failures' = failures + 1
  /\ UNCHANGED <<delta, whole, torn, written, stamp, misled>>

IndexNext ==
  \E p \in Process :
    \/ Open(p) \/ Close(p) \/ Fold(p) \/ FoldStops(p)
    \/ \E r \in Subject, removed \in BOOLEAN :
         AppendLine(p, r, removed) \/ AppendDies(p, r, removed) \/ AppendFails(p, r, removed)

IndexSpec == IndexInit /\ [][IndexNext]_indexVars

-----------------------------------------------------------------------------

(***************************************************************************)
(* Every variable keeps its type.                                          *)
(***************************************************************************)
IndexTypeOK ==
  /\ base \in [Subject -> 0..MaxStamp] /\ delta \in [Subject -> Line]
  /\ whole \in Nat /\ torn \in Nat
  /\ open \subseteq Process
  /\ tail \in [Process -> Nat \cup {Unknown}]
  /\ loaded \in [Process -> [Subject -> 0..MaxStamp]]
  /\ written \in [Subject -> Line]
  /\ misled \in BOOLEAN /\ stamp \in 0..MaxStamp /\ failures \in 0..MaxFailure

(* What the last line of r written whole says. *)
Latest(r) == IF written[r].removed THEN None ELSE written[r].n

(***************************************************************************)
(* "settle makes sure the delta ends where a record ends" (tail.go:24), so *)
(* what Append answered for is read back: replaying the files gives each   *)
(* record the vector last written for it, and none once it was removed,    *)
(* whatever was cut short, folded or reopened since.                       *)
(***************************************************************************)
ReadsBack == \A r \in Subject : Vector(r) = Latest(r)

(***************************************************************************)
(* A vector a process searches is one the files hold, or held until a      *)
(* later line of the same record: no process finds a record that no later  *)
(* process can.                                                            *)
(***************************************************************************)
SearchedIsDurable ==
  \A p \in Process, r \in Subject :
    loaded[p][r] # None => \/ Vector(r) = loaded[p][r]
                           \/ written[r].n > loaded[p][r]

(***************************************************************************)
(* The index loses and invents nothing: every vector answered for is read  *)
(* back from the files, and every vector a process searches is there.  The *)
(* one way it can come to is a delta that settle did not read because it   *)
(* had the size the process left it at.                                    *)
(***************************************************************************)
IndexIsWhole == ~misled => ReadsBack /\ SearchedIsDurable
=============================================================================
