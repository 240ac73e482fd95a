------------------------------ MODULE Catalog ------------------------------
(***************************************************************************)
(* What the catalog promises: one entry per record, changed one record at  *)
(* a time, each change superseding every earlier one for good, and an      *)
(* acknowledged change never lost.  ManifestLog is shown to implement it.  *)
(***************************************************************************)
EXTENDS Naturals

CONSTANTS
  Record,   (* record ids                           *)
  MaxStamp  (* bound: how many changes are ever made *)

VARIABLES
  entry,    (* each record's latest change: its number, and whether it removes *)
  promised  (* the latest change of each record a caller was told of           *)

catalogVars == <<entry, promised>>

(* Changes are numbered in the order they take effect; 0 is "no entry". *)
Absent == [n |-> 0, del |-> FALSE]
Change == [n : 1..MaxStamp, del : BOOLEAN]

Init ==
  /\ entry = [r \in Record |-> Absent]
  /\ promised = [r \in Record |-> 0]

(* A change takes effect.  Only a record that was catalogued is removed. *)
Put(r) ==
  \E c \in Change :
    /\ \A q \in Record : c.n > entry[q].n
    /\ c.del => entry[r].n > 0
    /\ entry' = [entry EXCEPT ![r] = c]
    /\ UNCHANGED promised

(* A caller is told that the latest change of r is on disk. *)
Promise(r) ==
  /\ promised' = [promised EXCEPT ![r] = entry[r].n]
  /\ UNCHANGED entry

Next == \E r \in Record : Put(r) \/ Promise(r)

Spec == Init /\ [][Next]_catalogVars
=============================================================================
