------------------------------- MODULE Orders -------------------------------
(***************************************************************************)
(* The order a query gives its rows back in (ORDER BY).                    *)
(***************************************************************************)
EXTENDS Integers, FiniteSets

(* What comes before x, where before is a set of pairs. *)
Ahead(x, S, before) == {y \in S : <<y, x>> \in before}

(* The elements of S from first to last: as many are ahead of one as its place says. *)
Arranged(S, before) ==
  [i \in 1..Cardinality(S) |-> CHOOSE x \in S : Cardinality(Ahead(x, S, before)) = i - 1]
=============================================================================
