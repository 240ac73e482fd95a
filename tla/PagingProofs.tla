---------------------------- MODULE PagingProofs ----------------------------
(***************************************************************************)
(* What is read page by page is one whole: the turns of a conversation     *)
(* (Transcript), for any number of turns and batches of any sizes, and the *)
(* ranking of a recall (Ranking), for any two passes, filters and pages.   *)
(* That a set of rows has one order is AnswerProofs' ArrangedInOrder.      *)
(***************************************************************************)
EXTENDS AnswerProofs, Transcript, Ranking

(***************************************************************************)
(* Induction, for sets of numbers: what holds of a recursive definition is *)
(* proved for the set of the numbers it holds for.  That the least number  *)
(* outside a set exists is the library's WFMin.                            *)
(***************************************************************************)
LEMMA LeastNumber ==
  ASSUME NEW S \in SUBSET Nat, S # {}
  PROVE  \E m \in S : \A n \in S : m <= n
<1> DEFINE R == OpToRel(<, Nat)
<1>1. IsWellFoundedOn(R, Nat)
  BY NatLessThanWellFounded
<1>2. \A x, y \in Nat : <<x, y>> \in R <=> x < y
  BY DEF OpToRel
<1> HIDE DEF R
<1>3. PICK m \in S : \A n \in S : ~ (<<n, m>> \in R)
  BY <1>1, WFMin, Zenon
<1>4. ASSUME NEW n \in S PROVE m <= n
  <2>1. m \in Nat /\ n \in Nat /\ ~(n < m)
    BY <1>2, <1>3
  <2> QED BY <2>1
<1> QED BY <1>4

LEMMA SetInduction ==
  ASSUME NEW S \in SUBSET Nat, 0 \in S, \A n \in Nat : n \in S => n + 1 \in S
  PROVE  S = Nat
<1> SUFFICES ASSUME S # Nat PROVE FALSE
  OBVIOUS
<1>1. PICK m \in Nat \ S : \A n \in Nat \ S : m <= n
  BY LeastNumber
<1>2. m - 1 \in Nat /\ m - 1 \in S
  BY <1>1
<1> QED BY <1>1, <1>2

(* What takes a value to the next, step by step, gives a value for each step. *)
Follows(f, T, n, base, step) ==
  /\ f \in [0..n -> T] /\ f[0] = base
  /\ \A i \in 1..n : f[i] = step[i][f[i - 1]]

LEMMA RecursionExists ==
  ASSUME NEW T, NEW n \in Nat, NEW base \in T, NEW step \in [1..n -> [T -> T]]
  PROVE  \E f : Follows(f, T, n, base, step)
<1> DEFINE N == {k \in Nat : k <= n => \E f : Follows(f, T, k, base, step)}
<1>1. 0 \in N
  <2>1. Follows([i \in 0..0 |-> base], T, 0, base, step)
    BY DEF Follows
  <2> QED BY <2>1
<1>2. ASSUME NEW k \in Nat, k \in N PROVE k + 1 \in N
  <2>1. SUFFICES ASSUME k + 1 <= n PROVE \E f : Follows(f, T, k + 1, base, step)
    OBVIOUS
  <2>2. PICK f : Follows(f, T, k, base, step)
    BY <1>2, <2>1
  <2>3. f[k] \in T /\ step[k + 1] \in [T -> T]
    BY <2>1, <2>2 DEF Follows
  <2>4. PICK x \in T : x = step[k + 1][f[k]]
    BY <2>3
  <2> DEFINE g == [i \in 0..(k + 1) |-> IF i = k + 1 THEN x ELSE f[i]]
  <2>5. g \in [0..(k + 1) -> T] /\ g[0] = base
    BY <2>2 DEF Follows
  <2>6. ASSUME NEW i \in 1..(k + 1) PROVE g[i] = step[i][g[i - 1]]
    <3>1. g[i - 1] = f[i - 1]
      OBVIOUS
    <3>2. CASE i = k + 1
      <4>1. i - 1 = k /\ g[i] = x
        BY <3>2
      <4> HIDE DEF g
      <4> QED BY <2>4, <3>1, <3>2, <4>1
    <3>3. CASE i # k + 1
      <4>1. i \in 1..k /\ g[i] = f[i]
        BY <3>3
      <4>2. f[i] = step[i][f[i - 1]]
        BY <2>2, <4>1 DEF Follows
      <4> QED BY <3>1, <4>1, <4>2
    <3> QED BY <3>2, <3>3
  <2>7. Follows(g, T, k + 1, base, step)
    BY <2>5, <2>6 DEF Follows
  <2> QED BY <2>7
<1>3. N = Nat
  <2> HIDE DEF N
  <2>1. N \in SUBSET Nat
    BY DEF N
  <2> QED BY <1>1, <1>2, <2>1, SetInduction
<1>4. n \in N
  BY <1>3
<1> QED BY <1>4

-----------------------------------------------------------------------------
(* Flat joins what it is given, one after another.                         *)

(* f[i] is the first i sequences of q joined. *)
JoinsTo(f, q, S, n) ==
  /\ f \in [0..n -> Seq(S)]
  /\ f[0] = <<>>
  /\ \A i \in 1..n : f[i] = f[i - 1] \o q[i]

LEMMA JoinsExists ==
  ASSUME NEW S, NEW q \in Seq(Seq(S))
  PROVE  \E f : JoinsTo(f, q, S, Len(q))
<1> DEFINE n == Len(q)
           T == Seq(S)
           step == [i \in 1..n |-> [s \in T |-> s \o q[i]]]
<1>1. n \in Nat /\ <<>> \in T
  OBVIOUS
<1>2. ASSUME NEW i \in 1..n, NEW s \in T PROVE s \o q[i] \in T
  OBVIOUS
<1>3. step \in [1..n -> [T -> T]]
  <2> HIDE DEF T, n
  <2> QED BY <1>2
<1>4. PICK f : Follows(f, T, n, <<>>, step)
  <2> HIDE DEF T, n, step
  <2> QED BY <1>1, <1>3, RecursionExists
<1>5. f \in [0..n -> T] /\ f[0] = <<>>
  BY <1>4 DEF Follows
<1>6. ASSUME NEW i \in 1..n PROVE f[i] = f[i - 1] \o q[i]
  <2>1. f[i] = step[i][f[i - 1]]
    <3> HIDE DEF step
    <3> QED BY <1>4 DEF Follows
  <2>2. f[i - 1] \in T
    <3>1. i - 1 \in 0..n
      BY <1>1
    <3> HIDE DEF T, n
    <3> QED BY <1>5, <3>1
  <2> HIDE DEF T, n
  <2> QED BY <2>1, <2>2
<1> QED BY <1>5, <1>6 DEF JoinsTo

(* FlattenSeq's own recursion. *)
Flattens(g, q) == \A i \in 1..Len(q) : g[i] = IF i = 1 THEN q[i] ELSE g[i - 1] \o q[i]

LEMMA JoinsUnique ==
  ASSUME NEW S, NEW q \in Seq(Seq(S)), NEW f, JoinsTo(f, q, S, Len(q)), NEW g, Flattens(g, q)
  PROVE  \A i \in 1..Len(q) : f[i] = g[i]
<1> DEFINE N == {n \in Nat : n + 1 <= Len(q) => f[n + 1] = g[n + 1]}
<1>1. 0 \in N
  <2>1. ASSUME 0 + 1 <= Len(q) PROVE f[0 + 1] = g[0 + 1]
    <3>1. 1 \in 1..Len(q) /\ q[1] \in Seq(S)
      BY <2>1
    <3>2. f[1] = f[1 - 1] \o q[1] /\ f[0] = <<>>
      BY <3>1 DEF JoinsTo
    <3>3. f[1] = <<>> \o q[1]
      <4>1. 1 - 1 = 0
        OBVIOUS
      <4> QED BY <3>2, <4>1, Zenon
    <3>4. <<>> \o q[1] = q[1]
      BY <3>1, ConcatEmptySeq, Zenon
    <3> QED BY <3>1, <3>3, <3>4 DEF Flattens
  <2> QED BY <2>1
<1>2. ASSUME NEW n \in Nat, n \in N PROVE n + 1 \in N
  <2>1. ASSUME n + 1 + 1 <= Len(q) PROVE f[n + 1 + 1] = g[n + 1 + 1]
    <3>1. PICK i \in 1..Len(q) : i = n + 1 + 1 /\ i # 1 /\ i - 1 = n + 1
      BY <2>1
    <3>2. f[i] = f[i - 1] \o q[i]
      BY DEF JoinsTo
    <3>3. g[i] = g[i - 1] \o q[i]
      BY <3>1 DEF Flattens
    <3>4. f[n + 1] = g[n + 1]
      BY <1>2, <2>1
    <3> QED BY <3>1, <3>2, <3>3, <3>4
  <2> QED BY <2>1
<1>3. N = Nat
  <2> HIDE DEF N
  <2>1. N \in SUBSET Nat
    BY DEF N
  <2> QED BY <1>1, <1>2, <2>1, SetInduction
<1>4. ASSUME NEW i \in 1..Len(q) PROVE f[i] = g[i]
  <2>1. i - 1 \in Nat /\ (i - 1) + 1 = i
    OBVIOUS
  <2>2. i - 1 \in N
    <3> HIDE DEF N
    <3> QED BY <1>3, <2>1
  <2> QED BY <2>1, <2>2
<1> QED BY <1>4

LEMMA FlatIsJoins ==
  ASSUME NEW S, NEW q \in Seq(Seq(S)), NEW f, JoinsTo(f, q, S, Len(q))
  PROVE  Flat(q) = f[Len(q)]
<1>1. CASE Len(q) = 0
  <2>1. Flat(q) = q
    BY <1>1 DEF Flat, FlattenSeq
  <2> QED BY <1>1, <2>1 DEF JoinsTo
<1>2. CASE Len(q) # 0
  <2> DEFINE g == CHOOSE h : h = [i \in 1..Len(q) |-> IF i = 1 THEN q[i] ELSE h[i - 1] \o q[i]]
             e == [i \in 1..Len(q) |-> f[i]]
  <2>1. Flat(q) = g[Len(q)]
    BY <1>2 DEF Flat, FlattenSeq
  <2>2. ASSUME NEW i \in 1..Len(q) PROVE f[i] = IF i = 1 THEN q[i] ELSE e[i - 1] \o q[i]
    <3>1. f[i] = f[i - 1] \o q[i] /\ f[0] = <<>> /\ q[i] \in Seq(S)
      BY DEF JoinsTo
    <3>2. CASE i = 1
      <4>1. f[i] = <<>> \o q[i]
        <5>1. i - 1 = 0
          BY <3>2
        <5> QED BY <3>1, <5>1, Zenon
      <4>2. <<>> \o q[i] = q[i]
        BY <3>1, ConcatEmptySeq, Zenon
      <4> QED BY <3>2, <4>1, <4>2
    <3>3. CASE i # 1
      <4>1. e[i - 1] = f[i - 1]
        BY <3>3
      <4> HIDE DEF e
      <4> QED BY <3>1, <3>3, <4>1
    <3> QED BY <3>2, <3>3
  <2>3. e = [i \in 1..Len(q) |-> IF i = 1 THEN q[i] ELSE e[i - 1] \o q[i]]
    BY <2>2
  <2>4. g = [i \in 1..Len(q) |-> IF i = 1 THEN q[i] ELSE g[i - 1] \o q[i]]
    <3> HIDE DEF e
    <3> QED BY <2>3
  <2>5. PICK h : Flat(q) = h[Len(q)]
                 /\ h = [i \in 1..Len(q) |-> IF i = 1 THEN q[i] ELSE h[i - 1] \o q[i]]
    <3> HIDE DEF g
    <3> QED BY <2>1, <2>4, Zenon
  <2>6. Flattens(h, q)
    BY <2>5, Zenon DEF Flattens
  <2>7. \A i \in 1..Len(q) : f[i] = h[i]
    BY <2>6, JoinsUnique, SMT
  <2>8. Len(q) \in 1..Len(q)
    BY <1>2
  <2> QED BY <2>5, <2>7, <2>8
<1> QED BY <1>1, <1>2

LEMMA FlatEmpty == Flat(<<>>) = <<>>
  BY DEF Flat, FlattenSeq

LEMMA FlatType ==
  ASSUME NEW S, NEW q \in Seq(Seq(S))
  PROVE  Flat(q) \in Seq(S)
<1>1. PICK f : JoinsTo(f, q, S, Len(q))
  BY JoinsExists
<1>2. Flat(q) = f[Len(q)]
  BY <1>1, FlatIsJoins
<1>3. Len(q) \in 0..Len(q)
  OBVIOUS
<1> QED BY <1>1, <1>2, <1>3 DEF JoinsTo

LEMMA FlatAppend ==
  ASSUME NEW S, NEW q \in Seq(Seq(S)), NEW x \in Seq(S)
  PROVE  Flat(Append(q, x)) = Flat(q) \o x
<1>1. PICK r \in Seq(Seq(S)) : r = Append(q, x)
  BY AppendProperties
<1>2. PICK n \in Nat : Len(q) = n /\ Len(r) = n + 1 /\ r[n + 1] = x /\ \A i \in 1..n : r[i] = q[i]
  BY <1>1, AppendProperties
<1>3. PICK f : JoinsTo(f, r, S, Len(r))
  BY JoinsExists
<1> DEFINE g == [i \in 0..n |-> f[i]]
<1>4. JoinsTo(g, q, S, Len(q))
  <2>1. g \in [0..n -> Seq(S)] /\ g[0] = <<>>
    BY <1>2, <1>3 DEF JoinsTo
  <2>2. ASSUME NEW i \in 1..n PROVE g[i] = g[i - 1] \o q[i]
    <3>1. i \in 1..(n + 1) /\ g[i] = f[i] /\ g[i - 1] = f[i - 1] /\ r[i] = q[i]
      BY <1>2
    <3>2. f[i] = f[i - 1] \o r[i]
      BY <1>2, <1>3, <3>1 DEF JoinsTo
    <3> QED BY <3>1, <3>2
  <2> QED BY <1>2, <2>1, <2>2 DEF JoinsTo
<1>5. Flat(q) = f[n]
  <2>1. g[n] = f[n]
    BY <1>2
  <2> HIDE DEF g
  <2> QED BY <1>2, <1>4, <2>1, FlatIsJoins
<1>6. f[n + 1] = f[n] \o x
  <2>1. n + 1 \in 1..(n + 1) /\ (n + 1) - 1 = n
    OBVIOUS
  <2> QED BY <1>2, <1>3, <2>1 DEF JoinsTo
<1>7. Flat(r) = f[n + 1]
  BY <1>2, <1>3, FlatIsJoins
<1> QED BY <1>1, <1>5, <1>6, <1>7

(* Sequences are joined in any grouping. *)
Associates(a, b, c) == (a \o b) \o c = a \o (b \o c)

LEMMA JoiningAssociates ==
  ASSUME NEW S, NEW a \in Seq(S), NEW b \in Seq(S), NEW c \in Seq(S)
  PROVE  Associates(a, b, c)
  BY ConcatAssociative DEF Associates

LEMMA FlatConcat ==
  ASSUME NEW S, NEW p \in Seq(Seq(S)), NEW q \in Seq(Seq(S))
  PROVE  Flat(p \o q) = Flat(p) \o Flat(q)
<1> DEFINE good(n) == \A r \in Seq(Seq(S)) : Len(r) = n => Flat(p \o r) = Flat(p) \o Flat(r)
           N == {n \in Nat : good(n)}
<1>0. Flat(p) \in Seq(S)
  BY FlatType
<1>1. good(0)
  <2>1. Flat(p \o <<>>) = Flat(p) /\ Flat(p) \o Flat(<<>>) = Flat(p)
    BY <1>0, FlatEmpty, ConcatEmptySeq
  <2>2. ASSUME NEW r \in Seq(Seq(S)), Len(r) = 0 PROVE r = <<>>
    BY <2>2, EmptySeq
  <2> QED BY <2>1, <2>2
<1>2. ASSUME NEW n \in Nat, good(n) PROVE good(n + 1)
  <2> SUFFICES ASSUME NEW r \in Seq(Seq(S)), Len(r) = n + 1
               PROVE  Flat(p \o r) = Flat(p) \o Flat(r)
    OBVIOUS
  <2>1. PICK s \in Seq(Seq(S)), x \in Seq(S) : r = Append(s, x)
    <3>1. r # <<>>
      OBVIOUS
    <3> QED BY <3>1, SequenceEmptyOrAppend
  <2>2. Len(s) = n
    BY <2>1
  <2>3. Flat(p \o s) = Flat(p) \o Flat(s)
    BY <1>2, <2>2
  <2>4. p \o r = Append(p \o s, x)
    <3>1. r = s \o <<x>> /\ <<x>> \in Seq(Seq(S))
      BY <2>1, AppendIsConcat
    <3>2. (p \o s) \o <<x>> = p \o (s \o <<x>>)
      <4>1. PICK y \in Seq(Seq(S)) : y = <<x>>
        BY <3>1
      <4>2. Associates(p, s, y)
        BY JoiningAssociates
      <4> QED BY <4>1, <4>2, Zenon DEF Associates
    <3>3. p \o s \in Seq(Seq(S))
      OBVIOUS
    <3>4. Append(p \o s, x) = (p \o s) \o <<x>>
      BY <3>3, AppendIsConcat, Zenon
    <3> QED BY <3>1, <3>2, <3>4, Zenon
  <2>5. p \o s \in Seq(Seq(S)) /\ Flat(s) \in Seq(S)
    BY FlatType
  <2>6. Flat(p \o r) = Flat(p \o s) \o x
    BY <2>4, <2>5, FlatAppend
  <2>7. Flat(r) = Flat(s) \o x
    BY <2>1, FlatAppend
  <2>8. (Flat(p) \o Flat(s)) \o x = Flat(p) \o (Flat(s) \o x)
    <3>1. PICK a \in Seq(S), b \in Seq(S) : a = Flat(p) /\ b = Flat(s)
      BY <1>0, <2>5
    <3>2. Associates(a, b, x)
      BY JoiningAssociates
    <3> QED BY <3>1, <3>2, Zenon DEF Associates
  <2> QED BY <2>3, <2>6, <2>7, <2>8
<1> HIDE DEF good
<1>3. N = Nat
  <2>1. 0 \in N /\ N \in SUBSET Nat /\ \A n \in Nat : n \in N => n + 1 \in N
    BY <1>1, <1>2
  <2> HIDE DEF N
  <2> QED BY <2>1, SetInduction
<1>4. good(Len(q))
  <2>1. Len(q) \in N
    <3> HIDE DEF N
    <3> QED BY <1>3
  <2> QED BY <2>1
<1> QED BY <1>4 DEF good

-----------------------------------------------------------------------------
(* Total adds the sizes of turns.                                          *)

(* f[i] is the size of the first i turns. *)
SumsTo(f, batch) ==
  /\ f \in [0..Len(batch) -> Nat]
  /\ f[0] = 0
  /\ \A i \in 1..Len(batch) : f[i] = f[i - 1] + Weight[batch[i]]

LEMMA WeightType == ASSUME NEW m \in Turn PROVE Weight[m] \in Nat \ {0}
  BY TranscriptAssumption

LEMMA SumsExists ==
  ASSUME NEW batch \in Seq(Turn)
  PROVE  \E f : SumsTo(f, batch)
<1> DEFINE n == Len(batch)
           step == [i \in 1..n |-> [s \in Nat |-> s + Weight[batch[i]]]]
<1>1. n \in Nat
  OBVIOUS
<1>2. ASSUME NEW i \in 1..n PROVE Weight[batch[i]] \in Nat
  BY WeightType
<1>3. step \in [1..n -> [Nat -> Nat]]
  BY <1>2
<1>4. PICK f : Follows(f, Nat, n, 0, step)
  <2> HIDE DEF n, step
  <2> QED BY <1>1, <1>3, RecursionExists
<1>5. f \in [0..n -> Nat] /\ f[0] = 0
  BY <1>4 DEF Follows
<1>6. ASSUME NEW i \in 1..n PROVE f[i] = f[i - 1] + Weight[batch[i]]
  <2>1. f[i] = step[i][f[i - 1]]
    <3> HIDE DEF step
    <3> QED BY <1>4 DEF Follows
  <2>2. f[i - 1] \in Nat
    BY <1>1, <1>5
  <2> QED BY <2>1, <2>2
<1> QED BY <1>5, <1>6 DEF SumsTo

(* Total's own recursion. *)
Adds(g, batch) ==
  \A i \in 0..Len(batch) : g[i] = IF i = 0 THEN 0 ELSE g[i - 1] + Weight[batch[i]]

LEMMA SumsUnique ==
  ASSUME NEW batch \in Seq(Turn), NEW f, SumsTo(f, batch), NEW g, Adds(g, batch)
  PROVE  \A i \in 0..Len(batch) : f[i] = g[i]
<1> DEFINE N == {n \in Nat : n <= Len(batch) => f[n] = g[n]}
<1>1. 0 \in N
  BY DEF SumsTo, Adds
<1>2. ASSUME NEW n \in Nat, n \in N PROVE n + 1 \in N
  <2>1. ASSUME n + 1 <= Len(batch) PROVE f[n + 1] = g[n + 1]
    <3>1. PICK i \in 1..Len(batch) : i = n + 1 /\ i - 1 = n
      BY <2>1
    <3>2. f[i] = f[i - 1] + Weight[batch[i]]
      BY DEF SumsTo
    <3>3. g[i] = g[i - 1] + Weight[batch[i]]
      BY DEF Adds
    <3>4. f[n] = g[n]
      BY <1>2, <2>1
    <3> QED BY <3>1, <3>2, <3>3, <3>4
  <2> QED BY <2>1
<1>3. N = Nat
  <2> HIDE DEF N
  <2>1. N \in SUBSET Nat
    BY DEF N
  <2> QED BY <1>1, <1>2, <2>1, SetInduction
<1>4. ASSUME NEW i \in 0..Len(batch) PROVE f[i] = g[i]
  <2>1. i \in N
    <3> HIDE DEF N
    <3> QED BY <1>3
  <2> QED BY <2>1
<1> QED BY <1>4

LEMMA TotalIsSums ==
  ASSUME NEW batch \in Seq(Turn), NEW f, SumsTo(f, batch)
  PROVE  Total(batch) = f[Len(batch)]
<1> DEFINE n == Len(batch)
           g == CHOOSE h : h = [i \in 0..n |-> IF i = 0 THEN 0 ELSE h[i - 1] + Weight[batch[i]]]
<1>1. Total(batch) = g[n]
  BY DEF Total
<1>2. f = [i \in 0..n |-> IF i = 0 THEN 0 ELSE f[i - 1] + Weight[batch[i]]]
  <2>1. f = [i \in 0..n |-> f[i]]
    BY DEF SumsTo
  <2>2. ASSUME NEW i \in 0..n PROVE f[i] = IF i = 0 THEN 0 ELSE f[i - 1] + Weight[batch[i]]
    BY DEF SumsTo
  <2> HIDE DEF n
  <2> QED BY <2>1, <2>2
<1>3. g = [i \in 0..n |-> IF i = 0 THEN 0 ELSE g[i - 1] + Weight[batch[i]]]
  BY <1>2
<1>4. PICK h : Total(batch) = h[n]
               /\ h = [i \in 0..n |-> IF i = 0 THEN 0 ELSE h[i - 1] + Weight[batch[i]]]
  <2> HIDE DEF g
  <2> QED BY <1>1, <1>3, Zenon
<1>5. Adds(h, batch)
  BY <1>4 DEF Adds
<1>6. \A i \in 0..n : f[i] = h[i]
  BY <1>5, SumsUnique, SMT
<1>7. n \in 0..n
  OBVIOUS
<1> QED BY <1>4, <1>6, <1>7

LEMMA TotalType ==
  ASSUME NEW batch \in Seq(Turn)
  PROVE  Total(batch) \in Nat
<1>1. PICK f : SumsTo(f, batch)
  BY SumsExists
<1>2. Total(batch) = f[Len(batch)]
  BY <1>1, TotalIsSums
<1>3. Len(batch) \in 0..Len(batch)
  OBVIOUS
<1> QED BY <1>1, <1>2, <1>3 DEF SumsTo

LEMMA TotalEmpty == Total(<<>>) = 0
<1>1. SumsTo([i \in 0..0 |-> 0], <<>>)
  BY DEF SumsTo
<1>2. <<>> \in Seq(Turn) /\ Len(<<>>) = 0
  OBVIOUS
<1> QED BY <1>1, <1>2, TotalIsSums

LEMMA TotalAppend ==
  ASSUME NEW batch \in Seq(Turn), NEW m \in Turn
  PROVE  Total(Append(batch, m)) = Total(batch) + Weight[m]
<1>1. PICK r \in Seq(Turn) : r = Append(batch, m)
  BY AppendProperties
<1>2. PICK n \in Nat : Len(batch) = n /\ Len(r) = n + 1 /\ r[n + 1] = m
                       /\ \A i \in 1..n : r[i] = batch[i]
  BY <1>1, AppendProperties
<1>3. PICK f : SumsTo(f, r)
  BY SumsExists
<1> DEFINE g == [i \in 0..n |-> f[i]]
<1>4. SumsTo(g, batch)
  <2>1. g \in [0..n -> Nat] /\ g[0] = 0
    BY <1>2, <1>3 DEF SumsTo
  <2>2. ASSUME NEW i \in 1..n PROVE g[i] = g[i - 1] + Weight[batch[i]]
    <3>1. i \in 1..(n + 1) /\ g[i] = f[i] /\ g[i - 1] = f[i - 1] /\ r[i] = batch[i]
      BY <1>2
    <3>2. f[i] = f[i - 1] + Weight[r[i]]
      BY <1>2, <1>3, <3>1 DEF SumsTo
    <3> QED BY <3>1, <3>2
  <2> QED BY <1>2, <2>1, <2>2 DEF SumsTo
<1>5. Total(batch) = f[n]
  <2>1. g[n] = f[n]
    OBVIOUS
  <2> HIDE DEF g
  <2> QED BY <1>2, <1>4, <2>1, TotalIsSums
<1>6. f[n + 1] = f[n] + Weight[m]
  <2>1. n + 1 \in 1..(n + 1) /\ (n + 1) - 1 = n
    OBVIOUS
  <2> QED BY <1>2, <1>3, <2>1 DEF SumsTo
<1>7. Total(r) = f[n + 1]
  BY <1>2, <1>3, TotalIsSums
<1> QED BY <1>1, <1>5, <1>6, <1>7

LEMMA TotalOne == ASSUME NEW m \in Turn PROVE Total(<<m>>) = Weight[m]
<1>1. PICK none \in Seq(Turn) : none = <<>>
  <2>1. <<>> \in Seq(Turn)
    OBVIOUS
  <2> QED BY <2>1
<1>2. <<m>> = Append(none, m)
  BY <1>1
<1>3. Total(Append(none, m)) = Total(none) + Weight[m]
  BY TotalAppend
<1>4. Total(none) = 0
  BY <1>1, TotalEmpty
<1>5. Total(Append(none, m)) = Weight[m]
  BY <1>3, <1>4, WeightType
<1> QED BY <1>2, <1>5, Zenon

-----------------------------------------------------------------------------
(* SplitMessages ends a group where the next turn would not fit.           *)

Splits == [groups : Seq(Seq(Turn)), group : Seq(Turn), size : Nat]

(* No group is empty, or too large, or could have taken the next one's first turn. *)
Tight(groups) ==
  \A g \in 1..Len(groups) :
    /\ groups[g] # <<>>
    /\ Len(groups[g]) > 1 => Total(groups[g]) <= Target
    /\ g < Len(groups) => Total(groups[g]) + Weight[groups[g + 1][1]] > Target

(* What has been split when the turns of done were added. *)
SplitSound(split, done) ==
  /\ split \in Splits
  /\ Flat(split.groups) \o split.group = done
  /\ split.group = <<>> => split.groups = <<>>
  /\ split.size = Total(split.group)
  /\ Len(split.group) > 1 => split.size <= Target
  /\ Tight(split.groups)
  /\ split.groups # <<>> =>
       Total(split.groups[Len(split.groups)]) + Weight[split.group[1]] > Target

LEMMA NoneSplitSound == SplitSound(NoneSplit, <<>>)
<1>1. NoneSplit.groups = <<>> /\ NoneSplit.group = <<>> /\ NoneSplit.size = 0
  BY DEF NoneSplit
<1>2. NoneSplit \in Splits
  BY DEF NoneSplit, Splits
<1>3. Tight(<<>>)
  BY DEF Tight
<1> QED BY <1>1, <1>2, <1>3, FlatEmpty, TotalEmpty DEF SplitSound

LEMMA SplitSoundOf ==
  ASSUME NEW groups \in Seq(Seq(Turn)), NEW group \in Seq(Turn), NEW size \in Nat, NEW done,
         Flat(groups) \o group = done, group # <<>>, size = Total(group),
         Len(group) > 1 => size <= Target, Tight(groups),
         groups # <<>> => Total(groups[Len(groups)]) + Weight[group[1]] > Target
  PROVE  SplitSound([groups |-> groups, group |-> group, size |-> size], done)
<1> DEFINE split == [groups |-> groups, group |-> group, size |-> size]
<1>1. split \in Splits /\ split.groups = groups /\ split.group = group /\ split.size = size
  BY DEF Splits
<1> HIDE DEF split
<1>2. SplitSound(split, done)
  BY <1>1 DEF SplitSound
<1> QED BY <1>2 DEF split

(* A group is ended. *)
LEMMA TightAppend ==
  ASSUME NEW groups \in Seq(Seq(Turn)), NEW group \in Seq(Turn), Tight(groups), group # <<>>,
         Len(group) > 1 => Total(group) <= Target,
         groups # <<>> => Total(groups[Len(groups)]) + Weight[group[1]] > Target
  PROVE  Tight(Append(groups, group))
<1>1. PICK n \in Nat : n = Len(groups)
  OBVIOUS
<1>2. PICK r \in Seq(Seq(Turn)) : r = Append(groups, group)
  BY AppendProperties
<1>3. Len(r) = n + 1 /\ r[n + 1] = group /\ \A i \in 1..n : r[i] = groups[i]
  BY <1>1, <1>2, AppendProperties
<1>4. ASSUME NEW g \in 1..(n + 1)
      PROVE  /\ r[g] # <<>>
             /\ Len(r[g]) > 1 => Total(r[g]) <= Target
             /\ g < n + 1 => Total(r[g]) + Weight[r[g + 1][1]] > Target
  <2>1. CASE g = n + 1
    BY <1>3, <2>1
  <2>2. CASE g = n /\ g \in 1..n
    <3>1. r[g] = groups[n] /\ r[g + 1] = group /\ groups # <<>>
      BY <1>1, <1>3, <2>2
    <3>2. groups[n] # <<>> /\ (Len(groups[n]) > 1 => Total(groups[n]) <= Target)
      BY <1>1, <2>2 DEF Tight
    <3> QED BY <1>1, <3>1, <3>2
  <2>3. CASE g < n
    <3>1. g \in 1..n /\ g + 1 \in 1..n
      BY <2>3
    <3>2. r[g] = groups[g] /\ r[g + 1] = groups[g + 1]
      BY <1>3, <3>1
    <3> QED BY <1>1, <2>3, <3>1, <3>2 DEF Tight
  <2> QED BY <2>1, <2>2, <2>3
<1>5. Tight(r)
  BY <1>3, <1>4 DEF Tight
<1> QED BY <1>2, <1>5

LEMMA AddTurnSound ==
  ASSUME NEW split, NEW done \in Seq(Turn), SplitSound(split, done), NEW m \in Turn
  PROVE  SplitSound(AddTurn(split, m), Append(done, m))
<1>1. PICK groups \in Seq(Seq(Turn)), group \in Seq(Turn), size \in Nat :
        groups = split.groups /\ group = split.group /\ size = split.size
  BY DEF SplitSound, Splits
<1>2. split = [groups |-> groups, group |-> group, size |-> size]
  BY <1>1 DEF SplitSound, Splits
<1>3. PICK w \in Nat \ {0} : w = Weight[m]
  BY WeightType
<1>4. PICK flat \in Seq(Turn) : flat = Flat(groups)
  BY FlatType
<1>5. flat \o group = done /\ (group = <<>> => groups = <<>>) /\ size = Total(group)
      /\ (Len(group) > 1 => size <= Target) /\ Tight(groups)
      /\ (groups # <<>> => Total(groups[Len(groups)]) + Weight[group[1]] > Target)
  BY <1>1, <1>4 DEF SplitSound
<1>6. Target \in Nat
  BY TranscriptAssumption
<1>7. CASE group # <<>> /\ size + w > Target
  <2>1. AddTurn(split, m) = [groups |-> Append(groups, group), group |-> <<m>>, size |-> w]
    BY <1>1, <1>3, <1>7 DEF AddTurn
  <2>2. PICK ended \in Seq(Seq(Turn)) : ended = Append(groups, group)
    BY AppendProperties
  <2>3. Flat(ended) = done
    BY <1>4, <1>5, <2>2, FlatAppend
  <2>4. done \o <<m>> = Append(done, m)
    BY AppendIsConcat
  <2>5. Tight(ended)
    BY <1>5, <1>7, <2>2, TightAppend
  <2>6. PICK one \in Seq(Turn) : one = <<m>> /\ one[1] = m /\ one # <<>> /\ Len(one) = 1
    <3>1. <<m>> \in Seq(Turn) /\ <<m>>[1] = m /\ <<m>> # <<>> /\ Len(<<m>>) = 1
      OBVIOUS
    <3> QED BY <3>1, Zenon
  <2>7. ended[Len(ended)] = group
    BY <2>2, AppendProperties
  <2>8. Total(one) = w
    BY <1>3, <2>6, TotalOne
  <2>9. Total(ended[Len(ended)]) + Weight[one[1]] > Target
    BY <1>3, <1>5, <1>7, <2>6, <2>7
  <2>10. Flat(ended) \o one = Append(done, m)
    BY <2>3, <2>4, <2>6, Zenon
  <2>11. SplitSound([groups |-> ended, group |-> one, size |-> w], Append(done, m))
    <3>1. one # <<>> /\ (Len(one) > 1 => w <= Target)
      BY <2>6
    <3>2. PICK longer : longer = Append(done, m)
      OBVIOUS
    <3>3. Flat(ended) \o one = longer
      BY <2>10, <3>2, Zenon
    <3>4. SplitSound([groups |-> ended, group |-> one, size |-> w], longer)
      BY <2>5, <2>8, <2>9, <3>1, <3>3, SplitSoundOf
    <3> QED BY <3>2, <3>4, Zenon
  <2> QED BY <2>1, <2>2, <2>6, <2>11, Zenon
<1>8. CASE ~(group # <<>> /\ size + w > Target)
  <2>1. AddTurn(split, m) = [groups |-> groups, group |-> Append(group, m), size |-> size + w]
    BY <1>1, <1>2, <1>3, <1>8 DEF AddTurn
  <2>2. PICK grown \in Seq(Turn) : grown = Append(group, m)
    BY AppendProperties
  <2>3. flat \o grown = Append(done, m)
    <3>1. PICK one \in Seq(Turn) : one = <<m>>
      <4>1. <<m>> \in Seq(Turn)
        OBVIOUS
      <4> QED BY <4>1, Zenon
    <3>2. grown = group \o one /\ Append(done, m) = done \o one
      BY <2>2, <3>1, AppendIsConcat
    <3>3. Associates(flat, group, one)
      BY JoiningAssociates
    <3> QED BY <1>5, <3>2, <3>3, Zenon DEF Associates
  <2>4. grown # <<>> /\ Len(grown) = Len(group) + 1
        /\ (group # <<>> => grown[1] = group[1])
    BY <2>2, AppendProperties
  <2>5. Total(grown) = size + w
    BY <1>3, <1>5, <2>2, TotalAppend
  <2>6. Len(grown) > 1 => size + w <= Target
    <3>1. group = <<>> => Len(grown) = 1
      BY <2>4
    <3>2. group # <<>> => ~(size + w > Target)
      BY <1>8
    <3>3. size + w > Target \/ size + w <= Target
      BY <1>6
    <3>4. CASE group = <<>>
      <4>1. Len(grown) = 1
        BY <3>1, <3>4, Zenon
      <4> QED BY <4>1
    <3>5. CASE group # <<>>
      BY <3>2, <3>3, <3>5
    <3> QED BY <3>4, <3>5
  <2>7. groups # <<>> => Total(groups[Len(groups)]) + Weight[grown[1]] > Target
    BY <1>5, <2>4
  <2>8. size + w \in Nat
    OBVIOUS
  <2>9. Flat(groups) \o grown = Append(done, m)
    BY <1>4, <2>3, Zenon
  <2>10. SplitSound([groups |-> groups, group |-> grown, size |-> size + w], Append(done, m))
    BY <1>5, <2>4, <2>5, <2>6, <2>7, <2>8, <2>9, SplitSoundOf
  <2> QED BY <2>1, <2>2, <2>10, Zenon
<1> QED BY <1>7, <1>8

(* SplitMessages' own recursion. *)
SplitsTo(h, batch) ==
  \A i \in 0..Len(batch) : h[i] = IF i = 0 THEN NoneSplit ELSE AddTurn(h[i - 1], batch[i])

LEMMA SplitSteps ==
  ASSUME NEW batch \in Seq(Turn), NEW h, SplitsTo(h, batch)
  PROVE  \A i \in 0..Len(batch) : SplitSound(h[i], SubSeq(batch, 1, i))
<1> DEFINE N == {n \in Nat : n <= Len(batch) => SplitSound(h[n], SubSeq(batch, 1, n))}
<1>1. 0 \in N
  <2>1. h[0] = NoneSplit
    BY DEF SplitsTo
  <2>2. SubSeq(batch, 1, 0) = <<>>
    BY SubSeqEmpty
  <2>3. SplitSound(h[0], SubSeq(batch, 1, 0))
    BY <2>1, <2>2, NoneSplitSound, Zenon
  <2> QED BY <2>3
<1>2. ASSUME NEW n \in Nat, n \in N PROVE n + 1 \in N
  <2>1. ASSUME n + 1 <= Len(batch) PROVE SplitSound(h[n + 1], SubSeq(batch, 1, n + 1))
    <3>1. PICK i \in 1..Len(batch) : i = n + 1 /\ i - 1 = n
      BY <2>1
    <3>2. h[i] = AddTurn(h[i - 1], batch[i])
      BY DEF SplitsTo
    <3>3. SplitSound(h[n], SubSeq(batch, 1, n))
      BY <1>2, <2>1
    <3>4. PICK done \in Seq(Turn) : done = SubSeq(batch, 1, n)
      <4>1. SubSeq(batch, 1, n) \in Seq(Turn)
        BY <2>1
      <4> QED BY <4>1
    <3>5. SubSeq(batch, 1, n + 1) = Append(done, batch[i])
      <4>1. SubSeq(batch, 1, i) = SubSeq(batch, 1, i - 1) \o <<batch[i]>>
        BY SubSeqRecursiveSecond
      <4>2. Append(done, batch[i]) = done \o <<batch[i]>>
        BY AppendIsConcat
      <4> QED BY <3>1, <3>4, <4>1, <4>2, Zenon
    <3>6. SplitSound(h[n], done)
      BY <3>3, <3>4, Zenon
    <3>7. SplitSound(AddTurn(h[n], batch[i]), Append(done, batch[i]))
      BY <3>6, AddTurnSound
    <3> QED BY <3>1, <3>2, <3>5, <3>7, Zenon
  <2> QED BY <2>1
<1>3. N = Nat
  <2> HIDE DEF N
  <2>1. N \in SUBSET Nat
    BY DEF N
  <2> QED BY <1>1, <1>2, <2>1, SetInduction
<1>4. ASSUME NEW i \in 0..Len(batch) PROVE SplitSound(h[i], SubSeq(batch, 1, i))
  <2>1. i \in N
    <3> HIDE DEF N
    <3> QED BY <1>3
  <2> QED BY <2>1
<1> QED BY <1>4

LEMMA SplitSoundType ==
  ASSUME NEW split, NEW done, SplitSound(split, done)
  PROVE  split \in Splits
  BY DEF SplitSound

(* The recursion has a solution: the turns of a batch are added one by one. *)
LEMMA SplitExists ==
  ASSUME NEW batch \in Seq(Turn)
  PROVE  \E h : h = [i \in 0..Len(batch) |->
                       IF i = 0 THEN NoneSplit ELSE AddTurn(h[i - 1], batch[i])]
<1> DEFINE n == Len(batch)
           step == [i \in 1..n |-> [s \in Splits |-> AddTurn(s, batch[i])]]
<1>1. n \in Nat /\ NoneSplit \in Splits
  BY NoneSplitSound, SplitSoundType
<1>2. ASSUME NEW i \in 1..n, NEW s \in Splits PROVE AddTurn(s, batch[i]) \in Splits
  <2>1. PICK m \in Turn : m = batch[i]
    OBVIOUS
  <2>2. PICK w \in Nat : w = Weight[m]
    BY WeightType
  <2>3. PICK groups \in Seq(Seq(Turn)), group \in Seq(Turn), size \in Nat :
          s = [groups |-> groups, group |-> group, size |-> size]
    BY DEF Splits
  <2>4. Append(groups, group) \in Seq(Seq(Turn)) /\ Append(group, m) \in Seq(Turn)
        /\ <<m>> \in Seq(Turn) /\ size + w \in Nat
    BY AppendProperties
  <2>5. AddTurn(s, m) \in {[groups |-> Append(groups, group), group |-> <<m>>, size |-> w],
                           [groups |-> groups, group |-> Append(group, m), size |-> size + w]}
    BY <2>2, <2>3 DEF AddTurn
  <2>6. [groups |-> Append(groups, group), group |-> <<m>>, size |-> w] \in Splits
    BY <2>4 DEF Splits
  <2>7. [groups |-> groups, group |-> Append(group, m), size |-> size + w] \in Splits
    BY <2>4 DEF Splits
  <2> QED BY <2>1, <2>5, <2>6, <2>7, Zenon
<1>3. step \in [1..n -> [Splits -> Splits]]
  BY <1>2
<1>4. PICK f : Follows(f, Splits, n, NoneSplit, step)
  <2> HIDE DEF n, step
  <2> QED BY <1>1, <1>3, RecursionExists
<1>5. f \in [0..n -> Splits] /\ f[0] = NoneSplit
  BY <1>4 DEF Follows
<1>6. ASSUME NEW i \in 1..n PROVE f[i] = AddTurn(f[i - 1], batch[i])
  <2>1. f[i] = step[i][f[i - 1]]
    <3> HIDE DEF step
    <3> QED BY <1>4 DEF Follows
  <2>2. f[i - 1] \in Splits
    <3>1. i - 1 \in 0..n
      BY <1>1
    <3> HIDE DEF n
    <3> QED BY <1>5, <3>1
  <2> QED BY <2>1, <2>2
<1>7. f = [i \in 0..n |-> f[i]]
  BY <1>5
<1>8. ASSUME NEW i \in 0..n
      PROVE  f[i] = IF i = 0 THEN NoneSplit ELSE AddTurn(f[i - 1], batch[i])
  BY <1>5, <1>6
<1>9. f = [i \in 0..n |-> IF i = 0 THEN NoneSplit ELSE AddTurn(f[i - 1], batch[i])]
  <2> HIDE DEF n
  <2> QED BY <1>7, <1>8
<1> QED BY <1>9

(***************************************************************************)
(* SplitMessages loses no turn, and no group is empty or split too soon or *)
(* too late.                                                               *)
(***************************************************************************)
LEMMA SplitIsSound ==
  ASSUME NEW batch \in Seq(Turn)
  PROVE  /\ SplitMessages(batch) \in Seq(Seq(Turn))
         /\ Flat(SplitMessages(batch)) = batch
         /\ Tight(SplitMessages(batch))
<1> DEFINE n == Len(batch)
           g == CHOOSE h : h = [i \in 0..n |->
                                  IF i = 0 THEN NoneSplit ELSE AddTurn(h[i - 1], batch[i])]
           close(end) == IF end.group = <<>> THEN end.groups ELSE Append(end.groups, end.group)
<1>1. SplitMessages(batch) = close(g[n])
  BY DEF SplitMessages
<1>2. g = [i \in 0..n |-> IF i = 0 THEN NoneSplit ELSE AddTurn(g[i - 1], batch[i])]
  BY SplitExists
<1>3. PICK h : /\ SplitMessages(batch) = close(h[n])
               /\ h = [i \in 0..n |-> IF i = 0 THEN NoneSplit ELSE AddTurn(h[i - 1], batch[i])]
  <2> HIDE DEF g, close
  <2> QED BY <1>1, <1>2, Zenon
<1>4. SplitsTo(h, batch)
  BY <1>3, Zenon DEF SplitsTo
<1>5. SplitSound(h[n], batch)
  <2>1. n \in 0..n /\ SubSeq(batch, 1, n) = batch
    BY SubSeqFull
  <2>2. SplitSound(h[n], SubSeq(batch, 1, n))
    BY <1>4, <2>1, SplitSteps
  <2> QED BY <2>1, <2>2, Zenon
<1>6. PICK end : end = h[n]
  OBVIOUS
<1>7. SplitSound(end, batch) /\ SplitMessages(batch) = close(end)
  BY <1>3, <1>5, <1>6, Zenon
<1>8. PICK groups \in Seq(Seq(Turn)), group \in Seq(Turn) : groups = end.groups /\ group = end.group
  BY <1>7 DEF SplitSound, Splits
<1>9. Flat(groups) \o group = batch /\ (group = <<>> => groups = <<>>) /\ Tight(groups)
      /\ (Len(group) > 1 => Total(group) <= Target)
      /\ (groups # <<>> => Total(groups[Len(groups)]) + Weight[group[1]] > Target)
  BY <1>7, <1>8 DEF SplitSound
<1>10. SplitMessages(batch) = IF group = <<>> THEN groups ELSE Append(groups, group)
  BY <1>7, <1>8, Zenon
<1>11. CASE group = <<>>
  <2>1. SplitMessages(batch) = groups
    BY <1>10, <1>11, Zenon
  <2>2. PICK flat \in Seq(Turn) : flat = Flat(groups)
    BY FlatType
  <2>3. flat \o <<>> = flat
    BY ConcatEmptySeq
  <2>4. Flat(groups) = batch
    BY <1>9, <1>11, <2>2, <2>3, Zenon
  <2> QED BY <1>9, <2>1, <2>4
<1>12. CASE group # <<>>
  <2>1. PICK ended \in Seq(Seq(Turn)) : ended = Append(groups, group)
    BY AppendProperties
  <2>2. Flat(ended) = batch
    BY <1>9, <2>1, FlatAppend
  <2>3. Tight(ended)
    BY <1>9, <1>12, <2>1, TightAppend
  <2>4. SplitMessages(batch) = ended
    BY <1>10, <1>12, <2>1, Zenon
  <2> QED BY <2>2, <2>3, <2>4
<1> QED BY <1>11, <1>12

-----------------------------------------------------------------------------
(* The ends of what was joined, and what comes from one of its parts on.   *)

LEMMA FlatOne ==
  ASSUME NEW S, NEW x \in Seq(S)
  PROVE  Flat(<<x>>) = x
<1>1. PICK none \in Seq(Seq(S)) : none = <<>>
  <2>1. <<>> \in Seq(Seq(S))
    OBVIOUS
  <2> QED BY <2>1
<1>2. Append(none, x) = <<x>>
  BY <1>1
<1>3. Flat(Append(none, x)) = Flat(none) \o x
  BY FlatAppend
<1>4. Flat(none) = <<>>
  BY <1>1, FlatEmpty, Zenon
<1>5. <<>> \o x = x
  BY ConcatEmptySeq
<1> QED BY <1>2, <1>3, <1>4, <1>5, Zenon

(* From part k on: what was joined ends with it, and it begins with part k. *)
LEMMA FlatFrom ==
  ASSUME NEW S, NEW q \in Seq(Seq(S)), NEW k \in 1..Len(q)
  PROVE  \E head, tail \in Seq(S) :
           /\ Flat(SubSeq(q, k, Len(q))) = q[k] \o tail
           /\ Flat(q) = head \o Flat(SubSeq(q, k, Len(q)))
           /\ k = 1 => head = <<>>
<1>1. PICK before \in Seq(Seq(S)), from \in Seq(Seq(S)), after \in Seq(Seq(S)) :
        /\ before = SubSeq(q, 1, k - 1)
        /\ from = SubSeq(q, k, Len(q))
        /\ after = SubSeq(q, k + 1, Len(q))
  <2>1. SubSeq(q, 1, k - 1) \in Seq(Seq(S)) /\ SubSeq(q, k, Len(q)) \in Seq(Seq(S))
    OBVIOUS
  <2>2. SubSeq(q, k + 1, Len(q)) \in Seq(Seq(S))
    OBVIOUS
  <2> QED BY <2>1, <2>2, Zenon
<1>2. before \o from = q
  <2>1. SubSeq(q, 1, k - 1) \o SubSeq(q, (k - 1) + 1, Len(q)) = SubSeq(q, 1, Len(q))
    <3>1. 1 \in 1..(Len(q) + 1) /\ k - 1 \in (1 - 1)..Len(q) /\ Len(q) \in (k - 1)..Len(q)
      OBVIOUS
    <3> QED BY <3>1, ConcatAdjacentSubSeq
  <2>2. (k - 1) + 1 = k /\ SubSeq(q, 1, Len(q)) = q
    BY SubSeqFull
  <2> QED BY <1>1, <2>1, <2>2, Zenon
<1>3. PICK part \in Seq(S) : part = q[k]
  OBVIOUS
<1>4. PICK one \in Seq(Seq(S)) : one = <<part>>
  <2>1. <<part>> \in Seq(Seq(S))
    OBVIOUS
  <2> QED BY <2>1, Zenon
<1>5. from = one \o after
  <2>1. SubSeq(q, k, Len(q)) = <<q[k]>> \o SubSeq(q, k + 1, Len(q))
    <3>1. Len(q) \in k..Len(q)
      OBVIOUS
    <3> QED BY <3>1, SubSeqRecursiveFirst
  <2> QED BY <1>1, <1>3, <1>4, <2>1, Zenon
<1>6. Flat(one) = part
  BY <1>4, FlatOne
<1>7. PICK head \in Seq(S), tail \in Seq(S) : head = Flat(before) /\ tail = Flat(after)
  BY FlatType
<1>8. Flat(from) = part \o tail
  <2>1. Flat(one \o after) = Flat(one) \o Flat(after)
    BY FlatConcat
  <2> QED BY <1>5, <1>6, <1>7, <2>1, Zenon
<1>9. Flat(q) = head \o Flat(from)
  <2>1. Flat(before \o from) = Flat(before) \o Flat(from)
    BY FlatConcat
  <2> QED BY <1>2, <1>7, <2>1, Zenon
<1>10. k = 1 => head = <<>>
  <2>1. SUFFICES ASSUME k = 1 PROVE head = <<>>
    OBVIOUS
  <2>2. SubSeq(q, 1, k - 1) = <<>>
    BY <2>1, SubSeqEmpty
  <2> QED BY <1>1, <1>7, <2>2, FlatEmpty, Zenon
<1> QED BY <1>1, <1>3, <1>7, <1>8, <1>9, <1>10, Zenon

LEMMA FlatEnds ==
  ASSUME NEW S, NEW q \in Seq(Seq(S)), q # <<>>, \A k \in 1..Len(q) : q[k] # <<>>
  PROVE  /\ Flat(q) # <<>> /\ Flat(q)[1] = q[1][1]
         /\ Last(Flat(q)) = Last(q[Len(q)])
<1>1. PICK n \in Nat \ {0} : n = Len(q)
  BY EmptySeq
<1>2. PICK first \in Seq(S), last \in Seq(S) : first = q[1] /\ last = q[n]
  BY <1>1
<1>3. first # <<>> /\ last # <<>> /\ Len(first) \in Nat \ {0} /\ Len(last) \in Nat \ {0}
  <2>1. first # <<>> /\ last # <<>>
    BY <1>1, <1>2
  <2> QED BY <2>1, EmptySeq
<1>4. PICK head \in Seq(S), tail \in Seq(S) :
        Flat(SubSeq(q, 1, n)) = first \o tail /\ Flat(q) = head \o Flat(SubSeq(q, 1, n)) /\ head = <<>>
  <2>1. 1 \in 1..Len(q)
    BY <1>1
  <2>2. \E head, tail \in Seq(S) :
          /\ Flat(SubSeq(q, 1, Len(q))) = q[1] \o tail
          /\ Flat(q) = head \o Flat(SubSeq(q, 1, Len(q)))
          /\ 1 = 1 => head = <<>>
    BY <2>1, FlatFrom
  <2> QED BY <1>1, <1>2, <2>2, Zenon
<1>5. Flat(q) = first \o tail
  <2>1. SubSeq(q, 1, n) = q
    BY <1>1, SubSeqFull
  <2> QED BY <1>4, <2>1, Zenon
<1>6. (first \o tail)[1] = first[1] /\ Len(first \o tail) = Len(first) + Len(tail)
  BY <1>3, ConcatProperties
<1>7. PICK head2 \in Seq(S), tail2 \in Seq(S) :
        Flat(SubSeq(q, n, n)) = last \o tail2 /\ Flat(q) = head2 \o Flat(SubSeq(q, n, n))
  <2>1. Len(q) \in 1..Len(q)
    BY <1>1
  <2>2. \E before, after \in Seq(S) :
          /\ Flat(SubSeq(q, Len(q), Len(q))) = q[Len(q)] \o after
          /\ Flat(q) = before \o Flat(SubSeq(q, Len(q), Len(q)))
    BY <2>1, FlatFrom
  <2> QED BY <1>1, <1>2, <2>2, Zenon
<1>8. Flat(SubSeq(q, n, n)) = last
  <2>1. SubSeq(q, n, n) = <<last>>
    <3>1. n \in 1..Len(q) /\ n \in n..Len(q)
      BY <1>1
    <3>2. SubSeq(q, n, n) = <<q[n]>> \o SubSeq(q, n + 1, n)
      BY <3>1, SubSeqRecursiveFirst
    <3>3. SubSeq(q, n + 1, n) = <<>>
      BY SubSeqEmpty
    <3>4. PICK one \in Seq(Seq(S)) : one = <<last>>
      <4>1. <<last>> \in Seq(Seq(S))
        OBVIOUS
      <4> QED BY <4>1, Zenon
    <3>5. one \o <<>> = one
      BY ConcatEmptySeq
    <3> QED BY <1>2, <3>2, <3>3, <3>4, <3>5, Zenon
  <2>2. Flat(<<last>>) = last
    BY FlatOne
  <2> QED BY <2>1, <2>2, Zenon
<1>9. Flat(q) = head2 \o last
  BY <1>7, <1>8, Zenon
<1>10. Len(head2 \o last) = Len(head2) + Len(last)
       /\ (head2 \o last)[Len(head2) + Len(last)] = last[Len(last)]
  <2>1. Len(head2) \in Nat /\ Len(last) \in Nat \ {0}
    BY <1>3
  <2>2. Len(head2) + Len(last) \in 1..(Len(head2) + Len(last)) /\ ~(Len(head2) + Len(last) <= Len(head2))
        /\ (Len(head2) + Len(last)) - Len(head2) = Len(last)
    BY <2>1
  <2> QED BY <2>1, <2>2, ConcatProperties
<1>11. Last(Flat(q)) = last[Len(last)]
  BY <1>9, <1>10, Zenon DEF Last
<1>12. Flat(q)[1] = first[1] /\ Flat(q) # <<>>
  <2>1. Flat(q)[1] = first[1] /\ Len(Flat(q)) = Len(first) + Len(tail)
    BY <1>5, <1>6, Zenon
  <2>2. Len(first) + Len(tail) # 0 /\ Len(<<>>) = 0
    BY <1>3
  <2> QED BY <2>1, <2>2, Zenon
<1> QED BY <1>1, <1>2, <1>11, <1>12, Zenon DEF Last

-----------------------------------------------------------------------------
(* Where a turn is found.                                                  *)

LEMMA IndexOfFound ==
  ASSUME NEW s \in Seq(Turn), NEW m, \E i \in 1..Len(s) : s[i] = m
  PROVE  IndexOf(s, m) \in 1..Len(s) /\ s[IndexOf(s, m)] = m
<1> DEFINE I == {i \in 1..Len(s) : s[i] = m}
<1>1. I \in SUBSET Nat /\ I # {}
  OBVIOUS
<1>2. IndexOf(s, m) = Min(I)
  BY <1>1 DEF IndexOf, SelectInSeq
<1>3. \E x \in I : \A y \in I : x <= y
  <2> HIDE DEF I
  <2> QED BY <1>1, LeastNumber
<1>4. Min(I) \in I
  <2> HIDE DEF I
  <2> QED BY <1>3 DEF Min
<1> QED BY <1>2, <1>4

LEMMA IndexOfOnly ==
  ASSUME NEW s \in Seq(Turn), NEW i \in 1..Len(s), \A j \in 1..Len(s) : s[j] = s[i] => j = i
  PROVE  IndexOf(s, s[i]) = i
  BY IndexOfFound

Distinct(s) == \A i, j \in 1..Len(s) : s[i] = s[j] => i = j

(* Parts of distinct turns are distinct. *)
LEMMA DistinctParts ==
  ASSUME NEW s \in Seq(Turn), NEW t \in Seq(Turn), Distinct(s \o t)
  PROVE  Distinct(s) /\ Distinct(t)
<1>1. Len(s \o t) = Len(s) + Len(t) /\ Len(s) \in Nat /\ Len(t) \in Nat
  BY ConcatProperties
<1>2. ASSUME NEW i \in 1..Len(s), NEW j \in 1..Len(s), s[i] = s[j] PROVE i = j
  <2>1. i \in 1..Len(s \o t) /\ j \in 1..Len(s \o t) /\ (s \o t)[i] = s[i] /\ (s \o t)[j] = s[j]
    BY <1>1, ConcatProperties
  <2> QED BY <1>2, <2>1 DEF Distinct
<1>3. ASSUME NEW i \in 1..Len(t), NEW j \in 1..Len(t), t[i] = t[j] PROVE i = j
  <2>1. PICK a \in 1..Len(s \o t), b \in 1..Len(s \o t) : a = Len(s) + i /\ b = Len(s) + j
    BY <1>1
  <2>2. (s \o t)[a] = t[i] /\ (s \o t)[b] = t[j]
    BY <1>1, <2>1, ConcatProperties
  <2>3. a = b
    BY <1>3, <2>2 DEF Distinct
  <2> QED BY <1>1, <2>1, <2>3
<1> QED BY <1>2, <1>3 DEF Distinct

(* Span.Select gives the turns from i to j, when no turn is there twice. *)
LEMMA SelectIsRun ==
  ASSUME NEW s \in Seq(Turn), Distinct(s), NEW i \in 1..Len(s), NEW j \in i..Len(s)
  PROVE  Select(s[i], s[j], s) = SubSeq(s, i, j)
<1>1. IndexOf(s, s[i]) = i /\ i # 0
  BY IndexOfOnly DEF Distinct
<1>2. PICK rest \in Seq(Turn) : rest = SubSeq(s, i, Len(s))
  <2>1. SubSeq(s, i, Len(s)) \in Seq(Turn)
    OBVIOUS
  <2> QED BY <2>1, Zenon
<1>3. Len(rest) = Len(s) - i + 1 /\ \A k \in 1..Len(rest) : rest[k] = s[i + k - 1]
  BY <1>2
<1>4. PICK n \in 1..Len(rest) : n = j - i + 1 /\ n # 0
  BY <1>3
<1>5. rest[n] = s[j]
  <2>1. i + n - 1 = j
    BY <1>4
  <2> QED BY <1>3, <2>1
<1>6. ASSUME NEW k \in 1..Len(rest), rest[k] = rest[n] PROVE k = n
  <2>1. PICK a \in 1..Len(s), b \in 1..Len(s) : a = i + k - 1 /\ b = i + n - 1
    <3>1. i + k - 1 \in 1..Len(s) /\ i + n - 1 \in 1..Len(s)
      BY <1>3
    <3> QED BY <3>1, Zenon
  <2>2. s[a] = s[b]
    BY <1>3, <1>6, <2>1
  <2>3. a = b
    BY <2>2 DEF Distinct
  <2> QED BY <2>1, <2>3
<1>7. IndexOf(rest, s[j]) = n
  <2>1. IndexOf(rest, rest[n]) = n
    BY <1>6, IndexOfOnly
  <2> QED BY <1>5, <2>1
<1>8. Select(s[i], s[j], s) = SubSeq(rest, 1, n)
  BY <1>1, <1>2, <1>4, <1>7, Zenon DEF Select
<1>9. SubSeq(rest, 1, n) = SubSeq(s, i, j)
  <2>1. PICK a \in Seq(Turn) : a = SubSeq(rest, 1, n) /\ Len(a) = n /\ \A k \in 1..n : a[k] = rest[k]
    <3>1. SubSeq(rest, 1, n) \in Seq(Turn) /\ Len(SubSeq(rest, 1, n)) = n
      OBVIOUS
    <3>2. \A k \in 1..n : SubSeq(rest, 1, n)[k] = rest[k]
      OBVIOUS
    <3> QED BY <3>1, <3>2, Zenon
  <2>2. PICK b \in Seq(Turn) : b = SubSeq(s, i, j) /\ Len(b) = n /\ \A k \in 1..n : b[k] = s[i + k - 1]
    <3>1. SubSeq(s, i, j) \in Seq(Turn) /\ Len(SubSeq(s, i, j)) = n
      BY <1>4
    <3>2. \A k \in 1..n : SubSeq(s, i, j)[k] = s[i + k - 1]
      BY <1>4
    <3> QED BY <3>1, <3>2, Zenon
  <2>3. \A k \in 1..n : a[k] = b[k]
    BY <1>3, <2>1, <2>2
  <2>4. a = b
    BY <2>1, <2>2, <2>3, SeqEqual
  <2> QED BY <2>1, <2>2, <2>4, Zenon
<1> QED BY <1>8, <1>9, Zenon

(***************************************************************************)
(* Walking the chunks from StartChunk finds the turn, so a page begins at  *)
(* a turn of the conversation with that id.                                *)
(***************************************************************************)
LEMMA StartChunkIn ==
  ASSUME NEW from, conversation \in Seq(Seq(Turn)), conversation # <<>>
  PROVE  /\ StartChunk(from) \in 1..Len(conversation)
         /\ \/ StartChunk(from) = 1
            \/ LET chunk == conversation[StartChunk(from)] IN chunk[1] = from \/ Last(chunk) = from
<1> DEFINE I == {i \in 1..Len(conversation) :
                   conversation[i][1] = from \/ Last(conversation[i]) = from}
           at == IF I # {} THEN Min(I) ELSE 0
<1>1. StartChunk(from) = IF at = 0 THEN 1 ELSE at
  BY DEF StartChunk, SelectInSeq
<1>2. Len(conversation) \in Nat \ {0} /\ I \in SUBSET Nat
  BY EmptySeq
<1>3. CASE I = {}
  BY <1>1, <1>2, <1>3
<1>4. CASE I # {}
  <2>1. \E x \in I : \A y \in I : x <= y
    <3> HIDE DEF I
    <3> QED BY <1>2, <1>4, LeastNumber
  <2>2. Min(I) \in I
    <3> HIDE DEF I
    <3> QED BY <2>1 DEF Min
  <2>3. PICK k \in 1..Len(conversation) :
          k = Min(I) /\ (conversation[k][1] = from \/ Last(conversation[k]) = from)
    BY <2>2
  <2>4. StartChunk(from) = k
    <3> HIDE DEF I
    <3> QED BY <1>1, <1>2, <1>4, <2>3
  <2> QED BY <2>3, <2>4, Zenon
<1> QED BY <1>3, <1>4

LEMMA SuffixOfJoined ==
  ASSUME NEW head \in Seq(Turn), NEW s \in Seq(Turn), NEW p \in 1..Len(s)
  PROVE  /\ Len(head) + p \in 1..Len(head \o s) /\ (head \o s)[Len(head) + p] = s[p]
         /\ SubSeq(s, p, Len(s)) = SubSeq(head \o s, Len(head) + p, Len(head \o s))
<1>1. PICK t \in Seq(Turn) : t = head \o s
  BY ConcatProperties
<1>2. PICK m \in Nat, n \in Nat : m = Len(head) /\ n = Len(s)
  OBVIOUS
<1>3. Len(t) = m + n /\ \A i \in 1..n : t[m + i] = s[i]
  <2>1. Len(t) = m + n /\ \A i \in 1..(m + n) : t[i] = IF i <= m THEN head[i] ELSE s[i - m]
    BY <1>1, <1>2, ConcatProperties
  <2>2. ASSUME NEW i \in 1..n PROVE m + i \in 1..(m + n) /\ ~(m + i <= m) /\ (m + i) - m = i
    OBVIOUS
  <2> QED BY <2>1, <2>2
<1>4. m + p \in 1..Len(t) /\ t[m + p] = s[p]
  <2>1. p \in 1..n /\ m + p \in 1..(m + n)
    BY <1>2
  <2> QED BY <1>3, <2>1
<1>5. SubSeq(s, p, n) = SubSeq(t, m + p, m + n)
  <2>1. PICK a \in Seq(Turn) : a = SubSeq(s, p, n) /\ Len(a) = n - p + 1
                               /\ \A i \in 1..(n - p + 1) : a[i] = s[p + i - 1]
    <3>1. \A i \in p..n : s[i] \in Turn
      BY <1>2
    <3>2. SubSeq(s, p, n) \in Seq(Turn) /\ Len(SubSeq(s, p, n)) = n - p + 1
      BY <1>2, <3>1, SubSeqProperties
    <3>3. \A i \in 1..(n - p + 1) : SubSeq(s, p, n)[i] = s[p + i - 1]
      BY <1>2, <3>1, SubSeqProperties
    <3> QED BY <3>2, <3>3, Zenon
  <2>2. PICK b \in Seq(Turn) : b = SubSeq(t, m + p, m + n) /\ Len(b) = n - p + 1
                               /\ \A i \in 1..(n - p + 1) : b[i] = t[m + p + i - 1]
    <3>1. \A i \in (m + p)..(m + n) : t[i] \in Turn
      BY <1>2, <1>3
    <3>2. SubSeq(t, m + p, m + n) \in Seq(Turn)
          /\ Len(SubSeq(t, m + p, m + n)) = n - p + 1
      BY <1>2, <3>1, SubSeqProperties
    <3>3. \A i \in 1..(n - p + 1) : SubSeq(t, m + p, m + n)[i] = t[m + p + i - 1]
      BY <1>2, <3>1, SubSeqProperties
    <3> QED BY <3>2, <3>3, Zenon
  <2>3. ASSUME NEW i \in 1..(n - p + 1) PROVE a[i] = b[i]
    <3>1. PICK k \in 1..n : k = p + i - 1 /\ m + k = m + p + i - 1
      <4>1. p + i - 1 \in 1..n /\ m + (p + i - 1) = m + p + i - 1
        BY <1>2
      <4> QED BY <4>1, Zenon
    <3>2. a[i] = s[k] /\ b[i] = t[m + k]
      BY <2>1, <2>2, <3>1
    <3> QED BY <1>3, <3>2
  <2>4. a = b
    <3>1. Len(a) = Len(b) /\ \A i \in 1..Len(a) : a[i] = b[i]
      BY <2>1, <2>2, <2>3
    <3> QED BY <3>1, SeqEqual
  <2> QED BY <2>1, <2>2, <2>4, Zenon
<1> QED BY <1>1, <1>2, <1>3, <1>4, <1>5, Zenon

LEMMA TurnsFromSound ==
  ASSUME conversation \in Seq(Seq(Turn)), \A k \in 1..Len(conversation) : conversation[k] # <<>>,
         NEW flat \in Seq(Turn), flat = Flat(conversation),
         NEW from, from # NoTurn, NEW i \in 1..Len(flat), flat[i] = from
  PROVE  \E p \in 1..Len(flat) : flat[p] = from /\ TurnsFrom(from) = SubSeq(flat, p, Len(flat))
<1>1. conversation # <<>>
  <2>1. flat # <<>>
    OBVIOUS
  <2> QED BY <2>1, FlatEmpty, Zenon
<1>2. PICK k \in 1..Len(conversation) : k = StartChunk(from)
  BY <1>1, StartChunkIn
<1>3. PICK chunk \in Seq(Turn) : chunk = conversation[k] /\ chunk # <<>>
  BY <1>2
<1>4. k = 1 \/ chunk[1] = from \/ Last(chunk) = from
  BY <1>1, <1>2, <1>3, StartChunkIn, Zenon
<1>5. PICK walked \in Seq(Turn) : walked = Flat(SubSeq(conversation, k, Len(conversation)))
  <2>1. SubSeq(conversation, k, Len(conversation)) \in Seq(Seq(Turn))
    OBVIOUS
  <2> QED BY <2>1, FlatType
<1>6. PICK head \in Seq(Turn), tail \in Seq(Turn) :
        walked = chunk \o tail /\ flat = head \o walked /\ (k = 1 => head = <<>>)
  <2>1. \E head, tail \in Seq(Turn) :
          /\ Flat(SubSeq(conversation, k, Len(conversation))) = conversation[k] \o tail
          /\ Flat(conversation) = head \o Flat(SubSeq(conversation, k, Len(conversation)))
          /\ k = 1 => head = <<>>
    BY FlatFrom
  <2> QED BY <1>3, <1>5, <2>1, Zenon
<1>7. \E j \in 1..Len(walked) : walked[j] = from
  <2>1. CASE k = 1
    <3>1. <<>> \o walked = walked
      BY ConcatEmptySeq
    <3>2. flat = walked
      BY <1>6, <2>1, <3>1, Zenon
    <3> QED BY <3>2
  <2>2. CASE chunk[1] = from \/ Last(chunk) = from
    <3>1. Len(chunk) \in Nat \ {0} /\ Len(tail) \in Nat
      BY <1>3, EmptySeq
    <3>2. Len(walked) = Len(chunk) + Len(tail) /\ \A j \in 1..Len(chunk) : walked[j] = chunk[j]
      BY <1>6, <3>1, ConcatProperties
    <3>3. 1 \in 1..Len(walked) /\ Len(chunk) \in 1..Len(walked)
          /\ walked[1] = chunk[1] /\ walked[Len(chunk)] = chunk[Len(chunk)]
      <4>1. PICK c \in Nat \ {0}, d \in Nat : c = Len(chunk) /\ d = Len(tail)
        BY <3>1
      <4>2. 1 \in 1..(c + d) /\ c \in 1..(c + d) /\ 1 \in 1..c /\ c \in 1..c
        OBVIOUS
      <4> QED BY <3>2, <4>1, <4>2
    <3> QED BY <2>2, <3>3, Zenon DEF Last
  <2> QED BY <1>4, <2>1, <2>2, Zenon
<1>8. PICK p \in 1..Len(walked) : p = IndexOf(walked, from) /\ walked[p] = from
  BY <1>7, IndexOfFound
<1>9. TurnsFrom(from) = SubSeq(walked, p, Len(walked))
  BY <1>2, <1>5, <1>8, Zenon DEF TurnsFrom
<1>10. /\ Len(head) + p \in 1..Len(head \o walked) /\ (head \o walked)[Len(head) + p] = walked[p]
       /\ SubSeq(walked, p, Len(walked)) = SubSeq(head \o walked, Len(head) + p, Len(head \o walked))
  BY SuffixOfJoined
<1> QED BY <1>6, <1>8, <1>9, <1>10, Zenon

-----------------------------------------------------------------------------
(* The inductive invariant of a transcript.                                *)

ChunksHeld ==
  /\ conversation \in Seq(Seq(Turn)) /\ \A k \in 1..Len(conversation) : conversation[k] # <<>>
  /\ saves \in Seq(Seq(Turn)) /\ \A s \in 1..Len(saves) : saves[s] # <<>>
  /\ Flat(conversation) = Flat(saves)

(* A batch's first and last turns are ends of chunks. *)
BatchEndsAreEnds ==
  \A s \in 1..Len(saves) : saves[s][1] \in Ends /\ Last(saves[s]) \in Ends

(* The pages are the transcript to a place, and the next is named by its first turn. *)
PagesReach(flat, got, from) ==
  Distinct(flat) =>
    /\ Len(got) <= Len(flat) /\ got = SubSeq(flat, 1, Len(got))
    /\ from # NoTurn => Len(got) < Len(flat) /\ flat[Len(got) + 1] = from

(* All that some number of saves had written. *)
SomeSaves(got) == \E n \in 0..Len(saves) : got = Flat(SubSeq(saves, 1, n))

ReadingSound ==
  /\ reading \in [from : Turn \cup {NoTurn}, got : Seq(Turn), over : BOOLEAN]
  /\ reading.from # NoTurn =>
       \E i \in 1..Len(Flat(conversation)) : Flat(conversation)[i] = reading.from
  /\ reading.from = NoTurn /\ ~reading.over => reading.got = <<>>
  /\ PagesReach(Flat(conversation), reading.got, reading.from)
  /\ reading.over /\ Distinct(Flat(conversation)) => SomeSaves(reading.got)

(* A memory was drawn from a run of turns. *)
DrawnFrom(flat, src) ==
  src.first # NoTurn =>
    \E i \in 1..Len(flat), j \in 1..Len(flat) :
      i <= j /\ src.first = flat[i] /\ src.last = flat[j] /\ src.turns = SubSeq(flat, i, j)

TranscriptInv ==
  /\ ChunksHeld /\ BatchEndsAreEnds /\ ResendIsRefused
  /\ ReadingSound /\ DrawnFrom(Flat(conversation), source)

LEMMA UniqueIsDistinct ==
  ASSUME ChunksHeld
  PROVE  Unique <=> Distinct(Flat(conversation))
<1>1. PICK flat \in Seq(Turn) : flat = Flat(conversation)
  BY FlatType DEF ChunksHeld
<1>2. DOMAIN flat = 1..Len(flat)
  BY LenProperties
<1> QED BY <1>1, <1>2, Zenon DEF Unique, Distinct

LEMMA InitTranscript == TranscriptInit => TranscriptInv
<1> SUFFICES ASSUME TranscriptInit PROVE TranscriptInv
  OBVIOUS
<1>1. conversation = <<>> /\ saves = <<>> /\ source.first = NoTurn
  BY DEF TranscriptInit
<1>2. reading.from = NoTurn /\ reading.got = <<>> /\ reading.over = FALSE
      /\ reading \in [from : Turn \cup {NoTurn}, got : Seq(Turn), over : BOOLEAN]
  BY DEF TranscriptInit
<1>3. Flat(conversation) = <<>> /\ Flat(saves) = <<>>
  BY <1>1, FlatEmpty, Zenon
<1>4. ChunksHeld
  BY <1>1, <1>3 DEF ChunksHeld
<1>5. BatchEndsAreEnds /\ ResendIsRefused
  BY <1>1 DEF BatchEndsAreEnds, ResendIsRefused
<1>6. PagesReach(<<>>, <<>>, NoTurn)
  BY DEF PagesReach
<1>7. ReadingSound
  BY <1>2, <1>3, <1>6 DEF ReadingSound
<1>8. DrawnFrom(Flat(conversation), source)
  BY <1>1 DEF DrawnFrom
<1> QED BY <1>4, <1>5, <1>7, <1>8 DEF TranscriptInv

(* What was read or drawn stays so when turns are appended. *)
LEMMA PagesReachGrows ==
  ASSUME NEW flat \in Seq(Turn), NEW more \in Seq(Turn), NEW got \in Seq(Turn), NEW from,
         PagesReach(flat, got, from)
  PROVE  PagesReach(flat \o more, got, from)
<1> SUFFICES ASSUME Distinct(flat \o more)
             PROVE  /\ Len(got) <= Len(flat \o more) /\ got = SubSeq(flat \o more, 1, Len(got))
                    /\ from # NoTurn =>
                         Len(got) < Len(flat \o more) /\ (flat \o more)[Len(got) + 1] = from
  BY DEF PagesReach
<1>1. Distinct(flat)
  BY DistinctParts
<1>2. PICK n \in Nat, k \in Nat, d \in Nat : n = Len(got) /\ k = Len(flat) /\ d = Len(more)
  OBVIOUS
<1>3. n <= k /\ got = SubSeq(flat, 1, n) /\ (from # NoTurn => n < k /\ flat[n + 1] = from)
  BY <1>1, <1>2 DEF PagesReach
<1>4. Len(flat \o more) = k + d /\ \A i \in 1..k : (flat \o more)[i] = flat[i]
  BY <1>2, ConcatProperties
<1>5. SubSeq(flat \o more, 1, n) = SubSeq(flat, 1, n)
  <2>1. CASE n = 0
    <3>1. SubSeq(flat \o more, 1, n) = <<>> /\ SubSeq(flat, 1, n) = <<>>
      BY <2>1, SubSeqEmpty
    <3> QED BY <3>1
  <2>2. CASE n # 0
    <3>1. 1 \in 1..Len(flat) /\ n \in 1..Len(flat)
      BY <1>2, <1>3, <2>2
    <3> QED BY <3>1, SubSeqOfConcat1
  <2> QED BY <2>1, <2>2
<1>6. from # NoTurn => n < k + d /\ (flat \o more)[n + 1] = from
  <2>1. n < k => n + 1 \in 1..k /\ n < k + d
    OBVIOUS
  <2> QED BY <1>3, <1>4, <2>1
<1>7. n <= k + d
  BY <1>3
<1> QED BY <1>2, <1>3, <1>4, <1>5, <1>6, <1>7, Zenon

LEMMA DrawnFromGrows ==
  ASSUME NEW flat \in Seq(Turn), NEW more \in Seq(Turn), NEW src, DrawnFrom(flat, src)
  PROVE  DrawnFrom(flat \o more, src)
<1> SUFFICES ASSUME src.first # NoTurn
             PROVE  \E i \in 1..Len(flat \o more), j \in 1..Len(flat \o more) :
                      /\ i <= j /\ src.first = (flat \o more)[i] /\ src.last = (flat \o more)[j]
                      /\ src.turns = SubSeq(flat \o more, i, j)
  BY DEF DrawnFrom
<1>1. PICK i \in 1..Len(flat), j \in 1..Len(flat) :
        i <= j /\ src.first = flat[i] /\ src.last = flat[j] /\ src.turns = SubSeq(flat, i, j)
  BY DEF DrawnFrom
<1>2. Len(flat \o more) = Len(flat) + Len(more)
      /\ (flat \o more)[i] = flat[i] /\ (flat \o more)[j] = flat[j]
  BY ConcatProperties
<1>3. i \in 1..Len(flat \o more) /\ j \in 1..Len(flat \o more)
  <2>1. Len(flat) \in Nat /\ Len(more) \in Nat
    OBVIOUS
  <2> QED BY <1>2, <2>1
<1>4. SubSeq(flat \o more, i, j) = SubSeq(flat, i, j)
  BY SubSeqOfConcat1
<1> QED BY <1>1, <1>2, <1>3, <1>4, Zenon

-----------------------------------------------------------------------------
(* Each step keeps it.                                                     *)

LEMMA SaveGrows ==
  ASSUME ChunksHeld, NEW batch \in Seq(Turn), batch # <<>>, SaveTurns(batch)
  PROVE  /\ ChunksHeld'
         /\ Flat(conversation)' = Flat(conversation) \o batch
         /\ Ends \subseteq Ends'
         /\ batch[1] \in Ends' /\ Last(batch) \in Ends'
<1>1. PICK old \in Seq(Seq(Turn)), chunks \in Seq(Seq(Turn)), new \in Seq(Seq(Turn)) :
        old = conversation /\ chunks = SplitMessages(batch) /\ new = old \o chunks
  <2>1. SplitMessages(batch) \in Seq(Seq(Turn)) /\ conversation \in Seq(Seq(Turn))
    BY SplitIsSound DEF ChunksHeld
  <2>2. conversation \o SplitMessages(batch) \in Seq(Seq(Turn))
    BY <2>1, ConcatProperties
  <2> QED BY <2>1, <2>2, Zenon
<1>2. Flat(chunks) = batch /\ Tight(chunks)
  BY <1>1, SplitIsSound, Zenon
<1>3. new = conversation' /\ saves' = Append(saves, batch)
  BY <1>1, Zenon DEF SaveTurns
<1>4. PICK m \in Nat, n \in Nat : m = Len(old) /\ n = Len(chunks)
  OBVIOUS
<1>5. Len(new) = m + n /\ (\A k \in 1..m : new[k] = old[k]) /\ \A k \in 1..n : new[m + k] = chunks[k]
  <2>1. Len(new) = m + n /\ \A k \in 1..(m + n) : new[k] = IF k <= m THEN old[k] ELSE chunks[k - m]
    BY <1>1, <1>4, ConcatProperties
  <2>2. ASSUME NEW k \in 1..m PROVE k \in 1..(m + n) /\ k <= m
    OBVIOUS
  <2>3. ASSUME NEW k \in 1..n PROVE m + k \in 1..(m + n) /\ ~(m + k <= m) /\ (m + k) - m = k
    OBVIOUS
  <2> QED BY <2>1, <2>2, <2>3
<1>6. \A k \in 1..n : chunks[k] # <<>>
  BY <1>2, <1>4 DEF Tight
<1>7. ASSUME NEW k \in 1..Len(new) PROVE new[k] # <<>>
  <2>1. CASE k <= m
    <3>1. k \in 1..Len(old) /\ k \in 1..m
      BY <1>4, <2>1
    <3> QED BY <1>1, <1>5, <3>1 DEF ChunksHeld
  <2>2. CASE ~(k <= m)
    <3>1. PICK c \in 1..n : k = m + c
      <4>1. k - m \in 1..n /\ k = m + (k - m)
        BY <1>5, <2>2
      <4> QED BY <4>1
    <3> QED BY <1>5, <1>6, <3>1
  <2> QED BY <2>1, <2>2
<1>8. Flat(new) = Flat(old) \o batch
  <2>1. Flat(old \o chunks) = Flat(old) \o Flat(chunks)
    BY FlatConcat
  <2> QED BY <1>1, <1>2, <2>1, Zenon
<1>9. PICK kept \in Seq(Seq(Turn)) : kept = saves'
      /\ Flat(kept) = Flat(saves) \o batch /\ \A s \in 1..Len(kept) : kept[s] # <<>>
  <2>1. PICK was \in Seq(Seq(Turn)) : was = saves /\ \A s \in 1..Len(was) : was[s] # <<>>
    BY DEF ChunksHeld
  <2>2. PICK kept \in Seq(Seq(Turn)) : kept = Append(was, batch)
    BY AppendProperties
  <2>3. Flat(kept) = Flat(was) \o batch
    BY <2>2, FlatAppend
  <2>4. Len(kept) = Len(was) + 1 /\ kept[Len(was) + 1] = batch
        /\ \A s \in 1..Len(was) : kept[s] = was[s]
    BY <2>2, AppendProperties
  <2>5. ASSUME NEW s \in 1..Len(kept) PROVE kept[s] # <<>>
    <3>1. s \in 1..Len(was) \/ s = Len(was) + 1
      BY <2>4
    <3> QED BY <2>1, <2>4, <3>1
  <2> QED BY <1>3, <2>1, <2>2, <2>3, <2>5, Zenon
<1>10. Flat(conversation)' = Flat(new)
  BY <1>3, Zenon DEF Flat
<1>11. Flat(saves)' = Flat(kept)
  BY <1>9, Zenon DEF Flat
<1>12. ChunksHeld'
  <2>1. Flat(old) = Flat(saves)
    BY <1>1, Zenon DEF ChunksHeld
  <2>2. Flat(new) = Flat(kept)
    BY <1>8, <1>9, <2>1, Zenon
  <2>3. Flat(conversation') = Flat(saves')
    BY <1>3, <1>9, <2>2, Zenon
  <2> QED BY <1>3, <1>7, <1>9, <2>3 DEF ChunksHeld
<1>13. chunks # <<>> /\ n \in 1..n /\ 1 \in 1..n
  <2>1. chunks # <<>>
    BY <1>2, FlatEmpty, Zenon
  <2> QED BY <1>4, <2>1, EmptySeq
<1>14. batch[1] = chunks[1][1] /\ Last(batch) = Last(chunks[n])
  BY <1>2, <1>4, <1>6, <1>13, FlatEnds
<1> DEFINE ends == {new[k][1] : k \in 1..Len(new)} \cup {Last(new[k]) : k \in 1..Len(new)}
<1>15. Ends' = ends
  BY <1>3, Zenon DEF Ends
<1>16. batch[1] \in ends /\ Last(batch) \in ends
  <2>1. new[m + 1] = chunks[1] /\ new[m + n] = chunks[n]
        /\ m + 1 \in 1..Len(new) /\ m + n \in 1..Len(new)
    <3>1. new[m + 1] = chunks[1] /\ new[m + n] = chunks[n]
      BY <1>5, <1>13, Zenon
    <3>2. m + 1 \in 1..(m + n) /\ m + n \in 1..(m + n)
      BY <1>13
    <3> QED BY <1>5, <3>1, <3>2, Zenon
  <2> QED BY <1>14, <2>1, Zenon
<1>17. Ends \subseteq ends
  <2>1. ASSUME NEW k \in 1..Len(old) PROVE k \in 1..Len(new) /\ new[k] = old[k]
    BY <1>4, <1>5
  <2>2. ASSUME NEW e \in Ends PROVE e \in ends
    <3>1. PICK k \in 1..Len(old) : e = old[k][1] \/ e = Last(old[k])
      BY <1>1, Zenon DEF Ends
    <3>2. k \in 1..Len(new) /\ (e = new[k][1] \/ e = Last(new[k]))
      BY <2>1, <3>1, Zenon
    <3> QED BY <3>2, Zenon
  <2> QED BY <2>2
<1> QED BY <1>1, <1>8, <1>10, <1>12, <1>15, <1>16, <1>17, Zenon

LEMMA SaveKeepsEnds ==
  ASSUME ChunksHeld, BatchEndsAreEnds, ResendIsRefused,
         NEW batch \in Seq(Turn), batch # <<>>, SaveTurns(batch)
  PROVE  BatchEndsAreEnds' /\ ResendIsRefused'
<1>1. PICK was \in Seq(Seq(Turn)) : was = saves
  BY DEF ChunksHeld
<1>2. PICK kept \in Seq(Seq(Turn)) : kept = Append(was, batch) /\ kept = saves'
  <2>1. Append(was, batch) \in Seq(Seq(Turn))
    BY AppendProperties
  <2> QED BY <1>1, <2>1, Zenon DEF SaveTurns
<1>3. PICK n \in Nat : n = Len(was)
  OBVIOUS
<1>4. Len(kept) = n + 1 /\ kept[n + 1] = batch /\ \A s \in 1..n : kept[s] = was[s]
  <2>1. /\ Len(Append(was, batch)) = Len(was) + 1 /\ Append(was, batch)[Len(was) + 1] = batch
        /\ \A s \in 1..Len(was) : Append(was, batch)[s] = was[s]
    BY AppendProperties
  <2> QED BY <1>2, <1>3, <2>1, Zenon
<1>5. \A s \in 1..Len(kept) : s \in 1..n \/ s = n + 1
  BY <1>4
<1>6. Ends \subseteq Ends' /\ batch[1] \in Ends' /\ Last(batch) \in Ends'
  BY SaveGrows
<1>7. \A s \in 1..n : was[s][1] \in Ends /\ Last(was[s]) \in Ends
  BY <1>1, <1>3 DEF BatchEndsAreEnds
<1>8. ASSUME NEW s \in 1..Len(kept) PROVE kept[s][1] \in Ends' /\ Last(kept[s]) \in Ends'
  <2>1. CASE s \in 1..n
    <3>1. kept[s] = was[s]
      BY <1>4, <2>1
    <3>2. was[s][1] \in Ends /\ Last(was[s]) \in Ends
      BY <1>7, <2>1
    <3> QED BY <1>6, <3>1, <3>2, Zenon
  <2>2. CASE s = n + 1
    <3>1. kept[s] = batch
      BY <1>4, <2>2
    <3> QED BY <1>6, <3>1, Zenon
  <2> QED BY <1>5, <2>1, <2>2
<1>9. BatchEndsAreEnds'
  <2>1. \A s \in 1..Len(saves') : saves'[s][1] \in Ends' /\ Last(saves'[s]) \in Ends'
    BY <1>2, <1>8, Zenon
  <2> QED BY <2>1, Zenon DEF BatchEndsAreEnds, Last
<1>10. DOMAIN kept = 1..(n + 1) /\ DOMAIN was = 1..n
  BY <1>3, <1>4, LenProperties
<1>11. Range(batch) \cap Ends = {}
  BY DEF SaveTurns, Valid
<1>12. ASSUME NEW s \in 1..(n + 1), NEW t \in 1..(n + 1), s < t
       PROVE  {kept[s][1], Last(kept[s])} \cap Range(kept[t]) = {}
  <2>1. s \in 1..n
    BY <1>12
  <2>2. kept[s] = was[s]
    BY <1>4, <2>1
  <2>3. CASE t \in 1..n
    <3>1. kept[t] = was[t]
      BY <1>4, <2>3
    <3>2. {was[s][1], Last(was[s])} \cap Range(was[t]) = {}
      BY <1>1, <1>10, <1>12, <2>1, <2>3, Zenon DEF ResendIsRefused
    <3> QED BY <2>2, <3>1, <3>2, Zenon
  <2>4. CASE t = n + 1
    <3>1. kept[t] = batch
      BY <1>4, <2>4
    <3>2. was[s][1] \in Ends /\ Last(was[s]) \in Ends
      BY <1>7, <2>1
    <3> QED BY <1>11, <2>2, <3>1, <3>2, Zenon
  <2> QED BY <2>3, <2>4
<1>13. ResendIsRefused'
  <2>1. \A s, t \in DOMAIN saves' : s < t => {saves'[s][1], Last(saves'[s])} \cap Range(saves'[t]) = {}
    BY <1>2, <1>10, <1>12, Zenon
  <2> QED BY <2>1, Zenon DEF ResendIsRefused, Last, Range
<1> QED BY <1>9, <1>13

LEMMA SaveKeepsReading ==
  ASSUME ChunksHeld, ReadingSound, NEW batch \in Seq(Turn), batch # <<>>, SaveTurns(batch)
  PROVE  ReadingSound'
<1>1. PICK flat \in Seq(Turn) : flat = Flat(conversation)
  BY FlatType DEF ChunksHeld
<1>2. PICK longer \in Seq(Turn) : longer = flat \o batch /\ longer = Flat(conversation')
  <2>1. flat \o batch \in Seq(Turn)
    BY ConcatProperties
  <2>2. Flat(conversation)' = flat \o batch
    BY <1>1, SaveGrows, Zenon
  <2>3. Flat(conversation') = flat \o batch
    BY <2>2, Zenon DEF Flat
  <2> QED BY <2>1, <2>3, Zenon
<1>3. reading' = reading /\ saves' = Append(saves, batch)
  BY DEF SaveTurns
<1>4. PICK got \in Seq(Turn) : got = reading.got
  BY DEF ReadingSound
<1>5. PagesReach(longer, got, reading.from)
  <2>1. PagesReach(flat, got, reading.from)
    BY <1>1, <1>4, Zenon DEF ReadingSound
  <2> QED BY <1>2, <2>1, PagesReachGrows
<1>6. Len(longer) = Len(flat) + Len(batch) /\ \A i \in 1..Len(flat) : longer[i] = flat[i]
  <2>1. /\ Len(flat \o batch) = Len(flat) + Len(batch)
        /\ \A i \in 1..Len(flat) : (flat \o batch)[i] = flat[i]
    BY ConcatProperties
  <2> QED BY <1>2, <2>1, Zenon
<1>7. reading.from # NoTurn => \E i \in 1..Len(longer) : longer[i] = reading.from
  <2>1. SUFFICES ASSUME reading.from # NoTurn PROVE \E i \in 1..Len(longer) : longer[i] = reading.from
    OBVIOUS
  <2>2. PICK i \in 1..Len(flat) : flat[i] = reading.from
    BY <1>1, <2>1 DEF ReadingSound
  <2>3. Len(flat) \in Nat /\ Len(batch) \in Nat
    OBVIOUS
  <2>4. i \in 1..Len(longer) /\ longer[i] = flat[i]
    BY <1>6, <2>3
  <2> QED BY <2>2, <2>4
<1>8. reading.over /\ Distinct(longer) => \E n \in 0..Len(saves') : got = Flat(SubSeq(saves', 1, n))
  <2>1. SUFFICES ASSUME reading.over, Distinct(longer)
                 PROVE  \E n \in 0..Len(saves') : got = Flat(SubSeq(saves', 1, n))
    OBVIOUS
  <2>2. Distinct(flat)
    BY <1>2, <2>1, DistinctParts
  <2>3. PICK was \in Seq(Seq(Turn)) : was = saves
    BY DEF ChunksHeld
  <2>4. PICK n \in 0..Len(was) : got = Flat(SubSeq(was, 1, n))
    BY <1>1, <1>4, <2>1, <2>2, <2>3, Zenon DEF ReadingSound, SomeSaves
  <2>5. PICK one \in Seq(Seq(Turn)) : one = <<batch>>
    <3>1. <<batch>> \in Seq(Seq(Turn))
      OBVIOUS
    <3> QED BY <3>1, Zenon
  <2>6. saves' = was \o one
    BY <1>3, <2>3, <2>5, AppendIsConcat
  <2>7. Len(was \o one) = Len(was) + 1
    BY <2>5, ConcatProperties
  <2>8. n \in 0..Len(was \o one)
    BY <2>7
  <2>9. SubSeq(was \o one, 1, n) = SubSeq(was, 1, n)
    <3>1. CASE n = 0
      <4>1. SubSeq(was \o one, 1, n) = <<>> /\ SubSeq(was, 1, n) = <<>>
        BY <3>1, SubSeqEmpty
      <4> QED BY <4>1
    <3>2. CASE n # 0
      <4>1. 1 \in 1..Len(was) /\ n \in 1..Len(was)
        BY <3>2
      <4> QED BY <4>1, SubSeqOfConcat1
    <3> QED BY <3>1, <3>2
  <2> QED BY <2>4, <2>6, <2>8, <2>9, Zenon
<1>9. reading.from = NoTurn /\ ~reading.over => reading.got = <<>>
  BY DEF ReadingSound
<1>10. reading \in [from : Turn \cup {NoTurn}, got : Seq(Turn), over : BOOLEAN]
  BY DEF ReadingSound
<1> QED BY <1>2, <1>3, <1>4, <1>5, <1>7, <1>8, <1>9, <1>10, Zenon DEF ReadingSound, SomeSaves, Flat

(* Where the reader is: the turns that are left, and what was read before them. *)
LEMMA PagePlace ==
  ASSUME ChunksHeld, ReadingSound, ~reading.over,
         NEW flat \in Seq(Turn), flat = Flat(conversation)
  PROVE  \E p \in 1..(Len(flat) + 1) :
           /\ TurnsFrom(reading.from) = SubSeq(flat, p, Len(flat))
           /\ Distinct(flat) => reading.got = SubSeq(flat, 1, p - 1)
<1>1. CASE reading.from = NoTurn
  <2>1. TurnsFrom(reading.from) = flat
    BY <1>1 DEF TurnsFrom
  <2>2. reading.got = <<>>
    BY <1>1 DEF ReadingSound
  <2>3. SubSeq(flat, 1, Len(flat)) = flat
    BY SubSeqFull
  <2>4. SubSeq(flat, 1, 1 - 1) = <<>>
    BY SubSeqEmpty
  <2>5. 1 \in 1..(Len(flat) + 1)
    OBVIOUS
  <2> QED BY <2>1, <2>2, <2>3, <2>4, <2>5, Zenon
<1>2. CASE reading.from # NoTurn
  <2>1. PICK i \in 1..Len(flat) : flat[i] = reading.from
    BY <1>2 DEF ReadingSound
  <2>2. PICK p \in 1..Len(flat) :
          flat[p] = reading.from /\ TurnsFrom(reading.from) = SubSeq(flat, p, Len(flat))
    BY <1>2, <2>1, TurnsFromSound DEF ChunksHeld
  <2>3. ASSUME Distinct(flat) PROVE reading.got = SubSeq(flat, 1, p - 1)
    <3>1. PICK got \in Seq(Turn) : got = reading.got
      BY DEF ReadingSound
    <3>2. got = SubSeq(flat, 1, Len(got)) /\ Len(got) < Len(flat) /\ flat[Len(got) + 1] = reading.from
      BY <1>2, <2>3, <3>1, Zenon DEF ReadingSound, PagesReach
    <3>3. Len(got) + 1 \in 1..Len(flat)
      BY <3>2
    <3>4. Len(got) + 1 = p
      BY <2>2, <2>3, <3>2, <3>3, Zenon DEF Distinct
    <3>5. Len(got) = p - 1
      BY <3>4
    <3> QED BY <3>1, <3>2, <3>5, Zenon
  <2>4. p \in 1..(Len(flat) + 1)
    OBVIOUS
  <2> QED BY <2>2, <2>3, <2>4, Zenon
<1> QED BY <1>1, <1>2

LEMMA ReadKeepsReading ==
  ASSUME ChunksHeld, ReadingSound, NEW limit \in PageLimits, ReadPage(limit)
  PROVE  ReadingSound'
<1>1. PICK flat \in Seq(Turn) : flat = Flat(conversation)
  BY FlatType DEF ChunksHeld
<1>2. PICK n \in Nat : n = Len(flat)
  OBVIOUS
<1>3. conversation' = conversation /\ saves' = saves /\ ~reading.over
  BY DEF ReadPage
<1>4. limit \in Nat
  BY TranscriptAssumption
<1>5. PICK got \in Seq(Turn) : got = reading.got
  BY DEF ReadingSound
<1>6. PICK p \in 1..(n + 1) :
        /\ TurnsFrom(reading.from) = SubSeq(flat, p, n)
        /\ Distinct(flat) => got = SubSeq(flat, 1, p - 1)
  <2>1. \E p \in 1..(Len(flat) + 1) :
          /\ TurnsFrom(reading.from) = SubSeq(flat, p, Len(flat))
          /\ Distinct(flat) => reading.got = SubSeq(flat, 1, p - 1)
    BY <1>1, <1>3, PagePlace
  <2> QED BY <1>2, <1>5, <2>1, Zenon
<1>7. PICK turns \in Seq(Turn) : /\ turns = SubSeq(flat, p, n) /\ Len(turns) = n - p + 1
                                 /\ \A i \in 1..(n - p + 1) : turns[i] = flat[p + i - 1]
  <2>1. \A i \in p..n : flat[i] \in Turn
    BY <1>2
  <2>2. SubSeq(flat, p, n) \in Seq(Turn) /\ Len(SubSeq(flat, p, n)) = n - p + 1
        /\ \A i \in 1..(n - p + 1) : SubSeq(flat, p, n)[i] = flat[p + i - 1]
    BY <2>1, SubSeqProperties
  <2> QED BY <2>2, Zenon
<1> DEFINE more == limit > 0 /\ Len(turns) > limit
           out == IF more THEN SubSeq(turns, 1, limit) ELSE turns
<1>8. reading' = [from |-> IF more THEN NextFrom(turns, limit) ELSE NoTurn,
                  got |-> got \o out, over |-> ~more]
  BY <1>5, <1>6, <1>7, Zenon DEF ReadPage
<1>9. CASE more
  <2>1. limit \in 1..(n - p) /\ limit + 1 \in 1..(n - p + 1) /\ p + limit \in 1..n
    BY <1>4, <1>7, <1>9
  <2>2. PICK next \in Turn : next = turns[limit + 1] /\ next = flat[p + limit]
    <3>1. turns[limit + 1] \in Turn
      BY <1>7, <2>1
    <3>2. p + (limit + 1) - 1 = p + limit
      BY <1>4
    <3>3. turns[limit + 1] = flat[p + limit]
      BY <1>7, <2>1, <3>2
    <3> QED BY <3>1, <3>3
  <2>3. PICK part \in Seq(Turn) : part = SubSeq(turns, 1, limit) /\ part = SubSeq(flat, p, p + limit - 1)
    <3>1. SubSeq(turns, 1, limit) \in Seq(Turn)
      BY <1>4, <1>7, <2>1
    <3>2. SubSeq(turns, 1, limit) = SubSeq(flat, p, p + limit - 1)
      <4>1. p \in 1..Len(flat) /\ n \in 1..Len(flat) /\ 1 \in 1..(n - p + 1) /\ limit \in 1..(n - p + 1)
        BY <1>2, <2>1
      <4>2. SubSeq(SubSeq(flat, p, n), 1, limit) = SubSeq(flat, p + 1 - 1, p + limit - 1)
        BY <4>1, SubSeqOfSubSeq
      <4>3. p + 1 - 1 = p
        OBVIOUS
      <4> QED BY <1>7, <4>2, <4>3, Zenon
    <3> QED BY <3>1, <3>2, Zenon
  <2>4. PICK all \in Seq(Turn) : all = got \o part
    BY ConcatProperties
  <2>5. out = part
    BY <1>9, <2>3, Zenon
  <2>6. NextFrom(turns, limit) = next
    BY <2>2 DEF NextFrom
  <2>7. reading' = [from |-> next, got |-> all, over |-> FALSE]
    <3> HIDE DEF out
    <3> QED BY <1>8, <1>9, <2>4, <2>5, <2>6, Zenon
  <2>8. reading'.from = next /\ reading'.got = all /\ reading'.over = FALSE
        /\ reading' \in [from : Turn \cup {NoTurn}, got : Seq(Turn), over : BOOLEAN]
    BY <2>7
  <2>9. PagesReach(flat, all, next)
    <3> SUFFICES ASSUME Distinct(flat)
                 PROVE  /\ Len(all) <= Len(flat) /\ all = SubSeq(flat, 1, Len(all))
                        /\ Len(all) < Len(flat) /\ flat[Len(all) + 1] = next
      BY DEF PagesReach
    <3>1. all = SubSeq(flat, 1, p - 1) \o SubSeq(flat, (p - 1) + 1, p + limit - 1)
      <4>1. (p - 1) + 1 = p
        OBVIOUS
      <4> QED BY <1>6, <2>3, <2>4, <4>1, Zenon
    <3>2. SubSeq(flat, 1, p - 1) \o SubSeq(flat, (p - 1) + 1, p + limit - 1) = SubSeq(flat, 1, p + limit - 1)
      <4>1. 1 \in 1..(Len(flat) + 1) /\ p - 1 \in (1 - 1)..Len(flat) /\ p + limit - 1 \in (p - 1)..Len(flat)
        BY <1>2, <1>4, <2>1
      <4> QED BY <4>1, ConcatAdjacentSubSeq
    <3>3. all = SubSeq(flat, 1, p + limit - 1)
      BY <3>1, <3>2, Zenon
    <3>4. Len(SubSeq(flat, 1, p + limit - 1)) = p + limit - 1
      <4>1. p + limit - 1 \in 1..n
        BY <1>4, <2>1
      <4> QED BY <1>2, <4>1
    <3>5. PICK k \in Nat : k = Len(all) /\ k = p + limit - 1 /\ k < n /\ k + 1 = p + limit
      <4>1. Len(all) = p + limit - 1
        BY <3>3, <3>4, Zenon
      <4>2. p + limit - 1 \in Nat /\ p + limit - 1 < n /\ (p + limit - 1) + 1 = p + limit
        BY <1>4, <2>1
      <4> QED BY <4>1, <4>2
    <3>6. k <= n
      BY <3>5
    <3> QED BY <1>2, <2>2, <3>3, <3>5, <3>6, Zenon
  <2>10. p + limit \in 1..Len(flat) /\ flat[p + limit] = next
    BY <1>2, <2>1, <2>2
  <2>11. next # NoTurn
    BY TranscriptAssumption DEF NoTurn
  <2> QED BY <1>1, <1>3, <2>8, <2>9, <2>10, <2>11, Zenon DEF ReadingSound
<1>10. CASE ~more
  <2>1. PICK all \in Seq(Turn) : all = got \o turns
    BY ConcatProperties
  <2>2. out = turns
    BY <1>10, Zenon
  <2>3. reading' = [from |-> NoTurn, got |-> all, over |-> TRUE]
    <3> HIDE DEF out
    <3> QED BY <1>8, <1>10, <2>1, <2>2, Zenon
  <2>4. reading'.from = NoTurn /\ reading'.got = all /\ reading'.over = TRUE
        /\ reading' \in [from : Turn \cup {NoTurn}, got : Seq(Turn), over : BOOLEAN]
    BY <2>3
  <2>5. ASSUME Distinct(flat) PROVE all = flat
    <3>1. all = SubSeq(flat, 1, p - 1) \o SubSeq(flat, (p - 1) + 1, n)
      <4>1. (p - 1) + 1 = p
        OBVIOUS
      <4> QED BY <1>6, <1>7, <2>1, <2>5, <4>1, Zenon
    <3>2. SubSeq(flat, 1, p - 1) \o SubSeq(flat, (p - 1) + 1, n) = SubSeq(flat, 1, n)
      <4>1. 1 \in 1..(Len(flat) + 1) /\ p - 1 \in (1 - 1)..Len(flat) /\ n \in (p - 1)..Len(flat)
        BY <1>2
      <4> QED BY <4>1, ConcatAdjacentSubSeq
    <3>3. SubSeq(flat, 1, n) = flat
      BY <1>2, SubSeqFull
    <3> QED BY <3>1, <3>2, <3>3, Zenon
  <2>6. PagesReach(flat, all, NoTurn)
    <3>1. SubSeq(flat, 1, Len(flat)) = flat /\ Len(flat) <= Len(flat)
      BY SubSeqFull
    <3> QED BY <2>5, <3>1, Zenon DEF PagesReach
  <2>7. Distinct(flat) => SomeSaves(all)
    <3>1. PICK was \in Seq(Seq(Turn)) : was = saves
      BY DEF ChunksHeld
    <3>2. SubSeq(was, 1, Len(was)) = was /\ Len(was) \in 0..Len(was)
      BY SubSeqFull
    <3>3. Flat(was) = flat
      BY <1>1, <3>1, Zenon DEF ChunksHeld
    <3> QED BY <2>5, <3>1, <3>2, <3>3, Zenon DEF SomeSaves
  <2> QED BY <1>1, <1>3, <2>4, <2>6, <2>7, Zenon DEF ReadingSound, SomeSaves
<1> QED BY <1>9, <1>10

LEMMA SaveStep ==
  ASSUME TranscriptInv, NEW batch \in Seq(Turn), batch # <<>>, SaveTurns(batch)
  PROVE  TranscriptInv'
<1>1. ChunksHeld /\ BatchEndsAreEnds /\ ResendIsRefused /\ ReadingSound
      /\ DrawnFrom(Flat(conversation), source)
  BY DEF TranscriptInv
<1>2. ChunksHeld' /\ Flat(conversation)' = Flat(conversation) \o batch
  BY <1>1, SaveGrows
<1>3. BatchEndsAreEnds' /\ ResendIsRefused'
  BY <1>1, SaveKeepsEnds
<1>4. ReadingSound'
  BY <1>1, SaveKeepsReading
<1>5. DrawnFrom(Flat(conversation), source)'
  <2>1. PICK flat \in Seq(Turn) : flat = Flat(conversation)
    BY <1>1, FlatType DEF ChunksHeld
  <2>2. DrawnFrom(flat \o batch, source)
    BY <1>1, <2>1, DrawnFromGrows
  <2>3. source' = source
    BY DEF SaveTurns
  <2>4. Flat(conversation') = flat \o batch
    BY <1>2, <2>1, Zenon DEF Flat
  <2>5. DrawnFrom(Flat(conversation'), source')
    BY <2>2, <2>3, <2>4, Zenon
  <2> QED BY <2>5, Zenon DEF DrawnFrom, Flat
<1> QED BY <1>2, <1>3, <1>4, <1>5 DEF TranscriptInv

LEMMA EndsStay ==
  ASSUME BatchEndsAreEnds, ResendIsRefused, conversation' = conversation, saves' = saves
  PROVE  BatchEndsAreEnds' /\ ResendIsRefused'
<1>1. Ends' = Ends
  BY Zenon DEF Ends, Last
<1>2. \A s \in 1..Len(saves) : saves[s][1] \in Ends /\ Last(saves[s]) \in Ends
  BY DEF BatchEndsAreEnds
<1>3. \A s \in 1..Len(saves') : saves'[s][1] \in Ends' /\ Last(saves'[s]) \in Ends'
  BY <1>1, <1>2, Zenon
<1>4. BatchEndsAreEnds'
  BY <1>3, Zenon DEF BatchEndsAreEnds, Last
<1>5. \A s, t \in DOMAIN saves : s < t => {saves[s][1], Last(saves[s])} \cap Range(saves[t]) = {}
  BY DEF ResendIsRefused
<1>6. \A s, t \in DOMAIN saves' : s < t => {saves'[s][1], Last(saves'[s])} \cap Range(saves'[t]) = {}
  BY <1>5, Zenon
<1>7. ResendIsRefused'
  BY <1>6, Zenon DEF ResendIsRefused, Last, Range
<1> QED BY <1>4, <1>7

LEMMA ReadStep ==
  ASSUME TranscriptInv, NEW limit \in PageLimits, ReadPage(limit)
  PROVE  TranscriptInv'
<1>1. ChunksHeld /\ BatchEndsAreEnds /\ ResendIsRefused /\ ReadingSound
      /\ DrawnFrom(Flat(conversation), source)
  BY DEF TranscriptInv
<1>2. conversation' = conversation /\ saves' = saves /\ source' = source
  BY DEF ReadPage
<1>3. ReadingSound'
  BY <1>1, ReadKeepsReading
<1>4. ChunksHeld' /\ DrawnFrom(Flat(conversation), source)'
  BY <1>1, <1>2, Zenon DEF ChunksHeld, DrawnFrom, Flat
<1>5. BatchEndsAreEnds' /\ ResendIsRefused'
  BY <1>1, <1>2, EndsStay
<1> QED BY <1>3, <1>4, <1>5 DEF TranscriptInv

LEMMA DrawStep ==
  ASSUME TranscriptInv,
         NEW i \in 1..Len(Flat(conversation)), NEW j \in 1..Len(Flat(conversation)),
         i <= j, DrawMemory(i, j)
  PROVE  TranscriptInv'
<1>1. ChunksHeld /\ BatchEndsAreEnds /\ ResendIsRefused /\ ReadingSound
  BY DEF TranscriptInv
<1>2. conversation' = conversation /\ saves' = saves /\ reading' = reading
  BY DEF DrawMemory
<1>3. ReadingSound' /\ ChunksHeld'
  BY <1>1, <1>2, Zenon DEF ReadingSound, ChunksHeld, SomeSaves, Flat
<1>4. BatchEndsAreEnds' /\ ResendIsRefused'
  BY <1>1, <1>2, EndsStay
<1>5. PICK flat \in Seq(Turn) : flat = Flat(conversation)
  BY <1>1, FlatType DEF ChunksHeld
<1>6. source' = [first |-> flat[i], last |-> flat[j], turns |-> SubSeq(flat, i, j)]
  BY <1>5, Zenon DEF DrawMemory
<1>7. source'.first = flat[i] /\ source'.last = flat[j] /\ source'.turns = SubSeq(flat, i, j)
  BY <1>6
<1>8. flat = Flat(conversation)'
  BY <1>2, <1>5, Zenon DEF Flat
<1>9. DrawnFrom(flat, source')
  BY <1>5, <1>7, Zenon DEF DrawnFrom
<1>10. DrawnFrom(Flat(conversation), source)'
  BY <1>8, <1>9, Zenon DEF DrawnFrom
<1> QED BY <1>3, <1>4, <1>10 DEF TranscriptInv

LEMMA TranscriptStep == TranscriptInv /\ [TranscriptNext]_transcriptVars => TranscriptInv'
<1> SUFFICES ASSUME TranscriptInv, [TranscriptNext]_transcriptVars PROVE TranscriptInv'
  OBVIOUS
<1>1. CASE \E batch \in SeqOf(Turn, MaxBatch) : batch # <<>> /\ SaveTurns(batch)
  <2>1. PICK batch \in SeqOf(Turn, MaxBatch) : batch # <<>> /\ SaveTurns(batch)
    BY <1>1
  <2>2. PICK n \in 0..MaxBatch : batch \in [1..n -> Turn]
    BY <2>1 DEF SeqOf
  <2>3. batch \in Seq(Turn)
    BY <2>2, TranscriptAssumption
  <2> QED BY <2>1, <2>3, SaveStep
<1>2. CASE \E limit \in PageLimits : ReadPage(limit)
  BY <1>2, ReadStep
<1>3. CASE \E i, j \in 1..Len(Flat(conversation)) : i <= j /\ DrawMemory(i, j)
  <2>1. PICK i \in 1..Len(Flat(conversation)), j \in 1..Len(Flat(conversation)) :
          i <= j /\ DrawMemory(i, j)
    BY <1>3, Zenon
  <2> QED BY <2>1, DrawStep, Zenon
<1>4. CASE UNCHANGED transcriptVars
  <2>1. conversation' = conversation /\ saves' = saves /\ reading' = reading /\ source' = source
    BY <1>4 DEF transcriptVars
  <2>2. ChunksHeld'
    BY <2>1, Zenon DEF TranscriptInv, ChunksHeld, Flat
  <2>4. BatchEndsAreEnds' /\ ResendIsRefused'
    BY <2>1, EndsStay DEF TranscriptInv
  <2>3. ReadingSound' /\ DrawnFrom(Flat(conversation), source)'
    BY <2>1, Zenon DEF TranscriptInv, ReadingSound, SomeSaves, DrawnFrom, Flat
  <2> QED BY <2>2, <2>3, <2>4 DEF TranscriptInv
<1> QED BY <1>1, <1>2, <1>3, <1>4 DEF TranscriptNext

LEMMA TranscriptInvariant == TranscriptSpec => []TranscriptInv
BY InitTranscript, TranscriptStep, PTL DEF TranscriptSpec

-----------------------------------------------------------------------------

LEMMA InvTypes == TranscriptInv => TranscriptTypeOK
<1> SUFFICES ASSUME TranscriptInv PROVE TranscriptTypeOK
  OBVIOUS
<1>1. ChunksHeld /\ ReadingSound
  BY DEF TranscriptInv
<1>2. PICK old \in Seq(Seq(Turn)) : old = conversation
  BY <1>1 DEF ChunksHeld
<1>3. DOMAIN old = 1..Len(old) /\ \A k \in 1..Len(old) : old[k] # <<>> /\ old[k] \in Seq(Turn)
  BY <1>1, <1>2, LenProperties DEF ChunksHeld
<1>4. \A chunk \in Seq(Turn) : Range(chunk) \subseteq Turn
  BY DEF Range
<1>5. PICK flat \in Seq(Turn) : flat = Flat(conversation)
  BY <1>1, FlatType DEF ChunksHeld
<1>6. DOMAIN flat = 1..Len(flat)
  BY LenProperties
<1>7. reading.from # NoTurn => reading.from \in Range(flat)
  <2>1. reading.from # NoTurn => \E i \in 1..Len(flat) : flat[i] = reading.from
    BY <1>1, <1>5, Zenon DEF ReadingSound
  <2> QED BY <1>6, <2>1, Zenon DEF Range
<1>8. reading.from \in Range(flat) \cup {NoTurn}
  BY <1>7, Zenon
<1>9. Flat(conversation) = Flat(saves)
  BY <1>1 DEF ChunksHeld
<1>10. \A i \in DOMAIN conversation : conversation[i] # <<>> /\ Range(conversation[i]) \subseteq Turn
  BY <1>2, <1>3, <1>4, Zenon
<1> QED BY <1>5, <1>8, <1>9, <1>10, Zenon DEF TranscriptTypeOK

LEMMA InvTight == TranscriptInv => SplitIsTight
<1> SUFFICES ASSUME TranscriptInv, NEW s \in DOMAIN saves
             PROVE  /\ Flat(SplitMessages(saves[s])) = saves[s]
                    /\ \A g \in DOMAIN SplitMessages(saves[s]) :
                         /\ Len(SplitMessages(saves[s])[g]) > 1 => Total(SplitMessages(saves[s])[g]) <= Target
                         /\ g < Len(SplitMessages(saves[s])) =>
                              Total(SplitMessages(saves[s])[g])
                                + Weight[SplitMessages(saves[s])[g + 1][1]] > Target
  BY Zenon DEF SplitIsTight
<1>1. PICK was \in Seq(Seq(Turn)) : was = saves
  BY DEF TranscriptInv, ChunksHeld
<1>2. PICK batch \in Seq(Turn) : batch = saves[s]
  <2>1. s \in DOMAIN was
    BY <1>1
  <2>2. was[s] \in Seq(Turn)
    BY <2>1, LenProperties
  <2> QED BY <1>1, <2>2, Zenon
<1>3. PICK groups \in Seq(Seq(Turn)) : groups = SplitMessages(batch) /\ Flat(groups) = batch /\ Tight(groups)
  BY SplitIsSound, Zenon
<1>4. DOMAIN groups = 1..Len(groups)
  BY LenProperties
<1> QED BY <1>2, <1>3, <1>4, Zenon DEF Tight

LEMMA InvPages == TranscriptInv => PagesAreTranscript
<1> SUFFICES ASSUME TranscriptInv, Unique
             PROVE  /\ reading.got = SubSeq(Flat(conversation), 1, Len(reading.got))
                    /\ reading.from # NoTurn =>
                         Flat(conversation)[Len(reading.got) + 1] = reading.from
                    /\ reading.over => \E n \in 0..Len(saves) : reading.got = Flat(SubSeq(saves, 1, n))
  BY Zenon DEF PagesAreTranscript
<1>1. ReadingSound /\ Distinct(Flat(conversation))
  BY UniqueIsDistinct DEF TranscriptInv
<1> QED BY <1>1, Zenon DEF ReadingSound, PagesReach, SomeSaves

LEMMA InvSpan == TranscriptInv => SpanIsStable
<1> SUFFICES ASSUME TranscriptInv, Unique, source.first # NoTurn
             PROVE  Select(source.first, source.last, Flat(conversation)) = source.turns
  BY Zenon DEF SpanIsStable
<1>1. PICK flat \in Seq(Turn) : flat = Flat(conversation)
  BY FlatType DEF TranscriptInv, ChunksHeld
<1>2. Distinct(flat)
  BY <1>1, UniqueIsDistinct DEF TranscriptInv
<1>3. PICK i \in 1..Len(flat), j \in 1..Len(flat) :
        /\ i <= j /\ source.first = flat[i] /\ source.last = flat[j]
        /\ source.turns = SubSeq(flat, i, j)
  BY <1>1, Zenon DEF TranscriptInv, DrawnFrom
<1>4. j \in i..Len(flat)
  BY <1>3
<1>5. Select(flat[i], flat[j], flat) = SubSeq(flat, i, j)
  BY <1>2, <1>4, SelectIsRun
<1> QED BY <1>1, <1>3, <1>5, Zenon

(***************************************************************************)
(* The chunks a conversation's head names hold the turns that were saved,  *)
(* in order, none of them is empty, and a reader that is not done has a    *)
(* turn of the conversation to go on from: for every set of turns, every   *)
(* size and target, every bound on a batch and every page size.            *)
(***************************************************************************)
THEOREM TranscriptTypeCorrect == TranscriptSpec => []TranscriptTypeOK
BY TranscriptInvariant, InvTypes, PTL

(***************************************************************************)
(* validateAppend compares a batch with the ends of chunks alone, and that *)
(* is enough to refuse what was saved before: however SplitMessages cut    *)
(* it, a batch's first and last turns are ends of chunks.                  *)
(***************************************************************************)
THEOREM ResendsAreRefused == TranscriptSpec => []ResendIsRefused
<1>1. TranscriptInv => ResendIsRefused
  BY DEF TranscriptInv
<1> QED BY <1>1, TranscriptInvariant, PTL

(***************************************************************************)
(* SplitMessages cuts where the next turn would not fit and nowhere else,  *)
(* pages of any sizes read while the conversation grows are its turns from *)
(* the first, and Span.Select finds the turns a memory was drawn from.     *)
(***************************************************************************)
THEOREM TranscriptsReadBack == TranscriptSpec => []TranscriptReadsBack
<1>1. TranscriptInv => TranscriptReadsBack
  BY InvTight, InvPages, InvSpan DEF TranscriptReadsBack
<1> QED BY <1>1, TranscriptInvariant, PTL

-----------------------------------------------------------------------------
(* The order of a recall: where a record is found, and what it scores.     *)

Candidate == [id : Found, score : Nat, lexical : Nat]

FirstPlace(s, id) == SelectInSeq(s, LAMBDA x : x = id)

LEMMA FirstPlaceFound ==
  ASSUME NEW s \in Seq(Found), NEW id, \E i \in 1..Len(s) : s[i] = id
  PROVE  /\ FirstPlace(s, id) \in 1..Len(s) /\ s[FirstPlace(s, id)] = id
         /\ \A i \in 1..Len(s) : s[i] = id => FirstPlace(s, id) <= i
<1> DEFINE I == {i \in 1..Len(s) : s[i] = id}
<1>1. I \in SUBSET Nat /\ I # {}
  OBVIOUS
<1>2. FirstPlace(s, id) = Min(I)
  BY <1>1 DEF FirstPlace, SelectInSeq
<1>3. \E x \in I : \A y \in I : x <= y
  <2> HIDE DEF I
  <2> QED BY <1>1, LeastNumber
<1>4. Min(I) \in I /\ \A y \in I : Min(I) <= y
  <2> HIDE DEF I
  <2> QED BY <1>3 DEF Min
<1> QED BY <1>2, <1>4

LEMMA RangeIsPlaces ==
  ASSUME NEW S, NEW s \in Seq(S), NEW id
  PROVE  id \in Range(s) <=> \E i \in 1..Len(s) : s[i] = id
<1>1. DOMAIN s = 1..Len(s)
  BY LenProperties
<1> QED BY <1>1, Zenon DEF Range

LEMMA PartHeld ==
  ASSUME NEW s \in Seq(Found), NEW weight \in Nat, NEW id, id \in Range(s)
  PROVE  Part(s, id, weight) = weight \div (RRFk + FirstPlace(s, id))
  BY Zenon DEF Part, FirstPlace

LEMMA PartNotHeld ==
  ASSUME NEW s, NEW weight, NEW id, id \notin Range(s)
  PROVE  Part(s, id, weight) = 0
  BY DEF Part

LEMMA DividedType ==
  ASSUME NEW weight \in Nat, NEW at \in Nat
  PROVE  weight \div (RRFk + at) \in Nat
<1>1. RRFk + at \in Nat \ {0}
  BY DEF RRFk
<1>2. \A w \in Nat, d \in Nat \ {0} : w \div d \in Nat
  OBVIOUS
<1> QED BY <1>1, <1>2

LEMMA PartType ==
  ASSUME NEW s \in Seq(Found), NEW weight \in Nat, NEW id
  PROVE  Part(s, id, weight) \in Nat
<1>1. CASE id \in Range(s)
  <2>1. FirstPlace(s, id) \in Nat
    BY <1>1, RangeIsPlaces, FirstPlaceFound
  <2> QED BY <1>1, <2>1, PartHeld, DividedType
<1>2. CASE id \notin Range(s)
  BY <1>2, PartNotHeld
<1> QED BY <1>1, <1>2

(* A part that has come to nothing stays so at a later place. *)
LEMMA DividedFalls ==
  ASSUME NEW weight \in Nat, NEW p \in Nat, NEW q \in Nat, p <= q,
         weight \div (RRFk + p) = 0
  PROVE  weight \div (RRFk + q) = 0
<1>1. \A d \in Nat \ {0} : weight \div d = 0 <=> weight < d
  OBVIOUS
<1>2. RRFk + p \in Nat \ {0} /\ RRFk + q \in Nat \ {0} /\ RRFk + p <= RRFk + q
  BY DEF RRFk
<1>3. weight < RRFk + p
  BY <1>1, <1>2
<1>4. weight < RRFk + q
  BY <1>2, <1>3
<1> QED BY <1>1, <1>2, <1>4

(* The place of a record in a pass that returned one more. *)
LEMMA PartAppend ==
  ASSUME NEW t \in Seq(Found), NEW x \in Found, NEW id, NEW weight \in Nat
  PROVE  /\ Append(t, x) \in Seq(Found)
         /\ id \in Range(Append(t, x)) <=> id \in Range(t) \/ id = x
         /\ id \in Range(t) => Part(Append(t, x), id, weight) = Part(t, id, weight)
         /\ id \notin Range(t) /\ id = x =>
              Part(Append(t, x), id, weight) = weight \div (RRFk + (Len(t) + 1))
<1>1. PICK n \in Nat : n = Len(t)
  OBVIOUS
<1>2. PICK longer \in Seq(Found) : /\ longer = Append(t, x) /\ Len(longer) = n + 1
                                   /\ longer[n + 1] = x /\ \A i \in 1..n : longer[i] = t[i]
  <2>1. /\ Append(t, x) \in Seq(Found) /\ Len(Append(t, x)) = Len(t) + 1
        /\ Append(t, x)[Len(t) + 1] = x /\ \A i \in 1..Len(t) : Append(t, x)[i] = t[i]
    BY AppendProperties
  <2> QED BY <1>1, <2>1, Zenon
<1>3. id \in Range(t) <=> \E i \in 1..n : t[i] = id
  BY <1>1, RangeIsPlaces
<1>4. id \in Range(longer) <=> \E i \in 1..(n + 1) : longer[i] = id
  <2>1. id \in Range(longer) <=> \E i \in 1..Len(longer) : longer[i] = id
    BY RangeIsPlaces
  <2> QED BY <1>2, <2>1, Zenon
<1>5. id \in Range(longer) <=> id \in Range(t) \/ id = x
  <2>1. ASSUME NEW i \in 1..(n + 1) PROVE i \in 1..n \/ i = n + 1
    OBVIOUS
  <2>2. \A i \in 1..n : i \in 1..(n + 1)
    OBVIOUS
  <2>3. n + 1 \in 1..(n + 1)
    OBVIOUS
  <2> QED BY <1>2, <1>3, <1>4, <2>1, <2>2, <2>3, Zenon
<1>6. ASSUME id \in Range(t) PROVE Part(longer, id, weight) = Part(t, id, weight)
  <2>1. PICK p \in 1..n : p = FirstPlace(t, id) /\ t[p] = id /\ \A i \in 1..n : t[i] = id => p <= i
    <3>1. \E i \in 1..Len(t) : t[i] = id
      BY <1>1, <1>3, <1>6
    <3> QED BY <1>1, <3>1, FirstPlaceFound
  <2>2. PICK r \in 1..(n + 1) : /\ r = FirstPlace(longer, id) /\ longer[r] = id
                                /\ \A i \in 1..(n + 1) : longer[i] = id => r <= i
    <3>1. \E i \in 1..Len(longer) : longer[i] = id
      BY <1>2, <1>4, <1>5, <1>6
    <3> QED BY <1>2, <3>1, FirstPlaceFound
  <2>3. r <= p
    BY <1>2, <2>1, <2>2
  <2>4. r \in 1..n /\ t[r] = id
    BY <1>2, <2>2, <2>3
  <2>5. r = p
    BY <2>1, <2>3, <2>4
  <2>6. Part(longer, id, weight) = weight \div (RRFk + FirstPlace(longer, id))
    BY <1>5, <1>6, PartHeld
  <2>7. Part(t, id, weight) = weight \div (RRFk + FirstPlace(t, id))
    BY <1>6, PartHeld
  <2> QED BY <2>1, <2>2, <2>5, <2>6, <2>7, Zenon
<1>7. ASSUME id \notin Range(t), id = x PROVE Part(longer, id, weight) = weight \div (RRFk + (n + 1))
  <2>1. PICK r \in 1..(n + 1) : r = FirstPlace(longer, id) /\ longer[r] = id
    <3>1. \E i \in 1..Len(longer) : longer[i] = id
      BY <1>2, <1>4, <1>5, <1>7
    <3> QED BY <1>2, <3>1, FirstPlaceFound
  <2>2. r = n + 1
    BY <1>2, <1>3, <1>7, <2>1
  <2>3. Part(longer, id, weight) = weight \div (RRFk + FirstPlace(longer, id))
    BY <1>5, <1>7, PartHeld
  <2>4. RRFk + r = RRFk + (n + 1)
    BY <2>2 DEF RRFk
  <2> QED BY <2>1, <2>3, <2>4, Zenon
<1> QED BY <1>1, <1>2, <1>5, <1>6, <1>7, Zenon

LEMMA AtNowhere ==
  ASSUME NEW fused \in Seq(Candidate), NEW id
  PROVE  /\ FusedAt(fused, id) = 0 => \A i \in 1..Len(fused) : fused[i].id # id
         /\ FusedAt(fused, id) # 0 => FusedAt(fused, id) \in 1..Len(fused) /\ fused[FusedAt(fused, id)].id = id
<1> DEFINE I == {i \in 1..Len(fused) : fused[i].id = id}
<1>1. I \in SUBSET Nat
  OBVIOUS
<1>2. FusedAt(fused, id) = IF I # {} THEN Min(I) ELSE 0
  BY DEF FusedAt, SelectInSeq
<1>3. ASSUME I # {} PROVE Min(I) \in I
  <2> HIDE DEF I
  <2>1. \E x \in I : \A y \in I : x <= y
    BY <1>1, <1>3, LeastNumber
  <2> QED BY <2>1 DEF Min
<1>4. 0 \notin I
  OBVIOUS
<1> QED BY <1>2, <1>3, <1>4

LEMMA PartOfOther ==
  ASSUME NEW t \in Seq(Found), NEW x \in Found, NEW id, id # x, NEW weight \in Nat
  PROVE  Part(Append(t, x), id, weight) = Part(t, id, weight)
<1>1. CASE id \in Range(t)
  BY <1>1, PartAppend
<1>2. CASE id \notin Range(t)
  <2>1. id \notin Range(Append(t, x))
    BY <1>2, PartAppend
  <2> QED BY <1>2, <2>1, PartNotHeld
<1> QED BY <1>1, <1>2

(* The part of a record that has none yet is the one of its next place. *)
LEMMA PartOfNext ==
  ASSUME NEW t \in Seq(Found), NEW x \in Found, NEW weight \in Nat, Part(t, x, weight) = 0
  PROVE  Part(Append(t, x), x, weight) = weight \div (RRFk + (Len(t) + 1))
<1>1. CASE x \notin Range(t)
  BY <1>1, PartAppend
<1>2. CASE x \in Range(t)
  <2>1. PICK p \in 1..Len(t) : p = FirstPlace(t, x)
    BY <1>2, RangeIsPlaces, FirstPlaceFound
  <2>2. weight \div (RRFk + p) = 0
    BY <1>2, <2>1, PartHeld
  <2>3. p \in Nat /\ Len(t) + 1 \in Nat /\ p <= Len(t) + 1
    OBVIOUS
  <2>4. weight \div (RRFk + (Len(t) + 1)) = 0
    BY <2>2, <2>3, DividedFalls
  <2>5. Part(Append(t, x), x, weight) = Part(t, x, weight)
    BY <1>2, PartAppend
  <2> QED BY <2>4, <2>5
<1> QED BY <1>1, <1>2

(* No record twice; the records of either pass; and the parts of each. *)
OneEach(fused) == \A i, j \in 1..Len(fused) : fused[i].id = fused[j].id => i = j
OfEither(fused, s, t) ==
  \A id : (\E i \in 1..Len(fused) : fused[i].id = id) <=> id \in Range(s) \/ id \in Range(t)
Parts(fused, s, t) ==
  \A i \in 1..Len(fused) :
    /\ fused[i].lexical = Part(t, fused[i].id, DefaultLexicalWeight)
    /\ fused[i].score = Part(s, fused[i].id, Scale) + Part(t, fused[i].id, DefaultLexicalWeight)

(* What fuse has when it has gone through t. *)
FusedSound(fused, s, t) ==
  fused \in Seq(Candidate) /\ OneEach(fused) /\ OfEither(fused, s, t) /\ Parts(fused, s, t)

LEMMA WeightsAreNumbers == Scale \in Nat /\ DefaultLexicalWeight \in Nat
  BY DEF Scale, DefaultLexicalWeight

LEMMA AddTermNew ==
  ASSUME NEW s \in Seq(Found), NEW t \in Seq(Found), NEW x \in Found,
         NEW fused, FusedSound(fused, s, t), FusedAt(fused, x) = 0
  PROVE  FusedSound(AddTerm(fused, x, Len(t) + 1), s, Append(t, x))
<1>1. fused \in Seq(Candidate)
  BY DEF FusedSound, OneEach, OfEither, Parts
<1>2. PICK n \in Nat : n = Len(fused)
  BY <1>1
<1>3. PICK part \in Nat : part = DefaultLexicalWeight \div (RRFk + (Len(t) + 1))
  BY DividedType, WeightsAreNumbers
<1>4. PICK c \in Candidate : c = [id |-> x, score |-> part, lexical |-> part]
  BY DEF Candidate
<1>5. c.id = x /\ c.score = part /\ c.lexical = part
  BY <1>4
<1>6. PICK more \in Seq(Candidate) : /\ more = Append(fused, c) /\ Len(more) = n + 1
                                     /\ more[n + 1] = c /\ \A i \in 1..n : more[i] = fused[i]
  <2>1. /\ Append(fused, c) \in Seq(Candidate) /\ Len(Append(fused, c)) = Len(fused) + 1
        /\ Append(fused, c)[Len(fused) + 1] = c
        /\ \A i \in 1..Len(fused) : Append(fused, c)[i] = fused[i]
    BY <1>1, AppendProperties
  <2> QED BY <1>2, <2>1, Zenon
<1>7. AddTerm(fused, x, Len(t) + 1) = more
  BY <1>3, <1>4, <1>6, Zenon DEF AddTerm, LexicalPart
<1>8. \A i \in 1..n : fused[i].id # x
  BY <1>1, <1>2, AtNowhere
<1>9. x \notin Range(s) /\ x \notin Range(t)
  BY <1>2, <1>8 DEF FusedSound, OneEach, OfEither, Parts
<1>10. \A i \in 1..(n + 1) : i \in 1..n \/ i = n + 1
  OBVIOUS
<1>11. ASSUME NEW i \in 1..(n + 1), NEW j \in 1..(n + 1), more[i].id = more[j].id PROVE i = j
  <2>1. \A k \in 1..n : more[k].id # x /\ more[k].id = fused[k].id
    BY <1>6, <1>8
  <2>2. more[n + 1].id = x
    BY <1>5, <1>6
  <2>3. \A k, l \in 1..n : fused[k].id = fused[l].id => k = l
    BY <1>2 DEF FusedSound, OneEach, OfEither, Parts
  <2> QED BY <1>10, <1>11, <2>1, <2>2, <2>3
<1>12. ASSUME NEW id
       PROVE  (\E i \in 1..(n + 1) : more[i].id = id) <=> id \in Range(s) \/ id \in Range(Append(t, x))
  <2>1. id \in Range(Append(t, x)) <=> id \in Range(t) \/ id = x
    BY PartAppend, WeightsAreNumbers
  <2>2. (\E i \in 1..n : fused[i].id = id) <=> id \in Range(s) \/ id \in Range(t)
    BY <1>2 DEF FusedSound, OneEach, OfEither, Parts
  <2>3. (\E i \in 1..(n + 1) : more[i].id = id) <=> (\E i \in 1..n : fused[i].id = id) \/ id = x
    <3>1. n + 1 \in 1..(n + 1) /\ \A i \in 1..n : i \in 1..(n + 1)
      OBVIOUS
    <3> QED BY <1>5, <1>6, <1>10, <3>1, Zenon
  <2> QED BY <2>1, <2>2, <2>3, Zenon
<1>13. ASSUME NEW i \in 1..(n + 1)
       PROVE  /\ more[i].lexical = Part(Append(t, x), more[i].id, DefaultLexicalWeight)
              /\ more[i].score = Part(s, more[i].id, Scale)
                                 + Part(Append(t, x), more[i].id, DefaultLexicalWeight)
  <2>1. CASE i \in 1..n
    <3>1. more[i] = fused[i]
      BY <1>6, <2>1
    <3>2. Part(Append(t, x), fused[i].id, DefaultLexicalWeight) = Part(t, fused[i].id, DefaultLexicalWeight)
      BY <1>8, <2>1, PartOfOther, WeightsAreNumbers
    <3>3. /\ fused[i].lexical = Part(t, fused[i].id, DefaultLexicalWeight)
          /\ fused[i].score = Part(s, fused[i].id, Scale)
                              + Part(t, fused[i].id, DefaultLexicalWeight)
      BY <1>2, <2>1 DEF FusedSound, OneEach, OfEither, Parts
    <3> QED BY <3>1, <3>2, <3>3, Zenon
  <2>2. CASE i = n + 1
    <3>1. more[i].id = x /\ more[i].score = part /\ more[i].lexical = part
      BY <1>5, <1>6, <2>2, Zenon
    <3>2. Part(Append(t, x), x, DefaultLexicalWeight) = part
      BY <1>3, <1>9, PartAppend, WeightsAreNumbers
    <3>3. Part(s, x, Scale) = 0
      BY <1>9, PartNotHeld
    <3>4. part = 0 + part
      OBVIOUS
    <3> QED BY <3>1, <3>2, <3>3, <3>4, Zenon
  <2> QED BY <1>10, <2>1, <2>2
<1>14. FusedSound(more, s, Append(t, x))
  <2>1. OneEach(more)
    BY <1>6, <1>11, Zenon DEF OneEach
  <2>2. OfEither(more, s, Append(t, x))
    BY <1>6, <1>12, Zenon DEF OfEither
  <2>3. Parts(more, s, Append(t, x))
    BY <1>6, <1>13, Zenon DEF Parts
  <2> QED BY <2>1, <2>2, <2>3 DEF FusedSound
<1> QED BY <1>7, <1>14, Zenon

LEMMA AddTermAgain ==
  ASSUME NEW s \in Seq(Found), NEW t \in Seq(Found), NEW x \in Found,
         NEW fused, FusedSound(fused, s, t), FusedAt(fused, x) # 0
  PROVE  FusedSound(AddTerm(fused, x, Len(t) + 1), s, Append(t, x))
<1>1. fused \in Seq(Candidate)
  BY DEF FusedSound, OneEach, OfEither, Parts
<1>2. PICK n \in Nat : n = Len(fused)
  BY <1>1
<1>3. PICK part \in Nat : part = DefaultLexicalWeight \div (RRFk + (Len(t) + 1))
  BY DividedType, WeightsAreNumbers
<1>4. PICK at \in 1..n : at = FusedAt(fused, x) /\ fused[at].id = x
  BY <1>1, <1>2, AtNowhere
<1>5. at # 0
  OBVIOUS
<1>6. PICK c \in Candidate : c = fused[at]
  BY <1>1, <1>2
<1>7. c.id = x /\ c.score \in Nat /\ c.lexical \in Nat
  BY <1>4, <1>6 DEF Candidate
<1>8. /\ c.lexical = Part(t, x, DefaultLexicalWeight)
      /\ c.score = Part(s, x, Scale) + Part(t, x, DefaultLexicalWeight)
  BY <1>2, <1>4, <1>6 DEF FusedSound, OneEach, OfEither, Parts
<1>9. \A i, j \in 1..n : fused[i].id = fused[j].id => i = j
  BY <1>2 DEF FusedSound, OneEach, OfEither, Parts
<1>10. \A id : (\E i \in 1..n : fused[i].id = id) <=> id \in Range(s) \/ id \in Range(t)
  BY <1>2 DEF FusedSound, OneEach, OfEither, Parts
<1>11. \A i \in 1..n :
         /\ fused[i].lexical = Part(t, fused[i].id, DefaultLexicalWeight)
         /\ fused[i].score = Part(s, fused[i].id, Scale)
                             + Part(t, fused[i].id, DefaultLexicalWeight)
  BY <1>2, Zenon DEF FusedSound, OneEach, OfEither, Parts
<1>12. \A id : (\E i \in 1..n : fused[i].id = id) <=> id \in Range(s) \/ id \in Range(Append(t, x))
  <2>1. SUFFICES ASSUME NEW id
                 PROVE  (\E i \in 1..n : fused[i].id = id) <=> id \in Range(s) \/ id \in Range(Append(t, x))
    OBVIOUS
  <2>2. id \in Range(Append(t, x)) <=> id \in Range(t) \/ id = x
    BY PartAppend, WeightsAreNumbers
  <2>3. x \in Range(s) \/ x \in Range(t)
    BY <1>4, <1>10
  <2> QED BY <1>10, <2>2, <2>3, Zenon
<1>13. \A i \in 1..n : i # at =>
         Part(Append(t, x), fused[i].id, DefaultLexicalWeight) = Part(t, fused[i].id, DefaultLexicalWeight)
  <2>1. \A i \in 1..n : i # at => fused[i].id # x
    BY <1>4, <1>9
  <2> QED BY <2>1, PartOfOther, WeightsAreNumbers
<1>14. CASE c.lexical > 0
  <2>1. AddTerm(fused, x, Len(t) + 1) = fused
    BY <1>4, <1>5, <1>6, <1>14, Zenon DEF AddTerm
  <2>2. x \in Range(t)
    BY <1>8, <1>14, PartNotHeld
  <2>3. Part(Append(t, x), x, DefaultLexicalWeight) = Part(t, x, DefaultLexicalWeight)
    BY <2>2, PartAppend, WeightsAreNumbers
  <2>4. \A i \in 1..n :
          Part(Append(t, x), fused[i].id, DefaultLexicalWeight) = Part(t, fused[i].id, DefaultLexicalWeight)
    BY <1>4, <1>13, <2>3, Zenon
  <2>5. \A i \in 1..n :
          /\ fused[i].lexical = Part(Append(t, x), fused[i].id, DefaultLexicalWeight)
          /\ fused[i].score = Part(s, fused[i].id, Scale)
                              + Part(Append(t, x), fused[i].id, DefaultLexicalWeight)
    BY <1>11, <2>4, Zenon
  <2>6. FusedSound(fused, s, Append(t, x))
    BY <1>1, <1>2, <1>9, <1>12, <2>5, Zenon DEF FusedSound, OneEach, OfEither, Parts
  <2> QED BY <2>1, <2>6, Zenon
<1>15. CASE ~(c.lexical > 0)
  <2>1. c.lexical = 0
    BY <1>7, <1>15
  <2>2. Part(Append(t, x), x, DefaultLexicalWeight) = part /\ Part(t, x, DefaultLexicalWeight) = 0
    BY <1>3, <1>8, <2>1, PartOfNext, WeightsAreNumbers
  <2>3. PICK d \in Candidate : d = [id |-> x, score |-> c.score + part, lexical |-> part]
    <3>1. PICK total \in Nat : total = c.score + part
      BY <1>7
    <3>2. [id |-> x, score |-> total, lexical |-> part] \in Candidate
      BY DEF Candidate
    <3> QED BY <3>1, <3>2, Zenon
  <2>4. d.id = x /\ d.score = c.score + part /\ d.lexical = part
    BY <2>3
  <2>5. PICK other \in Seq(Candidate) : /\ other = [fused EXCEPT ![at] = d] /\ Len(other) = n
                                        /\ other[at] = d /\ \A i \in 1..n : i # at => other[i] = fused[i]
    <3>1. /\ [fused EXCEPT ![at] = d] \in Seq(Candidate) /\ Len([fused EXCEPT ![at] = d]) = Len(fused)
          /\ [fused EXCEPT ![at] = d][at] = d
          /\ \A i \in 1..Len(fused) : i # at => [fused EXCEPT ![at] = d][i] = fused[i]
      BY <1>1, <1>2, ExceptSeq
    <3> QED BY <1>2, <3>1, Zenon
  <2>7. AddTerm(fused, x, Len(t) + 1) = other
    <3>1. AddTerm(fused, x, Len(t) + 1)
            = [fused EXCEPT ![at] = [id |-> x, score |-> fused[at].score + part, lexical |-> part]]
      BY <1>3, <1>4, <1>5, <1>6, <1>15, Zenon DEF AddTerm, LexicalPart
    <3>2. d = [id |-> x, score |-> fused[at].score + part, lexical |-> part]
      BY <1>6, <2>3, Zenon
    <3> QED BY <2>5, <3>1, <3>2, Zenon
  <2>8. \A i \in 1..n : other[i].id = fused[i].id
    BY <1>4, <2>4, <2>5, Zenon
  <2>9. ASSUME NEW i \in 1..n
        PROVE  /\ other[i].lexical = Part(Append(t, x), other[i].id, DefaultLexicalWeight)
               /\ other[i].score = Part(s, other[i].id, Scale)
                                   + Part(Append(t, x), other[i].id, DefaultLexicalWeight)
    <3>1. CASE i = at
      <4>1. other[i].id = x /\ other[i].lexical = part /\ other[i].score = c.score + part
        BY <2>4, <2>5, <3>1, Zenon
      <4>2. c.score = Part(s, x, Scale)
        BY <1>8, <2>2, PartType, WeightsAreNumbers
      <4> QED BY <2>2, <4>1, <4>2, Zenon
    <3>2. CASE i # at
      <4>1. other[i] = fused[i]
        BY <2>5, <3>2
      <4> QED BY <1>11, <1>13, <3>2, <4>1, Zenon
    <3> QED BY <3>1, <3>2
  <2>10. \A i, j \in 1..n : other[i].id = other[j].id => i = j
    BY <1>9, <2>8, Zenon
  <2>11. \A id : (\E i \in 1..n : other[i].id = id) <=> id \in Range(s) \/ id \in Range(Append(t, x))
    BY <1>12, <2>8, Zenon
  <2>12. FusedSound(other, s, Append(t, x))
    BY <2>5, <2>9, <2>10, <2>11, Zenon DEF FusedSound, OneEach, OfEither, Parts
  <2> QED BY <2>7, <2>12, Zenon
<1> QED BY <1>14, <1>15

LEMMA ByMeaningSound ==
  ASSUME NEW s \in Seq(Found), IsInjective(s)
  PROVE  FusedSound(ByMeaning(s), s, <<>>)
<1>1. PICK n \in Nat : n = Len(s)
  OBVIOUS
<1>2. \A i \in 1..n : s[i] \in Found /\ Scale \div (RRFk + i) \in Nat
  <2>1. \A i \in 1..n : s[i] \in Found /\ i \in Nat
    BY <1>1
  <2> QED BY <2>1, DividedType, WeightsAreNumbers
<1>3. ASSUME NEW i \in 1..n
      PROVE  [id |-> s[i], score |-> Scale \div (RRFk + i), lexical |-> 0] \in Candidate
  <2>1. PICK part \in Nat, id \in Found : part = Scale \div (RRFk + i) /\ id = s[i]
    BY <1>2
  <2>2. [id |-> id, score |-> part, lexical |-> 0] \in Candidate
    BY DEF Candidate
  <2> QED BY <2>1, <2>2, Zenon
<1>4. PICK near1 \in Seq(Candidate) :
        /\ near1 = ByMeaning(s) /\ Len(near1) = n
        /\ \A i \in 1..n : near1[i] = [id |-> s[i], score |-> Scale \div (RRFk + i), lexical |-> 0]
  <2> DEFINE f == [i \in 1..n |-> [id |-> s[i], score |-> Scale \div (RRFk + i), lexical |-> 0]]
  <2>1. ByMeaning(s) = f
    BY <1>1, Zenon DEF ByMeaning
  <2>2. f \in [1..n -> Candidate]
    BY <1>3
  <2>3. \A i \in 1..n : f[i] = [id |-> s[i], score |-> Scale \div (RRFk + i), lexical |-> 0]
    BY Zenon
  <2> HIDE DEF f
  <2>4. f \in Seq(Candidate) /\ Len(f) = n
    BY <2>2
  <2> QED BY <2>1, <2>3, <2>4, Zenon
<1>5. \A i \in 1..n : near1[i].id = s[i] /\ near1[i].score = Scale \div (RRFk + i) /\ near1[i].lexical = 0
  <2>1. SUFFICES ASSUME NEW i \in 1..n
                 PROVE  near1[i].id = s[i] /\ near1[i].score = Scale \div (RRFk + i) /\ near1[i].lexical = 0
    BY Zenon
  <2>2. PICK part \in Nat, id \in Found : part = Scale \div (RRFk + i) /\ id = s[i]
    BY <1>2
  <2>3. near1[i] = [id |-> id, score |-> part, lexical |-> 0]
    BY <1>4, <2>2, Zenon
  <2>4. near1[i].id = id /\ near1[i].score = part /\ near1[i].lexical = 0
    BY <2>3
  <2> QED BY <2>2, <2>4, Zenon
<1>6. \A i, j \in 1..n : s[i] = s[j] => i = j
  <2>1. DOMAIN s = 1..n
    BY <1>1, LenProperties
  <2> QED BY <2>1, Zenon DEF IsInjective
<1>7. \A id : id \notin Range(<<>>) /\ Part(<<>>, id, DefaultLexicalWeight) = 0
  <2>1. \A id : id \notin Range(<<>>)
    BY DEF Range
  <2> QED BY <2>1, PartNotHeld
<1>8. OneEach(near1)
  <2>1. SUFFICES ASSUME NEW i \in 1..n, NEW j \in 1..n, near1[i].id = near1[j].id PROVE i = j
    BY <1>4, Zenon DEF OneEach
  <2> QED BY <1>5, <1>6, <2>1, Zenon
<1>9. OfEither(near1, s, <<>>)
  <2>1. \A id : id \in Range(s) <=> \E i \in 1..n : s[i] = id
    BY <1>1, RangeIsPlaces
  <2>2. Len(near1) = n
    BY <1>4, Zenon
  <2>3. \A id : (\E i \in 1..n : near1[i].id = id) <=> \E i \in 1..n : s[i] = id
    BY <1>5, Zenon
  <2>4. \A id : (\E i \in 1..n : near1[i].id = id) <=> id \in Range(s) \/ id \in Range(<<>>)
    BY <1>7, <2>1, <2>3, Zenon
  <2> QED BY <2>2, <2>4, Zenon DEF OfEither
<1>10. ASSUME NEW i \in 1..n
       PROVE  near1[i].score = Part(s, near1[i].id, Scale) + Part(<<>>, near1[i].id, DefaultLexicalWeight)
  <2>1. PICK part \in Nat : part = Scale \div (RRFk + i)
    BY <1>2
  <2>2. s[i] \in Range(s)
    BY <1>1, RangeIsPlaces
  <2>3. FirstPlace(s, s[i]) \in 1..n /\ s[FirstPlace(s, s[i])] = s[i]
    BY <1>1, FirstPlaceFound
  <2>4. FirstPlace(s, s[i]) = i
    BY <1>6, <2>3
  <2>5. Part(s, s[i], Scale) = part
    BY <2>1, <2>2, <2>4, PartHeld, WeightsAreNumbers
  <2>6. part = part + 0
    OBVIOUS
  <2> QED BY <1>5, <1>7, <2>1, <2>5, <2>6, Zenon
<1>11. Parts(near1, s, <<>>)
  BY <1>4, <1>5, <1>7, <1>10, Zenon DEF Parts
<1>12. FusedSound(near1, s, <<>>)
  BY <1>8, <1>9, <1>11 DEF FusedSound
<1> QED BY <1>4, <1>12, Zenon

LEMMA AddTermType ==
  ASSUME NEW fused \in Seq(Candidate), NEW x \in Found, NEW rank \in Nat
  PROVE  AddTerm(fused, x, rank) \in Seq(Candidate)
<1>1. PICK part \in Nat : part = LexicalPart(rank)
  BY DividedType, WeightsAreNumbers DEF LexicalPart
<1>2. CASE FusedAt(fused, x) = 0
  <2>1. PICK c \in Candidate : c = [id |-> x, score |-> part, lexical |-> part]
    BY DEF Candidate
  <2>2. AddTerm(fused, x, rank) = Append(fused, c)
    BY <1>1, <1>2, <2>1, Zenon DEF AddTerm
  <2> QED BY <2>2, AppendProperties
<1>3. CASE FusedAt(fused, x) # 0
  <2>1. PICK at \in 1..Len(fused) : at = FusedAt(fused, x) /\ at # 0
    BY <1>3, AtNowhere
  <2>2. fused[at].score \in Nat
    <3>1. PICK c \in Candidate : c = fused[at]
      OBVIOUS
    <3> QED BY <3>1 DEF Candidate
  <2>3. PICK total \in Nat : total = fused[at].score + part
    BY <2>2
  <2>4. PICK d \in Candidate : d = [id |-> x, score |-> total, lexical |-> part]
    BY DEF Candidate
  <2>5. AddTerm(fused, x, rank) \in {fused, [fused EXCEPT ![at] = d]}
    BY <1>1, <2>1, <2>3, <2>4, Zenon DEF AddTerm
  <2>6. [fused EXCEPT ![at] = d] \in Seq(Candidate)
    BY ExceptSeq
  <2> QED BY <2>5, <2>6
<1> QED BY <1>2, <1>3

(* Fuse's own recursion. *)
FusesTo(h, s, t) ==
  \A i \in 0..Len(t) : h[i] = IF i = 0 THEN ByMeaning(s) ELSE AddTerm(h[i - 1], t[i], i)

LEMMA FuseSteps ==
  ASSUME NEW s \in Seq(Found), IsInjective(s), NEW t \in Seq(Found), NEW h, FusesTo(h, s, t)
  PROVE  \A i \in 0..Len(t) : FusedSound(h[i], s, SubSeq(t, 1, i))
<1> DEFINE N == {n \in Nat : n <= Len(t) => FusedSound(h[n], s, SubSeq(t, 1, n))}
<1>1. 0 \in N
  <2>1. h[0] = ByMeaning(s)
    BY DEF FusesTo
  <2>2. SubSeq(t, 1, 0) = <<>>
    BY SubSeqEmpty
  <2>3. FusedSound(h[0], s, SubSeq(t, 1, 0))
    BY <2>1, <2>2, ByMeaningSound, Zenon
  <2> QED BY <2>3
<1>2. ASSUME NEW n \in Nat, n \in N PROVE n + 1 \in N
  <2>1. ASSUME n + 1 <= Len(t) PROVE FusedSound(h[n + 1], s, SubSeq(t, 1, n + 1))
    <3>1. PICK i \in 1..Len(t) : i = n + 1 /\ i - 1 = n
      BY <2>1
    <3>2. h[i] = AddTerm(h[i - 1], t[i], i)
      BY DEF FusesTo
    <3>3. FusedSound(h[n], s, SubSeq(t, 1, n))
      BY <1>2, <2>1
    <3>4. PICK done \in Seq(Found) : done = SubSeq(t, 1, n) /\ Len(done) = n
      <4>1. SubSeq(t, 1, n) \in Seq(Found) /\ Len(SubSeq(t, 1, n)) = n
        BY <2>1
      <4> QED BY <4>1
    <3>5. SubSeq(t, 1, n + 1) = Append(done, t[i])
      <4>1. SubSeq(t, 1, i) = SubSeq(t, 1, i - 1) \o <<t[i]>>
        BY SubSeqRecursiveSecond
      <4>2. Append(done, t[i]) = done \o <<t[i]>>
        BY AppendIsConcat
      <4> QED BY <3>1, <3>4, <4>1, <4>2, Zenon
    <3>6. FusedSound(h[n], s, done)
      BY <3>3, <3>4, Zenon
    <3>7. FusedSound(AddTerm(h[n], t[i], Len(done) + 1), s, Append(done, t[i]))
      BY <3>6, AddTermNew, AddTermAgain
    <3> QED BY <3>1, <3>2, <3>4, <3>5, <3>7, Zenon
  <2> QED BY <2>1
<1>3. N = Nat
  <2> HIDE DEF N
  <2>1. N \in SUBSET Nat
    BY DEF N
  <2> QED BY <1>1, <1>2, <2>1, SetInduction
<1>4. ASSUME NEW i \in 0..Len(t) PROVE FusedSound(h[i], s, SubSeq(t, 1, i))
  <2>1. i \in N
    <3> HIDE DEF N
    <3> QED BY <1>3
  <2> QED BY <2>1
<1> QED BY <1>4

LEMMA FuseExists ==
  ASSUME NEW s \in Seq(Found), IsInjective(s), NEW t \in Seq(Found)
  PROVE  \E h : h = [i \in 0..Len(t) |-> IF i = 0 THEN ByMeaning(s) ELSE AddTerm(h[i - 1], t[i], i)]
<1> DEFINE n == Len(t)
           S == Seq(Candidate)
           step == [i \in 1..n |-> [f \in S |-> AddTerm(f, t[i], i)]]
<1>1. n \in Nat /\ ByMeaning(s) \in S
  BY ByMeaningSound DEF FusedSound
<1>2. ASSUME NEW i \in 1..n, NEW f \in S PROVE AddTerm(f, t[i], i) \in S
  <2>1. t[i] \in Found /\ i \in Nat
    OBVIOUS
  <2> QED BY <2>1, AddTermType
<1> HIDE DEF S
<1>3. step \in [1..n -> [S -> S]]
  BY <1>2
<1>4. PICK f : Follows(f, S, n, ByMeaning(s), step)
  <2> HIDE DEF n, step
  <2> QED BY <1>1, <1>3, RecursionExists
<1>5. f \in [0..n -> S] /\ f[0] = ByMeaning(s)
  BY <1>4 DEF Follows
<1>6. ASSUME NEW i \in 1..n PROVE f[i] = AddTerm(f[i - 1], t[i], i)
  <2>1. f[i] = step[i][f[i - 1]]
    <3> HIDE DEF step
    <3> QED BY <1>4 DEF Follows
  <2>2. f[i - 1] \in S
    <3>1. i - 1 \in 0..n
      BY <1>1
    <3> HIDE DEF n
    <3> QED BY <1>5, <3>1
  <2> QED BY <2>1, <2>2
<1>7. f = [i \in 0..n |-> f[i]]
  BY <1>5
<1>8. ASSUME NEW i \in 0..n
      PROVE  f[i] = IF i = 0 THEN ByMeaning(s) ELSE AddTerm(f[i - 1], t[i], i)
  BY <1>5, <1>6
<1>9. f = [i \in 0..n |-> IF i = 0 THEN ByMeaning(s) ELSE AddTerm(f[i - 1], t[i], i)]
  <2> HIDE DEF n
  <2> QED BY <1>7, <1>8
<1> QED BY <1>9

(***************************************************************************)
(* fuse gives every record of either pass once, with the parts of its best *)
(* places.                                                                 *)
(***************************************************************************)
LEMMA FuseIsSound ==
  ASSUME NEW s \in Seq(Found), IsInjective(s), NEW t \in Seq(Found)
  PROVE  FusedSound(Fuse(s, t), s, t)
<1> DEFINE n == Len(t)
           g == CHOOSE h : h = [i \in 0..n |->
                                  IF i = 0 THEN ByMeaning(s) ELSE AddTerm(h[i - 1], t[i], i)]
<1>1. Fuse(s, t) = g[n]
  BY DEF Fuse
<1>2. g = [i \in 0..n |-> IF i = 0 THEN ByMeaning(s) ELSE AddTerm(g[i - 1], t[i], i)]
  BY FuseExists
<1>3. PICK h : /\ Fuse(s, t) = h[n]
               /\ h = [i \in 0..n |-> IF i = 0 THEN ByMeaning(s) ELSE AddTerm(h[i - 1], t[i], i)]
  <2> HIDE DEF g
  <2> QED BY <1>1, <1>2, Zenon
<1>4. FusesTo(h, s, t)
  BY <1>3, Zenon DEF FusesTo
<1>5. n \in 0..n /\ SubSeq(t, 1, n) = t
  BY SubSeqFull
<1>6. FusedSound(h[n], s, SubSeq(t, 1, n))
  BY <1>4, <1>5, FuseSteps
<1> QED BY <1>3, <1>5, <1>6, Zenon

-----------------------------------------------------------------------------
(* What a recall gives back: the candidates that are current and in scope, *)
(* each once, in order.                                                    *)

LEMMA AtmostIs ==
  ASSUME NEW S, NEW s \in Seq(S), NEW n \in Nat
  PROVE  /\ Atmost(s, n) \in Seq(S)
         /\ Len(Atmost(s, n)) = IF n < Len(s) THEN n ELSE Len(s)
         /\ \A i \in 1..Len(Atmost(s, n)) : Atmost(s, n)[i] = s[i]
<1>1. PICK k \in 0..Len(s) : k = IF n < Len(s) THEN n ELSE Len(s)
  OBVIOUS
<1>2. Atmost(s, n) = SubSeq(s, 1, k)
  BY <1>1, Zenon DEF Atmost
<1>3. SubSeq(s, 1, k) \in Seq(S) /\ Len(SubSeq(s, 1, k)) = k /\ \A i \in 1..k : SubSeq(s, 1, k)[i] = s[i]
  OBVIOUS
<1> QED BY <1>1, <1>2, <1>3, Zenon

LEMMA AtmostInjective ==
  ASSUME NEW S, NEW s \in Seq(S), IsInjective(s), NEW n \in Nat
  PROVE  IsInjective(Atmost(s, n))
<1>1. PICK cut \in Seq(S) : cut = Atmost(s, n)
  BY AtmostIs
<1>2. Len(cut) = (IF n < Len(s) THEN n ELSE Len(s)) /\ \A i \in 1..Len(cut) : cut[i] = s[i]
  BY <1>1, AtmostIs, Zenon
<1>3. \A i \in 1..Len(cut) : i \in 1..Len(s)
  BY <1>2
<1>4. DOMAIN cut = 1..Len(cut) /\ DOMAIN s = 1..Len(s)
  BY LenProperties
<1>5. IsInjective(cut)
  BY <1>2, <1>3, <1>4, Zenon DEF IsInjective
<1> QED BY <1>1, <1>5, Zenon

LEMMA RangeIsFinite ==
  ASSUME NEW S, NEW s \in Seq(S)
  PROVE  /\ IsFiniteSet(Range(s)) /\ Cardinality(Range(s)) \in Nat
         /\ Cardinality(Range(s)) <= Len(s)
<1>1. PICK n \in Nat : n = Len(s) /\ DOMAIN s = 1..n
  BY LenProperties
<1>2. s \in [1..n -> Range(s)] /\ \A x \in Range(s) : \E i \in 1..n : s[i] = x
  BY <1>1 DEF Range
<1>3. s \in Surjection(1..n, Range(s))
  BY <1>2 DEF Surjection
<1>4. IsFiniteSet(1..n) /\ Cardinality(1..n) = n
  BY FS_Interval
<1>5. IsFiniteSet(Range(s)) /\ Cardinality(Range(s)) <= n
  BY <1>3, <1>4, FS_Surjection
<1> QED BY <1>1, <1>5, FS_CardinalityType

(* What a recall is asked of: it does not change. *)
RankingKnown ==
  /\ near \in NearOrders /\ terms \in TermOrders
  /\ status \in [Found -> Statuses] /\ request \in Requests

LEMMA BoostType ==
  ASSUME RankingKnown, NEW id \in Found
  PROVE  Boost(id) \in Nat
<1>1. PICK known \in Statuses : known = status[id]
  BY DEF RankingKnown
<1>2. known.tags \in 0..2
  BY RankingAssumption
<1>3. PICK carried \in 0..2 : carried = known.tags
  BY <1>2
<1>4. (TagWeight * carried) \div 2 \in Nat /\ TypeWeight \in Nat
  BY DEF TagWeight, TypeWeight
<1>5. PICK half \in Nat : half = (TagWeight * carried) \div 2
  BY <1>4
<1>6. PICK typed \in Nat : typed = IF known.typed THEN TypeWeight ELSE 0
  BY <1>4
<1>7. half + typed \in Nat
  OBVIOUS
<1>8. Boost(id) \in {half + typed, 0}
  BY <1>1, <1>3, <1>5, <1>6, Zenon DEF Boost
<1> QED BY <1>7, <1>8

LEMMA ScoredOrdered ==
  ASSUME RankingKnown, NEW fused \in Seq(Candidate), OneEach(fused)
  PROVE  /\ IsFiniteSet(Scored(fused)) /\ Scored(fused) \subseteq Candidate
         /\ InOrder(fused) \in Seq(Scored(fused))
         /\ Len(InOrder(fused)) = Cardinality(Scored(fused))
<1>1. PICK S : S = Scored(fused)
  OBVIOUS
<1>2. S \subseteq Range(fused)
  BY <1>1 DEF Scored
<1>3. Range(fused) \subseteq Candidate
  BY DEF Range
<1>4. IsFiniteSet(S)
  BY <1>2, RangeIsFinite, FS_Subset
<1>5. ASSUME NEW c \in S, NEW d \in S, c.id = d.id PROVE c = d
  <2>1. PICK i \in 1..Len(fused), j \in 1..Len(fused) : c = fused[i] /\ d = fused[j]
    <3>1. c \in Range(fused) /\ d \in Range(fused)
      BY <1>2
    <3> QED BY <3>1, RangeIsPlaces
  <2>2. i = j
    BY <1>5, <2>1, Zenon DEF OneEach
  <2> QED BY <2>1, <2>2
<1> DEFINE score(c) == c.score + Boost(c.id)
           before == {p \in S \X S : Outranks(p[1], p[2])}
<1>6. \A c \in S : score(c) \in Nat /\ c.id \in Nat
  <2>1. ASSUME NEW c \in S PROVE score(c) \in Nat /\ c.id \in Nat
    <3>1. c.id \in Found /\ c.score \in Nat
      BY <1>2, <1>3 DEF Candidate
    <3>2. Boost(c.id) \in Nat
      BY <3>1, BoostType
    <3>3. c.id \in Nat
      BY <3>1, RankingAssumption
    <3>4. c.score + Boost(c.id) \in Nat
      BY <3>1, <3>2
    <3> QED BY <3>3, <3>4
  <2> QED BY <2>1
<1>7. \A c, d \in S : <<c, d>> \in before <=>
                        score(c) > score(d) \/ (score(c) = score(d) /\ c.id < d.id)
  BY DEF Outranks
<1> HIDE DEF score, before
<1>8. Ordering(S, before)
  BY <1>5, <1>6, <1>7 DEF Ordering
<1>9. PICK R : R = before
  OBVIOUS
<1>10. Ordering(S, R)
  BY <1>8, <1>9
<1>11. Arranged(S, R) \in Seq(S) /\ Len(Arranged(S, R)) = Cardinality(S)
  BY <1>4, <1>10, ArrangedInOrder
<1>12. InOrder(fused) = Arranged(S, R)
  BY <1>1, <1>9, Zenon DEF InOrder, before
<1> QED BY <1>1, <1>2, <1>3, <1>4, <1>11, <1>12, Zenon

(* All the ids in order: Rank gives the first of them. *)
AllRanked(fused) == [i \in 1..Len(InOrder(fused)) |-> InOrder(fused)[i].id]

(* The ids of the candidates that are current and in scope. *)
Fit(fused) ==
  {id \in {fused[i].id : i \in DOMAIN fused} : ~Replaced(id) /\ (request.scoped => InScope(id))}

LEMMA RankIsFirst ==
  ASSUME NEW fused, NEW k
  PROVE  Rank(fused, k) = Atmost(AllRanked(fused), k)
  BY Zenon DEF Rank, AllRanked

LEMMA FitIsScored ==
  ASSUME RankingKnown, NEW fused \in Seq(Candidate), OneEach(fused)
  PROVE  IsFiniteSet(Fit(fused)) /\ Cardinality(Fit(fused)) = Cardinality(Scored(fused))
<1>1. PICK S : S = Scored(fused)
  OBVIOUS
<1>2. PICK T : T = Fit(fused)
  OBVIOUS
<1>3. DOMAIN fused = 1..Len(fused)
  BY LenProperties
<1>4. \A c : c \in S <=> (\E i \in 1..Len(fused) : c = fused[i]) /\ ~Replaced(c.id)
                         /\ (request.scoped => InScope(c.id))
  BY <1>1, <1>3, Zenon DEF Scored, Range
<1>5. \A id : id \in T <=> (\E i \in 1..Len(fused) : id = fused[i].id) /\ ~Replaced(id)
                           /\ (request.scoped => InScope(id))
  BY <1>2, <1>3, Zenon DEF Fit
<1> DEFINE f == [c \in S |-> c.id]
<1>6. \A c \in S : c.id \in T
  BY <1>4, <1>5, Zenon
<1>7. f \in [S -> T] /\ \A c \in S : f[c] = c.id
  BY <1>6
<1>8. \A id \in T : \E c \in S : c.id = id
  BY <1>4, <1>5, Zenon
<1>9. \A c, d \in S : c.id = d.id => c = d
  <2>1. ASSUME NEW c \in S, NEW d \in S, c.id = d.id PROVE c = d
    <3>1. PICK i \in 1..Len(fused), j \in 1..Len(fused) : c = fused[i] /\ d = fused[j]
      BY <1>4, Zenon
    <3>2. i = j
      BY <2>1, <3>1, Zenon DEF OneEach
    <3> QED BY <3>1, <3>2, Zenon
  <2> QED BY <2>1, Zenon
<1>10. DOMAIN f = S
  BY <1>7
<1> HIDE DEF f
<1>11. f \in Bijection(S, T)
  <2>1. IsInjective(f)
    BY <1>7, <1>9, <1>10, Zenon DEF IsInjective
  <2>2. \A id \in T : \E c \in S : f[c] = id
    BY <1>7, <1>8, Zenon
  <2> QED BY <1>7, <2>1, <2>2, Zenon DEF Bijection, Injection, Surjection
<1>12. ExistsBijection(S, T)
  BY <1>11, Zenon DEF ExistsBijection
<1>13. IsFiniteSet(S)
  BY <1>1, ScoredOrdered
<1> QED BY <1>1, <1>2, <1>12, <1>13, FS_Bijection

LEMMA AllRankedSound ==
  ASSUME RankingKnown, NEW fused \in Seq(Candidate), OneEach(fused)
  PROVE  AllRanked(fused) \in Seq(Found) /\ Len(AllRanked(fused)) = Cardinality(Fit(fused))
<1>1. PICK order \in Seq(Candidate) : order = InOrder(fused) /\ Len(order) = Cardinality(Scored(fused))
  <2>1. InOrder(fused) \in Seq(Candidate)
    <3>1. PICK S \in SUBSET Candidate : S = Scored(fused)
      BY ScoredOrdered
    <3>2. InOrder(fused) \in Seq(S)
      BY <3>1, ScoredOrdered, Zenon
    <3>3. Seq(S) \subseteq Seq(Candidate)
      OBVIOUS
    <3> QED BY <3>2, <3>3
  <2> QED BY <2>1, ScoredOrdered, Zenon
<1>2. PICK n \in Nat : n = Len(order)
  OBVIOUS
<1>3. \A i \in 1..n : order[i].id \in Found
  <2>1. ASSUME NEW i \in 1..n PROVE order[i].id \in Found
    <3>1. PICK c \in Candidate : c = order[i]
      BY <1>2
    <3> QED BY <3>1 DEF Candidate
  <2> QED BY <2>1
<1>4. PICK ids : ids = [i \in 1..n |-> order[i].id]
  OBVIOUS
<1>5. ids \in [1..n -> Found]
  BY <1>3, <1>4
<1>6. ids \in Seq(Found) /\ Len(ids) = n
  BY <1>5
<1>7. AllRanked(fused) = ids
  BY <1>1, <1>2, <1>4, Zenon DEF AllRanked
<1> QED BY <1>1, <1>2, <1>6, <1>7, FitIsScored, Zenon

LEMMA AskedSound ==
  ASSUME RankingKnown, NEW q \in Asking
  PROVE  near[q] \in Seq(Found) /\ IsInjective(near[q]) /\ terms \in Seq(Found)
  BY RankingAssumption DEF RankingKnown

LEMMA PoolType ==
  ASSUME NEW want \in Nat
  PROVE  /\ CandidatePool(want) \in Nat /\ 1 <= DefaultCandidates
         /\ want <= CandidatePool(want) /\ DefaultCandidates <= CandidatePool(want)
         /\ want <= DefaultCandidates => CandidatePool(want) = CandidatePool(1)
  BY RankingAssumption DEF CandidatePool

(* A page cut from one pool with the first has its candidates. *)
LEMMA OnePoolIs ==
  ASSUME RankingKnown, NEW q \in Asking, NEW want \in Nat, OnePool(q, want)
  PROVE  Candidates(q, want) = Candidates(q, 1)
<1>1. CASE want <= DefaultCandidates
  BY <1>1, PoolType, Zenon DEF Candidates
<1>2. CASE Len(near[q]) <= DefaultCandidates /\ Len(terms) <= DefaultCandidates
  <2>1. PICK s \in Seq(Found), t \in Seq(Found) : s = near[q] /\ t = terms
    BY AskedSound
  <2>2. PICK k \in Nat, l \in Nat : k = CandidatePool(want) /\ l = CandidatePool(1)
    BY PoolType
  <2>3. DefaultCandidates \in Nat /\ DefaultCandidates <= k /\ DefaultCandidates <= l
    BY <2>2, PoolType, RankingAssumption
  <2>4. Len(s) <= DefaultCandidates /\ Len(t) <= DefaultCandidates
    BY <1>2, <2>1
  <2>5. Len(s) <= k /\ Len(s) <= l /\ Len(t) <= k /\ Len(t) <= l
    BY <2>3, <2>4
  <2>6. Atmost(s, k) = Atmost(s, l) /\ Atmost(t, k) = Atmost(t, l)
    <3>1. /\ (IF k < Len(s) THEN k ELSE Len(s)) = Len(s) /\ (IF l < Len(s) THEN l ELSE Len(s)) = Len(s)
          /\ (IF k < Len(t) THEN k ELSE Len(t)) = Len(t) /\ (IF l < Len(t) THEN l ELSE Len(t)) = Len(t)
      BY <2>5
    <3> QED BY <3>1, Zenon DEF Atmost
  <2> QED BY <2>1, <2>2, <2>6, Zenon DEF Candidates
<1> QED BY <1>1, <1>2, Zenon DEF OnePool

(* What was one pool to a depth is one to any less. *)
LEMMA OnePoolFalls ==
  ASSUME NEW q, NEW want \in Nat, NEW deep \in Nat, want <= deep, OnePool(q, deep)
  PROVE  OnePool(q, want)
<1>1. CASE deep <= DefaultCandidates
  <2>1. want <= DefaultCandidates
    BY <1>1, RankingAssumption
  <2> QED BY <2>1, Zenon DEF OnePool
<1>2. CASE Len(near[q]) <= DefaultCandidates /\ Len(terms) <= DefaultCandidates
  BY <1>2, Zenon DEF OnePool
<1> QED BY <1>1, <1>2, Zenon DEF OnePool

LEMMA CandidatesSound ==
  ASSUME RankingKnown, NEW q \in Asking, NEW want \in Nat
  PROVE  /\ Candidates(q, want) \in Seq(Candidate) /\ OneEach(Candidates(q, want))
         /\ OfEither(Candidates(q, want), Atmost(near[q], CandidatePool(want)),
                     Atmost(terms, CandidatePool(want)))
<1>1. PICK k \in Nat : k = CandidatePool(want)
  BY PoolType
<1>2. PICK s \in Seq(Found) : s = Atmost(near[q], k) /\ IsInjective(s)
  <2>1. PICK all \in Seq(Found) : all = near[q] /\ IsInjective(all)
    BY AskedSound
  <2>2. Atmost(all, k) \in Seq(Found) /\ IsInjective(Atmost(all, k))
    BY <2>1, AtmostIs, AtmostInjective
  <2> QED BY <2>1, <2>2, Zenon
<1>3. PICK t \in Seq(Found) : t = Atmost(terms, k)
  <2>1. PICK all \in Seq(Found) : all = terms
    BY AskedSound
  <2>2. Atmost(all, k) \in Seq(Found)
    BY AtmostIs
  <2> QED BY <2>1, <2>2, Zenon
<1>4. Candidates(q, want) = Fuse(s, t)
  BY <1>1, <1>2, <1>3, Zenon DEF Candidates
<1>5. FusedSound(Fuse(s, t), s, t)
  BY <1>2, FuseIsSound
<1> QED BY <1>1, <1>2, <1>3, <1>4, <1>5, Zenon DEF FusedSound

(* There are no more of them than the two passes found. *)
LEMMA FitIsBounded ==
  ASSUME RankingKnown, NEW q \in Asking, NEW want \in Nat
  PROVE  Cardinality(Fit(Candidates(q, want))) <= Len(near[q]) + Len(terms)
<1>1. PICK fused \in Seq(Candidate) : fused = Candidates(q, want)
  BY CandidatesSound
<1>2. PICK all \in Seq(Found), found \in Seq(Found) : all = near[q] /\ found = terms
  BY AskedSound
<1>3. PICK k \in Nat : k = CandidatePool(want)
  BY PoolType
<1>4. PICK s \in Seq(Found) : s = Atmost(all, k) /\ Len(s) <= Len(all)
  BY AtmostIs
<1>5. PICK t \in Seq(Found) : t = Atmost(found, k) /\ Len(t) <= Len(found)
  BY AtmostIs
<1>6. OneEach(fused) /\ OfEither(fused, s, t)
  BY <1>1, <1>2, <1>3, <1>4, <1>5, CandidatesSound, Zenon
<1>7. PICK T : T = Fit(fused)
  OBVIOUS
<1>8. T \subseteq Range(s) \cup Range(t)
  <2>1. DOMAIN fused = 1..Len(fused)
    BY LenProperties
  <2>2. \A id \in T : \E i \in 1..Len(fused) : fused[i].id = id
    BY <1>7, <2>1, Zenon DEF Fit
  <2> QED BY <1>6, <2>2, Zenon DEF OfEither
<1>9. /\ IsFiniteSet(Range(s)) /\ Cardinality(Range(s)) \in Nat /\ Cardinality(Range(s)) <= Len(s)
      /\ IsFiniteSet(Range(t)) /\ Cardinality(Range(t)) \in Nat /\ Cardinality(Range(t)) <= Len(t)
  BY RangeIsFinite
<1>10. PICK A, B : A = Range(s) /\ B = Range(t)
  OBVIOUS
<1>11. IsFiniteSet(A) /\ IsFiniteSet(B) /\ T \subseteq A \cup B
  BY <1>8, <1>9, <1>10, Zenon
<1>12. IsFiniteSet(A \cup B) /\ Cardinality(A \cup B) = Cardinality(A) + Cardinality(B) - Cardinality(A \cap B)
  BY <1>11, FS_Union
<1>13. Cardinality(A \cap B) \in Nat
  <2>1. IsFiniteSet(A \cap B)
    BY <1>11, FS_Intersection
  <2> QED BY <2>1, FS_CardinalityType
<1>14. Cardinality(T) <= Cardinality(A \cup B) /\ Cardinality(T) \in Nat
  <2>1. IsFiniteSet(T) /\ Cardinality(T) <= Cardinality(A \cup B)
    BY <1>11, <1>12, FS_Subset
  <2> QED BY <2>1, FS_CardinalityType
<1>15. Cardinality(T) <= Len(all) + Len(found)
  <2>1. /\ Cardinality(A) \in Nat /\ Cardinality(A) <= Len(s)
        /\ Cardinality(B) \in Nat /\ Cardinality(B) <= Len(t)
    BY <1>9, <1>10, Zenon
  <2>2. Len(s) \in Nat /\ Len(t) \in Nat /\ Len(all) \in Nat /\ Len(found) \in Nat
    OBVIOUS
  <2> QED BY <1>4, <1>5, <1>12, <1>13, <1>14, <2>1, <2>2
<1> QED BY <1>1, <1>2, <1>7, <1>15, Zenon

(***************************************************************************)
(* A ranking of a query's candidates: some sequence of records, as many as *)
(* fit, whose first ones every page of the pool is.                        *)
(***************************************************************************)
LEMMA RankingOf ==
  ASSUME RankingKnown, NEW q \in Asking, NEW want \in Nat
  PROVE  \E all \in Seq(Found) :
           /\ Len(all) = Cardinality(Fit(Candidates(q, want)))
           /\ \A k \in Nat : Rank(Candidates(q, want), k) = Atmost(all, k)
           /\ OnePool(q, want) => Whole(q) = all
<1>1. PICK fused \in Seq(Candidate) : fused = Candidates(q, want) /\ OneEach(fused)
  BY CandidatesSound, Zenon
<1>2. PICK all \in Seq(Found) : all = AllRanked(fused) /\ Len(all) = Cardinality(Fit(fused))
  BY <1>1, AllRankedSound, Zenon
<1>3. \A k : Rank(fused, k) = Atmost(all, k)
  BY <1>2, RankIsFirst, Zenon
<1>4. ASSUME OnePool(q, want) PROVE Whole(q) = all
  <2>1. Candidates(q, 1) = fused
    BY <1>1, <1>4, OnePoolIs, Zenon
  <2>2. PICK k \in Nat : k = Len(near[q]) + Len(terms)
    <3>1. PICK a \in Seq(Found), b \in Seq(Found) : a = near[q] /\ b = terms
      BY AskedSound
    <3>2. Len(a) + Len(b) \in Nat
      OBVIOUS
    <3> QED BY <3>1, <3>2, Zenon
  <2>3. Len(all) <= k
    BY <1>1, <1>2, <2>2, FitIsBounded, Zenon
  <2>4. Whole(q) = Atmost(all, k)
    BY <1>3, <2>1, <2>2, Zenon DEF Whole
  <2>5. (IF k < Len(all) THEN k ELSE Len(all)) = Len(all)
    BY <2>3
  <2>6. Atmost(all, k) = SubSeq(all, 1, Len(all))
    BY <2>5, Zenon DEF Atmost
  <2> QED BY <2>4, <2>6, SubSeqFull, Zenon
<1> QED BY <1>1, <1>2, <1>3, <1>4, Zenon

-----------------------------------------------------------------------------
(* The inductive invariant of a ranking paged through.                     *)

LEMMA AskedAgain ==
  ASSUME near' = near, terms' = terms, status' = status, request' = request,
         NEW q, NEW want, NEW results, NEW fused
  PROVE  /\ Candidates(q, want)' = Candidates(q, want)
         /\ Rank(fused, want)' = Rank(fused, want)
         /\ Hint(q, results, fused)' = Hint(q, results, fused)
<1>1. Candidates(q, want)' = Candidates(q, want)
  BY Zenon DEF Candidates, Fuse
<1>2. \A c, d : Outranks(c, d)' <=> Outranks(c, d)
  <2>1. \A id : Boost(id)' = Boost(id)
    BY Zenon DEF Boost
  <2>2. SUFFICES ASSUME NEW c, NEW d PROVE Outranks(c, d)' <=> Outranks(c, d)
    OBVIOUS
  <2>3. Boost(c.id)' = Boost(c.id) /\ Boost(d.id)' = Boost(d.id)
    BY <2>1, Zenon
  <2> QED BY <2>3, Zenon DEF Outranks
<1>3. \A id : (Replaced(id)' <=> Replaced(id)) /\ (InScope(id)' <=> InScope(id))
  BY Zenon DEF Replaced, InScope
<1>4. Scored(fused)' = Scored(fused) /\ OutOfScope(fused)' = OutOfScope(fused)
  BY <1>3 DEF Scored, OutOfScope
<1>5. PICK S : S = Scored(fused)
  OBVIOUS
<1>6. {p \in S \X S : Outranks(p[1], p[2])'} = {p \in S \X S : Outranks(p[1], p[2])}
  BY <1>2
<1>7. InOrder(fused) = Arranged(S, {p \in S \X S : Outranks(p[1], p[2])})
  BY <1>5, Zenon DEF InOrder
<1>8. InOrder(fused)' = Arranged(S, {p \in S \X S : Outranks(p[1], p[2])'})
  BY <1>4, <1>5, Zenon DEF InOrder
<1>9. InOrder(fused)' = InOrder(fused)
  BY <1>6, <1>7, <1>8, Zenon
<1>10. Rank(fused, want)' = Rank(fused, want)
  BY <1>9, Zenon DEF Rank
<1>11. Hint(q, results, fused)' = Hint(q, results, fused)
  BY <1>3, <1>4, Zenon DEF Hint
<1> QED BY <1>1, <1>10, <1>11

(***************************************************************************)
(* The last page is the one of a query, at an offset, of a size; the       *)
(* cursor goes on from its end, and what has been shown is all up to it.   *)
(***************************************************************************)
PageIs(q, offset, limit, fused, hits, results) ==
  /\ fused = Candidates(q, offset + limit)
  /\ hits = Rank(fused, offset + limit)
  /\ results = SubSeq(hits, offset + 1, Len(hits))
  /\ page = [query |-> q, offset |-> offset, results |-> results,
             last |-> Len(hits) # offset + limit, hint |-> Hint(q, results, fused)]
  /\ cursor = IF Len(hits) = offset + limit THEN [query |-> q, offset |-> offset + limit] ELSE NoCursor
  /\ deepest \in Nat /\ offset + limit <= deepest
  /\ OnePool(q, deepest) => shown = hits

NothingAsked == page = NoPage /\ cursor = NoCursor /\ deepest = 0 /\ shown = <<>>

SomePage ==
  \E q \in Asking, offset \in Nat, limit \in 1..MaxLimit :
    \E fused, hits, results : PageIs(q, offset, limit, fused, hits, results)

RankingInv == RankingKnown /\ (NothingAsked \/ SomePage)

LEMMA InitRanking == RankingInit => RankingInv
  BY DEF RankingInit, RankingInv, RankingKnown, NothingAsked

LEMMA SizeType ==
  ASSUME NEW asked \in Limits
  PROVE  PageSize(asked) \in 1..MaxLimit
<1>1. asked \in Nat /\ DefaultLimit \in 1..MaxLimit /\ MaxLimit \in Nat
  BY RankingAssumption
<1> QED BY <1>1 DEF PageSize

LEMMA HitsSound ==
  ASSUME RankingKnown, NEW q \in Asking, NEW want \in Nat
  PROVE  /\ Rank(Candidates(q, want), want) \in Seq(Found)
         /\ Len(Rank(Candidates(q, want), want)) <= want
         /\ OnePool(q, want) =>
              Whole(q) \in Seq(Found) /\ Rank(Candidates(q, want), want) = Atmost(Whole(q), want)
<1>1. PICK all \in Seq(Found) :
        /\ \A k \in Nat : Rank(Candidates(q, want), k) = Atmost(all, k)
        /\ OnePool(q, want) => Whole(q) = all
  BY RankingOf, Zenon
<1>2. Atmost(all, want) \in Seq(Found) /\ Len(Atmost(all, want)) <= want
  <2>1. Atmost(all, want) \in Seq(Found)
        /\ Len(Atmost(all, want)) = IF want < Len(all) THEN want ELSE Len(all)
    BY AtmostIs
  <2>2. (IF want < Len(all) THEN want ELSE Len(all)) <= want
    OBVIOUS
  <2> QED BY <2>1, <2>2, Zenon
<1> QED BY <1>1, <1>2, Zenon

(* The rest of what came back, from the offset on. *)
LEMMA RestSound ==
  ASSUME NEW hits \in Seq(Found), NEW offset \in Nat
  PROVE  /\ SubSeq(hits, offset + 1, Len(hits)) \in Seq(Found)
         /\ Len(SubSeq(hits, offset + 1, Len(hits))) =
              IF offset < Len(hits) THEN Len(hits) - offset ELSE 0
<1>1. CASE offset < Len(hits)
  <2>1. offset + 1 \in 1..Len(hits) /\ Len(hits) - (offset + 1) + 1 = Len(hits) - offset
    BY <1>1
  <2>2. SubSeq(hits, offset + 1, Len(hits)) \in Seq(Found)
        /\ Len(SubSeq(hits, offset + 1, Len(hits))) = Len(hits) - (offset + 1) + 1
    BY <2>1
  <2> QED BY <1>1, <2>1, <2>2
<1>2. CASE ~(offset < Len(hits))
  <2>1. SubSeq(hits, offset + 1, Len(hits)) = <<>>
    BY <1>2, SubSeqEmpty
  <2>2. <<>> \in Seq(Found) /\ Len(<<>>) = 0
    OBVIOUS
  <2>3. (IF offset < Len(hits) THEN Len(hits) - offset ELSE 0) = 0
    BY <1>2, Zenon
  <2> QED BY <2>1, <2>2, <2>3, Zenon
<1> QED BY <1>1, <1>2, Zenon

LEMMA MoreIsFull ==
  ASSUME NEW hits \in Seq(Found), NEW offset \in Nat, NEW limit \in Nat \ {0}
  PROVE  HasMore(SubSeq(hits, offset + 1, Len(hits)), hits, offset, limit)
           <=> Len(hits) = offset + limit
<1>1. PICK rest \in Seq(Found) :
        /\ rest = SubSeq(hits, offset + 1, Len(hits))
        /\ Len(rest) = IF offset < Len(hits) THEN Len(hits) - offset ELSE 0
  BY RestSound
<1>2. Len(rest) = limit /\ Len(hits) = offset + limit <=> Len(hits) = offset + limit
  BY <1>1
<1> QED BY <1>1, <1>2, Zenon DEF HasMore

(* What goes on from a full page ends where the deeper one does. *)
LEMMA PagesJoin ==
  ASSUME NEW all \in Seq(Found), NEW done \in Nat, NEW want \in Nat, done <= want,
         Len(Atmost(all, done)) = done
  PROVE  Atmost(all, done) \o SubSeq(Atmost(all, want), done + 1, Len(Atmost(all, want)))
           = Atmost(all, want)
<1>1. PICK hits \in Seq(Found) : hits = Atmost(all, want)
  BY AtmostIs
<1>2. PICK n \in Nat : n = Len(hits)
  OBVIOUS
<1>3. done <= Len(all)
  <2>1. Len(Atmost(all, done)) = IF done < Len(all) THEN done ELSE Len(all)
    BY AtmostIs
  <2> QED BY <2>1
<1>4. n = (IF want < Len(all) THEN want ELSE Len(all)) /\ \A i \in 1..n : hits[i] = all[i]
  BY <1>1, <1>2, AtmostIs, Zenon
<1>5. done <= n /\ n <= Len(all)
  BY <1>3, <1>4
<1>6. Atmost(all, done) = SubSeq(hits, 1, done)
  <2>1. PICK first \in Seq(Found) : first = Atmost(all, done)
    BY AtmostIs
  <2>2. Len(first) = done /\ \A i \in 1..done : first[i] = all[i]
    BY <2>1, AtmostIs, Zenon
  <2>3. PICK cut \in Seq(Found) : cut = SubSeq(hits, 1, done)
    <3>1. SubSeq(hits, 1, done) \in Seq(Found)
      BY <1>2, <1>5
    <3> QED BY <3>1
  <2>4. Len(cut) = done /\ \A i \in 1..done : cut[i] = hits[i]
    BY <1>2, <1>5, <2>3
  <2>5. \A i \in 1..done : cut[i] = first[i]
    BY <1>4, <1>5, <2>2, <2>4
  <2>6. first = cut
    BY <2>2, <2>4, <2>5, SeqEqual
  <2> QED BY <2>1, <2>3, <2>6, Zenon
<1>7. SubSeq(hits, 1, done) \o SubSeq(hits, done + 1, n) = SubSeq(hits, 1, n)
  <2>1. 1 \in 1..(Len(hits) + 1) /\ done \in (1 - 1)..Len(hits) /\ n \in done..Len(hits)
    BY <1>2, <1>5
  <2> QED BY <2>1, ConcatAdjacentSubSeq
<1>8. SubSeq(hits, 1, n) = hits
  BY <1>2, SubSeqFull
<1> QED BY <1>1, <1>2, <1>6, <1>7, <1>8, Zenon

(* A cursor goes on from the end of all that has been shown. *)
LEMMA CursorSound ==
  ASSUME RankingInv
  PROVE  \/ cursor = NoCursor
         \/ /\ cursor.query \in Asking /\ cursor.offset \in Nat
            /\ deepest \in Nat /\ cursor.offset <= deepest
            /\ OnePool(cursor.query, deepest) =>
                 /\ shown = Atmost(Whole(cursor.query), cursor.offset)
                 /\ Len(shown) = cursor.offset
<1>1. CASE NothingAsked
  BY <1>1 DEF NothingAsked
<1>2. CASE SomePage /\ cursor # NoCursor
  <2>0. PICK q \in Asking, offset \in Nat, limit \in 1..MaxLimit :
          \E fused, hits, results : PageIs(q, offset, limit, fused, hits, results)
    BY <1>2, Zenon DEF SomePage
  <2>1. PICK fused, hits, results : PageIs(q, offset, limit, fused, hits, results)
    BY <2>0, Zenon
  <2>2. PICK want \in Nat : want = offset + limit
    BY RankingAssumption
  <2>3. cursor = [query |-> q, offset |-> want] /\ Len(hits) = want
    BY <1>2, <2>1, <2>2, Zenon DEF PageIs
  <2>4. cursor.query = q /\ cursor.offset = want
    BY <2>3
  <2>5. hits = Rank(Candidates(q, want), want)
    BY <2>1, <2>2, Zenon DEF PageIs
  <2>6. deepest \in Nat /\ want <= deepest /\ (OnePool(q, deepest) => shown = hits)
    BY <2>1, <2>2, Zenon DEF PageIs
  <2>7. ASSUME OnePool(q, deepest)
        PROVE  shown = Atmost(Whole(q), want) /\ Len(shown) = want
    <3>1. OnePool(q, want)
      BY <2>6, <2>7, OnePoolFalls, Zenon
    <3>2. RankingKnown
      BY DEF RankingInv
    <3>3. hits = Atmost(Whole(q), want)
      BY <2>5, <3>1, <3>2, HitsSound, Zenon
    <3> QED BY <2>3, <2>6, <2>7, <3>3, Zenon
  <2> QED BY <2>4, <2>6, <2>7, Zenon
<1> QED BY <1>1, <1>2 DEF RankingInv

(* A page of the ranking leaves the invariant of it. *)
LEMMA PageStep ==
  ASSUME RankingInv, NEW q \in Asking, NEW asked \in Limits, NEW c \in {NoCursor, cursor},
         RecallPage(q, asked, c)
  PROVE  RankingInv'
<1>1. PICK limit \in 1..MaxLimit : limit = PageSize(asked)
  BY SizeType
<1>2. PICK offset \in Nat : offset = c.offset /\ (c = NoCursor => offset = 0)
  <2>1. CASE c = NoCursor
    <3>1. c.offset = 0
      BY <2>1 DEF NoCursor
    <3> QED BY <3>1
  <2>2. CASE c # NoCursor
    <3>1. c.offset \in Nat
      BY <2>2, CursorSound
    <3> QED BY <2>2, <3>1
  <2> QED BY <2>1, <2>2
<1>3. limit \in Nat \ {0}
  BY RankingAssumption
<1>4. PICK want \in Nat : want = offset + limit /\ offset <= want
  BY <1>3
<1>5. RankingKnown
  BY DEF RankingInv
<1>6. PICK fused \in Seq(Candidate) : fused = Candidates(q, want)
  BY <1>5, CandidatesSound
<1>7. PICK hits \in Seq(Found) : hits = Rank(fused, want)
  BY <1>5, <1>6, HitsSound
<1>8. PICK results \in Seq(Found) : results = SubSeq(hits, offset + 1, Len(hits))
  BY RestSound
<1>9. HasMore(results, hits, offset, limit) <=> Len(hits) = want
  BY <1>3, <1>4, <1>8, MoreIsFull
<1>10. /\ cursor' = IF Len(hits) = want THEN [query |-> q, offset |-> want] ELSE NoCursor
       /\ page' = [query |-> q, offset |-> offset, results |-> results, last |-> Len(hits) # want,
                   hint |-> Hint(q, results, fused)]
       /\ shown' = IF c = NoCursor THEN results ELSE shown \o results
       /\ deepest' = IF c = NoCursor \/ want > deepest THEN want ELSE deepest
       /\ CursorFits(q, c)
       /\ near' = near /\ terms' = terms /\ status' = status /\ request' = request
  BY <1>1, <1>2, <1>4, <1>6, <1>7, <1>8, <1>9, Zenon DEF RecallPage
<1>11. RankingKnown'
  BY <1>5, <1>10, Zenon DEF RankingKnown
<1>12. /\ Candidates(q, want)' = fused /\ Rank(fused, want)' = hits
       /\ Hint(q, results, fused)' = Hint(q, results, fused)
  <2>1. near' = near /\ terms' = terms /\ status' = status /\ request' = request
    BY <1>10, Zenon
  <2>2. /\ Candidates(q, want)' = Candidates(q, want)
        /\ Rank(fused, want)' = Rank(fused, want)
        /\ Hint(q, results, fused)' = Hint(q, results, fused)
    BY <2>1, AskedAgain
  <2> QED BY <1>6, <1>7, <2>2, Zenon
<1>13. deepest' \in Nat /\ want <= deepest' /\ (OnePool(q, deepest') => shown' = hits)
  <2>1. CASE c = NoCursor
    <3>1. deepest' = want /\ shown' = results
      BY <1>10, <2>1, Zenon
    <3>2. results = SubSeq(hits, 1, Len(hits))
      <4>1. offset + 1 = 1
        BY <1>2, <2>1
      <4> QED BY <1>8, <4>1, Zenon
    <3>3. results = hits
      BY <3>2, SubSeqFull
    <3>4. want <= want
      OBVIOUS
    <3> QED BY <3>1, <3>3, <3>4, Zenon
  <2>2. CASE c # NoCursor
    <3>1. /\ c = cursor /\ c.query = q
          /\ deepest \in Nat /\ offset <= deepest
          /\ OnePool(q, deepest) => shown = Atmost(Whole(q), offset) /\ Len(shown) = offset
      <4>1. c = cursor /\ cursor # NoCursor
        BY <2>2
      <4>2. c.query = q
        BY <1>10, <2>2, Zenon DEF CursorFits
      <4>3. cursor.query = q /\ cursor.offset = offset
        BY <1>2, <4>1, <4>2, Zenon
      <4> QED BY <4>1, <4>2, <4>3, CursorSound, Zenon
    <3>2. PICK deep \in Nat : deep = deepest
      BY <3>1
    <3>3. deepest' = (IF want > deep THEN want ELSE deep) /\ shown' = shown \o results
      BY <1>10, <2>2, <3>2, Zenon
    <3>4. deepest' \in Nat /\ want <= deepest' /\ deep <= deepest'
      BY <3>3
    <3>5. ASSUME OnePool(q, deepest') PROVE shown' = hits
      <4>1. OnePool(q, want) /\ OnePool(q, deep)
        BY <3>4, <3>5, OnePoolFalls, Zenon
      <4>2. shown = Atmost(Whole(q), offset) /\ Len(shown) = offset
        BY <3>1, <3>2, <4>1, Zenon
      <4>3. PICK all \in Seq(Found) : all = Whole(q) /\ hits = Atmost(all, want)
        BY <1>5, <1>6, <1>7, <4>1, HitsSound, Zenon
      <4>4. Len(Atmost(all, offset)) = offset
        BY <4>2, <4>3, Zenon
      <4>5. Atmost(all, offset) \o SubSeq(Atmost(all, want), offset + 1, Len(Atmost(all, want)))
              = Atmost(all, want)
        BY <1>4, <4>4, PagesJoin
      <4> QED BY <1>8, <3>3, <4>2, <4>3, <4>5, Zenon
    <3> QED BY <3>4, <3>5, Zenon
  <2> QED BY <2>1, <2>2, Zenon
<1>14. PageIs(q, offset, limit, fused, hits, results)'
  <2>1. (OnePool(q, deepest) => shown = hits)'
    BY <1>10, <1>13, Zenon DEF OnePool
  <2> QED BY <1>4, <1>8, <1>10, <1>12, <1>13, <2>1, Zenon DEF PageIs
<1>15. SomePage'
  BY <1>14, Zenon DEF SomePage
<1> QED BY <1>11, <1>15, Zenon DEF RankingInv

LEMMA RankingStep ==
  ASSUME RankingInv, [RankingNext]_rankingVars
  PROVE  RankingInv'
<1>1. CASE RankingNext
  BY <1>1, PageStep DEF RankingNext
<1>2. CASE UNCHANGED rankingVars
  <2>1. /\ near' = near /\ terms' = terms /\ status' = status /\ request' = request
        /\ cursor' = cursor /\ shown' = shown /\ deepest' = deepest /\ page' = page
    BY <1>2 DEF rankingVars
  <2>2. RankingKnown'
    BY <2>1 DEF RankingInv, RankingKnown
  <2>3. NothingAsked => NothingAsked'
    BY <2>1 DEF NothingAsked
  <2>4. ASSUME SomePage PROVE SomePage'
    <3>1. PICK q \in Asking, offset \in Nat, limit \in 1..MaxLimit :
            \E fused, hits, results : PageIs(q, offset, limit, fused, hits, results)
      BY <2>4, Zenon DEF SomePage
    <3>2. PICK fused, hits, results : PageIs(q, offset, limit, fused, hits, results)
      BY <3>1, Zenon
    <3>3. PICK want : want = offset + limit
      OBVIOUS
    <3>4. /\ Candidates(q, want)' = Candidates(q, want)
          /\ Rank(fused, want)' = Rank(fused, want)
          /\ Hint(q, results, fused)' = Hint(q, results, fused)
          /\ OnePool(q, deepest)' <=> OnePool(q, deepest)
      <4>1. OnePool(q, deepest)' <=> OnePool(q, deepest)
        BY <2>1, Zenon DEF OnePool
      <4> QED BY <2>1, <4>1, AskedAgain
    <3>5. PageIs(q, offset, limit, fused, hits, results)'
      BY <2>1, <3>2, <3>3, <3>4, Zenon DEF PageIs
    <3> QED BY <3>5, Zenon DEF SomePage
  <2> QED BY <2>2, <2>3, <2>4, Zenon DEF RankingInv
<1> QED BY <1>1, <1>2

LEMMA RankingInvariant == RankingSpec => []RankingInv
<1>1. RankingInv /\ [RankingNext]_rankingVars => RankingInv'
  BY RankingStep
<1> QED BY InitRanking, <1>1, PTL DEF RankingSpec

(* The last page, once a query was asked, field by field. *)
LastPage(q, offset, want, fused, hits, results) ==
  /\ fused = Candidates(q, want) /\ hits = Rank(fused, want)
  /\ results = SubSeq(hits, offset + 1, Len(hits))
  /\ page.query = q /\ page.offset = offset /\ page.results = results
  /\ page.last = (Len(hits) # want) /\ page.hint = Hint(q, results, fused)
  /\ cursor \in {NoCursor, [query |-> q, offset |-> want]}
  /\ 0 < want /\ want <= offset + MaxLimit /\ deepest \in Nat /\ want <= deepest
  /\ OnePool(q, deepest) => shown = hits

LEMMA LastPageIs ==
  ASSUME RankingInv, ~NothingAsked
  PROVE  \E q \in Asking, offset \in Nat, want \in Nat, fused \in Seq(Candidate),
            hits \in Seq(Found), results \in Seq(Found) :
           LastPage(q, offset, want, fused, hits, results)
<1>1. PICK q \in Asking, offset \in Nat, limit \in 1..MaxLimit :
        \E fused, hits, results : PageIs(q, offset, limit, fused, hits, results)
  BY Zenon DEF SomePage, RankingInv
<1>2. PICK fused, hits, results : PageIs(q, offset, limit, fused, hits, results)
  BY <1>1, Zenon
<1>3. PICK want \in Nat : want = offset + limit /\ 0 < want /\ want <= offset + MaxLimit
  BY RankingAssumption
<1>4. RankingKnown
  BY DEF RankingInv
<1>5. fused = Candidates(q, want) /\ hits = Rank(fused, want)
      /\ results = SubSeq(hits, offset + 1, Len(hits))
  BY <1>2, <1>3, Zenon DEF PageIs
<1>6. fused \in Seq(Candidate)
  BY <1>4, <1>5, CandidatesSound
<1>7. hits \in Seq(Found)
  BY <1>4, <1>5, HitsSound, Zenon
<1>8. results \in Seq(Found)
  BY <1>5, <1>7, RestSound, Zenon
<1>9. page = [query |-> q, offset |-> offset, results |-> results, last |-> Len(hits) # want,
              hint |-> Hint(q, results, fused)]
  BY <1>2, <1>3, Zenon DEF PageIs
<1>10. /\ page.query = q /\ page.offset = offset /\ page.results = results
       /\ page.last = (Len(hits) # want) /\ page.hint = Hint(q, results, fused)
  BY <1>9
<1>11. /\ cursor \in {NoCursor, [query |-> q, offset |-> want]}
       /\ deepest \in Nat /\ want <= deepest
       /\ OnePool(q, deepest) => shown = hits
  BY <1>2, <1>3, Zenon DEF PageIs
<1>12. LastPage(q, offset, want, fused, hits, results)
  BY <1>3, <1>5, <1>10, <1>11, Zenon DEF LastPage
<1> QED BY <1>6, <1>7, <1>8, <1>12, Zenon

LEMMA RankingTyped ==
  ASSUME RankingInv
  PROVE  RankingTypeOK
<1>1. cursor.query \in Asking \cup {NoQuery} /\ cursor.offset \in Nat
  <2>1. NoCursor.query = NoQuery /\ NoCursor.offset = 0
    BY DEF NoCursor
  <2> QED BY <2>1, CursorSound
<1>2. CASE NothingAsked
  <2>1. page.results = <<>>
    BY <1>2 DEF NothingAsked, NoPage
  <2>2. Len(<<>>) = 0 /\ 0 <= MaxLimit
    BY RankingAssumption
  <2>3. Range(<<>>) = {}
    BY DEF Range
  <2> QED BY <1>1, <2>1, <2>2, <2>3, Zenon DEF RankingTypeOK
<1>3. CASE ~NothingAsked
  <2>1. PICK q \in Asking, offset \in Nat, want \in Nat, fused \in Seq(Candidate),
            hits \in Seq(Found), results \in Seq(Found) :
           LastPage(q, offset, want, fused, hits, results)
    BY <1>3, LastPageIs, Zenon
  <2>2. /\ page.results = results /\ fused = Candidates(q, want) /\ hits = Rank(fused, want)
        /\ results = SubSeq(hits, offset + 1, Len(hits)) /\ want <= offset + MaxLimit
    BY <2>1, Zenon DEF LastPage
  <2>3. Len(hits) <= want
    BY <2>2, HitsSound, Zenon DEF RankingInv
  <2>4. Len(results) = IF offset < Len(hits) THEN Len(hits) - offset ELSE 0
    BY <2>2, RestSound, Zenon
  <2>5. Len(results) <= MaxLimit
    BY <2>2, <2>3, <2>4, RankingAssumption
  <2>6. Range(results) \subseteq Found
    BY DEF Range
  <2> QED BY <1>1, <2>2, <2>5, <2>6, Zenon DEF RankingTypeOK
<1> QED BY <1>2, <1>3

(* The query of the last page is one that was asked, or nobody's. *)
LEMMA PageQuery ==
  ASSUME RankingInv, page.query # NoQuery
  PROVE  page.query \in Asking /\ ~NothingAsked
<1>1. ~NothingAsked
  BY DEF NothingAsked, NoPage
<1>2. PICK q \in Asking, offset \in Nat, want \in Nat, fused \in Seq(Candidate),
         hits \in Seq(Found), results \in Seq(Found) :
        LastPage(q, offset, want, fused, hits, results)
  BY <1>1, LastPageIs, Zenon
<1> QED BY <1>1, <1>2, Zenon DEF LastPage

LEMMA FuseMeetsIt ==
  ASSUME RankingInv
  PROVE  FuseMeetsReference
<1> SUFFICES ASSUME page.query # NoQuery PROVE FuseMeetsReference
  BY DEF FuseMeetsReference
<1>1. PICK q \in Asking : q = page.query
  BY PageQuery
<1>2. PICK s \in Seq(Found) : s = near[q] /\ IsInjective(s)
  BY AskedSound DEF RankingInv
<1>3. PICK t \in Seq(Found) : t = terms
  BY AskedSound DEF RankingInv
<1>4. FusedSound(Fuse(s, t), s, t)
  BY <1>2, FuseIsSound
<1>5. PICK fused \in Seq(Candidate) : fused = Fuse(s, t)
  BY <1>4 DEF FusedSound
<1>6. DOMAIN fused = 1..Len(fused)
  BY LenProperties
<1>7. OneEach(fused) /\ OfEither(fused, s, t) /\ Parts(fused, s, t)
  BY <1>4, <1>5, Zenon DEF FusedSound
<1>8. {fused[i].id : i \in DOMAIN fused} = Range(s) \cup Range(t)
  <2>1. \A id : id \in {fused[i].id : i \in DOMAIN fused} <=> \E i \in 1..Len(fused) : fused[i].id = id
    BY <1>6, Zenon
  <2>2. \A id : id \in {fused[i].id : i \in DOMAIN fused} <=> id \in Range(s) \cup Range(t)
    BY <1>7, <2>1, Zenon DEF OfEither
  <2> QED BY <2>2, Zenon
<1>9. \A i, j \in DOMAIN fused : fused[i].id = fused[j].id => i = j
  BY <1>6, <1>7, Zenon DEF OneEach
<1>10. \A i \in DOMAIN fused :
         fused[i].score = Part(s, fused[i].id, Scale) + Part(t, fused[i].id, DefaultLexicalWeight)
  BY <1>6, <1>7, Zenon DEF Parts
<1>11. near[page.query] = s /\ terms = t /\ Fuse(near[page.query], terms) = fused
  BY <1>1, <1>2, <1>3, <1>5, Zenon
<1> QED BY <1>8, <1>9, <1>10, <1>11 DEF FuseMeetsReference

LEMMA FilterKeepsAnswers ==
  ASSUME RankingInv
  PROVE  FilterRemovesNothing
<1> SUFFICES ASSUME page.query # NoQuery, NEW k \in 1..MaxLimit
             PROVE  Len(Rank(Candidates(page.query, k), k)) =
                      IF k < Cardinality(Fit(Candidates(page.query, k)))
                      THEN k ELSE Cardinality(Fit(Candidates(page.query, k)))
  BY Zenon DEF FilterRemovesNothing, Fit
<1>1. PICK q \in Asking : q = page.query
  BY PageQuery
<1>2. k \in Nat
  BY RankingAssumption
<1>3. PICK all \in Seq(Found) : /\ Len(all) = Cardinality(Fit(Candidates(q, k)))
                                /\ Rank(Candidates(q, k), k) = Atmost(all, k)
  BY <1>2, RankingOf, Zenon DEF RankingInv
<1>4. Len(Atmost(all, k)) = IF k < Len(all) THEN k ELSE Len(all)
  BY <1>2, AtmostIs
<1> QED BY <1>1, <1>3, <1>4, Zenon

LEMMA PagesDoAgree ==
  ASSUME RankingInv
  PROVE  PagesAgree /\ LastIsLast
<1>1. CASE NothingAsked
  <2>1. page = NoPage
    BY <1>1 DEF NothingAsked
  <2>2. page.last = FALSE
    BY <2>1 DEF NoPage
  <2> QED BY <2>1, <2>2, Zenon DEF PagesAgree, LastIsLast
<1>2. CASE ~NothingAsked
  <2>1. PICK q \in Asking, offset \in Nat, want \in Nat, fused \in Seq(Candidate),
            hits \in Seq(Found), results \in Seq(Found) :
           LastPage(q, offset, want, fused, hits, results)
    BY <1>2, LastPageIs, Zenon
  <2>2. /\ fused = Candidates(q, want) /\ hits = Rank(fused, want) /\ page.query = q
        /\ page.last = (Len(hits) # want) /\ deepest \in Nat /\ want <= deepest
        /\ OnePool(q, deepest) => shown = hits
    BY <2>1, Zenon DEF LastPage
  <2>3. ASSUME OnePool(q, deepest)
        PROVE  shown = Atmost(Whole(q), Len(shown)) /\ (page.last => shown = Whole(q))
    <3>1. OnePool(q, want)
      BY <2>2, <2>3, OnePoolFalls, Zenon
    <3>2. PICK all \in Seq(Found) : all = Whole(q) /\ hits = Atmost(all, want)
      BY <2>2, <3>1, HitsSound, Zenon DEF RankingInv
    <3>3. PICK n \in Nat : n = Len(hits) /\ n = IF want < Len(all) THEN want ELSE Len(all)
      <4>1. Len(hits) = IF want < Len(all) THEN want ELSE Len(all)
        BY <3>2, AtmostIs, Zenon
      <4> QED BY <4>1
    <3>4. (IF n < Len(all) THEN n ELSE Len(all)) = n
      BY <3>3
    <3>5. Atmost(all, n) = SubSeq(all, 1, n)
      BY <3>4, Zenon DEF Atmost
    <3>6. hits = SubSeq(all, 1, n)
      BY <3>2, <3>3, Zenon DEF Atmost
    <3>7. ASSUME page.last PROVE shown = Whole(q)
      <4>1. n # want
        BY <2>2, <3>3, <3>7, Zenon
      <4>2. n = Len(all)
        BY <3>3, <4>1
      <4> QED BY <2>2, <2>3, <3>2, <3>6, <4>2, SubSeqFull, Zenon
    <3> QED BY <2>2, <2>3, <3>2, <3>3, <3>5, <3>6, <3>7, Zenon
  <2> QED BY <2>2, <2>3, Zenon DEF PagesAgree, LastIsLast
<1> QED BY <1>1, <1>2

(***************************************************************************)
(* For every vault, request and sequence of pages the recall tool gives no *)
(* more records than its limit, all of them records that were found, with  *)
(* a cursor of a query that was asked.                                     *)
(***************************************************************************)
THEOREM RankingTypeCorrect == RankingSpec => []RankingTypeOK
  BY RankingInvariant, RankingTyped, PTL

(***************************************************************************)
(* fuse and rank meet their reference whatever the two passes found: every *)
(* record of either once, scored by its best places alone, and a filter    *)
(* changes the order and never how many come back.                         *)
(***************************************************************************)
THEOREM RanksMeetReference == RankingSpec => []RankMeetsReference
<1>1. RankingInv => RankMeetsReference
  BY FuseMeetsIt, FilterKeepsAnswers, Zenon DEF RankMeetsReference
<1> QED BY RankingInvariant, <1>1, PTL

(***************************************************************************)
(* Pages of any sizes, taken one after another while no pass finds more    *)
(* than the pages' pools hold (mcp/handlers.go, candidatePool), are the    *)
(* ranking, none repeated or left out; and the page without a cursor ends  *)
(* it.                                                                     *)
(***************************************************************************)
THEOREM PagesAreRanking == RankingSpec => []PagesTellRanking
<1>1. RankingInv => PagesTellRanking
  BY PagesDoAgree, Zenon DEF PagesTellRanking
<1> QED BY RankingInvariant, <1>1, PTL
=============================================================================
