---------------------------- MODULE AnswerProofs ----------------------------
(***************************************************************************)
(* What a caller is answered is so: listing records page by page           *)
(* (Listing) and resuming a conversation (Resume), for any number of       *)
(* records, conversations and changes, and pages and lists of any length.  *)
(***************************************************************************)
EXTENDS Listing, Resume, FiniteSetTheorems, SequenceTheorems, TLAPS

(* Rows that are in an order, the one place of each. *)
Ordering(S, before) ==
  /\ \A x \in S : <<x, x>> \notin before
  /\ \A x, y, z \in S : <<x, y>> \in before /\ <<y, z>> \in before => <<x, z>> \in before
  /\ \A x, y \in S : x = y \/ <<x, y>> \in before \/ <<y, x>> \in before

LEMMA AheadIsFinite ==
  ASSUME NEW S, IsFiniteSet(S), NEW before, NEW x \in S
  PROVE  IsFiniteSet(Ahead(x, S, before)) /\ Cardinality(Ahead(x, S, before)) \in Nat
<1>1. Ahead(x, S, before) \in SUBSET S
  BY DEF Ahead
<1> QED BY <1>1, FS_Subset, FS_CardinalityType

LEMMA AheadGrows ==
  ASSUME NEW S, IsFiniteSet(S), NEW before, Ordering(S, before),
         NEW x \in S, NEW y \in S, <<x, y>> \in before
  PROVE  Cardinality(Ahead(x, S, before)) < Cardinality(Ahead(y, S, before))
<1>1. PICK X \in SUBSET S : X = Ahead(x, S, before)
  BY DEF Ahead
<1>2. PICK Y \in SUBSET S : Y = Ahead(y, S, before)
  BY DEF Ahead
<1>3. x \in Y /\ X \subseteq Y \ {x}
  BY <1>1, <1>2 DEF Ahead, Ordering
<1>4. IsFiniteSet(X) /\ IsFiniteSet(Y) /\ Cardinality(X) \in Nat /\ Cardinality(Y) \in Nat
  BY FS_Subset, FS_CardinalityType
<1>5. IsFiniteSet(Y \ {x}) /\ Cardinality(Y \ {x}) = Cardinality(Y) - 1
  BY <1>3, <1>4, FS_RemoveElement
<1>6. Cardinality(X) <= Cardinality(Y \ {x})
  BY <1>3, <1>5, FS_Subset
<1> QED BY <1>1, <1>2, <1>4, <1>5, <1>6

(***************************************************************************)
(* Arranged gives every row of a finite set one place, in order.  That     *)
(* some row has each place is the pigeonhole principle: rows have          *)
(* different numbers of rows ahead of them, and none has all.              *)
(***************************************************************************)
LEMMA ArrangedInOrder ==
  ASSUME NEW S, IsFiniteSet(S), NEW before, Ordering(S, before)
  PROVE  /\ Arranged(S, before) \in Seq(S) /\ Len(Arranged(S, before)) = Cardinality(S)
         /\ \A i, j \in 1..Cardinality(S) :
              i < j => <<Arranged(S, before)[i], Arranged(S, before)[j]>> \in before
         /\ \A x \in S : \E i \in 1..Cardinality(S) : Arranged(S, before)[i] = x
<1> DEFINE n == Cardinality(S)
           ahead(x) == Cardinality(Ahead(x, S, before))
           f == [x \in S |-> ahead(x) + 1]
           arranged == Arranged(S, before)
<1>1. n \in Nat
  BY FS_CardinalityType
<1>2. ASSUME NEW x \in S PROVE ahead(x) \in Nat /\ ahead(x) < n
  <2>1. PICK X \in SUBSET (S \ {x}) : X = Ahead(x, S, before)
    BY DEF Ahead, Ordering
  <2>2. IsFiniteSet(S \ {x}) /\ Cardinality(S \ {x}) = n - 1
    BY FS_RemoveElement
  <2>3. Cardinality(X) <= n - 1 /\ IsFiniteSet(X)
    BY <2>2, FS_Subset
  <2>4. Cardinality(X) \in Nat
    BY <2>3, FS_CardinalityType
  <2> QED BY <1>1, <2>1, <2>3, <2>4
<1>3. ASSUME NEW x \in S, NEW y \in S, ahead(x) = ahead(y) PROVE x = y
  <2>1. <<x, y>> \notin before /\ <<y, x>> \notin before
    BY <1>2, <1>3, AheadGrows
  <2> QED BY <2>1 DEF Ordering
<1> HIDE DEF ahead
<1>4. f \in [S -> 1..n] /\ \A x, y \in S : f[x] = f[y] => x = y
  BY <1>1, <1>2, <1>3
<1>5. f \in Injection(S, 1..n)
  BY <1>4 DEF Injection, IsInjective
<1>6. IsFiniteSet(1..n) /\ Cardinality(1..n) = n
  BY <1>1, FS_Interval
<1>7. f \in Surjection(S, 1..n)
  BY <1>5, <1>6, FS_Injection
<1>8. \A i \in 1..n : \E x \in S : ahead(x) = i - 1
  <2>1. \A i \in 1..n : \E x \in S : f[x] = i
    BY <1>7 DEF Surjection
  <2> QED BY <1>1, <1>2, <2>1
<1>9. arranged = [i \in 1..n |-> CHOOSE x \in S : ahead(x) = i - 1]
  BY DEF Arranged, ahead
<1>10. \A i \in 1..n : arranged[i] \in S /\ ahead(arranged[i]) = i - 1
  BY <1>8, <1>9
<1> HIDE DEF arranged
<1>11. arranged \in Seq(S) /\ Len(arranged) = n
  BY <1>1, <1>9, <1>10
<1>12. ASSUME NEW i \in 1..n, NEW j \in 1..n, i < j PROVE <<arranged[i], arranged[j]>> \in before
  <2>1. PICK x \in S, y \in S : x = arranged[i] /\ y = arranged[j]
    BY <1>10
  <2>2. ahead(x) = i - 1 /\ ahead(y) = j - 1
    BY <1>10, <2>1
  <2>3. ~(ahead(y) < ahead(x)) /\ x # y
    BY <1>1, <1>12, <2>2
  <2>4. <<y, x>> \notin before
    BY <2>3, AheadGrows DEF ahead
  <2> QED BY <2>1, <2>3, <2>4 DEF Ordering
<1>13. ASSUME NEW x \in S PROVE \E i \in 1..n : arranged[i] = x
  <2>1. ahead(x) + 1 \in 1..n
    BY <1>1, <1>2
  <2>2. ahead(arranged[ahead(x) + 1]) = ahead(x) /\ arranged[ahead(x) + 1] \in S
    BY <1>2, <1>10, <2>1
  <2> QED BY <1>3, <2>1, <2>2
<1> QED BY <1>11, <1>12, <1>13 DEF arranged

-----------------------------------------------------------------------------
(* Listing records page by page.                                           *)

Time == Int
RowRecord == [created : Time, tagged : BOOLEAN, replaces : RowIds \cup {Nothing}]

ListingTypes ==
  /\ recordRows \in [RowIds -> RowRecord]
  /\ given \in [RowIds -> RowIds \cup {Nothing, NotGiven}]
  /\ place = NoPlace \/ place \in [created : 0..now, id : RowIds]
  /\ seen \in Seq(RowIds) /\ steady \subseteq Selected(wanted)
  /\ now \in Nat
  /\ IsFiniteSet(Rows)

(* A row is of a record that was written, at a time that has come. *)
RowsWritten ==
  \A id \in Rows : given[id] # NotGiven /\ recordRows[id].created \in 0..now /\ recordRows[id].replaces = given[id]

(* Nothing was written to replace what was not written before, so what     *)
(* replaces what has no circles: of any records that were written, one is  *)
(* replaced by none of them.                                               *)
Chained ==
  /\ \A id \in RowIds : given[id] \in RowIds => given[given[id]] # NotGiven
  /\ \A X \in SUBSET RowIds :
       X # {} /\ (\A x \in X : given[x] # NotGiven) => \E x \in X : \A y \in X : given[y] # x

(* The time of a record's row, or of the row it would have if restored now. *)
Dated(id) == IF id \in Rows THEN recordRows[id].created ELSE now

(* What was listed is not past the cursor, wherever it is restored to. *)
SeenIsBehind ==
  place # NoPlace => \A id \in Range(seen) :
    Dated(id) > place.created \/ (Dated(id) = place.created /\ id <= place.id)

(* What the filters have selected all the while was listed or is past the cursor. *)
SteadyIsMet ==
  \A id \in steady : id \in Range(seen) \/ (place # NoPlace /\ answer # "probing" /\ Past(id, place))

ListingInv ==
  /\ ListingTypes /\ RowsWritten /\ Chained /\ NoRowTwice /\ SeenIsBehind /\ SteadyIsMet
  /\ restored => tracked

LEMMA InitListing == ListingInit => ListingInv
<1> SUFFICES ASSUME ListingInit PROVE ListingInv
  OBVIOUS
<1>1. NoRow \in RowRecord
  BY DEF NoRow, RowRecord, Time, Nothing
<1>2. Rows = {} /\ IsFiniteSet(Rows)
  BY FS_EmptySet DEF ListingInit, Rows
<1>3. ListingTypes
  <2>1. recordRows \in [RowIds -> RowRecord] /\ given \in [RowIds -> RowIds \cup {Nothing, NotGiven}]
    BY <1>1 DEF ListingInit
  <2>2. place = NoPlace /\ seen \in Seq(RowIds) /\ steady \subseteq Selected(wanted) /\ now \in Nat
    BY DEF ListingInit
  <2> QED BY <1>2, <2>1, <2>2 DEF ListingTypes
<1>4. Chained
  <2>1. \A id \in RowIds : given[id] = -1
    BY DEF ListingInit, NotGiven
  <2>2. -1 \notin RowIds
    BY ListingAssumption
  <2> QED BY <2>1, <2>2, Zenon DEF Chained, NotGiven
<1>5. RowsWritten /\ NoRowTwice /\ SeenIsBehind /\ SteadyIsMet /\ (restored => tracked)
  BY <1>2 DEF ListingInit, RowsWritten, NoRowTwice, SeenIsBehind, SteadyIsMet
<1> QED BY <1>3, <1>4, <1>5 DEF ListingInv

(* While there is a row, one of them is replaced by none. *)
LEMMA SomeRowIsCurrent ==
  ASSUME ListingInv
  PROVE  SomethingCurrent
<1> SUFFICES ASSUME Rows # {} PROVE Selected(NoFilters) # {}
  BY DEF SomethingCurrent
<1>1. Rows \in SUBSET RowIds /\ \A x \in Rows : given[x] # NotGiven /\ recordRows[x].replaces = given[x]
  BY DEF ListingInv, RowsWritten, Rows
<1>2. PICK x \in Rows : \A y \in Rows : given[y] # x
  BY <1>1 DEF ListingInv, Chained
<1>3. x \notin ReplacedRows
  BY <1>1, <1>2 DEF ReplacedRows
<1> QED BY <1>2, <1>3 DEF Selected, NoFilters

-----------------------------------------------------------------------------
(* A page.                                                                 *)

ToCome(from) == {id \in Selected(wanted) : Past(id, from)}

LEMMA RowsInOrder ==
  ASSUME ListingInv, NEW ids \in SUBSET Rows
  PROVE  /\ Sorted(ids) \in Seq(ids)
         /\ \A i, j \in 1..Len(Sorted(ids)) : i < j => Newest(Sorted(ids)[i], Sorted(ids)[j])
         /\ \A id \in ids : \E i \in 1..Len(Sorted(ids)) : Sorted(ids)[i] = id
<1> DEFINE before == {p \in ids \X ids : Newest(p[1], p[2])}
<1>1. \A a, b \in ids : <<a, b>> \in before <=> Newest(a, b)
  BY DEF Newest
<1>2. \A id \in ids : recordRows[id].created \in Nat /\ id \in Nat
  BY ListingAssumption DEF ListingInv, ListingTypes, RowsWritten, Rows
<1> HIDE DEF before
<1>3. Ordering(ids, before)
  BY <1>1, <1>2 DEF Ordering, Newest
<1>4. IsFiniteSet(ids)
  BY FS_Subset DEF ListingInv, ListingTypes
<1>5. Sorted(ids) = Arranged(ids, before)
  BY DEF Sorted, before
<1>6. PICK R : R = before
  OBVIOUS
<1>7. Ordering(ids, R)
  BY <1>3, <1>6
<1>8. /\ Arranged(ids, R) \in Seq(ids) /\ Len(Arranged(ids, R)) = Cardinality(ids)
      /\ \A i, j \in 1..Cardinality(ids) : i < j => <<Arranged(ids, R)[i], Arranged(ids, R)[j]>> \in R
      /\ \A x \in ids : \E i \in 1..Cardinality(ids) : Arranged(ids, R)[i] = x
  BY <1>4, <1>7, ArrangedInOrder
<1>9. PICK s : s = Arranged(ids, R)
  OBVIOUS
<1>10. s \in Seq(ids) /\ \A i, j \in 1..Len(s) : i < j => <<s[i], s[j]>> \in before
  BY <1>6, <1>8, <1>9
<1>11. \A i \in 1..Len(s) : s[i] \in ids
  BY <1>10
<1>12. \A x \in ids : \E i \in 1..Len(s) : s[i] = x
  BY <1>8, <1>9
<1> QED BY <1>1, <1>5, <1>6, <1>9, <1>10, <1>11, <1>12

(* What a call that lists rows answers with. *)
APage(from, out) ==
  /\ seen' = IF from = NoPlace THEN out ELSE seen \o out
  /\ \A i, j \in 1..Len(out) : i < j => Newest(out[i], out[j])
  /\ \/ place' = NoPlace /\ \A id \in ToCome(from) : \E i \in 1..Len(out) : out[i] = id
     \/ place' = from /\ from # NoPlace /\ out = <<>> /\ ToCome(from) = {}
     \/ /\ Len(out) >= 1 /\ answer' = "more"
        /\ place' = [created |-> recordRows[out[Len(out)]].created, id |-> out[Len(out)]]
        /\ \A id \in ToCome(from) : \/ \E i \in 1..Len(out) : out[i] = id
                                    \/ Newest(out[Len(out)], id)

(* A page is the first rows past the cursor; the rest is past the next.    *)
LEMMA PageIsFirst ==
  ASSUME ListingInv, NEW size \in PageSizes, NEW from, ListRows(size, from)
  PROVE  \E out \in Seq(ToCome(from)) : APage(from, out)
<1>1. PICK T \in SUBSET Rows : T = ToCome(from)
  BY DEF ToCome, Selected
<1>2. PICK all \in Seq(T) : all = Sorted(T)
  BY RowsInOrder
<1>3. /\ \A i, j \in 1..Len(all) : i < j => Newest(all[i], all[j])
      /\ \A id \in T : \E i \in 1..Len(all) : all[i] = id
  BY <1>2, RowsInOrder
<1>4. PICK limit \in Nat \ {0} : limit = RowLimit(size)
  BY ListingAssumption DEF RowLimit
<1>5. PICK cut \in Nat : cut = IF Len(all) > limit THEN limit ELSE Len(all)
  OBVIOUS
<1>6. PICK out : out = SubSeq(all, 1, cut)
  OBVIOUS
<1>7. cut <= Len(all) /\ Len(all) \in Nat
  BY <1>5
<1>8. out \in Seq(T) /\ Len(out) = cut /\ \A i \in 1..cut : out[i] = all[i]
  BY <1>6, <1>7
<1>9. /\ answer' = IF out = <<>> THEN EmptyHint(from) ELSE IF Len(all) > limit THEN "more" ELSE "all"
      /\ place' = IF Len(all) > limit
                  THEN [created |-> recordRows[out[limit]].created, id |-> out[limit]]
                  ELSE IF answer' = "probing" THEN from ELSE NoPlace
      /\ seen' = IF from = NoPlace THEN out ELSE seen \o out
  BY <1>1, <1>2, <1>4, <1>5, <1>6 DEF ListRows, ToCome
<1>10. ASSUME NEW i \in 1..Len(out), NEW j \in 1..Len(out), i < j PROVE Newest(out[i], out[j])
  <2>1. i \in 1..Len(all) /\ j \in 1..Len(all) /\ out[i] = all[i] /\ out[j] = all[j]
    BY <1>7, <1>8
  <2>2. Newest(all[i], all[j])
    BY <1>3, <1>10, <2>1
  <2> QED BY <2>1, <2>2
<1>11. CASE Len(all) > limit
  <2>1. Len(out) = limit /\ Len(out) >= 1 /\ answer' = "more"
    BY <1>4, <1>5, <1>8, <1>9, <1>11
  <2>2. ASSUME NEW id \in T PROVE (\E i \in 1..Len(out) : out[i] = id) \/ Newest(out[Len(out)], id)
    <3>1. PICK i \in 1..Len(all) : all[i] = id
      BY <1>3
    <3>2. CASE i <= limit
      BY <1>8, <2>1, <3>1, <3>2
    <3>3. CASE i > limit
      <4>1. limit \in 1..Len(all) /\ limit < i
        BY <1>4, <1>11, <3>3
      <4>2. Newest(all[limit], all[i])
        BY <1>3, <4>1
      <4> QED BY <1>8, <2>1, <3>1, <4>2
    <3> QED BY <1>4, <3>2, <3>3
  <2> QED BY <1>1, <1>8, <1>9, <1>10, <1>11, <2>1, <2>2 DEF APage
<1>12. CASE ~(Len(all) > limit)
  <2>1. Len(out) = Len(all) /\ \A id \in T : \E i \in 1..Len(out) : out[i] = id
    BY <1>3, <1>5, <1>7, <1>8, <1>12
  <2>2. CASE answer' = "probing"
    <3>1. out = <<>> /\ EmptyHint(from) = "probing"
      BY <1>9, <1>12, <2>2
    <3>2. from # NoPlace
      BY <3>1 DEF EmptyHint, Restoration
    <3>3. T = {}
      BY <2>1, <3>1
    <3> QED BY <1>1, <1>8, <1>9, <1>10, <1>12, <2>2, <3>1, <3>2, <3>3 DEF APage
  <2>3. CASE answer' # "probing"
    BY <1>1, <1>8, <1>9, <1>10, <1>12, <2>1, <2>3 DEF APage
  <2> QED BY <2>2, <2>3
<1> QED BY <1>11, <1>12

LEMMA CursorTypes ==
  ASSUME ListingInv, place # NoPlace
  PROVE  place.created \in Nat /\ place.created <= now /\ place.id \in Nat
<1>1. PICK c \in 0..now, id \in RowIds : place = [created |-> c, id |-> id]
  BY DEF ListingInv, ListingTypes
<1>2. now \in Nat /\ id \in Nat
  BY ListingAssumption DEF ListingInv, ListingTypes
<1> QED BY <1>1, <1>2

(* Listing a page keeps what was listed behind the cursor and what is still to come past it. *)
LEMMA PageKeepsInv ==
  ASSUME ListingInv, NEW size \in PageSizes,
         NEW from, from \in {NoPlace, place}, ListRows(size, from)
  PROVE  ListingInv'
<1> DEFINE before == IF from = NoPlace THEN <<>> ELSE seen
<1>1. PICK out \in Seq(ToCome(from)) : APage(from, out)
  BY PageIsFirst
<1>2. /\ recordRows' = recordRows /\ wanted' = wanted /\ now' = now /\ given' = given
      /\ tracked' = tracked /\ restored' = restored /\ answer # "probing"
      /\ steady' = IF from = NoPlace THEN Selected(wanted) ELSE steady
  BY DEF ListRows, aside
<1>3. Rows' = Rows /\ Selected(wanted)' = Selected(wanted) /\ \A id : Dated(id)' = Dated(id)
  BY <1>2 DEF Rows, Selected, ReplacedRows, Dated
<1>4. ToCome(from) \subseteq Selected(wanted) /\ Selected(wanted) \subseteq Rows /\ Rows \subseteq RowIds
  BY DEF ToCome, Selected, Rows
<1>5. \A i \in 1..Len(out) : out[i] \in ToCome(from)
  OBVIOUS
<1>6. \A id \in Rows : recordRows[id].created \in Nat /\ recordRows[id].created <= now /\ id \in Nat \ {0}
  BY <1>4, ListingAssumption DEF ListingInv, ListingTypes, RowsWritten
<1>7. PICK old \in Seq(RowIds) : old = before
  <2>1. seen \in Seq(RowIds) /\ <<>> \in Seq(RowIds)
    BY DEF ListingInv, ListingTypes
  <2>2. before \in Seq(RowIds)
    BY <2>1
  <2> QED BY <2>2
<1>8. seen' = old \o out /\ Len(out) \in Nat /\ Len(old) \in Nat
  <2>1. <<>> \o out = out
    BY ConcatEmptySeq
  <2>2. seen' = IF from = NoPlace THEN out ELSE seen \o out
    BY <1>1 DEF APage
  <2>3. CASE from = NoPlace
    BY <1>7, <2>1, <2>2, <2>3
  <2>4. CASE from # NoPlace
    BY <1>7, <2>2, <2>4
  <2> QED BY <2>3, <2>4
<1>9. out \in Seq(RowIds) /\ seen' \in Seq(RowIds)
  BY <1>4, <1>8
<1>10. Range(seen') = Range(old) \cup Range(out)
  <2>1. DOMAIN old = 1..Len(old) /\ DOMAIN out = 1..Len(out) /\ DOMAIN seen' = 1..(Len(old) + Len(out))
    BY <1>8, <1>9
  <2>2. /\ \A i \in 1..Len(old) : seen'[i] = old[i] /\ i \in 1..(Len(old) + Len(out))
        /\ \A i \in 1..Len(out) : seen'[Len(old) + i] = out[i] /\ Len(old) + i \in 1..(Len(old) + Len(out))
        /\ \A i \in 1..(Len(old) + Len(out)) : i \in 1..Len(old) \/ (i - Len(old) \in 1..Len(out) /\ seen'[i] = out[i - Len(old)])
    BY <1>8, <1>9
  <2>3. \A id : id \in Range(seen') <=> \E i \in 1..(Len(old) + Len(out)) : seen'[i] = id
    BY <2>1 DEF Range
  <2>4. \A id : id \in Range(old) <=> \E i \in 1..Len(old) : old[i] = id
    BY <2>1 DEF Range
  <2>5. \A id : id \in Range(out) <=> \E i \in 1..Len(out) : out[i] = id
    BY <2>1 DEF Range
  <2>6. ASSUME NEW id \in Range(seen') PROVE id \in Range(old) \cup Range(out)
    <3>1. PICK i \in 1..(Len(old) + Len(out)) : seen'[i] = id
      BY <2>3
    <3> QED BY <2>2, <2>4, <2>5, <3>1
  <2>7. ASSUME NEW id \in Range(old) \cup Range(out) PROVE id \in Range(seen')
    BY <2>2, <2>3, <2>4, <2>5
  <2> QED BY <2>6, <2>7
<1>11. \A id \in Range(old) : id \notin ToCome(from)
  <2> SUFFICES ASSUME NEW id \in Range(old), id \in ToCome(from) PROVE FALSE
    OBVIOUS
  <2>1. from # NoPlace /\ old = seen
    BY <1>7 DEF Range
  <2>2. from = place /\ from.created \in Nat /\ from.id \in Nat
    BY <2>1, CursorTypes
  <2>3. Dated(id) = recordRows[id].created /\ id \in Rows
    BY <1>4 DEF Dated
  <2>4. recordRows[id].created > from.created \/ (recordRows[id].created = from.created /\ id <= from.id)
    BY <2>1, <2>2, <2>3 DEF ListingInv, SeenIsBehind
  <2>5. recordRows[id].created < from.created \/ (recordRows[id].created = from.created /\ id > from.id)
    BY <2>1 DEF ToCome, Past
  <2> QED BY <1>6, <2>2, <2>3, <2>4, <2>5
<1>12. \A i, j \in 1..Len(old) : old[i] = old[j] => i = j
  BY <1>7 DEF ListingInv, NoRowTwice, ListingTypes
<1>13. \A i, j \in 1..Len(out) : out[i] = out[j] => i = j
  <2> SUFFICES ASSUME NEW i \in 1..Len(out), NEW j \in 1..Len(out), out[i] = out[j], i < j PROVE FALSE
    BY <1>8
  <2>1. Newest(out[i], out[j]) /\ out[i] \in Rows
    BY <1>1, <1>4, <1>5 DEF APage
  <2> QED BY <1>6, <2>1 DEF Newest
<1>14. NoRowTwice'
  <2> SUFFICES ASSUME NEW i \in 1..(Len(old) + Len(out)), NEW j \in 1..(Len(old) + Len(out)), seen'[i] = seen'[j]
               PROVE  i = j
    BY <1>8, <1>9 DEF NoRowTwice
  <2>1. \A k \in 1..Len(old) : old[k] \in Range(old)
    BY DEF Range
  <2>2. ASSUME NEW k \in 1..(Len(old) + Len(out))
        PROVE  \/ k \in 1..Len(old) /\ seen'[k] = old[k]
               \/ k - Len(old) \in 1..Len(out) /\ seen'[k] = out[k - Len(old)]
    BY <1>8, <1>9
  <2>3. CASE i \in 1..Len(old) /\ j \in 1..Len(old)
    BY <1>8, <1>9, <1>12, <2>3
  <2>4. CASE i \notin 1..Len(old) /\ j \notin 1..Len(old)
    <3>1. i - Len(old) \in 1..Len(out) /\ j - Len(old) \in 1..Len(out) /\ out[i - Len(old)] = out[j - Len(old)]
      BY <2>2, <2>4
    <3>2. i - Len(old) = j - Len(old)
      BY <1>13, <3>1
    <3> QED BY <1>8, <3>2
  <2>5. CASE i \in 1..Len(old) /\ j \notin 1..Len(old)
    <3>1. j - Len(old) \in 1..Len(out) /\ seen'[j] = out[j - Len(old)] /\ out[j - Len(old)] \in ToCome(from)
      BY <1>5, <2>2, <2>5
    <3>2. seen'[i] = old[i]
      BY <1>8, <1>9, <2>5
    <3> QED BY <1>11, <2>1, <2>5, <3>1, <3>2
  <2>6. CASE i \notin 1..Len(old) /\ j \in 1..Len(old)
    <3>1. i - Len(old) \in 1..Len(out) /\ seen'[i] = out[i - Len(old)] /\ out[i - Len(old)] \in ToCome(from)
      BY <1>5, <2>2, <2>6
    <3>2. seen'[j] = old[j]
      BY <1>8, <1>9, <2>6
    <3> QED BY <1>11, <2>1, <2>6, <3>1, <3>2
  <2> QED BY <2>3, <2>4, <2>5, <2>6

<1>15. ASSUME Len(out) >= 1, NEW last, last = out[Len(out)],
              place' = [created |-> recordRows[last].created, id |-> last]
       PROVE  /\ last \in Rows /\ last \in ToCome(from) /\ place' # NoPlace
              /\ place' \in [created : 0..now', id : RowIds]
              /\ place'.created = recordRows[last].created /\ place'.id = last
  <2>1. last \in Rows /\ last \in RowIds /\ last \in ToCome(from)
    BY <1>4, <1>5, <1>8, <1>15
  <2> QED BY <1>2, <1>6, <1>15, <2>1 DEF NoPlace
<1>16. SeenIsBehind'
  <2> SUFFICES ASSUME place' # NoPlace, NEW id \in Range(seen')
               PROVE  Dated(id) > place'.created \/ (Dated(id) = place'.created /\ id <= place'.id)
    BY <1>3 DEF SeenIsBehind
  <2>1. CASE place' = from /\ from # NoPlace /\ out = <<>>
    <3>1. Range(out) = {} /\ old = seen /\ place' = place
      BY <1>7, <2>1 DEF Range
    <3> QED BY <1>10, <2>1, <3>1 DEF ListingInv, SeenIsBehind
  <2>2. ASSUME Len(out) >= 1, place' = [created |-> recordRows[out[Len(out)]].created, id |-> out[Len(out)]]
        PROVE  Dated(id) > place'.created \/ (Dated(id) = place'.created /\ id <= place'.id)
    <3>1. PICK last : last = out[Len(out)]
      OBVIOUS
    <3>2. /\ last \in Rows /\ last \in ToCome(from)
          /\ place'.created = recordRows[last].created /\ place'.id = last
      BY <1>15, <2>2, <3>1
    <3>3. CASE id \in Range(out)
      <4>1. PICK i \in 1..Len(out) : out[i] = id
        BY <3>3 DEF Range
      <4>2. id \in Rows /\ Dated(id) = recordRows[id].created
        BY <1>4, <1>5, <4>1 DEF Dated
      <4>3. i = Len(out) \/ Newest(id, last)
        BY <1>1, <1>8, <2>2, <3>1, <4>1 DEF APage
      <4> QED BY <1>6, <3>1, <3>2, <4>1, <4>2, <4>3 DEF Newest
    <3>4. CASE id \in Range(old)
      <4>1. from # NoPlace /\ old = seen /\ from = place
        BY <1>7, <3>4 DEF Range
      <4>2. from.created \in Nat /\ from.id \in Nat
        BY <4>1, CursorTypes
      <4>3. Dated(id) > from.created \/ (Dated(id) = from.created /\ id <= from.id)
        BY <3>4, <4>1 DEF ListingInv, SeenIsBehind
      <4>4. recordRows[last].created < from.created \/ (recordRows[last].created = from.created /\ last > from.id)
        BY <3>2, <4>1 DEF ToCome, Past
      <4>5. Dated(id) \in Nat /\ id \in Nat
        <5>1. id \in RowIds /\ now \in Nat
          BY <1>7, <3>4 DEF Range, ListingInv, ListingTypes
        <5> QED BY <1>6, <5>1, ListingAssumption DEF Dated
      <4> QED BY <1>6, <3>2, <4>2, <4>3, <4>4, <4>5
    <3> QED BY <1>10, <3>3, <3>4
  <2> QED BY <1>1, <2>1, <2>2 DEF APage
<1>17. SteadyIsMet'
  <2> SUFFICES ASSUME NEW id \in steady', id \notin Range(seen')
               PROVE  place' # NoPlace /\ answer' # "probing" /\ Past(id, place)'
    BY DEF SteadyIsMet
  <2>1. id \in ToCome(from)
    <3>1. CASE from = NoPlace
      BY <1>2, <3>1 DEF ToCome, Past
    <3>2. CASE from # NoPlace
      <4>1. id \in steady /\ old = seen /\ from = place /\ id \notin Range(seen)
        BY <1>2, <1>7, <1>10, <3>2
      <4>2. Past(id, place) /\ id \in Selected(wanted)
        BY <4>1 DEF ListingInv, ListingTypes, SteadyIsMet
      <4> QED BY <4>1, <4>2 DEF ToCome
    <3> QED BY <3>1, <3>2
  <2>2. ~\E i \in 1..Len(out) : out[i] = id
    <3>1. DOMAIN out = 1..Len(out)
      BY <1>9
    <3>2. \A i \in 1..Len(out) : out[i] \in Range(out)
      BY <3>1 DEF Range
    <3> QED BY <1>10, <3>2
  <2>3. PICK last : last = out[Len(out)]
    OBVIOUS
  <2>4. /\ Len(out) >= 1 /\ answer' = "more" /\ Newest(last, id)
        /\ place' = [created |-> recordRows[last].created, id |-> last]
    BY <1>1, <2>1, <2>2, <2>3 DEF APage
  <2>5. last \in Rows /\ place' # NoPlace /\ place'.created = recordRows[last].created /\ place'.id = last
    BY <1>15, <2>3, <2>4
  <2>6. id \in Rows
    BY <1>4, <2>1
  <2> QED BY <1>2, <1>6, <2>4, <2>5, <2>6 DEF Past, Newest
<1>18. ListingTypes'
  <2>1. recordRows' \in [RowIds -> RowRecord] /\ given' \in [RowIds -> RowIds \cup {Nothing, NotGiven}]
        /\ now' \in Nat /\ IsFiniteSet(Rows')
    BY <1>2, <1>3 DEF ListingInv, ListingTypes
  <2>2. steady' \subseteq Selected(wanted)'
    BY <1>2, <1>3 DEF ListingInv, ListingTypes
  <2>3. place' = NoPlace \/ place' \in [created : 0..now', id : RowIds]
    <3>1. place' = from => place' = NoPlace \/ place' \in [created : 0..now', id : RowIds]
      BY <1>2 DEF ListingInv, ListingTypes
    <3>2. PICK last : last = out[Len(out)]
      OBVIOUS
    <3> QED BY <1>1, <1>15, <3>1, <3>2 DEF APage
  <2> QED BY <1>9, <2>1, <2>2, <2>3 DEF ListingTypes
<1>19. RowsWritten' /\ Chained' /\ (restored => tracked)'
  BY <1>2, <1>3 DEF ListingInv, RowsWritten, Chained
<1> QED BY <1>14, <1>16, <1>17, <1>18, <1>19 DEF ListingInv

-----------------------------------------------------------------------------
(* Writing rows between two pages.                                         *)

Occupied(rows) == {id \in RowIds : rows[id] # NoRow}

(* Rows that are there keep their times, and new ones are of this time. *)
KeepsTimes(rows) ==
  /\ rows \in [RowIds -> RowRecord] /\ IsFiniteSet(Occupied(rows))
  /\ \A id \in RowIds : rows[id] # NoRow =>
       \/ id \in Rows /\ rows[id].created = recordRows[id].created
       \/ id \notin Rows /\ rows[id].created = now

LEMMA WritingKeepsPages ==
  ASSUME ListingInv, NEW rows, KeepsTimes(rows), RowsBecome(rows),
         UNCHANGED <<wanted, place, answer, now, seen>>
  PROVE  /\ SeenIsBehind' /\ SteadyIsMet' /\ NoRowTwice'
         /\ recordRows' \in [RowIds -> RowRecord] /\ IsFiniteSet(Rows')
         /\ (place = NoPlace \/ place \in [created : 0..now, id : RowIds])'
         /\ seen' \in Seq(RowIds) /\ steady' \subseteq Selected(wanted)' /\ now' \in Nat
<1>1. recordRows' = rows /\ rows \in [RowIds -> RowRecord]
  BY DEF RowsBecome, KeepsTimes
<1>2. Rows' = Occupied(rows)
  BY <1>1 DEF Rows, Occupied
<1>3. IsFiniteSet(Rows') /\ NoRowTwice' /\ seen' \in Seq(RowIds) /\ now' \in Nat
      /\ (place = NoPlace \/ place \in [created : 0..now, id : RowIds])'
  BY <1>2 DEF KeepsTimes, ListingInv, ListingTypes, NoRowTwice
<1>4. /\ now \in Nat /\ \A id \in Rows : recordRows[id].created \in 0..now
      /\ \A id \in RowIds : id \in Nat
  BY ListingAssumption DEF ListingInv, ListingTypes, RowsWritten
<1>5. ASSUME NEW id \in RowIds PROVE Dated(id)' >= Dated(id) /\ Dated(id)' \in Nat /\ Dated(id) \in Nat
  <2>1. CASE rows[id] # NoRow /\ id \in Rows
    BY <1>1, <1>2, <1>4, <2>1 DEF KeepsTimes, Dated, Occupied
  <2>2. CASE rows[id] # NoRow /\ id \notin Rows
    BY <1>1, <1>2, <1>4, <2>2 DEF KeepsTimes, Dated, Occupied
  <2>3. CASE rows[id] = NoRow
    BY <1>2, <1>4, <2>3 DEF Dated, Occupied
  <2> QED BY <2>1, <2>2, <2>3
<1>6. \A id \in Range(seen) : id \in RowIds
  <2>1. seen \in Seq(RowIds)
    BY DEF ListingInv, ListingTypes
  <2> QED BY <2>1 DEF Range
<1>7. SeenIsBehind'
  <2> SUFFICES ASSUME place # NoPlace, NEW id \in Range(seen)
               PROVE  Dated(id)' > place.created \/ (Dated(id)' = place.created /\ id <= place.id)
    BY DEF SeenIsBehind
  <2>1. Dated(id) > place.created \/ (Dated(id) = place.created /\ id <= place.id)
    BY DEF ListingInv, SeenIsBehind
  <2>2. id \in RowIds /\ place.created \in Nat
    BY <1>6, CursorTypes
  <2> QED BY <1>5, <2>1, <2>2
<1>8. steady \subseteq Rows /\ Rows \subseteq RowIds
  BY DEF ListingInv, ListingTypes, Selected, Rows
<1>9. \A id \in steady' : /\ id \in steady /\ rows[id] # NoRow /\ (wanted.tagged => rows[id].tagged)
                          /\ wanted.superseded \/ \A other \in RowIds : rows[other].replaces # id
  BY DEF RowsBecome
<1>10. SteadyIsMet'
  <2> SUFFICES ASSUME NEW id \in steady', id \notin Range(seen)
               PROVE  place # NoPlace /\ answer # "probing" /\ Past(id, place)'
    BY DEF SteadyIsMet
  <2>1. place # NoPlace /\ answer # "probing" /\ Past(id, place)
    BY <1>9 DEF ListingInv, SteadyIsMet
  <2>2. rows[id].created = recordRows[id].created
    BY <1>8, <1>9 DEF KeepsTimes
  <2> QED BY <1>1, <2>1, <2>2 DEF Past
<1>11. steady' \subseteq Selected(wanted)'
  <2> SUFFICES ASSUME NEW id \in steady' PROVE id \in Selected(wanted)'
    OBVIOUS
  <2>1. id \in Rows'
    BY <1>2, <1>8, <1>9 DEF Occupied
  <2>2. wanted.superseded \/ id \notin ReplacedRows'
    BY <1>1, <1>2, <1>9 DEF ReplacedRows, Occupied
  <2> QED BY <1>1, <1>9, <2>1, <2>2 DEF Selected
<1> QED BY <1>1, <1>3, <1>7, <1>10, <1>11

LEMMA RowTypes ==
  ASSUME ListingInv, NEW id \in RowIds, NEW rows, NEW r \in RowRecord,
         rows = [recordRows EXCEPT ![id] = r]
  PROVE  /\ rows \in [RowIds -> RowRecord] /\ IsFiniteSet(Occupied(rows))
         /\ rows[id] = r /\ \A x \in RowIds \ {id} : rows[x] = recordRows[x]
<1>1. recordRows \in [RowIds -> RowRecord] /\ IsFiniteSet(Rows)
  BY DEF ListingInv, ListingTypes
<1>2. rows \in [RowIds -> RowRecord] /\ rows[id] = r /\ \A x \in RowIds \ {id} : rows[x] = recordRows[x]
  BY <1>1
<1>3. PICK W : W = Rows \cup {id}
  OBVIOUS
<1>4. PICK V \in SUBSET W : V = Occupied(rows)
  BY <1>2, <1>3 DEF Rows, Occupied
<1>5. IsFiniteSet(W)
  BY <1>1, <1>3, FS_AddElement
<1>6. IsFiniteSet(V)
  BY <1>5, FS_Subset
<1> QED BY <1>2, <1>4, <1>6

(* A row that is written says what its record was written to replace. *)
LEMMA WritingKeepsRecords ==
  ASSUME ListingInv, NEW id \in RowIds, NEW r \in RowRecord, given[id] # NotGiven,
         r = NoRow \/ (r.created \in 0..now /\ r.replaces = given[id]),
         recordRows' = [recordRows EXCEPT ![id] = r], UNCHANGED <<given, now>>
  PROVE  RowsWritten'
<1>1. recordRows'[id] = r /\ \A x \in RowIds \ {id} : recordRows'[x] = recordRows[x]
  BY RowTypes
<1> QED BY <1>1 DEF ListingInv, RowsWritten, Rows

LEMMA PutRowKeeps ==
  ASSUME ListingInv, NEW id \in RowIds, NEW old \in RowIds \cup {Nothing}, NEW tagged \in BOOLEAN,
         PutRow(id, old, tagged)
  PROVE  ListingInv'
<1>1. PICK r : r = [created |-> now, tagged |-> tagged, replaces |-> old]
  OBVIOUS
<1>2. PICK rows : rows = [recordRows EXCEPT ![id] = r]
  OBVIOUS
<1>3. now \in Nat /\ given \in [RowIds -> RowIds \cup {Nothing, NotGiven}]
  BY DEF ListingInv, ListingTypes
<1>4. r \in RowRecord /\ r.created = now /\ r.replaces = old /\ r # NoRow
  BY <1>1, <1>3 DEF RowRecord, Time, NoRow
<1>5. /\ rows \in [RowIds -> RowRecord] /\ IsFiniteSet(Occupied(rows))
      /\ rows[id] = r /\ \A x \in RowIds \ {id} : rows[x] = recordRows[x]
  BY <1>2, <1>4, RowTypes
<1>6. /\ given[id] = NotGiven /\ MayReplace(old) /\ RowsBecome(rows)
      /\ given' = [given EXCEPT ![id] = old]
      /\ UNCHANGED <<wanted, place, answer, now, seen, tracked, restored>>
  BY <1>1, <1>2 DEF PutRow, aside
<1>7. id \notin Rows
  BY <1>6 DEF ListingInv, RowsWritten
<1>8. KeepsTimes(rows)
  BY <1>4, <1>5, <1>7 DEF KeepsTimes, Rows
<1>9. /\ SeenIsBehind' /\ SteadyIsMet' /\ NoRowTwice'
      /\ recordRows' \in [RowIds -> RowRecord] /\ IsFiniteSet(Rows')
      /\ (place = NoPlace \/ place \in [created : 0..now, id : RowIds])'
      /\ seen' \in Seq(RowIds) /\ steady' \subseteq Selected(wanted)' /\ now' \in Nat
  BY <1>6, <1>8, WritingKeepsPages
<1>10. /\ given' \in [RowIds -> RowIds \cup {Nothing, NotGiven}] /\ given'[id] = old
       /\ \A x \in RowIds \ {id} : given'[x] = given[x]
  BY <1>3, <1>6
<1>11. 0 \notin RowIds /\ -1 \notin RowIds /\ old # NotGiven /\ (old \in RowIds => old \in Rows)
  <2>1. \A x \in RowIds : x \in Nat /\ x # 0
    BY ListingAssumption
  <2>2. old \in RowIds => old \in Rows
    BY <1>6, <2>1 DEF MayReplace, Nothing
  <2> QED BY <2>1, <2>2 DEF Nothing, NotGiven
<1>12. RowsWritten'
  <2>1. recordRows' = rows
    BY <1>6 DEF RowsBecome
  <2>2. \A x \in Rows' : x = id \/ x \in Rows
    BY <1>5, <2>1 DEF Rows
  <2> QED BY <1>3, <1>4, <1>5, <1>6, <1>7, <1>10, <1>11, <2>1, <2>2 DEF ListingInv, RowsWritten, Rows
<1>13. Chained'
  <2>1. \A x \in RowIds : given[x] # id
    BY <1>6 DEF ListingInv, Chained
  <2>2. old # id /\ (old \in RowIds => given[old] # NotGiven)
    BY <1>7, <1>11 DEF ListingInv, RowsWritten, Nothing
  <2>3. ASSUME NEW x \in RowIds, given'[x] \in RowIds PROVE given'[given'[x]] # NotGiven
    <3>1. CASE x = id
      BY <1>10, <2>2, <2>3, <3>1
    <3>2. CASE x # id
      BY <1>10, <2>1, <2>3, <3>2 DEF ListingInv, Chained
    <3> QED BY <3>1, <3>2
  <2>4. ASSUME NEW X \in SUBSET RowIds, X # {}, \A x \in X : given'[x] # NotGiven
        PROVE  \E x \in X : \A y \in X : given'[y] # x
    <3>1. CASE id \in X
      BY <1>10, <2>1, <2>2, <3>1
    <3>2. CASE id \notin X
      <4>1. \A x \in X : given'[x] = given[x]
        BY <1>10, <3>2
      <4>2. \E x \in X : \A y \in X : given[y] # x
        BY <2>4, <4>1 DEF ListingInv, Chained
      <4> QED BY <4>1, <4>2
    <3> QED BY <3>1, <3>2
  <2> QED BY <2>3, <2>4 DEF Chained
<1>14. (restored => tracked)'
  BY <1>6 DEF ListingInv
<1> QED BY <1>9, <1>10, <1>12, <1>13, <1>14 DEF ListingInv, ListingTypes

(* A row of a record that was written is changed, dropped or restored. *)
LEMMA RewriteKeeps ==
  ASSUME ListingInv, NEW id \in RowIds, NEW r \in RowRecord, given[id] # NotGiven,
         r = NoRow \/ (r.created \in 0..now /\ r.replaces = given[id]),
         r = NoRow \/ r.created = Dated(id),
         RowsBecome([recordRows EXCEPT ![id] = r]),
         UNCHANGED <<wanted, place, answer, now, seen, given>>, (restored => tracked)'
  PROVE  ListingInv'
<1>1. PICK rows : rows = [recordRows EXCEPT ![id] = r]
  OBVIOUS
<1>2. /\ rows \in [RowIds -> RowRecord] /\ IsFiniteSet(Occupied(rows))
      /\ rows[id] = r /\ \A x \in RowIds \ {id} : rows[x] = recordRows[x]
  BY <1>1, RowTypes
<1>3. KeepsTimes(rows)
  BY <1>2 DEF KeepsTimes, Rows, Dated
<1>4. /\ SeenIsBehind' /\ SteadyIsMet' /\ NoRowTwice'
      /\ recordRows' \in [RowIds -> RowRecord] /\ IsFiniteSet(Rows')
      /\ (place = NoPlace \/ place \in [created : 0..now, id : RowIds])'
      /\ seen' \in Seq(RowIds) /\ steady' \subseteq Selected(wanted)' /\ now' \in Nat
  BY <1>1, <1>3, WritingKeepsPages
<1>5. RowsWritten'
  BY WritingKeepsRecords DEF RowsBecome
<1>6. given' \in [RowIds -> RowIds \cup {Nothing, NotGiven}] /\ Chained'
  BY DEF ListingInv, ListingTypes, Chained
<1> QED BY <1>4, <1>5, <1>6 DEF ListingInv, ListingTypes

LEMMA ListingStep ==
  ASSUME ListingInv, [ListingNext]_listingVars
  PROVE  ListingInv'
<1>1. /\ now \in Nat /\ recordRows \in [RowIds -> RowRecord]
      /\ given \in [RowIds -> RowIds \cup {Nothing, NotGiven}]
  BY DEF ListingInv, ListingTypes
<1>2. \A id \in Rows : /\ id \in RowIds /\ given[id] # NotGiven /\ recordRows[id].created \in 0..now
                       /\ recordRows[id].replaces = given[id] /\ Dated(id) = recordRows[id].created
  BY DEF ListingInv, RowsWritten, Rows, Dated
<1>3. NoRow \in RowRecord
  BY DEF NoRow, RowRecord, Time, Nothing
<1>4. ASSUME NEW id \in RowIds, NEW tagged \in BOOLEAN, PutRowAgain(id, tagged) PROVE ListingInv'
  <2>1. PICK r : r = [recordRows[id] EXCEPT !.tagged = tagged]
    OBVIOUS
  <2>2. id \in Rows /\ recordRows[id] \in RowRecord
    BY <1>1, <1>4 DEF PutRowAgain
  <2>3. r \in RowRecord /\ r.created = recordRows[id].created /\ r.replaces = recordRows[id].replaces
    BY <2>1, <2>2 DEF RowRecord
  <2>4. [recordRows EXCEPT ![id].tagged = tagged] = [recordRows EXCEPT ![id] = r]
    BY <2>1
  <2>5. /\ RowsBecome([recordRows EXCEPT ![id] = r])
        /\ UNCHANGED <<wanted, place, answer, now, seen, given, tracked, restored>>
    BY <1>4, <2>4 DEF PutRowAgain, aside
  <2>6. (restored => tracked)'
    BY <2>5 DEF ListingInv
  <2> QED BY <1>2, <2>2, <2>3, <2>5, <2>6, RewriteKeeps
<1>5. ASSUME NEW id \in RowIds, NEW tagged \in BOOLEAN, NEW elsewhere \in BOOLEAN, RestoreRow(id, tagged, elsewhere)
      PROVE  ListingInv'
  <2>1. /\ given[id] # NotGiven /\ id \notin Rows /\ tracked' = TRUE
        /\ UNCHANGED <<wanted, place, answer, now, seen, given>>
    BY <1>5 DEF RestoreRow
  <2>2. CASE RowsBecome([recordRows EXCEPT ![id] = RestoredRow(id, tagged)])
    <3>1. PICK r : r = RestoredRow(id, tagged)
      OBVIOUS
    <3>2. r \in RowRecord /\ r.created = now /\ r.replaces = given[id]
      BY <1>1, <2>1, <3>1 DEF RestoredRow, RowRecord, Time
    <3>3. Dated(id) = now /\ now \in 0..now
      BY <1>1, <2>1 DEF Dated
    <3> QED BY <2>1, <2>2, <3>1, <3>2, <3>3, RewriteKeeps
  <2>3. CASE UNCHANGED <<recordRows, steady>>
    <3>1. Rows' = Rows /\ Selected(wanted)' = Selected(wanted) /\ \A x : Dated(x)' = Dated(x)
      BY <2>1, <2>3 DEF Rows, Selected, ReplacedRows, Dated
    <3> QED BY <2>1, <2>3, <3>1
         DEF ListingInv, ListingTypes, RowsWritten, Chained, NoRowTwice, SeenIsBehind, SteadyIsMet, Past
  <2> QED BY <1>5, <2>2, <2>3 DEF RestoreRow
<1>6. ASSUME NEW id \in RowIds, NEW elsewhere \in BOOLEAN, DropRow(id, elsewhere) PROVE ListingInv'
  <2>1. /\ id \in Rows /\ RowsBecome([recordRows EXCEPT ![id] = NoRow])
        /\ UNCHANGED <<wanted, place, answer, now, seen, given, tracked, restored>>
    BY <1>6 DEF DropRow
  <2>2. (restored => tracked)'
    BY <2>1 DEF ListingInv
  <2> QED BY <1>2, <1>3, <2>1, <2>2, RewriteKeeps
<1>7. ASSUME UNCHANGED <<recordRows, wanted, place, answer, now, given, seen, steady, restored>>,
             tracked' = tracked \/ tracked' = TRUE
      PROVE  ListingInv'
  <2>1. Rows' = Rows /\ Selected(wanted)' = Selected(wanted) /\ \A x : Dated(x)' = Dated(x)
    BY <1>7 DEF Rows, Selected, ReplacedRows, Dated
  <2> QED BY <1>7, <2>1
       DEF ListingInv, ListingTypes, RowsWritten, Chained, NoRowTwice, SeenIsBehind, SteadyIsMet, Past
<1>8. ASSUME NEW id \in RowIds, NEW elsewhere \in BOOLEAN, FlushRow(id, elsewhere) PROVE ListingInv'
  BY <1>7, <1>8 DEF FlushRow
<1>9. CASE Tick
  <2>1. now' = now + 1 /\ UNCHANGED <<recordRows, wanted, place, answer, given, seen, steady, tracked, restored>>
    BY <1>9 DEF Tick, aside
  <2>2. Rows' = Rows /\ Selected(wanted)' = Selected(wanted)
    BY <2>1 DEF Rows, Selected, ReplacedRows
  <2>3. \A id \in Rows : recordRows[id].created \in 0..(now + 1)
    BY <1>1, <1>2
  <2>4. RowsWritten' /\ Chained' /\ NoRowTwice' /\ SteadyIsMet' /\ (restored => tracked)'
    BY <2>1, <2>2, <2>3 DEF ListingInv, RowsWritten, Chained, NoRowTwice, SteadyIsMet, Past
  <2>5. (place = NoPlace \/ place \in [created : 0..now, id : RowIds])'
    BY <1>1, <2>1 DEF ListingInv, ListingTypes
  <2>6. ListingTypes'
    BY <1>1, <2>1, <2>2, <2>5 DEF ListingInv, ListingTypes
  <2>7. SeenIsBehind'
    <3> SUFFICES ASSUME place # NoPlace, NEW id \in Range(seen)
                 PROVE  Dated(id)' > place.created \/ (Dated(id)' = place.created /\ id <= place.id)
      BY <2>1 DEF SeenIsBehind
    <3>1. Dated(id) > place.created \/ (Dated(id) = place.created /\ id <= place.id)
      BY DEF ListingInv, SeenIsBehind
    <3>2. place.created \in Nat /\ place.created <= now
      BY CursorTypes
    <3>3. Dated(id)' = (IF id \in Rows THEN recordRows[id].created ELSE now + 1)
      BY <2>1, <2>2 DEF Dated
    <3> QED BY <1>1, <3>1, <3>2, <3>3 DEF Dated
  <2> QED BY <2>4, <2>6, <2>7 DEF ListingInv
<1>10. CASE Probe
  <2>1. /\ UNCHANGED <<recordRows, wanted, now, given, seen, steady, tracked, restored>>
        /\ place' = NoPlace /\ answer = "probing"
    BY <1>10 DEF Probe, aside
  <2>2. Rows' = Rows /\ Selected(wanted)' = Selected(wanted)
    BY <2>1 DEF Rows, Selected, ReplacedRows
  <2> QED BY <2>1, <2>2
       DEF ListingInv, ListingTypes, RowsWritten, Chained, NoRowTwice, SeenIsBehind, SteadyIsMet
<1>11. CASE UNCHANGED listingVars
  BY <1>7, <1>11 DEF listingVars, aside
<1>12. ASSUME NEW size \in PageSizes, ListRows(size, place) PROVE ListingInv'
  <2>1. PICK from : from = place
    OBVIOUS
  <2> QED BY <1>12, <2>1, PageKeepsInv
<1>13. ASSUME NEW size \in PageSizes, ListRows(size, NoPlace) PROVE ListingInv'
  BY <1>13, PageKeepsInv
<1> QED BY <1>4, <1>5, <1>6, <1>8, <1>9, <1>10, <1>11, <1>12, <1>13, PutRowKeeps DEF ListingNext

LEMMA ListingInvariant == ListingSpec => []ListingInv
<1>1. ListingInv /\ [ListingNext]_listingVars => ListingInv'
  BY ListingStep
<1> QED BY <1>1, InitListing, PTL DEF ListingSpec

(***************************************************************************)
(* Every row is of a record that was written and a cursor names a row's    *)
(* place (ListRecords of local/records.go), for any number of records.     *)
(***************************************************************************)
THEOREM ListingTypeCorrect == ListingSpec => []ListingTypeOK
<1>1. ListingInv => ListingTypeOK
  <2> SUFFICES ASSUME ListingInv PROVE ListingTypeOK
    OBVIOUS
  <2>1. Range(seen) \subseteq RowIds
    BY DEF ListingInv, ListingTypes, Range
  <2>2. steady \subseteq Rows
    BY DEF ListingInv, ListingTypes, Selected
  <2> QED BY <2>1, <2>2 DEF ListingInv, ListingTypes, RowsWritten, ListingTypeOK
<1> QED BY <1>1, ListingInvariant, PTL

(***************************************************************************)
(* A listing shows no record twice, has shown when it ends every record    *)
(* its filters selected all the while, and never shows nothing of a device *)
(* that holds something, whatever is written, restored and forgotten       *)
(* between its pages (ListRecords of local/records.go, Browse of           *)
(* vault/browse.go), for any number of records and pages of any size.      *)
(***************************************************************************)
THEOREM ListedAlwaysOnce == ListingSpec => []ListedOnce
<1>1. ListingInv => ListedOnce
  <2> SUFFICES ASSUME ListingInv PROVE ListedOnce
    OBVIOUS
  <2>1. SomethingCurrent
    BY SomeRowIsCurrent
  <2>2. NoneSkipped
    BY DEF ListingInv, SteadyIsMet, NoneSkipped
  <2> QED BY <2>1, <2>2 DEF ListingInv, ListedOnce
<1> QED BY <1>1, ListingInvariant, PTL

(***************************************************************************)
(* No step answers that a restored device has restored nothing: whoever    *)
(* restored it wrote the ledger that Restoration asks (mcp/handlers.go).   *)
(***************************************************************************)
THEOREM NeverCalledUntouched == ListingSpec => NotCalledUntouched
<1>1. ASSUME ListingInv, [ListingNext]_listingVars
      PROVE  [restored /\ answer' = "untouched" => answer = "untouched"]_listingVars
  <2> SUFFICES ASSUME ListingNext, restored, answer' = "untouched", answer # "untouched" PROVE FALSE
    BY <1>1 DEF listingVars
  <2>1. tracked
    BY <1>1 DEF ListingInv
  <2>2. ASSUME NEW size, NEW from, ListRows(size, from) PROVE FALSE
    <3>1. EmptyHint(from) = "untouched"
      BY <2>2 DEF ListRows
    <3> QED BY <2>1, <3>1 DEF EmptyHint, Restoration
  <2>3. ~Probe
    BY DEF Probe
  <2> QED BY <2>2, <2>3 DEF ListingNext, PutRow, PutRowAgain, RestoreRow, DropRow, FlushRow, Tick
<1> QED BY <1>1, ListingInvariant, PTL DEF ListingSpec, NotCalledUntouched

-----------------------------------------------------------------------------
(* Resuming a conversation.                                                *)

TalkHead == [turns : Nat, changed : Nat, archived : BOOLEAN, memories : SUBSET Drawn,
             children : SUBSET Talk, parent : Talk \cup {NoTalk}]

TalkTypes ==
  /\ talks \in [Talk -> TalkHead] /\ leaving \in [Talk -> {"no", "chunks gone", "disowned"}]
  /\ events \in Nat /\ IsFiniteSet(HeldTalks)
  /\ \A t \in Talk : talks[t].changed <= events /\ (t \in HeldTalks => talks[t].turns >= 1)

(* A run is held by the conversation that it says delegated it, until it is disowned. *)
Family ==
  \A u \in Talk : \A t \in talks[u].children :
    t \in HeldTalks /\ talks[t].parent = u /\ leaving[t] # "disowned"

(* What can be read is held, and a forget begins with what can be read. *)
ReadableHeld == \A t \in readable : t \in HeldTalks /\ leaving[t] = "no"

TalksInv == TalkTypes /\ Family /\ ReadableHeld

LEMMA NoTalkHeadType ==
  /\ NoTalkHead \in TalkHead /\ NoTalkHead.turns = 0 /\ NoTalkHead.changed = 0
  /\ NoTalkHead.children = {} /\ NoTalkHead.archived = FALSE /\ NoTalkHead.memories = {}
BY DEF NoTalkHead, TalkHead

(* Conversations that are changed stay held, and only one more is. *)
LEMMA HeldStaysFinite ==
  ASSUME TalksInv, NEW t \in Talk, HeldTalks' \subseteq HeldTalks \cup {t}
  PROVE  IsFiniteSet(HeldTalks')
<1>1. PICK W : W = HeldTalks \cup {t}
  OBVIOUS
<1>2. PICK V \in SUBSET W : V = HeldTalks'
  BY <1>1
<1>3. IsFiniteSet(W)
  BY <1>1, FS_AddElement DEF TalksInv, TalkTypes
<1> QED BY <1>2, <1>3, FS_Subset

(* A head that is rewritten keeps its parent and its runs. *)
LEMMA RewriteKeepsTalks ==
  ASSUME TalksInv, NEW t \in HeldTalks, NEW h \in TalkHead, h.turns \in Nat \ {0},
         h.parent = talks[t].parent, h.children = talks[t].children,
         events' = events + 1, Rewrite(t, h), readable' = readable
  PROVE  TalksInv'
<1>1. PICK new : new = [h EXCEPT !.changed = events + 1]
  OBVIOUS
<1>2. t \in Talk /\ talks \in [Talk -> TalkHead] /\ events \in Nat
      /\ leaving \in [Talk -> {"no", "chunks gone", "disowned"}]
  BY DEF TalksInv, TalkTypes, HeldTalks
<1>3. events \in Nat
  BY <1>2
<1>4. events + 1 \in Nat /\ events' \in Nat /\ \A n \in Nat : n <= events => n <= events'
  BY <1>3
<1>5. /\ new \in TalkHead /\ new.turns \in Nat \ {0} /\ new.changed = events'
      /\ new.parent = talks[t].parent /\ new.children = talks[t].children
  <2>1. PICK e \in Nat : e = events + 1
    BY <1>3
  <2>2. new = [h EXCEPT !.changed = e]
    BY <1>1, <2>1
  <2>3. new \in TalkHead /\ new.turns = h.turns /\ new.changed = e /\ new.parent = h.parent /\ new.children = h.children
    BY <2>2 DEF TalkHead
  <2> QED BY <2>1, <2>3
<1>6. talks' = [talks EXCEPT ![t] = new] /\ leaving' = [leaving EXCEPT ![t] = "no"]
  BY <1>1 DEF Rewrite
<1>7. /\ talks' \in [Talk -> TalkHead] /\ leaving' \in [Talk -> {"no", "chunks gone", "disowned"}]
      /\ talks'[t] = new /\ \A u \in Talk \ {t} : talks'[u] = talks[u]
      /\ leaving'[t] = "no" /\ \A u \in Talk \ {t} : leaving'[u] = leaving[u]
  BY <1>2, <1>5, <1>6
<1>8. new # NoTalkHead
  BY <1>5, NoTalkHeadType
<1>9. HeldTalks' = HeldTalks
  BY <1>7, <1>8 DEF HeldTalks
<1>10. TalkTypes'
  <2>1. ASSUME NEW u \in Talk PROVE talks'[u].changed <= events' /\ (u \in HeldTalks' => talks'[u].turns >= 1)
    <3>1. CASE u = t
      <4>1. talks'[u] = new /\ new.changed = events' /\ new.turns \in Nat \ {0}
        BY <1>5, <1>7, <3>1
      <4>2. new.changed <= events' /\ new.turns >= 1
        BY <1>4, <4>1
      <4> QED BY <4>1, <4>2
    <3>2. CASE u # t
      <4>1. talks'[u] = talks[u] /\ talks[u] \in TalkHead
        BY <1>2, <1>7, <3>2
      <4>2. talks[u].changed <= events /\ (u \in HeldTalks => talks[u].turns >= 1) /\ talks[u].changed \in Nat
        BY <4>1 DEF TalksInv, TalkTypes, TalkHead
      <4> QED BY <1>9, <1>4, <4>1, <4>2
    <3> QED BY <3>1, <3>2
  <2>2. events' \in Nat /\ IsFiniteSet(HeldTalks')
    <3>1. IsFiniteSet(HeldTalks)
      BY DEF TalksInv, TalkTypes
    <3> QED BY <1>9, <1>4, <3>1
  <2> QED BY <1>7, <2>1, <2>2 DEF TalkTypes
<1>11. Family'
  <2>1. \A u \in Talk : talks'[u].children = talks[u].children /\ talks'[u].parent = talks[u].parent
    BY <1>5, <1>7
  <2> QED BY <1>7, <1>9, <2>1 DEF TalksInv, Family, HeldTalks
<1>12. ReadableHeld'
  BY <1>7, <1>9 DEF TalksInv, ReadableHeld, HeldTalks
<1> QED BY <1>10, <1>11, <1>12 DEF TalksInv

LEMMA TalksTyped ==
  ASSUME TalksInv
  PROVE  /\ talks \in [Talk -> TalkHead] /\ leaving \in [Talk -> {"no", "chunks gone", "disowned"}]
         /\ events \in Nat /\ events + 1 \in Nat /\ events <= events + 1
         /\ \A t \in Talk : /\ talks[t] \in TalkHead /\ talks[t].turns \in Nat /\ talks[t].changed \in Nat
                            /\ talks[t].changed <= events /\ talks[t].changed <= events + 1
         /\ HeldTalks \subseteq Talk /\ NoTalk \notin Talk
         /\ \A t \in HeldTalks : talks[t].turns >= 1
<1>1. talks \in [Talk -> TalkHead] /\ leaving \in [Talk -> {"no", "chunks gone", "disowned"}]
  BY DEF TalksInv, TalkTypes
<1>2. events \in Nat
  BY DEF TalksInv, TalkTypes
<1>3. ASSUME NEW t \in Talk
      PROVE  /\ talks[t] \in TalkHead /\ talks[t].turns \in Nat /\ talks[t].changed \in Nat
             /\ talks[t].changed <= events
  BY <1>1 DEF TalksInv, TalkTypes, TalkHead
<1>4. \A t \in Talk : talks[t].changed <= events + 1
  BY <1>2, <1>3
<1>5. HeldTalks \subseteq Talk /\ \A t \in HeldTalks : talks[t].turns >= 1
  BY DEF TalksInv, TalkTypes, HeldTalks
<1>6. NoTalk \notin Talk
  BY ResumeAssumption DEF NoTalk
<1>7. events + 1 \in Nat /\ events <= events + 1
  BY <1>2
<1> QED BY <1>1, <1>2, <1>3, <1>4, <1>5, <1>6, <1>7

LEMMA SaveKeepsTalks ==
  ASSUME TalksInv, NEW t \in Talk, NEW parent \in HeldTalks \cup {NoTalk}, SaveTalk(t, parent)
  PROVE  TalksInv'
<1>1. PICK e \in Nat : e = events + 1
  BY TalksTyped
<1>2. PICK new : new = [NoTalkHead EXCEPT !.turns = 1, !.changed = e, !.parent = parent]
  OBVIOUS
<1>3. parent \in Talk \cup {NoTalk}
  BY TalksTyped
<1>4. /\ new \in TalkHead /\ new.turns = 1 /\ new.changed = e /\ new.parent = parent /\ new.children = {}
  BY <1>2, <1>3 DEF NoTalkHead, TalkHead
<1>5. /\ t \notin HeldTalks /\ leaving[t] = "no" /\ events' = e /\ readable' = readable \cup {t}
      /\ talks' = [u \in Talk |->
           IF u = t THEN new
           ELSE IF u = parent THEN [talks[u] EXCEPT !.children = @ \cup {t}, !.changed = e]
           ELSE talks[u]]
      /\ leaving' = [u \in Talk |-> IF u = parent THEN "no" ELSE leaving[u]]
  BY <1>1, <1>2 DEF SaveTalk, Happens
<1>6. t # parent
  BY <1>5, TalksTyped
<1>7. talks'[t] = new /\ leaving'[t] = "no"
  BY <1>5
<1>8. ASSUME NEW u \in Talk, u # t
      PROVE  /\ talks'[u] \in TalkHead /\ talks'[u].turns = talks[u].turns /\ talks'[u].parent = talks[u].parent
             /\ talks'[u].children = IF u = parent THEN talks[u].children \cup {t} ELSE talks[u].children
             /\ talks'[u].changed = IF u = parent THEN e ELSE talks[u].changed
             /\ u # parent => talks'[u] = talks[u]
             /\ leaving'[u] = leaving[u] \/ leaving'[u] = "no"
  <2>1. PICK h \in TalkHead : h = talks[u]
    BY TalksTyped
  <2>2. talks'[u] = IF u = parent THEN [h EXCEPT !.children = @ \cup {t}, !.changed = e] ELSE h
    BY <1>5, <1>8, <2>1
  <2>3. leaving'[u] = leaving[u] \/ leaving'[u] = "no"
    BY <1>5
  <2>4. CASE u = parent
    <3>1. PICK g : g = [h EXCEPT !.children = @ \cup {t}, !.changed = e]
      OBVIOUS
    <3>2. /\ g \in TalkHead /\ g.turns = h.turns /\ g.parent = h.parent
          /\ g.children = h.children \cup {t} /\ g.changed = e
      BY <3>1 DEF TalkHead
    <3> QED BY <2>1, <2>2, <2>3, <2>4, <3>1, <3>2
  <2>5. CASE u # parent
    BY <2>1, <2>2, <2>3, <2>5
  <2> QED BY <2>4, <2>5
<1>9. new # NoTalkHead
  BY <1>4, NoTalkHeadType
<1>10. \A u \in Talk : u # t => (u \in HeldTalks' <=> u \in HeldTalks)
  <2> SUFFICES ASSUME NEW u \in Talk, u # t PROVE talks'[u] # NoTalkHead <=> talks[u] # NoTalkHead
    BY DEF HeldTalks
  <2>1. CASE u = parent
    <3>1. u \in HeldTalks /\ talks[u].turns >= 1
      BY <2>1, TalksTyped
    <3>2. talks'[u].turns = talks[u].turns /\ talks[u] # NoTalkHead /\ talks[u].turns \in Nat
      BY <1>8, <3>1, TalksTyped DEF HeldTalks
    <3>3. talks'[u].turns # 0
      BY <3>1, <3>2
    <3> QED BY <3>2, <3>3, NoTalkHeadType
  <2>2. CASE u # parent
    BY <1>8, <2>2
  <2> QED BY <2>1, <2>2
<1>11. t \in HeldTalks' /\ HeldTalks' \subseteq HeldTalks \cup {t}
  BY <1>7, <1>9, <1>10 DEF HeldTalks
<1>12. IsFiniteSet(HeldTalks')
  BY <1>11, HeldStaysFinite
<1>13. TalkTypes'
  <2>1. leaving' \in [Talk -> {"no", "chunks gone", "disowned"}]
    BY <1>5, TalksTyped
  <2>2. talks' \in [Talk -> TalkHead]
    <3>1. \A u \in Talk : talks'[u] \in TalkHead
      BY <1>4, <1>7, <1>8
    <3>2. talks' = [u \in Talk |-> talks'[u]]
      BY <1>5
    <3> QED BY <3>1, <3>2
  <2>3. ASSUME NEW u \in Talk PROVE talks'[u].changed <= e /\ (u \in HeldTalks' => talks'[u].turns >= 1)
    <3>1. CASE u = t
      BY <1>4, <1>7, <3>1
    <3>2. CASE u # t
      <4>1. talks'[u].changed = e \/ talks'[u].changed <= e
        BY <1>1, <1>8, <3>2, TalksTyped
      <4>2. u \in HeldTalks' => talks'[u].turns >= 1
        BY <1>8, <1>10, <3>2, TalksTyped
      <4> QED BY <4>1, <4>2
    <3> QED BY <3>1, <3>2
  <2> QED BY <1>5, <1>12, <2>1, <2>2, <2>3 DEF TalkTypes
<1>14. Family'
  <2> SUFFICES ASSUME NEW u \in Talk, NEW x \in talks'[u].children
               PROVE  x \in HeldTalks' /\ talks'[x].parent = u /\ leaving'[x] # "disowned"
    BY DEF Family
  <2>1. u # t
    BY <1>4, <1>7
  <2>2. CASE x = t
    <3>1. t \notin talks[u].children
      BY <1>5 DEF TalksInv, Family
    <3>2. u = parent
      BY <1>8, <2>1, <2>2, <3>1
    <3> QED BY <1>4, <1>7, <1>11, <2>2, <3>2
  <2>3. CASE x # t
    <3>1. x \in talks[u].children
      BY <1>8, <2>1, <2>3
    <3>2. x \in HeldTalks /\ talks[x].parent = u /\ leaving[x] # "disowned"
      BY <3>1 DEF TalksInv, Family
    <3>3. x \in Talk
      BY <3>2, TalksTyped
    <3> QED BY <1>8, <1>10, <2>3, <3>2, <3>3
  <2> QED BY <2>2, <2>3
<1>15. ReadableHeld'
  <2>1. \A x \in readable' : x = t \/ (x \in HeldTalks /\ leaving[x] = "no" /\ x \in Talk)
    BY <1>5, TalksTyped DEF TalksInv, ReadableHeld
  <2> QED BY <1>7, <1>8, <1>10, <1>11, <2>1 DEF ReadableHeld
<1> QED BY <1>13, <1>14, <1>15 DEF TalksInv

LEMMA ForgetKeepsTalks ==
  ASSUME TalksInv, NEW t \in Talk, ForgetTurns(t)
  PROVE  TalksInv'
<1>1. /\ leaving[t] = "no" /\ events' = events + 1 /\ readable' = readable \ {t} /\ talks' = talks
      /\ leaving' = [leaving EXCEPT ![t] = "chunks gone"]
  BY DEF ForgetTurns, Happens
<1>2. /\ leaving' \in [Talk -> {"no", "chunks gone", "disowned"}] /\ leaving'[t] = "chunks gone"
      /\ \A u \in Talk \ {t} : leaving'[u] = leaving[u]
  BY <1>1, TalksTyped
<1>3. HeldTalks' = HeldTalks
  BY <1>1 DEF HeldTalks
<1>4. TalkTypes'
  <2>1. \A u \in Talk : talks'[u].changed <= events' /\ (u \in HeldTalks' => talks'[u].turns >= 1)
    BY <1>1, <1>3, TalksTyped
  <2>2. IsFiniteSet(HeldTalks') /\ talks' \in [Talk -> TalkHead] /\ events' \in Nat
    <3>1. IsFiniteSet(HeldTalks)
      BY DEF TalksInv, TalkTypes
    <3> QED BY <1>1, <1>3, <3>1, TalksTyped
  <2> QED BY <1>2, <2>1, <2>2 DEF TalkTypes
<1>5. Family'
  <2>1. \A u \in Talk : leaving[u] # "disowned" => leaving'[u] # "disowned"
    BY <1>1, <1>2
  <2> QED BY <1>1, <1>3, <2>1, TalksTyped DEF TalksInv, Family
<1>6. ReadableHeld'
  <2>1. \A x \in readable' : x \in readable /\ x # t
    BY <1>1
  <2> QED BY <1>2, <1>3, <2>1, TalksTyped DEF TalksInv, ReadableHeld
<1> QED BY <1>4, <1>5, <1>6 DEF TalksInv

(* Only a conversation that no other names as its run is dropped. *)
LEMMA DropKeepsTalks ==
  ASSUME TalksInv, NEW t \in Talk, DropTalk(t)
  PROVE  TalksInv'
<1>1. /\ leaving[t] = "disowned" /\ talks' = [talks EXCEPT ![t] = NoTalkHead]
      /\ leaving' = leaving /\ events' = events /\ readable' = readable
  BY DEF DropTalk, HeadMayGo
<1>2. /\ talks' \in [Talk -> TalkHead] /\ talks'[t] = NoTalkHead
      /\ \A u \in Talk \ {t} : talks'[u] = talks[u]
  BY <1>1, TalksTyped, NoTalkHeadType
<1>3. HeldTalks' = HeldTalks \ {t}
  BY <1>2 DEF HeldTalks
<1>4. IsFiniteSet(HeldTalks')
  BY <1>3, HeldStaysFinite
<1>5. TalkTypes'
  <2>1. ASSUME NEW u \in Talk PROVE talks'[u].changed <= events' /\ (u \in HeldTalks' => talks'[u].turns >= 1)
    <3>1. CASE u = t
      <4>1. talks'[u].changed = 0 /\ u \notin HeldTalks'
        BY <1>2, <1>3, <3>1, NoTalkHeadType
      <4>2. events' \in Nat
        BY <1>1, TalksTyped
      <4> QED BY <4>1, <4>2
    <3>2. CASE u # t
      BY <1>1, <1>2, <1>3, <3>2, TalksTyped
    <3> QED BY <3>1, <3>2
  <2> QED BY <1>1, <1>2, <1>4, <2>1, TalksTyped DEF TalkTypes
<1>6. Family'
  <2> SUFFICES ASSUME NEW u \in Talk, NEW x \in talks'[u].children
               PROVE  x \in HeldTalks' /\ talks'[x].parent = u /\ leaving'[x] # "disowned"
    BY DEF Family
  <2>1. u # t /\ x \in talks[u].children
    BY <1>2, NoTalkHeadType
  <2>2. x \in HeldTalks /\ talks[x].parent = u /\ leaving[x] # "disowned"
    BY <2>1 DEF TalksInv, Family
  <2>3. x \in Talk \ {t}
    BY <1>1, <2>2, TalksTyped
  <2> QED BY <1>1, <1>2, <1>3, <2>2, <2>3
<1>7. ReadableHeld'
  <2>1. \A x \in readable : x \in HeldTalks /\ leaving[x] = "no" /\ x # t
    BY <1>1 DEF TalksInv, ReadableHeld
  <2> QED BY <1>1, <1>3, <2>1 DEF ReadableHeld
<1> QED BY <1>5, <1>6, <1>7 DEF TalksInv

LEMMA DisownKeepsTalks ==
  ASSUME TalksInv, NEW t \in Talk, Disown(t)
  PROVE  /\ TalksInv' /\ HeldTalks' = HeldTalks
         /\ \A u \in Talk : talks'[u].turns = talks[u].turns
<1>1. PICK p : p = talks[t].parent
  OBVIOUS
<1>2. /\ leaving[t] = "chunks gone" /\ events' = events /\ readable' = readable
      /\ IF p \in HeldTalks /\ t \in talks[p].children
         THEN /\ talks' = [talks EXCEPT ![p].children = @ \ {t}, ![p].changed = events]
              /\ leaving' = [leaving EXCEPT ![t] = "disowned", ![p] = "no"]
         ELSE talks' = talks /\ leaving' = [leaving EXCEPT ![t] = "disowned"]
  BY <1>1 DEF Disown
<1>3. t \notin readable
  BY <1>2 DEF TalksInv, ReadableHeld
<1>4. CASE p \in HeldTalks /\ t \in talks[p].children
  <2>1. PICK e \in Nat : e = events
    BY TalksTyped
  <2>2. PICK h \in TalkHead : h = talks[p] /\ p \in Talk /\ h.turns >= 1
    BY <1>4, TalksTyped
  <2>3. PICK g : g = [h EXCEPT !.children = @ \ {t}, !.changed = e]
    OBVIOUS
  <2>4. /\ g \in TalkHead /\ g.turns = h.turns /\ g.parent = h.parent
        /\ g.children = h.children \ {t} /\ g.changed = e /\ h.turns \in Nat
    BY <2>3 DEF TalkHead
  <2>5. talks' = [talks EXCEPT ![p] = g]
    BY <1>2, <1>4, <2>1, <2>2, <2>3, TalksTyped
  <2>6. /\ talks' \in [Talk -> TalkHead] /\ talks'[p] = g
        /\ \A u \in Talk \ {p} : talks'[u] = talks[u]
    BY <2>2, <2>4, <2>5, TalksTyped
  <2>7. /\ leaving' \in [Talk -> {"no", "chunks gone", "disowned"}]
        /\ \A u \in Talk \ {t} : leaving'[u] = leaving[u] \/ leaving'[u] = "no"
    BY <1>2, <1>4, TalksTyped
  <2>8. g # NoTalkHead
    BY <2>2, <2>4, NoTalkHeadType
  <2>9. HeldTalks' = HeldTalks
    BY <1>4, <2>6, <2>8 DEF HeldTalks
  <2>10. \A u \in Talk : talks'[u].turns = talks[u].turns /\ talks'[u].parent = talks[u].parent
    BY <2>2, <2>4, <2>6
  <2>11. TalkTypes'
    <3>1. ASSUME NEW u \in Talk PROVE talks'[u].changed <= events' /\ (u \in HeldTalks' => talks'[u].turns >= 1)
      <4>1. talks'[u].changed = e \/ talks'[u].changed <= events
        BY <2>4, <2>6, TalksTyped
      <4>2. u \in HeldTalks' => talks'[u].turns >= 1
        BY <2>9, <2>10, TalksTyped
      <4>3. events \in Nat
        BY TalksTyped
      <4>4. e <= events
        BY <2>1, <4>3
      <4>5. events' = events
        BY <1>2
      <4> QED BY <4>1, <4>2, <4>4, <4>5
    <3>2. IsFiniteSet(HeldTalks') /\ events' \in Nat
      BY <1>2, <2>9 DEF TalksInv, TalkTypes
    <3> QED BY <2>6, <2>7, <3>1, <3>2 DEF TalkTypes
  <2>12. Family'
    <3> SUFFICES ASSUME NEW u \in Talk, NEW x \in talks'[u].children
                 PROVE  x \in HeldTalks' /\ talks'[x].parent = u /\ leaving'[x] # "disowned"
      BY DEF Family
    <3>1. x \in talks[u].children /\ (u = p => x # t)
      BY <2>2, <2>4, <2>6
    <3>2. x \in HeldTalks /\ talks[x].parent = u /\ leaving[x] # "disowned" /\ x \in Talk
      BY <3>1, TalksTyped DEF TalksInv, Family
    <3>3. x # t
      BY <1>1, <3>1, <3>2
    <3> QED BY <2>7, <2>9, <2>10, <3>2, <3>3
  <2>13. ReadableHeld'
    BY <1>2, <1>3, <2>7, <2>9, TalksTyped DEF TalksInv, ReadableHeld
  <2> QED BY <2>9, <2>10, <2>11, <2>12, <2>13 DEF TalksInv
<1>5. CASE ~(p \in HeldTalks /\ t \in talks[p].children)
  <2>1. talks' = talks /\ leaving' = [leaving EXCEPT ![t] = "disowned"]
    BY <1>2, <1>5
  <2>2. /\ leaving' \in [Talk -> {"no", "chunks gone", "disowned"}]
        /\ \A u \in Talk \ {t} : leaving'[u] = leaving[u]
    BY <2>1, TalksTyped
  <2>3. HeldTalks' = HeldTalks
    BY <2>1 DEF HeldTalks
  <2>4. ASSUME NEW u \in Talk, t \in talks[u].children PROVE FALSE
    <3>1. talks[t].parent = u
      BY <2>4 DEF TalksInv, Family
    <3>2. u \in HeldTalks
      BY <2>4, NoTalkHeadType DEF HeldTalks
    <3> QED BY <1>1, <1>5, <2>4, <3>1, <3>2
  <2>5. Family'
    <3> SUFFICES ASSUME NEW u \in Talk, NEW x \in talks[u].children
                 PROVE  x \in HeldTalks' /\ talks'[x].parent = u /\ leaving'[x] # "disowned"
      BY <2>1 DEF Family
    <3>1. x \in HeldTalks /\ talks[x].parent = u /\ leaving[x] # "disowned" /\ x \in Talk
      BY TalksTyped DEF TalksInv, Family
    <3>2. x # t
      BY <2>4
    <3> QED BY <2>1, <2>2, <2>3, <3>1, <3>2
  <2>6. ReadableHeld'
    BY <1>2, <1>3, <2>2, <2>3, TalksTyped DEF TalksInv, ReadableHeld
  <2>7. TalkTypes'
    <3>1. talks' \in [Talk -> TalkHead] /\ events' = events /\ events \in Nat /\ IsFiniteSet(HeldTalks')
      BY <1>2, <2>1, <2>3 DEF TalksInv, TalkTypes
    <3>2. \A u \in Talk : talks'[u].changed <= events' /\ (u \in HeldTalks' => talks'[u].turns >= 1)
      BY <2>1, <2>3, <3>1, TalksTyped
    <3> QED BY <2>2, <3>1, <3>2 DEF TalkTypes
  <2> QED BY <2>1, <2>3, <2>5, <2>6, <2>7 DEF TalksInv
<1> QED BY <1>4, <1>5

-----------------------------------------------------------------------------
(* Reading the command.                                                    *)

Kinds == {"none", "word", "number", "malformed", "recent", "exact"}
Word == [kind : Kinds, talk : Talk \cup {NoTalk}, n : Nat]
Want == [ok : BOOLEAN, session : Talk \cup {NoTalk}, recent : BOOLEAN, topic : SUBSET (1..3), turns : Nat]

(* Every word of w is accounted for in what it is read as. *)
Heeded(want, w) ==
  want.ok =>
    /\ want.turns \in 1..MaxResumeTurns
    /\ w[1] # NoWord => \/ 1 \in want.topic \/ want.recent \/ want.session = w[1].talk
    /\ \A i \in 2..3 : w[i] # NoWord =>
         i \in want.topic \/ (w[i].kind = "number" /\ want.turns = w[i].n)

LEMMA NoWantHeeds ==
  NoWant \in Want /\ \A w : Heeded(NoWant, w)
BY DEF NoWant, Want, Heeded, NoTalk

(* A count that follows is the count of turns, or nothing is resumed. *)
LEMMA CountAfterCounts ==
  ASSUME NEW want \in Want, NEW word \in Word, NEW next
  PROVE  /\ CountAfter(want, word, next) \in Want
         /\ \/ CountAfter(want, word, next) = NoWant
            \/ /\ word.kind = "number" /\ next = NoWord /\ word.n \in 1..MaxResumeTurns
               /\ CountAfter(want, word, next).turns = word.n
               /\ CountAfter(want, word, next).topic = want.topic
               /\ CountAfter(want, word, next).recent = want.recent
               /\ CountAfter(want, word, next).session = want.session
<1>1. CASE word.kind = "number" /\ Count(word) > 0 /\ next = NoWord
  <2>1. word.n \in 1..MaxResumeTurns /\ Count(word) = word.n /\ word.n \in Nat
    BY <1>1 DEF Count, Word
  <2>2. PICK n \in Nat : n = Count(word)
    BY <2>1
  <2>3. PICK c : c = [want EXCEPT !.turns = n]
    OBVIOUS
  <2>4. c \in Want /\ c.turns = n /\ c.topic = want.topic /\ c.recent = want.recent /\ c.session = want.session
    BY <2>3 DEF Want
  <2>5. CountAfter(want, word, next) = c
    BY <1>1, <2>2, <2>3 DEF CountAfter
  <2> QED BY <1>1, <2>1, <2>2, <2>4, <2>5
<1>2. CASE ~(word.kind = "number" /\ Count(word) > 0 /\ next = NoWord)
  BY <1>2, NoWantHeeds DEF CountAfter
<1> QED BY <1>1, <1>2

LEMMA WordsTyped ==
  /\ NoWord \in Word /\ Plain \subseteq Word /\ FirstWords \subseteq Word /\ Plain \subseteq FirstWords
  /\ \A w \in FirstWords : w.kind = "exact" => w.talk \in Talk
<1>1. PICK none \in Word : none = NoWord /\ none.kind = "none"
  <2>1. NoWord \in Word
    BY DEF NoWord, Word, Kinds
  <2>2. NoWord.kind = "none"
    BY DEF NoWord
  <2> QED BY <2>1, <2>2
<1>2. ASSUME NEW k \in Kinds, NEW w, w = [none EXCEPT !.kind = k] PROVE w \in Word /\ w.kind = k
  BY <1>2 DEF Word, Kinds
<1>3. ASSUME NEW n \in Numbers, NEW w, w = [none EXCEPT !.kind = "number", !.n = n]
      PROVE  w \in Word /\ w.kind = "number"
  <2>1. n \in Nat
    BY ResumeAssumption
  <2> QED BY <1>3, <2>1 DEF Word, Kinds
<1>4. ASSUME NEW t \in Talk, NEW w, w = [none EXCEPT !.kind = "exact", !.talk = t]
      PROVE  w \in Word /\ w.talk = t
  BY <1>4 DEF Word, Kinds
<1>5. ASSUME NEW w \in Plain PROVE w \in Word /\ w.kind # "exact"
  <2>1. CASE w = NoWord
    BY <1>1, <2>1
  <2>2. CASE w = [NoWord EXCEPT !.kind = "word"]
    BY <1>1, <1>2, <2>2 DEF Kinds
  <2>3. ASSUME NEW n \in Numbers, w = [NoWord EXCEPT !.kind = "number", !.n = n]
        PROVE  w \in Word /\ w.kind # "exact"
    BY <1>1, <1>3, <2>3
  <2> QED BY <2>1, <2>2, <2>3 DEF Plain
<1>6. ASSUME NEW w \in FirstWords PROVE w \in Word /\ (w.kind = "exact" => w.talk \in Talk)
  <2>1. CASE w \in Plain
    BY <1>5, <2>1
  <2>2. ASSUME NEW k \in {"malformed", "recent"}, w = [NoWord EXCEPT !.kind = k]
        PROVE  w \in Word /\ w.kind # "exact"
    BY <1>1, <1>2, <2>2 DEF Kinds
  <2>3. ASSUME NEW t \in Talk, w = [NoWord EXCEPT !.kind = "exact", !.talk = t]
        PROVE  w \in Word /\ w.talk \in Talk
    BY <1>1, <1>4, <2>3
  <2> QED BY <2>1, <2>2, <2>3 DEF FirstWords
<1> QED BY <1>1, <1>5, <1>6 DEF FirstWords

(***************************************************************************)
(* However a command is read, no word of it is dropped: by the kinds of    *)
(* its first word, and of the word that ends it.                           *)
(***************************************************************************)
LEMMA ReadResumeHeeds ==
  ASSUME NEW a \in FirstWords, NEW b \in Plain, NEW c \in Plain, NEW w, w = <<a, b, c>>
  PROVE  ReadResume(w) \in Want /\ Heeded(ReadResume(w), w)
<1>1. w[1] = a /\ w[2] = b /\ w[3] = c /\ a \in Word /\ b \in Word /\ c \in Word
  BY WordsTyped
<1> DEFINE exact == a.kind = "exact"
           named == exact \/ a.kind = "recent"
<1>2. PICK base : base = [ok |-> TRUE, recent |-> a.kind = "recent", turns |-> ResumeTurns,
                          session |-> IF exact THEN a.talk ELSE NoTalk,
                          topic |-> IF named THEN {} ELSE {i \in 1..2 : w[i] # NoWord}]
  OBVIOUS
<1>3. /\ base.ok = TRUE /\ base.recent = (a.kind = "recent") /\ base.turns = ResumeTurns
      /\ base.session = (IF exact THEN a.talk ELSE NoTalk)
      /\ base.topic = (IF named THEN {} ELSE {i \in 1..2 : w[i] # NoWord})
  BY <1>2
<1>4. ResumeTurns \in Nat /\ ResumeTurns \in 1..MaxResumeTurns /\ MaxResumeTurns \in Nat
  BY ResumeAssumption
<1>5. base \in Want
  <2>1. (IF exact THEN a.talk ELSE NoTalk) \in Talk \cup {NoTalk}
    BY WordsTyped
  <2>2. (IF named THEN {} ELSE {i \in 1..2 : w[i] # NoWord}) \in SUBSET (1..3)
    OBVIOUS
  <2> QED BY <1>2, <1>4, <2>1, <2>2 DEF Want
<1>6. ReadResume(w) =
        IF a.kind = "malformed" THEN NoWant
        ELSE IF named /\ b # NoWord THEN CountAfter(base, b, c)
        ELSE IF c = NoWord THEN base
        ELSE IF c.kind = "number" THEN CountAfter(base, c, NoWord)
        ELSE IF ~named /\ a # NoWord THEN [base EXCEPT !.topic = @ \cup {3}]
        ELSE NoWant
  BY <1>1, <1>2 DEF ReadResume
<1>7. a # NoWord => (1 \in base.topic \/ base.recent \/ base.session = a.talk)
  <2>1. CASE exact
    BY <1>3, <2>1
  <2>2. CASE ~exact /\ a.kind = "recent"
    BY <1>3, <2>2
  <2>3. CASE ~named
    <3>1. base.topic = {i \in 1..2 : w[i] # NoWord}
      BY <1>3, <2>3
    <3> QED BY <1>1, <3>1
  <2> QED BY <2>1, <2>2, <2>3
<1>8. ~named /\ b # NoWord => 2 \in base.topic
  BY <1>1, <1>3
<1> HIDE DEF exact, named
<1>9. CASE a.kind = "malformed"
  BY <1>6, <1>9, NoWantHeeds
<1>10. CASE a.kind # "malformed" /\ named /\ b # NoWord
  <2>1. PICK r \in Want : r = CountAfter(base, b, c)
    BY <1>1, <1>5, CountAfterCounts
  <2>2. r = NoWant \/ (/\ b.kind = "number" /\ c = NoWord /\ b.n \in 1..MaxResumeTurns /\ r.turns = b.n
                       /\ r.topic = base.topic /\ r.recent = base.recent /\ r.session = base.session)
    BY <1>1, <1>5, <2>1, CountAfterCounts
  <2>3. Heeded(r, w)
    <3>1. CASE r = NoWant
      BY <3>1, NoWantHeeds
    <3>2. CASE r # NoWant
      BY <1>1, <1>7, <2>2, <3>2 DEF Heeded
    <3> QED BY <3>1, <3>2
  <2> QED BY <1>6, <1>10, <2>1, <2>3
<1>11. CASE a.kind # "malformed" /\ ~(named /\ b # NoWord) /\ c = NoWord
  <2>1. Heeded(base, w)
    BY <1>1, <1>3, <1>4, <1>7, <1>8, <1>11 DEF Heeded
  <2> QED BY <1>5, <1>6, <1>11, <2>1
<1>12. CASE a.kind # "malformed" /\ ~(named /\ b # NoWord) /\ c # NoWord /\ c.kind = "number"
  <2>1. PICK r \in Want : r = CountAfter(base, c, NoWord)
    BY <1>1, <1>5, CountAfterCounts
  <2>2. r = NoWant \/ (/\ c.n \in 1..MaxResumeTurns /\ r.turns = c.n
                       /\ r.topic = base.topic /\ r.recent = base.recent /\ r.session = base.session)
    BY <1>1, <1>5, <2>1, CountAfterCounts
  <2>3. Heeded(r, w)
    <3>1. CASE r = NoWant
      BY <3>1, NoWantHeeds
    <3>2. CASE r # NoWant
      BY <1>1, <1>7, <1>8, <1>12, <2>2, <3>2 DEF Heeded
    <3> QED BY <3>1, <3>2
  <2> QED BY <1>6, <1>12, <2>1, <2>3
<1>13. CASE /\ a.kind # "malformed" /\ ~(named /\ b # NoWord) /\ c # NoWord /\ c.kind # "number"
            /\ ~named /\ a # NoWord
  <2>1. PICK r : r = [base EXCEPT !.topic = @ \cup {3}]
    OBVIOUS
  <2>2. /\ r \in Want /\ r.turns = base.turns /\ r.recent = base.recent /\ r.session = base.session
        /\ r.topic = base.topic \cup {3}
    BY <1>5, <2>1 DEF Want
  <2>3. Heeded(r, w)
    BY <1>1, <1>3, <1>4, <1>7, <1>8, <1>13, <2>2 DEF Heeded
  <2> QED BY <1>6, <1>13, <2>1, <2>2, <2>3
<1>14. CASE /\ a.kind # "malformed" /\ ~(named /\ b # NoWord) /\ c # NoWord /\ c.kind # "number"
            /\ ~(~named /\ a # NoWord)
  BY <1>6, <1>14, NoWantHeeds
<1> QED BY <1>9, <1>10, <1>11, <1>12, <1>13, <1>14

-----------------------------------------------------------------------------
(* The prompt under way.                                                   *)

Places == {"idle", "typed", "refused", "list", "none", "count", "dialog", "listed", "declined",
           "not offered", "load", "turns", "runs", "framing", "memories", "resumed", "failed"}
AskRecord ==
  [at : Places, words : Seq(FirstWords), want : Want, shown : Seq(Talk), total : Nat,
   kept : BOOLEAN, session : Talk \cup {NoTalk}, picked : BOOLEAN, read : TalkHead,
   framed : TalkHead, again : BOOLEAN, left : SUBSET Drawn,
   replayed : Int, skipped : Int, stated : Int, lost : SUBSET Talk]

Understood(a) == a.at = "typed" => Heeded(a.want, a.words)

(* What was offered and what was chosen of it. *)
Chosen(a) ==
  /\ a.at \in {"list", "count", "dialog"} => ~a.picked /\ ~a.again
  /\ a.at \in {"dialog", "listed"} => a.total >= Len(a.shown)
  /\ a.picked /\ a.kept => (a.at = "not offered" <=> a.session \notin Range(a.shown))

(* The head that was read is no longer than the head is now, and what was  *)
(* stated of it no longer than it.                                         *)
Counted(a) ==
  /\ a.at \in {"memories", "resumed"} => a.again
  /\ a.again => a.replayed + a.skipped = a.stated /\ a.read.turns >= a.stated
  /\ (a.at \in {"turns", "runs", "framing"} \/ a.again) /\ a.session \in HeldTalks =>
       talks[a.session].turns >= a.read.turns

(* Runs the head names are held or were lost meanwhile. *)
Excused(a) ==
  /\ a.at \in {"turns", "runs"} => a.read.children \subseteq HeldTalks \cup a.lost
  /\ a.at = "failed" => a.session \notin readable \/ a.lost \cap a.read.children # {}

Sound(a) == a \in AskRecord /\ Understood(a) /\ Chosen(a) /\ Counted(a) /\ Excused(a)

ResumeInv == TalksInv /\ Sound(ask)

(* A prompt that has just begun or has ended has nothing to answer for. *)
LEMMA FreshIsSound ==
  ASSUME NEW a \in AskRecord, a.picked = FALSE, a.again = FALSE,
         a.at \in {"idle", "refused", "list", "none", "declined", "load"}
  PROVE  Sound(a)
BY DEF Sound, Understood, Chosen, Counted, Excused

LEMMA AsleepTyped ==
  /\ Asleep \in AskRecord /\ Asleep.picked = FALSE /\ Asleep.again = FALSE /\ Asleep.at = "idle"
  /\ Asleep.want \in Want
<1>1. NoWant \in Want /\ NoTalkHead \in TalkHead
  BY NoWantHeeds, NoTalkHeadType
<1>2. Silence \in Seq(FirstWords)
  BY DEF Silence, FirstWords, Plain
<1>3. Asleep = [at |-> "idle", words |-> Silence, want |-> NoWant,
           shown |-> <<>>, total |-> 0, kept |-> FALSE, session |-> NoTalk, picked |-> FALSE,
           read |-> NoTalkHead, framed |-> NoTalkHead, again |-> FALSE, left |-> {},
           replayed |-> 0, skipped |-> 0, stated |-> 0, lost |-> {}]
  BY DEF Asleep
<1>4. <<>> \in Seq(Talk)
  OBVIOUS
<1>5. Asleep \in AskRecord
  BY <1>1, <1>2, <1>3, <1>4 DEF AskRecord, Places
<1>6. Asleep.picked = FALSE /\ Asleep.again = FALSE /\ Asleep.at = "idle" /\ Asleep.want = NoWant
  BY <1>3
<1> QED BY <1>1, <1>5, <1>6

LEMMA HeardTyped ==
  ASSUME ask \in AskRecord
  PROVE  /\ Heard \in AskRecord /\ Heard.picked = FALSE /\ Heard.again = FALSE /\ Heard.at = "idle"
<1>1. PICK s \in AskRecord : s = Asleep /\ s.picked = FALSE /\ s.again = FALSE /\ s.at = "idle"
  BY AsleepTyped
<1>2. PICK n \in Nat : n = ask.want.turns
  BY DEF AskRecord, Want
<1>3. PICK w : w = [s.want EXCEPT !.turns = n]
  OBVIOUS
<1>4. s.want \in Want
  BY DEF AskRecord
<1>5. w \in Want
  BY <1>3, <1>4 DEF Want
<1>6. Heard = [s EXCEPT !.want = w]
  BY <1>1, <1>2, <1>3 DEF Heard
<1>7. PICK h : h = [s EXCEPT !.want = w]
  OBVIOUS
<1>8. h \in AskRecord /\ h.picked = s.picked /\ h.again = s.again /\ h.at = s.at
  BY <1>5, <1>7 DEF AskRecord
<1> QED BY <1>1, <1>6, <1>7, <1>8

LEMMA EndsSound ==
  ASSUME ask \in AskRecord
  PROVE  /\ \A how \in {"refused", "list", "none", "declined"} : Sound(EndsAs(how))
         /\ \A t \in Talk \cup {NoTalk} : Sound(Resumes(t))
         /\ Sound(Asleep)
<1>1. PICK h \in AskRecord : h = Heard /\ h.picked = FALSE /\ h.again = FALSE
  BY HeardTyped
<1>2. ASSUME NEW how \in {"refused", "list", "none", "declined"} PROVE Sound(EndsAs(how))
  <2>1. PICK e : e = [h EXCEPT !.at = how]
    OBVIOUS
  <2>2. e \in AskRecord /\ e.picked = FALSE /\ e.again = FALSE /\ e.at = how
    BY <1>1, <2>1 DEF AskRecord, Places
  <2>3. EndsAs(how) = e
    BY <1>1, <2>1 DEF EndsAs
  <2> QED BY <2>2, <2>3, FreshIsSound
<1>3. ASSUME NEW t \in Talk \cup {NoTalk} PROVE Sound(Resumes(t))
  <2>1. PICK e : e = [h EXCEPT !.at = "load", !.session = t]
    OBVIOUS
  <2>2. e \in AskRecord /\ e.picked = FALSE /\ e.again = FALSE /\ e.at = "load"
    BY <1>1, <2>1 DEF AskRecord, Places
  <2>3. Resumes(t) = e
    BY <1>1, <2>1 DEF Resumes
  <2> QED BY <2>2, <2>3, FreshIsSound
<1>4. Sound(Asleep)
  BY AsleepTyped, FreshIsSound
<1> QED BY <1>2, <1>3, <1>4

(* The list of conversations, from the last changed to the first. *)
LEMMA ListedTyped ==
  ASSUME TalksInv
  PROVE  /\ Listed \in Seq(Talk) /\ Len(Listed) \in Nat /\ (Listed # <<>> => Listed[1] \in Talk)
         /\ \A n \in Nat : FirstOf(Listed, n) \in Seq(Talk)
<1> DEFINE before == {p \in Open \X Open : Newer(p[1], p[2])}
<1>1. Open \subseteq HeldTalks /\ Open \subseteq Talk
  BY TalksTyped DEF Open
<1>2. PICK O : O = Open
  OBVIOUS
<1>3. PICK R : R = before
  OBVIOUS
<1>4. \A t, u \in O : <<t, u>> \in R <=> Newer(t, u)
  BY <1>2, <1>3 DEF Newer
<1>5. \A t \in O : talks[t].changed \in Nat /\ t \in Nat
  BY <1>1, <1>2, TalksTyped, ResumeAssumption
<1>6. Ordering(O, R)
  BY <1>4, <1>5 DEF Ordering, Newer
<1>7. IsFiniteSet(O)
  <2>1. PICK H : H = HeldTalks
    OBVIOUS
  <2>2. IsFiniteSet(H) /\ O \in SUBSET H
    BY <1>1, <1>2, <2>1 DEF TalksInv, TalkTypes
  <2> QED BY <2>2, FS_Subset
<1>8. Arranged(O, R) \in Seq(O)
  BY <1>6, <1>7, ArrangedInOrder
<1>9. PICK s \in Seq(O) : s = Listed
  BY <1>2, <1>3, <1>8 DEF Listed
<1>10. s \in Seq(Talk) /\ Len(s) \in Nat /\ (s # <<>> => s[1] \in Talk)
  BY <1>1, <1>2
<1>11. ASSUME NEW n \in Nat PROVE FirstOf(s, n) \in Seq(Talk)
  <2>1. PICK m \in Nat : m = (IF Len(s) < n THEN Len(s) ELSE n)
    BY <1>10
  <2>2. m <= Len(s)
    BY <1>10, <2>1
  <2>3. SubSeq(s, 1, m) \in Seq(Talk)
    BY <1>10, <2>2
  <2> QED BY <2>1, <2>3 DEF FirstOf
<1> QED BY <1>9, <1>10, <1>11

-----------------------------------------------------------------------------
(* What others do while a prompt is under way.                             *)

(* The conversation being read is only appended to or forgotten, never     *)
(* saved anew, and what is forgotten meanwhile is noted.                   *)
Meanwhile ==
  /\ \A t \in HeldTalks : t \in HeldTalks' \/ (ask.at # "idle" => t \in ask'.lost)
  /\ ask.session \in HeldTalks' =>
       ask.session \in HeldTalks /\ talks'[ask.session].turns >= talks[ask.session].turns
  /\ ask.session \in readable' => ask.session \in readable
  /\ ask' = ask \/ \E t \in Talk : ask' = [ask EXCEPT !.lost = @ \cup {t}]

LEMMA MeanwhileKeepsSound ==
  ASSUME ResumeInv, TalksInv', Meanwhile
  PROVE  ResumeInv'
<1>1. PICK a \in AskRecord : a = ask
  BY DEF ResumeInv, Sound
<1>2. PICK b : b = ask'
  OBVIOUS
<1>3. /\ b \in AskRecord /\ a.lost \subseteq b.lost
      /\ b.at = a.at /\ b.words = a.words /\ b.want = a.want /\ b.shown = a.shown /\ b.total = a.total
      /\ b.kept = a.kept /\ b.session = a.session /\ b.picked = a.picked /\ b.read = a.read
      /\ b.again = a.again /\ b.replayed = a.replayed /\ b.skipped = a.skipped /\ b.stated = a.stated
  <2>1. CASE ask' = ask
    BY <1>1, <1>2, <2>1
  <2>2. ASSUME NEW t \in Talk, ask' = [ask EXCEPT !.lost = @ \cup {t}] PROVE <1>3
    <3>1. b = [a EXCEPT !.lost = @ \cup {t}]
      BY <1>1, <1>2, <2>2
    <3> QED BY <3>1 DEF AskRecord
  <2> QED BY <2>1, <2>2 DEF Meanwhile
<1>4. Understood(b)' /\ Chosen(b)'
  BY <1>1, <1>3 DEF ResumeInv, Sound, Understood, Chosen
<1>5. Counted(b)'
  <2>1. Counted(a)
    BY <1>1 DEF ResumeInv, Sound
  <2>2. (b.at \in {"memories", "resumed"} => b.again)
        /\ (b.again => b.replayed + b.skipped = b.stated /\ b.read.turns >= b.stated)
    BY <1>3, <2>1 DEF Counted
  <2>3. ASSUME b.at \in {"turns", "runs", "framing"} \/ b.again, b.session \in HeldTalks'
        PROVE  talks'[b.session].turns >= b.read.turns
    <3>1. a.session \in HeldTalks /\ talks'[a.session].turns >= talks[a.session].turns
      BY <1>1, <1>3, <2>3 DEF Meanwhile
    <3>2. talks[a.session].turns >= a.read.turns
      BY <1>3, <2>1, <2>3, <3>1 DEF Counted
    <3>3. talks[a.session].turns \in Nat
      BY <3>1, TalksTyped DEF ResumeInv
    <3>4. talks'[a.session].turns \in Nat
      <4>1. talks' \in [Talk -> TalkHead] /\ a.session \in Talk
        BY <3>1, TalksTyped DEF TalksInv, TalkTypes, ResumeInv
      <4> QED BY <4>1 DEF TalkHead
    <3>5. a.read.turns \in Nat
      BY DEF AskRecord, TalkHead
    <3>6. talks'[a.session].turns >= a.read.turns
      BY <3>1, <3>2, <3>3, <3>4, <3>5
    <3> QED BY <1>3, <3>6
  <2> QED BY <2>2, <2>3 DEF Counted
<1>6. Excused(b)'
  <2>1. Excused(a)
    BY <1>1 DEF ResumeInv, Sound
  <2>2. ASSUME b.at \in {"turns", "runs"} PROVE b.read.children \subseteq HeldTalks' \cup b.lost
    <3>1. a.read.children \subseteq HeldTalks \cup a.lost /\ a.at # "idle"
      BY <1>3, <2>1, <2>2 DEF Excused
    <3>2. \A t \in HeldTalks : t \in HeldTalks' \/ t \in b.lost
      BY <1>1, <1>2, <3>1 DEF Meanwhile
    <3> QED BY <1>3, <3>1, <3>2
  <2>3. ASSUME b.at = "failed" PROVE b.session \notin readable' \/ b.lost \cap b.read.children # {}
    <3>1. a.session \notin readable \/ a.lost \cap a.read.children # {}
      BY <1>3, <2>1, <2>3 DEF Excused
    <3>2. a.session \in readable' => a.session \in readable
      BY <1>1 DEF Meanwhile
    <3> QED BY <1>3, <3>1, <3>2
  <2> QED BY <2>2, <2>3 DEF Excused
<1> QED BY <1>2, <1>3, <1>4, <1>5, <1>6 DEF ResumeInv, Sound

(* A head that is rewritten for a longer or equal conversation. *)
LEMMA RewriteMeanwhile ==
  ASSUME TalksInv, NEW t \in HeldTalks, NEW h \in TalkHead, h.turns \in Nat \ {0},
         h.parent = talks[t].parent, h.children = talks[t].children, h.turns >= talks[t].turns,
         events' = events + 1, Rewrite(t, h), UNCHANGED <<readable, ask>>
  PROVE  TalksInv' /\ Meanwhile
<1>1. TalksInv'
  BY RewriteKeepsTalks
<1>2. PICK e \in Nat : e = events + 1
  BY TalksTyped
<1>3. PICK g : g = [h EXCEPT !.changed = e]
  OBVIOUS
<1>4. g.turns = h.turns
  BY <1>3 DEF TalkHead
<1>5. talks' = [talks EXCEPT ![t] = g]
  BY <1>2, <1>3 DEF Rewrite
<1>6. t \in Talk /\ talks'[t] = g /\ \A u \in Talk \ {t} : talks'[u] = talks[u]
  BY <1>5, TalksTyped
<1>7. g # NoTalkHead
  <2>1. g.turns # 0
    BY <1>4
  <2> QED BY <2>1, NoTalkHeadType
<1>8. HeldTalks' = HeldTalks
  BY <1>6, <1>7 DEF HeldTalks
<1>9. ASSUME ask.session \in HeldTalks PROVE talks'[ask.session].turns >= talks[ask.session].turns
  <2>1. PICK u \in Talk : u = ask.session
    BY <1>9, TalksTyped
  <2>2. CASE u = t
    <3>1. talks'[u].turns = h.turns
      BY <1>4, <1>6, <2>2
    <3> QED BY <2>1, <2>2, <3>1
  <2>3. CASE u # t
    <3>1. talks'[u] = talks[u] /\ talks[u].turns \in Nat
      BY <1>6, <2>3, TalksTyped
    <3>2. talks'[u].turns >= talks[u].turns
      BY <3>1
    <3> QED BY <2>1, <3>2
  <2> QED BY <2>2, <2>3
<1> QED BY <1>1, <1>8, <1>9 DEF Meanwhile

LEMMA OthersMeanwhile ==
  ASSUME ResumeInv,
         \/ \E t \in Talk : \/ ForgetTurns(t) \/ Disown(t) \/ DropTalk(t)
                            \/ \E parent \in HeldTalks \cup {NoTalk} : SaveTalk(t, parent)
                            \/ \E away \in BOOLEAN : AppendTurn(t, away)
                            \/ \E m \in Drawn : DrawFrom(t, m)
         \/ \E m \in Drawn : ForgetDrawn(m)
  PROVE  TalksInv' /\ Meanwhile
<1>1. TalksInv /\ ask \in AskRecord
  BY DEF ResumeInv, Sound
<1>2. ASSUME NEW u \in Talk PROVE talks[u].turns \in Nat /\ talks[u].turns >= talks[u].turns
  <2>1. PICK n : n = talks[u].turns
    OBVIOUS
  <2>2. n \in Nat
    BY <1>1, <2>1, TalksTyped
  <2>3. n >= n
    BY <2>2
  <2> QED BY <2>1, <2>2, <2>3
<1>3. HeldTalks \subseteq Talk
  BY <1>1, TalksTyped
<1>4. ASSUME NEW t \in Talk, ForgetTurns(t) PROVE TalksInv' /\ Meanwhile
  <2>1. talks' = talks /\ ask' = ask /\ readable' \subseteq readable
    BY <1>4 DEF ForgetTurns
  <2>2. HeldTalks' = HeldTalks
    BY <2>1 DEF HeldTalks
  <2>3. Meanwhile
    BY <1>2, <1>3, <2>1, <2>2 DEF Meanwhile
  <2> QED BY <1>1, <1>4, <2>3, ForgetKeepsTalks
<1>5. ASSUME NEW t \in Talk, Disown(t) PROVE TalksInv' /\ Meanwhile
  <2>1. TalksInv' /\ HeldTalks' = HeldTalks /\ \A u \in Talk : talks'[u].turns = talks[u].turns
    BY <1>1, <1>5, DisownKeepsTalks
  <2>2. ask' = ask /\ readable' = readable
    BY <1>5 DEF Disown
  <2>3. \A u \in Talk : talks'[u].turns >= talks[u].turns
    BY <1>2, <2>1
  <2> QED BY <1>3, <2>1, <2>2, <2>3 DEF Meanwhile
<1>6. ASSUME NEW t \in Talk, DropTalk(t) PROVE TalksInv' /\ Meanwhile
  <2>1. /\ talks' = [talks EXCEPT ![t] = NoTalkHead] /\ readable' = readable
        /\ ask' = IF ask.at = "idle" THEN ask ELSE [ask EXCEPT !.lost = @ \cup {t}]
    BY <1>6 DEF DropTalk
  <2>2. talks'[t] = NoTalkHead /\ \A u \in Talk \ {t} : talks'[u] = talks[u]
    BY <1>1, <2>1, TalksTyped
  <2>3. HeldTalks' = HeldTalks \ {t}
    BY <2>2 DEF HeldTalks
  <2>4. ask.at # "idle" => t \in ask'.lost
    BY <1>1, <2>1 DEF AskRecord
  <2>5. \A u \in HeldTalks' : talks'[u].turns >= talks[u].turns
    BY <1>2, <1>3, <2>2, <2>3
  <2>6. ask' = ask \/ \E u \in Talk : ask' = [ask EXCEPT !.lost = @ \cup {u}]
    BY <2>1
  <2>7. Meanwhile
    BY <2>1, <2>3, <2>4, <2>5, <2>6 DEF Meanwhile
  <2> QED BY <1>1, <1>6, <2>7, DropKeepsTalks
<1>7. ASSUME NEW t \in Talk, NEW parent \in HeldTalks \cup {NoTalk}, SaveTalk(t, parent) PROVE TalksInv' /\ Meanwhile
  <2>1. TalksInv'
    BY <1>1, <1>7, SaveKeepsTalks
  <2>2. /\ t \notin HeldTalks /\ t # ask.session /\ ask' = ask /\ readable' = readable \cup {t}
        /\ talks' = [u \in Talk |->
             IF u = t THEN [NoTalkHead EXCEPT !.turns = 1, !.changed = events + 1, !.parent = parent]
             ELSE IF u = parent THEN [talks[u] EXCEPT !.children = @ \cup {t}, !.changed = events + 1]
             ELSE talks[u]]
    BY <1>7 DEF SaveTalk
  <2>3. ASSUME NEW u \in Talk, u # t
        PROVE  talks'[u].turns = talks[u].turns /\ (u \in HeldTalks => u \in HeldTalks') /\ (u \in HeldTalks' => u \in HeldTalks)
    <3>1. PICK x \in TalkHead : x = talks[u]
      BY <1>1, TalksTyped
    <3>2. PICK e \in Nat : e = events + 1
      BY <1>1, TalksTyped
    <3>3. PICK y : y = [x EXCEPT !.children = @ \cup {t}, !.changed = e]
      OBVIOUS
    <3>4. y.turns = x.turns
      BY <3>3 DEF TalkHead
    <3>5. talks'[u] = IF u = parent THEN y ELSE x
      BY <2>2, <2>3, <3>1, <3>2, <3>3
    <3>6. talks'[u].turns = x.turns
      BY <3>4, <3>5
    <3>7. u \in HeldTalks <=> x # NoTalkHead
      BY <3>1 DEF HeldTalks
    <3>8. u \in HeldTalks' <=> talks'[u] # NoTalkHead
      BY DEF HeldTalks
    <3>9. u = parent => u \in HeldTalks /\ x.turns >= 1 /\ x.turns \in Nat
      BY <1>1, <3>1, TalksTyped
    <3>10. u = parent => x.turns # 0
      BY <3>9
    <3>11. u = parent => talks'[u] # NoTalkHead
      BY <3>6, <3>10, NoTalkHeadType
    <3> QED BY <3>1, <3>5, <3>6, <3>7, <3>8, <3>9, <3>11
  <2>4. \A u \in Talk : u # t => talks'[u].turns >= talks[u].turns
    BY <1>2, <2>3
  <2>5. HeldTalks' \subseteq Talk
    BY DEF HeldTalks
  <2> QED BY <1>3, <2>1, <2>2, <2>3, <2>4, <2>5 DEF Meanwhile
<1>8. ASSUME NEW t \in Talk, NEW away \in BOOLEAN, AppendTurn(t, away) PROVE TalksInv' /\ Meanwhile
  <2>1. PICK x \in TalkHead : x = talks[t] /\ x.turns \in Nat
    BY <1>1, TalksTyped
  <2>2. PICK n \in Nat \ {0} : n = x.turns + 1
    BY <2>1
  <2>3. PICK h : h = [x EXCEPT !.turns = n, !.archived = away]
    OBVIOUS
  <2>4. h \in TalkHead /\ h.turns = n /\ h.parent = x.parent /\ h.children = x.children
    BY <2>3 DEF TalkHead
  <2>5. [talks[t] EXCEPT !.turns = @ + 1, !.archived = away] = h
    BY <2>1, <2>2, <2>3
  <2>6. t \in HeldTalks /\ events' = events + 1 /\ Rewrite(t, h) /\ UNCHANGED <<readable, ask>>
    BY <1>8, <2>5 DEF AppendTurn, Happens
  <2>7. h.turns >= talks[t].turns
    BY <2>1, <2>2, <2>4
  <2> QED BY <1>1, <2>1, <2>4, <2>6, <2>7, RewriteMeanwhile
<1>9. ASSUME NEW t \in Talk, NEW m \in Drawn, DrawFrom(t, m) PROVE TalksInv' /\ Meanwhile
  <2>1. PICK x \in TalkHead : x = talks[t] /\ x.turns \in Nat
    BY <1>1, TalksTyped
  <2>2. PICK h : h = [x EXCEPT !.memories = @ \cup {m}]
    OBVIOUS
  <2>3. h \in TalkHead /\ h.turns = x.turns /\ h.parent = x.parent /\ h.children = x.children
    BY <2>2 DEF TalkHead
  <2>4. [talks[t] EXCEPT !.memories = @ \cup {m}] = h
    BY <2>1, <2>2
  <2>5. t \in HeldTalks /\ events' = events + 1 /\ Rewrite(t, h) /\ UNCHANGED <<readable, ask>>
    BY <1>9, <2>4 DEF DrawFrom, Happens
  <2>6. x.turns >= 1
    BY <1>1, <2>1, <2>5, TalksTyped
  <2>7. h.turns \in Nat \ {0} /\ h.turns >= talks[t].turns
    BY <2>1, <2>3, <2>6
  <2> QED BY <1>1, <2>1, <2>3, <2>5, <2>7, RewriteMeanwhile
<1>10. ASSUME NEW m \in Drawn, ForgetDrawn(m) PROVE TalksInv' /\ Meanwhile
  <2>1. talks' = talks /\ ask' = ask /\ readable' = readable /\ leaving' = leaving
    BY <1>10 DEF ForgetDrawn
  <2>2. events' = events + 1
    BY <1>10 DEF ForgetDrawn, Happens
  <2>3. HeldTalks' = HeldTalks
    BY <2>1 DEF HeldTalks
  <2>4. Meanwhile
    BY <1>2, <1>3, <2>1, <2>3 DEF Meanwhile
  <2>5. Family' /\ ReadableHeld'
    BY <1>1, <2>1, <2>3 DEF TalksInv, Family, ReadableHeld
  <2>6. \A u \in Talk : talks'[u].changed <= events' /\ (u \in HeldTalks' => talks'[u].turns >= 1)
    BY <1>1, <2>1, <2>2, <2>3, TalksTyped
  <2>7. events' \in Nat
    BY <1>1, <2>2, TalksTyped
  <2>8. IsFiniteSet(HeldTalks') /\ talks' \in [Talk -> TalkHead] /\ leaving' \in [Talk -> {"no", "chunks gone", "disowned"}]
    BY <1>1, <2>1, <2>3 DEF TalksInv, TalkTypes
  <2> QED BY <2>4, <2>5, <2>6, <2>7, <2>8 DEF TalksInv, TalkTypes
<1> QED BY <1>4, <1>5, <1>6, <1>7, <1>8, <1>9, <1>10

-----------------------------------------------------------------------------
(* The steps of the prompt.                                                *)

LEMMA AskMoves ==
  ASSUME ResumeInv, UNCHANGED vault, NEW b, b = ask', Sound(b)
  PROVE  ResumeInv'
<1>1. talks' = talks /\ readable' = readable /\ leaving' = leaving /\ events' = events
  BY DEF vault
<1>2. HeldTalks' = HeldTalks
  BY <1>1 DEF HeldTalks
<1>3. TalksInv'
  BY <1>1, <1>2 DEF ResumeInv, TalksInv, TalkTypes, Family, ReadableHeld
<1>4. Sound(b)'
  BY <1>1, <1>2 DEF Sound, Understood, Chosen, Counted, Excused
<1> QED BY <1>3, <1>4 DEF ResumeInv

LEMMA TypeSound ==
  ASSUME ResumeInv, NEW first \in FirstWords, NEW second \in Plain, NEW third \in Plain,
         Type(first, second, third)
  PROVE  ResumeInv'
<1>1. PICK w : w = <<first, second, third>>
  OBVIOUS
<1>2. w \in Seq(FirstWords)
  BY <1>1, WordsTyped
<1>3. PICK want \in Want : want = ReadResume(w) /\ Heeded(want, w)
  BY <1>1, ReadResumeHeeds
<1>4. PICK s \in AskRecord : s = Asleep /\ s.picked = FALSE /\ s.again = FALSE
  BY AsleepTyped
<1>5. PICK b : b = [s EXCEPT !.at = "typed", !.words = w, !.want = want]
  OBVIOUS
<1>6. /\ b \in AskRecord /\ b.picked = s.picked /\ b.again = s.again /\ b.at = "typed"
      /\ b.words = w /\ b.want = want
  BY <1>2, <1>5 DEF AskRecord, Places
<1>7. ask' = b /\ UNCHANGED vault
  BY <1>1, <1>3, <1>4, <1>5 DEF Type
<1>8. Sound(b)
  BY <1>3, <1>4, <1>6 DEF Sound, Understood, Chosen, Counted, Excused
<1> QED BY <1>7, <1>8, AskMoves

LEMMA FindSound ==
  ASSUME ResumeInv, FindSession
  PROVE  ResumeInv'
<1>1. ask \in AskRecord /\ TalksInv
  BY DEF ResumeInv, Sound
<1>2. PICK b : b = ask'
  OBVIOUS
<1>3. PICK want \in Want : want = ask.want
  BY <1>1 DEF AskRecord
<1>4. Sound(b)
  <2>1. CASE ask' = EndsAs("refused") \/ ask' = EndsAs("list") \/ ask' = EndsAs("none")
    BY <1>1, <1>2, <2>1, EndsSound
  <2>2. CASE \E t \in Talk \cup {NoTalk} : ask' = Resumes(t)
    BY <1>1, <1>2, <2>2, EndsSound
  <2>3. want.session \in Talk \cup {NoTalk}
    BY DEF Want
  <2>4. Listed # <<>> => Listed[1] \in Talk
    BY <1>1, ListedTyped
  <2>5. HeldTalks \subseteq Talk
    BY <1>1, TalksTyped
  <2> QED BY <1>3, <2>1, <2>2, <2>3, <2>4, <2>5 DEF FindSession
<1> QED BY <1>2, <1>4, AskMoves DEF FindSession

LEMMA ReadRowsSound ==
  ASSUME ResumeInv, ReadRows
  PROVE  ResumeInv'
<1>1. PICK a \in AskRecord : a = ask /\ Sound(a) /\ TalksInv
  BY DEF ResumeInv, Sound
<1>2. PICK b : b = ask'
  OBVIOUS
<1>3. a.picked = FALSE /\ a.again = FALSE
  <2>1. a.at = "list" /\ a.picked \in BOOLEAN /\ a.again \in BOOLEAN
    BY <1>1 DEF ReadRows, AskRecord
  <2> QED BY <1>1, <2>1 DEF Sound, Chosen
<1>4. CASE Listed = <<>>
  BY <1>1, <1>2, <1>4, EndsSound, AskMoves DEF ReadRows
<1>5. CASE Listed # <<>>
  <2>1. PICK shown \in Seq(Talk) : shown = FirstOf(Listed, ResumeChoices)
    BY <1>1, ListedTyped, ResumeAssumption
  <2>2. b = [a EXCEPT !.at = "count", !.shown = shown]
    BY <1>1, <1>2, <1>5, <2>1 DEF ReadRows
  <2>3. b \in AskRecord /\ b.picked = a.picked /\ b.again = a.again /\ b.at = "count"
    BY <2>2 DEF AskRecord, Places
  <2>4. Sound(b)
    BY <1>3, <2>3 DEF Sound, Understood, Chosen, Counted, Excused
  <2> QED BY <1>2, <2>4, AskMoves DEF ReadRows
<1> QED BY <1>4, <1>5

LEMMA OfferSound ==
  ASSUME ResumeInv, NEW form \in BOOLEAN, Offer(form)
  PROVE  ResumeInv'
<1>1. PICK a \in AskRecord : a = ask /\ Sound(a) /\ TalksInv
  BY DEF ResumeInv, Sound
<1>2. PICK b : b = ask'
  OBVIOUS
<1>3. a.picked = FALSE /\ a.again = FALSE
  <2>1. a.at = "count" /\ a.picked \in BOOLEAN /\ a.again \in BOOLEAN
    BY <1>1 DEF Offer, AskRecord
  <2> QED BY <1>1, <2>1 DEF Sound, Chosen
<1>4. PICK n \in Nat : n = Len(Listed)
  BY <1>1, ListedTyped
<1>5. a.shown \in Seq(Talk) /\ Len(a.shown) \in Nat
  BY DEF AskRecord
<1>6. PICK total \in Nat : total = OfferTotal(a.shown) /\ total >= Len(a.shown)
  BY <1>4, <1>5 DEF OfferTotal
<1>7. PICK at \in {"dialog", "listed"} : at = IF form THEN "dialog" ELSE "listed"
  OBVIOUS
<1>8. b = [a EXCEPT !.at = at, !.total = total]
  BY <1>1, <1>2, <1>6, <1>7 DEF Offer
<1>9. b \in AskRecord /\ b.picked = a.picked /\ b.again = a.again /\ b.at = at /\ b.total = total /\ b.shown = a.shown
  BY <1>8 DEF AskRecord, Places
<1>10. Sound(b)
  BY <1>3, <1>6, <1>7, <1>9 DEF Sound, Understood, Chosen, Counted, Excused
<1> QED BY <1>2, <1>10, AskMoves DEF Offer

LEMMA ChooseSound ==
  ASSUME ResumeInv, NEW t \in Talk \cup {NoTalk}, NEW kept \in BOOLEAN, Choose(t, kept)
  PROVE  ResumeInv'
<1>1. PICK a \in AskRecord : a = ask /\ Sound(a) /\ TalksInv
  BY DEF ResumeInv, Sound
<1>2. PICK b : b = ask'
  OBVIOUS
<1>3. a.again = FALSE
  <2>1. a.at = "dialog" /\ a.again \in BOOLEAN
    BY <1>1 DEF Choose, AskRecord
  <2> QED BY <1>1, <2>1 DEF Sound, Chosen
<1>4. CASE b = EndsAs("declined") \/ b = EndsAs("none")
  BY <1>1, <1>2, <1>4, EndsSound, AskMoves DEF Choose
<1>5. ASSUME NEW at \in {"load", "not offered"}, at = "load" <=> t \in Offered(kept),
             b = [[ask EXCEPT !.kept = kept, !.session = t, !.picked = TRUE] EXCEPT !.at = at]
      PROVE  ResumeInv'
  <2>1. PICK c : c = [a EXCEPT !.kept = kept, !.session = t, !.picked = TRUE]
    OBVIOUS
  <2>2. /\ c \in AskRecord /\ c.again = a.again /\ c.kept = kept /\ c.session = t /\ c.shown = a.shown
    BY <2>1 DEF AskRecord
  <2>3. b = [c EXCEPT !.at = at]
    BY <1>1, <1>5, <2>1
  <2>4. b \in AskRecord /\ b.again = c.again /\ b.kept = kept /\ b.session = t /\ b.shown = c.shown /\ b.at = at
    BY <2>2, <2>3 DEF AskRecord, Places
  <2>5. kept => Offered(kept) = Range(a.shown)
    BY <1>1 DEF Offered
  <2>6. Sound(b)
    BY <1>3, <1>5, <2>2, <2>4, <2>5 DEF Sound, Understood, Chosen, Counted, Excused
  <2> QED BY <1>2, <2>6, AskMoves DEF Choose
<1> QED BY <1>2, <1>4, <1>5 DEF Choose

(* A step that changes nothing but where the prompt is. *)
LEMMA PlaceTyped ==
  ASSUME NEW a \in AskRecord, NEW at \in Places, NEW b, b = [a EXCEPT !.at = at]
  PROVE  /\ b \in AskRecord /\ b.at = at /\ b.words = a.words /\ b.want = a.want /\ b.shown = a.shown
         /\ b.total = a.total /\ b.kept = a.kept /\ b.session = a.session /\ b.picked = a.picked
         /\ b.read = a.read /\ b.again = a.again /\ b.left = a.left /\ b.replayed = a.replayed
         /\ b.skipped = a.skipped /\ b.stated = a.stated /\ b.lost = a.lost
BY DEF AskRecord

LEMMA LoadHeadSound ==
  ASSUME ResumeInv, LoadHead
  PROVE  ResumeInv'
<1>1. PICK a \in AskRecord : a = ask /\ Sound(a) /\ TalksInv /\ a.at = "load"
  BY DEF ResumeInv, Sound, LoadHead
<1>2. PICK b : b = ask'
  OBVIOUS
<1>3. Counted(a) /\ Chosen(a)
  BY <1>1 DEF Sound
<1>4. CASE a.session \notin HeldTalks
  <2>1. b = [a EXCEPT !.at = "failed"]
    BY <1>1, <1>2, <1>4 DEF LoadHead, Fails
  <2>2. /\ b \in AskRecord /\ b.at = "failed" /\ b.shown = a.shown /\ b.kept = a.kept /\ b.session = a.session
        /\ b.picked = a.picked /\ b.read = a.read /\ b.again = a.again /\ b.replayed = a.replayed
        /\ b.skipped = a.skipped /\ b.stated = a.stated
    <3>1. "failed" \in Places
      BY DEF Places
    <3> QED BY <2>1, <3>1, PlaceTyped
  <2>3. a.session \notin readable
    BY <1>1, <1>4 DEF TalksInv, ReadableHeld
  <2>4. Understood(b) /\ Chosen(b) /\ Excused(b)
    BY <1>1, <1>3, <2>2, <2>3 DEF Understood, Chosen, Excused
  <2>5. Counted(b)
    BY <1>3, <1>4, <2>2 DEF Counted
  <2>6. Sound(b)
    BY <2>2, <2>4, <2>5 DEF Sound
  <2> QED BY <1>2, <2>6, AskMoves DEF LoadHead
<1>5. CASE a.session \in HeldTalks
  <2>1. PICK h \in TalkHead : h = talks[a.session] /\ a.session \in Talk
    BY <1>1, <1>5, TalksTyped
  <2>2. PICK at \in {"runs", "turns"} : at = IF a.again THEN "runs" ELSE "turns"
    OBVIOUS
  <2>3. b = [a EXCEPT !.read = h, !.at = at]
    BY <1>1, <1>2, <1>5, <2>1, <2>2 DEF LoadHead
  <2>4. /\ b \in AskRecord /\ b.at = at /\ b.shown = a.shown /\ b.kept = a.kept /\ b.session = a.session
        /\ b.picked = a.picked /\ b.read = h /\ b.again = a.again /\ b.replayed = a.replayed
        /\ b.skipped = a.skipped /\ b.stated = a.stated /\ b.lost = a.lost
    BY <2>3 DEF AskRecord, Places
  <2>5. Understood(b) /\ Chosen(b)
    BY <1>1, <1>3, <2>4 DEF Understood, Chosen
  <2>6. h.turns \in Nat /\ a.read.turns \in Nat /\ a.stated \in Int
    BY DEF TalkHead, AskRecord
  <2>7. h.turns >= h.turns
    BY <2>6
  <2>8. b.again => b.read.turns >= b.stated
    <3> SUFFICES ASSUME a.again PROVE h.turns >= a.stated
      BY <2>4
    <3>1. h.turns >= a.read.turns /\ a.read.turns >= a.stated
      BY <1>3, <1>5, <2>1 DEF Counted
    <3> QED BY <2>6, <3>1
  <2>9. Counted(b)
    <3>1. b.again => b.replayed + b.skipped = b.stated /\ b.read.turns >= b.stated
      BY <1>3, <2>4, <2>8 DEF Counted
    <3>2. talks[b.session].turns >= b.read.turns
      BY <2>1, <2>4, <2>7
    <3>3. b.at \notin {"memories", "resumed"}
      BY <2>4
    <3> QED BY <3>1, <3>2, <3>3 DEF Counted
  <2>10. h.children \subseteq HeldTalks
    BY <1>1, <2>1 DEF TalksInv, Family
  <2>11. Excused(b)
    BY <2>4, <2>10 DEF Excused
  <2>12. Sound(b)
    BY <2>4, <2>5, <2>9, <2>11 DEF Sound
  <2> QED BY <1>2, <2>12, AskMoves DEF LoadHead
<1> QED BY <1>4, <1>5

LEMMA LoadRestSound ==
  ASSUME ResumeInv, LoadTranscript \/ LoadRuns \/ Resumed
  PROVE  ResumeInv'
<1>1. PICK a \in AskRecord : a = ask /\ Sound(a) /\ TalksInv
  BY DEF ResumeInv, Sound
<1>2. PICK b : b = ask'
  OBVIOUS
<1>3. Counted(a) /\ Chosen(a) /\ Excused(a) /\ Understood(a)
  BY <1>1 DEF Sound
<1>4. ASSUME NEW at \in {"runs", "failed", "memories", "framing", "resumed"}, b = [a EXCEPT !.at = at],
             a.at \in {"turns", "runs", "memories"},
             at = "runs" => a.at = "turns", at = "framing" => a.at = "runs",
             at \in {"memories", "resumed"} => a.again,
             at = "failed" => a.session \notin readable \/ a.lost \cap a.read.children # {}
      PROVE  ResumeInv'
  <2>1. /\ b \in AskRecord /\ b.at = at /\ b.shown = a.shown /\ b.total = a.total
        /\ b.kept = a.kept /\ b.session = a.session /\ b.picked = a.picked
        /\ b.read = a.read /\ b.again = a.again /\ b.replayed = a.replayed
        /\ b.skipped = a.skipped /\ b.stated = a.stated /\ b.lost = a.lost
    <3>1. at \in Places
      BY DEF Places
    <3> QED BY <1>4, <3>1, PlaceTyped
  <2>2. Understood(b) /\ Chosen(b)
    BY <1>3, <1>4, <2>1 DEF Understood, Chosen
  <2>3. Counted(b)
    BY <1>3, <1>4, <2>1 DEF Counted
  <2>4. Excused(b)
    BY <1>3, <1>4, <2>1 DEF Excused
  <2>5. Sound(b)
    BY <2>1, <2>2, <2>3, <2>4 DEF Sound
  <2>6. UNCHANGED vault
    BY DEF LoadTranscript, LoadRuns, Resumed
  <2> QED BY <1>2, <2>5, <2>6, AskMoves
<1>5. CASE LoadTranscript
  <2>1. a.at = "turns" /\ b = IF a.session \in readable THEN [a EXCEPT !.at = "runs"] ELSE [a EXCEPT !.at = "failed"]
    BY <1>1, <1>2, <1>5 DEF LoadTranscript, Fails
  <2> QED BY <1>4, <2>1
<1>6. CASE LoadRuns
  <2>1. /\ a.at = "runs"
        /\ b = IF ~(a.read.children \subseteq HeldTalks) THEN [a EXCEPT !.at = "failed"]
               ELSE IF a.again THEN [a EXCEPT !.at = "memories"] ELSE [a EXCEPT !.at = "framing"]
    BY <1>1, <1>2, <1>6 DEF LoadRuns, Fails
  <2>2. ~(a.read.children \subseteq HeldTalks) => a.lost \cap a.read.children # {}
    <3>1. a.read.children \subseteq HeldTalks \cup a.lost
      BY <1>3, <2>1 DEF Excused
    <3> QED BY <3>1
  <2>3. CASE ~(a.read.children \subseteq HeldTalks)
    BY <1>4, <2>1, <2>2, <2>3
  <2>4. CASE a.read.children \subseteq HeldTalks /\ a.again
    BY <1>4, <2>1, <2>4
  <2>5. CASE a.read.children \subseteq HeldTalks /\ ~a.again
    BY <1>4, <2>1, <2>5
  <2> QED BY <2>3, <2>4, <2>5
<1>7. CASE Resumed
  <2>1. a.at = "memories" /\ b = [a EXCEPT !.at = "resumed"]
    BY <1>1, <1>2, <1>7 DEF Resumed
  <2>2. a.again
    BY <1>3, <2>1 DEF Counted
  <2> QED BY <1>4, <2>1, <2>2
<1> QED BY <1>5, <1>6, <1>7

LEMMA FrameSound ==
  ASSUME ResumeInv, Frame
  PROVE  ResumeInv'
<1>1. PICK a \in AskRecord : a = ask /\ Sound(a) /\ a.at = "framing"
  BY DEF ResumeInv, Sound, Frame
<1>2. PICK b : b = ask'
  OBVIOUS
<1>3. Counted(a) /\ Chosen(a)
  BY <1>1 DEF Sound
<1>4. PICK h \in TalkHead : h = a.read
  BY DEF AskRecord
<1>5. PICK turns \in Nat, memories \in SUBSET Drawn : turns = h.turns /\ memories = h.memories
  BY DEF TalkHead
<1>6. PICK most \in Nat : most = a.want.turns
  BY DEF AskRecord, Want
<1>7. PICK replayed \in Int : replayed = IF turns > most THEN most ELSE turns
  OBVIOUS
<1>8. PICK skipped \in Int : skipped = turns - replayed
  OBVIOUS
<1>9. b = [a EXCEPT !.at = "load", !.again = TRUE, !.framed = h, !.left = memories,
                    !.replayed = replayed, !.skipped = skipped, !.stated = turns]
  BY <1>1, <1>2, <1>4, <1>5, <1>6, <1>7, <1>8 DEF Frame, TurnsOf
<1>10. /\ b \in AskRecord /\ b.at = "load" /\ b.shown = a.shown /\ b.kept = a.kept /\ b.session = a.session
       /\ b.picked = a.picked /\ b.read = h /\ b.again = TRUE /\ b.replayed = replayed
       /\ b.skipped = skipped /\ b.stated = turns
  <2>1. b \in AskRecord
    <3>1. PICK c : c = [a EXCEPT !.at = "load", !.again = TRUE, !.framed = h, !.left = memories]
      OBVIOUS
    <3>2. c \in AskRecord
      BY <3>1 DEF AskRecord, Places
    <3>3. PICK d : d = [c EXCEPT !.replayed = replayed, !.skipped = skipped, !.stated = turns]
      OBVIOUS
    <3>4. turns \in Int
      OBVIOUS
    <3>5. d \in AskRecord
      BY <3>2, <3>3, <3>4 DEF AskRecord
    <3>6. b = d
      BY <1>9, <3>1, <3>3
    <3> QED BY <3>5, <3>6
  <2>2. /\ b.at = "load" /\ b.shown = a.shown /\ b.kept = a.kept /\ b.session = a.session
        /\ b.picked = a.picked /\ b.read = a.read
    BY <1>9 DEF AskRecord
  <2>3. b.again = TRUE /\ b.replayed = replayed /\ b.skipped = skipped /\ b.stated = turns
    BY <1>9 DEF AskRecord
  <2> QED BY <1>4, <2>1, <2>2, <2>3
<1>11. replayed + skipped = turns /\ h.turns >= turns
  BY <1>5, <1>8
<1>12. Understood(b) /\ Chosen(b) /\ Excused(b)
  BY <1>1, <1>3, <1>10 DEF Understood, Chosen, Excused
<1>13. Counted(b)
  BY <1>1, <1>3, <1>4, <1>10, <1>11 DEF Counted
<1>14. Sound(b)
  BY <1>10, <1>12, <1>13 DEF Sound
<1> QED BY <1>2, <1>14, AskMoves DEF Frame

LEMMA EmbedSound ==
  ASSUME ResumeInv, NEW m \in Drawn, EmbedMemory(m)
  PROVE  ResumeInv'
<1>1. PICK a \in AskRecord : a = ask /\ Sound(a)
  BY DEF ResumeInv, Sound
<1>2. PICK b : b = ask'
  OBVIOUS
<1>3. b = [a EXCEPT !.left = @ \ {m}]
  BY <1>1, <1>2 DEF EmbedMemory, MemoryEmbedded
<1>4. /\ b \in AskRecord /\ b.at = a.at /\ b.words = a.words /\ b.want = a.want /\ b.shown = a.shown
      /\ b.total = a.total /\ b.kept = a.kept /\ b.session = a.session /\ b.picked = a.picked
      /\ b.read = a.read /\ b.again = a.again /\ b.replayed = a.replayed
      /\ b.skipped = a.skipped /\ b.stated = a.stated /\ b.lost = a.lost
  BY <1>3 DEF AskRecord
<1>5. Sound(b)
  BY <1>1, <1>4 DEF Sound, Understood, Chosen, Counted, Excused
<1> QED BY <1>2, <1>5, AskMoves DEF EmbedMemory

LEMMA ResumeStep ==
  ASSUME ResumeInv, [ResumeNext]_resumeVars
  PROVE  ResumeInv'
<1>1. ask \in AskRecord
  BY DEF ResumeInv, Sound
<1>2. CASE Settle
  <2>1. PICK b : b = ask' /\ b = Asleep
    BY <1>2 DEF Settle
  <2> QED BY <1>1, <1>2, <2>1, EndsSound, AskMoves DEF Settle
<1>3. CASE UNCHANGED resumeVars
  <2>1. PICK b : b = ask' /\ b = ask
    BY <1>3 DEF resumeVars
  <2>2. UNCHANGED vault /\ Sound(b)
    BY <1>3, <2>1 DEF resumeVars, vault, ResumeInv
  <2> QED BY <2>1, <2>2, AskMoves
<1>4. ASSUME \/ \E t \in Talk : \/ ForgetTurns(t) \/ Disown(t) \/ DropTalk(t)
                                \/ \E parent \in HeldTalks \cup {NoTalk} : SaveTalk(t, parent)
                                \/ \E away \in BOOLEAN : AppendTurn(t, away)
                                \/ \E m \in Drawn : DrawFrom(t, m)
             \/ \E m \in Drawn : ForgetDrawn(m)
      PROVE  ResumeInv'
  BY <1>4, OthersMeanwhile, MeanwhileKeepsSound
<1> QED BY <1>2, <1>3, <1>4, TypeSound, FindSound, ReadRowsSound, OfferSound, ChooseSound,
           LoadHeadSound, LoadRestSound, FrameSound, EmbedSound DEF ResumeNext

LEMMA ResumeInvariant == ResumeSpec => []ResumeInv
<1>1. ResumeInit => ResumeInv
  <2> SUFFICES ASSUME ResumeInit PROVE ResumeInv
    OBVIOUS
  <2>1. HeldTalks = {} /\ \A t \in Talk : talks[t] = NoTalkHead
    BY DEF ResumeInit, HeldTalks
  <2>2. talks \in [Talk -> TalkHead] /\ leaving \in [Talk -> {"no", "chunks gone", "disowned"}]
    BY NoTalkHeadType DEF ResumeInit
  <2>3. \A t \in Talk : talks[t].changed <= events
    <3>1. events = 0 /\ \A t \in Talk : talks[t].changed = 0
      BY <2>1, NoTalkHeadType DEF ResumeInit
    <3> QED BY <3>1
  <2>4. events \in Nat /\ IsFiniteSet(HeldTalks)
    BY <2>1, FS_EmptySet DEF ResumeInit
  <2>5. TalkTypes
    BY <2>1, <2>2, <2>3, <2>4 DEF TalkTypes
  <2>6. Family /\ ReadableHeld
    BY <2>1, NoTalkHeadType DEF ResumeInit, Family, ReadableHeld
  <2>7. Sound(ask)
    BY AsleepTyped, FreshIsSound DEF ResumeInit
  <2> QED BY <2>5, <2>6, <2>7 DEF ResumeInv, TalksInv
<1>2. ResumeInv /\ [ResumeNext]_resumeVars => ResumeInv'
  BY ResumeStep
<1> QED BY <1>1, <1>2, PTL DEF ResumeSpec

(***************************************************************************)
(* A conversation names as its runs only conversations that are held       *)
(* (vault/session.go), for any number of conversations and changes.        *)
(***************************************************************************)
THEOREM ResumeTypeCorrect == ResumeSpec => []ResumeTypeOK
<1>1. ResumeInv => ResumeTypeOK
  <2> SUFFICES ASSUME ResumeInv PROVE ResumeTypeOK
    OBVIOUS
  <2>1. PICK a \in AskRecord : a = ask
    BY DEF ResumeInv, Sound
  <2>2. \A t \in Talk : talks[t].children \subseteq HeldTalks /\ talks[t].changed \in 0..events
    <3>1. \A t \in Talk : talks[t].children \subseteq HeldTalks
      BY DEF ResumeInv, TalksInv, Family
    <3>2. ASSUME NEW t \in Talk PROVE talks[t].changed \in 0..events
      <4>1. talks[t].changed \in Nat /\ talks[t].changed <= events /\ events \in Nat
        BY TalksTyped DEF ResumeInv
      <4> QED BY <4>1
    <3> QED BY <3>1, <3>2
  <2>3. readable \subseteq HeldTalks
    BY DEF ResumeInv, TalksInv, ReadableHeld
  <2>4. a.session \in Talk \cup {NoTalk} /\ a.shown \in Seq(Talk)
    BY DEF AskRecord
  <2>5. Range(a.shown) \subseteq Talk
    BY <2>4 DEF Range
  <2> QED BY <2>1, <2>2, <2>3, <2>4, <2>5 DEF ResumeTypeOK
<1> QED BY <1>1, ResumeInvariant, PTL

(***************************************************************************)
(* The prompt resumes what the user meant: no word typed is dropped, a     *)
(* list is never longer than it is said to be, a choice stands however the *)
(* list has moved since, and the turns replayed and left out are all there *)
(* are (mcp/prompt.go), whatever is typed, for any number of conversations *)
(* and whatever is saved, archived and forgotten meanwhile.                *)
(***************************************************************************)
THEOREM ResumesAlwaysWhatWasMeant == ResumeSpec => []ResumesWhatWasMeant
<1>1. ResumeInv => ResumesWhatWasMeant
  <2> SUFFICES ASSUME ResumeInv PROVE ResumesWhatWasMeant
    OBVIOUS
  <2>1. Understood(ask) /\ Chosen(ask) /\ Counted(ask)
    BY DEF ResumeInv, Sound
  <2>2. NoWordDropped
    <3>1. \A i \in 1..3 : i = 1 \/ (i # 1 /\ i \in 2..3)
      OBVIOUS
    <3> QED BY <2>1, <3>1 DEF Understood, Heeded, NoWordDropped
  <2>3. ListCountsItself /\ ChoiceStands
    BY <2>1 DEF Chosen, ListCountsItself, ChoiceStands
  <2>4. ReplayAddsUp
    BY <2>1 DEF Counted, ReplayAddsUp
  <2> QED BY <2>2, <2>3, <2>4 DEF ResumesWhatWasMeant
<1> QED BY <1>1, ResumeInvariant, PTL

(***************************************************************************)
(* A resume fails only if the turns are gone or a run was forgotten while  *)
(* it read: a conversation names no run that is gone, because a forget     *)
(* takes the parent's edge before the head (disownChild of                 *)
(* vault/session.go), for any number of conversations.                     *)
(***************************************************************************)
THEOREM ResumeAlwaysFailsForCause == ResumeSpec => []ResumeFailsForCause
<1>1. ResumeInv => ResumeFailsForCause
  BY DEF ResumeInv, Sound, Excused, ResumeFailsForCause
<1> QED BY <1>1, ResumeInvariant, PTL
=============================================================================
