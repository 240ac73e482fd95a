------------------------------ MODULE Ranking ------------------------------
(***************************************************************************)
(* How a recall orders what its two passes found, and how a caller pages   *)
(* through the order (recall/pipeline.go, recall/fuse.go, recall/filter.go *)
(* and the recall tool of mcp/handlers.go and mcp/render.go).              *)
(*                                                                         *)
(* Records are numbers, ordered as their ids are.  The code's scores are   *)
(* floats; here they are whole numbers, Scale times as large.  The vault   *)
(* does not change while it is paged through.                              *)
(***************************************************************************)
EXTENDS Integers, Sequences, SequencesExt, Orders

CONSTANTS
  Asking,       (* queries, each with its own order by meaning              *)
  NoQuery,      (* the query of a cursor nobody holds                       *)
  NearOrders,   (* what order the vector pass may give each query           *)
  TermOrders,   (* the answers of the term pass                             *)
  Found,        (* records                                                  *)
  Statuses,     (* what the catalog may know of a record                    *)
  Requests,     (* the scopes, filters and flags a caller may send          *)
  Limits,       (* page sizes a caller may ask for; 0 is no size            *)
  DefaultLimit, MaxLimit, DefaultCandidates

ASSUME RankingAssumption ==
  /\ NoQuery \notin Asking /\ Limits \subseteq Nat /\ Found \subseteq Nat
  /\ DefaultLimit \in 1..MaxLimit /\ MaxLimit \in 1..DefaultCandidates /\ DefaultCandidates \in Nat
  /\ \A order \in NearOrders : \A q \in Asking : order[q] \in Seq(Found) /\ IsInjective(order[q])
  /\ TermOrders \subseteq Seq(Found)
  /\ Statuses \subseteq [described : BOOLEAN, inside : BOOLEAN, replaced : BOOLEAN,
                         tags : 0..2, typed : BOOLEAN]
  /\ Requests \subseteq [scoped : BOOLEAN, filtered : BOOLEAN, includeSuperseded : BOOLEAN]

RRFk == 60
Scale == 1000000
DefaultLexicalWeight == 30000      (* 0.03    *)
TagWeight == 2000                  (* 0.002   *)
TypeWeight == 670                  (* 0.00067 *)

VARIABLES
  near,      (* the order by meaning of every vector, for each query       *)
  terms,     (* the records the term pass returns, best first              *)
  status,    (* what the catalog knows of each record                      *)
  request,   (* scope, filter and flags, the same for every page           *)
  cursor,    (* the cursor the last page came with                         *)
  shown,     (* the records shown since a query was last begun             *)
  deepest,   (* how far into the ranking the caller has asked              *)
  page       (* the last answer: query, offset, results and hint           *)

rankingVars == <<near, terms, status, request, cursor, shown, deepest, page>>

NoCursor == [query |-> NoQuery, offset |-> 0]
NoPage == [offset |-> 0, results |-> <<>>, hint |-> "none", last |-> FALSE, query |-> NoQuery]
Atmost(s, n) == SubSeq(s, 1, IF n < Len(s) THEN n ELSE Len(s))

RankingInit ==
  /\ near \in NearOrders
  /\ terms \in TermOrders
  /\ status \in [Found -> Statuses]
  /\ request \in Requests
  /\ cursor = NoCursor /\ page = NoPage /\ deepest = 0
  /\ shown = <<>>

-----------------------------------------------------------------------------
(* fuse *)

(* The vector pass's candidates: a score by position. *)
ByMeaning(s) == [i \in 1..Len(s) |-> [id |-> s[i], score |-> Scale \div (RRFk + i), lexical |-> 0]]

(* Where a record is among the candidates; 0 if it is not. *)
FusedAt(fused, id) == SelectInSeq(fused, LAMBDA c : c.id = id)

(* What the term pass adds for a record at a rank. *)
LexicalPart(rank) == DefaultLexicalWeight \div (RRFk + rank)

(* Mutant: a record the term pass returned twice counts twice. *)
AddTermTwice(fused, id, rank) ==
  LET at == FusedAt(fused, id)
      part == LexicalPart(rank)
  IN IF at = 0 THEN Append(fused, [id |-> id, score |-> part, lexical |-> part])
     ELSE [fused EXCEPT ![at] = [id |-> id, score |-> @.score + part, lexical |-> part]]

(***************************************************************************)
(* One record of the term pass: a candidate of the vector pass gains its   *)
(* part, once; any other becomes a candidate.                              *)
(***************************************************************************)
AddTerm(fused, id, rank) ==
  LET at == FusedAt(fused, id)
      part == LexicalPart(rank)
  IN IF at = 0 THEN Append(fused, [id |-> id, score |-> part, lexical |-> part])
     ELSE IF fused[at].lexical > 0 THEN fused
     ELSE [fused EXCEPT ![at] = [id |-> id, score |-> @.score + part, lexical |-> part]]

Fuse(s, t) ==
  LET fold[i \in 0..Len(t)] == IF i = 0 THEN ByMeaning(s) ELSE AddTerm(fold[i - 1], t[i], i)
  IN fold[Len(t)]

-----------------------------------------------------------------------------
(* rank *)

(* Filter.boost: the share of the wanted tags it carries, and its type. *)
Boost(id) ==
  LET known == status[id] IN
  IF request.filtered /\ known.described
  THEN (TagWeight * known.tags) \div 2 + (IF known.typed THEN TypeWeight ELSE 0)
  ELSE 0

Replaced(id) == ~request.includeSuperseded /\ status[id].replaced
InScope(id) == status[id].described /\ status[id].inside

OutOfScope(fused) == {c \in Range(fused) : ~Replaced(c.id) /\ request.scoped /\ ~InScope(c.id)}

(* Mutant: what the filter does not match is left out. *)
OnlyMatching(fused) ==
  {c \in Range(fused) : /\ ~Replaced(c.id) /\ (request.scoped => InScope(c.id))
                        /\ request.filtered => Boost(c.id) > 0}

Scored(fused) == {c \in Range(fused) : ~Replaced(c.id) /\ (request.scoped => InScope(c.id))}

(* By score with the boost, ties by id. *)
Outranks(c, d) ==
  LET Score(e) == e.score + Boost(e.id)
  IN Score(c) > Score(d) \/ (Score(c) = Score(d) /\ c.id < d.id)

InOrder(fused) ==
  Arranged(Scored(fused), {p \in Scored(fused) \X Scored(fused) : Outranks(p[1], p[2])})

(* The ids of the first k. *)
Rank(fused, k) ==
  LET order == InOrder(fused) IN Atmost([i \in 1..Len(order) |-> order[i].id], k)

-----------------------------------------------------------------------------
(* The recall tool *)

(* Mutant: only as many candidates as the answer has. *)
PoolOfAnswer(want) == want

CandidatePool(want) == IF want > DefaultCandidates THEN want ELSE DefaultCandidates

Candidates(q, want) ==
  Fuse(Atmost(near[q], CandidatePool(want)), Atmost(terms, CandidatePool(want)))

(* Mutant: the caller has whatever it asks for. *)
UncappedSize(limit) == IF limit = 0 THEN DefaultLimit ELSE limit

PageSize(limit) ==
  IF limit = 0 THEN DefaultLimit ELSE IF limit > MaxLimit THEN MaxLimit ELSE limit

(* decodeRankCursor: no cursor, or one of this query. *)
CursorFits(q, c) == c = NoCursor \/ c.query = q

(* Mutant: there is more only when more came back than was asked for. *)
MoreThanAsked(results, hits, offset, limit) == Len(hits) > offset + limit

HasMore(results, hits, offset, limit) == Len(results) = limit /\ Len(hits) = offset + limit

(* recallHint. *)
Hint(q, results, fused) ==
  IF OutOfScope(fused) # {} THEN "scope"
  ELSE IF results # <<>> THEN "none"
  ELSE IF near[q] = <<>> THEN "nothing searchable"
  ELSE IF \E i \in DOMAIN fused : Replaced(fused[i].id) THEN "replaced"
  ELSE "not held"

(* recall, for a query and the cursor of the last page or none. *)
RecallPage(q, asked, c) ==
  LET limit == PageSize(asked)
      want == c.offset + limit
      fused == Candidates(q, want)
      hits == Rank(fused, want)
      results == SubSeq(hits, c.offset + 1, Len(hits))
      more == HasMore(results, hits, c.offset, limit)
  IN
  /\ CursorFits(q, c)
  /\ cursor' = IF more THEN [query |-> q, offset |-> want] ELSE NoCursor
  /\ page' = [query |-> q, offset |-> c.offset, results |-> results, last |-> ~more,
              hint |-> Hint(q, results, fused)]
  /\ shown' = IF c = NoCursor THEN results ELSE shown \o results
  /\ deepest' = IF c = NoCursor \/ want > deepest THEN want ELSE deepest
  /\ UNCHANGED <<near, terms, status, request>>

RankingNext ==
  \E q \in Asking, asked \in Limits, c \in {NoCursor, cursor} : RecallPage(q, asked, c)

RankingSpec == RankingInit /\ [][RankingNext]_rankingVars

-----------------------------------------------------------------------------

(***************************************************************************)
(* A page is no longer than asked for, and its records are candidates.     *)
(***************************************************************************)
RankingTypeOK ==
  /\ cursor.query \in Asking \cup {NoQuery} /\ cursor.offset \in Nat
  /\ Len(page.results) <= MaxLimit
  /\ Range(page.results) \subseteq Found

(* What a pass of some weight gives a record for its first place in it. *)
Part(s, id, weight) ==
  IF id \notin Range(s) THEN 0 ELSE weight \div (RRFk + SelectInSeq(s, LAMBDA x : x = id))

(***************************************************************************)
(* fuse loses and repeats no record, and what a record scores depends on   *)
(* its best position in each pass alone, whatever order they came in and   *)
(* however often the term pass returned one.                               *)
(***************************************************************************)
FuseMeetsReference ==
  page.query # NoQuery =>
    LET q == page.query
        fused == Fuse(near[q], terms)
    IN /\ {fused[i].id : i \in DOMAIN fused} = Range(near[q]) \cup Range(terms)
       /\ \A i, j \in DOMAIN fused : fused[i].id = fused[j].id => i = j
       /\ \A i \in DOMAIN fused :
            fused[i].score = Part(near[q], fused[i].id, Scale)
                             + Part(terms, fused[i].id, DefaultLexicalWeight)

(***************************************************************************)
(* A filter costs order and never an answer: as many records come back as  *)
(* were asked for, or as are current and in scope if these are fewer.      *)
(***************************************************************************)
FilterRemovesNothing ==
  page.query # NoQuery => \A k \in 1..MaxLimit :
    LET fused == Candidates(page.query, k)
        fit == {id \in {fused[i].id : i \in DOMAIN fused} :
                  ~Replaced(id) /\ (request.scoped => InScope(id))}
    IN Len(Rank(fused, k)) = IF k < Cardinality(fit) THEN k ELSE Cardinality(fit)

(* All a query's candidates in order, from a pool of the default depth. *)
Whole(q) == Rank(Candidates(q, 1), Len(near[q]) + Len(terms))

(***************************************************************************)
(* Whether every page up to a depth is cut from the same candidates: the   *)
(* pool has the default depth, or no pass finds more than that.            *)
(***************************************************************************)
OnePool(q, depth) ==
  depth <= DefaultCandidates \/ (Len(near[q]) <= DefaultCandidates /\ Len(terms) <= DefaultCandidates)

(***************************************************************************)
(* Pages of any sizes agree on one order, while they are cut from the same *)
(* candidates: one after another they are the ranking, no record repeated  *)
(* or left out.                                                            *)
(***************************************************************************)
PagesAgree ==
  page = NoPage \/ (OnePool(page.query, deepest) => shown = Atmost(Whole(page.query), Len(shown)))

(***************************************************************************)
(* A page without a cursor is the last: nothing either pass found was left *)
(* unshown.                                                                *)
(***************************************************************************)
LastIsLast ==
  page.last /\ OnePool(page.query, deepest) => shown = Whole(page.query)

(***************************************************************************)
(* What mcp/handlers.go:189 says of a cursor, "The ranking is              *)
(* deterministic [...] so two pages of one unchanged vault agree": no      *)
(* record is on two pages of one query.  candidatePool breaks it: a page   *)
(* past DefaultCandidates is cut from a deeper pool, in which a record     *)
(* gains the part of a pass that had not reached it and outranks others    *)
(* already shown.                                                          *)
(***************************************************************************)
NoneShownTwice == IsInjective(shown)

(***************************************************************************)
(* A caller is told "The vault does not hold this" only if neither pass    *)
(* found anything (recallHint, which is to name what emptied an answer).   *)
(* A last page that came back full has a cursor, and the empty page after  *)
(* it says so of a query whose answers have just been shown.               *)
(***************************************************************************)
NotHeldIsSo == page.hint = "not held" => Candidates(page.query, 1) = <<>>

(***************************************************************************)
(* fuse and rank meet their reference: the scores are those of the best    *)
(* positions, and a filter keeps as many answers as there are.             *)
(***************************************************************************)
RankMeetsReference == FuseMeetsReference /\ FilterRemovesNothing

(***************************************************************************)
(* Pages tell the ranking, in order and to its end.                        *)
(***************************************************************************)
PagesTellRanking == PagesAgree /\ LastIsLast
=============================================================================
