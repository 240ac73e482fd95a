------------------------------ MODULE Listing ------------------------------
(***************************************************************************)
(* Listing records page by page while they are written, replaced, restored *)
(* and forgotten (local/records.go, the rows of local/ranking.go,          *)
(* vault/browse.go and the browse tool of mcp/handlers.go).                *)
(*                                                                         *)
(* Rows are numbered as their ids are ordered.  One caller lists once, by  *)
(* one filter; the rows are everybody's.  The times rows are given are     *)
(* coarse, so that many rows may have the same.                            *)
(***************************************************************************)
EXTENDS Integers, Sequences, Functions, Orders

CONSTANTS
  RowIds,     (* the ids records may be given, numbers                     *)
  Filters,    (* what a caller may ask to see                              *)
  PageSizes,  (* page sizes a caller may ask for; 0 is no size             *)
  DefaultRecordLimit, MaxRecordLimit,
  MaxTime,    (* bound: how far the clock runs                             *)
  MaxChange   (* bound: how often rows are changed, dropped, flushed or restored *)

ASSUME ListingAssumption ==
  /\ RowIds \subseteq Nat \ {0} /\ PageSizes \subseteq Nat
  /\ DefaultRecordLimit \in 1..MaxRecordLimit /\ MaxRecordLimit \in Nat
  /\ MaxTime \in Nat /\ MaxChange \in Nat

VARIABLES
  recordRows,  (* record_meta: each record's row, or NoRow                      *)
  wanted,      (* the caller's filters, the same for every page                 *)
  place,       (* the cursor the last page came with, or NoPlace                *)
  answer,      (* the last page's hint, or where the work on it is              *)
  entry,       (* the catalog this process loaded: never, named or removed      *)
  tracked,     (* slab ledger: something was flushed or restored here           *)
  now,         (* the clock                                                     *)
  changes,     (* changes so far                                                *)
  given,       (* history: what each record was written to replace; -1 is none *)
  seen,        (* history: the rows listed since the listing was begun          *)
  steady,      (* history: rows the filters have selected ever since            *)
  restored     (* history: some process restored the vault to this device       *)

listingVars == <<recordRows, wanted, place, answer, entry, tracked, now, changes,
                 given, seen, steady, restored>>
aside == <<entry, tracked, restored>>

NoRow == [created |-> -1, tagged |-> FALSE, replaces |-> 0]
NoPlace == [created |-> -1, id |-> 0]
NotGiven == -1
Nothing == 0

Rows == {id \in RowIds : recordRows[id] # NoRow}
ReplacedRows == {recordRows[id].replaces : id \in Rows}

(* The rows the filters select: kinds, types and tags, and replacement. *)
Selected(filters) ==
  {id \in Rows : /\ filters.tagged => recordRows[id].tagged
                 /\ filters.superseded \/ id \notin ReplacedRows}

NoFilters == [tagged |-> FALSE, superseded |-> FALSE]

ListingInit ==
  /\ recordRows = [id \in RowIds |-> NoRow] /\ given = [id \in RowIds |-> NotGiven]
  /\ wanted \in Filters /\ place = NoPlace /\ answer = "none"
  /\ seen = <<>> /\ steady = {} /\ now = 0 /\ changes = 0
  /\ entry = [id \in RowIds |-> "never"] /\ tracked = FALSE /\ restored = FALSE

-----------------------------------------------------------------------------
(* Writing rows *)

Changes == changes < MaxChange /\ changes' = changes + 1

(* What the filters select after a write is selected ever since, or not. *)
RowsBecome(rows) ==
  /\ recordRows' = rows
  /\ steady' = {id \in steady : /\ rows[id] # NoRow
                                /\ wanted.tagged => rows[id].tagged
                                /\ wanted.superseded \/ \A other \in RowIds : rows[other].replaces # id}

(* Mutant: what a record replaces is not looked for. *)
AnyRow(old) == old \in RowIds

(* Remember refuses to replace what the device has no row for. *)
MayReplace(old) == old = Nothing \/ old \in Rows

PutRow(id, old, tagged) ==
  /\ given[id] = NotGiven /\ MayReplace(old)
  /\ given' = [given EXCEPT ![id] = old]
  /\ RowsBecome([recordRows EXCEPT ![id] = [created |-> now, tagged |-> tagged, replaces |-> old]])
  /\ UNCHANGED <<wanted, place, answer, now, changes, seen, aside>>

(* A conversation saved again: its row is changed and keeps its time. *)
PutRowAgain(id, tagged) ==
  /\ Changes /\ id \in Rows /\ given[id] = Nothing
  /\ RowsBecome([recordRows EXCEPT ![id].tagged = tagged])
  /\ UNCHANGED <<wanted, place, answer, now, given, seen, aside>>

(* ForgetRankingMeta, last of a forget by this process or another. *)
DropRow(id, elsewhere) ==
  /\ Changes /\ id \in Rows
  /\ RowsBecome([recordRows EXCEPT ![id] = NoRow])
  /\ entry' = [entry EXCEPT ![id] = IF @ = "named" /\ ~elsewhere THEN "removed" ELSE @]
  /\ UNCHANGED <<wanted, place, answer, tracked, now, given, seen, restored>>

(* A record is flushed: the ledger has its slab and the catalog names it. *)
FlushRow(id, elsewhere) ==
  /\ Changes /\ id \in Rows /\ entry[id] = "never"
  /\ tracked' = TRUE
  /\ entry' = [entry EXCEPT ![id] = IF elsewhere THEN @ ELSE "named"]
  /\ UNCHANGED <<recordRows, wanted, place, answer, now, given, seen, steady, restored>>

(* Mutant: what the record replaced is not restored with it. *)
RestoredAlone(id, tagged) == [created |-> now, tagged |-> tagged, replaces |-> Nothing]
RestoredRow(id, tagged) == [created |-> now, tagged |-> tagged, replaces |-> given[id]]

(***************************************************************************)
(* A process restores the vault, to the depth that writes this record's    *)
(* row, at the time of writing, or only to the depth of the catalog; every *)
(* depth writes the ledger.  Another process's catalog stays as it was.    *)
(***************************************************************************)
RestoreRow(id, tagged, elsewhere) ==
  /\ Changes /\ given[id] # NotGiven /\ id \notin Rows
  /\ tracked' = TRUE /\ restored' = TRUE
  /\ entry' = [entry EXCEPT ![id] = IF elsewhere THEN @ ELSE "named"]
  /\ \/ RowsBecome([recordRows EXCEPT ![id] = RestoredRow(id, tagged)])
     \/ UNCHANGED <<recordRows, steady>>
  /\ UNCHANGED <<wanted, place, answer, now, given, seen>>

Tick ==
  /\ now < MaxTime /\ now' = now + 1
  /\ UNCHANGED <<recordRows, wanted, place, answer, changes, given, seen, steady, aside>>

-----------------------------------------------------------------------------
(* ListRecords *)

(* Mutant: past a row are the rows of earlier times. *)
EarlierThan(id, from) == from = NoPlace \/ recordRows[id].created < from.created
(* Mutant: a page begins with the row the cursor names. *)
FromRow(id, from) ==
  \/ from = NoPlace \/ recordRows[id].created < from.created
  \/ recordRows[id].created = from.created /\ id >= from.id

(* Strictly past the row a cursor names: newest first, then by id. *)
Past(id, from) ==
  \/ from = NoPlace \/ recordRows[id].created < from.created
  \/ recordRows[id].created = from.created /\ id > from.id

Newest(a, b) == \/ recordRows[a].created > recordRows[b].created
                \/ recordRows[a].created = recordRows[b].created /\ a < b
Sorted(ids) == Arranged(ids, {p \in ids \X ids : Newest(p[1], p[2])})

RowLimit(size) == IF size = 0 THEN DefaultRecordLimit
                  ELSE IF size > MaxRecordLimit THEN MaxRecordLimit ELSE size

(* Mutant: the ledger is not asked. *)
RestorationOfCatalog ==
  IF \A id \in RowIds : entry[id] = "never" THEN "untouched"
  ELSE IF \E id \in RowIds \ Rows : entry[id] = "named" THEN "unrestored" ELSE "empty"

(* Restoration, by this process's catalog and the device's ledger. *)
Restoration ==
  IF ~tracked /\ \A id \in RowIds : entry[id] = "never" THEN "untouched"
  ELSE IF \E id \in RowIds \ Rows : entry[id] = "named" THEN "unrestored" ELSE "empty"

(* browseHint, of an empty page; past a cursor it has to look again. *)
EmptyHint(from) ==
  IF from # NoPlace THEN (IF wanted.superseded THEN "ended" ELSE "probing")
  ELSE IF wanted.tagged THEN "excluded" ELSE Restoration

(***************************************************************************)
(* Browse: one row more than the page is read, and only if it is there     *)
(* does the page come with a cursor, the last row's.                       *)
(***************************************************************************)
ListRows(size, from) ==
  LET all == Sorted({id \in Selected(wanted) : Past(id, from)})
      limit == RowLimit(size)
      more == Len(all) > limit
      out == SubSeq(all, 1, IF more THEN limit ELSE Len(all))
  IN
  /\ answer # "probing"
  /\ answer' = IF out = <<>> THEN EmptyHint(from) ELSE IF more THEN "more" ELSE "all"
  /\ place' = IF more THEN [created |-> recordRows[out[limit]].created, id |-> out[limit]]
              ELSE IF answer' = "probing" THEN from ELSE NoPlace
  /\ seen' = IF from = NoPlace THEN out ELSE seen \o out
  /\ steady' = IF from = NoPlace THEN Selected(wanted) ELSE steady
  /\ UNCHANGED <<recordRows, wanted, now, changes, given, aside>>

(* The probe: the same page again, with the replaced rows. *)
Probe ==
  /\ answer = "probing"
  /\ answer' = IF \E id \in Selected([wanted EXCEPT !.superseded = TRUE]) : Past(id, place)
               THEN "replaced" ELSE "ended"
  /\ place' = NoPlace
  /\ UNCHANGED <<recordRows, wanted, now, changes, given, seen, steady, aside>>

ListingNext ==
  \/ \E id \in RowIds, tagged \in BOOLEAN :
       \/ PutRowAgain(id, tagged)
       \/ \E old \in RowIds \cup {Nothing} : PutRow(id, old, tagged)
       \/ \E elsewhere \in BOOLEAN : RestoreRow(id, tagged, elsewhere)
  \/ \E id \in RowIds, elsewhere \in BOOLEAN : DropRow(id, elsewhere) \/ FlushRow(id, elsewhere)
  \/ \E size \in PageSizes :
       \/ place # NoPlace /\ ListRows(size, place)
       \/ answer = "none" /\ ListRows(size, NoPlace)
  \/ Probe \/ Tick

ListingSpec == ListingInit /\ [][ListingNext]_listingVars

-----------------------------------------------------------------------------

(***************************************************************************)
(* Every row is of a record that was written and has the time it was, and  *)
(* a cursor names a row's place.                                           *)
(***************************************************************************)
ListingTypeOK ==
  /\ \A id \in Rows : /\ given[id] # NotGiven /\ recordRows[id].created \in 0..now
                     /\ recordRows[id].replaces = given[id]
  /\ place = NoPlace \/ place \in [created : 0..now, id : RowIds]
  /\ Range(seen) \subseteq RowIds /\ steady \subseteq Rows

(***************************************************************************)
(* Whatever is written, restored or forgotten between two pages, a listing *)
(* shows no record twice.                                                  *)
(***************************************************************************)
NoRowTwice == \A i, j \in DOMAIN seen : seen[i] = seen[j] => i = j

(***************************************************************************)
(* A listing that has ended has shown every record that its filters        *)
(* selected all the while it was paged through.                            *)
(***************************************************************************)
NoneSkipped == place = NoPlace => steady \subseteq Range(seen)

(***************************************************************************)
(* Supersession cannot empty a first page: while the device has a row,     *)
(* there is one that nothing has replaced, whatever was forgotten or is    *)
(* not restored.                                                           *)
(***************************************************************************)
SomethingCurrent == Rows # {} => Selected(NoFilters) # {}

(***************************************************************************)
(* A device that was restored, by whichever process, is not said to have   *)
(* restored nothing.                                                       *)
(***************************************************************************)
NotCalledUntouched ==
  [][restored /\ answer' = "untouched" => answer = "untouched"]_listingVars

(***************************************************************************)
(* A listing tells what the device holds: everything once, and never       *)
(* nothing of a device that holds something.                               *)
(***************************************************************************)
ListedOnce == NoRowTwice /\ NoneSkipped /\ SomethingCurrent
=============================================================================
