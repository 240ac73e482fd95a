----------------------------- MODULE Transcript -----------------------------
(***************************************************************************)
(* What a conversation's chunks hold: how an append is checked and split   *)
(* (validateAppend of vault/session.go, record/chunk.go), how the whole is *)
(* read page by page (vault/session_load.go, the transcript address of     *)
(* mcp/resolve.go), and how a memory's span is found in it again           *)
(* (record/span.go).                                                       *)
(*                                                                         *)
(* One conversation: Sessions models how its head is written, here a save  *)
(* is one step.  A turn is its id, and sizes are small numbers.            *)
(***************************************************************************)
EXTENDS Integers, Sequences, SequencesExt

CONSTANTS
  Turn,        (* message ids, numbers                             *)
  Weight,      (* the size of each                                 *)
  Target,      (* ChunkTargetBytes                                 *)
  PageLimits,  (* how many turns a reader may ask for; 0 is all    *)
  MaxBatch,    (* bound: turns in one save                         *)
  MaxTurns     (* bound: turns in the conversation                 *)

ASSUME TranscriptAssumption ==
  /\ 0 \notin Turn /\ Weight \in [Turn -> Nat \ {0}] /\ Target \in Nat \ {0}
  /\ PageLimits \subseteq Nat /\ MaxBatch \in Nat /\ MaxTurns \in Nat

VARIABLES
  conversation,  (* Session.Chunks: the turns of each chunk                *)
  saves,         (* history: the batches that were saved, in order         *)
  reading,       (* a reader: its next From, 0 at the start, and its pages *)
  source         (* a memory's span, and the turns it was drawn from       *)

transcriptVars == <<conversation, saves, reading, source>>

NoTurn == 0
Flat(chunks) == FlattenSeq(chunks)
Total(batch) ==
  LET sum[i \in 0..Len(batch)] == IF i = 0 THEN 0 ELSE sum[i - 1] + Weight[batch[i]]
  IN sum[Len(batch)]
IndexOf(turns, m) == SelectInSeq(turns, LAMBDA x : x = m)
Unique == \A i, j \in DOMAIN Flat(conversation) :
            Flat(conversation)[i] = Flat(conversation)[j] => i = j

TranscriptInit ==
  /\ conversation = <<>> /\ saves = <<>>
  /\ reading = [from |-> NoTurn, got |-> <<>>, over |-> FALSE]
  /\ source = [first |-> NoTurn, last |-> NoTurn, turns |-> <<>>]

-----------------------------------------------------------------------------
(* Saving turns *)

(* Mutant: only the end of what is stored is compared. *)
LastEnd == {Last(conversation[Len(conversation)]) : i \in 1..Len(conversation)}

(* The turns at the two ends of every chunk, which the head names. *)
Ends == {conversation[i][1] : i \in 1..Len(conversation)}
        \cup {Last(conversation[i]) : i \in 1..Len(conversation)}

(* validateAppend: no turn twice in the batch, and none that is an end. *)
Valid(batch) ==
  /\ \A i, j \in DOMAIN batch : batch[i] = batch[j] => i = j
  /\ Range(batch) \cap Ends = {}

(* Nothing is split yet: no group ended, and none begun. *)
NoneSplit == [groups |-> <<>>, group |-> <<>>, size |-> 0]

(* Mutant: a group begun keeps the size of the one before it. *)
AddCounting(split, m) ==
  IF split.group # <<>> /\ split.size + Weight[m] > Target
  THEN [groups |-> Append(split.groups, split.group), group |-> <<m>>, size |-> split.size + Weight[m]]
  ELSE [split EXCEPT !.group = Append(@, m), !.size = @ + Weight[m]]

(* A group is ended by the turn that would not fit in it. *)
AddTurn(split, m) ==
  IF split.group # <<>> /\ split.size + Weight[m] > Target
  THEN [groups |-> Append(split.groups, split.group), group |-> <<m>>, size |-> Weight[m]]
  ELSE [split EXCEPT !.group = Append(@, m), !.size = @ + Weight[m]]

(* SplitMessages: turn after turn, and the last group if there is one. *)
SplitMessages(batch) ==
  LET split[i \in 0..Len(batch)] ==
        IF i = 0 THEN NoneSplit ELSE AddTurn(split[i - 1], batch[i])
      end == split[Len(batch)]
  IN IF end.group = <<>> THEN end.groups ELSE Append(end.groups, end.group)

(* SaveSession: the new turns, or a resend of turns already saved. *)
SaveTurns(batch) ==
  /\ Valid(batch) /\ Len(Flat(conversation)) + Len(batch) <= MaxTurns
  /\ conversation' = conversation \o SplitMessages(batch)
  /\ saves' = Append(saves, batch)
  /\ UNCHANGED <<reading, source>>

-----------------------------------------------------------------------------
(* Reading them *)

(* startChunk: the chunk that begins or ends with the turn, else the first. *)
StartChunk(from) ==
  LET at == SelectInSeq(conversation, LAMBDA chunk : chunk[1] = from \/ Last(chunk) = from)
  IN IF at = 0 THEN 1 ELSE at

(* The turns from one on: found walking the chunks from StartChunk. *)
TurnsFrom(from) ==
  LET walked == Flat(SubSeq(conversation, StartChunk(from), Len(conversation)))
  IN IF from = NoTurn THEN Flat(conversation) ELSE SubSeq(walked, IndexOf(walked, from), Len(walked))

(* Mutant: the next page begins at the last turn of this one. *)
NextAtLast(turns, limit) == turns[limit]

(* Mutant: the next page is named by its position. *)
NextPosition(turns, limit) == limit + 1

NextFrom(turns, limit) == turns[limit + 1]

(***************************************************************************)
(* One page: from the turn the last page named, no more than limit.  A     *)
(* turn the conversation does not hold is an error and changes nothing.    *)
(***************************************************************************)
ReadPage(limit) ==
  LET turns == TurnsFrom(reading.from)
      more == limit > 0 /\ Len(turns) > limit
      out == IF more THEN SubSeq(turns, 1, limit) ELSE turns
  IN
  /\ ~reading.over
  /\ reading' = [from |-> IF more THEN NextFrom(turns, limit) ELSE NoTurn,
                 got |-> reading.got \o out, over |-> ~more]
  /\ UNCHANGED <<conversation, saves, source>>

(* Mutant: the turns up to the last one. *)
SelectBefore(first, last, turns) ==
  LET from == IndexOf(turns, first) IN
  IF from = 0 THEN <<>> ELSE
    LET rest == SubSeq(turns, from, Len(turns))
        upTo == IndexOf(rest, last)
    IN SubSeq(rest, 1, IF upTo < 2 THEN 1 ELSE upTo - 1)

(* Span.Select: from the first turn to the last, or that turn alone. *)
Select(first, last, turns) ==
  LET from == IndexOf(turns, first) IN
  IF from = 0 THEN <<>> ELSE
    LET rest == SubSeq(turns, from, Len(turns))
        upTo == IndexOf(rest, last)
    IN SubSeq(rest, 1, IF upTo = 0 THEN 1 ELSE upTo)

(* A memory is drawn from a run of turns that are stored, and names its ends. *)
DrawMemory(i, j) ==
  /\ source.first = NoTurn
  /\ source' = [first |-> Flat(conversation)[i], last |-> Flat(conversation)[j],
                turns |-> SubSeq(Flat(conversation), i, j)]
  /\ UNCHANGED <<conversation, saves, reading>>

TranscriptNext ==
  \/ \E batch \in SeqOf(Turn, MaxBatch) : batch # <<>> /\ SaveTurns(batch)
  \/ \E limit \in PageLimits : ReadPage(limit)
  \/ \E i, j \in 1..Len(Flat(conversation)) : i <= j /\ DrawMemory(i, j)

TranscriptSpec == TranscriptInit /\ [][TranscriptNext]_transcriptVars

-----------------------------------------------------------------------------

(***************************************************************************)
(* Every chunk holds turns, and a reader that is not done holds a turn of  *)
(* the conversation to go on from.                                         *)
(***************************************************************************)
TranscriptTypeOK ==
  /\ \A i \in DOMAIN conversation : conversation[i] # <<>> /\ Range(conversation[i]) \subseteq Turn
  /\ reading.from \in Range(Flat(conversation)) \cup {NoTurn}
  /\ Flat(conversation) = Flat(saves)

(***************************************************************************)
(* A batch is split where the next turn would not fit and nowhere else: no *)
(* chunk is larger than the target unless it is one turn, and no chunk     *)
(* could have taken the first turn of the next one of the same save.       *)
(***************************************************************************)
SplitIsTight ==
  \A s \in DOMAIN saves :
    LET groups == SplitMessages(saves[s]) IN
    /\ Flat(groups) = saves[s]
    /\ \A g \in DOMAIN groups :
         /\ Len(groups[g]) > 1 => Total(groups[g]) <= Target
         /\ g < Len(groups) => Total(groups[g]) + Weight[groups[g + 1][1]] > Target

(***************************************************************************)
(* A caller that sends again what it has saved is refused: no batch is     *)
(* saved twice, nor one that begins or ends with a turn that another batch *)
(* began or ended with.                                                    *)
(***************************************************************************)
ResendIsRefused ==
  \A s, t \in DOMAIN saves :
    s < t => {saves[s][1], Last(saves[s])} \cap Range(saves[t]) = {}

(***************************************************************************)
(* Pages of any sizes, read while turns are appended, are the transcript   *)
(* from its beginning, each turn once and in order, and a reader told      *)
(* there is no more had all that some number of saves had written.  Turn   *)
(* ids are unique in a conversation; validateAppend says it does not prove *)
(* they are.                                                               *)
(***************************************************************************)
PagesAreTranscript ==
  Unique =>
    /\ reading.got = SubSeq(Flat(conversation), 1, Len(reading.got))
    /\ reading.from # NoTurn => Flat(conversation)[Len(reading.got) + 1] = reading.from
    /\ reading.over => \E n \in 0..Len(saves) : reading.got = Flat(SubSeq(saves, 1, n))

(***************************************************************************)
(* A memory's span is the turns it was drawn from, for as long as the      *)
(* conversation is kept and however it grows.                              *)
(***************************************************************************)
SpanIsStable ==
  Unique /\ source.first # NoTurn =>
    Select(source.first, source.last, Flat(conversation)) = source.turns

(***************************************************************************)
(* What was saved in batches, split into chunks and paged out again is the *)
(* conversation, turn for turn.                                            *)
(***************************************************************************)
TranscriptReadsBack == SplitIsTight /\ PagesAreTranscript /\ SpanIsStable
=============================================================================
