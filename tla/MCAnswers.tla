----------------------------- MODULE MCAnswers -----------------------------
(***************************************************************************)
(* What a caller is answered, for TLC: how a conversation is saved and     *)
(* extended by two calls of a host (Sessions), how its turns are cut into  *)
(* chunks and paged (Transcript), how a prompt resumes one (Resume), how   *)
(* records are listed page by page (Listing) and how a recall is ranked    *)
(* and paged (Ranking).  The modules share no variable, so a behaviour     *)
(* belongs to one of them, its scene, and the others stay where they       *)
(* started.                                                                *)
(***************************************************************************)
EXTENDS Sessions, Transcript, Listing, Resume, Ranking, TLC

CONSTANTS Scenes,        \* the scenes a run plays
          p1, c1, c2,    \* the host of the sessions scene and its calls
          q1, q2         \* the two queries of the ranking scene

VARIABLE scene

(* One host serves both calls. *)
OneHost == (c1 :> p1) @@ (c2 :> p1)

(* The last turn is longer than a chunk is to be. *)
LongLast == [m \in Turn |-> IF m = 4 THEN 4 ELSE 1]

(* With and without a tag asked for; replaced memories left out. *)
FewFilters == {[tagged |-> FALSE, superseded |-> FALSE], [tagged |-> TRUE, superseded |-> FALSE]}

(* What the catalog can say of a record: in scope or not, replaced, its tags. *)
Known(isDescribed, inside, replaced, tags, typed) ==
  [described |-> isDescribed, inside |-> inside, replaced |-> replaced, tags |-> tags,
   typed |-> typed]
FewStatuses ==
  {Known(TRUE, TRUE, FALSE, 0, FALSE), Known(TRUE, TRUE, FALSE, 1, FALSE),
   Known(TRUE, FALSE, FALSE, 2, TRUE), Known(TRUE, FALSE, TRUE, 2, FALSE),
   Known(FALSE, FALSE, FALSE, 0, FALSE)}
FewRequests ==
  {[scoped |-> TRUE, filtered |-> TRUE, includeSuperseded |-> FALSE],
   [scoped |-> FALSE, filtered |-> TRUE, includeSuperseded |-> FALSE],
   [scoped |-> FALSE, filtered |-> FALSE, includeSuperseded |-> TRUE]}
FewNear == {(q1 :> <<1, 2, 3>>) @@ (q2 :> <<3, 2, 1>>), (q1 :> <<>>) @@ (q2 :> <<2, 3>>)}
FewTerms == {<<>>, <<3, 1>>, <<2, 1, 2>>}

(* A ranking that is not played starts from one of its initial states. *)
RankingAtRest ==
  /\ near = (q1 :> <<>>) @@ (q2 :> <<2, 3>>)
  /\ terms = <<>>
  /\ status = [i \in Found |-> Known(FALSE, FALSE, FALSE, 0, FALSE)]
  /\ request = [scoped |-> FALSE, filtered |-> TRUE, includeSuperseded |-> FALSE]

AnswersInit ==
  /\ scene \in Scenes
  /\ Init /\ TranscriptInit /\ ListingInit /\ ResumeInit
  /\ RankingInit /\ (scene # "ranking" => RankingAtRest)
  /\ scene # "listing" => wanted.tagged

(* Only a listing that asks for tags tells tagged rows from others. *)
TagsWhereAsked == wanted.tagged \/ \A id \in RowIds : ~recordRows'[id].tagged

AnswersNext ==
  /\ UNCHANGED scene
  /\ \/ /\ scene = "sessions" /\ Next
        /\ UNCHANGED <<transcriptVars, listingVars, resumeVars, rankingVars>>
     \/ /\ scene = "transcript" /\ TranscriptNext
        /\ UNCHANGED <<vars, listingVars, resumeVars, rankingVars>>
     \/ /\ scene = "listing" /\ ListingNext /\ TagsWhereAsked
        /\ UNCHANGED <<vars, transcriptVars, resumeVars, rankingVars>>
     \/ /\ scene = "resume" /\ ResumeNext
        /\ UNCHANGED <<vars, transcriptVars, listingVars, rankingVars>>
     \/ /\ scene = "ranking" /\ RankingNext
        /\ UNCHANGED <<vars, transcriptVars, listingVars, resumeVars>>

AnswersSpec ==
  AnswersInit
    /\ [][AnswersNext]_<<scene, vars, transcriptVars, listingVars, resumeVars, rankingVars>>

Symmetry == Permutations(Call)

(* The type invariants of the modules whose code the scenes play. *)
TypesOK == TypeOK /\ TranscriptTypeOK /\ ListingTypeOK /\ ResumeTypeOK /\ RankingTypeOK
=============================================================================
