------------------------------- MODULE Resume -------------------------------
(***************************************************************************)
(* The resume prompt (mcp/prompt.go): how the words after the command are  *)
(* read, how a conversation is found or chosen from a list, and how it is  *)
(* read back (LoadSession of vault/session_load.go, Resolve of             *)
(* mcp/resolve.go) while others append to conversations, archive and       *)
(* forget them (ListSessions and CountMatchingSessions of                  *)
(* local/sessions.go).                                                     *)
(*                                                                         *)
(* A save and an edge onto a head are one step here: Sessions takes them   *)
(* apart.  A forget is three, because a resume can read between them.      *)
(* Conversations are numbered as their ids are ordered.                    *)
(***************************************************************************)
EXTENDS Integers, Sequences, Functions, Orders

CONSTANTS
  Talk,           (* conversation ids, numbers                              *)
  Drawn,          (* memories drawn from conversations                      *)
  ResumeChoices,  (* how many conversations a list offers                   *)
  ResumeTurns,    (* how many turns are replayed unless a count is typed    *)
  MaxResumeTurns, (* the most that are                                      *)
  Numbers,        (* numbers a user may type                                *)
  MaxEvent        (* bound: changes to conversations                        *)

ASSUME ResumeAssumption ==
  /\ Talk \subseteq Nat \ {0} /\ ResumeChoices \in Nat \ {0} /\ Numbers \subseteq Nat
  /\ ResumeTurns \in 1..MaxResumeTurns /\ MaxResumeTurns \in Nat /\ MaxEvent \in Nat

VARIABLES
  talks,      (* the head of each conversation                              *)
  readable,   (* conversations whose chunks can all be read                 *)
  leaving,    (* how far a forget of each is                                *)
  drawnHeld,  (* memories the vault holds                                   *)
  events,     (* changes so far, which is what the clock reads              *)
  ask         (* the prompt under way                                       *)

resumeVars == <<talks, readable, leaving, drawnHeld, events, ask>>
vault == <<talks, readable, leaving, drawnHeld, events>>

NoTalk == 0
NoTalkHead == [turns |-> 0, changed |-> 0, archived |-> FALSE, memories |-> {},
               children |-> {}, parent |-> NoTalk]
HeldTalks == {t \in Talk : talks[t] # NoTalkHead}

NoWord == [kind |-> "none", talk |-> NoTalk, n |-> 0]
Silence == <<NoWord, NoWord, NoWord>>
NoWant == [ok |-> FALSE, session |-> NoTalk, recent |-> FALSE, topic |-> {}, turns |-> 0]
Asleep == [at |-> "idle", words |-> Silence, want |-> NoWant,
           shown |-> <<>>, total |-> 0, kept |-> FALSE, session |-> NoTalk, picked |-> FALSE,
           read |-> NoTalkHead, framed |-> NoTalkHead, again |-> FALSE, left |-> {},
           replayed |-> 0, skipped |-> 0, stated |-> 0, lost |-> {}]

ResumeInit ==
  /\ talks = [t \in Talk |-> NoTalkHead]
  /\ readable = {} /\ leaving = [t \in Talk |-> "no"]
  /\ drawnHeld = {} /\ events = 0 /\ ask = Asleep

-----------------------------------------------------------------------------
(* What other calls do to conversations *)

Happens == events < MaxEvent /\ events' = events + 1

(* A head written again: a forget that read it before will not delete it. *)
Rewrite(t, h) == /\ talks' = [talks EXCEPT ![t] = [h EXCEPT !.changed = events + 1]]
                 /\ leaving' = [leaving EXCEPT ![t] = "no"]

(* SaveSession of a conversation under an id nobody has typed; its parent adopts it. *)
SaveTalk(t, parent) ==
  LET new == [NoTalkHead EXCEPT !.turns = 1, !.changed = events + 1, !.parent = parent] IN
  /\ t \notin HeldTalks /\ leaving[t] = "no" /\ t \notin {ask.session, ask.want.session}
  /\ Happens
  /\ talks' = [u \in Talk |->
       IF u = t THEN new
       ELSE IF u = parent THEN [talks[u] EXCEPT !.children = @ \cup {t}, !.changed = events + 1]
       ELSE talks[u]]
  /\ readable' = readable \cup {t}
  /\ leaving' = [u \in Talk |-> IF u = parent THEN "no" ELSE leaving[u]]
  /\ UNCHANGED <<drawnHeld, ask>>

(* SaveSession of turns, which may also put the conversation away. *)
AppendTurn(t, away) ==
  /\ t \in HeldTalks /\ Happens
  /\ Rewrite(t, [talks[t] EXCEPT !.turns = @ + 1, !.archived = away])
  /\ UNCHANGED <<readable, drawnHeld, ask>>

(* Remember of a memory drawn from t, and LinkMemory. *)
DrawFrom(t, m) ==
  /\ t \in HeldTalks /\ Happens /\ m \notin drawnHeld
  /\ \A u \in Talk : m \notin talks[u].memories
  /\ drawnHeld' = drawnHeld \cup {m}
  /\ Rewrite(t, [talks[t] EXCEPT !.memories = @ \cup {m}])
  /\ UNCHANGED <<readable, ask>>

ForgetDrawn(m) ==
  /\ m \in drawnHeld /\ Happens
  /\ drawnHeld' = drawnHeld \ {m}
  /\ UNCHANGED <<talks, readable, leaving, ask>>

(* ForgetSession: the chunks go first. *)
ForgetTurns(t) ==
  /\ t \in HeldTalks /\ leaving[t] = "no" /\ Happens
  /\ readable' = readable \ {t}
  /\ leaving' = [leaving EXCEPT ![t] = "chunks gone"]
  /\ UNCHANGED <<talks, drawnHeld, ask>>

(* disownChild: the parent's edge goes before the head it leads to. *)
Disown(t) ==
  LET parent == talks[t].parent IN
  /\ leaving[t] = "chunks gone"
  /\ IF parent \in HeldTalks /\ t \in talks[parent].children
     THEN /\ talks' = [talks EXCEPT ![parent].children = @ \ {t}, ![parent].changed = events]
          /\ leaving' = [leaving EXCEPT ![t] = "disowned", ![parent] = "no"]
     ELSE talks' = talks /\ leaving' = [leaving EXCEPT ![t] = "disowned"]
  /\ UNCHANGED <<readable, drawnHeld, events, ask>>

(* Mutant: the head may go while the parent still names it. *)
EdgeMayStay(t) == leaving[t] # "no"

HeadMayGo(t) == leaving[t] = "disowned"

DropTalk(t) ==
  /\ HeadMayGo(t)
  /\ talks' = [talks EXCEPT ![t] = NoTalkHead]
  /\ ask' = IF ask.at = "idle" THEN ask ELSE [ask EXCEPT !.lost = @ \cup {t}]
  /\ UNCHANGED <<readable, leaving, drawnHeld, events>>

-----------------------------------------------------------------------------
(* readResume *)

Count(w) == IF w.n \in 1..MaxResumeTurns THEN w.n ELSE 0

(* Mutant: what follows a conversation named exactly and is no count is dropped. *)
CountOrNothing(want, word, next) ==
  IF word.kind = "number" /\ Count(word) > 0 THEN [want EXCEPT !.turns = Count(word)] ELSE want

(* countAfter: only a count can follow a conversation named exactly. *)
CountAfter(want, word, next) ==
  IF word.kind = "number" /\ Count(word) > 0 /\ next = NoWord
  THEN [want EXCEPT !.turns = Count(word)] ELSE NoWant

(***************************************************************************)
(* An address or an id is an exact name, and "recent" also names one       *)
(* conversation; any other first word starts a topic, whose words are      *)
(* given by their positions.  A number in the last place is the count.     *)
(***************************************************************************)
ReadResume(w) ==
  LET exact == w[1].kind = "exact"
      named == exact \/ w[1].kind = "recent"
      want == [ok |-> TRUE, recent |-> w[1].kind = "recent", turns |-> ResumeTurns,
               session |-> IF exact THEN w[1].talk ELSE NoTalk,
               topic |-> IF named THEN {} ELSE {i \in 1..2 : w[i] # NoWord}]
  IN
  IF w[1].kind = "malformed" THEN NoWant
  ELSE IF named /\ w[2] # NoWord THEN CountAfter(want, w[2], w[3])
  ELSE IF w[3] = NoWord THEN want
  ELSE IF w[3].kind = "number" THEN CountAfter(want, w[3], NoWord)
  ELSE IF ~named /\ w[1] # NoWord THEN [want EXCEPT !.topic = @ \cup {3}]
  ELSE NoWant

NamesNothing(want) == want.session = NoTalk /\ ~want.recent /\ want.topic = {}

Plain == {NoWord, [NoWord EXCEPT !.kind = "word"]}
         \cup {[NoWord EXCEPT !.kind = "number", !.n = n] : n \in Numbers}
FirstWords == Plain \cup {[NoWord EXCEPT !.kind = k] : k \in {"malformed", "recent"}}
                    \cup {[NoWord EXCEPT !.kind = "exact", !.talk = t] : t \in Talk}

(* A user runs the command. *)
Type(first, second, third) ==
  /\ ask.at = "idle"
  /\ ask' = [Asleep EXCEPT !.at = "typed", !.words = <<first, second, third>>,
                           !.want = ReadResume(<<first, second, third>>)]
  /\ UNCHANGED vault

-----------------------------------------------------------------------------
(* Finding the conversation *)

(* ListSessions: not the archived, the last changed first, ties by id. *)
Newer(t, u) == \/ talks[t].changed > talks[u].changed
               \/ talks[t].changed = talks[u].changed /\ t < u
Open == {t \in HeldTalks : ~talks[t].archived}
Listed == Arranged(Open, {p \in Open \X Open : Newer(p[1], p[2])})
FirstOf(s, n) == SubSeq(s, 1, IF Len(s) < n THEN Len(s) ELSE n)

Heard == [Asleep EXCEPT !.want.turns = ask.want.turns]
Resumes(t) == [Heard EXCEPT !.at = "load", !.session = t]
EndsAs(how) == [Heard EXCEPT !.at = how]
Fails == [ask EXCEPT !.at = "failed"]

(* findSession, or nothing was named and the list is next. *)
FindSession ==
  /\ ask.at = "typed"
  /\ LET want == ask.want IN
     \/ ~want.ok /\ ask' = EndsAs("refused")
     \/ want.ok /\ NamesNothing(want) /\ ask' = EndsAs("list")
     \/ want.session # NoTalk /\ ask' = Resumes(want.session)
     \/ want.recent /\ ask' = IF Listed = <<>> THEN EndsAs("none") ELSE Resumes(Listed[1])
     \/ want.topic # {} /\ IF HeldTalks = {} THEN ask' = EndsAs("none")
                           ELSE \E t \in HeldTalks : ask' = Resumes(t)
  /\ UNCHANGED vault

(* offerRecent: the rows, and then how many there are in all. *)
ReadRows ==
  /\ ask.at = "list"
  /\ ask' = IF Listed = <<>> THEN EndsAs("none")
            ELSE [ask EXCEPT !.at = "count", !.shown = FirstOf(Listed, ResumeChoices)]
  /\ UNCHANGED vault

(* Mutant: the count as it was read. *)
CountRead(rows) == Len(Listed)

OfferTotal(rows) == IF Len(Listed) > Len(rows) THEN Len(Listed) ELSE Len(rows)

(* canAsk: a dialog, or for a client that shows no forms a list to read. *)
Offer(form) ==
  /\ ask.at = "count"
  /\ ask' = [ask EXCEPT !.at = IF form THEN "dialog" ELSE "listed", !.total = OfferTotal(ask.shown)]
  /\ UNCHANGED vault

(* Mutant: the answer is checked against the list as it is now. *)
OfferedNow(kept) == Range(FirstOf(Listed, ResumeChoices))

(* What was offered came back with the answer; a client may have dropped it. *)
Offered(kept) == IF kept THEN Range(ask.shown) ELSE Range(FirstOf(Listed, ResumeChoices))

(* chosen: the dialog was closed, or comes back with some conversation. *)
Choose(t, kept) ==
  /\ ask.at = "dialog"
  /\ LET answered == [ask EXCEPT !.kept = kept, !.session = t, !.picked = TRUE] IN
     ask' = IF t = NoTalk THEN EndsAs("declined")
            ELSE IF ~kept /\ Listed = <<>> THEN EndsAs("none")
            ELSE IF t \in Offered(kept) THEN [answered EXCEPT !.at = "load"]
            ELSE [answered EXCEPT !.at = "not offered"]
  /\ UNCHANGED vault

-----------------------------------------------------------------------------
(* Reading it back *)

(* LoadSession reads the head, for the transcript or to embed the head. *)
LoadHead ==
  /\ ask.at = "load"
  /\ ask' = IF ask.session \in HeldTalks
            THEN [ask EXCEPT !.read = talks[ask.session], !.at = IF ask.again THEN "runs" ELSE "turns"]
            ELSE Fails
  /\ UNCHANGED vault

(* transcript: every chunk the head names. *)
LoadTranscript ==
  /\ ask.at = "turns"
  /\ ask' = IF ask.session \in readable THEN [ask EXCEPT !.at = "runs"] ELSE Fails
  /\ UNCHANGED vault

(* The heads of the runs it delegated, and again for the embedded head. *)
LoadRuns ==
  /\ ask.at = "runs"
  /\ ask' = IF ~(ask.read.children \subseteq HeldTalks) THEN Fails
            ELSE IF ask.again THEN [ask EXCEPT !.at = "memories"]
            ELSE [ask EXCEPT !.at = "framing"]
  /\ UNCHANGED vault

(* Mutant: the turns are counted in the head read last. *)
CountedLater(framed) == talks[ask.session].turns

TurnsOf(framed) == framed.turns

(* resumeFraming: how many turns there are, follow, and were left out. *)
Frame ==
  LET turns == ask.read.turns
      replayed == IF turns > ask.want.turns THEN ask.want.turns ELSE turns
  IN
  /\ ask.at = "framing"
  /\ ask' = [ask EXCEPT !.at = "load", !.again = TRUE, !.framed = ask.read,
                        !.left = ask.read.memories, !.replayed = replayed,
                        !.skipped = turns - replayed, !.stated = TurnsOf(ask.read)]
  /\ UNCHANGED vault

(* Mutant: a memory that is gone fails the resume. *)
MemoryNeeded(m) == IF m \in drawnHeld THEN [ask EXCEPT !.left = @ \ {m}] ELSE Fails

(* A memory forgotten since the head named it is left out. *)
MemoryEmbedded(m) == [ask EXCEPT !.left = @ \ {m}]

EmbedMemory(m) ==
  /\ ask.at = "memories" /\ m \in ask.left
  /\ ask' = MemoryEmbedded(m)
  /\ UNCHANGED vault

Resumed ==
  /\ ask.at = "memories" /\ ask.left = {}
  /\ ask' = [ask EXCEPT !.at = "resumed"]
  /\ UNCHANGED vault

(* The prompt has returned. *)
Settle ==
  /\ ask.at \in {"refused", "none", "listed", "declined", "not offered", "failed", "resumed"}
  /\ ask' = Asleep
  /\ UNCHANGED vault

ResumeNext ==
  \/ \E t \in Talk : \/ ForgetTurns(t) \/ Disown(t) \/ DropTalk(t)
                     \/ \E parent \in HeldTalks \cup {NoTalk} : SaveTalk(t, parent)
                     \/ \E away \in BOOLEAN : AppendTurn(t, away)
                     \/ \E m \in Drawn : DrawFrom(t, m)
  \/ \E m \in Drawn : ForgetDrawn(m) \/ EmbedMemory(m)
  \/ \E first \in FirstWords, second, third \in Plain : Type(first, second, third)
  \/ \E t \in Talk \cup {NoTalk}, kept \in BOOLEAN : Choose(t, kept)
  \/ \E form \in BOOLEAN : Offer(form)
  \/ FindSession \/ ReadRows \/ LoadHead \/ LoadTranscript \/ LoadRuns
  \/ Frame \/ Resumed \/ Settle

ResumeSpec == ResumeInit /\ [][ResumeNext]_resumeVars

-----------------------------------------------------------------------------

(***************************************************************************)
(* A conversation names as its runs only conversations that are held, and  *)
(* one that is not held has nothing left to read.                          *)
(***************************************************************************)
ResumeTypeOK ==
  /\ \A t \in Talk : talks[t].children \subseteq HeldTalks /\ talks[t].changed \in 0..events
  /\ readable \subseteq HeldTalks
  /\ ask.session \in Talk \cup {NoTalk} /\ Range(ask.shown) \subseteq Talk

(***************************************************************************)
(* No word the user typed is dropped: it names the conversation, is        *)
(* searched for or is the count of turns replayed, or nothing is resumed.  *)
(***************************************************************************)
NoWordDropped ==
  ask.at = "typed" /\ ask.want.ok =>
    /\ ask.want.turns \in 1..MaxResumeTurns
    /\ \A i \in 1..3 : ask.words[i] # NoWord =>
         \/ i \in ask.want.topic
         \/ i = 1 /\ (ask.want.recent \/ ask.want.session = ask.words[1].talk)
         \/ i # 1 /\ ask.words[i].kind = "number" /\ ask.want.turns = ask.words[i].n

(***************************************************************************)
(* A list is never said to show more conversations than there are, though  *)
(* one is archived between the two reads.                                  *)
(***************************************************************************)
ListCountsItself == ask.at \in {"dialog", "listed"} => ask.total >= Len(ask.shown)

(***************************************************************************)
(* While what was offered comes back with the answer, the user's choice    *)
(* stands however the list has moved since, and nothing that was not       *)
(* offered is resumed.                                                     *)
(***************************************************************************)
ChoiceStands ==
  ask.picked /\ ask.kept => (ask.at = "not offered" <=> ask.session \notin Range(ask.shown))

(***************************************************************************)
(* A resume of a conversation that nobody is forgetting succeeds, whatever *)
(* becomes of its memories: it fails only if the chunks are gone or a run  *)
(* it names was forgotten while it read.                                   *)
(***************************************************************************)
ResumeFailsForCause ==
  ask.at = "failed" => \/ ask.session \notin readable
                       \/ ask.lost \cap ask.read.children # {}

(***************************************************************************)
(* The turns replayed and the turns said to be left out are all the turns  *)
(* there are said to be, whatever is appended while they are read, and the *)
(* head embedded beside them is not older than they are.                   *)
(***************************************************************************)
ReplayAddsUp ==
  ask.at = "resumed" => /\ ask.replayed + ask.skipped = ask.stated
                        /\ ask.read.turns >= ask.stated

(***************************************************************************)
(* The conversation that was named or chosen is the one resumed, and what  *)
(* the prompt says of the list and of the turns is true of what it shows.  *)
(***************************************************************************)
ResumesWhatWasMeant == NoWordDropped /\ ListCountsItself /\ ChoiceStands /\ ReplayAddsUp
=============================================================================
