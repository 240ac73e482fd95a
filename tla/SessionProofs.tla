--------------------------- MODULE SessionProofs ---------------------------
(***************************************************************************)
(* Conversations, for any number of calls, processes, chunks and faults    *)
(* (Sessions).                                                             *)
(***************************************************************************)
EXTENDS Sessions, FiniteSetTheorems, TLAPS

Stage == {"idle", "write", "abandon", "index", "edge", "revise", "withdraw", "remove", "unindex",
          "delete", "done", "refused"}

CallRow ==
  [op : {"none", "save", "link", "forget"}, pc : Stage,
   sid : Session \cup {NoSession}, view : HeadRow, todo : SUBSET Chunk,
   target : Session \cup {NoSession}, edge : Edge, seen : HeadRow, attempt : 1..HeadRevisions]

FlushRow == [pc : {"idle", "write", "drop"}, batch : SUBSET Chunk]

DeviceTypes ==
  /\ indexed \subseteq Session
  /\ body \subseteq Chunk /\ queued \subseteq Chunk /\ catalog \subseteq Chunk
  /\ mem \in [Process -> SUBSET Chunk] /\ flush \in [Process -> FlushRow]
  /\ raced \subseteq Session /\ reported \subseteq Chunk /\ cut \subseteq Chunk
  /\ faults \in 0..MaxFault

SessionTypes ==
  /\ DeviceTypes /\ begun \subseteq Session
  /\ head \in [Session -> HeadRow] /\ \A s \in Session : ~Held(s) => head[s] = NoHead
  /\ call \in [Call -> CallRow]

(* A save whose head is stored, and a session whose first head is. *)
Past(c) == call[c].op = "save" /\ call[c].pc \notin {"write", "abandon"}
Born(s) == s = First \/ (s \in Call /\ Past(s) /\ call[s].sid = s /\ call[s].view.version = 0)

ParentOf(s) == IF s = First THEN NoSession ELSE call[s].view.parent

(* A chunk belongs to the one session its save was of. *)
Names(k, s) == \/ k[1] = First /\ s = First
               \/ k[1] \in Call /\ Past(k[1]) /\ call[k[1]].sid = s

HeadInv(s) ==
  /\ Held(s) => Born(s) /\ head[s].parent = ParentOf(s)
  /\ \A k \in head[s].chunks : Names(k, s)
  /\ \A r \in Session : <<r, "child">> \in head[s].edges =>
       r \in Call /\ Born(r) /\ call[r].view.parent = s

(* What was read of a head is what it says, if it is still at that version. *)
Agrees(h, s) == Held(s) => h.version <= head[s].version /\ (h.version = head[s].version => h = head[s])

CallView(c) ==
  call[c].view.version > 0 =>
    /\ call[c].sid \in Session /\ Born(call[c].sid) /\ Agrees(call[c].view, call[c].sid)
    /\ call[c].view.parent = ParentOf(call[c].sid)
    /\ \A k \in call[c].view.chunks : Names(k, call[c].sid)
    /\ Held(call[c].sid) \/ call[c].sid \in begun

CallSeen(c) ==
  call[c].pc = "revise" =>
    call[c].seen.version > 0 /\ Born(call[c].target) /\ Agrees(call[c].seen, call[c].target)

Saving(c) ==
  call[c].op = "save" =>
    /\ call[c].pc \in {"write", "abandon", "index", "edge", "revise", "done", "refused"}
    /\ call[c].sid \in Session
    /\ \A k \in call[c].todo : k[1] = c
    /\ Past(c) => call[c].todo = {}
    /\ call[c].view.version = 0 =>
         call[c].sid = c /\ call[c].view.chunks = {} /\ call[c].view.edges = {}
    /\ call[c].pc \in {"edge", "revise"} =>
         /\ call[c].view.version = 0 /\ call[c].edge = <<c, "child">>
         /\ call[c].target = call[c].view.parent

Linking(c) ==
  call[c].op = "link" =>
    /\ call[c].pc \in {"edge", "revise", "done", "refused"}
    /\ call[c].todo = {} /\ call[c].edge = <<c, "memory">> /\ call[c].view.version = 0

Forgetting(c) ==
  call[c].op = "forget" =>
    /\ call[c].pc \in {"withdraw", "remove", "edge", "revise", "unindex", "delete", "done", "refused"}
    /\ call[c].view.version > 0
    /\ call[c].todo \subseteq call[c].view.chunks
    /\ call[c].pc \notin {"withdraw", "done", "refused"} => call[c].sid \in begun
    /\ call[c].pc \in {"edge", "revise"} =>
         call[c].edge = <<call[c].sid, "child">> /\ call[c].target = call[c].view.parent

CallStage(c) ==
  /\ call[c].op = "none" <=> call[c].pc = "idle"
  /\ call[c].op = "none" => call[c] = Fresh
  /\ Saving(c) /\ Linking(c) /\ Forgetting(c)
  /\ call[c].pc \in {"edge", "revise"} => call[c].target \in Session

HeadsInv ==
  /\ SessionTypes
  /\ \A s \in Session : HeadInv(s)
  /\ \A c \in Call : CallStage(c) /\ CallView(c) /\ CallSeen(c)
  /\ \A s \in begun : Born(s)

LEMMA FreshIsTyped ==
  /\ NoHead \in HeadRow /\ NoHead.version = 0 /\ NoHead.chunks = {} /\ NoHead.edges = {}
  /\ NoHead.parent = NoSession
  /\ Fresh \in CallRow /\ Fresh.op = "none" /\ Fresh.pc = "idle" /\ Fresh.view = NoHead
  /\ Fresh.todo = {} /\ Fresh.sid = NoSession
<1>1. /\ NoHead \in HeadRow /\ NoHead.version = 0 /\ NoHead.chunks = {} /\ NoHead.edges = {}
      /\ NoHead.parent = NoSession
  BY DEF NoHead, HeadRow
<1>2. <<First, "child">> \in Edge /\ 1 \in 1..HeadRevisions
  BY BoundAssumption DEF Edge, Session
<1> HIDE DEF NoHead
<1>3. Fresh \in CallRow
  BY <1>1, <1>2 DEF Fresh, CallRow, Stage
<1> QED BY <1>1, <1>3 DEF Fresh

(* A step that changes one call. *)
LEMMA OneCall ==
  ASSUME SessionTypes, NEW c \in Call, NEW row \in CallRow, call' = [call EXCEPT ![c] = row]
  PROVE  /\ call' \in [Call -> CallRow] /\ call'[c] = row
         /\ \A d \in Call : d # c => call'[d] = call[d]
BY DEF SessionTypes

(* A call under way keeps what it is about. *)
Keeps(d) ==
  call[d].op # "none" =>
    /\ call'[d].op = call[d].op /\ call'[d].sid = call[d].sid /\ call'[d].view = call[d].view
    /\ Past(d) => Past(d)'

(***************************************************************************)
(* How a step may change a head: it is written over at the version read,   *)
(* deleted, or the first of a session whose save had stored none.          *)
(***************************************************************************)
Moves(s) ==
  \/ head'[s] = head[s]
  \/ Held(s) /\ head'[s].version = head[s].version + 1
  \/ Held(s) /\ head'[s] = NoHead /\ s \in begun'
  \/ s \in Call /\ ~Past(s)

LEMMA BornStays ==
  ASSUME HeadsInv, \A d \in Call : Keeps(d)
  PROVE  /\ \A d \in Call : Past(d) => Past(d)'
         /\ \A s \in Session : Born(s) => Born(s)' /\ ParentOf(s)' = ParentOf(s)
         /\ \A k, s : Names(k, s) => Names(k, s)'
<1>1. \A d \in Call : Past(d) => Past(d)' /\ call'[d].sid = call[d].sid /\ call'[d].view = call[d].view
  BY DEF Keeps, Past
<1>2. ASSUME NEW s \in Session, Born(s) PROVE Born(s)' /\ ParentOf(s)' = ParentOf(s)
  BY <1>1, <1>2 DEF Born, ParentOf
<1>3. ASSUME NEW k, NEW s, Names(k, s) PROVE Names(k, s)'
  BY <1>1, <1>3 DEF Names
<1> QED BY <1>1, <1>2, <1>3

LEMMA AgreesStays ==
  ASSUME HeadsInv, NEW s \in Session, Born(s), Moves(s), head' \in [Session -> HeadRow],
         NEW h \in HeadRow, Agrees(h, s), h.version > 0
  PROVE  Agrees(h, s)'
<1>1. /\ head[s] \in HeadRow /\ head'[s] \in HeadRow /\ h.version \in Nat
      /\ head[s].version \in Nat /\ head'[s].version \in Nat
  BY DEF HeadsInv, SessionTypes, HeadRow
<1>2. ~(s \in Call /\ ~Past(s))
  BY NameAssumption DEF Born
<1>3. CASE head'[s] = head[s]
  BY <1>3 DEF Agrees, Held
<1>4. CASE Held(s) /\ head'[s].version = head[s].version + 1
  BY <1>1, <1>4 DEF Agrees, Held
<1>5. CASE head'[s] = NoHead
  BY <1>5, FreshIsTyped DEF Agrees, Held
<1> QED BY <1>2, <1>3, <1>4, <1>5 DEF Moves

(* What a step has to show of the heads and the calls it changes. *)
LEMMA HeadsStep ==
  ASSUME HeadsInv, SessionTypes',
         \A d \in Call : Keeps(d),
         begun \subseteq begun', \A s \in begun' : s \in begun \/ Born(s)',
         \A s \in Session : Moves(s) /\ (head'[s] # head[s] => HeadInv(s)'),
         \A d \in Call : call'[d] # call[d] =>
           CallStage(d)' /\ (call[d].op = "none" => CallView(d)') /\ CallSeen(d)'
  PROVE  HeadsInv'
<1>1. /\ \A d \in Call : Past(d) => Past(d)'
      /\ \A s \in Session : Born(s) => Born(s)' /\ ParentOf(s)' = ParentOf(s)
      /\ \A k, s : Names(k, s) => Names(k, s)'
  BY BornStays
<1>2. ASSUME NEW s \in Session PROVE HeadInv(s)'
  <2>1. CASE head'[s] # head[s]
    BY <2>1
  <2>2. CASE head'[s] = head[s]
    <3>1. HeadInv(s)
      BY DEF HeadsInv
    <3>2. Held(s)' <=> Held(s)
      BY <2>2 DEF Held
    <3>3. Held(s)' => Born(s)' /\ head'[s].parent = ParentOf(s)'
      BY <1>1, <2>2, <3>1, <3>2 DEF HeadInv
    <3>4. \A k \in head'[s].chunks : Names(k, s)'
      BY <1>1, <2>2, <3>1 DEF HeadInv
    <3>5. ASSUME NEW r \in Session, <<r, "child">> \in head'[s].edges
          PROVE  r \in Call /\ Born(r)' /\ call'[r].view.parent = s
      <4>1. r \in Call /\ Born(r) /\ call[r].view.parent = s
        BY <2>2, <3>1, <3>5 DEF HeadInv
      <4>2. ParentOf(r)' = ParentOf(r) /\ r # First /\ Born(r)'
        BY <1>1, <4>1, NameAssumption
      <4> QED BY <4>1, <4>2 DEF ParentOf
    <3> QED BY <3>3, <3>4, <3>5 DEF HeadInv
  <2> QED BY <2>1, <2>2
<1>3. ASSUME NEW d \in Call PROVE CallStage(d)' /\ CallSeen(d)'
  <2>1. CASE call'[d] # call[d]
    BY <2>1
  <2>2. CASE call'[d] = call[d]
    <3>1. CallStage(d) /\ CallSeen(d)
      BY DEF HeadsInv
    <3>2. (Past(d)' <=> Past(d))
      BY <2>2 DEF Past
    <3>3. CallStage(d)'
      <4>1. Saving(d)'
        BY <2>2, <3>1, <3>2 DEF CallStage, Saving
      <4>2. Linking(d)' /\ Forgetting(d)'
        BY <2>2, <3>1 DEF CallStage, Linking, Forgetting
      <4> QED BY <2>2, <3>1, <4>1, <4>2 DEF CallStage
    <3>4. ASSUME call'[d].pc = "revise" PROVE CallSeen(d)'
      <4>1. call[d].target \in Session /\ Born(call[d].target) /\ Agrees(call[d].seen, call[d].target)
            /\ call[d].seen.version > 0
        BY <2>2, <3>1, <3>4 DEF CallStage, CallSeen
      <4>2. call[d].seen \in HeadRow /\ head' \in [Session -> HeadRow]
        BY DEF HeadsInv, SessionTypes, CallRow
      <4>3. Agrees(call[d].seen, call[d].target)'
        BY <2>2, <4>1, <4>2, AgreesStays DEF Agrees, Held
      <4> QED BY <1>1, <2>2, <4>1, <4>3 DEF CallSeen
    <3> QED BY <3>3, <3>4 DEF CallSeen
  <2> QED BY <2>1, <2>2
<1>4. ASSUME NEW d \in Call PROVE CallView(d)'
  <2>1. CASE call[d].op = "none" /\ call'[d] # call[d]
    BY <2>1
  <2>2. CASE call[d].op # "none" \/ call'[d] = call[d]
    <3>1. call'[d].sid = call[d].sid /\ call'[d].view = call[d].view
      BY <2>2 DEF Keeps
    <3>2. CallView(d)
      BY DEF HeadsInv
    <3> SUFFICES ASSUME call'[d].view.version > 0 PROVE CallView(d)'
      BY DEF CallView
    <3>3. PICK s \in Session : s = call[d].sid
      BY <3>1, <3>2 DEF CallView
    <3>4. PICK h \in HeadRow : h = call[d].view
      BY DEF HeadsInv, SessionTypes, CallRow
    <3>5. /\ Born(s) /\ Agrees(h, s) /\ h.version > 0 /\ h.parent = ParentOf(s)
          /\ (\A k \in h.chunks : Names(k, s)) /\ (Held(s) \/ s \in begun)
      BY <3>1, <3>2, <3>3, <3>4 DEF CallView
    <3>6. Agrees(h, s)'
      BY <3>5, AgreesStays DEF SessionTypes
    <3>7. Held(s)' \/ s \in begun'
      <4>1. CASE s \in begun
        BY <4>1
      <4>2. CASE Held(s)
        <5>1. head[s].version \in Nat
          BY DEF HeadsInv, SessionTypes, HeadRow
        <5>2. ~(s \in Call /\ ~Past(s))
          BY <3>5, NameAssumption DEF Born
        <5> QED BY <4>2, <5>1, <5>2 DEF Moves, Held
      <4> QED BY <3>5, <4>1, <4>2
    <3>8. Born(s)' /\ h.parent = ParentOf(s)' /\ \A k \in h.chunks : Names(k, s)'
      BY <1>1, <3>5
    <3>9. call'[d].sid = s /\ call'[d].view = h
      BY <3>1, <3>3, <3>4
    <3> QED BY <3>6, <3>7, <3>8, <3>9 DEF CallView
  <2> QED BY <2>1, <2>2
<1>5. \A s \in begun' : Born(s)'
  <2>1. begun \subseteq Session /\ \A s \in begun : Born(s)
    BY DEF HeadsInv, SessionTypes
  <2> QED BY <1>1, <2>1
<1> QED BY <1>2, <1>3, <1>4, <1>5 DEF HeadsInv

-----------------------------------------------------------------------------
(* Steps of one call                                                        *)

Others(c) == call' \in [Call -> CallRow] /\ \A d \in Call : d # c => call'[d] = call[d]

(* What a step of a call under way changes of it, but for its stage. *)
SameCall(c) ==
  /\ call'[c].op = call[c].op /\ call'[c].sid = call[c].sid /\ call'[c].view = call[c].view
SameEdge(c) ==
  /\ call'[c].target = call[c].target /\ call'[c].edge = call[c].edge /\ call'[c].seen = call[c].seen

LEMMA Goes ==
  ASSUME SessionTypes, NEW c \in Call, NEW pc \in Stage, Go(c, pc)
  PROVE  Others(c) /\ SameCall(c) /\ SameEdge(c) /\ call'[c].pc = pc /\ call'[c].todo = call[c].todo
<1> DEFINE row == [call[c] EXCEPT !.pc = pc]
<1>1. call \in [Call -> CallRow] /\ call[c] \in CallRow
  BY DEF SessionTypes
<1>2. call' = [call EXCEPT ![c] = row]
  BY <1>1 DEF Go
<1>3. /\ row \in CallRow /\ row.op = call[c].op /\ row.sid = call[c].sid /\ row.view = call[c].view
      /\ row.target = call[c].target /\ row.edge = call[c].edge /\ row.seen = call[c].seen
      /\ row.pc = pc /\ row.todo = call[c].todo
  BY <1>1 DEF CallRow
<1> HIDE DEF row
<1>4. Others(c) /\ call'[c] = row
  BY <1>2, <1>3, OneCall DEF Others
<1> QED BY <1>3, <1>4 DEF SameCall, SameEdge

LEMMA GoesWith ==
  ASSUME SessionTypes, NEW c \in Call, NEW pc \in Stage, NEW todo \in SUBSET Chunk,
         call' = [call EXCEPT ![c].pc = pc, ![c].todo = todo]
  PROVE  Others(c) /\ SameCall(c) /\ SameEdge(c) /\ call'[c].pc = pc /\ call'[c].todo = todo
<1> DEFINE row == [call[c] EXCEPT !.pc = pc, !.todo = todo]
<1>1. call \in [Call -> CallRow] /\ call[c] \in CallRow
  BY DEF SessionTypes
<1>2. call' = [call EXCEPT ![c] = row]
  BY <1>1
<1>3. /\ row \in CallRow /\ row.op = call[c].op /\ row.sid = call[c].sid /\ row.view = call[c].view
      /\ row.target = call[c].target /\ row.edge = call[c].edge /\ row.seen = call[c].seen
      /\ row.pc = pc /\ row.todo = todo
  BY <1>1 DEF CallRow
<1> HIDE DEF row
<1>4. Others(c) /\ call'[c] = row
  BY <1>2, <1>3, OneCall DEF Others
<1> QED BY <1>3, <1>4 DEF SameCall, SameEdge

LEMMA TodoOnly ==
  ASSUME SessionTypes, NEW c \in Call, NEW todo \in SUBSET Chunk,
         call' = [call EXCEPT ![c].todo = todo]
  PROVE  Others(c) /\ SameCall(c) /\ SameEdge(c) /\ call'[c].pc = call[c].pc /\ call'[c].todo = todo
<1> DEFINE row == [call[c] EXCEPT !.todo = todo]
<1>1. call \in [Call -> CallRow] /\ call[c] \in CallRow
  BY DEF SessionTypes
<1>2. call' = [call EXCEPT ![c] = row]
  BY <1>1
<1>3. /\ row \in CallRow /\ row.op = call[c].op /\ row.sid = call[c].sid /\ row.view = call[c].view
      /\ row.target = call[c].target /\ row.edge = call[c].edge /\ row.seen = call[c].seen
      /\ row.pc = call[c].pc /\ row.todo = todo
  BY <1>1 DEF CallRow
<1> HIDE DEF row
<1>4. Others(c) /\ call'[c] = row
  BY <1>2, <1>3, OneCall DEF Others
<1> QED BY <1>3, <1>4 DEF SameCall, SameEdge

LEMMA GoesToEdge ==
  ASSUME SessionTypes, NEW c \in Call, NEW target \in Session, NEW edge \in Edge,
         ToEdge(c, target, edge)
  PROVE  Others(c) /\ SameCall(c) /\ call'[c].pc = "edge" /\ call'[c].todo = call[c].todo
         /\ call'[c].target = target /\ call'[c].edge = edge
<1> DEFINE row == [call[c] EXCEPT !.pc = "edge", !.target = target, !.edge = edge]
<1>1. call \in [Call -> CallRow] /\ call[c] \in CallRow
  BY DEF SessionTypes
<1>2. call' = [call EXCEPT ![c] = row]
  BY <1>1 DEF ToEdge
<1>3. /\ row \in CallRow /\ row.op = call[c].op /\ row.sid = call[c].sid /\ row.view = call[c].view
      /\ row.target = target /\ row.edge = edge /\ row.pc = "edge" /\ row.todo = call[c].todo
  BY <1>1 DEF CallRow, Stage
<1> HIDE DEF row
<1>4. Others(c) /\ call'[c] = row
  BY <1>2, <1>3, OneCall DEF Others
<1> QED BY <1>3, <1>4 DEF SameCall

(* A call under way goes on, and no head changes. *)
LEMMA QuietStep ==
  ASSUME HeadsInv, NEW c \in Call, Others(c), SameCall(c), call[c].op # "none",
         Past(c) => call'[c].pc \notin {"write", "abandon"},
         UNCHANGED <<head, begun>>, DeviceTypes', CallStage(c)', CallSeen(c)'
  PROVE  HeadsInv'
<1>1. \A d \in Call : Keeps(d)
  BY DEF Keeps, Others, SameCall, Past
<1>2. SessionTypes'
  BY DEF HeadsInv, SessionTypes, Others, Held
<1>3. \A s \in Session : Moves(s) /\ head'[s] = head[s]
  BY DEF Moves
<1> QED BY <1>1, <1>2, <1>3, HeadsStep DEF Others

(* A call that begins. *)
LEMMA StartStep ==
  ASSUME HeadsInv, NEW c \in Call, call[c].op = "none", NEW row \in CallRow,
         call' = [call EXCEPT ![c] = row],
         UNCHANGED <<head, begun>>, DeviceTypes', CallStage(c)', CallView(c)', row.pc # "revise"
  PROVE  HeadsInv' /\ Others(c) /\ call'[c] = row
<1>1. Others(c) /\ call'[c] = row
  BY OneCall DEF HeadsInv, Others
<1>2. \A d \in Call : Keeps(d)
  BY <1>1 DEF Keeps, Others, Past
<1>3. SessionTypes'
  BY <1>1 DEF HeadsInv, SessionTypes, Others, Held
<1>4. \A s \in Session : Moves(s) /\ head'[s] = head[s]
  BY DEF Moves
<1>5. CallSeen(c)'
  BY <1>1 DEF CallSeen
<1> QED BY <1>1, <1>2, <1>3, <1>4, <1>5, HeadsStep DEF Others

(* A call that is idle has not begun. *)
LEMMA NotBegun ==
  ASSUME HeadsInv, NEW c \in Call, At(c, "idle")
  PROVE  call[c].op = "none" /\ call[c] = Fresh /\ ~Past(c)
BY DEF HeadsInv, CallStage, At, Past

LEMMA SaveNewHeads ==
  ASSUME HeadsInv, NEW c \in Call, NEW parent \in Session \cup {NoSession}, SaveNew(c, parent)
  PROVE  HeadsInv'
<1> DEFINE view == [NoHead EXCEPT !.parent = parent]
           row == [Fresh EXCEPT !.op = "save", !.pc = "write", !.sid = c, !.view = view]
<1>1. /\ At(c, "idle") /\ call' = [call EXCEPT ![c] = row]
      /\ UNCHANGED <<head, indexed, body, queued, catalog, mem, flush, begun, raced, reported, cut, faults>>
  BY DEF SaveNew
<1>2. view \in HeadRow /\ view.version = 0 /\ view.chunks = {} /\ view.edges = {}
  BY DEF NoHead, HeadRow
<1> HIDE DEF view
<1>3. /\ row \in CallRow /\ row.op = "save" /\ row.pc = "write" /\ row.sid = c /\ row.view = view
      /\ row.todo = {}
  BY <1>2, FreshIsTyped DEF CallRow, Stage, Session
<1> HIDE DEF row
<1>4. call[c].op = "none" /\ call'[c] = row
  BY <1>1, NotBegun DEF HeadsInv, SessionTypes
<1>5. DeviceTypes'
  BY <1>1 DEF HeadsInv, SessionTypes, DeviceTypes
<1>6. Saving(c)' /\ Linking(c)' /\ Forgetting(c)'
  BY <1>2, <1>3, <1>4 DEF Saving, Linking, Forgetting, Past, Session
<1>7. CallStage(c)' /\ CallView(c)'
  BY <1>2, <1>3, <1>4, <1>6 DEF CallStage, CallView
<1> QED BY <1>1, <1>3, <1>4, <1>5, <1>7, StartStep

(* A call that begins with a head it has read. *)
LEMMA StartOnHead ==
  ASSUME HeadsInv, NEW c \in Call, At(c, "idle"), NEW s \in Session, Held(s),
         NEW op \in {"save", "forget"}, NEW pc \in {"write", "withdraw"},
         op = "save" <=> pc = "write",
         call' = [call EXCEPT ![c] = [Fresh EXCEPT !.op = op, !.pc = pc, !.sid = s, !.view = head[s]]],
         UNCHANGED <<head, begun>>, DeviceTypes'
  PROVE  /\ HeadsInv' /\ Others(c)
         /\ call'[c].op = op /\ call'[c].pc = pc /\ call'[c].sid = s /\ call'[c].view = head[s]
         /\ call'[c].todo = {}
<1> DEFINE row == [Fresh EXCEPT !.op = op, !.pc = pc, !.sid = s, !.view = head[s]]
<1>1. head[s] \in HeadRow /\ head[s].version \in Nat
  BY DEF HeadsInv, SessionTypes, HeadRow
<1>2. /\ row \in CallRow /\ row.op = op /\ row.pc = pc /\ row.sid = s /\ row.view = head[s] /\ row.todo = {}
  BY <1>1, FreshIsTyped DEF CallRow, Stage
<1> HIDE DEF row
<1>3. call[c].op = "none" /\ call'[c] = row /\ ~Past(c)
  BY NotBegun DEF HeadsInv, SessionTypes, row
<1>4. \A d \in Call : d # c => call'[d] = call[d]
  BY DEF HeadsInv, SessionTypes
<1>5. \A d \in Call : Keeps(d)
  BY <1>3, <1>4 DEF Keeps, Past
<1>6. HeadInv(s) /\ Born(s) /\ head[s].parent = ParentOf(s)
  BY DEF HeadsInv, HeadInv
<1>7. CallView(c)'
  <2>1. Born(s)' /\ head[s].parent = ParentOf(s)' /\ \A k \in head[s].chunks : Names(k, s)'
    BY <1>5, <1>6, BornStays DEF HeadInv
  <2>2. Agrees(head[s], s)'
    BY <1>1 DEF Agrees
  <2>3. Held(s)'
    BY DEF Held
  <2> QED BY <1>2, <1>3, <2>1, <2>2, <2>3 DEF CallView
<1>8. Saving(c)' /\ Linking(c)' /\ Forgetting(c)'
  <2>1. call'[c].view.version > 0 /\ call'[c].view.version \in Nat
    BY <1>1, <1>2, <1>3 DEF Held
  <2>2. Saving(c)'
    <3>1. call'[c].op = op /\ call'[c].pc = pc /\ call'[c].sid \in Session /\ call'[c].todo = {}
      BY <1>2, <1>3
    <3>2. call'[c].view.version # 0
      BY <2>1
    <3>3. pc \notin {"edge", "revise"}
      OBVIOUS
    <3> QED BY <3>1, <3>2, <3>3 DEF Saving
  <2>3. Linking(c)'
    BY <1>2, <1>3 DEF Linking
  <2>4. Forgetting(c)'
    BY <1>2, <1>3, <2>1 DEF Forgetting
  <2> QED BY <2>2, <2>3, <2>4
<1>9. CallStage(c)'
  BY <1>2, <1>3, <1>8 DEF CallStage
<1> QED BY <1>2, <1>3, <1>7, <1>9, StartStep DEF row

LEMMA SaveMoreHeads ==
  ASSUME HeadsInv, NEW c \in Call, NEW s \in Session, SaveMore(c, s)
  PROVE  HeadsInv'
<1>1. DeviceTypes'
  BY DEF SaveMore, HeadsInv, SessionTypes, DeviceTypes
<1> QED BY <1>1, StartOnHead DEF SaveMore

LEMMA ForgetReadHeads ==
  ASSUME HeadsInv, NEW c \in Call, NEW s \in Session, ForgetRead(c, s)
  PROVE  HeadsInv'
<1>1. raced' \subseteq Session
  BY DEF ForgetRead, HeadsInv, SessionTypes, DeviceTypes
<1>2. DeviceTypes'
  BY <1>1 DEF ForgetRead, HeadsInv, SessionTypes, DeviceTypes
<1> QED BY <1>2, StartOnHead DEF ForgetRead

LEMMA LinkMemoryHeads ==
  ASSUME HeadsInv, NEW c \in Call, NEW s \in Session, LinkMemory(c, s)
  PROVE  HeadsInv'
<1> DEFINE row == [Fresh EXCEPT !.op = "link", !.pc = "edge", !.target = s, !.edge = <<c, "memory">>]
<1>1. /\ At(c, "idle") /\ call' = [call EXCEPT ![c] = row]
      /\ UNCHANGED <<head, indexed, body, queued, catalog, mem, flush, begun, raced, reported, cut, faults>>
  BY DEF LinkMemory
<1>2. <<c, "memory">> \in Edge
  BY DEF Edge, Session
<1>3. /\ row \in CallRow /\ row.op = "link" /\ row.pc = "edge" /\ row.target = s /\ row.view = NoHead
      /\ row.todo = {} /\ row.edge = <<c, "memory">>
  BY <1>2, FreshIsTyped DEF CallRow, Stage
<1> HIDE DEF row
<1>4. call[c].op = "none" /\ call'[c] = row
  BY <1>1, NotBegun DEF HeadsInv, SessionTypes
<1>5. DeviceTypes'
  BY <1>1 DEF HeadsInv, SessionTypes, DeviceTypes
<1>6. Saving(c)' /\ Linking(c)' /\ Forgetting(c)'
  BY <1>3, <1>4, FreshIsTyped DEF Saving, Linking, Forgetting
<1>7. CallStage(c)' /\ CallView(c)'
  BY <1>3, <1>4, <1>6, FreshIsTyped DEF CallStage, CallView
<1> QED BY <1>1, <1>3, <1>4, <1>5, <1>7, StartStep

LEMMA WriteChunkHeads ==
  ASSUME HeadsInv, NEW c \in Call, WriteChunk(c)
  PROVE  HeadsInv'
<1> DEFINE k == <<c, Cardinality(call[c].todo) + 1>>
<1>1. /\ call[c].pc = "write" /\ k \in Chunk /\ body' = body \cup {k} /\ queued' = queued \cup {k}
      /\ call' = [call EXCEPT ![c].todo = call[c].todo \cup {k}]
      /\ UNCHANGED <<head, indexed, catalog, mem, flush, begun, raced, reported, cut, faults>>
  BY DEF WriteChunk, At, HeadsInv, SessionTypes
<1>2. k[1] = c
  OBVIOUS
<1> HIDE DEF k
<1>3. call[c] \in CallRow /\ call[c].todo \cup {k} \in SUBSET Chunk /\ SessionTypes
  BY <1>1 DEF HeadsInv, SessionTypes, CallRow
<1>4. Others(c) /\ SameCall(c) /\ SameEdge(c) /\ call'[c].pc = "write" /\ call'[c].todo = call[c].todo \cup {k}
  BY <1>1, <1>3, TodoOnly
<1>5. CallStage(c) /\ call[c].op = "save"
  BY <1>1 DEF HeadsInv, CallStage, Linking, Forgetting, CallRow, SessionTypes
<1>6. DeviceTypes'
  BY <1>1 DEF HeadsInv, SessionTypes, DeviceTypes
<1>7. Saving(c)' /\ Linking(c)' /\ Forgetting(c)'
  BY <1>2, <1>4, <1>5 DEF CallStage, Saving, Linking, Forgetting, Past, SameCall
<1>8. CallStage(c)' /\ CallSeen(c)'
  BY <1>4, <1>5, <1>7 DEF CallStage, CallSeen, SameCall
<1> QED BY <1>1, <1>4, <1>5, <1>6, <1>8, QuietStep DEF Past

LEMMA SaveStopsHeads ==
  ASSUME HeadsInv, NEW c \in Call, SaveStops(c)
  PROVE  HeadsInv'
<1>1. call[c].pc = "write" /\ Go(c, "abandon") /\ faults < MaxFault /\ faults' = faults + 1
      /\ UNCHANGED <<head, indexed, body, queued, catalog, mem, flush, begun, raced, reported, cut>>
  BY DEF SaveStops, At
<1>2. "abandon" \in Stage /\ SessionTypes
  BY DEF Stage, HeadsInv
<1>3. Others(c) /\ SameCall(c) /\ SameEdge(c) /\ call'[c].pc = "abandon" /\ call'[c].todo = call[c].todo
  BY <1>1, <1>2, Goes
<1>4. CallStage(c) /\ call[c].op = "save"
  BY <1>1 DEF HeadsInv, CallStage, Linking, Forgetting, CallRow, SessionTypes
<1>5. DeviceTypes'
  <2>1. faults' \in 0..MaxFault
    BY <1>1, <1>2, BoundAssumption DEF SessionTypes, DeviceTypes
  <2> QED BY <1>1, <1>2, <2>1 DEF SessionTypes, DeviceTypes
<1>6. Saving(c)' /\ Linking(c)' /\ Forgetting(c)'
  BY <1>3, <1>4 DEF CallStage, Saving, Linking, Forgetting, Past, SameCall
<1>7. CallStage(c)' /\ CallSeen(c)'
  BY <1>3, <1>4, <1>6 DEF CallStage, CallSeen, SameCall
<1> QED BY <1>1, <1>3, <1>4, <1>5, <1>7, QuietStep DEF Past

(* A call that returns. *)
LEMMA ReturnsStage ==
  ASSUME HeadsInv, NEW c \in Call, Others(c), SameCall(c), call'[c].edge = call[c].edge,
         call[c].op # "none", call'[c].pc \in {"done", "refused"},
         \/ call'[c].todo = {}
         \/ call'[c].todo = call[c].todo /\ (call[c].op = "save" => Past(c))
  PROVE  CallStage(c)' /\ CallSeen(c)'
<1>1. CallStage(c) /\ call'[c] \in CallRow
  BY DEF HeadsInv, Others
<1>2. Saving(c)'
  BY <1>1 DEF CallStage, Saving, Past, SameCall
<1>3. Linking(c)'
  BY <1>1 DEF CallStage, Linking, SameCall
<1>4. Forgetting(c)'
  BY <1>1 DEF CallStage, Forgetting, SameCall
<1> QED BY <1>1, <1>2, <1>3, <1>4 DEF CallStage, CallSeen, SameCall

LEMMA ReturnStep ==
  ASSUME HeadsInv, NEW c \in Call, Others(c), SameCall(c), call'[c].edge = call[c].edge,
         call[c].op # "none", call'[c].pc \in {"done", "refused"},
         \/ call'[c].todo = {}
         \/ call'[c].todo = call[c].todo /\ (call[c].op = "save" => Past(c)),
         UNCHANGED <<head, begun>>, DeviceTypes'
  PROVE  HeadsInv'
<1>1. CallStage(c)' /\ CallSeen(c)'
  BY ReturnsStage
<1>2. call'[c].pc \notin {"write", "abandon"}
  OBVIOUS
<1> QED BY <1>1, <1>2, QuietStep

(* What the stage of a call says of its operation. *)
LEMMA OpAtStage ==
  ASSUME HeadsInv, NEW c \in Call
  PROVE  /\ call[c] \in CallRow /\ CallStage(c) /\ SessionTypes /\ DeviceTypes
         /\ call[c].pc \in {"write", "abandon", "index"} => call[c].op = "save"
         /\ call[c].pc \in {"withdraw", "remove", "unindex", "delete"} => call[c].op = "forget"
         /\ call[c].pc # "idle" => call[c].op # "none"
<1>1. call[c] \in CallRow /\ CallStage(c) /\ SessionTypes /\ DeviceTypes
  BY DEF HeadsInv, SessionTypes
<1>2. call[c].op \in {"none", "save", "link", "forget"}
  BY <1>1 DEF CallRow
<1> QED BY <1>1, <1>2 DEF CallStage, Saving, Linking, Forgetting

LEMMA FaultTypes ==
  ASSUME DeviceTypes, faults < MaxFault, faults' = faults + 1
  PROVE  faults' \in 0..MaxFault
BY BoundAssumption DEF DeviceTypes

LEMMA DiscardHeads ==
  ASSUME HeadsInv, NEW c \in Call, NEW k \in Chunk, Discard(c, k)
  PROVE  HeadsInv'
<1>1. /\ call[c].pc = "abandon" /\ k \in call[c].todo
      /\ call' = [call EXCEPT ![c].todo = call[c].todo \ {k}]
      /\ UNCHANGED <<head, indexed, flush, begun, raced, cut, faults>>
  BY DEF Discard, At, HeadsInv, SessionTypes
<1>2. call[c].op = "save" /\ CallStage(c) /\ call[c] \in CallRow /\ SessionTypes /\ DeviceTypes
  BY <1>1, OpAtStage
<1>3. call[c].todo \ {k} \in SUBSET Chunk
  BY <1>2 DEF CallRow
<1>4. Others(c) /\ SameCall(c) /\ SameEdge(c) /\ call'[c].pc = "abandon" /\ call'[c].todo = call[c].todo \ {k}
  <2> DEFINE rest == call[c].todo \ {k}
  <2>1. rest \in SUBSET Chunk /\ call' = [call EXCEPT ![c].todo = rest]
    BY <1>1, <1>3
  <2> HIDE DEF rest
  <2>2. Others(c) /\ SameCall(c) /\ SameEdge(c) /\ call'[c].pc = "abandon" /\ call'[c].todo = rest
    BY <1>1, <1>2, <2>1, TodoOnly
  <2> QED BY <2>2 DEF rest
<1>5. DeviceTypes'
  <2>1. mem' \in [Process -> SUBSET Chunk] /\ catalog' \subseteq Chunk /\ queued' \subseteq Chunk
        /\ body' \subseteq Chunk /\ reported' \subseteq Chunk
    <3>1. CASE k \in Claimed
      BY <3>1, <1>2 DEF Discard, DeviceTypes
    <3>2. CASE k \notin Claimed
      BY <3>2, <1>2 DEF Discard, RemoveEntry, DeviceTypes
    <3> QED BY <3>1, <3>2
  <2> QED BY <1>1, <1>2, <2>1 DEF DeviceTypes
<1>6. Saving(c)' /\ Linking(c)' /\ Forgetting(c)'
  <2>1. Saving(c) /\ call'[c].op = "save"
    BY <1>2, <1>4 DEF CallStage, SameCall
  <2>2. ~Past(c)'
    BY <1>4 DEF Past
  <2>3. Saving(c)'
    BY <1>2, <1>4, <2>1, <2>2 DEF Saving, SameCall
  <2>4. Linking(c)' /\ Forgetting(c)'
    BY <2>1 DEF Linking, Forgetting
  <2> QED BY <2>3, <2>4
<1>7. CallStage(c)' /\ CallSeen(c)'
  BY <1>2, <1>4, <1>6 DEF CallStage, CallSeen, SameCall
<1>8. ~Past(c)
  BY <1>1 DEF Past
<1> QED BY <1>1, <1>2, <1>4, <1>5, <1>7, <1>8, QuietStep

LEMMA AbandonedHeads ==
  ASSUME HeadsInv, NEW c \in Call, Abandoned(c)
  PROVE  HeadsInv'
<1>1. call[c].pc = "abandon" /\ Go(c, "done") /\ call[c].todo = {}
      /\ UNCHANGED <<head, indexed, body, queued, catalog, mem, flush, begun, raced, reported, cut, faults>>
  BY DEF Abandoned, At
<1>2. "done" \in Stage /\ SessionTypes /\ call[c].op # "none" /\ DeviceTypes
  BY <1>1, OpAtStage DEF Stage
<1>3. Others(c) /\ SameCall(c) /\ SameEdge(c) /\ call'[c].pc = "done" /\ call'[c].todo = {}
  BY <1>1, <1>2, Goes
<1>4. DeviceTypes'
  BY <1>1, <1>2 DEF DeviceTypes
<1>5. call'[c].pc \in {"done", "refused"}
  BY <1>3
<1> QED BY <1>1, <1>2, <1>3, <1>4, <1>5, ReturnStep DEF SameEdge

LEMMA CallFailsHeads ==
  ASSUME HeadsInv, NEW c \in Call, CallFails(c)
  PROVE  HeadsInv'
<1>1. /\ call[c].pc \in {"index", "edge", "revise", "withdraw", "remove", "unindex", "delete"}
      /\ call' = [call EXCEPT ![c].pc = "done", ![c].todo = {}]
      /\ faults < MaxFault /\ faults' = faults + 1
      /\ UNCHANGED <<head, indexed, body, queued, catalog, mem, flush, begun, raced, reported, cut>>
  BY DEF CallFails
<1>2. "done" \in Stage /\ SessionTypes /\ DeviceTypes /\ {} \in SUBSET Chunk
  BY <1>1, OpAtStage DEF Stage
<1>3. Others(c) /\ SameCall(c) /\ SameEdge(c) /\ call'[c].pc = "done" /\ call'[c].todo = {}
  BY <1>1, <1>2, GoesWith
<1>4. DeviceTypes'
  BY <1>1, <1>2, FaultTypes DEF DeviceTypes
<1>5. call'[c].pc \in {"done", "refused"} /\ call[c].op # "none"
  BY <1>1, <1>3, OpAtStage
<1> QED BY <1>1, <1>2, <1>3, <1>4, <1>5, ReturnStep DEF SameEdge

LEMMA IndexHeadHeads ==
  ASSUME HeadsInv, NEW c \in Call, IndexHead(c)
  PROVE  HeadsInv'
<1>1. /\ call[c].pc = "index" /\ indexed' = indexed \cup {call[c].sid}
      /\ UNCHANGED <<head, body, queued, catalog, mem, flush, begun, raced, reported, cut, faults>>
  BY DEF IndexHead, At
<1>2. /\ "done" \in Stage /\ SessionTypes /\ DeviceTypes /\ call[c].op = "save" /\ CallStage(c)
      /\ call[c] \in CallRow /\ Past(c)
  BY <1>1, OpAtStage DEF Stage, Past
<1>3. call[c].sid \in Session /\ call[c].todo = {}
  BY <1>2 DEF CallStage, Saving
<1>4. DeviceTypes'
  BY <1>1, <1>2, <1>3 DEF DeviceTypes
<1>5. CASE call[c].view.version = 0 /\ call[c].view.parent # NoSession
  <2>1. call[c].view.parent \in Session /\ call[c].sid = c
    BY <1>2, <1>5 DEF CallRow, HeadRow, CallStage, Saving
  <2>2. <<c, "child">> \in Edge
    BY DEF Edge, Session
  <2>3. ToEdge(c, call[c].view.parent, <<c, "child">>)
    BY <1>5, <2>1 DEF IndexHead
  <2>4. /\ Others(c) /\ SameCall(c) /\ call'[c].pc = "edge" /\ call'[c].todo = call[c].todo
        /\ call'[c].target = call[c].view.parent /\ call'[c].edge = <<c, "child">>
    BY <1>2, <2>1, <2>2, <2>3, GoesToEdge
  <2>5. Saving(c)' /\ Linking(c)' /\ Forgetting(c)'
    BY <1>2, <1>3, <1>5, <2>4 DEF CallStage, Saving, Linking, Forgetting, SameCall
  <2>6. CallStage(c)' /\ CallSeen(c)'
    BY <1>2, <2>1, <2>4, <2>5 DEF CallStage, CallSeen, SameCall
  <2> QED BY <1>1, <1>2, <1>4, <2>4, <2>6, QuietStep
<1>6. CASE ~(call[c].view.version = 0 /\ call[c].view.parent # NoSession)
  <2>1. Go(c, "done")
    BY <1>6 DEF IndexHead
  <2>2. Others(c) /\ SameCall(c) /\ SameEdge(c) /\ call'[c].pc = "done" /\ call'[c].todo = {}
    BY <1>2, <1>3, <2>1, Goes
  <2>3. call'[c].pc \in {"done", "refused"}
    BY <2>2
  <2> QED BY <1>1, <1>2, <1>4, <2>2, <2>3, ReturnStep DEF SameEdge
<1> QED BY <1>5, <1>6

LEMMA ForgetWithdrawHeads ==
  ASSUME HeadsInv, NEW c \in Call, ForgetWithdraw(c)
  PROVE  HeadsInv'
<1>1. /\ call[c].pc = "withdraw"
      /\ UNCHANGED <<head, indexed, body, catalog, mem, flush, raced, reported, cut, faults>>
  BY DEF ForgetWithdraw, At
<1>2. /\ SessionTypes /\ DeviceTypes /\ call[c].op = "forget" /\ CallStage(c) /\ call[c] \in CallRow
      /\ CallView(c) /\ call[c].view.version > 0 /\ call[c].sid \in Session /\ Born(call[c].sid)
  <2>1. CallView(c) /\ CallStage(c) /\ call[c].op = "forget" /\ call[c] \in CallRow
    BY <1>1, OpAtStage DEF HeadsInv
  <2> QED BY <2>1, OpAtStage DEF CallView, CallStage, Forgetting
<1>3. CASE call[c].view.chunks \cap Claimed # {}
  <2>1. Go(c, "done") /\ UNCHANGED <<queued, begun>> /\ "done" \in Stage
    BY <1>3 DEF ForgetWithdraw, Stage
  <2>2. Others(c) /\ SameCall(c) /\ SameEdge(c) /\ call'[c].pc = "done" /\ call'[c].todo = call[c].todo
    BY <1>2, <2>1, Goes
  <2>3. DeviceTypes'
    BY <1>1, <1>2, <2>1 DEF DeviceTypes
  <2>4. call'[c].pc \in {"done", "refused"}
    BY <2>2
  <2> QED BY <1>1, <1>2, <2>1, <2>2, <2>3, <2>4, ReturnStep DEF SameEdge
<1>4. CASE ~(call[c].view.chunks \cap Claimed # {})
  <2> DEFINE chunks == call[c].view.chunks
  <2>1. /\ queued' = queued \ chunks /\ begun' = begun \cup {call[c].sid} /\ "remove" \in Stage
        /\ call' = [call EXCEPT ![c].pc = "remove", ![c].todo = chunks]
    BY <1>4 DEF ForgetWithdraw, Stage
  <2>2. chunks \in SUBSET Chunk
    BY <1>2 DEF CallRow, HeadRow
  <2>3. Others(c) /\ SameCall(c) /\ SameEdge(c) /\ call'[c].pc = "remove" /\ call'[c].todo = chunks
    BY <1>2, <2>1, <2>2, GoesWith
  <2> HIDE DEF chunks
  <2>4. DeviceTypes'
    BY <1>1, <1>2, <2>1 DEF DeviceTypes
  <2>5. Saving(c)' /\ Linking(c)' /\ Forgetting(c)'
    <3>1. Forgetting(c) /\ call'[c].op = "forget" /\ call'[c].sid \in begun'
      BY <1>2, <2>1, <2>3 DEF CallStage, SameCall
    <3>2. call'[c].todo \subseteq call'[c].view.chunks /\ call'[c].view.version > 0
      BY <1>2, <2>3 DEF SameCall, chunks
    <3>3. Forgetting(c)'
      BY <2>3, <3>1, <3>2 DEF Forgetting
    <3>4. Linking(c)' /\ Saving(c)'
      BY <3>1 DEF Linking, Saving
    <3> QED BY <3>3, <3>4
  <2>6. CallStage(c)' /\ CallSeen(c)'
    BY <1>2, <2>3, <2>5 DEF CallStage, CallSeen, SameCall
  <2>7. \A d \in Call : Keeps(d)
    BY <1>2, <2>3 DEF Keeps, Others, SameCall, Past
  <2>8. PICK s0 \in Session : s0 = call[c].sid
    BY <1>2
  <2>13. Born(s0)'
    BY <1>2, <2>7, <2>8, BornStays
  <2>9. begun \subseteq begun' /\ begun' \subseteq Session /\ \A s \in begun' : s \in begun \/ Born(s)'
    BY <1>2, <2>1, <2>8, <2>13 DEF SessionTypes
  <2>10. SessionTypes'
    BY <1>1, <1>2, <2>3, <2>4, <2>9 DEF SessionTypes, Others, Held
  <2>11. \A s \in Session : Moves(s) /\ head'[s] = head[s]
    BY <1>1 DEF Moves
  <2>12. \A d \in Call : call'[d] # call[d] => d = c
    BY <2>3 DEF Others
  <2> QED BY <1>2, <2>6, <2>7, <2>9, <2>10, <2>11, <2>12, HeadsStep
<1> QED BY <1>3, <1>4

LEMMA ForgetChunkHeads ==
  ASSUME HeadsInv, NEW c \in Call, NEW k \in Chunk, ForgetChunk(c, k)
  PROVE  HeadsInv'
<1>1. /\ call[c].pc = "remove" /\ k \in call[c].todo /\ body' = body \ {k}
      /\ call' = [call EXCEPT ![c].todo = call[c].todo \ {k}]
      /\ UNCHANGED <<head, indexed, queued, flush, begun, raced, reported, cut, faults>>
  BY DEF ForgetChunk, At, HeadsInv, SessionTypes
<1>2. call[c].op = "forget" /\ CallStage(c) /\ call[c] \in CallRow /\ SessionTypes /\ DeviceTypes
  BY <1>1, OpAtStage
<1>3. call[c].todo \ {k} \in SUBSET Chunk
  BY <1>2 DEF CallRow
<1>4. Others(c) /\ SameCall(c) /\ SameEdge(c) /\ call'[c].pc = "remove" /\ call'[c].todo = call[c].todo \ {k}
  <2> DEFINE rest == call[c].todo \ {k}
  <2>1. rest \in SUBSET Chunk /\ call' = [call EXCEPT ![c].todo = rest]
    BY <1>1, <1>3
  <2> HIDE DEF rest
  <2>2. Others(c) /\ SameCall(c) /\ SameEdge(c) /\ call'[c].pc = "remove" /\ call'[c].todo = rest
    BY <1>1, <1>2, <2>1, TodoOnly
  <2> QED BY <2>2 DEF rest
<1>5. DeviceTypes'
  <2>1. mem' \in [Process -> SUBSET Chunk] /\ catalog' \subseteq Chunk
    BY <1>2 DEF ForgetChunk, RemoveEntry, DeviceTypes
  <2> QED BY <1>1, <1>2, <2>1 DEF DeviceTypes
<1>6. Saving(c)' /\ Linking(c)' /\ Forgetting(c)'
  <2>1. Forgetting(c) /\ call'[c].op = "forget"
    BY <1>2, <1>4 DEF CallStage, SameCall
  <2>2. Forgetting(c)'
    BY <1>1, <1>2, <1>4, <2>1 DEF Forgetting, SameCall
  <2>3. Linking(c)' /\ Saving(c)'
    BY <2>1 DEF Linking, Saving
  <2> QED BY <2>2, <2>3
<1>7. CallStage(c)' /\ CallSeen(c)'
  BY <1>2, <1>4, <1>6 DEF CallStage, CallSeen, SameCall
<1>8. ~Past(c)
  BY <1>2 DEF Past
<1> QED BY <1>1, <1>2, <1>4, <1>5, <1>7, <1>8, QuietStep

LEMMA ForgetEdgeHeads ==
  ASSUME HeadsInv, NEW c \in Call, ForgetEdge(c)
  PROVE  HeadsInv'
<1>1. /\ call[c].pc = "remove" /\ call[c].todo = {}
      /\ UNCHANGED <<head, indexed, body, queued, catalog, mem, flush, begun, raced, reported, cut, faults>>
  BY DEF ForgetEdge, At
<1>2. /\ SessionTypes /\ DeviceTypes /\ call[c].op = "forget" /\ CallStage(c) /\ call[c] \in CallRow
      /\ Forgetting(c) /\ CallView(c)
  BY <1>1, OpAtStage DEF HeadsInv, CallStage
<1>3. call[c].sid \in Session
  BY <1>2 DEF Forgetting, CallView
<1>4. DeviceTypes'
  BY <1>1, <1>2 DEF DeviceTypes
<1>5. /\ Others(c) /\ SameCall(c) /\ call'[c].todo = {}
      /\ call'[c].pc \in {"edge", "unindex"}
      /\ call'[c].pc = "edge" =>
           /\ call'[c].edge = <<call[c].sid, "child">> /\ call'[c].target = call[c].view.parent
           /\ call'[c].target \in Session
  <2>1. CASE call[c].view.parent # NoSession
    <3>1. call[c].view.parent \in Session
      BY <1>2, <2>1 DEF CallRow, HeadRow
    <3>2. <<call[c].sid, "child">> \in Edge
      BY <1>3 DEF Edge
    <3>3. ToEdge(c, call[c].view.parent, <<call[c].sid, "child">>)
      BY <2>1 DEF ForgetEdge
    <3> QED BY <1>1, <1>2, <3>1, <3>2, <3>3, GoesToEdge
  <2>2. CASE call[c].view.parent = NoSession
    <3>1. Go(c, "unindex") /\ "unindex" \in Stage
      BY <2>2 DEF ForgetEdge, Stage
    <3>2. Others(c) /\ SameCall(c) /\ call'[c].todo = {} /\ call'[c].pc = "unindex"
      BY <1>1, <1>2, <3>1, Goes
    <3> QED BY <3>2
  <2> QED BY <2>1, <2>2
<1>6. Saving(c)' /\ Linking(c)' /\ Forgetting(c)'
  <2>1. call'[c].op = "forget" /\ call'[c].sid = call[c].sid /\ call'[c].view = call[c].view
    BY <1>2, <1>5 DEF SameCall
  <2>2. call[c].sid \in begun' /\ call[c].view.version > 0
    BY <1>1, <1>2 DEF Forgetting
  <2>3. Forgetting(c)'
    BY <1>5, <2>1, <2>2 DEF Forgetting
  <2> QED BY <2>1, <2>3 DEF Saving, Linking
<1>7. CallStage(c)' /\ CallSeen(c)'
  BY <1>2, <1>5, <1>6 DEF CallStage, CallSeen, SameCall
<1>8. ~Past(c)
  BY <1>2 DEF Past
<1> QED BY <1>1, <1>2, <1>4, <1>5, <1>7, <1>8, QuietStep

LEMMA ForgetIndexHeads ==
  ASSUME HeadsInv, NEW c \in Call, ForgetIndex(c)
  PROVE  HeadsInv'
<1>1. /\ call[c].pc = "unindex" /\ indexed' = indexed \ {call[c].sid} /\ Go(c, "delete")
      /\ UNCHANGED <<head, body, queued, catalog, mem, flush, begun, raced, reported, cut, faults>>
  BY DEF ForgetIndex, At
<1>2. /\ SessionTypes /\ DeviceTypes /\ call[c].op = "forget" /\ CallStage(c) /\ call[c] \in CallRow
      /\ Forgetting(c) /\ "delete" \in Stage
  BY <1>1, OpAtStage DEF HeadsInv, CallStage, Stage
<1>3. Others(c) /\ SameCall(c) /\ SameEdge(c) /\ call'[c].todo = call[c].todo /\ call'[c].pc = "delete"
  BY <1>1, <1>2, Goes
<1>4. DeviceTypes'
  BY <1>1, <1>2 DEF DeviceTypes
<1>5. Saving(c)' /\ Linking(c)' /\ Forgetting(c)'
  <2>1. call'[c].op = "forget" /\ call'[c].sid = call[c].sid /\ call'[c].view = call[c].view
    BY <1>2, <1>3 DEF SameCall
  <2>2. Forgetting(c)'
    BY <1>1, <1>2, <1>3, <2>1 DEF Forgetting
  <2> QED BY <2>1, <2>2 DEF Saving, Linking
<1>6. CallStage(c)' /\ CallSeen(c)'
  BY <1>2, <1>3, <1>5 DEF CallStage, CallSeen, SameCall
<1>7. ~Past(c)
  BY <1>2 DEF Past
<1> QED BY <1>1, <1>2, <1>3, <1>4, <1>6, <1>7, QuietStep

(* A call under way goes on, and one head changes. *)
LEMMA HeadStep ==
  ASSUME HeadsInv, NEW c \in Call, Others(c), SameCall(c), call[c].op # "none",
         Past(c) => call'[c].pc \notin {"write", "abandon"}, CallStage(c)', CallSeen(c)',
         NEW s \in Session, NEW row \in HeadRow, head' = [head EXCEPT ![s] = row],
         (row.version = 0 => row = NoHead), Moves(s), HeadInv(s)',
         UNCHANGED begun, DeviceTypes'
  PROVE  HeadsInv'
<1>1. \A d \in Call : Keeps(d)
  BY DEF Keeps, Others, SameCall, Past
<1>2. head \in [Session -> HeadRow] /\ \A r \in Session : ~Held(r) => head[r] = NoHead
  BY DEF HeadsInv, SessionTypes
<1>3. /\ head' \in [Session -> HeadRow] /\ head'[s] = row
      /\ \A r \in Session : r # s => head'[r] = head[r]
  BY <1>2
<1>4. ASSUME NEW r \in Session PROVE ~Held(r)' => head'[r] = NoHead
  <2>1. CASE r = s
    <3>1. row.version \in Nat
      BY DEF HeadRow
    <3> QED BY <1>3, <2>1, <3>1 DEF Held
  <2>2. CASE r # s
    BY <1>2, <1>3, <2>2 DEF Held
  <2> QED BY <2>1, <2>2
<1>5. SessionTypes'
  <2>1. begun' \subseteq Session
    BY DEF HeadsInv, SessionTypes
  <2> QED BY <1>3, <1>4, <2>1 DEF SessionTypes, Others
<1>6. \A r \in Session : Moves(r) /\ (head'[r] # head[r] => r = s)
  BY <1>3 DEF Moves
<1> QED BY <1>1, <1>5, <1>6, HeadsStep DEF Others

LEMMA ForgetHeadHeads ==
  ASSUME HeadsInv, NEW c \in Call, ForgetHead(c)
  PROVE  HeadsInv'
<1>1. /\ call[c].pc = "delete" /\ Go(c, "done")
      /\ head' = IF Deletes(call[c].sid, call[c].view.version) THEN [head EXCEPT ![call[c].sid] = NoHead] ELSE head
      /\ UNCHANGED <<indexed, body, queued, catalog, mem, flush, begun, raced, reported, cut, faults>>
  BY DEF ForgetHead, At
<1>2. /\ SessionTypes /\ DeviceTypes /\ call[c].op = "forget" /\ CallStage(c) /\ call[c] \in CallRow
      /\ Forgetting(c) /\ CallView(c) /\ "done" \in Stage
  BY <1>1, OpAtStage DEF HeadsInv, CallStage, Stage
<1>3. /\ Others(c) /\ SameCall(c) /\ SameEdge(c) /\ call'[c].todo = call[c].todo /\ call'[c].pc = "done"
  BY <1>1, <1>2, Goes
<1>4. DeviceTypes'
  BY <1>1, <1>2 DEF DeviceTypes
<1>5. CallStage(c)' /\ CallSeen(c)'
  <2>1. call'[c].pc \in {"done", "refused"} /\ call[c].op # "none"
    BY <1>2, <1>3
  <2> QED BY <1>2, <1>3, <2>1, ReturnsStage DEF SameEdge
<1>6. PICK s \in Session : s = call[c].sid
  BY <1>2 DEF Forgetting, CallView
<1>7. CASE Deletes(s, call[c].view.version)
  <2>1. head' = [head EXCEPT ![s] = NoHead] /\ NoHead \in HeadRow
    BY <1>1, <1>6, <1>7, FreshIsTyped
  <2>2. Held(s) /\ s \in begun' /\ head'[s] = NoHead
    BY <1>1, <1>2, <1>6, <1>7, <2>1 DEF Deletes, Held, Forgetting, SessionTypes
  <2>3. Moves(s)
    BY <2>2 DEF Moves
  <2>4. HeadInv(s)'
    BY <2>2, FreshIsTyped DEF HeadInv, Held
  <2> QED BY <1>1, <1>2, <1>3, <1>4, <1>5, <2>1, <2>3, <2>4, HeadStep DEF Past
<1>8. CASE ~Deletes(s, call[c].view.version)
  <2>1. UNCHANGED head
    BY <1>1, <1>6, <1>8
  <2> QED BY <1>1, <1>2, <1>3, <1>4, <1>5, <2>1, QuietStep DEF Past
<1> QED BY <1>7, <1>8

LEMMA PutHeadHeads ==
  ASSUME HeadsInv, NEW c \in Call, PutHead(c)
  PROVE  HeadsInv'
<1>1. /\ call[c].pc = "write"
      /\ UNCHANGED <<indexed, body, queued, catalog, mem, flush, begun, raced, reported, cut, faults>>
  BY DEF PutHead, At
<1>2. /\ SessionTypes /\ DeviceTypes /\ call[c].op = "save" /\ CallStage(c) /\ call[c] \in CallRow
      /\ Saving(c) /\ CallView(c) /\ ~Past(c)
  BY <1>1, OpAtStage DEF HeadsInv, CallStage, Past
<1>3. DeviceTypes'
  BY <1>1, <1>2 DEF DeviceTypes
<1>4. PICK s \in Session : s = call[c].sid
  BY <1>2 DEF Saving
<1>5. PICK view \in HeadRow : view = call[c].view
  BY <1>2 DEF CallRow
<1>6. CASE Accepts(s, view.version)
  <2> DEFINE row == [view EXCEPT !.version = view.version + 1, !.chunks = view.chunks \cup call[c].todo]
  <2>1. head' = [head EXCEPT ![s] = row] /\ call' = [call EXCEPT ![c].pc = "index", ![c].todo = {}]
    BY <1>4, <1>5, <1>6 DEF PutHead, HeadRow
  <2>2. /\ row \in HeadRow /\ row.version = view.version + 1 /\ row.chunks = view.chunks \cup call[c].todo
        /\ row.edges = view.edges /\ row.parent = view.parent /\ row.version # 0
    <3>1. /\ view.version + 1 \in Nat /\ view.version + 1 # 0 /\ view.chunks \cup call[c].todo \subseteq Chunk
          /\ view.edges \in SUBSET Edge /\ view.parent \in Session \cup {NoSession}
      BY <1>2 DEF HeadRow, CallRow
    <3>2. /\ row.version = view.version + 1 /\ row.chunks = view.chunks \cup call[c].todo
          /\ row.edges = view.edges /\ row.parent = view.parent
      BY DEF HeadRow
    <3>3. row \in HeadRow
      BY <3>1 DEF HeadRow
    <3> QED BY <3>1, <3>2, <3>3
  <2> HIDE DEF row
  <2>3. "index" \in Stage /\ {} \in SUBSET Chunk
    BY DEF Stage
  <2>4. Others(c) /\ SameCall(c) /\ SameEdge(c) /\ call'[c].pc = "index" /\ call'[c].todo = {}
    BY <1>2, <2>1, <2>3, GoesWith
  <2>5. head'[s] = row
    BY <1>2, <2>1 DEF SessionTypes
  <2>6. \A d \in Call : Keeps(d)
    BY <1>2, <2>4 DEF Keeps, Others, SameCall, Past
  <2>7. head[s].version = view.version /\ view.version \in Nat
    BY <1>6 DEF Accepts, HeadRow
  <2>8. Past(c)' /\ call'[c].sid = s /\ call'[c].view = view
    BY <1>2, <1>4, <1>5, <2>4 DEF Past, SameCall
  <2>9. Moves(s)
    <3>1. CASE view.version = 0
      BY <1>2, <1>4, <1>5, <3>1 DEF Saving, Moves
    <3>2. CASE view.version # 0
      BY <2>2, <2>5, <2>7, <3>2 DEF Moves, Held
    <3> QED BY <3>1, <3>2
  <2>10. HeadInv(s)'
    <3>1. Born(s)' /\ view.parent = ParentOf(s)'
      <4>1. CASE view.version = 0
        <5>1. s = c /\ c # First
          BY <1>2, <1>4, <1>5, <4>1, NameAssumption DEF Saving
        <5> QED BY <4>1, <5>1, <2>8 DEF Born, ParentOf
      <4>2. CASE view.version # 0
        BY <1>2, <1>4, <1>5, <2>6, <2>7, <4>2, BornStays DEF CallView
      <4> QED BY <4>1, <4>2
    <3>2. ASSUME NEW k \in row.chunks PROVE Names(k, s)'
      <4>1. CASE k \in call[c].todo
        BY <1>2, <2>8, <4>1 DEF Names, Saving
      <4>2. CASE k \in view.chunks
        <5>1. view.version > 0
          BY <1>2, <1>5, <2>7, <4>2 DEF Saving
        <5> QED BY <1>2, <1>4, <1>5, <2>6, <4>2, <5>1, BornStays DEF CallView
      <4> QED BY <2>2, <4>1, <4>2
    <3>3. ASSUME NEW r \in Session, <<r, "child">> \in row.edges
          PROVE  r \in Call /\ Born(r)' /\ call'[r].view.parent = s
      <4>1. view.version > 0
        BY <1>2, <1>5, <2>2, <2>7, <3>3 DEF Saving
      <4>2. view = head[s]
        BY <1>2, <1>4, <1>5, <2>7, <4>1 DEF CallView, Agrees, Held
      <4>3. r \in Call /\ Born(r) /\ call[r].view.parent = s /\ r # First
        BY <2>2, <3>3, <4>2, NameAssumption DEF HeadsInv, HeadInv
      <4>4. Born(r)' /\ ParentOf(r)' = ParentOf(r)
        BY <2>6, <4>3, BornStays
      <4> QED BY <4>3, <4>4 DEF ParentOf
    <3> QED BY <2>2, <2>5, <3>1, <3>2, <3>3 DEF HeadInv
  <2>11. Saving(c)' /\ Linking(c)' /\ Forgetting(c)'
    <3>1. call'[c].op = "save"
      BY <1>2, <2>4 DEF SameCall
    <3>2. Saving(c)'
      BY <1>2, <1>4, <1>5, <2>4, <2>8 DEF Saving
    <3> QED BY <3>1, <3>2 DEF Linking, Forgetting
  <2>12. CallStage(c)' /\ CallSeen(c)'
    BY <1>2, <2>4, <2>11 DEF CallStage, CallSeen, SameCall
  <2>13. UNCHANGED begun /\ call[c].op # "none"
    BY <1>1, <1>2
  <2> QED BY <1>2, <1>3, <2>1, <2>2, <2>4, <2>9, <2>10, <2>12, <2>13, HeadStep
<1>7. CASE ~Accepts(s, view.version)
  <2>1. Go(c, "abandon") /\ UNCHANGED head /\ "abandon" \in Stage
    BY <1>4, <1>5, <1>7 DEF PutHead, Stage
  <2>2. Others(c) /\ SameCall(c) /\ SameEdge(c) /\ call'[c].pc = "abandon" /\ call'[c].todo = call[c].todo
    BY <1>2, <2>1, Goes
  <2>3. Saving(c)' /\ Linking(c)' /\ Forgetting(c)'
    BY <1>2, <2>2 DEF CallStage, Saving, Linking, Forgetting, Past, SameCall
  <2>4. CallStage(c)' /\ CallSeen(c)'
    BY <1>2, <2>2, <2>3 DEF CallStage, CallSeen, SameCall
  <2> QED BY <1>1, <1>2, <1>3, <2>1, <2>2, <2>4, QuietStep
<1> QED BY <1>6, <1>7

LEMMA EdgeReadHeads ==
  ASSUME HeadsInv, NEW c \in Call, EdgeRead(c)
  PROVE  HeadsInv'
<1> DEFINE t == call[c].target
           pc == IF Held(t) /\ Revised(c, head[t].edges) # head[t].edges THEN "revise" ELSE AfterEdge(c)
           row == [call[c] EXCEPT !.seen = head[t], !.pc = pc]
<1>1. call[c].pc = "edge"
      /\ UNCHANGED <<head, indexed, body, queued, catalog, mem, flush, begun, raced, reported, cut, faults>>
  BY DEF EdgeRead, At
<1>2. /\ SessionTypes /\ DeviceTypes /\ CallStage(c) /\ call[c] \in CallRow /\ call[c].op # "none"
      /\ t \in Session
  BY <1>1, OpAtStage DEF CallStage
<1>3. call' = [call EXCEPT ![c] = row]
  BY <1>2 DEF EdgeRead, SessionTypes
<1>4. head[t] \in HeadRow /\ head[t].version \in Nat
  BY <1>2 DEF SessionTypes, HeadRow
<1>5. pc \in Stage /\ (pc = "revise" => Held(t)) /\ pc \in {"revise", AfterEdge(c)}
      /\ AfterEdge(c) \in {"unindex", "done"} /\ (AfterEdge(c) = "unindex" <=> call[c].op = "forget")
  BY DEF Stage, AfterEdge
<1> HIDE DEF t, pc
<1>6. /\ row \in CallRow /\ row.op = call[c].op /\ row.sid = call[c].sid /\ row.view = call[c].view
      /\ row.target = call[c].target /\ row.edge = call[c].edge /\ row.seen = head[t]
      /\ row.pc = pc /\ row.todo = call[c].todo
  BY <1>2, <1>4, <1>5 DEF CallRow
<1> HIDE DEF row
<1>7. Others(c) /\ call'[c] = row
  BY <1>2, <1>3, <1>6, OneCall DEF Others
<1>8. SameCall(c) /\ call'[c].edge = call[c].edge /\ call'[c].target = t
  BY <1>6, <1>7 DEF SameCall, t
<1>9. DeviceTypes'
  BY <1>1, <1>2 DEF DeviceTypes
<1>10. Saving(c)'
  BY <1>1, <1>2, <1>5, <1>6, <1>7 DEF CallStage, Saving, Past
<1>11. Linking(c)'
  BY <1>1, <1>2, <1>5, <1>6, <1>7 DEF CallStage, Linking
<1>12. Forgetting(c)'
  BY <1>1, <1>2, <1>5, <1>6, <1>7 DEF CallStage, Forgetting
<1>13. CallStage(c)'
  BY <1>2, <1>5, <1>6, <1>7, <1>8, <1>10, <1>11, <1>12 DEF CallStage
<1>14. CallSeen(c)'
  <2> SUFFICES ASSUME pc = "revise" PROVE CallSeen(c)'
    BY <1>6, <1>7 DEF CallSeen
  <2>1. PICK u \in Session : u = t
    BY <1>2
  <2>2. Held(u) /\ Born(u)
    BY <1>5, <2>1 DEF HeadsInv, HeadInv
  <2>3. \A d \in Call : Keeps(d)
    BY <1>1, <1>5, <1>6, <1>7 DEF Keeps, Others, Past
  <2>4. Born(u)'
    BY <2>2, <2>3, BornStays
  <2>5. Agrees(head[u], u)' /\ head[u].version > 0
    BY <1>1, <1>4, <2>1, <2>2 DEF Agrees, Held
  <2>6. call'[c].seen = head[u] /\ call'[c].target = u /\ head'[u] = head[u]
    BY <1>1, <1>6, <1>7, <1>8, <2>1
  <2> QED BY <2>4, <2>5, <2>6 DEF CallSeen
<1>15. Past(c) => call'[c].pc \notin {"write", "abandon"}
  BY <1>5, <1>6, <1>7
<1> QED BY <1>1, <1>2, <1>7, <1>8, <1>9, <1>13, <1>14, <1>15, QuietStep

(* An edge written onto a head, or taken off it. *)
LEMMA EdgeWriteHeads ==
  ASSUME HeadsInv, NEW c \in Call, EdgeWrite(c)
  PROVE  HeadsInv'
<1>1. /\ call[c].pc = "revise"
      /\ UNCHANGED <<indexed, body, queued, catalog, mem, flush, begun, raced, reported, cut, faults>>
  BY DEF EdgeWrite, At
<1>2. /\ SessionTypes /\ DeviceTypes /\ CallStage(c) /\ call[c] \in CallRow /\ call[c].op # "none"
      /\ CallSeen(c) /\ Saving(c) /\ Linking(c) /\ Forgetting(c)
  BY <1>1, OpAtStage DEF CallStage, HeadsInv
<1>3. DeviceTypes'
  BY <1>1, <1>2 DEF DeviceTypes
<1>4. PICK t \in Session : t = call[c].target
  BY <1>1, <1>2 DEF CallStage
<1>5. PICK seen \in HeadRow : seen = call[c].seen
  BY <1>2 DEF CallRow
<1>6. AfterEdge(c) \in Stage /\ AfterEdge(c) \in {"unindex", "done"}
      /\ (AfterEdge(c) = "unindex" <=> call[c].op = "forget")
  BY DEF AfterEdge, Stage
(* The call goes past the edge. *)
<1>7. ASSUME Go(c, AfterEdge(c))
      PROVE  /\ Others(c) /\ SameCall(c) /\ SameEdge(c) /\ call'[c].pc = AfterEdge(c)
             /\ CallSeen(c)' /\ (UNCHANGED begun => CallStage(c)')
  <2>1. Others(c) /\ SameCall(c) /\ SameEdge(c) /\ call'[c].pc = AfterEdge(c) /\ call'[c].todo = call[c].todo
    BY <1>2, <1>6, <1>7, Goes
  <2>2. ASSUME UNCHANGED begun PROVE Saving(c)' /\ Linking(c)' /\ Forgetting(c)'
    <3>1. Saving(c)'
      BY <1>1, <1>2, <1>6, <2>1 DEF Saving, Past, SameCall
    <3>2. Linking(c)'
      BY <1>1, <1>2, <1>6, <2>1 DEF Linking, SameCall, SameEdge
    <3>3. Forgetting(c)'
      BY <1>1, <1>2, <1>6, <2>1, <2>2 DEF Forgetting, SameCall
    <3> QED BY <3>1, <3>2, <3>3
  <2>3. UNCHANGED begun => CallStage(c)'
    BY <1>2, <1>6, <2>1, <2>2 DEF CallStage, SameCall
  <2> QED BY <1>6, <2>1, <2>3 DEF CallSeen
<1>8. CASE Accepts(t, seen.version)
  <2> DEFINE edges == Revised(c, seen.edges)
             row == [seen EXCEPT !.version = seen.version + 1, !.edges = edges]
  <2>1. head' = [head EXCEPT ![t] = row] /\ Go(c, AfterEdge(c))
    BY <1>4, <1>5, <1>8 DEF EdgeWrite, HeadRow
  <2>2. call[c].edge \in Edge /\ seen.edges \in SUBSET Edge /\ seen.version \in Nat
    BY <1>2 DEF CallRow, HeadRow
  <2>3. edges \in SUBSET Edge /\ \A e \in edges : e \in seen.edges \/ (e = call[c].edge /\ call[c].op # "forget")
    BY <2>2 DEF Revised
  <2> HIDE DEF edges
  <2>4. /\ row \in HeadRow /\ row.version = seen.version + 1 /\ row.chunks = seen.chunks
        /\ row.edges = edges /\ row.parent = seen.parent
    <3>1. seen.version + 1 \in Nat /\ edges \in SUBSET Edge
      BY <2>2, <2>3
    <3>2. /\ row.version = seen.version + 1 /\ row.chunks = seen.chunks
          /\ row.edges = edges /\ row.parent = seen.parent
      BY DEF HeadRow
    <3>3. row \in HeadRow
      BY <3>1 DEF HeadRow
    <3> QED BY <3>2, <3>3
  <2> HIDE DEF row
  <2>5. head'[t] = row /\ row.version # 0
    BY <1>2, <2>1, <2>2, <2>4 DEF SessionTypes
  <2>6. seen = head[t] /\ Held(t) /\ Born(t)
    BY <1>1, <1>2, <1>4, <1>5, <1>8, <2>2 DEF CallSeen, Accepts, Agrees, Held
  <2>7. Moves(t)
    BY <2>4, <2>5, <2>6 DEF Moves
  <2>8. Others(c) /\ SameCall(c) /\ SameEdge(c) /\ call'[c].pc = AfterEdge(c) /\ CallSeen(c)' /\ CallStage(c)'
    BY <1>1, <1>7, <2>1
  <2>9. \A d \in Call : Keeps(d)
    BY <1>6, <2>8 DEF Keeps, Others, SameCall, Past
  <2>10. HeadInv(t)'
    <3>1. HeadInv(t)
      BY DEF HeadsInv
    <3>2. Born(t)' /\ row.parent = ParentOf(t)'
      BY <2>4, <2>6, <2>9, <3>1, BornStays DEF HeadInv
    <3>3. \A k \in row.chunks : Names(k, t)'
      BY <2>4, <2>6, <2>9, <3>1, BornStays DEF HeadInv
    <3>4. ASSUME NEW r \in Session, <<r, "child">> \in row.edges
          PROVE  r \in Call /\ Born(r) /\ call[r].view.parent = t
      <4>1. CASE <<r, "child">> \in seen.edges
        BY <2>6, <3>1, <4>1 DEF HeadInv
      <4>2. CASE <<r, "child">> = call[c].edge /\ call[c].op # "forget"
        <5>1. call[c].op = "save" \/ call[c].op = "link"
          BY <1>2, <4>2 DEF CallRow
        <5>2. call[c].op = "save" /\ call[c].edge = <<c, "child">>
          BY <1>1, <1>2, <4>2, <5>1 DEF Saving, Linking
        <5>3. r = c
          BY <4>2, <5>2
        <5>4. Past(c)
          BY <1>1, <5>2 DEF Past
        <5> QED BY <1>1, <1>2, <1>4, <5>2, <5>3, <5>4 DEF Saving, Born
      <4> QED BY <2>3, <2>4, <3>4, <4>1, <4>2
    <3>5. ASSUME NEW r \in Session, <<r, "child">> \in row.edges
          PROVE  r \in Call /\ Born(r)' /\ call'[r].view.parent = t
      <4>1. r \in Call /\ Born(r) /\ call[r].view.parent = t /\ r # First
        BY <3>4, <3>5, NameAssumption
      <4>2. Born(r)' /\ ParentOf(r)' = ParentOf(r)
        BY <2>9, <4>1, BornStays
      <4> QED BY <4>1, <4>2 DEF ParentOf
    <3> QED BY <2>5, <3>2, <3>3, <3>5 DEF HeadInv
  <2>11. Past(c) => call'[c].pc \notin {"write", "abandon"}
    BY <1>6, <2>8
  <2>12. UNCHANGED begun
    BY <1>1
  <2> QED BY <1>2, <1>3, <2>1, <2>4, <2>5, <2>7, <2>8, <2>10, <2>11, <2>12, HeadStep
<1>9. CASE ~Accepts(t, seen.version)
  <2>1. UNCHANGED <<head, begun>>
    BY <1>1, <1>4, <1>5, <1>9 DEF EdgeWrite
  <2>2. CASE ~Held(t)
    <3>1. Go(c, AfterEdge(c))
      BY <1>4, <1>5, <1>9, <2>2 DEF EdgeWrite, Go
    <3>2. Others(c) /\ SameCall(c) /\ call'[c].pc = AfterEdge(c) /\ CallSeen(c)' /\ CallStage(c)'
      BY <1>7, <2>1, <3>1
    <3>3. Past(c) => call'[c].pc \notin {"write", "abandon"}
      BY <1>6, <3>2
    <3> QED BY <1>2, <1>3, <2>1, <3>2, <3>3, QuietStep
  <2>3. CASE Held(t) /\ call[c].attempt < HeadRevisions
    <3> DEFINE row == [call[c] EXCEPT !.attempt = call[c].attempt + 1, !.pc = "edge"]
    <3>1. call' = [call EXCEPT ![c] = row]
      BY <1>2, <1>4, <1>5, <1>9, <2>3 DEF EdgeWrite, Retry, SessionTypes
    <3>2. call[c].attempt + 1 \in 1..HeadRevisions /\ "edge" \in Stage
      BY <1>2, <2>3, BoundAssumption DEF CallRow, Stage
    <3>3. /\ row \in CallRow /\ row.op = call[c].op /\ row.sid = call[c].sid /\ row.view = call[c].view
          /\ row.target = call[c].target /\ row.edge = call[c].edge /\ row.pc = "edge"
          /\ row.todo = call[c].todo
      BY <1>2, <3>2 DEF CallRow
    <3> HIDE DEF row
    <3>4. Others(c) /\ call'[c] = row
      BY <1>2, <3>1, <3>3, OneCall DEF Others
    <3>5. Saving(c)'
      BY <1>1, <1>2, <3>3, <3>4 DEF Saving, Past
    <3>6. Linking(c)'
      BY <1>1, <1>2, <3>3, <3>4 DEF Linking
    <3>7. Forgetting(c)'
      BY <1>1, <1>2, <2>1, <3>3, <3>4 DEF Forgetting
    <3>8. CallStage(c)' /\ CallSeen(c)'
      BY <1>2, <1>4, <3>3, <3>4, <3>5, <3>6, <3>7 DEF CallStage, CallSeen
    <3>9. SameCall(c) /\ (Past(c) => call'[c].pc \notin {"write", "abandon"})
      BY <3>3, <3>4 DEF SameCall
    <3> QED BY <1>2, <1>3, <2>1, <3>4, <3>8, <3>9, QuietStep
  <2>4. CASE Held(t) /\ ~(call[c].attempt < HeadRevisions)
    <3>1. Go(c, "refused") /\ "refused" \in Stage
      BY <1>4, <1>5, <1>9, <2>4 DEF EdgeWrite, Go, Stage
    <3>2. Others(c) /\ SameCall(c) /\ SameEdge(c) /\ call'[c].pc = "refused" /\ call'[c].todo = call[c].todo
      BY <1>2, <3>1, Goes
    <3>3. call'[c].pc \in {"done", "refused"} /\ call'[c].edge = call[c].edge
          /\ (call[c].op = "save" => Past(c))
      BY <1>1, <3>2 DEF SameEdge, Past
    <3> QED BY <1>2, <1>3, <2>1, <3>2, <3>3, ReturnStep
  <2> QED BY <2>2, <2>3, <2>4
<1> QED BY <1>8, <1>9

LEMMA FlushHeads ==
  ASSUME HeadsInv, NEW p \in Process,
         FlushClaim(p) \/ FlushCatalog(p) \/ FlushDrop(p) \/ FlushFails(p)
  PROVE  HeadsInv'
<1>1. UNCHANGED <<head, indexed, body, call, begun, raced, reported, cut>>
  BY DEF FlushClaim, FlushCatalog, FlushDrop, FlushFails
<1>2. SessionTypes /\ DeviceTypes /\ flush[p] \in FlushRow
  BY DEF HeadsInv, SessionTypes, DeviceTypes
<1>3. flush' \in [Process -> FlushRow]
  <2>1. Quiet \in FlushRow
    BY DEF Quiet, FlushRow
  <2>2. queued \ Claimed \subseteq Chunk
    BY <1>2 DEF DeviceTypes
  <2>3. [pc |-> "write", batch |-> queued \ Claimed] \in FlushRow
    BY <2>2 DEF FlushRow
  <2>4. [flush[p] EXCEPT !.pc = "drop"] \in FlushRow
    BY <1>2 DEF FlushRow
  <2>5. \E row \in FlushRow : flush' = [flush EXCEPT ![p] = row]
    <3>1. CASE FlushClaim(p)
      BY <3>1, <2>3 DEF FlushClaim
    <3>2. CASE FlushCatalog(p)
      BY <3>2, <2>4 DEF FlushCatalog
    <3>3. CASE FlushDrop(p) \/ FlushFails(p)
      BY <3>3, <2>1 DEF FlushDrop, FlushFails
    <3> QED BY <3>1, <3>2, <3>3
  <2> QED BY <1>2, <2>5 DEF DeviceTypes
<1>4. catalog' \subseteq Chunk /\ mem' \in [Process -> SUBSET Chunk]
  <2>1. CASE FlushCatalog(p)
    BY <1>2, <2>1 DEF FlushCatalog, DeviceTypes, FlushRow
  <2>2. CASE ~FlushCatalog(p)
    BY <1>2, <2>2 DEF FlushClaim, FlushDrop, FlushFails, DeviceTypes
  <2> QED BY <2>1, <2>2
<1>5. queued' \subseteq Chunk
  BY <1>2 DEF FlushClaim, FlushCatalog, FlushDrop, FlushFails, DeviceTypes
<1>6. faults' \in 0..MaxFault
  <2>1. CASE FlushFails(p)
    BY <1>2, <2>1, FaultTypes DEF FlushFails
  <2>2. CASE ~FlushFails(p)
    BY <1>2, <2>2 DEF FlushClaim, FlushDrop, FlushCatalog, DeviceTypes
  <2> QED BY <2>1, <2>2
<1>7. DeviceTypes'
  BY <1>1, <1>2, <1>3, <1>4, <1>5, <1>6 DEF DeviceTypes
<1>8. SessionTypes'
  BY <1>1, <1>2, <1>7 DEF SessionTypes, Held
<1>9. \A d \in Call : Keeps(d) /\ call'[d] = call[d]
  BY <1>1 DEF Keeps, Past
<1>10. \A s \in Session : Moves(s) /\ head'[s] = head[s]
  BY <1>1 DEF Moves
<1>11. begun' = begun
  BY <1>1
<1> QED BY <1>8, <1>9, <1>10, <1>11, HeadsStep

(* The calls a crash of their process ends. *)
Mine(p) == {c \in Call : Serves[c] = p /\ call[c].pc \notin {"idle", "done", "refused"}}

LEMMA CrashCalls ==
  ASSUME HeadsInv, NEW p \in Process, Crash(p)
  PROVE  /\ call' \in [Call -> CallRow]
         /\ \A c \in Call : c \notin Mine(p) => call'[c] = call[c]
         /\ \A c \in Mine(p) : /\ call[c].op # "none" /\ SameCall(c) /\ SameEdge(c)
                               /\ call'[c].pc = "done" /\ call'[c].todo = {}
<1>1. call' = [c \in Call |-> IF c \in Mine(p) THEN [call[c] EXCEPT !.pc = "done", !.todo = {}] ELSE call[c]]
  BY DEF Crash, Mine
<1>2. ASSUME NEW c \in Mine(p)
      PROVE  /\ call'[c] \in CallRow /\ call[c].op # "none" /\ SameCall(c) /\ SameEdge(c)
             /\ call'[c].pc = "done" /\ call'[c].todo = {}
  <2>1. c \in Call /\ call[c].pc # "idle"
    BY DEF Mine
  <2>2. call[c] \in CallRow /\ call[c].op # "none"
    BY <2>1, OpAtStage
  <2> DEFINE row == [call[c] EXCEPT !.pc = "done", !.todo = {}]
  <2>3. call'[c] = row
    BY <1>1, <2>1
  <2>4. /\ row \in CallRow /\ row.op = call[c].op /\ row.sid = call[c].sid /\ row.view = call[c].view
        /\ row.target = call[c].target /\ row.edge = call[c].edge /\ row.seen = call[c].seen
        /\ row.pc = "done" /\ row.todo = {}
    BY <2>2 DEF CallRow, Stage
  <2> HIDE DEF row
  <2> QED BY <2>2, <2>3, <2>4 DEF SameCall, SameEdge
<1>3. \A c \in Call : c \notin Mine(p) => call'[c] = call[c] /\ call'[c] \in CallRow
  BY <1>1 DEF HeadsInv, SessionTypes
<1>4. call' \in [Call -> CallRow]
  BY <1>1, <1>2, <1>3
<1> QED BY <1>2, <1>3, <1>4

LEMMA CrashHeads ==
  ASSUME HeadsInv, NEW p \in Process, Crash(p)
  PROVE  HeadsInv'
<1>1. /\ faults < MaxFault /\ faults' = faults + 1 /\ flush' = [flush EXCEPT ![p] = Quiet]
      /\ mem' = [mem EXCEPT ![p] = catalog]
      /\ cut' = cut \cup UNION {call[c].todo : c \in {c \in Mine(p) : call[c].op = "save"}}
      /\ UNCHANGED <<head, indexed, body, queued, catalog, begun, raced, reported>>
  BY DEF Crash, Mine
<1>2. SessionTypes /\ DeviceTypes
  BY DEF HeadsInv, SessionTypes
<1>3. /\ call' \in [Call -> CallRow]
      /\ \A c \in Call : c \notin Mine(p) => call'[c] = call[c]
      /\ \A c \in Mine(p) : /\ call[c].op # "none" /\ SameCall(c) /\ SameEdge(c)
                            /\ call'[c].pc = "done" /\ call'[c].todo = {}
  BY CrashCalls
<1>4. \A d \in Call : Keeps(d)
  BY <1>3 DEF Keeps, SameCall, Past
<1>5. DeviceTypes'
  <2>1. flush' \in [Process -> FlushRow]
    BY <1>1, <1>2 DEF DeviceTypes, Quiet, FlushRow
  <2>2. cut' \subseteq Chunk
    <3>1. \A c \in Mine(p) : call[c].todo \subseteq Chunk
      BY <1>2 DEF SessionTypes, CallRow, Mine
    <3> QED BY <1>1, <1>2, <3>1 DEF DeviceTypes
  <2>3. mem' \in [Process -> SUBSET Chunk]
    BY <1>1, <1>2 DEF DeviceTypes
  <2> QED BY <1>1, <1>2, <2>1, <2>2, <2>3, FaultTypes DEF DeviceTypes
<1>6. SessionTypes'
  BY <1>1, <1>2, <1>3, <1>5 DEF SessionTypes, Held
<1>7. ASSUME NEW d \in Call, call'[d] # call[d]
      PROVE  call[d].op # "none" /\ CallStage(d)' /\ CallSeen(d)'
  <2>1. d \in Mine(p)
    BY <1>3, <1>7
  <2>2. /\ call[d].op # "none" /\ SameCall(d) /\ SameEdge(d)
        /\ call'[d].pc = "done" /\ call'[d].todo = {}
    BY <1>3, <2>1
  <2>3. CallStage(d)
    BY DEF HeadsInv
  <2>4. Saving(d)'
    BY <2>2, <2>3 DEF CallStage, Saving, Past, SameCall
  <2>5. Linking(d)'
    BY <2>2, <2>3 DEF CallStage, Linking, SameCall, SameEdge
  <2>6. Forgetting(d)'
    BY <2>2, <2>3 DEF CallStage, Forgetting, SameCall
  <2> QED BY <2>2, <2>3, <2>4, <2>5, <2>6 DEF CallStage, CallSeen, SameCall
<1>8. \A s \in Session : Moves(s) /\ head'[s] = head[s]
  BY <1>1 DEF Moves
<1>9. begun' = begun
  BY <1>1
<1> QED BY <1>4, <1>6, <1>7, <1>8, <1>9, HeadsStep

LEMMA InitHeads == Init => HeadsInv
<1> SUFFICES ASSUME Init PROVE HeadsInv
  OBVIOUS
<1>1. Stored \subseteq Chunk /\ Stored \in SUBSET Chunk
  BY BoundAssumption DEF Stored, Chunk, Session
<1> DEFINE one == [NoHead EXCEPT !.version = 1, !.chunks = Stored]
<1>2. one \in HeadRow /\ one.version = 1 /\ one.chunks = Stored /\ one.edges = {} /\ one.parent = NoSession
  BY <1>1 DEF NoHead, HeadRow
<1>3. head = [s \in Session |-> IF s = First THEN one ELSE NoHead]
  BY DEF Init
<1> HIDE DEF one
<1>4. /\ head \in [Session -> HeadRow] /\ \A s \in Session : ~Held(s) => head[s] = NoHead
      /\ \A s \in Session : IF s = First THEN head[s] = one ELSE head[s] = NoHead
  BY <1>2, <1>3, FreshIsTyped DEF Held
<1>5. DeviceTypes
  BY <1>1, BoundAssumption DEF Init, DeviceTypes, Quiet, FlushRow, Session
<1>6. SessionTypes /\ \A c \in Call : call[c] = Fresh
  BY <1>4, <1>5, FreshIsTyped DEF Init, SessionTypes
<1>7. ASSUME NEW s \in Session PROVE HeadInv(s)
  <2>1. CASE s = First
    <3>1. \A k \in Stored : k[1] = First
      BY DEF Stored
    <3> QED BY <1>2, <1>4, <2>1, <3>1 DEF HeadInv, Born, ParentOf, Names
  <2>2. CASE s # First
    BY <1>4, <2>2, FreshIsTyped DEF HeadInv, Held
  <2> QED BY <2>1, <2>2
<1>8. ASSUME NEW c \in Call PROVE CallStage(c) /\ CallView(c) /\ CallSeen(c)
  BY <1>6, FreshIsTyped DEF CallStage, CallView, CallSeen, Saving, Linking, Forgetting
<1>9. begun = {}
  BY DEF Init
<1> QED BY <1>6, <1>7, <1>8, <1>9 DEF HeadsInv

LEMMA NextHeads == HeadsInv /\ [Next]_vars => HeadsInv'
<1> SUFFICES ASSUME HeadsInv, [Next]_vars PROVE HeadsInv'
  OBVIOUS
<1>1. CASE UNCHANGED vars
  <2>1. SessionTypes'
    BY <1>1 DEF vars, HeadsInv, SessionTypes, DeviceTypes, Held
  <2>2. \A d \in Call : Keeps(d) /\ call'[d] = call[d]
    BY <1>1 DEF vars, Keeps, Past
  <2>3. \A s \in Session : Moves(s) /\ head'[s] = head[s]
    BY <1>1 DEF vars, Moves
  <2>4. begun' = begun
    BY <1>1 DEF vars
  <2> QED BY <2>1, <2>2, <2>3, <2>4, HeadsStep
<1>2. ASSUME NEW c \in Call,
             \/ WriteChunk(c) \/ SaveStops(c) \/ PutHead(c) \/ Abandoned(c) \/ IndexHead(c)
             \/ EdgeRead(c) \/ EdgeWrite(c)
             \/ ForgetWithdraw(c) \/ ForgetEdge(c) \/ ForgetIndex(c) \/ ForgetHead(c) \/ CallFails(c)
      PROVE  HeadsInv'
  BY <1>2, WriteChunkHeads, SaveStopsHeads, PutHeadHeads, AbandonedHeads, IndexHeadHeads,
     EdgeReadHeads, EdgeWriteHeads, ForgetWithdrawHeads, ForgetEdgeHeads, ForgetIndexHeads,
     ForgetHeadHeads, CallFailsHeads
<1>3. ASSUME NEW c \in Call, \E s \in Session \cup {NoSession} : SaveNew(c, s) PROVE HeadsInv'
  BY <1>3, SaveNewHeads
<1>4. ASSUME NEW c \in Call, \E s \in Session : SaveMore(c, s) \/ LinkMemory(c, s) \/ ForgetRead(c, s)
      PROVE  HeadsInv'
  BY <1>4, SaveMoreHeads, LinkMemoryHeads, ForgetReadHeads
<1>5. ASSUME NEW c \in Call, \E k \in Chunk : Discard(c, k) \/ ForgetChunk(c, k) PROVE HeadsInv'
  BY <1>5, DiscardHeads, ForgetChunkHeads
<1>6. ASSUME NEW p \in Process,
             FlushClaim(p) \/ FlushCatalog(p) \/ FlushDrop(p) \/ FlushFails(p) \/ Crash(p)
      PROVE  HeadsInv'
  BY <1>6, FlushHeads, CrashHeads
<1> QED BY <1>1, <1>2, <1>3, <1>4, <1>5, <1>6 DEF Next

LEMMA HeadsInvHolds == Spec => []HeadsInv
BY InitHeads, NextHeads, PTL DEF Spec

-----------------------------------------------------------------------------
(* No writer erases what another one added.                                *)

KeepsTurns(s) ==
  Held(s) /\ Held(s)' =>
    /\ head[s].chunks \subseteq head'[s].chunks
    /\ Memories(head[s]) \subseteq Memories(head'[s])

LEMMA PutHeadKeeps ==
  ASSUME HeadsInv, NEW c \in Call, PutHead(c), NEW s \in Session
  PROVE  KeepsTurns(s)
<1>1. call[c].pc = "write" /\ head \in [Session -> HeadRow]
  BY DEF PutHead, At, HeadsInv, SessionTypes
<1>2. call[c] \in CallRow /\ CallView(c) /\ call[c].view \in HeadRow
  BY OpAtStage DEF HeadsInv, CallRow
<1>3. CASE s = call[c].sid /\ Accepts(s, call[c].view.version) /\ Held(s)
  <2>1. call[c].view = head[s]
    BY <1>2, <1>3 DEF CallView, Agrees, Accepts, Held
  <2>2. head'[s] = [head[s] EXCEPT !.version = head[s].version + 1, !.chunks = head[s].chunks \cup call[c].todo]
    BY <1>1, <1>2, <1>3, <2>1 DEF PutHead, HeadRow
  <2>3. head'[s].chunks = head[s].chunks \cup call[c].todo /\ head'[s].edges = head[s].edges
    BY <1>1, <2>2 DEF HeadRow
  <2> QED BY <2>3 DEF KeepsTurns, Memories
<1>4. CASE ~(s = call[c].sid /\ Accepts(s, call[c].view.version))
  <2>1. head'[s] = head[s]
    BY <1>1, <1>4 DEF PutHead
  <2> QED BY <2>1 DEF KeepsTurns
<1> QED BY <1>3, <1>4 DEF KeepsTurns

LEMMA EdgeWriteKeeps ==
  ASSUME HeadsInv, NEW c \in Call, EdgeWrite(c), NEW s \in Session
  PROVE  KeepsTurns(s)
<1>1. call[c].pc = "revise" /\ head \in [Session -> HeadRow] /\ CallStage(c) /\ CallSeen(c)
  BY DEF EdgeWrite, At, HeadsInv, SessionTypes
<1>2. call[c] \in CallRow /\ call[c].seen \in HeadRow
  BY OpAtStage DEF HeadsInv, CallRow
<1>3. CASE s = call[c].target /\ Accepts(s, call[c].seen.version) /\ Held(s)
  <2>1. call[c].seen = head[s]
    BY <1>1, <1>2, <1>3 DEF CallSeen, Agrees, Accepts, Held
  <2>2. head'[s] = [head[s] EXCEPT !.version = head[s].version + 1, !.edges = Revised(c, head[s].edges)]
    BY <1>1, <1>2, <1>3, <2>1 DEF EdgeWrite, HeadRow
  <2>3. head'[s].chunks = head[s].chunks /\ head'[s].edges = Revised(c, head[s].edges)
    BY <1>1, <2>2 DEF HeadRow
  <2>4. ASSUME NEW e \in Memories(head[s]) PROVE e \in Memories(head'[s])
    <3>1. e \in head[s].edges /\ e[2] = "memory"
      BY DEF Memories
    <3>2. ~(call[c].op = "forget" /\ e = call[c].edge)
      BY <1>1, <3>1 DEF CallStage, Forgetting
    <3>3. e \in Revised(c, head[s].edges)
      BY <3>1, <3>2 DEF Revised
    <3> QED BY <2>3, <3>1, <3>3 DEF Memories
  <2> QED BY <2>3, <2>4 DEF KeepsTurns
<1>4. CASE ~(s = call[c].target /\ Accepts(s, call[c].seen.version))
  <2>1. head'[s] = head[s]
    BY <1>1, <1>4 DEF EdgeWrite
  <2> QED BY <2>1 DEF KeepsTurns
<1> QED BY <1>3, <1>4 DEF KeepsTurns

LEMMA ForgetHeadKeeps ==
  ASSUME HeadsInv, NEW c \in Call, ForgetHead(c), NEW s \in Session
  PROVE  KeepsTurns(s)
<1>1. head \in [Session -> HeadRow]
  BY DEF HeadsInv, SessionTypes
<1>2. head'[s] = NoHead \/ head'[s] = head[s]
  BY <1>1 DEF ForgetHead
<1> QED BY <1>2, FreshIsTyped DEF KeepsTurns, Held

(***************************************************************************)
(* While a session is held, no save, link or forget takes a turn off its   *)
(* head or a memory that was linked to it: what PutSessionHead and         *)
(* reviseEdges write is what the head said at the version they write over, *)
(* with more turns or one edge changed.                                    *)
(***************************************************************************)
THEOREM TurnsAlwaysKept == Spec => TurnsKept
<1>1. HeadsInv /\ [Next]_vars => [\A s \in Session : KeepsTurns(s)]_vars
  <2> SUFFICES ASSUME HeadsInv, Next, NEW s \in Session PROVE KeepsTurns(s)
    OBVIOUS
  <2>1. CASE head' = head
    BY <2>1 DEF KeepsTurns
  <2>2. CASE \E c \in Call : PutHead(c) \/ EdgeWrite(c) \/ ForgetHead(c)
    BY <2>2, PutHeadKeeps, EdgeWriteKeeps, ForgetHeadKeeps
  <2>3. head' = head \/ \E c \in Call : PutHead(c) \/ EdgeWrite(c) \/ ForgetHead(c)
    <3>1. ASSUME NEW c \in Call,
                 \/ WriteChunk(c) \/ SaveStops(c) \/ Abandoned(c) \/ IndexHead(c) \/ EdgeRead(c)
                 \/ ForgetWithdraw(c) \/ ForgetEdge(c) \/ ForgetIndex(c) \/ CallFails(c)
          PROVE  head' = head
      BY <3>1 DEF WriteChunk, SaveStops, Abandoned, IndexHead, EdgeRead, ForgetWithdraw,
         ForgetEdge, ForgetIndex, CallFails
    <3>2. ASSUME NEW c \in Call, NEW s0, SaveNew(c, s0) \/ SaveMore(c, s0) \/ LinkMemory(c, s0) \/ ForgetRead(c, s0)
          PROVE  head' = head
      BY <3>2 DEF SaveNew, SaveMore, LinkMemory, ForgetRead
    <3>3. ASSUME NEW c \in Call, NEW k, Discard(c, k) \/ ForgetChunk(c, k) PROVE head' = head
      BY <3>3 DEF Discard, ForgetChunk
    <3>4. ASSUME NEW p \in Process,
                 FlushClaim(p) \/ FlushCatalog(p) \/ FlushDrop(p) \/ FlushFails(p) \/ Crash(p)
          PROVE  head' = head
      BY <3>4 DEF FlushClaim, FlushCatalog, FlushDrop, FlushFails, Crash
    <3> QED BY <3>1, <3>2, <3>3, <3>4 DEF Next
  <2> QED BY <2>1, <2>2, <2>3
<1> QED BY <1>1, HeadsInvHolds, PTL DEF Spec, TurnsKept, KeepsTurns

-----------------------------------------------------------------------------
(* A head names only turns that are there.                                 *)

(* The stage a call goes from and to, and what it has left to do. *)
Step(c, from, to, todo) ==
  /\ Others(c) /\ SameCall(c) /\ call[c].pc = from /\ call'[c].pc = to /\ call'[c].todo = todo

(* A call that begins. *)
Begins(c, op, pc, s) ==
  /\ Others(c) /\ call[c].op = "none" /\ call'[c].op = op /\ call'[c].pc = pc
  /\ call'[c].sid = s /\ call'[c].todo = {}

LEMMA SaveSteps ==
  ASSUME HeadsInv, NEW c \in Call
  PROVE  /\ \A k \in Chunk : Discard(c, k) => Step(c, "abandon", "abandon", call[c].todo \ {k})
         /\ WriteChunk(c) => \E k \in Chunk :
              /\ k[1] = c /\ Step(c, "write", "write", call[c].todo \cup {k})
              /\ body' = body \cup {k} /\ queued' = queued \cup {k}
         /\ SaveStops(c) => Step(c, "write", "abandon", call[c].todo)
         /\ PutHead(c) =>
              IF Accepts(call[c].sid, call[c].view.version) THEN Step(c, "write", "index", {})
                                                            ELSE Step(c, "write", "abandon", call[c].todo)
         /\ Abandoned(c) => Step(c, "abandon", "done", {})
<1> USE DEF Step, At
<1>1. SessionTypes /\ call[c] \in CallRow /\ call[c].todo \in SUBSET Chunk
  BY OpAtStage DEF CallRow
<1>2. "abandon" \in Stage /\ "index" \in Stage /\ "done" \in Stage /\ {} \in SUBSET Chunk
  BY DEF Stage
<1>3. ASSUME NEW k \in Chunk, Discard(c, k) PROVE Step(c, "abandon", "abandon", call[c].todo \ {k})
  <2> DEFINE rest == call[c].todo \ {k}
  <2>1. rest \in SUBSET Chunk /\ call' = [call EXCEPT ![c].todo = rest] /\ call[c].pc = "abandon"
    BY <1>1, <1>3 DEF Discard, SessionTypes
  <2> HIDE DEF rest
  <2>2. Others(c) /\ SameCall(c) /\ SameEdge(c) /\ call'[c].pc = call[c].pc /\ call'[c].todo = rest
    BY <1>1, <2>1, TodoOnly
  <2> QED BY <2>1, <2>2 DEF rest
<1>4. ASSUME WriteChunk(c)
      PROVE  \E k \in Chunk : /\ k[1] = c /\ Step(c, "write", "write", call[c].todo \cup {k})
                              /\ body' = body \cup {k} /\ queued' = queued \cup {k}
  <2>1. PICK k : k = <<c, Cardinality(call[c].todo) + 1>>
    OBVIOUS
  <2>2. /\ k \in Chunk /\ k[1] = c /\ call[c].pc = "write" /\ body' = body \cup {k} /\ queued' = queued \cup {k}
        /\ call' = [call EXCEPT ![c].todo = call[c].todo \cup {k}]
    BY <1>1, <1>4, <2>1 DEF WriteChunk, SessionTypes
  <2> DEFINE more == call[c].todo \cup {k}
  <2>3. more \in SUBSET Chunk /\ call' = [call EXCEPT ![c].todo = more]
    BY <1>1, <2>2
  <2> HIDE DEF more
  <2>4. Others(c) /\ SameCall(c) /\ SameEdge(c) /\ call'[c].pc = call[c].pc /\ call'[c].todo = more
    BY <1>1, <2>3, TodoOnly
  <2> QED BY <2>2, <2>4 DEF more
<1>5. ASSUME SaveStops(c) PROVE Step(c, "write", "abandon", call[c].todo)
  BY <1>1, <1>2, <1>5, Goes DEF SaveStops
<1>6. ASSUME PutHead(c), Accepts(call[c].sid, call[c].view.version) PROVE Step(c, "write", "index", {})
  <2>1. call' = [call EXCEPT ![c].pc = "index", ![c].todo = {}] /\ call[c].pc = "write"
    BY <1>6 DEF PutHead
  <2>2. Others(c) /\ SameCall(c) /\ SameEdge(c) /\ call'[c].pc = "index" /\ call'[c].todo = {}
    BY <1>1, <1>2, <2>1, GoesWith
  <2> QED BY <2>1, <2>2
<1>7. ASSUME PutHead(c), ~Accepts(call[c].sid, call[c].view.version)
      PROVE  Step(c, "write", "abandon", call[c].todo)
  BY <1>1, <1>2, <1>7, Goes DEF PutHead
<1>8. ASSUME Abandoned(c) PROVE Step(c, "abandon", "done", {})
  BY <1>1, <1>2, <1>8, Goes DEF Abandoned
<1> HIDE DEF Step, At
<1> QED BY <1>3, <1>4, <1>5, <1>6, <1>7, <1>8

LEMMA IndexSteps ==
  ASSUME HeadsInv, NEW c \in Call, IndexHead(c)
  PROVE  /\ call[c].op = "save" /\ call[c].sid \in Session
         /\ Step(c, "index", "done", {}) \/ Step(c, "index", "edge", {})
<1>1. SessionTypes /\ call[c] \in CallRow /\ call[c].op = "save" /\ call[c].pc = "index" /\ CallStage(c)
      /\ "done" \in Stage
  BY OpAtStage DEF IndexHead, At, Stage
<1>2. call[c].todo = {} /\ call[c].sid \in Session
  BY <1>1 DEF CallStage, Saving, Past
<1>3. CASE call[c].view.version = 0 /\ call[c].view.parent # NoSession
  <2>1. call[c].view.parent \in Session
    BY <1>1, <1>3 DEF CallRow, HeadRow
  <2>2. <<call[c].sid, "child">> \in Edge
    BY <1>2 DEF Edge
  <2>3. ToEdge(c, call[c].view.parent, <<call[c].sid, "child">>)
    BY <1>3 DEF IndexHead
  <2>4. Step(c, "index", "edge", {})
    BY <1>1, <1>2, <2>1, <2>2, <2>3, GoesToEdge DEF Step
  <2> QED BY <1>1, <1>2, <2>4
<1>4. CASE ~(call[c].view.version = 0 /\ call[c].view.parent # NoSession)
  <2>1. Go(c, "done")
    BY <1>4 DEF IndexHead
  <2>2. Step(c, "index", "done", {})
    BY <1>1, <1>2, <2>1, Goes DEF Step
  <2> QED BY <1>1, <1>2, <2>2
<1> QED BY <1>3, <1>4

LEMMA ForgetSteps ==
  ASSUME HeadsInv, NEW c \in Call
  PROVE  /\ ForgetWithdraw(c) =>
              IF call[c].view.chunks \cap Claimed # {} THEN Step(c, "withdraw", "done", call[c].todo)
                ELSE Step(c, "withdraw", "remove", call[c].view.chunks)
         /\ \A k \in Chunk : ForgetChunk(c, k) => Step(c, "remove", "remove", call[c].todo \ {k})
         /\ ForgetEdge(c) =>
              \/ Step(c, "remove", "unindex", {}) /\ call[c].view.parent = NoSession
              \/ Step(c, "remove", "edge", {})
         /\ ForgetIndex(c) => Step(c, "unindex", "delete", call[c].todo)
         /\ ForgetHead(c) => Step(c, "delete", "done", call[c].todo)
         /\ CallFails(c) => Step(c, call[c].pc, "done", {})
<1> USE DEF Step, At
<1>1. SessionTypes /\ call[c] \in CallRow /\ call[c].todo \in SUBSET Chunk
      /\ call[c].view.chunks \in SUBSET Chunk
  BY OpAtStage DEF CallRow, HeadRow
<1>2. "remove" \in Stage /\ "unindex" \in Stage /\ "delete" \in Stage /\ "done" \in Stage /\ {} \in SUBSET Chunk
  BY DEF Stage
<1>3. ASSUME ForgetWithdraw(c), call[c].view.chunks \cap Claimed # {}
      PROVE  Step(c, "withdraw", "done", call[c].todo)
  BY <1>1, <1>2, <1>3, Goes DEF ForgetWithdraw
<1>4. ASSUME ForgetWithdraw(c), ~(call[c].view.chunks \cap Claimed # {})
      PROVE  Step(c, "withdraw", "remove", call[c].view.chunks)
  <2>1. call' = [call EXCEPT ![c].pc = "remove", ![c].todo = call[c].view.chunks] /\ call[c].pc = "withdraw"
    BY <1>4 DEF ForgetWithdraw
  <2> DEFINE chunks == call[c].view.chunks
  <2>2. chunks \in SUBSET Chunk /\ call' = [call EXCEPT ![c].pc = "remove", ![c].todo = chunks]
    BY <1>1, <2>1
  <2> HIDE DEF chunks
  <2>3. Others(c) /\ SameCall(c) /\ SameEdge(c) /\ call'[c].pc = "remove" /\ call'[c].todo = chunks
    BY <1>1, <1>2, <2>2, GoesWith
  <2> QED BY <2>1, <2>3 DEF chunks
<1>5. ASSUME NEW k \in Chunk, ForgetChunk(c, k) PROVE Step(c, "remove", "remove", call[c].todo \ {k})
  <2> DEFINE rest == call[c].todo \ {k}
  <2>1. rest \in SUBSET Chunk /\ call' = [call EXCEPT ![c].todo = rest] /\ call[c].pc = "remove"
    BY <1>1, <1>5 DEF ForgetChunk, SessionTypes
  <2> HIDE DEF rest
  <2>2. Others(c) /\ SameCall(c) /\ SameEdge(c) /\ call'[c].pc = call[c].pc /\ call'[c].todo = rest
    BY <1>1, <2>1, TodoOnly
  <2> QED BY <2>1, <2>2 DEF rest
<1>6. ASSUME ForgetEdge(c)
      PROVE  \/ Step(c, "remove", "unindex", {}) /\ call[c].view.parent = NoSession
             \/ Step(c, "remove", "edge", {})
  <2>1. call[c].pc = "remove" /\ call[c].todo = {}
    BY <1>6 DEF ForgetEdge
  <2>2. CASE call[c].view.parent = NoSession
    BY <1>1, <1>2, <1>6, <2>1, <2>2, Goes DEF ForgetEdge
  <2>3. CASE call[c].view.parent # NoSession
    <3>1. call[c].view.parent \in Session
      BY <1>1, <2>3 DEF CallRow, HeadRow
    <3>2. call[c].sid \in Session /\ <<call[c].sid, "child">> \in Edge
      BY <2>1, OpAtStage DEF Edge, HeadsInv, CallStage, Forgetting, CallView
    <3>3. ToEdge(c, call[c].view.parent, <<call[c].sid, "child">>)
      BY <1>6, <2>3 DEF ForgetEdge
    <3>4. /\ Others(c) /\ SameCall(c) /\ call'[c].pc = "edge" /\ call'[c].todo = call[c].todo
      BY <1>1, <3>1, <3>2, <3>3, GoesToEdge
    <3> QED BY <2>1, <3>4
  <2> QED BY <2>2, <2>3
<1>7. ASSUME ForgetIndex(c) PROVE Step(c, "unindex", "delete", call[c].todo)
  BY <1>1, <1>2, <1>7, Goes DEF ForgetIndex
<1>8. ASSUME ForgetHead(c) PROVE Step(c, "delete", "done", call[c].todo)
  BY <1>1, <1>2, <1>8, Goes DEF ForgetHead
<1>9. ASSUME CallFails(c) PROVE Step(c, call[c].pc, "done", {})
  BY <1>1, <1>2, <1>9, GoesWith DEF CallFails
<1> HIDE DEF Step, At
<1> QED BY <1>3, <1>4, <1>5, <1>6, <1>7, <1>8, <1>9

(* The loop that revises an edge goes round, or goes past it. *)
LEMMA EdgeSteps ==
  ASSUME HeadsInv, NEW c \in Call
  PROVE  /\ EdgeRead(c) =>
              \/ /\ Step(c, "edge", AfterEdge(c), call[c].todo)
                 /\ Held(call[c].target) => Revised(c, head[call[c].target].edges) = head[call[c].target].edges
              \/ Step(c, "edge", "revise", call[c].todo)
         /\ EdgeWrite(c) =>
              \/ Step(c, "revise", AfterEdge(c), call[c].todo) /\ Accepts(call[c].target, call[c].seen.version)
              \/ /\ Step(c, "revise", AfterEdge(c), call[c].todo) /\ UNCHANGED head
                 /\ ~Held(call[c].target)
              \/ (Step(c, "revise", "edge", call[c].todo) \/ Step(c, "revise", "refused", call[c].todo))
                 /\ UNCHANGED head
<1> DEFINE t == call[c].target
<1>1. SessionTypes /\ call[c] \in CallRow /\ call \in [Call -> CallRow]
      /\ (call[c].pc \in {"edge", "revise"} => t \in Session)
  BY OpAtStage DEF SessionTypes, CallStage
<1>2. AfterEdge(c) \in Stage /\ "edge" \in Stage /\ "revise" \in Stage /\ "refused" \in Stage
  BY DEF Stage, AfterEdge
<1>3. ASSUME EdgeRead(c)
      PROVE  \/ /\ Step(c, "edge", AfterEdge(c), call[c].todo)
                /\ Held(t) => Revised(c, head[t].edges) = head[t].edges
             \/ Step(c, "edge", "revise", call[c].todo)
  <2> DEFINE pc == IF Held(t) /\ Revised(c, head[t].edges) # head[t].edges THEN "revise" ELSE AfterEdge(c)
             row == [call[c] EXCEPT !.seen = head[t], !.pc = pc]
  <2>1. call[c].pc = "edge" /\ call' = [call EXCEPT ![c] = row]
    BY <1>1, <1>3 DEF EdgeRead, At
  <2>2. pc \in Stage /\ head[t] \in HeadRow
    BY <1>1, <1>2, <2>1 DEF SessionTypes
  <2>3. pc = "revise" \/ (pc = AfterEdge(c) /\ (Held(t) => Revised(c, head[t].edges) = head[t].edges))
    OBVIOUS
  <2> HIDE DEF pc, t
  <2>4. /\ row \in CallRow /\ row.op = call[c].op /\ row.sid = call[c].sid /\ row.view = call[c].view
        /\ row.pc = pc /\ row.todo = call[c].todo
    BY <1>1, <2>2 DEF CallRow
  <2> HIDE DEF row
  <2>5. Others(c) /\ call'[c] = row
    BY <1>1, <2>1, <2>4, OneCall DEF Others
  <2>6. Step(c, "edge", pc, call[c].todo)
    BY <2>1, <2>4, <2>5 DEF Step, SameCall
  <2> QED BY <2>3, <2>6
<1>4. ASSUME EdgeWrite(c)
      PROVE  \/ Step(c, "revise", AfterEdge(c), call[c].todo) /\ Accepts(t, call[c].seen.version)
             \/ Step(c, "revise", AfterEdge(c), call[c].todo) /\ UNCHANGED head /\ ~Held(t)
             \/ (Step(c, "revise", "edge", call[c].todo) \/ Step(c, "revise", "refused", call[c].todo))
                /\ UNCHANGED head
  <2>1. call[c].pc = "revise"
    BY <1>4 DEF EdgeWrite, At
  <2>2. CASE Accepts(t, call[c].seen.version)
    <3>1. Go(c, AfterEdge(c))
      BY <1>4, <2>2 DEF EdgeWrite
    <3> HIDE DEF t
    <3>2. Step(c, "revise", AfterEdge(c), call[c].todo)
      BY <1>1, <1>2, <2>1, <3>1, Goes DEF Step
    <3> QED BY <2>2, <3>2
  <2>3. CASE ~Accepts(t, call[c].seen.version) /\ ~Held(t)
    <3>1. Go(c, AfterEdge(c)) /\ UNCHANGED head
      BY <1>4, <2>3 DEF EdgeWrite, Go
    <3> HIDE DEF t
    <3>2. Step(c, "revise", AfterEdge(c), call[c].todo)
      BY <1>1, <1>2, <2>1, <3>1, Goes DEF Step
    <3> QED BY <2>3, <3>1, <3>2
  <2>4. CASE ~Accepts(t, call[c].seen.version) /\ Held(t) /\ call[c].attempt < HeadRevisions
    <3> DEFINE row == [call[c] EXCEPT !.attempt = call[c].attempt + 1, !.pc = "edge"]
    <3>1. call' = [call EXCEPT ![c] = row] /\ UNCHANGED head
      BY <1>1, <1>4, <2>4 DEF EdgeWrite, Retry
    <3>2. call[c].attempt + 1 \in 1..HeadRevisions
      BY <1>1, <2>4, BoundAssumption DEF CallRow
    <3> HIDE DEF t
    <3>3. /\ row \in CallRow /\ row.op = call[c].op /\ row.sid = call[c].sid /\ row.view = call[c].view
          /\ row.pc = "edge" /\ row.todo = call[c].todo
      BY <1>1, <1>2, <3>2 DEF CallRow
    <3> HIDE DEF row
    <3>4. Others(c) /\ call'[c] = row
      BY <1>1, <3>1, <3>3, OneCall DEF Others
    <3>5. Step(c, "revise", "edge", call[c].todo)
      BY <2>1, <3>3, <3>4 DEF Step, SameCall
    <3> QED BY <3>1, <3>5
  <2>5. CASE ~Accepts(t, call[c].seen.version) /\ Held(t) /\ ~(call[c].attempt < HeadRevisions)
    <3>1. Go(c, "refused") /\ UNCHANGED head
      BY <1>4, <2>5 DEF EdgeWrite, Go
    <3> HIDE DEF t
    <3>2. Step(c, "revise", "refused", call[c].todo)
      BY <1>1, <1>2, <2>1, <3>1, Goes DEF Step
    <3> QED BY <3>1, <3>2
  <2> QED BY <2>2, <2>3, <2>4, <2>5
<1> QED BY <1>3, <1>4

LEMMA BeginSteps ==
  ASSUME HeadsInv, NEW c \in Call
  PROVE  /\ \A s \in Session \cup {NoSession} : SaveNew(c, s) => Begins(c, "save", "write", c)
         /\ \A s \in Session : SaveMore(c, s) => Begins(c, "save", "write", s)
         /\ \A s \in Session : LinkMemory(c, s) => Begins(c, "link", "edge", NoSession)
         /\ \A s \in Session : ForgetRead(c, s) =>
              Begins(c, "forget", "withdraw", s) /\ call'[c].view = head[s]
<1>1. ASSUME NEW row \in CallRow, At(c, "idle"), call' = [call EXCEPT ![c] = row]
      PROVE  Others(c) /\ call[c].op = "none" /\ call'[c] = row
  BY <1>1, OneCall, NotBegun DEF HeadsInv, Others
<1>2. ASSUME NEW s \in Session \cup {NoSession}, SaveNew(c, s) PROVE Begins(c, "save", "write", c)
  <2> DEFINE view == [NoHead EXCEPT !.parent = s]
             row == [Fresh EXCEPT !.op = "save", !.pc = "write", !.sid = c, !.view = view]
  <2>1. At(c, "idle") /\ call' = [call EXCEPT ![c] = row]
    BY <1>2 DEF SaveNew
  <2>2. view \in HeadRow
    BY DEF NoHead, HeadRow
  <2> HIDE DEF view
  <2>3. row \in CallRow /\ row.op = "save" /\ row.pc = "write" /\ row.sid = c /\ row.todo = {}
    BY <2>2, FreshIsTyped DEF CallRow, Stage, Session
  <2> HIDE DEF row
  <2> QED BY <1>1, <2>1, <2>3 DEF Begins
<1>3. ASSUME NEW s \in Session, NEW op \in {"save", "forget"}, NEW pc \in {"write", "withdraw"}, At(c, "idle"),
             call' = [call EXCEPT ![c] = [Fresh EXCEPT !.op = op, !.pc = pc, !.sid = s, !.view = head[s]]]
      PROVE  Begins(c, op, pc, s) /\ call'[c].view = head[s]
  <2> DEFINE row == [Fresh EXCEPT !.op = op, !.pc = pc, !.sid = s, !.view = head[s]]
  <2>1. head[s] \in HeadRow
    BY DEF HeadsInv, SessionTypes
  <2>2. row \in CallRow /\ row.op = op /\ row.pc = pc /\ row.sid = s /\ row.todo = {} /\ row.view = head[s]
    BY <2>1, FreshIsTyped DEF CallRow, Stage
  <2>3. call' = [call EXCEPT ![c] = row]
    BY <1>3
  <2> HIDE DEF row
  <2> QED BY <1>1, <1>3, <2>2, <2>3 DEF Begins
<1>4. ASSUME NEW s \in Session, SaveMore(c, s) PROVE Begins(c, "save", "write", s)
  BY <1>3, <1>4 DEF SaveMore
<1>5. ASSUME NEW s \in Session, ForgetRead(c, s)
      PROVE  Begins(c, "forget", "withdraw", s) /\ call'[c].view = head[s]
  BY <1>3, <1>5 DEF ForgetRead
<1>6. ASSUME NEW s \in Session, LinkMemory(c, s) PROVE Begins(c, "link", "edge", NoSession)
  <2> DEFINE row == [Fresh EXCEPT !.op = "link", !.pc = "edge", !.target = s, !.edge = <<c, "memory">>]
  <2>1. At(c, "idle") /\ call' = [call EXCEPT ![c] = row]
    BY <1>6 DEF LinkMemory
  <2>2. <<c, "memory">> \in Edge
    BY DEF Edge, Session
  <2>3. row \in CallRow /\ row.op = "link" /\ row.pc = "edge" /\ row.sid = NoSession /\ row.todo = {}
    BY <2>2, FreshIsTyped DEF CallRow, Stage
  <2> HIDE DEF row
  <2> QED BY <1>1, <2>1, <2>3 DEF Begins
<1> QED BY <1>2, <1>4, <1>5, <1>6

(* A forget that has withdrawn its turns from the queue. *)
Removing(c) == call[c].op = "forget" /\ call[c].pc \in {"remove", "edge", "revise", "unindex", "delete"}
Writing(c)  == call[c].op = "save" /\ call[c].pc = "write"

FlushInv ==
  \A p \in Process :
    /\ flush[p].batch \subseteq queued
    /\ flush[p].pc = "drop" => flush[p].batch \subseteq catalog
    /\ \A q \in Process : q # p => flush[p].batch \cap flush[q].batch = {}

CallChunks(c) ==
  /\ Writing(c) => call[c].todo \subseteq queued \cup catalog
  /\ Removing(c) => call[c].view.chunks \cap queued = {}

ChunksInv == FlushInv /\ HeadIsWhole /\ \A c \in Call : CallChunks(c)

(* A chunk is named by one session at most, and by none before its save has stored a head. *)
LEMMA OneName ==
  ASSUME NEW k, NEW s, NEW t, Names(k, s), Names(k, t)
  PROVE  s = t
BY NameAssumption DEF Names

LEMMA NoName ==
  ASSUME NEW k, NEW s, NEW c \in Call, k[1] = c, ~Past(c)
  PROVE  ~Names(k, s)
BY NameAssumption DEF Names

(* A call that goes on and neither writes a chunk nor withdraws one. *)
StageKept(d) ==
  /\ Writing(d)' => (Writing(d) /\ call'[d].todo = call[d].todo) \/ call'[d].todo = {}
  /\ Removing(d)' => Removing(d) /\ call'[d].view = call[d].view

(* A chunk that leaves the queue and the catalog is one no head and no save still counts on. *)
Loose(k) ==
  /\ \A s \in Session \ begun' : ~Names(k, s)'
  /\ \A d \in Call : Writing(d)' => k[1] # d

LEMMA ChunksStep ==
  ASSUME HeadsInv, HeadsInv', ChunksInv, FlushInv', begun \subseteq begun',
         \A s \in Session \ begun' : \A k \in head'[s].chunks :
            k \in head[s].chunks \/ k \in queued \cup catalog,
         \A k \in (queued \cup catalog) \ (queued' \cup catalog') : Loose(k),
         \A k \in queued' \ queued : k[1] \in Call /\ ~Past(k[1]),
         \A d \in Call : StageKept(d) \/ CallChunks(d)'
  PROVE  ChunksInv'
<1>1. HeadIsWhole'
  <2> SUFFICES ASSUME NEW s \in Session \ begun', NEW k \in head'[s].chunks
               PROVE  k \in queued' \cup catalog'
    BY DEF HeadIsWhole
  <2>1. k \in queued \cup catalog
    BY DEF ChunksInv, HeadIsWhole
  <2>2. Names(k, s)'
    BY DEF HeadsInv, HeadInv
  <2> QED BY <2>1, <2>2 DEF Loose
<1>2. ASSUME NEW d \in Call PROVE CallChunks(d)'
  <2>1. CallChunks(d)
    BY DEF ChunksInv
  <2>2. ASSUME StageKept(d), Writing(d)' PROVE call'[d].todo \subseteq queued' \cup catalog'
    <3> SUFFICES ASSUME NEW k \in call'[d].todo PROVE k \in queued' \cup catalog'
      OBVIOUS
    <3>1. Writing(d) /\ k \in call[d].todo /\ k \in queued \cup catalog
      BY <2>1, <2>2 DEF StageKept, CallChunks
    <3>2. k[1] = d
      BY <3>1 DEF HeadsInv, CallStage, Saving, Writing
    <3> QED BY <2>2, <3>1, <3>2 DEF Loose
  <2>3. ASSUME StageKept(d), Removing(d)' PROVE call'[d].view.chunks \cap queued' = {}
    <3> SUFFICES ASSUME NEW k \in call'[d].view.chunks, k \in queued' PROVE FALSE
      OBVIOUS
    <3>1. Removing(d) /\ k \in call[d].view.chunks /\ k \notin queued
      BY <2>1, <2>3 DEF StageKept, CallChunks
    <3>2. call[d].view.version > 0 /\ CallView(d)
      BY <3>1 DEF HeadsInv, CallStage, Forgetting, Removing
    <3>3. Names(k, call[d].sid)
      BY <3>1, <3>2 DEF CallView
    <3> QED BY <3>1, <3>3, NoName
  <2> QED BY <2>2, <2>3 DEF CallChunks
<1> QED BY <1>1, <1>2 DEF ChunksInv

(* A step of a call that leaves the chunks alone. *)
LEMMA ChunksStay ==
  ASSUME HeadsInv, HeadsInv', ChunksInv, UNCHANGED <<queued, catalog, flush, begun>>,
         \A s \in Session \ begun' : \A k \in head'[s].chunks :
            k \in head[s].chunks \/ k \in queued \cup catalog,
         \A d \in Call : StageKept(d)
  PROVE  ChunksInv'
<1>1. FlushInv'
  BY DEF ChunksInv, FlushInv
<1> QED BY <1>1, ChunksStep

LEMMA StepKept ==
  ASSUME NEW c \in Call, NEW from, NEW to, NEW todo, Step(c, from, to, todo), to # "write",
         call[c].op = "forget" /\ to \in {"remove", "edge", "revise", "unindex", "delete"} =>
           from \in {"remove", "edge", "revise", "unindex", "delete"}
  PROVE  \A d \in Call : StageKept(d)
<1> SUFFICES ASSUME NEW d \in Call PROVE StageKept(d)
  OBVIOUS
<1>1. CASE d = c
  BY <1>1 DEF Step, SameCall, StageKept, Writing, Removing
<1>2. CASE d # c
  BY <1>2 DEF Step, Others, StageKept, Writing, Removing
<1> QED BY <1>1, <1>2

LEMMA BeginKept ==
  ASSUME NEW c \in Call, NEW op, NEW pc, NEW s, Begins(c, op, pc, s), op = "forget" => pc = "withdraw"
  PROVE  \A d \in Call : StageKept(d)
<1> SUFFICES ASSUME NEW d \in Call PROVE StageKept(d)
  OBVIOUS
<1>1. CASE d = c
  BY <1>1 DEF Begins, StageKept, Writing, Removing
<1>2. CASE d # c
  BY <1>2 DEF Begins, Others, StageKept, Writing, Removing
<1> QED BY <1>1, <1>2

(* Steps that change no head and no chunk. *)
Idles(c) ==
  \/ SaveStops(c) \/ Abandoned(c) \/ IndexHead(c) \/ EdgeRead(c) \/ ForgetEdge(c) \/ ForgetIndex(c)
  \/ CallFails(c)

LEMMA IdleKept ==
  ASSUME HeadsInv, NEW c \in Call, Idles(c)
  PROVE  \A d \in Call : StageKept(d)
<1>1. CallStage(c) /\ AfterEdge(c) \in {"unindex", "done"} /\ AfterEdge(c) # "write"
  BY DEF HeadsInv, AfterEdge
<1>2. CASE SaveStops(c)
  <2>1. Step(c, "write", "abandon", call[c].todo)
    BY <1>2, SaveSteps
  <2> QED BY <2>1, StepKept
<1>3. CASE Abandoned(c)
  <2>1. Step(c, "abandon", "done", {})
    BY <1>3, SaveSteps
  <2> QED BY <2>1, StepKept
<1>4. CASE IndexHead(c)
  <2>1. call[c].op = "save" /\ (Step(c, "index", "done", {}) \/ Step(c, "index", "edge", {}))
    BY <1>4, IndexSteps
  <2> QED BY <2>1, StepKept
<1>5. CASE EdgeRead(c)
  <2>1. Step(c, "edge", AfterEdge(c), call[c].todo) \/ Step(c, "edge", "revise", call[c].todo)
    BY <1>5, EdgeSteps
  <2> QED BY <1>1, <2>1, StepKept
<1>6. CASE ForgetEdge(c)
  <2>1. Step(c, "remove", "unindex", {}) \/ Step(c, "remove", "edge", {})
    BY <1>6, ForgetSteps
  <2> QED BY <2>1, StepKept
<1>7. CASE ForgetIndex(c)
  <2>1. Step(c, "unindex", "delete", call[c].todo)
    BY <1>7, ForgetSteps
  <2> QED BY <2>1, StepKept
<1>8. CASE CallFails(c)
  <2>1. Step(c, call[c].pc, "done", {})
    BY <1>8, ForgetSteps
  <2> QED BY <2>1, StepKept
<1> QED BY <1>2, <1>3, <1>4, <1>5, <1>6, <1>7, <1>8 DEF Idles

LEMMA IdleChunks ==
  ASSUME HeadsInv, HeadsInv', ChunksInv, NEW c \in Call, Idles(c)
  PROVE  ChunksInv'
<1>1. UNCHANGED <<head, queued, catalog, flush, begun>>
  BY DEF Idles, SaveStops, Abandoned, IndexHead, EdgeRead, ForgetEdge, ForgetIndex, CallFails
<1>2. \A d \in Call : StageKept(d)
  BY IdleKept
<1> QED BY <1>1, <1>2, ChunksStay

(* A call that begins, as Next has it. *)
Starts(c) ==
  \/ \E s \in Session \cup {NoSession} : SaveNew(c, s)
  \/ \E s \in Session : SaveMore(c, s) \/ LinkMemory(c, s) \/ ForgetRead(c, s)

LEMMA StartChunks ==
  ASSUME HeadsInv, HeadsInv', ChunksInv, NEW c \in Call, Starts(c)
  PROVE  ChunksInv'
<1>1. UNCHANGED <<head, queued, catalog, flush, begun>>
  BY DEF Starts, SaveNew, SaveMore, LinkMemory, ForgetRead
<1>2. \E op, pc, s : Begins(c, op, pc, s) /\ (op = "forget" => pc = "withdraw")
  BY BeginSteps DEF Starts
<1>3. \A d \in Call : StageKept(d)
  BY <1>2, BeginKept
<1> QED BY <1>1, <1>3, ChunksStay

LEMMA PutHeadChunks ==
  ASSUME HeadsInv, HeadsInv', ChunksInv, NEW c \in Call, PutHead(c)
  PROVE  ChunksInv'
<1>1. UNCHANGED <<queued, catalog, flush, begun>> /\ head \in [Session -> HeadRow] /\ call[c].pc = "write"
  BY DEF PutHead, HeadsInv, SessionTypes, At
<1>2. \A d \in Call : StageKept(d)
  <2>1. Step(c, "write", "index", {}) \/ Step(c, "write", "abandon", call[c].todo)
    BY SaveSteps
  <2> QED BY <2>1, StepKept
<1>3. ASSUME NEW s \in Session, NEW k \in head'[s].chunks
      PROVE  k \in head[s].chunks \/ k \in queued \cup catalog
  <2>1. CASE s = call[c].sid /\ Accepts(s, call[c].view.version)
    <3>1. /\ call[c].view \in HeadRow /\ call[c].op = "save" /\ CallView(c) /\ Saving(c) /\ CallChunks(c)
          /\ head[s].version \in Nat
      BY <1>1, OpAtStage DEF HeadsInv, CallRow, HeadRow, CallStage, ChunksInv
    <3>2. head'[s] = [call[c].view EXCEPT !.version = call[c].view.version + 1,
                                          !.chunks = call[c].view.chunks \cup call[c].todo]
      BY <1>1, <2>1, <3>1 DEF PutHead, HeadRow
    <3>3. head'[s].chunks = call[c].view.chunks \cup call[c].todo
      BY <3>1, <3>2 DEF HeadRow
    <3>4. call[c].todo \subseteq queued \cup catalog
      BY <1>1, <3>1 DEF CallChunks, Writing
    <3>5. call[c].view.chunks \subseteq head[s].chunks
      BY <2>1, <3>1 DEF Saving, CallView, Agrees, Accepts, Held
    <3> QED BY <3>3, <3>4, <3>5
  <2>2. CASE ~(s = call[c].sid /\ Accepts(s, call[c].view.version))
    BY <1>1, <2>2 DEF PutHead
  <2> QED BY <2>1, <2>2
<1> QED BY <1>1, <1>2, <1>3, ChunksStay

LEMMA EdgeWriteChunks ==
  ASSUME HeadsInv, HeadsInv', ChunksInv, NEW c \in Call, EdgeWrite(c)
  PROVE  ChunksInv'
<1>1. UNCHANGED <<queued, catalog, flush, begun>> /\ head \in [Session -> HeadRow]
  BY DEF EdgeWrite, HeadsInv, SessionTypes
<1>2. \A d \in Call : StageKept(d)
  <2>1. AfterEdge(c) # "write"
    BY DEF AfterEdge
  <2>2. \E to \in {AfterEdge(c), "edge", "refused"} : Step(c, "revise", to, call[c].todo)
    BY EdgeSteps
  <2> QED BY <2>1, <2>2, StepKept
<1>3. ASSUME NEW s \in Session PROVE head'[s].chunks = head[s].chunks
  <2>1. CASE s = call[c].target /\ Accepts(s, call[c].seen.version)
    <3>1. /\ call[c].seen \in HeadRow /\ CallSeen(c) /\ call[c].pc = "revise"
      BY OpAtStage DEF HeadsInv, CallRow, EdgeWrite, At
    <3>2. call[c].seen = head[s]
      BY <2>1, <3>1 DEF CallSeen, Agrees, Accepts, Held
    <3>3. head'[s] = [head[s] EXCEPT !.version = head[s].version + 1, !.edges = Revised(c, head[s].edges)]
      BY <1>1, <2>1, <3>1, <3>2 DEF EdgeWrite, HeadRow
    <3> QED BY <1>1, <3>3 DEF HeadRow
  <2>2. CASE ~(s = call[c].target /\ Accepts(s, call[c].seen.version))
    BY <1>1, <2>2 DEF EdgeWrite
  <2> QED BY <2>1, <2>2
<1> QED BY <1>1, <1>2, <1>3, ChunksStay

LEMMA ForgetHeadChunks ==
  ASSUME HeadsInv, HeadsInv', ChunksInv, NEW c \in Call, ForgetHead(c)
  PROVE  ChunksInv'
<1>1. UNCHANGED <<queued, catalog, flush, begun>> /\ head \in [Session -> HeadRow]
  BY DEF ForgetHead, HeadsInv, SessionTypes
<1>2. \A d \in Call : StageKept(d)
  <2>1. Step(c, "delete", "done", call[c].todo)
    BY ForgetSteps
  <2> QED BY <2>1, StepKept
<1>3. \A s \in Session : head'[s] = NoHead \/ head'[s] = head[s]
  BY <1>1 DEF ForgetHead
<1> QED BY <1>1, <1>2, <1>3, ChunksStay, FreshIsTyped

LEMMA WriteChunkChunks ==
  ASSUME HeadsInv, HeadsInv', ChunksInv, NEW c \in Call, WriteChunk(c)
  PROVE  ChunksInv'
<1>1. UNCHANGED <<head, catalog, flush, begun>> /\ call[c].pc = "write"
  BY DEF WriteChunk, At
<1>2. PICK k \in Chunk : /\ k[1] = c /\ Step(c, "write", "write", call[c].todo \cup {k})
                         /\ queued' = queued \cup {k}
  BY SaveSteps
<1>3. FlushInv'
  BY <1>1, <1>2 DEF ChunksInv, FlushInv
<1>4. ~Past(c) /\ call[c].op = "save"
  BY <1>1, OpAtStage DEF Past
<1>5. ASSUME NEW d \in Call PROVE StageKept(d) \/ CallChunks(d)'
  <2>1. CASE d = c
    <3>1. call'[c].todo = call[c].todo \cup {k} /\ call'[c].op = "save"
      BY <1>2, <1>4 DEF Step, SameCall
    <3>2. call[c].todo \subseteq queued \cup catalog
      BY <1>1, <1>4 DEF ChunksInv, CallChunks, Writing
    <3> QED BY <1>1, <1>2, <2>1, <3>1, <3>2 DEF CallChunks, Removing
  <2>2. CASE d # c
    BY <1>2, <2>2 DEF Step, Others, StageKept, Writing, Removing
  <2> QED BY <2>1, <2>2
<1>6. \A j \in queued' \ queued : j[1] \in Call /\ ~Past(j[1])
  BY <1>2, <1>4
<1>7. queued \cup catalog \subseteq queued' \cup catalog'
  BY <1>1, <1>2
<1> QED BY <1>1, <1>3, <1>5, <1>6, <1>7, ChunksStep

LEMMA DiscardChunks ==
  ASSUME HeadsInv, HeadsInv', ChunksInv, NEW c \in Call, NEW k \in Chunk, Discard(c, k)
  PROVE  ChunksInv'
<1>1. UNCHANGED <<head, flush, begun>> /\ call[c].pc = "abandon" /\ k \in call[c].todo
  BY DEF Discard, At
<1>2. Step(c, "abandon", "abandon", call[c].todo \ {k})
  BY SaveSteps
<1>3. \A d \in Call : StageKept(d)
  BY <1>2, StepKept, OpAtStage
<1>4. CASE k \in Claimed
  <2>1. UNCHANGED <<queued, catalog>>
    BY <1>4 DEF Discard
  <2> QED BY <1>1, <1>3, <2>1, ChunksStay
<1>5. CASE k \notin Claimed
  <2>1. queued' = queued \ {k} /\ catalog' \subseteq catalog /\ catalog \ {k} \subseteq catalog'
    BY <1>5 DEF Discard, RemoveEntry
  <2>2. \A p \in Process : k \notin flush[p].batch
    BY <1>5 DEF Claimed
  <2>3. FlushInv'
    BY <1>1, <2>1, <2>2 DEF ChunksInv, FlushInv
  <2>4. call[c].op = "save" /\ k[1] = c /\ ~Past(c)' /\ ~Writing(c)'
    <3>1. call[c].op = "save" /\ Saving(c)
      BY <1>1, OpAtStage DEF CallStage
    <3> QED BY <1>1, <1>2, <3>1 DEF Saving, Step, SameCall, Past, Writing
  <2>5. Loose(k)
    <3>1. \A s \in Session \ begun' : ~Names(k, s)'
      BY <2>4, NameAssumption DEF Names
    <3> QED BY <2>4, <3>1 DEF Loose
  <2>6. \A j \in (queued \cup catalog) \ (queued' \cup catalog') : j = k
    BY <2>1
  <2>7. \A j \in (queued \cup catalog) \ (queued' \cup catalog') : Loose(j)
    BY <2>5, <2>6
  <2>8. \A j \in queued' \ queued : j[1] \in Call /\ ~Past(j[1])
    BY <2>1
  <2> QED BY <1>1, <1>3, <2>3, <2>7, <2>8, ChunksStep
<1> QED BY <1>4, <1>5

(* No chunk of a session being forgotten is one another session, or a save under way, counts on. *)
LEMMA LooseChunk ==
  ASSUME HeadsInv, HeadsInv', NEW c \in Call, SameCall(c), call[c].op = "forget", call[c].sid \in begun',
         NEW k \in call[c].view.chunks
  PROVE  Loose(k)
<1>1. call[c].view.version > 0 /\ CallView(c) /\ call'[c].view.version > 0 /\ CallView(c)'
  BY DEF HeadsInv, CallStage, Forgetting, SameCall
<1>2. PICK t : t = call[c].sid
  OBVIOUS
<1>3. Names(k, t)'
  BY <1>1, <1>2 DEF CallView, SameCall
<1>4. \A s \in Session \ begun' : ~Names(k, s)'
  BY <1>2, <1>3, NameAssumption DEF Names
<1>5. \A d \in Call : Writing(d)' => k[1] # d
  BY <1>3, NameAssumption DEF Names, Past, Writing
<1> QED BY <1>4, <1>5 DEF Loose

LEMMA ForgetWithdrawChunks ==
  ASSUME HeadsInv, HeadsInv', ChunksInv, NEW c \in Call, ForgetWithdraw(c)
  PROVE  ChunksInv'
<1>1. UNCHANGED <<head, flush, catalog>> /\ call[c].pc = "withdraw"
  BY DEF ForgetWithdraw, At
<1>2. CASE call[c].view.chunks \cap Claimed # {}
  <2>1. UNCHANGED <<queued, begun>>
    BY <1>2 DEF ForgetWithdraw
  <2>2. Step(c, "withdraw", "done", call[c].todo)
    BY <1>2, ForgetSteps
  <2>3. \A d \in Call : StageKept(d)
    BY <2>2, StepKept
  <2> QED BY <1>1, <2>1, <2>3, ChunksStay
<1>3. CASE ~(call[c].view.chunks \cap Claimed # {})
  <2>1. queued' = queued \ call[c].view.chunks /\ begun' = begun \cup {call[c].sid}
    BY <1>3 DEF ForgetWithdraw
  <2>2. Step(c, "withdraw", "remove", call[c].view.chunks)
    BY <1>3, ForgetSteps
  <2>3. call[c].op = "forget" /\ SameCall(c)
    BY <1>1, <2>2, OpAtStage DEF Step
  <2>4. \A p \in Process : flush[p].batch \cap call[c].view.chunks = {}
    BY <1>3 DEF Claimed
  <2>5. FlushInv'
    BY <1>1, <2>1, <2>4 DEF ChunksInv, FlushInv
  <2>6. \A k \in call[c].view.chunks : Loose(k)
    BY <2>1, <2>3, LooseChunk
  <2>7. ASSUME NEW d \in Call PROVE StageKept(d) \/ CallChunks(d)'
    <3>1. CASE d = c
      <4>1. ~Writing(c)' /\ call'[c].view = call[c].view
        BY <2>3 DEF SameCall, Writing
      <4> QED BY <2>1, <3>1, <4>1 DEF CallChunks
    <3>2. CASE d # c
      BY <2>2, <3>2 DEF Step, Others, StageKept, Writing, Removing
    <3> QED BY <3>1, <3>2
  <2>8. \A k \in (queued \cup catalog) \ (queued' \cup catalog') : Loose(k)
    BY <1>1, <2>1, <2>6
  <2>9. queued' \subseteq queued /\ begun \subseteq begun'
    BY <2>1
  <2> QED BY <1>1, <2>5, <2>7, <2>8, <2>9, ChunksStep
<1> QED BY <1>2, <1>3

LEMMA ForgetChunkChunks ==
  ASSUME HeadsInv, HeadsInv', ChunksInv, NEW c \in Call, NEW k \in Chunk, ForgetChunk(c, k)
  PROVE  ChunksInv'
<1>1. UNCHANGED <<head, flush, queued, begun>> /\ call[c].pc = "remove" /\ k \in call[c].todo
      /\ catalog' \subseteq catalog /\ catalog \ {k} \subseteq catalog'
  BY DEF ForgetChunk, At, RemoveEntry
<1>2. Step(c, "remove", "remove", call[c].todo \ {k})
  BY ForgetSteps
<1>3. \A d \in Call : StageKept(d)
  BY <1>2, StepKept
<1>4. call[c].op = "forget" /\ SameCall(c) /\ call[c].sid \in begun' /\ k \in call[c].view.chunks
  BY <1>1, <1>2, OpAtStage DEF Step, CallStage, Forgetting
<1>5. Loose(k)
  BY <1>4, LooseChunk
<1>6. k \notin queued
  BY <1>1, <1>4 DEF ChunksInv, CallChunks, Removing
<1>7. FlushInv'
  BY <1>1, <1>6 DEF ChunksInv, FlushInv
<1>8. \A j \in (queued \cup catalog) \ (queued' \cup catalog') : j = k
  BY <1>1
<1>9. \A j \in (queued \cup catalog) \ (queued' \cup catalog') : Loose(j)
  BY <1>5, <1>8
<1> QED BY <1>1, <1>3, <1>7, <1>9, ChunksStep

LEMMA FlushChunks ==
  ASSUME HeadsInv, HeadsInv', ChunksInv, NEW p \in Process,
         FlushClaim(p) \/ FlushCatalog(p) \/ FlushDrop(p) \/ FlushFails(p)
  PROVE  ChunksInv'
<1>1. UNCHANGED <<head, call, begun>> /\ flush \in [Process -> FlushRow] /\ FlushInv
  BY DEF FlushClaim, FlushCatalog, FlushDrop, FlushFails, HeadsInv, SessionTypes, DeviceTypes, ChunksInv
<1>2. \A d \in Call : StageKept(d)
  BY <1>1 DEF StageKept, Writing, Removing
<1>3. Quiet.pc = "idle" /\ Quiet.batch = {}
  BY DEF Quiet
<1>4. FlushInv' /\ queued' \subseteq queued /\ queued \cup catalog \subseteq queued' \cup catalog'
  <2>1. CASE FlushClaim(p)
    <3> DEFINE row == [pc |-> "write", batch |-> queued \ Claimed]
    <3>1. row.pc = "write" /\ row.batch = queued \ Claimed
      OBVIOUS
    <3>2. flush' = [flush EXCEPT ![p] = row] /\ UNCHANGED <<queued, catalog>>
      BY <2>1 DEF FlushClaim
    <3> HIDE DEF row
    <3>3. flush'[p] = row /\ \A q \in Process : q # p => flush'[q] = flush[q]
      BY <1>1, <3>2
    <3>4. \A q \in Process : flush[q].batch \cap row.batch = {}
      BY <3>1 DEF Claimed
    <3> QED BY <1>1, <3>1, <3>2, <3>3, <3>4 DEF FlushInv
  <2>2. CASE FlushCatalog(p)
    <3>1. /\ flush' = [flush EXCEPT ![p] = [flush[p] EXCEPT !.pc = "drop"]]
          /\ catalog' = catalog \cup flush[p].batch /\ queued' = queued
      BY <1>1, <2>2 DEF FlushCatalog
    <3>2. /\ flush'[p].batch = flush[p].batch
          /\ \A q \in Process : q # p => flush'[q] = flush[q]
      BY <1>1, <3>1 DEF FlushRow
    <3> QED BY <1>1, <3>1, <3>2 DEF FlushInv
  <2>3. CASE FlushDrop(p)
    <3>1. /\ flush[p].pc = "drop" /\ flush' = [flush EXCEPT ![p] = Quiet]
          /\ queued' = queued \ flush[p].batch /\ catalog' = catalog
      BY <2>3 DEF FlushDrop
    <3>2. flush'[p] = Quiet /\ \A q \in Process : q # p => flush'[q] = flush[q]
      BY <1>1, <3>1
    <3> QED BY <1>1, <1>3, <3>1, <3>2 DEF FlushInv
  <2>4. CASE FlushFails(p)
    <3>1. flush' = [flush EXCEPT ![p] = Quiet] /\ UNCHANGED <<queued, catalog>>
      BY <2>4 DEF FlushFails
    <3>2. flush'[p] = Quiet /\ \A q \in Process : q # p => flush'[q] = flush[q]
      BY <1>1, <3>1
    <3> QED BY <1>1, <1>3, <3>1, <3>2 DEF FlushInv
  <2> QED BY <2>1, <2>2, <2>3, <2>4
<1> QED BY <1>1, <1>2, <1>4, ChunksStep

LEMMA CrashChunks ==
  ASSUME HeadsInv, HeadsInv', ChunksInv, NEW p \in Process, Crash(p)
  PROVE  ChunksInv'
<1>1. UNCHANGED <<head, queued, catalog, begun>> /\ flush \in [Process -> FlushRow] /\ FlushInv
      /\ flush' = [flush EXCEPT ![p] = Quiet]
  BY DEF Crash, HeadsInv, SessionTypes, DeviceTypes, ChunksInv
<1>2. ASSUME NEW d \in Call PROVE StageKept(d)
  <2>1. call'[d] = call[d] \/ call'[d].pc = "done"
    BY CrashCalls
  <2> QED BY <2>1 DEF StageKept, Writing, Removing
<1>3. Quiet.pc = "idle" /\ Quiet.batch = {}
  BY DEF Quiet
<1>4. flush'[p] = Quiet /\ \A q \in Process : q # p => flush'[q] = flush[q]
  BY <1>1
<1>5. FlushInv'
  BY <1>1, <1>3, <1>4 DEF FlushInv
<1> QED BY <1>1, <1>2, <1>5, ChunksStep

LEMMA InitChunks == Init => ChunksInv
<1> SUFFICES ASSUME Init PROVE ChunksInv
  OBVIOUS
<1>1. FlushInv
  BY DEF Init, FlushInv, Quiet
<1>2. \A c \in Call : CallChunks(c)
  BY FreshIsTyped DEF Init, CallChunks, Writing, Removing
<1>3. HeadIsWhole
  BY DEF Init, HeadIsWhole, NoHead
<1> QED BY <1>1, <1>2, <1>3 DEF ChunksInv

(* The steps of Next, by what they change. *)
LEMMA NextSteps ==
  ASSUME Next
  PROVE  \/ \E c \in Call : Idles(c) \/ Starts(c)
         \/ \E c \in Call : \/ WriteChunk(c) \/ PutHead(c) \/ EdgeWrite(c) \/ ForgetWithdraw(c) \/ ForgetHead(c)
                            \/ \E k \in Chunk : Discard(c, k) \/ ForgetChunk(c, k)
         \/ \E p \in Process : \/ FlushClaim(p) \/ FlushCatalog(p) \/ FlushDrop(p) \/ FlushFails(p)
                               \/ Crash(p)
BY DEF Next, Idles, Starts

LEMMA NextChunks == HeadsInv /\ HeadsInv' /\ ChunksInv /\ [Next]_vars => ChunksInv'
<1> SUFFICES ASSUME HeadsInv, HeadsInv', ChunksInv, [Next]_vars PROVE ChunksInv'
  OBVIOUS
<1>1. CASE UNCHANGED vars
  <2>1. UNCHANGED <<head, queued, catalog, flush, begun, call>>
    BY <1>1 DEF vars
  <2>2. \A d \in Call : StageKept(d)
    BY <2>1 DEF StageKept, Writing, Removing
  <2> QED BY <2>1, <2>2, ChunksStay
<1>2. ASSUME NEW c \in Call, Idles(c) \/ Starts(c) PROVE ChunksInv'
  BY <1>2, IdleChunks, StartChunks
<1>3. ASSUME NEW c \in Call,
             \/ WriteChunk(c) \/ PutHead(c) \/ EdgeWrite(c) \/ ForgetWithdraw(c) \/ ForgetHead(c)
             \/ \E k \in Chunk : Discard(c, k) \/ ForgetChunk(c, k)
      PROVE  ChunksInv'
  BY <1>3, WriteChunkChunks, PutHeadChunks, EdgeWriteChunks, ForgetWithdrawChunks, ForgetHeadChunks,
     DiscardChunks, ForgetChunkChunks
<1>4. ASSUME NEW p \in Process,
             FlushClaim(p) \/ FlushCatalog(p) \/ FlushDrop(p) \/ FlushFails(p) \/ Crash(p)
      PROVE  ChunksInv'
  BY <1>4, FlushChunks, CrashChunks
<1> QED BY <1>1, <1>2, <1>3, <1>4, NextSteps

LEMMA ChunksInvHolds == Spec => [](HeadsInv /\ ChunksInv)
<1>1. Init => HeadsInv /\ ChunksInv
  BY InitHeads, InitChunks
<1>2. HeadsInv /\ ChunksInv /\ [Next]_vars => (HeadsInv /\ ChunksInv)'
  BY NextHeads, NextChunks
<1> QED BY <1>1, <1>2, PTL DEF Spec

(***************************************************************************)
(* Every variable keeps its type, a head that does not exist holds         *)
(* nothing, and no flush claims a row that has left the queue: what        *)
(* discardChunk and WithdrawQueuedAll take back, no flush holds.           *)
(***************************************************************************)
THEOREM SessionsTypeCorrect == Spec => []TypeOK
<1>1. HeadsInv /\ ChunksInv => TypeOK
  <2> SUFFICES ASSUME HeadsInv, ChunksInv PROVE TypeOK
    OBVIOUS
  <2>1. Claimed \subseteq queued
    BY DEF ChunksInv, FlushInv, Claimed
  <2>2. \A c \in Call : call[c].todo \subseteq Chunk /\ call[c].attempt \in 1..HeadRevisions
    BY DEF HeadsInv, SessionTypes, CallRow
  <2> QED BY <2>1, <2>2 DEF TypeOK, HeadsInv, SessionTypes, DeviceTypes
<1> QED BY <1>1, ChunksInvHolds, PTL

(***************************************************************************)
(* A head names only turns that are queued or catalogued, until somebody   *)
(* begins to forget its session: no save that is refused takes back, and   *)
(* no forget withdraws, a turn another session's head names.               *)
(***************************************************************************)
THEOREM HeadIsAlwaysWhole == Spec => []HeadIsWhole
BY ChunksInvHolds, PTL DEF ChunksInv

-----------------------------------------------------------------------------
(* Nothing is left behind, on a device with one process.                   *)

OneProcess == \A p, q \in Process : p = q

There == queued \cup catalog \cup body

(* Somebody answers for the chunk. *)
Tied(k) ==
  \/ \E s \in Session : k \in head[s].chunks
  \/ \E c \in Call : call[c].op = "save" /\ k \in call[c].todo
  \/ k \in reported \cup cut

(* A forget has taken away every chunk it has passed. *)
Emptied(c) ==
  Removing(c) =>
    /\ (call[c].view.chunks \ call[c].todo) \cap (catalog \cup body) = {}
    /\ call[c].pc # "remove" => call[c].todo = {}

StrandInv ==
  /\ \A k \in There : Tied(k)
  /\ \A p \in Process : mem[p] = catalog
  /\ \A c \in Call : Emptied(c)

DeviceInv == HeadsInv /\ ChunksInv /\ StrandInv

(* A forget that goes on has no more left to do, and nothing when it is past its chunks. *)
ForgetKept(d) ==
  Removing(d)' => /\ Removing(d) /\ call'[d].view = call[d].view /\ call'[d].todo = call[d].todo
                  /\ call'[d].pc = "remove" \/ call[d].pc # "remove" \/ call'[d].todo = {}

(* No head drops a chunk, no save forgets one it wrote, and none is brought in. *)
LEMMA StrandStay ==
  ASSUME StrandInv,
         queued' \subseteq There, UNCHANGED <<catalog, body, mem>>,
         \A s \in Session : head[s].chunks \subseteq head'[s].chunks,
         \A d \in Call : ForgetKept(d),
         \A d \in Call : call[d].op = "save" =>
            \/ call'[d].op = "save" /\ call[d].todo \subseteq call'[d].todo
            \/ call[d].todo \subseteq reported' \cup cut'
            \/ \E s \in Session : call[d].todo \subseteq head'[s].chunks,
         reported \subseteq reported', cut \subseteq cut'
  PROVE  StrandInv'
<1>1. ASSUME NEW k \in There' PROVE Tied(k)'
  <2>1. k \in There /\ Tied(k)
    BY DEF There, StrandInv
  <2>2. CASE \E s \in Session : k \in head[s].chunks
    BY <2>2 DEF Tied
  <2>3. CASE \E c \in Call : call[c].op = "save" /\ k \in call[c].todo
    BY <2>3 DEF Tied
  <2>4. CASE k \in reported \cup cut
    BY <2>4 DEF Tied
  <2> QED BY <2>1, <2>2, <2>3, <2>4 DEF Tied
<1>2. ASSUME NEW d \in Call PROVE Emptied(d)'
  BY DEF Emptied, ForgetKept, StrandInv
<1>3. \A p \in Process : mem'[p] = catalog'
  BY DEF StrandInv
<1> QED BY <1>1, <1>2, <1>3 DEF StrandInv

LEMMA StepForgets ==
  ASSUME NEW c \in Call, NEW from, NEW to, NEW todo, Step(c, from, to, todo),
         call[c].op = "forget" /\ to \in {"remove", "edge", "revise", "unindex", "delete"} =>
           /\ from \in {"remove", "edge", "revise", "unindex", "delete"}
           /\ todo = call[c].todo
           /\ to = "remove" \/ from # "remove" \/ todo = {}
  PROVE  \A d \in Call : ForgetKept(d)
<1> SUFFICES ASSUME NEW d \in Call PROVE ForgetKept(d)
  OBVIOUS
<1>1. CASE d = c
  BY <1>1 DEF Step, SameCall, ForgetKept, Removing
<1>2. CASE d # c
  BY <1>2 DEF Step, Others, ForgetKept, Removing
<1> QED BY <1>1, <1>2

(* A save past its head, a link or a forget answers for no chunk. *)
LEMMA StepSaves ==
  ASSUME HeadsInv, NEW c \in Call, NEW from, NEW to, NEW todo, Step(c, from, to, todo),
         call[c].op = "save" => call[c].todo \subseteq todo
  PROVE  \A d \in Call : call[d].op = "save" => call'[d].op = "save" /\ call[d].todo \subseteq call'[d].todo
<1> SUFFICES ASSUME NEW d \in Call, call[d].op = "save"
             PROVE  call'[d].op = "save" /\ call[d].todo \subseteq call'[d].todo
  OBVIOUS
<1>1. CASE d = c
  BY <1>1 DEF Step, SameCall
<1>2. CASE d # c
  BY <1>2 DEF Step, Others
<1> QED BY <1>1, <1>2

LEMMA IdleStrands ==
  ASSUME DeviceInv, NEW c \in Call, Idles(c)
  PROVE  StrandInv'
<1>1. UNCHANGED <<head, queued, catalog, body, mem, reported, cut>> /\ HeadsInv /\ StrandInv
  BY DEF Idles, SaveStops, Abandoned, IndexHead, EdgeRead, ForgetEdge, ForgetIndex, CallFails, DeviceInv
<1>2. CallStage(c) /\ AfterEdge(c) \in {"unindex", "done"}
  BY <1>1 DEF HeadsInv, AfterEdge
<1>3. (call[c].op = "save" /\ call[c].pc \notin {"write", "abandon"}) => call[c].todo = {}
  BY <1>2 DEF CallStage, Saving, Past
<1>4. PICK from, to, todo :
        /\ Step(c, from, to, todo) /\ (call[c].op = "save" => call[c].todo \subseteq todo)
        /\ call[c].op = "forget" /\ to \in {"remove", "edge", "revise", "unindex", "delete"} =>
             /\ from \in {"remove", "edge", "revise", "unindex", "delete"}
             /\ todo = call[c].todo
             /\ to = "remove" \/ from # "remove" \/ todo = {}
  <2>2. CASE SaveStops(c)
    <3>1. Step(c, "write", "abandon", call[c].todo)
      BY <1>1, <2>2, SaveSteps
    <3> QED BY <3>1
  <2>3. CASE Abandoned(c)
    <3>1. Step(c, "abandon", "done", {}) /\ call[c].todo = {}
      BY <1>1, <2>3, SaveSteps DEF Abandoned
    <3> QED BY <3>1
  <2>4. CASE IndexHead(c)
    <3>1. /\ call[c].op = "save" /\ (Step(c, "index", "done", {}) \/ Step(c, "index", "edge", {}))
      BY <1>1, <2>4, IndexSteps
    <3>2. call[c].todo = {}
      BY <1>3, <3>1 DEF Step
    <3> QED BY <3>1, <3>2
  <2>5. CASE EdgeRead(c)
    <3>1. Step(c, "edge", AfterEdge(c), call[c].todo) \/ Step(c, "edge", "revise", call[c].todo)
      BY <1>1, <2>5, EdgeSteps
    <3> QED BY <3>1
  <2>6. CASE ForgetEdge(c)
    <3>1. /\ Step(c, "remove", "unindex", {}) \/ Step(c, "remove", "edge", {})
          /\ call[c].todo = {}
      BY <1>1, <2>6, ForgetSteps DEF ForgetEdge
    <3> QED BY <3>1
  <2>7. CASE ForgetIndex(c)
    <3>1. Step(c, "unindex", "delete", call[c].todo)
      BY <1>1, <2>7, ForgetSteps
    <3> QED BY <3>1
  <2>8. CASE CallFails(c)
    <3>1. Step(c, call[c].pc, "done", {})
      BY <1>1, <2>8, ForgetSteps
    <3>2. call[c].op = "save" => call[c].todo = {}
      BY <1>3, <2>8 DEF CallFails
    <3> QED BY <3>1, <3>2
  <2> QED BY <2>2, <2>3, <2>4, <2>5, <2>6, <2>7, <2>8 DEF Idles
<1>5. \A d \in Call : ForgetKept(d)
  BY <1>4, StepForgets
<1>6. \A d \in Call : call[d].op = "save" => call'[d].op = "save" /\ call[d].todo \subseteq call'[d].todo
  BY <1>1, <1>4, StepSaves
<1>7. queued' \subseteq There
  BY <1>1 DEF There
<1> QED BY <1>1, <1>5, <1>6, <1>7, StrandStay

LEMMA StartStrands ==
  ASSUME DeviceInv, NEW c \in Call, Starts(c)
  PROVE  StrandInv'
<1>1. UNCHANGED <<head, queued, catalog, body, mem, reported, cut>> /\ HeadsInv /\ StrandInv
  BY DEF Starts, SaveNew, SaveMore, LinkMemory, ForgetRead, DeviceInv
<1>2. PICK op, pc, s : Begins(c, op, pc, s) /\ (op = "forget" => pc = "withdraw")
  BY <1>1, BeginSteps DEF Starts
<1>3. \A d \in Call : ForgetKept(d)
  BY <1>2 DEF Begins, Others, ForgetKept, Removing
<1>4. \A d \in Call : call[d].op = "save" => call'[d].op = "save" /\ call[d].todo \subseteq call'[d].todo
  BY <1>2 DEF Begins, Others
<1>5. queued' \subseteq There
  BY <1>1 DEF There
<1> QED BY <1>1, <1>3, <1>4, <1>5, StrandStay

LEMMA WriteChunkStrands ==
  ASSUME DeviceInv, NEW c \in Call, WriteChunk(c)
  PROVE  StrandInv'
<1>1. UNCHANGED <<head, catalog, mem, reported, cut>> /\ call[c].pc = "write" /\ HeadsInv /\ StrandInv
  BY DEF WriteChunk, At, DeviceInv
<1>2. PICK k \in Chunk : /\ k[1] = c /\ Step(c, "write", "write", call[c].todo \cup {k})
                         /\ body' = body \cup {k} /\ queued' = queued \cup {k}
  BY <1>1, SaveSteps
<1>3. ~Past(c) /\ call[c].op = "save"
  BY <1>1, OpAtStage DEF Past
<1>4. call'[c].op = "save" /\ call'[c].todo = call[c].todo \cup {k} /\ \A d \in Call : d # c => call'[d] = call[d]
  BY <1>2, <1>3 DEF Step, SameCall, Others
<1>5. ASSUME NEW j \in There' PROVE Tied(j)'
  <2>1. CASE j = k
    BY <1>4, <2>1 DEF Tied
  <2>2. CASE j # k
    <3>1. Tied(j)
      BY <1>1, <1>2, <2>2 DEF There, StrandInv
    <3>2. \A d \in Call : call[d].op = "save" => call'[d].op = "save" /\ call[d].todo \subseteq call'[d].todo
      BY <1>4
    <3> QED BY <1>1, <3>1, <3>2 DEF Tied
  <2> QED BY <2>1, <2>2
<1>6. ASSUME NEW d \in Call, Removing(d)' PROVE Emptied(d)'
  <2>1. d # c /\ Removing(d) /\ call'[d] = call[d]
    BY <1>4, <1>6 DEF Removing
  <2>2. Emptied(d) /\ CallView(d) /\ call[d].view.version > 0
    BY <1>1, <2>1 DEF StrandInv, HeadsInv, CallStage, Forgetting, Removing
  <2>3. k \notin call[d].view.chunks
    BY <1>2, <1>3, <2>2, NoName DEF CallView
  <2> QED BY <1>1, <1>2, <2>1, <2>2, <2>3 DEF Emptied
<1> QED BY <1>1, <1>5, <1>6 DEF StrandInv, Emptied

LEMMA PutHeadStrands ==
  ASSUME DeviceInv, NEW c \in Call, PutHead(c)
  PROVE  StrandInv'
<1>1. /\ UNCHANGED <<queued, catalog, body, mem, reported, cut>> /\ HeadsInv /\ StrandInv
      /\ call[c].pc = "write" /\ head \in [Session -> HeadRow]
  BY DEF PutHead, At, DeviceInv, HeadsInv, SessionTypes
<1>2. call[c] \in CallRow /\ Saving(c) /\ call[c].op = "save" /\ CallView(c) /\ call[c].view \in HeadRow
  BY <1>1, OpAtStage DEF CallStage, HeadsInv, CallRow
<1>3. ASSUME NEW s \in Session PROVE head[s].chunks \subseteq head'[s].chunks
  <2>1. CASE Held(s) /\ s = call[c].sid /\ Accepts(s, call[c].view.version)
    <3>1. call[c].view = head[s]
      BY <1>2, <2>1 DEF CallView, Agrees, Accepts, Held
    <3>2. head'[s] = [head[s] EXCEPT !.version = head[s].version + 1, !.chunks = head[s].chunks \cup call[c].todo]
      BY <1>1, <1>2, <2>1, <3>1 DEF PutHead, HeadRow
    <3> QED BY <1>1, <3>2 DEF HeadRow
  <2>2. CASE ~Held(s)
    BY <1>1, <2>2, FreshIsTyped DEF HeadsInv, SessionTypes
  <2>3. CASE ~(s = call[c].sid /\ Accepts(s, call[c].view.version))
    BY <1>1, <2>3 DEF PutHead
  <2> QED BY <2>1, <2>2, <2>3
<1>4. queued' \subseteq There
  BY <1>1 DEF There
<1>5. CASE Accepts(call[c].sid, call[c].view.version)
  <2>1. Step(c, "write", "index", {})
    BY <1>1, <1>5, SaveSteps
  <2>2. PICK s \in Session : s = call[c].sid
    BY <1>2 DEF Saving
  <2>3. head'[s] = [call[c].view EXCEPT !.version = call[c].view.version + 1,
                                        !.chunks = call[c].view.chunks \cup call[c].todo]
    BY <1>1, <1>2, <1>5, <2>2 DEF PutHead, HeadRow
  <2>4. call[c].todo \subseteq head'[s].chunks
    BY <1>2, <2>3 DEF HeadRow
  <2>5. \A d \in Call : d # c => call'[d] = call[d]
    BY <2>1 DEF Step, Others
  <2>6. \A d \in Call : ForgetKept(d)
    BY <1>2, <2>1, StepForgets
  <2>7. \A d \in Call : call[d].op = "save" =>
          \/ call'[d].op = "save" /\ call[d].todo \subseteq call'[d].todo
          \/ \E r \in Session : call[d].todo \subseteq head'[r].chunks
    BY <2>4, <2>5
  <2> QED BY <1>1, <1>3, <1>4, <2>6, <2>7, StrandStay
<1>6. CASE ~Accepts(call[c].sid, call[c].view.version)
  <2>1. Step(c, "write", "abandon", call[c].todo)
    BY <1>1, <1>6, SaveSteps
  <2>2. \A d \in Call : ForgetKept(d)
    BY <2>1, StepForgets
  <2>3. \A d \in Call : call[d].op = "save" => call'[d].op = "save" /\ call[d].todo \subseteq call'[d].todo
    BY <1>1, <2>1, StepSaves
  <2> QED BY <1>1, <1>3, <1>4, <2>2, <2>3, StrandStay
<1> QED BY <1>5, <1>6

LEMMA EdgeWriteStrands ==
  ASSUME DeviceInv, NEW c \in Call, EdgeWrite(c)
  PROVE  StrandInv'
<1>1. /\ UNCHANGED <<queued, catalog, body, mem, reported, cut>> /\ HeadsInv /\ StrandInv
      /\ call[c].pc = "revise" /\ head \in [Session -> HeadRow]
  BY DEF EdgeWrite, At, DeviceInv, HeadsInv, SessionTypes
<1>2. call[c] \in CallRow /\ CallSeen(c) /\ call[c].seen \in HeadRow
  BY <1>1, OpAtStage DEF HeadsInv, CallRow
<1>3. ASSUME NEW s \in Session PROVE head[s].chunks \subseteq head'[s].chunks
  <2>1. CASE s = call[c].target /\ Accepts(s, call[c].seen.version)
    <3>1. call[c].seen = head[s]
      BY <1>1, <1>2, <2>1 DEF CallSeen, Agrees, Accepts, Held
    <3>2. head'[s] = [head[s] EXCEPT !.version = head[s].version + 1, !.edges = Revised(c, head[s].edges)]
      BY <1>1, <1>2, <2>1, <3>1 DEF EdgeWrite, HeadRow
    <3> QED BY <1>1, <3>2 DEF HeadRow
  <2>2. CASE ~(s = call[c].target /\ Accepts(s, call[c].seen.version))
    BY <1>1, <2>2 DEF EdgeWrite
  <2> QED BY <2>1, <2>2
<1>4. queued' \subseteq There
  BY <1>1 DEF There
<1>5. PICK to : Step(c, "revise", to, call[c].todo)
  BY <1>1, EdgeSteps
<1>6. \A d \in Call : ForgetKept(d)
  BY <1>5, StepForgets
<1>7. \A d \in Call : call[d].op = "save" => call'[d].op = "save" /\ call[d].todo \subseteq call'[d].todo
  BY <1>1, <1>5, StepSaves
<1> QED BY <1>1, <1>3, <1>4, <1>6, <1>7, StrandStay

LEMMA ForgetWithdrawStrands ==
  ASSUME DeviceInv, NEW c \in Call, ForgetWithdraw(c)
  PROVE  StrandInv'
<1>1. /\ UNCHANGED <<head, catalog, body, mem, reported, cut>> /\ HeadsInv /\ StrandInv
      /\ queued' \subseteq queued /\ call[c].pc = "withdraw"
  BY DEF ForgetWithdraw, At, DeviceInv
<1>2. call[c].op = "forget"
  BY <1>1, OpAtStage
<1>3. CASE call[c].view.chunks \cap Claimed # {}
  <2>1. Step(c, "withdraw", "done", call[c].todo)
    BY <1>1, <1>3, ForgetSteps
  <2>2. \A d \in Call : ForgetKept(d)
    BY <2>1, StepForgets
  <2>3. \A d \in Call : call[d].op = "save" => call'[d].op = "save" /\ call[d].todo \subseteq call'[d].todo
    BY <1>1, <2>1, StepSaves
  <2>4. queued' \subseteq There
    BY <1>1 DEF There
  <2> QED BY <1>1, <2>2, <2>3, <2>4, StrandStay
<1>4. CASE ~(call[c].view.chunks \cap Claimed # {})
  <2>1. Step(c, "withdraw", "remove", call[c].view.chunks)
    BY <1>1, <1>4, ForgetSteps
  <2>2. /\ call'[c].todo = call'[c].view.chunks /\ call'[c].pc = "remove"
        /\ \A d \in Call : d # c => call'[d] = call[d]
    BY <2>1 DEF Step, SameCall, Others
  <2>3. ASSUME NEW k \in There' PROVE Tied(k)'
    <3>1. Tied(k)
      BY <1>1 DEF There, StrandInv
    <3>2. \A d \in Call : call[d].op = "save" => call'[d] = call[d]
      BY <1>2, <2>2
    <3> QED BY <1>1, <3>1, <3>2 DEF Tied
  <2>4. ASSUME NEW d \in Call PROVE Emptied(d)'
    <3>1. CASE d = c
      BY <2>2, <3>1 DEF Emptied
    <3>2. CASE d # c
      BY <1>1, <2>2, <3>2 DEF Emptied, StrandInv, Removing
    <3> QED BY <3>1, <3>2
  <2> QED BY <1>1, <2>3, <2>4 DEF StrandInv
<1> QED BY <1>3, <1>4

(* A removal that its process's copy, which is the catalog, cannot miss. *)
LEMMA Removes ==
  ASSUME OneProcess, DeviceInv, NEW c \in Call, NEW k \in Chunk, RemoveEntry(Serves[c], k)
  PROVE  catalog' = catalog \ {k} /\ \A p \in Process : mem'[p] = catalog'
<1>1. Serves[c] \in Process /\ \A p \in Process : p = Serves[c]
  BY ServesAssumption DEF OneProcess
<1>2. mem[Serves[c]] = catalog /\ mem \in [Process -> SUBSET Chunk]
  BY <1>1 DEF DeviceInv, StrandInv, HeadsInv, SessionTypes, DeviceTypes
<1>3. mem'[Serves[c]] = catalog \ {k}
  BY <1>1, <1>2 DEF RemoveEntry
<1>4. catalog' = catalog \ {k}
  BY <1>2 DEF RemoveEntry
<1> QED BY <1>1, <1>3, <1>4

LEMMA DiscardStrands ==
  ASSUME OneProcess, DeviceInv, NEW c \in Call, NEW k \in Chunk, Discard(c, k)
  PROVE  StrandInv'
<1>1. UNCHANGED <<head, cut>> /\ HeadsInv /\ StrandInv /\ call[c].pc = "abandon"
  BY DEF Discard, At, DeviceInv
<1>2. Step(c, "abandon", "abandon", call[c].todo \ {k}) /\ call[c].op = "save"
  BY <1>1, SaveSteps, OpAtStage
<1>3. /\ call'[c].op = "save" /\ call'[c].todo = call[c].todo \ {k}
      /\ \A d \in Call : d # c => call'[d] = call[d]
  BY <1>2 DEF Step, SameCall, Others
<1>4. /\ There' \subseteq There /\ reported \subseteq reported' /\ (k \in There' => k \in reported')
      /\ catalog' \subseteq catalog /\ body' \subseteq body /\ \A p \in Process : mem'[p] = catalog'
  <2>1. CASE k \in Claimed
    <3>1. UNCHANGED <<queued, catalog, mem, body>> /\ reported' = reported \cup {k}
      BY <2>1 DEF Discard
    <3> QED BY <1>1, <3>1 DEF There, StrandInv
  <2>2. CASE k \notin Claimed
    <3>1. queued' = queued \ {k} /\ RemoveEntry(Serves[c], k) /\ body' = body \ {k} /\ reported' = reported
      BY <2>2 DEF Discard
    <3>2. catalog' = catalog \ {k} /\ \A p \in Process : mem'[p] = catalog'
      BY <3>1, Removes
    <3> QED BY <3>1, <3>2 DEF There
  <2> QED BY <2>1, <2>2
<1>5. ASSUME NEW j \in There' PROVE Tied(j)'
  <2>1. Tied(j)
    BY <1>1, <1>4 DEF StrandInv
  <2>2. CASE j = k
    BY <1>4, <2>2 DEF Tied
  <2>3. CASE j # k
    <3>1. \A d \in Call : call[d].op = "save" /\ j \in call[d].todo => call'[d].op = "save" /\ j \in call'[d].todo
      BY <1>3, <2>3
    <3> QED BY <1>1, <1>4, <2>1, <3>1 DEF Tied
  <2> QED BY <2>2, <2>3
<1>6. ASSUME NEW d \in Call, Removing(d)' PROVE Emptied(d)'
  <2>1. d # c /\ Removing(d) /\ call'[d] = call[d]
    BY <1>3, <1>6 DEF Removing
  <2> QED BY <1>1, <1>4, <2>1 DEF StrandInv, Emptied
<1> QED BY <1>4, <1>5, <1>6 DEF StrandInv, Emptied

LEMMA ForgetChunkStrands ==
  ASSUME OneProcess, DeviceInv, NEW c \in Call, NEW k \in Chunk, ForgetChunk(c, k)
  PROVE  StrandInv'
<1>1. /\ UNCHANGED <<head, queued, reported, cut>> /\ HeadsInv /\ StrandInv /\ call[c].pc = "remove"
      /\ RemoveEntry(Serves[c], k) /\ body' = body \ {k}
  BY DEF ForgetChunk, At, DeviceInv
<1>2. catalog' = catalog \ {k} /\ \A p \in Process : mem'[p] = catalog'
  BY <1>1, Removes
<1>3. Step(c, "remove", "remove", call[c].todo \ {k}) /\ call[c].op = "forget"
  BY <1>1, ForgetSteps, OpAtStage
<1>4. /\ SameCall(c) /\ call'[c].pc = "remove" /\ call'[c].todo = call[c].todo \ {k}
      /\ \A d \in Call : d # c => call'[d] = call[d]
  BY <1>3 DEF Step, Others
<1>5. ASSUME NEW j \in There' PROVE Tied(j)'
  <2>1. Tied(j)
    BY <1>1, <1>2 DEF There, StrandInv
  <2>2. \A d \in Call : call[d].op = "save" => call'[d] = call[d]
    BY <1>3, <1>4
  <2> QED BY <1>1, <2>1, <2>2 DEF Tied
<1>6. ASSUME NEW d \in Call, Removing(d)' PROVE Emptied(d)'
  <2>1. CASE d = c
    <3>1. Removing(c) /\ Emptied(c)
      BY <1>1, <1>3 DEF Removing, StrandInv
    <3>2. (call[c].view.chunks \ call'[c].todo) \cap (catalog' \cup body') = {}
      BY <1>1, <1>2, <1>4, <3>1 DEF Emptied
    <3> QED BY <1>4, <2>1, <3>2 DEF Emptied, SameCall
  <2>2. CASE d # c
    BY <1>1, <1>2, <1>4, <1>6, <2>2 DEF StrandInv, Emptied, Removing
  <2> QED BY <2>1, <2>2
<1> QED BY <1>2, <1>5, <1>6 DEF StrandInv, Emptied

(* The head that goes named nothing that is still there. *)
LEMMA ForgetHeadStrands ==
  ASSUME DeviceInv, NEW c \in Call, ForgetHead(c)
  PROVE  StrandInv'
<1>1. /\ UNCHANGED <<queued, catalog, body, mem, reported, cut>> /\ HeadsInv /\ StrandInv /\ ChunksInv
      /\ call[c].pc = "delete" /\ head \in [Session -> HeadRow]
  BY DEF ForgetHead, At, DeviceInv, HeadsInv, SessionTypes
<1>2. call[c].op = "forget" /\ Removing(c) /\ CallView(c) /\ call[c].view.version > 0
  BY <1>1, OpAtStage DEF Removing, HeadsInv, CallStage, Forgetting
<1>3. Step(c, "delete", "done", call[c].todo)
  BY <1>1, ForgetSteps
<1>4. \A d \in Call : d # c => call'[d] = call[d]
  BY <1>3 DEF Step, Others
<1>5. call[c].view.chunks \cap There = {}
  <2>1. Emptied(c) /\ CallChunks(c)
    BY <1>1 DEF StrandInv, ChunksInv
  <2> QED BY <1>1, <1>2, <2>1 DEF Emptied, CallChunks, There
<1>6. ASSUME NEW k \in There' PROVE Tied(k)'
  <2>1. k \in There /\ Tied(k)
    BY <1>1 DEF There, StrandInv
  <2>2. ASSUME NEW s \in Session, k \in head[s].chunks PROVE k \in head'[s].chunks
    <3>1. CASE s = call[c].sid /\ Deletes(s, call[c].view.version)
      <4>1. call[c].view = head[s]
        BY <1>2, <3>1 DEF CallView, Agrees, Deletes, Held
      <4> QED BY <1>5, <2>1, <2>2, <4>1
    <3>2. CASE ~(s = call[c].sid /\ Deletes(s, call[c].view.version))
      BY <1>1, <2>2, <3>2 DEF ForgetHead
    <3> QED BY <3>1, <3>2
  <2>3. \A d \in Call : call[d].op = "save" => call'[d] = call[d]
    BY <1>2, <1>4
  <2> QED BY <1>1, <2>1, <2>2, <2>3 DEF Tied
<1>7. ASSUME NEW d \in Call, Removing(d)' PROVE Emptied(d)'
  <2>1. d # c
    BY <1>3, <1>7 DEF Step, Removing
  <2> QED BY <1>1, <1>4, <1>7, <2>1 DEF StrandInv, Emptied, Removing
<1> QED BY <1>1, <1>6, <1>7 DEF StrandInv, Emptied

LEMMA FlushStrands ==
  ASSUME OneProcess, DeviceInv, NEW p \in Process,
         FlushClaim(p) \/ FlushCatalog(p) \/ FlushDrop(p) \/ FlushFails(p)
  PROVE  StrandInv'
<1>1. UNCHANGED <<head, body, call, reported, cut>> /\ HeadsInv /\ StrandInv /\ ChunksInv
  BY DEF FlushClaim, FlushCatalog, FlushDrop, FlushFails, DeviceInv
<1>2. \A d \in Call : call[d].op = "save" => call'[d].op = "save" /\ call[d].todo \subseteq call'[d].todo
  BY <1>1
<1>3. CASE FlushCatalog(p)
  <2>1. catalog' = catalog \cup flush[p].batch /\ mem' = [mem EXCEPT ![p] = mem[p] \cup flush[p].batch]
        /\ queued' = queued /\ flush[p].batch \subseteq queued
    BY <1>1, <1>3 DEF FlushCatalog, ChunksInv, FlushInv, HeadsInv, SessionTypes, DeviceTypes
  <2>2. There' = There
    BY <1>1, <2>1 DEF There
  <2>3. \A k \in There' : Tied(k)'
    BY <1>1, <2>2 DEF Tied, StrandInv
  <2>4. \A q \in Process : mem'[q] = catalog'
    BY <1>1, <2>1 DEF OneProcess, StrandInv, HeadsInv, SessionTypes, DeviceTypes
  <2>5. ASSUME NEW d \in Call, Removing(d)' PROVE Emptied(d)'
    <3>1. Removing(d) /\ Emptied(d) /\ CallChunks(d)
      BY <1>1, <2>5 DEF Removing, StrandInv, ChunksInv
    <3>2. call[d].view.chunks \cap flush[p].batch = {}
      BY <2>1, <3>1 DEF CallChunks
    <3> QED BY <1>1, <2>1, <3>1, <3>2 DEF Emptied
  <2> QED BY <2>3, <2>4, <2>5 DEF StrandInv, Emptied
<1>4. CASE ~FlushCatalog(p)
  <2>1. UNCHANGED <<catalog, mem>> /\ queued' \subseteq There
    BY <1>4 DEF FlushClaim, FlushDrop, FlushFails, There
  <2>2. \A d \in Call : ForgetKept(d)
    BY <1>1 DEF ForgetKept, Removing
  <2> QED BY <1>1, <1>2, <2>1, <2>2, StrandStay
<1> QED BY <1>3, <1>4

LEMMA CrashStrands ==
  ASSUME OneProcess, DeviceInv, NEW p \in Process, Crash(p)
  PROVE  StrandInv'
<1>1. /\ UNCHANGED <<head, queued, catalog, body, reported>> /\ HeadsInv /\ StrandInv
      /\ cut' = cut \cup UNION {call[c].todo : c \in {c \in Mine(p) : call[c].op = "save"}}
      /\ mem' = [mem EXCEPT ![p] = catalog]
  BY DEF Crash, Mine, DeviceInv
<1>2. UNCHANGED mem
  BY <1>1 DEF StrandInv, HeadsInv, SessionTypes, DeviceTypes
<1>3. /\ \A c \in Call : c \notin Mine(p) => call'[c] = call[c]
      /\ \A c \in Mine(p) : SameCall(c) /\ call'[c].pc = "done"
  BY <1>1, CrashCalls
<1>4. \A d \in Call : ForgetKept(d)
  BY <1>3 DEF ForgetKept, Removing
<1>5. \A d \in Call : call[d].op = "save" =>
        \/ call'[d].op = "save" /\ call[d].todo \subseteq call'[d].todo
        \/ call[d].todo \subseteq reported' \cup cut'
  BY <1>1, <1>3
<1>6. queued' \subseteq There /\ cut \subseteq cut'
  BY <1>1 DEF There
<1> QED BY <1>1, <1>2, <1>4, <1>5, <1>6, StrandStay

LEMMA InitStrands == Init => StrandInv
<1> SUFFICES ASSUME Init PROVE StrandInv
  OBVIOUS
<1>1. head[First].chunks = Stored /\ First \in Session /\ There = Stored
  BY DEF Init, There, Session, NoHead
<1>2. \A k \in There : Tied(k)
  BY <1>1 DEF Tied
<1>3. \A c \in Call : ~Removing(c)
  BY FreshIsTyped DEF Init, Removing
<1>4. \A p \in Process : mem[p] = catalog
  BY DEF Init
<1> QED BY <1>2, <1>3, <1>4 DEF StrandInv, Emptied

LEMMA NextStrands == OneProcess /\ DeviceInv /\ [Next]_vars => StrandInv'
<1> SUFFICES ASSUME OneProcess, DeviceInv, [Next]_vars PROVE StrandInv'
  OBVIOUS
<1>1. CASE UNCHANGED vars
  <2>1. UNCHANGED <<head, queued, catalog, body, mem, call, reported, cut>> /\ StrandInv
    BY <1>1 DEF vars, DeviceInv
  <2> QED BY <2>1 DEF StrandInv, There, Tied, Emptied, Removing
<1>2. ASSUME NEW c \in Call, Idles(c) \/ Starts(c) PROVE StrandInv'
  BY <1>2, IdleStrands, StartStrands
<1>3. ASSUME NEW c \in Call,
             \/ WriteChunk(c) \/ PutHead(c) \/ EdgeWrite(c) \/ ForgetWithdraw(c) \/ ForgetHead(c)
             \/ \E k \in Chunk : Discard(c, k) \/ ForgetChunk(c, k)
      PROVE  StrandInv'
  BY <1>3, WriteChunkStrands, PutHeadStrands, EdgeWriteStrands, ForgetWithdrawStrands, ForgetHeadStrands,
     DiscardStrands, ForgetChunkStrands
<1>4. ASSUME NEW p \in Process,
             FlushClaim(p) \/ FlushCatalog(p) \/ FlushDrop(p) \/ FlushFails(p) \/ Crash(p)
      PROVE  StrandInv'
  BY <1>4, FlushStrands, CrashStrands
<1> QED BY <1>1, <1>2, <1>3, <1>4, NextSteps

(***************************************************************************)
(* On a device one process has open, no turn is left in the queue, the     *)
(* catalog or the cache that no conversation names, unless its save is     *)
(* still running, said it could not take the turn back, or died.  A second *)
(* process keeps a copy of the catalog of its own, and passes over an      *)
(* entry the first one wrote.                                              *)
(***************************************************************************)
THEOREM NothingIsEverStranded == OneProcess => (Spec => []NothingStranded)
<1> SUFFICES ASSUME OneProcess PROVE Spec => []NothingStranded
  OBVIOUS
<1>1. Init => DeviceInv
  BY InitHeads, InitChunks, InitStrands DEF DeviceInv
<1>2. DeviceInv /\ [Next]_vars => DeviceInv'
  BY NextHeads, NextChunks, NextStrands DEF DeviceInv
<1>3. DeviceInv => NothingStranded
  BY DEF DeviceInv, StrandInv, NothingStranded, There, Tied
<1> QED BY <1>1, <1>2, <1>3, PTL DEF Spec

-----------------------------------------------------------------------------
(* Nothing leads to a conversation that is gone.                           *)

NoEdgeTo(s) == \A t \in Session : <<s, "child">> \notin head[t].edges

Gone(s) ==
  s \in begun \ raced /\ ~Held(s) => s \notin indexed /\ NoEdgeTo(s) /\ SavesLeft(s) = {}

(* What a forget has done so far holds for as long as its head is at the version it read. *)
Clear(c) ==
  \A s \in Session \ raced :
    call[c].op = "forget" /\ call[c].sid = s /\ head[s].version = call[c].view.version =>
      /\ call[c].pc \notin {"done", "refused"} => SavesLeft(s) = {}
      /\ call[c].pc \in {"unindex", "delete"} => NoEdgeTo(s)
      /\ call[c].pc = "delete" => s \notin indexed

LeadInv == (\A s \in Session : Gone(s)) /\ (\A c \in Call : Clear(c))

(* A head written over is past every version that was read. *)
LEMMA VersionBack ==
  ASSUME HeadsInv, head' \in [Session -> HeadRow], NEW d \in Call, call[d].op = "forget",
         NEW s \in Session, s = call[d].sid, Moves(s), head'[s].version = call[d].view.version
  PROVE  head'[s] = head[s]
<1>1. call[d].view.version > 0 /\ CallView(d) /\ call[d].view.version \in Nat
  BY OpAtStage DEF HeadsInv, CallStage, Forgetting, CallRow, HeadRow
<1>2. Born(s) /\ Agrees(call[d].view, s) /\ head[s].version \in Nat /\ head'[s].version \in Nat
  BY <1>1 DEF CallView, HeadsInv, SessionTypes, HeadRow
<1>3. ~(s \in Call /\ ~Past(s))
  BY <1>2, NameAssumption DEF Born
<1>4. ~(Held(s) /\ head'[s].version = head[s].version + 1)
  BY <1>2 DEF Agrees
<1>5. head'[s] # NoHead
  BY <1>1, FreshIsTyped
<1> QED BY <1>3, <1>4, <1>5 DEF Moves

(* A step that leads to the session by no new way. *)
Calm(s) ==
  /\ SavesLeft(s)' \subseteq SavesLeft(s)
  /\ NoEdgeTo(s) => NoEdgeTo(s)'
  /\ s \in indexed' => s \in indexed

ClearKept(d) ==
  call'[d].op = "forget" =>
    /\ call[d].op = "forget" /\ call'[d].sid = call[d].sid /\ call'[d].view = call[d].view
    /\ call'[d].pc \notin {"done", "refused"} => call[d].pc \notin {"done", "refused"}
    /\ call'[d].pc \in {"unindex", "delete"} => call[d].pc \in {"unindex", "delete"}
    /\ call'[d].pc = "delete" => call[d].pc = "delete"

LEMMA LeadStep ==
  ASSUME HeadsInv, HeadsInv', LeadInv, raced \subseteq raced',
         \A s \in Session : s \in begun' => s \in begun \/ Held(s)',
         \A s \in Session : Moves(s),
         \A s \in Session : Held(s) /\ ~Held(s)' => Gone(s)',
         \A s \in Session :
           Calm(s) \/ SavesLeft(s) # {} \/ (Held(s)' /\ head'[s] # head[s]),
         \A d \in Call : ClearKept(d) \/ Clear(d)'
  PROVE  LeadInv'
<1>1. ASSUME NEW s \in Session PROVE Gone(s)'
  <2> SUFFICES ASSUME s \in begun' \ raced', ~Held(s)', ~Held(s) PROVE Gone(s)'
    BY DEF Gone
  <2>1. s \notin indexed /\ NoEdgeTo(s) /\ SavesLeft(s) = {}
    BY DEF LeadInv, Gone
  <2>2. Calm(s)
    BY <2>1
  <2> QED BY <2>1, <2>2 DEF Gone, Calm
<1>2. ASSUME NEW d \in Call PROVE Clear(d)'
  <2>1. CASE Clear(d)'
    BY <2>1
  <2>2. CASE ClearKept(d)
    <3> SUFFICES ASSUME NEW s \in Session \ raced', call'[d].op = "forget", call'[d].sid = s,
                        head'[s].version = call'[d].view.version,
                        call'[d].pc \notin {"done", "refused"}
                 PROVE  /\ SavesLeft(s)' = {}
                        /\ call'[d].pc \in {"unindex", "delete"} => NoEdgeTo(s)'
                        /\ call'[d].pc = "delete" => s \notin indexed'
      BY DEF Clear
    <3>1. /\ call[d].op = "forget" /\ call[d].sid = s /\ call'[d].view = call[d].view
          /\ call[d].pc \notin {"done", "refused"}
          /\ call'[d].pc \in {"unindex", "delete"} => call[d].pc \in {"unindex", "delete"}
          /\ call'[d].pc = "delete" => call[d].pc = "delete"
      BY <2>2 DEF ClearKept
    <3>2. head' \in [Session -> HeadRow]
      BY DEF HeadsInv, SessionTypes
    <3>3. head'[s] = head[s]
      BY <3>1, <3>2, VersionBack
    <3>4. Clear(d) /\ s \in Session \ raced
      BY DEF LeadInv
    <3>5. /\ SavesLeft(s) = {}
          /\ call[d].pc \in {"unindex", "delete"} => NoEdgeTo(s)
          /\ call[d].pc = "delete" => s \notin indexed
      BY <3>1, <3>3, <3>4 DEF Clear
    <3>6. Calm(s)
      BY <3>3, <3>5
    <3> QED BY <3>1, <3>5, <3>6 DEF Calm
  <2> QED BY <2>1, <2>2
<1> QED BY <1>1, <1>2 DEF LeadInv

(* A step that changes no head and indexes nothing. *)
LEMMA LeadStay ==
  ASSUME HeadsInv, HeadsInv', LeadInv, raced \subseteq raced', UNCHANGED head, indexed' \subseteq indexed,
         \A s \in Session : s \in begun' => s \in begun \/ Held(s)',
         \A s \in Session : SavesLeft(s)' \subseteq SavesLeft(s),
         \A d \in Call : ClearKept(d) \/ Clear(d)'
  PROVE  LeadInv'
<1>1. \A s \in Session : Moves(s) /\ (Held(s)' <=> Held(s)) /\ (NoEdgeTo(s)' <=> NoEdgeTo(s))
  BY DEF Moves, Held, NoEdgeTo
<1>2. \A s \in Session : Calm(s)
  BY <1>1 DEF Calm
<1> QED BY <1>1, <1>2, LeadStep

LEMMA StepLeads ==
  ASSUME NEW c \in Call, NEW from, NEW to, NEW todo, Step(c, from, to, todo)
  PROVE  /\ (call[c].op = "save" /\ to \in {"index", "edge", "revise"} => from \in {"index", "edge", "revise"})
              => \A s \in Session : SavesLeft(s)' \subseteq SavesLeft(s)
         /\ \A d \in Call : d # c => ClearKept(d)
         /\ (call[c].op = "forget" =>
              /\ from \notin {"done", "refused"}
              /\ to \in {"unindex", "delete"} => from \in {"unindex", "delete"}
              /\ to = "delete" => from = "delete") => ClearKept(c)
<1>1. /\ call'[c].op = call[c].op /\ call'[c].sid = call[c].sid /\ call'[c].view = call[c].view
      /\ call[c].pc = from /\ call'[c].pc = to
  BY DEF Step, SameCall
<1>2. \A d \in Call : d # c => call'[d] = call[d]
  BY DEF Step, Others
<1>3. ASSUME call[c].op = "save" /\ to \in {"index", "edge", "revise"} => from \in {"index", "edge", "revise"},
             NEW s \in Session, NEW d \in SavesLeft(s)'
      PROVE  d \in SavesLeft(s)
  <2>1. d \in Call /\ call'[d].op = "save" /\ call'[d].sid = s /\ call'[d].pc \in {"index", "edge", "revise"}
    BY <1>3 DEF SavesLeft
  <2>2. CASE d = c
    BY <1>1, <1>3, <2>1, <2>2 DEF SavesLeft
  <2>3. CASE d # c
    BY <1>2, <2>1, <2>3 DEF SavesLeft
  <2> QED BY <2>2, <2>3
<1>4. \A d \in Call : d # c => ClearKept(d)
  BY <1>2 DEF ClearKept
<1>5. (call[c].op = "forget" =>
         /\ from \notin {"done", "refused"}
         /\ to \in {"unindex", "delete"} => from \in {"unindex", "delete"}
         /\ to = "delete" => from = "delete") => ClearKept(c)
  BY <1>1 DEF ClearKept
<1> QED BY <1>3, <1>4, <1>5

(* Only the parent names a child. *)
LEMMA OneParent ==
  ASSUME HeadsInv, NEW c \in Call, call[c].op = "forget", NEW s \in Session, s = call[c].sid,
         NEW t \in Session, <<s, "child">> \in head[t].edges
  PROVE  t = call[c].view.parent
<1>1. call[c].view.version > 0 /\ CallView(c)
  BY DEF HeadsInv, CallStage, Forgetting
<1>2. s \in Call /\ call[s].view.parent = t
  BY DEF HeadsInv, HeadInv
<1> QED BY <1>1, <1>2, NameAssumption DEF CallView, ParentOf

(* A call goes on, and changes nothing that leads to a conversation. *)
LEMMA PlainLeads ==
  ASSUME HeadsInv, HeadsInv', LeadInv, NEW c \in Call,
         \/ SaveStops(c) \/ Abandoned(c) \/ WriteChunk(c) \/ ForgetWithdraw(c) \/ CallFails(c)
         \/ \E k \in Chunk : Discard(c, k) \/ ForgetChunk(c, k)
  PROVE  LeadInv'
<1>1. UNCHANGED <<head, indexed, raced>>
  BY DEF SaveStops, Abandoned, WriteChunk, ForgetWithdraw, CallFails, Discard, ForgetChunk
<1>2. \A s \in Session : s \in begun' => s \in begun \/ Held(s)'
  <2>1. CASE ForgetWithdraw(c)
    <3>1. CallView(c) /\ call[c].view.version > 0
      BY <2>1, OpAtStage DEF ForgetWithdraw, At, HeadsInv, CallStage, Forgetting
    <3>2. Held(call[c].sid) \/ call[c].sid \in begun
      BY <3>1 DEF CallView
    <3>3. begun' \subseteq begun \cup {call[c].sid}
      BY <2>1 DEF ForgetWithdraw
    <3> QED BY <1>1, <3>2, <3>3 DEF Held
  <2>2. CASE ~ForgetWithdraw(c)
    BY <2>2 DEF SaveStops, Abandoned, WriteChunk, CallFails, Discard, ForgetChunk
  <2> QED BY <2>1, <2>2
<1>3. PICK from, to, todo :
        /\ Step(c, from, to, todo) /\ from \notin {"done", "refused"}
        /\ to \notin {"index", "edge", "revise", "unindex", "delete"}
  <2>1. CASE SaveStops(c)
    <3>1. Step(c, "write", "abandon", call[c].todo)
      BY <2>1, SaveSteps
    <3> QED BY <3>1
  <2>2. CASE Abandoned(c)
    <3>1. Step(c, "abandon", "done", {})
      BY <2>2, SaveSteps
    <3> QED BY <3>1
  <2>3. CASE WriteChunk(c)
    <3>1. \E todo : Step(c, "write", "write", todo)
      BY <2>3, SaveSteps
    <3> QED BY <3>1
  <2>4. CASE ForgetWithdraw(c)
    <3>1. \E todo : Step(c, "withdraw", "done", todo) \/ Step(c, "withdraw", "remove", todo)
      BY <2>4, ForgetSteps
    <3> QED BY <3>1
  <2>5. CASE CallFails(c)
    <3>1. Step(c, call[c].pc, "done", {}) /\ call[c].pc \notin {"done", "refused"}
      BY <2>5, ForgetSteps DEF CallFails
    <3> QED BY <3>1
  <2>6. ASSUME NEW k \in Chunk, Discard(c, k) \/ ForgetChunk(c, k)
        PROVE  \E todo : Step(c, "abandon", "abandon", todo) \/ Step(c, "remove", "remove", todo)
    BY <2>6, SaveSteps, ForgetSteps
  <2>7. CASE \E k \in Chunk : Discard(c, k) \/ ForgetChunk(c, k)
    <3>1. \E todo : Step(c, "abandon", "abandon", todo) \/ Step(c, "remove", "remove", todo)
      BY <2>6, <2>7
    <3> QED BY <3>1
  <2> QED BY <2>1, <2>2, <2>3, <2>4, <2>5, <2>7
<1>4. \A s \in Session : SavesLeft(s)' \subseteq SavesLeft(s)
  BY <1>3, StepLeads
<1>5. \A d \in Call : ClearKept(d)
  BY <1>3, StepLeads
<1> QED BY <1>1, <1>2, <1>4, <1>5, LeadStay

LEMMA StartLeads ==
  ASSUME HeadsInv, HeadsInv', LeadInv, NEW c \in Call, Starts(c)
  PROVE  LeadInv'
<1>1. UNCHANGED <<head, indexed, begun>> /\ raced \subseteq raced'
  BY DEF Starts, SaveNew, SaveMore, LinkMemory, ForgetRead
<1>2. ASSUME NEW op, NEW pc, NEW r, Begins(c, op, pc, r), pc \notin {"index", "revise"},
             op = "save" => pc # "edge"
      PROVE  \A s \in Session : SavesLeft(s)' \subseteq SavesLeft(s)
  <2> SUFFICES ASSUME NEW s \in Session, NEW d \in SavesLeft(s)' PROVE d \in SavesLeft(s)
    OBVIOUS
  <2>1. d \in Call /\ call'[d].op = "save" /\ call'[d].sid = s /\ call'[d].pc \in {"index", "edge", "revise"}
    BY DEF SavesLeft
  <2>2. d # c
    BY <1>2, <2>1 DEF Begins
  <2> QED BY <1>2, <2>1, <2>2 DEF SavesLeft, Begins, Others
<1>3. ASSUME NEW op, NEW pc, NEW r, Begins(c, op, pc, r), op # "forget" PROVE \A d \in Call : ClearKept(d)
  BY <1>3 DEF Begins, Others, ClearKept
<1>4. CASE \E s \in Session \cup {NoSession} : SaveNew(c, s)
  <2>1. Begins(c, "save", "write", c)
    BY <1>4, BeginSteps
  <2> QED BY <1>1, <1>2, <1>3, <2>1, LeadStay
<1>5. ASSUME NEW s \in Session, SaveMore(c, s) PROVE LeadInv'
  <2>1. Begins(c, "save", "write", s)
    BY <1>5, BeginSteps
  <2> QED BY <1>1, <1>2, <1>3, <2>1, LeadStay
<1>6. ASSUME NEW s \in Session, LinkMemory(c, s) PROVE LeadInv'
  <2>1. Begins(c, "link", "edge", NoSession)
    BY <1>6, BeginSteps
  <2> QED BY <1>1, <1>2, <1>3, <2>1, LeadStay
<1>7. ASSUME NEW s \in Session, ForgetRead(c, s) PROVE LeadInv'
  <2>1. Begins(c, "forget", "withdraw", s)
    BY <1>7, BeginSteps
  <2>2. \A r \in Session : SavesLeft(r)' \subseteq SavesLeft(r)
    BY <1>2, <2>1
  <2>3. Clear(c)'
    <3>1. s \in raced' \/ SavesLeft(s) = {}
      BY <1>7 DEF ForgetRead
    <3>2. call'[c].sid = s /\ call'[c].pc = "withdraw"
      BY <2>1 DEF Begins
    <3> QED BY <2>2, <3>1, <3>2 DEF Clear
  <2>4. \A d \in Call : d # c => ClearKept(d)
    BY <2>1 DEF Begins, Others, ClearKept
  <2> QED BY <1>1, <2>2, <2>3, <2>4, LeadStay
<1> QED BY <1>4, <1>5, <1>6, <1>7 DEF Starts

LEMMA IndexHeadLeads ==
  ASSUME HeadsInv, HeadsInv', LeadInv, NEW c \in Call, IndexHead(c)
  PROVE  LeadInv'
<1>1. UNCHANGED <<head, begun, raced>> /\ indexed' = indexed \cup {call[c].sid}
  BY DEF IndexHead
<1>2. /\ call[c].op = "save" /\ call[c].sid \in Session
      /\ Step(c, "index", "done", {}) \/ Step(c, "index", "edge", {})
  BY IndexSteps
<1>3. (\A s \in Session : SavesLeft(s)' \subseteq SavesLeft(s)) /\ (\A d \in Call : ClearKept(d))
  <2>1. PICK to : Step(c, "index", to, {})
    BY <1>2
  <2>2. \A s \in Session : SavesLeft(s)' \subseteq SavesLeft(s)
    BY <2>1, StepLeads
  <2>3. ClearKept(c)
    BY <1>2, <2>1, StepLeads
  <2>4. \A d \in Call : d # c => ClearKept(d)
    BY <2>1, StepLeads
  <2> QED BY <2>2, <2>3, <2>4
<1>4. \A s \in Session : Moves(s) /\ (Held(s)' <=> Held(s)) /\ (NoEdgeTo(s)' <=> NoEdgeTo(s))
  BY <1>1 DEF Moves, Held, NoEdgeTo
<1>5. ASSUME NEW s \in Session PROVE Calm(s) \/ SavesLeft(s) # {}
  <2>1. CASE s = call[c].sid
    <3>1. c \in SavesLeft(s)
      BY <1>2, <2>1 DEF SavesLeft, Step
    <3> QED BY <3>1
  <2>2. CASE s # call[c].sid
    BY <1>1, <1>3, <1>4, <2>2 DEF Calm
  <2> QED BY <2>1, <2>2
<1> QED BY <1>1, <1>3, <1>4, <1>5, LeadStep

LEMMA PutHeadLeads ==
  ASSUME HeadsInv, HeadsInv', LeadInv, NEW c \in Call, PutHead(c)
  PROVE  LeadInv'
<1>1. /\ UNCHANGED <<indexed, begun, raced>> /\ head \in [Session -> HeadRow] /\ call[c].pc = "write"
      /\ head' \in [Session -> HeadRow]
  BY DEF PutHead, At, HeadsInv, SessionTypes
<1>2. /\ call[c].op = "save" /\ Saving(c) /\ CallView(c) /\ call[c].view \in HeadRow /\ ~Past(c)
      /\ call[c].view.version \in Nat
  BY <1>1, OpAtStage DEF CallStage, HeadsInv, CallRow, HeadRow, Past
<1>3. PICK s \in Session : s = call[c].sid
  BY <1>2 DEF Saving
<1>4. CASE ~Accepts(s, call[c].view.version)
  <2>1. UNCHANGED head /\ Step(c, "write", "abandon", call[c].todo)
    BY <1>3, <1>4, SaveSteps DEF PutHead
  <2>2. \A r \in Session : SavesLeft(r)' \subseteq SavesLeft(r)
    BY <2>1, StepLeads
  <2>3. \A d \in Call : ClearKept(d)
    BY <1>2, <2>1, StepLeads
  <2> QED BY <1>1, <2>1, <2>2, <2>3, LeadStay
<1>5. CASE Accepts(s, call[c].view.version)
  <2>1. /\ Step(c, "write", "index", {}) /\ \A r \in Session : r # s => head'[r] = head[r]
        /\ head'[s] = [call[c].view EXCEPT !.version = call[c].view.version + 1,
                                           !.chunks = call[c].view.chunks \cup call[c].todo]
    BY <1>1, <1>2, <1>3, <1>5, SaveSteps DEF PutHead, HeadRow
  <2>2. head'[s].version = head[s].version + 1 /\ head'[s].edges = call[c].view.edges
    BY <1>2, <1>5, <2>1 DEF HeadRow, Accepts
  <2>3. call[c].view.edges \subseteq head[s].edges
    <3>1. CASE call[c].view.version = 0
      BY <1>2, <3>1 DEF Saving
    <3>2. CASE call[c].view.version # 0
      BY <1>2, <1>3, <1>5, <3>2 DEF CallView, Agrees, Accepts, Held
    <3> QED BY <3>1, <3>2
  <2>4. Held(s)' /\ head'[s] # head[s] /\ head[s].version \in Nat
    BY <1>1, <2>2 DEF Held, HeadRow
  <2>5. \A r \in Session : Moves(r)
    <3>1. Moves(s)
      <4>1. CASE call[c].view.version = 0
        BY <1>2, <1>3, <4>1 DEF Saving, Moves
      <4>2. CASE call[c].view.version # 0
        BY <1>2, <1>5, <2>2, <2>4, <4>2 DEF Moves, Held, Accepts
      <4> QED BY <4>1, <4>2
    <3> QED BY <2>1, <3>1 DEF Moves
  <2>6. \A r \in Session : Held(r) => Held(r)'
    BY <2>1, <2>4 DEF Held
  <2>7. ASSUME NEW r \in Session, r # s PROVE Calm(r)
    <3>1. SavesLeft(r)' \subseteq SavesLeft(r)
      <4> SUFFICES ASSUME NEW d \in SavesLeft(r)' PROVE d \in SavesLeft(r)
        OBVIOUS
      <4>1. d \in Call /\ call'[d].op = "save" /\ call'[d].sid = r /\ call'[d].pc \in {"index", "edge", "revise"}
        BY DEF SavesLeft
      <4>2. d # c
        BY <1>3, <2>1, <2>7, <4>1 DEF Step, SameCall
      <4> QED BY <2>1, <4>1, <4>2 DEF SavesLeft, Step, Others
    <3>2. \A t \in Session : head'[t].edges \subseteq head[t].edges
      BY <2>1, <2>2, <2>3
    <3> QED BY <1>1, <3>1, <3>2 DEF Calm, NoEdgeTo
  <2>8. \A d \in Call : ClearKept(d)
    <3>1. ClearKept(c)
      BY <1>2, <2>1, StepLeads
    <3>2. \A d \in Call : d # c => ClearKept(d)
      BY <2>1, StepLeads
    <3> QED BY <3>1, <3>2
  <2> QED BY <1>1, <2>4, <2>5, <2>6, <2>7, <2>8, LeadStep
<1> QED BY <1>4, <1>5

(* A forget is past its edge once the parent does not name it. *)
LEMMA Cleared ==
  ASSUME HeadsInv, HeadsInv', LeadInv, NEW c \in Call, call[c].op = "forget", SameCall(c),
         call[c].pc \notin {"done", "refused"}, call'[c].pc = "unindex",
         UNCHANGED raced, \A s \in Session : SavesLeft(s)' \subseteq SavesLeft(s),
         \A s \in Session : Moves(s),
         \A s, t \in Session : s = call[c].sid /\ <<s, "child">> \in head'[t].edges => head'[s] # head[s]
  PROVE  Clear(c)'
<1> SUFFICES ASSUME NEW s \in Session \ raced', call'[c].sid = s, head'[s].version = call'[c].view.version
             PROVE  SavesLeft(s)' = {} /\ NoEdgeTo(s)'
  BY DEF Clear
<1>1. call[c].sid = s /\ head'[s].version = call[c].view.version /\ head' \in [Session -> HeadRow]
  BY DEF SameCall, HeadsInv, SessionTypes
<1>2. head'[s] = head[s]
  BY <1>1, VersionBack
<1>3. SavesLeft(s) = {}
  BY <1>1, <1>2 DEF LeadInv, Clear
<1> QED BY <1>1, <1>2, <1>3 DEF NoEdgeTo

LEMMA EdgeReadLeads ==
  ASSUME HeadsInv, HeadsInv', LeadInv, NEW c \in Call, EdgeRead(c)
  PROVE  LeadInv'
<1>1. UNCHANGED <<head, indexed, begun, raced>> /\ call[c].pc = "edge"
  BY DEF EdgeRead, At
<1>2. CASE Step(c, "edge", "revise", call[c].todo)
  <2>1. \A r \in Session : SavesLeft(r)' \subseteq SavesLeft(r)
    BY <1>2, StepLeads
  <2>2. ClearKept(c)
    BY <1>2, StepLeads
  <2>3. \A d \in Call : d # c => ClearKept(d)
    BY <1>2, StepLeads
  <2> QED BY <1>1, <2>1, <2>2, <2>3, LeadStay
<1>3. ASSUME Step(c, "edge", AfterEdge(c), call[c].todo),
             Held(call[c].target) => Revised(c, head[call[c].target].edges) = head[call[c].target].edges
      PROVE  LeadInv'
  <2>1. AfterEdge(c) \in {"unindex", "done"} /\ (AfterEdge(c) = "unindex" <=> call[c].op = "forget")
    BY DEF AfterEdge
  <2>2. \A r \in Session : SavesLeft(r)' \subseteq SavesLeft(r)
    BY <1>3, <2>1, StepLeads
  <2>3. \A d \in Call : d # c => ClearKept(d)
    BY <1>3, StepLeads
  <2>4. CASE call[c].op # "forget"
    <3>1. ClearKept(c)
      BY <1>3, <2>4, StepLeads
    <3> QED BY <1>1, <2>2, <2>3, <3>1, LeadStay
  <2>5. CASE call[c].op = "forget"
    <3>1. SameCall(c) /\ call'[c].pc = "unindex"
      BY <1>3, <2>1, <2>5 DEF Step
    <3>2. ASSUME NEW s \in Session, NEW t \in Session, s = call[c].sid, <<s, "child">> \in head[t].edges
          PROVE  FALSE
      <4>1. t = call[c].view.parent
        BY <2>5, <3>2, OneParent
      <4>2. t = call[c].target /\ call[c].edge = <<s, "child">>
        BY <1>1, <2>5, <3>2, <4>1 DEF HeadsInv, CallStage, Forgetting
      <4>3. Held(t)
        BY <3>2, FreshIsTyped DEF HeadsInv, SessionTypes
      <4> QED BY <1>3, <2>5, <3>2, <4>2, <4>3 DEF Revised
    <3>3. \A s \in Session : Moves(s)
      BY <1>1 DEF Moves
    <3>4. \A s, t \in Session : s = call[c].sid /\ <<s, "child">> \in head'[t].edges => head'[s] # head[s]
      BY <1>1, <3>2
    <3>5. Clear(c)'
      BY <1>1, <2>2, <2>5, <3>1, <3>3, <3>4, Cleared
    <3> QED BY <1>1, <2>2, <2>3, <3>5, LeadStay
  <2> QED BY <2>4, <2>5
<1> QED BY <1>2, <1>3, EdgeSteps

LEMMA ForgetEdgeLeads ==
  ASSUME HeadsInv, HeadsInv', LeadInv, NEW c \in Call, ForgetEdge(c)
  PROVE  LeadInv'
<1>1. UNCHANGED <<head, indexed, begun, raced>> /\ call[c].pc = "remove"
  BY DEF ForgetEdge, At
<1>2. call[c].op = "forget"
  BY <1>1, OpAtStage
<1>3. CASE Step(c, "remove", "edge", {})
  <2>1. \A r \in Session : SavesLeft(r)' \subseteq SavesLeft(r)
    BY <1>2, <1>3, StepLeads
  <2>2. ClearKept(c)
    BY <1>3, StepLeads
  <2>3. \A d \in Call : d # c => ClearKept(d)
    BY <1>3, StepLeads
  <2> QED BY <1>1, <2>1, <2>2, <2>3, LeadStay
<1>4. ASSUME Step(c, "remove", "unindex", {}), call[c].view.parent = NoSession PROVE LeadInv'
  <2>1. \A r \in Session : SavesLeft(r)' \subseteq SavesLeft(r)
    BY <1>4, StepLeads
  <2>2. \A d \in Call : d # c => ClearKept(d)
    BY <1>4, StepLeads
  <2>3. SameCall(c) /\ call'[c].pc = "unindex"
    BY <1>4 DEF Step
  <2>4. \A s, t \in Session : s = call[c].sid => <<s, "child">> \notin head[t].edges
    BY <1>2, <1>4, OneParent, NameAssumption DEF Session
  <2>5. \A s \in Session : Moves(s)
    BY <1>1 DEF Moves
  <2>6. \A s, t \in Session : s = call[c].sid /\ <<s, "child">> \in head'[t].edges => head'[s] # head[s]
    BY <1>1, <2>4
  <2>7. Clear(c)'
    BY <1>1, <1>2, <2>1, <2>3, <2>5, <2>6, Cleared
  <2> QED BY <1>1, <2>1, <2>2, <2>7, LeadStay
<1> QED BY <1>3, <1>4, ForgetSteps

LEMMA ForgetIndexLeads ==
  ASSUME HeadsInv, HeadsInv', LeadInv, NEW c \in Call, ForgetIndex(c)
  PROVE  LeadInv'
<1>1. UNCHANGED <<head, begun, raced>> /\ call[c].pc = "unindex" /\ indexed' = indexed \ {call[c].sid}
  BY DEF ForgetIndex, At
<1>2. call[c].op = "forget" /\ Step(c, "unindex", "delete", call[c].todo)
  BY <1>1, OpAtStage, ForgetSteps
<1>3. \A r \in Session : SavesLeft(r)' \subseteq SavesLeft(r)
  BY <1>2, StepLeads
<1>4. \A d \in Call : d # c => ClearKept(d)
  BY <1>2, StepLeads
<1>5. Clear(c)'
  <2> SUFFICES ASSUME NEW s \in Session \ raced', call'[c].sid = s, head'[s].version = call'[c].view.version
               PROVE  SavesLeft(s)' = {} /\ NoEdgeTo(s)' /\ s \notin indexed'
    BY DEF Clear
  <2>1. call[c].sid = s /\ head[s].version = call[c].view.version /\ s \in Session \ raced
    BY <1>1, <1>2 DEF Step, SameCall
  <2>2. SavesLeft(s) = {} /\ NoEdgeTo(s)
    BY <1>1, <1>2, <2>1 DEF LeadInv, Clear
  <2> QED BY <1>1, <1>3, <2>1, <2>2 DEF NoEdgeTo
<1> QED BY <1>1, <1>3, <1>4, <1>5, LeadStay

LEMMA EdgeWriteLeads ==
  ASSUME HeadsInv, HeadsInv', LeadInv, NEW c \in Call, EdgeWrite(c)
  PROVE  LeadInv'
<1>1. /\ UNCHANGED <<indexed, begun, raced>> /\ call[c].pc = "revise" /\ head \in [Session -> HeadRow]
  BY DEF EdgeWrite, At, HeadsInv, SessionTypes
<1>2. /\ CallStage(c) /\ CallSeen(c) /\ call[c] \in CallRow /\ call[c].seen \in HeadRow
      /\ Saving(c) /\ Linking(c) /\ Forgetting(c)
  BY OpAtStage DEF HeadsInv, CallRow, CallStage
<1>3. PICK t \in Session : t = call[c].target
  BY <1>1, <1>2 DEF CallStage
<1>4. AfterEdge(c) \in {"unindex", "done"} /\ (AfterEdge(c) = "unindex" <=> call[c].op = "forget")
  BY DEF AfterEdge
<1>5. PICK to \in {AfterEdge(c), "edge", "refused"} :
        /\ Step(c, "revise", to, call[c].todo)
        /\ \/ Accepts(t, call[c].seen.version) /\ to = AfterEdge(c)
           \/ UNCHANGED head /\ to = AfterEdge(c) /\ ~Held(t)
           \/ UNCHANGED head /\ to \in {"edge", "refused"}
  BY <1>3, EdgeSteps
<1>6. \A r \in Session : SavesLeft(r)' \subseteq SavesLeft(r)
  BY <1>5, StepLeads
<1>7. \A d \in Call : d # c => ClearKept(d)
  BY <1>5, StepLeads
(* What the write changes of the heads. *)
<1>8. \/ UNCHANGED head /\ (Held(t) => to \in {"edge", "refused"})
      \/ /\ Held(t) /\ head'[t].version = head[t].version + 1 /\ head'[t].edges = Revised(c, head[t].edges)
         /\ \A r \in Session : r # t => head'[r] = head[r]
  <2>1. CASE Accepts(t, call[c].seen.version)
    <3>1. call[c].seen = head[t] /\ Held(t)
      BY <1>1, <1>2, <1>3, <2>1 DEF CallSeen, Agrees, Accepts, Held
    <3>2. head' = [head EXCEPT ![t] = [head[t] EXCEPT !.version = head[t].version + 1,
                                                      !.edges = Revised(c, head[t].edges)]]
      BY <1>1, <1>2, <1>3, <2>1, <3>1 DEF EdgeWrite, HeadRow
    <3>3. head'[t].version = head[t].version + 1 /\ head'[t].edges = Revised(c, head[t].edges)
      BY <1>1, <3>2 DEF HeadRow
    <3> QED BY <1>1, <3>1, <3>2, <3>3
  <2>2. CASE ~Accepts(t, call[c].seen.version)
    BY <1>5, <2>2
  <2> QED BY <2>1, <2>2
<1>9. head[t].version \in Nat
  BY <1>1 DEF HeadRow
<1>10. \A s \in Session : Moves(s) /\ (Held(s) => Held(s)')
  BY <1>8, <1>9 DEF Moves, Held
<1>11. ASSUME NEW s \in Session PROVE Calm(s) \/ SavesLeft(s) # {}
  <2>1. CASE \A r \in Session : <<s, "child">> \in head'[r].edges => <<s, "child">> \in head[r].edges
    BY <1>1, <1>6, <2>1 DEF Calm, NoEdgeTo
  <2>2. ASSUME NEW r \in Session, <<s, "child">> \in head'[r].edges, <<s, "child">> \notin head[r].edges
        PROVE  SavesLeft(s) # {}
    <3>1. r = t /\ <<s, "child">> \in Revised(c, head[t].edges)
      BY <1>8, <2>2
    <3>2. call[c].op # "forget" /\ <<s, "child">> = call[c].edge
      BY <2>2, <3>1 DEF Revised
    <3>3. call[c].op = "save" \/ call[c].op = "link" \/ call[c].op = "none"
      BY <1>2, <3>2 DEF CallRow
    <3>4. call[c].op = "save"
      BY <1>1, <1>2, <3>2, <3>3 DEF Linking, CallStage
    <3>5. call[c].sid = c /\ s = c
      BY <1>1, <1>2, <3>2, <3>4 DEF Saving
    <3>6. c \in SavesLeft(s)
      BY <1>1, <3>4, <3>5 DEF SavesLeft
    <3> QED BY <3>6
  <2> QED BY <2>1, <2>2
<1>12. ClearKept(c) \/ Clear(c)'
  <2>1. CASE call[c].op # "forget" \/ to # "unindex"
    <3>1. to # "delete"
      BY <1>4, <1>5
    <3> QED BY <1>4, <1>5, <2>1, <3>1, StepLeads
  <2>2. CASE call[c].op = "forget" /\ to = "unindex"
    <3>1. SameCall(c) /\ call'[c].pc = "unindex"
      BY <1>5, <2>2 DEF Step
    <3>2. ASSUME NEW s \in Session, NEW u \in Session, s = call[c].sid, <<s, "child">> \in head'[u].edges,
                 head'[s] = head[s]
          PROVE  FALSE
      <4>1. call[c].edge = <<s, "child">> /\ call[c].target = call[c].view.parent
        BY <1>1, <1>2, <2>2, <3>2 DEF Forgetting
      <4>2. <<s, "child">> \in head[u].edges
        BY <1>8, <2>2, <3>2 DEF Revised
      <4>3. u = t
        BY <1>3, <2>2, <3>2, <4>1, <4>2, OneParent
      <4>4. Held(t)
        BY <4>2, <4>3, FreshIsTyped DEF HeadsInv, SessionTypes
      <4>5. head'[t].edges = Revised(c, head[t].edges)
        BY <1>8, <2>2, <4>4
      <4> QED BY <2>2, <3>2, <4>1, <4>3, <4>5 DEF Revised
    <3>3. \A s, u \in Session : s = call[c].sid /\ <<s, "child">> \in head'[u].edges => head'[s] # head[s]
      BY <3>2
    <3>4. \A s \in Session : Moves(s)
      BY <1>10
    <3>5. call[c].pc \notin {"done", "refused"} /\ UNCHANGED raced
      BY <1>1
    <3> QED BY <1>6, <2>2, <3>1, <3>3, <3>4, <3>5, Cleared
  <2> QED BY <2>1, <2>2
<1> QED BY <1>1, <1>7, <1>10, <1>11, <1>12, LeadStep

LEMMA ForgetHeadLeads ==
  ASSUME HeadsInv, HeadsInv', LeadInv, NEW c \in Call, ForgetHead(c)
  PROVE  LeadInv'
<1>1. /\ UNCHANGED <<indexed, begun, raced>> /\ call[c].pc = "delete" /\ head \in [Session -> HeadRow]
  BY DEF ForgetHead, At, HeadsInv, SessionTypes
<1>2. /\ call[c].op = "forget" /\ Forgetting(c) /\ CallView(c) /\ Step(c, "delete", "done", call[c].todo)
  BY <1>1, OpAtStage, ForgetSteps DEF HeadsInv, CallStage
<1>3. PICK s \in Session : s = call[c].sid
  BY <1>2 DEF Forgetting, CallView
<1>4. \A r \in Session : SavesLeft(r)' \subseteq SavesLeft(r)
  BY <1>2, StepLeads
<1>5. \A d \in Call : ClearKept(d)
  <2>1. ClearKept(c)
    BY <1>2, StepLeads
  <2>2. \A d \in Call : d # c => ClearKept(d)
    BY <1>2, StepLeads
  <2> QED BY <2>1, <2>2
<1>6. CASE ~Deletes(s, call[c].view.version)
  <2>1. UNCHANGED head
    BY <1>3, <1>6 DEF ForgetHead
  <2> QED BY <1>1, <1>4, <1>5, <2>1, LeadStay
<1>7. CASE Deletes(s, call[c].view.version)
  <2>1. head'[s] = NoHead /\ \A r \in Session : r # s => head'[r] = head[r]
    BY <1>1, <1>3, <1>7 DEF ForgetHead
  <2>2. Held(s) /\ s \in begun'
    BY <1>1, <1>2, <1>3, <1>7 DEF Deletes, Held, Forgetting
  <2>3. \A r \in Session : Moves(r)
    BY <2>1, <2>2 DEF Moves
  <2>4. \A r \in Session : NoEdgeTo(r) => NoEdgeTo(r)'
    BY <2>1, FreshIsTyped DEF NoEdgeTo
  <2>5. \A r \in Session : Calm(r)
    BY <1>1, <1>4, <2>4 DEF Calm
  <2>6. Gone(s)'
    <3> SUFFICES ASSUME s \notin raced' PROVE Gone(s)'
      BY DEF Gone
    <3>1. SavesLeft(s) = {} /\ NoEdgeTo(s) /\ s \notin indexed
      BY <1>1, <1>2, <1>3, <1>7 DEF LeadInv, Clear, Deletes
    <3> QED BY <1>1, <1>4, <2>4, <3>1 DEF Gone
  <2>7. \A r \in Session : Held(r) /\ ~Held(r)' => Gone(r)'
    BY <2>1, <2>6 DEF Held
  <2> QED BY <1>1, <1>5, <2>3, <2>5, <2>7, LeadStep
<1> QED BY <1>6, <1>7

LEMMA ProcessLeads ==
  ASSUME HeadsInv, HeadsInv', LeadInv, NEW p \in Process,
         FlushClaim(p) \/ FlushCatalog(p) \/ FlushDrop(p) \/ FlushFails(p) \/ Crash(p)
  PROVE  LeadInv'
<1>1. UNCHANGED <<head, indexed, begun, raced>>
  BY DEF FlushClaim, FlushCatalog, FlushDrop, FlushFails, Crash
<1>2. \A d \in Call : call'[d] = call[d] \/ (call'[d].pc = "done" /\ SameCall(d) /\ call[d].pc \notin {"done", "refused"})
  <2>1. CASE Crash(p)
    <3>1. \A d \in Mine(p) : call[d].pc \notin {"done", "refused"}
      BY DEF Mine
    <3> QED BY <2>1, <3>1, CrashCalls
  <2>2. CASE ~Crash(p)
    BY <2>2 DEF FlushClaim, FlushCatalog, FlushDrop, FlushFails
  <2> QED BY <2>1, <2>2
<1>3. \A s \in Session : SavesLeft(s)' \subseteq SavesLeft(s)
  BY <1>2 DEF SavesLeft
<1>4. \A d \in Call : ClearKept(d)
  BY <1>2 DEF ClearKept, SameCall
<1> QED BY <1>1, <1>3, <1>4, LeadStay

LEMMA InitLeads == Init => LeadInv
<1> SUFFICES ASSUME Init PROVE LeadInv
  OBVIOUS
<1>1. \A s \in Session : Gone(s)
  BY DEF Init, Gone
<1>2. \A c \in Call : Clear(c)
  BY FreshIsTyped DEF Init, Clear
<1> QED BY <1>1, <1>2 DEF LeadInv

LEMMA NextLeads == HeadsInv /\ HeadsInv' /\ LeadInv /\ [Next]_vars => LeadInv'
<1> SUFFICES ASSUME HeadsInv, HeadsInv', LeadInv, [Next]_vars PROVE LeadInv'
  OBVIOUS
<1>1. CASE UNCHANGED vars
  <2>1. UNCHANGED <<head, indexed, begun, raced, call>>
    BY <1>1 DEF vars
  <2>2. \A s \in Session : SavesLeft(s)' \subseteq SavesLeft(s)
    BY <2>1 DEF SavesLeft
  <2>3. \A d \in Call : ClearKept(d)
    BY <2>1 DEF ClearKept
  <2> QED BY <2>1, <2>2, <2>3, LeadStay
<1>2. ASSUME NEW c \in Call, Idles(c) PROVE LeadInv'
  BY <1>2, PlainLeads, IndexHeadLeads, EdgeReadLeads, ForgetEdgeLeads, ForgetIndexLeads DEF Idles
<1>3. ASSUME NEW c \in Call, Starts(c) PROVE LeadInv'
  BY <1>3, StartLeads
<1>4. ASSUME NEW c \in Call,
             \/ WriteChunk(c) \/ PutHead(c) \/ EdgeWrite(c) \/ ForgetWithdraw(c) \/ ForgetHead(c)
             \/ \E k \in Chunk : Discard(c, k) \/ ForgetChunk(c, k)
      PROVE  LeadInv'
  BY <1>4, PlainLeads, PutHeadLeads, EdgeWriteLeads, ForgetHeadLeads
<1>5. ASSUME NEW p \in Process,
             FlushClaim(p) \/ FlushCatalog(p) \/ FlushDrop(p) \/ FlushFails(p) \/ Crash(p)
      PROVE  LeadInv'
  BY <1>5, ProcessLeads
<1> QED BY <1>1, <1>2, <1>3, <1>4, <1>5, NextSteps

(***************************************************************************)
(* A conversation that is gone is in no index and no parent names it,      *)
(* whatever saves, links, forgets, failures and deaths come between,       *)
(* unless the forget overtook a save of the same conversation between its  *)
(* head and its return.                                                    *)
(***************************************************************************)
THEOREM NothingEverLeadsTo == Spec => []NothingLeadsTo
<1>1. Init => HeadsInv /\ LeadInv
  BY InitHeads, InitLeads
<1>2. HeadsInv /\ LeadInv /\ [Next]_vars => (HeadsInv /\ LeadInv)'
  BY NextHeads, NextLeads
<1>3. HeadsInv /\ LeadInv => NothingLeadsTo
  BY DEF HeadsInv, SessionTypes, LeadInv, Gone, NothingLeadsTo, NoEdgeTo
<1> QED BY <1>1, <1>2, <1>3, PTL DEF Spec

-----------------------------------------------------------------------------
(* An edge is never refused among no more calls than it has attempts.      *)

(* The call has made the one change it makes to the head of the session. *)
Wrote(d, t) ==
  \/ Past(d) /\ call[d].sid = t
  \/ call[d].target = t /\ call[d].pc \in {"unindex", "delete", "done", "refused"}

Rivals(c, t) == {d \in Call \ {c} : Wrote(d, t)}

(* Every refusal is the write of another call. *)
Counted(c, t) ==
  call[c].pc \in {"edge", "revise"} /\ call[c].target = t =>
    /\ call[c].attempt <= Cardinality(Rivals(c, t)) + 1
    /\ call[c].pc = "revise" /\ Held(t) /\ head[t].version # call[c].seen.version =>
         call[c].attempt <= Cardinality(Rivals(c, t))

Tries(c) ==
  /\ call[c].op = "save" /\ call[c].view.version = 0 => call[c].view.parent # c
  /\ call[c].pc \notin {"edge", "revise", "unindex", "delete", "done", "refused"} => call[c].attempt = 1
  /\ \A t \in Session : Counted(c, t)

ServeInv == \A c \in Call : Tries(c) /\ call[c].pc # "refused"

LEMMA RivalsGrow ==
  ASSUME IsFiniteSet(Call), NEW c \in Call, NEW t \in Session,
         \A d \in Call : Wrote(d, t) => Wrote(d, t)'
  PROVE  /\ Cardinality(Rivals(c, t)) \in Nat /\ Cardinality(Rivals(c, t)') \in Nat
         /\ Cardinality(Rivals(c, t)) <= Cardinality(Rivals(c, t)')
         /\ (\E d \in Call \ {c} : ~Wrote(d, t) /\ Wrote(d, t)') =>
              Cardinality(Rivals(c, t)) + 1 <= Cardinality(Rivals(c, t)')
<1>1. PICK A : A = Rivals(c, t)
  OBVIOUS
<1>2. PICK B : B = Rivals(c, t)'
  OBVIOUS
<1>3. A \in SUBSET Call /\ B \in SUBSET Call /\ A \in SUBSET B
  BY <1>1, <1>2 DEF Rivals
<1>4. IsFiniteSet(B)
  BY <1>3, FS_Subset
<1>5. /\ IsFiniteSet(A) /\ Cardinality(A) <= Cardinality(B) /\ (Cardinality(B) = Cardinality(A) => B = A)
  BY <1>3, <1>4, FS_Subset
<1>6. Cardinality(A) \in Nat /\ Cardinality(B) \in Nat
  BY <1>4, <1>5, FS_CardinalityType
<1>7. ASSUME NEW d \in Call \ {c}, ~Wrote(d, t), Wrote(d, t)' PROVE A # B
  BY <1>1, <1>2, <1>7 DEF Rivals
<1>8. (\E d \in Call \ {c} : ~Wrote(d, t) /\ Wrote(d, t)') => Cardinality(A) + 1 <= Cardinality(B)
  BY <1>5, <1>6, <1>7
<1> QED BY <1>1, <1>2, <1>5, <1>6, <1>8

LEMMA TriesStep ==
  ASSUME IsFiniteSet(Call), HeadsInv, HeadsInv', ServeInv,
         \A d \in Call : \A t \in Session : Wrote(d, t) => Wrote(d, t)',
         \A t \in Session : head'[t] # head[t] /\ Held(t)' =>
            \E d \in Call : ~Wrote(d, t) /\ Wrote(d, t)' /\ call'[d] # call[d],
         NEW c \in Call, call'[c] = call[c]
  PROVE  Tries(c)' /\ call'[c].pc # "refused"
<1>1. Tries(c) /\ call[c].pc # "refused" /\ call[c].attempt \in Nat
  BY OpAtStage DEF ServeInv, CallRow
<1>2. ASSUME NEW t \in Session PROVE Counted(c, t)'
  <2> SUFFICES ASSUME call[c].pc \in {"edge", "revise"}, call[c].target = t
               PROVE  /\ call[c].attempt <= Cardinality(Rivals(c, t)') + 1
                      /\ call[c].pc = "revise" /\ Held(t)' /\ head'[t].version # call[c].seen.version =>
                           call[c].attempt <= Cardinality(Rivals(c, t)')
    BY DEF Counted
  <2>1. /\ call[c].attempt <= Cardinality(Rivals(c, t)) + 1
        /\ call[c].pc = "revise" /\ Held(t) /\ head[t].version # call[c].seen.version =>
             call[c].attempt <= Cardinality(Rivals(c, t))
    BY <1>1 DEF Tries, Counted
  <2>2. /\ Cardinality(Rivals(c, t)) \in Nat /\ Cardinality(Rivals(c, t)') \in Nat
        /\ Cardinality(Rivals(c, t)) <= Cardinality(Rivals(c, t)')
        /\ (\E d \in Call \ {c} : ~Wrote(d, t) /\ Wrote(d, t)') =>
             Cardinality(Rivals(c, t)) + 1 <= Cardinality(Rivals(c, t)')
    BY RivalsGrow
  <2>3. CASE head'[t] = head[t]
    <3>1. Held(t)' <=> Held(t)
      BY <2>3 DEF Held
    <3> QED BY <1>1, <2>1, <2>2, <2>3, <3>1
  <2>4. CASE head'[t] # head[t] /\ Held(t)'
    <3>1. \E d \in Call \ {c} : ~Wrote(d, t) /\ Wrote(d, t)'
      BY <2>4
    <3> QED BY <1>1, <2>1, <2>2, <3>1
  <2>5. CASE ~Held(t)'
    BY <1>1, <2>1, <2>2, <2>5
  <2> QED BY <2>3, <2>4, <2>5
<1> QED BY <1>1, <1>2 DEF Tries

(* A call that is at no edge. *)
LEMMA TriesAway ==
  ASSUME NEW c \in Call, Tries(c), SameCall(c), call'[c].pc \notin {"edge", "revise", "refused"},
         call'[c].pc \notin {"unindex", "delete", "done"} => call'[c].attempt = 1
  PROVE  Tries(c)' /\ call'[c].pc # "refused"
BY DEF Tries, Counted, SameCall

(* What a step of a call does to the edge it is after. *)
SameTry(c) ==
  /\ call'[c].attempt = call[c].attempt
  /\ call[c].pc \in {"edge", "revise", "unindex", "delete", "done", "refused"} => call'[c].target = call[c].target

LEMMA SameTries ==
  ASSUME HeadsInv, NEW c \in Call,
         \/ Idles(c) \/ WriteChunk(c) \/ PutHead(c) \/ ForgetWithdraw(c) \/ ForgetHead(c)
         \/ \E k \in Chunk : Discard(c, k) \/ ForgetChunk(c, k)
  PROVE  SameTry(c)
<1>1. call \in [Call -> CallRow] /\ call[c] \in CallRow
  BY DEF HeadsInv, SessionTypes
<1>2. ASSUME NEW pc, Go(c, pc) PROVE SameTry(c)
  BY <1>1, <1>2 DEF Go, SameTry, CallRow
<1>3. ASSUME NEW pc, NEW todo, call' = [call EXCEPT ![c].pc = pc, ![c].todo = todo] PROVE SameTry(c)
  BY <1>1, <1>3 DEF SameTry, CallRow
<1>4. ASSUME NEW todo, call' = [call EXCEPT ![c].todo = todo] PROVE SameTry(c)
  BY <1>1, <1>4 DEF SameTry, CallRow
<1>5. ASSUME NEW t, NEW edge, ToEdge(c, t, edge), call[c].pc \in {"index", "remove"} PROVE SameTry(c)
  BY <1>1, <1>5 DEF ToEdge, SameTry, CallRow
<1>6. ASSUME NEW pc, NEW seen, call' = [call EXCEPT ![c].seen = seen, ![c].pc = pc] PROVE SameTry(c)
  BY <1>1, <1>6 DEF SameTry, CallRow
<1>7. CASE SaveStops(c) \/ Abandoned(c) \/ ForgetIndex(c) \/ ForgetHead(c)
  BY <1>2, <1>7 DEF SaveStops, Abandoned, ForgetIndex, ForgetHead
<1>8. CASE CallFails(c)
  BY <1>3, <1>8 DEF CallFails
<1>9. CASE IndexHead(c)
  BY <1>2, <1>5, <1>9 DEF IndexHead, At
<1>10. CASE ForgetEdge(c)
  BY <1>2, <1>5, <1>10 DEF ForgetEdge, At
<1>11. CASE EdgeRead(c)
  BY <1>6, <1>11 DEF EdgeRead
<1>12. CASE PutHead(c)
  BY <1>2, <1>3, <1>12 DEF PutHead
<1>13. CASE ForgetWithdraw(c)
  BY <1>2, <1>3, <1>13 DEF ForgetWithdraw
<1>14. CASE WriteChunk(c)
  BY <1>1, <1>4, <1>14 DEF WriteChunk
<1>15. ASSUME NEW k \in Chunk, Discard(c, k) \/ ForgetChunk(c, k) PROVE SameTry(c)
  BY <1>1, <1>4, <1>15 DEF Discard, ForgetChunk
<1> QED BY <1>7, <1>8, <1>9, <1>10, <1>11, <1>12, <1>13, <1>14, <1>15 DEF Idles

LEMMA StepWrote ==
  ASSUME NEW c \in Call, NEW from, NEW to, NEW todo, Step(c, from, to, todo),
         Past(c) => to \notin {"write", "abandon"},
         from \in {"unindex", "delete", "done", "refused"} =>
           to \in {"unindex", "delete", "done", "refused"} /\ call'[c].target = call[c].target
  PROVE  \A d \in Call : \A t \in Session : Wrote(d, t) => Wrote(d, t)'
<1> SUFFICES ASSUME NEW d \in Call, NEW t \in Session, Wrote(d, t) PROVE Wrote(d, t)'
  OBVIOUS
<1>1. CASE d = c
  BY <1>1 DEF Step, SameCall, Wrote, Past
<1>2. CASE d # c
  BY <1>2 DEF Step, Others, Wrote, Past
<1> QED BY <1>1, <1>2

LEMMA ServeStep ==
  ASSUME IsFiniteSet(Call), HeadsInv, HeadsInv', ServeInv,
         NEW c \in Call, NEW from, NEW to, NEW todo, Step(c, from, to, todo),
         Past(c) => to \notin {"write", "abandon"},
         from \in {"unindex", "delete", "done", "refused"} =>
           to \in {"unindex", "delete", "done", "refused"} /\ call'[c].target = call[c].target,
         \A t \in Session : head'[t] # head[t] /\ Held(t)' => ~Wrote(c, t) /\ Wrote(c, t)',
         Tries(c)', to # "refused"
  PROVE  ServeInv'
<1>1. \A d \in Call : \A t \in Session : Wrote(d, t) => Wrote(d, t)'
  BY StepWrote
<1>2. \A t \in Session : head'[t] # head[t] /\ Held(t)' =>
        \E d \in Call : ~Wrote(d, t) /\ Wrote(d, t)' /\ call'[d] # call[d]
  <2>1. ASSUME NEW t \in Session, ~Wrote(c, t), Wrote(c, t)' PROVE call'[c] # call[c]
    BY <2>1 DEF Wrote, Past
  <2> QED BY <2>1
<1>3. \A d \in Call : d # c => call'[d] = call[d]
  BY DEF Step, Others
<1>4. \A d \in Call : d # c => Tries(d)' /\ call'[d].pc # "refused"
  BY <1>1, <1>2, <1>3, TriesStep
<1>5. call'[c].pc = to
  BY DEF Step
<1> QED BY <1>4, <1>5 DEF ServeInv

(* A call goes on away from any edge. *)
LEMMA AwayServes ==
  ASSUME IsFiniteSet(Call), HeadsInv, HeadsInv', ServeInv,
         NEW c \in Call, NEW from, NEW to, NEW todo, Step(c, from, to, todo), SameTry(c),
         Past(c) => to \notin {"write", "abandon"},
         to \in {"write", "abandon", "index", "remove", "unindex", "delete", "done"},
         to \in {"write", "abandon", "index", "remove"} =>
           from \notin {"edge", "revise", "unindex", "delete", "done", "refused"},
         \A t \in Session : head'[t] # head[t] /\ Held(t)' => ~Wrote(c, t) /\ Wrote(c, t)'
  PROVE  ServeInv'
<1>1. Tries(c) /\ SameCall(c) /\ call[c].pc = from /\ call'[c].pc = to
  BY DEF ServeInv, Step
<1>2. to \notin {"unindex", "delete", "done"} => call'[c].attempt = 1
  BY <1>1 DEF Tries, SameTry
<1>3. Tries(c)'
  BY <1>1, <1>2, TriesAway
<1>4. from \in {"unindex", "delete", "done", "refused"} =>
        to \in {"unindex", "delete", "done", "refused"} /\ call'[c].target = call[c].target
  BY <1>1 DEF SameTry
<1>5. to # "refused"
  OBVIOUS
<1> QED BY <1>3, <1>4, <1>5, ServeStep

LEMMA PlainServes ==
  ASSUME IsFiniteSet(Call), HeadsInv, HeadsInv', ServeInv, NEW c \in Call,
         \/ SaveStops(c) \/ Abandoned(c) \/ WriteChunk(c) \/ ForgetWithdraw(c) \/ CallFails(c)
         \/ ForgetIndex(c) \/ ForgetHead(c) \/ PutHead(c)
         \/ \E k \in Chunk : Discard(c, k) \/ ForgetChunk(c, k)
  PROVE  ServeInv'
<1>1. SameTry(c)
  BY SameTries DEF Idles
<1>2. CASE SaveStops(c) \/ WriteChunk(c) \/ \E k \in Chunk : Discard(c, k)
  <2>1. \E todo : \/ Step(c, "write", "abandon", todo) \/ Step(c, "write", "write", todo)
                  \/ Step(c, "abandon", "abandon", todo)
    BY <1>2, SaveSteps
  <2>2. ~Past(c)
    BY <2>1 DEF Past, Step
  <2>3. UNCHANGED head
    BY <1>2 DEF SaveStops, WriteChunk, Discard
  <2> QED BY <1>1, <2>1, <2>2, <2>3, AwayServes
<1>3. CASE Abandoned(c) \/ CallFails(c)
  <2>1. \E from : Step(c, from, "done", {})
    BY <1>3, SaveSteps, ForgetSteps
  <2>2. UNCHANGED head
    BY <1>3 DEF Abandoned, CallFails
  <2> QED BY <1>1, <2>1, <2>2, AwayServes
<1>4. CASE ForgetWithdraw(c) \/ ForgetIndex(c) \/ \E k \in Chunk : ForgetChunk(c, k)
  <2>1. \E todo : \/ Step(c, "withdraw", "done", todo) \/ Step(c, "withdraw", "remove", todo)
                  \/ Step(c, "unindex", "delete", todo) \/ Step(c, "remove", "remove", todo)
    BY <1>4, ForgetSteps
  <2>2. UNCHANGED head
    BY <1>4 DEF ForgetWithdraw, ForgetIndex, ForgetChunk
  <2> QED BY <1>1, <2>1, <2>2, AwayServes
<1>5. CASE ForgetHead(c)
  <2>1. Step(c, "delete", "done", call[c].todo)
    BY <1>5, ForgetSteps
  <2>2. \A t \in Session : head'[t] = head[t] \/ ~Held(t)'
    <3>1. \A t \in Session : head'[t] = NoHead \/ head'[t] = head[t]
      BY <1>5 DEF ForgetHead, HeadsInv, SessionTypes
    <3> QED BY <3>1, FreshIsTyped DEF Held
  <2> QED BY <1>1, <2>1, <2>2, AwayServes
<1>6. CASE PutHead(c)
  <2>1. call[c].pc = "write" /\ call[c].op = "save" /\ ~Past(c)
    BY <1>6, OpAtStage DEF PutHead, At, Past
  <2>2. CASE ~Accepts(call[c].sid, call[c].view.version)
    <3>1. Step(c, "write", "abandon", call[c].todo) /\ UNCHANGED head
      BY <1>6, <2>2, SaveSteps DEF PutHead
    <3> QED BY <1>1, <2>1, <3>1, AwayServes
  <2>3. CASE Accepts(call[c].sid, call[c].view.version)
    <3>1. Step(c, "write", "index", {})
      BY <1>6, <2>3, SaveSteps
    <3>2. ASSUME NEW t \in Session, head'[t] # head[t] PROVE ~Wrote(c, t) /\ Wrote(c, t)'
      <4>1. t = call[c].sid
        BY <1>6, <3>2 DEF PutHead, HeadsInv, SessionTypes
      <4>2. Past(c)' /\ call'[c].sid = t
        BY <2>1, <3>1, <4>1 DEF Past, Step, SameCall
      <4> QED BY <2>1, <4>2 DEF Wrote
    <3> QED BY <1>1, <2>1, <3>1, <3>2, AwayServes
  <2> QED BY <2>2, <2>3
<1> QED BY <1>2, <1>3, <1>4, <1>5, <1>6

(* A call comes to its edge. *)
LEMMA EnterServes ==
  ASSUME IsFiniteSet(Call), HeadsInv, HeadsInv', ServeInv, NEW c \in Call, IndexHead(c) \/ ForgetEdge(c)
  PROVE  ServeInv'
<1>1. SameTry(c) /\ UNCHANGED head
  BY SameTries DEF Idles, IndexHead, ForgetEdge
<1>2. \E to : \/ Step(c, "index", to, {}) /\ to \in {"done", "edge"}
              \/ Step(c, "remove", to, {}) /\ to \in {"unindex", "edge"}
  BY IndexSteps, ForgetSteps
<1>3. PICK from \in {"index", "remove"}, to \in {"done", "unindex", "edge"} : Step(c, from, to, {})
  BY <1>2
<1>4. CASE to # "edge"
  BY <1>1, <1>3, <1>4, AwayServes
<1>5. CASE to = "edge"
  <2>1. /\ call'[c].pc = "edge" /\ call'[c].op = call[c].op /\ call'[c].view = call[c].view
        /\ call'[c].attempt = 1
    BY <1>1, <1>3, <1>5 DEF Step, SameCall, SameTry, ServeInv, Tries
  <2>2. ASSUME NEW t \in Session PROVE Counted(c, t)'
    <3>1. \A d \in Call : Wrote(d, t) => Wrote(d, t)'
      BY <1>3, <1>5, StepWrote
    <3>2. Cardinality(Rivals(c, t)') \in Nat
      BY <3>1, RivalsGrow
    <3> QED BY <2>1, <3>2 DEF Counted
  <2>3. Tries(c)'
    BY <2>1, <2>2 DEF ServeInv, Tries
  <2> QED BY <1>1, <1>3, <1>5, <2>3, ServeStep
<1> QED BY <1>4, <1>5

LEMMA EdgeReadServes ==
  ASSUME IsFiniteSet(Call), HeadsInv, HeadsInv', ServeInv, NEW c \in Call, EdgeRead(c)
  PROVE  ServeInv'
<1>1. SameTry(c) /\ UNCHANGED head
  BY SameTries DEF Idles, EdgeRead
<1>2. Step(c, "edge", AfterEdge(c), call[c].todo) \/ Step(c, "edge", "revise", call[c].todo)
  BY EdgeSteps
<1>3. CASE Step(c, "edge", AfterEdge(c), call[c].todo)
  <2>1. AfterEdge(c) \in {"unindex", "done"}
    BY DEF AfterEdge
  <2> QED BY <1>1, <1>3, <2>1, AwayServes
<1>4. CASE Step(c, "edge", "revise", call[c].todo)
  <2>1. PICK t \in Session : t = call[c].target
    BY <1>4, OpAtStage DEF CallStage, Step
  <2>2. call'[c].target = t /\ call'[c].attempt = call[c].attempt /\ call[c].attempt \in Nat
    BY <1>1, <1>4, <2>1, OpAtStage DEF SameTry, Step, CallRow
  <2>3. call'[c].seen = head[t]
    BY <2>1, OpAtStage DEF EdgeRead, SessionTypes, CallRow
  <2>4. \A d \in Call : Wrote(d, t) => Wrote(d, t)'
    BY <1>4, StepWrote
  <2>5. /\ Cardinality(Rivals(c, t)) \in Nat /\ Cardinality(Rivals(c, t)') \in Nat
        /\ Cardinality(Rivals(c, t)) <= Cardinality(Rivals(c, t)')
    BY <2>4, RivalsGrow
  <2>6. call[c].attempt <= Cardinality(Rivals(c, t)) + 1
    BY <1>4, <2>1 DEF ServeInv, Tries, Counted, Step
  <2>7. Counted(c, t)'
    <3>1. call'[c].attempt <= Cardinality(Rivals(c, t)') + 1
      BY <2>2, <2>5, <2>6
    <3>2. head'[t].version = call'[c].seen.version
      BY <1>1, <2>3
    <3> QED BY <3>1, <3>2 DEF Counted
  <2>8. \A r \in Session : Counted(c, r)'
    BY <2>2, <2>7 DEF Counted
  <2>9. Tries(c)'
    BY <1>4, <2>8 DEF ServeInv, Tries, Step, SameCall
  <2> QED BY <1>1, <1>4, <2>9, ServeStep
<1> QED BY <1>2, <1>3, <1>4

LEMMA EdgeWriteServes ==
  ASSUME IsFiniteSet(Call), Cardinality(Call) <= HeadRevisions,
         HeadsInv, HeadsInv', ServeInv, NEW c \in Call, EdgeWrite(c)
  PROVE  ServeInv'
<1>1. /\ call \in [Call -> CallRow] /\ call[c] \in CallRow /\ head \in [Session -> HeadRow]
      /\ CallStage(c) /\ call[c].pc = "revise"
  BY OpAtStage DEF SessionTypes, EdgeWrite, At
<1>2. PICK t \in Session : t = call[c].target
  BY <1>1 DEF CallStage
<1>3. AfterEdge(c) \in {"unindex", "done"}
  BY DEF AfterEdge
<1>4. ~Wrote(c, t)
  <2>1. ~(Past(c) /\ call[c].sid = t)
    BY <1>1, <1>2 DEF Past, CallStage, Saving, ServeInv, Tries
  <2> QED BY <1>1, <2>1 DEF Wrote
<1>5. call[c].attempt \in Nat /\ HeadRevisions \in Nat
  BY <1>1, BoundAssumption DEF CallRow
<1>6. CASE Accepts(t, call[c].seen.version)
  <2>1. Step(c, "revise", AfterEdge(c), call[c].todo) /\ Go(c, AfterEdge(c))
    <3>1. Go(c, AfterEdge(c)) /\ AfterEdge(c) \in Stage
      BY <1>2, <1>3, <1>6 DEF EdgeWrite, Stage
    <3> QED BY <1>1, <3>1, Goes, OpAtStage DEF Step
  <2>2. SameTry(c)
    BY <1>1, <2>1 DEF Go, SameTry, CallRow
  <2>3. \A r \in Session : head'[r] # head[r] => r = t
    BY <1>1, <1>2, <1>6 DEF EdgeWrite
  <2>4. Wrote(c, t)'
    BY <1>1, <1>2, <1>3, <2>1, <2>2 DEF Wrote, Step, SameTry
  <2> QED BY <1>3, <1>4, <2>1, <2>2, <2>3, <2>4, AwayServes
<1>7. CASE ~Accepts(t, call[c].seen.version) /\ ~Held(t)
  <2>1. UNCHANGED head /\ Go(c, AfterEdge(c)) /\ AfterEdge(c) \in Stage
    BY <1>2, <1>3, <1>7 DEF EdgeWrite, Go, Stage
  <2>2. Step(c, "revise", AfterEdge(c), call[c].todo)
    BY <1>1, <2>1, Goes, OpAtStage DEF Step
  <2>3. SameTry(c)
    BY <1>1, <2>1 DEF Go, SameTry, CallRow
  <2> QED BY <1>3, <2>1, <2>2, <2>3, AwayServes
<1>8. CASE ~Accepts(t, call[c].seen.version) /\ Held(t)
  <2>1. call[c].attempt <= Cardinality(Rivals(c, t))
    BY <1>1, <1>2, <1>8 DEF ServeInv, Tries, Counted, Accepts
  <2>2. Cardinality(Rivals(c, t)) + 1 <= Cardinality(Call) /\ Cardinality(Rivals(c, t)) \in Nat
    <3>1. IsFiniteSet(Call \ {c}) /\ Cardinality(Call \ {c}) = Cardinality(Call) - 1
      BY FS_RemoveElement
    <3>2. PICK A : A = Rivals(c, t)
      OBVIOUS
    <3>3. A \in SUBSET (Call \ {c})
      BY <3>2 DEF Rivals
    <3>4. IsFiniteSet(A) /\ Cardinality(A) <= Cardinality(Call \ {c})
      BY <3>1, <3>3, FS_Subset
    <3>5. Cardinality(A) \in Nat /\ Cardinality(Call) \in Nat
      BY <3>4, FS_CardinalityType
    <3> QED BY <3>1, <3>2, <3>4, <3>5
  <2>3. call[c].attempt < HeadRevisions
    <3>1. Cardinality(Call) \in Nat
      BY FS_CardinalityType
    <3> QED BY <1>5, <2>1, <2>2, <3>1
  <2>4. UNCHANGED head /\ call' = Retry(c)
    BY <1>2, <1>8, <2>3 DEF EdgeWrite
  <2>5. /\ call'[c].pc = "edge" /\ call'[c].attempt = call[c].attempt + 1 /\ call'[c].target = t
        /\ call'[c].op = call[c].op /\ call'[c].view = call[c].view
    BY <1>1, <1>2, <2>4 DEF Retry, CallRow
  <2>6. Step(c, "revise", "edge", call[c].todo)
    <3>1. call'[c].pc \notin {"refused", "unindex", "done"}
      BY <2>5
    <3> QED BY <1>3, <2>5, <3>1, EdgeSteps DEF Step
  <2>7. \A d \in Call : Wrote(d, t) => Wrote(d, t)'
    BY <2>6, StepWrote
  <2>8. Cardinality(Rivals(c, t)') \in Nat /\ Cardinality(Rivals(c, t)) <= Cardinality(Rivals(c, t)')
    BY <2>7, RivalsGrow
  <2>9. call'[c].attempt <= Cardinality(Rivals(c, t)') + 1
    BY <1>5, <2>1, <2>2, <2>5, <2>8
  <2>10. \A r \in Session : Counted(c, r)'
    BY <2>5, <2>9 DEF Counted
  <2>11. Tries(c)'
    BY <2>5, <2>10 DEF ServeInv, Tries
  <2> QED BY <2>4, <2>6, <2>11, ServeStep
<1> QED BY <1>6, <1>7, <1>8

(* A call that begins has tried nothing, and no save is of its own parent. *)
LEMMA StartServes ==
  ASSUME IsFiniteSet(Call), HeadsInv, HeadsInv', ServeInv, NEW c \in Call, Starts(c)
  PROVE  ServeInv'
<1>1. UNCHANGED head
  BY DEF Starts, SaveNew, SaveMore, LinkMemory, ForgetRead
<1>2. Others(c) /\ call[c].op = "none" /\ call'[c].pc \in {"write", "edge", "withdraw"}
  BY BeginSteps DEF Starts, Begins
<1>3. call \in [Call -> CallRow] /\ call[c] = Fresh /\ call[c].pc = "idle"
  BY <1>2, OpAtStage DEF SessionTypes, CallStage
<1>5. call'[c].attempt = 1
  <2>1. ASSUME NEW s \in Session \cup {NoSession}, SaveNew(c, s) PROVE call'[c].attempt = 1
    BY <1>3, <2>1 DEF SaveNew, Fresh
  <2>2. ASSUME NEW s \in Session, SaveMore(c, s) PROVE call'[c].attempt = 1
    BY <1>3, <2>2 DEF SaveMore, Fresh
  <2>3. ASSUME NEW s \in Session, LinkMemory(c, s) PROVE call'[c].attempt = 1
    BY <1>3, <2>3 DEF LinkMemory, Fresh
  <2>4. ASSUME NEW s \in Session, ForgetRead(c, s) PROVE call'[c].attempt = 1
    BY <1>3, <2>4 DEF ForgetRead, Fresh
  <2> QED BY <2>1, <2>2, <2>3, <2>4 DEF Starts
<1>6. call'[c].op = "save" /\ call'[c].view.version = 0 => call'[c].view.parent # c
  <2>1. \A s \in Session : Held(s) => s # c
    BY <1>2, NameAssumption DEF HeadsInv, HeadInv, Born, Past, Session
  <2>2. ASSUME NEW s \in Session \cup {NoSession}, SaveNew(c, s) PROVE call'[c].view.parent # c
    <3>1. call'[c].view = [NoHead EXCEPT !.parent = s]
      BY <1>3, <2>2 DEF SaveNew, Fresh
    <3>2. call'[c].view.parent = s
      BY <3>1 DEF NoHead
    <3>3. s # NoSession => Held(s)
      BY <2>2 DEF SaveNew
    <3> QED BY <2>1, <3>2, <3>3, NameAssumption
  <2>3. ASSUME NEW s \in Session, SaveMore(c, s) PROVE call'[c].view.version # 0
    <3>1. call'[c].view = head[s] /\ Held(s) /\ head[s] \in HeadRow
      BY <1>3, <2>3, OpAtStage DEF SaveMore, Fresh, SessionTypes
    <3> QED BY <3>1 DEF Held, HeadRow
  <2>4. ASSUME NEW s \in Session, LinkMemory(c, s) \/ ForgetRead(c, s) PROVE call'[c].op # "save"
    BY <2>4, BeginSteps DEF Begins
  <2> QED BY <2>2, <2>3, <2>4 DEF Starts
<1>7. \A d \in Call : \A t \in Session : Wrote(d, t) => Wrote(d, t)'
  <2>1. \A t \in Session : ~Wrote(c, t)
    BY <1>2, <1>3 DEF Wrote, Past
  <2> QED BY <1>2, <2>1 DEF Others, Wrote, Past
<1>8. \A d \in Call : d # c => Tries(d)' /\ call'[d].pc # "refused"
  BY <1>1, <1>2, <1>7, TriesStep DEF Others
<1>9. Tries(c)'
  <2>1. ASSUME NEW t \in Session PROVE Counted(c, t)'
    <3>1. Cardinality(Rivals(c, t)') \in Nat
      BY <1>7, RivalsGrow
    <3> QED BY <1>2, <1>5, <3>1 DEF Counted
  <2> QED BY <1>5, <1>6, <2>1 DEF Tries
<1> QED BY <1>2, <1>8, <1>9 DEF ServeInv

LEMMA ProcessServes ==
  ASSUME IsFiniteSet(Call), HeadsInv, HeadsInv', ServeInv, NEW p \in Process,
         FlushClaim(p) \/ FlushCatalog(p) \/ FlushDrop(p) \/ FlushFails(p) \/ Crash(p)
  PROVE  ServeInv'
<1>1. UNCHANGED head
  BY DEF FlushClaim, FlushCatalog, FlushDrop, FlushFails, Crash
<1>2. \A d \in Call : \/ call'[d] = call[d]
                      \/ /\ call'[d].pc = "done" /\ SameCall(d) /\ SameEdge(d)
  <2>1. CASE Crash(p)
    BY <2>1, CrashCalls
  <2>2. CASE ~Crash(p)
    BY <2>2 DEF FlushClaim, FlushCatalog, FlushDrop, FlushFails
  <2> QED BY <2>1, <2>2
<1>3. \A d \in Call : \A t \in Session : Wrote(d, t) => Wrote(d, t)'
  BY <1>2 DEF Wrote, Past, SameCall, SameEdge
<1>4. ASSUME NEW d \in Call PROVE Tries(d)' /\ call'[d].pc # "refused"
  <2>1. CASE call'[d] = call[d]
    BY <1>1, <1>3, <2>1, TriesStep
  <2>2. CASE call'[d].pc = "done" /\ SameCall(d)
    BY <2>2, TriesAway DEF ServeInv
  <2> QED BY <1>2, <2>1, <2>2
<1> QED BY <1>4 DEF ServeInv

LEMMA InitServes == Init => ServeInv
BY FreshIsTyped DEF Init, ServeInv, Tries, Counted, Fresh

LEMMA NextServes ==
  ASSUME IsFiniteSet(Call), Cardinality(Call) <= HeadRevisions
  PROVE  HeadsInv /\ HeadsInv' /\ ServeInv /\ [Next]_vars => ServeInv'
<1> SUFFICES ASSUME HeadsInv, HeadsInv', ServeInv, [Next]_vars PROVE ServeInv'
  OBVIOUS
<1>1. CASE UNCHANGED vars
  <2>1. UNCHANGED <<head, call>>
    BY <1>1 DEF vars
  <2> QED BY <2>1 DEF ServeInv, Tries, Counted, Rivals, Wrote, Past, Held
<1>2. ASSUME NEW c \in Call, Idles(c) PROVE ServeInv'
  BY <1>2, PlainServes, EnterServes, EdgeReadServes DEF Idles
<1>3. ASSUME NEW c \in Call, Starts(c) PROVE ServeInv'
  BY <1>3, StartServes
<1>4. ASSUME NEW c \in Call,
             \/ WriteChunk(c) \/ PutHead(c) \/ EdgeWrite(c) \/ ForgetWithdraw(c) \/ ForgetHead(c)
             \/ \E k \in Chunk : Discard(c, k) \/ ForgetChunk(c, k)
      PROVE  ServeInv'
  BY <1>4, PlainServes, EdgeWriteServes
<1>5. ASSUME NEW p \in Process,
             FlushClaim(p) \/ FlushCatalog(p) \/ FlushDrop(p) \/ FlushFails(p) \/ Crash(p)
      PROVE  ServeInv'
  BY <1>5, ProcessServes
<1> QED BY <1>1, <1>2, <1>3, <1>4, <1>5, NextSteps

(***************************************************************************)
(* The links between conversations are kept up, among no more calls than   *)
(* reviseEdges has attempts: every refusal of an edge is the one write     *)
(* another call makes to that head, so the attempts never run out; and no  *)
(* link is left to a conversation that is gone.                            *)
(***************************************************************************)
THEOREM EdgesAlwaysHold ==
  IsFiniteSet(Call) /\ Cardinality(Call) <= HeadRevisions => (Spec => []EdgesHold)
<1> SUFFICES ASSUME IsFiniteSet(Call), Cardinality(Call) <= HeadRevisions
             PROVE  Spec => []EdgesHold
  OBVIOUS
<1>1. Init => HeadsInv /\ ServeInv
  BY InitHeads, InitServes
<1>2. HeadsInv /\ ServeInv /\ [Next]_vars => (HeadsInv /\ ServeInv)'
  BY NextHeads, NextServes
<1>3. ServeInv => EdgesServed
  BY DEF ServeInv, EdgesServed
<1>4. NothingLeadsTo /\ EdgesServed => EdgesHold
  BY DEF EdgesHold
<1> QED BY <1>1, <1>2, <1>3, <1>4, NothingEverLeadsTo, PTL DEF Spec
=============================================================================
