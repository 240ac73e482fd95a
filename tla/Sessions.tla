------------------------------ MODULE Sessions ------------------------------
(***************************************************************************)
(* Conversations (vault/session.go, local/sessions.go): a session is one   *)
(* mutable head that names immutable transcript chunks, the runs it        *)
(* delegated and the memories drawn from it.  A head is read, changed and  *)
(* written back at the version it was read at; chunks are queued before    *)
(* the head that names them is written, and taken back when it is refused. *)
(*                                                                         *)
(* Every call is one SaveSession, LinkMemory or ForgetSession, served by   *)
(* one of the processes that have the vault open, beside their flushes.    *)
(* They share the heads, bodies, queue and catalog files of the device,    *)
(* and each process has its own copy of the catalog.                       *)
(***************************************************************************)
EXTENDS Integers, FiniteSets

CONSTANTS
  Process,        (* processes that have the vault open                    *)
  Call,           (* the calls agents make, one operation each             *)
  Serves,         (* the process that serves each call                     *)
  First,          (* a session stored before the first call                *)
  NoSession,
  HeadRevisions,  (* how often an edge is written onto a moving head       *)
  MaxChunk,       (* bound: chunks one save is split into                  *)
  MaxFault        (* bound: failures and process deaths                    *)

ASSUME ServesAssumption == Serves \in [Call -> Process]
ASSUME NameAssumption == First \notin Call /\ NoSession \notin Call \cup {First}
ASSUME BoundAssumption == HeadRevisions \in Nat \ {0} /\ MaxChunk \in Nat \ {0} /\ MaxFault \in Nat

(* A session, a chunk and a memory are named after the call that made them. *)
Session == Call \cup {First}
Chunk   == Session \X (1..MaxChunk)
Edge    == Session \X {"child", "memory"}

VARIABLES
  (* the device *)
  head,      (* each session's head, or NoHead                             *)
  indexed,   (* sessions with a vector and ranking rows                    *)
  body,      (* chunks with a local copy                                   *)
  queued,    (* chunks with a row in the queue                             *)
  catalog,   (* chunks the catalog's files name                            *)
  (* each process *)
  mem,       (* the chunks its copy of the catalog names                   *)
  flush,     (* the batch it is flushing, and how far it has got           *)
  (* each call *)
  call,
  (* history *)
  begun,     (* sessions a forget has begun to take apart                  *)
  raced,     (* sessions forgotten before a save of theirs had returned    *)
  reported,  (* chunks a failed save said it could not take back           *)
  cut,       (* chunks of saves that died with their process               *)
  faults     (* failures so far                                            *)

vars == <<head, indexed, body, queued, catalog, mem, flush, call,
          begun, raced, reported, cut, faults>>

NoHead == [version |-> 0, chunks |-> {}, edges |-> {}, parent |-> NoSession]
Quiet  == [pc |-> "idle", batch |-> {}]

(* view: the head as it was read; todo: chunks written and not yet named,  *)
(* or still to remove; seen, target, edge, attempt: the edge being written. *)
Fresh == [op |-> "none", pc |-> "idle", sid |-> NoSession, view |-> NoHead, todo |-> {},
          target |-> NoSession, edge |-> <<First, "child">>, seen |-> NoHead, attempt |-> 1]

Held(s) == head[s].version > 0
Claimed == UNION {flush[p].batch : p \in Process}

At(c, where) == call[c].pc = where
Go(c, where) == call' = [call EXCEPT ![c].pc = where]

Stored == {<<First, 1>>}

(* One session with one chunk, stored and not yet flushed. *)
Init ==
  /\ head = [s \in Session |->
               IF s = First THEN [NoHead EXCEPT !.version = 1, !.chunks = Stored] ELSE NoHead]
  /\ indexed = {First}
  /\ body = Stored
  /\ queued = Stored
  /\ catalog = {}
  /\ mem = [p \in Process |-> {}]
  /\ flush = [p \in Process |-> Quiet]
  /\ call = [c \in Call |-> Fresh]
  /\ begun = {}
  /\ raced = {}
  /\ reported = {}
  /\ cut = {}
  /\ faults = 0

(***************************************************************************)
(* SaveSession.                                                            *)
(***************************************************************************)
(* A new run is refused unless the conversation that delegated it is held. *)
SaveNew(c, parent) ==
  /\ At(c, "idle")
  /\ (parent # NoSession => Held(parent))
  /\ call' = [call EXCEPT ![c] = [Fresh EXCEPT !.op = "save", !.pc = "write", !.sid = c,
                                               !.view = [NoHead EXCEPT !.parent = parent]]]
  /\ UNCHANGED <<head, indexed, body, queued, catalog, mem, flush, begun, raced, reported, cut, faults>>

SaveMore(c, s) ==
  /\ At(c, "idle")
  /\ Held(s)
  /\ call' = [call EXCEPT ![c] = [Fresh EXCEPT !.op = "save", !.pc = "write", !.sid = s,
                                               !.view = head[s]]]
  /\ UNCHANGED <<head, indexed, body, queued, catalog, mem, flush, begun, raced, reported, cut, faults>>

(* writeChunk puts the chunk on the device and queues it. *)
WriteChunk(c) ==
  LET k == <<c, Cardinality(call[c].todo) + 1>> IN
  /\ At(c, "write")
  /\ k \in Chunk
  /\ body' = body \cup {k}
  /\ queued' = queued \cup {k}
  /\ call' = [call EXCEPT ![c].todo = @ \cup {k}]
  /\ UNCHANGED <<head, indexed, catalog, mem, flush, begun, raced, reported, cut, faults>>

(* A chunk that cannot be written, or an embedding that fails, ends the save. *)
SaveStops(c) ==
  /\ At(c, "write")
  /\ faults < MaxFault
  /\ faults' = faults + 1
  /\ Go(c, "abandon")
  /\ UNCHANGED <<head, indexed, body, queued, catalog, mem, flush, begun, raced, reported, cut>>

(* Mutant: the head is replaced whatever version it is at. *)
Overwrites(s, from) == from = 0 \/ Held(s)

(* PutSessionHead: a head is replaced at the version read, and created only as new. *)
Accepts(s, from) == head[s].version = from

PutHead(c) ==
  LET s == call[c].sid
      view == call[c].view IN
  /\ At(c, "write")
  /\ IF Accepts(s, view.version)
       THEN /\ head' = [head EXCEPT ![s] = [view EXCEPT !.version = @ + 1,
                                                        !.chunks = @ \cup call[c].todo]]
            /\ call' = [call EXCEPT ![c].pc = "index", ![c].todo = {}]
       ELSE /\ Go(c, "abandon")
            /\ UNCHANGED head
  /\ UNCHANGED <<indexed, body, queued, catalog, mem, flush, begun, raced, reported, cut, faults>>

(* manifest.Remove: an entry the process's copy does not hold is passed over. *)
RemoveEntry(p, k) ==
  /\ catalog' = IF k \in mem[p] THEN catalog \ {k} ELSE catalog
  /\ mem' = [mem EXCEPT ![p] = @ \ {k}]

(* Mutant: a chunk is withdrawn from under the flush that claimed it. *)
DiscardClaimed(c, k) ==
  /\ At(c, "abandon")
  /\ k \in call[c].todo
  /\ call' = [call EXCEPT ![c].todo = @ \ {k}]
  /\ queued' = queued \ {k}
  /\ RemoveEntry(Serves[c], k)
  /\ body' = body \ {k}
  /\ UNCHANGED <<head, indexed, flush, begun, raced, reported, cut, faults>>

(* abandon: discardChunk takes each chunk back, or says a flush has it. *)
Discard(c, k) ==
  /\ At(c, "abandon")
  /\ k \in call[c].todo
  /\ call' = [call EXCEPT ![c].todo = @ \ {k}]
  /\ IF k \in Claimed
       THEN /\ reported' = reported \cup {k}
            /\ UNCHANGED <<queued, catalog, mem, body>>
       ELSE /\ queued' = queued \ {k}
            /\ RemoveEntry(Serves[c], k)
            /\ body' = body \ {k}
            /\ UNCHANGED reported
  /\ UNCHANGED <<head, indexed, flush, begun, raced, cut, faults>>

Abandoned(c) ==
  /\ At(c, "abandon")
  /\ call[c].todo = {}
  /\ Go(c, "done")
  /\ UNCHANGED <<head, indexed, body, queued, catalog, mem, flush, begun, raced, reported, cut, faults>>

(* The edge loop of reviseEdges is entered at "edge". *)
ToEdge(c, target, edge) ==
  call' = [call EXCEPT ![c].pc = "edge", ![c].target = target, ![c].edge = edge]

(* indexHead, and then a new run is recorded on the conversation it came from. *)
IndexHead(c) ==
  LET view == call[c].view IN
  /\ At(c, "index")
  /\ indexed' = indexed \cup {call[c].sid}
  /\ IF view.version = 0 /\ view.parent # NoSession
       THEN ToEdge(c, view.parent, <<call[c].sid, "child">>)
       ELSE Go(c, "done")
  /\ UNCHANGED <<head, body, queued, catalog, mem, flush, begun, raced, reported, cut, faults>>

(***************************************************************************)
(* Edges: adoptChild, disownChild and LinkMemory, through reviseEdges.     *)
(***************************************************************************)
LinkMemory(c, s) ==
  /\ At(c, "idle")
  /\ Held(s)
  /\ call' = [call EXCEPT ![c] = [Fresh EXCEPT !.op = "link", !.pc = "edge", !.target = s,
                                               !.edge = <<c, "memory">>]]
  /\ UNCHANGED <<head, indexed, body, queued, catalog, mem, flush, begun, raced, reported, cut, faults>>

(* A forget takes its edge off the parent and goes on; the others are done. *)
AfterEdge(c) == IF call[c].op = "forget" THEN "unindex" ELSE "done"
Revised(c, edges) == IF call[c].op = "forget" THEN edges \ {call[c].edge}
                                              ELSE edges \cup {call[c].edge}

(* A head that is gone, or already says what it should, is not written. *)
EdgeRead(c) ==
  LET t == call[c].target IN
  /\ At(c, "edge")
  /\ call' = [call EXCEPT ![c].seen = head[t],
                          ![c].pc = IF Held(t) /\ Revised(c, head[t].edges) # head[t].edges
                                      THEN "revise" ELSE AfterEdge(c)]
  /\ UNCHANGED <<head, indexed, body, queued, catalog, mem, flush, begun, raced, reported, cut, faults>>

(* Mutant: the head is not read again after a refusal. *)
TryAgain(c) == [call EXCEPT ![c].attempt = @ + 1]

(* A head that moved on is read again, HeadRevisions times in all. *)
Retry(c) == [call EXCEPT ![c].attempt = @ + 1, ![c].pc = "edge"]

EdgeWrite(c) ==
  LET t == call[c].target
      seen == call[c].seen IN
  /\ At(c, "revise")
  /\ IF Accepts(t, seen.version)
       THEN /\ head' = [head EXCEPT ![t] = [seen EXCEPT !.version = @ + 1,
                                                        !.edges = Revised(c, @)]]
            /\ Go(c, AfterEdge(c))
       ELSE /\ call' = IF ~Held(t) THEN [call EXCEPT ![c].pc = AfterEdge(c)]
                       ELSE IF call[c].attempt < HeadRevisions THEN Retry(c)
                       ELSE [call EXCEPT ![c].pc = "refused"]
            /\ UNCHANGED head
  /\ UNCHANGED <<indexed, body, queued, catalog, mem, flush, begun, raced, reported, cut, faults>>

(***************************************************************************)
(* ForgetSession.                                                          *)
(***************************************************************************)
(* Its saves that have stored a head and have not returned. *)
SavesLeft(s) ==
  {c \in Call : call[c].op = "save" /\ call[c].sid = s /\ call[c].pc \in {"index", "edge", "revise"}}

ForgetRead(c, s) ==
  /\ At(c, "idle")
  /\ Held(s)
  /\ call' = [call EXCEPT ![c] = [Fresh EXCEPT !.op = "forget", !.pc = "withdraw", !.sid = s,
                                               !.view = head[s]]]
  /\ raced' = IF SavesLeft(s) = {} THEN raced ELSE raced \cup {s}
  /\ UNCHANGED <<head, indexed, body, queued, catalog, mem, flush, begun, reported, cut, faults>>

(* Mutant: the chunks no flush has are withdrawn, and then the forget is refused. *)
WithdrawFree(c) ==
  LET chunks == call[c].view.chunks IN
  /\ At(c, "withdraw")
  /\ queued' = queued \ (chunks \ Claimed)
  /\ IF chunks \cap Claimed # {}
       THEN /\ Go(c, "done")
            /\ UNCHANGED begun
       ELSE /\ begun' = begun \cup {call[c].sid}
            /\ call' = [call EXCEPT ![c].pc = "remove", ![c].todo = chunks]
  /\ UNCHANGED <<head, indexed, body, catalog, mem, flush, raced, reported, cut, faults>>

(* WithdrawQueuedAll: a claim on any chunk refuses the forget with nothing removed. *)
ForgetWithdraw(c) ==
  LET chunks == call[c].view.chunks IN
  /\ At(c, "withdraw")
  /\ IF chunks \cap Claimed # {}
       THEN /\ Go(c, "done")
            /\ UNCHANGED <<queued, begun>>
       ELSE /\ queued' = queued \ chunks
            /\ begun' = begun \cup {call[c].sid}
            /\ call' = [call EXCEPT ![c].pc = "remove", ![c].todo = chunks]
  /\ UNCHANGED <<head, indexed, body, catalog, mem, flush, raced, reported, cut, faults>>

ForgetChunk(c, k) ==
  /\ At(c, "remove")
  /\ k \in call[c].todo
  /\ RemoveEntry(Serves[c], k)
  /\ body' = body \ {k}
  /\ call' = [call EXCEPT ![c].todo = @ \ {k}]
  /\ UNCHANGED <<head, indexed, queued, flush, begun, raced, reported, cut, faults>>

(* Mutant: the parent is left to name a session nobody holds. *)
KeepEdge(c) ==
  /\ At(c, "remove")
  /\ call[c].todo = {}
  /\ Go(c, "unindex")
  /\ UNCHANGED <<head, indexed, body, queued, catalog, mem, flush, begun, raced, reported, cut, faults>>

ForgetEdge(c) ==
  LET parent == call[c].view.parent IN
  /\ At(c, "remove")
  /\ call[c].todo = {}
  /\ IF parent # NoSession THEN ToEdge(c, parent, <<call[c].sid, "child">>)
                           ELSE Go(c, "unindex")
  /\ UNCHANGED <<head, indexed, body, queued, catalog, mem, flush, begun, raced, reported, cut, faults>>

ForgetIndex(c) ==
  /\ At(c, "unindex")
  /\ indexed' = indexed \ {call[c].sid}
  /\ Go(c, "delete")
  /\ UNCHANGED <<head, body, queued, catalog, mem, flush, begun, raced, reported, cut, faults>>

(* Mutant: the head is deleted whatever version it is at. *)
DeleteAny(s, version) == TRUE

(* ForgetSessionHeadAt deletes a head only at the version read. *)
Deletes(s, version) == head[s].version = version

ForgetHead(c) ==
  LET s == call[c].sid IN
  /\ At(c, "delete")
  /\ head' = IF Deletes(s, call[c].view.version) THEN [head EXCEPT ![s] = NoHead] ELSE head
  /\ Go(c, "done")
  /\ UNCHANGED <<indexed, body, queued, catalog, mem, flush, begun, raced, reported, cut, faults>>

(* Any later step of a save, a link or a forget fails, and the call returns. *)
CallFails(c) ==
  /\ call[c].pc \in {"index", "edge", "revise", "withdraw", "remove", "unindex", "delete"}
  /\ faults < MaxFault
  /\ faults' = faults + 1
  /\ call' = [call EXCEPT ![c].pc = "done", ![c].todo = {}]
  /\ UNCHANGED <<head, indexed, body, queued, catalog, mem, flush, begun, raced, reported, cut>>

(***************************************************************************)
(* Flushes, and processes that die.                                        *)
(***************************************************************************)
FlushClaim(p) ==
  /\ flush[p].pc = "idle"
  /\ queued \ Claimed # {}
  /\ flush' = [flush EXCEPT ![p] = [pc |-> "write", batch |-> queued \ Claimed]]
  /\ UNCHANGED <<head, indexed, body, queued, catalog, mem, call, begun, raced, reported, cut, faults>>

FlushCatalog(p) ==
  /\ flush[p].pc = "write"
  /\ catalog' = catalog \cup flush[p].batch
  /\ mem' = [mem EXCEPT ![p] = @ \cup flush[p].batch]
  /\ flush' = [flush EXCEPT ![p].pc = "drop"]
  /\ UNCHANGED <<head, indexed, body, queued, call, begun, raced, reported, cut, faults>>

FlushDrop(p) ==
  /\ flush[p].pc = "drop"
  /\ queued' = queued \ flush[p].batch
  /\ flush' = [flush EXCEPT ![p] = Quiet]
  /\ UNCHANGED <<head, indexed, body, catalog, mem, call, begun, raced, reported, cut, faults>>

(* A write that fails hands its rows back. *)
FlushFails(p) ==
  /\ flush[p].pc = "write"
  /\ faults < MaxFault
  /\ faults' = faults + 1
  /\ flush' = [flush EXCEPT ![p] = Quiet]
  /\ UNCHANGED <<head, indexed, body, queued, catalog, mem, call, begun, raced, reported, cut>>

(* The process dies with the calls it serves, and is started again: its    *)
(* claims have lapsed and its copy of the catalog is read afresh.          *)
Crash(p) ==
  LET mine == {c \in Call : Serves[c] = p /\ call[c].pc \notin {"idle", "done", "refused"}} IN
  /\ mine # {} \/ flush[p] # Quiet
  /\ faults < MaxFault
  /\ faults' = faults + 1
  /\ flush' = [flush EXCEPT ![p] = Quiet]
  /\ mem' = [mem EXCEPT ![p] = catalog]
  /\ cut' = cut \cup UNION {call[c].todo : c \in {c \in mine : call[c].op = "save"}}
  /\ call' = [c \in Call |-> IF c \in mine THEN [call[c] EXCEPT !.pc = "done", !.todo = {}] ELSE call[c]]
  /\ UNCHANGED <<head, indexed, body, queued, catalog, begun, raced, reported>>

Next ==
  \/ \E c \in Call :
       \/ WriteChunk(c) \/ SaveStops(c) \/ PutHead(c) \/ Abandoned(c) \/ IndexHead(c)
       \/ EdgeRead(c) \/ EdgeWrite(c)
       \/ ForgetWithdraw(c) \/ ForgetEdge(c) \/ ForgetIndex(c) \/ ForgetHead(c) \/ CallFails(c)
       \/ \E s \in Session \cup {NoSession} : SaveNew(c, s)
       \/ \E s \in Session : SaveMore(c, s) \/ LinkMemory(c, s) \/ ForgetRead(c, s)
       \/ \E k \in Chunk : Discard(c, k) \/ ForgetChunk(c, k)
  \/ \E p \in Process :
       FlushClaim(p) \/ FlushCatalog(p) \/ FlushDrop(p) \/ FlushFails(p) \/ Crash(p)

Spec == Init /\ [][Next]_vars

(***************************************************************************)
(* Properties.                                                             *)
(***************************************************************************)
HeadRow == [version : Nat, chunks : SUBSET Chunk, edges : SUBSET Edge,
            parent : Session \cup {NoSession}]

(* Every variable has its type, a head that does not exist holds nothing,  *)
(* and a flush has claimed only rows that are queued.                      *)
TypeOK ==
  /\ head \in [Session -> HeadRow]
  /\ \A s \in Session : ~Held(s) => head[s] = NoHead
  /\ indexed \subseteq Session
  /\ body \subseteq Chunk /\ queued \subseteq Chunk /\ catalog \subseteq Chunk
  /\ mem \in [Process -> SUBSET Chunk]
  /\ Claimed \subseteq queued
  /\ begun \subseteq Session /\ raced \subseteq Session /\ reported \subseteq Chunk /\ cut \subseteq Chunk
  /\ faults \in 0..MaxFault
  /\ \A c \in Call : call[c].todo \subseteq Chunk /\ call[c].attempt \in 1..HeadRevisions

Memories(h) == {e \in h.edges : e[2] = "memory"}

(* No writer erases what another one added: while a session is held, its   *)
(* head keeps every turn it names and every memory it links.               *)
TurnsKept ==
  [][\A s \in Session : Held(s) /\ Held(s)' =>
       /\ head[s].chunks \subseteq head'[s].chunks
       /\ Memories(head[s]) \subseteq Memories(head'[s])]_vars

(* A head names only turns that are there: queued for the network or       *)
(* catalogued on it, until somebody begins to forget the session.          *)
HeadIsWhole ==
  \A s \in Session \ begun : head[s].chunks \subseteq queued \cup catalog

(* No turn is left to be written, catalogued or rebuilt that no            *)
(* conversation names, unless its save is still running, its save said so, *)
(* or its save died: a forgotten conversation leaves nothing behind.       *)
NothingStranded ==
  \A k \in queued \cup catalog \cup body :
    \/ \E s \in Session : k \in head[s].chunks
    \/ \E c \in Call : call[c].op = "save" /\ k \in call[c].todo
    \/ k \in reported \cup cut

(***************************************************************************)
(* A conversation that is gone was taken out of every place that leads to  *)
(* it: recall cannot find it, and the parent that delegated it, which      *)
(* could not be loaded at all while it named a run nobody holds, does not. *)
(* Only a forget that overtakes a save of the same conversation, between   *)
(* its head and its return, is not promised this: that save goes on to     *)
(* index the head and to tell the parent.                                  *)
(***************************************************************************)
NothingLeadsTo ==
  \A s \in begun \ raced : ~Held(s) =>
    s \notin indexed /\ \A t \in Session : <<s, "child">> \notin head[t].edges

(***************************************************************************)
(* What ForgetSession says of the edge it takes off the parent, "A parent  *)
(* that still names a session nobody holds cannot be loaded at all, so the *)
(* containment edge goes with the session it points at": no head names a   *)
(* conversation that was forgotten.  A forget that runs between the head   *)
(* of a save and the save's edge finds no edge to take, and the save adds  *)
(* it once the conversation is gone.                                       *)
(***************************************************************************)
EdgeGoesToo ==
  \A s \in begun : ~Held(s) => \A t \in Session : <<s, "child">> \notin head[t].edges

(* Among calls that each change a head once, an edge is never refused.     *)
EdgesServed == \A c \in Call : call[c].pc # "refused"

(***************************************************************************)
(* The links between conversations are kept up: an edge asked for is       *)
(* added, and none is left to a conversation that is gone.                 *)
(***************************************************************************)
EdgesHold == NothingLeadsTo /\ EdgesServed
=============================================================================
