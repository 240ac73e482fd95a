------------------------------ MODULE Recovery ------------------------------
(***************************************************************************)
(* A vault put back on a device from the network alone: Hydrate at its     *)
(* three depths (vault/hydrate.go), Recover (vault/recover.go) and the     *)
(* rebuilding of session heads from the chunks that came back              *)
(* (vault/rebuild.go).                                                     *)
(*                                                                         *)
(* Another device writes to the same account and reclaims from it while    *)
(* this one restores.  Here the restore may be cut short after any write   *)
(* and is run again, at any depth, while a second process of the device,   *)
(* the one serving its agents, saves, flushes and forgets.  What that      *)
(* process changes is in the shared files and the database at once; the    *)
(* restore has the copy of the catalog it opened with.                     *)
(***************************************************************************)
EXTENDS Integers, Sequences, FiniteSets

CONSTANTS
  Session,    (* conversations                                             *)
  Remembered, (* memories the other device writes                          *)
  Names,      (* the conversation each memory says it came from            *)
  MaxSeq,     (* bound: chunks one device writes to a conversation         *)
  MaxRestore, (* bound: restores begun                                     *)
  MaxGone,    (* bound: records the other device reclaims                  *)
  MaxFault    (* bound: restores and saves cut short                       *)

ASSUME NamesAssumption == Names \in [Remembered -> Session] /\ Session \cap Remembered = {}
ASSUME BoundAssumption == MaxSeq \in Nat \ {0} /\ {MaxRestore, MaxGone, MaxFault} \subseteq Nat

(* A chunk carries its conversation and its place in it; ids are unique, so *)
(* two devices that write the same place write different chunks.            *)
Chunk  == [of : Session, seq : 0..(MaxSeq - 1), by : {"far", "here"}]
Record == Chunk \cup Remembered

ASSUME RecordAssumption == Chunk \cap Remembered = {}

VARIABLES
  account,   (* records on objects the account holds                       *)
  reclaimed, (* history: records that were reclaimed                       *)
  (* this device *)
  catalog,  (* records its catalog names                                   *)
  body,     (* records it holds a copy of                                  *)
  ranked,   (* memories and sessions with ranking rows                     *)
  vector,   (* memories and sessions that can be searched by meaning       *)
  head,     (* the head of each session, or NoHead                         *)
  save,     (* the save under way in its other process                     *)
  job,      (* the restore it runs                                         *)
  restores, (* restores begun so far                                       *)
  faults    (* restores and saves cut short so far                         *)

vars     == <<account, reclaimed, catalog, body, ranked, vector, head, save, job, restores, faults>>
counts   == <<restores, faults>>
onDevice == <<catalog, body, ranked, vector, head>>

(* version counts the writes of the head; gap: whether the rebuild that    *)
(* stored it reported a hole (Gaps).                                       *)
NoHead == [held |-> FALSE, version |-> 0, chunks |-> <<>>, links |-> {}, gap |-> FALSE]
Held(s) == head[s].held
Named(s) == {head[s].chunks[i] : i \in DOMAIN head[s].chunks}

(* The chunk a save has queued and the head it read before; the head it    *)
(* writes names the chunk.                                                 *)
NoSave == [chunk |-> {}, read |-> NoHead]

(* HydrateDepth, from HydrateCatalog to HydrateIndex. *)
Depth == 0..2
Metadata == 1
Index    == 2

(* listed: what the walk read from the feed; todo: what it has left, or the *)
(* sessions left to rebuild; item: the record or session being stored and   *)
(* steps: the stores it still goes to; known: its copy of the catalog;      *)
(* found: the chunks and memories a rebuild read; expect: the version of    *)
(* the head it is about to write over; dropped, a history: what the other   *)
(* process took off the device since the restore began.                     *)
NoRestore == [cmd |-> "none", pc |-> "idle", depth |-> 0, listed |-> {}, todo |-> {},
              item |-> {}, steps |-> <<>>, known |-> {}, found |-> {}, expect |-> 0,
              dropped |-> {}]

At(where) == job.pc = where

(* Records that exist, or that some process still has in hand. *)
Known == account \cup reclaimed \cup catalog \cup body \cup job.found \cup UNION {Named(s) : s \in Session}

(* Nothing was ever written of s: it is a conversation yet to begin. *)
Fresh(s) == \A c \in Known \cap Chunk : c.of # s

Init ==
  /\ account = {} /\ reclaimed = {}
  /\ catalog = {} /\ body = {} /\ ranked = {} /\ vector = {}
  /\ head = [s \in Session |-> NoHead]
  /\ save = NoSave
  /\ job = NoRestore
  /\ restores = 0 /\ faults = 0

(***************************************************************************)
(* The account, as the other device changes it.                            *)
(***************************************************************************)
(* A flush there, of a conversation begun there or known there; its chunks *)
(* reach the network in any order (see Packer).                            *)
FarWrite(o) ==
  /\ o \notin account \cup reclaimed
  /\ o \in Chunk => /\ o.by = "far"
                     /\ \/ Fresh(o.of)
                        \/ \E c \in Chunk \cap (account \cup reclaimed) : c.of = o.of
  /\ account' = account \cup {o}
  /\ UNCHANGED <<reclaimed, onDevice, save, job, counts>>

(* A record is forgotten there and its object reclaimed. *)
FarDrop(o) ==
  /\ o \in account
  /\ Cardinality(reclaimed) < MaxGone
  /\ account' = account \ {o}
  /\ reclaimed' = reclaimed \cup {o}
  /\ UNCHANGED <<onDevice, save, job, counts>>

(***************************************************************************)
(* The other process of this device.                                       *)
(***************************************************************************)
(* What it takes off the device while a restore runs. *)
Dropped(gone) == job' = IF At("idle") THEN job ELSE [job EXCEPT !.dropped = @ \cup gone]

(* SaveSession reads the head, or begins a conversation, and queues one    *)
(* chunk, numbered by the chunks the head names.                           *)
SaveChunk(s) ==
  LET c == [of |-> s, seq |-> Len(head[s].chunks), by |-> "here"] IN
  /\ save = NoSave
  /\ Held(s) \/ Fresh(s)
  /\ c \in Chunk \ Known
  /\ body' = body \cup {c}
  /\ save' = [chunk |-> {c}, read |-> head[s]]
  /\ UNCHANGED <<account, reclaimed, catalog, ranked, vector, head, job, counts>>

(* What the save makes of the head it read. *)
Extended(c) ==
  [held |-> TRUE, version |-> save.read.version + 1, chunks |-> Append(save.read.chunks, c),
   links |-> save.read.links, gap |-> save.read.gap]

(* putHead writes over the version that was read and no other, and the     *)
(* conversation is indexed; refused, the save takes its chunk back.        *)
SaveHead(c) ==
  /\ c \in save.chunk
  /\ save' = NoSave
  /\ \/ /\ head[c.of].version = save.read.version
        /\ head' = [head EXCEPT ![c.of] = Extended(c)]
        /\ ranked' = ranked \cup {c.of}
        /\ vector' = vector \cup {c.of}
        /\ UNCHANGED <<catalog, body, job>>
     \/ /\ head[c.of].version # save.read.version
        /\ body' = body \ {c}
        /\ catalog' = catalog \ {c}
        /\ Dropped({c})
        /\ UNCHANGED <<ranked, vector, head>>
  /\ UNCHANGED <<account, reclaimed, counts>>

(* The process dies before the head is written: the chunk stays queued. *)
SaveStops ==
  /\ save # NoSave
  /\ faults < MaxFault
  /\ faults' = faults + 1
  /\ save' = NoSave
  /\ UNCHANGED <<account, reclaimed, onDevice, job, restores>>

Unflushed == {c \in body \cap Chunk : c.by = "here" /\ c \notin account \cup reclaimed}

FlushHere ==
  /\ Unflushed # {}
  /\ account' = account \cup Unflushed
  /\ catalog' = catalog \cup Unflushed
  /\ UNCHANGED <<reclaimed, body, ranked, vector, head, save, job, counts>>

(* ForgetSession: the head and every chunk it names; the objects stay. *)
ForgetSession(s) ==
  /\ Held(s)
  /\ body' = body \ Named(s)
  /\ catalog' = catalog \ Named(s)
  /\ ranked' = ranked \ {s}
  /\ vector' = vector \ {s}
  /\ head' = [head EXCEPT ![s] = NoHead]
  /\ Dropped(Named(s) \cup {s})
  /\ UNCHANGED <<account, reclaimed, save, counts>>

Forget(m) ==
  /\ m \in catalog
  /\ body' = body \ {m}
  /\ catalog' = catalog \ {m}
  /\ ranked' = ranked \ {m}
  /\ vector' = vector \ {m}
  /\ Dropped({m})
  /\ UNCHANGED <<account, reclaimed, head, save, counts>>

(***************************************************************************)
(* The walk: every record the feed listed, one store after another.        *)
(***************************************************************************)
(* WalkObjectsStats reads the whole feed before the first record. *)
Begin(cmd, depth) ==
  /\ At("idle")
  /\ cmd = "recover" => depth # 0
  /\ job' = [NoRestore EXCEPT !.cmd = cmd, !.pc = "walk", !.depth = depth,
                         !.listed = account, !.todo = account, !.known = catalog]
  /\ restores < MaxRestore
  /\ restores' = restores + 1
  /\ UNCHANGED <<account, reclaimed, onDevice, save, faults>>

(* Mutant: a record the catalog already names is passed over. *)
SkipCatalogued(cmd, depth, o) ==
  IF o \in catalog THEN <<>>
  ELSE IF depth = 0 THEN <<"catalog">>
  ELSE IF o \in Chunk THEN <<"catalog", "body">>
  ELSE IF depth = Index THEN <<"catalog", "body", "ranked", "vector">>
  ELSE <<"catalog", "body", "ranked">>

(* hydrateFrame catalogues first; recoverFrame keeps the body first.  A   *)
(* chunk has no ranking rows and no vector.                               *)
Stores(cmd, depth, o) ==
  IF cmd = "hydrate" THEN
    IF depth = 0 THEN <<"catalog">>
    ELSE IF o \in Chunk THEN <<"catalog", "body">>
    ELSE IF depth = Index THEN <<"catalog", "body", "ranked", "vector">>
    ELSE <<"catalog", "body", "ranked">>
  ELSE IF o \in Chunk THEN <<"body", "catalog">>
  ELSE IF depth = Index THEN <<"body", "ranked", "catalog", "vector">>
  ELSE <<"body", "ranked", "catalog">>

(* ReadObject asks the hosts and not the indexer: what went since the feed *)
(* was read may still be there, and one that is not ends the restore.     *)
ReadObject(o) ==
  /\ At("walk")
  /\ job.steps = <<>>
  /\ o \in job.todo
  /\ \/ job' = [job EXCEPT !.todo = @ \ {o}, !.item = {o},
                           !.steps = Stores(job.cmd, job.depth, o)]
     \/ o \notin account /\ job' = NoRestore
  /\ UNCHANGED <<account, reclaimed, onDevice, save, counts>>

(* What a record or a rebuilt session being stored is added to. *)
Into(store, set) == IF job.steps # <<>> /\ Head(job.steps) = store THEN set \cup job.item ELSE set

Store ==
  /\ job.steps # <<>>
  /\ catalog' = Into("catalog", catalog)
  /\ body' = Into("body", body)
  /\ ranked' = Into("ranked", ranked)
  /\ vector' = Into("vector", vector)
  /\ job' = [job EXCEPT !.steps = Tail(@), !.known = Into("catalog", @),
                        !.item = IF Len(job.steps) = 1 THEN {} ELSE @]
  /\ UNCHANGED <<account, reclaimed, head, save, counts>>

(* Only a hydrate deeper than the catalog goes on to rebuild the heads. *)
WalkEnds ==
  /\ At("walk")
  /\ job.steps = <<>> /\ job.todo = {}
  /\ job' = [job EXCEPT !.pc = IF job.cmd = "hydrate" /\ job.depth >= Metadata
                                 THEN "group" ELSE "done"]
  /\ UNCHANGED <<account, reclaimed, onDevice, save, counts>>

(***************************************************************************)
(* RebuildSessions.                                                        *)
(***************************************************************************)
(* groupChunksBySession reads every chunk the catalog it knows or the      *)
(* device has, from the network if need be, and passes over one it cannot  *)
(* read; memoryBacklinks the memories the device holds.                    *)
Reachable == Chunk \cap (body \cup (job.known \cap account))

Group ==
  /\ At("group")
  /\ body' = body \cup Reachable
  /\ job' = [job EXCEPT !.pc = "heads", !.found = Reachable \cup (Remembered \cap body),
                        !.todo = {c.of : c \in Reachable}]
  /\ UNCHANGED <<account, reclaimed, catalog, ranked, vector, head, save, counts>>

ChunksOf(s) == {c \in job.found \cap Chunk : c.of = s}

(* The orders of a set of chunks. *)
Orders(cs) == {q \in [1..Cardinality(cs) -> cs] : \A i, j \in DOMAIN q : q[i] = q[j] => i = j}

(* Mutant: the chunks are taken in the order the catalog has them in. *)
AsCatalogued(cs) == Orders(cs)

(* Sorted by their own numbers; chunks with one number stay as they came. *)
Sorted(cs) == {q \in Orders(cs) : \A i, j \in DOMAIN q : i < j => q[i].seq <= q[j].seq}

HasSequenceGap(q) == \E i \in DOMAIN q : q[i].seq # i - 1

(* Mutant: what kind of record names the session is not looked at. *)
AnyBacklinks(s) == job.found

(* memoryBacklinks: the memories read that name the session. *)
Backlinks(s) == {m \in Remembered \cap job.found : Names[m] = s}

(* A head this device holds is left alone; one that is not there is to be  *)
(* written.                                                                *)
LookUp(s) ==
  /\ At("heads")
  /\ job.steps = <<>>
  /\ s \in job.todo
  /\ job' = IF Held(s) THEN [job EXCEPT !.todo = @ \ {s}]
                       ELSE [job EXCEPT !.pc = "version", !.item = {s}]
  /\ UNCHANGED <<account, reclaimed, onDevice, save, counts>>

(* storeRebuiltHead looks once more, for the version it writes over. *)
LookAgain(s) ==
  /\ At("version")
  /\ s \in job.item
  /\ job' = [job EXCEPT !.pc = "put", !.expect = head[s].version]
  /\ UNCHANGED <<account, reclaimed, onDevice, save, counts>>

(* A head of another version than the one just read ends the restore. *)
PutHead(s) ==
  /\ At("put")
  /\ s \in job.item
  /\ \/ /\ head[s].version = job.expect
        /\ \E q \in Sorted(ChunksOf(s)) :
             head' = [head EXCEPT ![s] = [held |-> TRUE, version |-> job.expect + 1, chunks |-> q,
                                          links |-> Backlinks(s), gap |-> HasSequenceGap(q)]]
        /\ job' = [job EXCEPT !.pc = "heads", !.todo = @ \ {s}, !.expect = 0,
                              !.steps = IF job.depth = Index THEN <<"ranked", "vector">>
                                                             ELSE <<"ranked">>]
     \/ /\ head[s].version # job.expect
        /\ job' = NoRestore
        /\ UNCHANGED head
  /\ UNCHANGED <<account, reclaimed, catalog, body, ranked, vector, save, counts>>

RebuildEnds ==
  /\ At("heads")
  /\ job.steps = <<>> /\ job.todo = {}
  /\ job' = [job EXCEPT !.pc = "done"]
  /\ UNCHANGED <<account, reclaimed, onDevice, save, counts>>

Finish ==
  /\ At("done")
  /\ job' = NoRestore
  /\ UNCHANGED <<account, reclaimed, onDevice, save, counts>>

(* A call fails or the process dies: what was stored stays. *)
CutShort ==
  /\ ~At("idle") /\ ~At("done")
  /\ faults < MaxFault
  /\ faults' = faults + 1
  /\ job' = NoRestore
  /\ UNCHANGED <<account, reclaimed, onDevice, save, restores>>

Restoring ==
  \/ Store \/ WalkEnds \/ Group \/ RebuildEnds \/ Finish \/ CutShort
  \/ \E cmd \in {"hydrate", "recover"}, depth \in Depth : Begin(cmd, depth)
  \/ \E o \in Record : ReadObject(o)
  \/ \E s \in Session : LookUp(s) \/ LookAgain(s) \/ PutHead(s)

Next ==
  \/ Restoring
  \/ \E o \in Record : FarWrite(o) \/ FarDrop(o)
  \/ \E s \in Session : SaveChunk(s) \/ ForgetSession(s)
  \/ \E c \in Chunk : SaveHead(c)
  \/ \E m \in Remembered : Forget(m)
  \/ FlushHere \/ SaveStops

Spec == Init /\ [][Next]_vars

(***************************************************************************)
(* Properties.                                                             *)
(***************************************************************************)
(* Every variable has its type, and a head lists chunks of its own         *)
(* conversation, each once.                                                *)
TypeOK ==
  /\ account \subseteq Record /\ reclaimed \subseteq Record /\ account \cap reclaimed = {}
  /\ catalog \subseteq Record /\ body \subseteq Record
  /\ ranked \subseteq Session \cup Remembered /\ vector \subseteq Session \cup Remembered
  /\ \A s \in Session :
       /\ head[s].links \subseteq Remembered
       /\ head[s].chunks \in Seq({c \in Chunk : c.of = s})
       /\ \A i, j \in DOMAIN head[s].chunks : head[s].chunks[i] = head[s].chunks[j] => i = j
       /\ head[s].version \in Nat /\ (Held(s) <=> head[s].version > 0)
  /\ save.chunk \subseteq Chunk
  /\ job.depth \in Depth /\ job.listed \subseteq Record /\ job.found \subseteq Record
  /\ restores \in 0..MaxRestore /\ faults \in 0..MaxFault

(* "a vault that still has the real head must not have it replaced by a    *)
(* reconstruction" (RebuildRequest.Overwrite, off in every restore): no    *)
(* step of a restore changes a head the device holds.                      *)
HeadKept ==
  [][job'.pc # job.pc => \A s \in Session : Held(s) => head'[s] = head[s]]_vars

(* Whatever order the network gave them back in, and whatever was appended *)
(* since, a conversation's turns are in the order of their numbers.  Only  *)
(* what is appended to a head with a hole in it, which the rebuild has     *)
(* reported, may carry a number that is too small.                         *)
InOrder ==
  \A s \in Session : \A i, j \in DOMAIN head[s].chunks :
    LET c == head[s].chunks[i]
        d == head[s].chunks[j]
    IN i < j => c.seq <= d.seq \/ (head[s].gap /\ d.by = "here")

(* A restore that ends has put back everything the feed listed, to the     *)
(* depth it was asked for, whatever an earlier one left half done; and     *)
(* every conversation a chunk came back of has a head.  Only what the      *)
(* other process took off the device meanwhile may be missing.             *)
Restored ==
  At("done") =>
    LET back == job.listed \ job.dropped IN
    /\ back \subseteq catalog
    /\ job.depth >= Metadata => back \subseteq body /\ back \cap Remembered \subseteq ranked
    /\ job.depth = Index => back \cap Remembered \subseteq vector
    /\ job.cmd = "hydrate" /\ job.depth >= Metadata =>
         \A c \in back \cap Chunk : c.of \in job.dropped \/ Held(c.of)

(* "run again with --depth index to search by meaning": once a hydrate at  *)
(* that depth ends, every conversation on the device can be searched.      *)
Searchable ==
  At("done") /\ job.cmd = "hydrate" /\ job.depth = Index =>
    \A s \in Session : Held(s) => s \in vector
=============================================================================
