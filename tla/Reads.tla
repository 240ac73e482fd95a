------------------------------- MODULE Reads -------------------------------
(***************************************************************************)
(* Memories written, read back and forgotten by the calls of the processes *)
(* that share one device (vault/remember.go, fetch.go, reclaim.go's Forget *)
(* and recall/pipeline.go).                                                *)
(*                                                                         *)
(* Each call touches one store after another: the database (bodies,        *)
(* ranking rows with their terms, and the flush queue), the index files    *)
(* and the index loaded from them when the vault was opened, and the       *)
(* catalog files and the copy of them read then.  The two loaded copies    *)
(* are a process's own and are never read again, so another process's      *)
(* change reaches it only through the database.                            *)
(*                                                                         *)
(* A flush and a repack are one step here; Packer and Reclaim take them    *)
(* apart.  Search and terms find any records; how they order them is       *)
(* Ranking's subject.                                                      *)
(***************************************************************************)
EXTENDS Integers, FiniteSets

CONSTANTS
  Host,      (* processes with the vault open, one after another or together *)
  Memory,    (* record ids                                                   *)
  NoMemory,  (* what a memory that replaces nothing replaces                 *)
  Write,     (* calls of remember and forget that can be under way at once   *)
  Read,      (* calls of recall and open that can be                         *)
  MaxSlab,   (* bound: how many slabs are ever written                       *)
  MaxForget, (* bound: how many forgets are ever begun                       *)
  MaxCut     (* bound: how many calls or processes end early                 *)

ASSUME ReadsAssumption ==
  /\ NoMemory \notin Memory /\ MaxSlab \in Nat \ {0}
  /\ MaxForget \in Nat /\ MaxCut \in Nat

VARIABLES
  bodies,     (* memories whose body is on the device                       *)
  described,  (* memories with ranking rows and terms                       *)
  replaces,   (* record_meta.supersedes                                     *)
  vectors,    (* memories the index files hold                              *)
  searching,  (* the index each process loaded                              *)
  queued,     (* memories waiting for a flush                               *)
  filed,      (* the slab the catalog files place each memory in; 0 is none *)
  placed,     (* the copy of the catalog each process keeps                 *)
  objects,    (* network: the objects that can be looked up                 *)
  slabs,      (* network: how many slabs have been written                  *)
  calls,      (* what each call is doing                                    *)
  minted,     (* history: ids given out                                     *)
  known,      (* history: memories each process was told are stored         *)
  behind,     (* history: memories others changed since a process opened    *)
  gone,       (* history: memories a completed forget removed               *)
  goneTo,     (* history: of these, before the process opened or by it      *)
  cut,        (* history: memories whose forget was cut short               *)
  forgets,    (* forgets begun                                              *)
  cuts        (* calls and processes that ended early                       *)

Call == Write \cup Read

device  == <<bodies, described, replaces, vectors, queued>>
network == <<filed, objects, slabs>>
story   == <<minted, known, behind, gone, goneTo, cut, forgets, cuts>>
readsVars == <<device, searching, placed, network, calls, story>>

Idle == [at |-> "idle", by |-> NoMemory, id |-> NoMemory, old |-> NoMemory,
         slab |-> 0, flag |-> FALSE, found |-> {}, got |-> {}, must |-> {}, never |-> {},
         cause |-> {}]

(* Describe: a memory is replaced when some ranking row names it. *)
Superseded == {replaces[m] : m \in described} \ {NoMemory}

Forgetting == {calls[c].id : c \in {d \in Call :
                 calls[d].at \in {"unfile", "unbody", "unvector", "unrow"}}}

(***************************************************************************)
(* A device on which some memories were restored to the depth "catalog":   *)
(* the catalog places them and nothing else on the device has them.        *)
(***************************************************************************)
ReadsInit ==
  \E restored \in SUBSET Memory :
    /\ bodies = {} /\ described = {} /\ vectors = {} /\ queued = {}
    /\ replaces = [m \in Memory |-> NoMemory]
    /\ searching = [p \in Host |-> {}]
    /\ filed = [m \in Memory |-> IF m \in restored THEN 1 ELSE 0]
    /\ placed = [p \in Host |-> filed]
    /\ objects = restored \X {1}
    /\ slabs = IF restored = {} THEN 0 ELSE 1
    /\ calls = [c \in Call |-> Idle]
    /\ minted = restored
    /\ known = [p \in Host |-> {}] /\ behind = [p \in Host |-> {}]
    /\ gone = {} /\ goneTo = [p \in Host |-> {}]
    /\ cut = {} /\ forgets = 0 /\ cuts = 0

(* Other processes' copies do not have the memories in ms as they are now. *)
LeftBehind(p, ms) == behind' = [q \in Host |-> IF q = p THEN behind[q] ELSE behind[q] \cup ms]

Goes(c, next) == calls' = [calls EXCEPT ![c].at = next]

-----------------------------------------------------------------------------
(* Remember                                                                 *)

(***************************************************************************)
(* A new id; a memory it replaces has to have ranking rows.  The first     *)
(* store written is the body's.                                            *)
(***************************************************************************)
StartRemember(c, p, m, old) ==
  /\ c \in Write /\ calls[c] = Idle /\ m \notin minted
  /\ old = NoMemory \/ old \in described
  /\ minted' = minted \cup {m}
  /\ bodies' = bodies \cup {m}
  /\ calls' = [calls EXCEPT ![c] = [Idle EXCEPT !.at = "vector", !.by = p, !.id = m, !.old = old]]
  /\ UNCHANGED <<described, replaces, vectors, queued, searching, placed, network,
                 known, behind, gone, goneTo, cut, forgets, cuts>>

(* Mutant: the vector reaches the files alone. *)
PutVectorOnDisk(c) ==
  /\ calls[c].at = "vector"
  /\ vectors' = vectors \cup {calls[c].id}
  /\ Goes(c, "row")
  /\ UNCHANGED <<bodies, described, replaces, queued, searching, placed, network, story>>

(* putVector: the files first, then the index this process searches. *)
PutVector(c) ==
  /\ calls[c].at = "vector"
  /\ vectors' = vectors \cup {calls[c].id}
  /\ searching' = [searching EXCEPT ![calls[c].by] = @ \cup {calls[c].id}]
  /\ Goes(c, "row")
  /\ UNCHANGED <<bodies, described, replaces, queued, placed, network, story>>

(***************************************************************************)
(* PutRankingMeta: the row, its tags and its terms in one transaction.  A  *)
(* recall under way need no longer answer with the memory this replaces.   *)
(***************************************************************************)
PutRankingMeta(c) ==
  LET m == calls[c].id IN
  /\ calls[c].at = "row"
  /\ described' = described \cup {m}
  /\ replaces' = [replaces EXCEPT ![m] = calls[c].old]
  /\ calls' = [d \in Call |-> IF d = c THEN [calls[c] EXCEPT !.at = "queue"]
                              ELSE [calls[d] EXCEPT !.must = @ \ {calls[c].old}]]
  /\ UNCHANGED <<bodies, vectors, queued, searching, placed, network, story>>

(* packer.Add, after which Remember answers; what follows it only reads. *)
Enqueue(c) ==
  /\ calls[c].at = "queue"
  /\ queued' = queued \cup {calls[c].id}
  /\ known' = [known EXCEPT ![calls[c].by] = @ \cup {calls[c].id}]
  /\ calls' = [calls EXCEPT ![c] = Idle]
  /\ UNCHANGED <<bodies, described, replaces, vectors, searching, placed, network,
                 minted, behind, gone, goneTo, cut, forgets, cuts>>

-----------------------------------------------------------------------------
(* Forget                                                                   *)

(***************************************************************************)
(* Withdraw takes m out of the queue first.  A read under way need not     *)
(* answer with m any more, and may fail on account of it.                  *)
(***************************************************************************)
StartForget(c, p, m) ==
  /\ c \in Write /\ calls[c] = Idle /\ m \in minted
  /\ forgets < MaxForget /\ forgets' = forgets + 1
  /\ queued' = queued \ {m}
  /\ calls' = [d \in Call |->
       IF d = c THEN [Idle EXCEPT !.at = "unfile", !.by = p, !.id = m, !.flag = m \in queued]
       ELSE IF calls[d] = Idle THEN Idle
       ELSE [calls[d] EXCEPT !.must = @ \ {m}, !.cause = @ \cup {m}]]
  /\ UNCHANGED <<bodies, described, replaces, vectors, searching, placed, network,
                 minted, known, behind, gone, goneTo, cut, cuts>>

(***************************************************************************)
(* manifest.Remove looks m up in this process's copy.  Not finding it is   *)
(* refused, unless the memory was in the queue a moment ago.               *)
(***************************************************************************)
Unfile(c) ==
  LET p == calls[c].by
      m == calls[c].id
  IN
  /\ calls[c].at = "unfile"
  /\ IF placed[p][m] # 0
     THEN /\ placed' = [placed EXCEPT ![p][m] = 0]
          /\ filed' = [filed EXCEPT ![m] = 0]
          /\ LeftBehind(p, {m})
          /\ Goes(c, "unbody")
     ELSE /\ Goes(c, IF calls[c].flag THEN "unbody" ELSE "refused")
          /\ UNCHANGED <<placed, filed, behind>>
  /\ UNCHANGED <<device, searching, objects, slabs, minted, known, gone, goneTo, cut, forgets, cuts>>

ForgetBody(c) ==
  /\ calls[c].at = "unbody"
  /\ bodies' = bodies \ {calls[c].id}
  /\ Goes(c, "unvector")
  /\ UNCHANGED <<described, replaces, vectors, queued, searching, placed, network, story>>

(* removeVector: the files first, then the index this process searches. *)
RemoveVector(c) ==
  /\ calls[c].at = "unvector"
  /\ vectors' = vectors \ {calls[c].id}
  /\ searching' = [searching EXCEPT ![calls[c].by] = @ \ {calls[c].id}]
  /\ LeftBehind(calls[c].by, {calls[c].id})
  /\ Goes(c, "unrow")
  /\ UNCHANGED <<bodies, described, replaces, queued, placed, network,
                 minted, known, gone, goneTo, cut, forgets, cuts>>

(***************************************************************************)
(* ForgetRankingMeta, after which Forget answers.  What m replaced is      *)
(* current again.                                                          *)
(***************************************************************************)
ForgetRankingMeta(c) ==
  LET m == calls[c].id IN
  /\ calls[c].at = "unrow"
  /\ described' = described \ {m}
  /\ replaces' = [replaces EXCEPT ![m] = NoMemory]
  /\ gone' = gone \cup {m}
  /\ goneTo' = [goneTo EXCEPT ![calls[c].by] = @ \cup {m}]
  /\ cut' = cut \ {m}
  /\ calls' = [d \in Call |-> IF d = c THEN Idle
                              ELSE [calls[d] EXCEPT !.never = @ \ {replaces[m]}]]
  /\ UNCHANGED <<bodies, vectors, queued, searching, placed, network,
                 minted, known, behind, forgets, cuts>>

-----------------------------------------------------------------------------
(* Recall and open                                                          *)

(***************************************************************************)
(* Pipeline.Run, with or without a scope, up to index.Search over what     *)
(* this process loaded.  It must answer with what this process knows to be *)
(* stored and current, and never with what was already replaced or         *)
(* forgotten: by anyone if it has a scope, else as far as this process can *)
(* know.                                                                   *)
(***************************************************************************)
StartRecall(c, p, scoped) ==
  /\ c \in Read /\ calls[c] = Idle
  /\ calls' = [calls EXCEPT ![c] =
       [Idle EXCEPT !.at = "terms", !.by = p, !.flag = scoped, !.found = searching[p],
          !.must  = known[p] \ (Superseded \cup gone \cup cut \cup Forgetting),
          !.never = Superseded \cup (IF scoped THEN gone ELSE goneTo[p]),
          !.cause = Forgetting]]
  /\ UNCHANGED <<device, searching, placed, network, story>>

(* SearchLexical: some memories whose terms the database has, and fuse. *)
SearchLexical(c) ==
  /\ calls[c].at = "terms"
  /\ \E hits \in SUBSET described :
       calls' = [calls EXCEPT ![c].at = "describe", ![c].found = @ \cup hits]
  /\ UNCHANGED <<device, searching, placed, network, story>>

(* Mutant: replaced memories are ranked. *)
EligibleReplaced(c) == {m \in calls[c].found : calls[c].flag => m \in described}

(* rank: the replaced are dropped, and with a scope the undescribed. *)
Eligible(c) == {m \in calls[c].found : /\ m \notin Superseded
                                       /\ calls[c].flag => m \in described}

Describe(c) ==
  /\ calls[c].at = "describe"
  /\ calls' = [calls EXCEPT ![c].at = "fetch", ![c].found = Eligible(c)]
  /\ UNCHANGED <<device, searching, placed, network, story>>

(* open of an address a listing, an answer or another device gave. *)
StartOpen(c, p, m) ==
  /\ c \in Read /\ calls[c] = Idle
  /\ m \in described \cup gone \/ filed[m] # 0
  /\ calls' = [calls EXCEPT ![c] = [Idle EXCEPT !.at = "fetch", !.by = p, !.id = m, !.found = {m},
                                                !.cause = Forgetting \cup gone]]
  /\ UNCHANGED <<device, searching, placed, network, story>>

Got(c, m) == [calls EXCEPT ![c].at = "fetch", ![c].got = @ \cup {m}, ![c].found = @ \ {m}]
Fails(c, m) == [calls EXCEPT ![c].at = "failed", ![c].id = m]

(* fetchBody: the device's own copy, or the place this process knows. *)
Fetch(c, m) ==
  /\ calls[c].at = "fetch" /\ m \in calls[c].found
  /\ calls' = IF m \in bodies THEN Got(c, m)
              ELSE IF placed[calls[c].by][m] = 0 THEN Fails(c, m)
              ELSE [calls EXCEPT ![c].at = "remote", ![c].id = m, ![c].slab = placed[calls[c].by][m]]
  /\ UNCHANGED <<device, searching, placed, network, story>>

(***************************************************************************)
(* fetchRemote: the object is read, by a cached location or by asking the  *)
(* indexer for it (Locations).  One that was deleted may still be served   *)
(* through the cache; the indexer may not be reached.                      *)
(***************************************************************************)
FetchRemote(c) ==
  /\ calls[c].at = "remote"
  /\ \/ Goes(c, "keep")
     \/ <<calls[c].id, calls[c].slab>> \notin objects /\ calls' = Fails(c, calls[c].id)
     \/ Goes(c, "unreachable")
  /\ UNCHANGED <<device, searching, placed, network, story>>

(* The body read from the network is kept on the device. *)
KeepBody(c) ==
  /\ calls[c].at = "keep"
  /\ bodies' = bodies \cup {calls[c].id}
  /\ calls' = Got(c, calls[c].id)
  /\ UNCHANGED <<described, replaces, vectors, queued, searching, placed, network, story>>

(* The call has answered, failed or been refused, and returns. *)
Over(c) == \/ calls[c].at \in {"failed", "refused", "unreachable"}
           \/ calls[c].at = "fetch" /\ calls[c].found = {}
Return(c) ==
  /\ Over(c)
  /\ calls' = [calls EXCEPT ![c] = Idle]
  /\ UNCHANGED <<device, searching, placed, network, story>>

-----------------------------------------------------------------------------
(* The rest of the system                                                   *)

(* Mutant: the catalog names the slab before it is written, and it is not. *)
FlushUnwritten(p) ==
  /\ queued # {} /\ slabs < MaxSlab
  /\ filed' = [m \in Memory |-> IF m \in queued THEN slabs + 1 ELSE filed[m]]
  /\ placed' = [placed EXCEPT ![p] = [m \in Memory |-> IF m \in queued THEN slabs + 1 ELSE @[m]]]
  /\ LeftBehind(p, queued)
  /\ UNCHANGED <<device, searching, objects, slabs, calls,
                 minted, known, gone, goneTo, cut, forgets, cuts>>

(* A flush by p: one slab, and the catalog names it. *)
Flush(p) ==
  /\ queued # {} /\ slabs < MaxSlab
  /\ slabs' = slabs + 1
  /\ objects' = objects \cup (queued \X {slabs + 1})
  /\ filed' = [m \in Memory |-> IF m \in queued THEN slabs + 1 ELSE filed[m]]
  /\ placed' = [placed EXCEPT ![p] = [m \in Memory |-> IF m \in queued THEN slabs + 1 ELSE @[m]]]
  /\ LeftBehind(p, queued)
  /\ queued' = {}
  /\ UNCHANGED <<bodies, described, replaces, vectors, searching, calls,
                 minted, known, gone, goneTo, cut, forgets, cuts>>

(* Mutant: the new place reaches the catalog's files and not this process's copy. *)
RepackOnDisk(p, m) ==
  LET s == placed[p][m] IN
  /\ <<m, s>> \in objects /\ slabs < MaxSlab
  /\ \A c \in Call : calls[c].by # p
  /\ slabs' = slabs + 1
  /\ objects' = (objects \ {<<m, s>>}) \cup {<<m, slabs + 1>>}
  /\ filed' = [filed EXCEPT ![m] = slabs + 1]
  /\ LeftBehind(p, {m})
  /\ UNCHANGED <<device, searching, placed, calls, minted, known, gone, goneTo, cut, forgets, cuts>>

(***************************************************************************)
(* Repack by p, a command that makes no other call, moves m to a new slab  *)
(* and deletes the object it read.                                         *)
(***************************************************************************)
Repack(p, m) ==
  LET s == placed[p][m] IN
  /\ <<m, s>> \in objects /\ slabs < MaxSlab
  /\ \A c \in Call : calls[c].by # p
  /\ slabs' = slabs + 1
  /\ objects' = (objects \ {<<m, s>>}) \cup {<<m, slabs + 1>>}
  /\ filed' = [filed EXCEPT ![m] = slabs + 1]
  /\ placed' = [placed EXCEPT ![p][m] = slabs + 1]
  /\ LeftBehind(p, {m})
  /\ UNCHANGED <<device, searching, calls, minted, known, gone, goneTo, cut, forgets, cuts>>

(* A store refuses a step of a write, and the call returns with the error. *)
StoreFails(c) ==
  /\ calls[c].at \in {"vector", "row", "queue", "unfile", "unbody", "unvector", "unrow"}
  /\ cuts < MaxCut /\ cuts' = cuts + 1
  /\ cut' = cut \cup ({calls[c].id} \cap Forgetting)
  /\ calls' = [calls EXCEPT ![c] = Idle]
  /\ UNCHANGED <<device, searching, placed, network, minted, known, behind, gone, goneTo, forgets>>

(* A process ends, whatever it was doing, and the vault is opened again. *)
Reopen(p) ==
  LET ended == {c \in Call : calls[c].by = p} IN
  /\ cuts < MaxCut /\ cuts' = cuts + 1
  /\ cut' = cut \cup ({calls[c].id : c \in ended} \cap Forgetting)
  /\ calls' = [c \in Call |-> IF c \in ended THEN Idle ELSE calls[c]]
  /\ searching' = [searching EXCEPT ![p] = vectors]
  /\ placed' = [placed EXCEPT ![p] = filed]
  /\ behind' = [behind EXCEPT ![p] = {}]
  /\ known' = [known EXCEPT ![p] = UNION {known[q] : q \in Host}]
  /\ goneTo' = [goneTo EXCEPT ![p] = gone]
  /\ UNCHANGED <<device, network, minted, gone, forgets>>

ReadsNext ==
  \/ \E c \in Call :
       \/ PutVector(c) \/ PutRankingMeta(c) \/ Enqueue(c)
       \/ Unfile(c) \/ ForgetBody(c) \/ RemoveVector(c) \/ ForgetRankingMeta(c)
       \/ SearchLexical(c) \/ Describe(c) \/ FetchRemote(c)
       \/ KeepBody(c) \/ Return(c) \/ StoreFails(c)
       \/ \E m \in Memory : Fetch(c, m)
       \/ \E p \in Host, m \in Memory : \/ StartForget(c, p, m) \/ StartOpen(c, p, m)
                                        \/ \E old \in Memory \cup {NoMemory} : StartRemember(c, p, m, old)
       \/ \E p \in Host, scoped \in BOOLEAN : StartRecall(c, p, scoped)
  \/ \E p \in Host : Flush(p) \/ Reopen(p) \/ \E m \in Memory : Repack(p, m)

ReadsSpec == ReadsInit /\ [][ReadsNext]_readsVars

-----------------------------------------------------------------------------

(***************************************************************************)
(* What is recorded of memories names memories: a queued or vectored one   *)
(* was given its id by Remember, and no catalog places one in a slab that  *)
(* was never written.                                                      *)
(***************************************************************************)
ReadsTypeOK ==
  /\ bodies \cup described \cup vectors \cup queued \subseteq minted
  /\ \A m \in Memory : replaces[m] \in minted \cup {NoMemory} /\ filed[m] \in 0..slabs
  /\ \A p \in Host, m \in Memory : placed[p][m] \in 0..slabs
  /\ slabs \in 0..MaxSlab /\ cuts \in 0..MaxCut
  /\ objects \subseteq minted \X (1..slabs)

(***************************************************************************)
(* A recall that answers does not answer with a memory that was replaced   *)
(* before it began, by any process, nor with one whose forget this process *)
(* could know of; with a scope, with none that anybody had forgotten.      *)
(***************************************************************************)
NeverAnswered == \A c \in Call : calls[c].got \cap calls[c].never = {}

(***************************************************************************)
(* A recall that answers has every memory that this process was told is    *)
(* stored and that nobody has replaced or begun to forget since, however   *)
(* its passes interleaved with the writes of other calls.                  *)
(***************************************************************************)
AllAnswered ==
  \A c \in Call : calls[c].at = "fetch" /\ calls[c].found = {} => calls[c].must \subseteq calls[c].got

(***************************************************************************)
(* A read that fails, other than for want of the indexer, fails on a       *)
(* memory being forgotten, or one that another process moved or forgot     *)
(* since this one opened the vault: never because of what this process     *)
(* itself wrote, flushed or moved.                                         *)
(***************************************************************************)
FailsForCause ==
  \A c \in Call : calls[c].at = "failed" =>
    calls[c].id \in calls[c].cause \cup behind[calls[c].by] \cup cut

(***************************************************************************)
(* A forget that was cut short can be made again: the memory it left in    *)
(* some of the stores is not refused.                                      *)
(***************************************************************************)
ForgetResumes == \A c \in Call : calls[c].at = "refused" => calls[c].id \notin cut

(***************************************************************************)
(* A recall answers with all it should and with nothing it should not.     *)
(***************************************************************************)
AnswersAreRight == NeverAnswered /\ AllAnswered
=============================================================================
