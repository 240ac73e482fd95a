# sennit: a TLA+ model of the vault

sennit keeps an AI agent's memories and conversations in a vault. A record is
first kept on the device, then packed with others into a *slab*, sealed, and
pinned on the Sia network through an indexer; a catalog on the device remembers
where each record landed. Every command of the CLI and every agent's MCP server
is a process of its own over the same vault directory, and several devices may
share one account. These modules model the parts of the vault that keep state
and move it between those places, translated from the Go source.

## 1. The system

### Components, their state and operations

| component (source) | state | operations | what makes it hard |
|---|---|---|---|
| flush queue and packer (`store/packer`, `local/queue.go`) | queue rows with a claim and its time, a per-process count of what is queued | Add, due test, flush by call, timer or cap, claim, release, drop, withdraw | processes share the rows and not the count; claims lapse and flushes are taken over |
| batch store (`store/store.go`, `sia/pin.go`, `sia/upload.go`) | pinned slabs, objects | upload, ledger callback, pin slab, pin objects | billed storage after a failure between two calls |
| slab ledger (`local/slabs.go`) | slabs with an origin | track, adopt, forget | decides what a sweep may release |
| catalog (`manifest`) | log, snapshot, a copy per process | Load, Append, Remove, Compact | torn lines, compaction cut short, stale copies |
| vector index (`index`, `vault/vectors.go`) | delta, base, in-memory index | Append, Remove, fold, settle, Load | torn lines, folding under other processes |
| reclamation (`store/reclaim`, `vault/reclaim.go`) | no state of its own | Plan/Check/Sweep, ReleaseOrphans, DropUnreadable, Repack, TakeOwnership, Forget | deletes what several processes and devices point at |
| conversations (`vault/session.go`, `local/sessions.go`) | versioned heads, chunks, edges | SaveSession, LinkMemory, ForgetSession | read, change, write back; multi-step failure |
| hydration and recovery (`vault/hydrate.go`, `recover.go`, `rebuild.go`) | no state of its own | Hydrate at three depths, Recover, RebuildSessions | cut short and run again; sources change meanwhile |
| record bodies and fetching (`vault/fetch.go`, `local/body.go`, `local/slabmeta.go`, `sia/location.go`) | bodies, cached locations in two halves, the known hosts | fetch through three tiers, keep what was read | caches go stale while the network moves sectors; a forget races a fetch |
| recall (`recall`, the recall tool of `mcp/handlers.go`) | none | search, fuse, filter, rank, page | reads four stores one after another; pages cut one ranking again |
| device database (`local`) | SQLite tables, a schema version | migrate, list, rank, describe | builds of two versions over one file; a listing paged while rows change |
| records, sealing, keys (`record`, `seal`, `keys`) | none | encode, split, encrypt, derive | bytes; the splitting of turns decides what a resend may do |
| embedding (`embed`) | model files | fetch, load, embed | several processes fetch into one directory |
| Sia client (`sia`) | an account | list, read, pin, unpin, delete | remote |
| MCP server, CLI (`mcp`, `cmd`) | none | decode, call the vault, answer, resume | decide which operations run together and what a caller is told |

How they interact. `Remember` writes body, ranking row and vector, then adds
the record to the packer. A flush claims the due rows, hands them to the batch
store, which uploads, calls back into the vault to write the slab ledger, pins
the slab and then its objects; the packer then calls back to catalogue each
record and drops the rows. `Forget` withdraws the row, tombstones the entry and
removes the local copies. `SaveSession` does the same for chunks, then stores a
head that names them. Reclamation reads the ledger, the process's copy of the
catalog and the account's objects, and deletes. Hydration writes the catalog,
the ledger (as adopted), bodies, ranking rows, vectors and heads from the
account's objects. Shared between processes: the SQLite database, the catalog's
and the index's files, each under a file lock. Shared between devices: the
account only. Private to a process: its copy of the catalog, its index, its count.

### What makes each part correct

* write path: a record that was queued is never lost; storage that is billed is
  in the ledger; a record is not written by two flushes of live claims; a
  forgotten record does not come back; queued records leave the device.
* catalog: an acknowledged change survives; replay only moves forward.
* index: vectors read back as last written; nothing is searched that a restart loses;
  no unfinished line is taken for a whole one.
* reclamation: no catalogued record is lost; nothing is billed and unfindable;
  what can be released is; nothing is left unopenable.
* conversations: no turn is erased by a concurrent writer or left behind by a
  refused save or a forget; a head names only what is there.
* restoring: everything listed comes back, in order and searchable, and a head the
  device has is not replaced.
* opening: a schema is what its version says; nobody embeds with half a model or
  keeps the others out of fetching it.
* reading: an answer has what this process knows to be stored, and nothing that
  was replaced or forgotten; a cache costs latency and never an answer, and a location
  that failed is not left to fail again.
* answering: pages are one order, nothing repeated or left out; what is said of a
  write (on the network), of a list (how many) and of an empty answer (why) is so.

The hazards behind these are listed with their lines in `PROJECT.json`.

## 2. The modules

All modules are plain TLA+. A handler is an action when the code holds a
transaction or a lock for the whole of it, and a chain of actions, one for each
store or remote call, when it does not: a failure, a death or another process
can come between any two. `op`, `flush`, `job`, `call`, `task` and `pc` are the
program counters of such chains. Variables under a *history* heading are not in
the program; properties read them, guards do not, except the bounds and the
freshness of names. An operator whose comment begins with "Mutant" (or that is
documented as one) is a broken variant of the definition after it, used to show
that a property depends on the code; no specification uses it.

| module | models | checked by | proved in |
|---|---|---|---|
| `Packer` | Remember, the queue, flushes with PutBatch and both callbacks, Forget, open, close, crash | `packer_takeover`, `host`, `packer_refresh_race` | `PackerProofs` |
| `Durability` | what a writer is told of a write, over `Packer`'s steps | `packer_takeover` | `PackerProofs` |
| `Catalog` | what a catalog promises: per record, a newer change takes effect, then is acknowledged | as a property of `ManifestLog` | |
| `ManifestLog` | the log, snapshot, lock and copies | `manifest_log` | `ManifestProofs` |
| `IndexStore` | delta, base, settle, fold, the loaded index | `device`, `index_tail` | `DeviceProofs` |
| `Recovery` | Hydrate, Recover, RebuildSessions, cut short and run again, beside a process that saves and forgets | `device`, `recovery_index` | `DeviceProofs` |
| `Startup` | opening a vault: migrations, the phrase check, fetching the model | `device` | `DeviceProofs` |
| `Reads` | Remember, Forget, recall and open, store by store, over several processes | `device` | `ReadsProofs` |
| `Reclaim` | devices, ledgers, sweeps, orphans, unreadable objects, repack, hydrate's adoption, ownership | `account`, `reclaim_stale`, `repack_strands` | `ReclaimProofs` |
| `Locations` | reading an object through cached location metadata | `host` | `ReadsProofs` |
| `Sessions` | heads by version, chunks, edges, saving, linking, forgetting beside flushes | `answers` | `SessionProofs` |
| `Transcript` | checking and splitting an append, pages of turns, spans | `answers` | `PagingProofs` |
| `Listing` | listing records page by page, and what an empty list says | `answers` | `AnswerProofs` |
| `Resume` | the resume prompt: words, list, choice, replay | `answers` | `AnswerProofs` |
| `Orders` | the order a query gives its rows in, for `Listing`, `Resume` and `Ranking` | `answers` | `AnswerProofs` |
| `Ranking` | fusing, filtering, ranking and paging a recall | `answers`, `recall_deep` | `PagingProofs` |

Which module composes which: `Durability` extends `Packer` and takes only its
steps. `ManifestLog` implements `Catalog`. `Reads` takes a flush, a repack and the
index files as one step each, which `Packer`, `Reclaim` and `IndexStore` take
apart; `Resume` takes a save as one step, which `Sessions` takes apart;
`Transcript` says what the chunks `Sessions` names hold; `Locations` is what
`Reads` calls `FetchRemote`.

The `MC*` modules extend these with symmetry sets and with the functions
(which process is on which device, which call which process serves) that a
`.cfg` cannot write. Modules that share no variable are checked in one run as
its *scenes*: `MCHost`, `MCDevice` and `MCAnswers` choose a scene in the
initial state, let that module's `Next` act, and leave the others where they
started; a few scenes, and `MCAccount` and `MCRecovery`, also bound two
things together (a comment says which). The reachable states of such a run are the disjoint union of what
separate runs would reach, so an invariant checked over them is checked for
each module alone; nothing is multiplied and nothing is hidden. `MCDurability` has two
scenes of one module, with different processes acting; `RememberFlush.cfg` plays
neither and lets all of them act.

### Packer

`queued` and `claim` are the queue table (a claim's age in ticks, or `Free`),
`ledger` the slab table, `catalog` and `mem[p]` the catalog's files and a
process's copy, `pending[p]` is `Packer.state.Records`, `uploaded`, `pinned`
and `objects` the account. A thread is a process's call or a host's
timer: nothing but the claims keeps their flushes apart. The chain of a
flush is `FlushClaim`, `Upload`, `RecordSlabs`, `PinSlabs`, `PinObject` per record,
`RecordFlush` per record, `DropQueued`, `Refresh`; a failure before the objects are
pinned goes to `Release`, one in the callback leaves the claim (`Abandon`), as in the
code. `Tick` ages claims; with `SlowFlush` a flush may outlive `ClaimTimeout`.

Abstracted: byte, count and age thresholds are the nondeterministic choice to
flush a non-empty `pending`; opening reads the catalog and the queue's size in
one step; the delete and the size read inside `Withdraw` and `DropQueued`
are one step each. Sealing, embedding and near-duplicate detection are left out.

### Catalog and ManifestLog

A file is the function from a record to its last line. A change is numbered
(`stamp`) so that "older" means something; the number stands for the line's place
and is not stored. `tail` is what follows the last newline of the log: nothing,
a part of a line, or a whole line without its newline, which replay accepts and
`Settle` has to complete. A process asks for the lock (`Append`, `Remove`,
`Compact`, `Open`), takes it, settles, and goes on step by step; any step may fail
and any process may die, which frees the lock. Compaction replays the files,
installs a snapshot by rename and empties the log, in two steps. When a compaction
is due is nondeterministic. One catalog operation runs at a time in a process
(its mutex). Loss of power (writes reordered by the disk) is not modelled.

`ImplementsCatalog` maps `entry` to what the files replay to and `promised` to what
was acknowledged.

### IndexStore

Operations are atomic under the store's lock, except that they may fail or die
after part of a line or between installing a base and emptying the delta.
`whole` and `torn` are the sizes of the delta's complete lines and of what
follows; `tail[p]` is `Store.tail`, the size at which this process left it. A
vector's line and a removal's have their own lengths. `misled` remembers that
`settle` has trusted the size it remembered over a delta that another process wrote
anew, up to that size, ending in an unfinished line (finding 7): `IndexIsWhole` is
promised until then. One entry is appended at a time.

### Reclaim

A process runs one operation. Upload and ledger entry are one step here
(`Packer` separates them); one batch is one slab. A dead process's claims lapse at
once. The indexer refuses an object over a slab that is not pinned. The
guards on orphans, unreadable objects and ownership are those of
`cmd/sennit/cmd_store.go`, the only caller. `owner` and `taken` remember
who uploaded a slab and which slabs a user took over on purpose.

### Sessions

A call is one `SaveSession`, `LinkMemory` or `ForgetSession`; sessions and chunks are
named after the call that made them. `head[s].version` is the version the store
compares. A chunk's body and queue row are one step; so are withdrawing, removing
and forgetting one chunk in `Discard`. A restarted process rereads the catalog.
Claim timeouts are `Packer`'s subject. `raced` remembers the conversations whose
forget began between the head and the return of a save of theirs, the one case
`NothingLeadsTo` excepts; `EdgeGoesToo` excepts nothing, and `EdgeRace.cfg` shows it
broken (finding 14).

### Recovery

The account changes under the restore (`FarWrite`, `FarDrop`). `Begin` reads the
whole feed, `ReadObject` one object, from hosts that may still have what the
indexer has dropped, `Store` one store at a time in the order of `hydrateFrame` or
`recoverFrame`. `Group` and, for each conversation, `LookUp`, `LookAgain`, `PutHead` and
the stores of its index are RebuildSessions; the last two looks at a head are two
reads, as in the code, and the write is against the version of the second.
`CutShort` stops a restore anywhere. All the while another process of the device
saves (`SaveChunk`, `SaveHead`, which is refused over a head that moved, `SaveStops`),
flushes and forgets; the restore has the copy of the catalog it opened with
(`known`), and `dropped` remembers what was taken away while it ran. Merged:
cataloguing a record and adopting its slab; the head a save writes and its index
rows (`Sessions` has them apart). Left out: foreign and damaged frames, memory
references inside messages, the invented fields of a head, and a second restore
beside the first.

### Durability

`call[p]` is the write a process serves: the records it wrote, those it still
owes (the `owed` map of `SaveSession`, the CID that `Remember` looks for) and the
batch of the flush it waits for. Every action is a step of `Packer`, or `Answer`.
A host's call answers by `owed`; a process in `Shell` is `sennit remember --flush`,
which answers by whether its flush wrote anything. `told` is what was said.

### Reads

A memory lives in the database (`bodies`, `described` with `replaces`, `queued`), in
the index files (`vectors`) and each process's loaded copy (`searching`), and in the
catalog's files (`filed`) and each process's copy (`placed`). Remember, Forget,
recall and open are chains over these stores in the code's order; a store may
refuse a step and a process may end and open the vault again. `must` and `never`
are what a recall has to answer with and may not, `cause` what may fail it.

### Startup

A chain per process: read the version, run each owed step in a transaction of its
own, compare the phrase's check value, look for the model, wait for the fetch lock
(or give up and be granted it late), truncate, fill and rename each file, load,
connect. Two builds with different schemas open one vault; any may die anywhere.

### Locations

One slab, its objects, the two cached halves, which are there until they expire, and
the set of hosts, which is *fresh* until it is `HostSetTTL` old. The network moves
sectors, and hosts join and leave. A read is a chain: the object's row, the slab's,
the known hosts, the sectors; what does not work is dropped, the object's row and
then the slab's, the indexer is asked, and the location is cached, the slab's row
and then the object's. The database may refuse each of these calls, and the list of
hosts may not be had: `refusals` bounds how often.

### Transcript, Listing, Resume, Ranking

Turns, rows, conversations and records are numbers ordered as ids are.
`Transcript` has `SplitMessages`, `validateAppend`, pages and spans as functions over
sequences. `Listing` has the keyset cursor with its one-more row, the filters and
what an empty page is told. `Resume` has `readResume` word by word, the list and
its second read, the state that comes back with a choice, and the reads of a
replay. `Ranking` has whole-number scores, `Scale` times the code's; only their
order matters. Wording is abstracted to which sentence is chosen.

## 3. The runs

| run | result | instance | what it shows |
|---|---|---|---|
| `packer_takeover` | pass | scenes `takeover`: 2 processes, 1 record, 3 slabs, 1 fault; `host`: 1 host, 2 records, 3 slabs, 1 fault (809 000 states) | `Durable`, `BilledIsLedgered`, `ToldIsStored`: with claims that lapse under a live flush and any failure or death, a queued record is in the queue or catalogued at an object the indexer serves, a pinned slab is in the ledger, and nobody is told more than is so |
| `host` | pass | scenes `flushes`, `locations` (99 000 states) | below |
| `packer_refresh_race` | violation | 1 host, 2 records, no fault | `Drained` under `TimerSpec`: a record is left on the device for ever (finding 1) |
| `manifest_log` | pass | 2 processes, 2 records, 3 changes, 1 fault | `CopyBehindFiles`, `AcknowledgedIsKept`, `ImplementsCatalog`, `Served` under `FairSpec` |
| `device` | pass | scenes `restore`, `index`, `startup`, `reads` (1.5 million states) | below |
| `index_tail` | violation | 2 processes, 1 vector, lines of 2 and 1, 1 death | `ReadsBack`: a vector is appended to an unfinished line (finding 7) |
| `account` | pass | either device alone: every command, 4 slabs, 2 faults; both: 2 slabs, 1 fault (1.5 million states) | `Kept`, `BilledIsFindable`, `Swept`, `StrandsNothing` |
| `answers` | pass | scenes `sessions`, `transcript`, `listing`, `resume`, `ranking` (700 000 states) | below |
| `recall_deep` | violation | the `ranking` scene | `NoneShownTwice`: a page past the pool shows a record again (finding 12) |
| `reclaim_stale` | violation | 2 processes on 1 device | `Kept`: a sweep with an old catalog deletes another process's flush (finding 3) |
| `repack_strands` | violation | 1 process | `NoneUnreadable`: repack leaves objects over a released slab (finding 2) |
| `recovery_index` | violation | 1 conversation, 1 memory, 2 restores | `Searchable`: rebuilt conversations never get a vector (finding 4) |

| scene | instance | properties |
|---|---|---|
| `flushes` | 1 host with its timer, 2 records, 3 slabs, 1 fault | `ClaimsHold` (`OneFlushPerRecord`, `ClaimProtects`), `ForgottenStaysForgotten`, and `Drained` under the fairness of `HandSpec` |
| `locations` | 3 hosts of which 2 hold the slab, 2 moves, 1 refusal or deletion; 2 reads of 1 object (`"one object"`) or 1 read at a time of 2 (`"one reader"`) | `DropsEnd` under `LocationsFairness`: once the network rests, no location fails again and again |
| `restore` | 1 conversation of 2 places written by 2 devices, 1 memory, 2 restores, one mishap | `InOrder`, `Restored`: beside a process that saves, flushes and forgets, a restore that ends has put everything back and the turns are in order |
| `index` | 2 processes, 2 vectors, lines of 2 and 1, 4 writes, 2 failures | `IndexIsWhole` (`ReadsBack`, `SearchedIsDurable`) |
| `startup` | an older and a newer build, 3 starts, 2 phrases, 2 files, 2 attempts | `SchemaIsItsVersion`, `FetchIsSound` (`LoadsWholeModel`, `LockIsWorked`) |
| `reads` | 2 processes, 2 memories, a write beside a read, 1 forget, and 2 slabs or 1 slab and 1 cut | `AnswersAreRight` (`NeverAnswered`, `AllAnswered`), `FailsForCause` |
| `sessions` | 2 calls of a host, 2 chunks a save, 2 faults | `HeadIsWhole`, `NothingStranded`, `EdgesHold` (`NothingLeadsTo`, `EdgesServed`), `TurnsKept` |
| `transcript` | 4 turns, one longer than a chunk, batches of 3, 5 turns in all | `TranscriptReadsBack` (`SplitIsTight`, `PagesAreTranscript`, `SpanIsStable`), `ResendIsRefused` |
| `listing` | 3 ids, 2 times, pages of 1 and 2, 2 changes | `ListedOnce` (`NoRowTwice`, `NoneSkipped`, `SomethingCurrent`), `NotCalledUntouched` |
| `resume` | 2 conversations, 1 memory, 3 words, 3 changes | `ResumesWhatWasMeant` (`NoWordDropped`, `ListCountsItself`, `ChoiceStands`, `ReplayAddsUp`), `ResumeFailsForCause` |
| `ranking` | 3 records, 2 queries, pool of 2, pages of 1 and 2, 5 statuses, 3 requests | `RankMeetsReference` (`FuseMeetsReference`, `FilterRemovesNothing`), `PagesTellRanking` (`PagesAgree`, `LastIsLast`) |

Eight configurations more show what a finding says, by a property that TLC reports
violated within seconds (`tlc -config X.cfg M`). They say of what is outside the
conditions of the runs above what those conditions keep apart:

| configuration | module | violated | finding |
|---|---|---|---|
| `ForgetAgain.cfg` | `MCReads` | `ForgetResumes` | 5: a forget cut short is refused when it is made again |
| `RememberFlush.cfg` | `MCDurability` | `ToldIsStored` | 6: a command claims what the host has not yet written |
| `RebuildRace.cfg` | `MCRecovery` | `HeadKept` | 8: a rebuild replaces the head that was just saved |
| `CacheFails.cfg` | `Locations` | `CacheCostsNoAnswer` | 9: a read fails for want of its cache |
| `StaleHosts.cfg` | `Locations` | `CheckedIsEnough` | 10: a location passes the check on a host that has left |
| `OrphansRace.cfg` | `MCReclaim` | `Kept` | 11: the slab of another device's running flush is released as an orphan |
| `RecallHint.cfg` | `MCAnswers` | `NotHeldIsSo` | 13: the page after an exactly full last one denies what was shown |
| `EdgeRace.cfg` | `MCAnswers` | `EdgeGoesToo` | 14: a parent is left naming a run that is gone |

A property a run names may be the conjunction of parts, in brackets here; each part
has a mutant of its own. `TypesOK` is the conjunction of the scenes' type invariants.

Why the bounds are enough. Each property is about one record, slab or head
against the others, so two of a kind give every pairwise interaction;
the `takeover` scene needs one record, because takeovers of different records do
not meet, and three slabs, so that it can be uploaded, taken over and retried;
the `host` scene of `packer_takeover` and the `flushes` scene have two, so that a call's flush can write another's record.
`manifest_log` needs three changes so that one record changes twice around a
compaction with another beside it. `account` has four slabs so that a repack
can move what an earlier repack and a retry wrote. `sessions` has two chunks a
save so that a flush can hold one and not the other, and two faults so that an
undo can fail; a run and its parent are two of the three sessions. `restore` has
two restores, of which the first may be cut short or shallower; in a behaviour one
thing goes wrong (a record is reclaimed elsewhere, a restore or a save is cut short,
or the other process forgets something while a restore runs), since each already
takes one record from what comes back; where the restore is run again, what went
wrong is a cut, and a device writes one chunk to a conversation. `reads` has two
memories so that one can replace the other, and one call of each kind, since a
recall's steps meet the steps of a write and not of another recall. `locations`
has as many shards as it takes to read, so that one lost host matters; the reads
that meet share an object's row and the slab's, and those one after another only
the slab's. What is refused or deleted is so in a network that rests: it only
shortens a read.
In `account` two devices at once have two slabs and one failure, which
comes after any look at the whole account, and a release of orphans does not meet
a batch whose objects are still being pinned: `OrphansRace.cfg` is that meeting.
`listing` has two times for three rows, so that rows share one, and a page that
ends between them. `ranking` has more records than the pool holds. In `packer_*`
`Timeout` is 0 ticks past the claim: only whether the claim has lapsed matters.

Deadlock is not checked where the system may really stop: all records
are flushed or the bound on slabs, calls or restores is used up and everything
is closed. `manifest_log` checks it.

### Fairness

* `Progress`: a call or flush that is under way goes on (goroutines are
  scheduled), time passes, and a host that went offline is opened again (users
  reconnect).
* `FlushedByHand`: somebody runs `sennit flush` infinitely often when there is
  something to claim. It is what the documentation offers for a host without a
  timer. `HandSpec` asks for this and `Progress`.
* `FlushedByTimer`: the timer of `StartFlushing` fires whenever it would have
  something to do; the ticker guarantees that much. `TimerSpec` is what
  `Policy.MaxAge` promises to rest on.
* `FairSpec` of `ManifestLog`: the file lock is granted to one that keeps waiting
  (strong: the lock is taken and released by others meanwhile), and a holder goes
  on, fails or dies.
* `LocationsFairness`: a read that has begun goes on, and the host set reaches its time
  to live. Rows need not expire and nobody need begin a read.

### Findings

1. `store/packer/packer.go:251`. `refresh` reads the queue's size, then takes the
   mutex and assigns it; a record added in between is not in the count, and the
   timer never flushes it. The promise is `MaxAge`'s, `store/packer/policy.go:19`.
2. `store/reclaim/repack.go:175`. Repack deletes the objects it moved and unpins
   the slabs, and the objects of forgotten records there are left unopenable,
   against the order `sia/pin.go:78` and `store/reclaim/reclaim.go:309` insist on.
3. `vault/reclaim.go:71`. The keep-set is the copy of the catalog from when the
   process opened the vault. `docs/storage.md:63` says reclamation refuses a
   keep-set that does not account for everything the vault holds, and
   `docs/status.md:11` that it returns "nothing that is still in use".
4. `vault/rebuild.go:398`. The second, deeper hydrate that
   `cmd/sennit/cmd_hydrate.go:138` suggests leaves rebuilt heads without vectors.
5. `vault/reclaim.go:262`. Forget removes the catalog entry first and refuses an id
   without one, so a forget cut short cannot be made again and the rest of the
   memory stays findable. The tool is annotated idempotent (`mcp/handlers.go:89`),
   and its handler says, of conversations, that "a retry after a dropped response
   must not look like a failure" (`mcp/handlers.go:1015`).
6. `cmd/sennit/cmd_remember.go:82`. `sennit remember --flush` takes a flush that wrote
   anything for one that wrote the memory; a host's flush may hold it and still
   fail. `cmd/sennit/cmd_remember.go:139` says only a memory on Sia may be said to be.
7. `index/tail.go:43`. A delta that another process folded and died appending to can
   be of the size this process remembers; `settle` does not look at it, and the next
   vector is written into the unfinished line and lost. `index/tail.go:24` says it is
   read as a record of its own.
8. `vault/rebuild.go:430`. A rebuild finds no head, another process saves the
   conversation, and the rebuild reads the head again only for the version it writes
   over. `vault/rebuild.go:72` says the real head must not be replaced.
9. `vault/fetch.go:121`. A payload that was downloaded is dropped when its location
   cannot be cached, and a read ends when a cached location cannot be read or deleted.
   `vault/fetch.go:129` says that missing the tier costs latency and nothing else.
10. `sia/location.go:160`. The known hosts are up to `HostSetTTL` old, so a location
    whose hosts have left passes the check that `sia/location.go:119` says refuses what
    the slab reader would crash on.
11. `store/reclaim/reclaim.go:404`. A slab another device has pinned and not yet put
    objects on is an orphan; it is released when they have come. Line 498 says that
    nothing readable is lost by construction.
12. `mcp/handlers.go:241`. Past `DefaultCandidates` the pool grows with the page, and a
    record the deeper pool reaches can outrank records already shown: one is shown
    again and another never. `mcp/handlers.go:189` says two pages of one unchanged vault agree.
13. `mcp/handlers.go:274`. The empty page after an exactly full last one says "The vault
    does not hold this", of a query whose answers were just shown and whose cursor
    was offered as "more results are available" (`mcp/render.go:140`).
14. `vault/session.go:172`. A run forgotten between its head and its parent's edge leaves
    the parent naming it. `vault/session.go:738` says such a parent cannot be loaded at all,
    and that the edge goes with the session.

### Seen while modelling, described and not run

These follow from the code and contradict no line that promises otherwise, or
need the same setting as a finding above:

* a host's timer does not see what another process queued (`store/packer/timer.go:55`),
  and a count that is wrong stays wrong while flushes find nothing to claim
  (`store/packer/packer.go:202`);
* Forget after another process died between cataloguing and dropping withdraws the
  row, finds no entry in its own copy, and leaves the entry (`vault/reclaim.go:262`);
* repack catalogues a record that another process forgot meanwhile
  (`vault/reclaim.go:136`);
* a conversation forgotten between its head and its vector keeps the vector, and a
  recall that finds it fails (`vault/session.go:168`). `NothingLeadsTo` shows that nothing
  but a save that is overtaken leaves an edge or a vector;
* a process that dies after queueing chunks and before storing the head leaves them
  to be flushed and put into a conversation by a rebuild (`vault/session.go:130`);
* taking back or forgetting a chunk another process flushed leaves its entry
  (`vault/session.go:227`, `731`);
* a repeated hydrate leaves turns another device appended unnamed, because it
  passes over heads it finds; an append after a rebuild over a hole is numbered by
  the head's length; a head whose ranking row or vector was cut off is not
  completed by a later hydrate;
* a fetch that stores a body while the record is forgotten leaves the body
  (`vault/fetch.go:96`);
* recall: a cursor carries the query alone, so another scope or filter on the next
  page skips silently;
* listing: after another process's `hydrate --depth catalog`, a process with an older
  catalog says the vault holds nothing to list; on an empty vault the filters are
  blamed;
* transcript: a resend that begins and ends inside earlier chunks is accepted, as
  `validateAppend` admits, and paging by turn id can then go back;
* resume: the head embedded beside the turns is read again and may be newer; a
  run forgotten while its parent is read fails the resume as "no record";
* startup: two processes that first open a vault with different phrases can both
  pass `checkPhrase` (`vault/vault.go:169`), which reads and then writes; an older build
  that read the version before a newer one migrated finds its own steps done and
  opens the newer schema, which `local/schema.go:64` refuses otherwise.

## 4. The proofs

The `*Proofs` modules hold theorems that TLAPS checks for every value of the
constants the named assumptions allow: any number of processes, records, slabs,
calls, faults, where the runs have two or three. Each rests on an inductive
invariant, which TLC checked on small instances first. Where a theorem has a
hypothesis, the property is false without it, and a run, a configuration or the list above says how.

### The write path and what a writer is told (`PackerProofs`)

* `TypeCorrect`: TypeOK is inductive; it includes that a batch past its upload has a slab.
* `BilledIsAlwaysLedgered`: by `LedgerInv`, which adds that a flush from "tracked" on
  has its slab in the ledger. Needed because pinning looks at the flush's own
  state and not at the ledger.
* `NothingPromisedIsLost` (`Durable`), by `DurableInv`. Durable fails at the one step
  that drops queue rows unless the flush knows all it catalogued is located
  (`AllBacked`: per program counter, its slab pinned, its objects there, the
  catalogued part of its batch located); this survives a Remember or Forget of
  another process only because a record in a batch was begun (`OnlyBegun`)
  and has one writer (`OneWriter`).
* `ClaimsAlwaysHold` (`ClaimsHold`), for `~SlowFlush`: with a flush that may outlive its
  claim, a takeover puts a record in two flushes by design. The induction adds
  that the row is still queued and its claim not stale.
* `ForgottenStays`, for one process and `~SlowFlush`: a late flush, or a second
  process's copy of the catalog, brings a forgotten record back.
* `ToldIsAlwaysStored` (`ToldIsStored`), for `Shell = {}`: a command with `--flush` is
  finding 6. From `AllBacked`, and `AnswerInv`: the flush a write waits for holds the
  batch the write thinks it does, or is past dropping it with all of it stored.

### The catalog (`ManifestProofs`)

* `LogTypeCorrect`, `CopyNeverAhead`, `PromisesKept`: by `FileInv`: lines are numbered up to
  `stamp`; the log is never behind the snapshot it is replayed over
  (`LogAhead`: what makes a compaction cut in half harmless); past `Settle`, under the
  lock, the log ends in a newline (`Settled`); and what each process knows at
  each step (`Aware`).
* `FilesImplementCatalog`: `Spec => Abstract!Spec`; every step maps to a step of
  `Catalog` or a stutter, from the same invariant.

### Giving storage back (`ReclaimProofs`)

All for `OnePerDevice` (no two processes on a device; finding 3 is what two do),
any number of devices. `Frame` says once what a step may change beside its own
operation, and a lemma for each group of actions that it changes no more.

* `BilledIsAlwaysFindable`, by `LedgerInv`: a ledger lists as pinned only what its
  device uploaded or took over (`Entitled`), and a slab is out of the ledger only
  when it was unpinned by the operation that then forgets it (`JobLedger`).
* `SweepAlwaysSweeps` (`Swept`), by `SweepInv`: the process's copy is the catalog's files
  (`Copy`), and what the sweep may release and has not is in its plan (`Sweeping`).
* `CataloguedIsAlwaysKept` (`Kept`), also for `OrphansAlone`: where orphans are released
  there is one device, since another device's slab looks orphaned between its pin
  and its first object. By `KeepInv`: what a batch has pinned is there when it is
  catalogued (`Lands`); an operation frees only slabs of its own that the catalog does
  not name, or objects over a slab that is gone for good (`Frees`); a repack has
  every catalogued record in its batch before it retires anything (`Moving`).
* `SweepsStrandNothing` (`StrandsNothing`), under the same hypotheses, from the last part of
  `KeepInv` (`Empties`: an object on a slab to be released is among those to be deleted).
* `OnlyRepackStrands` (`NoneUnreadable`), where also nobody repacks (finding 2) and no device
  takes over another's slabs: one that takes over a slab still being written to can release it
  under the writer, whose next object then has no slab. By `CleanInv`: only a sweep
  or a release of orphans has slabs to unpin, and their objects are gone first.

### Conversations (`SessionProofs`)

* `TurnsAlwaysKept`, an action property, by `HeadsInv`: what a call read of a head is
  what the head says if it is still at that version (`Agrees`), versions only grow,
  and a chunk belongs to one conversation (`Names`).
* `HeadIsAlwaysWhole`, by `ChunksInv`: flushes hold disjoint rows of the queue and drop only
  what is catalogued; a save about to write its head has all its chunks there.
* `NothingIsEverStranded`, for one process (a second passes over entries it has not
  read), by `StrandInv`: what there is of a chunk is tied to a head, a running save,
  a reported failure or a death.
* `NothingEverLeadsTo`, by `LeadInv`: what a forget has cleared stays clear until it deletes the head.
* `EdgesAlwaysHold` (`EdgesHold`), for no more calls than `reviseEdges` has attempts, by
  `ServeInv`: each refusal is the one write another call makes to that head, so the
  attempts of a call are at most one more than the rivals that wrote.
  With more calls at once the attempts can run out, as the code says they may.

### Reading, restoring, opening (`ReadsProofs`, `DeviceProofs`)

* `AnswersAreAlwaysRight`, `ReadsAlwaysFailForCause`, by `ReadsInv`: where each store's trace of
  a memory implies the others (`TracesHold`, `PlacesHold`), and for each stage of a recall,
  remember and forget what it has found and what excuses it.
* `LocationsTypeCorrect`: a cached slab row names a whole slab's hosts, through every
  move and refused call, by `LocationsInv`.
* `IndexIsAlwaysWhole`, by `IndexInv`: the size a process remembers is that of whole lines
  unless `settle` has been misled, so a part of a line is not mistaken for it. Any number
  of processes and any two lengths of lines.
* `OneUserIsNeverMisled`: the only process of an index is never misled, so that its files
  are whole without that condition: the size it remembers is always that of its whole lines.
* `TurnsAlwaysInOrder`, `RestoreAlwaysRestores`, by `RestoreInv`: a head without
  a hole numbers its chunks by their places, also where a save and a rebuild write
  over each other; what the walk has passed is put back or was dropped by the other
  process, and what it is storing is, or is in the list of steps left.
* `FirstRestoreIsSearchable` (`Searchable`), for `MaxRestore <= 1`: with a second restore it is
  finding 4. By `SearchInv`: while a device that held no head hydrates for the index, each
  head it holds has a vector or is the one whose vector is next.
* `FetchIsAlwaysSound`, by `FetchInv`: whoever fetches holds the lock, and what it has passed is
  whole. `SchemaIsAlwaysItsVersion`, by `SchemaInv`: a step owed is at most the next one.
* `ReadsTypeCorrect`, `RestoreTypeCorrect`, `IndexTypeCorrect`,
  `StartupTypeCorrect`, `SessionsTypeCorrect` and `ReclaimTypeCorrect` are the type invariants of
  those modules. That of the index holds where `settle` was misled too.

### Listing and resuming (`AnswerProofs`)

`ArrangedInOrder` says that a query's rows are a sequence with every row in one place,
in order, for any finite set of rows: rows have different numbers of rows ahead of
them and none has all, so each place is somebody's (the pigeonhole principle).

* `ListedAlwaysOnce` (`ListedOnce`), by `ListingInv`: what was listed is not past the cursor, nor
  would it be if it were forgotten and restored now (`SeenIsBehind`: a restored row is
  given the present time, which no cursor is past); what the filters selected all
  the while was listed or is past the cursor (`SteadyIsMet`); and replacement has no
  circles (`Chained`: of any records that were written one is replaced by none of them), so some
  row is current. A page is the first of what is to come and the rest is past its
  cursor (`PageIsFirst`), for pages of any size.
* `NeverCalledUntouched` (`NotCalledUntouched`), an action property: whoever restored the device
  wrote the ledger.
* `ResumesAlwaysWhatWasMeant` (`ResumesWhatWasMeant`) and `ResumeAlwaysFailsForCause`
  (`ResumeFailsForCause`), by `ResumeInv`: `ReadResumeHeeds` goes through the kinds of words a
  command can have; the head is never shorter than when it was read, since nobody
  saves a new conversation under an id the prompt holds (`Counted`); a run a head
  names is held until it is disowned (`Family`), so a run that is missing when it is
  read was forgotten after the head was (`Excused`). `Meanwhile` says what other
  calls may do to a prompt under way.
* `ListingTypeCorrect` and `ResumeTypeCorrect` are the type invariants.

### Pages (`PagingProofs`)

`Transcript` and `Ranking` compute with recursive functions and folds. What these give for
every input is proved by an induction over sets of numbers: a set of naturals that holds 0
and the successor of each of its members holds all (`SetInduction`, from the least number
outside a set), and a function defined by recursion exists (`RecursionExists`). A
lemma about a fold is such a set, that of the lengths it holds for.

* `ResendsAreRefused` (`ResendIsRefused`) and `TranscriptsReadBack` (`TranscriptReadsBack`), by
  `TranscriptInv`: the chunks hold the turns that were saved, in order, and none is empty
  (`ChunksHeld`); the first and last turn of each save are ends of chunks, however it was
  split (`BatchEndsAreEnds`), which is all `validateAppend` compares with; a reader's
  pages are the turns before the one it goes on from (`ReadingSound`); a memory was drawn from a
  run of turns (`DrawnFrom`), which appending leaves where it is. Nothing is assumed of
  sizes: a turn may be longer than a chunk.
* `RanksMeetReference` (`RankMeetsReference`): `FuseIsSound` has fuse hold each record of either
  pass once, with the parts of its score taken from its first place in each.
* `PagesAreRanking` (`PagesTellRanking`), by `RankingInv`: while the pages are cut from one set of
  candidates (`OnePool`: they stay within the default pool, or no pass finds more
  than it holds; finding 12 is what happens otherwise) there is one
  sequence of which the answer to every limit is the first part (`RankingOf`); the last page
  is a slice of it, the cursor goes on from that slice's end, and what was shown is all
  up to it. It assumes what the code has: no page is larger than the pool
  (both 100), and the vector pass names a record once, since adding a vector replaces the old one.
* `TranscriptTypeCorrect` and `RankingTypeCorrect` are the type invariants.

### What is only model-checked

Liveness (`Drained`, `Served`, `DropsEnd`), which needs fairness and ENABLED. The `TypesOK` of the runs with
scenes are conjunctions of which each conjunct is a theorem above.

## 5. The plan

Done: the write path and the catalog, what a writer is told, the index store,
reclamation, conversations, restoring, opening, reading with its caches, listing,
resuming, transcripts and ranking, all with their proofs. In order of
importance, what is left:

1. Two restores of one device at once, and a composition of `Reads` with `Sessions`
   for a recall that finds a conversation being forgotten.
2. The line readers, and progress and retry in the Sia client.

## 6. Not modelled

Cryptography and key derivation, encoding of records, the embedding itself and
nearest-neighbour scores, advice on near duplicates and tags, SQLite itself (each statement is atomic), the Sia
protocol and erasure coding, terminal output, the demo, build metadata and
generated tables. The Windows rename retry and the approval handshake are I/O.
`PROJECT.json` lists each with its files.

## Running

    tlc -workers 2 -config Answers.cfg MCAnswers
    tlapm PackerProofs.tla     # SessionProofs and PagingProofs take longest
