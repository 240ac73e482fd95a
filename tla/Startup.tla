------------------------------- MODULE Startup -------------------------------
(***************************************************************************)
(* How a process opens a vault (vault/vault.go), several doing so at once: *)
(* every host launches a server of its own, and a command may be run       *)
(* beside them.  What they share is the device's database, whose schema    *)
(* each brings up to the version its build knows (local/schema.go), the    *)
(* check value of the recovery phrase, and the directory the embedding     *)
(* model is fetched into (embed/fetch.go).                                 *)
(*                                                                         *)
(* A migration step runs in one IMMEDIATE transaction, so it is one action *)
(* and a crash inside it is a crash before it.  A fetch is cut into the    *)
(* steps another process can come between: looking for the model, waiting  *)
(* for the lock, truncating the staged file, filling it, renaming it.      *)
(***************************************************************************)
EXTENDS Integers

CONSTANTS Opener,       \* the processes that open the vault
          KnownSchema,  \* KnownSchema[p]: the newest schema p's build knows
          Phrases,      \* what a user may type as the recovery phrase
          NoPhrase,     \* a database that has no check value yet
          Nobody,       \* the fetch lock, held by no one
          Files,        \* the number of files the model has
          Attempts,     \* fetchAttempts: tries of one file
          MaxStart      \* bound: processes started

ASSUME StartupAssumption ==
    /\ KnownSchema \in [Opener -> Nat \ {0}]
    /\ NoPhrase \notin Phrases
    /\ Nobody \notin Opener
    /\ Files \in Nat \ {0}
    /\ Attempts \in Nat \ {0}
    /\ MaxStart \in Nat

VARIABLES version,      \* PRAGMA user_version of the database
          applied,      \* applied[s]: how often migration s has run on it
          columns,      \* "none": no tables; "old": from before versions; "new"
          phraseCheck,  \* the check value stored with the database
          onDisk,       \* onDisk[f]: what is under the name of model file f
          staged,       \* staged[f]: what is staged for it, under a name of its own
          fetchLock,    \* who holds fetch.lock
          late,         \* processes whose given-up wait is still in the queue
          opening,      \* opening[p]: how far p's vault.Open has come
          started       \* processes started, for the bound

database == <<version, applied, columns, phraseCheck>>
model == <<onDisk, staged, fetchLock, late>>
startVars == <<version, applied, columns, phraseCheck, onDisk, staged, fetchLock, late,
               opening, started>>

Schema == UNION {1..KnownSchema[p] : p \in Opener}
File == 1..Files

Stages == {"down", "schema", "migrate", "phrase", "put check", "model", "wait", "file",
           "transfer", "rename", "load", "connect", "packer", "open", "unopened"}

Closed == [at |-> "down", phrase |-> NoPhrase, step |-> 0, file |-> 1, attempt |-> 1,
           online |-> FALSE]

Stage(p) == opening[p].at
Moves(p, stage) == opening' = [opening EXCEPT ![p].at = stage]

StartupTypeOK ==
    /\ version \in Nat
    /\ applied \in [Schema -> Nat]
    /\ columns \in {"none", "old", "new"}
    /\ phraseCheck \in Phrases \cup {NoPhrase}
    /\ onDisk \in [File -> {"absent", "short", "whole", "other"}]
    /\ staged \in [File -> {"absent", "partial", "whole", "other"}]
    /\ fetchLock \in Opener \cup {Nobody}
    /\ late \subseteq Opener
    /\ opening \in [Opener -> [at : Stages, phrase : Phrases \cup {NoPhrase}, step : Nat,
                               file : 1..(Files + 1), attempt : 1..Attempts,
                               online : BOOLEAN]]
    /\ started \in 0..MaxStart

(***************************************************************************)
(* The directory may hold a model file whole, or cut short by a copy that  *)
(* was interrupted; the database may be new, from a build that kept no     *)
(* version, or at any version with its steps applied.                      *)
(***************************************************************************)
StartInit ==
    /\ version \in {0} \cup Schema
    /\ applied = [s \in Schema |-> IF s <= version THEN 1 ELSE 0]
    /\ columns \in IF version = 0 THEN {"none", "old"} ELSE {"new"}
    /\ phraseCheck \in IF columns = "none" THEN {NoPhrase} ELSE Phrases
    /\ onDisk \in [File -> {"absent", "short", "whole"}]
    /\ staged = [f \in File |-> "absent"]
    /\ fetchLock = Nobody
    /\ late = {}
    /\ opening = [p \in Opener |-> Closed]
    /\ started = 0

(***************************************************************************)
(* A process begins, with the phrase it was given.                         *)
(***************************************************************************)
Begins(p) ==
    /\ Stage(p) = "down"
    /\ started < MaxStart
    /\ \E typed \in Phrases :
         opening' = [opening EXCEPT ![p] = [Closed EXCEPT !.at = "schema", !.phrase = typed]]
    /\ started' = started + 1
    /\ UNCHANGED <<database, model>>

(***************************************************************************)
(* An open that fails closes what it had opened.  A server carries on      *)
(* without a vault and says why to every call; it does not try again.      *)
(***************************************************************************)
Unopened(p) ==
    /\ Moves(p, "unopened")
    /\ fetchLock' = IF fetchLock = p THEN Nobody ELSE fetchLock

(***************************************************************************)
(* migrate: the version is read first, outside any transaction, and a      *)
(* database newer than this build is refused.                              *)
(***************************************************************************)
ReadVersion(p) ==
    /\ Stage(p) = "schema"
    /\ IF version > KnownSchema[p]
       THEN Unopened(p) /\ UNCHANGED <<onDisk, staged, late>>
       ELSE /\ opening' = [opening EXCEPT ![p].at = "migrate", ![p].step = version + 1]
            /\ UNCHANGED model
    /\ UNCHANGED <<database, started>>

(***************************************************************************)
(* The step as a build without the second look would run it.               *)
(***************************************************************************)
StepsAsRead(step) == TRUE

(***************************************************************************)
(* applyUp reads the version again under the write lock: another process   *)
(* may have run this step while p was reaching its turn.                   *)
(***************************************************************************)
StillOwed(step) == step > version

(***************************************************************************)
(* The baseline creates the tables with their columns, or adds the columns *)
(* to the tables an earlier build left.                                    *)
(***************************************************************************)
ColumnsAfter(step) == IF step = 1 THEN "new" ELSE columns

ApplyUp(p) ==
    LET step == opening[p].step IN
    /\ Stage(p) = "migrate"
    /\ step <= KnownSchema[p]
    /\ opening' = [opening EXCEPT ![p].step = step + 1]
    /\ IF StillOwed(step)
       THEN /\ version' = step
            /\ applied' = [applied EXCEPT ![step] = @ + 1]
            /\ columns' = ColumnsAfter(step)
            /\ UNCHANGED phraseCheck
       ELSE UNCHANGED database
    /\ UNCHANGED <<model, started>>

Migrated(p) ==
    /\ Stage(p) = "migrate"
    /\ opening[p].step > KnownSchema[p]
    /\ Moves(p, "phrase")
    /\ UNCHANGED <<database, model, started>>

(***************************************************************************)
(* checkPhrase: the stored value is compared, and a database without one   *)
(* takes this process's.  The read and the write are two statements.       *)
(***************************************************************************)
ReadCheck(p) ==
    /\ Stage(p) = "phrase"
    /\ IF phraseCheck \in {NoPhrase, opening[p].phrase}
       THEN /\ Moves(p, IF phraseCheck = NoPhrase THEN "put check" ELSE "model")
            /\ UNCHANGED model
       ELSE Unopened(p) /\ UNCHANGED <<onDisk, staged, late>>
    /\ UNCHANGED <<database, started>>

PutCheck(p) ==
    /\ Stage(p) = "put check"
    /\ phraseCheck' = opening[p].phrase
    /\ Moves(p, "model")
    /\ UNCHANGED <<version, applied, columns, model, started>>

(***************************************************************************)
(* A file is held when it is under its name at its pinned size; a file cut *)
(* short is not.  Its bytes are not read again.                            *)
(***************************************************************************)
Holds(f) == onDisk[f] \in {"whole", "other"}
Present == \A f \in File : Holds(f)

(***************************************************************************)
(* A model that is all there is not fetched; otherwise the lock is asked   *)
(* for, and the process waits.                                             *)
(***************************************************************************)
FetchModel(p) ==
    /\ Stage(p) = "model"
    /\ Moves(p, IF Present THEN "load" ELSE "wait")
    /\ UNCHANGED <<database, model, started>>

(***************************************************************************)
(* Every process granted the lock at once, as with no lock at all.         *)
(***************************************************************************)
NotAlone(p) ==
    /\ Stage(p) = "wait"
    /\ Moves(p, "file")
    /\ UNCHANGED <<database, model, started>>

Alone(p) ==
    /\ Stage(p) = "wait"
    /\ fetchLock = Nobody
    /\ fetchLock' = p
    /\ Moves(p, "file")
    /\ UNCHANGED <<database, onDisk, staged, late, started>>

(***************************************************************************)
(* The budget runs out on a waiter.  It stops waiting at once, but its     *)
(* request for the lock cannot be withdrawn.                               *)
(***************************************************************************)
GiveUp(p) ==
    /\ Stage(p) = "wait"
    /\ late' = late \cup {p}
    /\ Moves(p, "unopened")
    /\ UNCHANGED <<database, onDisk, staged, fetchLock, started>>

GrantedLate(p) ==
    /\ p \in late
    /\ fetchLock = Nobody
    /\ fetchLock' = p
    /\ UNCHANGED <<database, onDisk, staged, late, opening, started>>

(***************************************************************************)
(* A late grant whose request no one is left to answer.                    *)
(***************************************************************************)
LeftHolding(p) ==
    /\ p \in late
    /\ fetchLock = p
    /\ late' = late \ {p}
    /\ UNCHANGED <<database, onDisk, staged, fetchLock, opening, started>>

GivenBack(p) ==
    /\ p \in late
    /\ fetchLock = p
    /\ fetchLock' = Nobody
    /\ late' = late \ {p}
    /\ UNCHANGED <<database, onDisk, staged, opening, started>>

(***************************************************************************)
(* The files in order, those already held passed over; after the last the  *)
(* lock is let go.                                                         *)
(***************************************************************************)
NextFile(p) ==
    LET f == opening[p].file IN
    /\ Stage(p) = "file"
    /\ IF f > Files
       THEN /\ Moves(p, "load")
            /\ fetchLock' = IF fetchLock = p THEN Nobody ELSE fetchLock
       ELSE /\ Holds(f)
            /\ opening' = [opening EXCEPT ![p].file = f + 1]
            /\ UNCHANGED fetchLock
    /\ UNCHANGED <<database, onDisk, staged, late, started>>

(***************************************************************************)
(* download: the hub answers, and the staged file is created or truncated. *)
(***************************************************************************)
Download(p) ==
    LET f == opening[p].file IN
    /\ Stage(p) = "file"
    /\ f <= Files
    /\ ~Holds(f)
    /\ staged' = [staged EXCEPT ![f] = "partial"]
    /\ Moves(p, "transfer")
    /\ UNCHANGED <<database, onDisk, fetchLock, late, started>>

(***************************************************************************)
(* What was received is the pinned file, by its size and its digest.  The  *)
(* digest is of the bytes as they arrived, not of the file read back.      *)
(***************************************************************************)
Received(p) ==
    /\ Stage(p) = "transfer"
    /\ staged' = [staged EXCEPT ![opening[p].file] = "whole"]
    /\ Moves(p, "rename")
    /\ UNCHANGED <<database, onDisk, fetchLock, late, started>>

(***************************************************************************)
(* A transfer that broke, or never began, is asked for again, up to        *)
(* Attempts times in all; a mutant never stops asking.                     *)
(***************************************************************************)
AskingHub(p) ==
    \/ Stage(p) = "transfer"
    \/ Stage(p) = "file" /\ opening[p].file <= Files /\ ~Holds(opening[p].file)

AskedForEver(p) ==
    /\ AskingHub(p)
    /\ opening' = [opening EXCEPT ![p].at = "file", ![p].attempt = @ + 1]
    /\ UNCHANGED <<database, model, started>>

BrokenTransfer(p) ==
    /\ AskingHub(p)
    /\ opening[p].attempt < Attempts
    /\ opening' = [opening EXCEPT ![p].at = "file", ![p].attempt = @ + 1]
    /\ UNCHANGED <<database, model, started>>

(***************************************************************************)
(* The last attempt, a file that is not the pinned one, a cancelled fetch  *)
(* and a failed write end the fetch and remove what was staged.            *)
(***************************************************************************)
HubFails(p) ==
    LET f == opening[p].file IN
    /\ AskingHub(p) \/ Stage(p) = "rename"
    /\ staged' = [staged EXCEPT ![f] = "absent"]
    /\ Unopened(p)
    /\ UNCHANGED <<database, onDisk, late, started>>

(***************************************************************************)
(* The staged file, whatever it now holds, takes the name the model is     *)
(* loaded by.                                                              *)
(***************************************************************************)
Rename(p) ==
    LET f == opening[p].file IN
    /\ Stage(p) = "rename"
    /\ staged[f] # "absent"
    /\ onDisk' = [onDisk EXCEPT ![f] = IF staged[f] = "partial" THEN "short" ELSE staged[f]]
    /\ staged' = [staged EXCEPT ![f] = "absent"]
    /\ opening' = [opening EXCEPT ![p].at = "file", ![p].file = f + 1, ![p].attempt = 1]
    /\ UNCHANGED <<database, fetchLock, late, started>>

(***************************************************************************)
(* The model is loaded and the vectors read back.                          *)
(***************************************************************************)
OpenIndex(p) ==
    /\ Stage(p) = "load"
    /\ Moves(p, "connect")
    /\ UNCHANGED <<database, model, started>>

(***************************************************************************)
(* An indexer that cannot be reached leaves the vault open and offline; a  *)
(* refusal does not (OpenFails).                                               *)
(***************************************************************************)
Connect(p) ==
    /\ Stage(p) = "connect"
    /\ \E reached \in BOOLEAN :
         opening' = [opening EXCEPT ![p].at = "packer", ![p].online = reached]
    /\ UNCHANGED <<database, model, started>>

OpenPacker(p) ==
    /\ Stage(p) = "packer"
    /\ Moves(p, "open")
    /\ UNCHANGED <<database, model, started>>

(***************************************************************************)
(* Any other step of an open that fails: the disk, the database, a catalog *)
(* that does not unseal, a refused connection.                             *)
(***************************************************************************)
OpenFails(p) ==
    /\ Stage(p) \in {"schema", "migrate", "phrase", "put check", "model", "load",
                     "connect", "packer"}
    /\ Unopened(p)
    /\ UNCHANGED <<database, onDisk, staged, late, started>>

(***************************************************************************)
(* A process ends: closed by its host, or killed wherever it is.  The lock *)
(* and its place in the queue go with it; a staged file stays.             *)
(***************************************************************************)
Ends(p) ==
    /\ Stage(p) # "down"
    /\ opening' = [opening EXCEPT ![p] = Closed]
    /\ fetchLock' = IF fetchLock = p THEN Nobody ELSE fetchLock
    /\ late' = late \ {p}
    /\ UNCHANGED <<database, onDisk, staged, started>>

StartNext ==
    \E p \in Opener :
      \/ Begins(p) \/ ReadVersion(p) \/ ApplyUp(p) \/ Migrated(p) \/ ReadCheck(p) \/ PutCheck(p)
      \/ FetchModel(p) \/ Alone(p) \/ GiveUp(p) \/ GrantedLate(p) \/ GivenBack(p)
      \/ NextFile(p) \/ Download(p) \/ Received(p) \/ BrokenTransfer(p) \/ HubFails(p)
      \/ Rename(p) \/ OpenIndex(p) \/ Connect(p) \/ OpenPacker(p) \/ OpenFails(p) \/ Ends(p)

StartSpec == StartInit /\ [][StartNext]_startVars

-----------------------------------------------------------------------------

(***************************************************************************)
(* The number in the database's header says which steps have run: every    *)
(* step up to it once and no later one, whichever builds open the vault    *)
(* together and wherever one of them dies; and from the baseline on the    *)
(* tables have the columns every later statement names.                    *)
(***************************************************************************)
SchemaIsItsVersion ==
    /\ \A s \in Schema : applied[s] = IF s <= version THEN 1 ELSE 0
    /\ version >= 1 => columns = "new"

(***************************************************************************)
(* A vault that embeds has the whole pinned model: whoever has gone past   *)
(* the fetch, itself or behind another process, finds every file whole     *)
(* under its name, now and for as long as it is open.                      *)
(***************************************************************************)
LoadsWholeModel ==
    \A p \in Opener : Stage(p) \in {"load", "connect", "packer", "open"} =>
      \A f \in File : onDisk[f] = "whole"

(***************************************************************************)
(* The fetch lock is never left with a process that has stopped fetching:  *)
(* its holder is fetching, or is giving back a grant that came after it    *)
(* had given up.  A server that could not open its vault lives for as long *)
(* as its host does, so a lock it kept would keep every other process out. *)
(***************************************************************************)
LockIsWorked ==
    fetchLock # Nobody =>
      Stage(fetchLock) \in {"file", "transfer", "rename"} \/ fetchLock \in late

(***************************************************************************)
(* However many processes fetch the model, give up waiting or die: nobody  *)
(* loads a part of it, and nobody is left holding the fetch lock.          *)
(***************************************************************************)
FetchIsSound == LoadsWholeModel /\ LockIsWorked
=============================================================================
