----------------------------- MODULE Durability -----------------------------
(***************************************************************************)
(* What a writer is told of where its records are: Remember                *)
(* (vault/remember.go) and SaveSession (vault/session.go), as the MCP      *)
(* server answers for them (mcp/handlers.go), and `sennit remember         *)
(* --flush` (cmd/sennit/cmd_remember.go).                                  *)
(*                                                                         *)
(* Packer models what the calls do; every step here is one of its steps,   *)
(* or none, and what the caller of each process hears.  A call that waits  *)
(* for the network flushes whatever it can claim, which need not be what   *)
(* it wrote: another flush may hold those rows.                            *)
(***************************************************************************)
EXTENDS Packer

CONSTANT Shell   (* the processes that run `sennit remember --flush` *)

ASSUME ShellAssumption == Shell \subseteq Process \ Host

VARIABLES
  call,   (* the write each process serves                                 *)
  told    (* history: what the writer of each record was told last         *)

answers == <<call, told>>

(* wrote: the records of this write; owed: those no flush of its own has    *)
(* reported; batch: what the flush it waits for has claimed.                *)
NoCall == [at |-> "none", wrote |-> {}, owed |-> {}, batch |-> {}]
Lane(p) == <<p, "call">>

DurabilityInit ==
  /\ Init
  /\ call = [p \in Process |-> NoCall] /\ told = [r \in Record |-> "nothing"]

Goes(p, next) == call' = [call EXCEPT ![p].at = next] /\ UNCHANGED told
Aside == UNCHANGED answers

(* The write ends, and its caller hears of every record of it. *)
Tells(p, onNetwork) ==
  /\ told' = [r \in Record |-> IF r \notin call[p].wrote THEN told[r]
                               ELSE IF onNetwork THEN "network" ELSE "device"]
  /\ call' = [call EXCEPT ![p] = NoCall]

(* The write ends with an error. *)
Fails(p) == call' = [call EXCEPT ![p] = NoCall] /\ UNCHANGED told

-----------------------------------------------------------------------------

(* Every Add of the write so far has returned. *)
Added(p) == call[p].at \in {"added", "settled"}

(* A memory, or a chunk of a conversation: SaveSession writes several. *)
Put(p, r) ==
  /\ call[p].at = "none" \/ (Added(p) /\ p \notin Shell)
  /\ RememberPut(p, r)
  /\ call' = [call EXCEPT ![p].at = "putting", ![p].wrote = @ \cup {r},
                          ![p].owed = @ \cup {r}]
  /\ UNCHANGED told

(* Packer.Add counts the record; with nothing due it returns. *)
Count(p) == AddCount(p) /\ Goes(p, "added")

(* Packer.Add finds a flush due. *)
AddFlushes(p) ==
  /\ call[p].at = "added"
  /\ FlushClaim(Lane(p))
  /\ call' = [call EXCEPT ![p].at = "adding", ![p].batch = {r \in Record : Claimable(r)}]
  /\ UNCHANGED told

(* Vault.Flush, for a save that asks to be durable or a memory with --flush. *)
WaitFlushes(p) ==
  /\ Added(p) /\ call[p].owed # {}
  /\ FlushClaim(Lane(p))
  /\ call' = [call EXCEPT ![p].at = "waiting", ![p].batch = {r \in Record : Claimable(r)}]
  /\ UNCHANGED told

(* Mutant: a flush that returned has written all that was owed. *)
SettleAll(owed, batch) == {}

(* settle, and the look Remember takes for its own CID. *)
Settle(owed, batch) == owed \ batch

(***************************************************************************)
(* What the caller of a write that waited is told.  runRemember takes a    *)
(* flush that wrote anything for one that wrote the memory.                *)
(***************************************************************************)
OnNetwork(p, owed) == p \in Shell \/ owed = {}

(* The flush it waited for returns. *)
FlushReturns(p) ==
  LET left == Settle(call[p].owed, call[p].batch) IN
  /\ Refresh(Lane(p))
  /\ \/ /\ call[p].at = "adding"
        /\ call' = [call EXCEPT ![p] = [@ EXCEPT !.at = "settled", !.owed = left, !.batch = {}]]
        /\ UNCHANGED told
     \/ call[p].at = "waiting" /\ Tells(p, OnNetwork(p, left))
     \/ call[p].at \notin {"adding", "waiting"} /\ Aside

(* Nothing waited for, or a flush that found nothing to claim. *)
Answer(p) ==
  /\ Added(p)
  /\ Tells(p, call[p].owed = {})
  /\ UNCHANGED vars

(* A flush no write waits for: `sennit flush`. *)
FlushAlone(p) == call[p].at = "none" /\ FlushClaim(Lane(p)) /\ Aside

(* The steps that end a write with an error, or its process. *)
Broken(p) ==
  /\ \/ op[p].step = "put" /\ CallFails(p)
     \/ Crash(p)
     \/ Release(Lane(p)) \/ Abandon(Lane(p))
  /\ Fails(p)

Writes(p) ==
  \/ \E r \in Record : Put(p, r)
  \/ Enqueue(p) /\ Aside
  \/ Count(p) \/ AddFlushes(p) \/ WaitFlushes(p) \/ FlushReturns(p) \/ Answer(p)
  \/ FlushAlone(p) \/ Broken(p)

(* A host forgets while it writes; a command does one thing and leaves. *)
Forgets(p) ==
  /\ Aside
  /\ p \in Shell /\ op[p].step = "idle" => call[p].at = "none"
  /\ \/ \E r \in Record : ForgetWithdraw(p, r)
     \/ ForgetCatalog(p) \/ ForgetBody(p)
     \/ op[p].step # "put" /\ CallFails(p)

Comes(p) == Aside /\ (Open(p) \/ (call[p].at = "none" /\ Close(p)))

(* What a flush does before it returns, and the whole of a timer's. *)
FlushGoesOn(t) ==
  /\ Aside
  /\ \/ Upload(t) \/ RecordSlabs(t) \/ PinSlabs(t) \/ DropQueued(t) \/ PutBatchFails(t)
     \/ \E r \in Record : PinObject(t, r) \/ RecordFlush(t, r)
     \/ t[2] = "timer" /\ (FlushClaim(t) \/ Release(t) \/ Refresh(t) \/ Abandon(t))

DurabilityNext ==
  \/ Tick /\ Aside
  \/ \E p \in Process : Writes(p) \/ Forgets(p) \/ Comes(p)
  \/ \E t \in Thread : FlushGoesOn(t)

DurabilitySpec == DurabilityInit /\ [][DurabilityNext]_<<vars, answers>>

-----------------------------------------------------------------------------

(***************************************************************************)
(* A writer who was told that its records are written to the network can   *)
(* read them from there, whoever's flush wrote them, took them over or     *)
(* failed, until somebody begins to forget them: "the one claim this       *)
(* project must not make before it is true" (mcp/handlers.go, durability). *)
(***************************************************************************)
ToldIsStored ==
  \A r \in Record : told[r] = "network" /\ status[r] = "kept" => Located(r)
=============================================================================
