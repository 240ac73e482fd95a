---------------------------- MODULE ReadsProofs ----------------------------
(***************************************************************************)
(* Reading back, for any number of processes, memories and calls (Reads),  *)
(* and the types of the cache of locations, for any number of hosts,       *)
(* objects and reads and any redundancy (Locations).                       *)
(***************************************************************************)
EXTENDS Reads, Locations, FiniteSetTheorems, TLAPS

USE DEF device, network, story

CallRow ==
  [at : {"idle", "vector", "row", "queue", "unfile", "unbody", "unvector", "unrow", "refused",
         "terms", "describe", "fetch", "remote", "keep", "failed", "unreachable"},
   by : Host \cup {NoMemory}, id : Memory \cup {NoMemory}, old : Memory \cup {NoMemory},
   slab : 0..MaxSlab, flag : BOOLEAN,
   found : SUBSET Memory, got : SUBSET Memory, must : SUBSET Memory, never : SUBSET Memory,
   cause : SUBSET Memory]

ReadTypes ==
  /\ bodies \subseteq Memory /\ described \subseteq Memory
  /\ vectors \subseteq Memory /\ queued \subseteq Memory
  /\ replaces \in [Memory -> Memory \cup {NoMemory}]
  /\ searching \in [Host -> SUBSET Memory] /\ known \in [Host -> SUBSET Memory]
  /\ behind \in [Host -> SUBSET Memory] /\ goneTo \in [Host -> SUBSET Memory]
  /\ gone \subseteq Memory /\ cut \subseteq Memory /\ minted \subseteq Memory
  /\ slabs \in 0..MaxSlab /\ cuts \in 0..MaxCut
  /\ filed \in [Memory -> 0..slabs] /\ placed \in [Host -> [Memory -> 0..slabs]]
  /\ objects \subseteq Memory \X (1..slabs)
  /\ calls \in [Call -> CallRow]

(* Calls of remember, of forget, and of forget past the point of refusal. *)
Remembering(c) == calls[c].at \in {"vector", "row", "queue"}
Forgets(c)     == calls[c].at \in {"unfile", "unbody", "unvector", "unrow"}
Removes(c)     == calls[c].at \in {"unbody", "unvector", "unrow"}
Looks(c)       == calls[c].at \in {"terms", "describe"}
Fetches(c)     == calls[c].at \in {"fetch", "remote", "keep"}
Reading(c)     == Looks(c) \/ Fetches(c) \/ calls[c].at = "failed"

Removing == {calls[c].id : c \in {d \in Call : Removes(d)}}

(* Memories whose traces may be incomplete. *)
Unsettled == Removing \cup cut

(* Whatever names a memory names one that was given its id. *)
NamesMinted ==
  /\ bodies \cup described \cup vectors \cup queued \cup gone \subseteq minted
  /\ \A p \in Host : searching[p] \subseteq minted
  /\ \A m \in Memory : /\ replaces[m] \in minted \cup {NoMemory}
                        /\ \A p \in Host : placed[p][m] # 0 => m \in minted
  /\ objects \subseteq minted \X (1..slabs)
  /\ \A c \in Call : /\ calls[c].id \in minted \cup {NoMemory}
                     /\ calls[c].old \in minted \cup {NoMemory}
                     /\ calls[c].found \subseteq minted
                     /\ calls[c].at # "idle" => calls[c].by \in Host
                     /\ Remembering(c) \/ Forgets(c) => calls[c].id \in minted

(***************************************************************************)
(* A memory being remembered is in each store its call has reached and in  *)
(* none of those that would let a forget of it go on.                      *)
(***************************************************************************)
RememberInv(c) ==
  Remembering(c) =>
    LET m == calls[c].id IN
    /\ m \in bodies /\ m \notin queued \cup gone
    /\ filed[m] = 0 /\ \A p \in Host : placed[p][m] = 0
    /\ calls[c].at = "queue" <=> m \in described
    /\ calls[c].at # "vector" => m \in vectors /\ m \in searching[calls[c].by]
    /\ \A d \in Call : /\ Removes(d) \/ (calls[d].at = "unfile" /\ calls[d].flag) => calls[d].id # m
                       /\ Remembering(d) /\ d # c => calls[d].id # m

(* What is left of a memory when only its ranking rows are. *)
ForgetInv(c) ==
  calls[c].at = "unrow" =>
    LET m == calls[c].id IN
    /\ m \notin vectors
    /\ \A p \in Host : m \in searching[p] => p # calls[c].by /\ m \in behind[p]

(* Where the traces of a memory are. *)
TracesHold ==
  /\ vectors \subseteq bodies \cup Unsettled
  /\ described \subseteq bodies \cup Unsettled
  /\ gone \cap (described \cup vectors) = {}
  /\ \A p \in Host :
       /\ searching[p] \subseteq bodies \cup Unsettled \cup behind[p]
       /\ goneTo[p] \subseteq gone /\ goneTo[p] \cap searching[p] = {}
       /\ known[p] \ (gone \cup Unsettled) \subseteq described \cap vectors \cap searching[p]

(* A catalogued memory is on the network where the files say, and a copy   *)
(* of the catalog that says otherwise is behind.                           *)
PlacesHold ==
  \A m \in Memory :
    /\ filed[m] # 0 => <<m, filed[m]>> \in objects
    /\ \A p \in Host : placed[p][m] = filed[m] \/ m \in behind[p]

(* What a read may fail on. *)
Excuse(c) == calls[c].cause \cup behind[calls[c].by] \cup cut

ReadInv(c) ==
  Reading(c) =>
    /\ Forgetting \subseteq calls[c].cause
    /\ calls[c].must \subseteq known[calls[c].by]
    /\ calls[c].must \cap (gone \cup cut \cup Forgetting) = {}
    /\ Looks(c) =>
         /\ calls[c].must \subseteq calls[c].found
         /\ calls[c].must \cap Superseded = {}
         /\ \A m \in calls[c].never : \/ m \in Superseded
                                      \/ m \in gone /\ (calls[c].flag \/ m \notin calls[c].found)
    /\ Fetches(c) =>
         /\ calls[c].must \subseteq calls[c].found \cup calls[c].got
         /\ calls[c].never \cap calls[c].found = {}
    /\ Looks(c) \/ Fetches(c) =>
         \A m \in calls[c].found : \/ m \in bodies \cup Excuse(c)
                                   \/ placed[calls[c].by][m] # 0
    /\ calls[c].at \in {"remote", "keep"} => calls[c].id \in calls[c].found
    /\ calls[c].at = "remote" => <<calls[c].id, calls[c].slab>> \in objects \/ calls[c].id \in Excuse(c)
    /\ calls[c].at = "failed" => calls[c].id \in Excuse(c)

ReadsInv ==
  /\ ReadTypes /\ NamesMinted /\ TracesHold /\ PlacesHold /\ NeverAnswered
  /\ \A c \in Call : RememberInv(c) /\ ForgetInv(c) /\ ReadInv(c)

Stage == {"idle", "vector", "row", "queue", "unfile", "unbody", "unvector", "unrow", "refused",
          "terms", "describe", "fetch", "remote", "keep", "failed", "unreachable"}

LEMMA IdleCall ==
  /\ Idle \in CallRow /\ Idle.at = "idle" /\ Idle.id = NoMemory /\ Idle.old = NoMemory
  /\ Idle.found = {} /\ Idle.got = {} /\ Idle.must = {} /\ Idle.never = {}
BY ReadsAssumption DEF Idle, CallRow

(* A step that changes one call. *)
LEMMA OneCall ==
  ASSUME ReadTypes, NEW c \in Call, NEW row \in CallRow, calls' = [calls EXCEPT ![c] = row]
  PROVE  /\ calls' \in [Call -> CallRow] /\ calls'[c] = row
         /\ \A d \in Call : d # c => calls'[d] = calls[d]
BY DEF ReadTypes

(* A call that goes on to another stage. *)
LEMMA GoesOn ==
  ASSUME ReadTypes, NEW c \in Call, NEW next \in Stage, Goes(c, next)
  PROVE  LET row == [calls[c] EXCEPT !.at = next]
         IN  /\ calls' = [calls EXCEPT ![c] = row] /\ row \in CallRow
             /\ row.at = next /\ row.by = calls[c].by /\ row.id = calls[c].id
             /\ row.old = calls[c].old /\ row.slab = calls[c].slab /\ row.flag = calls[c].flag
             /\ row.found = calls[c].found /\ row.got = calls[c].got /\ row.must = calls[c].must
             /\ row.never = calls[c].never /\ row.cause = calls[c].cause
<1>1. calls[c] \in CallRow /\ calls \in [Call -> CallRow]
  BY DEF ReadTypes
<1>2. [calls[c] EXCEPT !.at = next] \in CallRow
  BY <1>1 DEF CallRow, Stage
<1>3. calls' = [calls EXCEPT ![c] = [calls[c] EXCEPT !.at = next]]
  BY <1>1 DEF Goes
<1> QED BY <1>1, <1>2, <1>3 DEF CallRow

(* A read that a step leaves alone but for what it is excused from. *)
LEMMA ReadKept ==
  ASSUME NEW d \in Call, ReadInv(d), Reading(d)',
         /\ calls'[d].at = calls[d].at /\ calls'[d].by = calls[d].by /\ calls'[d].id = calls[d].id
         /\ calls'[d].slab = calls[d].slab /\ calls'[d].flag = calls[d].flag
         /\ calls'[d].found = calls[d].found /\ calls'[d].got = calls[d].got,
         /\ calls'[d].must \subseteq calls[d].must /\ calls'[d].never \subseteq calls[d].never
         /\ calls[d].cause \subseteq calls'[d].cause,
         Forgetting' \subseteq calls'[d].cause,
         known[calls[d].by] \subseteq known'[calls[d].by],
         calls'[d].must \cap (gone' \cup cut' \cup Forgetting') \subseteq gone \cup cut \cup Forgetting,
         calls'[d].must \cap Superseded' \subseteq Superseded,
         calls'[d].never \cap Superseded \subseteq Superseded',
         gone \subseteq gone',
         Excuse(d) \subseteq Excuse(d)',
         bodies \subseteq bodies' \cup Excuse(d)',
         \A m \in calls[d].found :
           placed[calls[d].by][m] # 0 => placed'[calls[d].by][m] # 0 \/ m \in Excuse(d)',
         calls[d].at = "remote" /\ <<calls[d].id, calls[d].slab>> \in objects =>
           <<calls[d].id, calls[d].slab>> \in objects' \/ calls[d].id \in Excuse(d)'
  PROVE  ReadInv(d)'
<1>1. Reading(d) /\ (Looks(d)' <=> Looks(d)) /\ (Fetches(d)' <=> Fetches(d))
  BY DEF Reading, Looks, Fetches
<1>2. /\ Forgetting' \subseteq calls'[d].cause
      /\ calls'[d].must \subseteq known'[calls'[d].by]
      /\ calls'[d].must \cap (gone' \cup cut' \cup Forgetting') = {}
  BY <1>1 DEF ReadInv
<1>3. ASSUME Looks(d)
      PROVE  /\ calls'[d].must \subseteq calls'[d].found
             /\ calls'[d].must \cap Superseded' = {}
             /\ \A m \in calls'[d].never :
                  \/ m \in Superseded'
                  \/ m \in gone' /\ (calls'[d].flag \/ m \notin calls'[d].found)
  BY <1>1, <1>3 DEF ReadInv
<1>4. ASSUME Fetches(d)
      PROVE  /\ calls'[d].must \subseteq calls'[d].found \cup calls'[d].got
             /\ calls'[d].never \cap calls'[d].found = {}
  BY <1>1, <1>4 DEF ReadInv
<1>5. ASSUME Looks(d) \/ Fetches(d), NEW m \in calls'[d].found
      PROVE  m \in bodies' \cup Excuse(d)' \/ placed'[calls'[d].by][m] # 0
  BY <1>1, <1>5 DEF ReadInv
<1>6. /\ calls'[d].at \in {"remote", "keep"} => calls'[d].id \in calls'[d].found
      /\ calls'[d].at = "remote" =>
           <<calls'[d].id, calls'[d].slab>> \in objects' \/ calls'[d].id \in Excuse(d)'
      /\ calls'[d].at = "failed" => calls'[d].id \in Excuse(d)'
  BY <1>1 DEF ReadInv
<1> QED BY <1>1, <1>2, <1>3, <1>4, <1>5, <1>6 DEF ReadInv

(* A step of a read changes that call, and keeps a body at most. *)
LEMMA ReadStep ==
  ASSUME ReadsInv, NEW c \in Call, NEW row \in CallRow,
         calls' = [calls EXCEPT ![c] = row],
         ~Remembering(c) /\ ~Forgets(c),
         row.at \notin {"vector", "row", "queue", "unfile", "unbody", "unvector", "unrow"},
         row.id \in minted \cup {NoMemory}, row.old \in minted \cup {NoMemory},
         row.found \subseteq minted, row.at # "idle" => row.by \in Host,
         row.got \cap row.never = {},
         bodies \subseteq bodies' /\ bodies' \subseteq minted,
         UNCHANGED <<described, replaces, vectors, queued, searching, placed, network, story>>,
         ReadInv(c)'
  PROVE  ReadsInv'
<1>1. /\ calls' \in [Call -> CallRow] /\ calls'[c] = row
      /\ \A d \in Call : d # c => calls'[d] = calls[d]
  BY OneCall DEF ReadsInv
<1>2. \A d \in Call : /\ Remembering(d)' <=> Remembering(d)
                      /\ Forgets(d)' <=> Forgets(d)
                      /\ Removes(d)' <=> Removes(d)
                      /\ Remembering(d) \/ Forgets(d) => calls'[d] = calls[d]
  BY <1>1 DEF Remembering, Forgets, Removes
<1>3. Forgetting' = Forgetting
  <2>1. \A d \in Call : calls'[d].at \in {"unfile", "unbody", "unvector", "unrow"} <=>
                         calls[d].at \in {"unfile", "unbody", "unvector", "unrow"}
    BY <1>2 DEF Forgets
  <2>2. \A d \in Call : calls[d].at \in {"unfile", "unbody", "unvector", "unrow"} =>
                         calls'[d].id = calls[d].id
    BY <1>2 DEF Forgets
  <2> QED BY <2>1, <2>2 DEF Forgetting
<1>4. Removing' = Removing
  <2>1. \A d \in Call : Removes(d) => calls'[d].id = calls[d].id
    BY <1>2 DEF Forgets, Removes
  <2> QED BY <1>2, <2>1 DEF Removing
<1>5. Superseded' = Superseded /\ Unsettled' = Unsettled
  BY <1>4 DEF Superseded, Unsettled
<1>6. ReadTypes'
  BY <1>1 DEF ReadsInv, ReadTypes, NamesMinted
<1>7. NamesMinted'
  BY <1>1, <1>2 DEF ReadsInv, NamesMinted
<1>8. TracesHold' /\ PlacesHold'
  BY <1>5 DEF ReadsInv, TracesHold, PlacesHold
<1>9. NeverAnswered'
  BY <1>1 DEF ReadsInv, NeverAnswered
<1>10. ASSUME NEW d \in Call PROVE RememberInv(d)' /\ ForgetInv(d)' /\ ReadInv(d)'
  <2>1. RememberInv(d) /\ ForgetInv(d) /\ ReadInv(d)
    BY DEF ReadsInv
  <2>2. RememberInv(d)'
    <3>1. \A e \in Call : /\ calls'[e].at = "unfile" <=> calls[e].at = "unfile"
                          /\ calls[e].at = "unfile" => calls'[e] = calls[e]
      BY <1>1, <1>2 DEF Forgets
    <3>2. \A e \in Call : Removes(e) => calls'[e] = calls[e]
      BY <1>2 DEF Forgets, Removes
    <3> QED BY <1>2, <2>1, <3>1, <3>2 DEF RememberInv
  <2>3. ForgetInv(d)'
    BY <1>1, <1>2, <2>1 DEF ForgetInv, Forgets
  <2>4. ReadInv(d)'
    <3>1. CASE d = c
      BY <3>1
    <3>2. CASE d # c
      <4> SUFFICES ASSUME Reading(d)' PROVE ReadInv(d)'
        BY DEF ReadInv
      <4>1. calls'[d] = calls[d] /\ Excuse(d)' = Excuse(d)
        BY <1>1, <3>2 DEF Excuse
      <4>2. Forgetting' \subseteq calls'[d].cause
        BY <1>3, <2>1, <4>1 DEF ReadInv, Reading, Looks, Fetches
      <4> QED BY <1>3, <1>5, <2>1, <4>1, <4>2, ReadKept
    <3> QED BY <3>1, <3>2
  <2> QED BY <2>2, <2>3, <2>4
<1> QED BY <1>6, <1>7, <1>8, <1>9, <1>10 DEF ReadsInv

(* What a recall begins with. *)
LEMMA SupersededNamed ==
  ASSUME ReadsInv
  PROVE  Superseded \subseteq minted /\ Superseded \subseteq Memory /\ Forgetting \subseteq Memory
         /\ Removing \subseteq Forgetting /\ Removing \subseteq Memory
<1>1. Superseded \subseteq minted
  BY DEF ReadsInv, ReadTypes, NamesMinted, Superseded
<1>2. Forgetting \subseteq minted
  <2>1. \A c \in Call : Forgets(c) => calls[c].id \in minted
    BY DEF ReadsInv, NamesMinted
  <2> QED BY <2>1 DEF Forgetting, Forgets
<1>3. Removing \subseteq Forgetting
  BY DEF Removing, Forgetting, Removes
<1> QED BY <1>1, <1>2, <1>3 DEF ReadsInv, ReadTypes

LEMMA StartRecallStep ==
  ASSUME ReadsInv, NEW c \in Call, NEW p \in Host, NEW scoped \in BOOLEAN, StartRecall(c, p, scoped)
  PROVE  ReadsInv'
<1> DEFINE row == [Idle EXCEPT !.at = "terms", !.by = p, !.flag = scoped, !.found = searching[p],
                    !.must  = known[p] \ (Superseded \cup gone \cup cut \cup Forgetting),
                    !.never = Superseded \cup (IF scoped THEN gone ELSE goneTo[p]),
                    !.cause = Forgetting]
<1>1. calls[c] = Idle /\ calls' = [calls EXCEPT ![c] = row]
      /\ UNCHANGED <<device, searching, placed, network, story>>
  BY DEF StartRecall
<1>2. /\ row.at = "terms" /\ row.by = p /\ row.flag = scoped /\ row.found = searching[p]
      /\ row.must = known[p] \ (Superseded \cup gone \cup cut \cup Forgetting)
      /\ row.never = Superseded \cup (IF scoped THEN gone ELSE goneTo[p])
      /\ row.cause = Forgetting /\ row.got = {} /\ row.id = NoMemory /\ row.old = NoMemory
  BY DEF Idle
<1>3. /\ searching[p] \subseteq Memory /\ known[p] \subseteq Memory /\ gone \subseteq Memory
      /\ goneTo[p] \subseteq Memory /\ searching[p] \subseteq minted
  BY DEF ReadsInv, ReadTypes, NamesMinted
<1>4. row \in CallRow
  <2>1. /\ known[p] \ (Superseded \cup gone \cup cut \cup Forgetting) \in SUBSET Memory
        /\ Superseded \cup (IF scoped THEN gone ELSE goneTo[p]) \in SUBSET Memory
        /\ Forgetting \in SUBSET Memory /\ searching[p] \in SUBSET Memory
    BY <1>3, SupersededNamed
  <2> QED BY <2>1, IdleCall DEF CallRow
<1> HIDE DEF row
<1>5. /\ calls' \in [Call -> CallRow] /\ calls'[c] = row
      /\ \A d \in Call : d # c => calls'[d] = calls[d]
  BY <1>1, <1>4, OneCall DEF ReadsInv
<1>6. Forgetting' = Forgetting
  <2>1. \A d \in Call : calls'[d].at \in {"unfile", "unbody", "unvector", "unrow"} <=>
                         calls[d].at \in {"unfile", "unbody", "unvector", "unrow"}
    BY <1>1, <1>2, <1>5, IdleCall
  <2>2. \A d \in Call : calls[d].at \in {"unfile", "unbody", "unvector", "unrow"} =>
                         calls'[d].id = calls[d].id
    BY <1>1, <1>5, IdleCall
  <2> QED BY <2>1, <2>2 DEF Forgetting
<1>7. Superseded' = Superseded
  BY <1>1 DEF Superseded
<1>8. ReadInv(c)'
  <2>1. Looks(c)' /\ ~Fetches(c)' /\ calls'[c].at = "terms"
    BY <1>2, <1>5 DEF Looks, Fetches
  <2>2. Excuse(c)' = Forgetting \cup behind[p] \cup cut
    BY <1>1, <1>2, <1>5 DEF Excuse
  <2>3. \A m \in searching[p] : m \in bodies \cup Forgetting \cup behind[p] \cup cut
    BY SupersededNamed DEF ReadsInv, TracesHold, Unsettled
  <2>4. known[p] \ (gone \cup cut \cup Forgetting) \subseteq searching[p]
    BY SupersededNamed DEF ReadsInv, TracesHold, Unsettled
  <2>5. goneTo[p] \subseteq gone /\ goneTo[p] \cap searching[p] = {}
    BY DEF ReadsInv, TracesHold
  <2>6. calls'[c].must \subseteq calls'[c].found /\ calls'[c].must \cap Superseded' = {}
        /\ calls'[c].must \subseteq known'[p] /\ calls'[c].must \cap (gone' \cup cut' \cup Forgetting') = {}
    BY <1>1, <1>2, <1>5, <1>6, <1>7, <2>4
  <2>7. \A m \in calls'[c].never : \/ m \in Superseded'
                                   \/ m \in gone' /\ (calls'[c].flag \/ m \notin calls'[c].found)
    BY <1>1, <1>2, <1>5, <1>7, <2>5
  <2>8. \A m \in calls'[c].found : m \in bodies' \cup Excuse(c)'
    BY <1>1, <1>2, <1>5, <2>2, <2>3
  <2> QED BY <1>2, <1>5, <1>6, <2>1, <2>6, <2>7, <2>8 DEF ReadInv
<1>9. ~Remembering(c) /\ ~Forgets(c) /\ bodies \subseteq minted
  BY <1>1, IdleCall DEF Remembering, Forgets, ReadsInv, NamesMinted
<1> QED BY <1>1, <1>2, <1>3, <1>4, <1>8, <1>9, ReadStep

LEMMA StartOpenStep ==
  ASSUME ReadsInv, NEW c \in Call, NEW p \in Host, NEW m \in Memory, StartOpen(c, p, m)
  PROVE  ReadsInv'
<1> DEFINE row == [Idle EXCEPT !.at = "fetch", !.by = p, !.id = m, !.found = {m},
                               !.cause = Forgetting \cup gone]
<1>1. calls[c] = Idle /\ calls' = [calls EXCEPT ![c] = row]
      /\ (m \in described \cup gone \/ filed[m] # 0)
      /\ UNCHANGED <<device, searching, placed, network, story>>
  BY DEF StartOpen
<1>2. /\ row.at = "fetch" /\ row.by = p /\ row.found = {m} /\ row.must = {} /\ row.never = {}
      /\ row.cause = Forgetting \cup gone /\ row.got = {} /\ row.id = m /\ row.old = NoMemory
  BY DEF Idle
<1>3. row \in CallRow
  <2>1. Forgetting \cup gone \in SUBSET Memory
    BY SupersededNamed DEF ReadsInv, ReadTypes
  <2> QED BY <2>1, IdleCall DEF CallRow
<1> HIDE DEF row
<1>4. m \in minted
  <2>1. filed[m] # 0 => <<m, filed[m]>> \in minted \X (1..slabs)
    BY DEF ReadsInv, PlacesHold, NamesMinted
  <2> QED BY <1>1, <2>1 DEF ReadsInv, NamesMinted
<1>5. /\ calls' \in [Call -> CallRow] /\ calls'[c] = row
      /\ \A d \in Call : d # c => calls'[d] = calls[d]
  BY <1>1, <1>3, OneCall DEF ReadsInv
<1>6. Forgetting' = Forgetting
  <2>1. \A d \in Call : calls'[d].at \in {"unfile", "unbody", "unvector", "unrow"} <=>
                         calls[d].at \in {"unfile", "unbody", "unvector", "unrow"}
    BY <1>1, <1>2, <1>5, IdleCall
  <2>2. \A d \in Call : calls[d].at \in {"unfile", "unbody", "unvector", "unrow"} =>
                         calls'[d].id = calls[d].id
    BY <1>1, <1>5, IdleCall
  <2> QED BY <2>1, <2>2 DEF Forgetting
<1>7. ReadInv(c)'
  <2>1. Fetches(c)' /\ ~Looks(c)' /\ calls'[c].at = "fetch"
    BY <1>2, <1>5 DEF Looks, Fetches
  <2>2. Excuse(c)' = Forgetting \cup gone \cup behind[p] \cup cut
    BY <1>1, <1>2, <1>5 DEF Excuse
  <2>3. m \in described => m \in bodies \cup Forgetting \cup cut
    BY SupersededNamed DEF ReadsInv, TracesHold, Unsettled
  <2>4. filed[m] # 0 => placed[p][m] # 0 \/ m \in behind[p]
    BY DEF ReadsInv, PlacesHold
  <2>5. m \in bodies' \cup Excuse(c)' \/ placed'[p][m] # 0
    BY <1>1, <2>2, <2>3, <2>4
  <2> QED BY <1>2, <1>5, <1>6, <2>1, <2>5 DEF ReadInv
<1>8. ~Remembering(c) /\ ~Forgets(c) /\ bodies \subseteq minted
  BY <1>1, IdleCall DEF Remembering, Forgets, ReadsInv, NamesMinted
<1> QED BY <1>1, <1>2, <1>3, <1>4, <1>7, <1>8, ReadStep

(* A step of a read under way, given what the new row says. *)
LEMMA ReadGoesOn ==
  ASSUME ReadsInv, NEW c \in Call, Reading(c), NEW row \in CallRow,
         calls' = [calls EXCEPT ![c] = row], row.by = calls[c].by,
         row.must = calls[c].must, row.never = calls[c].never, row.cause = calls[c].cause,
         row.old = calls[c].old,
         row.at \in {"describe", "fetch", "remote", "keep", "failed", "unreachable"},
         row.id \in minted \cup {NoMemory}, row.found \subseteq minted,
         row.got \cap row.never = {},
         bodies \subseteq bodies' /\ bodies' \subseteq minted,
         UNCHANGED <<described, replaces, vectors, queued, searching, placed, network, story>>,
         row.at = "describe" =>
           /\ row.must \subseteq row.found /\ row.must \cap Superseded = {}
           /\ \A m \in row.never : m \in Superseded \/ (m \in gone /\ (row.flag \/ m \notin row.found)),
         row.at \in {"fetch", "remote", "keep"} =>
           /\ row.must \subseteq row.found \cup row.got /\ row.never \cap row.found = {},
         row.at \in {"describe", "fetch", "remote", "keep"} =>
           \A m \in row.found : m \in bodies' \cup Excuse(c) \/ placed[row.by][m] # 0,
         row.at \in {"remote", "keep"} => row.id \in row.found,
         row.at = "remote" => <<row.id, row.slab>> \in objects \/ row.id \in Excuse(c),
         row.at = "failed" => row.id \in Excuse(c)
  PROVE  ReadsInv'
<1>1. /\ calls' \in [Call -> CallRow] /\ calls'[c] = row
      /\ \A d \in Call : d # c => calls'[d] = calls[d]
  BY OneCall DEF ReadsInv
<1>2. ~Remembering(c) /\ ~Forgets(c)
  BY DEF Remembering, Forgets, Reading, Looks, Fetches
<1>3. Forgetting' = Forgetting
  <2>1. \A d \in Call : calls'[d].at \in {"unfile", "unbody", "unvector", "unrow"} <=>
                         calls[d].at \in {"unfile", "unbody", "unvector", "unrow"}
    BY <1>1, <1>2 DEF Forgets
  <2>2. \A d \in Call : calls[d].at \in {"unfile", "unbody", "unvector", "unrow"} =>
                         calls'[d].id = calls[d].id
    BY <1>1, <1>2 DEF Forgets
  <2> QED BY <2>1, <2>2 DEF Forgetting
<1>4. Superseded' = Superseded /\ Excuse(c)' = Excuse(c)
  BY <1>1 DEF Superseded, Excuse
<1>5. /\ Forgetting \subseteq row.cause /\ row.must \subseteq known[row.by]
      /\ row.must \cap (gone \cup cut \cup Forgetting) = {}
  BY DEF ReadsInv, ReadInv
<1>6. ReadInv(c)'
  <2>1. (Looks(c)' <=> row.at = "describe") /\ (Fetches(c)' <=> row.at \in {"fetch", "remote", "keep"})
    BY <1>1 DEF Looks, Fetches
  <2> QED BY <1>1, <1>3, <1>4, <1>5, <2>1 DEF ReadInv
<1>7. row.by \in Host /\ row.old \in minted \cup {NoMemory}
  <2>1. calls[c].at # "idle"
    BY DEF Reading, Looks, Fetches
  <2> QED BY <2>1 DEF ReadsInv, NamesMinted
<1>8. row.at \notin {"vector", "row", "queue", "unfile", "unbody", "unvector", "unrow"}
  OBVIOUS
<1> QED BY <1>2, <1>6, <1>7, <1>8, ReadStep

LEMMA SearchLexicalStep ==
  ASSUME ReadsInv, NEW c \in Call, SearchLexical(c)
  PROVE  ReadsInv'
<1>1. PICK hits \in SUBSET described :
        calls' = [calls EXCEPT ![c].at = "describe", ![c].found = @ \cup hits]
  BY DEF SearchLexical
<1>2. calls[c].at = "terms" /\ UNCHANGED <<device, searching, placed, network, story>>
  BY DEF SearchLexical
<1> DEFINE row == [calls[c] EXCEPT !.at = "describe", !.found = calls[c].found \cup hits]
<1>3. calls \in [Call -> CallRow] /\ calls[c] \in CallRow /\ hits \subseteq Memory /\ hits \subseteq minted
  BY DEF ReadsInv, ReadTypes, NamesMinted
<1>4. calls' = [calls EXCEPT ![c] = row]
  BY <1>1, <1>3
<1>5. /\ row \in CallRow /\ row.at = "describe" /\ row.by = calls[c].by /\ row.id = calls[c].id
      /\ row.old = calls[c].old /\ row.flag = calls[c].flag
      /\ row.found = calls[c].found \cup hits /\ row.got = calls[c].got /\ row.must = calls[c].must
      /\ row.never = calls[c].never /\ row.cause = calls[c].cause
  BY <1>3 DEF CallRow
<1> HIDE DEF row
<1>6. Looks(c) /\ Reading(c) /\ ReadInv(c)
  BY <1>2 DEF Looks, Reading, ReadsInv
<1>7. /\ row.must \subseteq row.found /\ row.must \cap Superseded = {}
      /\ \A m \in row.never : m \in Superseded \/ (m \in gone /\ (row.flag \/ m \notin row.found))
  <2>1. gone \cap hits = {}
    BY DEF ReadsInv, TracesHold
  <2> QED BY <1>5, <1>6, <2>1 DEF ReadInv
<1>8. \A m \in row.found : m \in bodies' \cup Excuse(c) \/ placed[row.by][m] # 0
  <2>1. \A m \in hits : m \in bodies \cup Forgetting \cup cut
    BY SupersededNamed DEF ReadsInv, TracesHold, Unsettled
  <2>2. Forgetting \cup cut \subseteq Excuse(c)
    BY <1>6 DEF ReadInv, Excuse
  <2> QED BY <1>2, <1>5, <1>6, <2>1, <2>2 DEF ReadInv
<1>9. row.got \cap row.never = {} /\ bodies \subseteq minted
  BY <1>5 DEF ReadsInv, NeverAnswered, NamesMinted
<1>10. row.id \in minted \cup {NoMemory} /\ row.found \subseteq minted
  BY <1>3, <1>5 DEF ReadsInv, NamesMinted
<1> QED BY <1>2, <1>4, <1>5, <1>6, <1>7, <1>8, <1>9, <1>10, ReadGoesOn

LEMMA DescribeStep ==
  ASSUME ReadsInv, NEW c \in Call, Describe(c)
  PROVE  ReadsInv'
<1>1. /\ calls[c].at = "describe" /\ UNCHANGED <<device, searching, placed, network, story>>
      /\ calls' = [calls EXCEPT ![c].at = "fetch", ![c].found = Eligible(c)]
  BY DEF Describe
<1> DEFINE row == [calls[c] EXCEPT !.at = "fetch", !.found = Eligible(c)]
<1>2. calls \in [Call -> CallRow] /\ calls[c] \in CallRow
  BY DEF ReadsInv, ReadTypes
<1>3. Eligible(c) \subseteq calls[c].found
  BY DEF Eligible
<1>4. calls' = [calls EXCEPT ![c] = row]
  BY <1>1, <1>2
<1>5. /\ row \in CallRow /\ row.at = "fetch" /\ row.by = calls[c].by /\ row.id = calls[c].id
      /\ row.old = calls[c].old /\ row.flag = calls[c].flag
      /\ row.found = Eligible(c) /\ row.got = calls[c].got /\ row.must = calls[c].must
      /\ row.never = calls[c].never /\ row.cause = calls[c].cause
  BY <1>2, <1>3 DEF CallRow
<1> HIDE DEF row
<1>6. Looks(c) /\ Reading(c) /\ ReadInv(c)
  BY <1>1 DEF Looks, Reading, ReadsInv
<1>7. row.must \subseteq row.found
  <2>1. /\ calls[c].must \subseteq known[calls[c].by] /\ calls[c].must \subseteq calls[c].found
        /\ calls[c].must \cap (gone \cup cut \cup Forgetting) = {}
        /\ calls[c].must \cap Superseded = {}
    BY <1>6 DEF ReadInv
  <2>2. calls[c].by \in Host
    BY <1>1 DEF ReadsInv, NamesMinted
  <2>3. calls[c].must \subseteq described
    BY <2>1, <2>2, SupersededNamed DEF ReadsInv, TracesHold, Unsettled
  <2> QED BY <1>5, <2>1, <2>3 DEF Eligible
<1>8. row.never \cap row.found = {}
  <2>1. gone \cap described = {}
    BY DEF ReadsInv, TracesHold
  <2> QED BY <1>5, <1>6, <2>1 DEF ReadInv, Eligible
<1>9. \A m \in row.found : m \in bodies' \cup Excuse(c) \/ placed[row.by][m] # 0
  BY <1>1, <1>3, <1>5, <1>6 DEF ReadInv
<1>10. row.got \cap row.never = {} /\ bodies \subseteq minted
  BY <1>5 DEF ReadsInv, NeverAnswered, NamesMinted
<1>11. row.id \in minted \cup {NoMemory} /\ row.found \subseteq minted
  BY <1>3, <1>5 DEF ReadsInv, NamesMinted
<1> QED BY <1>1, <1>4, <1>5, <1>6, <1>7, <1>8, <1>9, <1>10, <1>11, ReadGoesOn

LEMMA FetchStep ==
  ASSUME ReadsInv, NEW c \in Call, NEW m \in Memory, Fetch(c, m)
  PROVE  ReadsInv'
<1> DEFINE p == calls[c].by
<1>1. /\ calls[c].at = "fetch" /\ m \in calls[c].found
      /\ UNCHANGED <<device, searching, placed, network, story>>
  BY DEF Fetch
<1>2. calls \in [Call -> CallRow] /\ calls[c] \in CallRow /\ p \in Host /\ m \in minted
      /\ bodies \subseteq minted /\ calls[c].found \subseteq minted
  BY <1>1 DEF ReadsInv, ReadTypes, NamesMinted
<1>3. Fetches(c) /\ Reading(c) /\ ReadInv(c) /\ calls[c].got \cap calls[c].never = {}
  BY <1>1 DEF Fetches, Reading, ReadsInv, NeverAnswered
<1>4. /\ calls[c].must \subseteq calls[c].found \cup calls[c].got
      /\ calls[c].never \cap calls[c].found = {}
      /\ \A x \in calls[c].found : x \in bodies \cup Excuse(c) \/ placed[p][x] # 0
  BY <1>3 DEF ReadInv
<1>5. CASE m \in bodies
  <2> DEFINE row == [calls[c] EXCEPT !.at = "fetch", !.got = calls[c].got \cup {m},
                                     !.found = calls[c].found \ {m}]
  <2>1. calls' = [calls EXCEPT ![c] = row]
    BY <1>2, <1>5 DEF Fetch, Got
  <2>2. /\ row \in CallRow /\ row.at = "fetch" /\ row.by = p /\ row.id = calls[c].id
        /\ row.old = calls[c].old /\ row.flag = calls[c].flag
        /\ row.found = calls[c].found \ {m} /\ row.got = calls[c].got \cup {m}
        /\ row.must = calls[c].must /\ row.never = calls[c].never /\ row.cause = calls[c].cause
    BY <1>2 DEF CallRow
  <2> HIDE DEF row
  <2>3. /\ row.must \subseteq row.found \cup row.got /\ row.never \cap row.found = {}
        /\ row.got \cap row.never = {} /\ row.found \subseteq minted
    BY <1>1, <1>2, <1>3, <1>4, <2>2
  <2>4. \A x \in row.found : x \in bodies' \cup Excuse(c) \/ placed[row.by][x] # 0
    BY <1>1, <1>4, <2>2
  <2>5. row.id \in minted \cup {NoMemory}
    BY <2>2 DEF ReadsInv, NamesMinted
  <2> QED BY <1>1, <1>2, <1>3, <2>1, <2>2, <2>3, <2>4, <2>5, ReadGoesOn
<1>6. CASE m \notin bodies /\ placed[p][m] = 0
  <2> DEFINE row == [calls[c] EXCEPT !.at = "failed", !.id = m]
  <2>1. calls' = [calls EXCEPT ![c] = row]
    BY <1>2, <1>6 DEF Fetch, Fails
  <2>2. /\ row \in CallRow /\ row.at = "failed" /\ row.by = p /\ row.id = m
        /\ row.old = calls[c].old /\ row.found = calls[c].found /\ row.got = calls[c].got
        /\ row.must = calls[c].must /\ row.never = calls[c].never /\ row.cause = calls[c].cause
    BY <1>2 DEF CallRow
  <2> HIDE DEF row
  <2>3. row.id \in Excuse(c)
    BY <1>1, <1>4, <1>6, <2>2
  <2> QED BY <1>1, <1>2, <1>3, <2>1, <2>2, <2>3, ReadGoesOn
<1>7. CASE m \notin bodies /\ placed[p][m] # 0
  <2> DEFINE row == [calls[c] EXCEPT !.at = "remote", !.id = m, !.slab = placed[p][m]]
  <2>1. calls' = [calls EXCEPT ![c] = row]
    BY <1>2, <1>7 DEF Fetch
  <2>2. placed[p][m] \in 0..MaxSlab
    BY <1>2, ReadsAssumption DEF ReadsInv, ReadTypes
  <2>3. /\ row \in CallRow /\ row.at = "remote" /\ row.by = p /\ row.id = m /\ row.slab = placed[p][m]
        /\ row.old = calls[c].old /\ row.found = calls[c].found /\ row.got = calls[c].got
        /\ row.must = calls[c].must /\ row.never = calls[c].never /\ row.cause = calls[c].cause
    BY <1>2, <2>2 DEF CallRow
  <2> HIDE DEF row
  <2>4. <<row.id, row.slab>> \in objects \/ row.id \in Excuse(c)
    <3>1. placed[p][m] = filed[m] \/ m \in behind[p]
      BY <1>2 DEF ReadsInv, PlacesHold
    <3>2. filed[m] # 0 => <<m, filed[m]>> \in objects
      BY DEF ReadsInv, PlacesHold
    <3> QED BY <1>7, <2>3, <3>1, <3>2 DEF Excuse
  <2>5. \A x \in row.found : x \in bodies' \cup Excuse(c) \/ placed[row.by][x] # 0
    BY <1>1, <1>4, <2>3
  <2> QED BY <1>1, <1>2, <1>3, <1>4, <2>1, <2>3, <2>4, <2>5, ReadGoesOn
<1> QED BY <1>5, <1>6, <1>7

LEMMA FetchRemoteStep ==
  ASSUME ReadsInv, NEW c \in Call, FetchRemote(c)
  PROVE  ReadsInv'
<1>1. calls[c].at = "remote" /\ UNCHANGED <<device, searching, placed, network, story>>
  BY DEF FetchRemote
<1>2. calls \in [Call -> CallRow] /\ calls[c] \in CallRow
      /\ bodies \subseteq minted /\ calls[c].found \subseteq minted
      /\ calls[c].id \in minted \cup {NoMemory}
  BY DEF ReadsInv, ReadTypes, NamesMinted
<1>3. Fetches(c) /\ Reading(c) /\ ReadInv(c) /\ calls[c].got \cap calls[c].never = {}
  BY <1>1 DEF Fetches, Reading, ReadsInv, NeverAnswered
<1>4. ASSUME NEW next \in {"keep", "failed", "unreachable"}, calls' = [calls EXCEPT ![c].at = next],
             next = "failed" => calls[c].id \in Excuse(c)
      PROVE  ReadsInv'
  <2> DEFINE row == [calls[c] EXCEPT !.at = next]
  <2>1. calls' = [calls EXCEPT ![c] = row]
    BY <1>2, <1>4
  <2>2. /\ row \in CallRow /\ row.at = next /\ row.by = calls[c].by /\ row.id = calls[c].id
        /\ row.old = calls[c].old /\ row.found = calls[c].found /\ row.got = calls[c].got
        /\ row.must = calls[c].must /\ row.never = calls[c].never /\ row.cause = calls[c].cause
    BY <1>2 DEF CallRow
  <2> HIDE DEF row
  <2>3. /\ row.must \subseteq row.found \cup row.got /\ row.never \cap row.found = {}
        /\ row.id \in row.found
        /\ \A x \in row.found : x \in bodies' \cup Excuse(c) \/ placed[row.by][x] # 0
    BY <1>1, <1>3, <2>2 DEF ReadInv
  <2> QED BY <1>1, <1>2, <1>3, <1>4, <2>1, <2>2, <2>3, ReadGoesOn
<1>5. CASE Goes(c, "keep") \/ Goes(c, "unreachable")
  BY <1>4, <1>5 DEF Goes
<1>6. CASE <<calls[c].id, calls[c].slab>> \notin objects /\ calls' = Fails(c, calls[c].id)
  <2>1. calls[c].id \in Excuse(c)
    BY <1>1, <1>3, <1>6 DEF ReadInv
  <2>2. calls' = [calls EXCEPT ![c].at = "failed"]
    <3>1. [calls[c] EXCEPT !.at = "failed", !.id = calls[c].id] = [calls[c] EXCEPT !.at = "failed"]
      BY <1>2 DEF CallRow
    <3>2. calls' = [calls EXCEPT ![c] = [calls[c] EXCEPT !.at = "failed", !.id = calls[c].id]]
      BY <1>2, <1>6 DEF Fails
    <3> QED BY <1>2, <3>1, <3>2
  <2> QED BY <1>4, <2>1, <2>2
<1> QED BY <1>5, <1>6 DEF FetchRemote

LEMMA KeepBodyStep ==
  ASSUME ReadsInv, NEW c \in Call, KeepBody(c)
  PROVE  ReadsInv'
<1> DEFINE m == calls[c].id
           row == [calls[c] EXCEPT !.at = "fetch", !.got = calls[c].got \cup {m},
                                   !.found = calls[c].found \ {m}]
<1>1. calls[c].at = "keep" /\ bodies' = bodies \cup {m}
      /\ UNCHANGED <<described, replaces, vectors, queued, searching, placed, network, story>>
  BY DEF KeepBody
<1>2. calls \in [Call -> CallRow] /\ calls[c] \in CallRow
      /\ bodies \subseteq minted /\ calls[c].found \subseteq minted
      /\ calls[c].id \in minted \cup {NoMemory}
  BY DEF ReadsInv, ReadTypes, NamesMinted
<1>3. Fetches(c) /\ Reading(c) /\ ReadInv(c) /\ calls[c].got \cap calls[c].never = {}
  BY <1>1 DEF Fetches, Reading, ReadsInv, NeverAnswered
<1>4. m \in calls[c].found /\ m \in minted
  BY <1>1, <1>2, <1>3 DEF ReadInv
<1>5. calls' = [calls EXCEPT ![c] = row]
  BY <1>2 DEF KeepBody, Got
<1>6. /\ row \in CallRow /\ row.at = "fetch" /\ row.by = calls[c].by /\ row.id = calls[c].id
      /\ row.old = calls[c].old /\ row.flag = calls[c].flag
      /\ row.found = calls[c].found \ {m} /\ row.got = calls[c].got \cup {m}
      /\ row.must = calls[c].must /\ row.never = calls[c].never /\ row.cause = calls[c].cause
  BY <1>2, <1>4 DEF CallRow
<1> HIDE DEF row, m
<1>7. /\ row.must \subseteq row.found \cup row.got /\ row.never \cap row.found = {}
      /\ row.got \cap row.never = {} /\ row.found \subseteq minted
      /\ \A x \in row.found : x \in bodies' \cup Excuse(c) \/ placed[row.by][x] # 0
  BY <1>1, <1>2, <1>3, <1>4, <1>6 DEF ReadInv
<1> QED BY <1>1, <1>2, <1>3, <1>4, <1>5, <1>6, <1>7, ReadGoesOn

LEMMA ReturnStep ==
  ASSUME ReadsInv, NEW c \in Call, Return(c)
  PROVE  ReadsInv'
<1>1. Over(c) /\ calls' = [calls EXCEPT ![c] = Idle]
      /\ UNCHANGED <<device, searching, placed, network, story>>
  BY DEF Return
<1>2. ~Remembering(c) /\ ~Forgets(c) /\ bodies \subseteq minted
  BY <1>1 DEF Over, Remembering, Forgets, ReadsInv, NamesMinted
<1>3. calls'[c] = Idle
  BY <1>1 DEF ReadsInv, ReadTypes
<1>4. ReadInv(c)'
  BY <1>3, IdleCall DEF ReadInv, Reading, Looks, Fetches
<1> QED BY <1>1, <1>2, <1>4, IdleCall, ReadStep

-----------------------------------------------------------------------------
(* The calls that write                                                     *)

Alike(row, old) ==
  /\ row.at = old.at /\ row.by = old.by /\ row.id = old.id /\ row.old = old.old
  /\ row.slab = old.slab /\ row.flag = old.flag /\ row.found = old.found /\ row.got = old.got

(* A step of one call, whatever it excuses the others from. *)
LEMMA OtherCalls ==
  ASSUME NEW c \in Call, \A d \in Call : d # c => Alike(calls'[d], calls[d])
  PROVE  /\ \A d \in Call : d # c => /\ Remembering(d)' <=> Remembering(d)
                                     /\ Forgets(d)' <=> Forgets(d)
                                     /\ Removes(d)' <=> Removes(d)
                                     /\ Reading(d)' <=> Reading(d)
         /\ Forgetting \subseteq Forgetting' \cup {calls[c].id}
         /\ Forgetting' \subseteq Forgetting \cup {calls'[c].id}
         /\ ~Forgets(c) => Forgetting \subseteq Forgetting'
         /\ ~Forgets(c)' => Forgetting' \subseteq Forgetting
         /\ Removing \subseteq Removing' \cup {calls[c].id}
         /\ Removing' \subseteq Removing \cup {calls'[c].id}
         /\ ~Removes(c) => Removing \subseteq Removing'
         /\ ~Removes(c)' => Removing' \subseteq Removing
<1>1. ASSUME NEW d \in Call, d # c
      PROVE  /\ Remembering(d)' <=> Remembering(d)
             /\ Forgets(d)' <=> Forgets(d)
             /\ Removes(d)' <=> Removes(d)
             /\ Reading(d)' <=> Reading(d)
  BY <1>1 DEF Alike, Remembering, Forgets, Removes, Reading, Looks, Fetches
<1>2. /\ \A m : m \in Forgetting <=> \E d \in Call : Forgets(d) /\ calls[d].id = m
      /\ \A m : m \in Forgetting' <=> \E d \in Call : Forgets(d)' /\ calls'[d].id = m
  BY DEF Forgetting, Forgets
<1>3. /\ \A m : m \in Removing <=> \E d \in Call : Removes(d) /\ calls[d].id = m
      /\ \A m : m \in Removing' <=> \E d \in Call : Removes(d)' /\ calls'[d].id = m
  BY DEF Removing
<1>4. \A d \in Call : d # c => calls'[d].id = calls[d].id
  BY DEF Alike
<1>5. /\ Forgetting \subseteq Forgetting' \cup {calls[c].id}
      /\ Forgetting' \subseteq Forgetting \cup {calls'[c].id}
      /\ ~Forgets(c) => Forgetting \subseteq Forgetting'
      /\ ~Forgets(c)' => Forgetting' \subseteq Forgetting
  BY <1>1, <1>2, <1>4
<1>6. /\ Removing \subseteq Removing' \cup {calls[c].id}
      /\ Removing' \subseteq Removing \cup {calls'[c].id}
      /\ ~Removes(c) => Removing \subseteq Removing'
      /\ ~Removes(c)' => Removing' \subseteq Removing
  BY <1>1, <1>3, <1>4
<1> QED BY <1>1, <1>5, <1>6

(***************************************************************************)
(* What a step of a writing call has to show, when it takes the reads      *)
(* under way into account.                                                 *)
(***************************************************************************)
LEMMA WriteStep ==
  ASSUME ReadsInv, NEW c \in Call, \A d \in Call : d # c => Alike(calls'[d], calls[d]),
         ReadTypes', NamesMinted', TracesHold', PlacesHold',
         ~Reading(c)', calls'[c].got = {} \/ calls'[c].got \cap calls'[c].never = {},
         \A d \in Call : RememberInv(d)' /\ ForgetInv(d)',
         \A d \in Call : d # c =>
           /\ calls'[d].must \subseteq calls[d].must /\ calls'[d].never \subseteq calls[d].never
           /\ calls[d].cause \subseteq calls'[d].cause,
         \A d \in Call : d # c /\ Reading(d) =>
           /\ Forgetting' \subseteq calls'[d].cause
           /\ calls'[d].must \cap (gone' \cup cut' \cup Forgetting') \subseteq gone \cup cut \cup Forgetting
           /\ calls'[d].must \cap Superseded' \subseteq Superseded
           /\ calls'[d].never \cap Superseded \subseteq Superseded'
           /\ cut \subseteq cut' \cup calls'[d].cause
           /\ bodies \subseteq bodies' \cup calls'[d].cause
           /\ \A m \in Memory : placed[calls[d].by][m] # 0 =>
                placed'[calls[d].by][m] # 0 \/ m \in calls'[d].cause,
         \A p \in Host : known[p] \subseteq known'[p] /\ behind[p] \subseteq behind'[p],
         gone \subseteq gone', objects \subseteq objects'
  PROVE  ReadsInv'
<1>1. ASSUME NEW d \in Call PROVE ReadInv(d)'
  <2> SUFFICES ASSUME Reading(d)' PROVE ReadInv(d)'
    BY DEF ReadInv
  <2>1. d # c /\ Reading(d) /\ Alike(calls'[d], calls[d]) /\ ReadInv(d)
    BY OtherCalls DEF ReadsInv
  <2>2. calls[d].by \in Host /\ calls'[d].by = calls[d].by /\ calls[d].found \subseteq Memory
    <3>1. calls[d].at # "idle" /\ calls[d] \in CallRow
      BY <2>1 DEF Reading, Looks, Fetches, ReadsInv, ReadTypes
    <3> QED BY <2>1, <3>1 DEF ReadsInv, NamesMinted, CallRow, Alike
  <2>3. Excuse(d) \subseteq Excuse(d)' /\ calls'[d].cause \subseteq Excuse(d)'
    BY <2>1, <2>2 DEF Excuse
  <2>4. known[calls[d].by] \subseteq known'[calls[d].by]
    BY <2>2
  <2>5. /\ Forgetting' \subseteq calls'[d].cause
        /\ calls'[d].must \cap (gone' \cup cut' \cup Forgetting') \subseteq gone \cup cut \cup Forgetting
        /\ calls'[d].must \cap Superseded' \subseteq Superseded
        /\ calls'[d].never \cap Superseded \subseteq Superseded'
        /\ calls'[d].must \subseteq calls[d].must /\ calls'[d].never \subseteq calls[d].never
        /\ calls[d].cause \subseteq calls'[d].cause
    BY <2>1
  <2>6. bodies \subseteq bodies' \cup Excuse(d)'
    BY <2>1, <2>3
  <2>7. \A m \in calls[d].found :
           placed[calls[d].by][m] # 0 => placed'[calls[d].by][m] # 0 \/ m \in Excuse(d)'
    BY <2>1, <2>2, <2>3
  <2> QED BY <2>1, <2>3, <2>4, <2>5, <2>6, <2>7, ReadKept DEF Alike
<1>2. NeverAnswered'
  BY DEF ReadsInv, NeverAnswered, Alike
<1> QED BY <1>1, <1>2 DEF ReadsInv

(* The id a remember was given is no other call's to write or to remove. *)
LEMMA OwnId ==
  ASSUME ReadsInv, NEW c \in Call, Remembering(c)
  PROVE  /\ calls[c].by \in Host /\ calls[c].id \in minted /\ calls[c].id \in Memory
         /\ calls[c].old \in minted \cup {NoMemory} /\ calls[c].old \in Memory \cup {NoMemory}
         /\ ~Forgets(c) /\ ~Removes(c) /\ ~Reading(c) /\ calls[c].id \notin gone
         /\ \A d \in Call : /\ Removes(d) => calls[d].id # calls[c].id
                            /\ Remembering(d) /\ d # c => calls[d].id # calls[c].id
<1>1. calls[c].at # "idle" /\ calls[c] \in CallRow
  BY DEF Remembering, ReadsInv, ReadTypes
<1>2. calls[c].by \in Host /\ calls[c].id \in minted /\ calls[c].old \in minted \cup {NoMemory}
  BY <1>1 DEF ReadsInv, NamesMinted
<1>3. minted \subseteq Memory
  BY DEF ReadsInv, ReadTypes
<1>4. ~Forgets(c) /\ ~Removes(c) /\ ~Reading(c)
  BY DEF Remembering, Forgets, Removes, Reading, Looks, Fetches
<1>5. RememberInv(c)
  BY DEF ReadsInv
<1> QED BY <1>2, <1>3, <1>4, <1>5 DEF RememberInv

LEMMA StartRememberStep ==
  ASSUME ReadsInv, NEW c \in Call, NEW p \in Host, NEW m \in Memory, NEW old \in Memory \cup {NoMemory},
         StartRemember(c, p, m, old)
  PROVE  ReadsInv'
<1> DEFINE row == [Idle EXCEPT !.at = "vector", !.by = p, !.id = m, !.old = old]
<1>1. /\ calls[c] = Idle /\ m \notin minted /\ (old = NoMemory \/ old \in described)
      /\ minted' = minted \cup {m} /\ bodies' = bodies \cup {m}
      /\ calls' = [calls EXCEPT ![c] = row]
      /\ UNCHANGED <<described, replaces, vectors, queued, searching, placed, network,
                     known, behind, gone, goneTo, cut, forgets, cuts>>
  BY DEF StartRemember
<1>2. /\ row \in CallRow /\ row.at = "vector" /\ row.by = p /\ row.id = m /\ row.old = old
      /\ row.found = {} /\ row.got = {}
  BY IdleCall, ReadsAssumption DEF Idle, CallRow
<1> HIDE DEF row
<1>3. /\ calls' \in [Call -> CallRow] /\ calls'[c] = row
      /\ \A d \in Call : d # c => calls'[d] = calls[d]
  BY <1>1, <1>2, OneCall DEF ReadsInv
<1>4. \A d \in Call : d # c => Alike(calls'[d], calls[d])
  BY <1>3 DEF Alike
<1>5. ~Forgets(c) /\ ~Forgets(c)' /\ ~Removes(c) /\ ~Removes(c)' /\ ~Reading(c)' /\ ~Remembering(c)
      /\ Remembering(c)' /\ ~Forgets(c)'
  BY <1>1, <1>2, <1>3, IdleCall DEF Forgets, Removes, Reading, Looks, Fetches, Remembering
<1>6. Forgetting' = Forgetting /\ Removing' = Removing /\ Superseded' = Superseded
  BY <1>1, <1>4, <1>5, OtherCalls DEF Superseded
<1>7. ReadTypes'
  BY <1>1, <1>3 DEF ReadsInv, ReadTypes
<1>8. NamesMinted'
  <2>1. old \in minted \cup {NoMemory}
    BY <1>1 DEF ReadsInv, NamesMinted
  <2>2. ASSUME NEW d \in Call
        PROVE  /\ calls'[d].id \in minted' \cup {NoMemory}
               /\ calls'[d].old \in minted' \cup {NoMemory}
               /\ calls'[d].found \subseteq minted'
               /\ calls'[d].at # "idle" => calls'[d].by \in Host
               /\ Remembering(d)' \/ Forgets(d)' => calls'[d].id \in minted'
    <3>1. CASE d = c
      BY <1>1, <1>2, <1>3, <2>1, <3>1
    <3>2. CASE d # c
      BY <1>1, <1>3, <1>4, <3>2, OtherCalls DEF ReadsInv, NamesMinted
    <3> QED BY <3>1, <3>2
  <2> QED BY <1>1, <2>2 DEF ReadsInv, NamesMinted
<1>9. TracesHold' /\ PlacesHold'
  BY <1>1, <1>6 DEF ReadsInv, TracesHold, PlacesHold, Unsettled
<1>10. \A d \in Call : Remembering(d) \/ Forgets(d) => calls[d].id # m
  BY <1>1 DEF ReadsInv, NamesMinted
<1>11. /\ m \notin queued \cup gone \cup described \cup vectors
       /\ filed[m] = 0 /\ \A q \in Host : placed[q][m] = 0
  <2>1. m \notin queued \cup gone \cup described \cup vectors /\ \A q \in Host : placed[q][m] = 0
    BY <1>1 DEF ReadsInv, NamesMinted
  <2>2. filed[m] = 0
    <3>1. filed[m] # 0 => <<m, filed[m]>> \in minted \X (1..slabs)
      BY DEF ReadsInv, NamesMinted, PlacesHold
    <3> QED BY <1>1, <3>1
  <2> QED BY <2>1, <2>2
<1>12. ASSUME NEW d \in Call PROVE RememberInv(d)' /\ ForgetInv(d)'
  <2>1. \A e \in Call : e # c => /\ Remembering(e)' <=> Remembering(e)
                                 /\ Removes(e)' <=> Removes(e)
                                 /\ calls'[e] = calls[e]
    BY <1>3, <1>4, OtherCalls
  <2>2. \A e \in Call : calls[e].at = "unfile" \/ Removes(e) => calls[e].id # m
    BY <1>10 DEF Forgets, Removes
  <2>3. CASE d = c
    <3>1. ASSUME NEW e \in Call
          PROVE  /\ Removes(e)' \/ (calls'[e].at = "unfile" /\ calls'[e].flag) => calls'[e].id # m
                 /\ Remembering(e)' /\ e # c => calls'[e].id # m
      BY <1>2, <1>3, <1>5, <1>10, <2>1, <2>2
    <3> QED BY <1>1, <1>2, <1>3, <1>11, <2>3, <3>1 DEF RememberInv, ForgetInv
  <2>4. CASE d # c
    <3>1. RememberInv(d) /\ ForgetInv(d)
      BY DEF ReadsInv
    <3>2. ForgetInv(d)'
      BY <1>1, <2>1, <2>4, <3>1 DEF ForgetInv
    <3>3. ASSUME Remembering(d)' PROVE RememberInv(d)'
      <4>1. Remembering(d) /\ calls'[d] = calls[d] /\ calls[d].id # m
        BY <1>10, <2>1, <2>4, <3>3
      <4>2. ASSUME NEW e \in Call
            PROVE  /\ Removes(e)' \/ (calls'[e].at = "unfile" /\ calls'[e].flag) =>
                        calls'[e].id # calls[d].id
                   /\ Remembering(e)' /\ e # d => calls'[e].id # calls[d].id
        BY <1>2, <1>3, <1>5, <2>1, <3>1, <4>1 DEF RememberInv
      <4> QED BY <1>1, <3>1, <4>1, <4>2 DEF RememberInv
    <3> QED BY <3>2, <3>3 DEF RememberInv
  <2> QED BY <2>3, <2>4
<1> QED
  <2>1. \A d \in Call : d # c /\ Reading(d) => Forgetting \subseteq calls[d].cause
    BY DEF ReadsInv, ReadInv
  <2> QED BY <1>1, <1>2, <1>3, <1>4, <1>5, <1>6, <1>7, <1>8, <1>9, <1>12, <2>1, WriteStep

(* Calls of others that a step of c leaves alone. *)
LEMMA CallsMinted ==
  ASSUME ReadsInv, NEW c \in Call, \A d \in Call : d # c => Alike(calls'[d], calls[d]),
         minted' = minted,
         calls'[c].id \in minted \cup {NoMemory}, calls'[c].old \in minted \cup {NoMemory},
         calls'[c].found \subseteq minted, calls'[c].at # "idle" => calls'[c].by \in Host,
         Remembering(c)' \/ Forgets(c)' => calls'[c].id \in minted
  PROVE  \A d \in Call : /\ calls'[d].id \in minted' \cup {NoMemory}
                         /\ calls'[d].old \in minted' \cup {NoMemory}
                         /\ calls'[d].found \subseteq minted'
                         /\ calls'[d].at # "idle" => calls'[d].by \in Host
                         /\ Remembering(d)' \/ Forgets(d)' => calls'[d].id \in minted'
<1> SUFFICES ASSUME NEW d \in Call, d # c
             PROVE  /\ calls'[d].id \in minted' \cup {NoMemory}
                    /\ calls'[d].old \in minted' \cup {NoMemory}
                    /\ calls'[d].found \subseteq minted'
                    /\ calls'[d].at # "idle" => calls'[d].by \in Host
                    /\ Remembering(d)' \/ Forgets(d)' => calls'[d].id \in minted'
  OBVIOUS
<1> QED BY OtherCalls DEF ReadsInv, NamesMinted, Alike

LEMMA RememberKept ==
  ASSUME ReadsInv, NEW c \in Call, \A d \in Call : d # c => Alike(calls'[d], calls[d]),
         NEW d \in Call, d # c,
         Remembering(d) =>
           LET m == calls[d].id IN
           /\ m \in bodies' /\ m \notin queued' \cup gone'
           /\ filed'[m] = 0 /\ \A p \in Host : placed'[p][m] = 0
           /\ m \in described' <=> m \in described
           /\ m \in vectors => m \in vectors'
           /\ m \in searching[calls[d].by] => m \in searching'[calls[d].by]
           /\ Removes(c)' \/ (calls'[c].at = "unfile" /\ calls'[c].flag) => calls'[c].id # m
           /\ Remembering(c)' => calls'[c].id # m
  PROVE  RememberInv(d)'
<1> SUFFICES ASSUME Remembering(d)' PROVE RememberInv(d)'
  BY DEF RememberInv
<1>1. Remembering(d) /\ Alike(calls'[d], calls[d]) /\ RememberInv(d)
  BY OtherCalls DEF ReadsInv
<1>2. ASSUME NEW e \in Call
      PROVE  /\ Removes(e)' \/ (calls'[e].at = "unfile" /\ calls'[e].flag) => calls'[e].id # calls[d].id
             /\ Remembering(e)' /\ e # d => calls'[e].id # calls[d].id
  <2>1. CASE e = c
    BY <1>1, <2>1
  <2>2. CASE e # c
    BY <1>1, <2>2, OtherCalls DEF RememberInv, Alike
  <2> QED BY <2>1, <2>2
<1> QED BY <1>1, <1>2 DEF RememberInv, Alike

LEMMA ForgetKept ==
  ASSUME ReadsInv, NEW d \in Call, Alike(calls'[d], calls[d]),
         calls[d].at = "unrow" =>
           LET m == calls[d].id IN
           /\ m \in vectors' => m \in vectors
           /\ \A p \in Host : /\ m \in searching'[p] => m \in searching[p]
                              /\ m \in behind[p] => m \in behind'[p]
  PROVE  ForgetInv(d)'
<1>1. ForgetInv(d)
  BY DEF ReadsInv
<1> QED BY <1>1 DEF ForgetInv, Alike

LEMMA PutVectorStep ==
  ASSUME ReadsInv, NEW c \in Call, PutVector(c)
  PROVE  ReadsInv'
<1> DEFINE m == calls[c].id
           p == calls[c].by
           row == [calls[c] EXCEPT !.at = "row"]
<1>1. /\ calls[c].at = "vector" /\ vectors' = vectors \cup {m}
      /\ searching' = [searching EXCEPT ![p] = @ \cup {m}] /\ Goes(c, "row")
      /\ UNCHANGED <<bodies, described, replaces, queued, placed, network, story>>
  BY DEF PutVector
<1>2. /\ calls' = [calls EXCEPT ![c] = row] /\ row \in CallRow
      /\ row.at = "row" /\ row.by = p /\ row.id = m /\ row.old = calls[c].old
      /\ row.found = calls[c].found /\ row.got = calls[c].got /\ row.never = calls[c].never
  <2>1. "row" \in Stage /\ ReadTypes
    BY DEF Stage, ReadsInv
  <2> QED BY <1>1, <2>1, GoesOn
<1>3. Remembering(c) /\ RememberInv(c)
  BY <1>1 DEF Remembering, ReadsInv
<1> HIDE DEF row
<1>4. /\ calls' \in [Call -> CallRow] /\ calls'[c] = row
      /\ \A d \in Call : d # c => calls'[d] = calls[d]
  BY <1>2, OneCall DEF ReadsInv
<1>5. \A d \in Call : d # c => Alike(calls'[d], calls[d])
  BY <1>4 DEF Alike
<1>6. /\ p \in Host /\ m \in minted /\ m \in Memory /\ m \notin gone /\ m \in bodies
      /\ ~Forgets(c) /\ ~Removes(c) /\ m \notin described
      /\ \A d \in Call : /\ Removes(d) => calls[d].id # m
                         /\ Remembering(d) /\ d # c => calls[d].id # m
  BY <1>1, <1>3, OwnId DEF RememberInv
<1>7. ~Forgets(c)' /\ ~Removes(c)' /\ ~Reading(c)' /\ Remembering(c)'
  BY <1>2, <1>4 DEF Forgets, Removes, Reading, Looks, Fetches, Remembering
<1> HIDE DEF m, p
<1>8. Forgetting' = Forgetting /\ Removing' = Removing /\ Superseded' = Superseded
  BY <1>1, <1>5, <1>6, <1>7, OtherCalls DEF Superseded
<1>9. \A q \in Host : searching'[q] = IF q = p THEN searching[q] \cup {m} ELSE searching[q]
  BY <1>1, <1>6 DEF ReadsInv, ReadTypes
<1>10. ReadTypes'
  BY <1>1, <1>4, <1>6 DEF ReadsInv, ReadTypes
<1>11. NamesMinted'
  <2>1. /\ row.id \in minted \cup {NoMemory} /\ row.old \in minted \cup {NoMemory}
        /\ row.found \subseteq minted /\ row.by \in Host
    BY <1>2, <1>6 DEF ReadsInv, NamesMinted
  <2> QED BY <1>1, <1>2, <1>4, <1>5, <1>6, <1>9, <2>1, CallsMinted DEF ReadsInv, NamesMinted
<1>12. PlacesHold'
  BY <1>1 DEF ReadsInv, PlacesHold
<1>13. TracesHold'
  BY <1>1, <1>6, <1>8, <1>9 DEF ReadsInv, TracesHold, Unsettled
<1>14. ASSUME NEW d \in Call PROVE RememberInv(d)' /\ ForgetInv(d)'
  <2>1. CASE d = c
    <3>1. ASSUME NEW e \in Call
          PROVE  /\ Removes(e)' \/ (calls'[e].at = "unfile" /\ calls'[e].flag) => calls'[e].id # m
                 /\ Remembering(e)' /\ e # c => calls'[e].id # m
      <4>1. CASE e = c
        BY <1>2, <1>4, <1>7, <4>1
      <4>2. CASE e # c
        BY <1>3, <1>4, <1>5, <4>2, OtherCalls DEF RememberInv, m
      <4> QED BY <4>1, <4>2
    <3> QED BY <1>1, <1>2, <1>3, <1>4, <1>6, <1>9, <2>1, <3>1 DEF RememberInv, ForgetInv, m
  <2>2. CASE d # c
    <3>1. RememberInv(d) /\ Alike(calls'[d], calls[d])
      BY <1>5, <2>2 DEF ReadsInv
    <3>2. Remembering(d) => calls[d].by \in Host
      BY OwnId
    <3>3. RememberInv(d)'
      BY <1>1, <1>2, <1>4, <1>5, <1>6, <1>7, <1>9, <2>2, <3>1, <3>2, RememberKept DEF RememberInv
    <3>4. calls[d].at = "unrow" => calls[d].id # m
      BY <1>6 DEF Removes
    <3> QED BY <1>1, <1>9, <3>1, <3>3, <3>4, ForgetKept
  <2> QED BY <2>1, <2>2
<1> QED
  <2>1. \A d \in Call : d # c /\ Reading(d) => Forgetting \subseteq calls[d].cause
    BY DEF ReadsInv, ReadInv
  <2>2. row.got \cap row.never = {}
    BY <1>2 DEF ReadsInv, NeverAnswered
  <2> QED BY <1>1, <1>2, <1>4, <1>5, <1>7, <1>8, <1>10, <1>11, <1>12, <1>13, <1>14, <2>1, <2>2, WriteStep

LEMMA PutRankingMetaStep ==
  ASSUME ReadsInv, NEW c \in Call, PutRankingMeta(c)
  PROVE  ReadsInv'
<1> DEFINE m == calls[c].id
           p == calls[c].by
           old == calls[c].old
<1>1. /\ calls[c].at = "row" /\ described' = described \cup {m}
      /\ replaces' = [replaces EXCEPT ![m] = old]
      /\ calls' = [d \in Call |-> IF d = c THEN [calls[c] EXCEPT !.at = "queue"]
                                  ELSE [calls[d] EXCEPT !.must = @ \ {old}]]
      /\ UNCHANGED <<bodies, vectors, queued, searching, placed, network, story>>
  BY DEF PutRankingMeta
<1>2. Remembering(c) /\ RememberInv(c)
  BY <1>1 DEF Remembering, ReadsInv
<1>3. /\ p \in Host /\ m \in minted /\ m \in Memory /\ m \notin gone /\ m \in bodies
      /\ ~Forgets(c) /\ ~Removes(c) /\ m \notin described
      /\ old \in minted \cup {NoMemory} /\ old \in Memory \cup {NoMemory}
      /\ \A d \in Call : /\ Removes(d) => calls[d].id # m
                         /\ Remembering(d) /\ d # c => calls[d].id # m
  BY <1>1, <1>2, OwnId DEF RememberInv
<1>4. ASSUME NEW d \in Call
      PROVE  /\ calls'[d] \in CallRow /\ calls'[d].got = calls[d].got /\ calls'[d].never = calls[d].never
             /\ d # c => /\ Alike(calls'[d], calls[d]) /\ calls'[d].must = calls[d].must \ {old}
                         /\ calls'[d].cause = calls[d].cause
             /\ d = c => /\ calls'[d].at = "queue" /\ calls'[d].by = p /\ calls'[d].id = m
                         /\ calls'[d].old = old /\ calls'[d].found = calls[d].found
  <2>1. calls[d] \in CallRow
    BY DEF ReadsInv, ReadTypes
  <2>2. CASE d = c
    <3>1. calls'[d] = [calls[d] EXCEPT !.at = "queue"]
      BY <1>1, <2>2
    <3> QED BY <2>1, <2>2, <3>1 DEF CallRow
  <2>3. CASE d # c
    <3>1. calls'[d] = [calls[d] EXCEPT !.must = calls[d].must \ {old}]
      BY <1>1, <2>3
    <3> HIDE DEF old
    <3> QED BY <2>1, <2>3, <3>1 DEF CallRow, Alike
  <2> QED BY <2>2, <2>3
<1>5. calls' \in [Call -> CallRow]
  <2>1. calls' = [d \in Call |-> calls'[d]]
    BY <1>1
  <2> QED BY <1>4, <2>1
<1>6. \A d \in Call : d # c => Alike(calls'[d], calls[d])
  BY <1>4
<1>7. ~Forgets(c)' /\ ~Removes(c)' /\ ~Reading(c)' /\ Remembering(c)'
  BY <1>4 DEF Forgets, Removes, Reading, Looks, Fetches, Remembering
<1> HIDE DEF m, p, old
<1>8. Forgetting' = Forgetting /\ Removing' = Removing
  BY <1>1, <1>3, <1>6, <1>7, OtherCalls
<1>9. Superseded \subseteq Superseded' /\ Superseded' \subseteq Superseded \cup {old}
  <2>1. described \subseteq Memory
    BY DEF ReadsInv, ReadTypes
  <2>2. \A x \in Memory : replaces'[x] = IF x = m THEN old ELSE replaces[x]
    BY <1>1, <1>3 DEF ReadsInv, ReadTypes
  <2> QED BY <1>1, <1>3, <2>1, <2>2 DEF Superseded
<1>10. ReadTypes'
  BY <1>1, <1>3, <1>5 DEF ReadsInv, ReadTypes
<1>11. NamesMinted'
  <2>1. calls[c].found \subseteq minted
    BY DEF ReadsInv, NamesMinted
  <2>2. \A d \in Call : /\ calls'[d].id \in minted' \cup {NoMemory}
                        /\ calls'[d].old \in minted' \cup {NoMemory}
                        /\ calls'[d].found \subseteq minted'
                        /\ calls'[d].at # "idle" => calls'[d].by \in Host
                        /\ Remembering(d)' \/ Forgets(d)' => calls'[d].id \in minted'
    <3>1. /\ calls'[c].id \in minted /\ calls'[c].old \in minted \cup {NoMemory}
          /\ calls'[c].found \subseteq minted /\ calls'[c].by \in Host /\ minted' = minted
      BY <1>1, <1>3, <1>4, <2>1
    <3> QED BY <1>6, <3>1, CallsMinted
  <2>3. \A x \in Memory : replaces'[x] \in minted \cup {NoMemory}
    BY <1>1, <1>3 DEF ReadsInv, ReadTypes, NamesMinted
  <2> QED BY <1>1, <1>3, <2>2, <2>3 DEF ReadsInv, NamesMinted
<1>12. PlacesHold'
  BY <1>1 DEF ReadsInv, PlacesHold
<1>13. TracesHold'
  BY <1>1, <1>3, <1>8 DEF ReadsInv, TracesHold, Unsettled
<1>14. ASSUME NEW d \in Call PROVE RememberInv(d)' /\ ForgetInv(d)'
  <2>1. CASE d = c
    <3>1. ASSUME NEW e \in Call
          PROVE  /\ Removes(e)' \/ (calls'[e].at = "unfile" /\ calls'[e].flag) => calls'[e].id # m
                 /\ Remembering(e)' /\ e # c => calls'[e].id # m
      <4>1. CASE e = c
        BY <1>4, <1>7, <4>1
      <4>2. CASE e # c
        <5>1. Alike(calls'[e], calls[e])
          BY <1>6, <4>2
        <5> QED BY <1>2, <1>6, <4>2, <5>1, OtherCalls DEF RememberInv, m, Alike
      <4> QED BY <4>1, <4>2
    <3>2. m \in described' /\ calls'[c].at = "queue" /\ calls'[c].id = m /\ calls'[c].by = p
      BY <1>1, <1>4
    <3> QED BY <1>1, <1>2, <1>3, <2>1, <3>1, <3>2 DEF RememberInv, ForgetInv, m, p
  <2>2. CASE d # c
    <3>1. RememberInv(d) /\ Alike(calls'[d], calls[d])
      BY <1>6, <2>2 DEF ReadsInv
    <3>2. Remembering(d) => calls[d].id # m
      BY <1>3, <2>2
    <3>3. calls'[c].id = m
      BY <1>4
    <3>4. RememberInv(d)'
      <4>1. ASSUME Remembering(d)
            PROVE  /\ calls[d].id \in bodies' /\ calls[d].id \notin queued' \cup gone'
                   /\ filed'[calls[d].id] = 0 /\ \A q \in Host : placed'[q][calls[d].id] = 0
                   /\ calls[d].id \in described' <=> calls[d].id \in described
        BY <1>1, <3>1, <3>2, <4>1 DEF RememberInv
      <4> QED BY <1>1, <1>6, <1>7, <2>2, <3>2, <3>3, <4>1, RememberKept
    <3> QED BY <1>1, <3>1, <3>4, ForgetKept
  <2> QED BY <2>1, <2>2
<1> QED
  <2>1. \A d \in Call : d # c /\ Reading(d) => Forgetting \subseteq calls[d].cause
    BY DEF ReadsInv, ReadInv
  <2>2. calls'[c].got \cap calls'[c].never = {}
    BY <1>4 DEF ReadsInv, NeverAnswered
  <2>3. \A d \in Call : d # c /\ Reading(d) =>
           /\ calls'[d].must \cap Superseded' \subseteq Superseded
           /\ calls'[d].never \cap Superseded \subseteq Superseded'
    BY <1>4, <1>9
  <2>4. \A d \in Call : d # c /\ Reading(d) =>
           /\ Forgetting' \subseteq calls'[d].cause
           /\ calls'[d].must \cap (gone' \cup cut' \cup Forgetting') \subseteq gone \cup cut \cup Forgetting
           /\ cut \subseteq cut' \cup calls'[d].cause
           /\ bodies \subseteq bodies' \cup calls'[d].cause
           /\ \A x \in Memory : placed[calls[d].by][x] # 0 =>
                placed'[calls[d].by][x] # 0 \/ x \in calls'[d].cause
    BY <1>1, <1>4, <1>8, <2>1
  <2>5. \A d \in Call : d # c =>
           /\ calls'[d].must \subseteq calls[d].must /\ calls'[d].never \subseteq calls[d].never
           /\ calls[d].cause \subseteq calls'[d].cause
    BY <1>4
  <2> QED BY <1>1, <1>6, <1>7, <1>10, <1>11, <1>12, <1>13, <1>14, <2>2, <2>3, <2>4, <2>5, WriteStep

(* The end of a call that writes, by an answer or an error. *)
LEMMA WriteEnds ==
  ASSUME ReadsInv, NEW c \in Call, calls' = [calls EXCEPT ![c] = Idle]
  PROVE  /\ calls' \in [Call -> CallRow] /\ calls'[c] = Idle
         /\ \A d \in Call : d # c => calls'[d] = calls[d] /\ Alike(calls'[d], calls[d])
         /\ ~Forgets(c)' /\ ~Removes(c)' /\ ~Reading(c)' /\ ~Remembering(c)'
         /\ minted' = minted =>
              \A d \in Call : /\ calls'[d].id \in minted' \cup {NoMemory}
                              /\ calls'[d].old \in minted' \cup {NoMemory}
                              /\ calls'[d].found \subseteq minted'
                              /\ calls'[d].at # "idle" => calls'[d].by \in Host
                              /\ Remembering(d)' \/ Forgets(d)' => calls'[d].id \in minted'
         /\ calls'[c].got = {} /\ ForgetInv(c)' /\ RememberInv(c)'
<1>1. /\ calls' \in [Call -> CallRow] /\ calls'[c] = Idle
      /\ \A d \in Call : d # c => calls'[d] = calls[d]
  BY IdleCall, OneCall DEF ReadsInv
<1>2. \A d \in Call : d # c => Alike(calls'[d], calls[d])
  BY <1>1 DEF Alike
<1>3. ~Forgets(c)' /\ ~Removes(c)' /\ ~Reading(c)' /\ ~Remembering(c)'
  BY <1>1, IdleCall DEF Forgets, Removes, Reading, Looks, Fetches, Remembering
<1>4. ForgetInv(c)' /\ RememberInv(c)'
  BY <1>1, <1>3, IdleCall DEF ForgetInv, RememberInv
<1>5. calls'[c].id = NoMemory /\ calls'[c].old = NoMemory /\ calls'[c].found = {}
      /\ calls'[c].got = {} /\ calls'[c].at = "idle"
  BY <1>1, IdleCall
<1> QED BY <1>1, <1>2, <1>3, <1>4, <1>5, CallsMinted

LEMMA EnqueueStep ==
  ASSUME ReadsInv, NEW c \in Call, Enqueue(c)
  PROVE  ReadsInv'
<1> DEFINE m == calls[c].id
           p == calls[c].by
<1>1. /\ calls[c].at = "queue" /\ queued' = queued \cup {m}
      /\ known' = [known EXCEPT ![p] = @ \cup {m}] /\ calls' = [calls EXCEPT ![c] = Idle]
      /\ UNCHANGED <<bodies, described, replaces, vectors, searching, placed, network,
                     minted, behind, gone, goneTo, cut, forgets, cuts>>
  BY DEF Enqueue
<1>2. Remembering(c) /\ RememberInv(c)
  BY <1>1 DEF Remembering, ReadsInv
<1>3. /\ p \in Host /\ m \in minted /\ m \in Memory
      /\ m \in described /\ m \in vectors /\ m \in searching[p]
      /\ ~Forgets(c) /\ ~Removes(c)
      /\ \A d \in Call : Remembering(d) /\ d # c => calls[d].id # m
  BY <1>1, <1>2, OwnId DEF RememberInv
<1>4. /\ calls' \in [Call -> CallRow] /\ calls'[c] = Idle
      /\ \A d \in Call : d # c => calls'[d] = calls[d] /\ Alike(calls'[d], calls[d])
      /\ ~Forgets(c)' /\ ~Removes(c)' /\ ~Reading(c)' /\ ~Remembering(c)'
      /\ calls'[c].got = {} /\ ForgetInv(c)' /\ RememberInv(c)'
  BY <1>1, WriteEnds
<1> HIDE DEF m, p
<1>5. Forgetting' = Forgetting /\ Removing' = Removing /\ Superseded' = Superseded
  <2>1. \A d \in Call : d # c => Alike(calls'[d], calls[d])
    BY <1>4
  <2>2. Forgetting' = Forgetting /\ Removing' = Removing
    BY <1>3, <1>4, <2>1, OtherCalls
  <2> QED BY <1>1, <2>2 DEF Superseded
<1>6. \A q \in Host : known'[q] = IF q = p THEN known[q] \cup {m} ELSE known[q]
  BY <1>1, <1>3 DEF ReadsInv, ReadTypes
<1>7. ReadTypes'
  BY <1>1, <1>3, <1>4 DEF ReadsInv, ReadTypes
<1>8. NamesMinted'
  <2>1. \A d \in Call : /\ calls'[d].id \in minted' \cup {NoMemory}
                        /\ calls'[d].old \in minted' \cup {NoMemory}
                        /\ calls'[d].found \subseteq minted'
                        /\ calls'[d].at # "idle" => calls'[d].by \in Host
                        /\ Remembering(d)' \/ Forgets(d)' => calls'[d].id \in minted'
    BY <1>1, WriteEnds
  <2> QED BY <1>1, <1>3, <2>1 DEF ReadsInv, NamesMinted
<1>9. PlacesHold'
  BY <1>1 DEF ReadsInv, PlacesHold
<1>10. TracesHold'
  BY <1>1, <1>3, <1>5, <1>6 DEF ReadsInv, TracesHold, Unsettled
<1>11. ASSUME NEW d \in Call PROVE RememberInv(d)' /\ ForgetInv(d)'
  <2>1. CASE d = c
    BY <1>4, <2>1
  <2>2. CASE d # c
    <3>1. RememberInv(d) /\ Alike(calls'[d], calls[d])
      BY <1>4, <2>2 DEF ReadsInv
    <3>2. Remembering(d) => calls[d].id # m
      BY <1>3, <2>2
    <3>3. ASSUME Remembering(d)
          PROVE  /\ calls[d].id \in bodies' /\ calls[d].id \notin queued' \cup gone'
                 /\ filed'[calls[d].id] = 0 /\ \A q \in Host : placed'[q][calls[d].id] = 0
      BY <1>1, <3>1, <3>2, <3>3 DEF RememberInv
    <3>4. RememberInv(d)'
      <4>1. ~(calls'[c].at = "unfile")
        BY <1>4 DEF Forgets
      <4> QED BY <1>1, <1>4, <2>2, <3>3, <4>1, RememberKept
    <3> QED BY <1>1, <3>1, <3>4, ForgetKept
  <2> QED BY <2>1, <2>2
<1> QED
  <2>1. \A d \in Call : d # c /\ Reading(d) => Forgetting \subseteq calls[d].cause
    BY DEF ReadsInv, ReadInv
  <2>2. \A q \in Host : known[q] \subseteq known'[q]
    BY <1>6
  <2> QED BY <1>1, <1>4, <1>5, <1>7, <1>8, <1>9, <1>10, <1>11, <2>1, <2>2, WriteStep

LEMMA StoreFailsStep ==
  ASSUME ReadsInv, NEW c \in Call, StoreFails(c)
  PROVE  ReadsInv'
<1> DEFINE m == calls[c].id
<1>1. /\ cuts < MaxCut /\ cuts' = cuts + 1 /\ cut' = cut \cup ({m} \cap Forgetting)
      /\ calls' = [calls EXCEPT ![c] = Idle]
      /\ UNCHANGED <<device, searching, placed, network, minted, known, behind, gone, goneTo, forgets>>
  BY DEF StoreFails
<1>2. /\ calls' \in [Call -> CallRow] /\ calls'[c] = Idle
      /\ \A d \in Call : d # c => calls'[d] = calls[d] /\ Alike(calls'[d], calls[d])
      /\ ~Forgets(c)' /\ ~Removes(c)' /\ ~Reading(c)' /\ ~Remembering(c)'
      /\ calls'[c].got = {} /\ ForgetInv(c)' /\ RememberInv(c)'
  BY <1>1, WriteEnds
<1>3. Forgetting \subseteq Memory /\ Removing \subseteq Forgetting
  BY SupersededNamed
<1> HIDE DEF m
<1>4. /\ Forgetting' \subseteq Forgetting /\ Removing' \subseteq Removing
      /\ Removing \subseteq Removing' \cup {m} /\ Superseded' = Superseded
  BY <1>1, <1>2, OtherCalls DEF Superseded, m
<1>5. Unsettled \subseteq Unsettled' /\ cut \subseteq cut'
  BY <1>1, <1>3, <1>4 DEF Unsettled
<1>6. ReadTypes'
  <2>1. cuts' \in 0..MaxCut
    BY <1>1, ReadsAssumption DEF ReadsInv, ReadTypes
  <2>2. cut' \subseteq Memory
    BY <1>1, <1>3 DEF ReadsInv, ReadTypes
  <2> QED BY <1>1, <1>2, <2>1, <2>2 DEF ReadsInv, ReadTypes
<1>7. NamesMinted'
  <2>1. \A d \in Call : /\ calls'[d].id \in minted' \cup {NoMemory}
                        /\ calls'[d].old \in minted' \cup {NoMemory}
                        /\ calls'[d].found \subseteq minted'
                        /\ calls'[d].at # "idle" => calls'[d].by \in Host
                        /\ Remembering(d)' \/ Forgets(d)' => calls'[d].id \in minted'
    BY <1>1, WriteEnds
  <2> QED BY <1>1, <2>1 DEF ReadsInv, NamesMinted
<1>8. PlacesHold'
  BY <1>1 DEF ReadsInv, PlacesHold
<1>9. TracesHold'
  BY <1>1, <1>5 DEF ReadsInv, TracesHold
<1>10. ASSUME NEW d \in Call PROVE RememberInv(d)' /\ ForgetInv(d)'
  <2>1. CASE d = c
    BY <1>2, <2>1
  <2>2. CASE d # c
    <3>1. RememberInv(d) /\ Alike(calls'[d], calls[d])
      BY <1>2, <2>2 DEF ReadsInv
    <3>2. ASSUME Remembering(d)
          PROVE  /\ calls[d].id \in bodies' /\ calls[d].id \notin queued' \cup gone'
                 /\ filed'[calls[d].id] = 0 /\ \A q \in Host : placed'[q][calls[d].id] = 0
      BY <1>1, <3>1, <3>2 DEF RememberInv
    <3>3. RememberInv(d)'
      <4>1. ~(calls'[c].at = "unfile")
        BY <1>2 DEF Forgets
      <4> QED BY <1>1, <1>2, <2>2, <3>2, <4>1, RememberKept
    <3> QED BY <1>1, <3>1, <3>3, ForgetKept
  <2> QED BY <2>1, <2>2
<1> QED
  <2>1. \A d \in Call : d # c /\ Reading(d) => Forgetting' \subseteq calls'[d].cause
    BY <1>2, <1>4 DEF ReadsInv, ReadInv
  <2>2. \A d \in Call : calls'[d].must \cap (gone' \cup cut' \cup Forgetting') \subseteq gone \cup cut \cup Forgetting
    BY <1>1, <1>4
  <2> QED BY <1>1, <1>2, <1>4, <1>5, <1>6, <1>7, <1>8, <1>9, <1>10, <2>1, <2>2, WriteStep

(* Withdraw: the reads under way are told, whatever they are doing. *)
LEMMA StartForgetStep ==
  ASSUME ReadsInv, NEW c \in Call, NEW p \in Host, NEW m \in Memory, StartForget(c, p, m)
  PROVE  ReadsInv'
<1> DEFINE waits == m \in queued
           row == [Idle EXCEPT !.at = "unfile", !.by = p, !.id = m, !.flag = waits]
<1>1. /\ calls[c] = Idle /\ m \in minted /\ queued' = queued \ {m}
      /\ calls' = [d \in Call |->
           IF d = c THEN row
           ELSE IF calls[d] = Idle THEN Idle
           ELSE [calls[d] EXCEPT !.must = @ \ {m}, !.cause = @ \cup {m}]]
      /\ UNCHANGED <<bodies, described, replaces, vectors, searching, placed, network,
                     minted, known, behind, gone, goneTo, cut, cuts>>
  BY DEF StartForget
<1>2. /\ row \in CallRow /\ row.at = "unfile" /\ row.by = p /\ row.id = m /\ row.flag = waits
      /\ row.old = NoMemory /\ row.found = {} /\ row.got = {}
  <2>1. waits \in BOOLEAN
    OBVIOUS
  <2> HIDE DEF waits
  <2> QED BY <2>1, IdleCall, ReadsAssumption DEF Idle, CallRow
<1> HIDE DEF row
<1>3. ASSUME NEW d \in Call
      PROVE  /\ calls'[d] \in CallRow
             /\ d = c => calls'[d] = row
             /\ d # c => /\ Alike(calls'[d], calls[d]) /\ calls'[d].never = calls[d].never
                         /\ calls'[d].must \subseteq calls[d].must
                         /\ calls[d].cause \subseteq calls'[d].cause
             /\ d # c /\ Reading(d) => calls'[d].must = calls[d].must \ {m} /\ m \in calls'[d].cause
  <2>1. calls[d] \in CallRow
    BY DEF ReadsInv, ReadTypes
  <2>2. CASE d = c
    BY <1>1, <1>2, <2>2
  <2>3. CASE d # c /\ calls[d] = Idle
    <3>1. calls'[d] = calls[d] /\ ~Reading(d)
      BY <1>1, <2>3, IdleCall DEF Reading, Looks, Fetches
    <3> QED BY <2>1, <2>3, <3>1 DEF Alike
  <2>4. CASE d # c /\ calls[d] # Idle
    <3>1. calls'[d] = [calls[d] EXCEPT !.must = calls[d].must \ {m}, !.cause = calls[d].cause \cup {m}]
      BY <1>1, <2>4
    <3>2. calls'[d] \in CallRow /\ calls'[d].must = calls[d].must \ {m}
          /\ calls'[d].cause = calls[d].cause \cup {m} /\ calls'[d].never = calls[d].never
          /\ Alike(calls'[d], calls[d])
      <4>1. calls[d].must \ {m} \in SUBSET Memory /\ calls[d].cause \cup {m} \in SUBSET Memory
        BY <2>1 DEF CallRow
      <4> DEFINE must == calls[d].must \ {m}
                 cause == calls[d].cause \cup {m}
      <4> HIDE DEF must, cause
      <4>2. calls'[d] = [calls[d] EXCEPT !.must = must, !.cause = cause]
        BY <3>1 DEF must, cause
      <4>3. must \in SUBSET Memory /\ cause \in SUBSET Memory
        BY <4>1 DEF must, cause
      <4>4. calls'[d] \in CallRow /\ calls'[d].must = must /\ calls'[d].cause = cause
            /\ calls'[d].never = calls[d].never
        BY <2>1, <4>2, <4>3 DEF CallRow
      <4>5. Alike(calls'[d], calls[d])
        BY <2>1, <4>2 DEF CallRow, Alike
      <4> QED BY <4>4, <4>5 DEF must, cause
    <3> QED BY <2>4, <3>2
  <2> QED BY <2>2, <2>3, <2>4
<1>4. calls' \in [Call -> CallRow]
  <2>1. calls' = [d \in Call |-> calls'[d]]
    BY <1>1
  <2> QED BY <1>3, <2>1
<1>5. \A d \in Call : d # c => Alike(calls'[d], calls[d])
  BY <1>3
<1>6. ~Remembering(c)' /\ ~Removes(c)' /\ ~Reading(c)' /\ ~Forgets(c) /\ ~Removes(c) /\ ~Remembering(c)
      /\ calls'[c] = row
  <2>1. calls'[c] = row
    BY <1>3
  <2> QED BY <1>1, <1>2, <2>1, IdleCall DEF Forgets, Removes, Reading, Looks, Fetches, Remembering
<1>7. /\ Forgetting' \subseteq Forgetting \cup {m} /\ Removing' = Removing /\ Superseded' = Superseded
      /\ Unsettled' = Unsettled
  BY <1>1, <1>2, <1>5, <1>6, OtherCalls DEF Superseded, Unsettled
<1>8. ReadTypes'
  BY <1>1, <1>4 DEF ReadsInv, ReadTypes
<1>9. NamesMinted'
  <2>1. \A d \in Call : /\ calls'[d].id \in minted' \cup {NoMemory}
                        /\ calls'[d].old \in minted' \cup {NoMemory}
                        /\ calls'[d].found \subseteq minted'
                        /\ calls'[d].at # "idle" => calls'[d].by \in Host
                        /\ Remembering(d)' \/ Forgets(d)' => calls'[d].id \in minted'
    BY <1>1, <1>2, <1>5, <1>6, CallsMinted
  <2> QED BY <1>1, <2>1 DEF ReadsInv, NamesMinted
<1>10. PlacesHold'
  BY <1>1 DEF ReadsInv, PlacesHold
<1>11. TracesHold'
  BY <1>1, <1>7 DEF ReadsInv, TracesHold
<1>12. ASSUME NEW d \in Call PROVE RememberInv(d)' /\ ForgetInv(d)'
  <2>1. CASE d = c
    <3>1. calls'[d].at # "unrow"
      BY <1>2, <1>6, <2>1
    <3> QED BY <1>6, <2>1, <3>1 DEF RememberInv, ForgetInv
  <2>2. CASE d # c
    <3>1. RememberInv(d) /\ Alike(calls'[d], calls[d])
      BY <1>5, <2>2 DEF ReadsInv
    <3>2. ASSUME Remembering(d)
          PROVE  /\ calls[d].id \in bodies' /\ calls[d].id \notin queued' \cup gone'
                 /\ filed'[calls[d].id] = 0 /\ \A q \in Host : placed'[q][calls[d].id] = 0
                 /\ row.flag => calls[d].id # m
      BY <1>1, <1>2, <3>1, <3>2 DEF RememberInv
    <3>3. RememberInv(d)'
      BY <1>1, <1>2, <1>5, <1>6, <2>2, <3>2, RememberKept
    <3> QED BY <1>1, <3>1, <3>3, ForgetKept
  <2> QED BY <2>1, <2>2
<1> QED
  <2>1. \A d \in Call : d # c /\ Reading(d) => Forgetting' \subseteq calls'[d].cause
    <3>1. \A d \in Call : d # c /\ Reading(d) => Forgetting \subseteq calls[d].cause
      BY DEF ReadsInv, ReadInv
    <3> QED BY <1>3, <1>7, <3>1
  <2>2. \A d \in Call : d # c /\ Reading(d) =>
          calls'[d].must \cap (gone' \cup cut' \cup Forgetting') \subseteq gone \cup cut \cup Forgetting
    BY <1>1, <1>3, <1>7
  <2>3. \A d \in Call : d # c =>
           /\ calls'[d].must \subseteq calls[d].must /\ calls'[d].never \subseteq calls[d].never
           /\ calls[d].cause \subseteq calls'[d].cause
    BY <1>3
  <2>4. calls'[c].got = {}
    BY <1>2, <1>6
  <2> QED BY <1>1, <1>5, <1>6, <1>7, <1>8, <1>9, <1>10, <1>11, <1>12, <2>1, <2>2, <2>3, <2>4, WriteStep

(* The memory a forget removes is excused in every read under way. *)
LEMMA BeingForgotten ==
  ASSUME ReadsInv, NEW c \in Call, Forgets(c)
  PROVE  /\ calls[c].id \in minted /\ calls[c].id \in Memory /\ calls[c].by \in Host
         /\ calls[c].id \in Forgetting /\ ~Remembering(c) /\ ~Reading(c)
         /\ \A d \in Call : Reading(d) =>
              /\ calls[c].id \in calls[d].cause /\ calls[c].id \notin calls[d].must
              /\ Forgetting \subseteq calls[d].cause /\ calls[d].must \cap Forgetting = {}
         /\ Removes(c) \/ (calls[c].at = "unfile" /\ calls[c].flag) =>
              \A d \in Call : Remembering(d) => calls[d].id # calls[c].id
<1>1. /\ calls[c].id \in minted /\ minted \subseteq Memory /\ calls[c].by \in Host
      /\ ~Remembering(c) /\ ~Reading(c)
  BY DEF ReadsInv, ReadTypes, NamesMinted, Forgets, Remembering, Reading, Looks, Fetches
<1>2. calls[c].id \in Forgetting
  BY DEF Forgetting, Forgets
<1>3. \A d \in Call : Reading(d) => Forgetting \subseteq calls[d].cause /\ calls[d].must \cap Forgetting = {}
  BY DEF ReadsInv, ReadInv
<1>4. Removes(c) \/ (calls[c].at = "unfile" /\ calls[c].flag) =>
        \A d \in Call : Remembering(d) => calls[d].id # calls[c].id
  BY DEF ReadsInv, RememberInv
<1> QED BY <1>1, <1>2, <1>3, <1>4

(***************************************************************************)
(* What a step of a forget that goes on to another stage does to the       *)
(* calls.                                                                  *)
(***************************************************************************)
LEMMA ForgetGoesOn ==
  ASSUME ReadsInv, NEW c \in Call, Forgets(c),
         NEW next \in {"unbody", "unvector", "unrow", "refused"}, Goes(c, next),
         minted' = minted
  PROVE  /\ calls' \in [Call -> CallRow]
         /\ calls'[c].at = next /\ calls'[c].by = calls[c].by /\ calls'[c].id = calls[c].id
         /\ \A d \in Call : d # c => Alike(calls'[d], calls[d]) /\ calls'[d] = calls[d]
         /\ \A d \in Call : /\ calls'[d].id \in minted' \cup {NoMemory}
                            /\ calls'[d].old \in minted' \cup {NoMemory}
                            /\ calls'[d].found \subseteq minted'
                            /\ calls'[d].at # "idle" => calls'[d].by \in Host
                            /\ Remembering(d)' \/ Forgets(d)' => calls'[d].id \in minted'
         /\ ~Remembering(c)' /\ ~Reading(c)' /\ RememberInv(c)'
         /\ calls'[c].got \cap calls'[c].never = {}
         /\ Forgetting' \subseteq Forgetting /\ Removing' \subseteq Removing \cup {calls[c].id}
         /\ next # "refused" => Removing' = Removing \cup {calls[c].id}
         /\ ~Removes(c) => Removing \subseteq Removing'
<1> DEFINE row == [calls[c] EXCEPT !.at = next]
<1>1. /\ calls' = [calls EXCEPT ![c] = row] /\ row \in CallRow
      /\ row.at = next /\ row.by = calls[c].by /\ row.id = calls[c].id /\ row.old = calls[c].old
      /\ row.found = calls[c].found /\ row.got = calls[c].got /\ row.never = calls[c].never
  <2>1. next \in Stage /\ ReadTypes
    BY DEF Stage, ReadsInv
  <2> QED BY <2>1, GoesOn
<1> HIDE DEF row
<1>2. /\ calls' \in [Call -> CallRow] /\ calls'[c] = row
      /\ \A d \in Call : d # c => calls'[d] = calls[d]
  BY <1>1, OneCall DEF ReadsInv
<1>3. \A d \in Call : d # c => Alike(calls'[d], calls[d])
  BY <1>2 DEF Alike
<1>4. ~Remembering(c)' /\ ~Reading(c)' /\ (next # "refused" => Removes(c)')
  BY <1>1, <1>2 DEF Remembering, Reading, Looks, Fetches, Removes
<1>5. RememberInv(c)'
  BY <1>4 DEF RememberInv
<1>6. calls'[c].got \cap calls'[c].never = {}
  BY <1>1, <1>2 DEF ReadsInv, NeverAnswered
<1>7. Forgetting' \subseteq Forgetting
  BY <1>1, <1>2, <1>3, OtherCalls, BeingForgotten
<1>8. /\ Removing' \subseteq Removing \cup {calls[c].id} /\ (~Removes(c) => Removing \subseteq Removing')
      /\ next # "refused" => Removing' = Removing \cup {calls[c].id}
  <2>1. /\ Removing \subseteq Removing' \cup {calls[c].id}
        /\ Removing' \subseteq Removing \cup {calls[c].id}
        /\ ~Removes(c) => Removing \subseteq Removing'
    BY <1>1, <1>2, <1>3, OtherCalls
  <2>2. next # "refused" => calls[c].id \in Removing'
    BY <1>1, <1>2, <1>4 DEF Removing
  <2> QED BY <2>1, <2>2
<1>9. \A d \in Call : /\ calls'[d].id \in minted' \cup {NoMemory}
                      /\ calls'[d].old \in minted' \cup {NoMemory}
                      /\ calls'[d].found \subseteq minted'
                      /\ calls'[d].at # "idle" => calls'[d].by \in Host
                      /\ Remembering(d)' \/ Forgets(d)' => calls'[d].id \in minted'
  <2>1. /\ calls[c].old \in minted \cup {NoMemory} /\ calls[c].found \subseteq minted
        /\ calls[c].id \in minted /\ calls[c].by \in Host
    BY BeingForgotten DEF ReadsInv, NamesMinted
  <2> QED BY <1>1, <1>2, <1>3, <2>1, CallsMinted
<1> QED BY <1>1, <1>2, <1>3, <1>4, <1>5, <1>6, <1>7, <1>8, <1>9

LEMMA UnfileStep ==
  ASSUME ReadsInv, NEW c \in Call, Unfile(c)
  PROVE  ReadsInv'
<1> DEFINE m == calls[c].id
           p == calls[c].by
<1>1. /\ calls[c].at = "unfile"
      /\ UNCHANGED <<device, searching, objects, slabs, minted, known, gone, goneTo, cut, forgets, cuts>>
  BY DEF Unfile
<1>2. Forgets(c) /\ ~Removes(c)
  BY <1>1 DEF Forgets, Removes
<1>3. m \in minted /\ m \in Memory /\ p \in Host /\ m \in Forgetting
  BY <1>2, BeingForgotten
<1>4. PICK next \in {"unbody", "refused"} : Goes(c, next) /\
        (next = "unbody" => placed[p][m] # 0 \/ calls[c].flag)
  BY <1>1 DEF Unfile
<1>5. /\ calls' \in [Call -> CallRow]
      /\ calls'[c].at = next /\ calls'[c].by = p /\ calls'[c].id = m
      /\ \A d \in Call : d # c => Alike(calls'[d], calls[d]) /\ calls'[d] = calls[d]
      /\ \A d \in Call : /\ calls'[d].id \in minted' \cup {NoMemory}
                         /\ calls'[d].old \in minted' \cup {NoMemory}
                         /\ calls'[d].found \subseteq minted'
                         /\ calls'[d].at # "idle" => calls'[d].by \in Host
                         /\ Remembering(d)' \/ Forgets(d)' => calls'[d].id \in minted'
      /\ ~Remembering(c)' /\ ~Reading(c)' /\ RememberInv(c)'
      /\ calls'[c].got \cap calls'[c].never = {}
      /\ Forgetting' \subseteq Forgetting /\ Removing \subseteq Removing'
  BY <1>1, <1>2, <1>4, ForgetGoesOn
<1> HIDE DEF m, p
<1>6. /\ \A x \in Memory : x # m => filed'[x] = filed[x] /\ \A q \in Host : placed'[q][x] = placed[q][x]
      /\ filed'[m] \in {0, filed[m]} /\ \A q \in Host : placed'[q][m] \in {0, placed[q][m]}
      /\ placed[p][m] # 0 => filed'[m] = 0 /\ placed'[p][m] = 0 /\ \A q \in Host : q # p => m \in behind'[q]
      /\ placed[p][m] = 0 => filed'[m] = filed[m] /\ placed' = placed
      /\ \A q \in Host : behind[q] \subseteq behind'[q]
      /\ behind' \in [Host -> SUBSET Memory]
      /\ filed' \in [Memory -> 0..slabs] /\ placed' \in [Host -> [Memory -> 0..slabs]]
  <2>1. /\ filed \in [Memory -> 0..slabs] /\ placed \in [Host -> [Memory -> 0..slabs]]
        /\ behind \in [Host -> SUBSET Memory] /\ slabs \in Nat
    BY DEF ReadsInv, ReadTypes
  <2>2. CASE placed[p][m] # 0
    <3>1. /\ placed' = [placed EXCEPT ![p][m] = 0] /\ filed' = [filed EXCEPT ![m] = 0]
          /\ behind' = [q \in Host |-> IF q = p THEN behind[q] ELSE behind[q] \cup {m}]
      BY <2>2 DEF Unfile, LeftBehind, m, p
    <3>2. 0 \in 0..slabs
      BY <2>1
    <3>3. filed' \in [Memory -> 0..slabs] /\ placed' \in [Host -> [Memory -> 0..slabs]]
      BY <1>3, <2>1, <3>1, <3>2
    <3>4. behind' \in [Host -> SUBSET Memory] /\ \A q \in Host : behind[q] \subseteq behind'[q]
      BY <1>3, <2>1, <3>1
    <3>5. \A q \in Host : q # p => m \in behind'[q]
      BY <3>1
    <3> QED BY <1>3, <2>1, <2>2, <3>1, <3>3, <3>4, <3>5
  <2>3. CASE placed[p][m] = 0
    <3>1. UNCHANGED <<placed, filed, behind>>
      BY <2>3 DEF Unfile, m, p
    <3> QED BY <1>3, <2>1, <2>3, <3>1
  <2> QED BY <2>2, <2>3
<1>7. Superseded' = Superseded /\ Unsettled \subseteq Unsettled'
  BY <1>1, <1>5 DEF Superseded, Unsettled
<1>8. ReadTypes'
  BY <1>1, <1>5, <1>6 DEF ReadsInv, ReadTypes
<1>9. NamesMinted'
  <2>1. \A x \in Memory, q \in Host : placed'[q][x] # 0 => x \in minted
    BY <1>3, <1>6 DEF ReadsInv, NamesMinted
  <2> QED BY <1>1, <1>5, <2>1 DEF ReadsInv, NamesMinted
<1>10. PlacesHold'
  <2>1. ASSUME NEW x \in Memory PROVE filed'[x] # 0 => <<x, filed'[x]>> \in objects
    BY <1>6 DEF ReadsInv, PlacesHold
  <2>2. ASSUME NEW x \in Memory, NEW q \in Host
        PROVE  placed'[q][x] = filed'[x] \/ x \in behind'[q]
    <3>1. placed[q][x] = filed[x] \/ x \in behind[q]
      BY DEF ReadsInv, PlacesHold
    <3> QED BY <1>3, <1>6, <3>1
  <2> QED BY <1>1, <2>1, <2>2 DEF PlacesHold
<1>11. TracesHold'
  BY <1>1, <1>6, <1>7 DEF ReadsInv, TracesHold
<1>12. ASSUME NEW d \in Call PROVE RememberInv(d)' /\ ForgetInv(d)'
  <2>1. CASE d = c
    <3>1. calls'[d].at # "unrow"
      BY <1>5, <2>1
    <3> QED BY <1>5, <2>1, <3>1 DEF ForgetInv
  <2>2. CASE d # c
    <3>1. RememberInv(d) /\ Alike(calls'[d], calls[d]) /\ (Remembering(d) => calls[d].id \in Memory)
      BY <1>5, <2>2, OwnId DEF ReadsInv
    <3>2. ASSUME Remembering(d)
          PROVE  /\ calls[d].id \in bodies' /\ calls[d].id \notin queued' \cup gone'
                 /\ filed'[calls[d].id] = 0 /\ \A q \in Host : placed'[q][calls[d].id] = 0
                 /\ next = "unbody" => calls[d].id # m
      <4>1. /\ calls[d].id \in bodies /\ calls[d].id \notin queued \cup gone
            /\ filed[calls[d].id] = 0 /\ \A q \in Host : placed[q][calls[d].id] = 0
        BY <3>1, <3>2 DEF RememberInv
      <4>2. filed'[calls[d].id] = 0 /\ \A q \in Host : placed'[q][calls[d].id] = 0
        BY <1>6, <3>1, <3>2, <4>1
      <4>3. next = "unbody" => calls[d].id # m
        BY <1>1, <1>2, <1>3, <1>4, <3>2, <4>1, BeingForgotten DEF m
      <4> QED BY <1>1, <4>1, <4>2, <4>3
    <3>3. RememberInv(d)'
      <4>1. Removes(c)' \/ (calls'[c].at = "unfile" /\ calls'[c].flag) => next = "unbody"
        BY <1>5 DEF Removes
      <4> QED BY <1>1, <1>5, <2>2, <3>2, <4>1, RememberKept
    <3> QED BY <1>1, <1>6, <3>1, <3>3, ForgetKept
  <2> QED BY <2>1, <2>2
<1> QED
  <2>1. \A d \in Call : d # c /\ Reading(d) => Forgetting' \subseteq calls'[d].cause /\ m \in calls'[d].cause
    BY <1>2, <1>5, BeingForgotten DEF m
  <2>2. \A d \in Call : d # c /\ Reading(d) =>
          calls'[d].must \cap (gone' \cup cut' \cup Forgetting') \subseteq gone \cup cut \cup Forgetting
    BY <1>1, <1>5
  <2>3. \A d \in Call : d # c /\ Reading(d) =>
          \A x \in Memory : placed[calls[d].by][x] # 0 =>
                placed'[calls[d].by][x] # 0 \/ x \in calls'[d].cause
    <3>1. \A d \in Call : Reading(d) => calls[d].by \in Host
      BY DEF ReadsInv, NamesMinted, Reading, Looks, Fetches
    <3> QED BY <1>6, <2>1, <3>1
  <2> QED BY <1>1, <1>5, <1>6, <1>7, <1>8, <1>9, <1>10, <1>11, <1>12, <2>1, <2>2, <2>3, WriteStep

LEMMA ForgetBodyStep ==
  ASSUME ReadsInv, NEW c \in Call, ForgetBody(c)
  PROVE  ReadsInv'
<1> DEFINE m == calls[c].id
<1>1. /\ calls[c].at = "unbody" /\ bodies' = bodies \ {m} /\ Goes(c, "unvector")
      /\ UNCHANGED <<described, replaces, vectors, queued, searching, placed, network, story>>
  BY DEF ForgetBody
<1>2. Forgets(c) /\ Removes(c)
  BY <1>1 DEF Forgets, Removes
<1>3. m \in minted /\ m \in Memory /\ \A d \in Call : Remembering(d) => calls[d].id # m
  BY <1>2, BeingForgotten
<1>4. /\ calls' \in [Call -> CallRow]
      /\ calls'[c].at = "unvector" /\ calls'[c].id = m
      /\ \A d \in Call : d # c => Alike(calls'[d], calls[d]) /\ calls'[d] = calls[d]
      /\ \A d \in Call : /\ calls'[d].id \in minted' \cup {NoMemory}
                         /\ calls'[d].old \in minted' \cup {NoMemory}
                         /\ calls'[d].found \subseteq minted'
                         /\ calls'[d].at # "idle" => calls'[d].by \in Host
                         /\ Remembering(d)' \/ Forgets(d)' => calls'[d].id \in minted'
      /\ ~Remembering(c)' /\ ~Reading(c)' /\ RememberInv(c)'
      /\ calls'[c].got \cap calls'[c].never = {}
      /\ Forgetting' \subseteq Forgetting /\ Removing' = Removing \cup {m}
  BY <1>1, <1>2, ForgetGoesOn
<1> HIDE DEF m
<1>5. Superseded' = Superseded /\ Unsettled' = Unsettled \cup {m}
  BY <1>1, <1>4 DEF Superseded, Unsettled
<1>6. ReadTypes'
  BY <1>1, <1>4 DEF ReadsInv, ReadTypes
<1>7. NamesMinted' /\ PlacesHold'
  BY <1>1, <1>4 DEF ReadsInv, NamesMinted, PlacesHold
<1>8. TracesHold'
  BY <1>1, <1>5 DEF ReadsInv, TracesHold
<1>9. ASSUME NEW d \in Call PROVE RememberInv(d)' /\ ForgetInv(d)'
  <2>1. CASE d = c
    <3>1. calls'[d].at # "unrow"
      BY <1>4, <2>1
    <3> QED BY <1>4, <2>1, <3>1 DEF ForgetInv
  <2>2. CASE d # c
    <3>1. RememberInv(d) /\ Alike(calls'[d], calls[d])
      BY <1>4, <2>2 DEF ReadsInv
    <3>2. ASSUME Remembering(d)
          PROVE  /\ calls[d].id \in bodies' /\ calls[d].id \notin queued' \cup gone'
                 /\ filed'[calls[d].id] = 0 /\ \A q \in Host : placed'[q][calls[d].id] = 0
                 /\ calls[d].id # m
      BY <1>1, <1>3, <3>1, <3>2 DEF RememberInv
    <3>3. RememberInv(d)'
      BY <1>1, <1>4, <2>2, <3>2, RememberKept
    <3> QED BY <1>1, <3>1, <3>3, ForgetKept
  <2> QED BY <2>1, <2>2
<1> QED
  <2>1. \A d \in Call : d # c /\ Reading(d) => Forgetting' \subseteq calls'[d].cause /\ m \in calls'[d].cause
    BY <1>2, <1>4, BeingForgotten DEF m
  <2>2. \A d \in Call : d # c /\ Reading(d) =>
          /\ calls'[d].must \cap (gone' \cup cut' \cup Forgetting') \subseteq gone \cup cut \cup Forgetting
          /\ bodies \subseteq bodies' \cup calls'[d].cause
    BY <1>1, <1>4, <2>1
  <2> QED BY <1>1, <1>4, <1>5, <1>6, <1>7, <1>8, <1>9, <2>1, <2>2, WriteStep

LEMMA RemoveVectorStep ==
  ASSUME ReadsInv, NEW c \in Call, RemoveVector(c)
  PROVE  ReadsInv'
<1> DEFINE m == calls[c].id
           p == calls[c].by
<1>1. /\ calls[c].at = "unvector" /\ vectors' = vectors \ {m} /\ Goes(c, "unrow")
      /\ searching' = [searching EXCEPT ![p] = @ \ {m}]
      /\ behind' = [q \in Host |-> IF q = p THEN behind[q] ELSE behind[q] \cup {m}]
      /\ UNCHANGED <<bodies, described, replaces, queued, placed, network,
                     minted, known, gone, goneTo, cut, forgets, cuts>>
  BY DEF RemoveVector, LeftBehind
<1>2. Forgets(c) /\ Removes(c)
  BY <1>1 DEF Forgets, Removes
<1>3. m \in minted /\ m \in Memory /\ p \in Host /\ \A d \in Call : Remembering(d) => calls[d].id # m
  BY <1>2, BeingForgotten
<1>4. /\ calls' \in [Call -> CallRow]
      /\ calls'[c].at = "unrow" /\ calls'[c].id = m /\ calls'[c].by = p
      /\ \A d \in Call : d # c => Alike(calls'[d], calls[d]) /\ calls'[d] = calls[d]
      /\ \A d \in Call : /\ calls'[d].id \in minted' \cup {NoMemory}
                         /\ calls'[d].old \in minted' \cup {NoMemory}
                         /\ calls'[d].found \subseteq minted'
                         /\ calls'[d].at # "idle" => calls'[d].by \in Host
                         /\ Remembering(d)' \/ Forgets(d)' => calls'[d].id \in minted'
      /\ ~Remembering(c)' /\ ~Reading(c)' /\ RememberInv(c)'
      /\ calls'[c].got \cap calls'[c].never = {}
      /\ Forgetting' \subseteq Forgetting /\ Removing' = Removing \cup {m}
  BY <1>1, <1>2, ForgetGoesOn
<1> HIDE DEF m, p
<1>5. Superseded' = Superseded /\ Unsettled' = Unsettled \cup {m}
  BY <1>1, <1>4 DEF Superseded, Unsettled
<1>6. /\ searching' \in [Host -> SUBSET Memory] /\ behind' \in [Host -> SUBSET Memory]
      /\ \A q \in Host : /\ searching'[q] = IF q = p THEN searching[q] \ {m} ELSE searching[q]
                         /\ behind'[q] = IF q = p THEN behind[q] ELSE behind[q] \cup {m}
  BY <1>1, <1>3 DEF ReadsInv, ReadTypes
<1>7. \A q \in Host : /\ searching'[q] \subseteq searching[q] /\ searching[q] \subseteq searching'[q] \cup {m}
                      /\ behind[q] \subseteq behind'[q]
                      /\ m \in searching'[q] => q # p /\ m \in behind'[q]
  BY <1>6
<1>8. ReadTypes'
  BY <1>1, <1>4, <1>6 DEF ReadsInv, ReadTypes
<1>9. NamesMinted'
  BY <1>1, <1>4, <1>7 DEF ReadsInv, NamesMinted
<1>10. PlacesHold'
  BY <1>1, <1>7 DEF ReadsInv, PlacesHold
<1>11. TracesHold'
  <2>1. ASSUME NEW q \in Host
        PROVE  /\ searching'[q] \subseteq bodies' \cup Unsettled' \cup behind'[q]
               /\ goneTo'[q] \subseteq gone' /\ goneTo'[q] \cap searching'[q] = {}
               /\ known'[q] \ (gone' \cup Unsettled') \subseteq described' \cap vectors' \cap searching'[q]
    BY <1>1, <1>5, <1>7 DEF ReadsInv, TracesHold
  <2> QED BY <1>1, <1>5, <2>1 DEF ReadsInv, TracesHold
<1>12. ASSUME NEW d \in Call PROVE RememberInv(d)' /\ ForgetInv(d)'
  <2>1. CASE d = c
    BY <1>1, <1>4, <1>7, <2>1 DEF ForgetInv
  <2>2. CASE d # c
    <3>1. RememberInv(d) /\ Alike(calls'[d], calls[d]) /\ (Remembering(d) => calls[d].by \in Host)
      BY <1>4, <2>2, OwnId DEF ReadsInv
    <3>2. ASSUME Remembering(d)
          PROVE  /\ calls[d].id \in bodies' /\ calls[d].id \notin queued' \cup gone'
                 /\ filed'[calls[d].id] = 0 /\ \A q \in Host : placed'[q][calls[d].id] = 0
                 /\ calls[d].id # m
      BY <1>1, <1>3, <3>1, <3>2 DEF RememberInv
    <3>3. RememberInv(d)'
      BY <1>1, <1>4, <1>7, <2>2, <3>1, <3>2, RememberKept
    <3> QED BY <1>1, <1>7, <3>1, <3>3, ForgetKept
  <2> QED BY <2>1, <2>2
<1> QED
  <2>1. \A d \in Call : d # c /\ Reading(d) => Forgetting' \subseteq calls'[d].cause
    BY <1>2, <1>4, BeingForgotten
  <2>2. \A d \in Call : d # c /\ Reading(d) =>
          calls'[d].must \cap (gone' \cup cut' \cup Forgetting') \subseteq gone \cup cut \cup Forgetting
    BY <1>1, <1>4
  <2> QED BY <1>1, <1>4, <1>5, <1>7, <1>8, <1>9, <1>10, <1>11, <1>12, <2>1, <2>2, WriteStep

LEMMA ForgetRankingMetaStep ==
  ASSUME ReadsInv, NEW c \in Call, ForgetRankingMeta(c)
  PROVE  ReadsInv'
<1> DEFINE m == calls[c].id
           p == calls[c].by
           old == replaces[m]
<1>1. /\ calls[c].at = "unrow" /\ described' = described \ {m}
      /\ replaces' = [replaces EXCEPT ![m] = NoMemory]
      /\ gone' = gone \cup {m} /\ goneTo' = [goneTo EXCEPT ![p] = @ \cup {m}] /\ cut' = cut \ {m}
      /\ calls' = [d \in Call |-> IF d = c THEN Idle ELSE [calls[d] EXCEPT !.never = @ \ {old}]]
      /\ UNCHANGED <<bodies, vectors, queued, searching, placed, network,
                     minted, known, behind, forgets, cuts>>
  BY DEF ForgetRankingMeta
<1>2. Forgets(c) /\ Removes(c) /\ ForgetInv(c)
  BY <1>1 DEF Forgets, Removes, ReadsInv
<1>3. /\ m \in minted /\ m \in Memory /\ p \in Host
      /\ \A d \in Call : Remembering(d) => calls[d].id # m
      /\ m \notin vectors /\ \A q \in Host : m \in searching[q] => q # p /\ m \in behind[q]
  BY <1>1, <1>2, BeingForgotten DEF ForgetInv
<1>4. ASSUME NEW d \in Call
      PROVE  /\ calls'[d] \in CallRow
             /\ d = c => calls'[d] = Idle
             /\ d # c => /\ Alike(calls'[d], calls[d]) /\ calls'[d].never = calls[d].never \ {old}
                         /\ calls'[d].must = calls[d].must /\ calls'[d].cause = calls[d].cause
  <2>1. calls[d] \in CallRow
    BY DEF ReadsInv, ReadTypes
  <2>2. CASE d = c
    BY <1>1, <2>2, IdleCall
  <2>3. CASE d # c
    <3> DEFINE never == calls[d].never \ {old}
    <3> HIDE DEF old, never
    <3>1. calls'[d] = [calls[d] EXCEPT !.never = never] /\ never \in SUBSET Memory
      BY <1>1, <2>1, <2>3 DEF never, CallRow
    <3>2. calls'[d] \in CallRow /\ calls'[d].never = never /\ Alike(calls'[d], calls[d])
          /\ calls'[d].must = calls[d].must /\ calls'[d].cause = calls[d].cause
      BY <2>1, <3>1 DEF CallRow, Alike
    <3> QED BY <2>3, <3>2 DEF never
  <2> QED BY <2>2, <2>3
<1>5. calls' \in [Call -> CallRow]
  <2>1. calls' = [d \in Call |-> calls'[d]]
    BY <1>1
  <2> QED BY <1>4, <2>1
<1>6. \A d \in Call : d # c => Alike(calls'[d], calls[d])
  BY <1>4
<1>7. /\ ~Forgets(c)' /\ ~Removes(c)' /\ ~Reading(c)' /\ ~Remembering(c)' /\ calls'[c] = Idle
      /\ calls'[c].at = "idle" /\ calls'[c].got = {}
  BY <1>4, IdleCall DEF Forgets, Removes, Reading, Looks, Fetches, Remembering
<1> HIDE DEF m, p
<1>8. /\ Forgetting' \subseteq Forgetting /\ Unsettled \subseteq Unsettled' \cup {m}
  <2>1. Forgetting' \subseteq Forgetting /\ Removing \subseteq Removing' \cup {m}
    BY <1>6, <1>7, OtherCalls DEF m
  <2> QED BY <1>1, <2>1 DEF Unsettled
<1>9. Superseded' \subseteq Superseded /\ Superseded \subseteq Superseded' \cup {old}
  <2>1. described \subseteq Memory
    BY DEF ReadsInv, ReadTypes
  <2>2. \A x \in Memory : replaces'[x] = IF x = m THEN NoMemory ELSE replaces[x]
    BY <1>1, <1>3 DEF ReadsInv, ReadTypes
  <2> QED BY <1>1, <1>3, <2>1, <2>2 DEF Superseded
<1> HIDE DEF old
<1>10. /\ goneTo' \in [Host -> SUBSET Memory]
       /\ \A q \in Host : goneTo'[q] = IF q = p THEN goneTo[q] \cup {m} ELSE goneTo[q]
  BY <1>1, <1>3 DEF ReadsInv, ReadTypes
<1>11. ReadTypes'
  BY <1>1, <1>3, <1>5, <1>10 DEF ReadsInv, ReadTypes
<1>12. NamesMinted'
  <2>1. \A d \in Call : /\ calls'[d].id \in minted' \cup {NoMemory}
                        /\ calls'[d].old \in minted' \cup {NoMemory}
                        /\ calls'[d].found \subseteq minted'
                        /\ calls'[d].at # "idle" => calls'[d].by \in Host
                        /\ Remembering(d)' \/ Forgets(d)' => calls'[d].id \in minted'
    <3>1. calls'[c].id = NoMemory /\ calls'[c].old = NoMemory /\ calls'[c].found = {} /\ minted' = minted
      BY <1>1, <1>7, IdleCall
    <3> QED BY <1>6, <1>7, <3>1, CallsMinted
  <2>2. \A x \in Memory : replaces'[x] \in minted \cup {NoMemory}
    BY <1>1, <1>3 DEF ReadsInv, ReadTypes, NamesMinted
  <2> QED BY <1>1, <1>3, <2>1, <2>2 DEF ReadsInv, NamesMinted
<1>13. PlacesHold'
  BY <1>1 DEF ReadsInv, PlacesHold
<1>14. TracesHold'
  <2>1. ASSUME NEW q \in Host
        PROVE  /\ searching'[q] \subseteq bodies' \cup Unsettled' \cup behind'[q]
               /\ goneTo'[q] \subseteq gone' /\ goneTo'[q] \cap searching'[q] = {}
               /\ known'[q] \ (gone' \cup Unsettled') \subseteq described' \cap vectors' \cap searching'[q]
    BY <1>1, <1>3, <1>8, <1>10 DEF ReadsInv, TracesHold
  <2> QED BY <1>1, <1>3, <1>8, <2>1 DEF ReadsInv, TracesHold
<1>15. ASSUME NEW d \in Call PROVE RememberInv(d)' /\ ForgetInv(d)'
  <2>1. CASE d = c
    BY <1>7, <2>1 DEF ForgetInv, RememberInv
  <2>2. CASE d # c
    <3>1. RememberInv(d) /\ Alike(calls'[d], calls[d])
      BY <1>6, <2>2 DEF ReadsInv
    <3>2. ASSUME Remembering(d)
          PROVE  /\ calls[d].id \in bodies' /\ calls[d].id \notin queued' \cup gone'
                 /\ filed'[calls[d].id] = 0 /\ \A q \in Host : placed'[q][calls[d].id] = 0
                 /\ calls[d].id # m
      BY <1>1, <1>3, <3>1, <3>2 DEF RememberInv
    <3>3. RememberInv(d)'
      BY <1>1, <1>6, <1>7, <2>2, <3>2, RememberKept
    <3> QED BY <1>1, <3>1, <3>3, ForgetKept
  <2> QED BY <2>1, <2>2
<1> QED
  <2>1. \A d \in Call : d # c /\ Reading(d) =>
          Forgetting' \subseteq calls'[d].cause /\ m \in calls'[d].cause /\ m \notin calls'[d].must
    BY <1>2, <1>4, <1>8, BeingForgotten DEF m
  <2>2. \A d \in Call : d # c /\ Reading(d) =>
          /\ calls'[d].must \cap (gone' \cup cut' \cup Forgetting') \subseteq gone \cup cut \cup Forgetting
          /\ cut \subseteq cut' \cup calls'[d].cause
    BY <1>1, <1>8, <2>1
  <2>3. \A d \in Call : d # c /\ Reading(d) =>
           /\ calls'[d].must \cap Superseded' \subseteq Superseded
           /\ calls'[d].never \cap Superseded \subseteq Superseded'
    BY <1>4, <1>9
  <2>4. \A d \in Call : d # c =>
           /\ calls'[d].must \subseteq calls[d].must /\ calls'[d].never \subseteq calls[d].never
           /\ calls[d].cause \subseteq calls'[d].cause
    BY <1>4
  <2> QED BY <1>1, <1>6, <1>7, <1>11, <1>12, <1>13, <1>14, <1>15, <2>1, <2>2, <2>3, <2>4, WriteStep

-----------------------------------------------------------------------------
(* The rest of the system                                                   *)

(***************************************************************************)
(* A flush or a repack moves memories to new places: the copies of the     *)
(* catalog that do not follow are behind, and no place is lost.            *)
(***************************************************************************)
LEMMA PlacesMove ==
  ASSUME ReadsInv,
         UNCHANGED <<bodies, described, replaces, vectors, searching, calls,
                     minted, known, gone, goneTo, cut, forgets, cuts>>,
         queued' \subseteq queued, slabs' = slabs + 1, slabs < MaxSlab,
         filed' \in [Memory -> 0..slabs'], placed' \in [Host -> [Memory -> 0..slabs']],
         behind' \in [Host -> SUBSET Memory], objects' \subseteq minted \X (1..slabs'),
         \A q \in Host : behind[q] \subseteq behind'[q],
         PlacesHold',
         \A q \in Host, x \in Memory : /\ placed[q][x] # 0 => placed'[q][x] # 0
                                       /\ placed'[q][x] # 0 => x \in minted,
         \A c \in Call : Remembering(c) =>
           filed'[calls[c].id] = 0 /\ \A q \in Host : placed'[q][calls[c].id] = 0,
         \A c \in Call : Reading(c) =>
           \A o \in objects : o \in objects' \/ o[1] \in behind'[calls[c].by]
  PROVE  ReadsInv'
<1>1. /\ Forgetting' = Forgetting /\ Unsettled' = Unsettled /\ Superseded' = Superseded
      /\ \A c \in Call : /\ calls'[c] = calls[c]
                         /\ Remembering(c)' <=> Remembering(c)
                         /\ Forgets(c)' <=> Forgets(c)
                         /\ Removes(c)' <=> Removes(c)
                         /\ Reading(c)' <=> Reading(c)
  BY DEF Forgetting, Unsettled, Removing, Superseded, Remembering, Forgets, Removes, Reading,
         Looks, Fetches
<1>2. ReadTypes'
  <2>1. slabs' \in 0..MaxSlab
    BY ReadsAssumption DEF ReadsInv, ReadTypes
  <2>2. objects' \subseteq Memory \X (1..slabs')
    BY DEF ReadsInv, ReadTypes
  <2>3. queued' \subseteq Memory
    BY DEF ReadsInv, ReadTypes
  <2> QED BY <2>1, <2>2, <2>3 DEF ReadsInv, ReadTypes
<1>3. NamesMinted'
  BY <1>1 DEF ReadsInv, NamesMinted
<1>4. TracesHold' /\ NeverAnswered'
  BY <1>1 DEF ReadsInv, TracesHold, NeverAnswered
<1>5. ASSUME NEW c \in Call PROVE RememberInv(c)' /\ ForgetInv(c)' /\ ReadInv(c)'
  <2>1. RememberInv(c) /\ ForgetInv(c) /\ ReadInv(c)
    BY DEF ReadsInv
  <2>2. RememberInv(c)'
    BY <1>1, <2>1 DEF RememberInv
  <2>3. ForgetInv(c)'
    BY <1>1, <2>1 DEF ForgetInv
  <2>4. ReadInv(c)'
    <3> SUFFICES ASSUME Reading(c)' PROVE ReadInv(c)'
      BY DEF ReadInv
    <3>1. calls'[c] = calls[c] /\ Reading(c) /\ calls[c].by \in Host /\ calls[c].found \subseteq Memory
      <4>1. Reading(c) /\ calls'[c] = calls[c] /\ calls[c] \in CallRow
        BY <1>1 DEF ReadsInv, ReadTypes
      <4>2. calls[c].at # "idle"
        BY <4>1 DEF Reading, Looks, Fetches
      <4> QED BY <4>1, <4>2 DEF ReadsInv, NamesMinted, CallRow
    <3>2. Excuse(c) \subseteq Excuse(c)' /\ behind'[calls[c].by] \subseteq Excuse(c)'
      BY <3>1 DEF Excuse
    <3>3. Forgetting' \subseteq calls'[c].cause
      BY <1>1, <2>1, <3>1 DEF ReadInv
    <3>4. \A x \in calls[c].found : placed[calls[c].by][x] # 0 => placed'[calls[c].by][x] # 0
      BY <3>1
    <3>5. <<calls[c].id, calls[c].slab>> \in objects =>
            <<calls[c].id, calls[c].slab>> \in objects' \/ calls[c].id \in Excuse(c)'
      BY <3>1, <3>2
    <3>6. known[calls[c].by] \subseteq known'[calls[c].by] /\ gone \subseteq gone'
      OBVIOUS
    <3>7. bodies \subseteq bodies' \cup Excuse(c)'
      OBVIOUS
    <3> QED BY <1>1, <2>1, <3>1, <3>2, <3>3, <3>4, <3>5, <3>6, <3>7, ReadKept
  <2> QED BY <2>2, <2>3, <2>4
<1> QED BY <1>2, <1>3, <1>4, <1>5 DEF ReadsInv

LEMMA FlushStep ==
  ASSUME ReadsInv, NEW p \in Host, Flush(p)
  PROVE  ReadsInv'
<1> DEFINE s == slabs + 1
<1>1. /\ slabs < MaxSlab /\ slabs' = s /\ objects' = objects \cup (queued \X {s})
      /\ filed' = [x \in Memory |-> IF x \in queued THEN s ELSE filed[x]]
      /\ behind' = [q \in Host |-> IF q = p THEN behind[q] ELSE behind[q] \cup queued]
      /\ queued' = {}
      /\ UNCHANGED <<bodies, described, replaces, vectors, searching, calls,
                     minted, known, gone, goneTo, cut, forgets, cuts>>
  BY DEF Flush, LeftBehind
<1>2. placed' = [placed EXCEPT ![p] = [x \in Memory |-> IF x \in queued THEN s ELSE placed[p][x]]]
  BY DEF Flush, ReadsInv, ReadTypes
<1>3. /\ slabs \in Nat /\ filed \in [Memory -> 0..slabs] /\ placed \in [Host -> [Memory -> 0..slabs]]
      /\ behind \in [Host -> SUBSET Memory] /\ queued \subseteq Memory /\ queued \subseteq minted
      /\ objects \subseteq minted \X (1..slabs)
  BY DEF ReadsInv, ReadTypes, NamesMinted
<1>4. s \in Nat /\ s # 0 /\ 0..slabs \subseteq 0..s /\ s \in 0..s /\ 1..slabs \subseteq 1..s /\ s \in 1..s
  BY <1>3
<1> HIDE DEF s
<1>5. \A q \in Host, x \in Memory :
        placed'[q][x] = IF q = p /\ x \in queued THEN s ELSE placed[q][x]
  BY <1>2, <1>3
<1>6. /\ filed' \in [Memory -> 0..s] /\ placed' \in [Host -> [Memory -> 0..s]]
      /\ behind' \in [Host -> SUBSET Memory]
  <2>1. filed' \in [Memory -> 0..s]
    BY <1>1, <1>3, <1>4
  <2>2. [x \in Memory |-> IF x \in queued THEN s ELSE placed[p][x]] \in [Memory -> 0..s]
    BY <1>3, <1>4
  <2>3. placed \in [Host -> [Memory -> 0..s]]
    BY <1>3, <1>4
  <2>4. placed' \in [Host -> [Memory -> 0..s]]
    BY <1>2, <2>2, <2>3
  <2> QED BY <1>1, <1>3, <2>1, <2>4
<1>7. objects' \subseteq minted \X (1..s)
  BY <1>1, <1>3, <1>4
<1>8. PlacesHold'
  <2>1. ASSUME NEW x \in Memory PROVE filed'[x] # 0 => <<x, filed'[x]>> \in objects'
    BY <1>1 DEF ReadsInv, PlacesHold
  <2>2. ASSUME NEW x \in Memory, NEW q \in Host PROVE placed'[q][x] = filed'[x] \/ x \in behind'[q]
    <3>1. placed[q][x] = filed[x] \/ x \in behind[q]
      BY DEF ReadsInv, PlacesHold
    <3> QED BY <1>1, <1>5, <3>1
  <2> QED BY <2>1, <2>2 DEF PlacesHold
<1>9. \A q \in Host, x \in Memory : /\ placed[q][x] # 0 => placed'[q][x] # 0
                                    /\ placed'[q][x] # 0 => x \in minted
  BY <1>3, <1>4, <1>5 DEF ReadsInv, NamesMinted
<1>10. ASSUME NEW c \in Call, Remembering(c)
       PROVE  filed'[calls[c].id] = 0 /\ \A q \in Host : placed'[q][calls[c].id] = 0
  <2>1. calls[c].id \in Memory
    BY <1>10, OwnId
  <2>2. calls[c].id \notin queued /\ filed[calls[c].id] = 0 /\ \A q \in Host : placed[q][calls[c].id] = 0
    BY <1>10 DEF ReadsInv, RememberInv
  <2> QED BY <1>1, <1>5, <2>1, <2>2
<1>11. \A q \in Host : behind[q] \subseteq behind'[q]
  BY <1>1
<1>12. objects \subseteq objects'
  BY <1>1
<1> QED BY <1>1, <1>6, <1>7, <1>8, <1>9, <1>10, <1>11, <1>12, PlacesMove DEF s

LEMMA RepackStep ==
  ASSUME ReadsInv, NEW p \in Host, NEW m \in Memory, Repack(p, m)
  PROVE  ReadsInv'
<1> DEFINE s == slabs + 1
           o == <<m, placed[p][m]>>
<1>1. /\ o \in objects /\ slabs < MaxSlab /\ slabs' = s
      /\ \A c \in Call : calls[c].by # p
      /\ objects' = (objects \ {o}) \cup {<<m, s>>}
      /\ filed' = [filed EXCEPT ![m] = s] /\ placed' = [placed EXCEPT ![p][m] = s]
      /\ behind' = [q \in Host |-> IF q = p THEN behind[q] ELSE behind[q] \cup {m}]
      /\ UNCHANGED <<device, searching, calls, minted, known, gone, goneTo, cut, forgets, cuts>>
  BY DEF Repack, LeftBehind
<1>2. /\ slabs \in Nat /\ filed \in [Memory -> 0..slabs] /\ placed \in [Host -> [Memory -> 0..slabs]]
      /\ behind \in [Host -> SUBSET Memory] /\ objects \subseteq minted \X (1..slabs)
  BY DEF ReadsInv, ReadTypes, NamesMinted
<1>3. s \in Nat /\ s # 0 /\ 0..slabs \subseteq 0..s /\ s \in 0..s /\ 1..slabs \subseteq 1..s /\ s \in 1..s
  BY <1>2
<1>4. m \in minted /\ placed[p][m] # 0
  <2>1. o \in minted \X (1..slabs)
    BY <1>1, <1>2
  <2>2. m \in minted /\ placed[p][m] \in 1..slabs
    BY <2>1
  <2> QED BY <1>2, <2>2
<1> HIDE DEF s
<1>5. \A q \in Host, x \in Memory :
        placed'[q][x] = IF q = p /\ x = m THEN s ELSE placed[q][x]
  BY <1>1, <1>2
<1>6. /\ filed' \in [Memory -> 0..s] /\ placed' \in [Host -> [Memory -> 0..s]]
      /\ behind' \in [Host -> SUBSET Memory]
  <2>1. filed \in [Memory -> 0..s] /\ placed \in [Host -> [Memory -> 0..s]]
    BY <1>2, <1>3
  <2> QED BY <1>1, <1>2, <1>3, <2>1
<1>7. objects' \subseteq minted \X (1..s)
  <2>1. objects' \subseteq objects \cup {<<m, s>>}
    BY <1>1
  <2>2. objects \subseteq minted \X (1..s)
    BY <1>2, <1>3
  <2>3. <<m, s>> \in minted \X (1..s)
    BY <1>3, <1>4
  <2> QED BY <2>1, <2>2, <2>3
<1>8. PlacesHold'
  <2>1. ASSUME NEW x \in Memory PROVE filed'[x] # 0 => <<x, filed'[x]>> \in objects'
    <3>1. filed[x] # 0 => <<x, filed[x]>> \in objects
      BY DEF ReadsInv, PlacesHold
    <3>2. CASE x = m
      BY <1>1, <1>2, <3>2
    <3>3. CASE x # m
      BY <1>1, <1>2, <3>1, <3>3
    <3> QED BY <3>2, <3>3
  <2>2. ASSUME NEW x \in Memory, NEW q \in Host PROVE placed'[q][x] = filed'[x] \/ x \in behind'[q]
    <3>1. placed[q][x] = filed[x] \/ x \in behind[q]
      BY DEF ReadsInv, PlacesHold
    <3> QED BY <1>1, <1>2, <1>5, <3>1
  <2> QED BY <2>1, <2>2 DEF PlacesHold
<1>9. \A q \in Host, x \in Memory : /\ placed[q][x] # 0 => placed'[q][x] # 0
                                    /\ placed'[q][x] # 0 => x \in minted
  BY <1>3, <1>4, <1>5 DEF ReadsInv, NamesMinted
<1>10. ASSUME NEW c \in Call, Remembering(c)
       PROVE  filed'[calls[c].id] = 0 /\ \A q \in Host : placed'[q][calls[c].id] = 0
  <2>1. calls[c].id \in Memory
    BY <1>10, OwnId
  <2>2. filed[calls[c].id] = 0 /\ \A q \in Host : placed[q][calls[c].id] = 0
    BY <1>10 DEF ReadsInv, RememberInv
  <2>3. calls[c].id # m
    BY <1>4, <2>2
  <2> QED BY <1>1, <1>2, <1>5, <2>1, <2>2, <2>3
<1>11. \A q \in Host : behind[q] \subseteq behind'[q] /\ (q # p => m \in behind'[q])
  BY <1>1
<1>12. ASSUME NEW c \in Call, Reading(c), NEW x \in objects
       PROVE  x \in objects' \/ x[1] \in behind'[calls[c].by]
  <2>1. calls[c].by \in Host /\ calls[c].by # p
    BY <1>1, <1>12 DEF ReadsInv, NamesMinted, Reading, Looks, Fetches
  <2> QED BY <1>1, <1>11, <2>1
<1> QED
  <2>1. UNCHANGED <<bodies, described, replaces, vectors, searching, calls,
                    minted, known, gone, goneTo, cut, forgets, cuts, queued>>
    BY <1>1
  <2> QED BY <1>1, <1>6, <1>7, <1>8, <1>9, <1>10, <1>11, <1>12, <2>1, PlacesMove DEF s

LEMMA ReopenStep ==
  ASSUME ReadsInv, NEW p \in Host, Reopen(p)
  PROVE  ReadsInv'
<1> DEFINE ended == {c \in Call : calls[c].by = p}
           stopped == {calls[c].id : c \in ended} \cap Forgetting
<1>1. /\ cuts < MaxCut /\ cuts' = cuts + 1 /\ cut' = cut \cup stopped
      /\ calls' = [c \in Call |-> IF c \in ended THEN Idle ELSE calls[c]]
      /\ searching' = [searching EXCEPT ![p] = vectors] /\ placed' = [placed EXCEPT ![p] = filed]
      /\ behind' = [behind EXCEPT ![p] = {}] /\ known' = [known EXCEPT ![p] = UNION {known[q] : q \in Host}]
      /\ goneTo' = [goneTo EXCEPT ![p] = gone]
      /\ UNCHANGED <<device, network, minted, gone, forgets>>
  BY DEF Reopen
<1>2. /\ Forgetting \subseteq Memory /\ Removing \subseteq Forgetting
  BY SupersededNamed
<1>3. ASSUME NEW c \in Call
      PROVE  /\ calls[c].by = p => calls'[c] = Idle
             /\ calls[c].by # p => calls'[c] = calls[c]
             /\ calls'[c] = Idle \/ calls'[c] = calls[c]
  BY <1>1
<1>4. \A c \in Call : /\ Remembering(c)' => Remembering(c) /\ calls[c].by # p /\ calls'[c] = calls[c]
                      /\ Forgets(c)' => Forgets(c) /\ calls[c].by # p /\ calls'[c] = calls[c]
                      /\ Removes(c)' => Removes(c) /\ calls[c].by # p /\ calls'[c] = calls[c]
                      /\ Reading(c)' => Reading(c) /\ calls[c].by # p /\ calls'[c] = calls[c]
                      /\ calls'[c].at = "unrow" => calls[c].by # p /\ calls'[c] = calls[c]
                      /\ calls'[c].at = "unfile" => calls'[c] = calls[c]
  <2> SUFFICES ASSUME NEW c \in Call
               PROVE  /\ Remembering(c)' => Remembering(c) /\ calls[c].by # p /\ calls'[c] = calls[c]
                      /\ Forgets(c)' => Forgets(c) /\ calls[c].by # p /\ calls'[c] = calls[c]
                      /\ Removes(c)' => Removes(c) /\ calls[c].by # p /\ calls'[c] = calls[c]
                      /\ Reading(c)' => Reading(c) /\ calls[c].by # p /\ calls'[c] = calls[c]
                      /\ calls'[c].at = "unrow" => calls[c].by # p /\ calls'[c] = calls[c]
                      /\ calls'[c].at = "unfile" => calls'[c] = calls[c]
    OBVIOUS
  <2>1. CASE calls[c].by = p
    <3>1. calls'[c].at = "idle"
      BY <1>3, <2>1, IdleCall
    <3> QED BY <3>1 DEF Remembering, Forgets, Removes, Reading, Looks, Fetches
  <2>2. CASE calls[c].by # p
    BY <1>3, <2>2 DEF Remembering, Forgets, Removes, Reading, Looks, Fetches
  <2> QED BY <2>1, <2>2
<1>5. Forgetting' \subseteq Forgetting
  <2>1. \A c \in Call : Forgets(c)' => Forgets(c) /\ calls'[c].id = calls[c].id
    BY <1>4
  <2> QED BY <2>1 DEF Forgetting, Forgets
<1>6. Unsettled \subseteq Unsettled'
  <2>1. ASSUME NEW c \in Call, Removes(c) PROVE calls[c].id \in Removing' \cup stopped
    <3>1. CASE calls[c].by = p
      <4>1. calls[c].id \in Removing
        BY <2>1 DEF Removing
      <4> QED BY <1>2, <3>1, <4>1
    <3>2. CASE calls[c].by # p
      <4>1. calls'[c] = calls[c]
        BY <1>3, <3>2
      <4>2. Removes(c)' /\ calls'[c].id = calls[c].id
        BY <2>1, <4>1 DEF Removes
      <4> QED BY <4>2 DEF Removing
    <3> QED BY <3>1, <3>2
  <2>2. Removing \subseteq Removing' \cup stopped
    BY <2>1 DEF Removing
  <2> HIDE DEF stopped
  <2> QED BY <1>1, <2>2 DEF Unsettled
<1>7. stopped \subseteq Forgetting /\ cut \subseteq cut' /\ cut' \subseteq cut \cup Forgetting
  BY <1>1
<1> HIDE DEF ended, stopped
<1>8. Superseded' = Superseded
  BY <1>1 DEF Superseded
<1>9. /\ \A q \in Host : /\ searching'[q] = IF q = p THEN vectors ELSE searching[q]
                         /\ placed'[q] = IF q = p THEN filed ELSE placed[q]
                         /\ behind'[q] = IF q = p THEN {} ELSE behind[q]
                         /\ known'[q] = IF q = p THEN UNION {known[r] : r \in Host} ELSE known[q]
                         /\ goneTo'[q] = IF q = p THEN gone ELSE goneTo[q]
  BY <1>1 DEF ReadsInv, ReadTypes
<1>10. ReadTypes'
  <2>1. cuts' \in 0..MaxCut
    BY <1>1, ReadsAssumption DEF ReadsInv, ReadTypes
  <2>2. cut' \subseteq Memory
    BY <1>2, <1>7 DEF ReadsInv, ReadTypes
  <2>3. calls' \in [Call -> CallRow]
    BY <1>1, IdleCall DEF ReadsInv, ReadTypes
  <2>4. known' \in [Host -> SUBSET Memory]
    <3>1. UNION {known[q] : q \in Host} \in SUBSET Memory
      BY DEF ReadsInv, ReadTypes
    <3> QED BY <1>1, <3>1 DEF ReadsInv, ReadTypes
  <2>5. /\ searching' \in [Host -> SUBSET Memory] /\ behind' \in [Host -> SUBSET Memory]
        /\ goneTo' \in [Host -> SUBSET Memory]
    BY <1>1 DEF ReadsInv, ReadTypes
  <2>6. placed' \in [Host -> [Memory -> 0..slabs]]
    BY <1>1 DEF ReadsInv, ReadTypes
  <2> QED BY <1>1, <2>1, <2>2, <2>3, <2>4, <2>5, <2>6 DEF ReadsInv, ReadTypes
<1>11. PlacesHold'
  BY <1>1, <1>9 DEF ReadsInv, PlacesHold
<1>12. NamesMinted'
  <2>1. ASSUME NEW c \in Call
        PROVE  /\ calls'[c].id \in minted' \cup {NoMemory}
               /\ calls'[c].old \in minted' \cup {NoMemory}
               /\ calls'[c].found \subseteq minted'
               /\ calls'[c].at # "idle" => calls'[c].by \in Host
               /\ Remembering(c)' \/ Forgets(c)' => calls'[c].id \in minted'
    <3>1. /\ calls[c].id \in minted \cup {NoMemory} /\ calls[c].old \in minted \cup {NoMemory}
          /\ calls[c].found \subseteq minted /\ (calls[c].at # "idle" => calls[c].by \in Host)
          /\ Remembering(c) \/ Forgets(c) => calls[c].id \in minted
      BY DEF ReadsInv, NamesMinted
    <3>2. Remembering(c)' \/ Forgets(c)' => calls'[c].id \in minted'
      BY <1>1, <1>4, <3>1
    <3> QED BY <1>1, <1>3, <3>1, <3>2, IdleCall
  <2>2. \A x \in Memory, q \in Host : placed'[q][x] # 0 => x \in minted
    <3>1. \A x \in Memory : filed[x] # 0 => x \in minted
      <4>1. \A x \in Memory : filed[x] # 0 => <<x, filed[x]>> \in minted \X (1..slabs)
        BY DEF ReadsInv, PlacesHold, NamesMinted
      <4> QED BY <4>1
    <3> QED BY <1>9, <3>1 DEF ReadsInv, NamesMinted
  <2>3. \A q \in Host : searching'[q] \subseteq minted
    BY <1>9 DEF ReadsInv, NamesMinted
  <2> QED BY <1>1, <2>1, <2>2, <2>3 DEF ReadsInv, NamesMinted
<1>13. TracesHold'
  <2>1. ASSUME NEW q \in Host
        PROVE  /\ searching'[q] \subseteq bodies' \cup Unsettled' \cup behind'[q]
               /\ goneTo'[q] \subseteq gone' /\ goneTo'[q] \cap searching'[q] = {}
               /\ known'[q] \ (gone' \cup Unsettled') \subseteq described' \cap vectors' \cap searching'[q]
    <3>1. CASE q # p
      BY <1>1, <1>6, <1>9, <3>1 DEF ReadsInv, TracesHold
    <3>2. CASE q = p
      <4>1. \A r \in Host : known[r] \ (gone \cup Unsettled) \subseteq described \cap vectors
        BY DEF ReadsInv, TracesHold
      <4>2. searching'[q] = vectors /\ goneTo'[q] = gone /\ known'[q] = UNION {known[r] : r \in Host}
        BY <1>9, <3>2
      <4>3. known'[q] \ (gone' \cup Unsettled') \subseteq described' \cap vectors' \cap searching'[q]
        BY <1>1, <1>6, <4>1, <4>2
      <4> QED BY <1>1, <1>6, <4>2, <4>3 DEF ReadsInv, TracesHold
    <3> QED BY <3>1, <3>2
  <2> QED BY <1>1, <1>6, <2>1 DEF ReadsInv, TracesHold
<1>14. NeverAnswered'
  BY <1>3, IdleCall DEF ReadsInv, NeverAnswered
<1>15. ASSUME NEW c \in Call PROVE RememberInv(c)' /\ ForgetInv(c)' /\ ReadInv(c)'
  <2>1. RememberInv(c) /\ ForgetInv(c) /\ ReadInv(c)
    BY DEF ReadsInv
  <2>2. RememberInv(c)'
    <3> SUFFICES ASSUME Remembering(c)' PROVE RememberInv(c)'
      BY DEF RememberInv
    <3>1. Remembering(c) /\ calls[c].by # p /\ calls'[c] = calls[c] /\ calls[c].by \in Host
      BY <1>4, OwnId
    <3>2. ASSUME NEW e \in Call
          PROVE  /\ Removes(e)' \/ (calls'[e].at = "unfile" /\ calls'[e].flag) => calls'[e].id # calls[c].id
                 /\ Remembering(e)' /\ e # c => calls'[e].id # calls[c].id
      BY <1>4, <2>1, <3>1 DEF RememberInv
    <3>3. filed'[calls[c].id] = 0 /\ \A q \in Host : placed'[q][calls[c].id] = 0
      BY <1>1, <1>9, <2>1, <3>1 DEF RememberInv
    <3> QED BY <1>1, <1>9, <2>1, <3>1, <3>2, <3>3 DEF RememberInv
  <2>3. ForgetInv(c)'
    <3> SUFFICES ASSUME calls'[c].at = "unrow" PROVE ForgetInv(c)'
      BY DEF ForgetInv
    <3>1. calls[c].by # p /\ calls'[c] = calls[c]
      BY <1>4
    <3>2. /\ calls[c].id \notin vectors
          /\ \A q \in Host : calls[c].id \in searching[q] => q # calls[c].by /\ calls[c].id \in behind[q]
      BY <2>1, <3>1 DEF ForgetInv
    <3>3. \A q \in Host : calls[c].id \in searching'[q] => q # calls[c].by /\ calls[c].id \in behind'[q]
      BY <1>9, <3>2
    <3>4. vectors' = vectors
      BY <1>1
    <3> QED BY <3>1, <3>2, <3>3, <3>4 DEF ForgetInv
  <2>4. ReadInv(c)'
    <3> SUFFICES ASSUME Reading(c)' PROVE ReadInv(c)'
      BY DEF ReadInv
    <3>1. Reading(c) /\ calls[c].by # p /\ calls'[c] = calls[c]
      BY <1>4
    <3>2. calls[c].by \in Host
      BY <3>1 DEF ReadsInv, NamesMinted, Reading, Looks, Fetches
    <3>3. /\ known'[calls[c].by] = known[calls[c].by] /\ behind'[calls[c].by] = behind[calls[c].by]
          /\ placed'[calls[c].by] = placed[calls[c].by]
      BY <1>9, <3>1, <3>2
    <3>4. Excuse(c) \subseteq Excuse(c)'
      BY <1>7, <3>1, <3>3 DEF Excuse
    <3>5. Forgetting' \subseteq calls'[c].cause
      BY <1>5, <2>1, <3>1 DEF ReadInv
    <3>6. calls'[c].must \cap (gone' \cup cut' \cup Forgetting') \subseteq gone \cup cut \cup Forgetting
      BY <1>1, <1>5, <1>7
    <3>7. bodies' = bodies /\ objects' = objects /\ gone' = gone
      BY <1>1
    <3> QED BY <1>8, <2>1, <3>1, <3>3, <3>4, <3>5, <3>6, <3>7, ReadKept
  <2> QED BY <2>2, <2>3, <2>4
<1> QED BY <1>10, <1>11, <1>12, <1>13, <1>14, <1>15 DEF ReadsInv

-----------------------------------------------------------------------------

LEMMA ReadsInvInit == ReadsInit => ReadsInv
<1> SUFFICES ASSUME ReadsInit PROVE ReadsInv
  OBVIOUS
<1>1. PICK restored \in SUBSET Memory :
        /\ bodies = {} /\ described = {} /\ vectors = {} /\ queued = {}
        /\ replaces = [m \in Memory |-> NoMemory]
        /\ searching = [p \in Host |-> {}]
        /\ filed = [m \in Memory |-> IF m \in restored THEN 1 ELSE 0]
        /\ placed = [p \in Host |-> filed]
        /\ objects = restored \X {1}
        /\ slabs = IF restored = {} THEN 0 ELSE 1
        /\ calls = [c \in Call |-> Idle]
        /\ minted = restored
        /\ known = [p \in Host |-> {}] /\ behind = [p \in Host |-> {}]
        /\ gone = {} /\ goneTo = [p \in Host |-> {}]
        /\ cut = {} /\ forgets = 0 /\ cuts = 0
  BY DEF ReadsInit
<1>2. \A c \in Call : calls[c] = Idle
  BY <1>1
<1>3. \A c \in Call : /\ calls[c].at = "idle" /\ calls[c].id = NoMemory /\ calls[c].old = NoMemory
                      /\ calls[c].found = {} /\ calls[c].got = {}
                      /\ ~Remembering(c) /\ ~Forgets(c) /\ ~Removes(c) /\ ~Reading(c)
  BY <1>2, IdleCall DEF Remembering, Forgets, Removes, Reading, Looks, Fetches
<1>4. slabs \in 0..1 /\ (restored # {} => slabs = 1) /\ slabs \in 0..MaxSlab /\ cuts \in 0..MaxCut
  BY <1>1, ReadsAssumption
<1>5. filed \in [Memory -> 0..slabs]
  BY <1>1, <1>4
<1>6. objects \subseteq restored \X (1..slabs)
  BY <1>1, <1>4
<1>7. ReadTypes
  <2>1. calls \in [Call -> CallRow]
    BY <1>1, IdleCall
  <2>2. replaces \in [Memory -> Memory \cup {NoMemory}]
    BY <1>1
  <2> QED BY <1>1, <1>4, <1>5, <1>6, <2>1, <2>2 DEF ReadTypes
<1>8. NamesMinted
  BY <1>1, <1>3, <1>6 DEF NamesMinted
<1>9. TracesHold
  BY <1>1 DEF TracesHold
<1>10. PlacesHold /\ NeverAnswered
  BY <1>1, <1>3 DEF PlacesHold, NeverAnswered
<1>11. \A c \in Call : RememberInv(c) /\ ForgetInv(c) /\ ReadInv(c)
  BY <1>3 DEF RememberInv, ForgetInv, ReadInv
<1> QED BY <1>7, <1>8, <1>9, <1>10, <1>11 DEF ReadsInv

LEMMA ReadsInvNext == ReadsInv /\ [ReadsNext]_readsVars => ReadsInv'
<1> SUFFICES ASSUME ReadsInv, [ReadsNext]_readsVars PROVE ReadsInv'
  OBVIOUS
<1>1. ASSUME NEW c \in Call,
             \/ PutVector(c) \/ PutRankingMeta(c) \/ Enqueue(c)
             \/ Unfile(c) \/ ForgetBody(c) \/ RemoveVector(c) \/ ForgetRankingMeta(c)
             \/ SearchLexical(c) \/ Describe(c) \/ FetchRemote(c)
             \/ KeepBody(c) \/ Return(c) \/ StoreFails(c)
      PROVE  ReadsInv'
  BY <1>1, PutVectorStep, PutRankingMetaStep, EnqueueStep, UnfileStep, ForgetBodyStep, RemoveVectorStep,
     ForgetRankingMetaStep, SearchLexicalStep, DescribeStep, FetchRemoteStep, KeepBodyStep, ReturnStep,
     StoreFailsStep
<1>2. ASSUME NEW c \in Call, NEW m \in Memory, Fetch(c, m) PROVE ReadsInv'
  BY <1>2, FetchStep
<1>3. ASSUME NEW c \in Call, NEW p \in Host, NEW m \in Memory,
             \/ StartForget(c, p, m) \/ StartOpen(c, p, m)
             \/ \E old \in Memory \cup {NoMemory} : StartRemember(c, p, m, old)
      PROVE  ReadsInv'
  BY <1>3, StartForgetStep, StartOpenStep, StartRememberStep
<1>4. ASSUME NEW c \in Call, NEW p \in Host, NEW scoped \in BOOLEAN, StartRecall(c, p, scoped)
      PROVE  ReadsInv'
  BY <1>4, StartRecallStep
<1>5. ASSUME NEW p \in Host, Flush(p) \/ Reopen(p) \/ \E m \in Memory : Repack(p, m) PROVE ReadsInv'
  BY <1>5, FlushStep, ReopenStep, RepackStep
<1>6. CASE UNCHANGED readsVars
  <2>1. UNCHANGED <<bodies, described, replaces, vectors, queued, searching, placed, filed, objects,
                    slabs, calls, minted, known, behind, gone, goneTo, cut, forgets, cuts>>
    BY <1>6 DEF readsVars
  <2> QED BY <2>1 DEF ReadsInv, ReadTypes, NamesMinted, TracesHold, PlacesHold, NeverAnswered,
              RememberInv, ForgetInv, ReadInv, Remembering, Forgets, Removes, Reading, Looks, Fetches,
              Removing, Forgetting, Unsettled, Superseded, Excuse
<1> QED BY <1>1, <1>2, <1>3, <1>4, <1>5, <1>6 DEF ReadsNext

LEMMA ReadsInvHolds == ReadsSpec => []ReadsInv
BY ReadsInvInit, ReadsInvNext, PTL DEF ReadsSpec

(***************************************************************************)
(* Every name in the stores, the index, the catalog and the network is a   *)
(* memory's that was given its id, and no slab is named before it is       *)
(* written.                                                                *)
(***************************************************************************)
THEOREM ReadsTypeCorrect == ReadsSpec => []ReadsTypeOK
<1>1. ReadsInv => ReadsTypeOK
  BY DEF ReadsInv, ReadTypes, NamesMinted, ReadsTypeOK
<1> QED BY <1>1, ReadsInvHolds, PTL

(***************************************************************************)
(* A recall answers with every memory its process was told is stored and   *)
(* nobody has touched, and with none replaced or forgotten before it       *)
(* began, for any number of processes, calls and memories.                 *)
(***************************************************************************)
THEOREM AnswersAreAlwaysRight == ReadsSpec => []AnswersAreRight
<1>1. ReadsInv => AnswersAreRight
  <2> SUFFICES ASSUME ReadsInv PROVE NeverAnswered /\ AllAnswered
    BY DEF AnswersAreRight
  <2>1. ASSUME NEW c \in Call, calls[c].at = "fetch", calls[c].found = {}
        PROVE  calls[c].must \subseteq calls[c].got
    <3>1. Fetches(c) /\ Reading(c)
      BY <2>1 DEF Fetches, Reading
    <3> QED BY <2>1, <3>1 DEF ReadsInv, ReadInv
  <2> QED BY <2>1 DEF ReadsInv, AllAnswered
<1> QED BY <1>1, ReadsInvHolds, PTL

(***************************************************************************)
(* A read fails only on a memory that is being forgotten, whose forget was *)
(* cut short, or that another process changed since this one opened the    *)
(* vault.                                                                  *)
(***************************************************************************)
THEOREM ReadsAlwaysFailForCause == ReadsSpec => []FailsForCause
<1>1. ReadsInv => FailsForCause
  BY DEF ReadsInv, ReadInv, Reading, Excuse, FailsForCause
<1> QED BY <1>1, ReadsInvHolds, PTL

-----------------------------------------------------------------------------
(* The cache of locations                                                   *)

USE DEF elsewhere, hostsKnown, rows, FetchAt

FetchRecord == [at : {"idle", "slab", "hosts", "read", "drop", "dropSlab", "ask", "cacheSlab",
                      "cacheObject", "answered", "failed"},
                object : ObjectId \cup {NoObject},
                list : SUBSET NetHost]

(* A list of hosts that is a whole slab's. *)
WholeSlab(hosts) == hosts \subseteq NetHost /\ Cardinality(hosts) = Shards

Network ==
  /\ kept \subseteq ObjectId /\ listed \subseteq NetHost
  /\ WholeSlab(hosting) /\ hosting \subseteq listed
  /\ moves \in 0..MaxMove /\ refusals \in 0..MaxRefusal

(* The rows of the cache: a slab's row names a whole slab's hosts. *)
CacheRows ==
  /\ slabRow = NoSlabRow \/ WholeSlab(slabRow)
  /\ objectRow \subseteq ObjectId
  /\ hostSet \subseteq NetHost

(* A read under way has an object, and one about to cache the hosts of a   *)
(* slab has a whole slab's.                                                *)
FetchInv(f) ==
  /\ fetches[f] = NoFetch \/ fetches[f].object \in ObjectId
  /\ FetchAt(f, "cacheSlab") => WholeSlab(fetches[f].list)

LocationsInv ==
  /\ Network /\ CacheRows
  /\ fetches \in [Reader -> FetchRecord]
  /\ \A f \in Reader : FetchInv(f)

LEMMA NoFetchIsTyped == NoFetch \in FetchRecord /\ NoFetch.at = "idle"
  BY DEF NoFetch, FetchRecord

(* The network and the cache as they begin satisfy the invariant. *)
LEMMA LocationsStart == LocationsInit => LocationsInv
<1> SUFFICES ASSUME LocationsInit PROVE LocationsInv OBVIOUS
<1>1. Network BY ShardAssumption DEF LocationsInit, Network, WholeSlab
<1>2. CacheRows BY DEF LocationsInit, CacheRows
<1>3. fetches \in [Reader -> FetchRecord] /\ \A f \in Reader : fetches[f] = NoFetch
  BY NoFetchIsTyped DEF LocationsInit
<1> QED BY <1>1, <1>2, <1>3, NoFetchIsTyped DEF LocationsInv, FetchInv

(* A refused call is within its bound, whatever else the step does. *)
LEMMA RefusalsBounded == Network /\ Refused => refusals' \in 0..MaxRefusal
  BY ShardAssumption DEF Network, Refused

(* A step of one read that leaves the network alone. *)
LEMMA ReadSteps ==
  ASSUME LocationsInv, NEW f \in Reader, NEW r \in FetchRecord, UNCHANGED elsewhere,
         UNCHANGED refusals \/ Refused,
         fetches' = [fetches EXCEPT ![f] = r], CacheRows', FetchInv(f)'
  PROVE  LocationsInv'
<1>1. fetches' \in [Reader -> FetchRecord] BY DEF LocationsInv
<1>2. \A g \in Reader \ {f} : fetches'[g] = fetches[g] BY DEF LocationsInv
<1>3. \A g \in Reader \ {f} : FetchInv(g)' BY <1>2 DEF LocationsInv, FetchInv
<1>4. Network' BY RefusalsBounded DEF LocationsInv, Network
<1> QED BY <1>1, <1>3, <1>4 DEF LocationsInv

(* A read moves on to a step for which it needs no list. *)
LEMMA ThenSteps ==
  ASSUME LocationsInv, NEW f \in Reader, fetches[f].at # "idle", NEW where \in
           {"drop", "dropSlab", "ask", "cacheObject", "answered", "failed"},
         Then(f, where), UNCHANGED elsewhere, UNCHANGED refusals \/ Refused, CacheRows'
  PROVE  LocationsInv'
<1> DEFINE r == [fetches[f] EXCEPT !.at = where, !.list = {}]
<1>0. fetches[f] \in FetchRecord /\ fetches[f].object \in ObjectId
  BY NoFetchIsTyped DEF LocationsInv, FetchInv
<1>1. r \in FetchRecord /\ r.at = where /\ r.object = fetches[f].object
  BY <1>0 DEF FetchRecord
<1>2. fetches' = [fetches EXCEPT ![f] = r] /\ fetches'[f] = r
  BY DEF Then, LocationsInv
<1> HIDE DEF r
<1>3. FetchInv(f)' BY <1>0, <1>1, <1>2 DEF FetchInv
<1> QED BY <1>1, <1>2, <1>3, ReadSteps

(* Every step keeps the types. *)
LEMMA LocationsStep == LocationsInv /\ [LocationsNext]_locationVars => LocationsInv'
<1> SUFFICES ASSUME LocationsInv, [LocationsNext]_locationVars PROVE LocationsInv'
  OBVIOUS
<1>0. /\ fetches \in [Reader -> FetchRecord]
      /\ \A f \in Reader : fetches[f] \in FetchRecord /\ FetchInv(f)
      /\ CacheRows /\ Network
  BY DEF LocationsInv
<1>1. CASE UNCHANGED locationVars
  BY <1>0, <1>1 DEF locationVars, LocationsInv, Network, CacheRows, FetchInv
<1>2. \A f \in Reader : fetches[f].at # "idle" => fetches[f].object \in ObjectId
  BY <1>0, NoFetchIsTyped DEF FetchInv
<1>3. ASSUME NEW f \in Reader, NEW o \in ObjectId, GetLocation(f, o) PROVE LocationsInv'
  <2>1. PICK at \in {"slab", "ask", "failed"} :
          fetches' = [fetches EXCEPT ![f] = [NoFetch EXCEPT !.at = at, !.object = o]]
    BY <1>3 DEF GetLocation
  <2> DEFINE r == [NoFetch EXCEPT !.at = at, !.object = o]
  <2>2. r \in FetchRecord /\ r.at = at /\ r.object = o
    BY NoFetchIsTyped DEF FetchRecord
  <2>3. fetches' = [fetches EXCEPT ![f] = r] /\ fetches'[f] = r
    BY <1>0, <2>1
  <2> HIDE DEF r
  <2>4. FetchInv(f)' BY <2>2, <2>3 DEF FetchInv
  <2>5. CacheRows' BY <1>0, <1>3 DEF GetLocation, CacheRows
  <2> QED BY <1>3, <2>2, <2>3, <2>4, <2>5, ReadSteps DEF GetLocation
<1>4. ASSUME NEW f \in Reader, GetSlabMeta(f) PROVE LocationsInv'
  <2>1. CacheRows' BY <1>0, <1>4 DEF GetSlabMeta, CacheRows
  <2>2. CASE fetches' = [fetches EXCEPT ![f].at = "hosts", ![f].list = slabRow] /\ slabRow # NoSlabRow
    <3> DEFINE r == [fetches[f] EXCEPT !.at = "hosts", !.list = slabRow]
    <3>0. slabRow \subseteq NetHost BY <1>0, <2>2 DEF CacheRows, WholeSlab
    <3>1. r \in FetchRecord /\ r.at = "hosts" /\ r.object = fetches[f].object
      BY <1>0, <3>0 DEF FetchRecord
    <3>2. fetches' = [fetches EXCEPT ![f] = r] /\ fetches'[f] = r
      BY <1>0, <2>2
    <3> HIDE DEF r
    <3>3. FetchInv(f)' BY <1>2, <1>4, <3>1, <3>2 DEF FetchInv, GetSlabMeta
    <3> QED BY <1>4, <2>1, <3>1, <3>2, <3>3, ReadSteps DEF GetSlabMeta, Refuses
  <2>3. CASE Then(f, "ask")
    BY <1>4, <2>1, <2>3, ThenSteps DEF GetSlabMeta, Refuses
  <2>4. CASE Refuses(f)
    BY <1>4, <2>1, <2>4, ThenSteps DEF GetSlabMeta, Refuses
  <2> QED BY <1>4, <2>2, <2>3, <2>4 DEF GetSlabMeta
<1>5. ASSUME NEW f \in Reader, CheckReachable(f) PROVE LocationsInv'
  <2>1. UNCHANGED elsewhere /\ (UNCHANGED refusals \/ Refused) /\ fetches[f].at = "hosts"
    BY <1>5 DEF CheckReachable
  <2>2. CacheRows' BY <1>0, <1>5 DEF CheckReachable, CacheRows, Network
  <2>3. CASE fetches' = [fetches EXCEPT ![f].at = "read"]
    <3> DEFINE r == [fetches[f] EXCEPT !.at = "read"]
    <3>1. r \in FetchRecord /\ r.at = "read" /\ r.object = fetches[f].object
      BY <1>0 DEF FetchRecord
    <3>2. fetches' = [fetches EXCEPT ![f] = r] /\ fetches'[f] = r BY <1>0, <2>3
    <3> HIDE DEF r
    <3>3. FetchInv(f)' BY <1>2, <2>1, <3>1, <3>2 DEF FetchInv
    <3> QED BY <2>1, <2>2, <3>1, <3>2, <3>3, ReadSteps
  <2>4. CASE Then(f, "drop") BY <2>1, <2>2, <2>4, ThenSteps
  <2> QED BY <1>5, <2>3, <2>4 DEF CheckReachable, Check
<1>6. ASSUME NEW f \in Reader, ReadAt(f) PROVE LocationsInv'
  <2>1. CacheRows' BY <1>0, <1>6 DEF ReadAt, CacheRows
  <2>2. PICK where \in {"answered", "drop"} : Then(f, where) BY <1>6 DEF ReadAt
  <2> QED BY <1>6, <2>1, <2>2, ThenSteps DEF ReadAt
<1>7. ASSUME NEW f \in Reader, ForgetLocation(f) PROVE LocationsInv'
  <2>1. CacheRows' BY <1>0, <1>7 DEF ForgetLocation, CacheRows
  <2> QED BY <1>7, <2>1, ThenSteps DEF ForgetLocation, Refuses
<1>8. ASSUME NEW f \in Reader, ForgetSlabMeta(f) PROVE LocationsInv'
  <2>1. CacheRows' BY <1>0, <1>8 DEF ForgetSlabMeta, CacheRows, NoSlabRow
  <2> QED BY <1>8, <2>1, ThenSteps DEF ForgetSlabMeta, Refuses
<1>9. ASSUME NEW f \in Reader, AskIndexer(f) PROVE LocationsInv'
  <2>0. fetches[f].object \in ObjectId BY <1>2, <1>9 DEF AskIndexer
  <2>1. CacheRows' BY <1>0, <1>9 DEF AskIndexer, CacheRows
  <2>2. CASE fetches' = [fetches EXCEPT ![f].at = "cacheSlab", ![f].list = hosting]
    <3> DEFINE r == [fetches[f] EXCEPT !.at = "cacheSlab", !.list = hosting]
    <3>1. /\ r \in FetchRecord /\ r.at = "cacheSlab" /\ r.object = fetches[f].object
          /\ r.list = hosting
      BY <1>0 DEF FetchRecord, Network, WholeSlab
    <3>2. fetches' = [fetches EXCEPT ![f] = r] /\ fetches'[f] = r
      BY <1>0, <2>2
    <3> HIDE DEF r
    <3>3. WholeSlab(r.list) BY <1>0, <3>1 DEF Network, WholeSlab
    <3>4. FetchInv(f)' BY <2>0, <3>1, <3>2, <3>3 DEF FetchInv, WholeSlab
    <3> QED BY <1>9, <2>1, <3>1, <3>2, <3>4, ReadSteps DEF AskIndexer
  <2>3. CASE Then(f, "failed") BY <1>9, <2>1, <2>3, ThenSteps DEF AskIndexer
  <2> QED BY <1>9, <2>2, <2>3 DEF AskIndexer
<1>10. ASSUME NEW f \in Reader, CacheSlab(f) PROVE LocationsInv'
  <2>1. WholeSlab(fetches[f].list) BY <1>0, <1>10 DEF CacheSlab, FetchInv
  <2>2. CacheRows' BY <1>0, <1>10, <2>1 DEF CacheSlab, CacheRows, WholeSlab
  <2> QED BY <1>10, <2>2, ThenSteps DEF CacheSlab, Refuses
<1>11. ASSUME NEW f \in Reader, CacheObject(f) PROVE LocationsInv'
  <2>1. CacheRows' BY <1>0, <1>2, <1>11 DEF CacheObject, CacheRows
  <2> QED BY <1>11, <2>1, ThenSteps DEF CacheObject, Refuses
<1>12. ASSUME NEW f \in Reader, Finish(f) PROVE LocationsInv'
  <2>1. fetches'[f] = NoFetch BY <1>0, <1>12 DEF Finish
  <2>2. FetchInv(f)' BY <2>1, NoFetchIsTyped DEF FetchInv
  <2>3. CacheRows' BY <1>0, <1>12 DEF Finish, CacheRows
  <2> QED BY <1>12, <2>2, <2>3, NoFetchIsTyped, ReadSteps DEF Finish
<1>13. CASE RowGrowsOld \/ HostsGrowOld
  <2>1. CacheRows' BY <1>0, <1>13 DEF RowGrowsOld, HostsGrowOld, CacheRows, NoSlabRow
  <2> QED BY <1>0, <1>13, <2>1
          DEF RowGrowsOld, HostsGrowOld, LocationsInv, Network, FetchInv
<1>14. CASE Move
  <2>1. UNCHANGED <<kept, refusals, rows, hostsKnown, fetches>> /\ moves' \in 0..MaxMove
    BY <1>0, <1>14, ShardAssumption DEF Move, Network
  <2>2. CASE UNCHANGED hosting /\ hosting \subseteq listed' /\ listed' \subseteq NetHost
    BY <1>0, <2>1, <2>2 DEF LocationsInv, Network, CacheRows, FetchInv, WholeSlab
  <2>3. ASSUME NEW from \in hosting, NEW to \in listed \ hosting,
               hosting' = (hosting \ {from}) \cup {to}, UNCHANGED listed
        PROVE  LocationsInv'
    <3>1. IsFiniteSet(hosting) BY <1>0, ShardAssumption, FS_Subset DEF Network, WholeSlab
    <3>2. /\ IsFiniteSet(hosting \ {from})
          /\ Cardinality(hosting \ {from}) = Cardinality(hosting) - 1
      BY <3>1, FS_RemoveElement
    <3>3. Cardinality(hosting') = Cardinality(hosting \ {from}) + 1
      BY <2>3, <3>2, FS_AddElement
    <3>4. Cardinality(hosting) \in Nat BY <3>1, FS_CardinalityType
    <3>5. Network' BY <1>0, <2>1, <2>3, <3>2, <3>3, <3>4 DEF Network, WholeSlab
    <3> QED BY <1>0, <2>1, <3>5 DEF LocationsInv, CacheRows, FetchInv, WholeSlab
  <2> QED BY <1>0, <1>14, <2>2, <2>3 DEF Move, Network
<1>15. CASE Delete
  <2>1. Network' BY <1>0, <1>15 DEF Delete, Network, WholeSlab
  <2> QED BY <1>0, <1>15, <2>1 DEF Delete, LocationsInv, CacheRows, FetchInv, WholeSlab
<1> QED
  BY <1>1, <1>3, <1>4, <1>5, <1>6, <1>7, <1>8, <1>9, <1>10, <1>11, <1>12, <1>13, <1>14, <1>15
  DEF LocationsNext, ReadOn

(***************************************************************************)
(* A cached slab row names the hosts of a whole slab and a slab is never   *)
(* left on fewer hosts than it has sectors, however often its sectors      *)
(* move, hosts join and leave and calls are refused.                       *)
(***************************************************************************)
THEOREM LocationsTypeCorrect == LocationsSpec => []LocationsTypeOK
<1>1. LocationsInv => LocationsTypeOK
  BY DEF LocationsInv, Network, CacheRows, WholeSlab, FetchInv, LocationsTypeOK
<1> QED BY <1>1, LocationsStart, LocationsStep, PTL DEF LocationsSpec
=============================================================================
