------------------------------ MODULE BuildRun ------------------------------
(***************************************************************************)
(* The build run (server.ts "the ORCHESTRATOR", build_plan.ts): the items  *)
(* of a ratified roadmap are drafted one by one, each draft is checked and *)
(* held at a gate on the person's screen, and accepting it writes its      *)
(* files and starts the next.                                              *)
(*                                                                         *)
(* The person has one browser, whose gate outlives a restart.  An          *)
(* increment is the two files of its item; both are new.                   *)
(***************************************************************************)
EXTENDS Naturals, FiniteSets

CONSTANTS
  Item,        \* the roadmap's items
  Needs,       \* Needs[i]: the items i builds on
  Rank,        \* Rank[i]: its place in the roadmap
  NoItem,
  Drafts,      \* bound: how many drafts are made
  BRestarts,   \* bound: how often the server restarts
  OneGate      \* TRUE: the person starts, retries or skips only when nothing is
               \* on screen, drafted, asked about or being built, and asks for
               \* a new draft only when nothing is being built

Increment == {1, 2}

ASSUME BuildAssumption ==
  /\ NoItem \notin Item /\ Needs \in [Item -> SUBSET Item] /\ Rank \in [Item -> Nat]
  /\ Drafts \in Nat /\ BRestarts \in Nat /\ OneGate \in BOOLEAN

VARIABLES
  run,         \* buildRunActive, runItemId and the drafts in the making
  status,      \* build-plan.json: the items' statuses
  gate,        \* the person's pendingChangeset
  query,       \* what was asked about a gate and is not answered yet
  applying,    \* the accept in progress
  wrote,       \* wrote[i]: the files of i's increment on disk
  count        \* drafts begun and restarts so far; whether one cut an accept short

buildVars == <<run, status, gate, query, applying, wrote, count>>

ItemStatus == {"pending", "drafting", "gated", "built", "failed", "skipped"}
Draft == [item : Item, stage : {"draft", "floor"}, lost : BOOLEAN, n : 1..Drafts]
NoGate == [item |-> NoItem, tagged |-> FALSE, floor |-> "none", locked |-> FALSE]
NoQuery == [item |-> NoItem, tagged |-> FALSE, stage |-> "none"]
NoAccept == [item |-> NoItem, left |-> {}]

BuildInit ==
  /\ run = [active |-> FALSE, item |-> NoItem, drafts |-> {}]
  /\ status = [i \in Item |-> "pending"]
  /\ gate = NoGate /\ query = NoQuery /\ applying = NoAccept
  /\ wrote = [i \in Item |-> {}]
  /\ count = [drafts |-> 0, restarts |-> 0, torn |-> FALSE]

-----------------------------------------------------------------------------
\* nextBuildableItem: the first pending item whose needs are all built.
Buildable(st) == {i \in Item : st[i] = "pending" /\ \A j \in Needs[i] : st[j] = "built"}

NextItem(st) == {i \in Buildable(st) : \A j \in Buildable(st) : Rank[i] <= Rank[j]}

\* disposeBuildSession: the builder's child is killed, its drafts come to
\* nothing.
DisposeSession(ds) == {[d EXCEPT !.lost = @ \/ d.stage = "draft"] : d \in ds}

DisposeQuery == [query EXCEPT !.stage = IF @ = "draft" THEN "lost" ELSE @]

\* The one builder session refuses a turn while another is in progress.
SessionBusy(ds) == query.stage = "draft" \/ \E d \in ds : d.stage = "draft"

\* advanceBuildRun, up to its first await, from run r and statuses st: the
\* next item is drafted, or the run is over.
Advance(r, st) ==
  IF ~r.active
  THEN run' = r /\ status' = st /\ UNCHANGED <<query, count>>
  ELSE IF NextItem(st) = {}
  THEN /\ run' = [active |-> FALSE, item |-> NoItem, drafts |-> DisposeSession(r.drafts)]
       /\ query' = DisposeQuery
       /\ status' = st /\ UNCHANGED count
  ELSE \E i \in NextItem(st) :
         /\ count.drafts < Drafts
         /\ run' = [r EXCEPT !.item = i, !.drafts = @ \cup
                      {[item |-> i, stage |-> "draft", lost |-> SessionBusy(@), n |-> count.drafts + 1]}]
         /\ status' = [st EXCEPT ![i] = "drafting"]
         /\ count' = [count EXCEPT !.drafts = @ + 1]
         /\ UNCHANGED query

\* mutant: the run pauses and says nothing of the item
FailsSilently(i, ds) ==
  /\ run' = [run EXCEPT !.active = FALSE, !.drafts = ds]
  /\ UNCHANGED status

\* The item fails and the run pauses.
Fails(i, ds) ==
  /\ status' = [status EXCEPT ![i] = "failed"]
  /\ run' = [active |-> FALSE, item |-> NoItem, drafts |-> ds]

\* draftChangeset returns: an increment, or nothing.
Drafted(d, ok) ==
  /\ d \in run.drafts /\ d.stage = "draft" /\ (d.lost => ~ok)
  /\ IF ok THEN /\ run' = [run EXCEPT !.drafts = (@ \ {d}) \cup {[d EXCEPT !.stage = "floor"]}]
                /\ UNCHANGED status
           ELSE Fails(d.item, run.drafts \ {d})
  /\ UNCHANGED <<gate, query, applying, wrote, count>>

\* The file floor: the targets of a create must be new.
FilesNew(i) == wrote[i] = {}

\* changesetProposeCore returns: a green floor, or one whose only blocker is
\* consent, goes to the gate; a red one fails the item.
Floored(d, floor) ==
  /\ d \in run.drafts /\ d.stage = "floor" /\ (~FilesNew(d.item) => floor = "red")
  /\ IF floor = "red"
     THEN Fails(d.item, run.drafts \ {d}) /\ UNCHANGED gate
     ELSE /\ status' = [status EXCEPT ![d.item] = "gated"]
          /\ run' = [run EXCEPT !.drafts = @ \ {d}]
          /\ gate' = [item |-> d.item, tagged |-> TRUE, floor |-> floor, locked |-> FALSE]
  /\ UNCHANGED <<query, applying, wrote, count>>

\* handleChangesetPropose with the consent token, up to the check it awaits.
Consent ==
  /\ gate.floor = "asks" /\ query = NoQuery
  /\ query' = [item |-> gate.item, tagged |-> gate.tagged, stage |-> "consent"]
  /\ UNCHANGED <<run, status, gate, applying, wrote, count>>

\* handleChangesetModify, up to the draft it awaits; the page locks the gate
\* until another one replaces it.
Modify ==
  /\ gate # NoGate /\ query = NoQuery /\ (OneGate => applying = NoAccept)
  /\ count.drafts < Drafts
  /\ gate' = [gate EXCEPT !.locked = TRUE]
  /\ query' = [item |-> gate.item, tagged |-> gate.tagged,
               stage |-> IF SessionBusy(run.drafts) THEN "lost" ELSE "draft"]
  /\ count' = [count EXCEPT !.drafts = @ + 1]
  /\ UNCHANGED <<run, status, applying, wrote>>

\* The new draft: a failed one closes the gate.
Redrafted(ok) ==
  /\ query.stage \in {"draft", "lost"} /\ (query.stage = "lost" => ~ok)
  /\ IF ok THEN query' = [query EXCEPT !.stage = "floor"] /\ UNCHANGED gate
           ELSE query' = NoQuery /\ gate' = NoGate
  /\ UNCHANGED <<run, status, applying, wrote, count>>

\* The reply puts the increment at the gate, whatever is there by now.  With
\* consent its tag is kept only while the item is the run's.
Rejudged(floor) ==
  /\ query.stage \in {"consent", "floor"} /\ (query.stage = "consent" => floor # "asks")
  /\ ~FilesNew(query.item) => floor = "red"
  /\ gate' = [item |-> query.item, floor |-> floor, locked |-> FALSE,
              tagged |-> query.tagged /\ (query.stage = "consent" => query.item = run.item)]
  /\ query' = NoQuery
  /\ UNCHANGED <<run, status, applying, wrote, count>>

-----------------------------------------------------------------------------
\* handleChangesetAccept: the existence guards again, then one file at a time.
Accept ==
  /\ gate.floor = "green" /\ ~gate.locked /\ applying = NoAccept /\ FilesNew(gate.item)
  /\ applying' = [item |-> gate.item, left |-> Increment]
  /\ UNCHANGED <<run, status, gate, query, wrote, count>>

Writes(f) ==
  /\ f \in applying.left
  /\ wrote' = [wrote EXCEPT ![applying.item] = @ \cup {f}]
  /\ applying' = [applying EXCEPT !.left = @ \ {f}]
  /\ UNCHANGED <<run, status, gate, query, count>>

\* mutant: the files written before the one that failed stay
RevertNothing(i) == wrote

\* All or nothing: creations are unlinked.
Revert(i) == [wrote EXCEPT ![i] = {}]

\* An op fails: what was written is reverted, the gate stays, and the item the
\* run is at fails.
WriteFails ==
  /\ applying.left # {}
  /\ wrote' = Revert(applying.item)
  /\ applying' = NoAccept
  /\ IF run.item # NoItem THEN Fails(run.item, run.drafts) ELSE UNCHANGED <<run, status>>
  /\ UNCHANGED <<gate, query, count>>

\* All files are written but one of them does not parse: that is all that is
\* said of it.
ReparseFails ==
  /\ applying.item # NoItem /\ applying.left = {}
  /\ applying' = NoAccept
  /\ UNCHANGED <<run, status, gate, query, wrote, count>>

\* The increment is built: the gate closes, the roadmap records the item the
\* run is at, and the next one is drafted.
Built ==
  /\ applying.item # NoItem /\ applying.left = {}
  /\ applying' = NoAccept /\ gate' = NoGate
  /\ IF run.item = NoItem THEN UNCHANGED <<run, status, query, count>>
     ELSE Advance([run EXCEPT !.item = NoItem], [status EXCEPT ![run.item] = "built"])
  /\ UNCHANGED wrote

-----------------------------------------------------------------------------
\* With OneGate the person waits while a draft is made or built or shown.
Free == OneGate => gate = NoGate /\ query = NoQuery /\ run.drafts = {} /\ applying = NoAccept

RunStart ==
  /\ ~run.active /\ Free
  /\ Advance([run EXCEPT !.active = TRUE], status)
  /\ UNCHANGED <<gate, applying, wrote>>

RunPause ==
  /\ run.active
  /\ run' = [run EXCEPT !.active = FALSE]
  /\ UNCHANGED <<status, gate, query, applying, wrote, count>>

\* Dismissing the gate: a tagged one returns its item to pending and pauses.
RunReject ==
  /\ gate # NoGate /\ ~gate.locked
  /\ gate' = NoGate
  /\ IF gate.tagged
     THEN /\ status' = [status EXCEPT ![gate.item] = "pending"]
          /\ run' = [run EXCEPT !.active = FALSE, !.item = NoItem]
     ELSE UNCHANGED <<run, status>>
  /\ UNCHANGED <<query, applying, wrote, count>>

RunRetry(i) ==
  /\ Free
  /\ status[i] = "failed" \/ (~run.active /\ status[i] \in {"skipped", "pending"})
  /\ Advance([run EXCEPT !.active = TRUE], [status EXCEPT ![i] = "pending"])
  /\ UNCHANGED <<gate, applying, wrote>>

RunSkip(i) ==
  /\ status[i] = "failed" /\ Free
  /\ Advance([run EXCEPT !.item = IF @ = i THEN NoItem ELSE @], [status EXCEPT ![i] = "skipped"])
  /\ UNCHANGED <<gate, applying, wrote>>

RunStop ==
  /\ run.active \/ run.item # NoItem
  /\ run' = [active |-> FALSE, item |-> NoItem, drafts |-> DisposeSession(run.drafts)]
  /\ status' = IF run.item = NoItem THEN status ELSE [status EXCEPT ![run.item] = "pending"]
  /\ query' = DisposeQuery
  /\ UNCHANGED <<gate, applying, wrote, count>>

\* The server restarts: the roadmap and the files stay, and so does the gate
\* on screen, but one locked on an answer that never comes: the person reloads
\* the page.
BuildRestart ==
  /\ count.restarts < BRestarts
  /\ count' = [count EXCEPT !.restarts = @ + 1, !.torn = @ \/ applying # NoAccept]
  /\ run' = [active |-> FALSE, item |-> NoItem, drafts |-> {}]
  /\ gate' = IF gate.locked THEN NoGate ELSE gate
  /\ query' = NoQuery /\ applying' = NoAccept
  /\ UNCHANGED <<status, wrote>>

\* Drafts return and floors end; a person may never answer.
DraftStep ==
  \E d \in run.drafts : \/ \E ok \in BOOLEAN : Drafted(d, ok)
                        \/ \E floor \in {"green", "asks", "red"} : Floored(d, floor)

BuildNext ==
  \/ DraftStep
  \/ Consent \/ Modify
  \/ \E ok \in BOOLEAN : Redrafted(ok)
  \/ \E floor \in {"green", "asks", "red"} : Rejudged(floor)
  \/ Accept \/ WriteFails \/ ReparseFails \/ Built
  \/ \E f \in Increment : Writes(f)
  \/ RunStart \/ RunPause \/ RunReject \/ RunStop \/ BuildRestart
  \/ \E i \in Item : RunRetry(i) \/ RunSkip(i)

BuildSpec == BuildInit /\ [][BuildNext]_buildVars

BuildTypeOK ==
  /\ run \in [active : BOOLEAN, item : Item \cup {NoItem}, drafts : SUBSET Draft]
  /\ status \in [Item -> ItemStatus]
  /\ gate \in [item : Item \cup {NoItem}, tagged : BOOLEAN, floor : {"none", "green", "asks", "red"},
              locked : BOOLEAN]
  /\ query \in [item : Item \cup {NoItem}, tagged : BOOLEAN,
               stage : {"none", "consent", "draft", "lost", "floor"}]
  /\ applying \in [item : Item \cup {NoItem}, left : SUBSET Increment]
  /\ wrote \in [Item -> SUBSET Increment]
  /\ count \in [drafts : 0..Drafts, restarts : 0..BRestarts, torn : BOOLEAN]

\* The roadmap tells what is on disk: an item marked built has its whole
\* increment there and so has every item it needs, and outside an accept no
\* increment is there in part (a restart in the middle of an accept excepted).
\* "the increment is built, the roadmap records it", "all-or-nothing".
RoadmapIsHonest ==
  /\ \A i \in Item : status[i] = "built" =>
       wrote[i] = Increment /\ \A j \in Needs[i] : status[j] = "built"
  /\ applying = NoAccept /\ ~count.torn => \A i \in Item : wrote[i] \in {{}, Increment}

\* The draft the run is at comes to a judgment, a gate or a failed item, before
\* the next one is made.
BeingDrafted == run.item # NoItem /\ status[run.item] = "drafting"

DraftsComeToJudgment == BeingDrafted ~> ~BeingDrafted
=============================================================================
