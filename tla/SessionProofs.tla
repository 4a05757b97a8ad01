---------------------------- MODULE SessionProofs ----------------------------
(***************************************************************************)
(* What is said of the work sessions is true.  The roadmap of a build run  *)
(* (BuildRun) and the decision about a hooked run (HookedRun) are records  *)
(* of files changed in steps that others come between, and each invariant  *)
(* says what those steps have left on disk so far.  The list of the model  *)
(* tasks (GuiTasks) and the turns of a chat session (ChatSession) are told *)
(* to panels, and each invariant says what the panels have been told.      *)
(***************************************************************************)
EXTENDS BuildRun, HookedRun, GuiTasks, ChatSession, SequenceTheorems, TLAPS

------------------------------------------------------------------------------
(* The build run.                                                           *)

RunState == [active : BOOLEAN, item : Item \cup {NoItem}, drafts : SUBSET Draft]
GateState == [item : Item \cup {NoItem}, tagged : BOOLEAN, floor : {"none", "green", "asks", "red"},
              locked : BOOLEAN]
QueryState == [item : Item \cup {NoItem}, tagged : BOOLEAN,
               stage : {"none", "consent", "draft", "lost", "floor"}]
AcceptState == [item : Item \cup {NoItem}, left : SUBSET Increment]
CountState == [drafts : 0..Drafts, restarts : 0..BRestarts, torn : BOOLEAN]

\* The items anything is in hand of.
Held(r, g, q, a) == ({r.item, g.item, q.item, a.item} \cup {d.item : d \in r.drafts}) \ {NoItem}

\* It is all of one item, which is not built.
OneItem(r, st, g, q, a) ==
  /\ \A i \in Held(r, g, q, a) : i \in Item /\ st[i] # "built"
  /\ \A i, j \in Held(r, g, q, a) : i = j

\* One draft is made with nothing else in hand; while the gate is asked about
\* it is not accepted, and while it is accepted it stays as it was.
OneThing(r, g, q, a) ==
  /\ \A d, e \in r.drafts : d = e
  /\ r.drafts # {} => g = NoGate /\ q = NoQuery /\ a = NoAccept
  /\ q # NoQuery => a = NoAccept /\ q.item # NoItem /\ (g = NoGate \/ g.floor = "asks" \/ g.locked)
  /\ g # NoGate => g.item # NoItem
  /\ a # NoAccept => a.item # NoItem /\ (g = NoGate \/ (g.floor = "green" /\ ~g.locked))

\* All that the item the run is at needs is built.
AtWork(r, st) == r.item # NoItem => \A j \in Needs[r.item] : st[j] = "built"

\* What is not left to write is written.
Accepting(a, w) == a # NoAccept => w[a.item] = Increment \ a.left

BuiltIsWhole(st, w) ==
  \A i \in Item : st[i] = "built" => w[i] = Increment /\ \A j \in Needs[i] : st[j] = "built"

\* In part are only the files of what is being accepted, or of what a restart
\* cut short.
WholeOrNone(a, w, torn) ==
  \A i \in Item : w[i] \in {{}, Increment} \/ (a # NoAccept /\ i = a.item) \/ torn

Roadmap(r, st, g, q, a, w, torn) ==
  /\ OneItem(r, st, g, q, a) /\ OneThing(r, g, q, a) /\ AtWork(r, st)
  /\ Accepting(a, w) /\ BuiltIsWhole(st, w) /\ WholeOrNone(a, w, torn)

Honest == Roadmap(run, status, gate, query, applying, wrote, count.torn)

\* The inductive invariant of the build run.
BuildInv == BuildTypeOK /\ Honest

\* A draft is killed only when there is one (disposeBuildSession).
LEMMA NothingToDispose ==
  DisposeSession({}) = {} /\ (query = NoQuery => DisposeQuery = NoQuery)
<1>1. [NoQuery EXCEPT !.stage = IF NoQuery.stage = "draft" THEN "lost" ELSE NoQuery.stage] = NoQuery
  BY DEF NoQuery
<1> QED BY <1>1 DEF DisposeSession, DisposeQuery

\* The first state: a ratified roadmap of which nothing is built.
LEMMA BuildInitially ==
  BuildInit => BuildInv
<1> SUFFICES ASSUME BuildInit PROVE BuildInv
  OBVIOUS
<1>1. BuildTypeOK
  BY BuildAssumption DEF BuildInit, BuildTypeOK, ItemStatus, NoGate, NoQuery, NoAccept
<1>2. Held(run, gate, query, applying) = {}
  BY DEF BuildInit, Held, NoGate, NoQuery, NoAccept
<1>3. Honest
  BY <1>2 DEF BuildInit, Honest, Roadmap, OneItem, OneThing, AtWork, Accepting, BuiltIsWhole, WholeOrNone
<1> QED BY <1>1, <1>3 DEF BuildInv

\* The types of the state, what is known of it and what the constants are.
LEMMA BuildFacts ==
  ASSUME BuildInv
  PROVE  /\ run \in RunState /\ status \in [Item -> ItemStatus] /\ gate \in GateState
         /\ query \in QueryState /\ applying \in AcceptState /\ wrote \in [Item -> SUBSET Increment]
         /\ count \in CountState
         /\ NoGate.item = NoItem /\ NoQuery.item = NoItem /\ NoAccept.item = NoItem
         /\ NoItem \notin Item /\ \A i \in Item : Needs[i] \subseteq Item
         /\ OneItem(run, status, gate, query, applying) /\ OneThing(run, gate, query, applying)
         /\ AtWork(run, status) /\ Accepting(applying, wrote) /\ BuiltIsWhole(status, wrote)
         /\ WholeOrNone(applying, wrote, count.torn)
<1>1. /\ run \in RunState /\ status \in [Item -> ItemStatus] /\ gate \in GateState
      /\ query \in QueryState /\ applying \in AcceptState /\ wrote \in [Item -> SUBSET Increment]
      /\ count \in CountState
  BY DEF BuildInv, BuildTypeOK, RunState, GateState, QueryState, AcceptState, CountState
<1>2. NoGate.item = NoItem /\ NoQuery.item = NoItem /\ NoAccept.item = NoItem
  BY DEF NoGate, NoQuery, NoAccept
<1> QED BY <1>1, <1>2, BuildAssumption DEF BuildInv, Honest, Roadmap

\* What is in hand is an item, the only one, and it is not built.
LEMMA HeldFacts ==
  ASSUME BuildInv, NEW i, i # NoItem,
         i \in {run.item, gate.item, query.item, applying.item} \/ \E d \in run.drafts : i = d.item
  PROVE  /\ i \in Item /\ status[i] # "built"
         /\ run.item \in {i, NoItem} /\ gate.item \in {i, NoItem} /\ query.item \in {i, NoItem}
         /\ applying.item \in {i, NoItem} /\ \A d \in run.drafts : d.item = i
<1>1. i \in Held(run, gate, query, applying)
  BY DEF Held
<1>2. OneItem(run, status, gate, query, applying)
  BY BuildFacts
<1>3. \A j \in {run.item, gate.item, query.item, applying.item} \cup {d.item : d \in run.drafts} :
        j = NoItem \/ j \in Held(run, gate, query, applying)
  BY DEF Held
<1>4. \A j \in {run.item, gate.item, query.item, applying.item} \cup {d.item : d \in run.drafts} :
        j \in {i, NoItem}
  BY <1>1, <1>2, <1>3 DEF OneItem
<1>5. \A d \in run.drafts : d.item \in Item /\ NoItem \notin Item
  BY BuildFacts DEF RunState, Draft
<1> QED BY <1>1, <1>2, <1>4, <1>5 DEF OneItem

\* Nothing more comes into hand, and nothing more is built.
LEMMA HeldStays ==
  ASSUME BuildInv, NEW r, NEW st, NEW g, NEW q, NEW a,
         Held(r, g, q, a) \subseteq Held(run, gate, query, applying),
         \A i \in Item : st[i] = "built" <=> status[i] = "built"
  PROVE  OneItem(r, st, g, q, a)
BY BuildFacts DEF OneItem

\* A run that goes on does so from a clear screen: it drafts the next item, and
\* what that one needs is built (advanceBuildRun, nextBuildableItem).
LEMMA AdvanceIsHonest ==
  ASSUME BuildTypeOK, NEW r \in RunState, NEW st \in [Item -> ItemStatus], r.drafts = {},
         Advance(r, st), gate' = NoGate, query = NoQuery, applying' = NoAccept, wrote' = wrote,
         Roadmap(r, st, NoGate, NoQuery, NoAccept, wrote, count.torn)
  PROVE  Honest'
<1>1. NoGate.item = NoItem /\ NoQuery.item = NoItem /\ NoAccept.item = NoItem
  BY DEF NoGate, NoQuery, NoAccept
<1>2. count \in CountState
  BY DEF BuildTypeOK, CountState
<1>3. CASE ~r.active
  <2>1. run' = r /\ status' = st /\ count' = count /\ query' = NoQuery
    BY <1>3 DEF Advance
  <2> QED BY <2>1 DEF Honest
<1>4. CASE r.active /\ NextItem(st) = {}
  <2> DEFINE r1 == [active |-> FALSE, item |-> NoItem, drafts |-> {}]
  <2>1. run' = r1 /\ status' = st /\ count' = count /\ query' = NoQuery
    BY <1>4, NothingToDispose DEF Advance
  <2>2. r1.item = NoItem /\ r1.drafts = {}
    OBVIOUS
  <2> HIDE DEF r1
  <2>3. Held(r1, NoGate, NoQuery, NoAccept) = {}
    BY <1>1, <2>2 DEF Held
  <2>4. Roadmap(r1, st, NoGate, NoQuery, NoAccept, wrote, count.torn)
    BY <2>2, <2>3 DEF Roadmap, OneItem, OneThing, AtWork
  <2> QED BY <2>1, <2>4 DEF Honest
<1>5. CASE r.active /\ NextItem(st) # {}
  <2>1. PICK i \in NextItem(st) :
         /\ run' = [r EXCEPT !.item = i, !.drafts = r.drafts \cup
                      {[item |-> i, stage |-> "draft", lost |-> SessionBusy(r.drafts), n |-> count.drafts + 1]}]
         /\ status' = [st EXCEPT ![i] = "drafting"]
         /\ count' = [count EXCEPT !.drafts = count.drafts + 1]
         /\ query' = NoQuery
    BY <1>2, <1>5 DEF Advance, RunState, CountState
  <2> DEFINE d == [item |-> i, stage |-> "draft", lost |-> SessionBusy(r.drafts), n |-> count.drafts + 1]
             r1 == [r EXCEPT !.item = i, !.drafts = {d}]
             st1 == [st EXCEPT ![i] = "drafting"]
  <2>2. i \in Item /\ st[i] = "pending" /\ \A j \in Needs[i] : st[j] = "built"
    BY DEF NextItem, Buildable
  <2>3. d.item = i /\ run' = r1 /\ status' = st1
    BY <2>1
  <2> HIDE DEF d
  <2>4. r1.item = i /\ r1.drafts = {d}
    BY DEF RunState
  <2>5. st1[i] = "drafting" /\ \A j \in Item : j # i => st1[j] = st[j]
    BY <2>2
  <2>6. \A j \in Item : st[j] = "built" <=> st1[j] = "built"
    BY <2>2, <2>5
  <2>7. \A j \in Item : Needs[j] \subseteq Item
    BY BuildAssumption
  <2> HIDE DEF r1, st1
  <2>8. Held(r1, NoGate, NoQuery, NoAccept) \subseteq {i}
    BY <1>1, <2>3, <2>4 DEF Held
  <2>9. OneItem(r1, st1, NoGate, NoQuery, NoAccept) /\ OneThing(r1, NoGate, NoQuery, NoAccept)
    BY <2>2, <2>4, <2>5, <2>8 DEF OneItem, OneThing
  <2>10. AtWork(r1, st1)
    BY <2>2, <2>4, <2>6, <2>7 DEF AtWork
  <2>11. BuiltIsWhole(st1, wrote)
    BY <2>6, <2>7 DEF Roadmap, BuiltIsWhole
  <2>12. Roadmap(r1, st1, NoGate, NoQuery, NoAccept, wrote, count.torn)
    BY <2>9, <2>10, <2>11 DEF Roadmap
  <2>13. count'.torn = count.torn
    BY <1>2, <2>1 DEF CountState
  <2> QED BY <2>1, <2>3, <2>12, <2>13 DEF Honest
<1> QED BY <1>3, <1>4, <1>5

\* The status of an item that is not built changes to another such status.
LEMMA StatusLeavesWork ==
  ASSUME BuildInv, NEW i \in Item, status[i] # "built", NEW s \in ItemStatus \ {"built"}
  PROVE  /\ [status EXCEPT ![i] = s] \in [Item -> ItemStatus]
         /\ \A j \in Item : [status EXCEPT ![i] = s][j] = "built" <=> status[j] = "built"
         /\ BuiltIsWhole([status EXCEPT ![i] = s], wrote)
         /\ \A r : r.item \in {run.item, NoItem} => AtWork(r, [status EXCEPT ![i] = s])
<1>1. /\ status \in [Item -> ItemStatus] /\ BuiltIsWhole(status, wrote) /\ AtWork(run, status)
      /\ \A j \in Item : Needs[j] \subseteq Item
  BY BuildFacts
<1>2. run.item # NoItem => run.item \in Item
  BY HeldFacts
<1> DEFINE st == [status EXCEPT ![i] = s]
<1>3. st \in [Item -> ItemStatus] /\ \A j \in Item : st[j] = "built" <=> status[j] = "built"
  BY <1>1
<1> HIDE DEF st
<1>4. BuiltIsWhole(st, wrote)
  BY <1>1, <1>3 DEF BuiltIsWhole
<1>5. \A r : r.item \in {run.item, NoItem} => AtWork(r, st)
  BY <1>1, <1>2, <1>3 DEF AtWork
<1> QED BY <1>3, <1>4, <1>5 DEF st

\* A draft that is killed is a draft.
LEMMA DisposedAreDrafts ==
  ASSUME NEW ds \in SUBSET Draft
  PROVE  DisposeSession(ds) \in SUBSET Draft
<1> SUFFICES ASSUME NEW d \in ds PROVE [d EXCEPT !.lost = d.lost \/ d.stage = "draft"] \in Draft
  BY DEF DisposeSession
<1> DEFINE lost == d.lost \/ d.stage = "draft"
<1>1. d \in Draft /\ lost \in BOOLEAN
  OBVIOUS
<1> HIDE DEF lost
<1>2. [d EXCEPT !.lost = lost] \in Draft
  BY <1>1 DEF Draft
<1> QED BY <1>2 DEF lost

LEMMA QueryIsTyped ==
  ASSUME query \in QueryState
  PROVE  DisposeQuery \in QueryState
BY DEF DisposeQuery, QueryState

\* A run that goes on keeps the types, whatever it goes on from.
LEMMA AdvanceIsTyped ==
  ASSUME NEW r \in RunState, NEW st \in [Item -> ItemStatus], Advance(r, st),
         count \in CountState, query \in QueryState
  PROVE  /\ run' \in RunState /\ status' \in [Item -> ItemStatus]
         /\ count' \in CountState /\ query' \in QueryState
<1>1. CASE ~r.active
  BY <1>1 DEF Advance
<1>2. CASE r.active /\ NextItem(st) = {}
  <2>1. DisposeSession(r.drafts) \in SUBSET Draft
    BY DisposedAreDrafts DEF RunState
  <2>2. \A ds \in SUBSET Draft : [active |-> FALSE, item |-> NoItem, drafts |-> ds] \in RunState
    BY DEF RunState
  <2>3. /\ run' = [active |-> FALSE, item |-> NoItem, drafts |-> DisposeSession(r.drafts)]
        /\ status' = st /\ count' = count /\ query' = DisposeQuery
    BY <1>2, Zenon DEF Advance
  <2>4. query' \in QueryState
    BY <2>3, QueryIsTyped
  <2> QED BY <2>1, <2>2, <2>3, <2>4, Zenon
<1>3. CASE r.active /\ NextItem(st) # {}
  <2>1. PICK i \in NextItem(st) :
         /\ count.drafts < Drafts
         /\ run' = [r EXCEPT !.item = i, !.drafts = @ \cup
                      {[item |-> i, stage |-> "draft", lost |-> SessionBusy(@), n |-> count.drafts + 1]}]
         /\ status' = [st EXCEPT ![i] = "drafting"]
         /\ count' = [count EXCEPT !.drafts = @ + 1]
         /\ query' = query
    BY <1>3, Zenon DEF Advance
  <2> DEFINE d == [item |-> i, stage |-> "draft", lost |-> SessionBusy(r.drafts), n |-> count.drafts + 1]
  <2>2. i \in Item /\ count.drafts + 1 \in 1..Drafts
    BY <2>1, BuildAssumption DEF NextItem, Buildable, CountState
  <2>3. d \in Draft
    BY <2>2 DEF Draft, SessionBusy
  <2> HIDE DEF d
  <2>4. run' = [r EXCEPT !.item = i, !.drafts = r.drafts \cup {d}]
    BY <2>1 DEF d, RunState
  <2>5. run' \in RunState
    BY <2>2, <2>3, <2>4 DEF RunState
  <2>6. status' \in [Item -> ItemStatus]
    BY <2>1 DEF ItemStatus
  <2>7. count' \in CountState
    BY <2>1, <2>2, BuildAssumption DEF CountState
  <2> QED BY <2>1, <2>5, <2>6, <2>7
<1> QED BY <1>1, <1>2, <1>3

\* An item that fails, whatever the run was at.
LEMMA FailureIsTyped ==
  ASSUME NEW ds \in SUBSET Draft, NEW i, Fails(i, ds), status \in [Item -> ItemStatus]
  PROVE  run' \in RunState /\ status' \in [Item -> ItemStatus]
BY DEF Fails, RunState, ItemStatus

\* Every step of a build run keeps the types: with or without OneGate.
LEMMA BuildStepIsTyped ==
  BuildTypeOK /\ [BuildNext]_buildVars => BuildTypeOK'
<1> DEFINE Typed == /\ run \in RunState /\ status \in [Item -> ItemStatus] /\ gate \in GateState
                    /\ query \in QueryState /\ applying \in AcceptState
                    /\ wrote \in [Item -> SUBSET Increment] /\ count \in CountState
<1>1. Typed <=> BuildTypeOK
  BY DEF BuildTypeOK, RunState, GateState, QueryState, AcceptState, CountState
<1>2. Typed' <=> BuildTypeOK'
  BY DEF BuildTypeOK, RunState, GateState, QueryState, AcceptState, CountState
<1> HIDE DEF Typed
<1> SUFFICES ASSUME Typed, [BuildNext]_buildVars PROVE Typed'
  BY <1>1, <1>2
<1> USE DEF Typed
<1>3. NoGate \in GateState /\ NoQuery \in QueryState /\ NoAccept \in AcceptState
  BY DEF GateState, QueryState, AcceptState, NoGate, NoQuery, NoAccept
<1>4. ASSUME NEW d \in run.drafts, NEW ok \in BOOLEAN, Drafted(d, ok) PROVE Typed'
  <2>1. run.drafts \subseteq Draft /\ d \in Draft
    BY DEF RunState
  <2>2. [d EXCEPT !.stage = "floor"] \in Draft
    BY <2>1 DEF Draft
  <2>3. CASE ok
    <3>1. run' = [run EXCEPT !.drafts = (run.drafts \ {d}) \cup {[d EXCEPT !.stage = "floor"]}]
      BY <1>4, <2>3 DEF Drafted, RunState
    <3>2. run' \in RunState
      BY <2>1, <2>2, <3>1 DEF RunState
    <3> QED BY <1>4, <2>3, <3>2 DEF Drafted
  <2>4. CASE ~ok
    <3>1. Fails(d.item, run.drafts \ {d}) /\ UNCHANGED <<gate, query, applying, wrote, count>>
      BY <1>4, <2>4 DEF Drafted
    <3> QED BY <2>1, <3>1, FailureIsTyped
  <2> QED BY <2>3, <2>4
<1>5. ASSUME NEW d \in run.drafts, NEW floor \in {"green", "asks", "red"}, Floored(d, floor)
      PROVE  Typed'
  <2>1. run.drafts \subseteq Draft /\ d \in Draft
    BY DEF RunState
  <2>2. CASE floor = "red"
    <3>1. Fails(d.item, run.drafts \ {d}) /\ UNCHANGED <<gate, query, applying, wrote, count>>
      BY <1>5, <2>2 DEF Floored
    <3> QED BY <2>1, <3>1, FailureIsTyped
  <2>3. CASE floor # "red"
    <3>1. /\ status' = [status EXCEPT ![d.item] = "gated"]
          /\ run' = [run EXCEPT !.drafts = run.drafts \ {d}]
          /\ gate' = [item |-> d.item, tagged |-> TRUE, floor |-> floor, locked |-> FALSE]
          /\ UNCHANGED <<query, applying, wrote, count>>
      BY <1>5, <2>3 DEF Floored, RunState
    <3>2. status' \in [Item -> ItemStatus] /\ run' \in RunState /\ gate' \in GateState
      BY <2>1, <3>1 DEF ItemStatus, RunState, GateState, Draft
    <3> QED BY <3>1, <3>2
  <2> QED BY <2>2, <2>3
<1>6. CASE \/ Consent \/ Modify
           \/ \E ok \in BOOLEAN : Redrafted(ok)
           \/ \E floor \in {"green", "asks", "red"} : Rejudged(floor)
  <2>1. UNCHANGED <<run, status, applying, wrote>>
    BY <1>6 DEF Consent, Modify, Redrafted, Rejudged
  <2>2. count' \in CountState
    <3>1. count.drafts < Drafts => [count EXCEPT !.drafts = count.drafts + 1] \in CountState
      BY BuildAssumption DEF CountState
    <3> QED BY <1>6, <3>1 DEF Consent, Modify, Redrafted, Rejudged
  <2>3. gate' \in GateState /\ query' \in QueryState
    <3>1. CASE Consent \/ Modify
      <4>1. gate' \in {gate, [gate EXCEPT !.locked = TRUE]}
        BY <3>1 DEF Consent, Modify
      <4>2. \E stage \in {"consent", "draft", "lost"} :
              query' = [item |-> gate.item, tagged |-> gate.tagged, stage |-> stage]
        BY <3>1 DEF Consent, Modify
      <4>3. gate.item \in Item \cup {NoItem} /\ gate.tagged \in BOOLEAN
        BY DEF GateState
      <4>4. gate' \in GateState
        BY <4>1 DEF GateState
      <4> QED BY <4>2, <4>3, <4>4 DEF QueryState
    <3>2. ASSUME NEW ok \in BOOLEAN, Redrafted(ok)
          PROVE  gate' \in GateState /\ query' \in QueryState
      BY <1>3, <3>2 DEF Redrafted, QueryState
    <3>3. ASSUME NEW floor \in {"green", "asks", "red"}, Rejudged(floor)
          PROVE  gate' \in GateState /\ query' \in QueryState
      <4> DEFINE b == query.tagged /\ (query.stage = "consent" => query.item = run.item)
      <4>1. /\ gate' = [item |-> query.item, floor |-> floor, locked |-> FALSE, tagged |-> b]
            /\ query' = NoQuery
        BY <3>3 DEF Rejudged
      <4>2. b \in BOOLEAN
        BY DEF QueryState
      <4> HIDE DEF b
      <4> QED BY <1>3, <4>1, <4>2 DEF GateState, QueryState
    <3> QED BY <1>6, <3>1, <3>2, <3>3
  <2> QED BY <2>1, <2>2, <2>3
<1>7. CASE Accept \/ ReparseFails \/ \E f \in Increment : Writes(f)
  <2>1. applying' \in AcceptState
    BY <1>3, <1>7 DEF Accept, ReparseFails, Writes, AcceptState, GateState, Increment
  <2>2. wrote' \in [Item -> SUBSET Increment]
    BY <1>7 DEF Accept, ReparseFails, Writes
  <2> QED BY <1>7, <2>1, <2>2 DEF Accept, ReparseFails, Writes
<1>8. CASE WriteFails
  <2>1. /\ wrote' = [wrote EXCEPT ![applying.item] = {}] /\ applying' = NoAccept
        /\ Fails(run.item, run.drafts) \/ UNCHANGED <<run, status>>
        /\ UNCHANGED <<gate, query, count>>
    BY <1>8 DEF WriteFails, Revert
  <2>2. run' \in RunState /\ status' \in [Item -> ItemStatus]
    <3>1. run.drafts \in SUBSET Draft
      BY DEF RunState
    <3> QED BY <2>1, <3>1, FailureIsTyped
  <2> QED BY <1>3, <2>1, <2>2
<1>9. CASE Built
  <2> DEFINE r == [run EXCEPT !.item = NoItem]
             st == [status EXCEPT ![run.item] = "built"]
  <2>1. r \in RunState /\ st \in [Item -> ItemStatus]
    BY DEF RunState, ItemStatus
  <2>2. /\ applying' = NoAccept /\ gate' = NoGate /\ wrote' = wrote
        /\ UNCHANGED <<run, status, query, count>> \/ Advance(r, st)
    BY <1>9 DEF Built
  <2> HIDE DEF r, st
  <2> QED BY <1>3, <2>1, <2>2, AdvanceIsTyped
<1>10. CASE RunStart \/ \E i \in Item : RunRetry(i) \/ RunSkip(i)
  <2>1. \E r \in RunState, st \in [Item -> ItemStatus] : Advance(r, st)
    <3>1. CASE RunStart
      <4>1. [run EXCEPT !.active = TRUE] \in RunState
        BY DEF RunState
      <4> QED BY <3>1, <4>1 DEF RunStart
    <3>2. ASSUME NEW i \in Item, RunRetry(i) \/ RunSkip(i)
          PROVE  \E r \in RunState, st \in [Item -> ItemStatus] : Advance(r, st)
      <4>1. /\ [run EXCEPT !.active = TRUE] \in RunState
            /\ [run EXCEPT !.item = IF run.item = i THEN NoItem ELSE run.item] \in RunState
        BY DEF RunState
      <4>2. [status EXCEPT ![i] = "pending"] \in [Item -> ItemStatus]
            /\ [status EXCEPT ![i] = "skipped"] \in [Item -> ItemStatus]
        BY DEF ItemStatus
      <4>3. \/ Advance([run EXCEPT !.active = TRUE], [status EXCEPT ![i] = "pending"])
            \/ Advance([run EXCEPT !.item = IF run.item = i THEN NoItem ELSE run.item],
                       [status EXCEPT ![i] = "skipped"])
        BY <3>2 DEF RunRetry, RunSkip, RunState
      <4> QED BY <4>1, <4>2, <4>3
    <3> QED BY <1>10, <3>1, <3>2
  <2>2. UNCHANGED <<gate, applying, wrote>>
    BY <1>10 DEF RunStart, RunRetry, RunSkip
  <2>3. PICK r \in RunState : \E st \in [Item -> ItemStatus] : Advance(r, st)
    BY <2>1
  <2>4. PICK st \in [Item -> ItemStatus] : Advance(r, st)
    BY <2>3
  <2> QED BY <2>2, <2>4, AdvanceIsTyped
<1>11. CASE RunPause \/ RunReject
  <2>1. run' \in RunState /\ status' \in [Item -> ItemStatus]
    <3>1. CASE RunPause
      BY <3>1 DEF RunPause, RunState
    <3>2. CASE RunReject /\ gate.tagged
      <4>1. /\ status' = [status EXCEPT ![gate.item] = "pending"]
            /\ run' = [run EXCEPT !.active = FALSE, !.item = NoItem]
        BY <3>2 DEF RunReject
      <4> QED BY <4>1 DEF RunState, ItemStatus
    <3>3. CASE RunReject /\ ~gate.tagged
      BY <3>3 DEF RunReject
    <3>4. gate.tagged \in BOOLEAN
      BY DEF GateState
    <3> QED BY <1>11, <3>1, <3>2, <3>3
  <2> QED BY <1>3, <1>11, <2>1 DEF RunPause, RunReject
<1>12. CASE RunStop \/ BuildRestart
  <2>1. run' \in RunState
    <3>1. DisposeSession(run.drafts) \in SUBSET Draft
      BY DisposedAreDrafts DEF RunState
    <3>2. \A ds \in SUBSET Draft : [active |-> FALSE, item |-> NoItem, drafts |-> ds] \in RunState
      BY DEF RunState
    <3>3. \/ run' = [active |-> FALSE, item |-> NoItem, drafts |-> DisposeSession(run.drafts)]
          \/ run' = [active |-> FALSE, item |-> NoItem, drafts |-> {}]
      BY <1>12, Zenon DEF RunStop, BuildRestart
    <3>4. {} \in SUBSET Draft
      OBVIOUS
    <3> HIDE DEF Typed
    <3> QED BY <3>1, <3>2, <3>3, <3>4, Zenon
  <2>2. status' \in [Item -> ItemStatus]
    BY <1>12 DEF RunStop, BuildRestart, ItemStatus
  <2>3. count' \in CountState
    <3> DEFINE torn == count.torn \/ applying # NoAccept
    <3>1. torn \in BOOLEAN
      BY DEF CountState
    <3>2. \/ count' = count
          \/ /\ count.restarts < BRestarts
             /\ count' = [count EXCEPT !.restarts = count.restarts + 1, !.torn = torn]
      BY <1>12 DEF RunStop, BuildRestart
    <3> HIDE DEF torn
    <3>3. count.restarts < BRestarts => count.restarts + 1 \in 0..BRestarts
      BY BuildAssumption DEF CountState
    <3> QED BY <3>1, <3>2, <3>3 DEF CountState
  <2>4. gate' \in GateState /\ query' \in QueryState
    BY <1>3, <1>12, QueryIsTyped DEF RunStop, BuildRestart
  <2> QED BY <1>3, <1>12, <2>1, <2>2, <2>3, <2>4 DEF RunStop, BuildRestart
<1>13. CASE UNCHANGED buildVars
  BY <1>13 DEF buildVars
<1> QED BY <1>4, <1>5, <1>6, <1>7, <1>8, <1>9, <1>10, <1>11, <1>12, <1>13 DEF BuildNext, DraftStep

\* A draft comes back (draftChangeset), and its floor is judged
\* (changesetProposeCore): it is the one thing in hand.
LEMMA DraftsAreHonest ==
  ASSUME BuildInv, NEW d \in run.drafts,
         \/ \E ok \in BOOLEAN : Drafted(d, ok)
         \/ \E floor \in {"green", "asks", "red"} : Floored(d, floor)
  PROVE  Honest'
<1> DEFINE t == count.torn
           i == d.item
<1>1. /\ run \in RunState /\ OneThing(run, gate, query, applying) /\ AtWork(run, status)
      /\ Accepting(applying, wrote) /\ BuiltIsWhole(status, wrote) /\ WholeOrNone(applying, wrote, t)
      /\ NoItem \notin Item /\ NoGate.item = NoItem
  BY BuildFacts
<1>2. /\ d \in Draft /\ i \in Item /\ run.drafts = {d}
      /\ gate = NoGate /\ query = NoQuery /\ applying = NoAccept
  BY <1>1 DEF RunState, Draft, OneThing
<1>3. status[i] # "built" /\ run.item \in {i, NoItem}
  BY <1>1, <1>2, HeldFacts
<1>4. CASE UNCHANGED <<gate, query, applying, wrote, count>> /\ Fails(i, run.drafts \ {d})
  <2> DEFINE st == [status EXCEPT ![i] = "failed"]
             r == [active |-> FALSE, item |-> NoItem, drafts |-> {}]
  <2>1. run' = r /\ status' = st
    BY <1>2, <1>4 DEF Fails
  <2>2. r.item = NoItem /\ r.drafts = {}
    OBVIOUS
  <2>3. "failed" \in ItemStatus \ {"built"}
    BY DEF ItemStatus
  <2>4. (\A j \in Item : st[j] = "built" <=> status[j] = "built") /\ BuiltIsWhole(st, wrote)
    BY <1>2, <1>3, <2>3, StatusLeavesWork
  <2> HIDE DEF r, st
  <2>5. Held(r, gate, query, applying) \subseteq Held(run, gate, query, applying)
    BY <2>2 DEF Held
  <2>6. OneItem(r, st, gate, query, applying)
    BY <2>4, <2>5, HeldStays
  <2>7. Roadmap(r, st, gate, query, applying, wrote, t)
    BY <1>1, <1>2, <2>2, <2>4, <2>6 DEF Roadmap, OneThing, AtWork
  <2> QED BY <1>4, <2>1, <2>7 DEF Honest
<1>5. CASE /\ run' = [run EXCEPT !.drafts = (run.drafts \ {d}) \cup {[d EXCEPT !.stage = "floor"]}]
           /\ UNCHANGED <<status, gate, query, applying, wrote, count>>
  <2> DEFINE e == [d EXCEPT !.stage = "floor"]
             r == [run EXCEPT !.drafts = {e}]
  <2>1. e.item = i
    BY <1>2 DEF Draft
  <2>2. run' = r
    BY <1>2, <1>5
  <2> HIDE DEF e
  <2>3. r.item = run.item /\ r.drafts = {e}
    BY <1>1 DEF RunState
  <2> HIDE DEF r
  <2>4. Held(r, gate, query, applying) \subseteq Held(run, gate, query, applying)
    BY <1>2, <2>1, <2>3 DEF Held
  <2>5. OneItem(r, status, gate, query, applying)
    BY <2>4, HeldStays
  <2>6. Roadmap(r, status, gate, query, applying, wrote, t)
    BY <1>1, <1>2, <2>3, <2>5 DEF Roadmap, OneThing, AtWork
  <2> QED BY <1>5, <2>2, <2>6 DEF Honest
<1>6. ASSUME NEW floor \in {"green", "asks"},
             status' = [status EXCEPT ![i] = "gated"],
             run' = [run EXCEPT !.drafts = run.drafts \ {d}],
             gate' = [item |-> i, tagged |-> TRUE, floor |-> floor, locked |-> FALSE],
             UNCHANGED <<query, applying, wrote, count>>
      PROVE  Honest'
  <2> DEFINE st == [status EXCEPT ![i] = "gated"]
             r == [run EXCEPT !.drafts = {}]
             g == [item |-> i, tagged |-> TRUE, floor |-> floor, locked |-> FALSE]
  <2>1. run' = r /\ status' = st /\ gate' = g
    BY <1>2, <1>6
  <2>2. r.item = run.item /\ r.drafts = {}
    BY <1>1 DEF RunState
  <2> HIDE DEF r
  <2>3. "gated" \in ItemStatus \ {"built"}
    BY DEF ItemStatus
  <2>4. /\ \A j \in Item : st[j] = "built" <=> status[j] = "built"
        /\ BuiltIsWhole(st, wrote) /\ AtWork(r, st)
    BY <1>2, <1>3, <2>2, <2>3, StatusLeavesWork
  <2>5. g.item = i
    OBVIOUS
  <2> HIDE DEF st, g
  <2>6. Held(r, g, query, applying) \subseteq Held(run, gate, query, applying)
    BY <1>2, <2>2, <2>5 DEF Held
  <2>7. OneItem(r, st, g, query, applying)
    BY <2>4, <2>6, HeldStays
  <2>8. Roadmap(r, st, g, query, applying, wrote, t)
    BY <1>1, <1>2, <2>2, <2>4, <2>5, <2>7 DEF Roadmap, OneThing
  <2> QED BY <1>6, <2>1, <2>8 DEF Honest
<1> QED
  <2>1. ASSUME NEW ok \in BOOLEAN, Drafted(d, ok) PROVE Honest'
    BY <1>1, <1>4, <1>5, <2>1 DEF Drafted, RunState
  <2>2. ASSUME NEW floor \in {"green", "asks", "red"}, Floored(d, floor) PROVE Honest'
    <3>1. CASE floor = "red"
      BY <1>4, <2>2, <3>1 DEF Floored
    <3>2. CASE floor # "red"
      BY <1>1, <1>6, <2>2, <3>2 DEF Floored, RunState
    <3> QED BY <3>1, <3>2
  <2> QED BY <2>1, <2>2

\* Consent or a new draft is asked of the increment at the gate, and the answer
\* is of the same item (handleChangesetPropose, handleChangesetModify).
LEMMA GateIsHonest ==
  ASSUME BuildInv, OneGate,
         \/ Consent \/ Modify
         \/ \E ok \in BOOLEAN : Redrafted(ok)
         \/ \E floor \in {"green", "asks", "red"} : Rejudged(floor)
  PROVE  Honest'
<1> DEFINE t == count.torn
<1>1. /\ run \in RunState /\ gate \in GateState /\ query \in QueryState /\ count \in CountState
      /\ OneThing(run, gate, query, applying) /\ AtWork(run, status)
      /\ Accepting(applying, wrote) /\ BuiltIsWhole(status, wrote) /\ WholeOrNone(applying, wrote, t)
      /\ NoItem \notin Item /\ NoGate.item = NoItem /\ NoQuery.item = NoItem
  BY BuildFacts
<1>2. ASSUME NEW g, NEW q, g.item \in {gate.item, query.item, NoItem}, q.item \in {gate.item, query.item, NoItem},
             g # NoGate => g.item # NoItem, q # NoQuery => q.item # NoItem, g = NoGate \/ run.drafts = {},
             q # NoQuery => g = NoGate \/ g.floor = "asks" \/ g.locked,
             applying = NoAccept, q = NoQuery \/ run.drafts = {},
             run' = run, status' = status, gate' = g, query' = q, applying' = applying, wrote' = wrote,
             count'.torn = t
      PROVE  Honest'
  <2>1. Held(run, g, q, applying) \subseteq Held(run, gate, query, applying)
    BY <1>2 DEF Held
  <2>2. OneItem(run, status, g, q, applying)
    BY <2>1, HeldStays
  <2>3. OneThing(run, g, q, applying)
    BY <1>1, <1>2 DEF OneThing
  <2>4. Roadmap(run, status, g, q, applying, wrote, t)
    BY <1>1, <2>2, <2>3 DEF Roadmap
  <2> QED BY <1>2, <2>4 DEF Honest
<1>3. CASE Consent
  <2> DEFINE q == [item |-> gate.item, tagged |-> gate.tagged, stage |-> "consent"]
  <2>1. /\ gate.floor = "asks" /\ query' = q
        /\ UNCHANGED <<run, status, gate, applying, wrote, count>>
    BY <1>3 DEF Consent
  <2>2. gate # NoGate /\ applying = NoAccept /\ run.drafts = {} /\ gate.item # NoItem
    BY <1>1, <2>1 DEF NoGate, OneThing
  <2>3. q.item = gate.item
    OBVIOUS
  <2> HIDE DEF q
  <2> QED BY <1>2, <2>1, <2>2, <2>3
<1>4. CASE Modify
  <2> DEFINE g == [gate EXCEPT !.locked = TRUE]
             q == [item |-> gate.item, tagged |-> gate.tagged,
                   stage |-> IF SessionBusy(run.drafts) THEN "lost" ELSE "draft"]
  <2>1. /\ gate # NoGate /\ applying = NoAccept /\ gate' = g /\ query' = q
        /\ count' = [count EXCEPT !.drafts = count.drafts + 1]
        /\ UNCHANGED <<run, status, applying, wrote>>
    BY <1>1, <1>4 DEF Modify, CountState
  <2>2. run.drafts = {} /\ gate.item # NoItem
    BY <1>1, <2>1 DEF OneThing
  <2>3. q.item = gate.item /\ g.item = gate.item /\ g.locked /\ count'.torn = t
    BY <1>1, <2>1 DEF GateState, CountState
  <2> HIDE DEF g, q
  <2> QED BY <1>2, <2>1, <2>2, <2>3
<1>5. ASSUME NEW ok \in BOOLEAN, Redrafted(ok) PROVE Honest'
  <2>1. query.stage \in {"draft", "lost"} /\ UNCHANGED <<run, status, applying, wrote, count>>
    BY <1>5 DEF Redrafted
  <2>2. /\ query # NoQuery /\ applying = NoAccept /\ run.drafts = {} /\ query.item # NoItem
        /\ gate = NoGate \/ gate.floor = "asks" \/ gate.locked
    BY <1>1, <2>1 DEF NoQuery, OneThing
  <2>3. CASE ok
    <3> DEFINE q == [query EXCEPT !.stage = "floor"]
    <3>1. gate' = gate /\ query' = q
      BY <1>5, <2>3 DEF Redrafted
    <3>2. q.item = query.item /\ (gate # NoGate => gate.item # NoItem)
      BY <1>1 DEF QueryState, OneThing
    <3> HIDE DEF q
    <3> QED BY <1>2, <2>1, <2>2, <3>1, <3>2
  <2>4. CASE ~ok
    <3>1. gate' = NoGate /\ query' = NoQuery
      BY <1>5, <2>4 DEF Redrafted
    <3> QED BY <1>1, <1>2, <2>1, <2>2, <3>1
  <2> QED BY <2>3, <2>4
<1>6. ASSUME NEW floor \in {"green", "asks", "red"}, Rejudged(floor) PROVE Honest'
  <2> DEFINE g == [item |-> query.item, floor |-> floor, locked |-> FALSE,
                   tagged |-> query.tagged /\ (query.stage = "consent" => query.item = run.item)]
  <2>1. /\ query.stage \in {"consent", "floor"} /\ gate' = g /\ query' = NoQuery
        /\ UNCHANGED <<run, status, applying, wrote, count>>
    BY <1>6 DEF Rejudged
  <2>2. query # NoQuery /\ applying = NoAccept /\ run.drafts = {} /\ query.item # NoItem
    BY <1>1, <2>1 DEF NoQuery, OneThing
  <2>3. g.item = query.item
    OBVIOUS
  <2> HIDE DEF g
  <2> QED BY <1>1, <1>2, <2>1, <2>2, <2>3
<1> QED BY <1>3, <1>4, <1>5, <1>6

\* An accept writes the increment of what was at the gate, file by file, or
\* takes it back (handleChangesetAccept).
LEMMA WritesAreHonest ==
  ASSUME BuildInv,
         Accept \/ WriteFails \/ ReparseFails \/ \E f \in Increment : Writes(f)
  PROVE  Honest'
<1> DEFINE t == count.torn
           i == applying.item
<1>1. /\ run \in RunState /\ applying \in AcceptState /\ wrote \in [Item -> SUBSET Increment]
      /\ OneThing(run, gate, query, applying) /\ AtWork(run, status)
      /\ Accepting(applying, wrote) /\ BuiltIsWhole(status, wrote) /\ WholeOrNone(applying, wrote, t)
      /\ NoItem \notin Item /\ NoGate.item = NoItem /\ NoQuery.item = NoItem /\ NoAccept.item = NoItem
  BY BuildFacts
<1>2. CASE Accept
  <2> DEFINE a == [item |-> gate.item, left |-> Increment]
  <2>1. /\ gate.floor = "green" /\ ~gate.locked /\ applying = NoAccept /\ wrote[gate.item] = {}
        /\ applying' = a /\ UNCHANGED <<run, status, gate, query, wrote, count>>
    BY <1>2 DEF Accept, FilesNew
  <2>2. gate # NoGate /\ gate.item # NoItem /\ run.drafts = {} /\ query = NoQuery
    BY <1>1, <2>1 DEF NoGate, OneThing
  <2>3. a.item = gate.item /\ a.left = Increment
    OBVIOUS
  <2> HIDE DEF a
  <2>4. Held(run, gate, query, a) \subseteq Held(run, gate, query, applying)
    BY <2>3 DEF Held
  <2>5. OneItem(run, status, gate, query, a)
    BY <2>4, HeldStays
  <2>6. OneThing(run, gate, query, a) /\ Accepting(a, wrote) /\ WholeOrNone(a, wrote, t)
    BY <1>1, <2>1, <2>2, <2>3 DEF OneThing, Accepting, WholeOrNone
  <2>7. Roadmap(run, status, gate, query, a, wrote, t)
    BY <1>1, <2>5, <2>6 DEF Roadmap
  <2> QED BY <2>1, <2>7 DEF Honest
<1>3. ASSUME applying # NoAccept
      PROVE  /\ i \in Item /\ status[i] # "built" /\ run.drafts = {} /\ query = NoQuery
             /\ run.item \in {i, NoItem} /\ wrote[i] = Increment \ applying.left
  BY <1>1, <1>3, HeldFacts DEF OneThing, Accepting
<1>4. ASSUME NEW f \in Increment, Writes(f) PROVE Honest'
  <2> DEFINE w == [wrote EXCEPT ![i] = wrote[i] \cup {f}]
             a == [applying EXCEPT !.left = applying.left \ {f}]
  <2>1. f \in applying.left /\ wrote' = w /\ applying' = a /\ UNCHANGED <<run, status, gate, query, count>>
    BY <1>1, <1>4 DEF Writes, AcceptState
  <2>2. applying # NoAccept
    BY <2>1 DEF NoAccept
  <2>3. /\ i \in Item /\ status[i] # "built" /\ run.drafts = {} /\ query = NoQuery
        /\ wrote[i] = Increment \ applying.left
    BY <1>3, <2>2
  <2>4. a.item = i /\ a.left = applying.left \ {f}
    BY <1>1 DEF AcceptState
  <2>5. w[i] = Increment \ a.left /\ \A j \in Item : j # i => w[j] = wrote[j]
    BY <1>1, <2>1, <2>3, <2>4
  <2>6. a # NoAccept
    BY <1>1, <2>3, <2>4
  <2> HIDE DEF a, w
  <2>7. Held(run, gate, query, a) \subseteq Held(run, gate, query, applying)
    BY <2>4 DEF Held
  <2>8. OneItem(run, status, gate, query, a)
    BY <2>7, HeldStays
  <2>9. OneThing(run, gate, query, a) /\ Accepting(a, w)
    BY <1>1, <2>2, <2>3, <2>4, <2>5 DEF OneThing, Accepting
  <2>10. BuiltIsWhole(status, w) /\ WholeOrNone(a, w, t)
    BY <1>1, <2>2, <2>3, <2>4, <2>5, <2>6 DEF BuiltIsWhole, WholeOrNone
  <2>11. Roadmap(run, status, gate, query, a, w, t)
    BY <1>1, <2>8, <2>9, <2>10 DEF Roadmap
  <2> QED BY <2>1, <2>11 DEF Honest
<1>5. CASE WriteFails
  <2> DEFINE w == Revert(i)
  <2>1. applying # NoAccept
    BY <1>5 DEF WriteFails, NoAccept
  <2>2. i \in Item /\ status[i] # "built" /\ run.drafts = {} /\ query = NoQuery /\ run.item \in {i, NoItem}
    BY <1>3, <2>1
  <2>3. wrote' = w /\ applying' = NoAccept /\ UNCHANGED <<gate, query, count>>
    BY <1>5 DEF WriteFails
  <2>4. w[i] = {} /\ \A j \in Item : j # i => w[j] = wrote[j]
    BY <1>1, <2>2 DEF Revert
  <2> HIDE DEF w
  <2>5. BuiltIsWhole(status, w) /\ WholeOrNone(NoAccept, w, t) /\ Accepting(NoAccept, w)
    BY <1>1, <2>2, <2>4 DEF BuiltIsWhole, WholeOrNone, Accepting
  <2>6. ASSUME NEW r, r.item \in {run.item, NoItem}, r.drafts = {}, NEW st,
               \A j \in Item : st[j] = "built" <=> status[j] = "built",
               AtWork(r, st), run' = r, status' = st
        PROVE  Honest'
    <3>1. Held(r, gate, query, NoAccept) \subseteq Held(run, gate, query, applying)
      BY <1>1, <2>6 DEF Held
    <3>2. OneItem(r, st, gate, query, NoAccept)
      BY <2>6, <3>1, HeldStays
    <3>3. OneThing(r, gate, query, NoAccept)
      BY <1>1, <2>2, <2>6 DEF OneThing
    <3>4. BuiltIsWhole(st, w)
      <4>1. \A j \in Item : Needs[j] \subseteq Item
        BY BuildAssumption
      <4> QED BY <2>5, <2>6, <4>1 DEF BuiltIsWhole
    <3>5. Roadmap(r, st, gate, query, NoAccept, w, t)
      BY <2>5, <2>6, <3>2, <3>3, <3>4 DEF Roadmap
    <3> QED BY <2>3, <2>6, <3>5 DEF Honest
  <2>7. CASE run.item = NoItem
    <3>1. run' = run /\ status' = status
      BY <1>5, <2>7 DEF WriteFails
    <3> QED BY <1>1, <2>2, <2>6, <3>1
  <2>8. CASE run.item # NoItem
    <3> DEFINE st == [status EXCEPT ![i] = "failed"]
               r == [active |-> FALSE, item |-> NoItem, drafts |-> {}]
    <3>1. run' = r /\ status' = st
      BY <1>5, <2>2, <2>8 DEF WriteFails, Fails
    <3>2. r.item = NoItem /\ r.drafts = {}
      OBVIOUS
    <3>3. "failed" \in ItemStatus \ {"built"}
      BY DEF ItemStatus
    <3>4. \A j \in Item : st[j] = "built" <=> status[j] = "built"
      BY <2>2, <3>3, StatusLeavesWork
    <3> HIDE DEF r, st
    <3>5. AtWork(r, st)
      BY <3>2 DEF AtWork
    <3> QED BY <2>6, <3>1, <3>2, <3>4, <3>5
  <2> QED BY <2>7, <2>8
<1>6. CASE ReparseFails
  <2>1. /\ applying # NoAccept /\ applying.left = {}
        /\ applying' = NoAccept /\ UNCHANGED <<run, status, gate, query, wrote, count>>
    BY <1>1, <1>6 DEF ReparseFails
  <2>2. wrote[i] = Increment
    BY <1>3, <2>1
  <2>3. Held(run, gate, query, NoAccept) \subseteq Held(run, gate, query, applying)
    BY <1>1 DEF Held
  <2>4. OneItem(run, status, gate, query, NoAccept)
    BY <2>3, HeldStays
  <2>5. OneThing(run, gate, query, NoAccept) /\ Accepting(NoAccept, wrote) /\ WholeOrNone(NoAccept, wrote, t)
    BY <1>1, <2>2 DEF OneThing, Accepting, WholeOrNone
  <2>6. Roadmap(run, status, gate, query, NoAccept, wrote, t)
    BY <1>1, <2>4, <2>5 DEF Roadmap
  <2> QED BY <2>1, <2>6 DEF Honest
<1> QED BY <1>2, <1>4, <1>5, <1>6

\* The increment is built: what was written is the item the roadmap records, if
\* the run is at one still (handleChangesetAccept, advanceBuildRun).
LEMMA BuiltIsHonest ==
  ASSUME BuildInv, Built
  PROVE  Honest'
<1> DEFINE t == count.torn
           i == applying.item
<1>1. /\ run \in RunState /\ status \in [Item -> ItemStatus] /\ BuildTypeOK
      /\ OneThing(run, gate, query, applying) /\ AtWork(run, status)
      /\ Accepting(applying, wrote) /\ BuiltIsWhole(status, wrote) /\ WholeOrNone(applying, wrote, t)
      /\ NoItem \notin Item /\ \A j \in Item : Needs[j] \subseteq Item
      /\ NoGate.item = NoItem /\ NoQuery.item = NoItem /\ NoAccept.item = NoItem
  BY BuildFacts DEF BuildInv
<1>2. /\ applying # NoAccept /\ applying.left = {}
      /\ applying' = NoAccept /\ gate' = NoGate /\ wrote' = wrote
  BY <1>1 DEF Built
<1>3. /\ i \in Item /\ wrote[i] = Increment /\ status[i] # "built"
      /\ run.drafts = {} /\ query = NoQuery /\ run.item \in {i, NoItem}
  BY <1>1, <1>2, HeldFacts DEF Accepting, OneThing
<1>4. WholeOrNone(NoAccept, wrote, t) /\ Accepting(NoAccept, wrote)
  BY <1>1, <1>3 DEF WholeOrNone, Accepting
<1>5. CASE run.item = NoItem
  <2>1. UNCHANGED <<run, status, query, count>>
    BY <1>5 DEF Built
  <2>2. Held(run, NoGate, NoQuery, NoAccept) \subseteq {}
    BY <1>1, <1>3, <1>5 DEF Held
  <2>3. Roadmap(run, status, NoGate, NoQuery, NoAccept, wrote, t)
    BY <1>1, <1>3, <1>4, <2>2 DEF Roadmap, OneItem, OneThing
  <2> QED BY <1>2, <1>3, <2>1, <2>3 DEF Honest
<1>6. CASE run.item # NoItem
  <2> DEFINE r == [run EXCEPT !.item = NoItem]
             st == [status EXCEPT ![i] = "built"]
  <2>1. run.item = i /\ Advance(r, st)
    BY <1>3, <1>6 DEF Built
  <2>2. r \in RunState /\ r.item = NoItem /\ r.drafts = {}
    BY <1>1, <1>3 DEF RunState
  <2>3. /\ st \in [Item -> ItemStatus] /\ st[i] = "built"
        /\ \A j \in Item : j # i => st[j] = status[j]
    BY <1>1, <1>3 DEF ItemStatus
  <2>4. \A j \in Needs[i] : status[j] = "built"
    BY <1>1, <1>6, <2>1 DEF AtWork
  <2> HIDE DEF r, st
  <2>5. BuiltIsWhole(st, wrote)
    BY <1>1, <1>3, <2>3, <2>4 DEF BuiltIsWhole
  <2>6. Held(r, NoGate, NoQuery, NoAccept) \subseteq {}
    BY <1>1, <2>2 DEF Held
  <2>7. /\ OneItem(r, st, NoGate, NoQuery, NoAccept) /\ OneThing(r, NoGate, NoQuery, NoAccept)
        /\ AtWork(r, st)
    BY <2>2, <2>6 DEF OneItem, OneThing, AtWork
  <2>8. Roadmap(r, st, NoGate, NoQuery, NoAccept, wrote, t)
    BY <1>4, <2>5, <2>7 DEF Roadmap
  <2> QED BY <1>1, <1>2, <1>3, <2>1, <2>2, <2>3, <2>8, AdvanceIsHonest
<1> QED BY <1>5, <1>6

\* The person starts, retries or skips with nothing on screen, in the making or
\* being built (OneGate), and the run goes on from there.
LEMMA StartsAreHonest ==
  ASSUME BuildInv, OneGate,
         RunStart \/ \E i \in Item : RunRetry(i) \/ RunSkip(i)
  PROVE  Honest'
<1> DEFINE t == count.torn
<1>1. /\ run \in RunState /\ status \in [Item -> ItemStatus] /\ BuildTypeOK
      /\ AtWork(run, status) /\ BuiltIsWhole(status, wrote)
      /\ Accepting(applying, wrote) /\ WholeOrNone(applying, wrote, t)
      /\ NoGate.item = NoItem /\ NoQuery.item = NoItem /\ NoAccept.item = NoItem
  BY BuildFacts DEF BuildInv
<1>2. /\ gate = NoGate /\ query = NoQuery /\ run.drafts = {} /\ applying = NoAccept
      /\ gate' = NoGate /\ applying' = NoAccept /\ wrote' = wrote
  BY DEF RunStart, RunRetry, RunSkip, Free
<1>3. ASSUME NEW r \in RunState, r.drafts = {}, r.item \in {run.item, NoItem},
             NEW st \in [Item -> ItemStatus], \A j \in Item : st[j] = "built" <=> status[j] = "built",
             Advance(r, st), BuiltIsWhole(st, wrote), AtWork(r, st)
      PROVE  Honest'
  <2>1. Held(r, NoGate, NoQuery, NoAccept) \subseteq Held(run, gate, query, applying)
    BY <1>1, <1>3 DEF Held
  <2>2. OneItem(r, st, NoGate, NoQuery, NoAccept) /\ OneThing(r, NoGate, NoQuery, NoAccept)
    BY <1>3, <2>1, HeldStays DEF OneThing
  <2>3. Roadmap(r, st, NoGate, NoQuery, NoAccept, wrote, t)
    BY <1>1, <1>2, <1>3, <2>2 DEF Roadmap
  <2> QED BY <1>1, <1>2, <1>3, <2>3, AdvanceIsHonest
<1>4. CASE RunStart
  <2> DEFINE r == [run EXCEPT !.active = TRUE]
  <2>1. r \in RunState /\ r.item = run.item /\ r.drafts = {}
    BY <1>1, <1>2 DEF RunState
  <2>2. Advance(r, status)
    BY <1>4 DEF RunStart
  <2> HIDE DEF r
  <2>3. AtWork(r, status)
    BY <1>1, <2>1 DEF AtWork
  <2> QED BY <1>1, <1>3, <2>1, <2>2, <2>3
<1>5. ASSUME NEW i \in Item, NEW s \in ItemStatus \ {"built"}, status[i] # "built",
             NEW r \in RunState, r.drafts = {}, r.item \in {run.item, NoItem},
             Advance(r, [status EXCEPT ![i] = s])
      PROVE  Honest'
  <2> DEFINE st == [status EXCEPT ![i] = s]
  <2>1. /\ st \in [Item -> ItemStatus] /\ BuiltIsWhole(st, wrote) /\ AtWork(r, st)
        /\ \A j \in Item : st[j] = "built" <=> status[j] = "built"
    BY <1>5, StatusLeavesWork
  <2>2. Advance(r, st)
    BY <1>5
  <2> HIDE DEF st
  <2> QED BY <1>3, <1>5, <2>1, <2>2
<1>6. ASSUME NEW i \in Item, RunRetry(i) PROVE Honest'
  <2> DEFINE r == [run EXCEPT !.active = TRUE]
  <2>1. r \in RunState /\ r.item = run.item /\ r.drafts = {}
    BY <1>1, <1>2 DEF RunState
  <2>2. Advance(r, [status EXCEPT ![i] = "pending"]) /\ status[i] # "built"
        /\ "pending" \in ItemStatus \ {"built"}
    BY <1>6 DEF RunRetry, ItemStatus
  <2> HIDE DEF r
  <2> QED BY <1>5, <2>1, <2>2
<1>7. ASSUME NEW i \in Item, RunSkip(i) PROVE Honest'
  <2> DEFINE r == [run EXCEPT !.item = IF run.item = i THEN NoItem ELSE run.item]
  <2>1. r \in RunState /\ r.item \in {run.item, NoItem} /\ r.drafts = {}
    BY <1>1, <1>2 DEF RunState
  <2>2. Advance(r, [status EXCEPT ![i] = "skipped"]) /\ status[i] # "built"
        /\ "skipped" \in ItemStatus \ {"built"}
    BY <1>1, <1>7 DEF RunSkip, ItemStatus, RunState
  <2> HIDE DEF r
  <2> QED BY <1>5, <2>1, <2>2
<1> QED BY <1>4, <1>6, <1>7

\* The person pauses, stops or dismisses the gate, whatever is in hand, and the
\* server restarts: the run is at no item, or at the one it was at.
LEMMA StopsAreHonest ==
  ASSUME BuildInv, RunPause \/ RunReject \/ RunStop \/ BuildRestart
  PROVE  Honest'
<1> DEFINE t == count.torn
<1>1. /\ run \in RunState /\ gate \in GateState /\ query \in QueryState /\ count \in CountState
      /\ OneThing(run, gate, query, applying) /\ AtWork(run, status)
      /\ Accepting(applying, wrote) /\ BuiltIsWhole(status, wrote) /\ WholeOrNone(applying, wrote, t)
      /\ NoItem \notin Item /\ NoGate.item = NoItem /\ NoQuery.item = NoItem /\ NoAccept.item = NoItem
  BY BuildFacts
<1>2. CASE RunPause
  <2> DEFINE r == [run EXCEPT !.active = FALSE]
  <2>1. r.item = run.item /\ r.drafts = run.drafts
    BY <1>1 DEF RunState
  <2>2. run' = r /\ UNCHANGED <<status, gate, query, applying, wrote, count>>
    BY <1>2 DEF RunPause
  <2> HIDE DEF r
  <2>3. Held(r, gate, query, applying) = Held(run, gate, query, applying)
    BY <2>1 DEF Held
  <2>4. OneItem(r, status, gate, query, applying)
    BY <2>3, HeldStays
  <2>5. Roadmap(r, status, gate, query, applying, wrote, t)
    BY <1>1, <2>1, <2>4 DEF Roadmap, OneThing, AtWork
  <2> QED BY <2>2, <2>5 DEF Honest
<1>3. CASE RunReject
  <2>1. gate # NoGate /\ gate' = NoGate /\ UNCHANGED <<query, applying, wrote, count>>
    BY <1>3 DEF RunReject
  <2>2. gate.item \in Item /\ status[gate.item] # "built" /\ run.drafts = {}
    BY <1>1, <2>1, HeldFacts DEF OneThing
  <2>3. ASSUME NEW r, r.item \in {run.item, NoItem}, r.drafts = {}, NEW st,
               \A j \in Item : st[j] = "built" <=> status[j] = "built",
               BuiltIsWhole(st, wrote), AtWork(r, st), run' = r, status' = st
        PROVE  Honest'
    <3>1. Held(r, NoGate, query, applying) \subseteq Held(run, gate, query, applying)
      BY <1>1, <2>3 DEF Held
    <3>2. OneItem(r, st, NoGate, query, applying)
      BY <2>3, <3>1, HeldStays
    <3>3. OneThing(r, NoGate, query, applying)
      BY <1>1, <2>3 DEF OneThing
    <3>4. Roadmap(r, st, NoGate, query, applying, wrote, t)
      BY <1>1, <2>3, <3>2, <3>3 DEF Roadmap
    <3> QED BY <2>1, <2>3, <3>4 DEF Honest
  <2>4. CASE gate.tagged
    <3> DEFINE st == [status EXCEPT ![gate.item] = "pending"]
               r == [run EXCEPT !.active = FALSE, !.item = NoItem]
    <3>1. run' = r /\ status' = st
      BY <1>3, <2>4 DEF RunReject
    <3>2. r.item = NoItem /\ r.drafts = {}
      BY <1>1, <2>2 DEF RunState
    <3> HIDE DEF r
    <3>3. "pending" \in ItemStatus \ {"built"}
      BY DEF ItemStatus
    <3>4. /\ \A j \in Item : st[j] = "built" <=> status[j] = "built"
          /\ BuiltIsWhole(st, wrote) /\ AtWork(r, st)
      BY <2>2, <3>2, <3>3, StatusLeavesWork
    <3> HIDE DEF st
    <3> QED BY <2>3, <3>1, <3>2, <3>4
  <2>5. CASE ~gate.tagged
    <3>1. run' = run /\ status' = status
      BY <1>3, <2>5 DEF RunReject
    <3> QED BY <1>1, <2>2, <2>3, <3>1
  <2> QED BY <2>4, <2>5
<1>4. CASE RunStop
  <2> DEFINE ds == DisposeSession(run.drafts)
             r == [active |-> FALSE, item |-> NoItem, drafts |-> ds]
             q == DisposeQuery
             st == IF run.item = NoItem THEN status ELSE [status EXCEPT ![run.item] = "pending"]
  <2>1. run' = r /\ status' = st /\ query' = q /\ UNCHANGED <<gate, applying, wrote, count>>
    BY <1>4 DEF RunStop
  <2>2. /\ {d.item : d \in ds} \subseteq {d.item : d \in run.drafts}
        /\ ds # {} => run.drafts # {}
        /\ (\A d, e \in run.drafts : d = e) => \A d, e \in ds : d = e
    <3> DEFINE killed(d) == [d EXCEPT !.lost = d.lost \/ d.stage = "draft"]
    <3>1. \A d \in run.drafts : killed(d).item = d.item
      BY <1>1 DEF RunState, Draft
    <3>2. ds = {killed(d) : d \in run.drafts}
      BY DEF DisposeSession
    <3> HIDE DEF killed, ds
    <3> QED BY <3>1, <3>2
  <2>3. q.item = query.item /\ (q # NoQuery => query # NoQuery)
    BY <1>1, NothingToDispose DEF DisposeQuery, QueryState
  <2>4. query = NoQuery => q = NoQuery
    BY NothingToDispose
  <2>5. r.item = NoItem /\ r.drafts = ds
    OBVIOUS
  <2>6. (\A j \in Item : st[j] = "built" <=> status[j] = "built") /\ BuiltIsWhole(st, wrote)
    <3>1. CASE run.item = NoItem
      BY <1>1, <3>1
    <3>2. CASE run.item # NoItem
      <4>1. run.item \in Item /\ status[run.item] # "built" /\ "pending" \in ItemStatus \ {"built"}
        BY <3>2, HeldFacts DEF ItemStatus
      <4> QED BY <3>2, <4>1, StatusLeavesWork
    <3> QED BY <3>1, <3>2
  <2> HIDE DEF ds, r, q, st
  <2>7. Held(r, gate, q, applying) \subseteq Held(run, gate, query, applying)
    BY <2>2, <2>3, <2>5 DEF Held
  <2>8. OneItem(r, st, gate, q, applying)
    BY <2>6, <2>7, HeldStays
  <2>9. OneThing(r, gate, q, applying)
    BY <1>1, <2>2, <2>3, <2>4, <2>5 DEF OneThing
  <2>10. Roadmap(r, st, gate, q, applying, wrote, t)
    BY <1>1, <2>5, <2>6, <2>8, <2>9 DEF Roadmap, AtWork
  <2> QED BY <2>1, <2>10 DEF Honest
<1>5. CASE BuildRestart
  <2> DEFINE r == [active |-> FALSE, item |-> NoItem, drafts |-> {}]
             g == IF gate.locked THEN NoGate ELSE gate
             torn == t \/ applying # NoAccept
  <2>1. /\ run' = r /\ applying' = NoAccept /\ query' = NoQuery /\ gate' = g
        /\ UNCHANGED <<status, wrote>> /\ count'.torn = torn
    BY <1>1, <1>5 DEF BuildRestart, CountState
  <2>2. r.item = NoItem /\ r.drafts = {} /\ (g = NoGate \/ g = gate)
    OBVIOUS
  <2> HIDE DEF r, g
  <2>3. Held(r, g, NoQuery, NoAccept) \subseteq Held(run, gate, query, applying)
    BY <1>1, <2>2 DEF Held
  <2>4. OneItem(r, status, g, NoQuery, NoAccept)
    BY <2>3, HeldStays
  <2>5. OneThing(r, g, NoQuery, NoAccept) /\ AtWork(r, status) /\ Accepting(NoAccept, wrote)
        /\ WholeOrNone(NoAccept, wrote, torn)
    BY <1>1, <2>2 DEF OneThing, AtWork, Accepting, WholeOrNone
  <2>6. Roadmap(r, status, g, NoQuery, NoAccept, wrote, torn)
    BY <1>1, <2>4, <2>5 DEF Roadmap
  <2> QED BY <2>1, <2>6 DEF Honest
<1> QED BY <1>2, <1>3, <1>4, <1>5

\* An item the roadmap marks built has its whole increment on disk and so has
\* all it needs, and outside an accept no increment is there in part, for every
\* roadmap, cyclic or not, and any number of drafts, failures and restarts
\* (handleChangesetAccept, advanceBuildRun), whenever the person pauses, stops,
\* consents or dismisses.  It is of a person who starts, retries or skips with
\* nothing on screen, and asks for no new draft during an accept: without
\* OneGate an accept records the item the run has come to, not the one at the
\* gate, and a draft that comes late can be dismissed and its item, built by
\* then, made pending.
THEOREM RoadmapIsAlwaysHonest ==
  ASSUME OneGate
  PROVE  BuildSpec => []RoadmapIsHonest
<1>1. BuildInv /\ [BuildNext]_buildVars => BuildInv'
  <2> SUFFICES ASSUME BuildInv, [BuildNext]_buildVars PROVE Honest'
    BY BuildStepIsTyped DEF BuildInv
  <2>1. ASSUME NEW d \in run.drafts,
               \/ \E ok \in BOOLEAN : Drafted(d, ok)
               \/ \E floor \in {"green", "asks", "red"} : Floored(d, floor)
        PROVE  Honest'
    BY <2>1, DraftsAreHonest
  <2>2. CASE \/ Consent \/ Modify
             \/ \E ok \in BOOLEAN : Redrafted(ok)
             \/ \E floor \in {"green", "asks", "red"} : Rejudged(floor)
    BY <2>2, GateIsHonest
  <2>3. CASE Accept \/ WriteFails \/ ReparseFails \/ \E f \in Increment : Writes(f)
    BY <2>3, WritesAreHonest
  <2>4. CASE Built
    BY <2>4, BuiltIsHonest
  <2>5. CASE RunStart \/ \E i \in Item : RunRetry(i) \/ RunSkip(i)
    BY <2>5, StartsAreHonest
  <2>6. CASE RunPause \/ RunReject \/ RunStop \/ BuildRestart
    BY <2>6, StopsAreHonest
  <2>7. CASE UNCHANGED buildVars
    BY <2>7 DEF buildVars, BuildInv, Honest
  <2> QED BY <2>1, <2>2, <2>3, <2>4, <2>5, <2>6, <2>7 DEF BuildNext, DraftStep
<1>2. BuildInv => RoadmapIsHonest
  <2>1. BuildInv => BuiltIsWhole(status, wrote) /\ WholeOrNone(applying, wrote, count.torn)
    BY DEF BuildInv, Honest, Roadmap
  <2> QED BY <2>1 DEF BuiltIsWhole, WholeOrNone, RoadmapIsHonest
<1> QED BY <1>1, <1>2, BuildInitially, PTL DEF BuildSpec

------------------------------------------------------------------------------
(* The hooked run.                                                          *)

HookedTyped ==
  /\ record \in HRecord
  /\ session \in [state : {"none", "working", "idle"}, ending : BOOLEAN, killed : BOOLEAN]
  /\ files \in Tree /\ ended \in Tree
  /\ began \in Seq(Tree) /\ Len(began) = record.id
  /\ used \in [edits : Nat, replies : Nat, restarts : Nat, lost : BOOLEAN]

Differ(t, u) == {f \in HFile : t[f] # u[f]}

\* The session that lives is of the run in progress, and nothing is awaited.
OneSession(r, s, a) == s.state # "none" => r.status \in {"running", "waiting"} /\ a = {}

\* What is awaited is a step of the run on record: its evidence, or its
\* rejection, with the tree put back already.
Awaited(r, a, f, b) ==
  \A x \in a : \/ x = [step |-> "collect", run |-> r.id] /\ r.status = "collecting"
               \/ /\ x = [step |-> "reject", run |-> r.id]
                  /\ r.status = "awaiting-review" /\ f = b[r.id]

\* What is to be reviewed, or was accepted, is the tree the session left, and
\* the changes listed are its changes.
Evidence(r, a, f, b, e, lost) ==
  /\ r.status \in {"running", "waiting", "collecting"} => ~r.full
  /\ \/ r.status \in {"collecting", "awaiting-review"} /\ \A x \in a : x.step = "collect"
     \/ r.status = "accepted"
     => lost \/ (f = e /\ (r.full => r.changes = Differ(f, b[r.id])))
  /\ r.status \in {"rejected", "failed"} => f = b[r.id]

\* The snapshot is kept while it may be needed, and holds what was.
SnapshotKept(r, sn, b) ==
  /\ r.status # "none" => r.id \in 1..Len(b)
  /\ r.status \in InProgress \cup {"awaiting-review"} =>
       r.id \in DOMAIN sn /\ sn[r.id] = SnapshotTree(b[r.id])

\* The inductive invariant of the hooked run.
HookedInv ==
  /\ HookedTyped
  /\ OneSession(record, session, after)
  /\ Awaited(record, after, files, began)
  /\ Evidence(record, after, files, began, ended, used.lost)
  /\ SnapshotKept(record, snaps, began)

\* Nobody decides twice, and every file is of a size a snapshot takes.
HookedHyp == DecideOnce /\ Oversized = {}

\* When no content is over the limit, a snapshot takes every file there is.
LEMMA EditableAreThere ==
  ASSUME Oversized = {}, NEW t \in Tree
  PROVE  Editable(t) = {f \in HFile : t[f] # Nothing}
  BY DEF Editable

\* A comparison with a snapshot finds what is not as it was (compareTree).
LEMMA CompareFindsDifference ==
  ASSUME Oversized = {}, NEW t \in Tree, NEW u \in Tree
  PROVE  CompareTree(t, SnapshotTree(u)) = Differ(t, u)
<1> DEFINE s == SnapshotTree(u)
<1>1. DOMAIN s = {f \in HFile : u[f] # Nothing} /\ \A f \in DOMAIN s : s[f] = u[f]
  BY EditableAreThere DEF SnapshotTree
<1>2. Editable(t) = {f \in HFile : t[f] # Nothing}
  BY EditableAreThere
<1> HIDE DEF s
<1>3. CompareTree(t, s) = Differ(t, u)
  BY <1>1, <1>2 DEF CompareTree, Added, Differ
<1> QED BY <1>3 DEF s

\* A restore of the snapshot gives back the tree it was taken of (restoreTree).
LEMMA RestoreGivesBack ==
  ASSUME Oversized = {}, NEW t \in Tree, NEW u \in Tree
  PROVE  RestoreTree(t, SnapshotTree(u)) = u
<1> DEFINE s == SnapshotTree(u)
<1>1. DOMAIN s = {f \in HFile : u[f] # Nothing} /\ \A f \in DOMAIN s : s[f] = u[f]
  BY EditableAreThere DEF SnapshotTree
<1>2. Editable(t) = {f \in HFile : t[f] # Nothing}
  BY EditableAreThere
<1>3. CompareTree(t, s) = Differ(t, u)
  BY CompareFindsDifference
<1> HIDE DEF s
<1>4. ASSUME NEW f \in HFile
      PROVE  (IF f \in Added(t, s) THEN Nothing
              ELSE IF f \in CompareTree(t, s) THEN s[f] ELSE t[f]) = u[f]
  BY <1>1, <1>2, <1>3 DEF Added, Differ
<1>5. RestoreTree(t, s) = [f \in HFile |-> u[f]]
  BY <1>4 DEF RestoreTree
<1>6. [f \in HFile |-> u[f]] = u
  BY DEF Tree
<1> QED BY <1>5, <1>6 DEF s

\* The first state: no run yet.
LEMMA HookedInitially ==
  HookedInit => HookedInv
<1> SUFFICES ASSUME HookedInit PROVE HookedInv
  OBVIOUS
<1>1. files \in Tree
  BY HookedAssumption DEF HookedInit, Tree
<1>2. HookedTyped
  BY <1>1, HookedAssumption DEF HookedInit, HookedTyped, HRecord, HStatus, NoSession
<1>3. OneSession(record, session, after) /\ Awaited(record, after, files, began)
      /\ SnapshotKept(record, snaps, began) /\ Evidence(record, after, files, began, ended, used.lost)
  BY DEF HookedInit, OneSession, Awaited, SnapshotKept, Evidence, NoSession, InProgress
<1> QED BY <1>2, <1>3 DEF HookedInv

SessionState == [state : {"none", "working", "idle"}, ending : BOOLEAN, killed : BOOLEAN]
UsedState == [edits : Nat, replies : Nat, restarts : Nat, lost : BOOLEAN]

\* A step that starts no run.
LEMMA HookedMoves ==
  ASSUME HookedInv, NEW r \in HRecord, r.id = record.id, NEW s \in SessionState, NEW a,
         NEW f \in Tree, NEW sn, NEW e \in Tree, NEW u \in UsedState,
         record' = r, session' = s, after' = a, files' = f, snaps' = sn, began' = began,
         ended' = e, used' = u,
         OneSession(r, s, a), Awaited(r, a, f, began), Evidence(r, a, f, began, e, u.lost),
         SnapshotKept(r, sn, began)
  PROVE  HookedInv'
<1>1. HookedTyped'
  BY DEF HookedInv, HookedTyped, SessionState, UsedState
<1> QED BY <1>1 DEF HookedInv

\* The types of the state, and the invariant's parts.
LEMMA HookedFacts ==
  ASSUME HookedInv
  PROVE  /\ record \in HRecord /\ session \in SessionState /\ files \in Tree /\ ended \in Tree
         /\ used \in UsedState /\ NoSession \in SessionState /\ NoSession.state = "none"
         /\ began \in Seq(Tree) /\ Len(began) = record.id
         /\ OneSession(record, session, after) /\ Awaited(record, after, files, began)
         /\ Evidence(record, after, files, began, ended, used.lost)
         /\ SnapshotKept(record, snaps, began)
         /\ record.status # "none" => began[record.id] \in Tree
<1>1. /\ record \in HRecord /\ session \in SessionState /\ files \in Tree /\ ended \in Tree
      /\ used \in UsedState /\ began \in Seq(Tree) /\ Len(began) = record.id
  BY DEF HookedInv, HookedTyped, SessionState, UsedState
<1>2. NoSession \in SessionState /\ NoSession.state = "none"
  BY DEF SessionState, NoSession
<1>3. OneSession(record, session, after) /\ Awaited(record, after, files, began)
      /\ Evidence(record, after, files, began, ended, used.lost)
      /\ SnapshotKept(record, snaps, began)
  BY DEF HookedInv
<1>4. record.status # "none" => began[record.id] \in Tree
  BY <1>1, <1>3 DEF SnapshotKept
<1> QED BY <1>1, <1>2, <1>3, <1>4

\* While the session lives it edits, its turns end, and the person answers,
\* finishes or stops it: nothing is awaited, and nothing is listed yet.
LEMMA SessionsAreHonest ==
  ASSUME HookedInv,
         \/ \E f \in HFile, c \in Content \cup {Nothing} : HookedEdits(f, c)
         \/ HookedTurnEnds \/ HookedReply \/ HookedFinish \/ StopSession
  PROVE  HookedInv'
<1>1. /\ record \in HRecord /\ session \in SessionState /\ files \in Tree /\ ended \in Tree
      /\ used \in UsedState
      /\ OneSession(record, session, after) /\ Evidence(record, after, files, began, ended, used.lost)
      /\ SnapshotKept(record, snaps, began)
  BY HookedFacts
<1>2. session.state # "none" /\ record.status \in {"running", "waiting"} /\ after = {} /\ ~record.full
  <2>1. session.state # "none"
    BY DEF HookedEdits, HookedTurnEnds, HookedReply, HookedFinish, StopSession
  <2> QED BY <1>1, <2>1 DEF OneSession, Evidence
\* Under the session, whatever the files and the bounds come to.
<1>3. ASSUME NEW r \in HRecord, r.id = record.id, r.status \in {"running", "waiting"}, ~r.full,
             NEW s \in SessionState, NEW f \in Tree, NEW u \in UsedState,
             record' = r, session' = s, files' = f, used' = u,
             UNCHANGED <<after, snaps, began, ended>>
      PROVE  HookedInv'
  <2>1. OneSession(r, s, after) /\ Awaited(r, after, f, began)
        /\ Evidence(r, after, f, began, ended, u.lost)
    BY <1>2, <1>3 DEF OneSession, Awaited, Evidence
  <2>2. SnapshotKept(r, snaps, began)
    BY <1>1, <1>2, <1>3 DEF SnapshotKept, InProgress
  <2> QED BY <1>1, <1>3, <2>1, <2>2, HookedMoves
<1>4. ASSUME NEW f \in HFile, NEW c \in Content \cup {Nothing}, HookedEdits(f, c)
      PROVE  HookedInv'
  <2> DEFINE g == [files EXCEPT ![f] = c]
             u == [used EXCEPT !.edits = used.edits + 1]
  <2>1. g \in Tree
    BY <1>1 DEF Tree
  <2>2. u \in UsedState
    BY <1>1 DEF UsedState
  <2>3. files' = g /\ used' = u /\ UNCHANGED <<record, session, after, snaps, began, ended>>
    BY <1>1, <1>4 DEF HookedEdits, UsedState
  <2> HIDE DEF g, u
  <2> QED BY <1>1, <1>2, <1>3, <2>1, <2>2, <2>3
<1>5. CASE HookedTurnEnds
  <2> DEFINE s == [session EXCEPT !.state = "idle"]
             r == [record EXCEPT !.result = TRUE,
                                 !.status = IF record.status = "running" THEN "waiting" ELSE record.status]
  <2>1. s \in SessionState
    BY <1>1 DEF SessionState
  <2>2. r \in HRecord /\ r.id = record.id /\ r.status \in {"running", "waiting"} /\ ~r.full
    BY <1>1, <1>2 DEF HRecord, HStatus, InProgress
  <2>3. record' = r /\ session' = s /\ UNCHANGED <<files, used, after, snaps, began, ended>>
    BY <1>1, <1>5 DEF HookedTurnEnds, HRecord
  <2> HIDE DEF s, r
  <2> QED BY <1>1, <1>3, <2>1, <2>2, <2>3
<1>6. CASE HookedReply
  <2> DEFINE s == IF session.ending THEN session ELSE [session EXCEPT !.state = "working"]
             r == [record EXCEPT !.status = "running"]
             u == [used EXCEPT !.replies = used.replies + 1]
  <2>1. s \in SessionState
    BY <1>1 DEF SessionState
  <2>2. r \in HRecord /\ r.id = record.id /\ r.status \in {"running", "waiting"} /\ ~r.full
    BY <1>1, <1>2 DEF HRecord, HStatus, InProgress
  <2>3. u \in UsedState
    BY <1>1 DEF UsedState
  <2>4. record' = r /\ session' = s /\ used' = u /\ UNCHANGED <<files, after, snaps, began, ended>>
    BY <1>1, <1>6 DEF HookedReply, UsedState
  <2> HIDE DEF s, r, u
  <2> QED BY <1>1, <1>3, <2>1, <2>2, <2>3, <2>4
<1>7. CASE HookedFinish \/ StopSession
  <2>1. session' \in SessionState /\ UNCHANGED <<record, files, used, after, snaps, began, ended>>
    BY <1>1, <1>7 DEF HookedFinish, StopSession, SessionState
  <2> QED BY <1>1, <1>2, <1>3, <2>1
<1> QED BY <1>4, <1>5, <1>6, <1>7

\* The session closes: its evidence is to be collected, and the tree is the one
\* it left.
LEMMA ClosingIsHonest ==
  ASSUME HookedInv, CloseSession
  PROVE  HookedInv'
<1>1. /\ record \in HRecord /\ files \in Tree /\ used \in UsedState
      /\ NoSession \in SessionState /\ NoSession.state = "none"
      /\ OneSession(record, session, after) /\ Evidence(record, after, files, began, ended, used.lost)
      /\ SnapshotKept(record, snaps, began)
  BY HookedFacts
<1>2. session.state # "none" /\ record.status \in {"running", "waiting"} /\ after = {} /\ ~record.full
  BY <1>1 DEF CloseSession, OneSession, Evidence
<1> DEFINE r == [record EXCEPT !.status = "collecting"]
           a == {[step |-> "collect", run |-> record.id]}
<1>3. r \in HRecord /\ r.id = record.id /\ r.status = "collecting" /\ ~r.full
  BY <1>1, <1>2 DEF HRecord, HStatus, InProgress
<1>4. /\ record' = r /\ session' = NoSession /\ after' = a /\ ended' = files
      /\ UNCHANGED <<files, snaps, began, used>>
  BY <1>1, <1>2 DEF CloseSession, Collecting, HRecord
<1>5. \A x \in a : x = [step |-> "collect", run |-> record.id] /\ x.step = "collect"
  OBVIOUS
<1> HIDE DEF r, a
<1>6. OneSession(r, NoSession, a) /\ Awaited(r, a, files, began)
      /\ Evidence(r, a, files, began, files, used.lost)
  BY <1>1, <1>3, <1>5 DEF OneSession, Awaited, Evidence
<1>7. SnapshotKept(r, snaps, began)
  BY <1>1, <1>2, <1>3 DEF SnapshotKept, InProgress
<1> QED BY <1>1, <1>3, <1>4, <1>6, <1>7, HookedMoves

\* The evidence is collected, or collecting it throws: the run goes to review
\* with the session's changes or without a list, or did nothing and is dropped.
LEMMA CollectingIsHonest ==
  ASSUME HookedInv, HookedHyp, NEW throws \in BOOLEAN, HookedCollect(throws)
  PROVE  HookedInv'
<1>1. /\ record \in HRecord /\ files \in Tree /\ used \in UsedState /\ session \in SessionState
      /\ ended \in Tree
      /\ OneSession(record, session, after) /\ Evidence(record, after, files, began, ended, used.lost)
      /\ SnapshotKept(record, snaps, began) /\ Awaited(record, after, files, began)
      /\ record.status # "none" => began[record.id] \in Tree
  BY HookedFacts
<1>2. PICK a \in after :
        /\ a.step = "collect"
        /\ record' = IF throws THEN [record EXCEPT !.status = "awaiting-review"]
                     ELSE Collected(record, CompareTree(files, snaps[a.run]))
        /\ snaps' = IF record'.status = "failed" THEN Drop(a.run) ELSE snaps
        /\ after' = after \ {a}
        /\ UNCHANGED <<session, files, began, ended, used>>
  BY DEF HookedCollect
<1> DEFINE b == began[record.id]
<1>3. /\ a.run = record.id /\ record.status = "collecting" /\ after \ {a} = {}
      /\ \A x \in after : x.step = "collect"
  BY <1>1, <1>2 DEF Awaited
<1>4. /\ session.state = "none" /\ ~record.full /\ b \in Tree
      /\ used.lost \/ files = ended
      /\ record.id \in 1..Len(began) /\ record.id \in DOMAIN snaps
      /\ snaps[record.id] = SnapshotTree(b)
  BY <1>1, <1>3 DEF OneSession, Evidence, SnapshotKept, InProgress
<1>5. CompareTree(files, snaps[a.run]) = Differ(files, b)
  BY <1>1, <1>3, <1>4, CompareFindsDifference DEF HookedHyp
<1>6. ASSUME NEW r \in HRecord, r.id = record.id, r.status = "awaiting-review",
             r.full => r.changes = Differ(files, b), record' = r
      PROVE  HookedInv'
  <2>1. snaps' = snaps /\ after' = {}
    BY <1>2, <1>3, <1>6
  <2>2. OneSession(r, session, {}) /\ Awaited(r, {}, files, began)
        /\ Evidence(r, {}, files, began, ended, used.lost)
    BY <1>4, <1>6 DEF OneSession, Awaited, Evidence
  <2>3. SnapshotKept(r, snaps, began)
    BY <1>4, <1>6 DEF SnapshotKept
  <2> QED BY <1>1, <1>2, <1>6, <2>1, <2>2, <2>3, HookedMoves
<1>7. CASE throws
  <2> DEFINE r == [record EXCEPT !.status = "awaiting-review"]
  <2>1. r \in HRecord /\ r.id = record.id /\ r.status = "awaiting-review" /\ ~r.full
    BY <1>1, <1>4 DEF HRecord, HStatus
  <2>2. record' = r
    BY <1>2, <1>7
  <2> HIDE DEF r
  <2> QED BY <1>6, <2>1, <2>2
<1>8. CASE ~throws
  <2> DEFINE d == Differ(files, b)
             r == [record EXCEPT !.status = IF d # {} \/ record.result THEN "awaiting-review" ELSE "failed",
                                 !.changes = d, !.full = TRUE]
  <2>1. record' = r
    BY <1>1, <1>2, <1>5, <1>8 DEF Collected, HRecord
  <2>2. d \in SUBSET HFile /\ (d = {} => files = b)
    <3>1. \A t, u \in Tree : (\A f \in HFile : t[f] = u[f]) => t = u
      BY DEF Tree
    <3> QED BY <1>1, <1>4, <3>1 DEF Differ
  <2> HIDE DEF d
  <2>3. r \in HRecord /\ r.id = record.id /\ r.changes = d
        /\ r.status = (IF d # {} \/ record.result THEN "awaiting-review" ELSE "failed")
    BY <1>1, <2>2 DEF HRecord, HStatus
  <2> HIDE DEF r
  <2>4. CASE r.status = "awaiting-review"
    BY <1>6, <2>1, <2>3, <2>4 DEF d
  <2>5. CASE r.status = "failed"
    <3>1. files = b
      BY <2>2, <2>3, <2>5
    <3> DEFINE sn == Drop(a.run)
    <3>2. snaps' = sn /\ after' = {}
      BY <1>2, <1>3, <2>1, <2>5
    <3> HIDE DEF sn
    <3>3. OneSession(r, session, {}) /\ Awaited(r, {}, files, began)
          /\ Evidence(r, {}, files, began, ended, used.lost)
      BY <1>4, <2>3, <2>5, <3>1 DEF OneSession, Awaited, Evidence
    <3>4. SnapshotKept(r, sn, began)
      BY <1>4, <2>3, <2>5 DEF SnapshotKept, InProgress
    <3> QED BY <1>1, <1>2, <2>1, <2>3, <3>2, <3>3, <3>4, HookedMoves
  <2> QED BY <2>3, <2>4, <2>5
<1> QED BY <1>7, <1>8

\* The person accepts, or rejects and the tree is put back, and the rejection is
\* recorded: with DecideOnce nothing else is awaited then (decideHookedRun).
LEMMA DecidingIsHonest ==
  ASSUME HookedInv, HookedHyp, HookedAccept \/ HookedReject \/ HookedRejected
  PROVE  HookedInv'
<1>1. /\ record \in HRecord /\ files \in Tree /\ used \in UsedState /\ session \in SessionState
      /\ ended \in Tree
      /\ OneSession(record, session, after) /\ Evidence(record, after, files, began, ended, used.lost)
      /\ SnapshotKept(record, snaps, began) /\ Awaited(record, after, files, began)
      /\ record.status # "none" => began[record.id] \in Tree
  BY HookedFacts
<1>2. CASE HookedAccept
  <2> DEFINE r == [record EXCEPT !.status = "accepted"]
             sn == Drop(record.id)
  <2>1. record' = r /\ snaps' = sn /\ UNCHANGED <<session, after, files, began, ended, used>>
    BY <1>2 DEF HookedAccept
  <2>2. record.status = "awaiting-review" /\ after = {}
    BY <1>2 DEF HookedAccept, Decidable, HookedHyp
  <2>3. r \in HRecord /\ r.id = record.id /\ r.status = "accepted" /\ r.full = record.full
        /\ r.changes = record.changes
    BY <1>1 DEF HRecord, HStatus
  <2> HIDE DEF r, sn
  <2>4. OneSession(r, session, after) /\ Awaited(r, after, files, began)
        /\ Evidence(r, after, files, began, ended, used.lost)
    BY <1>1, <2>2, <2>3 DEF OneSession, Awaited, Evidence
  <2>5. SnapshotKept(r, sn, began)
    BY <1>1, <2>2, <2>3 DEF SnapshotKept, InProgress
  <2> QED BY <1>1, <2>1, <2>3, <2>4, <2>5, HookedMoves
<1>3. CASE HookedReject
  <2> DEFINE a == {[step |-> "reject", run |-> record.id]}
             b == began[record.id]
  <2>1. record.status = "awaiting-review" /\ after = {}
    BY <1>3 DEF HookedReject, Decidable, HookedHyp
  <2>2. record.id \in DOMAIN snaps /\ snaps[record.id] = SnapshotTree(b) /\ b \in Tree
    BY <1>1, <2>1 DEF SnapshotKept
  <2>3. RestoreTree(files, SnapshotTree(b)) = b
    BY <1>1, <2>2, RestoreGivesBack DEF HookedHyp
  <2>4. files' = b /\ after' = a /\ UNCHANGED <<record, session, snaps, began, ended, used>>
    BY <1>3, <2>1, <2>2, <2>3 DEF HookedReject
  <2>5. \A x \in a : x = [step |-> "reject", run |-> record.id] /\ x.step # "collect"
    OBVIOUS
  <2>6. a # {}
    OBVIOUS
  <2> HIDE DEF a
  <2>7. OneSession(record, session, a) /\ Awaited(record, a, b, began)
        /\ Evidence(record, a, b, began, ended, used.lost)
    BY <1>1, <2>1, <2>5, <2>6 DEF OneSession, Awaited, Evidence
  <2> HIDE DEF b
  <2> QED BY <1>1, <2>2, <2>4, <2>7, HookedMoves
<1>4. CASE HookedRejected
  <2>1. PICK a \in after :
          /\ a.step = "reject"
          /\ record' = [record EXCEPT !.id = a.run, !.status = "rejected"]
          /\ snaps' = Drop(a.run)
          /\ after' = after \ {a}
          /\ UNCHANGED <<session, files, began, ended, used>>
    BY <1>4 DEF HookedRejected
  <2> DEFINE r == [record EXCEPT !.status = "rejected"]
             sn == Drop(a.run)
  <2>2. /\ a.run = record.id /\ record.status = "awaiting-review" /\ after \ {a} = {}
        /\ files = began[record.id]
    BY <1>1, <2>1 DEF Awaited
  <2>3. record' = r /\ snaps' = sn /\ after' = {}
    BY <1>1, <2>1, <2>2 DEF HRecord
  <2>4. r \in HRecord /\ r.id = record.id /\ r.status = "rejected"
    BY <1>1 DEF HRecord, HStatus
  <2> HIDE DEF r, sn
  <2>5. OneSession(r, session, {}) /\ Awaited(r, {}, files, began)
        /\ Evidence(r, {}, files, began, ended, used.lost)
    BY <1>1, <2>2, <2>4 DEF OneSession, Awaited, Evidence
  <2>6. SnapshotKept(r, sn, began)
    BY <1>1, <2>2, <2>4 DEF SnapshotKept, InProgress
  <2> QED BY <1>1, <2>1, <2>3, <2>4, <2>5, <2>6, HookedMoves
<1> QED BY <1>2, <1>3, <1>4

\* A restart takes the session and what was awaited, and is remembered if it
\* took anything.
LEMMA HookedRestartIsHonest ==
  ASSUME HookedInv, HRestart
  PROVE  HookedInv'
<1>1. /\ record \in HRecord /\ files \in Tree /\ used \in UsedState /\ ended \in Tree
      /\ NoSession \in SessionState /\ NoSession.state = "none"
      /\ Evidence(record, after, files, began, ended, used.lost)
      /\ SnapshotKept(record, snaps, began)
  BY HookedFacts
<1> DEFINE lost == used.lost \/ session.state # "none" \/ after # {}
           u == [used EXCEPT !.restarts = used.restarts + 1, !.lost = lost]
<1>2. u \in UsedState /\ u.lost = lost
  <2>1. lost \in BOOLEAN /\ used.restarts + 1 \in Nat
    BY <1>1 DEF UsedState
  <2>2. ASSUME NEW n \in Nat, NEW l \in BOOLEAN
        PROVE  /\ [used EXCEPT !.restarts = n, !.lost = l] \in UsedState
               /\ [used EXCEPT !.restarts = n, !.lost = l].lost = l
    BY <1>1 DEF UsedState
  <2> HIDE DEF lost
  <2> QED BY <2>1, <2>2
<1>3. used' = u /\ session' = NoSession /\ after' = {} /\ UNCHANGED <<record, files, snaps, began, ended>>
  BY <1>1 DEF HRestart, UsedState
<1>4. Evidence(record, {}, files, began, ended, lost)
  BY <1>1 DEF Evidence
<1> HIDE DEF u, lost
<1>5. OneSession(record, NoSession, {}) /\ Awaited(record, {}, files, began)
  BY <1>1 DEF OneSession, Awaited
<1> QED BY <1>1, <1>2, <1>3, <1>4, <1>5, HookedMoves

\* A run starts, or its process does not: the snapshot holds the tree it finds.
LEMMA StartingIsHonest ==
  ASSUME HookedInv, NEW spawns \in BOOLEAN, HookedStart(spawns)
  PROVE  HookedInv'
<1>1. /\ record \in HRecord /\ files \in Tree /\ used \in UsedState /\ session \in SessionState
      /\ ended \in Tree /\ NoSession \in SessionState
      /\ began \in Seq(Tree) /\ Len(began) = record.id
      /\ OneSession(record, session, after) /\ Awaited(record, after, files, began)
  BY HookedFacts
<1> DEFINE id == record.id + 1
           r == [id |-> id, status |-> IF spawns THEN "running" ELSE "failed",
                 result |-> FALSE, changes |-> {}, full |-> FALSE]
           s == IF spawns THEN [NoSession EXCEPT !.state = "working"] ELSE session
           b == Append(began, files)
<1>2. /\ record.status \notin InProgress \cup {"awaiting-review"} /\ record.id < HRuns
      /\ record' = r /\ session' = s /\ began' = b
      /\ snaps' = IF spawns THEN [n \in DOMAIN snaps \cup {id} |->
                                    IF n = id THEN SnapshotTree(files) ELSE snaps[n]]
                  ELSE snaps
      /\ UNCHANGED <<after, files, ended, used>>
  BY DEF HookedStart
<1>3. after = {} /\ session.state = "none"
  BY <1>1, <1>2 DEF Awaited, OneSession, InProgress
<1>4. id \in 0..HRuns
  BY <1>1, <1>2, HookedAssumption DEF HRecord
<1>5. b \in Seq(Tree) /\ Len(b) = id /\ b[id] = files /\ id \in 1..Len(b)
  BY <1>1, <1>4 DEF HRecord
<1>6. spawns => id \in DOMAIN snaps' /\ snaps'[id] = SnapshotTree(files)
  <2>1. CASE spawns
    <3> DEFINE sn == [n \in DOMAIN snaps \cup {id} |-> IF n = id THEN SnapshotTree(files) ELSE snaps[n]]
    <3>1. id \in DOMAIN sn /\ sn[id] = SnapshotTree(files)
      OBVIOUS
    <3> QED BY <1>2, <2>1, <3>1
  <2> QED BY <2>1
<1>7. s \in SessionState /\ (s.state # "none" => spawns)
  BY <1>1, <1>3 DEF SessionState, NoSession
<1> HIDE DEF b, id
<1>8. r \in HRecord /\ r.id = id /\ r.status = (IF spawns THEN "running" ELSE "failed") /\ ~r.full
  BY <1>4 DEF HRecord, HStatus, InProgress
<1> HIDE DEF r, s
<1>9. HookedTyped'
  BY <1>1, <1>2, <1>5, <1>7, <1>8 DEF HookedTyped, SessionState, UsedState
<1>10. OneSession(r, s, {}) /\ Awaited(r, {}, files, b)
  BY <1>7, <1>8 DEF OneSession, Awaited
<1>11. Evidence(r, {}, files, b, ended, used.lost)
  BY <1>5, <1>8 DEF Evidence
<1>12. SnapshotKept(r, snaps', b)
  BY <1>5, <1>6, <1>8 DEF SnapshotKept, InProgress
<1> QED BY <1>2, <1>3, <1>9, <1>10, <1>11, <1>12 DEF HookedInv

\* What the panel says of a decided run is true: a rejected run and a failed one
\* left the tree as they found it, an accepted one as its session left it with
\* every file it changed listed, and until the decision the snapshot that undoes
\* the run is kept; for every tree, any number of runs, sessions and restarts
\* (decideHookedRun, collect, restoreTree).  It is of files of a size a snapshot
\* takes, and of a person who decides once: the two cases the code leaves open.
THEOREM DecisionIsAlwaysHonest ==
  ASSUME HookedHyp
  PROVE  HookedSpec => []DecisionIsHonest
<1>1. HookedInv /\ [HookedNext]_hookedVars => HookedInv'
  <2> SUFFICES ASSUME HookedInv, [HookedNext]_hookedVars PROVE HookedInv'
    OBVIOUS
  <2>1. ASSUME NEW spawns \in BOOLEAN, HookedStart(spawns) PROVE HookedInv'
    BY <2>1, StartingIsHonest
  <2>2. CASE \/ \E f \in HFile, c \in Content \cup {Nothing} : HookedEdits(f, c)
             \/ HookedTurnEnds \/ HookedReply \/ HookedFinish \/ StopSession
    BY <2>2, SessionsAreHonest
  <2>3. CASE CloseSession
    BY <2>3, ClosingIsHonest
  <2>4. ASSUME NEW throws \in BOOLEAN, HookedCollect(throws) PROVE HookedInv'
    BY <2>4, CollectingIsHonest
  <2>5. CASE HookedAccept \/ HookedReject \/ HookedRejected
    BY <2>5, DecidingIsHonest
  <2>6. CASE HRestart
    BY <2>6, HookedRestartIsHonest
  <2>7. CASE UNCHANGED hookedVars
    BY <2>7 DEF hookedVars, HookedInv, HookedTyped, OneSession, Awaited, Evidence, SnapshotKept
  <2> QED BY <2>1, <2>2, <2>3, <2>4, <2>5, <2>6, <2>7 DEF HookedNext
<1>2. HookedInv => DecisionIsHonest
  <2> SUFFICES ASSUME HookedInv PROVE DecisionIsHonest
    OBVIOUS
  <2>1. /\ Evidence(record, after, files, began, ended, used.lost)
        /\ SnapshotKept(record, snaps, began)
    BY HookedFacts
  <2> QED BY <2>1 DEF Evidence, SnapshotKept, Differ, DecisionIsHonest
<1> QED BY <1>1, <1>2, HookedInitially, PTL DEF HookedSpec


\* A snapshot holds contents of files.
Snapshot(sn) == DOMAIN sn \subseteq HFile /\ \A f \in DOMAIN sn : sn[f] \in Content

\* The snapshots are of runs there were, and the run that may need its own has it.
SnapshotsTyped(r, sn) ==
  /\ DOMAIN sn \subseteq 1..r.id /\ \A n \in DOMAIN sn : Snapshot(sn[n])
  /\ r.status \in InProgress \cup {"awaiting-review"} => r.id \in DOMAIN sn

\* What is awaited is a step of the run on record.
AwaitedTyped(r, a) ==
  \A x \in a : \/ x = [step |-> "collect", run |-> r.id] /\ r.status = "collecting"
               \/ x = [step |-> "reject", run |-> r.id] /\ r.status = "awaiting-review"

\* The inductive invariant of the types: of files of any size.
HookedTypeInv ==
  /\ HookedTyped /\ OneSession(record, session, after)
  /\ AwaitedTyped(record, after) /\ SnapshotsTyped(record, snaps)

\* What a snapshot, a comparison and a restore are made of.
LEMMA SnapshotsOfTrees ==
  ASSUME NEW t \in Tree, NEW sn, Snapshot(sn)
  PROVE  /\ Snapshot(SnapshotTree(t))
         /\ CompareTree(t, sn) \subseteq HFile /\ RestoreTree(t, sn) \in Tree
<1>1. Editable(t) \subseteq HFile /\ \A f \in Editable(t) : t[f] \in Content
  BY DEF Editable, Tree
<1>2. Snapshot(SnapshotTree(t))
  BY <1>1 DEF Snapshot, SnapshotTree
<1>3. CompareTree(t, sn) \subseteq HFile
  BY <1>1 DEF Snapshot, CompareTree, Added
<1>4. \A f \in CompareTree(t, sn) \ Added(t, sn) : sn[f] \in Content
  BY DEF Snapshot, CompareTree
<1>5. RestoreTree(t, sn) \in Tree
  BY <1>4 DEF RestoreTree, Tree
<1> QED BY <1>2, <1>3, <1>5

\* One snapshot less.
LEMMA DropIsTyped ==
  ASSUME NEW r, NEW q, SnapshotsTyped(r, snaps), q.id = r.id,
         q.status \notin InProgress \cup {"awaiting-review"}
  PROVE  SnapshotsTyped(q, Drop(r.id))
BY DEF SnapshotsTyped, Drop, Restrict

\* A step that starts no run keeps the types.
LEMMA HookedTypesMove ==
  ASSUME HookedTypeInv, record' \in HRecord, record'.id = record.id, session' \in SessionState,
         files' \in Tree, ended' \in Tree, began' = began, used' \in UsedState,
         OneSession(record', session', after'), AwaitedTyped(record', after'),
         SnapshotsTyped(record', snaps')
  PROVE  HookedTypeInv'
BY DEF HookedTypeInv, HookedTyped, SessionState, UsedState

\* Every step of a hooked run keeps the types, when nobody decides twice.
LEMMA HookedStepIsTyped ==
  ASSUME DecideOnce, HookedTypeInv, [HookedNext]_hookedVars
  PROVE  HookedTypeInv'
<1>1. /\ record \in HRecord /\ session \in SessionState /\ files \in Tree /\ ended \in Tree
      /\ used \in UsedState /\ began \in Seq(Tree) /\ Len(began) = record.id
      /\ OneSession(record, session, after) /\ AwaitedTyped(record, after)
      /\ SnapshotsTyped(record, snaps)
  BY DEF HookedTypeInv, HookedTyped, SessionState, UsedState
<1>2. NoSession \in SessionState /\ NoSession.state = "none"
  BY DEF SessionState, NoSession
\* The record of the run gets another status.
<1>3. \A st \in HStatus : /\ [record EXCEPT !.status = st] \in HRecord
                          /\ [record EXCEPT !.status = st].id = record.id
                          /\ [record EXCEPT !.status = st].status = st
  BY <1>1 DEF HRecord
<1>4. ASSUME NEW spawns \in BOOLEAN, HookedStart(spawns) PROVE HookedTypeInv'
  <2> DEFINE id == record.id + 1
             st == IF spawns THEN "running" ELSE "failed"
             r == [id |-> id, status |-> st, result |-> FALSE, changes |-> {}, full |-> FALSE]
             s == IF spawns THEN [NoSession EXCEPT !.state = "working"] ELSE session
             sn == IF spawns THEN [n \in DOMAIN snaps \cup {id} |->
                                     IF n = id THEN SnapshotTree(files) ELSE snaps[n]]
                   ELSE snaps
  <2>1. /\ record.status \notin InProgress \cup {"awaiting-review"} /\ record.id < HRuns
        /\ record' = r /\ session' = s /\ snaps' = sn /\ began' = Append(began, files)
        /\ UNCHANGED <<after, files, ended, used>>
    BY <1>4 DEF HookedStart
  <2>2. after = {} /\ session.state = "none"
    BY <1>1, <2>1 DEF AwaitedTyped, OneSession, InProgress
  <2>3. id \in 0..HRuns /\ 1..record.id \subseteq 1..id /\ id \in 1..id
    BY <1>1, <2>1, HookedAssumption DEF HRecord
  <2>4. st \in HStatus /\ st \in {"running", "failed"} /\ (st = "running" <=> spawns)
    BY DEF HStatus, InProgress
  <2> HIDE DEF st
  <2>5. r \in HRecord /\ r.id = id /\ r.status = st
    <3> HIDE DEF id
    <3> QED BY <2>3, <2>4 DEF HRecord
  <2>6. s \in SessionState /\ (s.state # "none" => st = "running")
    BY <1>1, <2>2, <2>4 DEF SessionState, NoSession
  <2>7. SnapshotsTyped(r, sn)
    <3>1. Snapshot(SnapshotTree(files))
      <4>1. Snapshot(<<>>)
        BY DEF Snapshot
      <4> QED BY <1>1, <4>1, SnapshotsOfTrees
    <3>2. CASE spawns
      <4>1. /\ DOMAIN sn = DOMAIN snaps \cup {id} /\ sn[id] = SnapshotTree(files)
            /\ \A n \in DOMAIN snaps \ {id} : sn[n] = snaps[n]
        BY <3>2
      <4> HIDE DEF sn, id, r
      <4> QED BY <1>1, <2>3, <2>5, <3>1, <4>1 DEF SnapshotsTyped
    <3>3. CASE ~spawns
      <4>1. sn = snaps
        BY <3>3
      <4> HIDE DEF sn, id, r
      <4> QED BY <1>1, <2>3, <2>4, <2>5, <3>3, <4>1 DEF SnapshotsTyped, InProgress
    <3> QED BY <3>2, <3>3
  <2>8. Append(began, files) \in Seq(Tree) /\ Len(Append(began, files)) = id
    BY <1>1
  <2> HIDE DEF r, s, sn, id
  <2>9. HookedTyped'
    BY <1>1, <2>1, <2>5, <2>6, <2>8 DEF HookedTyped, SessionState, UsedState
  <2>10. OneSession(r, s, {}) /\ AwaitedTyped(r, {})
    BY <2>5, <2>6 DEF OneSession, AwaitedTyped
  <2> QED BY <2>1, <2>2, <2>7, <2>9, <2>10 DEF HookedTypeInv
<1>5. CASE \E f \in HFile, c \in Content \cup {Nothing} : HookedEdits(f, c)
  <2>1. files' \in Tree /\ used' \in UsedState
    BY <1>1, <1>5 DEF HookedEdits, Tree, UsedState
  <2>2. UNCHANGED <<record, session, after, snaps, began, ended>>
    BY <1>5 DEF HookedEdits
  <2> QED BY <1>1, <2>1, <2>2, HookedTypesMove
<1>6. CASE HookedTurnEnds \/ HookedReply \/ HookedFinish \/ StopSession
  <2>1. session.state # "none" /\ record.status \in {"running", "waiting"} /\ after = {}
    BY <1>1, <1>6 DEF HookedTurnEnds, HookedReply, HookedFinish, StopSession, OneSession
  <2>2. /\ record' \in HRecord /\ record'.id = record.id
        /\ record'.status \in {"running", "waiting"}
    BY <1>1, <1>6, <2>1
       DEF HookedTurnEnds, HookedReply, HookedFinish, StopSession, HRecord, HStatus, InProgress
  <2>3. session' \in SessionState
    BY <1>1, <1>6 DEF HookedTurnEnds, HookedReply, HookedFinish, StopSession, SessionState
  <2>4. used' \in UsedState
    BY <1>1, <1>6 DEF HookedTurnEnds, HookedReply, HookedFinish, StopSession, UsedState
  <2>5. UNCHANGED <<after, files, snaps, began, ended>>
    BY <1>6 DEF HookedTurnEnds, HookedReply, HookedFinish, StopSession
  <2>6. OneSession(record', session', after') /\ AwaitedTyped(record', after')
    BY <2>1, <2>2, <2>5 DEF OneSession, AwaitedTyped
  <2>7. SnapshotsTyped(record', snaps')
    BY <1>1, <2>1, <2>2, <2>5 DEF SnapshotsTyped, InProgress
  <2> QED BY <1>1, <2>2, <2>3, <2>4, <2>5, <2>6, <2>7, HookedTypesMove
<1>7. CASE CloseSession
  <2>1. session.state # "none" /\ record.status \in {"running", "waiting"} /\ after = {}
    BY <1>1, <1>7 DEF CloseSession, OneSession
  <2>2. record' = [record EXCEPT !.status = "collecting"] /\ "collecting" \in HStatus
    BY <1>7 DEF CloseSession, Collecting, HStatus, InProgress
  <2>3. /\ session' = NoSession /\ ended' = files /\ UNCHANGED <<files, snaps, began, used>>
        /\ after' = {[step |-> "collect", run |-> record'.id]}
    BY <1>7, <2>1 DEF CloseSession
  <2>4. /\ record' \in HRecord /\ record'.id = record.id /\ record'.status = "collecting"
    BY <1>3, <2>2
  <2>5. OneSession(record', session', after') /\ AwaitedTyped(record', after')
    BY <1>2, <2>3, <2>4 DEF OneSession, AwaitedTyped
  <2>6. SnapshotsTyped(record', snaps')
    BY <1>1, <2>1, <2>3, <2>4 DEF SnapshotsTyped, InProgress
  <2> QED BY <1>1, <1>2, <2>3, <2>4, <2>5, <2>6, HookedTypesMove
<1>8. ASSUME NEW throws \in BOOLEAN, HookedCollect(throws) PROVE HookedTypeInv'
  <2>1. PICK a \in after :
          /\ a.step = "collect"
          /\ record' = IF throws THEN [record EXCEPT !.status = "awaiting-review"]
                       ELSE Collected(record, CompareTree(files, snaps[a.run]))
          /\ snaps' = IF record'.status = "failed" THEN Drop(a.run) ELSE snaps
          /\ after' = after \ {a}
          /\ UNCHANGED <<session, files, began, ended, used>>
    BY <1>8 DEF HookedCollect
  <2>2. a.run = record.id /\ record.status = "collecting" /\ after' = {} /\ session.state = "none"
    BY <1>1, <2>1 DEF AwaitedTyped, OneSession
  <2>3. record.id \in DOMAIN snaps /\ Snapshot(snaps[record.id])
    BY <1>1, <2>2 DEF SnapshotsTyped, InProgress
  <2>4. CompareTree(files, snaps[a.run]) \subseteq HFile
    BY <1>1, <2>2, <2>3, SnapshotsOfTrees
  <2>5. record' \in HRecord /\ record'.id = record.id /\ record'.status \in {"awaiting-review", "failed"}
    <3>1. CASE throws
      <4>1. "awaiting-review" \in HStatus
        BY DEF HStatus
      <4> QED BY <1>3, <2>1, <3>1, <4>1
    <3>2. CASE ~throws
      <4> DEFINE d == CompareTree(files, snaps[a.run])
      <4>1. record' = Collected(record, d) /\ d \in SUBSET HFile
        BY <2>1, <2>4, <3>2
      <4> HIDE DEF d
      <4> QED BY <1>1, <4>1 DEF Collected, HRecord, HStatus
    <3> QED BY <3>1, <3>2
  <2>6. SnapshotsTyped(record', snaps')
    <3>1. CASE record'.status = "failed"
      BY <1>1, <2>1, <2>2, <2>5, <3>1, DropIsTyped DEF InProgress
    <3>2. CASE record'.status = "awaiting-review"
      BY <1>1, <2>1, <2>2, <2>3, <2>5, <3>2 DEF SnapshotsTyped
    <3> QED BY <2>5, <3>1, <3>2
  <2>7. OneSession(record', session', after') /\ AwaitedTyped(record', after')
    BY <2>1, <2>2 DEF OneSession, AwaitedTyped
  <2> QED BY <1>1, <2>1, <2>5, <2>6, <2>7, HookedTypesMove
<1>9. CASE HookedAccept
  <2>1. /\ record.status = "awaiting-review" /\ after = {} /\ snaps' = Drop(record.id)
        /\ record' = [record EXCEPT !.status = "accepted"] /\ "accepted" \in HStatus
        /\ UNCHANGED <<session, after, files, began, ended, used>>
    BY <1>9 DEF HookedAccept, Decidable, HStatus
  <2>2. record' \in HRecord /\ record'.id = record.id /\ record'.status = "accepted"
    BY <1>3, <2>1
  <2>3. SnapshotsTyped(record', snaps')
    BY <1>1, <2>1, <2>2, DropIsTyped DEF InProgress
  <2>4. OneSession(record', session', after') /\ AwaitedTyped(record', after')
    BY <1>1, <2>1 DEF OneSession, AwaitedTyped
  <2> QED BY <1>1, <2>1, <2>2, <2>3, <2>4, HookedTypesMove
<1>10. CASE HookedReject
  <2>1. /\ record.status = "awaiting-review" /\ after = {}
        /\ after' = {[step |-> "reject", run |-> record.id]}
        /\ files' = IF record.id \in DOMAIN snaps THEN RestoreTree(files, snaps[record.id]) ELSE files
        /\ UNCHANGED <<record, session, snaps, began, ended, used>>
    BY <1>10 DEF HookedReject, Decidable
  <2>2. files' \in Tree
    BY <1>1, <2>1, SnapshotsOfTrees DEF SnapshotsTyped
  <2>3. OneSession(record', session', after') /\ AwaitedTyped(record', after')
    BY <1>1, <2>1 DEF OneSession, AwaitedTyped
  <2> QED BY <1>1, <2>1, <2>2, <2>3, HookedTypesMove
<1>11. CASE HookedRejected
  <2>1. PICK a \in after :
          /\ a.step = "reject"
          /\ record' = [record EXCEPT !.id = a.run, !.status = "rejected"]
          /\ snaps' = Drop(a.run)
          /\ after' = after \ {a}
          /\ UNCHANGED <<session, files, began, ended, used>>
    BY <1>11 DEF HookedRejected
  <2>2. a.run = record.id /\ record.status = "awaiting-review" /\ after' = {} /\ session.state = "none"
    BY <1>1, <2>1 DEF AwaitedTyped, OneSession
  <2>3. record' \in HRecord /\ record'.id = record.id /\ record'.status = "rejected"
    BY <1>1, <2>1, <2>2 DEF HRecord, HStatus
  <2>4. SnapshotsTyped(record', snaps')
    BY <1>1, <2>1, <2>2, <2>3, DropIsTyped DEF InProgress
  <2>5. OneSession(record', session', after') /\ AwaitedTyped(record', after')
    BY <2>1, <2>2 DEF OneSession, AwaitedTyped
  <2> QED BY <1>1, <2>1, <2>3, <2>4, <2>5, HookedTypesMove
<1>12. CASE HRestart
  <2> DEFINE lost == used.lost \/ session.state # "none" \/ after # {}
  <2>1. used' = [used EXCEPT !.restarts = used.restarts + 1, !.lost = lost] /\ lost \in BOOLEAN
    BY <1>1, <1>12 DEF HRestart, UsedState
  <2> HIDE DEF lost
  <2>2. used' \in UsedState
    <3>1. ASSUME NEW n \in Nat, NEW l \in BOOLEAN
          PROVE  [used EXCEPT !.restarts = n, !.lost = l] \in UsedState
      BY <1>1 DEF UsedState
    <3>2. used.restarts + 1 \in Nat
      BY <1>1 DEF UsedState
    <3> QED BY <2>1, <3>1, <3>2
  <2>3. session' = NoSession /\ after' = {} /\ UNCHANGED <<record, files, snaps, began, ended>>
    BY <1>12 DEF HRestart
  <2>4. OneSession(record', session', after') /\ AwaitedTyped(record', after')
    BY <1>2, <2>3 DEF OneSession, AwaitedTyped
  <2> QED BY <1>1, <1>2, <2>2, <2>3, <2>4, HookedTypesMove
<1>13. CASE UNCHANGED hookedVars
  BY <1>1, <1>13, HookedTypesMove DEF hookedVars
<1> QED BY <1>4, <1>5, <1>6, <1>7, <1>8, <1>9, <1>10, <1>11, <1>12, <1>13 DEF HookedNext

LEMMA HookedTypedInitially ==
  HookedInit => HookedTypeInv
<1> SUFFICES ASSUME HookedInit PROVE HookedTypeInv
  OBVIOUS
<1>1. HookedTyped /\ OneSession(record, session, after)
  BY HookedInitially DEF HookedInv
<1>2. AwaitedTyped(record, after) /\ SnapshotsTyped(record, snaps)
  BY DEF HookedInit, AwaitedTyped, SnapshotsTyped, InProgress
<1> QED BY <1>1, <1>2 DEF HookedTypeInv

\* What the invariant says of the types.
LEMMA HookedTypes ==
  HookedTypeInv => HookedTypeOK
<1> SUFFICES ASSUME HookedTypeInv PROVE HookedTypeOK
  OBVIOUS
<1>1. /\ record \in HRecord /\ began \in Seq(Tree) /\ Len(began) = record.id
      /\ AwaitedTyped(record, after) /\ SnapshotsTyped(record, snaps)
  BY DEF HookedTypeInv, HookedTyped
<1>2. after \subseteq [step : {"collect", "reject"}, run : 1..HRuns]
  <2>1. ASSUME NEW x \in after PROVE x \in [step : {"collect", "reject"}, run : 1..HRuns]
    <3>1. record.id \in 1..record.id
      BY <1>1 DEF AwaitedTyped, SnapshotsTyped, InProgress
    <3>2. record.id \in 1..HRuns
      BY <1>1, <3>1, HookedAssumption DEF HRecord
    <3> QED BY <1>1, <3>2 DEF AwaitedTyped
  <2> QED BY <2>1
<1>3. DOMAIN began = 1..record.id
  BY <1>1
<1> QED BY <1>1, <1>2, <1>3 DEF HookedTypeInv, HookedTyped, SnapshotsTyped, HookedTypeOK

------------------------------------------------------------------------------
(* The model tasks.                                                         *)

\* A list of some of the first n tasks, each with its last steps.
IsList(list, n) ==
  /\ DOMAIN list \subseteq 1..n
  /\ list \in [DOMAIN list -> Task]
  /\ \A id \in DOMAIN list : Len(list[id].steps) <= StepKeep

\* What runs in the list is the work, one of a kind.
IsOfWork(list, w) ==
  /\ {id \in DOMAIN list : IsRunning(list[id])} = w
  /\ \A i, j \in w : list[i].kind = list[j].kind => i = j

TasksInv ==
  /\ begun \in [tasks : 0..Tasks, steps : 0..Steps] /\ batch \in BOOLEAN
  /\ IsList(tasks, begun.tasks) /\ IsOfWork(tasks, works)
  /\ ~batch => told = tasks
  /\ \A id \in DOMAIN told : IsRunning(told[id]) => id \in works

\* The steps of a task stay within STEP_KEEP.
LEMMA StepsAreKept ==
  ASSUME NEW steps \in Seq(Step), Len(steps) <= StepKeep, NEW s \in Step
  PROVE  WithStep(steps, s) \in Seq(Step) /\ Len(WithStep(steps, s)) <= StepKeep
<1> DEFINE n == Len(steps)
           live == s.live /\ n > 0 /\ steps[n].live
           next == IF live THEN [steps EXCEPT ![n] = s] ELSE Append(steps, s)
<1>1. n \in Nat /\ StepKeep \in Nat
  BY TasksAssumption
<1>2. CASE live
  <2>1. next = [steps EXCEPT ![n] = s]
    BY <1>2
  <2>2. next \in Seq(Step) /\ Len(next) = n
    BY <1>1, <2>1
  <2> HIDE DEF live, next
  <2> QED BY <1>1, <2>2 DEF WithStep, next, live
<1>3. CASE ~live
  <2>1. next = Append(steps, s)
    BY <1>3
  <2>2. next \in Seq(Step) /\ Len(next) = n + 1
    BY <1>1, <2>1
  <2>3. Tail(next) \in Seq(Step) /\ Len(Tail(next)) = n
    <3> HIDE DEF next
    <3> next # <<>>
      BY <1>1, <2>2
    <3> QED BY <1>1, <2>2
  <2>4. \/ WithStep(steps, s) = steps
        \/ Len(next) > StepKeep /\ WithStep(steps, s) = Tail(next)
        \/ Len(next) <= StepKeep /\ WithStep(steps, s) = next
    BY <1>1, <2>2 DEF WithStep
  <2> HIDE DEF live, next
  <2> QED BY <1>1, <2>2, <2>3, <2>4
<1> QED BY <1>2, <1>3

\* What leaves the list has ended, so the list is still of the work.
LEMMA LeavingKeepsWork ==
  ASSUME NEW n \in Nat, NEW list, NEW w, IsList(list, n), IsOfWork(list, w),
         NEW gone \in SUBSET Finished(list)
  PROVE  LET kept == Restrict(list, DOMAIN list \ gone)
         IN  IsList(kept, n) /\ IsOfWork(kept, w)
<1> DEFINE kept == Restrict(list, DOMAIN list \ gone)
<1>1. DOMAIN kept = DOMAIN list \ gone /\ \A id \in DOMAIN kept : kept[id] = list[id]
  BY DEF Restrict
<1>2. kept \in [DOMAIN kept -> Task]
  BY <1>1 DEF Restrict, IsList
<1> HIDE DEF kept
<1>3. IsList(kept, n)
  BY <1>1, <1>2 DEF IsList
<1>4. w \subseteq DOMAIN kept
  BY <1>1 DEF IsOfWork, Finished
<1>5. IsOfWork(kept, w)
  BY <1>1, <1>4 DEF IsOfWork
<1> QED BY <1>3, <1>5 DEF kept

\* A list said to the clients at once leaves nothing due (changed(true)).
LEMMA SaidAtOnce ==
  ASSUME NEW list, ChangedList(list, TRUE),
         begun' \in [tasks : 0..Tasks, steps : 0..Steps],
         IsList(list, begun'.tasks), IsOfWork(list, works')
  PROVE  TasksInv'
BY DEF ChangedList, TasksInv, IsOfWork, IsList

\* At first there is nothing to tell.
LEMMA TasksInitially == TasksInit => TasksInv
<1>1. <<>> \in [{} -> Task] /\ DOMAIN <<>> = {}
  OBVIOUS
<1>2. IsList(<<>>, 0) /\ IsOfWork(<<>>, {})
  BY <1>1 DEF IsList, IsOfWork
<1>3. [tasks |-> 0, steps |-> 0] \in [tasks : 0..Tasks, steps : 0..Steps]
  BY TasksAssumption
<1> SUFFICES ASSUME TasksInit PROVE TasksInv
  OBVIOUS
<1>4. tasks = <<>> /\ told = <<>> /\ batch = FALSE /\ works = {} /\ begun = [tasks |-> 0, steps |-> 0]
  BY DEF TasksInit
<1>5. IsList(tasks, begun.tasks) /\ IsOfWork(tasks, works)
  BY <1>2, <1>4
<1>6. \A id \in DOMAIN told : IsRunning(told[id]) => id \in works
  BY <1>1, <1>4, Zenon
<1> QED BY <1>3, <1>4, <1>5, <1>6 DEF TasksInv

\* A task that starts is the only one of its kind that runs (start).
LEMMA StartKeepsTasks ==
  ASSUME TasksInv, NEW kind \in TaskKind, TaskStart(kind)
  PROVE  TasksInv'
<1> DEFINE id == begun.tasks + 1
           t == [kind |-> kind, state |-> "running", steps |-> <<>>]
           list == Listed(tasks, id, t)
           w == works \cup {id}
<1>1. /\ RunningOf(kind) = {} /\ begun.tasks < Tasks
      /\ begun' = [begun EXCEPT !.tasks = id] /\ works' = w
      /\ ChangedList(Pruned(list), TRUE)
  BY DEF TaskStart
<1>2. /\ begun' \in [tasks : 0..Tasks, steps : 0..Steps] /\ begun'.tasks = id
      /\ id \in Nat /\ 1..id = 1..begun.tasks \cup {id} /\ id \notin 1..begun.tasks
  BY <1>1, TasksAssumption DEF TasksInv
<1>3. t \in Task /\ IsRunning(t) /\ Len(t.steps) <= StepKeep /\ t.kind = kind
  BY TasksAssumption DEF Task, IsRunning
<1> HIDE DEF t
<1>4. /\ DOMAIN list = DOMAIN tasks \cup {id} /\ list[id] = t /\ id \notin DOMAIN tasks
      /\ \A i \in DOMAIN tasks : list[i] = tasks[i]
  BY <1>2 DEF Listed, TasksInv, IsList
<1>5. list \in [DOMAIN list -> Task]
  BY <1>3, <1>4 DEF Listed, TasksInv, IsList
<1> HIDE DEF list, id
<1>6. IsList(list, id)
  BY <1>2, <1>3, <1>4, <1>5 DEF IsList, TasksInv
<1>7. \A i \in works : i \in DOMAIN tasks /\ tasks[i].kind # kind
  BY <1>1 DEF RunningOf, TasksInv, IsOfWork
<1>8. IsOfWork(list, w)
  <2>1. {i \in DOMAIN list : IsRunning(list[i])} = w
    BY <1>3, <1>4 DEF TasksInv, IsOfWork
  <2>2. ASSUME NEW i \in w, NEW j \in w, list[i].kind = list[j].kind
        PROVE  i = j
    BY <1>3, <1>4, <1>7, <2>2 DEF TasksInv, IsOfWork
  <2> QED BY <2>1, <2>2 DEF IsOfWork
<1> HIDE DEF w
<1>9. Excess(list) \in SUBSET Finished(list)
  BY DEF Excess
<1>10. IsList(Pruned(list), id) /\ IsOfWork(Pruned(list), w)
  BY <1>2, <1>6, <1>8, <1>9, LeavingKeepsWork DEF Pruned
<1> QED BY <1>1, <1>2, <1>10, SaidAtOnce

\* A step is said later, and ends nothing (step).
LEMMA StepKeepsTasks ==
  ASSUME TasksInv, NEW id \in works, NEW s \in Step, TaskStep(id, s)
  PROVE  TasksInv'
<1> DEFINE list == [tasks EXCEPT ![id].steps = WithStep(@, s)]
<1>1. /\ id \in DOMAIN tasks /\ begun' = [begun EXCEPT !.steps = @ + 1]
      /\ begun.steps < Steps
      /\ tasks' = list /\ batch' = TRUE /\ told' = told /\ works' = works
  BY DEF TaskStep, ChangedList
<1>2. begun' \in [tasks : 0..Tasks, steps : 0..Steps] /\ begun'.tasks = begun.tasks
  BY <1>1, TasksAssumption DEF TasksInv
<1>3. tasks[id] \in Task /\ Len(tasks[id].steps) <= StepKeep
  BY <1>1 DEF TasksInv, IsList
<1>4. /\ WithStep(tasks[id].steps, s) \in Seq(Step)
      /\ Len(WithStep(tasks[id].steps, s)) <= StepKeep
  BY <1>3, StepsAreKept DEF Task
<1>5. /\ DOMAIN list = DOMAIN tasks
      /\ \A i \in DOMAIN list : /\ list[i] \in Task /\ Len(list[i].steps) <= StepKeep
                                /\ list[i].state = tasks[i].state
                                /\ list[i].kind = tasks[i].kind
  BY <1>1, <1>3, <1>4 DEF TasksInv, IsList, Task
<1>6. list \in [DOMAIN list -> Task]
  BY <1>5
<1> HIDE DEF list
<1>7. IsList(list, begun'.tasks)
  BY <1>2, <1>5, <1>6 DEF TasksInv, IsList
<1>8. IsOfWork(list, works)
  BY <1>5 DEF TasksInv, IsOfWork, IsRunning
<1> QED BY <1>1, <1>2, <1>7, <1>8 DEF TasksInv

\* A task that ends leaves the work, and is said to have ended (end).
LEMMA EndKeepsTasks ==
  ASSUME TasksInv, NEW id \in works, NEW state \in {"done", "failed"}, TaskEnds(id, state)
  PROVE  TasksInv'
<1> DEFINE list == [tasks EXCEPT ![id].state = state]
<1>1. /\ id \in DOMAIN tasks /\ begun' = begun /\ works' = works \ {id}
      /\ ChangedList(list, TRUE)
  BY DEF TaskEnds
<1>2. /\ DOMAIN list = DOMAIN tasks
      /\ \A i \in DOMAIN list : /\ list[i] \in Task /\ Len(list[i].steps) <= StepKeep
                                /\ list[i].state = IF i = id THEN state ELSE tasks[i].state
                                /\ list[i].kind = tasks[i].kind
  BY <1>1 DEF TasksInv, IsList, Task
<1>3. list \in [DOMAIN list -> Task]
  BY <1>2
<1> HIDE DEF list
<1>4. IsList(list, begun.tasks)
  BY <1>2, <1>3 DEF TasksInv, IsList
<1>5. IsOfWork(list, works \ {id})
  BY <1>2 DEF TasksInv, IsOfWork, IsRunning
<1> QED BY <1>1, <1>4, <1>5, SaidAtOnce DEF TasksInv

\* A task that is dismissed has ended (dismiss).
LEMMA DismissKeepsTasks ==
  ASSUME TasksInv, NEW id \in DOMAIN tasks, Dismiss(id)
  PROVE  TasksInv'
<1> DEFINE list == Restrict(tasks, DOMAIN tasks \ {id})
<1>1. /\ {id} \in SUBSET Finished(tasks) /\ begun' = begun /\ works' = works
      /\ ChangedList(list, TRUE)
  BY DEF Dismiss
<1>2. begun.tasks \in Nat
  BY DEF TasksInv
<1>3. IsList(list, begun.tasks) /\ IsOfWork(list, works)
  BY <1>1, <1>2, LeavingKeepsWork DEF TasksInv
<1> QED BY <1>1, <1>3, SaidAtOnce DEF TasksInv

\* GuiTasks (gui_tasks.ts): the list is true to the work, and so is what the
\* clients were last told of what runs, through starts, steps, ends and
\* dismissals in any order, for any kinds and any limits.
THEOREM TasksAreAlwaysTold == TasksSpec => [](TasksTypeOK /\ TasksAreTold)
<1>1. TasksInv /\ [TasksNext]_taskVars => TasksInv'
  <2> SUFFICES ASSUME TasksInv, [TasksNext]_taskVars PROVE TasksInv'
    OBVIOUS
  <2>1. CASE \E kind \in TaskKind : TaskStart(kind)
    BY <2>1, StartKeepsTasks
  <2>2. CASE \E id \in works, s \in Step : TaskStep(id, s)
    BY <2>2, StepKeepsTasks
  <2>3. CASE \E id \in works, state \in {"done", "failed"} : TaskEnds(id, state)
    BY <2>3, EndKeepsTasks
  <2>4. CASE \E id \in DOMAIN tasks : Dismiss(id)
    BY <2>4, DismissKeepsTasks
  <2>5. CASE Flush
    BY <2>5 DEF Flush, TasksInv, IsOfWork
  <2>6. CASE UNCHANGED taskVars
    BY <2>6 DEF taskVars, TasksInv, IsList, IsOfWork
  <2> QED BY <2>1, <2>2, <2>3, <2>4, <2>5, <2>6 DEF TasksNext
<1>2. TasksInv => TasksTypeOK /\ TasksAreTold
  <2> SUFFICES ASSUME TasksInv PROVE TasksTypeOK /\ TasksAreTold
    OBVIOUS
  <2>1. TasksTypeOK
    BY DEF TasksInv, TasksTypeOK, IsList, IsOfWork
  <2>2. ASSUME NEW kind \in TaskKind, NEW i \in RunningOf(kind), NEW j \in RunningOf(kind)
        PROVE  i = j
    BY <2>2 DEF TasksInv, IsOfWork, RunningOf
  <2> QED BY <2>1, <2>2 DEF TasksInv, IsOfWork, TasksAreTold
<1> QED BY <1>1, <1>2, TasksInitially, PTL DEF TasksSpec

------------------------------------------------------------------------------
(* Sequences.                                                               *)

\* A sequence that has the elements of two after one another joins them.
LEMMA Joined ==
  ASSUME NEW S, NEW s \in Seq(S), NEW t \in Seq(S), NEW u \in Seq(S),
         Len(u) = Len(s) + Len(t), \A i \in 1..Len(s) : u[i] = s[i],
         \A i \in 1..Len(t) : u[Len(s) + i] = t[i]
  PROVE  s \o t = u
<1>1. /\ s \o t \in Seq(S) /\ Len(s \o t) = Len(s) + Len(t)
      /\ \A i \in 1..(Len(s) + Len(t)) :
           (s \o t)[i] = IF i <= Len(s) THEN s[i] ELSE t[i - Len(s)]
  BY ConcatProperties
<1>2. ASSUME NEW i \in 1..Len(s \o t) PROVE (s \o t)[i] = u[i]
  <2>1. CASE i <= Len(s)
    BY <1>1, <2>1
  <2>2. CASE i > Len(s)
    <3>1. i - Len(s) \in 1..Len(t) /\ Len(s) + (i - Len(s)) = i
      BY <1>1, <2>2
    <3> QED BY <1>1, <2>2, <3>1
  <2> QED BY <1>1, <2>1, <2>2
<1> QED BY <1>1, <1>2, SeqEqual

\* What short sequences join to.
LEMMA OneAndOne ==
  ASSUME NEW S, NEW a \in S, NEW b \in S
  PROVE  <<a>> \o <<b>> = <<a, b>>
<1> DEFINE s == <<a>>
           t == <<b>>
           u == <<a, b>>
<1>1. /\ s \in Seq(S) /\ t \in Seq(S) /\ u \in Seq(S) /\ Len(s) = 1 /\ Len(t) = 1 /\ Len(u) = 2
      /\ s[1] = a /\ t[1] = b /\ u[1] = a /\ u[2] = b
  OBVIOUS
<1> HIDE DEF s, t, u
<1>2. /\ Len(u) = Len(s) + Len(t) /\ \A i \in 1..Len(s) : u[i] = s[i]
      /\ \A i \in 1..Len(t) : u[Len(s) + i] = t[i]
  BY <1>1
<1>3. s \o t = u
  BY <1>1, <1>2, Joined, Zenon
<1> QED BY <1>3 DEF s, t, u

\* One and two are three.
LEMMA OneAndTwo ==
  ASSUME NEW S, NEW a \in S, NEW b \in S, NEW c \in S
  PROVE  <<a>> \o <<b, c>> = <<a, b, c>>
<1> DEFINE s == <<a>>
           t == <<b, c>>
           u == <<a, b, c>>
<1>1. /\ s \in Seq(S) /\ t \in Seq(S) /\ u \in Seq(S) /\ Len(s) = 1 /\ Len(t) = 2 /\ Len(u) = 3
      /\ s[1] = a /\ t[1] = b /\ t[2] = c /\ u[1] = a /\ u[2] = b /\ u[3] = c
  OBVIOUS
<1> HIDE DEF s, t, u
<1>2. /\ Len(u) = Len(s) + Len(t) /\ \A i \in 1..Len(s) : u[i] = s[i]
      /\ \A i \in 1..Len(t) : u[Len(s) + i] = t[i]
  BY <1>1
<1>3. s \o t = u
  BY <1>1, <1>2, Joined, Zenon
<1> QED BY <1>3 DEF s, t, u

\* One element after one.
LEMMA OneMore ==
  ASSUME NEW S, NEW a \in S, NEW b \in S
  PROVE  Append(<<a>>, b) = <<a, b>>
<1>1. <<a>> \in Seq(S)
  OBVIOUS
<1>2. Append(<<a>>, b) = <<a>> \o <<b>>
  BY <1>1, AppendIsConcat, Zenon
<1> QED BY <1>2, OneAndOne, Zenon

\* One element after two.
LEMMA TwoAndOne ==
  ASSUME NEW S, NEW a \in S, NEW b \in S, NEW c \in S
  PROVE  Append(<<a, b>>, c) = <<a, b, c>>
<1> DEFINE s == <<a, b>>
           t == <<c>>
           u == <<a, b, c>>
<1>1. /\ s \in Seq(S) /\ t \in Seq(S) /\ u \in Seq(S) /\ Len(s) = 2 /\ Len(t) = 1 /\ Len(u) = 3
      /\ s[1] = a /\ s[2] = b /\ t[1] = c /\ u[1] = a /\ u[2] = b /\ u[3] = c
  OBVIOUS
<1>4. Append(s, c) = s \o t
  BY <1>1, AppendIsConcat, Zenon
<1> HIDE DEF s, t, u
<1>2. /\ Len(u) = Len(s) + Len(t) /\ \A i \in 1..Len(s) : u[i] = s[i]
      /\ \A i \in 1..Len(t) : u[Len(s) + i] = t[i]
  BY <1>1
<1>3. s \o t = u
  BY <1>1, <1>2, Joined, Zenon
<1> QED BY <1>4, <1>3 DEF s, t, u

\* What is taken from a queue and added to what was heard is still told.
LEMMA YieldedIsTold ==
  ASSUME NEW S, NEW s \in Seq(S), NEW t \in Seq(S), t # <<>>
  PROVE  /\ Append(s, Head(t)) \in Seq(S) /\ Tail(t) \in Seq(S)
         /\ Append(s, Head(t)) \o Tail(t) = s \o t
<1>1. Append(s, Head(t)) = s \o <<Head(t)>> /\ Head(t) \in S /\ Tail(t) \in Seq(S)
  BY AppendIsConcat, HeadTailProperties
<1>2. <<Head(t)>> \o Tail(t) = t
  BY HeadTailProperties
<1>3. Append(s, Head(t)) \in Seq(S)
  BY <1>1, AppendProperties
<1>4. <<Head(t)>> \in Seq(S)
  BY <1>1
<1>5. (s \o <<Head(t)>>) \o Tail(t) = s \o (<<Head(t)>> \o Tail(t))
  BY <1>1, <1>4, ConcatAssociative
<1> QED BY <1>1, <1>2, <1>3, <1>5, Zenon

------------------------------------------------------------------------------
(* The chat session.                                                        *)

\* What only a switch of the model disturbs: the run model_switch refutes what
\* follows for two models.
OneModel == PromptClose /\ \A m, k \in ChatModel : m = k

InitLine == EventOf("init", 0)
DoneEvent == EventOf("done", 0)
Failed == EventOf("error", 0)
TextOf(n) == EventOf("text", n)
ResultOf(n) == EventOf("result", n)

\* What turn n has been told when it is over.
Failings(n) == {<<Failed, DoneEvent>>, <<TextOf(n), Failed, DoneEvent>>}
Tellings(n) == Failings(n) \cup {<<TextOf(n), DoneEvent>>}

\* What turn p was told, the events that still wait included.
ToldTo(p) == IF p = chat.n THEN heard[p] \o chat.queue ELSE heard[p]

\* The child spawned last.
Latest == kids[Len(kids)]
Open(k) == k.state # "closed"

Unasked(k) == k.prompts = <<>> /\ ~k.working /\ k.out = <<>>

\* How far a child is with the prompt of turn n, of which telling was told.
Lost(k, telling) == Unasked(k) /\ k.state \in {"dead", "exited"} /\ telling = <<>>
Asked(k, n, telling) == k.prompts = <<n>> /\ ~k.working /\ k.out = <<>> /\ telling = <<>>
Working(k, n, telling, id) ==
  /\ k.prompts = <<n>> /\ k.working /\ k.state # "born"
  /\ \/ k.out = <<InitLine, TextOf(n)>> /\ telling = <<>>
     \/ k.out = <<TextOf(n)>> /\ telling = <<>> /\ id
     \/ k.out = <<>> /\ telling = <<TextOf(n)>> /\ id
HasAnswered(k, n, telling, id) ==
  /\ k.prompts = <<>> /\ ~k.working /\ k.state # "born"
  /\ \/ k.out = <<InitLine, TextOf(n), ResultOf(n)>> /\ telling = <<>>
     \/ k.out = <<TextOf(n), ResultOf(n)>> /\ telling = <<>> /\ id
     \/ k.out = <<ResultOf(n)>> /\ telling = <<TextOf(n)>> /\ id

\* The turn in progress is the latest child's, which is all there is of it.
TurnOf(c, k, telling, written) ==
  IF c.active /\ ~c.done
  THEN /\ Open(k)
       /\ \/ Lost(k, telling) \/ Asked(k, c.n, telling) \/ Working(k, c.n, telling, c.id)
          \/ HasAnswered(k, c.n, telling, c.id) /\ c.n \in written
  ELSE /\ telling \in Tellings(c.n) /\ (Open(k) => Unasked(k))
       /\ telling \in Failings(c.n) => ~Open(k)
       /\ ~c.active => c.queue = <<>>

\* The children, one after another: only the latest may be open, and it is the
\* session's until it is killed.
OneChild ==
  /\ \A c \in DOMAIN kids : c # Len(kids) => ~Open(kids[c])
  /\ IF kids # <<>> /\ Open(Latest) /\ ~Latest.killed THEN chat.child = Len(kids)
                                                     ELSE chat.child = 0

\* What is written of the conversation is what a child recalls that can answer,
\* and what the next will be resumed with.
Recalled ==
  /\ kids # <<>> /\ Open(Latest) => transcript \subseteq Latest.recalls
  /\ ~chat.id /\ transcript # {} =>
       kids # <<>> /\ Open(Latest) /\ Latest.out = <<InitLine, TextOf(chat.n), ResultOf(chat.n)>>
  /\ \A p \in 1..chat.n : ToldTo(p) = <<TextOf(p), DoneEvent>> => p \in transcript

ChatInv ==
  /\ ChatTypeOK /\ OneChild /\ Recalled
  /\ chat.n = 0 => kids = <<>> /\ ~chat.active /\ transcript = {} /\ ~chat.id
  /\ chat.n > 0 => kids # <<>> /\ TurnOf(chat, Latest, ToldTo(chat.n), transcript)
  /\ \A p \in 1..Turns : IF p > chat.n THEN heard[p] = <<>>
                         ELSE p < chat.n => heard[p] \in Tellings(p)

ChatRec == [n : 0..Turns, active : BOOLEAN, done : BOOLEAN, queue : Seq(Event),
            child : 0..Children, id : BOOLEAN, model : ChatModel, disposed : BOOLEAN,
            down : BOOLEAN]

\* Events and lines are of the turns there are.
LEMMA EventsAreOfTurns ==
  ASSUME NEW n \in 1..Turns
  PROVE  /\ TextOf(n) \in Event /\ DoneEvent \in Event /\ Failed \in Event
         /\ InitLine \in Line /\ TextOf(n) \in Line /\ ResultOf(n) \in Line
         /\ TextOf(n).kind = "text" /\ TextOf(n).turn = n /\ InitLine.kind = "init"
         /\ ResultOf(n).kind = "result" /\ DoneEvent.kind = "done" /\ Failed.kind = "error"
BY ChatAssumption DEF TextOf, DoneEvent, Failed, InitLine, ResultOf, EventOf, Event, Line

\* What is told at the end of a turn, by the result or by the close event.
LEMMA EndIsTold ==
  ASSUME NEW n \in 1..Turns
  PROVE  /\ <<>> \o <<TextOf(n)>> = <<TextOf(n)>>
         /\ <<TextOf(n)>> \o <<DoneEvent>> = <<TextOf(n), DoneEvent>>
         /\ <<>> \o <<Failed, DoneEvent>> = <<Failed, DoneEvent>>
         /\ <<TextOf(n)>> \o <<Failed, DoneEvent>> = <<TextOf(n), Failed, DoneEvent>>
<1>1. TextOf(n) \in Event /\ DoneEvent \in Event /\ Failed \in Event
  BY EventsAreOfTurns
<1>2. <<TextOf(n)>> \in Seq(Event) /\ <<Failed, DoneEvent>> \in Seq(Event)
  BY <1>1
<1> QED BY <1>1, <1>2, ConcatEmptySeq, OneAndOne, OneAndTwo, Zenon

\* No failed turn is told what an answered one is.
LEMMA FailedIsNotAnswered ==
  ASSUME NEW n \in 1..Turns
  PROVE  /\ <<TextOf(n), DoneEvent>> \notin Failings(n)
         /\ \A t \in Tellings(n) : t # <<>> /\ t # <<TextOf(n)>>
<1>1. TextOf(n) # Failed /\ Failed # DoneEvent /\ TextOf(n) # DoneEvent
  BY EventsAreOfTurns
<1> QED BY <1>1 DEF Failings, Tellings

\* Of what turn n was told, more is told at the end.
LEMMA MoreIsTold ==
  ASSUME ChatInv, chat.n > 0, NEW more \in Seq(Event)
  PROVE  /\ heard[chat.n] \in Seq(Event) /\ ToldTo(chat.n) = heard[chat.n] \o chat.queue
         /\ heard[chat.n] \o (chat.queue \o more) = ToldTo(chat.n) \o more
<1>1. chat.n \in 1..Turns /\ heard[chat.n] \in Seq(Event) /\ chat.queue \in Seq(Event)
  BY ChatAssumption DEF ChatInv, ChatTypeOK
<1> DEFINE h == heard[chat.n]
           q == chat.queue
<1>2. h \in Seq(Event) /\ q \in Seq(Event)
  BY <1>1
<1> HIDE DEF h, q
<1>4. (h \o q) \o more = h \o (q \o more)
  BY <1>2, ConcatAssociative
<1>3. ToldTo(chat.n) = heard[chat.n] \o chat.queue
  BY DEF ToldTo
<1> QED BY <1>1, <1>3, <1>4, Zenon DEF h, q

\* A step of the turn in progress or of the latest child keeps the invariant
\* when the turn and the child still fit.
LEMMA TurnStep ==
  ASSUME ChatInv, chat.n > 0, NEW k \in Kid, NEW telling,
         kids' = [kids EXCEPT ![Len(kids)] = k],
         chat' \in ChatRec, chat'.n = chat.n,
         heard' \in [1..Turns -> Seq(Event)],
         \A p \in 1..Turns : p # chat.n => heard'[p] = heard[p],
         heard'[chat.n] \o chat'.queue = telling,
         transcript' \in SUBSET (1..Turns), transcript \subseteq transcript',
         deaths' \in 0..Deaths,
         TurnOf(chat', k, telling, transcript'),
         IF Open(k) /\ ~k.killed THEN chat'.child = Len(kids) ELSE chat'.child = 0,
         Open(k) => transcript' \subseteq k.recalls,
         ~chat'.id /\ transcript' # {} =>
           Open(k) /\ k.out = <<InitLine, TextOf(chat.n), ResultOf(chat.n)>>,
         telling = <<TextOf(chat.n), DoneEvent>> => chat.n \in transcript'
  PROVE  ChatInv'
<1>1. /\ kids \in Seq(Kid) /\ kids # <<>> /\ Len(kids) <= Children /\ Len(kids) \in Nat \ {0}
      /\ chat.n \in 1..Turns
  BY ChatAssumption, EmptySeq DEF ChatInv, ChatTypeOK
<1>2. /\ kids' \in Seq(Kid) /\ Len(kids') = Len(kids) /\ kids' # <<>>
      /\ \A c \in 1..Len(kids) : kids'[c] = IF c = Len(kids) THEN k ELSE kids[c]
      /\ DOMAIN kids = 1..Len(kids) /\ DOMAIN kids' = 1..Len(kids)
  <2>1. Len(kids) \in 1..Len(kids)
    BY <1>1
  <2>2. kids' \in Seq(Kid) /\ Len(kids') = Len(kids)
    BY <1>1, <2>1, ExceptSeq
  <2> QED BY <1>1, <2>1, <2>2, LenProperties, EmptySeq
<1>3. Latest' = k
  BY <1>1, <1>2 DEF Latest
<1>4. ChatTypeOK'
  BY <1>1, <1>2 DEF ChatTypeOK, ChatRec
<1>5. OneChild'
  BY <1>1, <1>2, <1>3 DEF OneChild, ChatInv
<1>6. /\ ToldTo(chat.n)' = telling
      /\ \A p \in 1..Turns : p # chat.n => ToldTo(p)' = heard[p] /\ ToldTo(p) = heard[p]
  BY DEF ToldTo
<1>7. Recalled'
  <2>1. \A p \in 1..chat.n : ToldTo(p)' = <<TextOf(p), DoneEvent>> => p \in transcript'
    <3> SUFFICES ASSUME NEW p \in 1..chat.n, ToldTo(p)' = <<TextOf(p), DoneEvent>>
                 PROVE  p \in transcript'
      OBVIOUS
    <3>1. CASE p = chat.n
      BY <1>6, <3>1
    <3>2. CASE p # chat.n
      <4>1. p \in 1..Turns
        BY <1>1, ChatAssumption
      <4>2. ToldTo(p) = ToldTo(p)'
        BY <1>6, <3>2, <4>1
      <4> QED BY <4>2 DEF ChatInv, Recalled
    <3> QED BY <3>1, <3>2
  <2> QED BY <1>2, <1>3, <2>1 DEF Recalled
<1>8. \A p \in 1..Turns : IF p > chat'.n THEN heard'[p] = <<>>
                          ELSE p < chat'.n => heard'[p] \in Tellings(p)
  BY <1>1 DEF ChatInv
<1>9. chat'.n > 0 /\ TurnOf(chat', Latest', ToldTo(chat.n)', transcript')
  BY <1>3, <1>6
<1> QED BY <1>2, <1>4, <1>5, <1>7, <1>8, <1>9 DEF ChatInv

\* A child that is open is the latest, and works for the turn in progress.
LEMMA OpenIsLatest ==
  ASSUME ChatInv, NEW c \in DOMAIN kids, Open(kids[c])
  PROVE  /\ c = Len(kids) /\ kids[c] = Latest /\ Latest \in Kid
         /\ chat.n \in 1..Turns /\ chat.n > 0 /\ kids # <<>>
         /\ transcript \subseteq Latest.recalls
<1>1. kids \in Seq(Kid) /\ kids # <<>> /\ DOMAIN kids = 1..Len(kids)
  BY EmptySeq, LenProperties DEF ChatInv, ChatTypeOK
<1>2. c = Len(kids)
  BY DEF ChatInv, OneChild
<1>3. chat.n \in 1..Turns /\ chat.n > 0
  BY <1>1, ChatAssumption DEF ChatInv, ChatTypeOK
<1>4. kids[c] \in Kid
  BY <1>1
<1> QED BY <1>1, <1>2, <1>3, <1>4 DEF Latest, ChatInv, Recalled

\* A child that has something to do or to say has it for the turn in progress.
LEMMA BusyIsInTurn ==
  ASSUME ChatInv, chat.n > 0, Open(Latest), ~Unasked(Latest)
  PROVE  /\ chat.active /\ ~chat.done
         /\ \/ Asked(Latest, chat.n, ToldTo(chat.n))
            \/ Working(Latest, chat.n, ToldTo(chat.n), chat.id)
            \/ HasAnswered(Latest, chat.n, ToldTo(chat.n), chat.id) /\ chat.n \in transcript
BY DEF ChatInv, TurnOf, Lost

\* A step of the latest child alone.
LEMMA ChildStep ==
  ASSUME ChatInv, NEW c \in DOMAIN kids, Open(kids[c]), NEW k \in Kid, Open(k),
         k.killed = Latest.killed, kids' = [kids EXCEPT ![c] = k], UNCHANGED <<chat, heard>>,
         transcript' \in SUBSET (1..Turns), transcript \subseteq transcript',
         deaths' \in 0..Deaths, TurnOf(chat, k, ToldTo(chat.n), transcript'),
         transcript' \subseteq k.recalls,
         ~chat.id /\ transcript' # {} => k.out = <<InitLine, TextOf(chat.n), ResultOf(chat.n)>>
  PROVE  ChatInv'
<1>1. c = Len(kids) /\ kids[c] = Latest /\ chat.n > 0 /\ chat.n \in 1..Turns /\ kids # <<>>
  BY OpenIsLatest
<1>2. /\ chat' \in ChatRec /\ chat' = chat /\ heard' \in [1..Turns -> Seq(Event)]
      /\ heard' = heard
  BY DEF ChatInv, ChatTypeOK, ChatRec
<1>3. heard'[chat.n] \o chat'.queue = ToldTo(chat.n)
  BY <1>2 DEF ToldTo
<1>4. IF Open(k) /\ ~k.killed THEN chat'.child = Len(kids) ELSE chat'.child = 0
  BY <1>1, <1>2 DEF ChatInv, OneChild
<1>5. ToldTo(chat.n) = <<TextOf(chat.n), DoneEvent>> => chat.n \in transcript'
  BY <1>1, ChatAssumption DEF ChatInv, Recalled
<1> QED BY <1>1, <1>2, <1>3, <1>4, <1>5, TurnStep

\* A child begins its prompt.
LEMMA WorksKeeps ==
  ASSUME ChatInv, NEW c \in DOMAIN kids, Works(c)
  PROVE  ChatInv'
<1> DEFINE n == Head(kids[c].prompts)
           k == [kids[c] EXCEPT !.state = "alive", !.working = TRUE,
                                !.out = @ \o <<EventOf("init", 0), EventOf("text", n)>>]
<1>1. /\ Open(kids[c]) /\ ~Unasked(kids[c]) /\ ~kids[c].working /\ kids[c].prompts # <<>>
      /\ kids' = [kids EXCEPT ![c] = k] /\ UNCHANGED <<chat, heard, transcript, deaths>>
  BY DEF Works, Running, Open, Unasked
<1>2. /\ c = Len(kids) /\ kids[c] = Latest /\ Latest \in Kid /\ chat.n \in 1..Turns /\ chat.n > 0
      /\ transcript \subseteq Latest.recalls /\ kids # <<>>
  BY <1>1, OpenIsLatest
<1>3. chat.active /\ ~chat.done /\ Asked(Latest, chat.n, ToldTo(chat.n))
  BY <1>1, <1>2, BusyIsInTurn DEF Working, HasAnswered
<1>4. n = chat.n /\ <<InitLine, TextOf(chat.n)>> \in Seq(Line)
  BY <1>2, <1>3, EventsAreOfTurns DEF Asked
<1>5. Latest.out \o <<InitLine, TextOf(chat.n)>> = <<InitLine, TextOf(chat.n)>>
  BY <1>3, <1>4, ConcatEmptySeq, Zenon DEF Asked
<1>6. /\ k \in Kid /\ k.state = "alive" /\ k.working /\ k.out = <<InitLine, TextOf(chat.n)>>
      /\ k.prompts = Latest.prompts /\ k.killed = Latest.killed /\ k.recalls = Latest.recalls
  BY <1>2, <1>4, <1>5 DEF Kid, Running, InitLine, TextOf
<1> HIDE DEF k, n
<1>7. Working(k, chat.n, ToldTo(chat.n), chat.id)
  BY <1>3, <1>6 DEF Working, Asked
<1>8. Open(k) /\ TurnOf(chat, k, ToldTo(chat.n), transcript)
  BY <1>3, <1>6, <1>7 DEF TurnOf, Open
<1>9. ~(~chat.id /\ transcript # {})
  BY <1>2, <1>3 DEF ChatInv, Recalled, Asked
<1>10. transcript' \in SUBSET (1..Turns) /\ deaths' \in 0..Deaths
  BY <1>1 DEF ChatInv, ChatTypeOK
<1> QED BY <1>1, <1>2, <1>6, <1>8, <1>9, <1>10, ChildStep

\* A child ends its prompt: what it answered is written.
LEMMA AnswersKeeps ==
  ASSUME ChatInv, NEW c \in DOMAIN kids, Answers(c)
  PROVE  ChatInv'
<1> DEFINE n == Head(kids[c].prompts)
           k == [kids[c] EXCEPT !.working = FALSE, !.prompts = Tail(@),
                                !.out = Append(@, EventOf("result", n)),
                                !.recalls = @ \cup {n}]
<1>1. /\ Open(kids[c]) /\ ~Unasked(kids[c]) /\ kids[c].working /\ kids[c].state = "alive"
      /\ kids' = [kids EXCEPT ![c] = k] /\ transcript' = transcript \cup {n}
      /\ UNCHANGED <<chat, heard, deaths>>
  BY DEF Answers, Open, Unasked
<1>2. /\ c = Len(kids) /\ kids[c] = Latest /\ Latest \in Kid /\ chat.n \in 1..Turns /\ chat.n > 0
      /\ transcript \subseteq Latest.recalls /\ kids # <<>>
  BY <1>1, OpenIsLatest
<1>3. chat.active /\ ~chat.done /\ Working(Latest, chat.n, ToldTo(chat.n), chat.id)
  BY <1>1, <1>2, BusyIsInTurn DEF Asked, HasAnswered
<1>4. n = chat.n /\ Tail(Latest.prompts) = <<>>
  BY <1>2, <1>3 DEF Working
<1>5. InitLine \in Line /\ TextOf(chat.n) \in Line /\ ResultOf(chat.n) \in Line
  BY <1>2, EventsAreOfTurns
<1>6. /\ Append(<<InitLine, TextOf(chat.n)>>, ResultOf(chat.n))
           = <<InitLine, TextOf(chat.n), ResultOf(chat.n)>>
      /\ Append(<<TextOf(chat.n)>>, ResultOf(chat.n)) = <<TextOf(chat.n), ResultOf(chat.n)>>
      /\ Append(<<>>, ResultOf(chat.n)) = <<ResultOf(chat.n)>>
  <2>1. Append(<<>>, ResultOf(chat.n)) = <<ResultOf(chat.n)>>
    OBVIOUS
  <2> QED BY <1>5, <2>1, OneMore, TwoAndOne, Zenon
<1>7. /\ k \in Kid /\ k.state = "alive" /\ ~k.working /\ k.prompts = <<>>
      /\ k.out = Append(Latest.out, ResultOf(chat.n))
      /\ k.killed = Latest.killed /\ k.recalls = Latest.recalls \cup {chat.n}
  <2> DEFINE out == Append(Latest.out, ResultOf(chat.n))
             recalls == Latest.recalls \cup {chat.n}
             none == <<>>
  <2>1. /\ k = [Latest EXCEPT !.working = FALSE, !.prompts = none, !.out = out,
                              !.recalls = recalls]
        /\ Latest.state = "alive"
    BY <1>1, <1>2, <1>4 DEF ResultOf
  <2>2. out \in Seq(Line) /\ recalls \in SUBSET (1..Turns) /\ none \in Seq(1..Turns)
    BY <1>2, <1>5 DEF Kid
  <2> HIDE DEF k, out, recalls, none
  <2>3. /\ k \in Kid /\ k.state = "alive" /\ ~k.working /\ k.prompts = none
        /\ k.out = out /\ k.killed = Latest.killed /\ k.recalls = recalls
    BY <1>2, <2>1, <2>2 DEF Kid, Running
  <2> QED BY <2>3 DEF out, recalls, none
<1> HIDE DEF k, n
<1>8. HasAnswered(k, chat.n, ToldTo(chat.n), chat.id)
  BY <1>3, <1>6, <1>7 DEF Working, HasAnswered
<1>9. chat.n \in transcript'
  BY <1>1, <1>4
<1>10. Open(k) /\ TurnOf(chat, k, ToldTo(chat.n), transcript')
  BY <1>3, <1>7, <1>8, <1>9 DEF TurnOf, Open
<1>11. ~chat.id => k.out = <<InitLine, TextOf(chat.n), ResultOf(chat.n)>>
  BY <1>8 DEF HasAnswered
<1>12. transcript' \in SUBSET (1..Turns) /\ deaths' \in 0..Deaths /\ transcript' \subseteq k.recalls
  BY <1>1, <1>2, <1>4, <1>7 DEF ChatInv, ChatTypeOK
<1> QED BY <1>1, <1>2, <1>7, <1>10, <1>11, <1>12, ChildStep

\* A child that dies, or whose exit is seen, says what it has said.
LEMMA DeathKeeps ==
  ASSUME ChatInv, NEW c \in DOMAIN kids, Dies(c) \/ ExitSeen(c)
  PROVE  ChatInv'
<1>1. PICK state \in {"dead", "exited"} :
        /\ Open(kids[c]) /\ kids' = [kids EXCEPT ![c].state = state]
        /\ kids[c].state \in Running \cup {"dead"}
        /\ deaths' \in 0..Deaths
        /\ UNCHANGED <<chat, heard, transcript>>
  BY ChatAssumption DEF Dies, ExitSeen, Running, Open, ChatInv, ChatTypeOK
<1> DEFINE k == [kids[c] EXCEPT !.state = state]
<1>2. /\ c = Len(kids) /\ kids[c] = Latest /\ Latest \in Kid /\ chat.n \in 1..Turns /\ chat.n > 0
      /\ transcript \subseteq Latest.recalls /\ kids # <<>>
  BY <1>1, OpenIsLatest
<1>3. /\ k \in Kid /\ k.state = state /\ k.working = Latest.working /\ k.prompts = Latest.prompts
      /\ k.out = Latest.out /\ k.killed = Latest.killed /\ k.recalls = Latest.recalls
      /\ kids' = [kids EXCEPT ![c] = k]
  BY <1>1, <1>2 DEF Kid
<1> HIDE DEF k
<1>4. Open(k)
  BY <1>3 DEF Open
<1>5. TurnOf(chat, k, ToldTo(chat.n), transcript)
  <2>1. TurnOf(chat, Latest, ToldTo(chat.n), transcript)
    BY <1>2 DEF ChatInv
  <2> QED BY <1>1, <1>2, <1>3, <1>4, <2>1
          DEF TurnOf, Open, Unasked, Lost, Asked, Working, HasAnswered
<1>6. ~chat.id /\ transcript # {} => k.out = <<InitLine, TextOf(chat.n), ResultOf(chat.n)>>
  BY <1>3 DEF ChatInv, Recalled
<1>7. transcript' \in SUBSET (1..Turns) /\ deaths' \in 0..Deaths
  BY <1>1, ChatAssumption DEF ChatInv, ChatTypeOK
<1> QED BY <1>1, <1>2, <1>3, <1>4, <1>5, <1>6, <1>7, ChildStep

\* What a session knows and holds, in one record.
LEMMA ChatIsRec ==
  ASSUME ChatInv
  PROVE  /\ chat \in ChatRec /\ heard \in [1..Turns -> Seq(Event)]
         /\ transcript \in SUBSET (1..Turns) /\ deaths \in 0..Deaths /\ kids \in Seq(Kid)
BY DEF ChatInv, ChatTypeOK, ChatRec

\* A child says that it began, its text and its result, in this order.
LEMMA SaidInOrder ==
  ASSUME NEW n, NEW k, NEW telling, NEW id, k.out # <<>>,
         Working(k, n, telling, id) \/ HasAnswered(k, n, telling, id)
  PROVE  \/ /\ Head(k.out) = InitLine /\ telling = <<>>
            /\ Tail(k.out) = IF k.working THEN <<TextOf(n)>> ELSE <<TextOf(n), ResultOf(n)>>
         \/ /\ Head(k.out) = TextOf(n) /\ telling = <<>> /\ id
            /\ Tail(k.out) = IF k.working THEN <<>> ELSE <<ResultOf(n)>>
         \/ /\ Head(k.out) = ResultOf(n) /\ telling = <<TextOf(n)>> /\ id
            /\ ~k.working /\ Tail(k.out) = <<>>
<1> HIDE DEF InitLine, TextOf, ResultOf
<1>1. \A a, b, c : /\ Head(<<a, b, c>>) = a /\ Tail(<<a, b, c>>) = <<b, c>>
                   /\ Head(<<a, b>>) = a /\ Tail(<<a, b>>) = <<b>>
                   /\ Head(<<a>>) = a /\ Tail(<<a>>) = <<>>
  OBVIOUS
<1>2. CASE k.working
  <2>1. CASE k.out = <<InitLine, TextOf(n)>> /\ telling = <<>>
    BY <1>1, <1>2, <2>1, Zenon
  <2>2. CASE k.out = <<TextOf(n)>> /\ telling = <<>> /\ id
    BY <1>1, <1>2, <2>2, Zenon
  <2> QED BY <1>2, <2>1, <2>2, Zenon DEF Working, HasAnswered
<1>3. CASE ~k.working
  <2>1. CASE k.out = <<InitLine, TextOf(n), ResultOf(n)>> /\ telling = <<>>
    BY <1>1, <1>3, <2>1
  <2>2. CASE k.out = <<TextOf(n), ResultOf(n)>> /\ telling = <<>> /\ id
    BY <1>1, <1>3, <2>2, Zenon
  <2>3. CASE k.out = <<ResultOf(n)>> /\ telling = <<TextOf(n)>> /\ id
    BY <1>1, <1>3, <2>3, Zenon
  <2> QED BY <1>3, <2>1, <2>2, <2>3, Zenon DEF Working, HasAnswered
<1> QED BY <1>2, <1>3

\* A line of a child, as the turn in progress hears it (onLine).
LEMMA ReadKeeps ==
  ASSUME ChatInv, NEW c \in DOMAIN kids, ReadsLine(c)
  PROVE  ChatInv'
<1> DEFINE n == chat.n
           line == Head(kids[c].out)
           k == [kids[c] EXCEPT !.out = Tail(@)]
<1>1. /\ Open(kids[c]) /\ ~Unasked(kids[c]) /\ kids[c].out # <<>>
      /\ chat' = OnLine(chat, line) /\ kids' = [kids EXCEPT ![c] = k]
      /\ UNCHANGED <<heard, transcript, deaths>>
  BY DEF ReadsLine, Open, Unasked
<1>2. /\ c = Len(kids) /\ kids[c] = Latest /\ Latest \in Kid /\ n \in 1..Turns /\ n > 0
      /\ transcript \subseteq Latest.recalls /\ kids # <<>>
  BY <1>1, OpenIsLatest
<1>3. /\ chat.active /\ ~chat.done
      /\ \/ Working(Latest, n, ToldTo(n), chat.id)
         \/ HasAnswered(Latest, n, ToldTo(n), chat.id) /\ n \in transcript
  BY <1>1, <1>2, BusyIsInTurn DEF Asked
<1>4. chat \in ChatRec /\ chat.queue \in Seq(Event)
  BY ChatIsRec DEF ChatRec
<1>5. /\ <<TextOf(n)>> \in Seq(Event) /\ <<DoneEvent>> \in Seq(Event)
      /\ InitLine.kind = "init" /\ TextOf(n).kind = "text" /\ ResultOf(n).kind = "result"
  BY <1>2, EventsAreOfTurns
<1>6. /\ k \in Kid /\ k.out = Tail(Latest.out) /\ k.state = Latest.state
      /\ k.working = Latest.working /\ k.prompts = Latest.prompts
      /\ k.killed = Latest.killed /\ k.recalls = Latest.recalls
  <2>1. Tail(Latest.out) \in Seq(Line)
    BY <1>1, <1>2, HeadTailProperties DEF Kid
  <2> QED BY <1>2, <2>1 DEF Kid
<1>7. Open(k)
  BY <1>1, <1>2, <1>6 DEF Open
<1> HIDE DEF k
<1>12. \/ /\ line = InitLine /\ ToldTo(n) = <<>>
          /\ k.out = IF k.working THEN <<TextOf(n)>> ELSE <<TextOf(n), ResultOf(n)>>
       \/ /\ line = TextOf(n) /\ ToldTo(n) = <<>> /\ chat.id
          /\ k.out = IF k.working THEN <<>> ELSE <<ResultOf(n)>>
       \/ /\ line = ResultOf(n) /\ ToldTo(n) = <<TextOf(n)>> /\ chat.id
          /\ ~k.working /\ k.out = <<>>
  <2>1. Latest.out # <<>> /\ line = Head(Latest.out)
    BY <1>1, <1>2
  <2>2. Working(Latest, n, ToldTo(n), chat.id) \/ HasAnswered(Latest, n, ToldTo(n), chat.id)
    BY <1>3
  <2> HIDE DEF line, n
  <2> QED BY <1>6, <2>1, <2>2, SaidInOrder, Zenon
<1>13. /\ k.state # "born" /\ InitLine # TextOf(n) /\ InitLine # ResultOf(n)
       /\ TextOf(n) # ResultOf(n)
       /\ IF k.working THEN k.prompts = <<n>> ELSE k.prompts = <<>> /\ n \in transcript
  <2>1. InitLine # TextOf(n) /\ InitLine # ResultOf(n) /\ TextOf(n) # ResultOf(n)
    BY <1>5
  <2> QED BY <1>3, <1>6, <2>1 DEF Working, HasAnswered
<1> HIDE DEF line
<1>8. CASE line = InitLine
  <2>1. chat' = [chat EXCEPT !.id = TRUE]
    BY <1>1, <1>5, <1>8 DEF OnLine
  <2>2. /\ chat' \in ChatRec /\ chat'.n = n /\ chat'.queue = chat.queue /\ chat'.id
        /\ chat'.active = chat.active /\ chat'.done = chat.done /\ chat'.child = chat.child
    BY <1>4, <2>1 DEF ChatRec
  <2>3. \/ /\ Working(k, n, ToldTo(n), TRUE) /\ ToldTo(n) = <<>>
        \/ /\ HasAnswered(k, n, ToldTo(n), TRUE) /\ n \in transcript /\ ToldTo(n) = <<>>
    BY <1>6, <1>8, <1>12, <1>13 DEF Working, HasAnswered
  <2>4. TurnOf(chat', k, ToldTo(n), transcript)
    BY <1>3, <1>7, <2>2, <2>3 DEF TurnOf
  <2>5. heard'[n] \o chat'.queue = ToldTo(n)
    BY <1>1, <2>2 DEF ToldTo
  <2>6. IF Open(k) /\ ~k.killed THEN chat'.child = Len(kids) ELSE chat'.child = 0
    BY <1>1, <1>2, <1>6, <1>7, <2>2 DEF ChatInv, OneChild
  <2>7. ToldTo(n) # <<TextOf(n), DoneEvent>>
    <3> <<TextOf(n), DoneEvent>> # <<>>
      OBVIOUS
    <3> QED BY <2>3
  <2> QED BY <1>1, <1>2, <1>6, <1>7, <2>2, <2>4, <2>5, <2>6, <2>7, ChatIsRec, TurnStep
<1>9. CASE line = TextOf(n)
  <2>1. chat' = [chat EXCEPT !.queue = @ \o <<TextOf(n)>>]
    BY <1>1, <1>3, <1>5, <1>9 DEF OnLine, Pushed
  <2>2. chat.queue \o <<TextOf(n)>> \in Seq(Event)
    BY <1>4, <1>5, ConcatProperties
  <2>3. /\ chat' \in ChatRec /\ chat'.n = n /\ chat'.queue = chat.queue \o <<TextOf(n)>>
        /\ chat'.active = chat.active /\ chat'.done = chat.done /\ chat'.child = chat.child
        /\ chat'.id = chat.id
    BY <1>4, <2>1, <2>2 DEF ChatRec
  <2>4. \/ /\ Working(k, n, <<TextOf(n)>>, chat.id) /\ ToldTo(n) = <<>> /\ chat.id
        \/ /\ HasAnswered(k, n, <<TextOf(n)>>, chat.id) /\ n \in transcript /\ ToldTo(n) = <<>>
           /\ chat.id
    BY <1>6, <1>9, <1>12, <1>13 DEF Working, HasAnswered
  <2>5. heard'[n] \o chat'.queue = <<TextOf(n)>>
    <3>1. heard'[n] \o chat'.queue = ToldTo(n) \o <<TextOf(n)>>
      BY <1>1, <1>2, <1>5, <2>3, MoreIsTold
    <3> QED BY <1>2, <2>4, <3>1, EndIsTold
  <2>6. TurnOf(chat', k, <<TextOf(n)>>, transcript)
    BY <1>3, <1>7, <2>3, <2>4 DEF TurnOf
  <2>7. IF Open(k) /\ ~k.killed THEN chat'.child = Len(kids) ELSE chat'.child = 0
    BY <1>1, <1>2, <1>6, <1>7, <2>3 DEF ChatInv, OneChild
  <2>8. <<TextOf(n)>> # <<TextOf(n), DoneEvent>>
    OBVIOUS
  <2> QED BY <1>1, <1>2, <1>6, <1>7, <2>3, <2>4, <2>5, <2>6, <2>7, <2>8, ChatIsRec, TurnStep
<1>10. CASE line = ResultOf(n)
  <2>1. chat' = [chat EXCEPT !.queue = @ \o <<DoneEvent>>, !.done = TRUE]
    BY <1>1, <1>3, <1>4, <1>5, <1>10 DEF OnLine, Pushed, DoneEvent, ChatRec
  <2>2. chat.queue \o <<DoneEvent>> \in Seq(Event)
    BY <1>4, <1>5, ConcatProperties
  <2>3. /\ chat' \in ChatRec /\ chat'.n = n /\ chat'.queue = chat.queue \o <<DoneEvent>>
        /\ chat'.active = chat.active /\ chat'.done /\ chat'.child = chat.child
        /\ chat'.id = chat.id
    BY <1>4, <2>1, <2>2 DEF ChatRec
  <2>4. /\ Unasked(k) /\ n \in transcript /\ ToldTo(n) = <<TextOf(n)>> /\ chat.id
    BY <1>6, <1>10, <1>12, <1>13 DEF Working, HasAnswered, Unasked
  <2>5. heard'[n] \o chat'.queue = <<TextOf(n), DoneEvent>>
    <3>1. heard'[n] \o chat'.queue = ToldTo(n) \o <<DoneEvent>>
      BY <1>1, <1>2, <1>5, <2>3, MoreIsTold
    <3> QED BY <1>2, <2>4, <3>1, EndIsTold
  <2>6. TurnOf(chat', k, <<TextOf(n), DoneEvent>>, transcript)
    BY <1>2, <1>3, <1>7, <2>3, <2>4, FailedIsNotAnswered DEF TurnOf, Tellings
  <2>7. IF Open(k) /\ ~k.killed THEN chat'.child = Len(kids) ELSE chat'.child = 0
    BY <1>1, <1>2, <1>6, <1>7, <2>3 DEF ChatInv, OneChild
  <2> QED BY <1>1, <1>2, <1>6, <1>7, <2>3, <2>4, <2>5, <2>6, <2>7, ChatIsRec, TurnStep
<1> QED BY <1>8, <1>9, <1>10, <1>12

\* A child that is gone ends the turn that was its, and only that (the close
\* and the error event).
LEMMA CloseKeeps ==
  ASSUME ChatInv, NEW c \in DOMAIN kids, Closes(c) \/ SpawnFails(c)
  PROVE  ChatInv'
<1> DEFINE n == chat.n
           k == [kids[c] EXCEPT !.state = "closed"]
           s == IF chat.child = c THEN [chat EXCEPT !.child = 0] ELSE chat
<1>1. /\ Open(kids[c])
      /\ kids' = [kids EXCEPT ![c] = k] /\ chat' = EndedByClose(s)
      /\ (kids[c].state = "exited" /\ kids[c].out = <<>>) \/ kids[c].state = "born"
      /\ deaths' \in 0..Deaths /\ UNCHANGED <<heard, transcript>>
  BY ChatAssumption DEF Closes, SpawnFails, Open, ChatInv, ChatTypeOK
<1>2. /\ c = Len(kids) /\ kids[c] = Latest /\ Latest \in Kid /\ n \in 1..Turns /\ n > 0
      /\ kids # <<>> /\ c \in Nat \ {0}
  BY <1>1, OpenIsLatest, LenProperties, ChatIsRec
<1>3. /\ chat \in ChatRec /\ chat.queue \in Seq(Event) /\ heard \in [1..Turns -> Seq(Event)]
      /\ transcript \in SUBSET (1..Turns)
  BY ChatIsRec DEF ChatRec
<1>4. /\ s \in ChatRec /\ s.child = 0 /\ s.n = n /\ s.queue = chat.queue /\ s.id = chat.id
      /\ s.active = chat.active /\ s.done = chat.done
  <2>1. chat.child = c \/ chat.child = 0
    BY <1>2 DEF ChatInv, OneChild
  <2>2. 0 \in 0..Children
    BY ChatAssumption
  <2> QED BY <1>3, <2>1, <2>2 DEF ChatRec
<1>5. k \in Kid /\ ~Open(k) /\ k.out = Latest.out
  BY <1>2 DEF Kid, Open
<1>6. TurnOf(chat, Latest, ToldTo(n), transcript)
  BY <1>2 DEF ChatInv
<1>7. Latest.out = <<>> \/ Unasked(Latest)
  BY <1>1, <1>2, <1>6 DEF TurnOf, Lost, Asked, Working, HasAnswered, Unasked
<1>8. Latest.out = <<>>
  BY <1>7 DEF Unasked
<1>9. chat.id \/ transcript = {}
  <2>1. <<>> # <<InitLine, TextOf(n), ResultOf(n)>>
    OBVIOUS
  <2> QED BY <1>8, <2>1 DEF ChatInv, Recalled
<1>10. /\ <<Failed, DoneEvent>> \in Seq(Event)
       /\ <<TextOf(n), DoneEvent>> \notin Failings(n)
  BY <1>2, EventsAreOfTurns, FailedIsNotAnswered
<1> HIDE DEF k, s
<1>11. CASE chat.active /\ ~chat.done
  <2>1. chat' = [s EXCEPT !.queue = @ \o <<Failed, DoneEvent>>, !.done = TRUE]
    BY <1>1, <1>3, <1>4, <1>11 DEF EndedByClose, Pushed, Failed, DoneEvent, ChatRec
  <2>2. chat.queue \o <<Failed, DoneEvent>> \in Seq(Event)
    BY <1>3, <1>10, ConcatProperties
  <2>3. /\ chat' \in ChatRec /\ chat'.n = n /\ chat'.queue = chat.queue \o <<Failed, DoneEvent>>
        /\ chat'.active /\ chat'.done /\ chat'.child = 0 /\ chat'.id = chat.id
    BY <1>4, <1>11, <2>1, <2>2 DEF ChatRec
  <2>4. heard'[n] \o chat'.queue = ToldTo(n) \o <<Failed, DoneEvent>>
    BY <1>1, <1>2, <1>10, <2>3, MoreIsTold
  <2>5. ToldTo(n) = <<>> \/ ToldTo(n) = <<TextOf(n)>>
    BY <1>6, <1>11 DEF TurnOf, Lost, Asked, Working, HasAnswered
  <2>6. ToldTo(n) \o <<Failed, DoneEvent>> \in Failings(n)
    BY <1>2, <2>5, EndIsTold DEF Failings
  <2>7. TurnOf(chat', k, ToldTo(n) \o <<Failed, DoneEvent>>, transcript)
    BY <1>5, <2>3, <2>6 DEF TurnOf, Tellings
  <2>8. ToldTo(n) \o <<Failed, DoneEvent>> # <<TextOf(n), DoneEvent>>
    BY <1>10, <2>6
  <2> HIDE DEF n
  <2> QED BY <1>1, <1>2, <1>3, <1>5, <1>9, <2>3, <2>4, <2>7, <2>8, TurnStep DEF n
<1>12. CASE ~(chat.active /\ ~chat.done)
  <2>1. chat' = s
    BY <1>1, <1>4, <1>12 DEF EndedByClose
  <2>2. heard'[n] \o chat'.queue = ToldTo(n)
    BY <1>1, <1>4, <2>1 DEF ToldTo
  <2>3. TurnOf(chat', k, ToldTo(n), transcript)
    BY <1>4, <1>5, <1>6, <1>12, <2>1 DEF TurnOf
  <2>4. ToldTo(n) = <<TextOf(n), DoneEvent>> => n \in transcript
    BY <1>2, ChatAssumption DEF ChatInv, Recalled
  <2> HIDE DEF n
  <2> QED BY <1>1, <1>2, <1>3, <1>4, <1>5, <1>9, <2>1, <2>2, <2>3, <2>4, TurnStep DEF n
<1> QED BY <1>11, <1>12

\* The panel takes the next event of its turn, or its turn is over.
LEMMA PanelKeeps ==
  ASSUME ChatInv, Yields \/ TurnReturns
  PROVE  ChatInv'
<1> DEFINE n == chat.n
<1>1. /\ chat.active /\ UNCHANGED <<kids, transcript, deaths>>
  BY DEF Yields, TurnReturns
<1>2. /\ chat \in ChatRec /\ chat.queue \in Seq(Event) /\ heard \in [1..Turns -> Seq(Event)]
      /\ transcript \in SUBSET (1..Turns) /\ deaths \in 0..Deaths /\ kids \in Seq(Kid)
  BY ChatIsRec DEF ChatRec
<1>3. n > 0 /\ n \in 1..Turns /\ kids # <<>> /\ Len(kids) \in DOMAIN kids /\ Latest \in Kid
  <2>1. n > 0 /\ n \in 1..Turns /\ kids # <<>>
    BY <1>1, <1>2, ChatAssumption DEF ChatInv, ChatRec
  <2>2. Len(kids) \in 1..Len(kids) /\ DOMAIN kids = 1..Len(kids)
    BY <1>2, <2>1, EmptySeq, LenProperties
  <2> QED BY <1>2, <2>1, <2>2 DEF Latest
<1>4. kids' = [kids EXCEPT ![Len(kids)] = Latest]
  BY <1>1, <1>2, <1>3 DEF Latest
<1>5. TurnOf(chat, Latest, ToldTo(n), transcript)
  BY <1>3 DEF ChatInv
<1>6. heard[n] \in Seq(Event) /\ ToldTo(n) = heard[n] \o chat.queue
  BY <1>2, <1>3 DEF ToldTo
<1>7. /\ IF Open(Latest) /\ ~Latest.killed THEN chat.child = Len(kids) ELSE chat.child = 0
      /\ Open(Latest) => transcript \subseteq Latest.recalls
      /\ ~chat.id /\ transcript # {} =>
           Open(Latest) /\ Latest.out = <<InitLine, TextOf(n), ResultOf(n)>>
      /\ ToldTo(n) = <<TextOf(n), DoneEvent>> => n \in transcript
  BY <1>3, ChatAssumption DEF ChatInv, OneChild, Recalled
<1>8. /\ chat' \in ChatRec /\ chat'.n = n /\ heard' \in [1..Turns -> Seq(Event)]
      /\ \A p \in 1..Turns : p # n => heard'[p] = heard[p]
      /\ heard'[n] \o chat'.queue = ToldTo(n)
      /\ chat'.id = chat.id /\ chat'.child = chat.child
      /\ TurnOf(chat', Latest, ToldTo(n), transcript)
  <2>1. CASE Yields
    <3>1. /\ chat.queue # <<>> /\ heard' = [heard EXCEPT ![n] = Append(@, Head(chat.queue))]
          /\ chat' = [chat EXCEPT !.queue = Tail(@)]
      BY <2>1 DEF Yields
    <3>2. /\ Append(heard[n], Head(chat.queue)) \in Seq(Event) /\ Tail(chat.queue) \in Seq(Event)
          /\ Append(heard[n], Head(chat.queue)) \o Tail(chat.queue) = heard[n] \o chat.queue
      BY <1>2, <1>6, <3>1, YieldedIsTold
    <3>3. /\ chat' \in ChatRec /\ chat'.n = n /\ chat'.queue = Tail(chat.queue)
          /\ chat'.id = chat.id /\ chat'.child = chat.child /\ chat'.active = chat.active
          /\ chat'.done = chat.done
      BY <1>2, <3>1, <3>2 DEF ChatRec
    <3>4. /\ heard' \in [1..Turns -> Seq(Event)]
          /\ heard'[n] = Append(heard[n], Head(chat.queue))
          /\ \A p \in 1..Turns : p # n => heard'[p] = heard[p]
      BY <1>2, <1>3, <3>1, <3>2
    <3>5. TurnOf(chat', Latest, ToldTo(n), transcript)
      BY <1>1, <1>5, <3>3 DEF TurnOf
    <3> QED BY <1>6, <3>2, <3>3, <3>4, <3>5
  <2>2. CASE TurnReturns
    <3>1. /\ chat.done /\ chat.queue = <<>> /\ chat' = [chat EXCEPT !.active = FALSE]
          /\ heard' = heard
      BY <2>2 DEF TurnReturns
    <3>2. /\ chat' \in ChatRec /\ chat'.n = n /\ chat'.queue = chat.queue
          /\ chat'.id = chat.id /\ chat'.child = chat.child /\ ~chat'.active
      BY <1>2, <3>1 DEF ChatRec
    <3>3. TurnOf(chat', Latest, ToldTo(n), transcript)
      BY <1>5, <3>1, <3>2 DEF TurnOf
    <3> QED BY <1>2, <1>6, <3>1, <3>2, <3>3
  <2> QED BY <2>1, <2>2
<1> HIDE DEF n
<1> QED BY <1>1, <1>2, <1>3, <1>4, <1>7, <1>8, TurnStep DEF n

\* The idle timer kills a child that is quiet; a socket that closes kills the
\* child it has, and what that child still says is still of its turn.
LEMMA KillKeeps ==
  ASSUME ChatInv, Reaps \/ Disposes
  PROVE  ChatInv'
<1> DEFINE n == chat.n
           k == [Latest EXCEPT !.killed = TRUE]
<1>1. /\ chat \in ChatRec /\ chat.queue \in Seq(Event) /\ heard \in [1..Turns -> Seq(Event)]
      /\ transcript \in SUBSET (1..Turns) /\ deaths \in 0..Deaths /\ kids \in Seq(Kid)
  BY ChatIsRec DEF ChatRec
<1>2. /\ kids' = Killed(kids, chat.child) /\ UNCHANGED <<heard, transcript, deaths>>
      /\ \/ chat' = [chat EXCEPT !.child = 0]
         \/ chat' = [chat EXCEPT !.disposed = TRUE, !.child = 0]
  BY DEF Reaps, Disposes
<1>3. /\ chat' \in ChatRec /\ chat'.n = n /\ chat'.queue = chat.queue /\ chat'.child = 0
      /\ chat'.active = chat.active /\ chat'.done = chat.done /\ chat'.id = chat.id
  <2>1. 0 \in 0..Children
    BY ChatAssumption
  <2>2. CASE chat' = [chat EXCEPT !.child = 0]
    BY <1>1, <2>1, <2>2 DEF ChatRec
  <2>3. CASE chat' = [chat EXCEPT !.disposed = TRUE, !.child = 0]
    BY <1>1, <2>1, <2>3 DEF ChatRec
  <2> QED BY <1>2, <2>2, <2>3
<1>4. CASE chat.child # 0
  <2>1. kids # <<>> /\ Open(Latest) /\ chat.child = Len(kids)
    BY <1>4 DEF ChatInv, OneChild
  <2>2. Len(kids) \in DOMAIN kids /\ kids[Len(kids)] = Latest
    BY <1>1, <2>1, EmptySeq, LenProperties DEF Latest
  <2>3. Latest \in Kid /\ n \in 1..Turns /\ n > 0 /\ transcript \subseteq Latest.recalls
    BY <2>1, <2>2, OpenIsLatest
  <2>4. /\ k \in Kid /\ k.killed /\ k.state = Latest.state /\ k.working = Latest.working
        /\ k.prompts = Latest.prompts /\ k.out = Latest.out /\ k.recalls = Latest.recalls
    BY <2>3 DEF Kid
  <2>5. kids' = [kids EXCEPT ![Len(kids)] = k]
    BY <1>1, <1>2, <1>4, <2>1, <2>2 DEF Killed
  <2> HIDE DEF k
  <2>6. TurnOf(chat, Latest, ToldTo(n), transcript)
    BY <2>3 DEF ChatInv
  <2>7. Open(k) /\ TurnOf(chat', k, ToldTo(n), transcript)
    BY <1>3, <2>1, <2>4, <2>6 DEF TurnOf, Open, Unasked, Lost, Asked, Working, HasAnswered
  <2>8. heard'[n] \o chat'.queue = ToldTo(n)
    BY <1>2, <1>3 DEF ToldTo
  <2>9. /\ ~chat'.id /\ transcript # {} => k.out = <<InitLine, TextOf(n), ResultOf(n)>>
        /\ ToldTo(n) = <<TextOf(n), DoneEvent>> => n \in transcript
    BY <1>3, <2>3, <2>4, ChatAssumption DEF ChatInv, Recalled
  <2> HIDE DEF n
  <2> QED BY <1>1, <1>2, <1>3, <2>3, <2>4, <2>5, <2>7, <2>8, <2>9, TurnStep DEF n
<1>5. CASE chat.child = 0
  <2>1. kids' = kids
    BY <1>2, <1>5 DEF Killed
  <2>2. \A p \in 1..Turns : ToldTo(p)' = ToldTo(p)
    BY <1>2, <1>3 DEF ToldTo
  <2>3. TurnOf(chat, Latest, ToldTo(n), transcript) <=> TurnOf(chat', Latest, ToldTo(n), transcript)
    BY <1>3 DEF TurnOf
  <2>4. n > 0 => n \in 1..Turns
    BY <1>1, ChatAssumption DEF ChatRec
  <2>5. Latest' = Latest
    BY <2>1 DEF Latest
  <2>6. ChatTypeOK' /\ OneChild'
    BY <1>2, <1>3, <1>5, <2>1, <2>5 DEF ChatInv, ChatTypeOK, ChatRec, OneChild
  <2>7. Recalled'
    <3>1. \A p \in 1..n : p \in 1..Turns
      BY <1>1, ChatAssumption DEF ChatRec
    <3> QED BY <1>2, <1>3, <2>1, <2>2, <2>5, <3>1 DEF ChatInv, Recalled
  <2>8. n > 0 => ToldTo(chat.n)' = ToldTo(n)
    BY <1>2, <1>3 DEF ToldTo
  <2> HIDE DEF n
  <2>9. n > 0 => kids' # <<>> /\ TurnOf(chat', Latest', ToldTo(chat.n)', transcript')
    BY <1>2, <2>1, <2>3, <2>5, <2>8 DEF ChatInv, n
  <2> QED BY <1>2, <1>3, <2>1, <2>6, <2>7, <2>9 DEF ChatInv, n
<1> QED BY <1>4, <1>5

\* A turn that is sent is the next, of which nothing was told, and the child it
\* is sent to knows what is written.
LEMMA SentKeeps ==
  ASSUME ChatInv, NEW m \in ChatModel, NEW breaks \in BOOLEAN, ~chat.active, chat.n < Turns,
         kids' \in Seq(Kid), kids' # <<>>, Len(kids') <= Children,
         \A c \in DOMAIN kids' : c # Len(kids') => ~Open(kids'[c]),
         Open(Latest'), ~Latest'.killed, transcript \subseteq Latest'.recalls,
         Lost(Latest', <<>>) \/ Asked(Latest', chat.n + 1, <<>>),
         chat.id \/ transcript = {},
         chat' = [chat EXCEPT !.n = @ + 1, !.active = TRUE, !.done = FALSE, !.queue = <<>>,
                              !.child = Len(kids'), !.model = m, !.down = breaks],
         UNCHANGED <<heard, transcript, deaths>>
  PROVE  ChatInv'
<1> DEFINE n == chat.n
<1>1. /\ chat \in ChatRec /\ heard \in [1..Turns -> Seq(Event)] /\ n \in 0..Turns /\ Turns \in Nat
      /\ Children \in Nat /\ Len(kids') \in 0..Children
  BY ChatIsRec, ChatAssumption, LenProperties DEF ChatRec
<1>2. /\ chat' \in ChatRec /\ chat'.n = n + 1 /\ chat'.active /\ ~chat'.done /\ chat'.queue = <<>>
      /\ chat'.child = Len(kids') /\ chat'.id = chat.id
  <2>1. <<>> \in Seq(Event) /\ n + 1 \in 0..Turns
    BY <1>1
  <2> QED BY <1>1, <2>1 DEF ChatRec
<1>3. heard[n + 1] = <<>> /\ n + 1 \in 1..Turns
  BY <1>1 DEF ChatInv
<1>4. ToldTo(chat.n)' = <<>>
  <2>1. <<>> \o <<>> = <<>>
    BY ConcatEmptySeq, EmptySeq
  <2> QED BY <1>2, <1>3, <2>1 DEF ToldTo
<1>5. \A p \in 1..n : /\ p \in 1..Turns /\ heard[p] = ToldTo(p) /\ ToldTo(p)' = ToldTo(p)
                      /\ heard[p] \in Tellings(p)
  <2> SUFFICES ASSUME NEW p \in 1..n
               PROVE  /\ p \in 1..Turns /\ heard[p] = ToldTo(p) /\ ToldTo(p)' = ToldTo(p)
                      /\ heard[p] \in Tellings(p)
    OBVIOUS
  <2>1. p \in 1..Turns /\ p # n + 1 /\ n > 0
    BY <1>1
  <2>2. heard[p] = ToldTo(p) /\ (p = n => ToldTo(p) \in Tellings(p))
    <3>1. CASE p = n
      <4>1. chat.queue = <<>> /\ ToldTo(n) \in Tellings(n)
        BY <2>1 DEF ChatInv, TurnOf
      <4>2. heard[n] \o <<>> = heard[n]
        BY <1>1, <2>1, <3>1, ConcatEmptySeq
      <4> QED BY <3>1, <4>1, <4>2 DEF ToldTo
    <3>2. CASE p # n
      BY <3>2 DEF ToldTo
    <3> QED BY <3>1, <3>2
  <2>3. ToldTo(p)' = heard[p]
    BY <1>2, <2>1 DEF ToldTo
  <2>4. p # n => heard[p] \in Tellings(p)
    BY <1>1, <2>1 DEF ChatInv
  <2> QED BY <2>1, <2>2, <2>3, <2>4
<1>6. ChatTypeOK'
  BY <1>1, <1>2, ChatIsRec DEF ChatTypeOK, ChatRec
<1>7. OneChild'
  BY <1>2 DEF OneChild
<1>8. Recalled'
  <2> SUFFICES ASSUME NEW p \in 1..(n + 1), ToldTo(p)' = <<TextOf(p), DoneEvent>>
               PROVE  p \in transcript
    BY <1>2 DEF Recalled
  <2>1. p # n + 1
    <3>1. <<>> # <<TextOf(p), DoneEvent>>
      OBVIOUS
    <3> QED BY <1>2, <1>4, <3>1 DEF ToldTo
  <2>2. p \in 1..n /\ ToldTo(p) = <<TextOf(p), DoneEvent>>
    BY <1>1, <1>5, <2>1
  <2> QED BY <2>2 DEF ChatInv, Recalled
<1>9. TurnOf(chat', Latest', ToldTo(chat.n)', transcript')
  BY <1>2, <1>4 DEF TurnOf
<1>10. \A p \in 1..Turns : IF p > chat'.n THEN heard'[p] = <<>>
                           ELSE p < chat'.n => heard'[p] \in Tellings(p)
  BY <1>1, <1>2, <1>5 DEF ChatInv
<1>11. chat'.n > 0
  BY <1>1, <1>2
<1> QED BY <1>6, <1>7, <1>8, <1>9, <1>10, <1>11 DEF ChatInv

\* handleChat sends a turn to the child it has, or spawns one.
LEMMA SendKeeps ==
  ASSUME ChatInv, OneModel, NEW m \in ChatModel, NEW breaks \in BOOLEAN, Send(m, breaks)
  PROVE  ChatInv'
<1> DEFINE keep == Reusable(chat.child)
           c == IF keep THEN chat.child ELSE Len(kids) + 1
           spawned == IF keep THEN kids ELSE Append(kids, Spawned(chat.id))
<1>1. /\ chat \in ChatRec /\ kids \in Seq(Kid) /\ transcript \in SUBSET (1..Turns)
      /\ chat.n \in 0..Turns /\ Turns \in Nat /\ Len(kids) \in Nat
  BY ChatIsRec, ChatAssumption, LenProperties DEF ChatRec
<1>2. m = chat.model
  BY <1>1 DEF OneModel, ChatRec
<1>3. /\ ~chat.active /\ ~chat.disposed /\ chat.n < Turns /\ AllClosed /\ c <= Children
      /\ chat' = [chat EXCEPT !.n = @ + 1, !.active = TRUE, !.done = FALSE, !.queue = <<>>,
                              !.child = c, !.model = m, !.down = breaks]
      /\ kids' = IF spawned[c].state \in Running
                 THEN [spawned EXCEPT ![c].prompts = Append(@, chat.n + 1)] ELSE spawned
      /\ UNCHANGED <<heard, transcript, deaths>>
  BY <1>2 DEF Send, OneModel
<1>4. chat.n + 1 \in 1..Turns /\ Append(<<>>, chat.n + 1) = <<chat.n + 1>>
      /\ <<chat.n + 1>> \in Seq(1..Turns)
  BY <1>1, <1>3
<1>5. CASE keep
  <2>1. /\ kids # <<>> /\ chat.child = Len(kids) /\ Open(Latest) /\ ~Latest.killed
        /\ Latest = kids[Len(kids)] /\ Latest.state \in Running \cup {"dead"}
    BY <1>5 DEF Reusable, ChatInv, OneChild, Latest
  <2>2. Len(kids) \in DOMAIN kids /\ DOMAIN kids = 1..Len(kids)
    BY <1>1, <2>1, EmptySeq, LenProperties
  <2>3. Latest \in Kid /\ chat.n > 0 /\ transcript \subseteq Latest.recalls
    BY <2>1, <2>2, OpenIsLatest
  <2>4. Unasked(Latest)
    BY <1>3, <2>1, <2>3 DEF ChatInv, TurnOf
  <2>5. chat.id \/ transcript = {}
    <3>1. <<>> # <<InitLine, TextOf(chat.n), ResultOf(chat.n)>>
      OBVIOUS
    <3> QED BY <2>4, <3>1 DEF ChatInv, Recalled, Unasked
  <2> DEFINE k == IF Latest.state \in Running THEN [Latest EXCEPT !.prompts = <<chat.n + 1>>]
                                              ELSE Latest
  <2>6. /\ k \in Kid /\ Open(k) /\ ~k.killed /\ k.recalls = Latest.recalls
        /\ Lost(k, <<>>) \/ Asked(k, chat.n + 1, <<>>)
    BY <1>4, <2>1, <2>3, <2>4 DEF Kid, Open, Unasked, Lost, Asked
  <2>7. kids' = [kids EXCEPT ![Len(kids)] = k]
    <3>1. CASE Latest.state \in Running
      <4>1. kids' = [kids EXCEPT ![Len(kids)].prompts = Append(@, chat.n + 1)]
        BY <1>3, <1>5, <2>1, <3>1
      <4> QED BY <1>1, <1>4, <2>1, <2>2, <2>3, <2>4, <3>1, <4>1 DEF Unasked
    <3>2. CASE Latest.state \notin Running
      <4>1. kids' = kids
        BY <1>3, <1>5, <2>1, <3>2
      <4> QED BY <1>1, <2>1, <2>2, <3>2, <4>1
    <3> QED BY <3>1, <3>2
  <2> HIDE DEF k
  <2>8. /\ kids' \in Seq(Kid) /\ Len(kids') = Len(kids) /\ DOMAIN kids' = 1..Len(kids)
        /\ \A i \in 1..Len(kids) : kids'[i] = IF i = Len(kids) THEN k ELSE kids[i]
    <3>1. kids' \in Seq(Kid) /\ Len(kids') = Len(kids)
      BY <1>1, <2>2, <2>6, <2>7, ExceptSeq
    <3> QED BY <1>1, <2>2, <2>6, <2>7, <3>1, LenProperties
  <2>9. /\ kids' # <<>> /\ Len(kids') <= Children /\ Latest' = k
        /\ \A i \in DOMAIN kids' : i # Len(kids') => ~Open(kids'[i])
    <3>1. Len(kids) # 0
      BY <1>1, <2>2
    <3>2. Len(kids') <= Children
      BY <2>8 DEF ChatInv, ChatTypeOK
    <3>3. Latest' = k
      BY <2>2, <2>8 DEF Latest
    <3>4. kids' # <<>>
      <4>1. Len(<<>>) = 0
        OBVIOUS
      <4> QED BY <2>8, <3>1, <4>1, Zenon
    <3> QED BY <2>2, <2>8, <3>2, <3>3, <3>4 DEF ChatInv, OneChild
  <2>10. c = Len(kids')
    BY <1>5, <2>1, <2>8
  <2> QED BY <1>3, <2>3, <2>5, <2>6, <2>8, <2>9, <2>10, SentKeeps
<1>6. CASE ~keep
  <2>1. chat.child = 0
    <3> SUFFICES ASSUME chat.child # 0 PROVE FALSE
      OBVIOUS
    <3>1. kids # <<>> /\ Open(Latest) /\ chat.child = Len(kids)
      BY DEF ChatInv, OneChild
    <3>2. Len(kids) \in DOMAIN kids /\ kids[Len(kids)] = Latest
      BY <1>1, <3>1, EmptySeq, LenProperties DEF Latest
    <3>3. Latest \in Kid /\ Latest.state # "exited"
      BY <1>3, <3>1, <3>2, OpenIsLatest DEF AllClosed
    <3> QED BY <1>6, <3>1, <3>2, <3>3 DEF Reusable, Open, Kid
  <2>2. DOMAIN kids = 1..Len(kids) /\ \A i \in DOMAIN kids : ~Open(kids[i])
    <3>1. DOMAIN kids = 1..Len(kids)
      BY <1>1, LenProperties
    <3> SUFFICES ASSUME NEW i \in DOMAIN kids, Open(kids[i]) PROVE FALSE
      BY <3>1
    <3>2. i = Len(kids) /\ kids[i] = Latest /\ kids # <<>>
      BY OpenIsLatest
    <3>3. Latest.killed /\ Len(kids) # 0
      BY <1>1, <2>1, <3>1, <3>2 DEF ChatInv, OneChild
    <3> QED BY <1>3, <3>2, <3>3 DEF AllClosed, Open
  <2>3. chat.id \/ transcript = {}
    <3>1. kids # <<>> => ~Open(Latest)
      BY <1>1, <2>2, EmptySeq DEF Latest
    <3> QED BY <3>1 DEF ChatInv, Recalled
  <2> DEFINE new == Spawned(chat.id)
             k == [new EXCEPT !.prompts = <<chat.n + 1>>]
  <2>4. /\ new \in Kid /\ new.state \in Running /\ new.prompts = <<>>
        /\ k \in Kid /\ Open(k) /\ ~k.killed /\ transcript \subseteq k.recalls
        /\ Asked(k, chat.n + 1, <<>>)
    <3>1. <<>> \in Seq(1..Turns) /\ <<>> \in Seq(Line)
      OBVIOUS
    <3>2. Resumed(chat.id) = transcript
      BY <2>3 DEF Resumed
    <3> DEFINE none == <<>>
               asked1 == <<chat.n + 1>>
    <3>3. new = [state |-> "born", killed |-> FALSE, prompts |-> none, working |-> FALSE,
                 out |-> none, recalls |-> transcript]
      BY <3>2, Zenon DEF Spawned
    <3>4. none \in Seq(1..Turns) /\ none \in Seq(Line) /\ asked1 \in Seq(1..Turns)
      BY <1>4, <3>1
    <3> HIDE DEF none, asked1
    <3>5. new \in Kid /\ new.recalls = transcript /\ new.out = none /\ new.prompts = none
      BY <1>1, <3>3, <3>4 DEF Kid, Running
    <3>6. k = [new EXCEPT !.prompts = asked1]
      BY DEF asked1
    <3> HIDE DEF new, k
    <3>7. /\ k \in Kid /\ k.recalls = transcript /\ k.out = none /\ k.prompts = asked1
          /\ k.state = "born" /\ ~k.killed /\ ~k.working /\ new.state = "born"
      BY <3>3, <3>4, <3>5, <3>6 DEF Kid
    <3> QED BY <3>5, <3>7 DEF Running, Open, Asked, none, asked1
  <2> HIDE DEF new, k
  <2>5. /\ spawned \in Seq(Kid) /\ Len(spawned) = c /\ c = Len(kids) + 1 /\ spawned[c] = new
        /\ \A i \in 1..Len(kids) : spawned[i] = kids[i]
    BY <1>1, <1>6, <2>4 DEF new
  <2> HIDE DEF spawned
  <2>6. c \in 1..Len(spawned) /\ DOMAIN spawned = 1..c
    BY <1>1, <2>5, LenProperties
  <2>7. kids' = [spawned EXCEPT ![c] = k]
    <3>1. kids' = [spawned EXCEPT ![c].prompts = Append(@, chat.n + 1)]
      BY <1>3, <2>4, <2>5
    <3> QED BY <1>4, <2>4, <2>5, <2>6, <3>1 DEF k
  <2>8. /\ kids' \in Seq(Kid) /\ Len(kids') = c /\ DOMAIN kids' = 1..c
        /\ \A i \in 1..c : kids'[i] = IF i = c THEN k ELSE spawned[i]
    <3>1. kids' \in Seq(Kid) /\ Len(kids') = c
      BY <2>4, <2>5, <2>6, <2>7, ExceptSeq
    <3> QED BY <2>5, <2>6, <2>7, <3>1, LenProperties
  <2>9. /\ kids' # <<>> /\ Len(kids') <= Children /\ Latest' = k
        /\ \A i \in DOMAIN kids' : i # Len(kids') => ~Open(kids'[i])
    <3>1. kids' # <<>>
      BY <1>1, <2>5, <2>8, EmptySeq
    <3>2. Latest' = k
      BY <2>5, <2>6, <2>8 DEF Latest
    <3>3. ASSUME NEW i \in DOMAIN kids', i # Len(kids')
          PROVE  ~Open(kids'[i])
      <4>1. i \in 1..Len(kids) /\ kids'[i] = kids[i]
        BY <1>1, <2>5, <2>8, <3>3
      <4> QED BY <2>2, <4>1
    <3> QED BY <1>3, <2>8, <3>1, <3>2, <3>3
  <2> HIDE DEF c
  <2> QED BY <1>3, <2>3, <2>4, <2>8, <2>9, SentKeeps
<1> QED BY <1>5, <1>6

\* Nothing was said, asked or written at first.
LEMMA ChatInitially == ChatInit => ChatInv
<1> SUFFICES ASSUME ChatInit PROVE ChatInv
  OBVIOUS
<1>1. /\ chat.n = 0 /\ ~chat.active /\ chat.child = 0 /\ ~chat.id /\ kids = <<>>
      /\ transcript = {} /\ heard = [n \in 1..Turns |-> <<>>] /\ Len(kids) = 0
  BY EmptySeq DEF ChatInit
<1>2. ChatTypeOK
  <2>1. <<>> \in Seq(Event) /\ <<>> \in Seq(Kid) /\ 0 \in 0..Turns /\ 0 \in 0..Children
        /\ 0 \in 0..Deaths /\ Children >= 0
    BY ChatAssumption
  <2> QED BY <1>1, <2>1 DEF ChatInit, ChatTypeOK
<1>3. OneChild /\ Recalled
  BY <1>1, EmptySeq DEF OneChild, Recalled
<1> QED BY <1>1, <1>2, <1>3, ChatAssumption DEF ChatInv

\* Every step keeps the invariant.
LEMMA ChatStepKeeps == ASSUME OneModel PROVE ChatInv /\ [ChatNext]_chatVars => ChatInv'
<1> SUFFICES ASSUME ChatInv, [ChatNext]_chatVars PROVE ChatInv'
  OBVIOUS
<1>1. CASE \E m \in ChatModel, breaks \in BOOLEAN : Send(m, breaks)
  BY <1>1, SendKeeps
<1>2. CASE Yields \/ TurnReturns
  BY <1>2, PanelKeeps
<1>3. CASE Reaps \/ Disposes
  BY <1>3, KillKeeps
<1>4. ASSUME NEW c \in DOMAIN kids,
             Works(c) \/ Answers(c) \/ Dies(c) \/ ExitSeen(c) \/ ReadsLine(c) \/ Closes(c) \/ SpawnFails(c)
      PROVE  ChatInv'
  BY <1>4, WorksKeeps, AnswersKeeps, DeathKeeps, ReadKeeps, CloseKeeps
<1>5. CASE UNCHANGED chatVars
  BY <1>5 DEF chatVars, ChatInv, ChatTypeOK, OneChild, Recalled, Latest, ToldTo
<1> QED BY <1>1, <1>2, <1>3, <1>4, <1>5 DEF ChatNext

\* With one model the invariant holds throughout.
LEMMA ChatAlways == ASSUME OneModel PROVE ChatSpec => []ChatInv
BY ChatInitially, ChatStepKeeps, PTL DEF ChatSpec

\* What was heard of a turn begins what it was told.
LEMMA HeardIsTold ==
  ASSUME ChatInv, NEW n \in 1..chat.n
  PROVE  /\ n \in 1..Turns /\ heard[n] \in Seq(Event) /\ ToldTo(n) \in Seq(Event)
         /\ Len(heard[n]) <= Len(ToldTo(n))
         /\ \A i \in 1..Len(heard[n]) : heard[n][i] = ToldTo(n)[i]
         /\ DOMAIN heard[n] = 1..Len(heard[n])
         /\ n < chat.n => heard[n] = ToldTo(n)
<1> DEFINE h == heard[n]
           q == chat.queue
<1>1. n \in 1..Turns /\ heard[n] \in Seq(Event) /\ chat.queue \in Seq(Event) /\ chat.n \in Nat
  BY ChatIsRec, ChatAssumption DEF ChatRec
<1>2. h \in Seq(Event) /\ q \in Seq(Event) /\ DOMAIN h = 1..Len(h)
  BY <1>1, LenProperties
<1>3. CASE n = chat.n
  <2>1. ToldTo(n) = h \o q
    BY <1>3 DEF ToldTo
  <2> HIDE DEF h, q
  <2>2. /\ h \o q \in Seq(Event) /\ Len(h) <= Len(h \o q)
        /\ \A i \in 1..Len(h) : h[i] = (h \o q)[i]
    BY <1>2, ConcatProperties
  <2> QED BY <1>1, <1>2, <1>3, <2>1, <2>2 DEF h
<1>4. CASE n # chat.n
  BY <1>1, <1>2, <1>4 DEF ToldTo
<1> QED BY <1>3, <1>4

\* What a turn can have been told, when it is not over and when it is.
LEMMA ToldIsTelling ==
  ASSUME ChatInv, NEW n \in 1..chat.n
  PROVE  ToldTo(n) \in {<<>>, <<TextOf(n)>>} \cup Tellings(n)
<1>1. chat.n \in Nat /\ n \in 1..Turns /\ chat.n > 0
  BY ChatIsRec, ChatAssumption DEF ChatRec
<1>2. CASE n = chat.n
  BY <1>1, <1>2 DEF ChatInv, TurnOf, Lost, Asked, Working, HasAnswered
<1>3. CASE n # chat.n
  BY <1>1, <1>3 DEF ChatInv, ToldTo
<1> QED BY <1>2, <1>3

\* A telling, event by event.
LEMMA TellingSays ==
  ASSUME NEW n \in 1..Turns, NEW t \in {<<>>, <<TextOf(n)>>} \cup Tellings(n), NEW i \in 1..Len(t)
  PROVE  /\ t[i].kind = "text" => t[i].turn = n
         /\ t[i].kind = "done" => i = Len(t) /\ t \in Tellings(n)
         /\ t[i].kind = "error" => t \in Failings(n)
<1> DEFINE a == TextOf(n)
<1>1. /\ a.kind = "text" /\ a.turn = n /\ Failed.kind = "error" /\ DoneEvent.kind = "done"
  BY EventsAreOfTurns
<1> HIDE DEF a
<1> USE DEF Tellings, Failings
<1>2. CASE t = <<>>
  BY <1>2
<1>3. CASE t = <<a>>
  BY <1>1, <1>3
<1>4. CASE t = <<a, DoneEvent>>
  BY <1>1, <1>4 DEF a
<1>5. CASE t = <<Failed, DoneEvent>>
  BY <1>1, <1>5
<1>6. CASE t = <<a, Failed, DoneEvent>>
  BY <1>1, <1>6 DEF a
<1> QED BY <1>2, <1>3, <1>4, <1>5, <1>6 DEF a

\* How a telling ends, and what it began with.
LEMMA TellingEnds ==
  ASSUME NEW n \in 1..Turns, NEW t \in Tellings(n)
  PROVE  /\ Len(t) \in Nat \ {0} /\ t[Len(t)] = DoneEvent
         /\ IF t \in Failings(n) THEN \E i \in 1..Len(t) : t[i] = Failed ELSE t[1] = TextOf(n)
<1> DEFINE a == TextOf(n)
<1>1. CASE t = <<a, DoneEvent>>
  <2>1. t \notin Failings(n)
    BY <1>1, FailedIsNotAnswered
  <2> HIDE DEF a
  <2>2. Len(t) = 2 /\ t[1] = a /\ t[2] = DoneEvent
    BY <1>1
  <2> QED BY <2>1, <2>2 DEF a
<1>2. CASE t = <<Failed, DoneEvent>>
  <2>1. t \in Failings(n) /\ Len(t) = 2 /\ t[1] = Failed /\ t[2] = DoneEvent
    BY <1>2 DEF Failings
  <2> QED BY <2>1
<1>3. CASE t = <<a, Failed, DoneEvent>>
  <2>1. t \in Failings(n)
    BY <1>3 DEF Failings
  <2> HIDE DEF a
  <2>2. Len(t) = 3 /\ t[2] = Failed /\ t[3] = DoneEvent
    BY <1>3
  <2> QED BY <2>1, <2>2
<1> QED BY <1>1, <1>2, <1>3 DEF Tellings, Failings

\* A turn that heard its end heard all it was told.
LEMMA EndIsHeardLast ==
  ASSUME ChatInv, NEW n \in 1..chat.n, DoneEvent \in Said(n)
  PROVE  /\ ToldTo(n) \in Tellings(n)
         /\ \A i \in 1..Len(ToldTo(n)) : ToldTo(n)[i] \in Said(n)
<1>1. PICK i \in 1..Len(heard[n]) : heard[n][i] = DoneEvent
  BY HeardIsTold DEF Said
<1>2. /\ n \in 1..Turns /\ i \in 1..Len(ToldTo(n)) /\ ToldTo(n)[i] = DoneEvent
      /\ Len(heard[n]) \in Nat /\ Len(ToldTo(n)) \in Nat /\ Len(heard[n]) <= Len(ToldTo(n))
  BY <1>1, HeardIsTold, LenProperties
<1>3. DoneEvent.kind = "done"
  BY <1>2, EventsAreOfTurns
<1>4. i = Len(ToldTo(n)) /\ ToldTo(n) \in Tellings(n)
  BY <1>2, <1>3, ToldIsTelling, TellingSays
<1>5. Len(heard[n]) = Len(ToldTo(n))
  BY <1>2, <1>4
<1> QED BY <1>4, <1>5, HeardIsTold DEF Said

\* ChatSession (claude_stdio_backend.ts): a turn hears its own answer, once and
\* to the end, whatever children die, are reaped or are spawned again, when the
\* panel has one model and a child's close event comes before the next turn.
THEOREM TurnsAlwaysHearTheirOwn == ASSUME OneModel PROVE ChatSpec => []HearsItsOwnAnswer
<1>1. ChatInv => HearsItsOwnAnswer
  <2> SUFFICES ASSUME ChatInv, NEW n \in 1..chat.n
               PROVE  /\ \A e \in Said(n) : e.kind = "text" => e.turn = n
                      /\ \A i \in DOMAIN heard[n] : heard[n][i].kind = "done" => i = Len(heard[n])
                      /\ EventOf("done", 0) \in Said(n) =>
                           EventOf("error", 0) \in Said(n) \/ EventOf("text", n) \in Said(n)
                      /\ n < chat.n => EventOf("done", 0) \in Said(n)
    BY DEF HearsItsOwnAnswer
  <2>1. /\ n \in 1..Turns /\ Len(heard[n]) \in Nat /\ Len(ToldTo(n)) \in Nat
        /\ Len(heard[n]) <= Len(ToldTo(n)) /\ DOMAIN heard[n] = 1..Len(heard[n])
        /\ \A i \in 1..Len(heard[n]) : heard[n][i] = ToldTo(n)[i]
    BY HeardIsTold, LenProperties
  <2>2. ASSUME NEW i \in 1..Len(heard[n])
        PROVE  /\ heard[n][i].kind = "text" => heard[n][i].turn = n
               /\ heard[n][i].kind = "done" => i = Len(heard[n])
    <3>1. i \in 1..Len(ToldTo(n)) /\ heard[n][i] = ToldTo(n)[i]
      BY <2>1
    <3>2. /\ ToldTo(n)[i].kind = "text" => ToldTo(n)[i].turn = n
          /\ ToldTo(n)[i].kind = "done" => i = Len(ToldTo(n))
      BY <2>1, <3>1, ToldIsTelling, TellingSays
    <3> QED BY <2>1, <3>1, <3>2
  <2>3. DoneEvent \in Said(n) => Failed \in Said(n) \/ TextOf(n) \in Said(n)
    <3> SUFFICES ASSUME DoneEvent \in Said(n) PROVE Failed \in Said(n) \/ TextOf(n) \in Said(n)
      OBVIOUS
    <3>1. ToldTo(n) \in Tellings(n) /\ \A i \in 1..Len(ToldTo(n)) : ToldTo(n)[i] \in Said(n)
      BY EndIsHeardLast
    <3>2. 1 \in 1..Len(ToldTo(n))
      BY <2>1, <3>1, TellingEnds
    <3> QED BY <2>1, <3>1, <3>2, TellingEnds
  <2>4. n < chat.n => DoneEvent \in Said(n)
    <3> SUFFICES ASSUME n < chat.n PROVE DoneEvent \in Said(n)
      OBVIOUS
    <3> chat.n \in 0..Turns /\ Turns \in Nat
      BY ChatIsRec, ChatAssumption DEF ChatRec
    <3>1. heard[n] \in Tellings(n)
      BY <2>1 DEF ChatInv
    <3>2. Len(heard[n]) \in 1..Len(heard[n]) /\ heard[n][Len(heard[n])] = DoneEvent
      BY <2>1, <3>1, TellingEnds
    <3> QED BY <2>1, <3>2 DEF Said
  <2> QED BY <2>1, <2>2, <2>3, <2>4 DEF Said, DoneEvent, Failed, TextOf
<1> QED BY <1>1, ChatAlways, PTL

\* On the same terms a child that is about to answer remembers every turn that
\* was answered before, by whichever child (--resume).
THEOREM MemoryIsAlwaysKept == ASSUME OneModel PROVE ChatSpec => []MemoryKept
<1>1. ChatInv => MemoryKept
  <2> SUFFICES ASSUME ChatInv, NEW c \in DOMAIN kids, kids[c].state = "alive",
                      NEW n \in 1..chat.n, DoneEvent \in Said(n), Failed \notin Said(n)
               PROVE  n \in kids[c].recalls
    BY DEF MemoryKept, DoneEvent, Failed
  <2>1. kids[c] = Latest /\ transcript \subseteq Latest.recalls
    BY OpenIsLatest DEF Open
  <2>2. /\ n \in 1..Turns /\ ToldTo(n) \in Tellings(n)
        /\ \A i \in 1..Len(ToldTo(n)) : ToldTo(n)[i] \in Said(n)
    BY HeardIsTold, EndIsHeardLast
  <2>3. ToldTo(n) \notin Failings(n)
    BY <2>2, TellingEnds
  <2>4. ToldTo(n) = <<TextOf(n), DoneEvent>>
    BY <2>2, <2>3 DEF Tellings
  <2> QED BY <2>1, <2>4 DEF ChatInv, Recalled
<1> QED BY <1>1, ChatAlways, PTL

\* With one model, what model_switch refutes for two holds: a turn that is told
\* of a failure has no child left that would answer it.
THEOREM FailedTurnsAreOver == ASSUME OneModel PROVE ChatSpec => []TurnsGetTheirAnswer
<1>1. ChatInv => TurnsGetTheirAnswer
  <2> SUFFICES ASSUME ChatInv, NEW n \in 1..chat.n, Failed \in Said(n), NEW c \in DOMAIN kids,
                      kids[c].state \in Running, n \in Range(kids[c].prompts)
               PROVE  FALSE
    BY DEF TurnsGetTheirAnswer, Failed
  <2>1. /\ kids[c] = Latest /\ Open(Latest) /\ chat.n \in 1..Turns /\ chat.n > 0
    BY OpenIsLatest DEF Open, Running
  <2>2. PICK i \in 1..Len(heard[n]) : heard[n][i] = Failed
    BY HeardIsTold DEF Said
  <2>3. /\ n \in 1..Turns /\ i \in 1..Len(ToldTo(n)) /\ ToldTo(n)[i] = Failed
    BY <2>2, HeardIsTold, LenProperties
  <2>4. Failed.kind = "error"
    BY <2>3, EventsAreOfTurns
  <2>5. ToldTo(n) \in Failings(n)
    BY <2>3, <2>4, ToldIsTelling, TellingSays
  <2>6. ~Unasked(Latest)
    BY <2>1 DEF Unasked, Range
  <2>7. /\ Asked(Latest, chat.n, ToldTo(chat.n)) \/ Working(Latest, chat.n, ToldTo(chat.n), chat.id)
    BY <2>1, <2>6, BusyIsInTurn DEF HasAnswered, Range
  <2>8. Latest.prompts = <<chat.n>> /\ ToldTo(chat.n) \in {<<>>, <<TextOf(chat.n)>>}
    BY <2>7 DEF Asked, Working
  <2>9. n = chat.n
    BY <2>1, <2>8 DEF Range
  <2> QED BY <2>3, <2>5, <2>8, <2>9, FailedIsNotAnswered DEF Tellings
<1> QED BY <1>1, ChatAlways, PTL

------------------------------------------------------------------------------
(* The types of a chat session, whatever its panel picks and its children   *)
(* do: the model may be switched, and a close event may come late.          *)

\* A child at work has the prompt that it works on.
Holds(k) == k.working => k.prompts # <<>>

\* The types, and what keeps them: a session's child is one that was spawned,
\* a turn in progress has a number, and a child at work has a prompt.
ChatTypeInv ==
  /\ ChatTypeOK
  /\ chat.child <= Len(kids)
  /\ chat.active => chat.n >= 1
  /\ \A c \in DOMAIN kids : Holds(kids[c])

LEMMA ChatTyped ==
  ASSUME ChatTypeInv
  PROVE  /\ chat \in ChatRec /\ chat.queue \in Seq(Event) /\ heard \in [1..Turns -> Seq(Event)]
         /\ transcript \in SUBSET (1..Turns) /\ deaths \in 0..Deaths /\ kids \in Seq(Kid)
         /\ Len(kids) \in Nat /\ Len(kids) <= Children /\ DOMAIN kids = 1..Len(kids)
         /\ \A c \in DOMAIN kids : kids[c] \in Kid
BY LenProperties, ElementOfSeq DEF ChatTypeInv, ChatTypeOK, ChatRec

\* A step that changes one child keeps the types.
LEMMA ChildIsTyped ==
  ASSUME ChatTypeInv, NEW c \in DOMAIN kids, NEW k \in Kid, Holds(k),
         kids' = [kids EXCEPT ![c] = k],
         chat' \in ChatRec, chat'.child \in {0, chat.child},
         chat'.active = chat.active, chat'.n = chat.n,
         heard' = heard, transcript' \in SUBSET (1..Turns), deaths' \in 0..Deaths
  PROVE  ChatTypeInv'
<1>1. /\ kids \in Seq(Kid) /\ DOMAIN kids = 1..Len(kids) /\ Len(kids) \in Nat /\ Len(kids) <= Children
      /\ heard \in [1..Turns -> Seq(Event)]
  BY ChatTyped
<1>2. kids' \in Seq(Kid) /\ Len(kids') = Len(kids)
  BY <1>1, ExceptSeq
<1>3. DOMAIN kids' = 1..Len(kids) /\ \A i \in 1..Len(kids) : kids'[i] = IF i = c THEN k ELSE kids[i]
  BY <1>1
<1>4. \A i \in DOMAIN kids' : Holds(kids'[i])
  BY <1>1, <1>3 DEF ChatTypeInv
<1>5. ChatTypeOK'
  BY <1>1, <1>2 DEF ChatTypeOK, ChatRec
<1>6. chat'.child <= Len(kids') /\ (chat'.active => chat'.n >= 1)
  BY <1>1, <1>2 DEF ChatTypeInv
<1> QED BY <1>4, <1>5, <1>6 DEF ChatTypeInv

\* A child begins its prompt, ends it, dies, or is seen to have exited.
LEMMA LivesAreTyped ==
  ASSUME ChatTypeInv, NEW c \in DOMAIN kids, Works(c) \/ Answers(c) \/ Dies(c) \/ ExitSeen(c)
  PROVE  ChatTypeInv'
<1>1. /\ kids[c] \in Kid /\ Holds(kids[c]) /\ chat \in ChatRec
      /\ transcript \in SUBSET (1..Turns) /\ deaths \in 0..Deaths
  BY ChatTyped DEF ChatTypeInv
<1> DEFINE n == Head(kids[c].prompts)
<1>2. kids[c].prompts # <<>> => n \in 1..Turns /\ Tail(kids[c].prompts) \in Seq(1..Turns)
  BY <1>1, HeadTailProperties DEF Kid
<1>3. n \in 1..Turns =>
        EventOf("init", 0) \in Line /\ EventOf("text", n) \in Line /\ EventOf("result", n) \in Line
  BY ChatAssumption DEF EventOf, Line
<1>4. CASE Works(c)
  <2> DEFINE said == kids[c].out \o <<EventOf("init", 0), EventOf("text", n)>>
             k == [kids[c] EXCEPT !.state = "alive", !.working = TRUE, !.out = said]
  <2>1. /\ kids[c].prompts # <<>> /\ kids' = [kids EXCEPT ![c] = k]
        /\ UNCHANGED <<chat, heard, transcript, deaths>>
    BY <1>4 DEF Works
  <2>2. said \in Seq(Line)
    <3>1. <<EventOf("init", 0), EventOf("text", n)>> \in Seq(Line) /\ kids[c].out \in Seq(Line)
      BY <1>1, <1>2, <1>3, <2>1 DEF Kid
    <3> QED BY <3>1, ConcatProperties
  <2> HIDE DEF said, n
  <2>3. k \in Kid /\ Holds(k)
    BY <1>1, <2>1, <2>2 DEF Kid, Holds, Running
  <2> QED BY <1>1, <2>1, <2>3, ChildIsTyped
<1>5. CASE Answers(c)
  <2> DEFINE said == Append(kids[c].out, EventOf("result", n))
             rest == Tail(kids[c].prompts)
             known == kids[c].recalls \cup {n}
             k == [kids[c] EXCEPT !.working = FALSE, !.prompts = rest, !.out = said, !.recalls = known]
  <2>1. /\ kids[c].prompts # <<>> /\ kids' = [kids EXCEPT ![c] = k]
        /\ transcript' = transcript \cup {n} /\ UNCHANGED <<chat, heard, deaths>>
    BY <1>1, <1>5 DEF Answers, Holds
  <2>2. said \in Seq(Line)
    <3>1. EventOf("result", n) \in Line /\ kids[c].out \in Seq(Line)
      BY <1>1, <1>2, <1>3, <2>1 DEF Kid
    <3> QED BY <3>1, AppendProperties
  <2>3. known \in SUBSET (1..Turns) /\ rest \in Seq(1..Turns) /\ transcript' \in SUBSET (1..Turns)
    BY <1>1, <1>2, <2>1 DEF Kid
  <2> HIDE DEF said, rest, known, n
  <2>4. k \in Kid /\ Holds(k)
    BY <1>1, <2>2, <2>3 DEF Kid, Holds
  <2> QED BY <1>1, <2>1, <2>3, <2>4, ChildIsTyped
<1>6. CASE Dies(c) \/ ExitSeen(c)
  <2>1. PICK state \in {"dead", "exited"} :
          /\ kids' = [kids EXCEPT ![c].state = state] /\ deaths' \in 0..Deaths
          /\ UNCHANGED <<chat, heard, transcript>>
    BY <1>1, <1>6, ChatAssumption DEF Dies, ExitSeen
  <2> DEFINE k == [kids[c] EXCEPT !.state = state]
  <2>2. k \in Kid /\ Holds(k) /\ kids' = [kids EXCEPT ![c] = k]
    BY <1>1, <2>1 DEF Kid, Holds
  <2> HIDE DEF k
  <2> QED BY <1>1, <2>1, <2>2, ChildIsTyped
<1> QED BY <1>4, <1>5, <1>6

\* The server reads a line of a child, or is told of its end.
LEMMA ReportsAreTyped ==
  ASSUME ChatTypeInv, NEW c \in DOMAIN kids, ReadsLine(c) \/ Closes(c) \/ SpawnFails(c)
  PROVE  ChatTypeInv'
<1>1. /\ kids[c] \in Kid /\ Holds(kids[c]) /\ chat \in ChatRec /\ chat.queue \in Seq(Event)
      /\ transcript \in SUBSET (1..Turns) /\ deaths \in 0..Deaths
  BY ChatTyped DEF ChatTypeInv
<1>2. DoneEvent \in Event /\ Failed \in Event
  BY ChatAssumption DEF DoneEvent, Failed, EventOf, Event
<1>3. CASE ReadsLine(c)
  <2> DEFINE line == Head(kids[c].out)
             k == [kids[c] EXCEPT !.out = Tail(@)]
  <2>1. /\ kids[c].out # <<>> /\ chat' = OnLine(chat, line) /\ kids' = [kids EXCEPT ![c] = k]
        /\ UNCHANGED <<heard, transcript, deaths>>
    BY <1>3 DEF ReadsLine
  <2>2. line \in Line /\ Tail(kids[c].out) \in Seq(Line)
    BY <1>1, <2>1, HeadTailProperties DEF Kid
  <2>3. k \in Kid /\ Holds(k)
    BY <1>1, <2>2 DEF Kid, Holds
  <2> HIDE DEF k, line
  <2>4. line.kind \in {"init", "text", "result"} /\ (line.kind = "text" => line \in Event)
    BY <2>2 DEF Line, Event
  <2>5. PICK queue \in Seq(Event), done \in BOOLEAN, id \in BOOLEAN :
          chat' = [chat EXCEPT !.queue = queue, !.done = done, !.id = id]
    <3>1. CASE line.kind = "init"
      <4>1. chat' = [chat EXCEPT !.id = TRUE]
        BY <2>1, <3>1 DEF OnLine
      <4>2. chat' = [chat EXCEPT !.queue = chat.queue, !.done = chat.done, !.id = TRUE]
        BY <1>1, <4>1 DEF ChatRec
      <4> QED BY <1>1, <4>2 DEF ChatRec
    <3>2. CASE line.kind = "text"
      <4>1. chat' = IF chat.active THEN [chat EXCEPT !.queue = @ \o <<line>>] ELSE chat
        BY <2>1, <3>2 DEF OnLine, Pushed
      <4>2. chat.queue \o <<line>> \in Seq(Event)
        BY <1>1, <2>4, <3>2, ConcatProperties
      <4>3. PICK queue \in {chat.queue, chat.queue \o <<line>>} :
              chat' = [chat EXCEPT !.queue = queue, !.done = chat.done, !.id = chat.id]
        BY <1>1, <4>1 DEF ChatRec
      <4> QED BY <1>1, <4>2, <4>3 DEF ChatRec
    <3>3. CASE line.kind = "result"
      <4>1. chat' = [(IF chat.active THEN [chat EXCEPT !.queue = @ \o <<DoneEvent>>] ELSE chat) EXCEPT !.done = TRUE]
        BY <2>1, <3>3 DEF OnLine, Pushed, DoneEvent
      <4>2. chat.queue \o <<DoneEvent>> \in Seq(Event)
        BY <1>1, <1>2, ConcatProperties
      <4>3. PICK queue \in {chat.queue, chat.queue \o <<DoneEvent>>} :
              chat' = [chat EXCEPT !.queue = queue, !.done = TRUE, !.id = chat.id]
        BY <1>1, <4>1 DEF ChatRec
      <4> QED BY <1>1, <4>2, <4>3 DEF ChatRec
    <3> QED BY <2>4, <3>1, <3>2, <3>3
  <2>6. /\ chat' \in ChatRec /\ chat'.child = chat.child /\ chat'.active = chat.active /\ chat'.n = chat.n
    BY <1>1, <2>5 DEF ChatRec
  <2> QED BY <1>1, <2>1, <2>3, <2>6, ChildIsTyped
<1>4. CASE Closes(c) \/ SpawnFails(c)
  <2> DEFINE k == [kids[c] EXCEPT !.state = "closed"]
             s == IF chat.child = c THEN [chat EXCEPT !.child = 0] ELSE chat
  <2>1. /\ kids' = [kids EXCEPT ![c] = k] /\ chat' = EndedByClose(s)
        /\ deaths' \in 0..Deaths /\ UNCHANGED <<heard, transcript>>
    BY <1>1, <1>4, ChatAssumption DEF Closes, SpawnFails
  <2>2. k \in Kid /\ Holds(k)
    BY <1>1 DEF Kid, Holds
  <2>3. /\ s \in ChatRec /\ s.child \in {0, chat.child} /\ s.active = chat.active /\ s.n = chat.n
        /\ s.queue = chat.queue
    BY <1>1, ChatAssumption DEF ChatRec
  <2> HIDE DEF k, s
  <2>4. chat' = s \/ chat' = [s EXCEPT !.queue = chat.queue \o <<Failed, DoneEvent>>, !.done = TRUE]
    BY <2>1, <2>3 DEF EndedByClose, Pushed, Failed, DoneEvent, ChatRec
  <2>5. chat.queue \o <<Failed, DoneEvent>> \in Seq(Event)
    <3>1. <<Failed, DoneEvent>> \in Seq(Event)
      BY <1>2
    <3> QED BY <1>1, <3>1, ConcatProperties
  <2>6. /\ chat' \in ChatRec /\ chat'.child \in {0, chat.child}
        /\ chat'.active = chat.active /\ chat'.n = chat.n
    BY <2>3, <2>4, <2>5 DEF ChatRec
  <2> QED BY <1>1, <2>1, <2>2, <2>6, ChildIsTyped
<1> QED BY <1>3, <1>4

\* The panel takes the next event of its turn, or its turn is over.
LEMMA PanelIsTyped ==
  ASSUME ChatTypeInv, Yields \/ TurnReturns
  PROVE  ChatTypeInv'
<1>1. /\ chat \in ChatRec /\ chat.queue \in Seq(Event) /\ heard \in [1..Turns -> Seq(Event)]
      /\ chat.active => chat.n \in 1..Turns
  BY ChatTyped, ChatAssumption DEF ChatTypeInv, ChatRec
<1>2. CASE Yields
  <2>1. /\ chat.active /\ chat.queue # <<>> /\ heard' = [heard EXCEPT ![chat.n] = Append(@, Head(chat.queue))]
        /\ chat' = [chat EXCEPT !.queue = Tail(@)] /\ UNCHANGED <<kids, transcript, deaths>>
    BY <1>2 DEF Yields
  <2>2. heard[chat.n] \in Seq(Event) /\ Tail(chat.queue) \in Seq(Event)
        /\ Append(heard[chat.n], Head(chat.queue)) \in Seq(Event)
    BY <1>1, <2>1, YieldedIsTold
  <2>3. heard' \in [1..Turns -> Seq(Event)]
    BY <1>1, <2>1, <2>2
  <2>4. chat' \in ChatRec /\ chat'.child = chat.child /\ chat'.active = chat.active /\ chat'.n = chat.n
    BY <1>1, <2>1, <2>2 DEF ChatRec
  <2> QED BY <2>1, <2>3, <2>4 DEF ChatTypeInv, ChatTypeOK, ChatRec
<1>3. CASE TurnReturns
  <2>1. chat' = [chat EXCEPT !.active = FALSE] /\ UNCHANGED <<kids, heard, transcript, deaths>>
    BY <1>3 DEF TurnReturns
  <2>2. chat' \in ChatRec /\ chat'.child = chat.child /\ ~chat'.active
    BY <1>1, <2>1 DEF ChatRec
  <2> QED BY <2>1, <2>2 DEF ChatTypeInv, ChatTypeOK, ChatRec
<1> QED BY <1>2, <1>3

\* A child that is forgotten is signalled; without one nothing is.
LEMMA KillsAreTyped ==
  ASSUME ChatTypeInv
  PROVE  /\ Killed(kids, chat.child) \in Seq(Kid)
         /\ Len(Killed(kids, chat.child)) = Len(kids)
         /\ \A c \in 1..Len(kids) : /\ Killed(kids, chat.child)[c] \in Kid
                                    /\ Holds(Killed(kids, chat.child)[c])
                                    /\ Killed(kids, chat.child)[c].state = kids[c].state
<1>1. /\ kids \in Seq(Kid) /\ DOMAIN kids = 1..Len(kids) /\ Len(kids) \in Nat
      /\ \A c \in 1..Len(kids) : kids[c] \in Kid /\ Holds(kids[c])
      /\ chat.child \in Nat /\ chat.child <= Len(kids)
  BY ChatTyped DEF ChatTypeInv, ChatRec
<1>2. CASE chat.child = 0
  BY <1>1, <1>2 DEF Killed
<1>3. CASE chat.child # 0
  <2> DEFINE d == chat.child
             k == [kids[d] EXCEPT !.killed = TRUE]
  <2>1. d \in 1..Len(kids) /\ kids[d] \in Kid /\ Holds(kids[d])
    BY <1>1, <1>3
  <2>2. k \in Kid /\ Holds(k) /\ k.state = kids[d].state
    BY <2>1 DEF Kid, Holds
  <2>3. Killed(kids, d) = [kids EXCEPT ![d] = k]
    BY <1>1, <1>3, <2>1 DEF Killed
  <2> HIDE DEF k, d
  <2>4. [kids EXCEPT ![d] = k] \in Seq(Kid) /\ Len([kids EXCEPT ![d] = k]) = Len(kids)
    BY <1>1, <2>1, <2>2, ExceptSeq
  <2>5. \A c \in 1..Len(kids) : [kids EXCEPT ![d] = k][c] = IF c = d THEN k ELSE kids[c]
    BY <1>1
  <2> QED BY <1>1, <2>1, <2>2, <2>3, <2>4, <2>5 DEF d
<1> QED BY <1>2, <1>3

\* The session is reaped or disposed.
LEMMA EndsAreTyped ==
  ASSUME ChatTypeInv, Reaps \/ Disposes
  PROVE  ChatTypeInv'
<1>1. chat \in ChatRec /\ Len(kids) \in Nat /\ 0 \in 0..Children
  BY ChatTyped, ChatAssumption
<1>2. /\ kids' = Killed(kids, chat.child) /\ UNCHANGED <<heard, transcript, deaths>>
      /\ \/ chat' = [chat EXCEPT !.child = 0]
         \/ chat' = [chat EXCEPT !.disposed = TRUE, !.child = 0]
  BY DEF Reaps, Disposes
<1>3. chat' \in ChatRec /\ chat'.child = 0 /\ chat'.active = chat.active /\ chat'.n = chat.n
  <2>1. CASE chat' = [chat EXCEPT !.child = 0]
    BY <1>1, <2>1 DEF ChatRec
  <2>2. CASE chat' = [chat EXCEPT !.disposed = TRUE, !.child = 0]
    BY <1>1, <2>2 DEF ChatRec
  <2> QED BY <1>2, <2>1, <2>2
<1>4. /\ kids' \in Seq(Kid) /\ Len(kids') = Len(kids) /\ \A c \in DOMAIN kids' : Holds(kids'[c])
  BY <1>2, KillsAreTyped, LenProperties
<1> QED BY <1>1, <1>2, <1>3, <1>4 DEF ChatTypeInv, ChatTypeOK, ChatRec

\* A turn is sent to the child that is there, or to one that is spawned.
LEMMA SendIsTyped ==
  ASSUME ChatTypeInv, NEW m \in ChatModel, NEW breaks \in BOOLEAN, Send(m, breaks)
  PROVE  ChatTypeInv'
<1> DEFINE retire == m # chat.model
           ks == IF retire THEN Killed(kids, chat.child) ELSE kids
           keep == ~retire /\ Reusable(chat.child)
           c == IF keep THEN chat.child ELSE Len(kids) + 1
           spawned == IF keep THEN ks ELSE Append(ks, Spawned(chat.id))
           k == [spawned[c] EXCEPT !.prompts = Append(@, chat.n + 1)]
<1>1. /\ chat \in ChatRec /\ kids \in Seq(Kid) /\ Len(kids) \in Nat /\ Len(kids) <= Children
      /\ \A i \in 1..Len(kids) : kids[i] \in Kid /\ Holds(kids[i])
      /\ transcript \in SUBSET (1..Turns) /\ chat.child \in Nat /\ chat.child <= Len(kids)
      /\ chat.n \in Nat /\ Turns \in Nat /\ Children \in Nat /\ <<>> \in Seq(Event)
  BY ChatTyped, ChatAssumption DEF ChatTypeInv, ChatRec
<1>2. /\ chat.n < Turns /\ c <= Children
      /\ chat' = [chat EXCEPT !.n = @ + 1, !.active = TRUE, !.done = FALSE, !.queue = <<>>,
                              !.child = c, !.model = m, !.down = breaks]
      /\ kids' = IF spawned[c].state \in Running
                 THEN [spawned EXCEPT ![c].prompts = Append(@, chat.n + 1)] ELSE spawned
      /\ UNCHANGED <<heard, transcript, deaths>>
  BY DEF Send
<1>3. ks \in Seq(Kid) /\ Len(ks) = Len(kids) /\ \A i \in 1..Len(kids) : ks[i] \in Kid /\ Holds(ks[i])
  BY <1>1, KillsAreTyped
<1>4. Spawned(chat.id) \in Kid /\ Holds(Spawned(chat.id))
  <2>1. <<>> \in Seq(1..Turns) /\ <<>> \in Seq(Line) /\ Resumed(chat.id) \in SUBSET (1..Turns)
    BY <1>1 DEF Resumed
  <2> QED BY <2>1 DEF Spawned, Kid, Holds, Running
<1> HIDE DEF ks
<1>5. /\ spawned \in Seq(Kid) /\ c \in 1..Len(spawned) /\ Len(spawned) <= Children
      /\ \A i \in 1..Len(spawned) : spawned[i] \in Kid /\ Holds(spawned[i])
  <2>1. CASE keep
    <3>1. chat.child # 0
      BY <2>1 DEF Reusable
    <3> QED BY <1>1, <1>3, <2>1, <3>1
  <2>2. CASE ~keep
    <3>1. /\ Append(ks, Spawned(chat.id)) \in Seq(Kid) /\ Len(Append(ks, Spawned(chat.id))) = Len(ks) + 1
          /\ \A i \in 1..Len(ks) : Append(ks, Spawned(chat.id))[i] = ks[i]
          /\ Append(ks, Spawned(chat.id))[Len(ks) + 1] = Spawned(chat.id)
      BY <1>3, <1>4, AppendProperties
    <3> HIDE DEF keep
    <3> QED BY <1>1, <1>2, <1>3, <1>4, <2>2, <3>1
  <2> HIDE DEF keep, spawned, c
  <2> QED BY <2>1, <2>2
<1> HIDE DEF spawned, c, retire, keep
<1>6. Append(spawned[c].prompts, chat.n + 1) \in Seq(1..Turns) /\ Append(spawned[c].prompts, chat.n + 1) # <<>>
  <2>1. chat.n + 1 \in 1..Turns /\ spawned[c].prompts \in Seq(1..Turns)
    BY <1>1, <1>2, <1>5 DEF Kid
  <2> QED BY <2>1, AppendProperties
<1>7. k \in Kid /\ Holds(k)
  BY <1>5, <1>6 DEF Kid, Holds
<1>8. kids' = [spawned EXCEPT ![c] = k] \/ kids' = spawned
  BY <1>2, <1>5
<1> HIDE DEF k
<1>9. kids' \in Seq(Kid) /\ Len(kids') = Len(spawned) /\ \A i \in DOMAIN kids' : Holds(kids'[i])
  <2>1. CASE kids' = spawned
    BY <1>5, <2>1, LenProperties
  <2>2. CASE kids' = [spawned EXCEPT ![c] = k]
    <3>1. /\ kids' \in Seq(Kid) /\ Len(kids') = Len(spawned) /\ DOMAIN spawned = 1..Len(spawned)
      BY <1>5, <1>7, <2>2, ExceptSeq, LenProperties
    <3>2. \A i \in DOMAIN kids' : i \in 1..Len(spawned) /\ kids'[i] = IF i = c THEN k ELSE spawned[i]
      BY <2>2, <3>1
    <3> QED BY <1>5, <1>7, <3>1, <3>2
  <2> QED BY <1>8, <2>1, <2>2
<1>10. /\ chat' \in ChatRec /\ chat'.child = c /\ chat'.n = chat.n + 1
  <2>1. c \in 0..Children /\ chat.n + 1 \in 0..Turns
    BY <1>1, <1>2, <1>5, LenProperties
  <2> QED BY <1>1, <1>2, <2>1 DEF ChatRec
<1>11. c <= Len(kids') /\ chat'.n >= 1 /\ Len(kids') <= Children
  BY <1>1, <1>5, <1>9, <1>10, LenProperties
<1>12. heard' \in [1..Turns -> Seq(Event)] /\ transcript' \in SUBSET (1..Turns) /\ deaths' \in 0..Deaths
  BY <1>2, ChatTyped
<1> QED BY <1>9, <1>10, <1>11, <1>12 DEF ChatTypeInv, ChatTypeOK, ChatRec

\* A session before its first turn.
LEMMA ChatTypedInitially == ChatInit => ChatTypeInv
<1> SUFFICES ASSUME ChatInit PROVE ChatTypeInv
  OBVIOUS
<1>1. /\ chat.n = 0 /\ ~chat.active /\ chat.child = 0 /\ kids = <<>> /\ Len(kids) = 0
  BY EmptySeq DEF ChatInit
<1>2. ChatTypeOK
  <2>1. <<>> \in Seq(Event) /\ <<>> \in Seq(Kid) /\ 0 \in 0..Turns /\ 0 \in 0..Children
        /\ 0 \in 0..Deaths /\ Children >= 0
    BY ChatAssumption
  <2> QED BY <1>1, <2>1 DEF ChatInit, ChatTypeOK
<1>3. DOMAIN kids = {}
  BY <1>1
<1> QED BY <1>1, <1>2, <1>3 DEF ChatTypeInv

LEMMA ChatStepIsTyped == ChatTypeInv /\ [ChatNext]_chatVars => ChatTypeInv'
<1> SUFFICES ASSUME ChatTypeInv, [ChatNext]_chatVars PROVE ChatTypeInv'
  OBVIOUS
<1>1. CASE UNCHANGED chatVars
  BY <1>1 DEF chatVars, ChatTypeInv, ChatTypeOK
<1> QED BY <1>1, SendIsTyped, PanelIsTyped, EndsAreTyped, LivesAreTyped, ReportsAreTyped DEF ChatNext
=============================================================================
