------------------------------- MODULE WorkRun -------------------------------
(***************************************************************************)
(* The Agent Manager's spine (src/server/work_run.ts): a run over the      *)
(* packets a task was divided into, as the pure rules server.ts sequences  *)
(* calls into.  Everything here is an operator on the run object r, a      *)
(* record with                                                             *)
(*   status    the run's status ("none" when no run exists)                *)
(*   id        which run object this is (object identity in the code)      *)
(*   brief     the orchestrator brief's status ("none" on a gated run)     *)
(*   packet    each packet's status                                        *)
(*   attempts  how many times each packet was started                      *)
(*   changed   the files named by each packet's evidence.diffs             *)
(* The texts a run carries (task, notes, reasons, spend, model labels) are *)
(* left out.  No operator is recursive, so that the module can be proved   *)
(* about: the two loops of the code (startablePackets, cascadeSkips) are   *)
(* given by what they compute, and LaneFill checks that they do.           *)
(***************************************************************************)
EXTENDS Naturals, FiniteSets

CONSTANTS
  Packet,         \* the packets of the plan and of the brief
  SystemPacket,   \* those the brief proposes: in the run only if confirmed
  File,           \* the files of the analysed project
  Reads,          \* Reads[p]: plan.filesReached
  Declared,       \* Declared[p]: the brief's `files` for p, {} when absent
  PlanDeps,       \* PlanDeps[p]: plan.boundaries.dependsOn as planned
  BriefAfter,     \* BriefAfter[p]: the dependencies the brief's `after` adds
  NoChange,       \* packets the brief marks "no change needed"
  Order,          \* Order[p]: plan.order, the build order
  Lanes           \* run.parallel

ASSUME PacketAssumption == IsFiniteSet(Packet) /\ SystemPacket \subseteq Packet
ASSUME ScopeAssumption == /\ Reads \in [Packet -> SUBSET File]
                          /\ Declared \in [Packet -> SUBSET File]
ASSUME DepsAssumption == /\ PlanDeps \in [Packet -> SUBSET Packet]
                         /\ BriefAfter \in [Packet -> SUBSET Packet]
ASSUME OrderAssumption == /\ Order \in [Packet -> Nat]
                          /\ \A p, q \in Packet : Order[p] = Order[q] => p = q
ASSUME LanesAssumption == Lanes \in Nat \ {0}

MaxPacketAttempts == 2

RunStatus == {"none", "draft", "running", "paused", "done", "failed"}
BriefStatus == {"none", "drafting", "ready", "unavailable"}
PacketStatus == {"pending", "running", "awaiting-review", "done", "failed",
                 "escalated", "skipped", "no-change"}

Run == [status : RunStatus, id : Nat, brief : BriefStatus,
        packet : [Packet -> PacketStatus], attempts : [Packet -> Nat],
        changed : [Packet -> SUBSET File]]

\* Mutant: running -> awaiting-review is missing from the table.
TransitionsWithoutGate ==
  [s \in PacketStatus |->
     CASE s = "pending"         -> {"running", "skipped", "no-change"}
       [] s = "running"         -> {"escalated", "failed"}
       [] s = "awaiting-review" -> {"done", "failed", "pending", "escalated"}
       [] s = "escalated"       -> {"failed", "done"}
       [] OTHER                 -> {}]

PacketTransitions ==
  [s \in PacketStatus |->
     CASE s = "pending"         -> {"running", "skipped", "no-change"}
       [] s = "running"         -> {"awaiting-review", "escalated", "failed"}
       [] s = "awaiting-review" -> {"done", "failed", "pending", "escalated"}
       [] s = "escalated"       -> {"failed", "done"}
       [] OTHER                 -> {}]

\* packetTransitionError = null
Legal(r, p, next) == next \in PacketTransitions[r.packet[p]]

\* No run in memory and none on disk.
NoRun == [status |-> "none", id |-> 0, brief |-> "none",
          packet |-> [p \in Packet |-> "pending"],
          attempts |-> [p \in Packet |-> 0],
          changed |-> [p \in Packet |-> {}]]

DraftWorkRun(n, brief) ==
  [NoRun EXCEPT !.status = "draft", !.id = n, !.brief = brief]

\* run.packets: the brief's packets join it when a ready brief is confirmed.
InRun(r) == IF r.brief = "ready" /\ r.status # "draft" THEN Packet
            ELSE Packet \ SystemPacket

\* boundaries.dependsOn, with the confirmed brief's ordering applied.
DependsOn(r, p) ==
  InRun(r) \cap (IF r.brief = "ready" THEN PlanDeps[p] \cup BriefAfter[p]
                 ELSE PlanDeps[p])

EditScopeOf(r, p) == IF r.brief = "ready" /\ Declared[p] # {}
                     THEN Declared[p] ELSE Reads[p]

\* Mutant: a packet awaiting its review no longer holds its lane.
InFlightRunningOnly(r) == {p \in InRun(r) : r.packet[p] = "running"}

InFlight(r) == {p \in InRun(r) : r.packet[p] \in {"running", "awaiting-review"}}

\* Neither packet changes a file the other reaches.
LaneCompatible(r, p, q) ==
  /\ EditScopeOf(r, p) \cap (Reads[q] \cup EditScopeOf(r, q)) = {}
  /\ EditScopeOf(r, q) \cap Reads[p] = {}

Satisfied(r, p) == r.packet[p] \in {"done", "no-change"}

\* nextRunnablePacket(run, alsoInFlight): the first acceptable packet in
\* build order.
Acceptable(r, also) ==
  {p \in InRun(r) \ also :
     /\ r.packet[p] = "pending"
     /\ \A d \in DependsOn(r, p) : Satisfied(r, d)
     /\ \A q \in InFlight(r) \cup also : LaneCompatible(r, p, q)}

NextRunnable(r, also) ==
  {p \in Acceptable(r, also) : \A q \in Acceptable(r, also) : Order[p] <= Order[q]}

(***************************************************************************)
(* startablePackets: repeatedly the first pending packet, in build order,  *)
(* that nextRunnablePacket accepts, until the lanes are full.  A packet    *)
(* refused once stays refused, so the picks are made in build order, and   *)
(* a runnable packet is left out only because an earlier pick conflicts    *)
(* with it or because earlier picks filled the lanes.                      *)
(***************************************************************************)
\* Mutant: a dependency only has to be over, not to have succeeded.
RunnableAfterAny(r) == {p \in InRun(r) :
  /\ r.packet[p] = "pending"
  /\ \A d \in DependsOn(r, p) : r.packet[d] # "pending"
  /\ \A q \in InFlight(r) : LaneCompatible(r, p, q)}

Runnable(r) == {p \in InRun(r) :
                  /\ r.packet[p] = "pending"
                  /\ \A d \in DependsOn(r, p) : Satisfied(r, d)
                  /\ \A q \in InFlight(r) : LaneCompatible(r, p, q)}

\* Mutant: packets started in one tick are not compared with each other.
FillsLanesBlindly(r, S) ==
  /\ S \subseteq Runnable(r)
  /\ S # {} => Cardinality(InFlight(r)) + Cardinality(S) <= Lanes
  /\ \A p \in Runnable(r) \ S :
       Cardinality(InFlight(r)) + Cardinality({q \in S : Order[q] < Order[p]}) >= Lanes

FillsLanes(r, S) ==
  /\ S \subseteq Runnable(r)
  /\ S # {} => Cardinality(InFlight(r)) + Cardinality(S) <= Lanes
  /\ \A p, q \in S : p # q => LaneCompatible(r, p, q)
  /\ \A p \in Runnable(r) \ S :
       LET earlier == {q \in S : Order[q] < Order[p]}
       IN  \/ \E q \in earlier : ~LaneCompatible(r, p, q)
           \/ Cardinality(InFlight(r)) + Cardinality(earlier) >= Lanes

StartablePackets(r) ==
  IF \E S \in SUBSET Runnable(r) : FillsLanes(r, S)
  THEN CHOOSE S \in SUBSET Runnable(r) : FillsLanes(r, S)
  ELSE {}

(***************************************************************************)
(* cascadeSkips: the least set of pending packets that contains every      *)
(* pending packet depending on a failed or skipped one or on a member.     *)
(***************************************************************************)
Dead(r) == {p \in InRun(r) : r.packet[p] \in {"failed", "skipped"}}

ClosedUnderSkip(r, K) ==
  \A p \in InRun(r) :
    r.packet[p] = "pending" /\ DependsOn(r, p) \cap (Dead(r) \cup K) # {} => p \in K

\* Mutant: only the direct dependents of a dead packet are skipped.
CascadeOneLevel(r) ==
  [r EXCEPT !.packet =
     [p \in Packet |-> IF /\ p \in InRun(r) /\ r.packet[p] = "pending"
                          /\ DependsOn(r, p) \cap Dead(r) # {}
                       THEN "skipped" ELSE r.packet[p]]]

\* Mutant: no cascade.
CascadeNothing(r) == r

CascadeSkips(r) ==
  LET casualties == {p \in InRun(r) :
                       /\ r.packet[p] = "pending"
                       /\ \A K \in SUBSET InRun(r) : ClosedUnderSkip(r, K) => p \in K}
  IN  [r EXCEPT !.packet = [p \in Packet |-> IF p \in casualties THEN "skipped"
                                             ELSE r.packet[p]]]

\* setPacketStatus for every transition but pending -> running, which only
\* Started below makes.  An illegal transition changes nothing.
SetPacketStatus(r, p, next) ==
  IF ~Legal(r, p, next) THEN r
  ELSE LET moved == [r EXCEPT !.packet[p] = next]
       IN  IF next \in {"failed", "skipped"} THEN CascadeSkips(moved) ELSE moved

Started(r, S) ==
  [r EXCEPT !.packet = [p \in Packet |-> IF p \in S THEN "running" ELSE r.packet[p]],
            !.attempts = [p \in Packet |-> IF p \in S THEN r.attempts[p] + 1
                                           ELSE r.attempts[p]]]

\* Mutant: an open escalation counts as over.
AllSettledOrEscalated(r) == \A p \in InRun(r) :
  r.packet[p] \in {"done", "failed", "skipped", "no-change", "escalated"}

AllSettled(r) == \A p \in InRun(r) :
                    r.packet[p] \in {"done", "failed", "skipped", "no-change"}

\* Mutant: one approved packet makes the run a success.
RunOutcomeAny(r) == IF \E p \in InRun(r) : Satisfied(r, p) THEN "done" ELSE "failed"

RunOutcome(r) == IF \A p \in InRun(r) : Satisfied(r, p) THEN "done" ELSE "failed"

\* Mutant: a packet that lost its worker gets its attempt back.
LoadWithFreshAttempts(r) ==
  IF r.status # "running" THEN r
  ELSE LET lost == {p \in Packet : r.packet[p] = "running"}
       IN  [r EXCEPT !.status = "paused",
                     !.packet = [p \in Packet |-> IF p \in lost THEN "pending" ELSE r.packet[p]],
                     !.attempts = [p \in Packet |-> IF p \in lost THEN 0 ELSE r.attempts[p]]]

\* loadWorkRun: what a restarted server makes of the persisted run.
LoadWorkRun(r) ==
  IF r.status # "running" THEN r
  ELSE [r EXCEPT !.status = "paused",
                 !.packet = [p \in Packet |-> IF r.packet[p] = "running" THEN "pending"
                                              ELSE r.packet[p]]]

------------------------------------------------------------------------------
(* What is sound about a run, in memory or on disk.                         *)

\* Two packets holding lanes never touch each other's files.
LanesDisjointIn(r) ==
  \A p, q \in InFlight(r) : p # q => LaneCompatible(r, p, q)

LanesBoundedIn(r) == Cardinality(InFlight(r)) <= Lanes

\* What was started, and not sent back, had its dependencies settled clean.
DependenciesFirstIn(r) ==
  \A p \in InRun(r) :
    r.packet[p] \in {"running", "awaiting-review", "escalated", "done", "failed"}
      => \A d \in DependsOn(r, p) : Satisfied(r, d)

\* No packet waits for a dead one, and none is skipped without one.
CascadeExactIn(r) ==
  \A p \in InRun(r) :
    /\ r.packet[p] = "pending" => DependsOn(r, p) \cap Dead(r) = {}
    /\ r.packet[p] = "skipped" => DependsOn(r, p) \cap Dead(r) # {}

OutcomeHonestIn(r) ==
  /\ r.status \in {"done", "failed"} => AllSettled(r)
  /\ r.status = "done" => \A p \in InRun(r) : Satisfied(r, p)

\* Nothing is started or settled before the confirmation, nor outside the run.
UntouchedIn(r) ==
  \A p \in Packet :
    r.status \in {"none", "draft"} \/ p \notin InRun(r) => r.packet[p] = "pending"

Sound(r) ==
  /\ LanesDisjointIn(r) /\ LanesBoundedIn(r) /\ DependenciesFirstIn(r)
  /\ CascadeExactIn(r) /\ OutcomeHonestIn(r) /\ UntouchedIn(r)
=============================================================================
