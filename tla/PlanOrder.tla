----------------------------- MODULE PlanOrder -----------------------------
(***************************************************************************)
(* The order of a run's packets: planWork (src/server/plan_work.ts) orders *)
(* the matched threads by Kahn's algorithm over the calls between threads  *)
(* and reports what a cycle keeps it from ordering; at the objective gate  *)
(* applyBriefOrdering and materializeSystemPackets (orchestration.ts) add  *)
(* the brief's orderings, one at a time, and its system packets.  A step   *)
(* is a round of a loop; packets are named by their entry points.          *)
(***************************************************************************)
EXTENDS Naturals, FiniteSets, SequencesExt

CONSTANTS
  Thread,         \* the threads of the project
  Best,           \* Best[t]: the place of t by score, then id
  SystemThread    \* "system:x1" ...: the entry points of the brief's packets

ASSUME ThreadAssumption ==
  /\ IsFiniteSet(Thread) /\ IsFiniteSet(SystemThread) /\ SystemThread \cap Thread = {}
  /\ Best \in [Thread -> Nat] /\ \A t, u \in Thread : Best[t] = Best[u] => t = u

VARIABLES
  stage,       \* "planning", "planned", "ordering" or "confirmed"
  planned,     \* boundaries.dependsOn as planned, for each packet
  depends,     \* the same with what the brief added so far
  remaining,   \* remainingDeps: the packets not ordered yet, with their deps
  ordered,     \* the packets in build order
  cycles,      \* the packets plan.cycles names
  after,       \* the brief's orderings: <<p, a>> when p is to run after a
  unread       \* those the loop has not come to

orderVars == <<stage, planned, depends, remaining, ordered, cycles, after, unread>>

Edges(T) == {e \in T \X T : e[1] # e[2]}

\* reaches(from, to): the depth-first search finds the least set that holds
\* `from` and the dependencies of its members.
Reaches(D, from, to) ==
  \A S \in SUBSET DOMAIN D : (from \in S /\ \A t \in S : D[t] \subseteq S) => to \in S

\* pick: by score, then by id.
Place(T, t) == Cardinality({u \in T : Best[u] <= Best[t]})

ByScore(T) == [n \in 1 .. Cardinality(T) |-> CHOOSE t \in T : Place(T, t) = n]

\* The threads a task matched and the calls among them.  Calls from and to the
\* others go to outsidePlan and order nothing.
OrderInit ==
  \E matched \in (SUBSET Thread) \ {{}} : \E calls \in SUBSET Edges(matched) :
    /\ planned = [t \in matched |-> {u \in matched : <<t, u>> \in calls}]
    /\ stage = "planning"
    /\ depends = planned /\ remaining = planned
    /\ ordered = <<>> /\ cycles = {}
    /\ after = {} /\ unread = {}

Free == {t \in DOMAIN remaining : remaining[t] = {}}

Round ==
  /\ stage = "planning" /\ Free # {}
  /\ ordered' = ordered \o ByScore(Free)
  /\ remaining' = [t \in DOMAIN remaining \ Free |-> remaining[t] \ Free]
  /\ UNCHANGED <<stage, planned, depends, cycles, after, unread>>

\* Nothing is free: everything is ordered, or the rest waits on a cycle and is
\* appended by score.
FinishPlan ==
  /\ stage = "planning" /\ Free = {}
  /\ stage' = "planned"
  /\ cycles' = DOMAIN remaining
  /\ ordered' = ordered \o ByScore(DOMAIN remaining)
  /\ UNCHANGED <<planned, depends, remaining, after, unread>>

\* parseBrief: `after` names known plan packets, never the packet itself.
BriefArrives ==
  /\ stage = "planned"
  /\ \E pairs \in SUBSET Edges(DOMAIN planned) : after' = pairs /\ unread' = pairs
  /\ stage' = "ordering"
  /\ UNCHANGED <<planned, depends, remaining, ordered, cycles>>

\* Mutant: only a direct dependency the other way round is seen as a cycle.
ClosesDirectCycle(p, a) == p \in depends[a]

\* Adding a to p's dependencies would close a cycle.
ClosesCycle(p, a) == Reaches(depends, a, p)

\* The packets in build order, each packet's list in the order it has.
ApplyAfter ==
  /\ stage = "ordering"
  /\ \E i \in DOMAIN ordered, e \in unread :
       /\ e[1] = ordered[i]
       /\ \A j \in 1 .. i - 1, d \in unread : d[1] # ordered[j]
       /\ unread' = unread \ {e}
       /\ depends' = IF e[2] \in depends[e[1]] \/ ClosesCycle(e[1], e[2]) THEN depends
                     ELSE [depends EXCEPT ![e[1]] = @ \cup {e[2]}]
  /\ UNCHANGED <<stage, planned, remaining, ordered, cycles, after>>

\* materializeSystemPackets: each follows the owners of its files and what its
\* own `after` names.
Materialize ==
  /\ stage = "ordering" /\ unread = {}
  /\ stage' = "confirmed"
  /\ \E proposed \in SUBSET SystemThread :
       \E follows \in [proposed -> SUBSET DOMAIN depends] :
         /\ depends' = [t \in DOMAIN depends \cup proposed |->
                          IF t \in proposed THEN follows[t] ELSE depends[t]]
         /\ ordered' = ordered \o SetToSeq(proposed)
  /\ UNCHANGED <<planned, remaining, cycles, after, unread>>

OrderNext == Round \/ FinishPlan \/ BriefArrives \/ ApplyAfter \/ Materialize

OrderSpec == OrderInit /\ [][OrderNext]_orderVars

-----------------------------------------------------------------------------

OnCycle(D) == {t \in DOMAIN D : \E u \in D[t] : Reaches(D, u, t)}

\* What can never start: a dependency of a dependency ... waits for itself.
Stuck(D) == {t \in DOMAIN D : \E u \in OnCycle(D) : Reaches(D, t, u)}

\* The plan lists a packet's dependencies before it, but for the packets it
\* reports, and reports exactly the ones that can never start
\* (plan_work.ts 218-238).  The brief orders as it was asked whenever that
\* closes no cycle, and leaves nothing more on a cycle than the plan had
\* (orchestration.ts 331-353).
OrderIsHonest ==
  /\ stage # "planning" =>
       /\ cycles = Stuck(planned)
       /\ \A j \in DOMAIN ordered : ordered[j] \in DOMAIN planned \ cycles =>
            planned[ordered[j]] \subseteq {ordered[i] : i \in 1 .. j - 1}
  /\ stage = "confirmed" =>
       /\ OnCycle(depends) = OnCycle(planned)
       /\ \A e \in after : e[2] \in depends[e[1]] \/ Reaches(depends, e[2], e[1])
=============================================================================
