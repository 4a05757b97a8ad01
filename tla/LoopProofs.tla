----------------------------- MODULE LoopProofs -----------------------------
(***************************************************************************)
(* What the loops of the plan and of the run compute: the two of           *)
(* work_run.ts (LaneFill) and those that order the packets (PlanOrder).    *)
(***************************************************************************)
EXTENDS LaneFill, PlanOrder, WorkRunProofs

------------------------------------------------------------------------------
(* Filling the lanes, cascading a failure.                                  *)

PickInv == Picks(input, picked)

\* What has been marked so far is what every closed set holds.
MarkedSet == {p \in Packet : marked.packet[p] # input.packet[p]}

MarkInv ==
  /\ marked = [input EXCEPT !.packet =
                 [p \in Packet |-> IF p \in MarkedSet THEN "skipped" ELSE input.packet[p]]]
  /\ \A p \in MarkedSet :
       /\ p \in InRun(input) /\ input.packet[p] = "pending"
       /\ \A K \in SUBSET InRun(input) : ClosedUnderSkip(input, K) => p \in K

LoopInv == input \in Run /\ PickInv /\ MarkInv

\* A pick leaves the others later or lost.
LEMMA PickKeeps ==
  ASSUME PickInv, Pick
  PROVE  PickInv'
BY OneMorePick DEF PickInv, Pick

\* A mark is of a packet that every closed set holds.
LEMMA MarkKeeps ==
  ASSUME input \in Run, MarkInv, Mark
  PROVE  MarkInv'
<1>1. PICK m \in Doomed(marked) : marked' = [marked EXCEPT !.packet[m] = "skipped"] /\ input' = input
  BY DEF Mark
<1>2. /\ MarkedSet \subseteq Packet
      /\ marked \in Run /\ marked.brief = input.brief /\ marked.status = input.status
      /\ \A p \in Packet : marked.packet[p] = IF p \in MarkedSet THEN "skipped" ELSE input.packet[p]
  <2>1. MarkedSet \subseteq Packet
    BY DEF MarkedSet
  <2> HIDE DEF MarkedSet
  <2> QED BY <2>1 DEF MarkInv, Run, PacketStatus
<1>3. /\ InRun(marked) = InRun(input) /\ \A p : DependsOn(marked, p) = DependsOn(input, p)
      /\ InRun(input) \subseteq Packet
  BY <1>2, SamePlanSamePackets, PacketSets DEF SamePlan
<1>4. /\ m \in InRun(input) /\ m \in Packet /\ marked.packet[m] = "pending" /\ m \notin MarkedSet
      /\ input.packet[m] = "pending" /\ DependsOn(input, m) \cap Dead(marked) # {}
  BY <1>1, <1>2, <1>3 DEF Doomed
<1>5. Dead(marked) \subseteq Dead(input) \cup MarkedSet
  BY <1>2, <1>3 DEF Dead
<1>6. \A K \in SUBSET InRun(input) : ClosedUnderSkip(input, K) => m \in K
  <2> SUFFICES ASSUME NEW K \in SUBSET InRun(input), ClosedUnderSkip(input, K) PROVE m \in K
    OBVIOUS
  <2>1. MarkedSet \subseteq K
    BY DEF MarkInv
  <2> QED BY <1>4, <1>5, <2>1 DEF ClosedUnderSkip
<1>7. \A p \in Packet : marked'.packet[p] = IF p = m THEN "skipped" ELSE marked.packet[p]
  BY <1>1, <1>2, <1>4 DEF Run
<1>8. MarkedSet' = MarkedSet \cup {m}
  BY <1>1, <1>2, <1>4, <1>7 DEF MarkedSet
<1>9. marked' = [input EXCEPT !.packet =
                   [p \in Packet |-> IF p \in MarkedSet' THEN "skipped" ELSE input.packet[p]]]
  <2> DEFINE F(M) == [p \in Packet |-> IF p \in M THEN "skipped" ELSE input.packet[p]]
  <2>1. marked = [input EXCEPT !.packet = F(MarkedSet)]
    BY DEF MarkInv
  <2>2. marked' = [marked EXCEPT !.packet = [marked.packet EXCEPT ![m] = "skipped"]]
    BY <1>1
  <2>3. [marked.packet EXCEPT ![m] = "skipped"] = F(MarkedSet')
    BY <1>2, <1>4, <1>8 DEF Run
  <2> HIDE DEF F
  <2>4. marked' = [marked EXCEPT !.packet = F(MarkedSet')]
    BY <2>2, <2>3
  <2>5. marked' = [input EXCEPT !.packet = F(MarkedSet')]
    BY <2>1, <2>4 DEF Run
  <2> QED BY <2>5 DEF F
<1>10. \A p \in MarkedSet' :
         /\ p \in InRun(input) /\ input.packet[p] = "pending"
         /\ \A K \in SUBSET InRun(input) : ClosedUnderSkip(input, K) => p \in K
  BY <1>4, <1>6, <1>8 DEF MarkInv
<1> QED BY <1>1, <1>9, <1>10 DEF MarkInv

\* When no more can be marked what is marked is closed.
LEMMA MarkedIsCascade ==
  ASSUME input \in Run, MarkInv, Doomed(marked) = {}
  PROVE  marked = CascadeSkips(input)
<1> DEFINE lost == {p \in InRun(input) :
                      /\ input.packet[p] = "pending"
                      /\ \A K \in SUBSET InRun(input) : ClosedUnderSkip(input, K) => p \in K}
<1>1. /\ MarkedSet \subseteq Packet
      /\ marked.brief = input.brief /\ marked.status = input.status
      /\ \A p \in Packet : marked.packet[p] = IF p \in MarkedSet THEN "skipped" ELSE input.packet[p]
  <2>1. MarkedSet \subseteq Packet
    BY DEF MarkedSet
  <2> HIDE DEF MarkedSet
  <2> QED BY <2>1 DEF MarkInv, Run
<1>2. /\ InRun(marked) = InRun(input) /\ \A p : DependsOn(marked, p) = DependsOn(input, p)
      /\ InRun(input) \subseteq Packet
  BY <1>1, SamePlanSamePackets, PacketSets DEF SamePlan
<1>3. MarkedSet \subseteq lost
  BY DEF MarkInv
<1>4. MarkedSet \in SUBSET InRun(input)
  BY DEF MarkInv
<1>5. Dead(input) \cup MarkedSet \subseteq Dead(marked)
  BY <1>1, <1>2, <1>4 DEF Dead, MarkInv
<1>6. ClosedUnderSkip(input, MarkedSet)
  <2> SUFFICES ASSUME NEW p \in InRun(input), input.packet[p] = "pending",
                      DependsOn(input, p) \cap (Dead(input) \cup MarkedSet) # {}, p \notin MarkedSet
               PROVE  FALSE
    BY DEF ClosedUnderSkip
  <2>1. marked.packet[p] = "pending"
    BY <1>1, <1>2
  <2> QED BY <1>2, <1>5, <2>1 DEF Doomed
<1>7. lost = MarkedSet
  BY <1>3, <1>4, <1>6
<1>8. CascadeSkips(input) =
        [input EXCEPT !.packet = [p \in Packet |-> IF p \in lost THEN "skipped" ELSE input.packet[p]]]
  BY DEF CascadeSkips
<1> HIDE DEF lost, MarkedSet
<1> QED BY <1>7, <1>8 DEF MarkInv

\* The loops of work_run.ts compute what the closed forms say, for any plan, any
\* statuses and any number of lanes, in whatever order the cascade meets its packets
\* (startablePackets, nextRunnablePacket, cascadeSkips).
THEOREM LoopsAlwaysMeetTheirClosedForms ==
  LFSpec => []LoopsMeetTheirClosedForms
<1>1. LFInit => LoopInv
  <2> SUFFICES ASSUME LFInit PROVE LoopInv
    OBVIOUS
  <2>1. PICK b \in {"none", "ready"}, s \in [Packet -> PacketStatus] :
          input = [NoRun EXCEPT !.status = "running", !.brief = b, !.packet = s]
    BY DEF LFInit
  <2>2. input \in Run
    BY <2>1, NoRunIsRun DEF Run, RunStatus, BriefStatus
  <2>3. picked = {} /\ marked = input
    BY DEF LFInit
  <2>4. PickInv
    BY <2>3, NothingPicked DEF PickInv
  <2>5. MarkInv
    <3>1. MarkedSet = {}
      BY <2>3 DEF MarkedSet
    <3>2. [p \in Packet |-> input.packet[p]] = input.packet
      BY <2>2 DEF Run
    <3>3. [input EXCEPT !.packet = input.packet] = input
      BY <2>2 DEF Run
    <3> QED BY <2>3, <3>1, <3>2, <3>3 DEF MarkInv
  <2> QED BY <2>2, <2>4, <2>5 DEF LoopInv
<1>2. LoopInv /\ [LFNext]_lfvars => LoopInv'
  <2> SUFFICES ASSUME LoopInv, [LFNext]_lfvars PROVE LoopInv'
    OBVIOUS
  <2>1. UNCHANGED <<input, picked>> => PickInv'
    BY DEF LoopInv, PickInv
  <2>2. UNCHANGED <<input, marked>> => MarkInv'
    BY DEF LoopInv, MarkInv, MarkedSet
  <2>3. CASE Pick
    BY <2>2, <2>3, PickKeeps DEF LoopInv, Pick
  <2>4. CASE Mark
    BY <2>1, <2>4, MarkKeeps DEF LoopInv, Mark
  <2>5. CASE UNCHANGED lfvars
    BY <2>1, <2>2, <2>5 DEF LoopInv, lfvars
  <2> QED BY <2>3, <2>4, <2>5 DEF LFNext
<1>3. LoopInv => LoopsMeetTheirClosedForms
  <2> SUFFICES ASSUME LoopInv PROVE LoopsMeetTheirClosedForms
    OBVIOUS
  <2>1. PickedOut => /\ picked = StartablePackets(input)
                     /\ {S \in SUBSET Packet : FillsLanes(input, S)} = {picked}
    BY PickedFills, FillingIsStartable DEF LoopInv, PickInv, PickedOut
  <2>2. Doomed(marked) = {} => marked = CascadeSkips(input)
    BY MarkedIsCascade DEF LoopInv
  <2> QED BY <2>1, <2>2 DEF LoopsMeetTheirClosedForms
<1> QED BY <1>1, <1>2, <1>3, PTL DEF LFSpec

------------------------------------------------------------------------------
(* Reaching over dependencies.                                              *)

\* Every set of its threads that holds the dependencies of its members.
Closed(D, S) == \A t \in S : D[t] \subseteq S

ReachedFrom(D, t) == {u \in DOMAIN D : Reaches(D, t, u)}

\* What a thread reaches is closed, and holds the thread.
LEMMA ReachedIsClosed ==
  ASSUME NEW V, NEW D \in [V -> SUBSET V], NEW t \in V
  PROVE  /\ Reaches(D, t, t)
         /\ \A u \in V : Reaches(D, t, u) => \A d \in D[u] : Reaches(D, t, d)
         /\ \A u : Reaches(D, t, u) => u \in V
<1>1. DOMAIN D = V
  OBVIOUS
<1> QED BY <1>1 DEF Reaches

\* What is reached from something reached is reached.
LEMMA ReachIsTransitive ==
  ASSUME NEW D, NEW t, NEW u, NEW w, Reaches(D, t, u), Reaches(D, u, w)
  PROVE  Reaches(D, t, w)
BY DEF Reaches

\* A closed set is never left.
LEMMA ClosedIsNotLeft ==
  ASSUME NEW V, NEW D \in [V -> SUBSET V], NEW S \in SUBSET V, Closed(D, S),
         NEW t \in S, NEW u, Reaches(D, t, u)
  PROVE  u \in S
<1>1. DOMAIN D = V
  OBVIOUS
<1> QED BY <1>1 DEF Reaches, Closed

\* With more dependencies, no less is reached.
LEMMA MoreIsReached ==
  ASSUME NEW V, NEW D \in [V -> SUBSET V], NEW E \in [V -> SUBSET V],
         \A t \in V : D[t] \subseteq E[t], NEW t, NEW u, Reaches(D, t, u)
  PROVE  Reaches(E, t, u)
<1>1. DOMAIN D = V /\ DOMAIN E = V
  OBVIOUS
<1> QED BY <1>1 DEF Reaches

\* The dependencies with one more, as applyBriefOrdering adds it.
Added(D, p, a) == [D EXCEPT ![p] = @ \cup {a}]

\* A dependency that closes no cycle puts nothing on a cycle.
LEMMA NoNewCycle ==
  ASSUME NEW V, NEW D \in [V -> SUBSET V], NEW p \in V, NEW a \in V, ~Reaches(D, a, p)
  PROVE  OnCycle(Added(D, p, a)) = OnCycle(D)
<1> DEFINE E == Added(D, p, a)
<1>1. /\ E \in [V -> SUBSET V] /\ D \in [V -> SUBSET V]
      /\ \A t \in V : E[t] = IF t = p THEN D[t] \cup {a} ELSE D[t]
  BY DEF Added
<1> HIDE DEF E
<1>2. \A t, u : Reaches(D, t, u) => Reaches(E, t, u)
  <2>1. \A t \in V : D[t] \subseteq E[t]
    BY <1>1
  <2> QED BY ONLY <1>1, <2>1, MoreIsReached
<1>3. ASSUME NEW t \in V, NEW u, Reaches(E, t, u)
      PROVE  Reaches(D, t, u) \/ (Reaches(D, t, p) /\ Reaches(D, a, u))
  <2> DEFINE S == {w \in V : Reaches(D, t, w) \/ (Reaches(D, t, p) /\ Reaches(D, a, w))}
  <2>1. t \in S
    <3>1. Reaches(D, t, t)
      BY ReachedIsClosed
    <3> QED BY <3>1
  <2>2. ASSUME NEW w \in S PROVE E[w] \subseteq S
    <3>1. \A d \in D[w] : d \in S
      <4>1. D[w] \subseteq V
        OBVIOUS
      <4>2. \A d \in D[w] : Reaches(D, t, w) => Reaches(D, t, d)
        BY ReachedIsClosed
      <4>3. \A d \in D[w] : Reaches(D, a, w) => Reaches(D, a, d)
        BY ReachedIsClosed
      <4> QED BY <4>1, <4>2, <4>3
    <3>2. w = p => a \in S
      BY ReachedIsClosed
    <3> QED BY <1>1, <3>1, <3>2
  <2>3. Closed(E, S) /\ S \in SUBSET V
    BY <2>2 DEF Closed
  <2> HIDE DEF S
  <2>4. u \in S
    BY <1>1, <1>3, <2>1, <2>3, ClosedIsNotLeft
  <2> QED BY <2>4 DEF S
<1>4. OnCycle(D) \subseteq OnCycle(E)
  BY <1>1, <1>2 DEF OnCycle
<1>5. OnCycle(E) \subseteq OnCycle(D)
  <2> SUFFICES ASSUME NEW t \in OnCycle(E) PROVE t \in OnCycle(D)
    OBVIOUS
  <2>1. t \in V /\ DOMAIN D = V /\ DOMAIN E = V
    BY <1>1 DEF OnCycle
  <2>2. PICK u \in E[t] : Reaches(E, u, t)
    BY DEF OnCycle
  <2>3. u \in V
    BY <1>1, <2>1
  <2>4. CASE u \in D[t]
    <3>1. Reaches(D, a, t) => Reaches(D, a, u)
      BY <2>1, <2>4, ReachedIsClosed
    <3>2. ~(Reaches(D, u, p) /\ Reaches(D, a, t))
      BY <3>1, ReachIsTransitive
    <3> QED BY <1>3, <2>1, <2>2, <2>3, <2>4, <3>2 DEF OnCycle
  <2>5. CASE u \notin D[t]
    <3>1. t = p /\ u = a
      BY <1>1, <2>1, <2>2, <2>5
    <3> QED BY <1>3, <2>2, <3>1
  <2> QED BY <2>4, <2>5
<1> QED BY <1>4, <1>5 DEF E

\* Nobody depends on what the brief adds.
LEMMA AddedIsOnNoCycle ==
  ASSUME NEW V, NEW D \in [V -> SUBSET V], NEW P, P \cap V = {},
         NEW E \in [V \cup P -> SUBSET V], \A t \in V : E[t] = D[t]
  PROVE  /\ OnCycle(E) = OnCycle(D)
         /\ \A t \in V : \A u : Reaches(D, t, u) => Reaches(E, t, u)
<1>1. DOMAIN D = V /\ DOMAIN E = V \cup P
  OBVIOUS
<1>2. ASSUME NEW t \in V, NEW u PROVE Reaches(D, t, u) <=> Reaches(E, t, u)
  <2>1. ASSUME Reaches(D, t, u), NEW S \in SUBSET (V \cup P), t \in S, \A w \in S : E[w] \subseteq S
        PROVE  u \in S
    <3>1. S \cap V \in SUBSET V /\ t \in S \cap V /\ \A w \in S \cap V : D[w] \subseteq S \cap V
      BY <2>1
    <3> QED BY <1>1, <2>1, <3>1 DEF Reaches
  <2>2. ASSUME Reaches(E, t, u), NEW S \in SUBSET V, t \in S, \A w \in S : D[w] \subseteq S
        PROVE  u \in S
    <3>1. S \in SUBSET (V \cup P) /\ \A w \in S : E[w] \subseteq S
      BY <2>2
    <3> QED BY <1>1, <2>2, <3>1 DEF Reaches
  <2> QED BY <1>1, <2>1, <2>2 DEF Reaches
<1>3. ASSUME NEW t \in OnCycle(E) PROVE t \in OnCycle(D)
  <2>1. PICK u \in E[t] : Reaches(E, u, t)
    BY DEF OnCycle
  <2>2. t \in V \cup P /\ u \in V
    BY <1>1, <2>1 DEF OnCycle
  <2>3. Reaches(D, u, t)
    BY <1>2, <2>1, <2>2
  <2>4. t \in V
    BY <2>2, <2>3, ReachedIsClosed
  <2> QED BY <1>1, <2>1, <2>3, <2>4 DEF OnCycle
<1>4. OnCycle(D) \subseteq OnCycle(E)
  BY <1>1, <1>2 DEF OnCycle
<1> QED BY <1>2, <1>3, <1>4

\* Where every thread waits for another of them, each reaches one on a cycle.
LEMMA WaitingReachesCycle ==
  ASSUME NEW V, IsFiniteSet(V), NEW D \in [V -> SUBSET V], NEW R \in SUBSET V,
         \A t \in R : D[t] \cap R # {}, NEW t \in R
  PROVE  t \in Stuck(D)
<1> DEFINE N(w) == {v \in R : Reaches(D, w, v)}
           Sizes == {Cardinality(N(w)) : w \in N(t)}
<1>1. ASSUME NEW w PROVE IsFiniteSet(N(w)) /\ Cardinality(N(w)) \in Nat
  <2>1. N(w) \in SUBSET V
    OBVIOUS
  <2> QED BY <2>1, FS_Subset, FS_CardinalityType
<1>2. t \in N(t)
  <2>1. Reaches(D, t, t)
    BY ReachedIsClosed
  <2> QED BY <2>1
<1>3. Sizes \in SUBSET Nat /\ Sizes # {}
  BY <1>1, <1>2
<1>4. PICK w \in N(t) : \A x \in N(t) : Cardinality(N(w)) <= Cardinality(N(x))
  <2>1. PICK n \in Sizes : \A k \in Sizes : n <= k
    <3> HIDE DEF Sizes
    <3> QED BY <1>3, LeastNumber
  <2> QED BY <2>1
<1>5. w \in R /\ w \in V /\ Reaches(D, t, w)
  BY <1>4
<1>6. PICK d \in D[w] \cap R : TRUE
  BY <1>5
<1>7. Reaches(D, w, d)
  BY <1>5, <1>6, ReachedIsClosed
<1>8. N(d) \subseteq N(w)
  BY <1>7, ReachIsTransitive
<1>9. d \in N(t)
  BY <1>5, <1>6, <1>7, ReachIsTransitive
<1>10. N(d) = N(w)
  <2>1. Cardinality(N(w)) <= Cardinality(N(d))
    BY <1>4, <1>9
  <2> HIDE DEF N
  <2>2. Cardinality(N(d)) = Cardinality(N(w))
    BY <1>1, <1>8, <2>1, FS_Subset
  <2> QED BY <1>1, <1>8, <2>2, FS_Subset
<1>11. w \in N(w)
  <2>1. Reaches(D, w, w)
    BY <1>5, ReachedIsClosed
  <2> QED BY <1>5, <2>1
<1>12. Reaches(D, d, w)
  BY <1>10, <1>11
<1>13. DOMAIN D = V
  OBVIOUS
<1> HIDE DEF N
<1> QED BY <1>5, <1>6, <1>12, <1>13 DEF Stuck, OnCycle

\* Taking some threads by their places takes each of them.
LEMMA ByScoreTakesEach ==
  ASSUME NEW T \in SUBSET Thread
  PROVE  /\ ByScore(T) \in Seq(T)
         /\ {ByScore(T)[i] : i \in DOMAIN ByScore(T)} = T
<1> DEFINE n == Cardinality(T)
           Upto(t) == {u \in T : Best[u] <= Best[t]}
           place == [t \in T |-> Place(T, t)]
<1>1. IsFiniteSet(T) /\ n \in Nat
  BY ThreadAssumption, FS_Subset, FS_CardinalityType
<1>2. ASSUME NEW t \in T
      PROVE  /\ IsFiniteSet(Upto(t)) /\ Cardinality(Upto(t)) \in 1 .. n
             /\ Place(T, t) = Cardinality(Upto(t))
  <2>1. Upto(t) \in SUBSET T /\ t \in Upto(t)
    BY ThreadAssumption
  <2>2. Place(T, t) = Cardinality(Upto(t))
    BY DEF Place
  <2> HIDE DEF Upto
  <2>3. /\ IsFiniteSet(Upto(t)) /\ Cardinality(Upto(t)) <= n /\ Cardinality(Upto(t)) \in Nat
        /\ Cardinality(Upto(t)) # 0
    BY <1>1, <2>1, FS_Subset, FS_CardinalityType, FS_EmptySet
  <2> QED BY <1>1, <2>2, <2>3
<1>3. ASSUME NEW t \in T, NEW u \in T, Place(T, t) = Place(T, u) PROVE t = u
  <2>1. Best[t] \in Nat /\ Best[u] \in Nat
    BY ThreadAssumption
  <2>2. ASSUME NEW a \in T, NEW b \in T, Best[a] < Best[b] PROVE Place(T, a) # Place(T, b)
    <3>1. Upto(a) \in SUBSET Upto(b) /\ b \in Upto(b) /\ b \notin Upto(a)
      BY <2>2, ThreadAssumption
    <3> HIDE DEF Upto
    <3>2. Upto(a) # Upto(b)
      BY <3>1
    <3> QED BY <1>2, <3>1, <3>2, FS_Subset
  <2>3. Best[t] = Best[u]
    BY <2>1, <2>2, <1>3
  <2> QED BY <2>3, ThreadAssumption
<1>4. place \in Injection(T, 1 .. n)
  <2>1. place \in [T -> 1 .. n]
    BY <1>2
  <2> QED BY <1>3, <2>1 DEF Injection, IsInjective
<1>5. place \in Surjection(T, 1 .. n)
  <2>1. IsFiniteSet(1 .. n) /\ Cardinality(1 .. n) = n
    BY <1>1, FS_Interval
  <2> HIDE DEF place
  <2> QED BY <1>1, <1>4, <2>1, FS_Injection
<1>6. \A i \in 1 .. n : \E t \in T : Place(T, t) = i
  BY <1>5 DEF Surjection
<1>7. /\ ByScore(T) = [i \in 1 .. n |-> CHOOSE t \in T : Place(T, t) = i]
      /\ \A i \in 1 .. n : ByScore(T)[i] \in T /\ Place(T, ByScore(T)[i]) = i
  BY <1>6 DEF ByScore
<1>8. DOMAIN ByScore(T) = 1 .. n /\ ByScore(T) \in Seq(T)
  BY <1>1, <1>7
<1>9. ASSUME NEW t \in T PROVE Place(T, t) \in 1 .. n /\ ByScore(T)[Place(T, t)] = t
  <2>1. Place(T, t) \in 1 .. n
    BY <1>2
  <2>2. ByScore(T)[Place(T, t)] \in T /\ Place(T, ByScore(T)[Place(T, t)]) = Place(T, t)
    BY <1>7, <2>1
  <2> QED BY <1>3, <2>1, <2>2
<1> QED BY <1>7, <1>8, <1>9

------------------------------------------------------------------------------
(* The order of the packets.                                                *)

OrderedBefore(j) == {ordered[i] : i \in 1 .. j - 1}

\* While planning, what is ordered holds the dependencies of its members, each
\* listed earlier, and is on no cycle; the others wait for each other.
Planning ==
  /\ DOMAIN remaining \subseteq DOMAIN planned
  /\ remaining = [t \in DOMAIN remaining |-> planned[t] \cap DOMAIN remaining]
  /\ {ordered[i] : i \in DOMAIN ordered} = DOMAIN planned \ DOMAIN remaining
  /\ Closed(planned, DOMAIN planned \ DOMAIN remaining)
  /\ (DOMAIN planned \ DOMAIN remaining) \cap OnCycle(planned) = {}

\* The orderings the loop has come to, and what is on a cycle.
Read ==
  /\ depends \in [DOMAIN planned -> SUBSET DOMAIN planned]
  /\ OnCycle(depends) = OnCycle(planned)
  /\ unread \subseteq after /\ after \subseteq (DOMAIN planned) \X (DOMAIN planned)
  /\ \A e \in after \ unread : e[2] \in depends[e[1]] \/ Reaches(depends, e[2], e[1])

\* What the two loops have done at any moment.
OrderInv ==
  /\ DOMAIN planned \in SUBSET Thread
  /\ planned \in [DOMAIN planned -> SUBSET DOMAIN planned]
  /\ stage \in {"planning", "planned", "ordering", "confirmed"}
  /\ ordered \in Seq(Thread \cup SystemThread)
  /\ \A j \in DOMAIN ordered :
       stage = "planning" \/ ordered[j] \in DOMAIN planned \ cycles =>
         planned[ordered[j]] \subseteq OrderedBefore(j)
  /\ stage = "planning" => Planning
  /\ stage # "planning" => cycles = Stuck(planned)
  /\ stage \in {"planning", "planned"} => depends = planned
  /\ stage = "ordering" => Read
  /\ stage = "confirmed" =>
       /\ OnCycle(depends) = OnCycle(planned)
       /\ \A e \in after : e[2] \in depends[e[1]] \/ Reaches(depends, e[2], e[1])

\* A finite set read in some order is a sequence of its members.
LEMMA SetAsSequence ==
  ASSUME NEW S, IsFiniteSet(S)
  PROVE  SetToSeq(S) \in Seq(S)
<1>1. Cardinality(S) \in Nat /\ \E f \in [1 .. Cardinality(S) -> S] : IsInjective(f)
  BY FS_CardinalityType DEF ExistsBijection, Bijection, Injection, IsInjective
<1>2. SetToSeq(S) \in [1 .. Cardinality(S) -> S]
  BY <1>1 DEF SetToSeq
<1> QED BY <1>1, <1>2

\* It holds of every set of threads with every graph of calls.
LEMMA OrderInitially == OrderInit => OrderInv
<1> SUFFICES ASSUME OrderInit PROVE OrderInv
  OBVIOUS
<1>1. PICK matched \in (SUBSET Thread) \ {{}} : \E calls \in SUBSET Edges(matched) :
             planned = [t \in matched |-> {u \in matched : <<t, u>> \in calls}]
  BY DEF OrderInit
<1>2. /\ DOMAIN planned \in SUBSET Thread /\ planned \in [DOMAIN planned -> SUBSET DOMAIN planned]
      /\ stage = "planning" /\ depends = planned /\ remaining = planned /\ ordered = <<>>
  BY <1>1 DEF OrderInit
<1>3. Planning
  <2>1. remaining = [t \in DOMAIN remaining |-> planned[t] \cap DOMAIN remaining]
    BY <1>2
  <2> QED BY <1>2, <2>1 DEF Planning, Closed
<1> QED BY <1>2, <1>3 DEF OrderInv

\* A list that goes on keeps what stood before each of its members.
LEMMA ListGoesOn ==
  ASSUME NEW U, ordered \in Seq(U), NEW more \in Seq(U), ordered' = ordered \o more
  PROVE  /\ ordered' \in Seq(U)
         /\ \A j \in DOMAIN ordered : /\ j \in DOMAIN ordered' /\ ordered'[j] = ordered[j]
                                      /\ OrderedBefore(j)' = OrderedBefore(j)
         /\ \A j \in DOMAIN ordered' \ DOMAIN ordered :
              /\ {ordered[i] : i \in DOMAIN ordered} \subseteq OrderedBefore(j)'
              /\ \E k \in DOMAIN more : ordered'[j] = more[k]
         /\ \A k \in DOMAIN more : \E i \in DOMAIN ordered' : ordered'[i] = more[k]
<1> DEFINE m == Len(ordered)
           n == Len(more)
<1>1. /\ m \in Nat /\ n \in Nat /\ DOMAIN ordered = 1 .. m /\ DOMAIN more = 1 .. n
      /\ ordered' \in Seq(U) /\ Len(ordered') = m + n /\ DOMAIN ordered' = 1 .. m + n
      /\ \A j \in 1 .. m + n : ordered'[j] = IF j <= m THEN ordered[j] ELSE more[j - m]
  OBVIOUS
<1> HIDE DEF m, n
<1>2. \A j \in 1 .. m : ordered'[j] = ordered[j]
  BY <1>1
<1>3. \A j \in 1 .. m : OrderedBefore(j)' = OrderedBefore(j)
  <2> SUFFICES ASSUME NEW j \in 1 .. m
               PROVE  {ordered'[i] : i \in 1 .. j - 1} = {ordered[i] : i \in 1 .. j - 1}
    BY DEF OrderedBefore
  <2>1. \A i \in 1 .. j - 1 : i \in 1 .. m
    BY <1>1
  <2> QED BY <1>2, <2>1
<1>4. ASSUME NEW j \in DOMAIN ordered' \ DOMAIN ordered
      PROVE  /\ {ordered[i] : i \in DOMAIN ordered} \subseteq OrderedBefore(j)'
             /\ j - m \in 1 .. n /\ ordered'[j] = more[j - m]
  <2>1. j \in 1 .. m + n /\ j > m
    BY <1>1
  <2>2. \A i \in 1 .. m : i \in 1 .. j - 1 /\ ordered'[i] = ordered[i]
    BY <1>1, <1>2, <2>1
  <2> QED BY <1>1, <2>1, <2>2 DEF OrderedBefore
<1>5. \A k \in 1 .. n : k + m \in 1 .. m + n /\ ordered'[k + m] = more[k]
  BY <1>1
<1>6. \A k \in DOMAIN more : \E i \in DOMAIN ordered' : ordered'[i] = more[k]
  BY <1>1, <1>5
<1>7. \A j \in DOMAIN ordered : j \in DOMAIN ordered' /\ ordered'[j] = ordered[j]
  BY <1>1, <1>2
<1>8. \A j \in DOMAIN ordered : OrderedBefore(j)' = OrderedBefore(j)
  BY <1>1, <1>3
<1>9. \A j \in DOMAIN ordered' \ DOMAIN ordered :
        /\ {ordered[i] : i \in DOMAIN ordered} \subseteq OrderedBefore(j)'
        /\ \E k \in DOMAIN more : ordered'[j] = more[k]
  BY <1>1, <1>4
<1> QED BY <1>1, <1>6, <1>7, <1>8, <1>9

\* A round orders what waits for nothing that is left.
LEMMA RoundKeeps ==
  ASSUME OrderInv, Round
  PROVE  OrderInv'
<1> DEFINE V == DOMAIN planned
           R == DOMAIN remaining
           O == V \ R
           N == V \ (R \ Free)
           U == Thread \cup SystemThread
<1>1. /\ V \in SUBSET Thread /\ planned \in [V -> SUBSET V] /\ ordered \in Seq(U)
      /\ stage = "planning" /\ stage' = "planning" /\ planned' = planned /\ V' = V
      /\ R \subseteq V /\ \A t \in R : remaining[t] = planned[t] \cap R
      /\ {ordered[i] : i \in DOMAIN ordered} = O
      /\ Closed(planned, O) /\ O \cap OnCycle(planned) = {}
      /\ \A j \in DOMAIN ordered : planned[ordered[j]] \subseteq OrderedBefore(j)
      /\ depends = planned /\ depends' = planned
  BY DEF OrderInv, Planning, Round
<1>2. /\ Free \subseteq R /\ \A t \in Free : planned[t] \subseteq O
      /\ ordered' = ordered \o ByScore(Free)
      /\ remaining' = [t \in R \ Free |-> remaining[t] \ Free]
  BY <1>1 DEF Free, Round
<1>3. Free \in SUBSET Thread /\ ByScore(Free) \in Seq(U)
      /\ {ByScore(Free)[i] : i \in DOMAIN ByScore(Free)} = Free
  <2>1. Free \in SUBSET Thread
    BY <1>1, <1>2
  <2>2. ByScore(Free) \in Seq(Free) /\ {ByScore(Free)[i] : i \in DOMAIN ByScore(Free)} = Free
    BY <2>1, ByScoreTakesEach
  <2>3. Free \subseteq U
    BY <2>1
  <2> HIDE DEF U
  <2> QED BY <2>1, <2>2, <2>3
<1> HIDE DEF U
<1>4. N = O \cup Free /\ N \subseteq V /\ R' = R \ Free /\ V \ R' = N
  BY <1>1, <1>2
<1>5. Closed(planned, N)
  BY <1>1, <1>2, <1>4 DEF Closed
<1>6. N \cap OnCycle(planned) = {}
  <2> SUFFICES ASSUME NEW t \in Free, t \in OnCycle(planned) PROVE FALSE
    BY <1>1, <1>4
  <2>1. PICK u \in planned[t] : Reaches(planned, u, t)
    BY DEF OnCycle
  <2>2. u \in O /\ O \in SUBSET V
    BY <1>2, <2>1
  <2>3. t \in O
    BY <1>1, <2>1, <2>2, ClosedIsNotLeft
  <2> QED BY <1>2, <2>3
<1>7. /\ ordered' \in Seq(U)
      /\ {ordered'[i] : i \in DOMAIN ordered'} = N
      /\ \A j \in DOMAIN ordered : ordered'[j] = ordered[j] /\ OrderedBefore(j)' = OrderedBefore(j)
      /\ \A j \in DOMAIN ordered' \ DOMAIN ordered :
           O \subseteq OrderedBefore(j)' /\ ordered'[j] \in Free
  <2> DEFINE more == ByScore(Free)
  <2> HIDE DEF O, N, R, more
  <2>1. ordered \in Seq(U) /\ more \in Seq(U) /\ ordered' = ordered \o more
    BY <1>1, <1>2, <1>3 DEF more
  <2>2. /\ ordered' \in Seq(U)
        /\ \A j \in DOMAIN ordered : ordered'[j] = ordered[j] /\ OrderedBefore(j)' = OrderedBefore(j)
    BY ONLY <2>1, ListGoesOn
  <2>3. \A j \in DOMAIN ordered' \ DOMAIN ordered :
          /\ {ordered[i] : i \in DOMAIN ordered} \subseteq OrderedBefore(j)'
          /\ \E k \in DOMAIN more : ordered'[j] = more[k]
    BY ONLY <2>1, ListGoesOn
  <2>4. \A k \in DOMAIN more : \E i \in DOMAIN ordered' : ordered'[i] = more[k]
    BY ONLY <2>1, ListGoesOn
  <2>5. /\ {more[k] : k \in DOMAIN more} = Free /\ {ordered[i] : i \in DOMAIN ordered} = O
        /\ \A k \in DOMAIN more : more[k] \in Free
    BY <1>1, <1>3 DEF more
  <2>6. DOMAIN ordered \subseteq DOMAIN ordered'
    BY <2>1
  <2>7. {ordered'[i] : i \in DOMAIN ordered'} = O \cup Free
    BY <2>2, <2>3, <2>4, <2>5, <2>6
  <2> QED BY <1>4, <2>2, <2>3, <2>5, <2>7
<1>8. \A j \in DOMAIN ordered' : planned[ordered'[j]] \subseteq OrderedBefore(j)'
  <2> SUFFICES ASSUME NEW j \in DOMAIN ordered'
               PROVE  planned[ordered'[j]] \subseteq OrderedBefore(j)'
    OBVIOUS
  <2>1. CASE j \in DOMAIN ordered
    BY <1>1, <1>7, <2>1
  <2>2. CASE j \notin DOMAIN ordered
    BY <1>2, <1>7, <2>2
  <2> QED BY <2>1, <2>2
<1>9. \A t \in R \ Free : remaining[t] \ Free = planned[t] \cap (R \ Free)
  BY <1>1
<1>10. Planning'
  <2>1. remaining' = [t \in R' |-> planned[t] \cap R']
    BY <1>2, <1>4, <1>9
  <2> QED BY <1>1, <1>4, <1>5, <1>6, <1>7, <2>1 DEF Planning, Closed
<1> QED BY <1>1, <1>7, <1>8, <1>10 DEF OrderInv, U

\* Nothing is free: what is left is what can never start.
LEMMA FinishKeeps ==
  ASSUME OrderInv, FinishPlan
  PROVE  OrderInv'
<1> DEFINE V == DOMAIN planned
           R == DOMAIN remaining
           O == V \ R
           U == Thread \cup SystemThread
<1>1. /\ V \in SUBSET Thread /\ planned \in [V -> SUBSET V] /\ ordered \in Seq(U)
      /\ stage = "planning" /\ stage' = "planned" /\ planned' = planned /\ V' = V
      /\ R \subseteq V /\ \A t \in R : remaining[t] = planned[t] \cap R
      /\ Closed(planned, O) /\ O \cap OnCycle(planned) = {}
      /\ \A j \in DOMAIN ordered : planned[ordered[j]] \subseteq OrderedBefore(j)
      /\ depends = planned /\ depends' = planned /\ cycles' = R
      /\ ordered' = ordered \o ByScore(R)
  BY DEF OrderInv, Planning, FinishPlan
<1>2. ByScore(R) \in Seq(U) /\ {ByScore(R)[i] : i \in DOMAIN ByScore(R)} = R
  <2>1. R \in SUBSET Thread /\ R \subseteq U
    BY <1>1
  <2>2. ByScore(R) \in Seq(R) /\ {ByScore(R)[i] : i \in DOMAIN ByScore(R)} = R
    BY <2>1, ByScoreTakesEach
  <2> HIDE DEF U, R
  <2> QED BY <2>1, <2>2
<1>3. R = Stuck(planned)
  <2>1. ASSUME NEW t \in R PROVE t \in Stuck(planned)
    <3>1. IsFiniteSet(V)
      BY <1>1, ThreadAssumption, FS_Subset
    <3>2. \A u \in R : planned[u] \cap R # {}
      BY <1>1 DEF FinishPlan, Free
    <3>3. R \in SUBSET V
      BY <1>1
    <3> HIDE DEF V, R
    <3> QED BY <1>1, <3>1, <3>2, <3>3, WaitingReachesCycle
  <2>2. ASSUME NEW t \in Stuck(planned), t \notin R PROVE FALSE
    <3>1. t \in O /\ O \in SUBSET V
      BY <2>2 DEF Stuck
    <3>2. PICK u \in OnCycle(planned) : Reaches(planned, t, u)
      BY <2>2 DEF Stuck
    <3>3. u \in O
      BY <1>1, <3>1, <3>2, ClosedIsNotLeft
    <3> QED BY <1>1, <3>3
  <2> QED BY <2>1, <2>2
<1>4. /\ ordered' \in Seq(U)
      /\ \A j \in DOMAIN ordered : ordered'[j] = ordered[j] /\ OrderedBefore(j)' = OrderedBefore(j)
      /\ \A j \in DOMAIN ordered' \ DOMAIN ordered : ordered'[j] \in R
  <2> HIDE DEF U, R
  <2> QED BY <1>1, <1>2, ListGoesOn
<1>5. \A j \in DOMAIN ordered' : ordered'[j] \in V \ R => planned[ordered'[j]] \subseteq OrderedBefore(j)'
  <2> SUFFICES ASSUME NEW j \in DOMAIN ordered', ordered'[j] \in V \ R
               PROVE  planned[ordered'[j]] \subseteq OrderedBefore(j)'
    OBVIOUS
  <2>1. j \in DOMAIN ordered
    BY <1>4
  <2> QED BY <1>1, <1>4, <2>1
<1> QED BY <1>1, <1>3, <1>4, <1>5 DEF OrderInv, U

\* The brief's orderings, none of them read yet.
LEMMA BriefKeeps ==
  ASSUME OrderInv, BriefArrives
  PROVE  OrderInv'
<1>1. /\ after' = unread' /\ after' \in SUBSET Edges(DOMAIN planned)
      /\ stage = "planned" /\ stage' = "ordering" /\ depends' = planned
      /\ UNCHANGED <<planned, ordered, cycles>>
  BY DEF BriefArrives, OrderInv
<1>2. after' \subseteq (DOMAIN planned) \X (DOMAIN planned)
  BY <1>1 DEF Edges
<1>3. planned \in [DOMAIN planned -> SUBSET DOMAIN planned]
  BY DEF OrderInv
<1>4. Read'
  BY <1>1, <1>2, <1>3 DEF Read
<1>5. \A j : OrderedBefore(j)' = OrderedBefore(j)
  BY <1>1 DEF OrderedBefore
<1> QED BY <1>1, <1>4, <1>5 DEF OrderInv

\* An ordering is added unless it closes a cycle.
LEMMA AfterKeeps ==
  ASSUME OrderInv, ApplyAfter
  PROVE  OrderInv'
<1> DEFINE V == DOMAIN planned
<1>1. /\ planned \in [V -> SUBSET V] /\ depends \in [V -> SUBSET V]
      /\ stage = "ordering" /\ OnCycle(depends) = OnCycle(planned)
      /\ unread \subseteq after /\ after \subseteq V \X V
      /\ \A e \in after \ unread : e[2] \in depends[e[1]] \/ Reaches(depends, e[2], e[1])
      /\ UNCHANGED <<stage, planned, ordered, cycles, after>>
  BY DEF OrderInv, Read, ApplyAfter
<1>2. PICK e \in unread :
        /\ unread' = unread \ {e}
        /\ depends' = IF e[2] \in depends[e[1]] \/ ClosesCycle(e[1], e[2]) THEN depends
                      ELSE [depends EXCEPT ![e[1]] = @ \cup {e[2]}]
  BY DEF ApplyAfter
<1>3. e[1] \in V /\ e[2] \in V
  BY <1>1, <1>2
<1>4. /\ depends' \in [V -> SUBSET V] /\ \A t \in V : depends[t] \subseteq depends'[t]
      /\ OnCycle(depends') = OnCycle(depends)
      /\ e[2] \in depends'[e[1]] \/ Reaches(depends', e[2], e[1])
  <2>1. CASE e[2] \in depends[e[1]] \/ ClosesCycle(e[1], e[2])
    <3>1. depends' = depends
      BY <1>2, <2>1
    <3> QED BY <1>1, <2>1, <3>1 DEF ClosesCycle
  <2>2. CASE ~(e[2] \in depends[e[1]] \/ ClosesCycle(e[1], e[2]))
    <3> DEFINE p == e[1]
               a == e[2]
    <3>1. ~Reaches(depends, a, p) /\ depends' = Added(depends, p, a)
      BY <1>2, <2>2 DEF ClosesCycle, Added
    <3>2. p \in V /\ a \in V /\ depends \in [V -> SUBSET V]
      BY <1>1, <1>3
    <3> HIDE DEF p, a, V
    <3>3. OnCycle(depends') = OnCycle(depends)
      BY ONLY <3>1, <3>2, NoNewCycle
    <3>4. /\ depends' \in [V -> SUBSET V]
          /\ \A t \in V : depends'[t] = IF t = p THEN depends[t] \cup {a} ELSE depends[t]
      BY ONLY <3>1, <3>2 DEF Added
    <3>5. a \in depends'[p] /\ \A t \in V : depends[t] \subseteq depends'[t]
      BY ONLY <3>2, <3>4
    <3> QED BY <3>3, <3>4, <3>5 DEF p, a
  <2> QED BY <2>1, <2>2
<1>5. \A d \in after \ unread' : d[2] \in depends'[d[1]] \/ Reaches(depends', d[2], d[1])
  <2> SUFFICES ASSUME NEW d \in after \ unread', d # e
               PROVE  d[2] \in depends'[d[1]] \/ Reaches(depends', d[2], d[1])
    BY <1>4
  <2>1. d \in after \ unread /\ d[1] \in V
    BY <1>1, <1>2
  <2>2. Reaches(depends, d[2], d[1]) => Reaches(depends', d[2], d[1])
    <3> HIDE DEF V
    <3> QED BY <1>1, <1>4, MoreIsReached
  <2> QED BY <1>1, <1>4, <2>1, <2>2
<1>6. Read'
  BY <1>1, <1>2, <1>4, <1>5 DEF Read
<1>7. \A j : OrderedBefore(j)' = OrderedBefore(j)
  BY <1>1 DEF OrderedBefore
<1> QED BY <1>1, <1>6, <1>7 DEF OrderInv

\* The brief's packets join, after the others.
LEMMA MaterializeKeeps ==
  ASSUME OrderInv, Materialize
  PROVE  OrderInv'
<1> DEFINE V == DOMAIN planned
           U == Thread \cup SystemThread
<1>1. /\ V \in SUBSET Thread /\ planned \in [V -> SUBSET V] /\ depends \in [V -> SUBSET V]
      /\ stage = "ordering" /\ stage' = "confirmed" /\ ordered \in Seq(U)
      /\ OnCycle(depends) = OnCycle(planned) /\ unread = {}
      /\ after \subseteq V \X V
      /\ \A e \in after : e[2] \in depends[e[1]] \/ Reaches(depends, e[2], e[1])
      /\ \A j \in DOMAIN ordered :
           ordered[j] \in V \ cycles => planned[ordered[j]] \subseteq OrderedBefore(j)
      /\ UNCHANGED <<planned, cycles, after>>
  BY DEF OrderInv, Read, Materialize
<1>2. PICK proposed \in SUBSET SystemThread :
        /\ \E follows \in [proposed -> SUBSET DOMAIN depends] :
             depends' = [t \in DOMAIN depends \cup proposed |->
                           IF t \in proposed THEN follows[t] ELSE depends[t]]
        /\ ordered' = ordered \o SetToSeq(proposed)
  BY DEF Materialize
<1>3. proposed \cap V = {} /\ IsFiniteSet(proposed)
  BY <1>1, <1>2, ThreadAssumption, FS_Subset
<1>4. DOMAIN depends = V
  BY <1>1
<1>5. depends' \in [V \cup proposed -> SUBSET V] /\ \A t \in V : depends'[t] = depends[t]
  <2> HIDE DEF V
  <2> QED BY <1>1, <1>2, <1>3, <1>4
<1>6. /\ OnCycle(depends') = OnCycle(depends)
      /\ \A t \in V : \A u : Reaches(depends, t, u) => Reaches(depends', t, u)
  <2> HIDE DEF V
  <2> QED BY <1>1, <1>3, <1>5, AddedIsOnNoCycle
<1>7. \A e \in after : e[2] \in depends'[e[1]] \/ Reaches(depends', e[2], e[1])
  BY <1>1, <1>5, <1>6
<1>8. SetToSeq(proposed) \in Seq(proposed) /\ SetToSeq(proposed) \in Seq(U)
  <2>1. SetToSeq(proposed) \in Seq(proposed) /\ proposed \subseteq U
    BY <1>3, SetAsSequence
  <2> HIDE DEF U
  <2> QED BY <2>1
<1>9. /\ ordered' \in Seq(U)
      /\ \A j \in DOMAIN ordered : ordered'[j] = ordered[j] /\ OrderedBefore(j)' = OrderedBefore(j)
      /\ \A j \in DOMAIN ordered' \ DOMAIN ordered : ordered'[j] \in proposed
  <2> DEFINE more == SetToSeq(proposed)
  <2> HIDE DEF U, more
  <2>1. ordered \in Seq(U) /\ more \in Seq(U) /\ ordered' = ordered \o more
    BY <1>1, <1>2, <1>8 DEF more
  <2>2. /\ ordered' \in Seq(U)
        /\ \A j \in DOMAIN ordered : ordered'[j] = ordered[j] /\ OrderedBefore(j)' = OrderedBefore(j)
        /\ \A j \in DOMAIN ordered' \ DOMAIN ordered : \E k \in DOMAIN more : ordered'[j] = more[k]
    BY ONLY <2>1, ListGoesOn
  <2>3. \A k \in DOMAIN more : more[k] \in proposed
    BY <1>8 DEF more
  <2> QED BY <2>2, <2>3
<1>10. \A j \in DOMAIN ordered' :
         ordered'[j] \in V \ cycles => planned[ordered'[j]] \subseteq OrderedBefore(j)'
  <2> SUFFICES ASSUME NEW j \in DOMAIN ordered', ordered'[j] \in V \ cycles
               PROVE  planned[ordered'[j]] \subseteq OrderedBefore(j)'
    OBVIOUS
  <2>1. j \in DOMAIN ordered
    BY <1>3, <1>9
  <2> QED BY <1>1, <1>9, <2>1
<1>11. cycles = Stuck(planned)
  BY <1>1 DEF OrderInv
<1> QED BY <1>1, <1>6, <1>7, <1>9, <1>10, <1>11 DEF OrderInv, U

\* The plan lists what a packet waits for before it, reports exactly what can
\* never start, and takes the brief's orderings unless they close a cycle
\* (planWork, plan_work.ts; applyBriefOrdering and materializeSystemPackets,
\* orchestration.ts): for every set of threads and every graph of calls.
THEOREM OrderIsAlwaysHonest == OrderSpec => []OrderIsHonest
<1>1. OrderInv /\ [OrderNext]_orderVars => OrderInv'
  <2> SUFFICES ASSUME OrderInv, [OrderNext]_orderVars PROVE OrderInv'
    OBVIOUS
  <2>1. CASE UNCHANGED orderVars
    <3>1. /\ \A j : OrderedBefore(j)' = OrderedBefore(j)
          /\ Planning' = Planning /\ Read' = Read
      BY <2>1 DEF orderVars, OrderedBefore, Planning, Read
    <3> QED BY <2>1, <3>1 DEF orderVars, OrderInv
  <2> QED BY <2>1, RoundKeeps, FinishKeeps, BriefKeeps, AfterKeeps, MaterializeKeeps DEF OrderNext
<1>2. OrderInv => OrderIsHonest
  BY DEF OrderInv, OrderIsHonest, OrderedBefore
<1> QED BY <1>1, <1>2, OrderInitially, PTL DEF OrderSpec
=============================================================================
