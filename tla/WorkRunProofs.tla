---------------------------- MODULE WorkRunProofs ----------------------------
(***************************************************************************)
(* What the rules of WorkRun preserve, for any plan and any number of      *)
(* lanes: facts about one run object, without reference to who calls them. *)
(***************************************************************************)
EXTENDS WorkRun, FiniteSetTheorems, WellFoundedInduction, TLAPS

\* Any numbers have a least one.
LEMMA LeastNumber ==
  ASSUME NEW N \in SUBSET Nat, N # {}
  PROVE  \E n \in N : \A k \in N : n <= k
<1> DEFINE Up == {1 .. n : n \in N}
           R == StrictSubsetOrdering(Nat)
<1>1. Up \subseteq FiniteSubsetsOf(Nat) /\ Up # {}
  <2>1. \A n \in N : IsFiniteSet(1 .. n) /\ 1 .. n \in SUBSET Nat
    BY FS_Interval
  <2>2. \A n \in N : 1 .. n \in FiniteSubsetsOf(Nat)
    BY <2>1 DEF FiniteSubsetsOf
  <2> QED BY <2>2
<1>2. IsWellFoundedOn(R, FiniteSubsetsOf(Nat))
  BY FS_StrictSubsetOrderingWellFounded
<1> HIDE DEF R
<1>3. PICK D \in Up : \A E \in Up : ~(<<E, D>> \in R)
  BY ONLY <1>1, <1>2, WFMin
<1>4. PICK n \in N : D = 1 .. n
  OBVIOUS
<1>5. ASSUME NEW k \in N, k < n PROVE FALSE
  <2>1. 1 .. k \in Up /\ 1 .. k \subseteq 1 .. n /\ n \notin 1 .. k /\ n \in 1 .. n
    BY <1>5
  <2>2. <<1 .. k, 1 .. n>> \in R
    BY <2>1 DEF R, StrictSubsetOrdering
  <2> QED BY <1>3, <1>4, <2>1, <2>2
<1> QED BY <1>4, <1>5

\* r1 is r0 as far as InRun, DependsOn and EditScopeOf can tell.
SamePlan(r0, r1) == /\ r1.brief = r0.brief
                    /\ r1.status = "draft" <=> r0.status = "draft"

\* The operators that read the plan through r do not see a difference.
LEMMA SamePlanSamePackets ==
  ASSUME NEW r0, NEW r1, SamePlan(r0, r1)
  PROVE  /\ InRun(r1) = InRun(r0)
         /\ \A p : DependsOn(r1, p) = DependsOn(r0, p)
         /\ \A p : EditScopeOf(r1, p) = EditScopeOf(r0, p)
         /\ \A p, q : LaneCompatible(r1, p, q) <=> LaneCompatible(r0, p, q)
BY DEF SamePlan, InRun, DependsOn, EditScopeOf, LaneCompatible

\* The sets of packets the rules speak of are sets of packets.
LEMMA PacketSets ==
  ASSUME NEW r
  PROVE  /\ InRun(r) \subseteq Packet
         /\ InFlight(r) \subseteq InRun(r)
         /\ \A p : DependsOn(r, p) \subseteq InRun(r)
         /\ IsFiniteSet(InFlight(r)) /\ IsFiniteSet(InRun(r))
<1>1. InRun(r) \subseteq Packet /\ InFlight(r) \subseteq InRun(r)
  BY DEF InRun, InFlight
<1>2. \A p : DependsOn(r, p) \subseteq InRun(r)
  BY DEF DependsOn
<1>3. IsFiniteSet(InFlight(r)) /\ IsFiniteSet(InRun(r))
  BY <1>1, PacketAssumption, FS_Subset
<1> QED BY <1>1, <1>2, <1>3

\* The absent run has the shape of a run.
LEMMA NoRunIsRun == NoRun \in Run
BY DEF NoRun, Run, RunStatus, BriefStatus, PacketStatus

\* StartablePackets either fills the lanes or starts nothing.
LEMMA StartableFills ==
  ASSUME NEW r
  PROVE  /\ StartablePackets(r) \subseteq Runnable(r)
         /\ StartablePackets(r) # {} => FillsLanes(r, StartablePackets(r))
<1> DEFINE Fill(S) == S \in SUBSET Runnable(r) /\ FillsLanes(r, S)
<1>1. CASE \E S \in SUBSET Runnable(r) : FillsLanes(r, S)
  BY <1>1 DEF StartablePackets
<1>2. CASE ~\E S \in SUBSET Runnable(r) : FillsLanes(r, S)
  <2> StartablePackets(r) = {}
    BY <1>2 DEF StartablePackets
  <2> QED OBVIOUS
<1> QED BY <1>1, <1>2

\* A cascade only turns pending packets of the run into skipped ones.
LEMMA CascadeFrame ==
  ASSUME NEW r \in Run
  PROVE  /\ CascadeSkips(r) \in Run
         /\ CascadeSkips(r) = [r EXCEPT !.packet = CascadeSkips(r).packet]
         /\ \A p \in Packet :
              \/ CascadeSkips(r).packet[p] = r.packet[p]
              \/ /\ p \in InRun(r) /\ r.packet[p] = "pending"
                 /\ CascadeSkips(r).packet[p] = "skipped"
BY DEF CascadeSkips, Run, PacketStatus, InRun

\* The cascade leaves exactly the pending packets without a dead dependency
\* pending: it is closed, and nothing smaller is.
LEMMA CascadeIsExact ==
  ASSUME NEW r \in Run, NEW p \in InRun(r), r.packet[p] = "pending"
  PROVE  CascadeSkips(r).packet[p] = "skipped"
           <=> DependsOn(r, p) \cap Dead(CascadeSkips(r)) # {}
<1> DEFINE In(q) == \A K \in SUBSET InRun(r) : ClosedUnderSkip(r, K) => q \in K
           Lost == {q \in InRun(r) : r.packet[q] = "pending" /\ In(q)}
           k == CascadeSkips(r)
<1>1. k.packet = [q \in Packet |-> IF q \in Lost THEN "skipped" ELSE r.packet[q]]
  BY DEF CascadeSkips, Run
<1>2. InRun(k) = InRun(r) /\ InRun(r) \subseteq Packet
  BY CascadeFrame, PacketSets DEF InRun, Run
<1>3. Dead(k) = Dead(r) \cup Lost
  BY <1>1, <1>2 DEF Dead
<1>4. k.packet[p] = "skipped" <=> p \in Lost
  BY <1>1, <1>2
<1>5. ASSUME NEW q \in InRun(r), r.packet[q] = "pending",
             DependsOn(r, q) \cap (Dead(r) \cup Lost) # {}
      PROVE  q \in Lost
  <2> SUFFICES ASSUME NEW K \in SUBSET InRun(r), ClosedUnderSkip(r, K) PROVE q \in K
    BY <1>5
  <2>1. Lost \subseteq K
    OBVIOUS
  <2>2. DependsOn(r, q) \cap (Dead(r) \cup K) # {}
    BY <1>5, <2>1
  <2> QED BY <1>5, <2>2 DEF ClosedUnderSkip
<1>6. ASSUME p \in Lost, DependsOn(r, p) \cap (Dead(r) \cup Lost) = {}
      PROVE  FALSE
  <2>1. ClosedUnderSkip(r, Lost \ {p})
    <3> SUFFICES ASSUME NEW q \in InRun(r), r.packet[q] = "pending",
                        DependsOn(r, q) \cap (Dead(r) \cup (Lost \ {p})) # {}
                 PROVE  q \in Lost \ {p}
      BY DEF ClosedUnderSkip
    <3>1. DependsOn(r, q) \cap (Dead(r) \cup Lost) # {}
      OBVIOUS
    <3> QED BY <3>1, <1>5, <1>6
  <2> QED BY <2>1, <1>6
<1> QED BY <1>3, <1>4, <1>5, <1>6

\* A legal move of setPacketStatus: the packet takes its new status and, if
\* that killed it, some pending packets are skipped with it.
LEMMA LegalMove ==
  ASSUME NEW r \in Run, NEW p \in Packet, NEW next \in PacketStatus, Legal(r, p, next),
         NEW s, s = SetPacketStatus(r, p, next), next # "running"
  PROVE  /\ s \in Run
         /\ s = [r EXCEPT !.packet = s.packet]
         /\ s.packet[p] = next
         /\ \A q \in Packet \ {p} :
              \/ s.packet[q] = r.packet[q]
              \/ /\ q \in InRun(r) /\ r.packet[q] = "pending"
                 /\ s.packet[q] = "skipped" /\ next \in {"failed", "skipped"}
<1> DEFINE moved == [r EXCEPT !.packet[p] = next]
<1>1. /\ moved \in Run /\ moved = [r EXCEPT !.packet = moved.packet]
      /\ moved.packet[p] = next
      /\ \A q \in Packet \ {p} : moved.packet[q] = r.packet[q]
      /\ InRun(moved) = InRun(r)
  BY DEF Run, InRun
<1>2. CASE next \in {"failed", "skipped"}
  <2>1. s = CascadeSkips(moved)
    BY <1>2 DEF SetPacketStatus
  <2> HIDE DEF moved
  <2>2. /\ s \in Run /\ s = [moved EXCEPT !.packet = s.packet]
        /\ \A q \in Packet :
             \/ s.packet[q] = moved.packet[q]
             \/ /\ q \in InRun(moved) /\ moved.packet[q] = "pending"
                /\ s.packet[q] = "skipped"
    BY <1>1, <2>1, CascadeFrame
  <2>3. s = [r EXCEPT !.packet = s.packet]
    BY <1>1, <2>2 DEF Run
  <2> QED BY <1>1, <1>2, <2>2, <2>3
<1>3. CASE next \notin {"failed", "skipped"}
  BY <1>1, <1>3 DEF SetPacketStatus
<1> QED BY <1>2, <1>3

\* setPacketStatus returns a run.
LEMMA StatusType ==
  ASSUME NEW r \in Run, NEW p \in Packet, NEW next \in PacketStatus, next # "running"
  PROVE  SetPacketStatus(r, p, next) \in Run
BY LegalMove DEF SetPacketStatus

\* The statuses the handlers move a started packet to.
Decision == {"awaiting-review", "escalated", "pending", "done", "failed"}

\* A run that is sound stays sound when a handler decides about a packet.
LEMMA SoundAfterStatus ==
  ASSUME NEW r \in Run, Sound(r), NEW p \in Packet, NEW next \in Decision
  PROVE  Sound(SetPacketStatus(r, p, next))
<1> DEFINE s == SetPacketStatus(r, p, next)
<1>0. next \in PacketStatus /\ next \notin {"running", "skipped", "no-change"}
  BY DEF Decision, PacketStatus
<1>1. CASE ~Legal(r, p, next)
  BY <1>1 DEF SetPacketStatus
<1>2. CASE Legal(r, p, next)
  <2>1. /\ s \in Run
        /\ s = [r EXCEPT !.packet = s.packet]
        /\ s.packet[p] = next
        /\ \A q \in Packet \ {p} :
             \/ s.packet[q] = r.packet[q]
             \/ /\ q \in InRun(r) /\ r.packet[q] = "pending"
                /\ s.packet[q] = "skipped" /\ next \in {"failed", "skipped"}
    BY <1>0, <1>2, LegalMove
  <2>2. r.packet[p] \in PacketStatus
    BY DEF Run
  <2>3. /\ r.packet[p] \in {"running", "awaiting-review", "escalated"}
        /\ next = "awaiting-review" => r.packet[p] = "running"
        /\ next = "pending" => r.packet[p] = "awaiting-review"
    BY <1>0, <1>2, <2>2 DEF Legal, PacketTransitions, PacketStatus
  <2>4. p \in InRun(r) /\ r.status \notin {"none", "draft"}
    BY <2>3 DEF Sound, UntouchedIn
  <2>5. s.status = r.status /\ s.brief = r.brief /\ SamePlan(r, s)
    BY <2>1 DEF SamePlan, Run
  <2>6. /\ InRun(s) = InRun(r) /\ InRun(r) \subseteq Packet
        /\ \A q : DependsOn(s, q) = DependsOn(r, q) /\ DependsOn(r, q) \subseteq InRun(r)
        /\ \A q, t : LaneCompatible(s, q, t) <=> LaneCompatible(r, q, t)
    BY <2>5, SamePlanSamePackets, PacketSets
  <2>7. InFlight(s) \subseteq InFlight(r)
    BY <2>1, <2>3, <2>4, <2>6, <1>0 DEF InFlight
  <2>8. \A d \in InRun(r) : Satisfied(r, d) => Satisfied(s, d)
    BY <2>1, <2>3, <2>6 DEF Satisfied
  <2>9. LanesDisjointIn(s)
    BY <2>6, <2>7 DEF Sound, LanesDisjointIn
  <2>10. LanesBoundedIn(s)
    <3>1. Cardinality(InFlight(s)) <= Cardinality(InFlight(r))
      BY <2>7, PacketSets, FS_Subset
    <3>2. Cardinality(InFlight(s)) \in Nat /\ Cardinality(InFlight(r)) \in Nat
      BY PacketSets, FS_CardinalityType
    <3> QED BY <3>1, <3>2, LanesAssumption DEF Sound, LanesBoundedIn
  <2>11. DependenciesFirstIn(s)
    BY <2>1, <2>3, <2>4, <2>6, <2>8 DEF Sound, DependenciesFirstIn
  <2>12. CascadeExactIn(s)
    <3>1. ASSUME NEW q \in InRun(r), r.packet[q] = "skipped"
          PROVE  s.packet[q] = "skipped" /\ DependsOn(s, q) \cap Dead(s) # {}
      <4>1. DependsOn(r, q) \cap Dead(r) # {}
        BY <3>1 DEF Sound, CascadeExactIn
      <4>2. Dead(r) \subseteq Dead(s)
        BY <2>1, <2>3, <2>6 DEF Dead
      <4>3. s.packet[q] = "skipped"
        BY <3>1, <2>1, <2>3, <2>6
      <4> QED BY <4>1, <4>2, <4>3, <2>6
    <3>2. CASE next \in {"failed", "skipped"}
      <4> DEFINE moved == [r EXCEPT !.packet[p] = next]
      <4>1. /\ moved \in Run /\ moved.packet[p] = next
            /\ InRun(moved) = InRun(r) /\ s = CascadeSkips(moved)
            /\ \A q : DependsOn(moved, q) = DependsOn(r, q)
            /\ \A q \in Packet \ {p} : moved.packet[q] = r.packet[q]
        BY <1>0, <1>2, <3>2 DEF SetPacketStatus, Run, InRun, DependsOn
      <4> HIDE DEF moved
      <4>2. ASSUME NEW q \in InRun(r), r.packet[q] = "pending"
            PROVE  s.packet[q] = "skipped" <=> DependsOn(s, q) \cap Dead(s) # {}
        <5>1. q # p /\ moved.packet[q] = "pending"
          BY <2>3, <2>6, <4>1, <4>2
        <5> QED BY <5>1, <4>1, <2>6, CascadeIsExact
      <4>3. ASSUME NEW q \in InRun(r), s.packet[q] \in {"pending", "skipped"}
            PROVE  r.packet[q] \in {"pending", "skipped"}
        BY <1>0, <2>1, <2>6, <3>2, <4>3
      <4>4. ASSUME NEW q \in InRun(s)
            PROVE  /\ s.packet[q] = "pending" => DependsOn(s, q) \cap Dead(s) = {}
                   /\ s.packet[q] = "skipped" => DependsOn(s, q) \cap Dead(s) # {}
        BY <2>6, <3>1, <4>2, <4>3
      <4> QED BY <4>4 DEF CascadeExactIn
    <3>3. CASE next \notin {"failed", "skipped"}
      <4>1. Dead(s) = Dead(r)
        BY <2>1, <2>3, <2>6, <3>3 DEF Dead
      <4>2. ASSUME NEW q \in InRun(r), s.packet[q] = "pending"
            PROVE  DependsOn(s, q) \cap Dead(s) = {}
        <5>1. CASE q = p
          <6>1. \A d \in DependsOn(r, p) : Satisfied(r, d)
            BY <2>3, <2>4 DEF Sound, DependenciesFirstIn
          <6> QED BY <6>1, <4>1, <2>6, <5>1 DEF Dead, Satisfied
        <5>2. CASE q # p
          BY <5>2, <4>1, <4>2, <2>1, <2>6 DEF Sound, CascadeExactIn
        <5> QED BY <5>1, <5>2
      <4>3. ASSUME NEW q \in InRun(r), s.packet[q] = "skipped"
            PROVE  DependsOn(s, q) \cap Dead(s) # {}
        BY <4>3, <3>1, <3>3, <2>1, <2>6
      <4> QED BY <4>2, <4>3, <2>6 DEF CascadeExactIn
    <3> QED BY <3>2, <3>3
  <2>13. OutcomeHonestIn(s)
    <3>1. r.status \notin {"done", "failed"}
      BY <2>3, <2>4 DEF Sound, OutcomeHonestIn, AllSettled
    <3> QED BY <3>1, <2>5 DEF OutcomeHonestIn
  <2>14. UntouchedIn(s)
    BY <2>1, <2>4, <2>5, <2>6 DEF Sound, UntouchedIn
  <2> QED BY <2>9, <2>10, <2>11, <2>12, <2>13, <2>14 DEF Sound
<1> QED BY <1>1, <1>2

\* Starting packets changes their statuses and counts their attempts.
LEMMA StartedType ==
  ASSUME NEW r \in Run, NEW S
  PROVE  /\ Started(r, S) \in Run
         /\ Started(r, S).status = r.status /\ Started(r, S).brief = r.brief
         /\ Started(r, S).id = r.id
         /\ \A p \in Packet : Started(r, S).packet[p] = IF p \in S THEN "running"
                                                        ELSE r.packet[p]
<1> DEFINE packets == [p \in Packet |-> IF p \in S THEN "running" ELSE r.packet[p]]
           tries == [p \in Packet |-> IF p \in S THEN r.attempts[p] + 1 ELSE r.attempts[p]]
<1>1. packets \in [Packet -> PacketStatus] /\ tries \in [Packet -> Nat]
  BY DEF Run, PacketStatus
<1>2. Started(r, S) = [r EXCEPT !.packet = packets, !.attempts = tries]
  BY DEF Started
<1>3. \A p \in Packet : packets[p] = IF p \in S THEN "running" ELSE r.packet[p]
  OBVIOUS
<1> HIDE DEF packets, tries
<1> QED BY <1>1, <1>2, <1>3 DEF Run

\* startablePackets keeps the lanes apart and within bounds: what it starts is
\* runnable, fits what is in flight, and fits together.
LEMMA SoundAfterStart ==
  ASSUME NEW r \in Run, Sound(r), r.status = "running"
  PROVE  /\ Started(r, StartablePackets(r)) \in Run
         /\ Sound(Started(r, StartablePackets(r)))
<1> DEFINE S == StartablePackets(r)
           s == Started(r, S)
<1>1. /\ s \in Run /\ s.status = r.status /\ s.brief = r.brief
      /\ \A p \in Packet : s.packet[p] = IF p \in S THEN "running" ELSE r.packet[p]
  BY StartedType
<1>2. /\ S \subseteq Runnable(r) /\ S \subseteq InRun(r)
      /\ \A p \in S : r.packet[p] = "pending"
      /\ S # {} => FillsLanes(r, S)
  BY StartableFills DEF Runnable
<1>3. /\ InRun(s) = InRun(r) /\ InRun(r) \subseteq Packet
      /\ \A p : DependsOn(s, p) = DependsOn(r, p) /\ DependsOn(r, p) \subseteq InRun(r)
      /\ \A p, q : LaneCompatible(s, p, q) <=> LaneCompatible(r, p, q)
  BY <1>1, SamePlanSamePackets, PacketSets DEF SamePlan
<1> HIDE DEF s, S
<1>4. InFlight(s) = InFlight(r) \cup S /\ InFlight(r) \cap S = {}
  BY <1>1, <1>2, <1>3 DEF InFlight
<1>5. LanesDisjointIn(s)
  <2> SUFFICES ASSUME NEW p \in InFlight(r) \cup S, NEW q \in InFlight(r) \cup S, p # q
               PROVE  LaneCompatible(r, p, q)
    BY <1>3, <1>4 DEF LanesDisjointIn
  <2>1. CASE p \in S /\ q \in S
    BY <1>2, <2>1 DEF FillsLanes
  <2>2. CASE p \in S /\ q \in InFlight(r)
    BY <1>2, <2>2 DEF Runnable
  <2>3. CASE p \in InFlight(r) /\ q \in S
    BY <1>2, <2>3 DEF Runnable, LaneCompatible
  <2>4. CASE p \in InFlight(r) /\ q \in InFlight(r)
    BY <2>4 DEF Sound, LanesDisjointIn
  <2> QED BY <2>1, <2>2, <2>3, <2>4
<1>6. LanesBoundedIn(s)
  <2>1. CASE S = {}
    BY <1>4, <2>1 DEF Sound, LanesBoundedIn
  <2>2. CASE S # {}
    <3>1. IsFiniteSet(S) /\ IsFiniteSet(InFlight(r))
      BY <1>2, PacketSets, FS_Subset
    <3>2. /\ Cardinality(InFlight(s)) = Cardinality(InFlight(r)) + Cardinality(S)
                                           - Cardinality(InFlight(r) \cap S)
          /\ Cardinality(InFlight(r) \cap S) = 0
      BY <3>1, <1>4, FS_Union, FS_EmptySet
    <3>3. Cardinality(InFlight(r)) \in Nat /\ Cardinality(S) \in Nat
      BY <3>1, FS_CardinalityType
    <3> QED BY <3>2, <3>3, <1>2, <2>2 DEF FillsLanes, LanesBoundedIn
  <2> QED BY <2>1, <2>2
<1>7. DependenciesFirstIn(s)
  <2>1. \A d \in InRun(r) : Satisfied(r, d) => Satisfied(s, d)
    BY <1>1, <1>2, <1>3 DEF Satisfied
  <2>2. \A p \in S : \A d \in DependsOn(r, p) : Satisfied(r, d)
    BY <1>2 DEF Runnable
  <2> QED BY <1>1, <1>3, <2>1, <2>2 DEF Sound, DependenciesFirstIn
<1>8. CascadeExactIn(s)
  <2>1. Dead(s) = Dead(r)
    BY <1>1, <1>2, <1>3 DEF Dead
  <2> QED BY <1>1, <1>3, <2>1 DEF Sound, CascadeExactIn
<1>9. OutcomeHonestIn(s) /\ UntouchedIn(s)
  BY <1>1, <1>2, <1>3 DEF Sound, OutcomeHonestIn, UntouchedIn
<1> QED BY <1>1, <1>5, <1>6, <1>7, <1>8, <1>9 DEF Sound, s, S

\* Soundness reads a run's plan, statuses and outcome, nothing else.
LEMMA SoundCarriesOver ==
  ASSUME NEW r, NEW s, Sound(r), SamePlan(r, s), s.packet = r.packet,
         r.status \notin {"none", "draft"}, s.status \notin {"none", "draft"},
         OutcomeHonestIn(s)
  PROVE  Sound(s)
<1>1. /\ InRun(s) = InRun(r)
      /\ \A p : DependsOn(s, p) = DependsOn(r, p)
      /\ \A p, q : LaneCompatible(s, p, q) <=> LaneCompatible(r, p, q)
  BY SamePlanSamePackets
<1>2. InFlight(s) = InFlight(r) /\ Dead(s) = Dead(r)
  BY <1>1 DEF InFlight, Dead
<1>3. \A p : Satisfied(s, p) <=> Satisfied(r, p)
  BY DEF Satisfied
<1>4. LanesDisjointIn(s) /\ LanesBoundedIn(s)
  BY <1>1, <1>2 DEF Sound, LanesDisjointIn, LanesBoundedIn
<1>5. DependenciesFirstIn(s) /\ CascadeExactIn(s) /\ UntouchedIn(s)
  BY <1>1, <1>2, <1>3 DEF Sound, DependenciesFirstIn, CascadeExactIn, UntouchedIn
<1> QED BY <1>4, <1>5 DEF Sound

\* Pausing and resuming leave a run sound.
LEMMA SoundAfterPauseResume ==
  ASSUME NEW r \in Run, Sound(r), NEW status \in {"running", "paused"},
         r.status \in {"running", "paused"}
  PROVE  [r EXCEPT !.status = status] \in Run /\ Sound([r EXCEPT !.status = status])
<1> DEFINE s == [r EXCEPT !.status = status]
<1>1. /\ s \in Run /\ s.packet = r.packet /\ s.brief = r.brief
      /\ s.status = status
  BY DEF Run, RunStatus
<1> HIDE DEF s
<1>2. SamePlan(r, s) /\ OutcomeHonestIn(s)
  BY <1>1 DEF SamePlan, OutcomeHonestIn
<1>3. Sound(s)
  BY <1>1, <1>2, SoundCarriesOver
<1> QED BY <1>1, <1>3 DEF s

\* A run that settles as runOutcome says is sound: the outcome is honest.
LEMMA SoundAfterOutcome ==
  ASSUME NEW r \in Run, Sound(r), r.status = "running", AllSettled(r)
  PROVE  /\ [r EXCEPT !.status = RunOutcome(r)] \in Run
         /\ Sound([r EXCEPT !.status = RunOutcome(r)])
<1> DEFINE s == [r EXCEPT !.status = RunOutcome(r)]
<1>1. /\ s \in Run /\ s.packet = r.packet /\ s.brief = r.brief
      /\ s.status = RunOutcome(r) /\ s.status \in {"done", "failed"}
  BY DEF Run, RunStatus, RunOutcome
<1> HIDE DEF s
<1>2. SamePlan(r, s)
  BY <1>1 DEF SamePlan
<1>3. InRun(s) = InRun(r)
  BY <1>2, SamePlanSamePackets
<1>4. OutcomeHonestIn(s)
  BY <1>1, <1>3 DEF OutcomeHonestIn, AllSettled, RunOutcome, Satisfied
<1>5. Sound(s)
  BY <1>1, <1>2, <1>4, SoundCarriesOver
<1> QED BY <1>1, <1>5 DEF s

\* The files a packet's evidence names play no part in soundness.
LEMMA SoundAfterEvidence ==
  ASSUME NEW r \in Run, Sound(r), NEW p \in Packet, NEW files \in SUBSET File
  PROVE  [r EXCEPT !.changed[p] = files] \in Run /\ Sound([r EXCEPT !.changed[p] = files])
<1> DEFINE s == [r EXCEPT !.changed[p] = files]
<1>1. s \in Run /\ s.packet = r.packet /\ s.brief = r.brief /\ s.status = r.status
  BY DEF Run
<1>2. /\ InRun(s) = InRun(r) /\ InFlight(s) = InFlight(r) /\ Dead(s) = Dead(r)
      /\ \A q : DependsOn(s, q) = DependsOn(r, q)
      /\ \A q, t : LaneCompatible(s, q, t) <=> LaneCompatible(r, q, t)
      /\ \A q : Satisfied(s, q) <=> Satisfied(r, q)
  BY <1>1 DEF InRun, InFlight, Dead, DependsOn, LaneCompatible, EditScopeOf, Satisfied
<1> HIDE DEF s
<1>3. LanesDisjointIn(s) /\ LanesBoundedIn(s)
  BY <1>2 DEF Sound, LanesDisjointIn, LanesBoundedIn
<1>4. DependenciesFirstIn(s) /\ CascadeExactIn(s) /\ UntouchedIn(s)
  BY <1>1, <1>2 DEF Sound, DependenciesFirstIn, CascadeExactIn, UntouchedIn
<1>5. OutcomeHonestIn(s)
  BY <1>1, <1>2 DEF Sound, OutcomeHonestIn, AllSettled
<1> QED BY <1>1, <1>3, <1>4, <1>5 DEF Sound, s

\* A restarted server goes on from a sound run: the packets that lost their
\* worker are pending again and their dependencies are still settled clean.
LEMMA SoundAfterLoad ==
  ASSUME NEW r \in Run, Sound(r)
  PROVE  LoadWorkRun(r) \in Run /\ Sound(LoadWorkRun(r))
<1>1. CASE r.status # "running"
  BY <1>1 DEF LoadWorkRun
<1>2. CASE r.status = "running"
  <2> DEFINE s == LoadWorkRun(r)
  <2>1. /\ s \in Run /\ s.status = "paused" /\ s.brief = r.brief
        /\ \A p \in Packet : s.packet[p] = IF r.packet[p] = "running" THEN "pending"
                                            ELSE r.packet[p]
    BY <1>2 DEF LoadWorkRun, Run, RunStatus, PacketStatus
  <2>2. /\ InRun(s) = InRun(r) /\ InRun(r) \subseteq Packet
        /\ \A p : DependsOn(s, p) = DependsOn(r, p) /\ DependsOn(r, p) \subseteq InRun(r)
        /\ \A p, q : LaneCompatible(s, p, q) <=> LaneCompatible(r, p, q)
    BY <1>2, <2>1, SamePlanSamePackets, PacketSets DEF SamePlan
  <2> HIDE DEF s
  <2>3. InFlight(s) \subseteq InFlight(r) /\ Dead(s) = Dead(r)
    BY <2>1, <2>2 DEF InFlight, Dead
  <2>4. \A d \in InRun(r) : Satisfied(s, d) <=> Satisfied(r, d)
    BY <2>1, <2>2 DEF Satisfied
  <2>5. LanesDisjointIn(s)
    BY <2>2, <2>3 DEF Sound, LanesDisjointIn
  <2>6. LanesBoundedIn(s)
    <3>1. Cardinality(InFlight(s)) <= Cardinality(InFlight(r))
      BY <2>3, PacketSets, FS_Subset
    <3>2. Cardinality(InFlight(s)) \in Nat /\ Cardinality(InFlight(r)) \in Nat
      BY PacketSets, FS_CardinalityType
    <3> QED BY <3>1, <3>2, LanesAssumption DEF Sound, LanesBoundedIn
  <2>7. DependenciesFirstIn(s)
    BY <2>1, <2>2, <2>4 DEF Sound, DependenciesFirstIn
  <2>8. CascadeExactIn(s)
    <3>1. ASSUME NEW p \in InRun(r), r.packet[p] = "running"
          PROVE  DependsOn(r, p) \cap Dead(r) = {}
      BY <3>1 DEF Sound, DependenciesFirstIn, Satisfied, Dead
    <3> QED BY <2>1, <2>2, <2>3, <3>1 DEF Sound, CascadeExactIn
  <2>9. OutcomeHonestIn(s) /\ UntouchedIn(s)
    BY <1>2, <2>1, <2>2 DEF Sound, OutcomeHonestIn, UntouchedIn
  <2> QED BY <2>1, <2>5, <2>6, <2>7, <2>8, <2>9 DEF Sound, s
<1> QED BY <1>1, <1>2

\* A run in which nothing was started is sound.
LEMMA UnstartedIsSound ==
  ASSUME NEW r \in Run, r.status \notin {"done", "failed"},
         \A p \in Packet :
           /\ r.packet[p] \in {"pending", "no-change"}
           /\ r.packet[p] = "no-change" =>
                r.status \notin {"none", "draft"} /\ p \notin SystemPacket
  PROVE  Sound(r)
<1>1. InRun(r) \subseteq Packet /\ Packet \ SystemPacket \subseteq InRun(r)
  BY DEF InRun
<1>2. InFlight(r) = {}
  BY <1>1 DEF InFlight
<1>3. Dead(r) = {}
  BY <1>1 DEF Dead
<1>4. LanesDisjointIn(r) /\ LanesBoundedIn(r)
  BY <1>2, FS_EmptySet, LanesAssumption DEF LanesDisjointIn, LanesBoundedIn
<1>5. DependenciesFirstIn(r)
  BY <1>1 DEF DependenciesFirstIn
<1>6. CascadeExactIn(r)
  BY <1>1, <1>3 DEF CascadeExactIn
<1>7. OutcomeHonestIn(r) /\ UntouchedIn(r)
  BY <1>1 DEF OutcomeHonestIn, UntouchedIn
<1> QED BY <1>4, <1>5, <1>6, <1>7 DEF Sound

------------------------------------------------------------------------------
(* What startablePackets picks.                                             *)

\* Any packets have a first one in build order.
LEMMA FirstInOrder ==
  ASSUME NEW A \in SUBSET Packet, A # {}
  PROVE  \E p \in A : \A q \in A : Order[p] <= Order[q]
<1> DEFINE N == {Order[p] : p \in A}
<1>1. N \in SUBSET Nat /\ N # {}
  BY OrderAssumption
<1> HIDE DEF N
<1>2. PICK n \in N : \A k \in N : n <= k
  BY <1>1, LeastNumber
<1> QED BY <1>2 DEF N

\* What has been picked so far, in build order: whatever runnable packet is not
\* among it comes later and may still be picked, or conflicts with an earlier pick.
LaterOrLost(r, S) ==
  \A p \in Runnable(r) \ S :
    \/ p \in Acceptable(r, S) /\ \A q \in S : Order[q] < Order[p]
    \/ \E q \in S : Order[q] < Order[p] /\ ~LaneCompatible(r, p, q)

Picks(r, S) ==
  /\ S \subseteq Runnable(r)
  /\ S # {} => Cardinality(InFlight(r)) + Cardinality(S) <= Lanes
  /\ \A p, q \in S : p # q => LaneCompatible(r, p, q)
  /\ LaterOrLost(r, S)

\* Before the first pick nothing is lost.
LEMMA NothingPicked ==
  ASSUME NEW r
  PROVE  Picks(r, {})
BY DEF Picks, LaterOrLost, Acceptable, Runnable

\* A pick is the next packet in build order, and the others stay later or lost.
LEMMA OneMorePick ==
  ASSUME NEW r, NEW S, Picks(r, S), Cardinality(InFlight(r)) + Cardinality(S) < Lanes,
         NEW m \in NextRunnable(r, S)
  PROVE  Picks(r, S \cup {m}) /\ Cardinality(S \cup {m}) = Cardinality(S) + 1
<1> DEFINE T == S \cup {m}
<1>2. /\ m \in Acceptable(r, S) /\ m \in Packet /\ m \in Runnable(r) /\ m \notin S
      /\ \A q \in Acceptable(r, S) : Order[m] <= Order[q]
      /\ Runnable(r) \subseteq Packet
  BY PacketSets DEF NextRunnable, Acceptable, Runnable
<1>3. /\ S \subseteq Packet /\ IsFiniteSet(S) /\ Cardinality(InFlight(r)) \in Nat
      /\ Cardinality(S) \in Nat
  BY <1>2, PacketSets, PacketAssumption, FS_Subset, FS_CardinalityType DEF Picks
<1>4. Cardinality(T) = Cardinality(S) + 1
  BY <1>2, <1>3, FS_AddElement
<1>5. Cardinality(InFlight(r)) + Cardinality(T) <= Lanes
  BY <1>3, <1>4, LanesAssumption
<1>6. \A q \in S : LaneCompatible(r, m, q) /\ LaneCompatible(r, q, m)
  BY <1>2 DEF Acceptable, LaneCompatible
<1>7. \A q \in S : Order[q] < Order[m]
  BY <1>2, <1>6 DEF Picks, LaterOrLost
<1>8. LaterOrLost(r, T)
  <2> SUFFICES ASSUME NEW p \in Runnable(r) \ T
               PROVE  \/ p \in Acceptable(r, T) /\ \A q \in T : Order[q] < Order[p]
                      \/ \E q \in T : Order[q] < Order[p] /\ ~LaneCompatible(r, p, q)
    BY DEF LaterOrLost
  <2>1. p \in Packet /\ p # m /\ p \notin S
    BY <1>2
  <2>2. CASE \E q \in S : Order[q] < Order[p] /\ ~LaneCompatible(r, p, q)
    BY <2>2
  <2>3. CASE p \in Acceptable(r, S) /\ \A q \in S : Order[q] < Order[p]
    <3>1. Order[m] < Order[p]
      BY <1>2, <2>1, <2>3, OrderAssumption
    <3>2. LaneCompatible(r, p, m) => p \in Acceptable(r, T)
      BY <2>1, <2>3 DEF Acceptable
    <3> QED BY <2>3, <3>1, <3>2
  <2> QED BY <2>1, <2>2, <2>3 DEF Picks, LaterOrLost
<1>9. T \subseteq Runnable(r) /\ \A p, q \in T : p # q => LaneCompatible(r, p, q)
  BY <1>2, <1>6 DEF Picks
<1> HIDE DEF T
<1>10. Picks(r, T)
  BY <1>5, <1>8, <1>9 DEF Picks
<1> QED BY <1>4, <1>10 DEF T

\* When no more can be picked the lanes are filled.
LEMMA PickedFills ==
  ASSUME NEW r, NEW S, Picks(r, S),
         \/ Cardinality(InFlight(r)) + Cardinality(S) >= Lanes
         \/ NextRunnable(r, S) = {}
  PROVE  FillsLanes(r, S)
<1>1. \A p \in Runnable(r) \ S :
        LET earlier == {q \in S : Order[q] < Order[p]}
        IN  \/ \E q \in earlier : ~LaneCompatible(r, p, q)
            \/ Cardinality(InFlight(r)) + Cardinality(earlier) >= Lanes
  <2> SUFFICES ASSUME NEW p \in Runnable(r) \ S,
                      p \in Acceptable(r, S), \A q \in S : Order[q] < Order[p]
               PROVE  Cardinality(InFlight(r)) + Cardinality({q \in S : Order[q] < Order[p]}) >= Lanes
    BY DEF Picks, LaterOrLost
  <2>1. {q \in S : Order[q] < Order[p]} = S
    OBVIOUS
  <2>2. NextRunnable(r, S) # {}
    <3>1. Acceptable(r, S) \in SUBSET Packet /\ Acceptable(r, S) # {}
      BY PacketSets DEF Acceptable
    <3> QED BY <3>1, FirstInOrder DEF NextRunnable
  <2> QED BY <2>1, <2>2
<1> QED BY <1>1 DEF Picks, FillsLanes

\* At most one set fills the lanes: of two, take the first packet they differ in.
LEMMA OneFilling ==
  ASSUME NEW r, NEW S, NEW T, FillsLanes(r, S), FillsLanes(r, T)
  PROVE  S = T
<1>1. ASSUME NEW A, NEW B, FillsLanes(r, A), FillsLanes(r, B), NEW p \in A \ B,
             {q \in A : Order[q] < Order[p]} = {q \in B : Order[q] < Order[p]}
      PROVE  FALSE
  <2> DEFINE earlier == {q \in B : Order[q] < Order[p]}
  <2>1. /\ A \subseteq Runnable(r) /\ Runnable(r) \subseteq Packet /\ p \in Runnable(r)
        /\ Cardinality(InFlight(r)) \in Nat
    BY <1>1, PacketSets, FS_CardinalityType DEF FillsLanes, Runnable
  <2>2. IsFiniteSet(A) /\ IsFiniteSet(earlier) /\ earlier \subseteq A /\ p \notin earlier
    <3>1. IsFiniteSet(A)
      BY <2>1, PacketAssumption, FS_Subset
    <3>2. Order[p] \in Nat
      BY <2>1, OrderAssumption
    <3> QED BY <1>1, <3>1, <3>2, FS_Subset
  <2>3. \/ \E q \in earlier : ~LaneCompatible(r, p, q)
        \/ Cardinality(InFlight(r)) + Cardinality(earlier) >= Lanes
    BY <1>1, <2>1 DEF FillsLanes
  <2> HIDE DEF earlier
  <2>4. ~\E q \in earlier : ~LaneCompatible(r, p, q)
    BY <1>1, <2>2 DEF FillsLanes
  <2>5. Cardinality(earlier) + 1 <= Cardinality(A) /\ Cardinality(earlier) \in Nat
        /\ Cardinality(A) \in Nat
    <3>1. earlier \cup {p} \in SUBSET A
      BY <1>1, <2>2
    <3>2. Cardinality(earlier \cup {p}) = Cardinality(earlier) + 1
      BY <2>2, FS_AddElement
    <3>3. Cardinality(earlier \cup {p}) <= Cardinality(A)
      BY <2>2, <3>1, FS_Subset
    <3> QED BY <2>2, <3>2, <3>3, FS_CardinalityType
  <2>6. Cardinality(InFlight(r)) + Cardinality(A) <= Lanes
    BY <1>1 DEF FillsLanes
  <2> QED BY <2>1, <2>3, <2>4, <2>5, <2>6, LanesAssumption
<1> SUFFICES ASSUME S # T PROVE FALSE
  OBVIOUS
<1>2. S \subseteq Packet /\ T \subseteq Packet
  BY PacketSets DEF FillsLanes, Runnable
<1> DEFINE differ == (S \ T) \cup (T \ S)
<1>3. PICK p \in differ : \A q \in differ : Order[p] <= Order[q]
  <2>1. differ \in SUBSET Packet /\ differ # {}
    BY <1>2
  <2> HIDE DEF differ
  <2> QED BY <2>1, FirstInOrder
<1>4. {q \in S : Order[q] < Order[p]} = {q \in T : Order[q] < Order[p]}
  <2>1. \A q \in S \cup T : Order[q] \in Nat /\ Order[p] \in Nat
    BY <1>2, OrderAssumption
  <2> QED BY <1>3, <2>1
<1> QED BY <1>1, <1>3, <1>4

\* A filling is what startablePackets returns.
LEMMA FillingIsStartable ==
  ASSUME NEW r, NEW S, FillsLanes(r, S)
  PROVE  S = StartablePackets(r) /\ {T \in SUBSET Packet : FillsLanes(r, T)} = {S}
<1>1. S \in SUBSET Runnable(r) /\ Runnable(r) \subseteq Packet
  BY PacketSets DEF FillsLanes, Runnable
<1>2. StartablePackets(r) = CHOOSE T \in SUBSET Runnable(r) : FillsLanes(r, T)
  BY <1>1 DEF StartablePackets
<1>3. FillsLanes(r, StartablePackets(r))
  BY <1>1, <1>2
<1>4. S = StartablePackets(r)
  BY <1>3, OneFilling
<1>5. \A T : FillsLanes(r, T) => T = S
  BY OneFilling
<1> QED BY <1>1, <1>4, <1>5

\* The lanes can always be filled: what cannot be picked further fills them.
LEMMA SomethingFills ==
  ASSUME NEW r
  PROVE  FillsLanes(r, StartablePackets(r))
<1> DEFINE P == {S \in SUBSET Packet : Picks(r, S)}
           Room(S) == Cardinality(Packet) - Cardinality(S)
           N == {Room(S) : S \in P}
<1>1. ASSUME NEW S \in P
      PROVE  IsFiniteSet(S) /\ Cardinality(S) \in Nat /\ Room(S) \in Nat
  <2>1. S \in SUBSET Packet
    OBVIOUS
  <2> HIDE DEF P
  <2>2. IsFiniteSet(S) /\ Cardinality(S) <= Cardinality(Packet)
    BY <2>1, PacketAssumption, FS_Subset
  <2> QED BY <2>2, PacketAssumption, FS_CardinalityType
<1>2. {} \in P
  BY NothingPicked
<1>3. PICK S \in P : \A T \in P : Room(S) <= Room(T)
  <2>1. N \in SUBSET Nat /\ N # {}
    BY <1>1, <1>2
  <2>2. PICK n \in N : \A k \in N : n <= k
    <3> HIDE DEF N
    <3> QED BY <2>1, LeastNumber
  <2> HIDE DEF P, Room
  <2> QED BY <2>2
<1>4. ASSUME ~(Cardinality(InFlight(r)) + Cardinality(S) >= Lanes), NextRunnable(r, S) # {}
      PROVE  FALSE
  <2>1. PICK m \in NextRunnable(r, S) : TRUE
    BY <1>4
  <2>2. Cardinality(InFlight(r)) + Cardinality(S) < Lanes
    BY <1>1, <1>4, PacketSets, FS_CardinalityType, LanesAssumption
  <2>3. Picks(r, S \cup {m}) /\ Cardinality(S \cup {m}) = Cardinality(S) + 1
    BY <2>1, <2>2, OneMorePick
  <2>4. S \cup {m} \in P
    BY <2>1, <2>3, PacketSets DEF NextRunnable, Acceptable
  <2>5. Room(S) <= Room(S \cup {m})
    BY <1>3, <2>4
  <2> QED BY <1>1, <2>3, <2>5, PacketAssumption, FS_CardinalityType
<1>5. FillsLanes(r, S)
  BY <1>4, PickedFills
<1> QED BY <1>5, FillingIsStartable

------------------------------------------------------------------------------
(* No run stalls.                                                           *)

\* The dependencies of the plan close no cycle: then packets can be ranked.
Acyclic == \E rank \in [Packet -> Nat] :
             \A p \in Packet : \A d \in PlanDeps[p] \cup BriefAfter[p] : rank[d] < rank[p]

\* A running run has a packet in flight or escalated.
Stirs(r) ==
  r.status = "running" =>
    \E p \in InRun(r) : r.packet[p] \in {"running", "awaiting-review", "escalated"}

\* While packets wait and none is in flight or escalated, one may start: the
\* least waits for nothing, since what it depends on is neither waiting nor dead.
LEMMA SomePacketMayStart ==
  ASSUME Acyclic, NEW r \in Run, CascadeExactIn(r), ~AllSettled(r),
         \A p \in InRun(r) : r.packet[p] \notin {"running", "awaiting-review", "escalated"}
  PROVE  StartablePackets(r) # {}
<1> DEFINE W == {p \in InRun(r) : r.packet[p] = "pending"}
<1>1. PICK rank \in [Packet -> Nat] :
        \A p \in Packet : \A d \in PlanDeps[p] \cup BriefAfter[p] : rank[d] < rank[p]
  BY DEF Acyclic
<1>2. InRun(r) \subseteq Packet /\ InFlight(r) = {}
  BY PacketSets DEF InFlight
<1>3. W # {}
  BY <1>2 DEF AllSettled, Run, PacketStatus
<1>4. PICK p \in W : \A q \in W : rank[p] <= rank[q]
  <2> DEFINE N == {rank[q] : q \in W}
  <2>1. N \in SUBSET Nat /\ N # {}
    BY <1>2, <1>3
  <2>2. PICK n \in N : \A k \in N : n <= k
    <3> HIDE DEF N
    <3> QED BY <2>1, LeastNumber
  <2> QED BY <2>2
<1>5. p \in InRun(r) /\ p \in Packet /\ r.packet[p] = "pending"
  BY <1>2, <1>4
<1>6. ASSUME NEW d \in DependsOn(r, p) PROVE Satisfied(r, d)
  <2>1. d \in InRun(r) /\ d \in PlanDeps[p] \cup BriefAfter[p]
    BY DEF DependsOn
  <2>2. rank[d] < rank[p] /\ rank[d] \in Nat /\ rank[p] \in Nat
    BY <1>1, <1>2, <1>5, <2>1
  <2>3. d \notin W
    BY <1>4, <2>2
  <2>4. r.packet[d] # "pending"
    BY <2>1, <2>3
  <2>5. d \notin Dead(r)
    BY <1>5 DEF CascadeExactIn
  <2> QED BY <1>2, <2>1, <2>4, <2>5 DEF Dead, Satisfied, Run, PacketStatus
<1>7. p \in Runnable(r)
  BY <1>2, <1>5, <1>6 DEF Runnable
<1> SUFFICES ASSUME StartablePackets(r) = {} PROVE FALSE
  OBVIOUS
<1>8. FillsLanes(r, {})
  BY SomethingFills
<1>9. Cardinality(InFlight(r)) + Cardinality({q \in {} : Order[q] < Order[p]}) >= Lanes
  BY <1>7, <1>8 DEF FillsLanes
<1>10. {q \in {} : Order[q] < Order[p]} = {} /\ Cardinality({}) = 0
  BY FS_EmptySet
<1> QED BY <1>2, <1>9, <1>10, LanesAssumption
=============================================================================
