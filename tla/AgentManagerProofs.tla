-------------------------- MODULE AgentManagerProofs --------------------------
(***************************************************************************)
(* What holds of the Agent Manager for every plan, number of lanes,        *)
(* environment and number of restarts.  The argument is one inductive      *)
(* invariant: the run in memory and the run on disk are both sound, every  *)
(* decision in memory is on disk, and a brief that is still being drafted  *)
(* belongs to a run that is still a draft; and where the plan has no cycle *)
(* a running run stirs.                                                    *)
(***************************************************************************)
EXTENDS AgentManager, WorkRunProofs

Over == {"done", "failed", "skipped", "no-change"}

Good(r) == r \in Run /\ Sound(r)

\* Every decision of r is one of c.
DecidedIn(r, c) ==
  \A p \in Packet : r.packet[p] \in Over => c.packet[p] = r.packet[p]

\* What a handler makes of a confirmed run, or of any run it leaves alone.
Follows(r0, r1) ==
  /\ r1.id = r0.id /\ r1.brief = r0.brief
  /\ r0.status = "draft" => r1.status = "draft"
  /\ DecidedIn(r0, r1)

BriefsInv ==
  /\ run.id <= drafts /\ saved.id <= drafts
  /\ \A n \in briefing :
       /\ n \in 1..drafts
       /\ run.id = n => run.status = "draft" /\ run.brief = "drafting"

Inv == /\ TypeOK /\ Sound(run) /\ Sound(saved) /\ DecidedIn(run, saved) /\ BriefsInv
       /\ Acyclic => Stirs(run)

------------------------------------------------------------------------------
(* The pure steps.                                                          *)

\* What one step decides the next one keeps.
LEMMA FollowsIsTransitive ==
  ASSUME NEW r0, NEW r1, NEW r2, Follows(r0, r1), Follows(r1, r2)
  PROVE  Follows(r0, r2)
BY DEF Follows, DecidedIn

\* A handler's decision about a packet (setPacketStatus) keeps a run sound and
\* takes no earlier decision back.
LEMMA StatusFollows ==
  ASSUME NEW r, Good(r), NEW p \in Packet, NEW next \in Decision
  PROVE  /\ Good(SetPacketStatus(r, p, next))
         /\ Follows(r, SetPacketStatus(r, p, next))
<1> DEFINE s == SetPacketStatus(r, p, next)
<1>1. next \in PacketStatus /\ next # "running" /\ r \in Run
  BY DEF Decision, PacketStatus, Good
<1>2. Good(s)
  BY <1>1, StatusType, SoundAfterStatus DEF Good
<1>3. CASE ~Legal(r, p, next)
  BY <1>2, <1>3 DEF SetPacketStatus, Follows, DecidedIn
<1>4. CASE Legal(r, p, next)
  <2>1. /\ s = [r EXCEPT !.packet = s.packet]
        /\ \A q \in Packet \ {p} : s.packet[q] = r.packet[q] \/ r.packet[q] = "pending"
    BY <1>1, <1>4, LegalMove
  <2>2. r.packet[p] \notin Over
    BY <1>1, <1>4 DEF Legal, PacketTransitions, Over, Run
  <2>3. s.id = r.id /\ s.brief = r.brief /\ s.status = r.status
    BY <1>1, <2>1 DEF Run
  <2>4. DecidedIn(r, s)
    BY <2>1, <2>2 DEF DecidedIn, Over
  <2> QED BY <1>2, <2>3, <2>4 DEF Follows
<1> QED BY <1>3, <1>4

\* An escalation decides nothing.
LEMMA EscalationDecidesNothing ==
  ASSUME NEW r, Good(r), NEW p \in Packet
  PROVE  DecidedIn(SetPacketStatus(r, p, "escalated"), r)
<1> DEFINE s == SetPacketStatus(r, p, "escalated")
<1>1. "escalated" \in PacketStatus /\ r \in Run
  BY DEF PacketStatus, Good
<1>2. CASE ~Legal(r, p, "escalated")
  BY <1>2 DEF SetPacketStatus, DecidedIn
<1>3. CASE Legal(r, p, "escalated")
  <2>1. s.packet[p] = "escalated" /\ \A q \in Packet \ {p} : s.packet[q] = r.packet[q]
    BY <1>1, <1>3, LegalMove
  <2> QED BY <2>1 DEF DecidedIn, Over
<1> QED BY <1>2, <1>3

\* advanceWorkRun keeps a run sound and takes no decision back.
LEMMA AdvanceFollows ==
  ASSUME NEW r, Good(r)
  PROVE  Good(Advance(r)) /\ Follows(r, Advance(r))
<1> DEFINE S == StartablePackets(r)
<1>1. CASE r.status # "running"
  BY <1>1 DEF Advance, Follows, DecidedIn
<1>2. CASE r.status = "running" /\ S # {}
  <2>1. Advance(r) = Started(r, S)
    BY <1>2 DEF Advance
  <2>2. Good(Started(r, S))
    BY <1>2, SoundAfterStart DEF Good
  <2>3. \A p \in S : r.packet[p] = "pending"
    BY StartableFills DEF Runnable
  <2>4. Follows(r, Started(r, S))
    BY <1>2, <2>3, StartedType DEF Follows, DecidedIn, Over, Good
  <2> QED BY <2>1, <2>2, <2>4
<1>3. CASE r.status = "running" /\ S = {} /\ InFlight(r) = {} /\ AllSettled(r)
  <2>1. Advance(r) = [r EXCEPT !.status = RunOutcome(r)]
    BY <1>3 DEF Advance
  <2>2. Good([r EXCEPT !.status = RunOutcome(r)])
    BY <1>3, SoundAfterOutcome DEF Good
  <2>3. Follows(r, [r EXCEPT !.status = RunOutcome(r)])
    BY <1>3 DEF Follows, DecidedIn, Good, Run
  <2> QED BY <2>1, <2>2, <2>3
<1>4. CASE r.status = "running" /\ S = {} /\ ~(InFlight(r) = {} /\ AllSettled(r))
  BY <1>4 DEF Advance, Follows, DecidedIn
<1> QED BY <1>1, <1>2, <1>3, <1>4

\* advanceWorkRun leaves a packet in flight or escalated, or the run over.
LEMMA AdvanceStirs ==
  ASSUME Acyclic, NEW r, Good(r)
  PROVE  Stirs(Advance(r))
<1> DEFINE S == StartablePackets(r)
<1>1. CASE r.status # "running"
  BY <1>1 DEF Advance, Stirs
<1>2. CASE r.status = "running" /\ S # {}
  <2>1. Advance(r) = Started(r, S) /\ S \subseteq InRun(r) /\ InRun(r) \subseteq Packet
    BY <1>2, StartableFills, PacketSets DEF Advance, Runnable
  <2>2. /\ Started(r, S).status = r.status /\ Started(r, S).brief = r.brief
        /\ \A p \in S : p \in Packet => Started(r, S).packet[p] = "running"
    BY DEF Started, Good, Run
  <2>3. InRun(Started(r, S)) = InRun(r)
    BY <2>2 DEF InRun
  <2> HIDE DEF S
  <2> QED BY <1>2, <2>1, <2>2, <2>3 DEF Stirs
<1>3. CASE r.status = "running" /\ S = {} /\ InFlight(r) = {} /\ AllSettled(r)
  BY <1>3 DEF Advance, Stirs, RunOutcome, Good, Run
<1>4. CASE r.status = "running" /\ S = {} /\ ~(InFlight(r) = {} /\ AllSettled(r))
  <2>1. Advance(r) = r
    BY <1>4 DEF Advance
  <2>2. InFlight(r) = {} => \E p \in InRun(r) : r.packet[p] \in {"running", "awaiting-review", "escalated"}
    BY <1>4, SomePacketMayStart DEF Good, Sound
  <2>3. InFlight(r) # {} => \E p \in InRun(r) : r.packet[p] \in {"running", "awaiting-review", "escalated"}
    BY DEF InFlight
  <2> QED BY <2>1, <2>2, <2>3 DEF Stirs
<1> QED BY <1>1, <1>2, <1>3, <1>4

\* An escalation leaves the packet escalated.
LEMMA EscalationStirs ==
  ASSUME NEW r, Good(r), Stirs(r), NEW p \in Packet
  PROVE  Stirs(SetPacketStatus(r, p, "escalated"))
<1> DEFINE s == SetPacketStatus(r, p, "escalated")
<1>1. "escalated" \in PacketStatus /\ r \in Run
  BY DEF PacketStatus, Good
<1>2. CASE ~Legal(r, p, "escalated")
  BY <1>2 DEF SetPacketStatus
<1>3. CASE Legal(r, p, "escalated")
  <2>1. s.packet[p] = "escalated" /\ s = [r EXCEPT !.packet = s.packet]
    BY <1>1, <1>3, LegalMove
  <2>2. r.packet[p] # "pending"
    BY <1>1, <1>3 DEF Legal, PacketTransitions, Run
  <2>3. p \in InRun(r)
    BY <2>2 DEF Good, Sound, UntouchedIn
  <2> HIDE DEF s
  <2>4. InRun(s) = InRun(r)
    BY <1>1, <2>1 DEF InRun, Run
  <2> QED BY <2>1, <2>3, <2>4 DEF Stirs, s
<1> QED BY <1>2, <1>3

\* Evidence changes no status.
LEMMA EvidenceStirs ==
  ASSUME NEW r, Good(r), Stirs(r), NEW p, NEW files
  PROVE  Stirs([r EXCEPT !.changed[p] = files])
BY DEF Good, Run, Stirs, InRun

\* Recording what a worker changed keeps a run sound and takes no decision back.
LEMMA EvidenceFollows ==
  ASSUME NEW r, Good(r), NEW p \in Packet, NEW files \in SUBSET File
  PROVE  /\ Good([r EXCEPT !.changed[p] = files])
         /\ Follows(r, [r EXCEPT !.changed[p] = files])
         /\ [r EXCEPT !.changed[p] = files].packet = r.packet
<1>1. Good([r EXCEPT !.changed[p] = files])
  BY SoundAfterEvidence DEF Good
<1> QED BY <1>1 DEF Follows, DecidedIn, Good, Run

\* So does the status flip that ends a restore.
LEMMA FlipFollows ==
  ASSUME NEW r, Good(r), NEW by, NEW p \in Packet, NEW next \in {"pending", "failed"}
  PROVE  Good(Flip(r, by, p, next)) /\ Follows(r, Flip(r, by, p, next))
<1>1. next \in Decision
  BY DEF Decision
<1>2. Follows(r, r)
  BY DEF Follows, DecidedIn
<1> QED BY <1>1, <1>2, StatusFollows DEF Flip

\* Confirming a draft: nothing was done for it, so settling the packets that
\* need no change leaves it sound.
LEMMA RatifiedIsGood ==
  ASSUME NEW r, Good(r), r.status = "draft"
  PROVE  Good(Ratified(r)) /\ Ratified(r).id = r.id
<1> SUFFICES ASSUME NEW s, s = Ratified(r)
             PROVE  Good(s) /\ s.id = r.id
  OBVIOUS
<1> DEFINE packets == [p \in Packet |-> IF r.brief = "ready" /\ p \in NoChange /\ p \notin SystemPacket
                                        THEN "no-change" ELSE r.packet[p]]
<1>1. r \in Run /\ \A p \in Packet : r.packet[p] = "pending"
  BY DEF Good, Sound, UntouchedIn
<1>2. packets \in [Packet -> PacketStatus]
  BY <1>1 DEF PacketStatus
<1>3. s = [r EXCEPT !.status = "running", !.packet = packets]
  BY <1>1 DEF Ratified, Run
<1>4. \A p \in Packet : /\ packets[p] \in {"pending", "no-change"}
                        /\ packets[p] = "no-change" => p \notin SystemPacket
  BY <1>1
<1> HIDE DEF packets
<1>5. /\ s \in Run /\ s.status = "running" /\ s.id = r.id
      /\ s.packet = packets
  BY <1>1, <1>2, <1>3 DEF Run, RunStatus
<1>6. \A p \in Packet : /\ s.packet[p] \in {"pending", "no-change"}
                        /\ s.packet[p] = "no-change" => p \notin SystemPacket
  BY <1>4, <1>5
<1>7. Sound(s)
  BY <1>5, <1>6, UnstartedIsSound
<1> QED BY <1>5, <1>7 DEF Good

\* loadWorkRun keeps a run sound and every decision in it.
LEMMA LoadIsGood ==
  ASSUME NEW r, Good(r)
  PROVE  /\ Good(LoadWorkRun(r)) /\ DecidedIn(LoadWorkRun(r), r) /\ DecidedIn(r, LoadWorkRun(r))
         /\ LoadWorkRun(r).id = r.id
<1>1. Good(LoadWorkRun(r))
  BY SoundAfterLoad DEF Good
<1>2. LoadWorkRun(r).id = r.id
      /\ \A p \in Packet : LoadWorkRun(r).packet[p] =
           IF r.status = "running" /\ r.packet[p] = "running" THEN "pending" ELSE r.packet[p]
  BY DEF LoadWorkRun, Good, Run
<1> QED BY <1>1, <1>2 DEF DecidedIn, Over

------------------------------------------------------------------------------
(* The steps on the state.                                                  *)

\* What every handler after the confirmation does to the state, as far as the
\* invariant is concerned.
Kept ==
  /\ Good(run') /\ Follows(run, run')
  /\ Acyclic => Stirs(run')
  /\ Good(saved') /\ saved'.id <= drafts /\ DecidedIn(run', saved')
  /\ disk' \in [File -> Content]
  /\ SnapsTyped(snap') /\ WorkersTyped(worker') /\ UndosTyped(undoing')

\* A snapshot holds files of the project with their contents.
LEMMA BaselinesAreBaselines ==
  ASSUME TypeOK, NEW r, NEW p \in Packet
  PROVE  IsBaseline(SnapshotPacketFiles(r, p))
BY ScopeAssumption DEF TypeOK, SnapshotPacketFiles, EditScopeOf, IsBaseline

\* Launching packets leaves well-typed snapshots and workers.
LEMMA BecomeKeeps ==
  ASSUME TypeOK, NEW r0, NEW r1, NEW snaps, NEW workers, SnapsTyped(snaps),
         WorkersTyped(workers), Become(r0, r1, snaps, workers)
  PROVE  run' = r1 /\ SnapsTyped(snap') /\ WorkersTyped(worker')
<1>1. \A p \in Packet : IsBaseline(SnapshotPacketFiles(r1, p))
  BY BaselinesAreBaselines
<1>2. SnapsTyped(snap')
  BY <1>1 DEF Become, SnapsTyped
<1>3. WorkersTyped(worker')
  BY <1>1 DEF Become, WorkersTyped
<1> QED BY <1>2, <1>3 DEF Become

\* Dropping a snapshot leaves well-typed snapshots.
LEMMA DropKeepsSnaps ==
  ASSUME NEW snaps, SnapsTyped(snaps), NEW p \in Packet
  PROVE  SnapsTyped([snaps EXCEPT ![p] = NoSnapshot])
BY DEF SnapsTyped

\* Ending a session leaves well-typed workers.
LEMMA EndedKeepsWorkers ==
  ASSUME TypeOK, NEW p \in Packet
  PROVE  WorkersTyped(Ended(p))
BY DEF TypeOK, WorkersTyped, Ended

\* Committing and advancing from any good run, confirmed or just confirmed.
LEMMA CommitIsGood ==
  ASSUME TypeOK, NEW r1, Good(r1), NEW snaps, NEW workers, SnapsTyped(snaps),
         WorkersTyped(workers), CommitAndAdvance(run, r1, snaps, workers)
  PROVE  /\ Good(run') /\ Follows(r1, run') /\ saved' = run'
         /\ SnapsTyped(snap') /\ WorkersTyped(worker')
         /\ Acyclic => Stirs(run')
<1>1. Become(run, Advance(r1), snaps, workers) /\ saved' = run'
  BY DEF CommitAndAdvance
<1>2. run' = Advance(r1) /\ SnapsTyped(snap') /\ WorkersTyped(worker')
  BY <1>1, BecomeKeeps
<1> QED BY <1>1, <1>2, AdvanceFollows, AdvanceStirs

\* commitWorkRun and advanceWorkRun at the end of a handler keep the invariant.
LEMMA CommitKeeps ==
  ASSUME TypeOK, NEW r1, Good(r1), Follows(run, r1), run.id <= drafts,
         NEW snaps, NEW workers, SnapsTyped(snaps), WorkersTyped(workers),
         CommitAndAdvance(run, r1, snaps, workers),
         disk' \in [File -> Content], UndosTyped(undoing')
  PROVE  Kept
<1>1. /\ Good(run') /\ Follows(run, run') /\ saved' = run'
      /\ SnapsTyped(snap') /\ WorkersTyped(worker')
      /\ Acyclic => Stirs(run')
  BY CommitIsGood, FollowsIsTransitive
<1>2. run'.id <= drafts /\ DecidedIn(run', run')
  BY <1>1 DEF Follows, DecidedIn
<1> QED BY <1>1, <1>2 DEF Kept

\* Undoing a packet keeps the invariant, whether it settles in this step or
\* leaves the rest of the restore to later ones.
LEMMA UndoKeeps ==
  ASSUME TypeOK, run.id <= drafts,
         NEW by \in Clients \cup {"orchestrator", "autonomy"}, NEW p \in Packet,
         NEW next \in {"pending", "failed"},
         NEW r, Good(r), Follows(run, r), Acyclic => Stirs(r),
         NEW c, Good(c), c.id <= drafts, DecidedIn(r, c),
         NEW snaps, SnapsTyped(snaps), NEW workers, WorkersTyped(workers),
         UndoPacket(by, p, next, r, c, snaps, workers)
  PROVE  Kept
<1>1. CASE NothingToRestore(p, snaps)
  <2>1. /\ CommitAndAdvance(run, Flip(r, by, p, next), [snaps EXCEPT ![p] = NoSnapshot], workers)
        /\ disk' \in [File -> Content] /\ UndosTyped(undoing')
    BY <1>1 DEF UndoPacket, TypeOK
  <2>2. Good(Flip(r, by, p, next)) /\ Follows(run, Flip(r, by, p, next))
    BY FlipFollows, FollowsIsTransitive
  <2>3. SnapsTyped([snaps EXCEPT ![p] = NoSnapshot])
    BY DropKeepsSnaps
  <2> QED BY <2>1, <2>2, <2>3, CommitKeeps
<1>2. CASE ~NothingToRestore(p, snaps)
  <2>1. PICK f \in DOMAIN snaps[p] :
          /\ disk' = [disk EXCEPT ![f] = snaps[p][f]]
          /\ undoing' = undoing \cup {[by |-> by, packet |-> p, next |-> next,
                                      left |-> DOMAIN snaps[p] \ {f}, to |-> snaps[p]]}
          /\ Become(run, r, snaps, workers)
          /\ saved' = c
    BY <1>2 DEF UndoPacket
  <2>2. IsBaseline(snaps[p])
    BY <1>2 DEF NothingToRestore, SnapsTyped
  <2>3. f \in File /\ snaps[p][f] \in Content
    BY <2>2 DEF IsBaseline
  <2>4. disk' \in [File -> Content]
    BY <2>1, <2>3 DEF TypeOK
  <2>5. UndosTyped(undoing')
    BY <2>1, <2>2 DEF UndosTyped, TypeOK
  <2>6. run' = r /\ SnapsTyped(snap') /\ WorkersTyped(worker')
    BY <2>1, BecomeKeeps
  <2> QED BY <2>1, <2>4, <2>5, <2>6 DEF Kept
<1> QED BY <1>1, <1>2

\* So does escalating a packet, with or without the autonomy ruling.
LEMMA EscalateKeeps ==
  ASSUME TypeOK, run.id <= drafts, NEW p \in Packet,
         NEW r, Good(r), Follows(run, r), Acyclic => Stirs(r),
         NEW c, Good(c), c.id <= drafts, DecidedIn(r, c),
         NEW snaps, SnapsTyped(snaps), NEW workers, WorkersTyped(workers),
         Escalate(p, r, c, snaps, workers)
  PROVE  Kept
<1> DEFINE s == SetPacketStatus(r, p, "escalated")
<1>1. Good(s) /\ Follows(run, s) /\ DecidedIn(s, c) /\ (Acyclic => Stirs(s))
  <2>1. Good(s) /\ Follows(r, s)
    BY StatusFollows DEF Decision
  <2>2. DecidedIn(s, r)
    BY EscalationDecidesNothing
  <2> QED BY <2>1, <2>2, FollowsIsTransitive, EscalationStirs DEF DecidedIn
<1> HIDE DEF s
<1>2. CASE Autonomous
  <2>1. UndoPacket("autonomy", p, "failed", s, c, snaps, workers)
    BY <1>2 DEF Escalate, s
  <2> QED BY <1>1, <2>1, UndoKeeps
<1>3. CASE ~Autonomous
  <2>1. CommitAndAdvance(run, s, snaps, workers) /\ UNCHANGED <<disk, undoing>>
    BY <1>3 DEF Escalate, s
  <2>2. disk' \in [File -> Content] /\ UndosTyped(undoing')
    BY <2>1 DEF TypeOK
  <2> QED BY <1>1, <2>1, <2>2, CommitKeeps
<1> QED BY <1>2, <1>3

\* So does approving one.
LEMMA ApproveKeeps ==
  ASSUME TypeOK, run.id <= drafts, NEW p \in Packet, NEW r, Good(r), Follows(run, r),
         NEW snaps, SnapsTyped(snaps), NEW workers, WorkersTyped(workers),
         Approve(p, r, snaps, workers)
  PROVE  Kept
<1>1. Good(SetPacketStatus(r, p, "done")) /\ Follows(run, SetPacketStatus(r, p, "done"))
  BY StatusFollows, FollowsIsTransitive DEF Decision
<1>2. /\ CommitAndAdvance(run, SetPacketStatus(r, p, "done"),
                          [snaps EXCEPT ![p] = NoSnapshot], workers)
      /\ disk' \in [File -> Content] /\ UndosTyped(undoing')
  BY DEF Approve, TypeOK
<1>3. SnapsTyped([snaps EXCEPT ![p] = NoSnapshot])
  BY DropKeepsSnaps
<1> QED BY <1>1, <1>2, <1>3, CommitKeeps

\* No decision about a confirmed run is taken back.
Sticks == run.status # "draft" => DecidedIn(run, run')

\* What the invariant says, in the form the action lemmas use.
LEMMA InvFacts ==
  ASSUME Inv
  PROVE  /\ TypeOK /\ Good(run) /\ Good(saved)
         /\ run.id <= drafts /\ saved.id <= drafts
         /\ Follows(run, run) /\ DecidedIn(run, saved)
         /\ SnapsTyped(snap) /\ WorkersTyped(worker) /\ UndosTyped(undoing)
         /\ Acyclic => Stirs(run)
BY DEF Inv, TypeOK, Good, BriefsInv, Follows, DecidedIn

\* The invariant after a step of a handler that Kept describes.
LEMMA KeptKeepsInv ==
  ASSUME Inv, Kept, briefing' \subseteq briefing, drafts' = drafts,
         reviewing' \subseteq [packet : Packet, attempt : Nat], restarts' \in Nat,
         torn' \subseteq Packet \X Nat,
         rewriting' \subseteq [packet : Packet, attempt : Nat, file : File]
  PROVE  Inv' /\ Sticks
<1>1. TypeOK'
  BY DEF Inv, TypeOK, Kept, Good
<1>2. Sound(run)' /\ Sound(saved)' /\ DecidedIn(run, saved)'
  BY DEF Kept, Good
<1>3. BriefsInv'
  BY DEF Inv, BriefsInv, Kept, Follows
<1> QED BY <1>1, <1>2, <1>3 DEF Inv, Sticks, Kept, Follows

------------------------------------------------------------------------------
(* The actions.                                                             *)

\* What the evidence of a live worker names are files of the project.
LEMMA DiffsAreFiles ==
  ASSUME TypeOK, NEW p \in Packet, HasSession(p)
  PROVE  Diffs(p) \subseteq File
BY DEF TypeOK, WorkersTyped, HasSession, Diffs, IsBaseline

\* A report at the gate, and the scheduling that follows it, keep the run sound.
LEMMA AtReviewFollows ==
  ASSUME Inv, NEW p \in Packet, HasSession(p)
  PROVE  /\ Good(AtReview(p)) /\ Follows(run, AtReview(p))
         /\ Good(Advance(AtReview(p))) /\ Follows(run, Advance(AtReview(p)))
         /\ Acyclic => Stirs(Advance(AtReview(p)))
<1> DEFINE r == [run EXCEPT !.changed[p] = Diffs(p)]
<1>1. Good(r) /\ Follows(run, r)
  BY InvFacts, DiffsAreFiles, EvidenceFollows
<1> HIDE DEF r
<1>2. Good(SetPacketStatus(r, p, "awaiting-review"))
      /\ Follows(run, SetPacketStatus(r, p, "awaiting-review"))
  BY <1>1, StatusFollows, FollowsIsTransitive DEF Decision
<1>3. Good(AtReview(p)) /\ Follows(run, AtReview(p))
  BY <1>2 DEF AtReview, r
<1> QED BY <1>3, AdvanceFollows, AdvanceStirs, FollowsIsTransitive

\* A packet that could not be launched (runOnePacket).
LEMMA WorkerRefusedStep ==
  ASSUME Inv, NEW p \in Packet, WorkerRefused(p)
  PROVE  Inv' /\ Sticks
<1>1. Escalate(p, run, saved, snap, Ended(p)) /\ WorkersTyped(Ended(p))
  BY InvFacts, EndedKeepsWorkers DEF WorkerRefused
<1>2. Kept
  BY <1>1, InvFacts, EscalateKeeps
<1> QED BY <1>2, KeptKeepsInv DEF WorkerRefused, Inv, TypeOK

\* A worker that asks for the human (runPacketWorker).
LEMMA WorkerEscalatesStep ==
  ASSUME Inv, NEW p \in Packet, WorkerEscalates(p)
  PROVE  Inv' /\ Sticks
<1> DEFINE r == [run EXCEPT !.changed[p] = Diffs(p)]
<1>1. Good(r) /\ Follows(run, r) /\ r.packet = run.packet /\ (Acyclic => Stirs(r))
  BY InvFacts, DiffsAreFiles, EvidenceFollows, EvidenceStirs DEF WorkerEscalates, MayEnd
<1>2. Escalate(p, r, saved, snap, Ended(p)) /\ WorkersTyped(Ended(p))
  BY InvFacts, EndedKeepsWorkers DEF WorkerEscalates
<1> HIDE DEF r
<1>3. DecidedIn(r, saved)
  BY <1>1, InvFacts DEF DecidedIn
<1>4. Kept
  BY <1>1, <1>2, <1>3, InvFacts, EscalateKeeps
<1> QED BY <1>4, KeptKeepsInv DEF WorkerEscalates, Inv, TypeOK

\* A worker that failed before it changed anything (runPacketWorker).
LEMMA WorkerDiesIdleStep ==
  ASSUME Inv, NEW p \in Packet, WorkerDiesIdle(p)
  PROVE  Inv' /\ Sticks
<1> DEFINE r == [run EXCEPT !.changed[p] = {}]
<1>1. Good(r) /\ Follows(run, r) /\ r.packet = run.packet /\ (Acyclic => Stirs(r))
  BY InvFacts, EvidenceFollows, EvidenceStirs
<1>2. /\ Escalate(p, r, saved, [snap EXCEPT ![p] = NoSnapshot], Ended(p))
      /\ WorkersTyped(Ended(p)) /\ SnapsTyped([snap EXCEPT ![p] = NoSnapshot])
  BY InvFacts, EndedKeepsWorkers, DropKeepsSnaps DEF WorkerDiesIdle
<1> HIDE DEF r
<1>3. DecidedIn(r, saved)
  BY <1>1, InvFacts DEF DecidedIn
<1>4. Kept
  BY <1>1, <1>2, <1>3, InvFacts, EscalateKeeps
<1> QED BY <1>4, KeptKeepsInv DEF WorkerDiesIdle, Inv, TypeOK

\* A worker's report on a gated run (runOnePacket).
LEMMA WorkerReportsGatedStep ==
  ASSUME Inv, NEW p \in Packet, WorkerReportsGated(p)
  PROVE  Inv' /\ Sticks
<1>1. /\ Good(AtReview(p)) /\ Follows(run, AtReview(p)) /\ WorkersTyped(Ended(p))
      /\ CommitAndAdvance(run, AtReview(p), snap, Ended(p))
  BY InvFacts, AtReviewFollows, EndedKeepsWorkers DEF WorkerReportsGated, MayEnd
<1>2. disk' \in [File -> Content] /\ UndosTyped(undoing')
  BY InvFacts DEF WorkerReportsGated, MayEnd, TypeOK
<1>3. Kept
  BY <1>1, <1>2, InvFacts, CommitKeeps
<1> QED BY <1>3, KeptKeepsInv DEF WorkerReportsGated, MayEnd, Inv, TypeOK

\* A worker's report on an orchestrated run, with its pre-checks
\* (runOnePacket, orchestratorReview).
LEMMA WorkerReportsOrchestratedStep ==
  ASSUME Inv, NEW p \in Packet, NEW died \in BOOLEAN, NEW decision \in PreChecks,
         WorkerReportsOrchestrated(p, died, decision)
  PROVE  Inv' /\ Sticks
<1> DEFINE waiting == Advance(AtReview(p))
<1>0. HasSession(p)
  BY DEF WorkerReportsOrchestrated, MayEnd
<1>1. Good(waiting) /\ Follows(run, waiting) /\ (Acyclic => Stirs(waiting))
  BY <1>0, AtReviewFollows
<1>2. waiting.id <= drafts /\ DecidedIn(waiting, waiting)
  BY <1>1, InvFacts DEF Follows, DecidedIn
<1>3. WorkersTyped(Ended(p))
  BY InvFacts, EndedKeepsWorkers
<1>4. AfterRejection(waiting, p) \in {"pending", "failed"}
  BY DEF AfterRejection
<1>5. /\ drafts' = drafts /\ briefing' \subseteq briefing /\ restarts' \in Nat
      /\ torn' = torn /\ rewriting' = rewriting
      /\ \/ Approve(p, waiting, snap, Ended(p)) /\ UNCHANGED reviewing
         \/ /\ UndoPacket("orchestrator", p, AfterRejection(waiting, p),
                          waiting, waiting, snap, Ended(p))
            /\ UNCHANGED reviewing
         \/ Escalate(p, waiting, waiting, snap, Ended(p)) /\ UNCHANGED reviewing
         \/ /\ Become(run, waiting, snap, Ended(p)) /\ saved' = run'
            /\ reviewing' = reviewing \cup {[packet |-> p, attempt |-> run.attempts[p]]}
            /\ UNCHANGED <<disk, undoing>>
  BY InvFacts DEF WorkerReportsOrchestrated, TypeOK
<1> HIDE DEF waiting
<1>6. CASE Approve(p, waiting, snap, Ended(p)) /\ UNCHANGED reviewing
  <2>1. Kept
    BY <1>1, <1>3, <1>6, InvFacts, ApproveKeeps
  <2> QED BY <2>1, <1>5, <1>6, KeptKeepsInv DEF Inv, TypeOK
<1>7. CASE /\ UndoPacket("orchestrator", p, AfterRejection(waiting, p),
                         waiting, waiting, snap, Ended(p))
           /\ UNCHANGED reviewing
  <2>1. Kept
    BY <1>1, <1>2, <1>3, <1>4, <1>7, InvFacts, UndoKeeps
  <2> QED BY <2>1, <1>5, <1>7, KeptKeepsInv DEF Inv, TypeOK
<1>8. CASE Escalate(p, waiting, waiting, snap, Ended(p)) /\ UNCHANGED reviewing
  <2>1. Kept
    BY <1>1, <1>2, <1>3, <1>8, InvFacts, EscalateKeeps
  <2> QED BY <2>1, <1>5, <1>8, KeptKeepsInv DEF Inv, TypeOK
<1>9. CASE /\ Become(run, waiting, snap, Ended(p)) /\ saved' = run'
           /\ reviewing' = reviewing \cup {[packet |-> p, attempt |-> run.attempts[p]]}
           /\ UNCHANGED <<disk, undoing>>
  <2>1. run' = waiting /\ SnapsTyped(snap') /\ WorkersTyped(worker')
    BY <1>3, <1>9, InvFacts, BecomeKeeps
  <2>2. Kept
    BY <1>1, <1>2, <1>9, <2>1, InvFacts DEF Kept, TypeOK
  <2>3. run.attempts[p] \in Nat
    BY InvFacts DEF Good, Run
  <2>4. reviewing' \subseteq [packet : Packet, attempt : Nat]
    BY <1>9, <2>3, InvFacts DEF TypeOK
  <2> QED BY <1>5, <2>2, <2>4, KeptKeepsInv DEF Inv, TypeOK
<1> QED BY <1>5, <1>6, <1>7, <1>8, <1>9

\* The model reviewer's answer (orchestratorReview after its await).
LEMMA ReviewerAnswersStep ==
  ASSUME Inv, NEW v \in reviewing, NEW verdict \in Verdicts, ReviewerAnswers(v, verdict)
  PROVE  Inv' /\ Sticks
<1>1. v.packet \in Packet
  BY InvFacts DEF TypeOK
<1>2. AfterRejection(run, v.packet) \in {"pending", "failed"}
  BY DEF AfterRejection
<1>3. /\ drafts' = drafts /\ briefing' \subseteq briefing /\ restarts' \in Nat
      /\ torn' = torn /\ rewriting' = rewriting
      /\ reviewing' \subseteq [packet : Packet, attempt : Nat]
  BY InvFacts DEF ReviewerAnswers, TypeOK
<1>4. \/ UNCHANGED <<run, saved, disk, snap, worker, undoing>>
      \/ Approve(v.packet, run, snap, worker)
      \/ UndoPacket("orchestrator", v.packet, AfterRejection(run, v.packet),
                    run, saved, snap, worker)
      \/ Escalate(v.packet, run, saved, snap, worker)
      \/ saved' = run /\ UNCHANGED <<run, disk, snap, worker, undoing>>
  BY DEF ReviewerAnswers
<1>5. CASE UNCHANGED <<run, saved, disk, snap, worker, undoing>>
  <2>1. Kept
    BY <1>5, InvFacts DEF Kept, TypeOK
  <2> QED BY <1>3, <2>1, KeptKeepsInv DEF Inv, TypeOK
<1>6. CASE Approve(v.packet, run, snap, worker)
  <2>1. Kept
    BY <1>1, <1>6, InvFacts, ApproveKeeps
  <2> QED BY <1>3, <2>1, KeptKeepsInv DEF Inv, TypeOK
<1>7. CASE UndoPacket("orchestrator", v.packet, AfterRejection(run, v.packet),
                      run, saved, snap, worker)
  <2>1. Kept
    BY <1>1, <1>2, <1>7, InvFacts, UndoKeeps
  <2> QED BY <1>3, <2>1, KeptKeepsInv DEF Inv, TypeOK
<1>8. CASE Escalate(v.packet, run, saved, snap, worker)
  <2>1. Kept
    BY <1>1, <1>8, InvFacts, EscalateKeeps
  <2> QED BY <1>3, <2>1, KeptKeepsInv DEF Inv, TypeOK
<1>9. CASE saved' = run /\ UNCHANGED <<run, disk, snap, worker, undoing>>
  <2>1. Kept
    BY <1>9, InvFacts DEF Kept, TypeOK, DecidedIn
  <2> QED BY <1>3, <2>1, KeptKeepsInv DEF Inv, TypeOK
<1> QED BY <1>4, <1>5, <1>6, <1>7, <1>8, <1>9

\* One more file of a restore (restorePacketSnapshot).
LEMMA RestoreFileStep ==
  ASSUME Inv, NEW u \in undoing, NEW f \in u.left, RestoreFile(u, f)
  PROVE  Inv' /\ Sticks
<1>1. f \in DOMAIN u.to /\ IsBaseline(u.to)
  BY InvFacts DEF UndosTyped
<1>2. f \in File /\ u.to[f] \in Content
  BY <1>1 DEF IsBaseline
<1>3. disk' \in [File -> Content]
  BY <1>2, InvFacts DEF RestoreFile, TypeOK
<1>4. UndosTyped(undoing')
  <2> DEFINE w == [u EXCEPT !.left = u.left \ {f}]
  <2>1. /\ w = [by |-> w.by, packet |-> w.packet, next |-> w.next, left |-> w.left, to |-> w.to]
        /\ w.by = u.by /\ w.packet = u.packet /\ w.next = u.next /\ w.to = u.to
        /\ w.left = u.left \ {f}
    BY InvFacts DEF UndosTyped
  <2>2. undoing' = (undoing \ {u}) \cup {w}
    BY DEF RestoreFile
  <2> HIDE DEF w
  <2> QED BY <2>1, <2>2, InvFacts DEF UndosTyped
<1>5. Kept
  BY <1>3, <1>4, InvFacts DEF Kept, RestoreFile
<1> QED BY <1>5, KeptKeepsInv DEF RestoreFile, Inv, TypeOK

\* The end of a restore (applyPacketReview, autonomyResolve).
LEMMA FinishUndoStep ==
  ASSUME Inv, NEW u \in undoing, FinishUndo(u)
  PROVE  Inv' /\ Sticks
<1> DEFINE snaps == [snap EXCEPT ![u.packet] = NoSnapshot]
           r == Flip(run, u.by, u.packet, u.next)
<1>1. u.packet \in Packet /\ u.next \in {"pending", "failed"}
  BY InvFacts DEF UndosTyped
<1>2. SnapsTyped(snaps)
  BY <1>1, InvFacts, DropKeepsSnaps
<1>3. disk' \in [File -> Content] /\ UndosTyped(undoing')
  BY InvFacts DEF FinishUndo, TypeOK, UndosTyped
<1>4. Kept
  <2>1. CASE snap' = snaps /\ UNCHANGED <<run, saved, worker>>
    <3> HIDE DEF snaps
    <3> QED BY <1>2, <1>3, <2>1, InvFacts DEF Kept
  <2>2. CASE CommitAndAdvance(run, r, snaps, worker)
    <3>1. Good(r) /\ Follows(run, r)
      BY <1>1, InvFacts, FlipFollows
    <3> HIDE DEF r, snaps
    <3> QED BY <1>2, <1>3, <2>2, <3>1, InvFacts, CommitKeeps
  <2> QED BY <2>1, <2>2 DEF FinishUndo
<1> QED BY <1>4, KeptKeepsInv DEF FinishUndo, Inv, TypeOK

\* The approve button (handleWorkRunReview).
LEMMA HumanApprovesStep ==
  ASSUME Inv, NEW c \in Clients, NEW p \in Packet, HumanApproves(c, p)
  PROVE  Inv' /\ Sticks
<1>1. Kept
  BY InvFacts, ApproveKeeps DEF HumanApproves
<1> QED BY <1>1, KeptKeepsInv DEF HumanApproves, Inv, TypeOK

\* The reject button (handleWorkRunReview).
LEMMA HumanRejectsStep ==
  ASSUME Inv, NEW c \in Clients, NEW p \in Packet, HumanRejects(c, p)
  PROVE  Inv' /\ Sticks
<1>1. AfterRejection(run, p) \in {"pending", "failed"}
  BY DEF AfterRejection
<1>2. Kept
  BY <1>1, InvFacts, UndoKeeps DEF HumanRejects
<1> QED BY <1>2, KeptKeepsInv DEF HumanRejects, Inv, TypeOK

\* An edit through the chokepoint (packetScopeCheck).
LEMMA EditBeginsStep ==
  ASSUME Inv, NEW p \in Packet, NEW f \in File, EditBegins(p, f)
  PROVE  Inv' /\ Sticks
<1>1. rewriting' \subseteq [packet : Packet, attempt : Nat, file : File]
  BY InvFacts DEF EditBegins, Good, Run, TypeOK
<1>2. Kept
  BY InvFacts DEF Kept, EditBegins, TypeOK
<1> QED BY <1>1, <1>2, KeptKeepsInv DEF EditBegins, Inv, TypeOK

\* The rewrite of an edit (rewriteAndValidate).
LEMMA EditLandsStep ==
  ASSUME Inv, NEW e \in rewriting, EditLands(e)
  PROVE  Inv' /\ Sticks
<1>1. e \in [packet : Packet, attempt : Nat, file : File]
  BY InvFacts DEF TypeOK
<1>2. disk' \in [File -> Content]
  <2>1. disk[e.file] \cup {<<e.packet, e.attempt>>} \in Content
    BY <1>1, InvFacts DEF TypeOK, Content
  <2> QED BY <1>1, <2>1, InvFacts DEF EditLands, TypeOK
<1>3. Kept
  BY <1>2, InvFacts DEF Kept, EditLands
<1>4. rewriting' \subseteq [packet : Packet, attempt : Nat, file : File]
  BY InvFacts DEF EditLands, TypeOK
<1> QED BY <1>3, <1>4, KeptKeepsInv DEF EditLands, Inv, TypeOK

\* The pause button (handleWorkRunPauseResume).
LEMMA PauseStep ==
  ASSUME Inv, Pause
  PROVE  Inv' /\ Sticks
<1>1. Good(run')
  BY InvFacts, SoundAfterPauseResume DEF Pause, Good
<1>2. Follows(run, run') /\ run'.id <= drafts /\ DecidedIn(run', run')
  BY InvFacts DEF Pause, Follows, DecidedIn, Good, Run
<1>3. Stirs(run')
  BY InvFacts DEF Pause, Stirs, Good, Run
<1>4. Kept
  BY <1>1, <1>2, <1>3, InvFacts DEF Kept, Pause, TypeOK
<1> QED BY <1>4, KeptKeepsInv DEF Pause, Inv, TypeOK

\* The resume button (handleWorkRunPauseResume).
LEMMA ResumeStep ==
  ASSUME Inv, Resume
  PROVE  Inv' /\ Sticks
<1> DEFINE r == [run EXCEPT !.status = "running"]
<1>1. Good(r)
  BY InvFacts, SoundAfterPauseResume DEF Resume, Good
<1>2. Follows(run, r)
  BY InvFacts DEF Resume, Follows, DecidedIn, Good, Run
<1>3. /\ CommitAndAdvance(run, r, snap, worker)
      /\ disk' \in [File -> Content] /\ UndosTyped(undoing')
  BY InvFacts DEF Resume, TypeOK
<1> HIDE DEF r
<1>4. Kept
  BY <1>1, <1>2, <1>3, InvFacts, CommitKeeps
<1> QED BY <1>4, KeptKeepsInv DEF Resume, Inv, TypeOK

\* A draft no packet of which was touched is good whatever its brief says.
LEMMA DraftIsGood ==
  ASSUME NEW r \in Run, r.status \in {"none", "draft"},
         \A p \in Packet : r.packet[p] = "pending"
  PROVE  Good(r)
BY UnstartedIsSound DEF Good

\* The absent run is sound.
LEMMA NoRunIsGood == Good(NoRun) /\ NoRun.id = 0 /\ NoRun.status = "none"
<1>1. NoRun.id = 0 /\ NoRun.status = "none" /\ \A p \in Packet : NoRun.packet[p] = "pending"
  BY DEF NoRun
<1> QED BY <1>1, NoRunIsRun, DraftIsGood

\* What createDraftRun makes.
LEMMA DraftShape ==
  ASSUME NEW n \in Nat, NEW b \in BriefStatus
  PROVE  /\ DraftWorkRun(n, b) \in Run /\ DraftWorkRun(n, b).status = "draft"
         /\ DraftWorkRun(n, b).id = n /\ DraftWorkRun(n, b).brief = b
         /\ \A p \in Packet : DraftWorkRun(n, b).packet[p] = "pending"
<1>1. ASSUME NEW r \in Run, NEW s, s = [r EXCEPT !.status = "draft", !.id = n, !.brief = b]
      PROVE  /\ s \in Run /\ s.status = "draft" /\ s.id = n /\ s.brief = b
             /\ s.packet = r.packet
  BY <1>1 DEF Run, RunStatus
<1>2. \A p \in Packet : NoRun.packet[p] = "pending"
  BY DEF NoRun
<1> QED BY <1>1, <1>2, NoRunIsRun DEF DraftWorkRun

\* A new draft (createDraftRun).
LEMMA StartRunStep ==
  ASSUME Inv, StartRun
  PROVE  Inv' /\ Sticks
<1>1. /\ drafts' = drafts + 1 /\ drafts \in Nat /\ saved' = run'
      /\ UNCHANGED <<disk, snap, worker, reviewing, undoing, restarts, torn, rewriting>>
  BY InvFacts DEF StartRun, TypeOK
<1>2. PICK b \in {"none", "drafting"} :
        /\ run' = DraftWorkRun(drafts + 1, b)
        /\ briefing' = IF b = "drafting" THEN briefing \cup {drafts + 1} ELSE briefing
  BY <1>1 DEF StartRun
<1>3. /\ run' \in Run /\ run'.status = "draft" /\ run'.id = drafts + 1 /\ run'.brief = b
      /\ \A p \in Packet : run'.packet[p] = "pending"
  BY <1>1, <1>2, DraftShape DEF BriefStatus
<1>4. Good(run') /\ Good(saved')
  BY <1>1, <1>3, DraftIsGood
<1>5. TypeOK'
  <2>1. briefing' \subseteq Nat
    BY <1>1, <1>2, InvFacts DEF TypeOK
  <2> QED BY <1>1, <1>4, <2>1, InvFacts DEF TypeOK, Good
<1>6. BriefsInv'
  <2>1. ASSUME NEW n \in briefing PROVE n \in 1..(drafts + 1) /\ n # drafts + 1
    BY <1>1 DEF Inv, BriefsInv
  <2>2. run'.id <= drafts' /\ saved'.id <= drafts'
    BY <1>1, <1>3
  <2>3. ASSUME NEW n \in briefing'
        PROVE  /\ n \in 1..drafts'
               /\ run'.id = n => run'.status = "draft" /\ run'.brief = "drafting"
    BY <1>1, <1>2, <1>3, <2>1, <2>3
  <2> QED BY <2>2, <2>3 DEF BriefsInv
<1>7. Sticks
  BY <1>3, InvFacts DEF StartRun, Sticks, DecidedIn, Over, Good, Sound, UntouchedIn
<1>8. DecidedIn(run', saved')
  BY <1>1 DEF DecidedIn
<1>9. Stirs(run')
  BY <1>3 DEF Stirs
<1> QED BY <1>4, <1>5, <1>6, <1>7, <1>8, <1>9 DEF Inv, Good

\* The confirmation (handleWorkRunRatify).
LEMMA RatifyStep ==
  ASSUME Inv, Ratify
  PROVE  Inv' /\ Sticks
<1>1. Good(Ratified(run)) /\ Ratified(run).id = run.id
  BY InvFacts, RatifiedIsGood DEF Ratify
<1>2. CommitAndAdvance(run, Ratified(run), snap, worker)
      /\ UNCHANGED <<disk, briefing, reviewing, undoing, drafts, restarts, torn, rewriting>>
  BY DEF Ratify
<1>3. /\ Good(run') /\ run'.id = run.id /\ saved' = run'
      /\ SnapsTyped(snap') /\ WorkersTyped(worker')
      /\ Acyclic => Stirs(run')
  BY <1>1, <1>2, InvFacts, CommitIsGood DEF Follows
<1>4. TypeOK'
  BY <1>2, <1>3, InvFacts DEF TypeOK, Good
<1>5. BriefsInv'
  BY <1>2, <1>3 DEF Inv, BriefsInv, Ratify
<1>6. Sticks /\ DecidedIn(run', saved')
  BY <1>3 DEF Sticks, Ratify, DecidedIn
<1> QED BY <1>3, <1>4, <1>5, <1>6 DEF Inv, Good

\* The brief, ready or not (draftOrchestrationBrief).
LEMMA BriefLandsStep ==
  ASSUME Inv, NEW n \in briefing, NEW brief \in {"ready", "unavailable"}, BriefLands(n, brief)
  PROVE  Inv' /\ Sticks
<1> DEFINE landed == [run EXCEPT !.brief = brief]
<1>1. briefing' = briefing \ {n} /\ UNCHANGED <<disk, reviewing, undoing, drafts, restarts, torn, rewriting>>
  BY DEF BriefLands
<1>2. CASE run.id # n
  <2>1. UNCHANGED <<run, saved, snap, worker>>
    BY <1>2 DEF BriefLands
  <2>2. Kept
    BY <1>1, <2>1, InvFacts DEF Kept, TypeOK
  <2> QED BY <1>1, <2>2, KeptKeepsInv DEF Inv, TypeOK
<1>3. CASE run.id = n
  <2>1. run.status = "draft"
    BY <1>3 DEF Inv, BriefsInv
  <2>2. landed \in Run /\ landed.status = "draft" /\ landed.id = n
        /\ \A p \in Packet : landed.packet[p] = "pending"
    BY <1>3, <2>1, InvFacts DEF Good, Run, BriefStatus, Sound, UntouchedIn
  <2>3. \/ CommitAndAdvance(run, Ratified(landed), snap, worker)
        \/ run' = landed /\ saved' = run' /\ UNCHANGED <<snap, worker>>
    BY <1>3 DEF BriefLands
  <2> HIDE DEF landed
  <2>4. Good(landed)
    BY <2>2, DraftIsGood
  <2>5. Good(Ratified(landed)) /\ Ratified(landed).id = n
    BY <2>2, <2>4, RatifiedIsGood
  <2>6. /\ Good(run') /\ run'.id = n /\ saved' = run'
        /\ SnapsTyped(snap') /\ WorkersTyped(worker')
        /\ Acyclic => Stirs(run')
    <3>1. CASE CommitAndAdvance(run, Ratified(landed), snap, worker)
      BY <2>5, <3>1, InvFacts, CommitIsGood DEF Follows
    <3>2. CASE run' = landed /\ saved' = run' /\ UNCHANGED <<snap, worker>>
      BY <2>2, <2>4, <3>2, InvFacts DEF Stirs
    <3> QED BY <2>3, <3>1, <3>2
  <2>7. TypeOK'
    BY <1>1, <2>6, InvFacts DEF TypeOK, Good
  <2>8. BriefsInv'
    BY <1>1, <1>3, <2>6 DEF Inv, BriefsInv
  <2>9. Sticks /\ DecidedIn(run', saved')
    BY <2>1, <2>6 DEF Sticks, DecidedIn
  <2> QED BY <2>6, <2>7, <2>8, <2>9 DEF Inv, Good
<1> QED BY <1>2, <1>3

\* The discarded draft (handleWorkRunDiscard).
LEMMA DiscardStep ==
  ASSUME Inv, Discard
  PROVE  Inv' /\ Sticks
<1>1. /\ run' = NoRun /\ saved' = NoRun
      /\ UNCHANGED <<disk, snap, worker, briefing, reviewing, undoing, drafts, restarts, torn, rewriting>>
  BY DEF Discard
<1>2. TypeOK'
  BY <1>1, NoRunIsRun, InvFacts DEF TypeOK
<1>3. BriefsInv'
  BY <1>1, NoRunIsGood, InvFacts DEF Inv, BriefsInv, TypeOK
<1>4. Sticks /\ DecidedIn(run', saved') /\ Good(run') /\ Good(saved')
  BY <1>1, NoRunIsGood DEF Sticks, Discard, DecidedIn
<1>5. Stirs(run')
  BY <1>1, NoRunIsGood DEF Stirs
<1> QED BY <1>2, <1>3, <1>4, <1>5 DEF Inv, Good

\* A restart, at any moment (loadWorkRun).
LEMMA RestartStep ==
  ASSUME Inv, Restart
  PROVE  Inv' /\ Sticks
<1>1. /\ run' = LoadWorkRun(saved) /\ saved' = saved /\ drafts' = drafts
      /\ briefing' = {} /\ reviewing' = {} /\ undoing' = {}
      /\ worker' = [p \in Packet |-> NoWorker] /\ disk' = disk
      /\ restarts' = restarts + 1 /\ rewriting' = {}
  BY DEF Restart
<1>2. /\ Good(run') /\ DecidedIn(run', saved) /\ DecidedIn(saved, run')
      /\ run'.id = saved.id
  BY <1>1, InvFacts, LoadIsGood
<1>3. WorkersTyped(worker') /\ UndosTyped(undoing')
  BY <1>1 DEF WorkersTyped, UndosTyped
<1>8. SnapsTyped(snap') /\ torn' \subseteq Packet \X Nat
  <2>1. PICK cut \in {{}} \cup (IF CrashAtRest THEN {} ELSE {{p} : p \in Deciding}) :
          /\ snap' = [p \in Packet |-> IF p \in cut THEN NoSnapshot ELSE snap[p]]
          /\ torn' = torn \cup {<<p, saved.attempts[p]>> : p \in cut}
    BY DEF Restart
  <2>2. cut \subseteq Packet
    BY DEF Deciding
  <2>3. SnapsTyped(snap')
    BY <2>1, InvFacts DEF SnapsTyped
  <2>4. \A p \in cut : saved.attempts[p] \in Nat
    BY <2>2, InvFacts DEF Good, Run
  <2> QED BY <2>1, <2>2, <2>3, <2>4, InvFacts DEF TypeOK
<1>4. TypeOK'
  BY <1>1, <1>2, <1>3, <1>8, InvFacts DEF TypeOK, Good
<1>5. BriefsInv'
  BY <1>1, <1>2, InvFacts DEF BriefsInv
<1>6. Sticks
  BY <1>2, InvFacts DEF Sticks, DecidedIn
<1>7. Stirs(run')
  BY <1>1, InvFacts DEF LoadWorkRun, Stirs, Good, Run
<1> QED BY <1>1, <1>2, <1>4, <1>5, <1>6, <1>7, InvFacts DEF Inv, Good

------------------------------------------------------------------------------
(* The theorems.                                                            *)

\* The invariant holds when the server first starts.
LEMMA InitInv == Init => Inv
<1> SUFFICES ASSUME Init PROVE Inv
  OBVIOUS
<1>1. Good(run) /\ Good(saved) /\ run.id = 0 /\ saved.id = 0 /\ DecidedIn(run, saved)
  BY NoRunIsGood DEF Init, DecidedIn
<1>2. TypeOK
  BY <1>1 DEF Init, TypeOK, Good, SnapsTyped, WorkersTyped, UndosTyped, Content
<1>3. BriefsInv
  BY <1>1 DEF Init, BriefsInv
<1>4. Stirs(run)
  BY NoRunIsGood DEF Init, Stirs
<1> QED BY <1>1, <1>2, <1>3, <1>4 DEF Inv, Good

\* Every step keeps the invariant and every decision.
LEMMA StepInv == Inv /\ [Next]_vars => Inv' /\ (Sticks \/ UNCHANGED vars)
<1> SUFFICES ASSUME Inv, [Next]_vars
             PROVE  Inv' /\ (Sticks \/ UNCHANGED vars)
  OBVIOUS
<1>1. CASE ServerStep
  BY <1>1, BriefLandsStep, WorkerRefusedStep, WorkerEscalatesStep, WorkerDiesIdleStep,
     WorkerReportsGatedStep, WorkerReportsOrchestratedStep, ReviewerAnswersStep,
     FinishUndoStep, RestoreFileStep, EditLandsStep DEF ServerStep
<1>2. CASE Edit
  BY <1>2, EditBeginsStep DEF Edit
<1>3. CASE HumanStep
  BY <1>3, StartRunStep, RatifyStep, DiscardStep, PauseStep, ResumeStep,
     HumanApprovesStep, HumanRejectsStep DEF HumanStep
<1>4. CASE Restart
  BY <1>4, RestartStep
<1>5. CASE UNCHANGED vars
  BY <1>5 DEF vars, Inv, TypeOK, BriefsInv, DecidedIn
<1> QED BY <1>1, <1>2, <1>3, <1>4, <1>5 DEF Next

\* The inductive invariant holds of every behaviour.
LEMMA SpecInv == Spec => []Inv
BY InitInv, StepInv, PTL DEF Spec

\* Type correctness.
THEOREM TypeCorrect == Spec => []TypeOK
<1>1. Inv => TypeOK
  BY DEF Inv
<1> QED BY SpecInv, <1>1, PTL

\* Whatever handlers interleave and however often the server restarts, two
\* packets that hold lanes never change a file the other reaches, and no more
\* packets hold lanes than the run allows (startablePackets, setPacketStatus,
\* loadWorkRun).
THEOREM LanesAreSafe == Spec => [](LanesDisjoint /\ LanesBounded)
<1>1. Inv => LanesDisjoint /\ LanesBounded
  BY DEF Inv, Sound, LanesDisjoint, LanesBounded
<1> QED BY SpecInv, <1>1, PTL

\* Nothing is ever worked on before what it depends on is settled clean
\* (nextRunnablePacket).
THEOREM DependenciesComeFirst == Spec => []DependenciesFirst
<1>1. Inv => DependenciesFirst
  BY DEF Inv, Sound, DependenciesFirst
<1> QED BY SpecInv, <1>1, PTL

\* The cascade is exact at every moment: every packet that waits could still
\* be worked on, and every packet skipped has a dead dependency, whatever the
\* plan's graph is (cascadeSkips).
THEOREM CascadeIsAlwaysExact == Spec => []CascadeExact
<1>1. Inv => CascadeExact
  BY DEF Inv, Sound, CascadeExact
<1> QED BY SpecInv, <1>1, PTL

\* A run that says it is over is over, and "done" means every packet was
\* approved or needed no change (runOutcome, advanceWorkRun).
THEOREM OutcomeIsHonest == Spec => []OutcomeHonest
<1>1. Inv => OutcomeHonest
  BY DEF Inv, Sound, OutcomeHonest
<1> QED BY SpecInv, <1>1, PTL

\* Where the plan has no cycle, a running run always has a packet in flight or
\* escalated, whatever fails, is rejected or restored: nothing waits for nothing
\* (advanceWorkRun, cascadeSkips, startablePackets).
THEOREM NoRunStallsSilently == ASSUME Acyclic PROVE Spec => []NoSilentStall
<1>1. Inv => NoSilentStall
  BY DEF Inv, Stirs, NoSilentStall
<1> QED BY SpecInv, <1>1, PTL

\* At every moment the run on disk is one the next process can go on from
\* (commitWorkRun, loadWorkRun).
THEOREM SavedIsAlwaysSound == Spec => []SavedIsSound
<1>1. Inv => SavedIsSound
  BY DEF Inv, SavedIsSound
<1> QED BY SpecInv, <1>1, PTL

\* A decision about a packet of a confirmed run is never taken back, by any
\* handler or by a restart (commitWorkRun).
THEOREM DecisionsAlwaysStick == Spec => DecisionsStick
<1>1. Inv /\ [Next]_vars =>
        [\A p \in Packet :
           run.status # "draft" /\ run.packet[p] \in {"done", "failed", "skipped", "no-change"}
             => run'.packet[p] = run.packet[p]]_vars
  BY StepInv DEF Sticks, DecidedIn, Over
<1> QED BY SpecInv, <1>1, PTL DEF Spec, DecisionsStick
=============================================================================
