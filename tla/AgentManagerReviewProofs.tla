----------------------- MODULE AgentManagerReviewProofs -----------------------
(***************************************************************************)
(* What holds of the Agent Manager when one party reviews: a gated run     *)
(* with one client, or an orchestrated run that nobody else decides on.    *)
(* Then every review and every restore under way is of a packet that still *)
(* waits for it, each packet has at most one, the run implements GatedWork *)
(* across any number of restarts, and the board tells of each packet what  *)
(* the project's files hold of it.                                         *)
(***************************************************************************)
EXTENDS AgentManagerProofs

OneReviewer ==
  \/ Mode = "gated" /\ \A c, d \in Clients : c = d
  \/ Mode = "orchestrated" /\ Clients = {}

Open == {"running", "awaiting-review", "escalated"}
AtReviewer == {"awaiting-review", "escalated"}

------------------------------------------------------------------------------
(* What a handler that deals with one packet does to the others.            *)

SamePacket(r0, r1, q) == r1.packet[q] = r0.packet[q] /\ r1.attempts[q] = r0.attempts[q]

Opened(r0, r1, q) ==
  r0.packet[q] = "pending" /\ r1.packet[q] = "running" /\ r1.attempts[q] = r0.attempts[q] + 1

LeftOut(r0, r1, q) ==
  r0.packet[q] = "pending" /\ r1.packet[q] = "skipped" /\ r1.attempts[q] = r0.attempts[q]

\* The plan is read alike, and the run is confirmed or not as it was.
Frame(r0, r1) ==
  SamePlan(r0, r1) /\ (r1.status \in {"none", "draft"} <=> r0.status \in {"none", "draft"})

\* Other packets than p are left alone, started, or skipped if p failed.
Others(r0, r1, p) ==
  \A q \in Packet \ {p} : \/ SamePacket(r0, r1, q) \/ Opened(r0, r1, q)
                          \/ r1.packet[p] = "failed" /\ LeftOut(r0, r1, q)

\* What may become of p, which is being worked on or reviewed.
Turn(r0, r1, p) ==
  /\ r0.packet[p] \in Open
  /\ \/ r1.packet[p] \in Open \cup {"done", "failed"} /\ r1.attempts[p] = r0.attempts[p]
     \/ /\ r0.attempts[p] < MaxPacketAttempts
        /\ \/ r1.packet[p] = "pending" /\ r1.attempts[p] = r0.attempts[p]
           \/ r1.packet[p] = "running" /\ r1.attempts[p] = r0.attempts[p] + 1

Turned(r0, r1, p) == Frame(r0, r1) /\ Others(r0, r1, p) /\ Turn(r0, r1, p)

\* Two steps of one handler make one.
LEMMA OthersCompose ==
  ASSUME NEW p \in Packet, NEW r0 \in Run, NEW r1 \in Run, NEW r2 \in Run,
         Frame(r0, r1), Others(r0, r1, p), Frame(r1, r2), Others(r1, r2, p),
         r1.packet[p] = "failed" => r2.packet[p] = "failed"
  PROVE  Frame(r0, r2) /\ Others(r0, r2, p)
<1>1. Frame(r0, r2)
  BY DEF Frame, SamePlan
<1>2. ASSUME NEW q \in Packet \ {p}
      PROVE  \/ SamePacket(r0, r2, q) \/ Opened(r0, r2, q)
             \/ r2.packet[p] = "failed" /\ LeftOut(r0, r2, q)
  BY DEF Others, SamePacket, Opened, LeftOut
<1> QED BY <1>1, <1>2 DEF Others

\* setPacketStatus, of a legal transition.
LEMMA StatusTurn ==
  ASSUME NEW r \in Run, NEW p \in Packet, NEW next \in Decision, Legal(r, p, next),
         NEW s, s = SetPacketStatus(r, p, next)
  PROVE  /\ s \in Run /\ s.packet[p] = next /\ s.status = r.status
         /\ s.attempts = r.attempts /\ s.changed = r.changed
         /\ Frame(r, s) /\ Others(r, s, p)
<1>1. next \in PacketStatus /\ next \notin {"running", "skipped"}
  BY DEF Decision, PacketStatus
<1>2. /\ s \in Run /\ s = [r EXCEPT !.packet = s.packet] /\ s.packet[p] = next
      /\ \A q \in Packet \ {p} :
           \/ s.packet[q] = r.packet[q]
           \/ /\ q \in InRun(r) /\ r.packet[q] = "pending"
              /\ s.packet[q] = "skipped" /\ next \in {"failed", "skipped"}
  BY <1>1, LegalMove
<1>3. /\ s.status = r.status /\ s.brief = r.brief
      /\ s.attempts = r.attempts /\ s.changed = r.changed
  BY <1>2 DEF Run
<1>4. Frame(r, s)
  BY <1>3 DEF Frame, SamePlan
<1>5. Others(r, s, p)
  BY <1>1, <1>2, <1>3 DEF Others, SamePacket, LeftOut
<1> QED BY <1>2, <1>3, <1>4, <1>5

\* advanceWorkRun starts pending packets, or ends the run.
LEMMA AdvanceTurn ==
  ASSUME NEW r, Good(r)
  PROVE  /\ Advance(r) \in Run /\ Frame(r, Advance(r))
         /\ Advance(r).changed = r.changed
         /\ \A q \in Packet : SamePacket(r, Advance(r), q) \/ Opened(r, Advance(r), q)
         /\ r.status # "running" => Advance(r) = r
<1> DEFINE S == StartablePackets(r)
           a == Advance(r)
<1>0. r \in Run /\ a \in Run
  BY AdvanceFollows DEF Good
<1>1. CASE r.status = "running" /\ S # {}
  <2>1. a = Started(r, S) /\ \A p \in S : r.packet[p] = "pending"
    BY <1>1, StartableFills DEF Advance, Runnable
  <2>2. /\ a.status = r.status /\ a.brief = r.brief
        /\ \A p \in Packet : a.packet[p] = IF p \in S THEN "running" ELSE r.packet[p]
    BY <1>0, <2>1, StartedType
  <2>3. /\ a.changed = r.changed
        /\ \A p \in Packet : a.attempts[p] = IF p \in S THEN r.attempts[p] + 1 ELSE r.attempts[p]
    <3> DEFINE packets == [p \in Packet |-> IF p \in S THEN "running" ELSE r.packet[p]]
               tries == [p \in Packet |-> IF p \in S THEN r.attempts[p] + 1 ELSE r.attempts[p]]
    <3>1. a = [r EXCEPT !.packet = packets, !.attempts = tries]
      BY <2>1 DEF Started
    <3>2. \A p \in Packet : tries[p] = IF p \in S THEN r.attempts[p] + 1 ELSE r.attempts[p]
      OBVIOUS
    <3> HIDE DEF packets, tries
    <3> QED BY <1>0, <3>1, <3>2 DEF Run
  <2> QED BY <1>0, <1>1, <2>1, <2>2, <2>3 DEF Frame, SamePlan, SamePacket, Opened
<1>2. CASE r.status = "running" /\ S = {} /\ InFlight(r) = {} /\ AllSettled(r)
  <2>1. a = [r EXCEPT !.status = RunOutcome(r)] /\ RunOutcome(r) \in {"done", "failed"}
    BY <1>2 DEF Advance, RunOutcome
  <2>2. a.brief = r.brief /\ a.packet = r.packet /\ a.attempts = r.attempts
        /\ a.changed = r.changed /\ a.status = RunOutcome(r)
    BY <1>0, <2>1 DEF Run
  <2> QED BY <1>0, <1>2, <2>1, <2>2 DEF Frame, SamePlan, SamePacket
<1>3. CASE a = r
  BY <1>0, <1>3 DEF Frame, SamePlan, SamePacket
<1> QED BY <1>1, <1>2, <1>3 DEF Advance

\* commitWorkRun and advanceWorkRun after p was dealt with.
LEMMA AdvanceOthers ==
  ASSUME NEW r0 \in Run, NEW r1, Good(r1), NEW p \in Packet, Frame(r0, r1), Others(r0, r1, p)
  PROVE  /\ Frame(r0, Advance(r1)) /\ Others(r0, Advance(r1), p)
         /\ r1.packet[p] # "pending" => SamePacket(r1, Advance(r1), p)
<1>1. /\ Advance(r1) \in Run /\ r1 \in Run /\ Frame(r1, Advance(r1))
      /\ \A q \in Packet : SamePacket(r1, Advance(r1), q) \/ Opened(r1, Advance(r1), q)
  BY AdvanceTurn DEF Good
<1>2. Others(r1, Advance(r1), p)
  BY <1>1 DEF Others
<1>3. r1.packet[p] # "pending" => SamePacket(r1, Advance(r1), p)
  BY <1>1 DEF Opened
<1>4. r1.packet[p] = "failed" => Advance(r1).packet[p] = "failed"
  BY <1>3 DEF SamePacket
<1> QED BY <1>1, <1>2, <1>3, <1>4, OthersCompose

------------------------------------------------------------------------------
(* The invariant.                                                           *)

\* A worker's packet is running.
WorkersRun == \A p \in Packet : worker[p] # NoWorker => run.packet[p] = "running"

\* A review in flight is of the attempt that waits at the gate.
ReviewsOpen ==
  \A v \in reviewing : /\ Mode = "orchestrated"
                       /\ run.packet[v.packet] = "awaiting-review"
                       /\ v.attempt = run.attempts[v.packet]

\* A restore under way is of a packet that still waits for it, and legal; no
\* second one and no review is of the same packet.
UndoOpen(u) ==
  /\ u.by \in Clients <=> Mode = "gated"
  /\ run.packet[u.packet] \in AtReviewer
  /\ Legal(run, u.packet, u.next)
  /\ u.next = "pending" => run.attempts[u.packet] < MaxPacketAttempts
  /\ u.by = "autonomy" => run.packet[u.packet] = "escalated"

UndosOpen ==
  \A u \in undoing : /\ UndoOpen(u)
                     /\ \A v \in reviewing : v.packet # u.packet
                     /\ \A w \in undoing : w.packet = u.packet => w = u

\* No crash caught the decision about p's present attempt half made.
Whole(p) == <<p, run.attempts[p]>> \notin torn

\* What can come to review, now or after a restart, can be restored.
SnapsKept ==
  \A p \in Packet :
    /\ HasSession(p) => snap[p] # NoSnapshot
    /\ Whole(p) /\ (run.packet[p] = "awaiting-review" \/ saved.packet[p] = "awaiting-review")
         => snap[p] # NoSnapshot

\* Between workers, restores and decisions a crash catches none.
NoneTorn == CrashAtRest => torn = {}

OverSaved == run.status \in {"done", "failed"} => saved = run

\* The run on disk is as far as the run in memory, but for workers that a
\* restart took.
View(c, r) ==
  /\ Frame(c, r) /\ r.attempts = c.attempts
  /\ \A p \in Packet : \/ PhaseOf(c.packet[p]) = PhaseOf(r.packet[p])
                       \/ /\ c.status = "running" /\ c.packet[p] = "running"
                          /\ r.packet[p] = "pending"

\* Nothing was started for a draft.
DraftIdle == run.status \in {"none", "draft"} => run.attempts = NoRun.attempts

\* A running packet has a worker, until a restart takes it.
Staffed == \A p \in Packet : run.packet[p] = "running" => worker[p] # NoWorker

ReviewInv ==
  /\ WorkersRun /\ ReviewsOpen /\ UndosOpen /\ SnapsKept /\ NoneTorn
  /\ OverSaved /\ DraftIdle /\ View(saved, run)

------------------------------------------------------------------------------
(* The steps on the state.                                                  *)

\* Workers and snapshots after a handler that deals with p.
Placed(p) ==
  \A q \in Packet :
    IF run'.attempts[q] # run.attempts[q]
    THEN worker'[q] # NoWorker /\ (HasSession(q)' => snap'[q] # NoSnapshot)
    ELSE IF q = p THEN worker'[q] = NoWorker
    ELSE worker'[q] = worker[q] /\ snap'[q] = snap[q]

\* What is handed to the scheduler: p's session has ended, the others' go on.
HandedOver(p, snaps, workers) ==
  /\ SnapsTyped(snaps) /\ WorkersTyped(workers)
  /\ workers[p] = NoWorker
  /\ \A q \in Packet \ {p} : snaps[q] = snap[q] /\ workers[q] = worker[q]

\* After the scheduler has started what it can, a packet has the snapshot it was
\* handed over with, unless it was launched again.
LEMMA BecomePlaces ==
  ASSUME TypeOK, NEW p \in Packet, NEW r, NEW snaps, NEW workers,
         HandedOver(p, snaps, workers), Become(run, r, snaps, workers)
  PROVE  /\ run' = r /\ Placed(p)
         /\ r.attempts[p] = run.attempts[p] => snap'[p] = snaps[p]
<1>1. \A q \in Packet : IsBaseline(SnapshotPacketFiles(r, q))
  BY BaselinesAreBaselines
<1>2. ASSUME NEW b, IsBaseline(b)
      PROVE  b # NoSnapshot /\ b # NoWorker /\ b # Refused
  BY <1>2, AbsenceAssumption DEF IsBaseline
<1>3. /\ run' = r
      /\ \A q \in Packet : q \in Launched(run, r) <=> r.attempts[q] # run.attempts[q]
      /\ \A q \in Packet : snap'[q] = IF q \in Launched(run, r) \ Unlaunchable
                                      THEN SnapshotPacketFiles(r, q) ELSE snaps[q]
      /\ \A q \in Packet : worker'[q] = IF q \in Launched(run, r)
                                        THEN IF q \in Unlaunchable THEN Refused
                                             ELSE SnapshotPacketFiles(r, q)
                                        ELSE workers[q]
  BY DEF Become, Launched
<1>4. ASSUME NEW q \in Packet, run'.attempts[q] # run.attempts[q]
      PROVE  worker'[q] # NoWorker /\ (HasSession(q)' => snap'[q] # NoSnapshot)
  BY <1>1, <1>2, <1>3, <1>4, AbsenceAssumption DEF HasSession
<1>5. ASSUME NEW q \in Packet, run'.attempts[q] = run.attempts[q]
      PROVE  snap'[q] = snaps[q] /\ worker'[q] = workers[q]
  BY <1>3, <1>5
<1>6. Placed(p)
  BY <1>4, <1>5 DEF Placed, HandedOver
<1> QED BY <1>3, <1>5, <1>6

\* A review or a restore of p that a step leaves or begins.
ReviewBegins(v, p) ==
  /\ Mode = "orchestrated" /\ v.packet = p
  /\ run'.packet[p] = "awaiting-review" /\ v.attempt = run'.attempts[p]

\* What a handler that deals with p does to the state, as far as the invariant
\* is concerned.
Dealt(p) ==
  /\ Good(run') /\ Frame(run, run') /\ Others(run, run', p) /\ Placed(p)
  /\ run'.attempts[p] # run.attempts[p] <=> run'.packet[p] = "running"
  /\ \A v \in reviewing' : (v \in reviewing /\ v.packet # p) \/ ReviewBegins(v, p)
  /\ \A u \in undoing' : \/ u \in undoing /\ u.packet # p
                         \/ /\ u.packet = p /\ UndoOpen(u)'
                            /\ \A v \in reviewing' : v.packet # p
                            /\ \A w \in undoing' : w.packet = p => w = u
  /\ View(saved', run')
  /\ \A q \in Packet \ {p} : saved'.packet[q] = "awaiting-review" =>
       run'.packet[q] = "awaiting-review" \/ saved.packet[q] = "awaiting-review"
  /\ Whole(p)' /\ (run'.packet[p] = "awaiting-review" \/ saved'.packet[p] = "awaiting-review")
       => snap'[p] # NoSnapshot
  /\ run'.status \in {"done", "failed"} => saved' = run'

DealtTurn(p) == Dealt(p) /\ Turn(run, run', p)

\* A handler that deals with p, after its worker if it has one.
Proper(p) == UNCHANGED <<torn, rewriting>> /\ (HasSession(p) => MayEnd(p))

\* Sessions go on, of the attempt and in the scope they were started with,
\* except one that may end.
SessionsGoOn ==
  \A q \in Packet : HasSession(q) =>
    \/ MayEnd(q)
    \/ /\ worker'[q] = worker[q] /\ run'.attempts[q] = run.attempts[q]
       /\ EditScopeOf(run', q) = EditScopeOf(run, q)

\* A packet being worked on or reviewed: the run is not over.
LEMMA OpenIsNotOver ==
  ASSUME NEW r, Good(r), NEW p \in Packet, r.packet[p] \in Open
  PROVE  p \in InRun(r) /\ r.status \notin {"none", "draft", "done", "failed"}
BY DEF Good, Sound, UntouchedIn, OutcomeHonestIn, AllSettled, Open

\* A handler that deals with one packet keeps the invariant.
LEMMA DealtKeeps ==
  ASSUME Inv, ReviewInv, NEW p \in Packet, DealtTurn(p), torn' = torn
  PROVE  ReviewInv' /\ (Staffed => Staffed')
<1>0. /\ run \in Run /\ run' \in Run /\ UndosTyped(undoing)
      /\ reviewing \subseteq [packet : Packet, attempt : Nat]
      /\ Dealt(p) /\ run.packet[p] \in Open
  BY <1>0, InvFacts DEF DealtTurn, Turn, Dealt, Good, TypeOK
<1>1. ASSUME NEW q \in Packet \ {p}
      PROVE  \/ SamePacket(run, run', q) /\ run'.attempts[q] = run.attempts[q]
             \/ /\ run.packet[q] = "pending" /\ run'.packet[q] # "awaiting-review"
                /\ \/ run'.packet[q] = "running" /\ run'.attempts[q] # run.attempts[q]
                   \/ run'.packet[q] = "skipped" /\ run'.attempts[q] = run.attempts[q]
  <2>1. run.attempts[q] \in Nat
    BY <1>0 DEF Run
  <2> QED BY <1>0, <2>1 DEF Dealt, Others, SamePacket, Opened, LeftOut
<1>2. WorkersRun'
  <2> SUFFICES ASSUME NEW q \in Packet, worker'[q] # NoWorker
               PROVE  run'.packet[q] = "running"
    BY DEF WorkersRun
  <2>1. CASE q = p
    BY <1>0, <2>1 DEF Dealt, Placed
  <2>2. CASE q # p
    BY <1>0, <1>1, <2>2 DEF Dealt, Placed, ReviewInv, WorkersRun, SamePacket
  <2> QED BY <2>1, <2>2
<1>3. ReviewsOpen'
  <2> SUFFICES ASSUME NEW v \in reviewing'
               PROVE  /\ Mode = "orchestrated" /\ run'.packet[v.packet] = "awaiting-review"
                      /\ v.attempt = run'.attempts[v.packet]
    BY DEF ReviewsOpen
  <2>1. CASE v \in reviewing /\ v.packet # p
    BY <1>0, <1>1, <2>1 DEF ReviewInv, ReviewsOpen, SamePacket
  <2>2. CASE ReviewBegins(v, p)
    BY <2>2 DEF ReviewBegins
  <2> QED BY <1>0, <2>1, <2>2 DEF Dealt
<1>4. UndosOpen'
  <2>1. ASSUME NEW u \in undoing, u.packet # p
        PROVE  /\ UndoOpen(u)'
               /\ \A v \in reviewing' : v.packet # u.packet
               /\ \A w \in undoing' : w.packet = u.packet => w = u
    <3>1. u.packet \in Packet \ {p} /\ run.packet[u.packet] \in AtReviewer
      BY <1>0, <2>1 DEF UndosTyped, ReviewInv, UndosOpen, UndoOpen
    <3>2. SamePacket(run, run', u.packet)
      BY <1>1, <3>1 DEF AtReviewer
    <3>3. UndoOpen(u)'
      BY <2>1, <3>2 DEF ReviewInv, UndosOpen, UndoOpen, SamePacket, Legal
    <3> QED BY <1>0, <2>1, <3>3 DEF ReviewInv, UndosOpen, Dealt, ReviewBegins
  <2> QED BY <1>0, <2>1 DEF Dealt, UndosOpen
<1>5. SnapsKept'
  <2> SUFFICES ASSUME NEW q \in Packet
               PROVE  /\ HasSession(q)' => snap'[q] # NoSnapshot
                      /\ Whole(q)' /\ (\/ run'.packet[q] = "awaiting-review"
                                       \/ saved'.packet[q] = "awaiting-review")
                           => snap'[q] # NoSnapshot
    BY DEF SnapsKept
  <2>1. HasSession(q)' => snap'[q] # NoSnapshot
    BY <1>0 DEF Dealt, Placed, HasSession, ReviewInv, SnapsKept
  <2>2. CASE q = p
    BY <1>0, <2>1, <2>2 DEF Dealt
  <2>3. CASE q # p
    <3>1. run'.packet[q] = "awaiting-review" \/ saved'.packet[q] = "awaiting-review"
            => run.packet[q] = "awaiting-review" \/ saved.packet[q] = "awaiting-review"
      BY <1>0, <1>1, <2>3 DEF Dealt, SamePacket
    <3>2. saved.packet[q] = "awaiting-review" => run.packet[q] # "pending"
      BY DEF ReviewInv, View, PhaseOf
    <3>3. run'.attempts[q] = run.attempts[q] => snap'[q] = snap[q]
      BY <1>0, <2>3 DEF Dealt, Placed
    <3>4. run'.attempts[q] # run.attempts[q] => run.packet[q] = "pending"
      BY <1>1, <2>3
    <3>5. run'.attempts[q] = run.attempts[q] /\ Whole(q)' => Whole(q)
      BY DEF Whole
    <3> QED BY <2>1, <3>1, <3>2, <3>3, <3>4, <3>5 DEF ReviewInv, SnapsKept
  <2> QED BY <2>2, <2>3
<1>6. OverSaved' /\ View(saved, run)'
  BY <1>0 DEF Dealt, OverSaved
<1>7. Staffed => Staffed'
  BY <1>0, <1>1 DEF Staffed, Dealt, Placed, SamePacket
<1>8. DraftIdle'
  BY <1>0, InvFacts, OpenIsNotOver DEF DraftIdle, Dealt, Frame
<1> QED BY <1>2, <1>3, <1>4, <1>5, <1>6, <1>7, <1>8 DEF ReviewInv, NoneTorn

\* A run and its commit are as far as each other.
LEMMA ViewReflexive == ASSUME NEW r PROVE View(r, r)
BY DEF View, Frame, SamePlan

\* commitWorkRun and advanceWorkRun of a handler that dealt with p.
LEMMA CommitDeals ==
  ASSUME Inv, NEW p \in Packet, NEW r, Good(r), Frame(run, r), Others(run, r, p),
         r.attempts[p] = run.attempts[p], r.packet[p] # "running",
         NEW snaps, NEW workers, HandedOver(p, snaps, workers),
         CommitAndAdvance(run, r, snaps, workers),
         r.packet[p] = "awaiting-review" => snaps[p] # NoSnapshot,
         \A v \in reviewing' : v \in reviewing /\ v.packet # p,
         \A u \in undoing' : u \in undoing /\ u.packet # p
  PROVE  /\ Dealt(p) /\ saved' = run'
         /\ \/ SamePacket(r, run', p) /\ snap'[p] = snaps[p]
            \/ Opened(r, run', p)
<1>1. run \in Run /\ r \in Run
  BY InvFacts DEF Good
<1>2. Become(run, Advance(r), snaps, workers) /\ saved' = run'
  BY DEF CommitAndAdvance
<1>3. /\ run' = Advance(r) /\ Placed(p)
      /\ run'.attempts[p] = run.attempts[p] => snap'[p] = snaps[p]
  BY <1>2, InvFacts, BecomePlaces
<1>4. Good(run') /\ Frame(run, run') /\ Others(run, run', p)
  BY <1>1, <1>3, AdvanceFollows, AdvanceOthers
<1>5. SamePacket(r, run', p) \/ Opened(r, run', p)
  BY <1>3, AdvanceTurn
<1>6. \/ SamePacket(r, run', p) /\ snap'[p] = snaps[p]
      \/ Opened(r, run', p)
  BY <1>3, <1>5 DEF SamePacket
<1>7. run'.attempts[p] # run.attempts[p] <=> run'.packet[p] = "running"
  BY <1>1, <1>6 DEF SamePacket, Opened, Run
<1>8. run'.packet[p] = "awaiting-review" => snap'[p] # NoSnapshot
  BY <1>6 DEF SamePacket, Opened
<1>9. View(saved', run')
  BY <1>2, ViewReflexive
<1> QED BY <1>2, <1>3, <1>4, <1>6, <1>7, <1>8, <1>9 DEF Dealt

\* A run in which p is being worked on or waits for its reviewer, made by a
\* handler that has not decided about p.
AtHand(p, r) ==
  /\ Good(r) /\ Frame(run, r) /\ Others(run, r, p)
  /\ run.packet[p] \in Open /\ r.packet[p] \in Open /\ r.attempts[p] = run.attempts[p]

\* Nothing else is under way for p when the handler is through.
NothingElse(p) ==
  /\ \A u \in undoing : u.packet # p
  /\ \A v \in reviewing' : v \in reviewing /\ v.packet # p

\* Approving a packet (applyPacketReview).
LEMMA ApproveDeals ==
  ASSUME Inv, NEW p \in Packet, NEW r, AtHand(p, r), r.packet[p] \in AtReviewer,
         NEW snaps, NEW workers, HandedOver(p, snaps, workers), NothingElse(p),
         Approve(p, r, snaps, workers)
  PROVE  DealtTurn(p)
<1> DEFINE s == SetPacketStatus(r, p, "done")
<1>1. Legal(r, p, "done") /\ "done" \in Decision /\ r \in Run
  BY DEF Legal, PacketTransitions, AtReviewer, Decision, AtHand, Good, PacketStatus
<1>2. /\ s \in Run /\ s.packet[p] = "done" /\ s.attempts = r.attempts
      /\ Frame(r, s) /\ Others(r, s, p)
  BY <1>1, StatusTurn
<1>3. Good(s)
  BY <1>1, StatusFollows DEF AtHand
<1>4. /\ CommitAndAdvance(run, s, [snaps EXCEPT ![p] = NoSnapshot], workers)
      /\ undoing' = undoing
  BY DEF Approve
<1> HIDE DEF s
<1>5. Frame(run, s) /\ Others(run, s, p)
  BY <1>1, <1>2, InvFacts, OthersCompose DEF AtHand, Open, AtReviewer, Good
<1>6. HandedOver(p, [snaps EXCEPT ![p] = NoSnapshot], workers)
  BY DropKeepsSnaps DEF HandedOver, SnapsTyped
<1>7. /\ Dealt(p)
      /\ SamePacket(s, run', p) \/ Opened(s, run', p)
  BY <1>2, <1>3, <1>4, <1>5, <1>6, CommitDeals DEF AtHand, NothingElse
<1> QED BY <1>2, <1>7 DEF DealtTurn, Turn, SamePacket, Opened, AtHand

\* Undoing a packet, when its restore is through (FinishUndo) or there is
\* nothing to restore.
LEMMA FlipDeals ==
  ASSUME Inv, NEW p \in Packet, NEW r, AtHand(p, r), NEW by, NEW next \in {"pending", "failed"},
         Legal(r, p, next), next = "pending" => r.attempts[p] < MaxPacketAttempts,
         by = "autonomy" => r.packet[p] = "escalated",
         NEW snaps, NEW workers, HandedOver(p, snaps, workers),
         \A v \in reviewing' : v \in reviewing /\ v.packet # p,
         \A u \in undoing' : u \in undoing /\ u.packet # p,
         CommitAndAdvance(run, Flip(r, by, p, next), [snaps EXCEPT ![p] = NoSnapshot], workers)
  PROVE  DealtTurn(p)
<1> DEFINE s == Flip(r, by, p, next)
<1>1. next \in Decision /\ r \in Run /\ s = SetPacketStatus(r, p, next)
  BY DEF Decision, AtHand, Good, Flip
<1>2. /\ s \in Run /\ s.packet[p] = next /\ s.attempts = r.attempts
      /\ Frame(r, s) /\ Others(r, s, p)
  BY <1>1, StatusTurn
<1>3. Good(s)
  BY <1>1, StatusFollows DEF AtHand
<1>4. CommitAndAdvance(run, s, [snaps EXCEPT ![p] = NoSnapshot], workers)
  OBVIOUS
<1> HIDE DEF s
<1>5. Frame(run, s) /\ Others(run, s, p)
  BY <1>1, <1>2, InvFacts, OthersCompose DEF AtHand, Open, Good
<1>6. HandedOver(p, [snaps EXCEPT ![p] = NoSnapshot], workers)
  BY DropKeepsSnaps DEF HandedOver, SnapsTyped
<1>7. /\ Dealt(p)
      /\ SamePacket(s, run', p) \/ Opened(s, run', p)
  BY <1>2, <1>3, <1>4, <1>5, <1>6, CommitDeals DEF AtHand
<1> QED BY <1>2, <1>7 DEF DealtTurn, Turn, SamePacket, Opened, AtHand

\* Undoing a packet, in this step or with the rest of the restore left to
\* later ones (applyPacketReview, autonomyResolve).
LEMMA UndoDeals ==
  ASSUME Inv, NEW p \in Packet, NEW r, AtHand(p, r), r.packet[p] \in AtReviewer,
         NEW by, by \in Clients <=> Mode = "gated",
         NEW next \in {"pending", "failed"}, Legal(r, p, next),
         next = "pending" => r.attempts[p] < MaxPacketAttempts,
         by = "autonomy" => r.packet[p] = "escalated",
         NEW c, View(c, r),
         \A q \in Packet \ {p} : c.packet[q] = "awaiting-review" =>
           r.packet[q] = "awaiting-review" \/ saved.packet[q] = "awaiting-review",
         NEW snaps, NEW workers, HandedOver(p, snaps, workers), NothingElse(p),
         UndoPacket(by, p, next, r, c, snaps, workers)
  PROVE  DealtTurn(p)
<1>1. CASE NothingToRestore(p, snaps)
  <2>1. /\ CommitAndAdvance(run, Flip(r, by, p, next), [snaps EXCEPT ![p] = NoSnapshot], workers)
        /\ undoing' = undoing
    BY <1>1 DEF UndoPacket
  <2> QED BY <2>1, FlipDeals DEF NothingElse
<1>2. CASE ~NothingToRestore(p, snaps)
  <2>1. PICK f \in DOMAIN snaps[p] :
          /\ undoing' = undoing \cup {[by |-> by, packet |-> p, next |-> next,
                                      left |-> DOMAIN snaps[p] \ {f}, to |-> snaps[p]]}
          /\ Become(run, r, snaps, workers)
          /\ saved' = c
    BY <1>2 DEF UndoPacket
  <2> DEFINE u == [by |-> by, packet |-> p, next |-> next,
                   left |-> DOMAIN snaps[p] \ {f}, to |-> snaps[p]]
  <2>2. run' = r /\ Placed(p) /\ snap'[p] = snaps[p]
    BY <2>1, InvFacts, BecomePlaces DEF AtHand
  <2>3. snap'[p] # NoSnapshot
    BY <1>2, <2>2 DEF NothingToRestore
  <2>4. UndoOpen(u)'
    <3>1. u.by = by /\ u.packet = p /\ u.next = next
      OBVIOUS
    <3> HIDE DEF u
    <3> QED BY <2>2, <3>1 DEF UndoOpen, Legal
  <2>5. \A w \in undoing' : (w \in undoing /\ w.packet # p) \/ w = u
    BY <2>1 DEF NothingElse
  <2>6. u.packet = p
    OBVIOUS
  <2> HIDE DEF u
  <2>7. run'.status \notin {"done", "failed"}
    BY <2>2, OpenIsNotOver DEF AtHand
  <2>8. Dealt(p)
    BY <2>1, <2>2, <2>3, <2>4, <2>5, <2>6, <2>7 DEF Dealt, AtHand, NothingElse, AtReviewer
  <2> QED BY <2>2, <2>8 DEF DealtTurn, Turn, AtHand
<1> QED BY <1>1, <1>2

\* Escalating a packet, with or without the autonomy ruling (autonomyEscalate).
LEMMA EscalateDeals ==
  ASSUME Inv, NEW p \in Packet, NEW r, AtHand(p, r),
         r.packet[p] \in {"running", "awaiting-review"},
         NEW c, View(c, r),
         \A q \in Packet \ {p} : c.packet[q] = "awaiting-review" =>
           r.packet[q] = "awaiting-review" \/ saved.packet[q] = "awaiting-review",
         NEW snaps, NEW workers, HandedOver(p, snaps, workers), NothingElse(p),
         Escalate(p, r, c, snaps, workers)
  PROVE  DealtTurn(p)
<1> DEFINE s == SetPacketStatus(r, p, "escalated")
<1>1. Legal(r, p, "escalated") /\ "escalated" \in Decision /\ r \in Run
  BY DEF Legal, PacketTransitions, Decision, AtHand, Good, PacketStatus
<1>2. /\ s \in Run /\ s.packet[p] = "escalated" /\ s.attempts = r.attempts
      /\ Frame(r, s) /\ Others(r, s, p)
  BY <1>1, StatusTurn
<1>3. Good(s)
  BY <1>1, StatusFollows DEF AtHand
<1>4. \A q \in Packet \ {p} : s.packet[q] = r.packet[q]
  BY <1>1, LegalMove DEF PacketStatus
<1>5. CASE Autonomous
  <2>1. UndoPacket("autonomy", p, "failed", s, c, snaps, workers)
    BY <1>5 DEF Escalate
  <2>2. Mode = "orchestrated" /\ "autonomy" \notin Clients
    BY <1>5, ModeAssumption, EnvironmentAssumption
  <2> HIDE DEF s
  <2>3. View(c, s)
    <3>1. Frame(c, s) /\ s.attempts = c.attempts
      BY <1>2 DEF View, Frame, SamePlan
    <3>2. ASSUME NEW q \in Packet
          PROVE  \/ PhaseOf(c.packet[q]) = PhaseOf(s.packet[q])
                 \/ /\ c.status = "running" /\ c.packet[q] = "running"
                    /\ s.packet[q] = "pending"
      <4>1. CASE q = p
        BY <1>2, <4>1 DEF View, PhaseOf
      <4>2. CASE q # p
        BY <1>4, <4>2 DEF View
      <4> QED BY <4>1, <4>2
    <3> QED BY <3>1, <3>2 DEF View
  <2>4. AtHand(p, s)
    BY <1>1, <1>2, <1>3, InvFacts, OthersCompose DEF AtHand, Open, Good
  <2>5. Legal(s, p, "failed")
    BY <1>2 DEF Legal, PacketTransitions, PacketStatus
  <2> QED BY <1>2, <1>4, <2>1, <2>2, <2>3, <2>4, <2>5, UndoDeals DEF AtReviewer
<1>6. CASE ~Autonomous
  <2>1. CommitAndAdvance(run, s, snaps, workers) /\ undoing' = undoing
    BY <1>6 DEF Escalate
  <2> HIDE DEF s
  <2>2. Frame(run, s) /\ Others(run, s, p)
    BY <1>1, <1>2, InvFacts, OthersCompose DEF AtHand, Open, Good
  <2>3. /\ Dealt(p)
        /\ SamePacket(s, run', p) \/ Opened(s, run', p)
    BY <1>2, <1>3, <2>1, <2>2, CommitDeals DEF AtHand, NothingElse
  <2> QED BY <1>2, <2>3 DEF DealtTurn, Turn, SamePacket, Opened, AtHand, Open
<1> QED BY <1>5, <1>6

------------------------------------------------------------------------------
(* The handlers that deal with one packet.                                  *)

\* Packet p was dealt with; the others were left alone, started or skipped.
PacketStep(p) ==
  /\ ReviewInv' /\ (Staffed => Staffed') /\ Turned(run, run', p)
  /\ SessionsGoOn

\* From what is under way for p to a step of the run.
LEMMA DealtIsStep ==
  ASSUME Inv, ReviewInv, NEW p \in Packet, DealtTurn(p), Proper(p)
  PROVE  PacketStep(p)
<1>1. Frame(run, run') /\ Others(run, run', p) /\ Placed(p)
  BY DEF DealtTurn, Dealt
<1>2. ASSUME NEW q \in Packet, HasSession(q), q # p
      PROVE  /\ worker'[q] = worker[q] /\ run'.attempts[q] = run.attempts[q]
             /\ EditScopeOf(run', q) = EditScopeOf(run, q)
  <2>1. run.packet[q] = "running"
    BY <1>2 DEF HasSession, ReviewInv, WorkersRun
  <2>2. SamePacket(run, run', q)
    BY <1>1, <1>2, <2>1 DEF Others, Opened, LeftOut
  <2> QED BY <1>1, <1>2, <2>2, SamePlanSamePackets DEF SamePacket, Placed, Frame, EditScopeOf
<1>3. SessionsGoOn
  BY <1>2 DEF SessionsGoOn, Proper
<1> QED BY <1>1, <1>3, DealtKeeps DEF DealtTurn, PacketStep, Turned, Dealt, Proper

\* The evidence a worker leaves is all that changes when it is recorded.
LEMMA EvidenceAtHand ==
  ASSUME Inv, NEW p \in Packet, run.packet[p] \in Open, NEW files \in SUBSET File,
         NEW r, r = [run EXCEPT !.changed[p] = files]
  PROVE  /\ AtHand(p, r) /\ r.packet = run.packet
         /\ \A c : View(c, run) => View(c, r)
<1>1. Good(r) /\ r.packet = run.packet
  BY InvFacts, EvidenceFollows
<1>2. r.status = run.status /\ r.brief = run.brief /\ r.attempts = run.attempts
  BY InvFacts DEF Good, Run
<1>3. Frame(run, r) /\ Others(run, r, p)
  BY <1>1, <1>2 DEF Frame, SamePlan, Others, SamePacket
<1>4. \A c : View(c, run) => View(c, r)
  BY <1>1, <1>2 DEF View, Frame, SamePlan
<1> QED BY <1>1, <1>2, <1>3, <1>4 DEF AtHand

\* A packet with a worker, live or refused: nobody reviews or restores it.
LEMMA AtWork ==
  ASSUME Inv, ReviewInv, NEW p \in Packet, worker[p] # NoWorker
  PROVE  /\ run.packet[p] = "running"
         /\ \A u \in undoing : u.packet # p
         /\ \A v \in reviewing : v.packet # p
         /\ HandedOver(p, snap, Ended(p))
         /\ HandedOver(p, [snap EXCEPT ![p] = NoSnapshot], Ended(p))
         /\ \A q \in Packet \ {p} : saved.packet[q] = "awaiting-review" =>
              run.packet[q] = "awaiting-review" \/ saved.packet[q] = "awaiting-review"
<1>1. run.packet[p] = "running"
  BY DEF ReviewInv, WorkersRun
<1>2. /\ \A u \in undoing : u.packet # p
      /\ \A v \in reviewing : v.packet # p
  BY <1>1 DEF ReviewInv, UndosOpen, UndoOpen, ReviewsOpen, AtReviewer
<1>3. /\ WorkersTyped(Ended(p)) /\ Ended(p)[p] = NoWorker
      /\ \A q \in Packet \ {p} : Ended(p)[q] = worker[q]
  BY InvFacts, EndedKeepsWorkers DEF Ended, TypeOK, WorkersTyped
<1>4. /\ SnapsTyped(snap) /\ SnapsTyped([snap EXCEPT ![p] = NoSnapshot])
      /\ \A q \in Packet \ {p} : [snap EXCEPT ![p] = NoSnapshot][q] = snap[q]
  BY InvFacts, DropKeepsSnaps DEF SnapsTyped
<1> QED BY <1>1, <1>2, <1>3, <1>4 DEF HandedOver

\* A packet that could not be launched (runOnePacket).
LEMMA RefusedIsStep ==
  ASSUME Inv, ReviewInv, NEW p \in Packet, WorkerRefused(p)
  PROVE  PacketStep(p)
<1>0. Proper(p)
  BY AbsenceAssumption DEF Proper, WorkerRefused, HasSession
<1>1. worker[p] # NoWorker
  BY AbsenceAssumption DEF WorkerRefused
<1>2. NothingElse(p)
  BY <1>1, AtWork DEF NothingElse, WorkerRefused
<1>3. AtHand(p, run)
  BY <1>1, AtWork, InvFacts DEF AtHand, Frame, SamePlan, Others, SamePacket, Open
<1>4. Escalate(p, run, saved, snap, Ended(p)) /\ View(saved, run)
  BY DEF WorkerRefused, ReviewInv
<1>5. DealtTurn(p)
  BY <1>1, <1>2, <1>3, <1>4, AtWork, EscalateDeals
<1> QED BY <1>5, <1>0, DealtIsStep

\* A worker that asks for the human (runPacketWorker).
LEMMA EscalationIsStep ==
  ASSUME Inv, ReviewInv, NEW p \in Packet, WorkerEscalates(p)
  PROVE  PacketStep(p)
<1> DEFINE r == [run EXCEPT !.changed[p] = Diffs(p)]
<1>0. Proper(p)
  BY DEF Proper, WorkerEscalates
<1>1. worker[p] # NoWorker /\ Diffs(p) \subseteq File
  BY InvFacts, DiffsAreFiles DEF WorkerEscalates, MayEnd, HasSession
<1>2. NothingElse(p)
  BY <1>1, AtWork DEF NothingElse, WorkerEscalates
<1>3. AtHand(p, r) /\ r.packet = run.packet /\ View(saved, r)
  <2>1. run.packet[p] \in Open /\ View(saved, run)
    BY <1>1, AtWork DEF Open, ReviewInv
  <2> QED BY <1>1, <2>1, EvidenceAtHand
<1>4. Escalate(p, r, saved, snap, Ended(p))
  BY DEF WorkerEscalates
<1> HIDE DEF r
<1>5. DealtTurn(p)
  BY <1>1, <1>2, <1>3, <1>4, AtWork, EscalateDeals
<1> QED BY <1>5, <1>0, DealtIsStep

\* A worker that failed before it changed anything (runPacketWorker).
LEMMA IdleDeathIsStep ==
  ASSUME Inv, ReviewInv, NEW p \in Packet, WorkerDiesIdle(p)
  PROVE  PacketStep(p)
<1> DEFINE r == [run EXCEPT !.changed[p] = {}]
<1>0. Proper(p)
  BY DEF Proper, WorkerDiesIdle
<1>1. worker[p] # NoWorker
  BY DEF WorkerDiesIdle, MayEnd, HasSession
<1>2. NothingElse(p)
  BY <1>1, AtWork DEF NothingElse, WorkerDiesIdle
<1>3. AtHand(p, r) /\ r.packet = run.packet /\ View(saved, r)
  <2>1. run.packet[p] \in Open /\ View(saved, run)
    BY <1>1, AtWork DEF Open, ReviewInv
  <2> QED BY <1>1, <2>1, EvidenceAtHand
<1>4. Escalate(p, r, saved, [snap EXCEPT ![p] = NoSnapshot], Ended(p))
  BY DEF WorkerDiesIdle
<1> HIDE DEF r
<1>5. DealtTurn(p)
  BY <1>1, <1>2, <1>3, <1>4, AtWork, EscalateDeals
<1> QED BY <1>5, <1>0, DealtIsStep

\* A report at the gate, before and after the freed lane is filled.
LEMMA ReportAtHand ==
  ASSUME Inv, ReviewInv, NEW p \in Packet, HasSession(p),
         NEW r, r \in {AtReview(p), Advance(AtReview(p))}
  PROVE  /\ AtHand(p, r) /\ r.packet[p] = "awaiting-review"
         /\ \A q \in Packet \ {p} : r.packet[q] = "awaiting-review" =>
              run.packet[q] = "awaiting-review"
<1> DEFINE e == [run EXCEPT !.changed[p] = Diffs(p)]
           a == AtReview(p)
<1>1. worker[p] # NoWorker /\ Diffs(p) \subseteq File
  BY InvFacts, DiffsAreFiles DEF HasSession
<1>2. AtHand(p, e) /\ e.packet = run.packet /\ run.packet[p] = "running"
  <2>1. run.packet[p] \in Open /\ run.packet[p] = "running"
    BY <1>1, AtWork DEF Open
  <2> QED BY <1>1, <2>1, EvidenceAtHand
<1>3. a = SetPacketStatus(e, p, "awaiting-review") /\ e \in Run
  BY <1>2 DEF AtReview, AtHand, Good
<1> HIDE DEF e, a
<1>4. Legal(e, p, "awaiting-review") /\ "awaiting-review" \in Decision
  BY <1>2 DEF Legal, PacketTransitions, PacketStatus, Decision
<1>5. /\ a \in Run /\ a.packet[p] = "awaiting-review" /\ a.attempts = e.attempts
      /\ Frame(e, a) /\ Others(e, a, p)
  BY <1>2, <1>3, <1>4, StatusTurn
<1>6. Good(a) /\ Good(Advance(a))
  BY InvFacts, AtReviewFollows DEF a
<1>7. Frame(run, a) /\ Others(run, a, p)
  BY <1>2, <1>3, <1>5, InvFacts, OthersCompose DEF AtHand, Good
<1>8. /\ Frame(run, Advance(a)) /\ Others(run, Advance(a), p)
      /\ SamePacket(a, Advance(a), p)
  BY <1>5, <1>6, <1>7, InvFacts, AdvanceOthers DEF Good
<1>9. /\ r = a \/ r = Advance(a)
      /\ r.packet[p] = "awaiting-review" /\ r.attempts[p] = run.attempts[p]
  BY <1>2, <1>5, <1>8 DEF SamePacket, AtHand, a
<1>10. AtHand(p, r)
  BY <1>2, <1>6, <1>7, <1>8, <1>9 DEF AtHand, Open
<1> QED BY <1>9, <1>10 DEF AtHand, Others, SamePacket, Opened, LeftOut

\* A worker's report on a gated run (runOnePacket).
LEMMA GatedReportIsStep ==
  ASSUME Inv, ReviewInv, NEW p \in Packet, WorkerReportsGated(p)
  PROVE  PacketStep(p)
<1> DEFINE r == AtReview(p)
<1>0. Proper(p)
  BY DEF Proper, WorkerReportsGated
<1>1. HasSession(p) /\ worker[p] # NoWorker /\ CommitAndAdvance(run, r, snap, Ended(p))
  BY DEF WorkerReportsGated, MayEnd, HasSession
<1>2. NothingElse(p) /\ undoing' = undoing
  BY <1>1, AtWork DEF NothingElse, WorkerReportsGated
<1>3. AtHand(p, r) /\ r.packet[p] = "awaiting-review"
  BY <1>1, ReportAtHand
<1>4. snap[p] # NoSnapshot
  BY <1>1 DEF ReviewInv, SnapsKept
<1> HIDE DEF r
<1>5. HandedOver(p, snap, Ended(p))
  BY <1>1, AtWork
<1>6. /\ Dealt(p)
      /\ SamePacket(r, run', p) \/ Opened(r, run', p)
  BY <1>1, <1>2, <1>3, <1>4, <1>5, CommitDeals DEF AtHand, NothingElse
<1>7. Turn(run, run', p)
  BY <1>3, <1>6 DEF Turn, AtHand, SamePacket, Opened, Open
<1> QED BY <1>6, <1>7, <1>0, DealtIsStep DEF DealtTurn

\* A review that begins is the only thing under way for its packet.
LEMMA ReviewBeginsDeals ==
  ASSUME Inv, ReviewInv, NEW p \in Packet, HasSession(p), Mode = "orchestrated",
         NEW r, r = Advance(AtReview(p)), Become(run, r, snap, Ended(p)), saved' = run',
         reviewing' = reviewing \cup {[packet |-> p, attempt |-> run.attempts[p]]},
         undoing' = undoing
  PROVE  DealtTurn(p)
<1> DEFINE v == [packet |-> p, attempt |-> run.attempts[p]]
<1>1. worker[p] # NoWorker /\ snap[p] # NoSnapshot
  BY DEF HasSession, ReviewInv, SnapsKept
<1>2. AtHand(p, r) /\ r.packet[p] = "awaiting-review"
  BY ReportAtHand
<1>3. run' = r /\ Placed(p) /\ snap'[p] = snap[p]
  <2>1. HandedOver(p, snap, Ended(p)) /\ TypeOK /\ r.attempts[p] = run.attempts[p]
    BY <1>1, <1>2, AtWork, InvFacts DEF AtHand
  <2> QED BY <2>1, BecomePlaces
<1>4. ReviewBegins(v, p)
  BY <1>2, <1>3 DEF ReviewBegins, AtHand
<1>5. \A w \in reviewing' : (w \in reviewing /\ w.packet # p) \/ w = v
  BY <1>1, AtWork
<1> HIDE DEF v
<1>6. \A u \in undoing' : u \in undoing /\ u.packet # p
  BY <1>1, AtWork
<1>7. View(saved', run')
  BY ViewReflexive
<1>8. Dealt(p)
  BY <1>1, <1>2, <1>3, <1>4, <1>5, <1>6, <1>7 DEF Dealt, AtHand
<1> QED BY <1>2, <1>3, <1>8 DEF DealtTurn, Turn, AtHand

\* Where a rejection sends a packet that waits for its reviewer.
LEMMA RejectionIsLegal ==
  ASSUME NEW r, NEW p \in Packet, r.packet[p] \in AtReviewer,
         NEW next, next = AfterRejection(r, p)
  PROVE  /\ next \in {"pending", "failed"} /\ Legal(r, p, next)
         /\ next = "pending" => r.attempts[p] < MaxPacketAttempts
BY DEF AfterRejection, Legal, PacketTransitions, PacketStatus, AtReviewer

\* A worker's report on an orchestrated run, with its pre-checks
\* (runOnePacket, orchestratorReview).
LEMMA OrchestratedReportIsStep ==
  ASSUME Inv, ReviewInv, NEW p \in Packet, NEW died \in BOOLEAN, NEW decision \in PreChecks,
         WorkerReportsOrchestrated(p, died, decision)
  PROVE  PacketStep(p)
<1> DEFINE r == Advance(AtReview(p))
           next == AfterRejection(r, p)
<1>0. Proper(p)
  BY DEF Proper, WorkerReportsOrchestrated
<1>1. HasSession(p) /\ worker[p] # NoWorker /\ Mode = "orchestrated"
  BY DEF WorkerReportsOrchestrated, MayEnd, HasSession
<1>2. /\ AtHand(p, r) /\ r.packet[p] = "awaiting-review"
      /\ \A q \in Packet \ {p} : r.packet[q] = "awaiting-review" =>
           run.packet[q] = "awaiting-review"
  BY <1>1, ReportAtHand
<1>3. HandedOver(p, snap, Ended(p)) /\ (UNCHANGED reviewing => NothingElse(p))
  BY <1>1, AtWork DEF NothingElse
<1>4. View(r, r)
  BY ViewReflexive
<1>5. \/ Approve(p, r, snap, Ended(p)) /\ UNCHANGED reviewing
      \/ UndoPacket("orchestrator", p, next, r, r, snap, Ended(p)) /\ UNCHANGED reviewing
      \/ Escalate(p, r, r, snap, Ended(p)) /\ UNCHANGED reviewing
      \/ /\ Become(run, r, snap, Ended(p)) /\ saved' = run'
         /\ reviewing' = reviewing \cup {[packet |-> p, attempt |-> run.attempts[p]]}
         /\ undoing' = undoing
  BY DEF WorkerReportsOrchestrated
<1>6. next \in {"pending", "failed"} /\ Legal(r, p, next)
      /\ (next = "pending" => r.attempts[p] < MaxPacketAttempts)
  BY <1>2, RejectionIsLegal DEF AtReviewer
<1>7. CASE /\ Become(run, r, snap, Ended(p)) /\ saved' = run'
           /\ reviewing' = reviewing \cup {[packet |-> p, attempt |-> run.attempts[p]]}
           /\ undoing' = undoing
  BY <1>1, <1>7, ReviewBeginsDeals, <1>0, DealtIsStep
<1> HIDE DEF r, next
<1>8. CASE Approve(p, r, snap, Ended(p)) /\ UNCHANGED reviewing
  <2>1. DealtTurn(p)
    BY <1>2, <1>3, <1>8, ApproveDeals DEF AtReviewer
  <2> QED BY <2>1, <1>0, DealtIsStep
<1>9. CASE UndoPacket("orchestrator", p, next, r, r, snap, Ended(p)) /\ UNCHANGED reviewing
  <2>1. "orchestrator" \in Clients <=> Mode = "gated"
    BY <1>1, EnvironmentAssumption
  <2>2. r.packet[p] \in AtReviewer
    BY <1>2 DEF AtReviewer
  <2>3. DealtTurn(p)
    BY <1>2, <1>3, <1>4, <1>6, <1>9, <2>1, <2>2, UndoDeals
  <2> QED BY <2>3, <1>0, DealtIsStep
<1>10. CASE Escalate(p, r, r, snap, Ended(p)) /\ UNCHANGED reviewing
  <2>1. DealtTurn(p)
    BY <1>2, <1>3, <1>4, <1>10, EscalateDeals
  <2> QED BY <2>1, <1>0, DealtIsStep
<1> QED BY <1>5, <1>7, <1>8, <1>9, <1>10

\* A packet that waits for its reviewer has no worker and is at hand.
LEMMA AtGate ==
  ASSUME Inv, ReviewInv, NEW p \in Packet, run.packet[p] \in AtReviewer
  PROVE  /\ worker[p] = NoWorker /\ HandedOver(p, snap, worker)
         /\ AtHand(p, run) /\ View(saved, run) /\ View(run, run)
         /\ Whole(p) /\ run.packet[p] = "awaiting-review" => snap[p] # NoSnapshot
<1>1. worker[p] = NoWorker
  BY DEF ReviewInv, WorkersRun, AtReviewer
<1>2. HandedOver(p, snap, worker)
  BY <1>1, InvFacts DEF HandedOver
<1>3. AtHand(p, run)
  BY InvFacts DEF AtHand, Frame, SamePlan, Others, SamePacket, Open, AtReviewer
<1> QED BY <1>1, <1>2, <1>3, ViewReflexive DEF ReviewInv, SnapsKept

\* The model reviewer's answer (orchestratorReview after its await).
LEMMA AnswerIsStep ==
  ASSUME Inv, ReviewInv, NEW v \in reviewing, NEW verdict \in Verdicts,
         ReviewerAnswers(v, verdict)
  PROVE  PacketStep(v.packet)
<1> DEFINE p == v.packet
           next == AfterRejection(run, p)
<1>1. /\ p \in Packet /\ Mode = "orchestrated" /\ run.packet[p] = "awaiting-review"
      /\ \A w \in reviewing : w.packet = p => w = v
      /\ reviewing' = reviewing \ {v}
  BY InvFacts DEF TypeOK, ReviewInv, ReviewsOpen, ReviewerAnswers
<1>2. run.packet[p] \in AtReviewer /\ run.packet[p] \in Open
  BY <1>1 DEF AtReviewer, Open
<1>3. NothingElse(p)
  BY <1>1 DEF NothingElse, ReviewInv, UndosOpen
<1>4. "orchestrator" \in Clients <=> Mode = "gated"
  BY <1>1, EnvironmentAssumption
<1>5. next \in {"pending", "failed"} /\ Legal(run, p, next)
      /\ (next = "pending" => run.attempts[p] < MaxPacketAttempts)
  BY <1>1, <1>2, RejectionIsLegal
<1>6. \/ Approve(p, run, snap, worker)
      \/ UndoPacket("orchestrator", p, next, run, saved, snap, worker)
      \/ Escalate(p, run, saved, snap, worker)
      \/ saved' = run /\ UNCHANGED <<run, disk, snap, worker, undoing>>
  BY <1>1 DEF ReviewerAnswers
<1> HIDE DEF p, next
<1>7. /\ HandedOver(p, snap, worker) /\ AtHand(p, run) /\ View(saved, run)
      /\ worker[p] = NoWorker /\ (Whole(p) => snap[p] # NoSnapshot)
  BY <1>1, <1>2, AtGate
<1>12. Proper(p) /\ torn' = torn
  BY <1>7 DEF Proper, HasSession, ReviewerAnswers
<1>8. CASE Approve(p, run, snap, worker)
  BY <1>1, <1>2, <1>3, <1>7, <1>8, ApproveDeals, <1>12, DealtIsStep DEF p
<1>9. CASE UndoPacket("orchestrator", p, next, run, saved, snap, worker)
  <2>1. DealtTurn(p)
    BY <1>1, <1>2, <1>3, <1>4, <1>5, <1>7, <1>9, UndoDeals
  <2> QED BY <1>1, <2>1, <1>12, DealtIsStep DEF p
<1>10. CASE Escalate(p, run, saved, snap, worker)
  <2>1. DealtTurn(p)
    BY <1>1, <1>3, <1>7, <1>10, EscalateDeals
  <2> QED BY <1>1, <2>1, <1>12, DealtIsStep DEF p
<1>11. CASE saved' = run /\ UNCHANGED <<run, disk, snap, worker, undoing>>
  <2>1. Placed(p) /\ Turn(run, run', p)
    BY <1>2, <1>7, <1>11 DEF Placed, Turn
  <2>2. \A u \in undoing' : u \in undoing /\ u.packet # p
    BY <1>3, <1>11 DEF NothingElse
  <2>3. View(saved', run') /\ run'.status \notin {"done", "failed"}
    BY <1>1, <1>2, <1>11, InvFacts, ViewReflexive, OpenIsNotOver
  <2>4. Dealt(p)
    BY <1>1, <1>3, <1>7, <1>11, <1>12, <2>1, <2>2, <2>3 DEF Dealt, AtHand, NothingElse, Whole
  <2> QED BY <1>1, <2>1, <2>4, <1>12, DealtIsStep DEF DealtTurn, p
<1> QED BY <1>6, <1>8, <1>9, <1>10, <1>11

\* The end of a restore (applyPacketReview, autonomyResolve).
LEMMA FinishIsStep ==
  ASSUME Inv, ReviewInv, NEW u \in undoing, FinishUndo(u)
  PROVE  PacketStep(u.packet)
<1> DEFINE p == u.packet
<1>1. /\ p \in Packet /\ u.next \in {"pending", "failed"}
      /\ UndoOpen(u) /\ run.packet[p] \in AtReviewer
      /\ \A v \in reviewing : v.packet # p
      /\ \A w \in undoing : w.packet = p => w = u
  BY InvFacts DEF UndosTyped, ReviewInv, UndosOpen, UndoOpen
<1>2. /\ CommitAndAdvance(run, Flip(run, u.by, p, u.next), [snap EXCEPT ![p] = NoSnapshot], worker)
      /\ undoing' = undoing \ {u} /\ reviewing' = reviewing
  BY <1>1 DEF FinishUndo, UndoOpen
<1> HIDE DEF p
<1>3. HandedOver(p, snap, worker) /\ AtHand(p, run)
  BY <1>1, AtGate
<1>4. /\ \A v \in reviewing' : v \in reviewing /\ v.packet # p
      /\ \A w \in undoing' : w \in undoing /\ w.packet # p
  BY <1>1, <1>2 DEF p
<1>5. /\ Legal(run, p, u.next) /\ (u.next = "pending" => run.attempts[p] < MaxPacketAttempts)
      /\ u.by = "autonomy" => run.packet[p] = "escalated"
  BY <1>1 DEF UndoOpen, p
<1>6. DealtTurn(p)
  BY <1>1, <1>2, <1>3, <1>4, <1>5, FlipDeals
<1>7. Proper(p)
  <2>1. worker[p] = NoWorker
    BY <1>1, AtGate
  <2> QED BY <2>1 DEF Proper, HasSession, FinishUndo
<1> QED BY <1>1, <1>6, <1>7, DealtIsStep DEF p

\* The only reviewer finds nothing else under way for a packet whose buttons
\* it sees.
LEMMA ButtonsAreFree ==
  ASSUME Inv, ReviewInv, OneReviewer, NEW c \in Clients, NEW p \in Packet, ButtonsShown(c, p),
         reviewing' = reviewing
  PROVE  /\ Mode = "gated" /\ run.packet[p] \in AtReviewer /\ NothingElse(p)
<1>1. Mode = "gated" /\ run.packet[p] \in AtReviewer
  BY ModeAssumption DEF OneReviewer, ButtonsShown, AtReviewer
<1>2. reviewing = {}
  BY <1>1 DEF ReviewInv, ReviewsOpen
<1>3. \A u \in undoing : u.by \in Clients /\ u.by = c
  BY <1>1 DEF ReviewInv, UndosOpen, UndoOpen, OneReviewer
<1> QED BY <1>1, <1>2, <1>3 DEF NothingElse, ButtonsShown

\* The approve button (handleWorkRunReview).
LEMMA ApprovalIsStep ==
  ASSUME Inv, ReviewInv, OneReviewer, NEW c \in Clients, NEW p \in Packet, HumanApproves(c, p)
  PROVE  PacketStep(p)
<1>1. run.packet[p] \in AtReviewer /\ NothingElse(p) /\ Approve(p, run, snap, worker)
  BY ButtonsAreFree DEF HumanApproves
<1>2. HandedOver(p, snap, worker) /\ AtHand(p, run)
  BY <1>1, AtGate
<1>3. Proper(p)
  <2>1. worker[p] = NoWorker
    BY <1>1, AtGate
  <2> QED BY <2>1 DEF Proper, HasSession, HumanApproves
<1> QED BY <1>1, <1>2, <1>3, ApproveDeals, DealtIsStep

\* The reject button (handleWorkRunReview).
LEMMA RejectionIsStep ==
  ASSUME Inv, ReviewInv, OneReviewer, NEW c \in Clients, NEW p \in Packet, HumanRejects(c, p)
  PROVE  PacketStep(p)
<1> DEFINE next == AfterRejection(run, p)
<1>1. /\ run.packet[p] \in AtReviewer /\ NothingElse(p) /\ Mode = "gated"
      /\ UndoPacket(c, p, next, run, saved, snap, worker)
  BY ButtonsAreFree DEF HumanRejects
<1>2. HandedOver(p, snap, worker) /\ AtHand(p, run) /\ View(saved, run)
  BY <1>1, AtGate
<1>3. next \in {"pending", "failed"} /\ Legal(run, p, next)
      /\ (next = "pending" => run.attempts[p] < MaxPacketAttempts)
  BY <1>1, RejectionIsLegal
<1>4. c # "autonomy"
  BY EnvironmentAssumption
<1> HIDE DEF next
<1>5. DealtTurn(p)
  BY <1>1, <1>2, <1>3, <1>4, UndoDeals
<1>6. Proper(p)
  <2>1. worker[p] = NoWorker
    BY <1>1, AtGate
  <2> QED BY <2>1 DEF Proper, HasSession, HumanRejects
<1> QED BY <1>5, <1>6, DealtIsStep

------------------------------------------------------------------------------
(* The handlers that deal with the run, and the steps of none.              *)

\* Packets are started, and nothing else happens to any.
Rested(r0, r1) ==
  Frame(r0, r1) /\ \A q \in Packet : SamePacket(r0, r1, q) \/ Opened(r0, r1, q)

\* Workers and snapshots when packets are started and nothing else is.
Launches ==
  \A q \in Packet :
    IF run'.attempts[q] # run.attempts[q]
    THEN worker'[q] # NoWorker /\ (HasSession(q)' => snap'[q] # NoSnapshot)
    ELSE worker'[q] = worker[q] /\ snap'[q] = snap[q]

\* Starting packets of an untouched run launches their workers.
LEMMA BecomeLaunches ==
  ASSUME TypeOK, NEW r, Become(run, r, snap, worker)
  PROVE  run' = r /\ Launches
<1>1. \A q \in Packet : IsBaseline(SnapshotPacketFiles(r, q))
  BY BaselinesAreBaselines
<1>2. ASSUME NEW b, IsBaseline(b)
      PROVE  b # NoSnapshot /\ b # NoWorker /\ b # Refused
  BY <1>2, AbsenceAssumption DEF IsBaseline
<1>3. /\ run' = r
      /\ \A q \in Packet : q \in Launched(run, r) <=> r.attempts[q] # run.attempts[q]
      /\ \A q \in Packet : snap'[q] = IF q \in Launched(run, r) \ Unlaunchable
                                      THEN SnapshotPacketFiles(r, q) ELSE snap[q]
      /\ \A q \in Packet : worker'[q] = IF q \in Launched(run, r)
                                        THEN IF q \in Unlaunchable THEN Refused
                                             ELSE SnapshotPacketFiles(r, q)
                                        ELSE worker[q]
  BY DEF Become, Launched
<1> QED BY <1>1, <1>2, <1>3, AbsenceAssumption DEF Launches, HasSession

\* A step that starts packets, and leaves reviews and restores to go on.
LEMMA RestKeeps ==
  ASSUME Inv, ReviewInv, Good(run'), Rested(run, run'), Launches,
         torn' = torn, reviewing' = reviewing, NEW uu \in [undoing' -> undoing],
         \A u \in undoing' : /\ u.by = uu[u].by /\ u.packet = uu[u].packet
                             /\ u.next = uu[u].next,
         \A u, w \in undoing' : uu[u] = uu[w] => u = w,
         saved' = run' \/ (run' = run /\ saved' = saved)
  PROVE  ReviewInv' /\ (Staffed => Staffed') /\ SessionsGoOn
<1>0. /\ run \in Run /\ run' \in Run /\ UndosTyped(undoing)
      /\ reviewing \subseteq [packet : Packet, attempt : Nat]
  BY InvFacts DEF Good, TypeOK
<1>1. ASSUME NEW q \in Packet
      PROVE  \/ SamePacket(run, run', q) /\ run'.attempts[q] = run.attempts[q]
             \/ /\ run.packet[q] = "pending" /\ run'.packet[q] = "running"
                /\ run'.attempts[q] # run.attempts[q]
  BY <1>0 DEF Rested, SamePacket, Opened, Run
<1>2. WorkersRun' /\ (Staffed => Staffed')
  BY <1>1 DEF Launches, ReviewInv, WorkersRun, Staffed, SamePacket
<1>3. ReviewsOpen'
  BY <1>0, <1>1 DEF ReviewInv, ReviewsOpen, SamePacket
<1>4. UndosOpen'
  <2> SUFFICES ASSUME NEW u \in undoing'
               PROVE  /\ UndoOpen(u)'
                      /\ \A v \in reviewing' : v.packet # u.packet
                      /\ \A w \in undoing' : w.packet = u.packet => w = u
    BY DEF UndosOpen
  <2>1. /\ uu[u] \in undoing /\ u.by = uu[u].by /\ u.packet = uu[u].packet
        /\ u.next = uu[u].next /\ u.packet \in Packet
        /\ UndoOpen(uu[u]) /\ run.packet[u.packet] \in AtReviewer
    BY <1>0 DEF UndosTyped, ReviewInv, UndosOpen, UndoOpen
  <2>2. SamePacket(run, run', u.packet)
    BY <1>1, <2>1 DEF AtReviewer
  <2>3. UndoOpen(u)'
    BY <2>1, <2>2 DEF UndoOpen, SamePacket, Legal
  <2>4. \A v \in reviewing' : v.packet # u.packet
    BY <2>1 DEF ReviewInv, UndosOpen
  <2>5. ASSUME NEW w \in undoing', w.packet = u.packet PROVE w = u
    <3>1. uu[w] \in undoing /\ uu[w].packet = uu[u].packet
      BY <2>1, <2>5
    <3>2. uu[w] = uu[u]
      BY <2>1, <3>1 DEF ReviewInv, UndosOpen
    <3> QED BY <3>2
  <2> QED BY <2>3, <2>4, <2>5
<1>5. SnapsKept'
  <2> SUFFICES ASSUME NEW q \in Packet
               PROVE  /\ HasSession(q)' => snap'[q] # NoSnapshot
                      /\ Whole(q)' /\ (\/ run'.packet[q] = "awaiting-review"
                                       \/ saved'.packet[q] = "awaiting-review")
                           => snap'[q] # NoSnapshot
    BY DEF SnapsKept
  <2>1. HasSession(q)' => snap'[q] # NoSnapshot
    BY DEF Launches, HasSession, ReviewInv, SnapsKept
  <2>2. run'.packet[q] = "awaiting-review" \/ saved'.packet[q] = "awaiting-review"
          => run.packet[q] = "awaiting-review" \/ saved.packet[q] = "awaiting-review"
    BY <1>1 DEF SamePacket
  <2>3. saved.packet[q] = "awaiting-review" => run.packet[q] # "pending"
    BY DEF ReviewInv, View, PhaseOf
  <2>4. run'.attempts[q] = run.attempts[q] => snap'[q] = snap[q]
    BY DEF Launches
  <2>5. run'.attempts[q] = run.attempts[q] /\ Whole(q)' => Whole(q)
    BY DEF Whole
  <2> QED BY <1>1, <2>1, <2>2, <2>3, <2>4, <2>5 DEF ReviewInv, SnapsKept
<1>6. OverSaved' /\ View(saved, run)'
  BY ViewReflexive DEF ReviewInv, OverSaved
<1>7. DraftIdle'
  <2> SUFFICES ASSUME run'.status \in {"none", "draft"}
               PROVE  run'.attempts = NoRun.attempts
    BY DEF DraftIdle
  <2>1. run.status \in {"none", "draft"}
    BY DEF Rested, Frame
  <2>2. run'.status \in {"none", "draft"} => \A q \in Packet : run'.packet[q] = "pending"
    BY DEF Good, Sound, UntouchedIn
  <2>3. \A q \in Packet : run'.attempts[q] = run.attempts[q]
    BY <1>1, <2>2
  <2>4. run'.attempts = run.attempts
    BY <1>0, <2>3 DEF Run
  <2> QED BY <2>1, <2>4 DEF ReviewInv, DraftIdle
<1>8. SessionsGoOn
  <2> SUFFICES ASSUME NEW q \in Packet, HasSession(q)
               PROVE  /\ worker'[q] = worker[q] /\ run'.attempts[q] = run.attempts[q]
                      /\ EditScopeOf(run', q) = EditScopeOf(run, q)
    BY DEF SessionsGoOn
  <2>1. run.packet[q] = "running"
    BY DEF HasSession, ReviewInv, WorkersRun
  <2>2. run'.attempts[q] = run.attempts[q]
    BY <1>1, <2>1
  <2> QED BY <2>2, SamePlanSamePackets DEF Launches, Rested, Frame, EditScopeOf
<1> QED BY <1>2, <1>3, <1>4, <1>5, <1>6, <1>7, <1>8 DEF ReviewInv, NoneTorn

\* A step that only starts packets.
RestStep == ReviewInv' /\ (Staffed => Staffed') /\ Rested(run, run') /\ SessionsGoOn

\* Nothing happens to the run, its reviews and its restores.
LEMMA NothingIsRest ==
  ASSUME Inv, ReviewInv, UNCHANGED <<run, saved, snap, worker, reviewing, undoing, torn>>
  PROVE  RestStep
<1> DEFINE uu == [u \in undoing |-> u]
<1>1. Rested(run, run') /\ Launches
  BY DEF Rested, Frame, SamePlan, SamePacket, Launches
<1>2. /\ uu \in [undoing' -> undoing] /\ \A u \in undoing' : uu[u] = u
  OBVIOUS
<1> HIDE DEF uu
<1> QED BY <1>1, <1>2, InvFacts, RestKeeps DEF RestStep

\* One more file of a restore (restorePacketSnapshot).
LEMMA RestoreFileIsRest ==
  ASSUME Inv, ReviewInv, NEW u \in undoing, NEW f \in u.left, RestoreFile(u, f)
  PROVE  RestStep
<1> DEFINE w == [u EXCEPT !.left = u.left \ {f}]
           uu == [x \in undoing' |-> IF x = w THEN u ELSE x]
<1>1. /\ w.by = u.by /\ w.packet = u.packet /\ w.next = u.next
      /\ undoing' = (undoing \ {u}) \cup {w}
  BY InvFacts DEF UndosTyped, RestoreFile
<1> HIDE DEF w
<1>2. \A x \in undoing : x.packet = u.packet => x = u
  BY DEF ReviewInv, UndosOpen
<1>3. /\ uu \in [undoing' -> undoing]
      /\ \A x \in undoing' : uu[x] = IF x = w THEN u ELSE x
  BY <1>1
<1> HIDE DEF uu
<1>4. /\ \A x \in undoing' : /\ x.by = uu[x].by /\ x.packet = uu[x].packet
                             /\ x.next = uu[x].next
      /\ \A x, y \in undoing' : uu[x] = uu[y] => x = y
  BY <1>1, <1>2, <1>3
<1>5. Rested(run, run') /\ Launches /\ UNCHANGED <<run, saved, reviewing, torn>>
  BY DEF Rested, Frame, SamePlan, SamePacket, Launches, RestoreFile
<1> QED BY <1>3, <1>4, <1>5, InvFacts, RestKeeps DEF RestStep

\* The pause button (handleWorkRunPauseResume).
LEMMA PauseIsRest ==
  ASSUME Inv, ReviewInv, Pause
  PROVE  RestStep
<1> DEFINE uu == [u \in undoing |-> u]
<1>1. Good(run')
  BY InvFacts, SoundAfterPauseResume DEF Pause, Good
<1>2. Rested(run, run') /\ Launches
  BY InvFacts DEF Pause, Rested, Frame, SamePlan, SamePacket, Launches, Good, Run
<1>3. /\ uu \in [undoing' -> undoing] /\ \A u \in undoing' : uu[u] = u
  BY DEF Pause
<1> HIDE DEF uu
<1> QED BY <1>1, <1>2, <1>3, RestKeeps DEF RestStep, Pause

\* The resume button (handleWorkRunPauseResume).
LEMMA ResumeIsRest ==
  ASSUME Inv, ReviewInv, Resume
  PROVE  RestStep
<1> DEFINE uu == [u \in undoing |-> u]
           r == [run EXCEPT !.status = "running"]
<1>1. Good(r)
  BY InvFacts, SoundAfterPauseResume DEF Resume, Good
<1>2. Frame(run, r) /\ \A q \in Packet : SamePacket(run, r, q)
  BY InvFacts DEF Resume, Frame, SamePlan, SamePacket, Good, Run
<1>3. Become(run, Advance(r), snap, worker) /\ saved' = run'
  BY DEF Resume, CommitAndAdvance
<1> HIDE DEF r
<1>4. run' = Advance(r) /\ Launches
  BY <1>3, InvFacts, BecomeLaunches
<1>5. Good(run') /\ Rested(run, run')
  BY <1>1, <1>2, <1>4, AdvanceFollows, AdvanceTurn
     DEF Rested, Frame, SamePlan, SamePacket, Opened
<1>6. /\ uu \in [undoing' -> undoing] /\ \A u \in undoing' : uu[u] = u
  BY DEF Resume
<1> HIDE DEF uu
<1> QED BY <1>3, <1>4, <1>5, <1>6, RestKeeps DEF RestStep, Resume

\* Before the confirmation nothing is under way.
LEMMA NothingYet ==
  ASSUME Inv, ReviewInv, run.status \in {"none", "draft"}
  PROVE  /\ reviewing = {} /\ undoing = {}
         /\ \A p \in Packet : run.packet[p] = "pending" /\ worker[p] = NoWorker
         /\ run.attempts = NoRun.attempts
<1>1. \A p \in Packet : run.packet[p] = "pending"
  BY InvFacts DEF Good, Sound, UntouchedIn
<1>2. /\ \A v \in reviewing : v.packet \in Packet
      /\ \A u \in undoing : u.packet \in Packet
  BY InvFacts DEF TypeOK, UndosTyped
<1>3. reviewing = {}
  BY <1>1, <1>2 DEF ReviewInv, ReviewsOpen
<1>4. undoing = {}
  BY <1>1, <1>2 DEF ReviewInv, UndosOpen, UndoOpen, AtReviewer
<1> QED BY <1>1, <1>3, <1>4 DEF ReviewInv, WorkersRun, DraftIdle

\* A plan is drafted, confirmed or dropped.
Planned(r0, r1) ==
  /\ r0.status \in {"none", "draft"}
  /\ \A q \in Packet : r0.packet[q] = "pending"
  /\ r0.attempts = NoRun.attempts
  /\ \/ r1.status \in {"none", "draft"} /\ r1.attempts = NoRun.attempts
     \/ /\ r1.status \notin {"none", "draft"}
        /\ \A q \in Packet :
             \/ r1.packet[q] \in {"pending", "no-change"} /\ r1.attempts[q] = r0.attempts[q]
             \/ r1.packet[q] = "running" /\ r1.attempts[q] = r0.attempts[q] + 1

PlanStep == ReviewInv' /\ Staffed' /\ Planned(run, run') /\ SessionsGoOn

\* What such a step makes of the workers.
LEMMA PlanKeeps ==
  ASSUME Inv, ReviewInv, Good(run'), Planned(run, run'), Launches,
         saved' = run', reviewing' = reviewing, undoing' = undoing, torn' = torn
  PROVE  PlanStep
<1>0. /\ run \in Run /\ run' \in Run /\ reviewing = {} /\ undoing = {}
      /\ \A q \in Packet : worker[q] = NoWorker
  BY InvFacts, NothingYet DEF Good, Planned
<1>1. \A q \in Packet :
        \/ run'.packet[q] \in {"pending", "no-change"} /\ run'.attempts[q] = run.attempts[q]
        \/ run'.packet[q] = "running" /\ run'.attempts[q] # run.attempts[q]
  <2>1. CASE run'.status \in {"none", "draft"}
    BY <2>1, <1>0 DEF Planned, Good, Sound, UntouchedIn
  <2>2. CASE run'.status \notin {"none", "draft"}
    BY <2>2, <1>0 DEF Planned, Run
  <2> QED BY <2>1, <2>2
<1>2. WorkersRun' /\ Staffed'
  BY <1>0, <1>1 DEF WorkersRun, Staffed, Launches
<1>3. ReviewsOpen' /\ UndosOpen'
  BY <1>0 DEF ReviewsOpen, UndosOpen
<1>4. SnapsKept'
  BY <1>0, <1>1 DEF SnapsKept, Launches, HasSession
<1>5. OverSaved' /\ View(saved, run)' /\ DraftIdle'
  BY ViewReflexive DEF OverSaved, DraftIdle, Planned
<1>6. SessionsGoOn
  BY <1>0 DEF SessionsGoOn, HasSession
<1> QED BY <1>2, <1>3, <1>4, <1>5, <1>6 DEF ReviewInv, NoneTorn, PlanStep

\* What a confirmation makes of a draft (ratifyWorkRun, advanceWorkRun).
LEMMA RatifiedPlans ==
  ASSUME Inv, ReviewInv, run.status = "draft",
         NEW r \in Run, Good(r), r.status = "draft", r.attempts = run.attempts,
         CommitAndAdvance(run, Ratified(r), snap, worker)
  PROVE  Good(run') /\ Planned(run, run') /\ Launches /\ saved' = run'
<1> DEFINE s == Ratified(r)
           packets == [q \in Packet |-> IF r.brief = "ready" /\ q \in NoChange /\ q \notin SystemPacket
                                        THEN "no-change" ELSE r.packet[q]]
<1>1. Good(s) /\ \A q \in Packet : r.packet[q] = "pending"
  BY RatifiedIsGood DEF Good, Sound, UntouchedIn
<1>2. s = [r EXCEPT !.status = "running", !.packet = packets]
  BY DEF Ratified, Run
<1>3. \A q \in Packet : packets[q] \in {"pending", "no-change"}
  BY <1>1
<1> HIDE DEF packets
<1>4. /\ s.status = "running" /\ s.attempts = run.attempts
      /\ \A q \in Packet : s.packet[q] \in {"pending", "no-change"}
  BY <1>2, <1>3 DEF Run
<1> HIDE DEF s
<1>5. Become(run, Advance(s), snap, worker) /\ saved' = run'
  BY DEF CommitAndAdvance, s
<1>6. run' = Advance(s) /\ Launches
  BY <1>5, InvFacts, BecomeLaunches
<1>7. /\ Good(run') /\ Frame(s, run')
      /\ \A q \in Packet : SamePacket(s, run', q) \/ Opened(s, run', q)
  BY <1>1, <1>6, AdvanceFollows, AdvanceTurn
<1>8. Planned(run, run')
  BY <1>4, <1>7, NothingYet DEF Planned, Frame, SamePacket, Opened
<1> QED BY <1>5, <1>6, <1>7, <1>8

\* The confirmation (handleWorkRunRatify).
LEMMA RatifyIsPlan ==
  ASSUME Inv, ReviewInv, Ratify
  PROVE  PlanStep
BY InvFacts, RatifiedPlans, PlanKeeps DEF Ratify, Good

\* A draft in place of a draft or of no run launches nobody.
LEMMA DraftPlans ==
  ASSUME Inv, ReviewInv, run.status \in {"none", "draft"}, Good(run'),
         run'.status \in {"none", "draft"}, run'.attempts = NoRun.attempts,
         saved' = run', UNCHANGED <<snap, worker, reviewing, undoing, torn>>
  PROVE  PlanStep
<1>1. Planned(run, run') /\ Launches
  BY NothingYet DEF Planned, Launches
<1> QED BY <1>1, PlanKeeps

\* The brief, ready or not (draftOrchestrationBrief).
LEMMA BriefIsPlan ==
  ASSUME Inv, ReviewInv, NEW n \in briefing, NEW brief \in {"ready", "unavailable"},
         BriefLands(n, brief)
  PROVE  PlanStep \/ (RestStep /\ UNCHANGED <<run, disk>>)
<1> DEFINE landed == [run EXCEPT !.brief = brief]
<1>1. CASE run.id # n
  BY <1>1, NothingIsRest DEF BriefLands
<1>2. CASE run.id = n
  <2>1. run.status = "draft"
    BY <1>2 DEF Inv, BriefsInv
  <2>2. /\ landed \in Run /\ landed.status = "draft" /\ landed.attempts = run.attempts
        /\ \A p \in Packet : landed.packet[p] = "pending"
    BY <2>1, InvFacts DEF Good, Run, BriefStatus, Sound, UntouchedIn
  <2>3. /\ \/ CommitAndAdvance(run, Ratified(landed), snap, worker)
           \/ run' = landed /\ saved' = run' /\ UNCHANGED <<snap, worker>>
        /\ UNCHANGED <<reviewing, undoing, torn>>
    BY <1>2 DEF BriefLands
  <2> HIDE DEF landed
  <2>4. Good(landed)
    BY <2>2, DraftIsGood
  <2>5. CASE CommitAndAdvance(run, Ratified(landed), snap, worker)
    BY <2>1, <2>2, <2>3, <2>4, <2>5, RatifiedPlans, PlanKeeps
  <2>6. CASE run' = landed /\ saved' = run' /\ UNCHANGED <<snap, worker>>
    BY <2>1, <2>2, <2>3, <2>4, <2>6, NothingYet, DraftPlans
  <2> QED BY <2>3, <2>5, <2>6
<1> QED BY <1>1, <1>2

\* The discarded draft (handleWorkRunDiscard).
LEMMA DiscardIsPlan ==
  ASSUME Inv, ReviewInv, Discard
  PROVE  PlanStep
BY NoRunIsGood, DraftPlans DEF Discard

\* A new draft (createDraftRun).
LEMMA StartRunIsPlan ==
  ASSUME Inv, ReviewInv, StartRun
  PROVE  PlanStep
<1>1. PICK b \in {"none", "drafting"} : run' = DraftWorkRun(drafts + 1, b)
  BY DEF StartRun
<1>2. drafts + 1 \in Nat /\ b \in BriefStatus
  BY InvFacts DEF TypeOK, BriefStatus
<1>3. /\ run' \in Run /\ run'.status = "draft"
      /\ \A p \in Packet : run'.packet[p] = "pending"
  BY <1>1, <1>2, DraftShape
<1>4. run'.attempts = NoRun.attempts
  BY <1>1, NoRunIsRun DEF DraftWorkRun, Run
<1> QED BY <1>3, <1>4, DraftIsGood, DraftPlans DEF StartRun

\* What a restart makes of the run.
Reloaded(r0, r1) ==
  /\ Frame(r0, r1) /\ r1.attempts = r0.attempts
  /\ \A q \in Packet : \/ PhaseOf(r1.packet[q]) = PhaseOf(r0.packet[q])
                       \/ PhaseOf(r0.packet[q]) = "open" /\ r1.packet[q] = "pending"
  /\ r0.status \in {"done", "failed"} => r1 = r0

\* A restart, at any moment (loadWorkRun).
LEMMA RestartReloads ==
  ASSUME Inv, ReviewInv, Restart
  PROVE  ReviewInv' /\ Reloaded(run, run')
<1>1. /\ run' = LoadWorkRun(saved) /\ saved' = saved
      /\ reviewing' = {} /\ undoing' = {} /\ worker' = [p \in Packet |-> NoWorker]
  BY DEF Restart
<1>2. /\ saved \in Run /\ run \in Run /\ run' \in Run
  BY <1>1, InvFacts, LoadIsGood DEF Good
<1>3. /\ run'.brief = saved.brief /\ run'.attempts = saved.attempts
      /\ run'.status = IF saved.status = "running" THEN "paused" ELSE saved.status
      /\ \A p \in Packet :
           run'.packet[p] = IF saved.status = "running" /\ saved.packet[p] = "running"
                            THEN "pending" ELSE saved.packet[p]
      /\ saved.status # "running" => run' = saved
  BY <1>1, <1>2 DEF LoadWorkRun, Run
<1>4. View(saved', run')
  BY <1>1, <1>3 DEF View, Frame, SamePlan
<1>5. Frame(run, run') /\ run'.attempts = run.attempts
  BY <1>3 DEF ReviewInv, View, Frame, SamePlan
<1>6. OverSaved' /\ (run.status \in {"done", "failed"} => run' = run)
  BY <1>1, <1>3 DEF OverSaved, ReviewInv
<1>7. DraftIdle'
  BY <1>5 DEF DraftIdle, ReviewInv, Frame
<1>8. WorkersRun' /\ ReviewsOpen' /\ UndosOpen'
  BY <1>1 DEF WorkersRun, ReviewsOpen, UndosOpen
<1>9. SnapsKept' /\ NoneTorn'
  <2>1. PICK cut \in {{}} \cup (IF CrashAtRest THEN {} ELSE {{p} : p \in Deciding}) :
          /\ snap' = [p \in Packet |-> IF p \in cut THEN NoSnapshot ELSE snap[p]]
          /\ torn' = torn \cup {<<p, saved.attempts[p]>> : p \in cut}
    BY DEF Restart
  <2>2. ASSUME NEW q \in Packet, Whole(q)',
               run'.packet[q] = "awaiting-review" \/ saved'.packet[q] = "awaiting-review"
        PROVE  snap'[q] # NoSnapshot
    <3>1. q \notin cut /\ Whole(q)
      BY <1>3, <1>5, <2>1, <2>2 DEF Whole
    <3>2. saved.packet[q] = "awaiting-review"
      BY <1>1, <1>3, <2>2
    <3> QED BY <2>1, <3>1, <3>2 DEF ReviewInv, SnapsKept
  <2>3. SnapsKept'
    BY <1>1, <2>2 DEF SnapsKept, HasSession
  <2> QED BY <2>1, <2>3 DEF ReviewInv, NoneTorn
<1>10. ASSUME NEW q \in Packet
       PROVE  \/ PhaseOf(run'.packet[q]) = PhaseOf(run.packet[q])
              \/ PhaseOf(run.packet[q]) = "open" /\ run'.packet[q] = "pending"
  BY <1>3 DEF ReviewInv, View, PhaseOf
<1> QED BY <1>4, <1>5, <1>6, <1>7, <1>8, <1>9, <1>10 DEF ReviewInv, Reloaded

------------------------------------------------------------------------------
(* The steps of GatedWork.                                                  *)

GatePhases == {"waiting", "open", "kept", "undone", "left-out"}

IsConfirmed(r) == r.status \notin {"none", "draft"}
NeedsOf(r) == [p \in Packet |-> IF IsConfirmed(r) /\ p \in InRun(r) THEN DependsOn(r, p) ELSE {}]
PhasesOf(r) == [p \in Packet |-> PhaseOf(r.packet[p])]

\* GatedWork's OpenSome, from run r0 to run r1.
Opens(r0, r1, ph, ready) ==
  \E S \in SUBSET {p \in Packet : ph[p] = "waiting"} :
    /\ \A p \in S : \A q \in ready[p] : ph[q] = "kept"
    /\ PhasesOf(r1) = [p \in Packet |-> IF p \in S THEN "open" ELSE ph[p]]
    /\ r1.attempts = [p \in Packet |-> IF p \in S THEN r0.attempts[p] + 1 ELSE r0.attempts[p]]

\* What the scheduler starts has everything it needs.
LEMMA StartsAreReady ==
  ASSUME NEW r0 \in Run, NEW r1, Good(r1), IsConfirmed(r1), NEW ph,
         \A q \in Packet :
           \/ PhaseOf(r1.packet[q]) = ph[q] /\ r1.attempts[q] = r0.attempts[q]
           \/ /\ ph[q] = "waiting" /\ r1.packet[q] = "running"
              /\ r1.attempts[q] = r0.attempts[q] + 1
  PROVE  Opens(r0, r1, ph, NeedsOf(r1))
<1> DEFINE S == {q \in Packet : r1.attempts[q] # r0.attempts[q]}
<1>1. r1 \in Run /\ \A q \in Packet : r0.attempts[q] \in Nat
  BY DEF Good, Run
<1>2. \A q \in Packet : IF q \in S
        THEN ph[q] = "waiting" /\ r1.packet[q] = "running" /\ r1.attempts[q] = r0.attempts[q] + 1
        ELSE PhaseOf(r1.packet[q]) = ph[q] /\ r1.attempts[q] = r0.attempts[q]
  BY <1>1
<1>3. S \in SUBSET {p \in Packet : ph[p] = "waiting"}
  BY <1>2
<1> HIDE DEF S
<1>4. ASSUME NEW p \in S, NEW q \in NeedsOf(r1)[p]
      PROVE  ph[q] = "kept"
  <2>1. p \in Packet /\ r1.packet[p] = "running"
    BY <1>2, <1>3
  <2>2. p \in InRun(r1) /\ q \in DependsOn(r1, p) /\ q \in Packet
    BY <2>1, PacketSets DEF NeedsOf
  <2>3. r1.packet[q] \in {"done", "no-change"}
    BY <2>1, <2>2 DEF Good, Sound, DependenciesFirstIn, Satisfied
  <2>4. PhaseOf(r1.packet[q]) = "kept"
    BY <2>3 DEF PhaseOf
  <2> QED BY <1>2, <2>2, <2>3, <2>4
<1>5. PhasesOf(r1) = [p \in Packet |-> IF p \in S THEN "open" ELSE ph[p]]
  BY <1>2 DEF PhasesOf, PhaseOf
<1>6. r1.attempts = [p \in Packet |-> IF p \in S THEN r0.attempts[p] + 1 ELSE r0.attempts[p]]
  BY <1>1, <1>2 DEF Run
<1> QED BY <1>3, <1>4, <1>5, <1>6 DEF Opens

\* GatedWork's steps, in terms of the run before and after.
GateConfirms(r0, r1) ==
  /\ ~IsConfirmed(r0) /\ IsConfirmed(r1)
  /\ \E K \in SUBSET Packet :
       Opens(r0, r1, [p \in Packet |-> IF p \in K THEN "kept" ELSE PhasesOf(r0)[p]], NeedsOf(r1))

GateKeeps(r0, r1, p) ==
  PhasesOf(r0)[p] = "open" /\ Opens(r0, r1, [PhasesOf(r0) EXCEPT ![p] = "kept"], NeedsOf(r0))

GateSendsBack(r0, r1, p) ==
  /\ PhasesOf(r0)[p] = "open" /\ r0.attempts[p] < MaxPacketAttempts
  /\ Opens(r0, r1, [PhasesOf(r0) EXCEPT ![p] = "waiting"], NeedsOf(r0))

GateUndoes(r0, r1, p) ==
  /\ PhasesOf(r0)[p] = "open"
  /\ \E ph \in [Packet -> GatePhases] :
       /\ ph[p] = "undone"
       /\ \A q \in Packet \ {p} : \/ ph[q] = PhasesOf(r0)[q]
                                  \/ PhasesOf(r0)[q] = "waiting" /\ ph[q] = "left-out"
       /\ \A q \in Packet : PhasesOf(r0)[q] = "waiting" =>
            (ph[q] = "left-out"
               <=> NeedsOf(r0)[q] \cap {x \in Packet : ph[x] \in {"undone", "left-out"}} # {})
       /\ Opens(r0, r1, ph, NeedsOf(r0))

GateLoses(r0, r1) ==
  \E S \in SUBSET {p \in Packet : PhasesOf(r0)[p] = "open"} :
    /\ PhasesOf(r1) = [p \in Packet |-> IF p \in S THEN "waiting" ELSE PhasesOf(r0)[p]]
    /\ r1.attempts = r0.attempts

GateSleeps(r0, r1) ==
  /\ IsConfirmed(r1) <=> IsConfirmed(r0)
  /\ NeedsOf(r1) = NeedsOf(r0) /\ PhasesOf(r1) = PhasesOf(r0) /\ r1.attempts = r0.attempts

GateStep(r0, r1) ==
  \/ GateConfirms(r0, r1) \/ GateSleeps(r0, r1)
  \/ /\ IsConfirmed(r0) /\ IsConfirmed(r1) /\ NeedsOf(r1) = NeedsOf(r0)
     /\ \/ Opens(r0, r1, PhasesOf(r0), NeedsOf(r0)) \/ GateLoses(r0, r1)
        \/ \E p \in Packet : GateKeeps(r0, r1, p) \/ GateSendsBack(r0, r1, p)
                             \/ GateUndoes(r0, r1, p)

\* They are its steps.
LEMMA GateStepIsGateStep == GateStep(run, run') => [Gate!GWNext]_Gate!gwvars
<1> SUFFICES ASSUME GateStep(run, run') PROVE [Gate!GWNext]_Gate!gwvars
  OBVIOUS
<1> USE DEF IsConfirmed, Confirmed
<1>1. CASE GateSleeps(run, run')
  BY <1>1 DEF GateSleeps, Gate!gwvars, NeedsOf, PhasesOf
<1>2. CASE GateConfirms(run, run')
  <2>1. NeedsOf(run') \in [Packet -> SUBSET Packet]
    BY PacketSets DEF NeedsOf
  <2> QED BY <1>2, <2>1 DEF GateConfirms, Opens, NeedsOf, PhasesOf, Gate!GWNext,
             Gate!Confirm, Gate!OpenSome
<1>3. ASSUME IsConfirmed(run), IsConfirmed(run'), NeedsOf(run') = NeedsOf(run),
             \/ Opens(run, run', PhasesOf(run), NeedsOf(run)) \/ GateLoses(run, run')
             \/ \E p \in Packet : GateKeeps(run, run', p) \/ GateSendsBack(run, run', p)
      PROVE  Gate!GWNext
  BY <1>3 DEF Opens, NeedsOf, PhasesOf, GateLoses, GateKeeps, GateSendsBack,
     Gate!GWNext, Gate!Open, Gate!OpenSome, Gate!Lose, Gate!Keep, Gate!SendBack
<1>4. ASSUME IsConfirmed(run), IsConfirmed(run'), NeedsOf(run') = NeedsOf(run),
             NEW p \in Packet, GateUndoes(run, run', p)
      PROVE  Gate!GWNext
  BY <1>4 DEF Opens, NeedsOf, PhasesOf, GateUndoes, GatePhases,
     Gate!GWNext, Gate!OpenSome, Gate!UndoAndLeaveOut, Gate!Phase
<1> QED BY <1>1, <1>2, <1>3, <1>4 DEF GateStep

\* A run whose plan is read alike needs the same packets.
LEMMA FrameKeepsNeeds ==
  ASSUME NEW r0, NEW r1, Frame(r0, r1)
  PROVE  NeedsOf(r1) = NeedsOf(r0) /\ (IsConfirmed(r1) <=> IsConfirmed(r0))
BY SamePlanSamePackets DEF Frame, NeedsOf, IsConfirmed

\* Exactly the packets that need an undone one are left out, in the step that
\* undoes it (cascadeSkips).
LEMMA UndoneLeavesOut ==
  ASSUME NEW r0, Good(r0), NEW r1, Good(r1), NEW p \in Packet, Turned(r0, r1, p),
         r1.packet[p] = "failed"
  PROVE  GateUndoes(r0, r1, p)
<1> DEFINE opened == {q \in Packet : r1.attempts[q] # r0.attempts[q]}
           ph == [q \in Packet |-> IF q \in opened THEN "waiting" ELSE PhaseOf(r1.packet[q])]
           lost == {x \in Packet : ph[x] \in {"undone", "left-out"}}
<1>1. /\ r0 \in Run /\ r1 \in Run /\ r0.packet[p] \in Open /\ r1.attempts[p] = r0.attempts[p]
      /\ \A q \in Packet : r0.attempts[q] \in Nat
  BY DEF Good, Turned, Turn, Run
<1>2. ASSUME NEW q \in Packet \ {p}
      PROVE  \/ q \notin opened /\ r1.packet[q] = r0.packet[q]
             \/ q \in opened /\ r0.packet[q] = "pending" /\ r1.packet[q] = "running"
                /\ r1.attempts[q] = r0.attempts[q] + 1
             \/ q \notin opened /\ r0.packet[q] = "pending" /\ r1.packet[q] = "skipped"
  BY <1>1 DEF Turned, Others, SamePacket, Opened, LeftOut
<1>3. ph \in [Packet -> GatePhases]
  BY <1>1 DEF PhaseOf, GatePhases, Run, PacketStatus
<1>4. \A q \in Packet : ph[q] = IF q \in opened THEN "waiting" ELSE PhaseOf(r1.packet[q])
  OBVIOUS
<1>5. \A q \in Packet : q \in opened => q # p
  BY <1>1
<1> HIDE DEF opened, ph
<1>6. \A q \in Packet : q \in lost <=> r1.packet[q] \in {"failed", "skipped"}
  BY <1>1, <1>2, <1>4, <1>5 DEF PhaseOf, Run, PacketStatus
<1> HIDE DEF lost
<1>7. NeedsOf(r1) = NeedsOf(r0) /\ IsConfirmed(r0) /\ IsConfirmed(r1)
  BY <1>1, FrameKeepsNeeds, OpenIsNotOver DEF Turned, IsConfirmed
<1>8. ph[p] = "undone"
  BY <1>4, <1>5 DEF PhaseOf
<1>9. \A q \in Packet \ {p} : \/ ph[q] = PhasesOf(r0)[q]
                              \/ PhasesOf(r0)[q] = "waiting" /\ ph[q] = "left-out"
  BY <1>2, <1>4 DEF PhasesOf, PhaseOf
<1>10. ASSUME NEW q \in Packet, PhasesOf(r0)[q] = "waiting"
       PROVE  ph[q] = "left-out" <=> NeedsOf(r0)[q] \cap lost # {}
  <2>1. /\ q # p
        /\ \/ q \notin opened /\ r1.packet[q] \in {"pending", "skipped"}
           \/ q \in opened /\ r1.packet[q] = "running"
    BY <1>1, <1>2, <1>10 DEF PhasesOf, PhaseOf, Open, Run, PacketStatus
  <2>2. ph[q] = "left-out" <=> r1.packet[q] = "skipped"
    BY <1>4, <2>1 DEF PhaseOf
  <2>3. CASE q \notin InRun(r1)
    <3>1. r1.packet[q] = "pending" /\ NeedsOf(r1)[q] = {}
      BY <2>3, <1>7 DEF Good, Sound, UntouchedIn, NeedsOf
    <3> QED BY <1>7, <2>2, <3>1
  <2>4. CASE q \in InRun(r1)
    <3>1. NeedsOf(r0)[q] = DependsOn(r1, q) /\ DependsOn(r1, q) \subseteq InRun(r1)
          /\ InRun(r1) \subseteq Packet
      BY <1>7, <2>4, PacketSets DEF NeedsOf
    <3>2. NeedsOf(r0)[q] \cap lost = DependsOn(r1, q) \cap Dead(r1)
      BY <1>6, <3>1 DEF Dead
    <3>3. r1.packet[q] = "pending" => DependsOn(r1, q) \cap Dead(r1) = {}
      BY <2>4 DEF Good, Sound, CascadeExactIn
    <3>4. r1.packet[q] = "skipped" => DependsOn(r1, q) \cap Dead(r1) # {}
      BY <2>4 DEF Good, Sound, CascadeExactIn
    <3>5. r1.packet[q] = "running" => DependsOn(r1, q) \cap Dead(r1) = {}
      BY <2>4 DEF Good, Sound, DependenciesFirstIn, Satisfied, Dead
    <3> QED BY <2>1, <2>2, <3>2, <3>3, <3>4, <3>5
  <2> QED BY <2>3, <2>4
<1>11. Opens(r0, r1, ph, NeedsOf(r1))
  <2>1. \A q \in Packet :
          \/ PhaseOf(r1.packet[q]) = ph[q] /\ r1.attempts[q] = r0.attempts[q]
          \/ /\ ph[q] = "waiting" /\ r1.packet[q] = "running"
             /\ r1.attempts[q] = r0.attempts[q] + 1
    BY <1>1, <1>2, <1>4, <1>5 DEF opened
  <2> QED BY <1>1, <1>7, <2>1, StartsAreReady
<1>12. PhasesOf(r0)[p] = "open"
  BY <1>1 DEF PhasesOf, PhaseOf, Open
<1> QED BY <1>3, <1>7, <1>8, <1>9, <1>10, <1>11, <1>12 DEF GateUndoes, lost

\* A handler that deals with one packet is a step of GatedWork.
LEMMA TurnedIsGateStep ==
  ASSUME NEW r0, Good(r0), NEW r1, Good(r1), NEW p \in Packet, Turned(r0, r1, p)
  PROVE  GateStep(r0, r1)
<1>1. /\ r0 \in Run /\ r1 \in Run /\ r0.packet[p] \in Open
      /\ NeedsOf(r1) = NeedsOf(r0) /\ IsConfirmed(r0) /\ IsConfirmed(r1)
  BY FrameKeepsNeeds, OpenIsNotOver DEF Good, Turned, Turn, IsConfirmed
<1>2. PhasesOf(r0)[p] = "open" /\ \A q \in Packet : PhasesOf(r0)[q] = PhaseOf(r0.packet[q])
  BY <1>1 DEF PhasesOf, PhaseOf, Open
<1>3. r1.packet[p] # "failed" => \A q \in Packet \ {p} :
        \/ PhaseOf(r1.packet[q]) = PhasesOf(r0)[q] /\ r1.attempts[q] = r0.attempts[q]
        \/ /\ PhasesOf(r0)[q] = "waiting" /\ r1.packet[q] = "running"
           /\ r1.attempts[q] = r0.attempts[q] + 1
  BY <1>2 DEF Turned, Others, SamePacket, Opened, PhaseOf
<1>4. CASE r1.packet[p] = "failed"
  BY <1>1, <1>4, UndoneLeavesOut DEF GateStep
<1>5. CASE r1.packet[p] = "done" /\ r1.attempts[p] = r0.attempts[p]
  <2> DEFINE ph == [PhasesOf(r0) EXCEPT ![p] = "kept"]
  <2>1. ph[p] = "kept" /\ \A q \in Packet \ {p} : ph[q] = PhasesOf(r0)[q]
    BY DEF PhasesOf
  <2> HIDE DEF ph
  <2>2. Opens(r0, r1, ph, NeedsOf(r1))
    BY <1>1, <1>3, <1>5, <2>1, StartsAreReady DEF PhaseOf
  <2> QED BY <1>1, <1>2, <2>2 DEF GateStep, GateKeeps, ph
<1>6. CASE r1.packet[p] \in Open /\ r1.attempts[p] = r0.attempts[p]
  <2>1. Opens(r0, r1, PhasesOf(r0), NeedsOf(r1))
    BY <1>1, <1>2, <1>3, <1>6, StartsAreReady DEF PhaseOf, Open
  <2> QED BY <1>1, <2>1 DEF GateStep
<1>7. CASE /\ r0.attempts[p] < MaxPacketAttempts
           /\ \/ r1.packet[p] = "pending" /\ r1.attempts[p] = r0.attempts[p]
              \/ r1.packet[p] = "running" /\ r1.attempts[p] = r0.attempts[p] + 1
  <2> DEFINE ph == [PhasesOf(r0) EXCEPT ![p] = "waiting"]
  <2>1. ph[p] = "waiting" /\ \A q \in Packet \ {p} : ph[q] = PhasesOf(r0)[q]
    BY DEF PhasesOf
  <2> HIDE DEF ph
  <2>2. Opens(r0, r1, ph, NeedsOf(r1))
    BY <1>1, <1>3, <1>7, <2>1, StartsAreReady DEF PhaseOf
  <2> QED BY <1>1, <1>2, <1>7, <2>2 DEF GateStep, GateSendsBack, ph
<1> QED BY <1>4, <1>5, <1>6, <1>7 DEF Turned, Turn

\* So is one that starts packets, or nothing.
LEMMA RestedIsGateStep ==
  ASSUME NEW r0, Good(r0), NEW r1, Good(r1), Rested(r0, r1)
  PROVE  GateStep(r0, r1)
<1>1. /\ r0 \in Run /\ r1 \in Run
      /\ NeedsOf(r1) = NeedsOf(r0) /\ (IsConfirmed(r1) <=> IsConfirmed(r0))
  BY FrameKeepsNeeds DEF Good, Rested
<1>2. CASE IsConfirmed(r0)
  <2>1. \A q \in Packet :
          \/ PhaseOf(r1.packet[q]) = PhasesOf(r0)[q] /\ r1.attempts[q] = r0.attempts[q]
          \/ /\ PhasesOf(r0)[q] = "waiting" /\ r1.packet[q] = "running"
             /\ r1.attempts[q] = r0.attempts[q] + 1
    <3>1. \A q \in Packet : PhasesOf(r0)[q] = PhaseOf(r0.packet[q])
      BY DEF PhasesOf
    <3>2. \A q \in Packet : r0.packet[q] = "pending" => PhaseOf(r0.packet[q]) = "waiting"
      BY DEF PhaseOf
    <3> QED BY <3>1, <3>2 DEF Rested, SamePacket, Opened
  <2>2. Opens(r0, r1, PhasesOf(r0), NeedsOf(r1))
    BY <1>1, <1>2, <2>1, StartsAreReady
  <2> QED BY <1>1, <1>2, <2>2 DEF GateStep
<1>3. CASE ~IsConfirmed(r0)
  <2>1. \A q \in Packet : r1.packet[q] = r0.packet[q] /\ r1.attempts[q] = r0.attempts[q]
    BY <1>1, <1>3 DEF Rested, SamePacket, Opened, Good, Sound, UntouchedIn, IsConfirmed
  <2>2. PhasesOf(r1) = PhasesOf(r0) /\ r1.attempts = r0.attempts
    BY <1>1, <2>1 DEF PhasesOf, Run
  <2> QED BY <1>1, <2>2 DEF GateStep, GateSleeps
<1> QED BY <1>2, <1>3

\* So is drafting, confirming or dropping a plan.
LEMMA PlannedIsGateStep ==
  ASSUME NEW r0, Good(r0), NEW r1, Good(r1), Planned(r0, r1)
  PROVE  GateStep(r0, r1)
<1>1. /\ r0 \in Run /\ r1 \in Run /\ ~IsConfirmed(r0)
      /\ \A q \in Packet : PhasesOf(r0)[q] = "waiting"
  BY DEF Good, Planned, IsConfirmed, PhasesOf, PhaseOf
<1>2. CASE ~IsConfirmed(r1)
  <2>1. PhasesOf(r1) = PhasesOf(r0) /\ NeedsOf(r1) = NeedsOf(r0)
    BY <1>1, <1>2 DEF PhasesOf, NeedsOf, Planned, Good, Sound, UntouchedIn, IsConfirmed
  <2>2. r1.attempts = r0.attempts
    BY <1>2 DEF Planned, IsConfirmed
  <2> QED BY <1>1, <1>2, <2>1, <2>2 DEF GateStep, GateSleeps
<1>3. CASE IsConfirmed(r1)
  <2> DEFINE K == {q \in Packet : r1.packet[q] = "no-change"}
             ph == [q \in Packet |-> IF q \in K THEN "kept" ELSE PhasesOf(r0)[q]]
  <2>1. \A q \in Packet :
          \/ PhaseOf(r1.packet[q]) = ph[q] /\ r1.attempts[q] = r0.attempts[q]
          \/ /\ ph[q] = "waiting" /\ r1.packet[q] = "running"
             /\ r1.attempts[q] = r0.attempts[q] + 1
    BY <1>1, <1>3 DEF Planned, PhaseOf, IsConfirmed
  <2>2. K \in SUBSET Packet
    OBVIOUS
  <2> HIDE DEF K
  <2>3. Opens(r0, r1, ph, NeedsOf(r1))
    <3> HIDE DEF ph
    <3> QED BY <1>1, <1>3, <2>1, StartsAreReady
  <2> QED BY <1>1, <1>3, <2>2, <2>3 DEF GateStep, GateConfirms
<1> QED BY <1>2, <1>3

\* So is a restart.
LEMMA ReloadedIsGateStep ==
  ASSUME NEW r0, Good(r0), NEW r1, Good(r1), Reloaded(r0, r1)
  PROVE  GateStep(r0, r1)
<1> DEFINE S == {q \in Packet : PhasesOf(r1)[q] # PhasesOf(r0)[q]}
<1>1. /\ NeedsOf(r1) = NeedsOf(r0) /\ (IsConfirmed(r1) <=> IsConfirmed(r0))
      /\ r1.attempts = r0.attempts
  BY FrameKeepsNeeds DEF Reloaded
<1>2. \A q \in S : PhasesOf(r0)[q] = "open" /\ PhasesOf(r1)[q] = "waiting"
  <2>1. \A q \in Packet : /\ PhasesOf(r0)[q] = PhaseOf(r0.packet[q])
                          /\ PhasesOf(r1)[q] = PhaseOf(r1.packet[q])
    BY DEF PhasesOf
  <2>2. \A q \in Packet : r1.packet[q] = "pending" => PhaseOf(r1.packet[q]) = "waiting"
    BY DEF PhaseOf
  <2> QED BY <2>1, <2>2 DEF Reloaded
<1>3. PhasesOf(r1) = [p \in Packet |-> IF p \in S THEN "waiting" ELSE PhasesOf(r0)[p]]
  BY <1>2 DEF PhasesOf
<1>4. CASE IsConfirmed(r0)
  BY <1>1, <1>2, <1>3, <1>4 DEF GateStep, GateLoses
<1>5. CASE ~IsConfirmed(r0)
  <2>1. PhasesOf(r1) = PhasesOf(r0)
    BY <1>1, <1>5 DEF PhasesOf, Good, Sound, UntouchedIn, IsConfirmed
  <2> QED BY <1>1, <2>1 DEF GateStep, GateSleeps
<1> QED BY <1>4, <1>5

------------------------------------------------------------------------------
(* Every step.                                                              *)

\* The tree and the run are left alone once the run is over.
Quiet == run.status \in {"done", "failed"} => disk' = disk /\ run' = run

\* What every step of the server is, as far as this module is concerned.
ReviewStep ==
  /\ ReviewInv' /\ GateStep(run, run')
  /\ Quiet \/ \E e \in rewriting : EditLands(e)
  /\ Restart \/ ((Staffed => Staffed') /\ SessionsGoOn)

\* Dealing with a packet is not done once the run is over.
LEMMA PacketStepIsReviewStep ==
  ASSUME Inv, Inv', NEW p \in Packet, PacketStep(p)
  PROVE  ReviewStep
<1>1. Turned(run, run', p)
  BY DEF PacketStep
<1>2. GateStep(run, run')
  BY <1>1, InvFacts, TurnedIsGateStep DEF Inv, Good, TypeOK
<1>3. run.status \notin {"done", "failed"}
  BY <1>1, InvFacts, OpenIsNotOver DEF Turned, Turn
<1> QED BY <1>2, <1>3 DEF PacketStep, ReviewStep, Quiet

\* The server's own steps.
LEMMA ServerStepReviews ==
  ASSUME Inv, Inv', ReviewInv, OneReviewer, ServerStep
  PROVE  ReviewStep
<1>1. CASE \E n \in briefing, brief \in {"ready", "unavailable"} : BriefLands(n, brief)
  <2>1. PlanStep \/ (RestStep /\ UNCHANGED <<run, disk>>)
    BY <1>1, BriefIsPlan
  <2>2. CASE PlanStep
    BY <2>2, InvFacts, PlannedIsGateStep
       DEF PlanStep, ReviewStep, Quiet, Planned, Inv, Good, TypeOK
  <2>3. CASE RestStep /\ UNCHANGED <<run, disk>>
    BY <2>3, InvFacts, RestedIsGateStep DEF RestStep, ReviewStep, Quiet
  <2> QED BY <2>1, <2>2, <2>3
<1>2. CASE \E u \in undoing : \E f \in u.left : RestoreFile(u, f)
  <2>1. PICK u \in undoing : \E f \in u.left : RestoreFile(u, f)
    BY <1>2
  <2>2. RestStep /\ run' = run
    BY <2>1, RestoreFileIsRest DEF RestoreFile
  <2>3. u.packet \in Packet /\ run.packet[u.packet] \in Open
    BY InvFacts DEF UndosTyped, ReviewInv, UndosOpen, UndoOpen, AtReviewer, Open
  <2>4. run.status \notin {"done", "failed"}
    BY <2>3, InvFacts, OpenIsNotOver
  <2> QED BY <2>2, <2>4, InvFacts, RestedIsGateStep DEF RestStep, ReviewStep, Quiet
<1>5. CASE \E e \in rewriting : EditLands(e)
  <2>1. RestStep
    BY <1>5, NothingIsRest DEF EditLands
  <2> QED BY <1>5, <2>1, InvFacts, RestedIsGateStep DEF RestStep, ReviewStep, Inv, Good, TypeOK
<1>3. CASE \E p \in Packet : PacketStep(p)
  BY <1>3, PacketStepIsReviewStep
<1>4. (\E p \in Packet : PacketStep(p)) \/ (\E n \in briefing, brief \in {"ready", "unavailable"} : BriefLands(n, brief))
        \/ (\E u \in undoing : \E f \in u.left : RestoreFile(u, f))
        \/ (\E e \in rewriting : EditLands(e))
  <2>1. /\ \A v \in reviewing : v.packet \in Packet
        /\ \A u \in undoing : u.packet \in Packet
    BY InvFacts DEF TypeOK, UndosTyped
  <2> QED BY <2>1, RefusedIsStep, EscalationIsStep, IdleDeathIsStep, GatedReportIsStep,
             OrchestratedReportIsStep, AnswerIsStep, FinishIsStep DEF ServerStep
<1> QED BY <1>1, <1>2, <1>3, <1>4, <1>5

\* The people's steps.
LEMMA HumanStepReviews ==
  ASSUME Inv, Inv', ReviewInv, OneReviewer, HumanStep
  PROVE  ReviewStep
<1>1. CASE StartRun \/ Ratify \/ Discard
  <2>1. PlanStep
    BY <1>1, StartRunIsPlan, RatifyIsPlan, DiscardIsPlan
  <2> QED BY <2>1, InvFacts, PlannedIsGateStep
          DEF PlanStep, ReviewStep, Quiet, Planned, Inv, Good, TypeOK
<1>2. CASE Pause \/ Resume
  <2>1. RestStep /\ run.status \notin {"done", "failed"}
    BY <1>2, PauseIsRest, ResumeIsRest DEF Pause, Resume
  <2> QED BY <2>1, InvFacts, RestedIsGateStep
          DEF RestStep, ReviewStep, Quiet, Inv, Good, TypeOK
<1>3. CASE \E c \in Clients, p \in Packet : HumanApproves(c, p) \/ HumanRejects(c, p)
  <2>1. \E p \in Packet : PacketStep(p)
    BY <1>3, ApprovalIsStep, RejectionIsStep
  <2> QED BY <2>1, PacketStepIsReviewStep
<1> QED BY <1>1, <1>2, <1>3 DEF HumanStep

\* Every step keeps the invariant and GatedWork's promises.
LEMMA EveryStepReviews ==
  ASSUME Inv, ReviewInv, OneReviewer, [Next]_vars
  PROVE  Inv' /\ ReviewStep
<1>0. Inv'
  BY StepInv
<1>1. CASE ServerStep
  BY <1>0, <1>1, ServerStepReviews
<1>2. CASE HumanStep
  BY <1>0, <1>2, HumanStepReviews
<1>3. CASE Edit
  <2>1. PICK p \in Packet, f \in File : EditBegins(p, f)
    BY <1>3 DEF Edit
  <2>2. RestStep /\ run' = run /\ run.packet[p] \in Open
    BY <2>1, NothingIsRest DEF EditBegins, Open
  <2>3. run.status \notin {"done", "failed"}
    BY <2>2, InvFacts, OpenIsNotOver
  <2> QED BY <1>0, <2>2, <2>3, InvFacts, RestedIsGateStep DEF RestStep, ReviewStep, Quiet
<1>4. CASE Restart
  <2>1. ReviewInv' /\ Reloaded(run, run') /\ disk' = disk
    BY <1>4, RestartReloads DEF Restart
  <2>2. GateStep(run, run')
    BY <1>0, <2>1, InvFacts, ReloadedIsGateStep DEF Inv, Good, TypeOK
  <2> QED BY <1>0, <1>4, <2>1, <2>2 DEF ReviewStep, Quiet, Reloaded
<1>5. CASE UNCHANGED vars
  <2>1. RestStep /\ UNCHANGED <<run, disk>>
    BY <1>5, NothingIsRest DEF vars
  <2> QED BY <1>0, <2>1, InvFacts, RestedIsGateStep DEF RestStep, ReviewStep, Quiet
<1> QED BY <1>1, <1>2, <1>3, <1>4, <1>5 DEF Next

\* Nothing is under way when the server first starts.
LEMMA InitReviews == Init => ReviewInv /\ Staffed /\ Gate!GWInit
<1> SUFFICES ASSUME Init PROVE ReviewInv /\ Staffed /\ Gate!GWInit
  OBVIOUS
<1>1. run = NoRun /\ saved = NoRun /\ \A p \in Packet : run.packet[p] = "pending"
  BY DEF Init, NoRun
<1>2. WorkersRun /\ Staffed /\ ReviewsOpen /\ UndosOpen /\ SnapsKept /\ NoneTorn
  BY <1>1 DEF Init, NoneTorn, WorkersRun, Staffed, ReviewsOpen, UndosOpen, SnapsKept, HasSession
<1>3. OverSaved /\ DraftIdle /\ View(saved, run)
  BY <1>1, ViewReflexive DEF OverSaved, DraftIdle
<1>4. Gate!GWInit
  BY <1>1 DEF Gate!GWInit, Confirmed, NoRun, PhaseOf
<1> QED BY <1>2, <1>3, <1>4 DEF ReviewInv

\* With one reviewer the invariant holds of every behaviour.
LEMMA SpecReviews == ASSUME OneReviewer PROVE Spec => [](Inv /\ ReviewInv)
<1>1. Init => Inv /\ ReviewInv
  BY InitInv, InitReviews
<1>2. (Inv /\ ReviewInv) /\ [Next]_vars => (Inv /\ ReviewInv)'
  BY EveryStepReviews DEF ReviewStep
<1> QED BY <1>1, <1>2, PTL DEF Spec

------------------------------------------------------------------------------
(* Rewrites under way.                                                      *)

\* While no worker ends before its rewrites, a rewrite under way is of a live
\* session's attempt and in its scope, as it was when it was checked.
RewriteHeld(e) ==
  /\ HasSession(e.packet) /\ e.attempt = run.attempts[e.packet]
  /\ e.file \in EditScopeOf(run, e.packet)

RewritesInv == ~LateWrites => \A e \in rewriting : RewriteHeld(e)

\* Only an edit begins a rewrite, and a restart loses them all.
LEMMA OnlyEditsBegin ==
  ASSUME [Next]_vars
  PROVE  Edit \/ (Restart /\ rewriting' = {}) \/ rewriting' \subseteq rewriting
<1>1. CASE ServerStep
  BY <1>1 DEF ServerStep, BriefLands, WorkerRefused, WorkerEscalates, WorkerDiesIdle,
              WorkerReportsGated, WorkerReportsOrchestrated, ReviewerAnswers, FinishUndo,
              RestoreFile, EditLands
<1>2. CASE HumanStep
  BY <1>2 DEF HumanStep, StartRun, Ratify, Discard, Pause, Resume, HumanApproves, HumanRejects
<1>3. CASE Edit \/ Restart \/ UNCHANGED vars
  BY <1>3 DEF Restart, vars
<1> QED BY <1>1, <1>2, <1>3 DEF Next

\* Every step keeps what holds of the rewrites under way.
LEMMA EveryStepHolds ==
  ASSUME Inv, ReviewInv, OneReviewer, RewritesInv, [Next]_vars
  PROVE  RewritesInv'
<1> SUFFICES ASSUME ~LateWrites, NEW e \in rewriting' PROVE RewriteHeld(e)'
  BY DEF RewritesInv
<1>1. ReviewStep
  BY EveryStepReviews
<1>2. CASE e \in rewriting
  <2>1. RewriteHeld(e) /\ e.packet \in Packet /\ ~MayEnd(e.packet)
    BY <1>2, InvFacts DEF RewritesInv, MayEnd, TypeOK
  <2>2. ~Restart
    BY DEF Restart
  <2> QED BY <1>1, <2>1, <2>2 DEF ReviewStep, SessionsGoOn, RewriteHeld, HasSession
<1>3. CASE e \notin rewriting
  <2>1. Edit
    BY <1>3, OnlyEditsBegin DEF Restart
  <2>2. PICK p \in Packet, f \in File : EditBegins(p, f)
    BY <2>1 DEF Edit
  <2> DEFINE b == [packet |-> p, attempt |-> run.attempts[p], file |-> f]
  <2>3. /\ HasSession(p) /\ f \in EditScopeOf(run, p) /\ UNCHANGED <<run, worker>>
        /\ e = b
    BY <1>3, <2>2 DEF EditBegins
  <2>4. b.packet = p /\ b.attempt = run.attempts[p] /\ b.file = f
    OBVIOUS
  <2> HIDE DEF b
  <2> QED BY <2>3, <2>4 DEF RewriteHeld, HasSession
<1> QED BY <1>2, <1>3

\* Once the run is over nothing is written any more.
LEMMA HeldIsQuiet ==
  ASSUME Inv, ReviewInv, RewritesInv, ~LateWrites, ReviewStep
  PROVE  Quiet
<1>1. ASSUME NEW e \in rewriting PROVE run.status \notin {"done", "failed"}
  <2>1. e.packet \in Packet /\ HasSession(e.packet)
    BY InvFacts DEF RewritesInv, RewriteHeld, TypeOK
  <2>2. run.packet[e.packet] \in Open
    BY <2>1 DEF HasSession, ReviewInv, WorkersRun, Open
  <2> QED BY <2>1, <2>2, InvFacts, OpenIsNotOver
<1> QED BY <1>1 DEF ReviewStep, Quiet

LEMMA InitHolds == Init => RewritesInv
BY DEF Init, RewritesInv

\* With one reviewer, what holds of the rewrites holds of every behaviour.
LEMMA SpecHolds == ASSUME OneReviewer PROVE Spec => [](Inv /\ ReviewInv /\ RewritesInv)
<1>1. (Inv /\ ReviewInv) /\ RewritesInv /\ [Next]_vars => RewritesInv'
  BY EveryStepHolds
<1> QED BY <1>1, InitHolds, SpecReviews, PTL DEF Spec

------------------------------------------------------------------------------
(* Restarts between two workers.                                            *)

\* The run on disk is the run in memory, but for the pause of a restart.
Persisted == saved = [run EXCEPT !.status = saved.status]

\* So it is at any moment, unless the autonomy ruling is still restoring what it
\* escalated: that escalation is committed with the flip.
Committed == Persisted \/ \E u \in undoing : u.by = "autonomy"

\* A run that is committed as it stands is persisted.
LEMMA SavedIsPersisted ==
  ASSUME NEW r \in Run
  PROVE  r = [r EXCEPT !.status = r.status]
BY DEF Run

\* An undo commits, leaves both runs alone, or is the autonomy's.
LEMMA UndoCommits ==
  ASSUME Committed, NEW by, NEW p, NEW next, NEW r, NEW c, NEW snaps, NEW workers,
         UndoPacket(by, p, next, r, c, snaps, workers),
         \/ r = c \/ (r = run /\ c = saved) \/ by = "autonomy"
  PROVE  saved' = run' \/ Committed'
<1>1. CASE NothingToRestore(p, snaps)
  BY <1>1 DEF UndoPacket, CommitAndAdvance
<1>2. CASE ~NothingToRestore(p, snaps)
  <2>1. PICK f \in DOMAIN snaps[p] :
          /\ undoing' = undoing \cup {[by |-> by, packet |-> p, next |-> next,
                                      left |-> DOMAIN snaps[p] \ {f}, to |-> snaps[p]]}
          /\ Become(run, r, snaps, workers) /\ saved' = c
    BY <1>2 DEF UndoPacket
  <2>2. run' = r /\ undoing \subseteq undoing'
    BY <2>1 DEF Become
  <2>3. by = "autonomy" => \E u \in undoing' : u.by = "autonomy"
    <3> DEFINE u == [by |-> by, packet |-> p, next |-> next,
                     left |-> DOMAIN snaps[p] \ {f}, to |-> snaps[p]]
    <3>1. u \in undoing' /\ u.by = by
      BY <2>1
    <3> QED BY <3>1
  <2> QED BY <2>1, <2>2, <2>3 DEF Committed, Persisted
<1> QED BY <1>1, <1>2

\* So does an escalation.
LEMMA EscalationCommits ==
  ASSUME Committed, NEW p, NEW r, NEW c, NEW snaps, NEW workers,
         Escalate(p, r, c, snaps, workers)
  PROVE  saved' = run' \/ Committed'
<1>1. CASE Autonomous
  BY <1>1, UndoCommits DEF Escalate
<1>2. CASE ~Autonomous
  BY <1>2 DEF Escalate, CommitAndAdvance
<1> QED BY <1>1, <1>2

\* A restart between two workers and restores changes no packet.
LEMMA RestAtRestart ==
  ASSUME Inv, ReviewInv, Staffed, Committed, CrashAtRest, Restart
  PROVE  /\ run' = [run EXCEPT !.status = run'.status] /\ Persisted'
         /\ undoing = {} /\ undoing' = {} /\ Staffed'
         /\ \A p \in Packet : worker[p] = NoWorker /\ worker'[p] = NoWorker
<1>1. /\ run' = LoadWorkRun(saved) /\ saved' = saved /\ undoing' = {}
      /\ undoing = {} /\ \A p \in Packet : worker[p] = NoWorker /\ worker'[p] = NoWorker
  BY DEF Restart
<1>2. saved = [run EXCEPT !.status = saved.status] /\ run \in Run /\ saved \in Run
  BY <1>1, InvFacts DEF Committed, Persisted, Good
<1>3. \A p \in Packet : saved.packet[p] = run.packet[p] /\ run.packet[p] # "running"
  BY <1>1, <1>2 DEF Staffed, Run
<1>4. run' = [saved EXCEPT !.status = run'.status] /\ run'.packet = saved.packet
  <2>1. CASE saved.status = "running"
    <3> DEFINE packets == [p \in Packet |-> IF saved.packet[p] = "running" THEN "pending"
                                            ELSE saved.packet[p]]
    <3>1. run' = [saved EXCEPT !.status = "paused", !.packet = packets]
      BY <1>1, <2>1 DEF LoadWorkRun
    <3>2. packets = saved.packet
      BY <1>2, <1>3 DEF Run
    <3> HIDE DEF packets
    <3> QED BY <1>2, <3>1, <3>2 DEF Run
  <2>2. CASE saved.status # "running"
    BY <1>1, <1>2, <2>2, SavedIsPersisted DEF LoadWorkRun
  <2> QED BY <2>1, <2>2
<1>5. run' = [run EXCEPT !.status = run'.status] /\ saved = [run' EXCEPT !.status = saved.status]
  BY <1>2, <1>4 DEF Run
<1>6. Staffed'
  BY <1>3, <1>4 DEF Staffed
<1> QED BY <1>1, <1>5, <1>6 DEF Persisted

\* The server's own steps commit what they do to the run.
LEMMA ServerStepCommits ==
  ASSUME Inv, ReviewInv, OneReviewer, Committed, ServerStep
  PROVE  saved' = run' \/ Committed'
<1>1. CASE \E n \in briefing, brief \in {"ready", "unavailable"} : BriefLands(n, brief)
  BY <1>1 DEF BriefLands, CommitAndAdvance, Committed, Persisted
<1>2. CASE \E p \in Packet : WorkerRefused(p) \/ WorkerEscalates(p) \/ WorkerDiesIdle(p)
  BY <1>2, EscalationCommits DEF WorkerRefused, WorkerEscalates, WorkerDiesIdle
<1>3. CASE \E p \in Packet : WorkerReportsGated(p)
  BY <1>3 DEF WorkerReportsGated, CommitAndAdvance
<1>4. CASE \E p \in Packet, died \in BOOLEAN, decision \in PreChecks :
             WorkerReportsOrchestrated(p, died, decision)
  BY <1>4, EscalationCommits, UndoCommits
     DEF WorkerReportsOrchestrated, Approve, CommitAndAdvance
<1>5. CASE \E v \in reviewing, verdict \in Verdicts : ReviewerAnswers(v, verdict)
  <2>1. PICK v \in reviewing, verdict \in Verdicts : ReviewerAnswers(v, verdict)
    BY <1>5
  <2>2. CASE UNCHANGED <<run, saved, undoing>>
    BY <2>2 DEF Committed, Persisted
  <2>3. CASE Approve(v.packet, run, snap, worker)
    BY <2>3 DEF Approve, CommitAndAdvance
  <2>4. CASE UndoPacket("orchestrator", v.packet, AfterRejection(run, v.packet),
                        run, saved, snap, worker)
    BY <2>4, UndoCommits
  <2>5. CASE Escalate(v.packet, run, saved, snap, worker)
    BY <2>5, EscalationCommits
  <2>6. CASE saved' = run /\ run' = run
    BY <2>6
  <2> QED BY <2>1, <2>2, <2>3, <2>4, <2>5, <2>6 DEF ReviewerAnswers
<1>6. CASE \E u \in undoing : FinishUndo(u)
  <2>1. PICK u \in undoing : FinishUndo(u)
    BY <1>6
  <2>2. CASE u.by \in Clients /\ ~Legal(run, u.packet, u.next)
    BY <2>1, <2>2 DEF ReviewInv, UndosOpen, UndoOpen
  <2> QED BY <2>1, <2>2 DEF FinishUndo, CommitAndAdvance
<1>7. CASE \E u \in undoing : \E f \in u.left : RestoreFile(u, f)
  <2>0. PICK u \in undoing : \E f \in u.left : RestoreFile(u, f)
    BY <1>7
  <2>1. PICK f \in u.left : RestoreFile(u, f)
    BY <2>0
  <2>2. /\ undoing' = (undoing \ {u}) \cup {[u EXCEPT !.left = u.left \ {f}]}
        /\ run' = run /\ saved' = saved
    BY <2>1 DEF RestoreFile
  <2>3. [u EXCEPT !.left = u.left \ {f}].by = u.by
    BY InvFacts DEF UndosTyped
  <2> QED BY <2>2, <2>3 DEF Committed, Persisted
<1>8. CASE \E e \in rewriting : EditLands(e)
  BY <1>8 DEF EditLands, Committed, Persisted
<1> QED BY <1>1, <1>2, <1>3, <1>4, <1>5, <1>6, <1>7, <1>8 DEF ServerStep

\* And so does every other step.
LEMMA EveryStepCommits ==
  ASSUME Inv, ReviewInv, OneReviewer, Staffed, Committed, CrashAtRest, [Next]_vars
  PROVE  Staffed' /\ Committed'
<1>0. Inv' /\ ReviewStep
  BY EveryStepReviews
<1>1. saved' = run' => Committed'
  BY <1>0, InvFacts, SavedIsPersisted DEF Inv, TypeOK, Committed, Persisted
<1>2. CASE Restart
  BY <1>2, RestAtRestart DEF Committed
<1>3. CASE ~Restart
  <2>1. Staffed'
    BY <1>0, <1>3 DEF ReviewStep
  <2>2. CASE ServerStep
    BY <1>1, <2>1, <2>2, ServerStepCommits
  <2>3. CASE StartRun \/ Ratify \/ Discard \/ Pause \/ Resume
    BY <1>1, <2>1, <2>3 DEF StartRun, Ratify, Discard, Pause, Resume, CommitAndAdvance
  <2>4. CASE \E c \in Clients, p \in Packet : HumanApproves(c, p) \/ HumanRejects(c, p)
    BY <1>1, <2>1, <2>4, UndoCommits DEF HumanApproves, HumanRejects, Approve, CommitAndAdvance
  <2>5. CASE Edit \/ UNCHANGED vars
    BY <2>1, <2>5 DEF Edit, EditBegins, vars, Committed, Persisted
  <2> QED BY <1>3, <2>2, <2>3, <2>4, <2>5 DEF Next, HumanStep
<1> QED BY <1>2, <1>3

\* With one reviewer and restarts between two workers, no worker is ever missing.
LEMMA SpecStaffed ==
  ASSUME OneReviewer, CrashAtRest
  PROVE  Spec => [](Inv /\ ReviewInv /\ Staffed /\ Committed)
<1>1. Init => Inv /\ ReviewInv /\ Staffed /\ Committed
  <2>1. Init => Committed
    BY InitInv, InvFacts, SavedIsPersisted DEF Init, Committed, Persisted, Good
  <2> QED BY <2>1, InitInv, InitReviews
<1>2. (Inv /\ ReviewInv /\ Staffed /\ Committed) /\ [Next]_vars =>
        (Inv /\ ReviewInv /\ Staffed /\ Committed)'
  BY EveryStepReviews, EveryStepCommits DEF ReviewStep
<1> QED BY <1>1, <1>2, PTL DEF Spec

------------------------------------------------------------------------------
(* The theorems.                                                            *)

\* A packet at its gate can be undone, however often and whenever the server
\* dies, unless it dies in the middle of a decision about that attempt
\* (snapshotPacketFiles, applyPacketReview, loadWorkRun).
THEOREM GateAlwaysHasSnapshot == ASSUME OneReviewer PROVE Spec => []GateHasSnapshot
<1>1. Inv /\ ReviewInv => GateHasSnapshot
  BY DEF ReviewInv, SnapsKept, Whole, GateHasSnapshot
<1> QED BY <1>1, SpecReviews, PTL

\* A packet is running exactly as long as it has a worker: none waits for a
\* session that does not exist, across restarts between two workers too
\* (runOnePacket, commitWorkRun, loadWorkRun).
THEOREM RunningAlwaysHasWorker ==
  ASSUME OneReviewer, CrashAtRest
  PROVE  Spec => []RunningHasWorker
<1>1. ReviewInv /\ Staffed => RunningHasWorker
  BY DEF ReviewInv, WorkersRun, Staffed, RunningHasWorker
<1> QED BY <1>1, SpecStaffed, PTL

\* Once the run is over, no worker, rewrite, reviewer, restore or restart touches
\* the run or the tree, as long as no worker ends before its own rewrites
\* (advanceWorkRun, orchestratorReview, rewriteAndValidate).
THEOREM OverIsAlwaysOver ==
  ASSUME OneReviewer, ~LateWrites
  PROVE  Spec => OverIsOver
<1>1. (Inv /\ ReviewInv /\ RewritesInv) /\ [Next]_vars =>
        [run.status \in {"done", "failed"} => disk' = disk /\ run' = run]_vars
  BY EveryStepReviews, HeldIsQuiet DEF Quiet
<1> QED BY <1>1, SpecHolds, PTL DEF Spec, OverIsOver

\* A reviewer's approval settles the attempt it read (orchestratorReview).
THEOREM VerdictIsOfItsAttempt == ASSUME OneReviewer PROVE Spec => VerdictOfThisAttempt
<1>1. (Inv /\ ReviewInv) /\ [Next]_vars =>
        [\A v \in reviewing \ reviewing' :
           run.packet[v.packet] = "awaiting-review" /\ run'.packet[v.packet] = "done"
             => v.attempt = run.attempts[v.packet]]_vars
  BY DEF ReviewInv, ReviewsOpen
<1> QED BY <1>1, SpecReviews, PTL DEF Spec, VerdictOfThisAttempt

\* The Agent Manager implements GatedWork: whatever handlers interleave and
\* whenever the process dies, a confirmed plan is worked on in order, each
\* packet is opened only with everything it needs kept, sent back only from an
\* attempt before the MaxTries-th, and closed for good by one decision, which
\* leaves out exactly what needed it.
THEOREM ManagerImplementsGate == ASSUME OneReviewer PROVE Spec => ImplementsGate
<1>1. Init => Gate!GWInit
  BY InitReviews
<1>2. (Inv /\ ReviewInv) /\ [Next]_vars => [Gate!GWNext]_Gate!gwvars
  BY EveryStepReviews, GateStepIsGateStep DEF ReviewStep
<1> QED BY <1>1, <1>2, SpecReviews, PTL DEF Spec, ImplementsGate, Gate!GWSpec

------------------------------------------------------------------------------
(* What it does to the project's files: with one reviewer that never        *)
(* restores an escalated packet, the snapshots of the packets in flight are *)
(* the tree without them, what the evidence names is what the tree holds,   *)
(* and a restore takes away one packet's edits and nobody else's.  The      *)
(* lanes are what makes this inductive.                                     *)

\* A gated worker asks for the human with its edits in place and a rejection
\* then has no snapshot to restore; the autonomy ruling restores a packet
\* that no longer holds its lane; a crash in the middle of a worker leaves its
\* edits behind, and one in the middle of a restore half of them; a worker that
\* ends before its rewrite leaves an edit that no evidence names.
FilesHyp ==
  /\ OneReviewer /\ ~Autonomous /\ CrashAtRest /\ ~LateWrites
  /\ Mode = "gated" => "escalate" \notin Outcomes

------------------------------------------------------------------------------
(* The invariant, for packet q of run r: d is the tree, s and w are the     *)
(* packet's snapshot and worker, undos the restores under way.              *)

Edited == {"running", "awaiting-review", "escalated", "done"}
Live(w) == w \notin {NoWorker, Refused}
Touched(d, q) == {f \in File : \E e \in d[f] : e[1] = q}
Without(d, q, f) == {e \in d[f] : e[1] # q}

\* Every edit on disk is of the packet's last attempt, and in its scope.
EditsPlaced(q, r, d) ==
  \A f \in File : \A e \in d[f] : e[1] = q =>
    e[2] = r.attempts[q] /\ f \in EditScopeOf(r, q) /\ r.packet[q] \in Edited

Baseline(q, r, d, s) ==
  DOMAIN s = EditScopeOf(r, q) /\ \A f \in EditScopeOf(r, q) : s[f] = Without(d, q, f)

\* The snapshot of a packet in flight is the tree without the packet.
SnapRight(q, r, d, s, w) ==
  /\ Live(w) => w = s
  /\ Live(w) \/ r.packet[q] = "awaiting-review" => Baseline(q, r, d, s)

\* A restore writes the snapshot, and has taken the edits out of the files it
\* is through with.
UndoRight(q, r, d, s, undos) ==
  \A u \in undos : u.packet = q =>
    /\ r.packet[q] = "awaiting-review" /\ u.to = s
    /\ \A f \in DOMAIN u.to \ u.left : f \notin Touched(d, q)

NoUndo(q, undos) == \A u \in undos : u.packet # q

\* The evidence names the files that hold the packet's edits.
EvidenceRight(q, r, d, undos) ==
  r.packet[q] \in {"awaiting-review", "escalated", "done"} /\ NoUndo(q, undos)
    => r.changed[q] = Touched(d, q)

\* A packet without a worker never had one.
NeverLaunched(q, r, d, s, w) ==
  /\ w = Refused => q \in Unlaunchable
  /\ q \in Unlaunchable =>
       r.changed[q] = {} /\ Touched(d, q) = {} /\ s = NoSnapshot /\ ~Live(w)

EscalatedClean(q, r, d, s) ==
  Mode = "gated" /\ r.packet[q] = "escalated" => s = NoSnapshot /\ Touched(d, q) = {}

FilesOf(q, r, d, s, w, undos) ==
  /\ EditsPlaced(q, r, d) /\ SnapRight(q, r, d, s, w) /\ UndoRight(q, r, d, s, undos)
  /\ EvidenceRight(q, r, d, undos) /\ NeverLaunched(q, r, d, s, w)
  /\ EscalatedClean(q, r, d, s)

FilesInv == \A q \in Packet : FilesOf(q, run, disk, snap[q], worker[q], undoing)

------------------------------------------------------------------------------
(* The tree before and after, as far as one packet can tell.                *)

SameEdits(q, d0, d1) == \A f \in File : \A e : e[1] = q => (e \in d1[f] <=> e \in d0[f])
SameUndos(q, us0, us1) == \A u : u.packet = q => (u \in us1 <=> u \in us0)
SameRecord(q, r0, r1) ==
  /\ r1.packet[q] = r0.packet[q] /\ r1.attempts[q] = r0.attempts[q]
  /\ r1.changed[q] = r0.changed[q] /\ EditScopeOf(r1, q) = EditScopeOf(r0, q)

\* Equal edits touch the same files.
LEMMA SameTouched ==
  ASSUME NEW q, NEW d0, NEW d1, SameEdits(q, d0, d1)
  PROVE  Touched(d1, q) = Touched(d0, q)
BY DEF SameEdits, Touched

\* A packet that waits has no edit on disk.
LEMMA WaitingIsClean ==
  ASSUME NEW q, NEW r, NEW d, EditsPlaced(q, r, d), r.packet[q] \notin Edited
  PROVE  Touched(d, q) = {}
BY DEF EditsPlaced, Touched

\* A packet nobody dealt with, while its files were left alone.
LEMMA FilesStay ==
  ASSUME NEW q, NEW r0, NEW r1, NEW d0, NEW d1, NEW s, NEW w, NEW us0, NEW us1,
         FilesOf(q, r0, d0, s, w, us0), SameRecord(q, r0, r1), SameEdits(q, d0, d1),
         SameUndos(q, us0, us1), EditScopeOf(r0, q) \subseteq File,
         Live(w) \/ r0.packet[q] = "awaiting-review" =>
           \A f \in EditScopeOf(r0, q) : Without(d1, q, f) = Without(d0, q, f)
  PROVE  FilesOf(q, r1, d1, s, w, us1)
<1>1. Touched(d1, q) = Touched(d0, q)
  BY SameTouched
<1>2. EditsPlaced(q, r1, d1)
  BY DEF FilesOf, EditsPlaced, SameRecord, SameEdits
<1>3. SnapRight(q, r1, d1, s, w)
  BY DEF FilesOf, SnapRight, Baseline, SameRecord
<1>4. UndoRight(q, r1, d1, s, us1)
  BY <1>1 DEF FilesOf, UndoRight, SameRecord, SameUndos
<1>5. EvidenceRight(q, r1, d1, us1)
  BY <1>1 DEF FilesOf, EvidenceRight, NoUndo, SameRecord, SameUndos
<1>6. NeverLaunched(q, r1, d1, s, w) /\ EscalatedClean(q, r1, d1, s)
  BY <1>1 DEF FilesOf, NeverLaunched, EscalatedClean, SameRecord
<1> QED BY <1>2, <1>3, <1>4, <1>5, <1>6 DEF FilesOf

\* A packet that is started: its baseline is the tree it finds.
LEMMA FilesOpen ==
  ASSUME NEW q \in Packet, NEW r0, NEW r1, NEW d0 \in [File -> Content], NEW d1,
         NEW s0, NEW w0, NEW s1, NEW w1, NEW us0, NEW us1,
         FilesOf(q, r0, d0, s0, w0, us0), r0.packet[q] = "pending",
         r1.packet[q] = "running", r1.changed[q] = r0.changed[q],
         SameEdits(q, d0, d1), NoUndo(q, us1),
         \A f \in EditScopeOf(r1, q) : d1[f] = d0[f],
         IF q \in Unlaunchable THEN w1 = Refused /\ s1 = s0
         ELSE w1 = s1 /\ s1 = [f \in EditScopeOf(r1, q) |-> d0[f]]
  PROVE  FilesOf(q, r1, d1, s1, w1, us1)
<1>0. EditScopeOf(r1, q) \subseteq File
  BY ScopeAssumption DEF EditScopeOf
<1>1. Touched(d0, q) = {} /\ Touched(d1, q) = {}
  BY WaitingIsClean, SameTouched DEF FilesOf, Edited
<1>2. \A f \in EditScopeOf(r1, q) : Without(d1, q, f) = d0[f]
  BY <1>0, <1>1 DEF Touched, Without
<1>3. EditsPlaced(q, r1, d1)
  BY <1>1 DEF EditsPlaced, Touched
<1>4. UndoRight(q, r1, d1, s1, us1) /\ EvidenceRight(q, r1, d1, us1)
      /\ EscalatedClean(q, r1, d1, s1)
  BY DEF UndoRight, EvidenceRight, EscalatedClean, NoUndo
<1>5. CASE q \in Unlaunchable
  BY <1>1, <1>3, <1>4, <1>5 DEF FilesOf, SnapRight, NeverLaunched, Live
<1>6. CASE q \notin Unlaunchable
  <2>1. IsBaseline(s1)
    BY <1>0, <1>6 DEF IsBaseline
  <2>2. w1 # Refused
    BY <1>6, <2>1, AbsenceAssumption DEF IsBaseline
  <2>3. SnapRight(q, r1, d1, s1, w1)
    BY <1>2, <1>6 DEF SnapRight, Baseline
  <2> QED BY <1>3, <1>4, <1>6, <2>2, <2>3 DEF FilesOf, NeverLaunched
<1> QED BY <1>5, <1>6

\* A packet that is closed or sent back with none of its edits on disk.
LEMMA FilesClean ==
  ASSUME NEW q, NEW r, NEW d, NEW us, Touched(d, q) = {}, NoUndo(q, us),
         NEW s, s = NoSnapshot \/ q \notin Unlaunchable, r.packet[q] \notin Edited,
         q \in Unlaunchable => r.changed[q] = {}
  PROVE  FilesOf(q, r, d, s, NoWorker, us)
<1>1. EditsPlaced(q, r, d)
  BY DEF EditsPlaced, Touched
<1> QED BY <1>1, AbsenceAssumption DEF FilesOf, SnapRight, UndoRight, EvidenceRight, NoUndo,
           NeverLaunched, EscalatedClean, Live, Edited

------------------------------------------------------------------------------
(* The steps on the state.                                                  *)

\* What a packet's session and snapshot are after it was, or was not, started.
Shown(q) ==
  IF run'.attempts[q] # run.attempts[q]
  THEN IF q \in Unlaunchable THEN worker'[q] = Refused /\ snap'[q] = snap[q]
       ELSE worker'[q] = snap'[q] /\ snap'[q] = [f \in EditScopeOf(run', q) |-> disk[f]]
  ELSE snap'[q] = snap[q] /\ worker'[q] = worker[q]

\* Launching packets shows each of the others as it should.
LEMMA BecomeShows ==
  ASSUME NEW r, NEW snaps, NEW workers, Become(run, r, snaps, workers)
  PROVE  /\ run' = r
         /\ \A q \in Packet :
              snaps[q] = snap[q] /\ workers[q] = worker[q] => Shown(q)
         /\ \A q \in Packet : run'.attempts[q] = run.attempts[q] =>
              snap'[q] = snaps[q] /\ worker'[q] = workers[q]
         /\ \A q \in Packet : run'.attempts[q] # run.attempts[q] =>
              IF q \in Unlaunchable THEN worker'[q] = Refused /\ snap'[q] = snaps[q]
              ELSE worker'[q] = snap'[q] /\ snap'[q] = [f \in EditScopeOf(r, q) |-> disk[f]]
<1>1. /\ run' = r
      /\ \A q \in Packet : q \in Launched(run, r) <=> r.attempts[q] # run.attempts[q]
      /\ \A q \in Packet : snap'[q] = IF q \in Launched(run, r) \ Unlaunchable
                                      THEN SnapshotPacketFiles(r, q) ELSE snaps[q]
      /\ \A q \in Packet : worker'[q] = IF q \in Launched(run, r)
                                        THEN IF q \in Unlaunchable THEN Refused
                                             ELSE SnapshotPacketFiles(r, q)
                                        ELSE workers[q]
  BY DEF Become, Launched
<1> QED BY <1>1 DEF Shown, SnapshotPacketFiles

\* What the step does to the tree and the restores, as far as q can tell.
Aside(q) ==
  /\ run'.changed[q] = run.changed[q]
  /\ SameEdits(q, disk, disk') /\ SameUndos(q, undoing, undoing')
  /\ q \in InFlight(run') => \A f \in EditScopeOf(run', q) : disk'[f] = disk[f]

\* A packet that is left alone, started or skipped.
LEMMA OtherFiles ==
  ASSUME Inv, ReviewInv, FilesInv, Good(run'), Frame(run, run'), NEW q \in Packet,
         SamePacket(run, run', q) \/ Opened(run, run', q) \/ LeftOut(run, run', q),
         Shown(q), Aside(q)
  PROVE  FilesOf(q, run', disk', snap'[q], worker'[q], undoing')
<1>0. /\ FilesOf(q, run, disk, snap[q], worker[q], undoing)
      /\ run.attempts[q] \in Nat /\ disk \in [File -> Content]
      /\ EditScopeOf(run', q) = EditScopeOf(run, q) /\ EditScopeOf(run, q) \subseteq File
  BY InvFacts, SamePlanSamePackets, ScopeAssumption
     DEF FilesInv, Good, Run, TypeOK, Frame, EditScopeOf
<1>1. CASE SamePacket(run, run', q)
  <2>1. SameRecord(q, run, run') /\ snap'[q] = snap[q] /\ worker'[q] = worker[q]
    BY <1>0, <1>1 DEF SameRecord, SamePacket, Aside, Shown
  <2>2. Live(worker[q]) \/ run.packet[q] = "awaiting-review" => q \in InFlight(run')
    <3>1. Live(worker[q]) => run.packet[q] = "running"
      BY DEF Live, ReviewInv, WorkersRun
    <3>2. run.packet[q] \in {"running", "awaiting-review"} => q \in InRun(run')
      BY <1>1 DEF SamePacket, Good, Sound, UntouchedIn
    <3> QED BY <1>1, <3>1, <3>2 DEF InFlight, SamePacket
  <2>3. Live(worker[q]) \/ run.packet[q] = "awaiting-review" =>
          \A f \in EditScopeOf(run, q) : Without(disk', q, f) = Without(disk, q, f)
    BY <1>0, <2>2 DEF Aside, Without
  <2> QED BY <1>0, <2>1, <2>3, FilesStay DEF Aside
<1>2. CASE Opened(run, run', q)
  <2>1. NoUndo(q, undoing')
    BY <1>0, <1>2 DEF Opened, Aside, SameUndos, FilesOf, UndoRight, NoUndo
  <2>2. q \in InFlight(run')
    BY <1>2 DEF Opened, InFlight, Good, Sound, UntouchedIn
  <2>3. run'.attempts[q] # run.attempts[q]
    BY <1>0, <1>2 DEF Opened
  <2> QED BY <1>0, <1>2, <2>1, <2>2, <2>3, FilesOpen DEF Opened, Aside, Shown
<1>3. CASE LeftOut(run, run', q)
  <2>1. NoUndo(q, undoing')
    BY <1>0, <1>3 DEF LeftOut, Aside, SameUndos, FilesOf, UndoRight, NoUndo
  <2>2. worker'[q] = NoWorker /\ snap'[q] = snap[q]
    BY <1>3 DEF LeftOut, Shown, ReviewInv, WorkersRun
  <2>3. Touched(disk', q) = {}
    BY <1>0, <1>3, WaitingIsClean, SameTouched DEF LeftOut, FilesOf, Edited, Aside
  <2> QED BY <1>0, <1>3, <2>1, <2>2, <2>3, FilesClean
          DEF LeftOut, FilesOf, NeverLaunched, Aside, Edited
<1> QED BY <1>1, <1>2, <1>3

\* The restores of other packets than p go on as they were.
OtherUndos(p) == \A u : u.packet # p => (u \in undoing' <=> u \in undoing)

\* commitWorkRun and advanceWorkRun of a handler that dealt with p.
LEMMA CommitFiles ==
  ASSUME Inv, ReviewInv, FilesInv, NEW p \in Packet, Good(run'), Turned(run, run', p),
         NEW r, Good(r), Frame(run, r), r.attempts[p] = run.attempts[p],
         \A q \in Packet \ {p} : r.changed[q] = run.changed[q],
         NEW snaps, NEW workers, HandedOver(p, snaps, workers),
         CommitAndAdvance(run, r, snaps, workers), disk' = disk,
         OtherUndos(p), NoUndo(p, undoing'),
         FilesOf(p, r, disk, snaps[p], NoWorker, undoing')
  PROVE  FilesInv'
<1>0. Become(run, Advance(r), snaps, workers) /\ r \in Run /\ run \in Run
  BY InvFacts DEF CommitAndAdvance, Good
<1>1. /\ run' = Advance(r) /\ run'.changed = r.changed /\ Frame(r, run')
      /\ SamePacket(r, run', p) \/ Opened(r, run', p)
  BY <1>0, AdvanceTurn, BecomeShows
<1>2. ASSUME NEW q \in Packet \ {p}
      PROVE  FilesOf(q, run', disk', snap'[q], worker'[q], undoing')
  <2>1. Shown(q)
    BY <1>0, BecomeShows DEF HandedOver
  <2>2. Aside(q)
    BY <1>1 DEF Aside, SameEdits, SameUndos, OtherUndos
  <2> QED BY <2>1, <2>2, OtherFiles DEF Turned, Others
<1>3. /\ EditScopeOf(run', p) = EditScopeOf(r, p) /\ EditScopeOf(r, p) \subseteq File
      /\ disk \in [File -> Content] /\ r.attempts[p] \in Nat
  BY <1>0, <1>1, InvFacts, SamePlanSamePackets, ScopeAssumption DEF Frame, EditScopeOf, TypeOK, Run
<1>4. CASE SamePacket(r, run', p)
  <2>1. SameRecord(p, r, run')
    BY <1>1, <1>3, <1>4 DEF SameRecord, SamePacket
  <2>2. snap'[p] = snaps[p] /\ worker'[p] = NoWorker
    BY <1>0, <1>1, <1>4, BecomeShows DEF SamePacket, HandedOver
  <2> QED BY <1>2, <1>3, <2>1, <2>2, FilesStay DEF FilesInv, SameEdits, SameUndos
<1>5. CASE Opened(r, run', p)
  <2>1. run'.attempts[p] # run.attempts[p]
    BY <1>3, <1>5 DEF Opened
  <2>2. IF p \in Unlaunchable THEN worker'[p] = Refused /\ snap'[p] = snaps[p]
        ELSE worker'[p] = snap'[p] /\ snap'[p] = [f \in EditScopeOf(run', p) |-> disk[f]]
    BY <1>0, <1>1, <2>1, BecomeShows
  <2>3. FilesOf(p, run', disk', snap'[p], worker'[p], undoing')
    BY <1>1, <1>3, <1>5, <2>2, FilesOpen DEF Opened, SameEdits
  <2> QED BY <1>2, <2>3 DEF FilesInv
<1> QED BY <1>1, <1>4, <1>5

------------------------------------------------------------------------------
(* The handlers' parts.                                                     *)

\* A run made by a handler that has not yet decided about p, and p's files.
HandFiles(p, r, s) ==
  /\ Good(r) /\ Frame(run, r) /\ r.attempts[p] = run.attempts[p]
  /\ \A q \in Packet \ {p} : r.changed[q] = run.changed[q]
  /\ FilesOf(p, r, disk, s, NoWorker, undoing) /\ NoUndo(p, undoing)

StepOf(p) == Good(run') /\ Turned(run, run', p)

\* A decision changes neither the tree nor the evidence.
LEMMA DecidedFiles ==
  ASSUME NEW p \in Packet, NEW r, NEW s, HandFiles(p, r, s), NEW next \in Decision,
         Legal(r, p, next), NEW x, x = SetPacketStatus(r, p, next)
  PROVE  /\ Good(x) /\ Frame(run, x) /\ x.attempts = r.attempts /\ x.packet[p] = next
         /\ x.changed = r.changed /\ EditScopeOf(x, p) = EditScopeOf(r, p)
         /\ \A q \in Packet \ {p} : x.changed[q] = run.changed[q]
<1>1. r \in Run /\ Good(r) /\ Frame(run, r)
  BY DEF HandFiles, Good
<1>2. /\ x.packet[p] = next /\ x.attempts = r.attempts /\ x.changed = r.changed /\ Frame(r, x)
      /\ Good(x)
  BY <1>1, StatusTurn, StatusFollows
<1>3. Frame(run, x) /\ EditScopeOf(x, p) = EditScopeOf(r, p)
  BY <1>1, <1>2, SamePlanSamePackets DEF Frame, SamePlan
<1> QED BY <1>2, <1>3 DEF HandFiles

\* Approving a packet (applyPacketReview).
LEMMA ApproveFiles ==
  ASSUME Inv, ReviewInv, FilesInv, NEW p \in Packet, StepOf(p),
         NEW r, NEW snaps, NEW workers, HandFiles(p, r, snaps[p]), r.packet[p] \in AtReviewer,
         HandedOver(p, snaps, workers), Approve(p, r, snaps, workers)
  PROVE  FilesInv'
<1> DEFINE x == SetPacketStatus(r, p, "done")
           sn == [snaps EXCEPT ![p] = NoSnapshot]
<1>1. "done" \in Decision /\ Legal(r, p, "done")
  BY DEF Decision, Legal, PacketTransitions, PacketStatus, AtReviewer
<1>2. /\ Good(x) /\ Frame(run, x) /\ x.attempts = r.attempts /\ x.packet[p] = "done"
      /\ x.changed = r.changed /\ EditScopeOf(x, p) = EditScopeOf(r, p)
      /\ \A q \in Packet \ {p} : x.changed[q] = run.changed[q]
  BY <1>1, DecidedFiles
<1>3. CommitAndAdvance(run, x, sn, workers) /\ disk' = disk /\ undoing' = undoing
  BY DEF Approve
<1>4. HandedOver(p, sn, workers) /\ sn[p] = NoSnapshot
  BY DropKeepsSnaps DEF HandedOver, SnapsTyped
<1> HIDE DEF x, sn
<1>5. FilesOf(p, x, disk, NoSnapshot, NoWorker, undoing)
  <2>1. EditsPlaced(p, x, disk)
    BY <1>2 DEF HandFiles, FilesOf, EditsPlaced, Edited
  <2>2. EvidenceRight(p, x, disk, undoing)
    BY <1>2 DEF HandFiles, FilesOf, EvidenceRight, AtReviewer
  <2>3. NeverLaunched(p, x, disk, NoSnapshot, NoWorker)
    BY <1>2 DEF HandFiles, FilesOf, NeverLaunched
  <2> QED BY <1>2, <2>1, <2>2, <2>3
          DEF HandFiles, NoUndo, FilesOf, SnapRight, UndoRight, EscalatedClean, Live
<1> QED BY <1>2, <1>3, <1>4, <1>5, CommitFiles DEF StepOf, HandFiles, OtherUndos

\* Escalating a packet without the autonomy ruling.
LEMMA EscalateFiles ==
  ASSUME Inv, ReviewInv, FilesInv, FilesHyp, NEW p \in Packet, StepOf(p),
         NEW r, NEW snaps, NEW workers, HandFiles(p, r, snaps[p]),
         r.packet[p] \in {"running", "awaiting-review"}, r.changed[p] = Touched(disk, p),
         Mode = "gated" => snaps[p] = NoSnapshot /\ Touched(disk, p) = {},
         HandedOver(p, snaps, workers), NEW c, Escalate(p, r, c, snaps, workers)
  PROVE  FilesInv'
<1> DEFINE x == SetPacketStatus(r, p, "escalated")
<1>1. "escalated" \in Decision /\ Legal(r, p, "escalated")
  BY DEF Decision, Legal, PacketTransitions, PacketStatus
<1>2. /\ Good(x) /\ Frame(run, x) /\ x.attempts = r.attempts /\ x.packet[p] = "escalated"
      /\ x.changed = r.changed /\ EditScopeOf(x, p) = EditScopeOf(r, p)
      /\ \A q \in Packet \ {p} : x.changed[q] = run.changed[q]
  BY <1>1, DecidedFiles
<1>3. CommitAndAdvance(run, x, snaps, workers) /\ disk' = disk /\ undoing' = undoing
  BY DEF Escalate, FilesHyp
<1> HIDE DEF x
<1>5. FilesOf(p, x, disk, snaps[p], NoWorker, undoing)
  <2>1. EditsPlaced(p, x, disk)
    BY <1>2 DEF HandFiles, FilesOf, EditsPlaced, Edited
  <2>2. EvidenceRight(p, x, disk, undoing)
    BY <1>2 DEF EvidenceRight
  <2>3. NeverLaunched(p, x, disk, snaps[p], NoWorker)
    BY <1>2 DEF HandFiles, FilesOf, NeverLaunched
  <2> QED BY <1>2, <2>1, <2>2, <2>3
          DEF HandFiles, NoUndo, FilesOf, SnapRight, UndoRight, EscalatedClean, Live
<1> QED BY <1>2, <1>3, <1>5, CommitFiles DEF StepOf, HandFiles, OtherUndos

\* A packet whose edits are gone is closed or sent back.
LEMMA FlipFiles ==
  ASSUME Inv, ReviewInv, FilesInv, NEW p \in Packet, StepOf(p),
         NEW r \in Run, Good(r), Frame(run, r), r.attempts[p] = run.attempts[p],
         \A q \in Packet \ {p} : r.changed[q] = run.changed[q],
         p \in Unlaunchable => r.changed[p] = {},
         NEW by, by # "autonomy", NEW next \in {"pending", "failed"}, Legal(r, p, next),
         NEW snaps, NEW workers, HandedOver(p, snaps, workers),
         CommitAndAdvance(run, Flip(r, by, p, next), [snaps EXCEPT ![p] = NoSnapshot], workers),
         Touched(disk, p) = {}, disk' = disk, OtherUndos(p), NoUndo(p, undoing')
  PROVE  FilesInv'
<1> DEFINE x == Flip(r, by, p, next)
           sn == [snaps EXCEPT ![p] = NoSnapshot]
<1>1. next \in Decision /\ x = SetPacketStatus(r, p, next)
  BY DEF Decision, Flip
<1>2. /\ Good(x) /\ Frame(r, x) /\ x.attempts = r.attempts /\ x.packet[p] = next
      /\ x.changed = r.changed
  BY <1>1, StatusTurn, StatusFollows
<1>3. CommitAndAdvance(run, x, sn, workers)
  OBVIOUS
<1>4. HandedOver(p, sn, workers) /\ sn[p] = NoSnapshot
  BY DropKeepsSnaps DEF HandedOver, SnapsTyped
<1> HIDE DEF x, sn
<1>5. Frame(run, x)
  BY <1>2 DEF Frame, SamePlan
<1>6. FilesOf(p, x, disk, NoSnapshot, NoWorker, undoing')
  BY <1>2, FilesClean DEF Edited
<1> QED BY <1>2, <1>3, <1>4, <1>5, <1>6, CommitFiles DEF StepOf

\* Two packets in flight: neither changes a file of the other's scope.
LEMMA ScopesApart ==
  ASSUME NEW r, Good(r), NEW p \in Packet, NEW q \in Packet, p # q,
         r.packet[p] = "awaiting-review", q \in InFlight(r)
  PROVE  /\ EditScopeOf(r, p) \cap EditScopeOf(r, q) = {}
         /\ EditScopeOf(r, p) \cap Reads[q] = {}
<1>1. p \in InFlight(r)
  BY DEF Good, Sound, UntouchedIn, InFlight
<1> QED BY <1>1 DEF Good, Sound, LanesDisjointIn, LaneCompatible

\* One file loses p's edits.
LEMMA WrittenBack ==
  ASSUME NEW d0, NEW d1, NEW p, NEW f \in File,
         \A g \in File : d1[g] = IF g = f THEN Without(d0, p, f) ELSE d0[g]
  PROVE  /\ \A q : q # p => SameEdits(q, d0, d1)
         /\ f \notin Touched(d1, p) /\ Touched(d1, p) \subseteq Touched(d0, p)
         /\ \A g \in File : Without(d1, p, g) = Without(d0, p, g) /\ d1[g] \subseteq d0[g]
<1>1. \A e : e \in d1[f] <=> e \in d0[f] /\ e[1] # p
  BY DEF Without
<1>2. \A g \in File : g # f => d1[g] = d0[g]
  OBVIOUS
<1>3. ASSUME NEW q, q # p PROVE SameEdits(q, d0, d1)
  BY <1>1, <1>2, <1>3 DEF SameEdits
<1>4. f \notin Touched(d1, p) /\ Touched(d1, p) \subseteq Touched(d0, p)
  BY <1>1, <1>2 DEF Touched
<1>5. \A g \in File : Without(d1, p, g) = Without(d0, p, g) /\ d1[g] \subseteq d0[g]
  BY <1>1, <1>2 DEF Without
<1> QED BY <1>3, <1>4, <1>5

\* Writing back one file of a packet that waits at its gate.
LEMMA RestoreAside ==
  ASSUME Inv, NEW p \in Packet, NEW r, Good(r), run' = r, r.packet[p] = "awaiting-review",
         NEW s, Baseline(p, r, disk, s), NEW f \in EditScopeOf(r, p),
         disk' = [disk EXCEPT ![f] = s[f]]
  PROVE  /\ \A q \in Packet \ {p} :
              /\ SameEdits(q, disk, disk')
              /\ q \in InFlight(run') => \A g \in EditScopeOf(run', q) : disk'[g] = disk[g]
         /\ f \notin Touched(disk', p) /\ Touched(disk', p) \subseteq Touched(disk, p)
         /\ \A g \in File : Without(disk', p, g) = Without(disk, p, g) /\ disk'[g] \subseteq disk[g]
<1>1. /\ f \in File /\ disk \in [File -> Content] /\ s[f] = Without(disk, p, f)
      /\ EditScopeOf(r, p) \subseteq File
  BY InvFacts, ScopeAssumption DEF TypeOK, EditScopeOf, Baseline
<1>2. \A g \in File : disk'[g] = IF g = f THEN Without(disk, p, f) ELSE disk[g]
  BY <1>1
<1>3. /\ \A q : q # p => SameEdits(q, disk, disk')
      /\ f \notin Touched(disk', p) /\ Touched(disk', p) \subseteq Touched(disk, p)
      /\ \A g \in File : Without(disk', p, g) = Without(disk, p, g) /\ disk'[g] \subseteq disk[g]
  <2>1. ASSUME NEW d1, d1 = disk'
        PROVE  /\ \A q : q # p => SameEdits(q, disk, d1)
               /\ f \notin Touched(d1, p) /\ Touched(d1, p) \subseteq Touched(disk, p)
               /\ \A g \in File : Without(d1, p, g) = Without(disk, p, g) /\ d1[g] \subseteq disk[g]
    <3>1. \A g \in File : d1[g] = IF g = f THEN Without(disk, p, f) ELSE disk[g]
      BY <1>2, <2>1
    <3>2. f \in File
      BY <1>1
    <3> QED BY <3>1, <3>2, WrittenBack
  <2> QED BY <2>1
<1>4. ASSUME NEW q \in Packet \ {p}
      PROVE  /\ SameEdits(q, disk, disk')
             /\ q \in InFlight(run') => \A g \in EditScopeOf(run', q) : disk'[g] = disk[g]
  <2>1. SameEdits(q, disk, disk')
    BY <1>3
  <2>2. ASSUME q \in InFlight(run'), NEW g \in EditScopeOf(run', q)
        PROVE  disk'[g] = disk[g]
    <3>1. g # f /\ g \in File
      BY <2>2, ScopesApart, ScopeAssumption DEF EditScopeOf
    <3> QED BY <1>2, <3>1
  <2> QED BY <2>1, <2>2
<1> QED BY <1>3, <1>4

\* Nothing to restore: none of the packet's edits is on disk.
LEMMA NothingLeft ==
  ASSUME NEW p \in Packet, NEW r, NEW s, NEW w, NEW undos,
         FilesOf(p, r, disk, s, w, undos), r.packet[p] \in AtReviewer,
         Mode = "gated" \/ r.packet[p] = "awaiting-review",
         r.packet[p] = "awaiting-review" => \A f \in DOMAIN s : disk[f] = s[f]
  PROVE  Touched(disk, p) = {}
<1>1. CASE r.packet[p] = "escalated"
  BY <1>1, ModeAssumption DEF FilesOf, EscalatedClean
<1>2. CASE r.packet[p] = "awaiting-review"
  <2>1. \A f \in EditScopeOf(r, p) : disk[f] = Without(disk, p, f)
    BY <1>2 DEF FilesOf, SnapRight, Baseline
  <2> QED BY <2>1 DEF FilesOf, EditsPlaced, Touched, Without
<1> QED BY <1>1, <1>2 DEF AtReviewer

\* Undoing a packet: its files are written back and nobody else's are
\* (applyPacketReview, restorePacketSnapshot).
LEMMA UndoFiles ==
  ASSUME Inv, ReviewInv, FilesInv, NEW p \in Packet, StepOf(p),
         NEW r, NEW snaps, NEW workers, HandFiles(p, r, snaps[p]), r.packet[p] \in AtReviewer,
         Mode = "gated" \/ r.packet[p] = "awaiting-review",
         r.packet[p] = "awaiting-review" => snaps[p] # NoSnapshot,
         NEW by, by # "autonomy", NEW next \in {"pending", "failed"}, Legal(r, p, next),
         HandedOver(p, snaps, workers), NEW c, UndoPacket(by, p, next, r, c, snaps, workers)
  PROVE  FilesInv'
<1>0. FilesOf(p, r, disk, snaps[p], NoWorker, undoing) /\ NoUndo(p, undoing) /\ Good(r) /\ r \in Run
  BY DEF HandFiles, Good
<1>1. CASE NothingToRestore(p, snaps)
  <2>1. /\ CommitAndAdvance(run, Flip(r, by, p, next), [snaps EXCEPT ![p] = NoSnapshot], workers)
        /\ disk' = disk /\ undoing' = undoing
    BY <1>1 DEF UndoPacket
  <2>2. Touched(disk, p) = {}
    BY <1>0, <1>1, NothingLeft DEF NothingToRestore, AtReviewer
  <2> QED BY <1>0, <2>1, <2>2, FlipFiles
          DEF HandFiles, OtherUndos, FilesOf, NeverLaunched
<1>2. CASE ~NothingToRestore(p, snaps)
  <2>1. PICK f \in DOMAIN snaps[p] :
          /\ disk' = [disk EXCEPT ![f] = snaps[p][f]]
          /\ undoing' = undoing \cup {[by |-> by, packet |-> p, next |-> next,
                                      left |-> DOMAIN snaps[p] \ {f}, to |-> snaps[p]]}
          /\ Become(run, r, snaps, workers)
    BY <1>2 DEF UndoPacket
  <2>2. r.packet[p] = "awaiting-review"
    BY <1>0, <1>2 DEF NothingToRestore, FilesOf, EscalatedClean, AtReviewer
  <2>3. Baseline(p, r, disk, snaps[p]) /\ f \in EditScopeOf(r, p)
    BY <1>0, <2>2 DEF FilesOf, SnapRight, Baseline
  <2>4. /\ run' = r /\ snap'[p] = snaps[p] /\ worker'[p] = NoWorker
        /\ \A q \in Packet \ {p} : Shown(q)
    BY <2>1, BecomeShows DEF HandFiles, HandedOver
  <2>5. /\ \A q \in Packet \ {p} :
             /\ SameEdits(q, disk, disk')
             /\ q \in InFlight(run') => \A g \in EditScopeOf(run', q) : disk'[g] = disk[g]
        /\ f \notin Touched(disk', p) /\ Touched(disk', p) \subseteq Touched(disk, p)
        /\ \A g \in File : Without(disk', p, g) = Without(disk, p, g) /\ disk'[g] \subseteq disk[g]
    BY <1>0, <2>1, <2>2, <2>3, <2>4, RestoreAside
  <2> DEFINE u == [by |-> by, packet |-> p, next |-> next,
                   left |-> DOMAIN snaps[p] \ {f}, to |-> snaps[p]]
  <2>6. u.packet = p /\ u.to = snaps[p] /\ u.left = DOMAIN snaps[p] \ {f}
        /\ undoing' = undoing \cup {u}
    BY <2>1
  <2> HIDE DEF u
  <2>7. ASSUME NEW q \in Packet \ {p}
        PROVE  FilesOf(q, run', disk', snap'[q], worker'[q], undoing')
    <3>1. Aside(q)
      BY <2>4, <2>5, <2>6 DEF Aside, SameUndos, HandFiles
    <3>2. SamePacket(run, run', q) \/ Opened(run, run', q) \/ LeftOut(run, run', q)
      BY DEF StepOf, Turned, Others
    <3> QED BY <2>4, <3>1, <3>2, OtherFiles DEF StepOf, Turned
  <2>8. FilesOf(p, r, disk', snaps[p], NoWorker, undoing')
    <3>1. EditsPlaced(p, r, disk')
      BY <1>0, <2>5 DEF FilesOf, EditsPlaced
    <3>2. EditScopeOf(r, p) \subseteq File
      BY ScopeAssumption DEF EditScopeOf
    <3>3. SnapRight(p, r, disk', snaps[p], NoWorker)
      BY <2>3, <2>5, <3>2 DEF SnapRight, Baseline, Live
    <3>4. UndoRight(p, r, disk', snaps[p], undoing')
      BY <1>0, <2>2, <2>5, <2>6 DEF UndoRight, NoUndo
    <3>5. EvidenceRight(p, r, disk', undoing')
      BY <2>6 DEF EvidenceRight, NoUndo
    <3>6. NeverLaunched(p, r, disk', snaps[p], NoWorker)
      BY <1>0, <2>5 DEF FilesOf, NeverLaunched
    <3>7. EscalatedClean(p, r, disk', snaps[p])
      BY <2>2 DEF EscalatedClean
    <3> QED BY <3>1, <3>3, <3>4, <3>5, <3>6, <3>7 DEF FilesOf
  <2> QED BY <2>4, <2>7, <2>8 DEF FilesInv
<1> QED BY <1>1, <1>2

------------------------------------------------------------------------------
(* The actions.                                                             *)

\* What a worker's evidence names is what the tree holds of it
\* (collectPacketDiffs).
LEMMA DiffsAreTouched ==
  ASSUME Inv, FilesInv, NEW p \in Packet, HasSession(p)
  PROVE  Diffs(p) = Touched(disk, p) /\ p \notin Unlaunchable
<1>1. /\ FilesOf(p, run, disk, snap[p], worker[p], undoing) /\ Live(worker[p])
      /\ EditScopeOf(run, p) \subseteq File
  BY ScopeAssumption DEF FilesInv, HasSession, Live, EditScopeOf
<1>2. /\ DOMAIN worker[p] = EditScopeOf(run, p)
      /\ \A f \in EditScopeOf(run, p) : worker[p][f] = Without(disk, p, f)
      /\ p \notin Unlaunchable
  BY <1>1 DEF FilesOf, SnapRight, Baseline, NeverLaunched
<1>3. \A f \in EditScopeOf(run, p) :
        disk[f] # Without(disk, p, f) <=> \E e \in disk[f] : e[1] = p
  BY DEF Without
<1>4. Touched(disk, p) \subseteq EditScopeOf(run, p)
  BY <1>1 DEF FilesOf, EditsPlaced, Touched
<1>5. \A f : f \in Diffs(p) <=> f \in Touched(disk, p)
  BY <1>1, <1>2, <1>3, <1>4 DEF Diffs, Touched
<1> QED BY <1>2, <1>5

\* A worker that ends leaves its edits and its evidence.
LEMMA EndedHandFiles ==
  ASSUME Inv, ReviewInv, FilesInv, NEW p \in Packet, worker[p] # NoWorker,
         NEW r, r = [run EXCEPT !.changed[p] = Touched(disk, p)]
  PROVE  /\ HandFiles(p, r, snap[p]) /\ r.packet = run.packet /\ r.packet[p] = "running"
         /\ r.changed[p] = Touched(disk, p) /\ Frame(run, r) /\ r.attempts = run.attempts
<1>1. /\ FilesOf(p, run, disk, snap[p], worker[p], undoing) /\ run.packet[p] = "running"
      /\ NoUndo(p, undoing) /\ run \in Run /\ Touched(disk, p) \in SUBSET File
  BY AtWork, InvFacts DEF FilesInv, NoUndo, Good, Touched
<1>2. Good(r) /\ r.packet = run.packet
  BY <1>1, InvFacts, EvidenceFollows
<1>3. /\ r.status = run.status /\ r.brief = run.brief /\ r.attempts = run.attempts
      /\ \A q \in Packet : r.changed[q] = IF q = p THEN Touched(disk, p) ELSE run.changed[q]
  BY <1>1 DEF Run
<1>4. Frame(run, r) /\ EditScopeOf(r, p) = EditScopeOf(run, p)
  <2>1. SamePlan(run, r)
    BY <1>3 DEF SamePlan
  <2> QED BY <1>3, <2>1, SamePlanSamePackets DEF Frame
<1>5. FilesOf(p, r, disk, snap[p], NoWorker, undoing)
  BY <1>1, <1>2, <1>3, <1>4, AbsenceAssumption
     DEF FilesOf, EditsPlaced, SnapRight, Live, UndoRight, EvidenceRight,
         NeverLaunched, EscalatedClean
<1> QED BY <1>1, <1>2, <1>3, <1>4, <1>5 DEF HandFiles

\* Every handler that deals with p is a step of it.
LEMMA PacketStepOf ==
  ASSUME Inv, [Next]_vars, NEW p, PacketStep(p)
  PROVE  StepOf(p) /\ Inv'
BY StepInv, InvFacts DEF StepOf, PacketStep, Inv, Good, TypeOK

\* A packet that could not be launched (runOnePacket).
LEMMA RefusedFiles ==
  ASSUME Inv, ReviewInv, FilesInv, FilesHyp, [Next]_vars, NEW p \in Packet, WorkerRefused(p)
  PROVE  FilesInv'
<1>1. /\ StepOf(p) /\ worker[p] # NoWorker /\ HandedOver(p, snap, Ended(p))
      /\ Escalate(p, run, saved, snap, Ended(p))
  BY RefusedIsStep, PacketStepOf, AtWork, AbsenceAssumption DEF WorkerRefused
<1>2. /\ run.changed[p] = {} /\ Touched(disk, p) = {} /\ snap[p] = NoSnapshot
      /\ run \in Run
  BY InvFacts DEF FilesInv, FilesOf, NeverLaunched, WorkerRefused, Good
<1>3. run = [run EXCEPT !.changed[p] = Touched(disk, p)]
  BY <1>2 DEF Run
<1>4. HandFiles(p, run, snap[p]) /\ run.packet[p] = "running"
  BY <1>1, <1>3, EndedHandFiles
<1> QED BY <1>1, <1>2, <1>4, EscalateFiles

\* A worker that asks for the human (runPacketWorker).
LEMMA EscalationFiles ==
  ASSUME Inv, ReviewInv, FilesInv, FilesHyp, [Next]_vars, NEW p \in Packet, WorkerEscalates(p)
  PROVE  FilesInv'
<1> DEFINE r == [run EXCEPT !.changed[p] = Touched(disk, p)]
<1>1. HasSession(p) /\ worker[p] # NoWorker /\ Mode # "gated"
  BY DEF MayEnd, WorkerEscalates, HasSession, FilesHyp
<1>2. StepOf(p) /\ HandedOver(p, snap, Ended(p))
  BY <1>1, EscalationIsStep, PacketStepOf, AtWork
<1>3. Diffs(p) = Touched(disk, p)
  BY <1>1, DiffsAreTouched
<1>4. Escalate(p, r, saved, snap, Ended(p))
  BY <1>3 DEF WorkerEscalates
<1>5. /\ HandFiles(p, r, snap[p]) /\ r.packet[p] = "running"
      /\ r.changed[p] = Touched(disk, p)
  BY <1>1, EndedHandFiles
<1> HIDE DEF r
<1> QED BY <1>1, <1>2, <1>4, <1>5, EscalateFiles

\* A worker that failed before it changed anything (runPacketWorker).
LEMMA IdleDeathFiles ==
  ASSUME Inv, ReviewInv, FilesInv, FilesHyp, [Next]_vars, NEW p \in Packet, WorkerDiesIdle(p)
  PROVE  FilesInv'
<1> DEFINE r == [run EXCEPT !.changed[p] = Touched(disk, p)]
           sn == [snap EXCEPT ![p] = NoSnapshot]
<1>1. HasSession(p) /\ worker[p] # NoWorker
  BY DEF MayEnd, WorkerDiesIdle, HasSession
<1>2. StepOf(p) /\ HandedOver(p, sn, Ended(p)) /\ sn[p] = NoSnapshot
  BY <1>1, IdleDeathIsStep, PacketStepOf, AtWork, InvFacts DEF SnapsTyped
<1>3. Touched(disk, p) = {} /\ p \notin Unlaunchable
  BY <1>1, DiffsAreTouched DEF WorkerDiesIdle
<1>4. Escalate(p, r, saved, sn, Ended(p))
  BY <1>3 DEF WorkerDiesIdle
<1>5. /\ HandFiles(p, r, snap[p]) /\ r.packet[p] = "running"
      /\ r.changed[p] = Touched(disk, p)
  BY <1>1, EndedHandFiles
<1> HIDE DEF r, sn
<1>6. HandFiles(p, r, sn[p])
  BY <1>2, <1>3, <1>5, AbsenceAssumption
     DEF HandFiles, FilesOf, SnapRight, UndoRight, NoUndo, NeverLaunched, EscalatedClean, Live
<1> QED BY <1>2, <1>3, <1>4, <1>5, <1>6, EscalateFiles

\* A report at its gate names what the tree holds, and can be undone.
LEMMA ReportFiles ==
  ASSUME Inv, ReviewInv, FilesInv, NEW p \in Packet, HasSession(p),
         NEW r, r \in {AtReview(p), Advance(AtReview(p))}
  PROVE  /\ HandFiles(p, r, snap[p]) /\ r.packet[p] = "awaiting-review"
         /\ r.changed[p] = Touched(disk, p) /\ snap[p] # NoSnapshot
<1> DEFINE e == [run EXCEPT !.changed[p] = Touched(disk, p)]
           a == AtReview(p)
           b == Advance(AtReview(p))
<1>1. /\ Diffs(p) = Touched(disk, p) /\ p \notin Unlaunchable
      /\ worker[p] # NoWorker /\ snap[p] # NoSnapshot
  BY DiffsAreTouched DEF HasSession, ReviewInv, SnapsKept
<1>2. a = SetPacketStatus(e, p, "awaiting-review")
  BY <1>1 DEF AtReview
<1>3. /\ HandFiles(p, e, snap[p]) /\ e.packet[p] = "running"
      /\ e.changed[p] = Touched(disk, p) /\ Frame(run, e)
  BY <1>1, EndedHandFiles
<1>4. Good(a) /\ Good(b)
  BY AtReviewFollows
<1>5. Baseline(p, run, disk, snap[p])
  BY DEF FilesInv, FilesOf, SnapRight, HasSession, Live
<1> HIDE DEF e, a
<1>6. "awaiting-review" \in Decision /\ Legal(e, p, "awaiting-review")
  BY <1>3 DEF Decision, Legal, PacketTransitions, PacketStatus
<1>7. /\ Frame(run, a) /\ a.attempts = e.attempts /\ a.packet[p] = "awaiting-review"
      /\ a.changed = e.changed /\ EditScopeOf(a, p) = EditScopeOf(e, p)
      /\ \A q \in Packet \ {p} : a.changed[q] = run.changed[q]
  BY <1>2, <1>3, <1>6, DecidedFiles
<1>8. EditScopeOf(e, p) = EditScopeOf(run, p)
  BY <1>3, SamePlanSamePackets DEF Frame
<1>9. FilesOf(p, a, disk, snap[p], NoWorker, undoing)
  <2>1. FilesOf(p, e, disk, snap[p], NoWorker, undoing) /\ NoUndo(p, undoing)
    BY <1>3 DEF HandFiles
  <2>2. EditsPlaced(p, a, disk)
    BY <1>7, <2>1 DEF FilesOf, EditsPlaced, Edited
  <2>3. SnapRight(p, a, disk, snap[p], NoWorker)
    BY <1>5, <1>7, <1>8 DEF SnapRight, Baseline, Live
  <2>4. EvidenceRight(p, a, disk, undoing) /\ NeverLaunched(p, a, disk, snap[p], NoWorker)
    BY <1>1, <1>3, <1>7, AbsenceAssumption DEF EvidenceRight, NeverLaunched
  <2> QED BY <1>7, <2>1, <2>2, <2>3, <2>4
          DEF FilesOf, UndoRight, NoUndo, EscalatedClean
<1>10. HandFiles(p, a, snap[p])
  BY <1>3, <1>4, <1>7, <1>9 DEF HandFiles
<1>11. /\ Frame(a, b) /\ b.changed = a.changed /\ SamePacket(a, b, p)
  BY <1>4, <1>7, AdvanceTurn DEF Opened, a
<1>12. EditScopeOf(b, p) = EditScopeOf(a, p) /\ EditScopeOf(a, p) \subseteq File
  BY <1>11, SamePlanSamePackets, ScopeAssumption DEF Frame, EditScopeOf
<1>13. HandFiles(p, b, snap[p])
  <2>1. SameRecord(p, a, b)
    BY <1>11, <1>12 DEF SameRecord, SamePacket
  <2>2. FilesOf(p, b, disk, snap[p], NoWorker, undoing)
    BY <1>9, <1>12, <2>1, FilesStay DEF SameEdits, SameUndos
  <2>3. Frame(run, b)
    BY <1>7, <1>11 DEF Frame, SamePlan
  <2> QED BY <1>4, <1>10, <1>11, <2>2, <2>3 DEF HandFiles, SamePacket
<1> QED BY <1>1, <1>3, <1>7, <1>10, <1>11, <1>13 DEF SamePacket, a

\* A worker's report on a gated run (runOnePacket).
LEMMA GatedReportFiles ==
  ASSUME Inv, ReviewInv, FilesInv, FilesHyp, [Next]_vars, NEW p \in Packet,
         WorkerReportsGated(p)
  PROVE  FilesInv'
<1> DEFINE r == AtReview(p)
<1>1. HasSession(p) /\ CommitAndAdvance(run, r, snap, Ended(p))
      /\ disk' = disk /\ undoing' = undoing
  BY DEF MayEnd, WorkerReportsGated
<1>2. StepOf(p) /\ HandedOver(p, snap, Ended(p))
  BY <1>1, GatedReportIsStep, PacketStepOf, AtWork DEF HasSession
<1>3. HandFiles(p, r, snap[p])
  BY <1>1, ReportFiles
<1> HIDE DEF r
<1> QED BY <1>1, <1>2, <1>3, CommitFiles DEF StepOf, HandFiles, OtherUndos

\* A worker's report that is put to the model reviewer.
LEMMA AskedFiles ==
  ASSUME Inv, ReviewInv, FilesInv, NEW p \in Packet, StepOf(p),
         NEW r, HandFiles(p, r, snap[p]), HandedOver(p, snap, Ended(p)),
         Become(run, r, snap, Ended(p)), disk' = disk, undoing' = undoing
  PROVE  FilesInv'
<1>1. /\ run' = r /\ snap'[p] = snap[p] /\ worker'[p] = NoWorker
      /\ \A q \in Packet \ {p} : Shown(q)
  BY BecomeShows DEF HandFiles, HandedOver
<1>2. ASSUME NEW q \in Packet \ {p}
      PROVE  FilesOf(q, run', disk', snap'[q], worker'[q], undoing')
  <2>1. Aside(q)
    BY <1>1 DEF Aside, SameEdits, SameUndos, HandFiles
  <2>2. SamePacket(run, run', q) \/ Opened(run, run', q) \/ LeftOut(run, run', q)
    BY DEF StepOf, Turned, Others
  <2> QED BY <1>1, <2>1, <2>2, OtherFiles DEF StepOf, Turned
<1> QED BY <1>1, <1>2 DEF FilesInv, HandFiles

\* A worker's report on an orchestrated run, with its pre-checks
\* (runOnePacket, orchestratorReview).
LEMMA OrchestratedReportFiles ==
  ASSUME Inv, ReviewInv, FilesInv, FilesHyp, [Next]_vars, NEW p \in Packet,
         NEW died \in BOOLEAN, NEW decision \in PreChecks,
         WorkerReportsOrchestrated(p, died, decision)
  PROVE  FilesInv'
<1> DEFINE r == Advance(AtReview(p))
           next == AfterRejection(r, p)
<1>1. HasSession(p) /\ worker[p] # NoWorker /\ Mode # "gated"
  BY DEF MayEnd, WorkerReportsOrchestrated, HasSession
<1>2. StepOf(p) /\ HandedOver(p, snap, Ended(p))
  BY <1>1, OrchestratedReportIsStep, PacketStepOf, AtWork
<1>3. /\ HandFiles(p, r, snap[p]) /\ r.packet[p] = "awaiting-review"
      /\ r.changed[p] = Touched(disk, p) /\ snap[p] # NoSnapshot
  BY <1>1, ReportFiles
<1>4. \/ Approve(p, r, snap, Ended(p))
      \/ UndoPacket("orchestrator", p, next, r, r, snap, Ended(p))
      \/ Escalate(p, r, r, snap, Ended(p))
      \/ Become(run, r, snap, Ended(p)) /\ disk' = disk /\ undoing' = undoing
  BY DEF WorkerReportsOrchestrated
<1>5. next \in {"pending", "failed"} /\ Legal(r, p, next)
  BY <1>3, RejectionIsLegal DEF AtReviewer
<1> HIDE DEF r, next
<1>6. r.packet[p] \in AtReviewer
  BY <1>3 DEF AtReviewer
<1>7. CASE Approve(p, r, snap, Ended(p))
  BY <1>2, <1>3, <1>6, <1>7, ApproveFiles
<1>8. CASE UndoPacket("orchestrator", p, next, r, r, snap, Ended(p))
  BY <1>2, <1>3, <1>5, <1>6, <1>8, UndoFiles
<1>9. CASE Escalate(p, r, r, snap, Ended(p))
  BY <1>1, <1>2, <1>3, <1>9, EscalateFiles
<1>10. CASE Become(run, r, snap, Ended(p)) /\ disk' = disk /\ undoing' = undoing
  BY <1>2, <1>3, <1>10, AskedFiles
<1> QED BY <1>4, <1>7, <1>8, <1>9, <1>10

\* A packet that waits for its reviewer and that nobody restores.
LEMMA GateHandFiles ==
  ASSUME Inv, ReviewInv, FilesInv, CrashAtRest, NEW p \in Packet, run.packet[p] \in AtReviewer,
         NoUndo(p, undoing)
  PROVE  /\ HandFiles(p, run, snap[p]) /\ HandedOver(p, snap, worker)
         /\ run.changed[p] = Touched(disk, p)
         /\ run.packet[p] = "awaiting-review" => snap[p] # NoSnapshot
<1>1. /\ worker[p] = NoWorker /\ HandedOver(p, snap, worker) /\ AtHand(p, run)
      /\ run.packet[p] = "awaiting-review" => snap[p] # NoSnapshot
  BY AtGate DEF ReviewInv, NoneTorn, Whole
<1>2. FilesOf(p, run, disk, snap[p], NoWorker, undoing)
  BY <1>1 DEF FilesInv
<1> QED BY <1>1, <1>2 DEF HandFiles, AtHand, FilesOf, EvidenceRight, AtReviewer

\* The model reviewer's answer (orchestratorReview after its await).
LEMMA AnswerFiles ==
  ASSUME Inv, ReviewInv, FilesInv, FilesHyp, [Next]_vars,
         NEW v \in reviewing, NEW verdict \in Verdicts, ReviewerAnswers(v, verdict)
  PROVE  FilesInv'
<1> DEFINE p == v.packet
           next == AfterRejection(run, p)
<1>1. /\ p \in Packet /\ Mode = "orchestrated" /\ run.packet[p] = "awaiting-review"
      /\ NoUndo(p, undoing)
  BY InvFacts DEF TypeOK, ReviewInv, ReviewsOpen, UndosOpen, NoUndo
<1>2. StepOf(p)
  BY <1>1, AnswerIsStep, PacketStepOf
<1>3. \/ Approve(p, run, snap, worker)
      \/ UndoPacket("orchestrator", p, next, run, saved, snap, worker)
      \/ Escalate(p, run, saved, snap, worker)
      \/ UNCHANGED <<run, disk, snap, worker, undoing>>
  BY <1>1 DEF ReviewerAnswers
<1> HIDE DEF p
<1>4. run.packet[p] \in AtReviewer /\ Mode # "gated"
  BY <1>1 DEF AtReviewer
<1>5. /\ HandFiles(p, run, snap[p]) /\ HandedOver(p, snap, worker)
      /\ run.changed[p] = Touched(disk, p) /\ snap[p] # NoSnapshot
  BY <1>1, <1>4, GateHandFiles DEF FilesHyp
<1>6. next \in {"pending", "failed"} /\ Legal(run, p, next)
  BY <1>1, <1>4, RejectionIsLegal
<1> HIDE DEF next
<1>7. CASE Approve(p, run, snap, worker)
  BY <1>1, <1>2, <1>4, <1>5, <1>7, ApproveFiles
<1>8. CASE UndoPacket("orchestrator", p, next, run, saved, snap, worker)
  BY <1>1, <1>2, <1>4, <1>5, <1>6, <1>8, UndoFiles
<1>9. CASE Escalate(p, run, saved, snap, worker)
  BY <1>1, <1>2, <1>4, <1>5, <1>9, EscalateFiles
<1>10. CASE UNCHANGED <<run, disk, snap, worker, undoing>>
  BY <1>10 DEF FilesInv
<1> QED BY <1>3, <1>7, <1>8, <1>9, <1>10

\* The end of a restore: every file of the packet has been written back.
LEMMA FinishFiles ==
  ASSUME Inv, ReviewInv, FilesInv, [Next]_vars, NEW u \in undoing, FinishUndo(u)
  PROVE  FilesInv'
<1> DEFINE p == u.packet
<1>1. /\ p \in Packet /\ u.next \in {"pending", "failed"} /\ UndoOpen(u)
      /\ \A w \in undoing : w.packet = p => w = u
  BY InvFacts DEF UndosTyped, ReviewInv, UndosOpen
<1>2. FilesOf(p, run, disk, snap[p], worker[p], undoing)
  BY <1>1 DEF FilesInv
<1>3. /\ run.packet[p] = "awaiting-review" /\ u.to = snap[p]
      /\ \A f \in DOMAIN u.to : f \notin Touched(disk, p)
  BY <1>2 DEF FilesOf, UndoRight, FinishUndo
<1>4. /\ CommitAndAdvance(run, Flip(run, u.by, p, u.next), [snap EXCEPT ![p] = NoSnapshot], worker)
      /\ disk' = disk /\ undoing' = undoing \ {u}
  BY <1>1 DEF FinishUndo, UndoOpen
<1>5. StepOf(p) /\ u.by # "autonomy" /\ Legal(run, p, u.next)
  BY <1>1, <1>3, FinishIsStep, PacketStepOf DEF UndoOpen
<1>6. OtherUndos(p) /\ NoUndo(p, undoing')
  BY <1>1, <1>4 DEF OtherUndos, NoUndo
<1> HIDE DEF p
<1>7. HandedOver(p, snap, worker) /\ Good(run) /\ run \in Run /\ Frame(run, run)
  BY <1>1, <1>3, AtGate, InvFacts DEF AtReviewer, AtHand, Good
<1>8. Touched(disk, p) = {}
  <2>1. DOMAIN u.to = EditScopeOf(run, p)
    BY <1>2, <1>3 DEF FilesOf, SnapRight, Baseline
  <2> QED BY <1>2, <1>3, <2>1 DEF FilesOf, EditsPlaced, Touched
<1>9. p \in Unlaunchable => run.changed[p] = {}
  BY <1>2 DEF FilesOf, NeverLaunched
<1> QED BY <1>1, <1>4, <1>5, <1>6, <1>7, <1>8, <1>9, FlipFiles

\* The two buttons (handleWorkRunReview).
LEMMA ButtonFiles ==
  ASSUME Inv, ReviewInv, FilesInv, FilesHyp, [Next]_vars,
         NEW c \in Clients, NEW p \in Packet, HumanApproves(c, p) \/ HumanRejects(c, p)
  PROVE  FilesInv'
<1> DEFINE next == AfterRejection(run, p)
<1>1. OneReviewer /\ ButtonsShown(c, p) /\ reviewing' = reviewing
  BY DEF HumanApproves, HumanRejects, FilesHyp
<1>2. run.packet[p] \in AtReviewer /\ Mode = "gated" /\ NoUndo(p, undoing)
  BY <1>1, ButtonsAreFree DEF NothingElse, NoUndo
<1>3. StepOf(p)
  BY <1>1, ApprovalIsStep, RejectionIsStep, PacketStepOf
<1>4. /\ HandFiles(p, run, snap[p]) /\ HandedOver(p, snap, worker)
      /\ run.packet[p] = "awaiting-review" => snap[p] # NoSnapshot
  BY <1>2, GateHandFiles DEF FilesHyp
<1>5. next \in {"pending", "failed"} /\ Legal(run, p, next) /\ c # "autonomy"
  BY <1>2, RejectionIsLegal, EnvironmentAssumption
<1>6. Approve(p, run, snap, worker) \/ UndoPacket(c, p, next, run, saved, snap, worker)
  BY DEF HumanApproves, HumanRejects
<1> HIDE DEF next
<1>7. CASE Approve(p, run, snap, worker)
  BY <1>2, <1>3, <1>4, <1>7, ApproveFiles
<1>8. CASE UndoPacket(c, p, next, run, saved, snap, worker)
  BY <1>2, <1>3, <1>4, <1>5, <1>8, UndoFiles
<1> QED BY <1>6, <1>7, <1>8

\* One more file of a restore (restorePacketSnapshot).
LEMMA RestoreFileFiles ==
  ASSUME Inv, ReviewInv, FilesInv, [Next]_vars,
         NEW u \in undoing, NEW f \in u.left, RestoreFile(u, f)
  PROVE  FilesInv'
<1> DEFINE p == u.packet
           w == [u EXCEPT !.left = u.left \ {f}]
<1>1. /\ p \in Packet /\ f \in DOMAIN u.to
      /\ w.packet = p /\ w.to = u.to /\ w.left = u.left \ {f}
      /\ undoing' = (undoing \ {u}) \cup {w}
  BY InvFacts DEF UndosTyped, RestoreFile
<1>2. FilesOf(p, run, disk, snap[p], worker[p], undoing)
  BY <1>1 DEF FilesInv
<1>3. /\ run.packet[p] = "awaiting-review" /\ u.to = snap[p]
      /\ \A g \in DOMAIN u.to \ u.left : g \notin Touched(disk, p)
  BY <1>2 DEF FilesOf, UndoRight
<1>4. Baseline(p, run, disk, snap[p]) /\ worker[p] = NoWorker
  BY <1>1, <1>2, <1>3 DEF FilesOf, SnapRight, ReviewInv, WorkersRun
<1>5. /\ run' = run /\ snap' = snap /\ worker' = worker
      /\ disk' = [disk EXCEPT ![f] = snap[p][f]]
  BY <1>3 DEF RestoreFile
<1> HIDE DEF p, w
<1>6. f \in EditScopeOf(run, p) /\ Good(run)
  BY <1>1, <1>3, <1>4, InvFacts DEF Baseline
<1>7. /\ \A q \in Packet \ {p} :
           /\ SameEdits(q, disk, disk')
           /\ q \in InFlight(run') => \A g \in EditScopeOf(run', q) : disk'[g] = disk[g]
      /\ f \notin Touched(disk', p) /\ Touched(disk', p) \subseteq Touched(disk, p)
      /\ \A g \in File : Without(disk', p, g) = Without(disk, p, g) /\ disk'[g] \subseteq disk[g]
  BY <1>1, <1>3, <1>4, <1>5, <1>6, RestoreAside
<1>8. ASSUME NEW q \in Packet \ {p}
      PROVE  FilesOf(q, run', disk', snap'[q], worker'[q], undoing')
  <2>1. Aside(q)
    BY <1>1, <1>5, <1>7 DEF Aside, SameUndos, p
  <2>2. SamePacket(run, run', q) /\ Shown(q) /\ Frame(run, run')
    BY <1>5 DEF SamePacket, Shown, Frame, SamePlan
  <2> QED BY <1>5, <1>6, <2>1, <2>2, OtherFiles
<1>9. FilesOf(p, run, disk', snap[p], worker[p], undoing')
  <2>1. EditsPlaced(p, run, disk') /\ NeverLaunched(p, run, disk', snap[p], worker[p])
    BY <1>2, <1>7 DEF FilesOf, EditsPlaced, NeverLaunched
  <2>2. EditScopeOf(run, p) \subseteq File
    BY <1>1, ScopeAssumption DEF EditScopeOf
  <2>3. SnapRight(p, run, disk', snap[p], worker[p])
    BY <1>4, <1>7, <2>2 DEF SnapRight, Baseline, Live
  <2>4. UndoRight(p, run, disk', snap[p], undoing')
    BY <1>1, <1>2, <1>3, <1>7 DEF FilesOf, UndoRight, p
  <2>5. EvidenceRight(p, run, disk', undoing')
    BY <1>1 DEF EvidenceRight, NoUndo
  <2>6. EscalatedClean(p, run, disk', snap[p])
    BY <1>3 DEF EscalatedClean
  <2> QED BY <2>1, <2>3, <2>4, <2>5, <2>6 DEF FilesOf
<1> QED BY <1>5, <1>8, <1>9 DEF FilesInv

\* The rewrite of a live worker's edit (rewriteAndValidate).
LEMMA EditFiles ==
  ASSUME Inv, ReviewInv, FilesInv, FilesHyp, RewritesInv,
         NEW held \in rewriting, EditLands(held)
  PROVE  FilesInv'
<1> DEFINE p == held.packet
           f == held.file
           e == <<p, held.attempt>>
<1>1. /\ p \in Packet /\ f \in File /\ RewriteHeld(held)
      /\ run.packet[p] = "running" /\ f \in EditScopeOf(run, p) /\ Live(worker[p])
      /\ UNCHANGED <<run, snap, worker, undoing>> /\ Good(run)
      /\ disk \in [File -> Content] /\ disk' = [disk EXCEPT ![f] = @ \cup {e}]
      /\ FilesOf(p, run, disk, snap[p], worker[p], undoing)
  <2>1. p \in Packet /\ f \in File /\ RewriteHeld(held)
    BY InvFacts DEF TypeOK, RewritesInv, FilesHyp
  <2>2. run.packet[p] = "running"
    BY <2>1 DEF RewriteHeld, HasSession, ReviewInv, WorkersRun
  <2> QED BY <2>1, <2>2, InvFacts DEF EditLands, RewriteHeld, HasSession, Live, FilesInv, TypeOK
<1>2. e[1] = p /\ e[2] = run.attempts[p]
  BY <1>1 DEF RewriteHeld
<1> HIDE DEF p, f
<1> HIDE DEF e
<1>3. \A g \in File : disk'[g] = IF g = f THEN disk[g] \cup {e} ELSE disk[g]
  BY <1>1
<1>4. ASSUME NEW d1, d1 = disk', NEW q \in Packet \ {p}
      PROVE  FilesOf(q, run, d1, snap[q], worker[q], undoing)
  <2>1. SameEdits(q, disk, d1)
    <3>1. \A g \in File : d1[g] = IF g = f THEN disk[g] \cup {e} ELSE disk[g]
      BY <1>3, <1>4
    <3>2. ASSUME NEW g \in File, NEW x, x[1] = q PROVE x \in d1[g] <=> x \in disk[g]
      <4>1. x # e
        BY <1>2, <3>2
      <4> QED BY <3>1, <4>1
    <3> QED BY <3>2 DEF SameEdits
  <2>2. q \in InFlight(run) => f \notin EditScopeOf(run, q)
    <3>1. p \in InFlight(run)
      BY <1>1 DEF Good, Sound, UntouchedIn, InFlight
    <3> QED BY <1>1, <3>1 DEF Good, Sound, LanesDisjointIn, LaneCompatible
  <2>3. Live(worker[q]) \/ run.packet[q] = "awaiting-review" => q \in InFlight(run)
    <3>1. Live(worker[q]) => run.packet[q] = "running"
      BY DEF Live, ReviewInv, WorkersRun
    <3> QED BY <1>1, <3>1 DEF InFlight, Good, Sound, UntouchedIn
  <2>4. EditScopeOf(run, q) \subseteq File
    BY ScopeAssumption DEF EditScopeOf
  <2>5. Live(worker[q]) \/ run.packet[q] = "awaiting-review" =>
          \A g \in EditScopeOf(run, q) : Without(d1, q, g) = Without(disk, q, g)
    BY <1>3, <1>4, <2>2, <2>3, <2>4 DEF Without
  <2>6. SameRecord(q, run, run) /\ SameUndos(q, undoing, undoing)
    BY DEF SameRecord, SameUndos
  <2>7. FilesOf(q, run, disk, snap[q], worker[q], undoing)
    BY DEF FilesInv
  <2> QED BY <2>1, <2>4, <2>5, <2>6, <2>7, FilesStay
<1>5. ASSUME NEW d1, d1 = disk' PROVE FilesOf(p, run, d1, snap[p], worker[p], undoing)
  <2>1. EditsPlaced(p, run, d1)
    BY <1>1, <1>2, <1>3, <1>5 DEF FilesOf, EditsPlaced, Edited
  <2>2. \A g \in File : Without(d1, p, g) = Without(disk, p, g)
    BY <1>2, <1>3, <1>5 DEF Without
  <2>3. EditScopeOf(run, p) \subseteq File
    BY <1>1, ScopeAssumption DEF EditScopeOf
  <2>4. SnapRight(p, run, d1, snap[p], worker[p])
    BY <1>1, <2>2, <2>3 DEF FilesOf, SnapRight, Baseline
  <2>5. UndoRight(p, run, d1, snap[p], undoing)
    BY <1>1 DEF FilesOf, UndoRight
  <2>6. /\ EvidenceRight(p, run, d1, undoing) /\ EscalatedClean(p, run, d1, snap[p])
        /\ NeverLaunched(p, run, d1, snap[p], worker[p])
    BY <1>1, AbsenceAssumption DEF EvidenceRight, EscalatedClean, FilesOf, NeverLaunched, Live
  <2> QED BY <2>1, <2>4, <2>5, <2>6 DEF FilesOf
<1> QED BY <1>1, <1>4, <1>5 DEF FilesInv

\* A step that starts packets and does nothing else to the run.
LEMMA RestFiles ==
  ASSUME Inv, ReviewInv, FilesInv, Good(run'), Rested(run, run'), run'.changed = run.changed,
         UNCHANGED <<disk, undoing>>, \A q \in Packet : Shown(q)
  PROVE  FilesInv'
<1>1. ASSUME NEW q \in Packet
      PROVE  FilesOf(q, run', disk', snap'[q], worker'[q], undoing')
  <2>1. Aside(q)
    BY DEF Aside, SameEdits, SameUndos
  <2>2. Frame(run, run') /\ (SamePacket(run, run', q) \/ Opened(run, run', q))
    BY DEF Rested
  <2> QED BY <2>1, <2>2, OtherFiles
<1> QED BY <1>1 DEF FilesInv

\* The pause and resume buttons (handleWorkRunPauseResume).
LEMMA PauseResumeFiles ==
  ASSUME Inv, ReviewInv, FilesInv, [Next]_vars, Pause \/ Resume
  PROVE  FilesInv'
<1>0. Inv' /\ Good(run')
  <2>1. Inv'
    BY StepInv
  <2> QED BY <2>1 DEF Inv, Good, TypeOK
<1>1. Rested(run, run') /\ UNCHANGED <<disk, undoing>> /\ run \in Run
  BY PauseIsRest, ResumeIsRest, InvFacts DEF RestStep, Pause, Resume, Good
<1>2. CASE Pause
  <2>1. run'.changed = run.changed /\ run'.attempts = run.attempts
    BY <1>1, <1>2 DEF Pause, Run
  <2>2. \A q \in Packet : Shown(q)
    BY <1>2, <2>1 DEF Shown, Pause
  <2> QED BY <1>0, <1>1, <2>1, <2>2, RestFiles
<1>3. CASE Resume
  <2> DEFINE r == [run EXCEPT !.status = "running"]
  <2>1. Become(run, Advance(r), snap, worker)
    BY <1>3 DEF Resume, CommitAndAdvance
  <2>2. Good(r) /\ r.changed = run.changed
    BY <1>3, InvFacts, SoundAfterPauseResume DEF Resume, Good, Run
  <2> HIDE DEF r
  <2>3. run' = Advance(r) /\ \A q \in Packet : Shown(q)
    BY <2>1, BecomeShows
  <2>4. run'.changed = run.changed
    BY <2>2, <2>3, AdvanceTurn
  <2> QED BY <1>0, <1>1, <2>3, <2>4, RestFiles
<1> QED BY <1>2, <1>3

\* A step before or at the confirmation.
LEMMA PlanFiles ==
  ASSUME Inv, ReviewInv, FilesInv, run.status \in {"none", "draft"}, UNCHANGED <<disk, undoing>>,
         \A q \in Packet :
           \/ /\ run'.packet[q] \in {"pending", "no-change"}
              /\ snap'[q] = snap[q] /\ worker'[q] = worker[q]
              /\ q \in Unlaunchable => run'.changed[q] = {}
           \/ /\ run'.packet[q] = "running" /\ run'.changed[q] = run.changed[q]
              /\ IF q \in Unlaunchable THEN worker'[q] = Refused /\ snap'[q] = snap[q]
                 ELSE worker'[q] = snap'[q] /\ snap'[q] = [f \in EditScopeOf(run', q) |-> disk[f]]
  PROVE  FilesInv'
<1>1. ASSUME NEW q \in Packet
      PROVE  FilesOf(q, run', disk', snap'[q], worker'[q], undoing')
  <2>1. /\ run.packet[q] = "pending" /\ worker[q] = NoWorker /\ undoing' = {}
        /\ FilesOf(q, run, disk, snap[q], worker[q], undoing)
        /\ disk \in [File -> Content]
    BY NothingYet, InvFacts DEF FilesInv, TypeOK
  <2>2. Touched(disk, q) = {} /\ NoUndo(q, undoing')
        /\ (snap[q] = NoSnapshot \/ q \notin Unlaunchable)
    BY <2>1, WaitingIsClean DEF FilesOf, Edited, NoUndo, NeverLaunched
  <2>3. CASE /\ run'.packet[q] \in {"pending", "no-change"}
             /\ snap'[q] = snap[q] /\ worker'[q] = worker[q]
             /\ q \in Unlaunchable => run'.changed[q] = {}
    BY <2>1, <2>2, <2>3, FilesClean DEF Edited
  <2>4. CASE /\ run'.packet[q] = "running" /\ run'.changed[q] = run.changed[q]
             /\ IF q \in Unlaunchable THEN worker'[q] = Refused /\ snap'[q] = snap[q]
                ELSE worker'[q] = snap'[q] /\ snap'[q] = [f \in EditScopeOf(run', q) |-> disk[f]]
    BY <2>1, <2>2, <2>4, FilesOpen DEF SameEdits
  <2> QED BY <2>3, <2>4
<1> QED BY <1>1 DEF FilesInv

\* The confirmation (handleWorkRunRatify, draftOrchestrationBrief).
LEMMA ConfirmedFiles ==
  ASSUME Inv, ReviewInv, FilesInv, run.status = "draft",
         NEW r, Good(r), r.status = "draft", r.attempts = run.attempts, r.changed = run.changed,
         CommitAndAdvance(run, Ratified(r), snap, worker), UNCHANGED <<disk, undoing>>
  PROVE  FilesInv'
<1> DEFINE s == Ratified(r)
           packets == [q \in Packet |-> IF r.brief = "ready" /\ q \in NoChange /\ q \notin SystemPacket
                                        THEN "no-change" ELSE r.packet[q]]
<1>1. Good(s) /\ r \in Run /\ \A q \in Packet : r.packet[q] = "pending"
  BY RatifiedIsGood DEF Good, Sound, UntouchedIn
<1>2. s = [r EXCEPT !.status = "running", !.packet = packets]
  BY <1>1 DEF Ratified, Run
<1>3. \A q \in Packet : packets[q] \in {"pending", "no-change"}
  BY <1>1
<1> HIDE DEF packets
<1>4. /\ s.attempts = run.attempts /\ s.changed = run.changed
      /\ \A q \in Packet : s.packet[q] \in {"pending", "no-change"}
  BY <1>1, <1>2, <1>3 DEF Run
<1>5. Become(run, Advance(s), snap, worker)
  BY DEF CommitAndAdvance
<1> HIDE DEF s
<1>6. run' = Advance(s) /\ \A q \in Packet : Shown(q)
  BY <1>5, BecomeShows
<1>7. /\ run'.changed = run.changed
      /\ \A q \in Packet : SamePacket(s, run', q) \/ Opened(s, run', q)
  BY <1>1, <1>4, <1>6, AdvanceTurn
<1>8. ASSUME NEW q \in Packet
      PROVE  \/ /\ run'.packet[q] \in {"pending", "no-change"}
                /\ snap'[q] = snap[q] /\ worker'[q] = worker[q]
                /\ q \in Unlaunchable => run'.changed[q] = {}
             \/ /\ run'.packet[q] = "running" /\ run'.changed[q] = run.changed[q]
                /\ IF q \in Unlaunchable THEN worker'[q] = Refused /\ snap'[q] = snap[q]
                   ELSE worker'[q] = snap'[q] /\ snap'[q] = [f \in EditScopeOf(run', q) |-> disk[f]]
  <2>1. run.attempts[q] \in Nat /\ (q \in Unlaunchable => run.changed[q] = {})
    BY InvFacts DEF Good, Run, FilesInv, FilesOf, NeverLaunched
  <2> QED BY <1>4, <1>6, <1>7, <2>1 DEF SamePacket, Opened, Shown
<1> QED BY <1>8, PlanFiles

\* A draft begun, briefed, confirmed or dropped.
LEMMA DraftFiles ==
  ASSUME Inv, ReviewInv, FilesInv, [Next]_vars,
         \/ StartRun \/ Ratify \/ Discard
         \/ \E n \in briefing, brief \in {"ready", "unavailable"} : BriefLands(n, brief)
  PROVE  FilesInv'
<1>0. run \in Run /\ NoRun \in Run /\ Good(run')
  <2>1. Inv'
    BY StepInv
  <2> QED BY <2>1, InvFacts, NoRunIsRun DEF Good, Inv, TypeOK
<1>1. CASE StartRun \/ Discard
  <2>1. /\ run.status \in {"none", "draft"} /\ run'.status \in {"none", "draft"}
        /\ run'.changed = NoRun.changed /\ UNCHANGED <<disk, undoing, snap, worker>>
    <3>1. CASE StartRun
      <4>1. PICK b \in BriefStatus :
              run' = [NoRun EXCEPT !.status = "draft", !.id = drafts + 1, !.brief = b]
        BY <3>1 DEF StartRun, DraftWorkRun, BriefStatus
      <4>2. run'.changed = NoRun.changed /\ run'.status = "draft"
        BY <1>0, <4>1 DEF Run
      <4> QED BY <3>1, <4>2 DEF StartRun
    <3>2. CASE Discard
      <4>1. NoRun.status = "none"
        BY DEF NoRun
      <4> QED BY <3>2, <4>1 DEF Discard
    <3> QED BY <1>1, <3>1, <3>2
  <2>2. \A q \in Packet : run'.packet[q] = "pending" /\ run'.changed[q] = {}
    BY <1>0, <2>1 DEF Good, Sound, UntouchedIn, NoRun
  <2> QED BY <2>1, <2>2, PlanFiles
<1>2. CASE Ratify
  BY <1>2, InvFacts, ConfirmedFiles DEF Ratify
<1>3. CASE \E n \in briefing, brief \in {"ready", "unavailable"} : BriefLands(n, brief)
  <2>1. PICK n \in briefing, brief \in {"ready", "unavailable"} : BriefLands(n, brief)
    BY <1>3
  <2> DEFINE landed == [run EXCEPT !.brief = brief]
  <2>2. CASE run.id # n
    <3>1. UNCHANGED <<run, disk, snap, worker, undoing>>
      BY <2>1, <2>2 DEF BriefLands
    <3> QED BY <3>1 DEF FilesInv
  <2>3. CASE run.id = n
    <3>1. run.status = "draft"
      BY <2>3 DEF Inv, BriefsInv
    <3>2. /\ landed \in Run /\ landed.status = "draft" /\ landed.attempts = run.attempts
          /\ landed.changed = run.changed
          /\ \A p \in Packet : landed.packet[p] = "pending"
      BY <3>1, InvFacts DEF Good, Run, BriefStatus, Sound, UntouchedIn
    <3>3. /\ \/ CommitAndAdvance(run, Ratified(landed), snap, worker)
             \/ run' = landed /\ UNCHANGED <<snap, worker>>
          /\ UNCHANGED <<disk, undoing>>
      BY <2>1, <2>3 DEF BriefLands
    <3> HIDE DEF landed
    <3>4. Good(landed)
      BY <3>2, DraftIsGood
    <3>5. CASE CommitAndAdvance(run, Ratified(landed), snap, worker)
      BY <3>1, <3>2, <3>3, <3>4, <3>5, ConfirmedFiles
    <3>6. CASE run' = landed /\ UNCHANGED <<snap, worker>>
      <4>1. \A q \in Packet : q \in Unlaunchable => run.changed[q] = {}
        BY DEF FilesInv, FilesOf, NeverLaunched
      <4> QED BY <3>1, <3>2, <3>3, <3>6, <4>1, PlanFiles
    <3> QED BY <3>3, <3>5, <3>6
  <2> QED BY <2>2, <2>3
<1> QED BY <1>1, <1>2, <1>3

------------------------------------------------------------------------------
(* Every step.                                                              *)

\* A restart between two workers and restores leaves every packet, its files and
\* its snapshot as they were (commitWorkRun, loadWorkRun, snapshotPacketFiles).
LEMMA RestartFiles ==
  ASSUME CrashAtRest, Inv, ReviewInv, Staffed, Committed, FilesInv, Restart
  PROVE  FilesInv'
<1>1. /\ run' = [run EXCEPT !.status = run'.status] /\ run \in Run
      /\ undoing = {} /\ undoing' = {} /\ disk' = disk
      /\ \A p \in Packet : /\ worker'[p] = NoWorker /\ worker[p] = NoWorker
                          /\ snap'[p] = snap[p]
  <2>1. snap' = [p \in Packet |-> snap[p]]
    BY DEF Restart
  <2> QED BY <2>1, RestAtRestart, InvFacts DEF Restart, Good
<1>2. Frame(run, run')
  BY RestartReloads DEF Reloaded
<1>3. /\ run'.packet = run.packet /\ run'.attempts = run.attempts
      /\ run'.changed = run.changed
  BY <1>1 DEF Run
<1>4. ASSUME NEW q \in Packet
      PROVE  FilesOf(q, run', disk', snap'[q], worker'[q], undoing')
  <2>1. SameRecord(q, run, run') /\ EditScopeOf(run, q) \subseteq File
    BY <1>2, <1>3, SamePlanSamePackets, ScopeAssumption DEF Frame, EditScopeOf, SameRecord
  <2>2. SameEdits(q, disk, disk') /\ SameUndos(q, undoing, undoing')
    BY <1>1 DEF SameEdits, SameUndos
  <2>3. FilesOf(q, run, disk, snap[q], worker[q], undoing)
    BY DEF FilesInv
  <2> QED BY <1>1, <2>1, <2>2, <2>3, FilesStay
<1> QED BY <1>4 DEF FilesInv

\* Every step keeps the tree, the snapshots and the evidence in step.
LEMMA EveryStepFiles ==
  ASSUME FilesHyp, Inv, ReviewInv, Staffed, Committed, RewritesInv, FilesInv,
         [Next]_vars
  PROVE  FilesInv'
<1>1. CASE ServerStep
  BY <1>1, DraftFiles, RefusedFiles, EscalationFiles, IdleDeathFiles, GatedReportFiles,
     OrchestratedReportFiles, AnswerFiles, FinishFiles, RestoreFileFiles, EditFiles DEF ServerStep
<1>2. CASE Edit
  BY <1>2 DEF Edit, EditBegins, FilesInv
<1>3. CASE HumanStep
  BY <1>3, DraftFiles, PauseResumeFiles, ButtonFiles DEF HumanStep
<1>4. CASE Restart
  BY <1>4, RestartFiles DEF FilesHyp
<1>5. CASE UNCHANGED vars
  BY <1>5 DEF vars, FilesInv
<1> QED BY <1>1, <1>2, <1>3, <1>4, <1>5 DEF Next

\* Nothing is on disk when the server first starts.
LEMMA InitFiles == Init => FilesInv
<1> SUFFICES ASSUME Init, NEW q \in Packet
             PROVE  FilesOf(q, run, disk, snap[q], worker[q], undoing)
  BY DEF FilesInv
<1>1. /\ run.packet[q] = "pending" /\ run.changed[q] = {} /\ snap[q] = NoSnapshot
      /\ worker[q] = NoWorker /\ NoUndo(q, undoing) /\ Touched(disk, q) = {}
  BY DEF Init, NoRun, NoUndo, Touched
<1> QED BY <1>1, FilesClean DEF Edited

\* On these terms every behaviour keeps the invariants.
LEMMA SpecFiles ==
  ASSUME FilesHyp
  PROVE  Spec => [](Inv /\ ReviewInv /\ Staffed /\ FilesInv)
<1>1. Init => FilesInv
  BY InitFiles
<1>2. (Inv /\ ReviewInv /\ Staffed /\ Committed) /\ RewritesInv /\ FilesInv /\ [Next]_vars
        => FilesInv'
  BY EveryStepFiles
<1>3. Spec => [](Inv /\ ReviewInv /\ Staffed /\ Committed)
  BY SpecStaffed DEF FilesHyp
<1>4. Spec => []RewritesInv
  <2>1. Inv /\ ReviewInv /\ RewritesInv => RewritesInv
    OBVIOUS
  <2> QED BY <2>1, SpecHolds, PTL DEF FilesHyp
<1> QED BY <1>1, <1>2, <1>3, <1>4, PTL DEF Spec

------------------------------------------------------------------------------
(* The theorems.                                                            *)

\* The board and the tree agree (applyPacketReview, restorePacketSnapshot,
\* runSummary): what was rejected, skipped or never started has no edit on
\* disk, and what was approved has its last attempt's edits in exactly the
\* files its evidence named.
THEOREM BoardAndTreeAlwaysAgree ==
  ASSUME FilesHyp
  PROVE  Spec => []BoardAndTreeAgree
<1>1. ASSUME Inv, FilesInv, NEW p \in Packet
      PROVE  /\ run.packet[p] \in {"pending", "failed", "skipped", "no-change"}
                  => EditsOf(p) = {}
             /\ run.packet[p] = "done" =>
                  \A f \in File : {e \in disk[f] : e[1] = p} =
                    (IF f \in run.changed[p] THEN {<<p, run.attempts[p]>>} ELSE {})
  <2>1. FilesOf(p, run, disk, snap[p], worker[p], undoing) /\ EditsOf(p) = Touched(disk, p)
    BY <1>1 DEF FilesInv, EditsOf, Touched
  <2>2. run.packet[p] \in {"pending", "failed", "skipped", "no-change"} => EditsOf(p) = {}
    BY <2>1, WaitingIsClean DEF FilesOf, Edited
  <2>3. ASSUME run.packet[p] = "done", NEW f \in File
        PROVE  {e \in disk[f] : e[1] = p} =
                 (IF f \in run.changed[p] THEN {<<p, run.attempts[p]>>} ELSE {})
    <3>1. NoUndo(p, undoing)
      BY <2>1, <2>3 DEF FilesOf, UndoRight, NoUndo
    <3>2. run.changed[p] = Touched(disk, p)
      BY <2>1, <2>3, <3>1 DEF FilesOf, EvidenceRight
    <3>3. \A e \in disk[f] : e[1] = p => e = <<p, run.attempts[p]>>
      <4>1. \A e \in disk[f] : e \in Packet \X Nat
        BY <1>1, InvFacts DEF TypeOK, Content
      <4>2. \A e \in disk[f] : e[1] = p => e[2] = run.attempts[p]
        BY <2>1 DEF FilesOf, EditsPlaced
      <4> QED BY <4>1, <4>2
    <3> QED BY <3>2, <3>3 DEF Touched
  <2> QED BY <2>2, <2>3
<1>2. Inv /\ FilesInv => BoardAndTreeAgree
  BY <1>1 DEF BoardAndTreeAgree, RejectedUndone, ApprovedKept
<1> QED BY <1>2, SpecFiles, PTL

\* While a packet can still be rejected, restoring its snapshot takes away its
\* edits and nobody else's (snapshotPacketFiles).
THEOREM SnapshotsAreBaselines ==
  ASSUME FilesHyp
  PROVE  Spec => []SnapshotIsBaseline
<1>1. ASSUME ReviewInv, Staffed, FilesInv,
             NEW p \in Packet \ Unlaunchable, run.packet[p] \in {"running", "awaiting-review"}
      PROVE  /\ snap[p] # NoSnapshot
             /\ \A f \in DOMAIN snap[p] : snap[p][f] = {e \in disk[f] : e[1] # p}
  <2>1. FilesOf(p, run, disk, snap[p], worker[p], undoing)
    BY <1>1 DEF FilesInv
  <2>2. run.packet[p] = "running" => HasSession(p) /\ Live(worker[p])
    BY <1>1, <2>1 DEF Staffed, FilesOf, NeverLaunched, HasSession, Live
  <2>3. snap[p] # NoSnapshot
    BY <1>1, <2>2 DEF ReviewInv, SnapsKept, NoneTorn, Whole, FilesHyp
  <2>4. Baseline(p, run, disk, snap[p])
    BY <1>1, <2>1, <2>2 DEF FilesOf, SnapRight
  <2> QED BY <2>3, <2>4 DEF Baseline, Without
<1>2. ReviewInv /\ Staffed /\ FilesInv => SnapshotIsBaseline
  BY <1>1 DEF SnapshotIsBaseline
<1> QED BY <1>2, SpecFiles, PTL

\* A restore never writes a file that another packet's live worker reads: what
\* started while it was under way was started beside its lane (runOnePacket,
\* startablePackets).
THEOREM RestoresAreApart ==
  ASSUME FilesHyp
  PROVE  Spec => []RestoresApart
<1>1. ASSUME Inv, ReviewInv, FilesInv, NEW u \in undoing, NEW p \in Packet,
             HasSession(p), p # u.packet
      PROVE  DOMAIN u.to \cap Reads[p] = {}
  <2> DEFINE q == u.packet
  <2>1. q \in Packet /\ Good(run)
    BY <1>1, InvFacts DEF UndosTyped
  <2>2. FilesOf(q, run, disk, snap[q], worker[q], undoing)
    BY <1>1, <2>1 DEF FilesInv
  <2>3. /\ run.packet[q] = "awaiting-review"
        /\ DOMAIN u.to = EditScopeOf(run, q)
    BY <2>2 DEF FilesOf, UndoRight, SnapRight, Baseline
  <2>4. p \in InFlight(run)
    <3>1. run.packet[p] = "running"
      BY <1>1 DEF HasSession, ReviewInv, WorkersRun
    <3> QED BY <2>1, <3>1 DEF Good, Sound, UntouchedIn, InFlight
  <2> QED BY <1>1, <2>1, <2>3, <2>4, ScopesApart
<1>2. Inv /\ ReviewInv /\ FilesInv => RestoresApart
  BY <1>1 DEF RestoresApart
<1> QED BY <1>2, SpecFiles, PTL

------------------------------------------------------------------------------
(* A run nobody watches: under the autonomy ruling every packet that is not *)
(* decided has something of the server's own under way for it.              *)

\* Nobody looks at the run, and the server does not die: a restart takes the
\* reviewer spawns with it and leaves their packets at the gate.
AutonomyHyp == Autonomous /\ Clients = {} /\ MaxRestarts = 0

Reviewed(p) == \E v \in reviewing : v.packet = p
Restoring(p) == \E u \in undoing : u.packet = p

Attended(p) ==
  /\ run.packet[p] = "awaiting-review" => Reviewed(p) \/ Restoring(p)
  /\ run.packet[p] = "escalated" => Restoring(p)

\* A packet that was dealt with is decided, at work again, or attended to.
Settled(p) == run.packet[p] \notin AtReviewer

BriefComes == run.status = "draft" => run.id \in briefing

AttendedInv == BriefComes /\ \A p \in Packet : Attended(p)

\* What a handler that deals with p leaves alone.
KeepsOthers(p) ==
  /\ \A v \in reviewing : v.packet # p => v \in reviewing'
  /\ \A u \in undoing : u.packet # p => u \in undoing'

\* Dealing with one packet keeps the invariant, when that packet is attended to.
LEMMA OneAttended ==
  ASSUME Inv, AttendedInv, NEW p \in Packet, PacketStep(p), KeepsOthers(p), Attended(p)'
  PROVE  AttendedInv'
<1>1. /\ Frame(run, run') /\ Others(run, run', p) /\ run.packet[p] \in Open
  BY DEF PacketStep, Turned, Turn
<1>2. run.status \notin {"none", "draft"}
  BY <1>1, InvFacts, OpenIsNotOver
<1>3. BriefComes'
  BY <1>1, <1>2 DEF Frame, BriefComes
<1>4. ASSUME NEW q \in Packet, q # p PROVE Attended(q)'
  <2>1. /\ Reviewed(q) => Reviewed(q)'
        /\ Restoring(q) => Restoring(q)'
    BY <1>4 DEF KeepsOthers, Reviewed, Restoring
  <2>2. run'.packet[q] = run.packet[q] \/ run'.packet[q] \in {"running", "skipped"}
    BY <1>1, <1>4 DEF Others, SamePacket, Opened, LeftOut
  <2> QED BY <2>1, <2>2 DEF AttendedInv, Attended
<1> QED BY <1>3, <1>4 DEF AttendedInv

\* Whatever is handed to the scheduler, a decided packet stays decided or is
\* started again.
LEMMA CommitSettles ==
  ASSUME NEW p \in Packet, NEW r, Good(r), r.packet[p] \notin AtReviewer,
         NEW snaps, NEW workers, CommitAndAdvance(run, r, snaps, workers)
  PROVE  Settled(p)'
<1>1. run' = Advance(r)
  BY DEF CommitAndAdvance, Become
<1>2. SamePacket(r, run', p) \/ Opened(r, run', p)
  BY <1>1, AdvanceTurn
<1> QED BY <1>2 DEF SamePacket, Opened, Settled, AtReviewer

\* Undoing a packet flips it, or leaves a restore under way.
LEMMA UndoAttends ==
  ASSUME NEW p \in Packet, NEW r, Good(r), NEW by, NEW next \in {"pending", "failed"},
         Legal(r, p, next), by = "autonomy" => r.packet[p] = "escalated",
         NEW c, NEW snaps, NEW workers, UndoPacket(by, p, next, r, c, snaps, workers)
  PROVE  Attended(p)' /\ undoing \subseteq undoing'
<1>1. CASE NothingToRestore(p, snaps)
  <2> DEFINE s == Flip(r, by, p, next)
  <2>1. /\ CommitAndAdvance(run, s, [snaps EXCEPT ![p] = NoSnapshot], workers)
        /\ undoing' = undoing
    BY <1>1 DEF UndoPacket
  <2>2. next \in Decision /\ r \in Run /\ s = SetPacketStatus(r, p, next)
    BY DEF Decision, Good, Flip
  <2>3. s.packet[p] = next /\ Good(s)
    BY <2>2, StatusTurn, StatusFollows
  <2> HIDE DEF s
  <2>4. Settled(p)'
    BY <2>1, <2>3, CommitSettles DEF AtReviewer
  <2> QED BY <2>1, <2>4 DEF Settled, Attended, AtReviewer
<1>2. CASE ~NothingToRestore(p, snaps)
  <2>1. PICK f \in DOMAIN snaps[p] :
          undoing' = undoing \cup {[by |-> by, packet |-> p, next |-> next,
                                    left |-> DOMAIN snaps[p] \ {f}, to |-> snaps[p]]}
    BY <1>2 DEF UndoPacket
  <2> DEFINE u == [by |-> by, packet |-> p, next |-> next,
                   left |-> DOMAIN snaps[p] \ {f}, to |-> snaps[p]]
  <2>2. u.packet = p /\ u \in undoing'
    BY <2>1
  <2> QED BY <2>1, <2>2 DEF Attended, Restoring
<1> QED BY <1>1, <1>2

\* Under the ruling an escalation is such an undo (autonomyResolve).
LEMMA EscalationAttends ==
  ASSUME Autonomous, NEW p \in Packet, NEW r, Good(r), r.packet[p] \in {"running", "awaiting-review"},
         NEW c, NEW snaps, NEW workers, Escalate(p, r, c, snaps, workers)
  PROVE  Attended(p)' /\ undoing \subseteq undoing'
<1> DEFINE s == SetPacketStatus(r, p, "escalated")
<1>1. Legal(r, p, "escalated") /\ "escalated" \in Decision /\ r \in Run
  BY DEF Legal, PacketTransitions, Decision, Good, PacketStatus
<1>2. s.packet[p] = "escalated" /\ Good(s)
  BY <1>1, StatusTurn, StatusFollows
<1>3. UndoPacket("autonomy", p, "failed", s, c, snaps, workers)
  BY DEF Escalate
<1> HIDE DEF s
<1>4. Legal(s, p, "failed")
  BY <1>2 DEF Legal, PacketTransitions, PacketStatus
<1> QED BY <1>2, <1>3, <1>4, UndoAttends

\* An approval settles.
LEMMA ApprovalAttends ==
  ASSUME NEW p \in Packet, NEW r, Good(r), r.packet[p] = "awaiting-review",
         NEW snaps, NEW workers, Approve(p, r, snaps, workers)
  PROVE  Attended(p)' /\ undoing' = undoing
<1> DEFINE s == SetPacketStatus(r, p, "done")
<1>1. Legal(r, p, "done") /\ "done" \in Decision /\ r \in Run
  BY DEF Legal, PacketTransitions, Decision, Good, PacketStatus
<1>2. s.packet[p] = "done" /\ Good(s)
  BY <1>1, StatusTurn, StatusFollows
<1>3. CommitAndAdvance(run, s, [snaps EXCEPT ![p] = NoSnapshot], workers) /\ undoing' = undoing
  BY DEF Approve
<1> HIDE DEF s
<1>4. Settled(p)'
  BY <1>2, <1>3, CommitSettles DEF AtReviewer
<1> QED BY <1>3, <1>4 DEF Settled, Attended, AtReviewer

\* A worker that could not be launched, asked for the human or failed.
LEMMA EscalationsAttend ==
  ASSUME Inv, ReviewInv, AutonomyHyp, AttendedInv, NEW p \in Packet,
         WorkerRefused(p) \/ WorkerEscalates(p) \/ WorkerDiesIdle(p)
  PROVE  AttendedInv'
<1>1. worker[p] # NoWorker /\ reviewing' = reviewing
  BY AbsenceAssumption DEF MayEnd, WorkerRefused, WorkerEscalates, WorkerDiesIdle, HasSession
<1>2. run.packet[p] = "running" /\ Good(run)
  BY <1>1, AtWork, InvFacts
<1>3. \E r, snaps : Good(r) /\ r.packet[p] = "running" /\ Escalate(p, r, saved, snaps, Ended(p))
  <2>1. CASE WorkerRefused(p)
    BY <1>2, <2>1 DEF WorkerRefused
  <2>2. ASSUME NEW files \in SUBSET File
        PROVE  /\ Good([run EXCEPT !.changed[p] = files])
               /\ [run EXCEPT !.changed[p] = files].packet = run.packet
    BY <1>2, EvidenceFollows
  <2>3. CASE WorkerEscalates(p)
    <3>1. Diffs(p) \in SUBSET File
      BY <2>3, InvFacts, DiffsAreFiles DEF MayEnd, WorkerEscalates
    <3> QED BY <1>2, <2>2, <2>3, <3>1 DEF WorkerEscalates
  <2>4. CASE WorkerDiesIdle(p)
    BY <1>2, <2>2, <2>4 DEF WorkerDiesIdle
  <2> QED BY <2>1, <2>3, <2>4
<1>4. Attended(p)' /\ undoing \subseteq undoing'
  BY <1>3, EscalationAttends DEF AutonomyHyp
<1>5. PacketStep(p) /\ KeepsOthers(p)
  BY <1>1, <1>4, RefusedIsStep, EscalationIsStep, IdleDeathIsStep DEF KeepsOthers
<1> QED BY <1>4, <1>5, OneAttended

\* A worker's report, with its pre-checks (runOnePacket, orchestratorReview).
LEMMA ReportsAttend ==
  ASSUME Inv, ReviewInv, AutonomyHyp, AttendedInv, NEW p \in Packet,
         NEW died \in BOOLEAN, NEW decision \in PreChecks,
         WorkerReportsOrchestrated(p, died, decision)
  PROVE  AttendedInv'
<1> DEFINE r == Advance(AtReview(p))
           next == AfterRejection(r, p)
           v == [packet |-> p, attempt |-> run.attempts[p]]
<1>1. HasSession(p)
  BY DEF MayEnd, WorkerReportsOrchestrated
<1>2. Good(r) /\ r.packet[p] = "awaiting-review"
  BY <1>1, ReportAtHand DEF AtHand
<1>3. next \in {"pending", "failed"} /\ Legal(r, p, next)
  BY <1>2, RejectionIsLegal DEF AtReviewer
<1>4. \/ Approve(p, r, snap, Ended(p)) /\ UNCHANGED reviewing
      \/ UndoPacket("orchestrator", p, next, r, r, snap, Ended(p)) /\ UNCHANGED reviewing
      \/ Escalate(p, r, r, snap, Ended(p)) /\ UNCHANGED reviewing
      \/ run' = r /\ reviewing' = reviewing \cup {v} /\ undoing' = undoing
  BY DEF WorkerReportsOrchestrated, Become
<1> HIDE DEF r, next
<1>5. /\ Attended(p)' /\ undoing \subseteq undoing' /\ reviewing \subseteq reviewing'
  <2>1. CASE Approve(p, r, snap, Ended(p)) /\ UNCHANGED reviewing
    BY <1>2, <2>1, ApprovalAttends
  <2>2. CASE UndoPacket("orchestrator", p, next, r, r, snap, Ended(p)) /\ UNCHANGED reviewing
    BY <1>2, <1>3, <2>2, UndoAttends
  <2>3. CASE Escalate(p, r, r, snap, Ended(p)) /\ UNCHANGED reviewing
    BY <1>2, <2>3, EscalationAttends DEF AutonomyHyp
  <2>4. CASE run' = r /\ reviewing' = reviewing \cup {v} /\ undoing' = undoing
    <3>1. v.packet = p /\ v \in reviewing'
      BY <2>4
    <3> QED BY <1>2, <2>4, <3>1 DEF Attended, Reviewed
  <2> QED BY <1>4, <2>1, <2>2, <2>3, <2>4
<1>6. PacketStep(p) /\ KeepsOthers(p)
  BY <1>5, OrchestratedReportIsStep DEF KeepsOthers
<1> QED BY <1>5, <1>6, OneAttended

\* The model reviewer's answer, or that it gave none.
LEMMA AnswersAttend ==
  ASSUME Inv, ReviewInv, AutonomyHyp, AttendedInv, NEW v \in reviewing, NEW verdict \in Verdicts,
         ReviewerAnswers(v, verdict)
  PROVE  AttendedInv'
<1> DEFINE p == v.packet
           next == AfterRejection(run, p)
<1>1. /\ p \in Packet /\ run.packet[p] = "awaiting-review" /\ Good(run)
      /\ reviewing' = reviewing \ {v}
  BY InvFacts DEF TypeOK, ReviewInv, ReviewsOpen, ReviewerAnswers
<1>2. next \in {"pending", "failed"} /\ Legal(run, p, next)
  BY <1>1, RejectionIsLegal DEF AtReviewer
<1>3. \/ Approve(p, run, snap, worker)
      \/ UndoPacket("orchestrator", p, next, run, saved, snap, worker)
      \/ Escalate(p, run, saved, snap, worker)
  BY <1>1, EnvironmentAssumption DEF ReviewerAnswers, AutonomyHyp
<1>4. \A w \in reviewing : w.packet # p => w \in reviewing'
  BY <1>1
<1>5. PacketStep(p)
  BY AnswerIsStep
<1> HIDE DEF p, next
<1>6. Attended(p)' /\ undoing \subseteq undoing'
  BY <1>1, <1>2, <1>3, ApprovalAttends, UndoAttends, EscalationAttends DEF AutonomyHyp
<1>7. KeepsOthers(p)
  BY <1>4, <1>6 DEF KeepsOthers
<1> QED BY <1>1, <1>5, <1>6, <1>7, OneAttended

\* A restore is through.
LEMMA FinishAttends ==
  ASSUME Inv, ReviewInv, AutonomyHyp, AttendedInv, NEW u \in undoing, FinishUndo(u)
  PROVE  AttendedInv'
<1> DEFINE p == u.packet
           s == Flip(run, u.by, p, u.next)
<1>1. /\ p \in Packet /\ u.next \in {"pending", "failed"} /\ UndoOpen(u) /\ Good(run)
      /\ \A w \in undoing : w.packet = p => w = u
  BY InvFacts DEF UndosTyped, ReviewInv, UndosOpen
<1>2. /\ CommitAndAdvance(run, s, [snap EXCEPT ![p] = NoSnapshot], worker)
      /\ undoing' = undoing \ {u} /\ reviewing' = reviewing
  BY DEF FinishUndo, AutonomyHyp
<1>3. /\ u.next \in Decision /\ run \in Run /\ Legal(run, p, u.next)
      /\ s = SetPacketStatus(run, p, u.next)
  BY <1>1 DEF UndoOpen, Decision, Good, Flip
<1>4. s.packet[p] = u.next /\ Good(s)
  BY <1>1, <1>3, StatusTurn, StatusFollows
<1>5. PacketStep(p)
  BY FinishIsStep
<1>6. KeepsOthers(p)
  BY <1>1, <1>2 DEF KeepsOthers
<1> HIDE DEF s, p
<1>7. Settled(p)'
  BY <1>1, <1>2, <1>4, CommitSettles DEF AtReviewer
<1> QED BY <1>1, <1>5, <1>6, <1>7, OneAttended DEF Settled, Attended, AtReviewer

\* A restore in between.
LEMMA RestoresAttend ==
  ASSUME Inv, AttendedInv, NEW u \in undoing, NEW f \in u.left, RestoreFile(u, f)
  PROVE  AttendedInv'
<1> DEFINE w == [u EXCEPT !.left = u.left \ {f}]
<1>1. w.packet = u.packet
  BY InvFacts DEF UndosTyped
<1>2. undoing' = (undoing \ {u}) \cup {w} /\ UNCHANGED <<run, reviewing, briefing>>
  BY DEF RestoreFile
<1> HIDE DEF w
<1>3. \A p : (Reviewed(p) => Reviewed(p)') /\ (Restoring(p) => Restoring(p)')
  BY <1>1, <1>2 DEF Reviewed, Restoring
<1> QED BY <1>2, <1>3 DEF AttendedInv, Attended, BriefComes

\* A run that is drafted, confirmed or discarded: no packet was ever started.
LEMMA PlansAttend ==
  ASSUME Inv, ReviewInv, AutonomyHyp, AttendedInv,
         \/ \E n \in briefing, brief \in {"ready", "unavailable"} : BriefLands(n, brief)
         \/ StartRun \/ Ratify \/ Discard
  PROVE  AttendedInv'
<1>1. BriefComes'
  <2>1. CASE \E n \in briefing, brief \in {"ready", "unavailable"} : BriefLands(n, brief)
    <3>0. PICK n \in briefing : \E brief \in {"ready", "unavailable"} : BriefLands(n, brief)
      BY <2>1
    <3>1. PICK brief \in {"ready", "unavailable"} : BriefLands(n, brief)
      BY <3>0
    <3>2. CASE run.id # n
      BY <3>1, <3>2 DEF BriefLands, AttendedInv, BriefComes
    <3>3. CASE run.id = n
      <4>1. run.status = "draft"
        BY <3>3 DEF Inv, BriefsInv
      <4> DEFINE landed == [run EXCEPT !.brief = brief]
      <4>2. CommitAndAdvance(run, Ratified(landed), snap, worker)
        BY <3>1, <3>3 DEF BriefLands, AutonomyHyp
      <4>3. landed \in Run /\ landed.status = "draft" /\ \A p \in Packet : landed.packet[p] = "pending"
        BY <4>1, InvFacts DEF Good, Run, BriefStatus, Sound, UntouchedIn
      <4> HIDE DEF landed
      <4>4. Good(Ratified(landed)) /\ Ratified(landed).status = "running"
        <5>1. Good(landed)
          BY <4>3, DraftIsGood
        <5>2. Good(Ratified(landed))
          BY <4>3, <5>1, RatifiedIsGood
        <5> QED BY <4>3, <5>2 DEF Ratified, Run
      <4>5. run'.status # "draft"
        <5>1. run' = Advance(Ratified(landed))
          BY <4>2 DEF CommitAndAdvance, Become
        <5> QED BY <4>4, <5>1, AdvanceTurn DEF Frame
      <4> QED BY <4>5 DEF BriefComes
    <3> QED BY <3>2, <3>3
  <2>2. CASE StartRun
    <3>1. run'.id = drafts' /\ drafts' \in briefing'
      <4>1. Mode = "orchestrated"
        BY ModeAssumption DEF AutonomyHyp
      <4> QED BY <2>2, <4>1, NoRunIsRun DEF StartRun, DraftWorkRun, Run
    <3> QED BY <3>1 DEF BriefComes
  <2>3. CASE Ratify
    <3>1. PlanStep /\ run' = Advance(Ratified(run)) /\ run.status = "draft" /\ Good(run)
      BY <2>3, RatifyIsPlan, InvFacts DEF Ratify, CommitAndAdvance, Become
    <3>2. Good(Ratified(run)) /\ Ratified(run).status = "running"
      <4>1. Good(Ratified(run))
        BY <3>1, RatifiedIsGood
      <4> QED BY <3>1, <4>1 DEF Ratified, Run, Good
    <3> QED BY <3>1, <3>2, AdvanceTurn DEF Frame, BriefComes
  <2>4. CASE Discard
    BY <2>4 DEF Discard, NoRun, BriefComes
  <2> QED BY <2>1, <2>2, <2>3, <2>4
<1>2. PlanStep \/ UNCHANGED <<run, reviewing, undoing>>
  BY BriefIsPlan, StartRunIsPlan, RatifyIsPlan, DiscardIsPlan DEF BriefLands
<1>3. CASE PlanStep
  <2>1. \A p \in Packet : run'.packet[p] \in {"pending", "no-change", "running"}
    <3>1. CASE run'.status \in {"none", "draft"}
      <4>1. Inv'
        BY StepInv DEF Next, ServerStep, HumanStep
      <4> QED BY <3>1, <4>1, InvFacts DEF Inv, Good, Sound, UntouchedIn
    <3>2. CASE run'.status \notin {"none", "draft"}
      BY <1>3, <3>2 DEF PlanStep, Planned
    <3> QED BY <3>1, <3>2
  <2> QED BY <1>1, <2>1 DEF AttendedInv, Attended
<1>4. CASE UNCHANGED <<run, reviewing, undoing>>
  BY <1>1, <1>4 DEF AttendedInv, Attended, Reviewed, Restoring
<1> QED BY <1>2, <1>3, <1>4

Editing == Edit \/ \E e \in rewriting : EditLands(e)

\* The pause and the resume button, and an edit: packets are started at most.
LEMMA RestAttends ==
  ASSUME Inv, ReviewInv, AttendedInv, Pause \/ Resume \/ Editing \/ UNCHANGED vars
  PROVE  AttendedInv'
<1>1. UNCHANGED <<reviewing, undoing, briefing>>
  BY DEF Pause, Resume, Editing, Edit, EditBegins, EditLands, vars
<1>2. Rested(run, run')
  <2>1. CASE Pause \/ Resume
    BY <2>1, PauseIsRest, ResumeIsRest DEF RestStep
  <2>2. CASE Editing \/ UNCHANGED vars
    BY <2>2, NothingIsRest DEF RestStep, Editing, Edit, EditBegins, EditLands, vars
  <2> QED BY <2>1, <2>2
<1>3. run'.status = "draft" => run' = run
  <2>1. CASE Pause \/ Resume
    BY <1>2, <2>1 DEF Pause, Resume, Rested, Frame
  <2>2. CASE Editing \/ UNCHANGED vars
    BY <2>2 DEF Editing, Edit, EditBegins, EditLands, vars
  <2> QED BY <2>1, <2>2
<1>4. BriefComes'
  BY <1>1, <1>3 DEF AttendedInv, BriefComes
<1>5. ASSUME NEW p \in Packet PROVE Attended(p)'
  <2>1. run'.packet[p] = run.packet[p] \/ run'.packet[p] = "running"
    BY <1>2 DEF Rested, SamePacket, Opened
  <2> QED BY <1>1, <2>1 DEF AttendedInv, Attended, Reviewed, Restoring
<1> QED BY <1>4, <1>5 DEF AttendedInv

\* Every step of an autonomous run keeps its packets attended to.
LEMMA EveryStepAttends ==
  ASSUME Inv, ReviewInv, AutonomyHyp, AttendedInv, [Next]_vars
  PROVE  AttendedInv'
<1>1. CASE ServerStep
  <2>1. CASE \E n \in briefing, brief \in {"ready", "unavailable"} : BriefLands(n, brief)
    BY <2>1, PlansAttend
  <2>2. CASE \E p \in Packet : WorkerRefused(p) \/ WorkerEscalates(p) \/ WorkerDiesIdle(p)
    BY <2>2, EscalationsAttend
  <2>3. ~ \E p \in Packet : WorkerReportsGated(p)
    BY ModeAssumption DEF WorkerReportsGated, AutonomyHyp
  <2>4. CASE \E p \in Packet, died \in BOOLEAN, decision \in PreChecks :
               WorkerReportsOrchestrated(p, died, decision)
    BY <2>4, ReportsAttend
  <2>5. CASE \E v \in reviewing, verdict \in Verdicts : ReviewerAnswers(v, verdict)
    BY <2>5, AnswersAttend
  <2>6. CASE \E u \in undoing : FinishUndo(u)
    BY <2>6, FinishAttends
  <2>7. CASE \E u \in undoing : \E f \in u.left : RestoreFile(u, f)
    BY <2>7, RestoresAttend
  <2>8. CASE \E e \in rewriting : EditLands(e)
    BY <2>8, RestAttends DEF Editing
  <2> QED BY <1>1, <2>1, <2>2, <2>3, <2>4, <2>5, <2>6, <2>7, <2>8 DEF ServerStep
<1>2. CASE StartRun \/ Ratify \/ Discard
  BY <1>2, PlansAttend
<1>3. CASE Pause \/ Resume \/ Edit \/ UNCHANGED vars
  BY <1>3, RestAttends DEF Editing
<1>4. ~Restart
  BY InvFacts DEF Restart, AutonomyHyp, TypeOK
<1>5. ~ \E c \in Clients, p \in Packet : HumanApproves(c, p) \/ HumanRejects(c, p)
  BY DEF AutonomyHyp
<1> QED BY <1>1, <1>2, <1>3, <1>4, <1>5 DEF Next, HumanStep

\* An autonomous run asks nobody: its draft has a brief under way, and a packet
\* at work, at its gate or escalated has a worker, a reviewer or a restore that
\* will settle it, whatever workers and reviewers answer (orchestratorReview,
\* autonomyResolve, draftOrchestrationBrief).
THEOREM AutonomousAsksNobody == ASSUME AutonomyHyp PROVE Spec => []AsksNobody
<1>1. OneReviewer
  BY ModeAssumption DEF AutonomyHyp, OneReviewer
<1>2. Init => Inv /\ ReviewInv /\ Staffed /\ AttendedInv
  <2>1. Init => AttendedInv
    BY DEF Init, NoRun, AttendedInv, Attended, BriefComes
  <2> QED BY <2>1, InitInv, InitReviews
<1>3. (Inv /\ ReviewInv /\ Staffed /\ AttendedInv) /\ [Next]_vars =>
        (Inv /\ ReviewInv /\ Staffed /\ AttendedInv)'
  <2>1. Inv => ~Restart
    BY InvFacts DEF Restart, AutonomyHyp, TypeOK
  <2> QED BY <1>1, <2>1, EveryStepReviews, EveryStepAttends DEF ReviewStep
<1>4. Inv /\ ReviewInv /\ Staffed /\ AttendedInv => AsksNobody
  BY DEF Staffed, AttendedInv, Attended, BriefComes, Reviewed, Restoring, AsksNobody
<1> QED BY <1>2, <1>3, <1>4, PTL DEF Spec

\* While such a run is running the server has work of its own under way: the
\* half of AutonomousRunEnds that needs no fairness.
ServerHasWork ==
  run.status \in {"draft", "running"} =>
    briefing # {} \/ reviewing # {} \/ undoing # {} \/ \E p \in Packet : worker[p] # NoWorker

\* An autonomous run of a plan without cycles never waits for a person: until it
\* is over or paused, a brief, a worker, a reviewer or a restore is under way
\* (advanceWorkRun, autonomyResolve).
THEOREM AutonomousRunNeverWaits ==
  ASSUME AutonomyHyp, Acyclic
  PROVE  Spec => []ServerHasWork
<1>1. AsksNobody /\ NoSilentStall => ServerHasWork
  BY DEF AsksNobody, NoSilentStall, InRun, ServerHasWork
<1> QED BY <1>1, AutonomousAsksNobody, NoRunStallsSilently, PTL
=============================================================================
