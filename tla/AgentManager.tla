---------------------------- MODULE AgentManager ----------------------------
(***************************************************************************)
(* The Agent Manager as server.ts drives it: one run, its workers, its     *)
(* reviewers and the project's files.  JavaScript runs each handler to its *)
(* next await without interruption, so an action is a handler up to an     *)
(* await, or one continuation after it, together with the commit and the   *)
(* advanceWorkRun() call that end it.  What is pending across an await is  *)
(* state here: worker sessions, reviewer spawns, restores under way.       *)
(*                                                                         *)
(* A file's content is the set of edits it holds, an edit being            *)
(* <<packet, attempt>>.                                                    *)
(***************************************************************************)
EXTENDS WorkRun

CONSTANTS
  Mode,          \* "gated" or "orchestrated"
  Autonomous,    \* the run carries the autonomy ruling
  AutoApprove,   \* run.review = "pre-checks"
  Unlaunchable,  \* packets without a worker: no CLI, or their thread is gone
  Clients,       \* browser sessions, each handling one review at a time
  Outcomes,      \* what a worker session may end with
  PreChecks,     \* what the deterministic pre-checks may decide
  Verdicts,      \* what a reviewer spawn may answer; "none" is no verdict
  NoSnapshot,    \* no work-snapshots/<packet> directory
  NoWorker,      \* runOnePacket is not in progress for the packet
  Refused,       \* runPacketWorker returned without a session
  MaxDrafts,     \* bound: drafts created
  MaxRestarts,   \* bound: server restarts
  CrashAtRest,   \* the process dies only between workers, restores and decisions
  LateWrites     \* a worker may end while a rewrite it asked for is under way

ASSUME ModeAssumption == /\ Mode \in {"gated", "orchestrated"}
                         /\ Autonomous \in BOOLEAN /\ AutoApprove \in BOOLEAN
                         /\ Autonomous => Mode = "orchestrated"
ASSUME EnvironmentAssumption ==
  /\ Unlaunchable \subseteq Packet
  /\ Clients \cap {"orchestrator", "autonomy"} = {}
  /\ Outcomes \subseteq {"report", "escalate", "died"}
  /\ PreChecks \subseteq {"approve", "reject", "escalate", "ask-model"}
  /\ Verdicts \subseteq {"approve", "reject", "escalate", "none"}
  /\ MaxDrafts \in Nat /\ MaxRestarts \in Nat
  /\ CrashAtRest \in BOOLEAN /\ LateWrites \in BOOLEAN

Content == SUBSET (Packet \X Nat)
IsBaseline(b) == DOMAIN b \subseteq File /\ b \in [DOMAIN b -> Content]

ASSUME AbsenceAssumption ==
  /\ NoWorker # Refused
  /\ \A S \in SUBSET File : \A absent \in {NoSnapshot, NoWorker, Refused} :
       absent \notin [S -> Content]

VARIABLES
  run,        \* workRun, the run in memory
  saved,      \* .vibegraph/work-run.json
  disk,       \* disk[f]: the edits file f holds
  snap,       \* snap[p]: .vibegraph/work-snapshots/<p>
  worker,     \* worker[p]: the baseline a live worker session started from
  briefing,   \* ids of the runs whose brief is being drafted
  reviewing,  \* reviewer spawns in flight: packet and the attempt it reads
  undoing,    \* restores under way, and what each does when it is through
  drafts, restarts,
  torn,       \* history: the attempts a crash caught between their snapshot's
              \* removal and the commit of the decision
  rewriting   \* rewrites under way: the file, and the packet and attempt asking

vars == <<run, saved, disk, snap, worker, briefing, reviewing, undoing, drafts, restarts,
          torn, rewriting>>

SnapsTyped(snaps) ==
  /\ DOMAIN snaps = Packet
  /\ \A p \in Packet : snaps[p] = NoSnapshot \/ IsBaseline(snaps[p])

WorkersTyped(workers) ==
  /\ DOMAIN workers = Packet
  /\ \A p \in Packet : workers[p] \in {NoWorker, Refused} \/ IsBaseline(workers[p])

UndosTyped(undos) ==
  \A u \in undos :
    /\ u = [by |-> u.by, packet |-> u.packet, next |-> u.next, left |-> u.left, to |-> u.to]
    /\ u.by \in Clients \cup {"orchestrator", "autonomy"} /\ u.packet \in Packet
    /\ u.next \in {"pending", "failed"}
    /\ IsBaseline(u.to) /\ u.left \subseteq DOMAIN u.to

\* The types, and what a snapshot, a baseline and a restore under way hold.
TypeOK ==
  /\ run \in Run /\ saved \in Run
  /\ disk \in [File -> Content]
  /\ SnapsTyped(snap) /\ WorkersTyped(worker) /\ UndosTyped(undoing)
  /\ briefing \subseteq Nat
  /\ reviewing \subseteq [packet : Packet, attempt : Nat]
  /\ drafts \in Nat /\ restarts \in Nat
  /\ torn \subseteq Packet \X Nat
  /\ rewriting \subseteq [packet : Packet, attempt : Nat, file : File]

Init ==
  /\ run = NoRun /\ saved = NoRun
  /\ disk = [f \in File |-> {}]
  /\ snap = [p \in Packet |-> NoSnapshot]
  /\ worker = [p \in Packet |-> NoWorker]
  /\ briefing = {} /\ reviewing = {} /\ undoing = {}
  /\ drafts = 0 /\ restarts = 0
  /\ torn = {} /\ rewriting = {}

------------------------------------------------------------------------------
(* The scheduler.                                                           *)

\* advanceWorkRun: start what may start, else settle the run when it is over.
Advance(r) ==
  LET S == StartablePackets(r)
  IN  IF r.status # "running" THEN r
      ELSE IF S # {} THEN Started(r, S)
      ELSE IF InFlight(r) = {} /\ AllSettled(r) THEN [r EXCEPT !.status = RunOutcome(r)]
      ELSE r

\* runOnePacket up to its first await: the packets started between r0 and r1
\* get a snapshot of their edit scope and a session, or neither.
Launched(r0, r1) == {p \in Packet : r1.attempts[p] # r0.attempts[p]}

\* Mutant: the snapshot covers the whole project.
SnapshotEverything(r, p) == [f \in File |-> disk[f]]

SnapshotPacketFiles(r, p) == [f \in EditScopeOf(r, p) |-> disk[f]]

Become(r0, r1, snaps, workers) ==
  /\ run' = r1
  /\ snap' = [p \in Packet |-> IF p \in Launched(r0, r1) \ Unlaunchable
                               THEN SnapshotPacketFiles(r1, p) ELSE snaps[p]]
  /\ worker' = [p \in Packet |-> IF p \in Launched(r0, r1)
                                 THEN IF p \in Unlaunchable THEN Refused
                                      ELSE SnapshotPacketFiles(r1, p)
                                 ELSE workers[p]]

\* A handler that ends in commitWorkRun() and advanceWorkRun().
CommitAndAdvance(r0, r1, snaps, workers) ==
  Become(r0, Advance(r1), snaps, workers) /\ saved' = run'

------------------------------------------------------------------------------
(* Undoing a packet: restorePacketSnapshot and what follows its awaits.     *)

\* Mutant: the last rejection goes back to the human.
AfterRejectionEscalate(r, p) ==
  IF r.packet[p] = "awaiting-review" /\ r.attempts[p] < MaxPacketAttempts
  THEN "pending" ELSE "escalated"

\* Where a rejected packet goes: one re-draft, then honest failure.
AfterRejection(r, p) ==
  IF r.packet[p] = "awaiting-review" /\ r.attempts[p] < MaxPacketAttempts
  THEN "pending" ELSE "failed"

\* Mutant: under autonomy the escalation is left open.
FlipReviewsOnly(r, by, p, next) ==
  IF by = "autonomy" THEN r ELSE SetPacketStatus(r, p, next)

\* The status flip once the restore is through: applyPacketReview's
\* setPacketStatus, or resolveEscalationAutonomously.
Flip(r, by, p, next) ==
  IF by = "autonomy" /\ r.packet[p] # "escalated" THEN r
  ELSE SetPacketStatus(r, p, next)

NothingToRestore(p, snaps) ==
  snaps[p] = NoSnapshot \/ \A f \in DOMAIN snaps[p] : disk[f] = snaps[p][f]

\* Mutant: the restore stops after its first file.
UndoFirstFile(by, p, next, r, c, snaps, workers) ==
  IF NothingToRestore(p, snaps)
  THEN /\ CommitAndAdvance(run, Flip(r, by, p, next),
                           [snaps EXCEPT ![p] = NoSnapshot], workers)
       /\ UNCHANGED <<disk, undoing>>
  ELSE \E f \in DOMAIN snaps[p] :
         /\ disk[f] # snaps[p][f]
         /\ disk' = [disk EXCEPT ![f] = snaps[p][f]]
         /\ undoing' = undoing \cup
              {[by |-> by, packet |-> p, next |-> next, left |-> {}, to |-> snaps[p]]}
         /\ Become(run, r, snaps, workers)
         /\ saved' = c

\* Mutant: the snapshot is dropped before the restore instead of after it.
UndoDropsFirst(by, p, next, r, c, snaps, workers) ==
  IF NothingToRestore(p, snaps)
  THEN /\ CommitAndAdvance(run, Flip(r, by, p, next),
                           [snaps EXCEPT ![p] = NoSnapshot], workers)
       /\ UNCHANGED <<disk, undoing>>
  ELSE \E f \in DOMAIN snaps[p] :
         /\ disk[f] # snaps[p][f]
         /\ disk' = [disk EXCEPT ![f] = snaps[p][f]]
         /\ undoing' = undoing \cup
              {[by |-> by, packet |-> p, next |-> next,
                left |-> DOMAIN snaps[p] \ {f}, to |-> snaps[p]]}
         /\ Become(run, r, [snaps EXCEPT ![p] = NoSnapshot], workers)
         /\ saved' = c

(***************************************************************************)
(* Undo packet p on behalf of by, from run r (last committed as c).  With  *)
(* nothing to restore there is no await; otherwise the first file is       *)
(* written now and the rest, with the flip, is left to later steps.        *)
(***************************************************************************)
UndoPacket(by, p, next, r, c, snaps, workers) ==
  IF NothingToRestore(p, snaps)
  THEN /\ CommitAndAdvance(run, Flip(r, by, p, next),
                           [snaps EXCEPT ![p] = NoSnapshot], workers)
       /\ UNCHANGED <<disk, undoing>>
  ELSE \E f \in DOMAIN snaps[p] :
         /\ disk[f] # snaps[p][f]
         /\ disk' = [disk EXCEPT ![f] = snaps[p][f]]
         /\ undoing' = undoing \cup
              {[by |-> by, packet |-> p, next |-> next,
                left |-> DOMAIN snaps[p] \ {f}, to |-> snaps[p]]}
         /\ Become(run, r, snaps, workers)
         /\ saved' = c

RestoreFile(u, f) ==
  /\ f \in u.left
  /\ disk' = [disk EXCEPT ![f] = u.to[f]]
  /\ undoing' = (undoing \ {u}) \cup {[u EXCEPT !.left = u.left \ {f}]}
  /\ UNCHANGED <<run, saved, snap, worker, briefing, reviewing, drafts, restarts, torn, rewriting>>

\* A human's review that turned illegal meanwhile is answered with an error
\* and commits nothing; the orchestrator's commits and advances regardless.
FinishUndo(u) ==
  LET snaps == [snap EXCEPT ![u.packet] = NoSnapshot]
  IN  /\ u.left = {}
      /\ undoing' = undoing \ {u}
      /\ IF u.by \in Clients /\ ~Legal(run, u.packet, u.next)
         THEN snap' = snaps /\ UNCHANGED <<run, saved, worker>>
         ELSE CommitAndAdvance(run, Flip(run, u.by, u.packet, u.next), snaps, worker)
      /\ UNCHANGED <<disk, briefing, reviewing, drafts, restarts, torn, rewriting>>

\* Escalating packet p of run r: an open gate for the human, or, under
\* autonomy, an undo that ends in "failed" (autonomyResolve).
Escalate(p, r, c, snaps, workers) ==
  LET escalated == SetPacketStatus(r, p, "escalated")
  IN  IF Autonomous
      THEN UndoPacket("autonomy", p, "failed", escalated, c, snaps, workers)
      ELSE /\ CommitAndAdvance(run, escalated, snaps, workers)
           /\ UNCHANGED <<disk, undoing>>

\* Mutant: the approval is not committed.
ApproveUncommitted(p, r, snaps, workers) ==
  /\ Become(run, Advance(SetPacketStatus(r, p, "done")),
            [snaps EXCEPT ![p] = NoSnapshot], workers)
  /\ UNCHANGED <<saved, disk, undoing>>

Approve(p, r, snaps, workers) ==
  /\ CommitAndAdvance(run, SetPacketStatus(r, p, "done"),
                      [snaps EXCEPT ![p] = NoSnapshot], workers)
  /\ UNCHANGED <<disk, undoing>>

------------------------------------------------------------------------------
(* Starting, confirming, pausing, discarding.                               *)

StartRun ==                                   \* createDraftRun
  /\ run.status = "none" /\ drafts < MaxDrafts
  /\ drafts' = drafts + 1
  /\ run' = DraftWorkRun(drafts', IF Mode = "orchestrated" THEN "drafting" ELSE "none")
  /\ saved' = run'
  /\ briefing' = IF Mode = "orchestrated" THEN briefing \cup {drafts'} ELSE briefing
  /\ UNCHANGED <<disk, snap, worker, reviewing, undoing, restarts, torn, rewriting>>

\* ratifyWorkRun: draft -> ratified -> running, and the packets a ready
\* brief marked "no change needed" are settled.
Ratified(r) ==
  LET confirmed == [r EXCEPT !.status = "running"]
  IN  [confirmed EXCEPT !.packet =
         [p \in Packet |-> IF r.brief = "ready" /\ p \in NoChange /\ p \notin SystemPacket
                           THEN "no-change" ELSE r.packet[p]]]

Ratify ==                                     \* handleWorkRunRatify
  /\ run.status = "draft" /\ run.brief # "drafting"
  /\ CommitAndAdvance(run, Ratified(run), snap, worker)
  /\ UNCHANGED <<disk, briefing, reviewing, undoing, drafts, restarts, torn, rewriting>>

\* Mutant: an autonomous run confirms only a brief it got.
BriefLandsIfReady(n, brief) ==
  LET landed == [run EXCEPT !.brief = brief]
  IN  /\ n \in briefing
      /\ briefing' = briefing \ {n}
      /\ IF run.id # n THEN UNCHANGED <<run, saved, snap, worker>>
         ELSE IF Autonomous /\ brief = "ready"
         THEN CommitAndAdvance(run, Ratified(landed), snap, worker)
         ELSE run' = landed /\ saved' = run' /\ UNCHANGED <<snap, worker>>
      /\ UNCHANGED <<disk, reviewing, undoing, drafts, restarts, torn, rewriting>>

BriefLands(n, brief) ==                       \* draftOrchestrationBrief after its await
  LET landed == [run EXCEPT !.brief = brief]
  IN  /\ n \in briefing
      /\ briefing' = briefing \ {n}
      /\ IF run.id # n THEN UNCHANGED <<run, saved, snap, worker>>
         ELSE IF Autonomous THEN CommitAndAdvance(run, Ratified(landed), snap, worker)
         ELSE run' = landed /\ saved' = run' /\ UNCHANGED <<snap, worker>>
      /\ UNCHANGED <<disk, reviewing, undoing, drafts, restarts, torn, rewriting>>

Discard ==                                    \* handleWorkRunDiscard
  /\ run.status = "draft"
  /\ run' = NoRun /\ saved' = NoRun
  /\ UNCHANGED <<disk, snap, worker, briefing, reviewing, undoing, drafts, restarts, torn, rewriting>>

Pause ==                                      \* handleWorkRunPauseResume(false)
  /\ run.status = "running"
  /\ run' = [run EXCEPT !.status = "paused"]
  /\ saved' = run'
  /\ UNCHANGED <<disk, snap, worker, briefing, reviewing, undoing, drafts, restarts, torn, rewriting>>

Resume ==                                     \* handleWorkRunPauseResume(true)
  /\ run.status = "paused"
  /\ CommitAndAdvance(run, [run EXCEPT !.status = "running"], snap, worker)
  /\ UNCHANGED <<disk, briefing, reviewing, undoing, drafts, restarts, torn, rewriting>>

------------------------------------------------------------------------------
(* Workers.                                                                 *)

HasSession(p) == worker[p] \notin {NoWorker, Refused}

\* An edit through the chokepoint: packetScopeCheck refuses it outside the
\* edit scope and when the packet is not running, and the rewrite is spawned.
EditBegins(p, f) ==
  LET e == [packet |-> p, attempt |-> run.attempts[p], file |-> f]
  IN  /\ HasSession(p)
      /\ run.packet[p] = "running" /\ f \in EditScopeOf(run, p)
      /\ <<p, run.attempts[p]>> \notin disk[f] /\ e \notin rewriting
      /\ rewriting' = rewriting \cup {e}
      /\ UNCHANGED <<run, saved, disk, snap, worker, briefing, reviewing, undoing, drafts,
                     restarts, torn>>

\* rewriteAndValidate after its await: nothing is checked again.
EditLands(e) ==
  /\ e \in rewriting
  /\ rewriting' = rewriting \ {e}
  /\ disk' = [disk EXCEPT ![e.file] = @ \cup {<<e.packet, e.attempt>>}]
  /\ UNCHANGED <<run, saved, snap, worker, briefing, reviewing, undoing, drafts,
                 restarts, torn>>

\* A worker waits for the answer to its tool call, so a session ends with no
\* rewrite under way, unless it ran into its timeout.
MayEnd(p) == HasSession(p) /\ (LateWrites \/ \A e \in rewriting : e.packet # p)

\* collectPacketDiffs
Diffs(p) == {f \in DOMAIN worker[p] : disk[f] # worker[p][f]}

Ended(p) == [worker EXCEPT ![p] = NoWorker]

WorkerRefused(p) ==
  /\ worker[p] = Refused
  /\ Escalate(p, run, saved, snap, Ended(p))
  /\ UNCHANGED <<briefing, reviewing, drafts, restarts, torn, rewriting>>

WorkerEscalates(p) ==
  /\ MayEnd(p) /\ "escalate" \in Outcomes
  /\ Escalate(p, [run EXCEPT !.changed[p] = Diffs(p)], saved, snap, Ended(p))
  /\ UNCHANGED <<briefing, reviewing, drafts, restarts, torn, rewriting>>

\* The session failed before it changed anything: no snapshot is kept.
WorkerDiesIdle(p) ==
  /\ MayEnd(p) /\ "died" \in Outcomes /\ Diffs(p) = {}
  /\ Escalate(p, [run EXCEPT !.changed[p] = {}], saved,
              [snap EXCEPT ![p] = NoSnapshot], Ended(p))
  /\ UNCHANGED <<briefing, reviewing, drafts, restarts, torn, rewriting>>

AtReview(p) == SetPacketStatus([run EXCEPT !.changed[p] = Diffs(p)], p, "awaiting-review")

WorkerReportsGated(p) ==
  /\ Mode = "gated"
  /\ MayEnd(p)
  /\ "report" \in Outcomes \/ ("died" \in Outcomes /\ Diffs(p) # {})
  /\ CommitAndAdvance(run, AtReview(p), snap, Ended(p))
  /\ UNCHANGED <<disk, briefing, reviewing, undoing, drafts, restarts, torn, rewriting>>

\* What preCheckReport may decide on the evidence of packet p.
PreCheckMay(decision, died, p) ==
  /\ decision \in PreChecks
  /\ died => decision = "escalate"
  /\ decision = "approve" => /\ AutoApprove /\ p \notin SystemPacket
                             /\ run.attempts[p] = 1 /\ Diffs(p) # {}

\* The freed lane is filled while the packet waits at its gate, then
\* orchestratorReview runs its pre-checks in the same turn.
WorkerReportsOrchestrated(p, died, decision) ==
  LET waiting == Advance(AtReview(p))
  IN  /\ Mode = "orchestrated"
      /\ MayEnd(p)
      /\ IF died THEN "died" \in Outcomes /\ Diffs(p) # {} ELSE "report" \in Outcomes
      /\ PreCheckMay(decision, died, p)
      /\ \/ /\ decision = "approve"
            /\ Approve(p, waiting, snap, Ended(p))
            /\ UNCHANGED reviewing
         \/ /\ decision = "reject"
            /\ UndoPacket("orchestrator", p, AfterRejection(waiting, p),
                          waiting, waiting, snap, Ended(p))
            /\ UNCHANGED reviewing
         \/ /\ decision = "escalate"
            /\ Escalate(p, waiting, waiting, snap, Ended(p))
            /\ UNCHANGED reviewing
         \/ /\ decision = "ask-model"
            /\ Become(run, waiting, snap, Ended(p)) /\ saved' = run'
            /\ reviewing' = reviewing \cup {[packet |-> p, attempt |-> run.attempts[p]]}
            /\ UNCHANGED <<disk, undoing>>
      /\ UNCHANGED <<briefing, drafts, restarts, torn, rewriting>>

------------------------------------------------------------------------------
(* Reviews.                                                                 *)

\* orchestratorReview after its await: the human may have acted meanwhile.
ReviewerAnswers(v, verdict) ==
  /\ v \in reviewing /\ verdict \in Verdicts
  /\ reviewing' = reviewing \ {v}
  /\ \/ /\ run.packet[v.packet] # "awaiting-review"
        /\ UNCHANGED <<run, saved, disk, snap, worker, undoing>>
     \/ /\ run.packet[v.packet] = "awaiting-review" /\ verdict = "approve"
        /\ Approve(v.packet, run, snap, worker)
     \/ /\ run.packet[v.packet] = "awaiting-review" /\ verdict = "reject"
        /\ UndoPacket("orchestrator", v.packet, AfterRejection(run, v.packet),
                      run, saved, snap, worker)
     \/ /\ run.packet[v.packet] = "awaiting-review" /\ verdict = "escalate"
        /\ Escalate(v.packet, run, saved, snap, worker)
     \/ /\ run.packet[v.packet] = "awaiting-review" /\ verdict = "none"
        /\ IF Autonomous THEN Escalate(v.packet, run, saved, snap, worker)
           ELSE saved' = run /\ UNCHANGED <<run, disk, snap, worker, undoing>>
  /\ UNCHANGED <<briefing, drafts, restarts, torn, rewriting>>

\* The board shows the two buttons on a packet at its gate or escalated.
ButtonsShown(c, p) == /\ p \in InRun(run)
                      /\ run.packet[p] \in {"awaiting-review", "escalated"}
                      /\ \A u \in undoing : ~(u.by = c /\ u.packet = p)

HumanApproves(c, p) ==                        \* handleWorkRunReview
  /\ ButtonsShown(c, p)
  /\ Approve(p, run, snap, worker)
  /\ UNCHANGED <<briefing, reviewing, drafts, restarts, torn, rewriting>>

HumanRejects(c, p) ==                         \* handleWorkRunReview
  /\ ButtonsShown(c, p)
  /\ UndoPacket(c, p, AfterRejection(run, p), run, saved, snap, worker)
  /\ UNCHANGED <<briefing, reviewing, drafts, restarts, torn, rewriting>>

------------------------------------------------------------------------------
\* The packets a handler may be deciding when the process dies: the snapshot
\* is removed first, the decision committed last (applyPacketReview).
Deciding ==
  {p \in Packet : \/ \E c \in Clients : ButtonsShown(c, p)
                  \/ \E v \in reviewing : v.packet = p /\ run.packet[p] = "awaiting-review"
                  \/ \E u \in undoing : u.packet = p /\ u.left = {}}

\* The process dies with its sessions, spawns and pending continuations, in
\* the middle of at most one decision; the next reads the persisted run.
Restart ==
  /\ restarts < MaxRestarts
  /\ CrashAtRest => undoing = {} /\ \A p \in Packet : worker[p] = NoWorker
  /\ restarts' = restarts + 1
  /\ run' = LoadWorkRun(saved)
  /\ worker' = [p \in Packet |-> NoWorker]
  /\ briefing' = {} /\ reviewing' = {} /\ undoing' = {} /\ rewriting' = {}
  /\ \E cut \in {{}} \cup (IF CrashAtRest THEN {} ELSE {{p} : p \in Deciding}) :
       /\ snap' = [p \in Packet |-> IF p \in cut THEN NoSnapshot ELSE snap[p]]
       /\ torn' = torn \cup {<<p, saved.attempts[p]>> : p \in cut}
  /\ UNCHANGED <<saved, disk, drafts>>

ServerStep ==
  \/ \E n \in briefing, brief \in {"ready", "unavailable"} : BriefLands(n, brief)
  \/ \E p \in Packet : \/ WorkerRefused(p) \/ WorkerEscalates(p) \/ WorkerDiesIdle(p)
                       \/ WorkerReportsGated(p)
                       \/ \E died \in BOOLEAN, decision \in PreChecks :
                            WorkerReportsOrchestrated(p, died, decision)
  \/ \E v \in reviewing, verdict \in Verdicts : ReviewerAnswers(v, verdict)
  \/ \E u \in undoing : FinishUndo(u) \/ \E f \in u.left : RestoreFile(u, f)
  \/ \E e \in rewriting : EditLands(e)

Edit == \E p \in Packet, f \in File : EditBegins(p, f)

HumanStep ==
  \/ StartRun \/ Ratify \/ Discard \/ Pause \/ Resume
  \/ \E c \in Clients, p \in Packet : HumanApproves(c, p) \/ HumanRejects(c, p)

Next == ServerStep \/ Edit \/ HumanStep \/ Restart

Spec == Init /\ [][Next]_vars

\* Every spawn has a timeout and every await settles, so the server never
\* sits on its own continuations for ever; nothing is asked of the people.
FairSpec == Spec /\ WF_vars(ServerStep)

------------------------------------------------------------------------------
(* Properties.                                                              *)

\* Two packets holding lanes never touch each other's files: neither changes
\* a file the other reaches (laneCompatible, startablePackets).
LanesDisjoint == LanesDisjointIn(run)

\* At most run.parallel packets hold a lane, whatever finished or was sent
\* back meanwhile (startablePackets).
LanesBounded == LanesBoundedIn(run)

\* A packet that was ever started, and not sent back, has all its in-plan
\* dependencies settled clean (nextRunnablePacket).
DependenciesFirst == DependenciesFirstIn(run)

\* No packet waits for one that failed or was skipped: the cascade reaches
\* every dependent in the step that settles the failure (cascadeSkips), and
\* nothing is skipped without such a cause.
CascadeExact == CascadeExactIn(run)

\* A run is over only when no packet is in flight, pending or escalated, and
\* says "done" only if every packet was approved or needed no change
\* (runOutcome, advanceWorkRun).
OutcomeHonest == OutcomeHonestIn(run)

\* Whenever the process dies, the run on disk is one the next process can go
\* on from: it has every property above, with no lane held twice and no
\* packet waiting for a dead one (commitWorkRun, loadWorkRun).
SavedIsSound == Sound(saved)

\* A running run never waits for nothing: a packet is in flight, or one is
\* escalated and shows its buttons (cascadeSkips and runOutcome exist so that
\* no run stalls silently).
NoSilentStall ==
  run.status = "running" =>
    \E p \in InRun(run) : run.packet[p] \in {"running", "awaiting-review", "escalated"}

EditsOf(p) == {f \in File : \E e \in disk[f] : e[1] = p}

\* The board and the tree agree: a packet that is pending, skipped, failed or
\* unchanged has no edit on disk, and one that was approved still has, in
\* exactly the files its evidence named, the edits of the attempt that was
\* approved (applyPacketReview, restorePacketSnapshot, runSummary).
RejectedUndone ==
  \A p \in Packet :
    run.packet[p] \in {"pending", "failed", "skipped", "no-change"} => EditsOf(p) = {}

ApprovedKept ==
  \A p \in Packet : run.packet[p] = "done" =>
    \A f \in File : {e \in disk[f] : e[1] = p} =
                    (IF f \in run.changed[p] THEN {<<p, run.attempts[p]>>} ELSE {})

BoardAndTreeAgree == RejectedUndone /\ ApprovedKept

\* While a packet can still be rejected its snapshot is what the tree would
\* be without it: restoring it takes away this packet's edits and nobody
\* else's (snapshotPacketFiles; the snapshot is persisted so that a restart
\* during the review can still restore).
SnapshotIsBaseline ==
  \A p \in Packet :
    run.packet[p] \in {"running", "awaiting-review"} /\ p \notin Unlaunchable =>
      /\ snap[p] # NoSnapshot
      /\ \A f \in DOMAIN snap[p] : snap[p][f] = {e \in disk[f] : e[1] # p}

\* A packet at its gate can still be undone, across restarts too: the
\* snapshot is persisted so that a restart during the review can restore
\* (snapshotPacketFiles).  The exception is an attempt whose decision the
\* crash caught after the snapshot's removal and before the commit.
GateHasSnapshot ==
  \A p \in Packet :
    run.packet[p] = "awaiting-review" /\ <<p, run.attempts[p]>> \notin torn =>
      snap[p] # NoSnapshot

\* No restore writes a file that a live worker of another packet reads (the
\* comment in runOnePacket: a rejection restores files that are disjoint
\* from whatever started meanwhile).
RestoresApart ==
  \A u \in undoing, p \in Packet :
    HasSession(p) /\ p # u.packet => DOMAIN u.to \cap Reads[p] = {}

\* A packet that is "running" has a worker, and a worker's packet is
\* "running": no packet waits for a session that does not exist.
RunningHasWorker ==
  \A p \in Packet : run.packet[p] = "running" <=> worker[p] # NoWorker

\* A settled packet stays settled, across restarts too: its decision was
\* committed in the step that took it (commitWorkRun).
DecisionsStick ==
  [][\A p \in Packet :
       run.status # "draft" /\ run.packet[p] \in {"done", "failed", "skipped", "no-change"}
         => run'.packet[p] = run.packet[p]]_vars

\* Once the run is over nothing touches the tree on its behalf.
OverIsOver ==
  [][run.status \in {"done", "failed"} => disk' = disk /\ run' = run]_vars

\* A reviewer's approval settles the attempt it read, never a later one
\* (orchestratorReview re-checks the packet after its await).
VerdictOfThisAttempt ==
  [][\A v \in reviewing \ reviewing' :
       run.packet[v.packet] = "awaiting-review" /\ run'.packet[v.packet] = "done"
         => v.attempt = run.attempts[v.packet]]_vars

\* An autonomous run asks nobody: a draft has its brief under way, and a
\* packet at work, at its gate or escalated has a worker, a review or a restore
\* that will settle it (draftOrchestrationBrief, orchestratorReview,
\* autonomyResolve).
AsksNobody ==
  /\ run.status = "draft" => run.id \in briefing
  /\ \A p \in Packet :
       /\ run.packet[p] = "running" => worker[p] # NoWorker
       /\ run.packet[p] = "awaiting-review" => \E x \in reviewing \cup undoing : x.packet = p
       /\ run.packet[p] = "escalated" => \E u \in undoing : u.packet = p

\* An autonomous run ends by itself, whatever its workers and reviewers
\* answer, unless somebody pauses it.
AutonomousRunEnds ==
  run.status = "running" ~> run.status \in {"done", "failed", "paused"}

\* An autonomous draft is confirmed by its own brief, or was discarded.
AutonomousRunBegins ==
  run.status = "draft" ~> run.status # "draft"

------------------------------------------------------------------------------
(***************************************************************************)
(* The Agent Manager implements GatedWork: restarts, escalations and       *)
(* interleaved restores change how a packet gets to its decision, never    *)
(* what the decision may be.  With one exception: where two parties review *)
(* (an orchestrated run with a client, or two clients) two rejections of   *)
(* one attempt may send a packet back a second time.                       *)
(***************************************************************************)
Confirmed == run.status \notin {"none", "draft"}

PhaseOf(s) == CASE s = "pending" -> "waiting"
                [] s \in {"running", "awaiting-review", "escalated"} -> "open"
                [] s \in {"done", "no-change"} -> "kept"
                [] s = "failed" -> "undone"
                [] s = "skipped" -> "left-out"

Gate == INSTANCE GatedWork WITH
          MaxTries <- MaxPacketAttempts,
          confirmed <- Confirmed,
          needs <- [p \in Packet |-> IF Confirmed /\ p \in InRun(run)
                                     THEN DependsOn(run, p) ELSE {}],
          phase <- [p \in Packet |-> PhaseOf(run.packet[p])],
          tries <- run.attempts

\* Every step of a run with one reviewer is a step GatedWork allows, or
\* changes nothing that GatedWork sees.
ImplementsGate == Gate!GWSpec
=============================================================================
