----------------------------- MODULE HookedRun -----------------------------
(***************************************************************************)
(* The hooked run (hooked_run.ts, hooked_runner.ts): one Claude Code       *)
(* session over a snapshot of the whole editable tree, a conversation with *)
(* a person, the evidence collected when it ends, and the decision that    *)
(* keeps the tree or puts the snapshot back.                               *)
(*                                                                         *)
(* The live record and its copy on disk are one variable: a timer saves    *)
(* what the session changed, and no handler tells running from waiting by  *)
(* the copy.  While a session lives nobody else edits the tree.            *)
(***************************************************************************)
EXTENDS Naturals, Sequences, FiniteSets, Functions

CONSTANTS
  HFile,        \* the project's files
  Content,      \* what a file may hold
  Nothing,      \* the content of a file that is not there
  Oversized,    \* the contents over MAX_FILE_BYTES, which editableFiles skips
  StartTrees,   \* the trees a project may begin with
  HRuns,        \* bound: how many runs are started
  HEdits,       \* bound: how many files the sessions write or delete
  Replies,      \* bound: how many replies are sent (the cost cap of the code)
  HRestarts,    \* bound: how often the server restarts
  DecideOnce    \* TRUE: nobody decides while a rejection is being applied

ASSUME HookedAssumption ==
  /\ Nothing \notin Content /\ Oversized \subseteq Content
  /\ StartTrees \subseteq [HFile -> Content \cup {Nothing}]
  /\ {HRuns, HEdits, Replies, HRestarts} \subseteq Nat /\ DecideOnce \in BOOLEAN

VARIABLES
  record,       \* the run's record: live.run and hooked-run.json
  session,      \* the child process
  after,        \* the continuations that await refresh(): collect and rejections
  files,        \* the project's files
  snaps,        \* the snapshots, by run: a function of the files each holds
  began,        \* history: the tree each run began with
  ended,        \* history: the tree when the last session ended
  used          \* what was used of the bounds, and whether a restart lost a step

hookedVars == <<record, session, after, files, snaps, began, ended, used>>

InProgress == {"running", "waiting", "collecting"}
HStatus == InProgress \cup {"none", "awaiting-review", "accepted", "rejected", "failed"}
Tree == [HFile -> Content \cup {Nothing}]
NoSession == [state |-> "none", ending |-> FALSE, killed |-> FALSE]
HRecord == [id : 0..HRuns, status : HStatus, result : BOOLEAN, changes : SUBSET HFile,
            full : BOOLEAN]

HookedInit ==
  /\ record = [id |-> 0, status |-> "none", result |-> FALSE, changes |-> {}, full |-> FALSE]
  /\ session = NoSession /\ after = {}
  /\ files \in StartTrees /\ ended = files
  /\ snaps = <<>> /\ began = <<>>
  /\ used = [edits |-> 0, replies |-> 0, restarts |-> 0, lost |-> FALSE]

-----------------------------------------------------------------------------
\* editableFiles: what a snapshot copies and a comparison sees.
Editable(t) == {f \in HFile : t[f] \notin Oversized \cup {Nothing}}

\* snapshotTree: a copy of every editable file.
SnapshotTree(t) == [f \in Editable(t) |-> t[f]]

\* compareTree: added, modified and deleted files, against the manifest.
Added(t, snap) == Editable(t) \ DOMAIN snap
CompareTree(t, snap) ==
  Added(t, snap) \cup {f \in DOMAIN snap : f \notin Editable(t) \/ t[f] # snap[f]}

\* mutant: a restore puts back what the snapshot holds and removes nothing
RestoreCopies(t, snap) == [f \in HFile |-> IF f \in DOMAIN snap THEN snap[f] ELSE t[f]]

\* restoreTree: added files are removed, the others get their bytes back.
RestoreTree(t, snap) ==
  [f \in HFile |-> IF f \in Added(t, snap) THEN Nothing
                   ELSE IF f \in CompareTree(t, snap) THEN snap[f] ELSE t[f]]

Drop(id) == Restrict(snaps, DOMAIN snaps \ {id})

\* startHookedRun: refused while a run is in progress or awaits review; the
\* process may not start at all.
HookedStart(spawns) ==
  LET id == record.id + 1
  IN /\ record.status \notin InProgress \cup {"awaiting-review"} /\ record.id < HRuns
     /\ record' = [id |-> id, status |-> IF spawns THEN "running" ELSE "failed",
                   result |-> FALSE, changes |-> {}, full |-> FALSE]
     /\ session' = IF spawns THEN [NoSession EXCEPT !.state = "working"] ELSE session
     /\ snaps' = IF spawns THEN [n \in DOMAIN snaps \cup {id} |->
                                   IF n = id THEN SnapshotTree(files) ELSE snaps[n]]
                 ELSE snaps
     /\ began' = Append(began, files)
     /\ UNCHANGED <<after, files, ended, used>>

\* The session (external) writes, adds or deletes a file.
HookedEdits(f, c) ==
  /\ session.state = "working" /\ used.edits < HEdits /\ files[f] # c
  /\ files' = [files EXCEPT ![f] = c]
  /\ used' = [used EXCEPT !.edits = @ + 1]
  /\ UNCHANGED <<record, session, after, snaps, began, ended>>

\* The result line: the turn ended and the session waits for the person.
HookedTurnEnds ==
  /\ session.state = "working"
  /\ session' = [session EXCEPT !.state = "idle"]
  /\ record' = [record EXCEPT !.result = TRUE, !.status = IF @ = "running" THEN "waiting" ELSE @]
  /\ UNCHANGED <<after, files, snaps, began, ended, used>>

\* replyHookedRun: the same session goes on, unless its input was ended
\* before, and then the reply is lost.
HookedReply ==
  /\ session.state # "none" /\ record.status = "waiting" /\ used.replies < Replies
  /\ record' = [record EXCEPT !.status = "running"]
  /\ session' = IF session.ending THEN session ELSE [session EXCEPT !.state = "working"]
  /\ used' = [used EXCEPT !.replies = @ + 1]
  /\ UNCHANGED <<after, files, snaps, began, ended>>

\* finishHookedRun: the session's input is ended; its status stays waiting.
HookedFinish ==
  /\ session.state # "none" /\ record.status = "waiting"
  /\ session' = [session EXCEPT !.ending = TRUE]
  /\ UNCHANGED <<record, after, files, snaps, began, ended, used>>

\* stopHookedRun and the two-hour timer: SIGTERM.
StopSession ==
  /\ session.state # "none" /\ record.status \in {"running", "waiting"} /\ ~session.killed
  /\ session' = [session EXCEPT !.killed = TRUE]
  /\ UNCHANGED <<record, after, files, snaps, began, ended, used>>

\* The close event, whenever the process ends; collect begins.
Collecting(r) == [r EXCEPT !.status = "collecting"]

CloseSession ==
  /\ session.state # "none"
  /\ session' = NoSession
  /\ record' = Collecting(record)
  /\ after' = after \cup {[step |-> "collect", run |-> record'.id]}
  /\ ended' = files
  /\ UNCHANGED <<files, snaps, began, used>>

\* mutant: the status of a run that did nothing is left as it is
CollectedSilently(r, changes) ==
  [r EXCEPT !.status = IF changes # {} \/ r.result THEN "awaiting-review" ELSE @,
            !.changes = changes, !.full = TRUE]

\* collect, once the map has settled: evidence to review, or a run that did
\* nothing.  When collecting throws the run still goes to review.
Collected(r, changes) ==
  [r EXCEPT !.status = IF changes # {} \/ r.result THEN "awaiting-review" ELSE "failed",
            !.changes = changes, !.full = TRUE]

HookedCollect(throws) ==
  \E a \in after :
    /\ a.step = "collect"
    /\ record' = IF throws THEN [record EXCEPT !.status = "awaiting-review"]
                 ELSE Collected(record, CompareTree(files, snaps[a.run]))
    /\ snaps' = IF record'.status = "failed" THEN Drop(a.run) ELSE snaps
    /\ after' = after \ {a}
    /\ UNCHANGED <<session, files, began, ended, used>>

\* decideHookedRun: accept keeps the tree; reject restores it and is recorded
\* once the map has been refreshed.
Decidable == record.status = "awaiting-review" /\ (DecideOnce => after = {})

HookedAccept ==
  /\ Decidable
  /\ record' = [record EXCEPT !.status = "accepted"]
  /\ snaps' = Drop(record.id)
  /\ UNCHANGED <<session, after, files, began, ended, used>>

HookedReject ==
  /\ Decidable
  /\ files' = IF record.id \in DOMAIN snaps THEN RestoreTree(files, snaps[record.id]) ELSE files
  /\ after' = after \cup {[step |-> "reject", run |-> record.id]}
  /\ UNCHANGED <<record, session, snaps, began, ended, used>>

HookedRejected ==
  \E a \in after :
    /\ a.step = "reject"
    /\ record' = [record EXCEPT !.id = a.run, !.status = "rejected"]
    /\ snaps' = Drop(a.run)
    /\ after' = after \ {a}
    /\ UNCHANGED <<session, files, began, ended, used>>

\* The server restarts: the session and what was awaited are gone, the record,
\* the snapshots and the tree stay.  Nothing reads the record at startup.
HRestart ==
  /\ used.restarts < HRestarts
  /\ used' = [used EXCEPT !.restarts = @ + 1,
                          !.lost = @ \/ session.state # "none" \/ after # {}]
  /\ session' = NoSession /\ after' = {}
  /\ UNCHANGED <<record, files, snaps, began, ended>>

HookedNext ==
  \/ \E spawns \in BOOLEAN : HookedStart(spawns)
  \/ \E f \in HFile, c \in Content \cup {Nothing} : HookedEdits(f, c)
  \/ HookedTurnEnds \/ HookedReply \/ HookedFinish \/ StopSession \/ CloseSession
  \/ \E throws \in BOOLEAN : HookedCollect(throws)
  \/ HookedAccept \/ HookedReject \/ HookedRejected \/ HRestart

HookedSpec == HookedInit /\ [][HookedNext]_hookedVars

\* The two-hour timer fires, a signalled process ends, the map settles; a
\* person may never answer.
HookedServerStep ==
  \/ StopSession \/ HookedRejected
  \/ session.killed /\ CloseSession
  \/ \E throws \in BOOLEAN : HookedCollect(throws)

HookedTypeOK ==
  /\ record \in HRecord
  /\ session \in [state : {"none", "working", "idle"}, ending : BOOLEAN, killed : BOOLEAN]
  /\ after \subseteq [step : {"collect", "reject"}, run : 1..HRuns]
  /\ files \in Tree /\ ended \in Tree
  /\ DOMAIN snaps \subseteq 1..record.id /\ DOMAIN began = 1..record.id

\* What the panel says of a decided run is true: a rejected run left the tree
\* as it found it, an accepted one left it as its session did and listed every
\* file it changed, and until then the snapshot that can undo it is kept.
\* "every file changed (a diff each)"; a restart in the middle of a rejection
\* leaves a restored tree under the old list, and is excepted.
DecisionIsHonest ==
  LET r == record
  IN /\ r.status = "rejected" => files = began[r.id]
     /\ r.status = "accepted" /\ ~used.lost =>
          /\ files = ended
          /\ r.full => r.changes = {f \in HFile : files[f] # began[r.id][f]}
     /\ r.status = "failed" => files = began[r.id]
     /\ r.status \in InProgress \cup {"awaiting-review"} =>
          r.id \in DOMAIN snaps /\ snaps[r.id] = SnapshotTree(began[r.id])

\* A run that is in progress reaches a person: it comes to review, or ends
\* failed with nothing changed, unless a restart took its session away.
SessionsReachReview == record.status \in InProgress ~> (record.status \notin InProgress \/ used.lost)
=============================================================================
