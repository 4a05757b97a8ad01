# VibeGraph: a TLA+ model of the server's schedulers and stores

VibeGraph (`server.ts`, `src/server/`, `src/webview/`) shows a live map of a
code base and lets language-model workers change it under human or delegated
gates. Most of it is analysis of source text, which these tools do not reach.
What is hard to test is the rest: work that lasts minutes across awaits, child
processes, restarts and people clicking at any moment, and records whose
meaning depends on the order in which drafts, decisions and edits arrive.
This project models that part, model-checks it on small instances and proves
the safety properties of the Agent Manager and of the services for every
instance. Paths below are relative to the repository (`src/` in `PROJECT.json`
is the repository's root).

## 1. Inventory

| component | state | operations | talks to | what makes it correct |
|---|---|---|---|---|
| **Agent Manager, rules** (`src/server/work_run.ts`) | one run: status, packets (status, attempts, evidence), lanes | draft, two transition tables, `startablePackets`, `cascadeSkips`, `runOutcome`, `loadWorkRun` | called by the handlers | lanes disjoint and bounded, dependencies first, cascade exact, outcome honest |
| **Agent Manager, handlers** (`server.ts` 1511-2835) | `workRun`, `work-run.json`, `work-snapshots/`, live sessions, reviewer and brief spawns, restores under way | start, confirm, pause, resume, discard, review, `advanceWorkRun`, `runOnePacket`, `orchestratorReview`, `restorePacketSnapshot` | the rules, the model spawns, the project's files, the board | the tree and the board agree; rejected work is undone and nobody else's; decisions survive crashes; autonomous runs end |
| **Planning and brief** (`plan_work.ts`, `orchestration.ts`) | the plan of a run, the brief of a run | Kahn ordering, parse, `applyBriefOrdering`, `materializeSystemPackets`, pre-checks | the rules | order respects dependencies, cycles reported, no ordering lost that closes none |
| **Live map** (`server.ts` 905-1412, 2988-3130) | per-file parses, links, threads, derived facts, a debounced refresh, full passes | patch, create, restore, full pass, refresh, settle, watch | file watcher, Python and Node children, every reader | edits stay visible, the map is the tree once quiet, no pass for an own edit |
| **Pipeline cache** (`pipeline_cache.ts`) | parses and threads by hash, in memory and under `~/.cache` | begin, keep, save, load | full passes | a warm pass shows what a cold one would |
| **Build runs** (`build_plan.ts`, `changeset*.ts`, `server.ts` 3439-4140) | the roadmap's statuses, the current item, a draft in flight, the person's gate | start, pause, stop, retry, skip, draft, consent, modify, accept, reject | changesets, the tree | the roadmap tells what is on disk; every draft comes to a judgment |
| **Hooked runs** (`hooked_run.ts`, `hooked_runner.ts`) | one session over a snapshot of the whole tree, its record | start, reply, finish, stop, collect, accept, reject | the tree, the live map | a rejected run leaves the tree as it found it, an accepted one lists all it changed |
| **GUI tasks** (`gui_tasks.ts`) | tasks by kind, a batched broadcast | start, step, done, fail, dismiss | webview | one per kind, what clients are told is what runs |
| **Chat** (`chat/claude_stdio_backend.ts`) | child process kept between turns, queue of events | send, model switch, reap, dispose | webview | a turn hears its own answer, memory survives a respawn |
| **Thread skills** (`thread_skill_store.ts`, `thread_skill_stamp.ts`, `skill_sweep.ts`) | a skill per thread with its stamp, drafts in flight, a sweep | draft, sweep, ratify, re-affirm, reject | constraints, map, every agent | what agents are given was read by who ratified it, and of this code |
| **The Brief** (`brief_store.ts`, `brief_server.ts`, `brief_sync.ts`) | ratified and proposed lines, hashes of their citations | draft, sync, accept, reject, "still true" | map, inbox | a line that reads fresh is fresh; no decision is lost |
| **The plan** (`plan_ops.ts`, `plan_decisions.ts`, `plan_promote.ts`, `plan_store.ts`) | items, questions, a ledger of decisions | add, update, drop, agree, reject, resolve, promote | constraints, MCP, CLI | what reads agreed was agreed; what reads promoted is enforced |
| **Constraints, rules, claims** (`constraint_store.ts`, ...) | one JSON document each | state, remove, amend, ratify | plan, skills, workers | ids name what they named |
| **Architecture, topology, software stores** | one JSON document each | validate, read, write | everything | validation before write |
| **Runs of a thread, effect consent** (`run/effect_consent.ts`, `server.ts` 5436-6655) | a secret and the session's trust, a gate and a held token in the tooltip | scan, run to a node, trace, consent, trust | live map, webview | nothing is executed whose effects nobody agreed to |
| **Setup, inbox, spend, observations** | small logs | append, consume | everything | logs bounded |
| **MCP server, command line, webview** | none of their own, but the changeset gate in the browser | requests over the handlers | all | the same guards as the handlers |
| **Parsers, linkers, shared algorithms, quality rules** | none | pure functions | live map | out of scope here |

Hard behaviours: every handler runs to its next `await` and others run in
between (workers of minutes, model reviews, restores that re-parse each file);
several reviewers of one packet; lanes refilled while a packet is under review;
paused runs; crashes between a decision and the next save; snapshots that are
restored long after they were taken; full passes, refreshes and patches that each
replace the map with what they read before an await; a child's close event that
arrives in its successor's turn; records read before a model call and written
after it. `PROJECT.json` lists these as hazards, each
at its line.

## 2. Modules

| module | what it is |
|---|---|
| `WorkRun` | `work_run.ts` as operators on a run: the tables, `LaneCompatible`, `StartablePackets`, `CascadeSkips`, `RunOutcome`, `LoadWorkRun`, and what is *sound* about a run |
| `LaneFill` | the two loops of `work_run.ts` step by step, checked against `WorkRun` |
| `PlanOrder` | the loops of `planWork` and `applyBriefOrdering`, checked against a declarative order |
| `AgentManager` | the server's handlers as actions; the properties |
| `GatedWork` | the abstract specification: what a run promises, apart from files, lanes, reviewers and restores |
| `LiveMap` | `projectParse`, what is derived from it, the watcher, patches, restores, full passes, refreshes |
| `PipelineCache` | what a full pass keeps, saves and finds after a restart |
| `ChatSession` | one stdio session: turns, children, their events and their death |
| `HookedRun` | a session over the whole tree, its evidence and the decision |
| `GuiTasks` | the list of model tasks and what clients are told of it |
| `BuildRun` | the drive loop over a roadmap, the gate, the accept and its revert |
| `ThreadSkills` | drafts, the sweep, stamps, the card and what a person ratifies |
| `BriefStore` | the Brief's lines, their citations' hashes, sync and decisions |
| `PlanLedger` | the plan's items, questions and decisions, and promotion into constraints |
| `ThreadRun` | runs to a node and traces: the scan of effects, the gate, tokens, the session's trust, the execution |
| `MCAgentManager` | small plans for TLC |
| `MCLaneFill` | `LaneFill` beside `PlanOrder`: a behaviour is of the one or the other (`loops`) |
| `Services` | the ten services from `LiveMap` to `ThreadRun` beside each other (`active`) |
| `MCServices` | small instances of them for TLC |
| `WorkRunProofs`, `AgentManagerProofs` | the theorems about the run: rules, then handlers |
| `AgentManagerReviewProofs` | gates, workers, reviews and restores; the refinement of `GatedWork`; the files: board and tree, snapshots, restores; runs nobody watches |
| `ConsentProofs` | agreements: of runs, the Brief, the skills and the plan |
| `LoopProofs` | what the loops of `LaneFill` and `PlanOrder` compute |
| `SessionProofs` | the records of build runs and hooked runs; what the panels are told of tasks and by a chat |
| `LiveMapProofs` | the pipeline cache; the map: that it follows the tree, that evidence is fresh, and the stamps that tell VibeGraph's own edits |
| `ServicesProofs` | what holds of the ten services together |

### The Agent Manager

**Run.** `run` is the object in memory, `saved` the file `.vibegraph/work-run.json`
(`commitWorkRun` writes one from the other). A run is a record of its status, the
brief's status, and per packet the status, the attempts and the files its
evidence names. `id` stands for object identity, which the code compares after
awaits (`workRun !== run`). Texts, models and spend are left out. `ratified` is a
state no await separates from `running`; it is not kept.

**Files.** A file's content is the set of edits it holds, an edit being a packet
and the attempt that made it. That is what the properties tell apart: whose work
is in the tree. A created file is a file whose first edit is that packet's.

**Handlers.** JavaScript runs a handler to its next `await` without interruption,
so an action is a handler up to an await, or one continuation after it, with the
`commitWorkRun()` and `advanceWorkRun()` that end it: `CommitAndAdvance` applies
`Advance` (the scheduler) and launches what it started (`Become`: `runOnePacket`
up to its spawn, which takes the snapshot). What is pending across an await is
state: `worker[p]` (a live session and the baseline it diffs against, or
`Refused` when `runPacketWorker` returned without a session), `reviewing` (model
reviews), `briefing` (brief spawns), `undoing` (restores, with the files left and
what follows). A restore writes its first file in the step that starts it, each
further file in a `RestoreFile` step, since the code re-parses after every write. A
worker's rewrite of a file is two steps, `EditBegins` (the scope check) and
`EditLands` (the write), and `rewriting` holds those in between.

**People.** A client may press what the board shows (`ButtonsShown`, from
`WorkRunPanel.tsx`), one review of a packet at a time; two clients, or a client
beside the orchestrator, may race.

**Environment constants.** `Outcomes`, `PreChecks`, `Verdicts`, `Unlaunchable`
say what workers and reviewers may do; `Clients` and `MaxRestarts` who else acts.
`CrashAtRest` says whether the process may die at any moment or only while no
worker and no restore is under way (a reviewer, a brief and a person may be); at any
moment includes the one between dropping a packet's snapshot and committing the
decision about it, which `torn` remembers. `LateWrites` says whether a worker may end
before a rewrite of its own (a worker that timed out, say).
They select the hazards a run is about; the theorems hold for all of them, or say
in a hypothesis for which.

### The services

The ten services run in the server's process and share no state that is modelled,
so `Services` composes them as a choice: each behaviour is one of them taking its
steps while the others rest in one initial state (`Resting`). This checks each of
them exhaustively; it says nothing of what one does to another, and where one does
touch another the module models the other's part itself (`HookedRun` awaits the
map's refresh as a continuation in `after`, `ThreadSkills` has the versions of the
rules routed to a thread, `PlanLedger` has the constraints).

**Live map.** A file is a version; an entry of the map knows the version it was
parsed from and the versions it was linked against, which is all that the
properties ask of a parser and a linker. The linker, the discovery of entry points,
the extraction and the system roll-up may each fail, as the code lets them: what they
failed to do is in `linkerFailed`, `overlooked`, `failed` and `system`. `map` is `projectParse`; a patch, a full
pass and the refresh hold copies of it across awaits, and each await of
`patchFile`, `runFullPass`, `refreshDerived` and `settleDerived` separates two
actions. The watcher's events are pending notifications, taken or ignored by the
stamps of `beginSelfEdit`. `raced` remembers that a pass overlapped a patch, a
refresh or another pass.

**Pipeline cache.** Hashes are the values they are taken from. A pass hashes,
decides what to keep, links, extracts and saves in steps of `warm`; `saved` is the
directory a restart loads. A save renames three files in turn and may end after any of
them (`SavedUpTo`). `faults` is history: what was lost without being told.

**Chat.** `kids` are the child processes in the order of their spawns, from born to
closed; their lines, exit and close are callbacks of their own between the yields of
the turn's loop. `down` says that a prompt was written to a child that was gone, which
ends the server. `transcript` is what `claude --resume` finds (external).

**Hooked run.** `record` is the live record and its file, `session` the child,
`after` the continuations that await the map. `files` is the tree, `snaps` what the
snapshot holds: editable files within `MAX_FILE_BYTES`.

**GUI tasks.** `tasks` is the list, `told` what clients were last sent, `batch` the
300 ms timer, `works` the work itself, which outlives its panel.

**Build run.** `run` holds the flags of the drive loop and the drafts in flight,
`status` the file `build-plan.json`, `gate` the changeset in the person's browser
(which outlives a restart), `query` a consent or modification being worked on,
`applying` the accept in progress, `wrote` the disk. Checks before the gate end green,
red or with a question.

**Thread skills.** A version stands for the code of a thread and one for the rules
routed to it; a draft in `drafting` keeps what it was prompted with, a stored skill
its stamp, the `card` what the person sees. Drafts and sweeps may be asked for by this
person or elsewhere (another client, an agent over MCP: `ours` is false), and then the
card is not told. `agreed` is history.

**The Brief.** `brief` is the file, read and written whole; `asked` holds the model
calls in flight with the record each read. `known` and `wanted` are history: which
line was written from, or said to hold for, which version, and what the person's
last decision left.

**The plan.** `plan` is the file, one item of the one section that can be promoted;
an operation loads, changes a copy, validates and saves in one step, as the code does
without an await; removing a rule saves the constraints and then the plan, which may
fail. A wording is what an item says, and `Renamings` what renaming a function makes of
each. `rules` are the constraints, whose ids are given out again.
`stands` is history: the version a person last agreed to, functions renamed since
with it; `lapse` names the items the properties except. An entry of the ledger that is
settled keeps no effect.

**Runs of a thread.** `code` has the text on disk and the text the map was parsed
from; an offense is what the scan finds of it. A token is the value it is computed
from (`Minted`), so it matches exactly when the HMAC would. `panel` is the browser's
side of the tooltip and of the trace button, which outlives a restart; `job` is the
server's side, from the scan to the result.

**Plan order.** The rounds of Kahn's loop and of the loop over the brief's
orderings; acyclicity tests are depth-first searches in the code, here the least
closed set (`Reaches`).

## 3. What is checked

| run | instance | question |
|---|---|---|
| `gated` | 3 packets, 2 files, 2 lanes, 1 client, workers that report or die, 1 restart between workers and restores | Is the tree what the board says? `BoardAndTreeAgree` (rejected edits are gone, approved ones are in exactly the files the evidence names), `SnapshotIsBaseline`, `RunningHasWorker`, `OverIsOver`, and `TypeOK` |
| `orchestrated` | 4 packets, one proposed by the brief; narrowed scope, added ordering; 2 drafts; a reviewer that may approve, reject, escalate or give no verdict; 1 restart between workers and restores | Do lanes refilled during reviews and restores stay apart (`RestoresApart`) and in order (`DependenciesFirst`), and does the tree agree with the board? |
| `autonomous` | 2 packets, every worker outcome, no client, weak fairness | Does the run confirm itself, leave nothing to a person (`AsksNobody`) and end by itself, honestly? |
| `restart` | 3 packets, one that cannot be launched, escalations, 1 crash anywhere | Do decisions survive, is the saved run sound, do lanes stay disjoint, does the gate keep its snapshot (`torn` decisions excepted)? Does it still implement `GatedWork`? |
| `lane_fill` | 4 packets in all 2 x 8^4 status mixtures; every graph on 3 threads, every set of brief orderings of them and of one system packet | Are the closed forms of `WorkRun` what the loops compute, in any order (`LoopsMeetTheirClosedForms`)? Is the plan's order honest (`OrderIsHonest`)? |
| `services` | the ten services, each on the bounds below | One or two properties of each, and what must end |

The plan of the first three runs is the smallest with every relation: two
independent packets, a third that depends on one and overlaps the other. Two
lanes are needed for any overlap, two attempts for a retry after a rejection
(`MAX_PACKET_ATTEMPTS` is 2), a second draft for a brief that lands late, one
crash because a restart resets everything that is not on disk. `MaxDrafts` and
`MaxRestarts` are the only bounds those models add to the code.

### The `services` run

| service | properties | bounds, and why they are enough |
|---|---|---|
| map | `MapFollowsTree`, `OwnEditsStartNoPass`, `SettledIsFresh`, `ChangesReachThreads` | 3 files: one edited and restored, one created and deleted by the same rejection, one changed from outside; at most one full pass, one unparsable text, one failure (of the linker, the discovery, the extraction or the roll-up), one reader of evidence, in the mixtures of `MCBudgets`: all patches together, each pair of patches with a failure or a reader, and each other pair of concurrent activities with one patch |
| cache | `WarmIsCold` | 2 files, one calling the other with one of its texts; 3 texts, two of them with the same methods; one project to start from (`StartTexts`), 2 changes (there and back), 1 restart, 1 failed extraction, 1 other trouble (a failed parse, link, discovery, or save, cut after any of its files) |
| chat | `HearsItsOwnAnswer`, `MemoryKept`, `TurnsEnd` | 3 turns, 4 children, 1 death: a turn after a respawn and one after that; one model and `PromptClose`, because of `model_switch` |
| hooked | `DecisionIsHonest`, `SessionsReachReview` | 2 files, 2 runs, 2 edits, 1 reply, 1 restart; `DecideOnce` |
| tasks | `TasksAreTold` | 3 tasks of 2 kinds, 2 steps, 1 finished task kept |
| build | `RoadmapIsHonest`, `DraftsComeToJudgment` | 3 items, one needing another, increments of 2 files (so that the second may fail), 4 drafts, 1 restart; `OneGate`, because of `wrong_item` |
| skills | `SkillIsEarned` | 2 threads, 1 change, 2 drafts, 1 sweep, each asked for here or elsewhere; `Careful` |
| brief | `BriefIsHonest` | 2 lines that cite different things, 2 changes, 3 model calls, of which two may be in flight (card and sync); `Alone` |
| plan | `AgreementHolds`, `PromotedIsEnforced` | 1 item, 2 wordings, one renaming that makes the first the second, 1 question, 1 decision; 1 rule id, so that a removed rule's id is given out again; a person sets `agreed` and `dropped` by hand |
| runs | `RunsAreConsented` | 3 texts of the code (a call that cannot be proved pure, an effect, both), 1 edit, 1 restart; a function that takes arguments, so that the token is held across a second step; `Still`, and no failed scan, because of `scan_failed` |

`ServicesTypeOK` types all ten. The run has 413,921 states.
`PromptClose`, `DecideOnce`, `OneGate`, `Careful`, `Alone` and `Still` each name something the
code does *not* enforce and without which the property is false; they are listed
below with what goes wrong. They say how far the promise holds: what a person, or
the timing of a close event, must not do.

`CHECK_DEADLOCK FALSE` everywhere: a finished run, a run waiting for a human, and a
service that has used its bounds really stop. `NoSilentStall` and the leads-to
properties say what stopping may not mean.

**Fairness.** Everywhere weak, and of the program's own continuations only; nothing
is assumed of people, of edits or of restarts. `FairSpec` is weak fairness of
`ServerStep`: every spawn has a timeout, and a restore is a finite loop of awaits.
In `ServicesFairSpec` each of four services is fair while it is
the active one. `MapServer`: parses and passes are subprocesses with timeouts, the
debounce a timer. `ChatServerStep`: the event loop delivers what is pending, a child
that runs answers or dies, and one that was signalled is gone and reported; a child
that hangs is thereby left out, since nothing in `sendTurn` times out.
`HookedServerStep`: the two-hour timer fires, a signalled process ends, collecting
ends. `DraftStep`: drafts return and floors end. Each is fairness of the disjunction,
so it assumes no order among continuations.

### Disagreements found

Six runs are expected to fail, each on one property quoted from the code:

- `paused_restart`: `loadWorkRun` resets running packets only when the run was
  `running`. Paused with a live worker, then restarted, the run keeps a packet
  `running` for ever, against the comment at `work_run.ts:496`.
- `escalated_reject`: an escalated packet holds no lane but keeps its snapshot; a
  packet approved in between loses its edits when the human marks the escalated
  one failed, against the comment at `server.ts:2344`.
- `stale_verdict`: the guard at `server.ts:2260` lets a verdict about the first
  attempt settle the second, when the human rejected the first meanwhile and the
  re-draft already reached its gate.
- `model_switch`: the `close` handler of `claude_stdio_backend.ts` ends the turn in
  progress whichever child closed, so after a model switch the retired child's close
  ends the next turn with an error while its answer is being written.
- `scan_failed`: a scan of effects that fails finds nothing, the gate at
  `server.ts:5786` refuses only when something was found, and the run is executed,
  against the comments at `server.ts` 5466 and 5471.
- `wrong_item`: accepting a draft marks the item the run is *at* as built; a pause
  and a start with the gate open move it.

TLC also shows the following on instances not kept as runs.

*Agent Manager.* A crash in the middle of a worker leaves edits that the next
snapshot takes as its baseline (`BoardAndTreeAgree`); under autonomy an escalated
packet is restored while it holds no lane (`RestoresApart`); a human approval during
the orchestrator's restore loses the approved edits (`ApprovedKept`); two rejections
of one attempt give a third attempt (`ImplementsGate`); a cyclic
plan stalls (`NoSilentStall`). The passing runs therefore have one reviewer per run,
acyclic plans, and crashes only between workers and restores (`CrashAtRest`) where
`BoardAndTreeAgree` is claimed; a rewrite that lands after its worker has ended
(`server.ts` 3070-3129 is awaited by nobody once a worker timed out, 2484-2494) breaks
`BoardAndTreeAgree`, `SnapshotIsBaseline` and `OverIsOver`, so `LateWrites` is FALSE; a
kill between dropping a snapshot and committing the decision leaves the packet at its
gate with nothing to restore (`GateHasSnapshot` without `torn`), against the comment at
`server.ts` 2340-2341, after which a rejection restores nothing; a restart takes the reviewers of an autonomous run
with it and leaves their packets at the gate (`AsksNobody`), so that run has none.
Those are limits of the code, not of the bounds. `plan.cycles` also names packets that merely depend on
a cycle, and reports two cycles as one.

*Live map.* A failed discovery yields no entry points, and the threads are gone without
a word (the repair at `server.ts` 1002-1007 is of a failed *extraction* only; the
exception `overlooked`); a failed linker passes unlinked parses through until the next
refresh, a failed roll-up leaves no system tier. A full pass that overlaps a patch, a refresh or another pass leaves stale
threads (the exception `raced`); an external edit of a file with the basename of one written
within the last two seconds is never parsed (`External` files are not those
VibeGraph writes); a rollback and an accepted changeset write without a fresh
stamp, so a slow parse lets the watcher start a pass for them.

*Cache.* A pass whose extraction failed saves its links beside the threads of the
pass before it; the next pass keeps those threads and no longer says so, against
`server.ts` 1003-1008. The save renames three files and swallows errors
(`pipeline_cache.ts` 142-150): a kill or a full disk between two of them leaves the
parses of one save beside the threads of another, and after a restart a file changed
back shows stale threads (the exception `mixed`), though the comment at 141 says that a
failure costs only the head start. A parse that fails keeps the old one under the new
key (`misfiled`, line 103). A linker or discovery that fails in a pass is excepted for
that pass alone (`whole`).

*Chat.* A prompt written to a child that died and whose close is still to come raises
`EPIPE` on a stdin nobody listens to (`claude_stdio_backend.ts` 104-109; the handler
exists at `hooked_runner.ts:129`) and ends the server: `TurnsEnd` without `down`.

*Hooked runs.* A file over `MAX_FILE_BYTES` is in no snapshot; made smaller by the
session it counts as added, and rejecting the run deletes it (`DecisionIsHonest`
with `Oversized` contents). A restart while a run is running, waiting or collecting leaves a
record that can neither be finished nor replaced; without `DecideOnce`
(`HookedRunView` does not disable its buttons) a second decision, or a new run,
during the restore is overwritten by the first decision's record; a reply after
finish is lost.

*Build runs.* A failed accept leaves the gate open; a failed re-parse leaves files
that are not reverted; a restart leaves items `drafting` or `gated`, and one in the
middle of an accept leaves half an increment (the exception `torn`); a failed Modify
closes the gate, and a Modify asked for during an accept ends, late, by making the item
that was just built pending again. `OneGate` therefore holds the person back from
starting, retrying or skipping while something is drafted, shown, asked about or built,
and from a Modify during an accept; Stop, Pause, Reject and Consent are free. (For
Skip the guard matters with three independent items only.)

*Skills*, without `Careful`. A sweep's progress gives the card a draft without its
text, and Ratify then ratifies it unread, as does the inbox, which shows no text,
against the card's "this exact text becomes authoritative"; a rule changed during a
draft makes the skill read fresh though it was drafted from the old rules; a skill
ratified while it waits in a sweep is replaced by a draft.
Whatever the person does, a draft that another client or an agent over MCP asked for
(`server.ts` 7846-7856) is stored without the card being told, and Ratify then ratifies
a text nobody read: `SkillIsEarned` without its exception `unread`.

*The Brief*, without `Alone`. A draft that lands overwrites a decision made
meanwhile, since `briefDraft` writes the record it read before its model call. With
shared citations, "still true" on one line clears another.

*The plan.* An agent may drop an agreed item outright, and an agent's rename demotes
an item without keeping the agreed version, so a rejection then drops it; a person
who sets `proposed` by hand loses the agreed version (why `StatusEdits` lacks it); a
promotion whose plan save fails leaves a rule enforced with no link to its item, and
promoting again is refused because of its twin. An agent's `rename-symbol`
(`plan_ops.ts` 221-226) rewrites the text of agreed and promoted items in place, without
demotion: word for word, what reads agreed is then not what was agreed, and what reads
promoted is not what its constraint says (`AgreementHolds` with `stands` left alone,
`PromotedIsEnforced` without `respelt`). When the plan cannot be saved after a rule was
removed, `demoteOrphanedPromotions` returns nothing, as a crash between the two saves
would, and the item keeps an id that may be given out again (`PromotedIsEnforced`
without `orphaned`).

*Runs of a thread*, without `Still`. An edit between the scan and the execution, or
one the live map has not parsed yet, is executed although nobody was shown its
effects.

## 4. What is proved

TLAPS proves each theorem below for every value of the constants that the named
assumptions of the modules allow: any finite set of packets, any plan (cyclic ones
too), any number of lanes, files, drafts, lines, threads and, unless a hypothesis
says otherwise, restarts. A hypothesis is written before the theorem (`ASSUME`);
each is a setting of a passing run, so TLC checks the same statement on an
instance of each. Each says what the code leaves to people or to timing, and
section 3 says what goes wrong without it.

### The Agent Manager: the run

`AgentManagerProofs`, no hypothesis:

- `TypeCorrect`: the type invariant.
- `LanesAreSafe`: `LanesDisjoint` and `LanesBounded`.
- `DependenciesComeFirst`, `CascadeIsAlwaysExact`, `OutcomeIsHonest`.
- `SavedIsAlwaysSound`: the run on disk has all of these too.
- `DecisionsAlwaysStick`: no handler and no restart takes a decision back.

None of these is inductive alone. The cascade needs `DependenciesFirst` (a packet
sent back to `pending` has no dead dependency because it was startable once);
`LanesDisjoint` across the confirmation needs that nothing was touched before it
(`UntouchedIn`), since the brief changes scopes and membership; that in turn needs
that a brief lands only on a run that is still a draft (`BriefsInv`); everything
across a restart needs the same of `saved`, and that each decision in memory is on
disk (`DecidedIn`); and a running run must always be left with a packet in flight or
escalated (`Stirs`). The conjunction is `Inv`; `Sound` in `WorkRun` is its run-level
part. `WorkRunProofs` shows that each rule keeps a run sound (`SoundAfterStart`,
`SoundAfterStatus`, `SoundAfterLoad`, ...), by facts about `FillsLanes` and the least
closure (`CascadeIsExact`: a closed set minus one unneeded packet is still closed).
`AgentManagerProofs` shows, handler by handler, that a step applies such rules and
commits (`Kept`), one lemma per action.

- `NoRunStallsSilently`, under `Acyclic`: the plan and the orderings a brief may add
  to it can be ranked. A cyclic plan does stall (section 3); `planWork` names its
  cycles in the draft, and the brief adds none (`OrderIsAlwaysHonest`, below). While
  nothing is in flight or escalated, the least ranked of the waiting packets depends
  on nothing that waits, and on nothing dead since the cascade is exact, so it may
  start (`SomePacketMayStart`); and while one may, lanes are filled with at least one
  (`SomethingFills`).

### The loops

`LoopProofs`, no hypothesis. Neither needs an induction over data: each loop is a
machine, and what it has done so far is an invariant of its steps.

- `LoopsAlwaysMeetTheirClosedForms`. A pick takes the next packet in build order, and
  of the packets not picked each is later than the picks or excluded by an earlier one
  (`Picks`); when no more can be picked the picks are a filling, and two fillings are
  the same, since they would differ at a first packet (`OneFilling`). Every mark of
  the cascade is in every closed set; when no more can be marked the marks are closed.
- `OrderIsAlwaysHonest`. The invariant `OrderInv` says that what is ordered holds its
  dependencies and nothing on a cycle. When no thread is ready, each of those left
  waits for another; among those it reaches, one that reaches fewest is on a cycle
  (`WaitingReachesCycle`), so each of them is reported rightly. A dependency that closes no
  cycle puts no thread on one (`NoNewCycle`), nor do the brief's packets
  (`AddedIsOnNoCycle`).

### The Agent Manager: gates, workers and restores

`AgentManagerReviewProofs`, under `OneReviewer` (a gated run has one client, an
orchestrated one none; two race, as the run `stale_verdict` shows):

- `ManagerImplementsGate`: the manager implements `GatedWork`, crashes included. It
  says when a packet may be opened, sent back and closed; the attempts a restart takes
  away count, but are not bounded by it.
- `GateAlwaysHasSnapshot`, but for `torn` decisions; `OverIsAlwaysOver`, under
  `~LateWrites`.
- `VerdictIsOfItsAttempt`: what `stale_verdict` refutes for two reviewers.
- `RunningAlwaysHasWorker`, under `CrashAtRest` (a restart that takes a worker with
  it may leave its packet running, as `paused_restart` shows).

The invariant is `ReviewInv`, over `Inv`. Whoever comes back from an await (a worker,
a verdict, a restore) must still mean the packet it left: `WorkersRun`,
`ReviewsOpen` and `UndosOpen` say so of each. That a snapshot outlives a crash needs
it of what the *saved* run could put to review (`SnapsKept`), and the refinement needs
that the saved run is the run in memory but for workers a restart takes (`View`).
Every handler is one of a few kinds of step (`Dealt`, `DealtTurn`), which keep the
invariant and map to a step of `GatedWork`.

The worker theorem needs that the run a restart loads is the run in memory:
`Committed` says that it is, or that the autonomy ruling is still restoring what it
escalated, since that is committed only with the flip that follows (`Persisted`
otherwise). With no worker to lose, `loadWorkRun` then changes no packet
(`RestAtRestart`).

The files, under `FilesHyp`: `OneReviewer`, `CrashAtRest`, `~LateWrites`, no autonomy,
and no escalation in gated mode, the conditions of `gated` and `orchestrated`:

- `BoardAndTreeAlwaysAgree`, `SnapshotsAreBaselines`, `RestoresAreApart`.

The invariant `FilesInv` says, packet by packet, what the files hold of *its* edits
while it runs, waits, is restored and after (`FilesOf`). Handlers of other packets
keep it because their scopes are disjoint while both are in flight
(`LanesAreSafe`) and a restore puts back the tree without its own packet's edits.
A restart keeps it since it changes no packet and takes no restore with it.

A run nobody watches, under `AutonomyHyp`: `Autonomous`, no client, no restart, the
conditions of `autonomous`:

- `AutonomousAsksNobody`: what is at work, at its gate or escalated has a worker, a
  reviewer or a restore that will settle it, and a draft has its brief under way.
- `AutonomousRunNeverWaits`, under `Acyclic`: the server has work under way until
  the run is over or paused. With the fairness of `ServerStep` this is what
  `AutonomousRunEnds` rests on.

`AttendedInv` says it of each packet: at the gate there is a review or a restore of
it, escalated a restore. A handler gives the packet it deals with a decision or
another such continuation (`UndoAttends`, `EscalationAttends`, `ApprovalAttends`) and
leaves the others' alone; that a continuation is never wasted on a packet that moved
on is `ReviewInv` again.

### The services

| theorem | hypothesis | inductive invariant, and why |
|---|---|---|
| `WarmIsAlwaysCold` (`LiveMapProofs`) | none; `misfiled`, `mixed` and the pass's own losses excepted | `CacheInv`: parses are those of the key they were saved under, except between the parse and the save of a pass, where they are the pass's own and the threads still the last one's; threads are those of the linked files saved with them. `KeptIsExtracted`: a thread none of whose files changed, in a project none of whose methods moved, is what the extractor would give |
| `OwnEditsNeverStartAPass` (`LiveMapProofs`) | none | `StampInv`: a notification on its way is of a stamped file, of one a rewriter holds, or of a foreign change; a rollback is only reached by a text that does not parse, since what a patch wrote is still there (`WrittenIsThere`, `OnePatch`) |
| `MapAlwaysFollowsTree`, `EvidenceIsAlwaysFresh` (`LiveMapProofs`) | `PatchHyp`: nobody changes a packet's files from outside, a restore puts back what the project began with | `MapInv`, over `StampInv`: the versions of a file that may stand in the map (`Standing`: the one on disk, the one a patch replaced until its parse lands), in the map, in every link under way whose generation of that file is current, and in what a pass has read; the files that are parsed but not linked yet (`Loose`), apart from which every view is the map unless a refresh is due; for external changes, a notification, a due pass or a pass that has not read the file yet |
| `PromotedIsAlwaysEnforced` (`ConsentProofs`) | none; `orphaned` and `respelt` excepted | a rule's id names the item it was stated from, over removals and ids given out again |
| `AgreementAlwaysHolds` (`ConsentProofs`) | `HandHyp`: nobody sets `proposed` by hand; `unheld` excepted | a proposal keeps the version that stands, renamed as it is |
| `RunsAreAlwaysConsented` (`ConsentProofs`) | `Still`, no failed scan | `RunsInv`: what a job was scanned for is what it will execute, and a token it holds is of this boot, this panel and those offenses |
| `BriefIsAlwaysHonest` (`ConsentProofs`) | `Alone`, `CitesApart` | `BriefInv`: the hashes in the file, in each call's record and in each proposal are of versions the lines were written from |
| `SkillIsAlwaysEarned` (`ConsentProofs`) | `Careful`; `unread` excepted | `SkillsInv`: what the card shows is the stored text, a sweep's draft that cannot be ratified from it yet, or older than a draft asked for elsewhere |
| `RoadmapIsAlwaysHonest` (`SessionProofs`) | `OneGate` | `BuildInv`: one draft, of the run's item; what is at the gate is that item, unbuilt; what an accept has not left to write is written |
| `DecisionIsAlwaysHonest` (`SessionProofs`) | `HookedHyp`: `DecideOnce`, no oversized file | `HookedInv`: a session excludes anything awaited; what is awaited is of the run on record; a pending rejection has restored the tree already. `RestoreGivesBack`: a restore of a snapshot is the tree it was taken of |
| `TasksAreAlwaysTold` (`SessionProofs`) | none | `TasksInv`: what a client was told last is the list, or a change is still to be flushed; pruning takes only finished tasks (`LeavingKeepsWork`) |
| `TurnsAlwaysHearTheirOwn`, `MemoryIsAlwaysKept`, `FailedTurnsAreOver` (`SessionProofs`) | `OneModel`: a prompt is closed at once, one model | `ChatInv`: only the latest child may be open; how far it is with the prompt of the turn in progress (`TurnOf`); what an open child recalls is what is written (`Recalled`) |
| `MapIsAlwaysAMap` (`LiveMapProofs`) | none | `TypeOK` of the map is inductive |
| `ServicesAreTyped` (`ServicesProofs`) | `DecideOnce` | the types of all ten, with what they rest on: `HookedTypeInv` (what is awaited is a step of the run on record, a run in progress has its snapshot), `ChatTypeInv` (a session's child is one that was spawned, a turn in progress has a number, a child at work a prompt), and the invariants above. Without `DecideOnce` a decision whose restore ends late puts an older record over that of a run begun meanwhile, as TLC shows |
`CitesApart` (no two lines cite the same thing) is a hypothesis the proof turned up:
hashes are kept per citation (`brief_sync.ts` 25-48), so "still true" on one line
stamps a citation that another stale line shares, and that one reads fresh though
nobody vouched for it. `OwnEditsStartNoPass` was first stated for files that exist
at first; the proof needed the version a file begins with (`Started`).

### Only model-checked

Every safety property that a passing run checks is stated by a theorem. What is left
to TLC is *liveness*, which rests on fairness and `ENABLED` and is beyond the provers:
`AutonomousRunBegins`, `AutonomousRunEnds`, `ChangesReachThreads`, `TurnsEnd`,
`SessionsReachReview`, `DraftsComeToJudgment`.

## 5. Not modelled

- *Agent Manager*: warm worker sessions (which packet resumes whose session), a
  second run started after a finished one, evidence beyond the list of changed
  files, the text checks of the pre-checks (any decision they may reach is offered,
  under the conditions that `preCheckReport` puts on an approval). Worker processes
  are taken to die with the server. A handler that commits twice, or commits and then
  advances, dies before or after the whole of it.
- *Live map*: a failed re-parse of a restored or created file, the watcher's
  fallbacks, what architecture, stack and crossings derive.
- *Build runs*: proposing and ratifying a roadmap, increments that edit existing
  files, the stage dialogues.
- *Chat*: the SDK backends, which keep no process between turns.
- *Stores*: amendments, ratification and backup of constraints; claims;
  references inside the plan, its objective and its caps; architecture and topology.
  The command line and the server saving one document at once without a lock is known
  from reading only.
- *The Brief and skills*: groups, scopes, path sections, anchors that follow moved
  code, grounding checks on a draft's text, delegated ratification.
- *Runs of a thread*: observing a value, the bash trace (which always asks), the
  consent to example data, the scan of a constructor, the stored trace and its hashes.
- *Chat handler*: what a prompt holds. By reading only: `handleChat` marks the
  framing and the injected skills as sent before the turn succeeds
  (`server.ts` 5028-5046), so after a failed first turn they are not sent again.
- Setup, inbox, spend, attempts, investigations, observations, the
  MCP server and the command line: small logs, tokens and request surfaces.
- Parsers, frontends, linkers, ranking, hierarchy, clone detection and the quality
  rules: pure functions on source text, most of the repository's lines. A model of
  them would be the algorithm written again; their contracts (a parse knows the
  version it read, a link the parses it saw) are what `LiveMap` assumes.
- The webview beyond the buttons that guard a person's actions.

## 6. Plan

1. *Done*: the Agent Manager (`WorkRun`, `LaneFill`, `AgentManager`, `GatedWork`)
   with its theorems; the plan's order; the ten services, and theirs.
2. Next models: warm worker sessions (a session recorded after a rejection cleared
   it), constraint amendments, a run of `LiveMap` with two full passes (the theorems
   hold for any number of them).
3. Proofs: whatever the next models add.
