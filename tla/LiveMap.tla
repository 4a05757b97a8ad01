------------------------------- MODULE LiveMap -------------------------------
(***************************************************************************)
(* The live map: projectParse, what is derived from it, and everything in  *)
(* server.ts that changes either.  Files are patched one at a time by the  *)
(* edit chokepoint, by created files and by restored snapshots; they are   *)
(* edited from outside, which the watcher notices and answers with a full  *)
(* pass; and the threads follow the map through a debounced refresh.  All  *)
(* of these hold a part of the map across awaits.                          *)
(*                                                                         *)
(* A file's content is a version, 0 when the file does not exist.  Of the  *)
(* parser and the linker only this is kept: an entry of the map knows the  *)
(* version it was parsed from and the versions it was linked against.      *)
(***************************************************************************)
EXTENDS Naturals, FiniteSets

CONSTANTS
  File,
  Patch,         \* the changes VibeGraph makes itself, each made once
  Kind,          \* Kind[p]: "edit", "create" or "restore"
  Touches,       \* Touches[p]: the files of patch p; one, unless a restore
  RestoreTo,     \* RestoreTo[p][f]: the version a restore puts back
  External,      \* files changed from outside VibeGraph
  Absent,        \* files that do not exist at first
  Pass,          \* bound: full passes, by number
  Budgets        \* bound: what may happen in one behaviour: the patches made,
                 \* how many external edits, rewrites that do not parse and
                 \* subprocesses that fail, how many readers of evidence

ASSUME LiveMapAssumption ==
  /\ Kind \in [Patch -> {"edit", "create", "restore"}]
  /\ Touches \in [Patch -> (SUBSET File) \ {{}}]
  /\ \A p \in Patch : Kind[p] # "restore" => \E f \in File : Touches[p] = {f}
  /\ RestoreTo \in [Patch -> [File -> Nat]]
  /\ External \subseteq File /\ Absent \subseteq File /\ IsFiniteSet(Pass)
  /\ Budgets \subseteq [patches : SUBSET Patch, external : Nat, breaks : Nat,
                         failures : Nat, readers : Nat]

VARIABLES
  disk,        \* disk[f]: the version on disk
  top,         \* top[f]: the newest version ever written
  broken,      \* the versions that do not parse
  map,         \* projectParse
  linkerFailed,   \* the linker failed in the last refresh or pass
  gens,        \* parseGens
  patch,       \* patch[p]: how far patch p is
  stamped,     \* files whose self-edit stamp is less than two seconds old
  events,      \* watcher notifications not yet delivered
  reparse,     \* debounceTimer is set
  pass,        \* pass[i]: a run of parseAllFiles
  passing,     \* fullPassRunning
  timer,       \* derivedTimer is set
  queued,      \* derivedQueued
  refresh,     \* the derived refresh
  entries,     \* latestEntryPoints: the map they were discovered in
  overlooked,  \* files whose entry points the last discovery failed to find
  threads,     \* latestThreads: the map they were extracted from
  system,      \* latestSystem: the map and the threads it was rolled up from,
               \* NoSystem when that failed
  failed,      \* passFailures is not empty
  settle,      \* a reader of evidence, in settleDerived
  raced,       \* history: a pass overlapped a patch, a refresh or a pass
  budget       \* what may still happen

tree == <<disk, top, broken>>
parse == <<map, gens, linkerFailed>>
watcher == <<stamped, events, reparse>>
refreshing == <<timer, queued, refresh>>
derived == <<entries, overlooked, threads, system, failed>>
passes == <<pass, passing>>
mapVars == <<tree, parse, patch, watcher, passes, refreshing, derived, settle, raced, budget>>

------------------------------------------------------------------------------
(* Entries, links and their merging.                                        *)

Version == [File -> Nat]
Map == [File -> [ver : Nat, seen : Version]]

Solo(v) == [ver |-> v, seen |-> [f \in File |-> 0]]     \* a parse nobody linked
Gone == Solo(0)
Versions(m) == [f \in File |-> m[f].ver]

\* Mutant: the linker's output holds the files that are gone, too.
LinkedAll(m) == [f \in File |-> [ver |-> m[f].ver, seen |-> Versions(m)]]

\* cross_file_link over a map; idempotent, so a linked map may be linked again.
Linked(m) == [f \in File |-> IF m[f].ver = 0 THEN Gone
                             ELSE [ver |-> m[f].ver, seen |-> Versions(m)]]

ParseOf(f, v) == IF <<f, v>> \in broken THEN 0 ELSE v

\* A link under way: the generations it started at and the map it links.
LinkOf(m, g) == [since |-> g, of |-> m]

\* runCrossFileLink: a linker that fails hands back what it was given.
Output(link, ok) == IF ok THEN Linked(link.of) ELSE link.of

\* Mutant: the linker's output replaces the map.
MergeVerbatim(link, ok) == Output(link, ok)

\* mergeRelinked: an entry patched since the link started is kept, a file
\* dropped meanwhile stays dropped.
MergeRelinked(link, ok) ==
  [f \in File |-> IF map[f].ver # 0 /\ gens[f] = link.since[f] /\ link.of[f].ver # 0
                  THEN Output(link, ok)[f] ELSE map[f]]

\* The full pass' own merge takes in files the map did not know, too.
MergePass(link, ok) ==
  [f \in File |-> IF gens[f] = link.since[f] THEN Output(link, ok)[f] ELSE map[f]]

\* A subprocess succeeds, or fails within the bound.
Tries(ok) == \/ ok /\ UNCHANGED budget
             \/ ~ok /\ budget.failures > 0 /\ budget' = [budget EXCEPT !.failures = @ - 1]

\* What is found in a map when the files in l are not looked into.
Found(view, l) == [f \in File |-> IF f \in l THEN Gone ELSE view[f]]

NoMap == [f \in File |-> Gone]
NoSystem == [files |-> NoMap, threads |-> NoMap]

Idle == [at |-> "idle"]
Done == [at |-> "done"]
Busy(job) == job.at \notin {"idle", "done"}

Started(f) == IF f \in Absent THEN 0 ELSE 1       \* the version a project begins with

Init ==
  /\ disk = [f \in File |-> Started(f)]
  /\ top = disk /\ broken = {}
  /\ map = Linked([f \in File |-> Solo(disk[f])])
  /\ gens = [f \in File |-> 0] /\ linkerFailed = FALSE
  /\ patch = [p \in Patch |-> Idle]
  /\ stamped = {} /\ events = {} /\ reparse = FALSE
  /\ pass = [i \in Pass |-> Idle] /\ passing = FALSE
  /\ timer = FALSE /\ queued = FALSE /\ refresh = Idle
  /\ entries = map /\ overlooked = {} /\ threads = map /\ failed = FALSE
  /\ system = [files |-> map, threads |-> threads]
  /\ settle = Idle /\ raced = FALSE
  /\ budget \in Budgets

------------------------------------------------------------------------------
(* Patches: rewriteAndValidate, createFile, restorePacketSnapshot.          *)

Write(f, v) == disk' = [disk EXCEPT ![f] = v] /\ events' = events \cup {f}

\* A patch is called for: an edit of a file the map knows, a file that is not
\* there, the undoing of patches that are through.  One worker holds a file at
\* a time (AgentManager's LanesDisjoint).
MayBegin(p) ==
  /\ patch[p] = Idle /\ p \in budget.patches
  /\ \A q \in Patch : Busy(patch[q]) => Touches[q] \cap Touches[p] = {}
  /\ \/ Kind[p] = "edit" /\ \A f \in Touches[p] : map[f].ver # 0
     \/ Kind[p] = "create" /\ \A f \in Touches[p] : disk[f] = 0
     \/ Kind[p] = "restore" /\ \A q \in budget.patches \ {p} :
          Touches[q] \subseteq Touches[p] => patch[q].at = "done"

BeginEdit(p) ==                               \* up to beginSelfEdit and the spawn
  /\ Kind[p] # "restore" /\ MayBegin(p)
  /\ patch' = [patch EXCEPT ![p] =
       [at |-> "writing", backup |-> [f \in Touches[p] |-> disk[f]]]]
  /\ stamped' = stamped \cup Touches[p]
  /\ UNCHANGED <<tree, parse, events, reparse, passes, refreshing, derived, settle, budget>>

\* The rewriter process writes the file, which may then not parse.
RewriterWrites(p, f) ==
  /\ patch[p].at = "writing" /\ f \in Touches[p]
  /\ Write(f, top[f] + 1)
  /\ top' = [top EXCEPT ![f] = @ + 1]
  /\ \/ UNCHANGED <<broken, budget>>
     \/ /\ Kind[p] = "edit" /\ budget.breaks > 0
        /\ budget' = [budget EXCEPT !.breaks = @ - 1]
        /\ broken' = broken \cup {<<f, top'[f]>>}
  /\ patch' = [patch EXCEPT ![p].at = "written"]
  /\ UNCHANGED <<parse, stamped, reparse, passes, refreshing, derived, settle>>

\* The rewriter returns, with or without having written: endSelfEdit.
RewriterReturns(p) ==
  /\ \/ patch[p].at = "writing" /\ patch' = [patch EXCEPT ![p] = Done]
     \/ patch[p].at = "written" /\ patch' = [patch EXCEPT ![p].at = "parsing"]
  /\ stamped' = stamped \cup Touches[p]
  /\ UNCHANGED <<tree, parse, events, reparse, passes, refreshing, derived, settle, budget>>

\* The parse lands: the entry is replaced, its generation bumped, and the
\* re-link starts in the same turn.  Nobody else writes the file meanwhile,
\* so what was parsed is what is on disk.
ParseLands(p, f) ==
  /\ patch[p].at = "parsing" /\ f \in Touches[p] /\ ParseOf(f, disk[f]) # 0
  /\ map' = [map EXCEPT ![f] = Solo(disk[f])]
  /\ gens' = [gens EXCEPT ![f] = @ + 1] /\ linkerFailed' = linkerFailed
  /\ patch' = [patch EXCEPT ![p] = [at |-> "linking", link |-> LinkOf(map', gens')]]
  /\ stamped' = stamped \cup {f}
  /\ UNCHANGED <<tree, events, reparse, passes, refreshing, derived, settle, budget>>

\* It did not parse: the backup is written back, under the rewriter's stamp.
RollBack(p, f) ==
  /\ patch[p].at = "parsing" /\ f \in Touches[p] /\ ParseOf(f, disk[f]) = 0
  /\ Write(f, patch[p].backup[f])
  /\ patch' = [patch EXCEPT ![p] = Done]
  /\ UNCHANGED <<top, broken, parse, stamped, reparse, passes, refreshing, derived, settle,
                 budget>>

BeginRestore(p) ==
  /\ Kind[p] = "restore" /\ MayBegin(p)
  /\ patch' = [patch EXCEPT ![p] = [at |-> "restoring", left |-> Touches[p], any |-> FALSE]]
  /\ UNCHANGED <<tree, parse, watcher, passes, refreshing, derived, settle, budget>>

\* One file: left alone when it is as it was; deleted, with its entry, when
\* the packet created it; else written, and parsed before the next one.
RestoreOne(p, f) ==
  /\ patch[p].at = "restoring" /\ f \in patch[p].left
  /\ \/ /\ disk[f] = RestoreTo[p][f]
        /\ patch' = [patch EXCEPT ![p].left = @ \ {f}]
        /\ UNCHANGED <<disk, parse, stamped, events>>
     \/ /\ disk[f] # RestoreTo[p][f] /\ RestoreTo[p][f] = 0
        /\ Write(f, 0)
        /\ stamped' = stamped \cup {f}
        /\ map' = [map EXCEPT ![f] = Gone]
        /\ gens' = [gens EXCEPT ![f] = @ + 1] /\ linkerFailed' = linkerFailed
        /\ patch' = [patch EXCEPT ![p].left = @ \ {f}, ![p].any = TRUE]
     \/ /\ disk[f] # RestoreTo[p][f] /\ RestoreTo[p][f] # 0
        /\ Write(f, RestoreTo[p][f])
        /\ stamped' = stamped \cup {f}
        /\ patch' = [patch EXCEPT ![p] = [at |-> "reading", file |-> f, left |-> @.left \ {f}]]
        /\ UNCHANGED parse
  /\ UNCHANGED <<top, broken, reparse, passes, refreshing, derived, settle, budget>>

RestoredParseLands(p) ==
  /\ patch[p].at = "reading"
  /\ LET f == patch[p].file IN /\ map' = [map EXCEPT ![f] = Solo(disk[f])]
                               /\ gens' = [gens EXCEPT ![f] = @ + 1]
                               /\ linkerFailed' = linkerFailed
  /\ patch' = [patch EXCEPT ![p] = [at |-> "restoring", left |-> @.left, any |-> TRUE]]
  /\ UNCHANGED <<tree, watcher, passes, refreshing, derived, settle, budget>>

\* Every file of the snapshot is back: one re-link for all of them, if any.
RestoreLinks(p) ==
  /\ patch[p].at = "restoring" /\ patch[p].left = {}
  /\ patch' = [patch EXCEPT ![p] = IF @.any THEN [at |-> "linking", link |-> LinkOf(map, gens)]
                                   ELSE Done]
  /\ UNCHANGED <<tree, parse, watcher, passes, refreshing, derived, settle, budget>>

\* The re-link of a patch ends, or fails, and scheduleDerivedRefresh.
PatchEnds(p, ok) ==
  /\ patch[p].at = "linking" /\ Tries(ok)
  /\ map' = MergeRelinked(patch[p].link, ok)
  /\ patch' = [patch EXCEPT ![p] = Done]
  /\ timer' = TRUE
  /\ UNCHANGED <<tree, gens, linkerFailed, watcher, passes, queued, refresh, derived, settle>>

------------------------------------------------------------------------------
(* The watcher.                                                             *)

ExternalEdit(f) ==
  /\ f \in External /\ budget.external > 0
  /\ Write(f, top[f] + 1)
  /\ top' = [top EXCEPT ![f] = @ + 1]
  /\ budget' = [budget EXCEPT !.external = @ - 1]
  /\ UNCHANGED <<broken, parse, patch, stamped, reparse, passes, refreshing, derived, settle>>

\* Between beginSelfEdit and endSelfEdit, or within two seconds of a stamp.
SelfEditInFlight(f) ==
  \E p \in Patch : f \in Touches[p] /\ patch[p].at \in {"writing", "written"}

\* Mutant: the stamp of the re-parse is the only one.
StampOnly(f) == f \in stamped /\ \A p \in Patch : f \in Touches[p] => patch[p].at # "written"

IsRecentSelfEdit(f) == SelfEditInFlight(f) \/ f \in stamped

EventArrives(f) ==                            \* watchProject's onChange
  /\ f \in events
  /\ events' = events \ {f}
  /\ reparse' = (reparse \/ ~IsRecentSelfEdit(f))
  /\ UNCHANGED <<tree, parse, patch, stamped, passes, refreshing, derived, settle, budget>>

\* Two seconds are longer than a notification takes.
StampExpires(f) ==
  /\ f \in stamped \ events
  /\ stamped' = stamped \ {f}
  /\ UNCHANGED <<tree, parse, patch, events, reparse, passes, refreshing, derived, settle,
                 budget>>

------------------------------------------------------------------------------
(* The full pass: parseAllFiles.                                            *)

\* The walk lists the files that exist; each is read some time later.
BeginPass(i) ==
  /\ reparse /\ pass[i] = Idle
  /\ reparse' = FALSE /\ passing' = TRUE
  /\ pass' = [pass EXCEPT ![i] =
       [at |-> "parsing", since |-> gens, left |-> {f \in File : disk[f] # 0},
        read |-> [f \in File |-> 0]]]
  /\ UNCHANGED <<tree, parse, patch, stamped, events, refreshing, derived, settle, budget>>

PassReads(i, f) ==
  /\ pass[i].at = "parsing" /\ f \in pass[i].left
  /\ pass' = [pass EXCEPT ![i].left = @ \ {f}, ![i].read[f] = ParseOf(f, disk[f])]
  /\ UNCHANGED <<tree, parse, patch, watcher, passing, refreshing, derived, settle, budget>>

\* Parsed and linked, apart from the live map; then merged into it.
PassMerges(i, ok) ==
  /\ pass[i].at = "parsing" /\ pass[i].left = {} /\ Tries(ok)
  /\ map' = MergePass(LinkOf([f \in File |-> Solo(pass[i].read[f])], pass[i].since), ok)
  /\ linkerFailed' = ~ok
  /\ pass' = [pass EXCEPT ![i] = [at |-> "discovering", view |-> map']]
  /\ failed' = FALSE
  /\ UNCHANGED <<tree, gens, patch, watcher, passing, refreshing, entries, overlooked, threads,
                 system, settle>>

\* runDiscoverEntryPoints: a discovery that fails finds no entry point in the
\* files of its language, and says nothing of it.
Discovers(view, l) ==
  /\ Tries(l = {})
  /\ overlooked' = l /\ entries' = Found(view, l)

Extracting(job, found) == [at |-> "extracting", view |-> job.view, found |-> found]

PassDiscovers(i, l) ==
  /\ pass[i].at = "discovering"
  /\ Discovers(pass[i].view, l)
  /\ pass' = [pass EXCEPT ![i] = Extracting(@, entries')]
  /\ UNCHANGED <<tree, parse, patch, watcher, passing, refreshing, threads, system, failed, settle>>

\* The extraction returns the threads of the entry points that were found, or
\* fails: then the old ones stay, and the warnings say so.  Without an entry
\* point nothing is run, and there are no threads.
Extracts(found, ok) ==
  /\ Tries(ok) /\ (found = NoMap => ok)
  /\ IF ok THEN threads' = found /\ UNCHANGED failed
     ELSE failed' = TRUE /\ UNCHANGED threads

PassExtracts(i, ok) ==
  /\ pass[i].at = "extracting"
  /\ Extracts(pass[i].found, ok)
  /\ pass' = [pass EXCEPT ![i] = [at |-> "rolling", view |-> @.view, threads |-> threads']]
  /\ UNCHANGED <<tree, parse, patch, watcher, passing, refreshing, entries, overlooked, system,
                 settle>>

\* runBuildSystemTier: one that fails leaves the tier empty.
RollsUp(job, ok) ==
  /\ Tries(ok)
  /\ system' = IF ok THEN [files |-> job.view, threads |-> job.threads] ELSE NoSystem

PassEnds(i, ok) ==
  /\ pass[i].at = "rolling"
  /\ RollsUp(pass[i], ok)
  /\ pass' = [pass EXCEPT ![i] = Done]
  /\ passing' = FALSE
  /\ UNCHANGED <<tree, parse, patch, watcher, refreshing, entries, overlooked, threads, failed,
                 settle>>

------------------------------------------------------------------------------
(* The derived refresh.                                                     *)

\* Mutant: a call that finds one running is dropped.
RefreshDropped ==
  /\ IF Busy(refresh) THEN UNCHANGED refresh
     ELSE refresh' = [at |-> "linking", link |-> LinkOf(map, gens)]
  /\ UNCHANGED queued

\* refreshDerived as it is called: one at a time, one more when called again.
RefreshDerived ==
  IF Busy(refresh) THEN queued' = TRUE /\ UNCHANGED refresh
  ELSE refresh' = [at |-> "linking", link |-> LinkOf(map, gens)] /\ UNCHANGED queued

TimerFires ==
  /\ timer /\ timer' = FALSE
  /\ RefreshDerived
  /\ UNCHANGED <<tree, parse, patch, watcher, passes, derived, settle, budget>>

RefreshMerges(ok) ==
  /\ refresh.at = "linking" /\ Tries(ok)
  /\ map' = MergeRelinked(refresh.link, ok)
  /\ linkerFailed' = ~ok
  /\ refresh' = [at |-> "discovering", view |-> map']
  /\ failed' = FALSE
  /\ UNCHANGED <<tree, gens, patch, watcher, passes, timer, queued, entries, overlooked, threads,
                 system, settle>>

RefreshDiscovers(l) ==
  /\ refresh.at = "discovering"
  /\ Discovers(refresh.view, l)
  /\ refresh' = Extracting(refresh, entries')
  /\ UNCHANGED <<tree, parse, patch, watcher, passes, timer, queued, threads, system, failed,
                 settle>>

RefreshExtracts(ok) ==
  /\ refresh.at = "extracting"
  /\ Extracts(refresh.found, ok)
  /\ refresh' = [at |-> "rolling", view |-> refresh.view, threads |-> threads']
  /\ UNCHANGED <<tree, parse, patch, watcher, passes, timer, queued, entries, overlooked, system,
                 settle>>

RefreshEnds(ok) ==
  /\ refresh.at = "rolling"
  /\ RollsUp(refresh, ok)
  /\ refresh' = Idle
  /\ timer' = (timer \/ queued) /\ queued' = FALSE
  /\ UNCHANGED <<tree, parse, patch, watcher, passes, entries, overlooked, threads, failed, settle>>

------------------------------------------------------------------------------
(* settleDerived: whoever reads evidence first waits for what is pending.   *)

Changing(f) == \E p \in Patch : f \in Touches[p] /\ Busy(patch[p])

\* The files its worker is through with.
BeginSettle ==
  LET through == {f \in File : ~Changing(f) /\ \E p \in Patch : f \in Touches[p] /\ patch[p] = Done}
  IN  /\ ~Busy(settle) /\ budget.readers > 0 /\ through # {}
      /\ budget' = [budget EXCEPT !.readers = @ - 1]
      /\ settle' = [at |-> "waiting", left |-> through]
      /\ UNCHANGED <<tree, parse, patch, watcher, passes, refreshing, derived>>

\* Mutant: only the timer is waited for.
SettleReadyUnscheduled == ~timer

SettleReady == ~timer /\ ~Busy(refresh) /\ ~queued /\ ~passing

SettleLooks ==
  /\ settle.at = "waiting"
  /\ \/ /\ timer /\ timer' = FALSE
        /\ RefreshDerived /\ UNCHANGED settle
     \/ /\ SettleReady
        /\ settle' = Done /\ UNCHANGED refreshing
  /\ UNCHANGED <<tree, parse, patch, watcher, passes, derived, budget>>

SettleTimesOut ==                             \* thirty seconds
  /\ settle.at = "waiting" /\ ~SettleReady
  /\ settle' = Idle
  /\ UNCHANGED <<tree, parse, patch, watcher, passes, refreshing, derived, budget>>

------------------------------------------------------------------------------
PatchStep(p) ==
  \/ RewriterReturns(p) \/ RestoredParseLands(p) \/ RestoreLinks(p)
  \/ \E ok \in BOOLEAN : PatchEnds(p, ok)
  \/ \E f \in File : \/ RewriterWrites(p, f) \/ ParseLands(p, f) \/ RollBack(p, f)
                     \/ RestoreOne(p, f)

PassStep(i) ==
  \/ BeginPass(i)
  \/ \E f \in File : PassReads(i, f)
  \/ \E ok \in BOOLEAN : PassMerges(i, ok) \/ PassExtracts(i, ok) \/ PassEnds(i, ok)
  \/ \E l \in SUBSET File : PassDiscovers(i, l)

RefreshStep ==
  \/ TimerFires
  \/ \E ok \in BOOLEAN : RefreshMerges(ok) \/ RefreshExtracts(ok) \/ RefreshEnds(ok)
  \/ \E l \in SUBSET File : RefreshDiscovers(l)

MapServerStep ==
  \/ \E p \in Patch : PatchStep(p)
  \/ \E i \in Pass : PassStep(i)
  \/ RefreshStep \/ SettleLooks
  \/ \E f \in File : EventArrives(f)

MapEnvironment ==
  \/ \E p \in Patch : BeginEdit(p) \/ BeginRestore(p)
  \/ \E f \in File : ExternalEdit(f) \/ StampExpires(f)
  \/ BeginSettle \/ SettleTimesOut

\* A pass and another one, a refresh or a patch are under way together.
Racing ==
  \E i \in Pass : /\ Busy(pass[i])
                 /\ \/ Busy(refresh)
                    \/ \E p \in Patch : Busy(patch[p])
                    \/ \E j \in Pass \ {i} : Busy(pass[j])

MapNext == (MapServerStep \/ MapEnvironment) /\ raced' = (raced \/ Racing')

MapSpec == Init /\ [][MapNext]_mapVars

\* Subprocesses end and timers fire; nobody has to edit anything.
MapServer == MapServerStep /\ raced' = (raced \/ Racing')

------------------------------------------------------------------------------
(* Properties.                                                              *)

\* The types.
TypeOK ==
  /\ disk \in Version /\ top \in Version /\ broken \subseteq File \X Nat
  /\ map \in Map /\ gens \in Version
  /\ \A f \in File : map[f].ver = 0 => map[f] = Gone
  /\ DOMAIN patch = Patch /\ DOMAIN pass = Pass
  /\ stamped \subseteq File /\ events \subseteq File
  /\ {linkerFailed, reparse, passing, timer, queued, failed, raced} \subseteq BOOLEAN
  /\ overlooked \subseteq File
  /\ entries \in Map /\ threads \in Map /\ system \in [files : Map, threads : Map]

\* From the moment its parse lands, a patch is in the map until the file is
\* written again: no link, refresh or pass under way takes it out, whatever
\* they overlap (mergeRelinked: the edit was hidden "from every reader of the
\* map").  One case is excepted, where the code fails: an edit that is rolled
\* back while a pass reads the file.
EditsStayVisible ==
  \A f \in File \ External :
    \/ \E p \in Patch : f \in Touches[p] /\ Busy(patch[p]) /\ patch[p].at # "linking"
    \/ raced /\ \E b \in broken : b[1] = f
    \/ map[f].ver = disk[f]

Quiet ==
  /\ \A p \in Patch : ~Busy(patch[p])
  /\ \A i \in Pass : ~Busy(pass[i])
  /\ events = {} /\ ~reparse /\ ~timer /\ ~Busy(refresh)

\* When nothing is pending the map is the tree, linked as a whole, and all
\* that is derived was derived from it (refreshDerived queues "exactly one
\* follow-up"), but for what a subprocess failed to do last: the links when it
\* was the linker; the entry points, and with them the threads, of the files
\* that were not looked into; the threads when the warnings say so; the system
\* tier when there is none.  Passes that overlap a patch, a refresh or each
\* other are excepted: see the README.
QuietIsCurrent ==
  Quiet /\ ~raced =>
    /\ \A f \in File : map[f].ver = disk[f]
    /\ map = Linked(map) \/ linkerFailed
    /\ entries = Found(map, overlooked)
    /\ threads = entries \/ failed
    /\ system \in {[files |-> map, threads |-> threads], NoSystem}

\* The map holds every edit from its parse on, and is the tree once all is
\* quiet (mergeRelinked, refreshDerived).
MapFollowsTree == EditsStayVisible /\ QuietIsCurrent

\* VibeGraph's own writes never start a full pass, however late their
\* notifications arrive within the two seconds (beginSelfEdit: the stamp
\* after the re-parse "launched the full pass mid-packet").  A rollback may:
\* its write has only the rewriter's stamp, which a slow parse outlives.
OwnEditsStartNoPass ==
  reparse \/ passing => broken # {} \/ \E f \in External : top[f] > Started(f)

\* Evidence read after settleDerived is read from threads that hold what the
\* worker did, unless it is being changed again ("evidence must be read from a
\* SETTLED envelope").  Excepted are a pass that overlapped, an extraction that
\* failed, which the warnings tell, and a file whose entry points a failed
\* discovery overlooked, which nothing tells.
SettledIsFresh ==
  [][settle.at = "waiting" /\ settle'.at = "done" /\ ~raced /\ ~failed =>
       \A f \in settle.left \ overlooked : Changing(f) \/ threads[f].ver = map[f].ver]_mapVars

\* Every change, VibeGraph's own or an external one, gets into the threads,
\* unless its discovery or the extraction failed or a pass overlapped.
ChangesReachThreads ==
  \A f \in File :
    threads[f].ver # disk[f] ~> threads[f].ver = disk[f] \/ f \in overlooked \/ failed \/ raced
=============================================================================
