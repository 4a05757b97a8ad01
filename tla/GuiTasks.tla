------------------------------ MODULE GuiTasks ------------------------------
(***************************************************************************)
(* The app's model tasks (gui_tasks.ts and runGuiTask of server.ts): work  *)
(* that runs to its end whatever its panel does, one of a kind at a time,  *)
(* and a list of tasks every client is told, at once or batched.  A task's *)
(* number is its place in the list: tasks join it at the end and nothing   *)
(* moves them.                                                             *)
(***************************************************************************)
EXTENDS Naturals, Sequences, FiniteSets, Functions

CONSTANTS
  TaskKind,      \* brief, groups, rules, setup
  StepText,      \* what a step says
  StepKeep,      \* STEP_KEEP
  FinishedKeep,  \* FINISHED_KEEP
  Tasks,         \* bound: how many tasks are started
  Steps          \* bound: how many steps the work reports in all

ASSUME TasksAssumption == {StepKeep, FinishedKeep, Tasks, Steps} \subseteq Nat

VARIABLES
  tasks,     \* the list: its tasks by number
  batch,     \* a batched broadcast is due
  told,      \* the list the clients were last sent
  works,     \* the work in progress, by task
  begun      \* tasks started and steps reported so far

taskVars == <<tasks, batch, told, works, begun>>

TasksInit ==
  /\ tasks = <<>> /\ told = <<>> /\ batch = FALSE /\ works = {}
  /\ begun = [tasks |-> 0, steps |-> 0]

Step == [text : StepText, live : BOOLEAN]

IsRunning(t) == t.state = "running"
RunningOf(kind) == {id \in DOMAIN tasks : tasks[id].kind = kind /\ IsRunning(tasks[id])}

-----------------------------------------------------------------------------
\* changed: a start, an end or a dismissal is said at once, and what was due
\* with it; a step is batched with those of the next 300 ms.
ChangedList(list, urgent) ==
  /\ tasks' = list
  /\ IF urgent THEN told' = list /\ batch' = FALSE
               ELSE batch' = TRUE /\ UNCHANGED told

Finished(list) == {id \in DOMAIN list : ~IsRunning(list[id])}

\* The oldest finished tasks beyond FINISHED_KEEP.
Excess(list) ==
  {id \in Finished(list) : Cardinality({f \in Finished(list) : f > id}) >= FinishedKeep}

\* mutant: the oldest tasks go, whatever their state
PrunedByAge(list) ==
  Restrict(list, {id \in DOMAIN list : Cardinality({f \in DOMAIN list : f > id}) <= FinishedKeep})

Pruned(list) == Restrict(list, DOMAIN list \ Excess(list))

\* The list with t at its end.
Listed(list, id, t) == [i \in DOMAIN list \cup {id} |-> IF i = id THEN t ELSE list[i]]

\* start: refused while one of its kind runs.  The work begins with it.
TaskStart(kind) ==
  LET id == begun.tasks + 1
      t == [kind |-> kind, state |-> "running", steps |-> <<>>]
  IN /\ RunningOf(kind) = {} /\ begun.tasks < Tasks
     /\ begun' = [begun EXCEPT !.tasks = id]
     /\ works' = works \cup {id}
     /\ ChangedList(Pruned(Listed(tasks, id, t)), TRUE)

\* step: the same text again is dropped, a live step replaces the live one
\* before it, and the last STEP_KEEP are kept.
WithStep(steps, s) ==
  LET n == Len(steps)
      next == IF s.live /\ n > 0 /\ steps[n].live THEN [steps EXCEPT ![n] = s] ELSE Append(steps, s)
  IN IF n > 0 /\ steps[n].text = s.text THEN steps
     ELSE IF Len(next) > StepKeep THEN Tail(next) ELSE next

TaskStep(id, s) ==
  /\ id \in works \cap DOMAIN tasks /\ IsRunning(tasks[id]) /\ begun.steps < Steps
  /\ WithStep(tasks[id].steps, s) # tasks[id].steps
  /\ begun' = [begun EXCEPT !.steps = @ + 1]
  /\ ChangedList([tasks EXCEPT ![id].steps = WithStep(@, s)], FALSE)
  /\ UNCHANGED works

\* The work settles: done or failed, said once.
TaskEnds(id, state) ==
  /\ id \in works \cap DOMAIN tasks /\ IsRunning(tasks[id])
  /\ works' = works \ {id}
  /\ ChangedList([tasks EXCEPT ![id].state = state], TRUE)
  /\ UNCHANGED begun

\* dismiss: a finished task leaves the list.
Dismiss(id) ==
  /\ id \in Finished(tasks)
  /\ ChangedList(Restrict(tasks, DOMAIN tasks \ {id}), TRUE)
  /\ UNCHANGED <<works, begun>>

Flush ==
  /\ batch
  /\ told' = tasks /\ batch' = FALSE
  /\ UNCHANGED <<tasks, works, begun>>

TasksNext ==
  \/ \E kind \in TaskKind : TaskStart(kind)
  \/ \E id \in works :
       \/ \E s \in Step : TaskStep(id, s)
       \/ \E state \in {"done", "failed"} : TaskEnds(id, state)
  \/ \E id \in DOMAIN tasks : Dismiss(id)
  \/ Flush

TasksSpec == TasksInit /\ [][TasksNext]_taskVars

Task == [kind : TaskKind, state : {"running", "done", "failed"}, steps : Seq(Step)]

TasksTypeOK ==
  /\ DOMAIN tasks \subseteq 1..begun.tasks
  /\ \A id \in DOMAIN tasks : tasks[id] \in Task /\ Len(tasks[id].steps) <= StepKeep
  /\ batch \in BOOLEAN /\ works \subseteq 1..begun.tasks
  /\ begun \in [tasks : 0..Tasks, steps : 0..Steps]

\* The list is true to the work: what runs is listed as running and nothing
\* else is, one of a kind, and what the clients were told is the list unless a
\* batch is due, so a bubble never shows a task that ended as running.
TasksAreTold ==
  /\ {id \in DOMAIN tasks : IsRunning(tasks[id])} = works
  /\ \A kind \in TaskKind : \A i, j \in RunningOf(kind) : i = j
  /\ ~batch => told = tasks
  /\ \A id \in DOMAIN told : IsRunning(told[id]) => id \in works
=============================================================================
