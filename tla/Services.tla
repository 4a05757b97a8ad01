------------------------------ MODULE Services ------------------------------
(***************************************************************************)
(* The services that run beside the Agent Manager, each a component of its *)
(* own: they share the server's process and no state that is modelled, so  *)
(* a behaviour is a behaviour of one of them while the others rest, and    *)
(* Active says of which.                                                   *)
(***************************************************************************)
EXTENDS LiveMap, PipelineCache, ChatSession, HookedRun, GuiTasks, BuildRun,
        ThreadSkills, BriefStore, PlanLedger, ThreadRun

CONSTANT Active        \* the components a behaviour may be of

ASSUME ServicesAssumption ==
  Active \subseteq {"map", "cache", "chat", "hooked", "tasks", "build", "skills",
                    "brief", "plan", "runs"}

VARIABLE active

servicesVars == <<mapVars, cacheVars, chatVars, hookedVars, taskVars, buildVars,
                  skillVars, briefVars, planVars, runsVars, active>>

\* A component at rest has one initial state.
Resting ==
  /\ active # "map" => budget = CHOOSE b \in Budgets : TRUE
  /\ active # "cache" =>
       source = [texts |-> CHOOSE t \in StartTexts : TRUE, ctx |-> CHOOSE x \in Context : TRUE]
  /\ active # "chat" => chat.model = CHOOSE m \in ChatModel : TRUE
  /\ active # "hooked" => files = CHOOSE t \in StartTrees : TRUE
  /\ active # "runs" => code.disk = CHOOSE t \in CodeText : TRUE

ServicesInit ==
  /\ active \in Active
  /\ Init /\ CacheInit /\ ChatInit /\ HookedInit /\ TasksInit /\ BuildInit
  /\ SkillsInit /\ BriefInit /\ PlanInit /\ RunsInit
  /\ Resting

ServicesNext ==
  \/ /\ active = "map" /\ MapNext
     /\ UNCHANGED <<cacheVars, chatVars, hookedVars, taskVars, buildVars,
                    skillVars, briefVars, planVars, runsVars, active>>
  \/ /\ active = "cache" /\ CacheNext
     /\ UNCHANGED <<mapVars, chatVars, hookedVars, taskVars, buildVars,
                    skillVars, briefVars, planVars, runsVars, active>>
  \/ /\ active = "chat" /\ ChatNext
     /\ UNCHANGED <<mapVars, cacheVars, hookedVars, taskVars, buildVars,
                    skillVars, briefVars, planVars, runsVars, active>>
  \/ /\ active = "hooked" /\ HookedNext
     /\ UNCHANGED <<mapVars, cacheVars, chatVars, taskVars, buildVars,
                    skillVars, briefVars, planVars, runsVars, active>>
  \/ /\ active = "tasks" /\ TasksNext
     /\ UNCHANGED <<mapVars, cacheVars, chatVars, hookedVars, buildVars,
                    skillVars, briefVars, planVars, runsVars, active>>
  \/ /\ active = "build" /\ BuildNext
     /\ UNCHANGED <<mapVars, cacheVars, chatVars, hookedVars, taskVars,
                    skillVars, briefVars, planVars, runsVars, active>>
  \/ /\ active = "skills" /\ SkillsNext
     /\ UNCHANGED <<mapVars, cacheVars, chatVars, hookedVars, taskVars,
                    buildVars, briefVars, planVars, runsVars, active>>
  \/ /\ active = "brief" /\ BriefNext
     /\ UNCHANGED <<mapVars, cacheVars, chatVars, hookedVars, taskVars,
                    buildVars, skillVars, planVars, runsVars, active>>
  \/ /\ active = "plan" /\ PlanNext
     /\ UNCHANGED <<mapVars, cacheVars, chatVars, hookedVars, taskVars,
                    buildVars, skillVars, briefVars, runsVars, active>>
  \/ /\ active = "runs" /\ RunsNext
     /\ UNCHANGED <<mapVars, cacheVars, chatVars, hookedVars, taskVars,
                    buildVars, skillVars, briefVars, planVars, active>>

ServicesSpec == ServicesInit /\ [][ServicesNext]_servicesVars

\* The service that is up is fair; the others have nothing to do.
ServicesFairSpec ==
  /\ ServicesSpec
  /\ WF_mapVars(active = "map" /\ MapServer)
  /\ WF_chatVars(active = "chat" /\ ChatServerStep)
  /\ WF_hookedVars(active = "hooked" /\ HookedServerStep)
  /\ WF_buildVars(active = "build" /\ DraftStep)

\* The types of all ten services.
ServicesTypeOK ==
  /\ TypeOK /\ CacheTypeOK /\ ChatTypeOK /\ HookedTypeOK /\ TasksTypeOK
  /\ BuildTypeOK /\ SkillsTypeOK /\ BriefTypeOK /\ PlanTypeOK /\ RunsTypeOK
=============================================================================
