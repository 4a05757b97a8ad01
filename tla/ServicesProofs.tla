---------------------------- MODULE ServicesProofs ----------------------------
(***************************************************************************)
(* The types of the ten services.  Services puts them beside each other,   *)
(* one of them at work in a behaviour: seen through the variables of any   *)
(* one a behaviour of Services is a behaviour of that one, so that what    *)
(* the other modules prove of each holds of Services.                      *)
(***************************************************************************)
EXTENDS Services, ConsentProofs, LiveMapProofs, SessionProofs

\* A step of the services is a step of each, or leaves it alone.
LEMMA StepsAreApart ==
  ASSUME [ServicesNext]_servicesVars
  PROVE  /\ [MapNext]_mapVars /\ [CacheNext]_cacheVars /\ [ChatNext]_chatVars
         /\ [HookedNext]_hookedVars /\ [TasksNext]_taskVars /\ [BuildNext]_buildVars
         /\ [SkillsNext]_skillVars /\ [BriefNext]_briefVars /\ [PlanNext]_planVars
         /\ [RunsNext]_runsVars
BY Zenon DEF ServicesNext, servicesVars

\* Every service behaves as its own specification says: a behaviour of the
\* services is, through the variables of one, a behaviour of that one.
LEMMA ServicesAreApart ==
  ServicesSpec =>
    /\ MapSpec /\ CacheSpec /\ ChatSpec /\ HookedSpec /\ TasksSpec
    /\ BuildSpec /\ SkillsSpec /\ BriefSpec /\ PlanSpec /\ RunsSpec
<1>1. ServicesInit =>
        /\ Init /\ CacheInit /\ ChatInit /\ HookedInit /\ TasksInit
        /\ BuildInit /\ SkillsInit /\ BriefInit /\ PlanInit /\ RunsInit
  BY DEF ServicesInit
<1>2. [ServicesNext]_servicesVars =>
        /\ [MapNext]_mapVars /\ [CacheNext]_cacheVars /\ [ChatNext]_chatVars
        /\ [HookedNext]_hookedVars /\ [TasksNext]_taskVars /\ [BuildNext]_buildVars
        /\ [SkillsNext]_skillVars /\ [BriefNext]_briefVars /\ [PlanNext]_planVars
        /\ [RunsNext]_runsVars
  BY StepsAreApart, Zenon
<1> QED BY <1>1, <1>2, PTL
        DEF ServicesSpec, MapSpec, CacheSpec, ChatSpec, HookedSpec, TasksSpec, BuildSpec,
            SkillsSpec, BriefSpec, PlanSpec, RunsSpec

\* The types of all ten services hold when no run is decided twice at once: an
\* answer that comes late then finds the run it was given for.
THEOREM ServicesAreTyped ==
  ASSUME DecideOnce
  PROVE  ServicesSpec => []ServicesTypeOK
<1>1. ChatSpec => []ChatTypeOK
  <2>1. ChatTypeInv => ChatTypeOK
    BY DEF ChatTypeInv
  <2> QED BY <2>1, ChatTypedInitially, ChatStepIsTyped, PTL DEF ChatSpec
<1>2. HookedSpec => []HookedTypeOK
  <2>1. HookedTypeInv /\ [HookedNext]_hookedVars => HookedTypeInv'
    BY HookedStepIsTyped
  <2> QED BY <2>1, HookedTypedInitially, HookedTypes, PTL DEF HookedSpec
<1>3. BuildSpec => []BuildTypeOK
  <2>1. BuildInit => BuildTypeOK
    BY BuildInitially DEF BuildInv
  <2> QED BY <2>1, BuildStepIsTyped, PTL DEF BuildSpec
<1>4. SkillsSpec => []SkillsTypeOK
  <2>1. SkillsInit => SkillsTypeOK /\ OneSweep(drafting, sweep)
    BY SkillsInitially DEF SkillsInv, Prompted, OneSweep
  <2>2. SkillsTypeOK /\ OneSweep(drafting, sweep) /\ [SkillsNext]_skillVars
          => SkillsTypeOK' /\ OneSweep(drafting, sweep)'
    BY SkillsStayTyped DEF OneSweep
  <2> QED BY <2>1, <2>2, PTL DEF SkillsSpec
<1>5. BriefSpec => []BriefTypeOK
  <2>1. BriefInit => BriefTyped /\ Covered(brief)
    BY BriefInitially DEF BriefInv, BriefInit, Covered
  <2>2. BriefTyped /\ Covered(brief) /\ [BriefNext]_briefVars
          => BriefTyped' /\ Covered(brief)'
    BY BriefStaysTyped DEF Covered
  <2> QED BY <2>1, <2>2, TypedIsTypeOK, PTL DEF BriefSpec
<1>6. PlanSpec => []PlanTypeOK
  <2>1. PlanInv /\ [PlanNext]_planVars => PlanInv'
    BY PlanStep
  <2>2. PlanInv => PlanTypeOK
    BY DEF PlanInv
  <2> QED BY <2>1, <2>2, InitPlan, PTL DEF PlanSpec
<1>7. RunsSpec => []RunsTypeOK
  <2>1. RunsInit => RunsTypeOK
    BY RunsInitially DEF RunsInv
  <2>2. RunsTypeOK /\ [RunsNext]_runsVars => RunsTypeOK'
    BY RunsStayTyped
  <2> QED BY <2>1, <2>2, PTL DEF RunsSpec
<1>8. /\ TypeOK /\ CacheTypeOK /\ ChatTypeOK /\ HookedTypeOK /\ TasksTypeOK
      /\ BuildTypeOK /\ SkillsTypeOK /\ BriefTypeOK /\ PlanTypeOK /\ RunsTypeOK
      => ServicesTypeOK
  BY DEF ServicesTypeOK
<1> QED BY <1>1, <1>2, <1>3, <1>4, <1>5, <1>6, <1>7, <1>8, ServicesAreApart,
           MapIsAlwaysAMap, CacheIsTyped, TasksAreAlwaysTold, PTL
=============================================================================
