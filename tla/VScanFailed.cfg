SPECIFICATION ServicesSpec
CONSTANTS
  f1 = f1  f2 = f2  f3 = f3
  edit = edit  create = create  reject = reject
  File = {f1, f2, f3}
  Patch = {edit, create, reject}
  Kind <- MCKind
  Touches <- MCTouches
  RestoreTo <- MCRestoreTo
  External = {f3}
  Absent = {f2}
  Pass = {1}
  Budgets <- MCBudgets
  CFile = {f1, f2}
  Text = {1, 2, 3}
  StartTexts <- MCTexts
  NoText = NoText
  Calls <- MCCalls
  Methods <- MCMethods
  Context = {"x", "y"}
  Changes = 2
  CRestarts = 1
  Failures = 1
  Troubles = 0
  Turns = 3
  ChatModel = {"m1"}
  Children = 4
  Deaths = 1
  PromptClose = TRUE
  HFile = {f1, f2}
  Content = {1, 2}
  Nothing = Nothing
  Oversized = {}
  StartTrees <- MCTrees
  HRuns = 2
  HEdits = 2
  Replies = 1
  HRestarts = 1
  DecideOnce = TRUE
  TaskKind = {"brief", "rules"}
  StepText = {"s", "t"}
  StepKeep = 2
  FinishedKeep = 1
  Tasks = 3
  Steps = 2
  i1 = i1  i2 = i2  i3 = i3
  Item = {i1, i2, i3}
  NoItem = NoItem
  Needs <- MCNeeds
  Rank <- MCRank
  Drafts = 4
  BRestarts = 1
  OneGate = TRUE
  SkillThread = {f1, f2}
  None = None
  SkillVersions = 1
  SkillDrafts = 2
  Careful = TRUE
  l1 = l1  l2 = l2
  BriefLine = {l1, l2}
  Cite = {f1, f2}
  Cites <- MCCites
  NoBrief = NoBrief
  Edits = 2
  BriefDrafts = 3
  Alone = TRUE
  PlanItem = {i1}
  Question = {l1}
  Wording = {1, 2}
  Renamings <- MCRenamings
  Nobody = Nobody
  StatusEdits = {"agreed", "dropped"}
  Decisions = 1
  Rules = 1
  CodeText = {1, 2, 3}
  Offense = {"unprovable", "effect"}
  Proven = {"effect"}
  OffensesOf <- MCOffenses
  TakesInputs = TRUE
  Missing = Missing
  CodeEdits = 1
  ScanFailures = 1
  TRestarts = 1
  Still = TRUE
  Active = {"runs"}
INVARIANT ScannedFirst
CHECK_DEADLOCK FALSE
