SPECIFICATION Spec
CONSTANTS
  p1 = p1  p2 = p2  p3 = p3  p4 = p4
  f1 = f1  f2 = f2  f3 = f3
  c1 = c1
  NoSnapshot = NoSnapshot  NoWorker = NoWorker  Refused = Refused
  Packet = {p1, p2, p3}
  SystemPacket = {}
  File = {f1, f2}
  Reads <- MCReads
  Declared <- MCNothing
  PlanDeps <- MCDeps
  BriefAfter <- MCNothing
  NoChange = {}
  Order <- MCOrder
  Lanes = 2
  Mode = "gated"
  Autonomous = FALSE
  AutoApprove = TRUE
  Unlaunchable = {}
  Clients = {c1}
  Outcomes = {"report", "died"}
  PreChecks = {}
  Verdicts = {}
  MaxDrafts = 1
  MaxRestarts = 1
  CrashAtRest = TRUE
  LateWrites = FALSE
INVARIANT TypeOK
INVARIANT BoardAndTreeAgree
INVARIANT SnapshotIsBaseline
INVARIANT RunningHasWorker
PROPERTY OverIsOver
CHECK_DEADLOCK FALSE
