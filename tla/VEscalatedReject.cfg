SPECIFICATION Spec
CONSTANTS
  p1 = p1  p2 = p2  p3 = p3  p4 = p4
  f1 = f1  f2 = f2  f3 = f3
  c1 = c1
  NoSnapshot = NoSnapshot  NoWorker = NoWorker  Refused = Refused
  Packet = {p1, p2, p3}
  SystemPacket = {}
  File = {f1, f2}
  Reads <- MCReads
  Declared <- MCNothing
  PlanDeps <- MCDeps
  BriefAfter <- MCNothing
  NoChange = {}
  Order <- MCOrder
  Lanes = 1
  Mode = "gated"
  Autonomous = FALSE
  AutoApprove = TRUE
  Unlaunchable = {}
  Clients = {c1}
  Outcomes = {"report", "escalate"}
  PreChecks = {}
  Verdicts = {}
  MaxDrafts = 1
  MaxRestarts = 0
  CrashAtRest = TRUE
  LateWrites = FALSE
INVARIANT ApprovedKept
CHECK_DEADLOCK FALSE
