SPECIFICATION Spec
CONSTANTS
  p1 = p1  p2 = p2  p3 = p3  p4 = p4
  f1 = f1  f2 = f2  f3 = f3
  c1 = c1
  NoSnapshot = NoSnapshot  NoWorker = NoWorker  Refused = Refused
  Packet = {p1, p2, p3, p4}
  SystemPacket = {p4}
  File = {f1, f2, f3}
  Reads <- MCReads
  Declared <- MCDeclared
  PlanDeps <- MCDeps
  BriefAfter <- MCAfter
  NoChange = {}
  Order <- MCOrder
  Lanes = 2
  Mode = "orchestrated"
  Autonomous = FALSE
  AutoApprove = TRUE
  Unlaunchable = {}
  Clients = {}
  Outcomes = {"report"}
  PreChecks = {"approve", "reject", "ask-model"}
  Verdicts = {"approve", "reject", "escalate", "none"}
  MaxDrafts = 2
  MaxRestarts = 1
  CrashAtRest = TRUE
  LateWrites = FALSE
INVARIANT RestoresApart
INVARIANT DependenciesFirst
INVARIANT BoardAndTreeAgree
CHECK_DEADLOCK FALSE
