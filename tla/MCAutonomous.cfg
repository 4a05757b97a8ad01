SPECIFICATION FairSpec
CONSTANTS
  p1 = p1  p2 = p2  p3 = p3  p4 = p4
  f1 = f1  f2 = f2  f3 = f3
  c1 = c1
  NoSnapshot = NoSnapshot  NoWorker = NoWorker  Refused = Refused
  Packet = {p2, p3}
  SystemPacket = {}
  File = {f1, f2}
  Reads <- MCReads
  Declared <- MCNothing
  PlanDeps <- MCDeps
  BriefAfter <- MCNothing
  NoChange = {p2}
  Order <- MCOrder
  Lanes = 2
  Mode = "orchestrated"
  Autonomous = TRUE
  AutoApprove = TRUE
  Unlaunchable = {}
  Clients = {}
  Outcomes = {"report", "escalate", "died"}
  PreChecks = {"reject", "escalate", "ask-model"}
  Verdicts = {"approve", "reject", "none"}
  MaxDrafts = 1
  MaxRestarts = 0
  CrashAtRest = TRUE
  LateWrites = FALSE
INVARIANT CascadeExact
INVARIANT OutcomeHonest
INVARIANT AsksNobody
PROPERTY AutonomousRunEnds
PROPERTY AutonomousRunBegins
CHECK_DEADLOCK FALSE
