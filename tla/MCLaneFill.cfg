SPECIFICATION PlanningSpec
CONSTANTS
  p1 = p1  p2 = p2  p3 = p3  p4 = p4
  f1 = f1  f2 = f2  f3 = f3
  Packet = {p1, p2, p3, p4}
  SystemPacket = {p4}
  File = {f1, f2, f3}
  Reads <- MCReads
  Declared <- MCDeclared
  PlanDeps <- MCDeps
  BriefAfter <- MCAfter
  NoChange = {}
  Order <- MCOrder
  Lanes = 2
  t1 = t1  t2 = t2  t3 = t3  x1 = x1
  Thread = {t1, t2, t3}
  SystemThread = {x1}
  Best <- MCBest
INVARIANT LoopsMeetTheirClosedForms
INVARIANT OrderIsHonest
CHECK_DEADLOCK FALSE
