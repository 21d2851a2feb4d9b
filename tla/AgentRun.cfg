SPECIFICATION FairSpec
CONSTANTS
  Texts = {"", "ls", "mkdir", "systemctl restart", "mkfs"}
  NoText = ""
  Users = {owner, root, other}
  Owner = owner
  Admins = {root}
  NoUser = NoUser
  Hosts = {"web", "lab", "far"}
  NoHost = "none"
  ActiveHost = "web"
  InScope = {"web", "lab"}
  Autonomy <- McAutonomy
  CallIds = {"call_0", "call_1"}
  NoCall = NoCall
  Requests <- McRequests
  Edits <- McEdits
  NoEdit = NoEdit
  Plans <- McPlans
  NoPlan = NoPlan
  JobCeiling = 1
  JobAllow <- McJobAllow
  MaxIters = 2
  MaxCalls = 1
INVARIANTS
  RunsOnlyWithAuthority
  ApprovedAtItsOwnRisk
  PlanStaysInside
  JobNeverWaits
PROPERTIES
  StopEndsTheLoop
  ImplementsGate
  EveryRunEnds
