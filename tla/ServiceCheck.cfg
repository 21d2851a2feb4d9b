SPECIFICATION FromShort
CONSTANTS
  c1 = c1
  c2 = c2
  Checks = {c1, c2}
  Gone = Gone
  Configs <- ConfigsOf
  Conditions <- ConditionsOf
  Poller = poller
  Testers = {t1}
  Repairs = {r1}
  MaxCooldown = 2
  MaxFails = 2
  MaxActs = 1
PROPERTIES
  NoRepairInCooldown
  SustainedFailureCommits
  StillDownIsRetried
  EveryCheckGetsItsTurn
