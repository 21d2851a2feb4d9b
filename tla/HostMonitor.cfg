SPECIFICATION FairSpec
CONSTANTS
  Sections = {"llm", "notify"}
  Values = {u1}
  Secrets = {}
  Blank = Blank
  Stored <- Hooked
  Savers = {s1, s2}
  Hosts = {h1, h2}
  Readings <- FewReadings
  FirstReadings <- Quiet
  Cycle = Cycle
  Pollers = {p1}
  MaxMishaps = 2
INVARIANTS
  SuppressedWasTold
PROPERTIES
  LastingIssueIsTold
