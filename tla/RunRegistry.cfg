SPECIFICATION FairSpec
CONSTANTS
  Convos = {c1}
  Runs = {r1}
  Senders = {s1}
  Removers = {d1}
  Streams = {t1, t2}
  MaxParts = 1
INVARIANTS
  RunningIsReachable
PROPERTIES
  RefusesWhileActive
  StreamsEnd
  FinishedAreForgotten
