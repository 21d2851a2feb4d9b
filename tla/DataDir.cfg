SPECIFICATION FairSpec
CONSTANTS
  k1 = k1
  k2 = k2
  k3 = k3
  Pairs = {p1, p2}
  NoFile = NoFile
  Installers = {i1, i2}
  MaxEvents = 3
  Workers = {w1, w2}
  Main = w1
  Keys = {k1, k2, k3}
  NoKey = NoKey
  Scripts <- McScripts
  Requests = {r1, r2}
  Given <- McGiven
INVARIANTS
  PairMatches
  KeyStaysWithTheDatabase
  UpMeansReady
PROPERTIES
  ServesAgain
\* a container that finds one of the two certificate files does not start
CHECK_DEADLOCK FALSE
