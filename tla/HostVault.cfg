SPECIFICATION Spec
CONSTANTS
  a1 = a1
  a2 = a2
  admin = admin
  k1 = k1
  k2 = k2
  p1 = p1
  c1 = c1
  Hosts = {h1}
  Credentials = {c1}
  Addresses = {a1, a2}
  Users = {admin, Root}
  Keys = {k1, k2, k3, k4}
  FreshKeys = {k3, k4}
  Passwords = {p1}
  Root = Root
  Blank = Blank
  None = None
  Gone = Gone
  FirstRows <- SomeRows
  FirstCredentials <- SomeShared
  FirstAccepted <- SomeAccepted
  Forms <- SomeForms
  Requests = {r1, r2}
  MaxMishaps = 2
INVARIANTS
  LastKeyWins
  TestMirrorsSave
PROPERTIES
  SwitchKeepsAccess
SYMMETRY KeysAndRequestsAreAlike
CHECK_DEADLOCK FALSE
