SPECIFICATION InboxSpec
CONSTANTS
  Jobs = {j1}
  NoJob = NoJob
  Commands = {c1}
  Ceilings = {1}
  Dids = {d1}
  Unused = Unused
  Gone = Gone
  Actors = {a1, a2}
  Editors = {e1}
  NoEdit = NoEdit
  Chats = {t1, t2}
  NoChat = NoChat
  Tokens = {k1, k2}
  NoToken = NoToken
  MaxRestarts = 1
SYMMETRY McSymmetry
INVARIANTS
  ResolutionsAreAudited
PROPERTIES
  ApprovedStaysApproved
