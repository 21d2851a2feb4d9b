SPECIFICATION FairSpec
CONSTANTS
  u1 = u1
  u2 = u2
  u3 = u3
  t1 = t1
  t2 = t2
  h1 = h1
  h2 = h2
  Uids = {u1, u2, u3}
  Names = {"bot", "root"}
  Roles = {"admin", "operator"}
  Unused = Unused
  Gone = Gone
  FirstUsers <- McFirstUsers
  Forms = {f1, f2}
  MaxEvents = 3
  Chats = {t1, t2}
  Hosts = {h1, h2}
  NoHost = NoHost
  BotName = "bot"
  Messages <- McMessages
  Unsure = Unsure
  MaxUpdates = 3
INVARIANTS
  HandledOncePerLife
  NamesAreUnique
PROPERTIES
  RunsWhereTold
  EveryUpdateIsTaken
CHECK_DEADLOCK FALSE
