SPECIFICATION FairSpec
CONSTANTS
  Jobs = {j1}
  NotYet = NotYet
  Gone = Gone
  MinutesInHour = 2
  HoursInDay = 2
  DaysInMonth = 3
  MonthsInYear = 2
  Horizon = 48
  LastMinute = 2
  LocalOf <- PutBack
  Schedules <- TwoSchedules
  RunIds = {r1, r2}
  Editors = {e1}
  NoEdit = NoEdit
  MaxActs = 3
INVARIANTS
  FiresOncePerMinute
PROPERTIES
  NoMinuteIsMissed
  DeletedForGood
  OneOffIsRetired
