SPECIFICATION PlaybooksSpec
CONSTANTS
  n1 = n1
  n2 = n2
  b1 = b1
  b2 = b2
  Providers = {"openai", "anthropic"}
  Arguments <- McArguments
  Replies <- McReplies
  NoArgs = NoArgs
  Half = Half
  Pieces = 2
  MaxEvents = 4
  Names = {n1, n2}
  Bodies = {b1, b2}
  People = {u1, u2}
  Agent = Agent
  MaxSkills = 3
  NoSkill = NoSkill
  Gone = Gone
SYMMETRY PeopleAreAlike
INVARIANTS
  BodiesAreWhole
  ApprovedByAPerson
PROPERTIES
  CallsAreThoseMeant
\* the requests of an instance come to their end
CHECK_DEADLOCK FALSE
