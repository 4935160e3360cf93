SPECIFICATION WfSpec
CONSTANTS
  Subjects = {s1}
  LegacySubjects = {s1}
  Clients = {c1, c2}
  Users = {u1, u2}
  NoUser = noone
  Resolver = resolver
  NoClient = nobody
  Types = {"place", "cafe"}
  NoType = "none"
  IsA <- Pair
  Labels = {"model"}
  TgLabels = {"tg-ai:gpt"}
  ResolverLabel = "tg-ai:gpt"
  NoLabel = "none"
  MaxVersion = 1
  ResolverMayFail = TRUE
  MaxRuns = 2
  MaxEnriched = 2
CHECK_DEADLOCK FALSE
INVARIANT HandoffOpen
PROPERTY SettledRunCompletes
