SPECIFICATION FairSpec
CONSTANTS
  Subjects = {s1}
  LegacySubjects = {}
  Clients = {c1, c2}
  Resolver = resolver
  NoClient = nobody
  Types = {"place", "cafe"}
  NoType = "none"
  IsA <- Pair
  Labels = {"model"}
  TgLabels = {"tg-ai:gpt"}
  ResolverLabel = "tg-ai:gpt"
  NoLabel = "none"
  MaxVersion = 1
  ResolverMayFail = TRUE
CHECK_DEADLOCK FALSE
PROPERTIES
  LaterResolution
