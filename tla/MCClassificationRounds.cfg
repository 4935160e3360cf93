SPECIFICATION FairSpec
CONSTANTS
  Subjects = {s1}
  LegacySubjects = {}
  Clients = {c1, c2, c3}
  Resolver = resolver
  NoClient = nobody
  Types = {"place", "cafe"}
  NoType = "none"
  IsA <- Pair
  Labels = {"model"}
  TgLabels = {"tg-ai:gpt"}
  ResolverLabel = "tg-ai:gpt"
  NoLabel = "none"
  MaxVersion = 2
  ResolverMayFail = FALSE
CHECK_DEADLOCK FALSE
INVARIANTS
  DisputeIsGenuine
  OfferStaysOpen
  SettlementAudited
  SettledTypeAccepted
PROPERTIES
  ImplementsRounds
  DisputeSettles
