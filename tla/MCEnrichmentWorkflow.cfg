SPECIFICATION WfSpec
CONSTANTS
  Subjects = {s1}
  LegacySubjects = {}
  Clients = {c1, c2}
  Users = {u1}
  NoUser = noone
  Resolver = resolver
  NoClient = nobody
  Types = {"place", "cafe"}
  NoType = "none"
  IsA <- Pair
  Labels = {"model"}
  TgLabels = {"tg-ai:gpt"}
  ResolverLabel = "tg-ai:gpt"
  NoLabel = "none"
  MaxVersion = 2
  ResolverMayFail = TRUE
  MaxRuns = 2
  MaxEnriched = 1
CHECK_DEADLOCK FALSE
INVARIANTS
  WfTypeOK
  RunFollowsSubject
  OneActiveRun
  HandoffOpen
SYMMETRY ClientSymmetry
