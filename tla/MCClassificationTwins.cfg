SPECIFICATION Spec
CONSTANTS
  Subjects = {s1, s2}
  LegacySubjects = {s1, s2}
  Clients = {c1, c2}
  Resolver = resolver
  NoClient = nobody
  Types = {"place", "cafe", "pub"}
  NoType = "none"
  IsA <- Fork
  Labels = {"model", "tg-ai:gpt"}
  TgLabels = {"tg-ai:gpt"}
  ResolverLabel = "tg-ai:gpt"
  NoLabel = "none"
  MaxVersion = 1
  ResolverMayFail = TRUE
SYMMETRY ClientSymmetry
CHECK_DEADLOCK FALSE
INVARIANTS
  SettlementIndependent
  UniqueIdentity
PROPERTY AuditAppendOnly
