SPECIFICATION RqSpec
CONSTANTS
  Deliberations = {d1}
  Clients = {v1, v2}
  NoClient = nobody
  Keys = {k1}
  Workers = {t1, t2}
  MaxContributions = 1
  Savers = {cap, api}
  LoopSavers = {}
  Drafters = {api}
  SaveKeys = {s1}
  NoKey = nokey
  Texts = {x}
  Threads = {t1, t2, loop}
  Loop = loop
  MaxReviews = 2
  MaxVersion = 2
  People = {g1}
  Apps = {a1}
  Resources = {v1, v2}
  Servers = {t1, t2}
  MaxAccounts = 2
  MaxCodes = 2
  MaxTokens = 2
  Groups = {t1, t2}
  Items = {v1, v2}
  NoGroup = nogroup
  MaxRevision = 2
  MaxRefs = 2
  MaxReviewed = 1
  MaxGiven = 2
  Urls = {u1, u2, u3}
  NoUrl = nourl
  Members = {v1, v2}
  MaxMistakes = 2
  MaxType = 3
  MaxChanges = 2
  MaxHit = 3
  MaxShifts = 2
  Sections = {base, extra}
  BaselineKeys = {base}
  gpt = gpt
  chatgpt = chatgpt
  claude = claude
  Labels = {gpt, chatgpt, claude}
  CanonicalModel <- ModelOf
  NoLabel = nolabel
  MaxProposals = 2
  Recipes = {1, 2}
  Authors = {"u", "v"}
  Scores = {0, 1}
  Datasets <- SomeDatasets
  MaxRows = 3
  MaxBundles = 2
  Loaders = {t1, t2}
SYMMETRY Symmetry
CHECK_DEADLOCK FALSE
INVARIANTS
  RqTypeOK
  RecordTruthful
  ClaimHolds
  AnswersAgree
  PublishedAsApproved
  GrantFaithful
  OneLiveToken
  ReferencesHold
  AcceptedIsWalk
  ToldAll
  ImportWhole
PROPERTIES
  ClosedToNewCalls
  GuidanceApproved
