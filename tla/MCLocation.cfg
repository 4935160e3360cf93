SPECIFICATION LrSpec
CONSTANTS
  Places = {bristol, avon, england}
  Venues = {cafe}
  Schemes = {"administrative"}
  Clients = {n1, n2}
  Migration = migration
  Horizon = 2
  Periods <- Ages
  MaxRows = 4
  page = page
  pageSlash = pageSlash
  link = link
  url = url
  urlSlash = urlSlash
  PlaceKeys = {n1, n2}
  PlaceTitles = {n1, n2}
  Identifiers = {page, pageSlash, link}
  SchemeOf <- PageOrSite
  ValueOf <- Written
  Normal <- WithoutSlash
  MaxAnswers = 1
  MaxCreating = 2
  MaxFilled = 1
CHECK_DEADLOCK FALSE
INVARIANTS
  PlaceNamed
  NoHiddenConflict
  ContestIsGenuine
  SomeClaimCurrent
  AcyclicUnlessRevived
PROPERTY ResolutionStays
SYMMETRY Symmetric
