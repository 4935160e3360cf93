SPECIFICATION LrSpec
CONSTANTS
  Places = {bristol, avon, england}
  Venues = {}
  Schemes = {"administrative"}
  Clients = {c1}
  Migration = migration
  Horizon = 2
  Periods <- Halves
  MaxRows = 4
  page = page
  pageSlash = pageSlash
  link = link
  url = url
  urlSlash = urlSlash
  PlaceKeys = {}
  PlaceTitles = {}
  Identifiers = {page, pageSlash, link}
  SchemeOf <- PageOrSite
  ValueOf <- Written
  Normal <- WithoutSlash
  MaxAnswers = 1
  MaxCreating = 2
  MaxFilled = 1
CHECK_DEADLOCK FALSE
INVARIANT AcyclicContainment
