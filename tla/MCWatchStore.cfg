SPECIFICATION MCSpec
CONSTANTS
  u1 = u1
  u2 = u2
  worker = worker
  web = web
  api = api
  w1 = w1
  w2 = w2
  news = news
  tools = tools
  reader = reader
  Absent = Absent
  NoOne = NoOne
  None = None
  Uuids <- MCUuids
  Actors = {worker, web, api}
  Adders = {web}
  Limit = 1
  MaxVersion = 2
  Failures = TRUE
  Watches = {w1, w2}
  Old = {w1}
  Entries = {news, tools}
  Before = {news}
  PageLimit = 2
  MaxBackups = 0
  MaxMade = 1
  MaxEvents = 3
  Importers = {web, api}
  Kinds = {"list", "distill", "wachete", "custom", "api"}
  Lists <- MCLists
  ImportLimit = 2
  Batch = 1
SYMMETRY UuidSymmetry
CHECK_DEADLOCK FALSE
INVARIANTS PersistedUnlessContended NothingForgotten AnswersAreTrue
PROPERTIES SavedStaysReadable GoneStaysGone WithinLimit
