SPECIFICATION Spec
CONSTANTS
  site = site
  worker = worker
  other = other
  i1 = i1
  i2 = i2
  None = None
  old = old
  shop = shop
  news = news
  Untitled = Untitled
  headline = headline
  article = article
  advert = advert
  Worker = worker
  Others = {other}
  Intents = {i1, i2}
  Absent = Absent
  Retries = 2
  Timeout = 0
  Times = {0}
  Backoff <- NoBackoff
  MaxBackoff = 0
  MonthLimit = 1
  WatchLimit = 1
  Usages = {1}
  MaxMonth = 2
  MaxEvents = 2
  Unknown = Unknown
  Failed = Failed
  Pages <- MCPages
  Settings <- MCSettings
  MaxEdits = 1
  MaxChecks = 2
  Backends <- Fetchers
  KindOf <- MCKindOf
  Offers <- MCOffers
  Statuses = {200, 503}
  Good = 200
  MaxResets = 1
  MaxAttempts = 2
  GotoTries = 2
  MaxNavigations = 3
  Watches = {old, shop}
  Position <- MCPosition
  Tags = {"news"}
  Originals <- MCOriginals
  Starts <- OldStarts
  MaxCrashes = 2
  MaxFailures = 1
  MayTear = TRUE
CHECK_DEADLOCK FALSE
INVARIANTS VerdictsWithinBudget SettingsApplied FetchIsSound AsIfUninterrupted TextsAreRight
