SPECIFICATION MCSpec
CONSTANTS
  w1 = w1
  w2 = w2
  j1 = j1
  j2 = j2
  j3 = j3
  NoJob = NoJob
  NoWorker = NoWorker
  web = web
  bot = bot
  proxy = proxy
  NoProxy = NoProxy
  g1 = g1
  g2 = g2
  g3 = g3
  news = news
  tools = tools
  Untitled = Untitled
  a1 = a1
  t1 = t1
  u1 = u1
  site = site
  dcr = dcr
  url = url
  False = False
  None = None
  Nil = Nil
  Web = {web}
  Restricted = {bot}
  Scope = {g1}
  Watches = {w1, w2}
  Groups = {g1, g2, g3}
  Titles = {news, tools}
  Space = Untitled
  Lists <- MCLists
  Limit = 2
  MaxRequests = 3
  Uuids = {w1, w2}
  Own <- MCOwn
  UsesDefault = {}
  DefaultEvery = 2
  Override <- MCOverride
  Jitters = {0}
  Minimum = 1
  Proxies = {proxy}
  ProxyOf <- MCProxyOf
  Reuse <- MCReuse
  MaxQueue = 1
  Stride = 1
  MaxBackoff = 1
  MaxAge = 2
  MaxChanges = 1
  MaxCount = 2
  Registering = {dcr}
  ByUrl = {url}
  Cap = 1
  MaxIssued = 4
  MaxCalls = 4
  Callers = {a1}
  Tokens = {t1}
  Monitors = {w1, w2}
  Labels = {g1, g2}
  Members <- MCMembers
  Urls = {u1}
  Global = site
  Grids <- MCGrids
  Limits = {{}, {g1}}
  Plugins <- MCPlugins
  MaxEdits = 1
  MaxMessages = 2
CHECK_DEADLOCK FALSE
INVARIANTS PoolHolds RemovedUnlessExcused TokensHold WithinItsToken
PROPERTIES JobsLostWithWorkersOnly StaysInScope QueuesWithinReason TickerStarvesNobody
