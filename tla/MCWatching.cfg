SPECIFICATION MCSpec
CONSTANTS
  u1 = u1
  u2 = u2
  r1 = r1
  t1 = t1
  t2 = t2
  p1 = p1
  p2 = p2
  h1 = h1
  w1 = w1
  None = None
  Urls = {u1, u2}
  Own <- MCOwn
  Group <- MCGroup
  System <- MCSystem
  Runners = {r1}
  Threshold = 2
  MaxFailures = 2
  MaxQueued = 2
  MaxChanges = 2
  Tabs = {t1, t2}
  Prompts = {p1, p2}
  Threads = {h1}
  MaxPending = 2
  MaxActs = 3
  Pictures = {0, 1, 2}
  Text = Text
  NoPicture = NoPicture
  Error = Error
  Minima = {0, 1}
  Boxes = {"whole", "part"}
  MaxCalls = 2
  MaxShots = 2
  Nobody = Nobody
  Requests = {r1, h1}
  Watches = {w1}
  Sessions = {t1, t2}
  MaxRequests = 3
CHECK_DEADLOCK FALSE
INVARIANTS EveryUrlTried JobsLeaveResults QuietIsAlike BrowsersClosed
PROPERTIES AlertsOnceUnmuted QueueMoves TabsAnswered ChildrenEnd
