SPECIFICATION FairWaitSpec
CONSTANTS
  u = u
  v = v
  j1 = j1
  j2 = j2
  j3 = j3
  ticker = ticker
  NoJob = NoJob
  NoWorker = NoWorker
  Watches = {u, v}
  Jobs <- MCJobs
  WatchOf <- MCWatchOf
  MaxThreads = 3
  StartCount = 2
  Sizes = {2}
  Controllers = {ticker}
  Ops <- OnlyHealth
  Faults = TRUE
INVARIANTS NoClaimLeftBehind JobsKept OneCheckPerWatch TrueMissesOnlyDeferred
PROPERTIES EventuallySettled WorkersReplaced
