CONSTANTS
  text = text
  shop = shop
  Watches = {text, shop}
  Position <- MCPosition
  Tags = {"news"}
  Originals <- MCOriginals
  Starts <- OldStart
  MaxCrashes = 1
  MaxFailures = 1
  MayTear = FALSE
SPECIFICATION UpdatesSpec
INVARIANTS RetryFindsWatches
CHECK_DEADLOCK FALSE
