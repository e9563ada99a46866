SPECIFICATION Spec
CONSTANTS
  a = a
  b = b
  Flattened = Flattened
  NoText = NoText
  NoCheck = NoCheck
  Pages <- MCPages
  Configs <- MCConfigs
  Later <- MCConfigs
  Rank <- MCRank
  MaxChecks = 2
  MaxChanges = 1
CHECK_DEADLOCK FALSE
INVARIANTS TriggerFound
