SPECIFICATION Spec
CONSTANTS
  p1 = p1
  p2 = p2
  ta = ta
  tb = tb
  plain = plain
  sorted = sorted
  sifted = sifted
  h1 = h1
  h2 = h2
  o1 = o1
  o2 = o2
  Pages <- MCPages
  Texts <- MCTexts
  Configs <- MCConfigs
  HashOf <- MCHashOf
  OwnOf <- MCOwnOf
  Extract <- MCExtract
  Blocks <- MCBlocks
  Unique = {}
  Diffing = {}
  Missing = Missing
  NoText = NoText
  NoPage = NoPage
  NoHash = NoHash
  MaxLen = 2
  Threshold = 2
  MaxEvents = 0
  Events = {}
PROPERTIES MissingIsCounted
