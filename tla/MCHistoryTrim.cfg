SPECIFICATION HistorySpec
CONSTANTS
  ta = ta
  tb = tb
  Texts <- MCTexts
  NoText = NoText
  MaxLen = 2
INVARIANTS NewestReadable
