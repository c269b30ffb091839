SPECIFICATION Spec
CONSTANTS
  EUR = EUR
  USD = USD
  Currency = {EUR, USD}
  First = EUR
  PointerStep = 8
  TaggedStrings = TRUE
  SeedAmount = 1
  MaxAmount = 1
  MaxGroup = 1
  MaxPress = 2
  MaxVersion = 1
  MaxLaunch = 1
  Rate <- OneRate
PROPERTIES WalletSpec ExecutedAsConfirmed SpentOnce
CHECK_DEADLOCK FALSE
