SPECIFICATION Spec
CONSTANTS
  EUR = EUR
  USD = USD
  Currency = {EUR, USD}
  First = EUR
  PointerStep = 8
  TaggedStrings = TRUE
  SeedAmount = 1
  MaxAmount = 1
  MaxGroup = 1
  MaxPress = 1
  MaxVersion = 1
  MaxLaunch = 1
  Rate <- OneRate
PROPERTY NeverExchangedForItself
CHECK_DEADLOCK FALSE
