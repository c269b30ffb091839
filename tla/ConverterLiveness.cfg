SPECIFICATION FairSpec
CONSTANTS
  EUR = EUR
  USD = USD
  Currency = {EUR, USD}
  First = EUR
  PointerStep = 8
  TaggedStrings = TRUE
  SeedAmount = 1
  MaxAmount = 1
  MaxGroup = 2
  MaxPress = 1
  MaxVersion = 1
  MaxLaunch = 1
  Rate <- OneRate
ACTION_CONSTRAINT NoAmountAfterTick
PROPERTIES LabelsCatchUp OrdersSettle
CHECK_DEADLOCK FALSE
