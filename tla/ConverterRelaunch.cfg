SPECIFICATION Spec
CONSTANTS
  EUR = EUR
  USD = USD
  Currency = {EUR, USD}
  First = EUR
  PointerStep = 8
  TaggedStrings = FALSE
  SeedAmount = 1
  MaxAmount = 1
  MaxGroup = 1
  MaxPress = 1
  MaxVersion = 2
  MaxLaunch = 2
  Rate <- TwoRates
INVARIANTS TypeOK LabelsFreshUnlessPending ButtonNeedsGroup
PROPERTY WalletSpec
CHECK_DEADLOCK FALSE
