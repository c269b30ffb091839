SPECIFICATION Spec
CONSTANTS
  PointerStep = 8
  Currency = {EUR, USD}
  MaxGroup = 2
  MaxPress = 1
  MaxVersion = 1
SYMMETRY Symmetry
INVARIANT ReportedMeansAllReceived
CHECK_DEADLOCK FALSE
