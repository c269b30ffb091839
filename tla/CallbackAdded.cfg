CONSTANTS
  MaxCallbacks = 2
  MaxToken = 1
  MaxVersion = 2
  MaxDepth = 1
SPECIFICATION Spec
INVARIANT AddedInCallToldAll
CHECK_DEADLOCK FALSE
