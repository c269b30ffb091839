CONSTANTS
  r1 = r1
  r2 = r2
  n1 = n1
  n2 = n2
  none = none
  Realms = {r1, r2}
  Notifiers = {n1, n2}
  Owner <- OneEach
  Writers = {r1, r2}
  Refreshers = {}
  Released = {}
  MaxVersion = 3
SPECIFICATION FairSpec
PROPERTY ToldOnce
CHECK_DEADLOCK FALSE
