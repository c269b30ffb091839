CONSTANTS
  r1 = r1
  r2 = r2
  n1 = n1
  n2 = n2
  none = none
  Realms = {r1, r2}
  Notifiers = {n1, n2}
  Owner <- OneEach
  Writers = {r1}
  Refreshers = {r2}
  Released = {n2}
  MaxVersion = 3
SPECIFICATION FairSpec
INVARIANTS TypeOK NeverBack
PROPERTIES ToldOnce EventuallyTold
CHECK_DEADLOCK FALSE
