\* The least instance: an invalid account, and another turn's success on it.
SPECIFICATION Spec
CONSTANTS
  NumAccounts = 1
  Turns = {t1, t2}
  Convs = {c1}
  Window = 1
  MaxClock = 1
  NoAccount = none
PROPERTIES InvalidUntilReset
