SPECIFICATION SteadySpec
CONSTANTS
  NumAccounts = 2
  Turns = {t1, t2}
  Convs = {c1}
  Window = 1
  MaxClock = 3
  NoAccount = none
INVARIANTS TypeOK CooldownStamped InvalidHoldsNoLinks
PROPERTIES NoEarlyPromotion ImplementsFleet
SYMMETRY Symmetry
