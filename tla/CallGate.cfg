SPECIFICATION FairSpec
CONSTANTS
  Requests = {r1, r2, r3}
  Workers = 3
  MaxRetries = 1
  MaxEvents = 1
  Free = free
INVARIANTS TypeOK GateHeldInside ParserOwned
PROPERTIES ServedWhenAllRead
