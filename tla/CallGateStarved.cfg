SPECIFICATION FairSpec
CONSTANTS
  Requests = {r1, r2, r3}
  Workers = 2
  MaxRetries = 1
  MaxEvents = 1
  Free = free
PROPERTIES ServedWhenAllRead
