\* One streaming request, one account, one retry.
SPECIFICATION Spec
CONSTANTS
  Accounts = {a1}
  Requests = {r1}
  Histories <- OneClient
  Replies <- OneReply
  Hint = "hint"
  Failures = {"RATE_LIMITED"}
  Modes = {"stream"}
  Operators = {}
  MaxConvs = 1
  MaxRetries = 1
  NoAccount = none
INVARIANTS ChargedOnce
