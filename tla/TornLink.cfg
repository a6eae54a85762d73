\* One client's turns, one account, and an operator who disables it.
SPECIFICATION Spec
CONSTANTS
  Accounts = {a1}
  Requests = {r1}
  Histories <- OneClient
  Replies <- OneReply
  Hint = "hint"
  Failures = {}
  Modes = {"plain"}
  Operators = {"disable"}
  MaxConvs = 1
  MaxRetries = 0
  NoAccount = none
INVARIANTS TurnsExact
