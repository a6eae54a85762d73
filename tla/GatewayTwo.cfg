SPECIFICATION Spec
CONSTANTS
  Accounts = {a1, a2}
  Requests = {r1, r2}
  Histories <- OneClient
  Replies <- OneReply
  Hint = "hint"
  Failures = {"AUTH_INVALID"}
  Modes = {"plain"}
  Operators = {}
  MaxConvs = 1
  MaxRetries = 0
  NoAccount = none
INVARIANTS SessionsDistinct LinkOwned
SYMMETRY Symmetry
VIEW Links
