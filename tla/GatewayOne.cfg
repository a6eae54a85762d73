SPECIFICATION Spec
CONSTANTS
  Accounts = {a1, a2}
  Requests = {r1}
  Histories <- OneClient
  Replies <- OneReply
  Hint = "hint"
  Failures = {"AUTH_INVALID", "RATE_LIMITED"}
  Modes = {"plain", "tool", "stream"}
  Operators = {"reset"}
  MaxConvs = 2
  MaxRetries = 1
  NoAccount = none
INVARIANTS TypeOK TurnsExact LinkMirrors
SYMMETRY Symmetry
