SPECIFICATION FairSpec
CONSTANTS
  Accounts = {a1, a2}
  Requests = {r1}
  Histories <- OneClient
  Replies <- OneReply
  Hint = "hint"
  Failures = {"AUTH_INVALID", "RATE_LIMITED", "TRANSIENT", "FATAL"}
  Modes = {"plain", "tool", "stream"}
  Operators = {"disable", "enable", "reset"}
  MaxConvs = 1
  MaxRetries = 1
  NoAccount = none
INVARIANTS Remembered DrainedChargedOnce FailoverBounded
PROPERTIES EveryRequestAnswered
