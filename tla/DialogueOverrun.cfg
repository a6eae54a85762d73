SPECIFICATION Spec
CONSTANTS
  Null = null
  Newline = newline
  Envelope = envelope
  Broken = broken
  Marker = marker
  Thought = thought
  Words = {w}
  Answers <- OverrunAnswers
  Modes = {"plain", "tool", "stream"}
  Exceptions = {"NetworkError"}
  Tool = "tool"
  Arguments = arguments
  CallIds = {1, 2, 3, 4}
  MessageIds = {1, 2, 3}
  Sessions = {1, 2}
  MaxConvs = 1
  Instants <- Clock
  MaxMessages = 4
  MaxElsewhere = 0
  MaxRetries = 0
INVARIANTS ShownIsSaid BranchHoldsHistory AttemptsSeeHistory
