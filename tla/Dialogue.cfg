SPECIFICATION Spec
CONSTANTS
  Null = null
  Newline = newline
  Envelope = envelope
  Broken = broken
  Marker = marker
  Thought = thought
  Words = {w}
  Answers <- SomeAnswers
  Modes = {"plain", "tool", "stream"}
  Exceptions = {"NetworkError", "CloudflareError"}
  Tool = "tool"
  Arguments = arguments
  CallIds = {1, 2, 3, 4}
  MessageIds = {1, 2, 3}
  Sessions = {1, 2}
  MaxConvs = 1
  Instants <- Clock
  MaxMessages = 4
  MaxElsewhere = 0
  MaxRetries = 1
INVARIANTS TypeOK Bounded ShownIsSaid BranchHoldsHistory CompileTotal AttemptsSeeHistory MetricsBalance
PROPERTIES ImplementsChat NextTurnResumes
