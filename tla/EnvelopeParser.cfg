SPECIFICATION TurnSpec
CONSTANTS
  Chars <- Letters
  Start <- StartTag
  End <- EndTag
  Bodies <- OneBody
  MaxText = 11
  MaxChunk = 2
  NoCall = none
  Null = null
  Read = read
  Task = task
  Broken = broken
  Names <- TwoNames
  Keys <- TwoKeys
  Prose = "description"
  Requests <- MCRequests
  Answers <- MCAnswers
INVARIANTS TypeOK Lossless EnvelopeHidden CutsDoNotMatter
INVARIANTS OfferTypeOK ReleasedCallsFit GenuineCallsPass RefusalsExplained
CHECK_DEADLOCK FALSE
