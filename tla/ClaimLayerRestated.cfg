SPECIFICATION Spec
CONSTANTS
  a = a  b = b  c = c
  bundle = bundle  wiki = wiki  policy = policy
  Statements <- MCStatements
  Sources <- MCSources
  Bundle = bundle
  Authority <- MCAuthority
  Conflicts <- MCConflicts
  Dates = {}
  None = None
  RepeatedParagraphs = TRUE
  MaxTime = 1
  MaxParagraphs = 3
  MaxClaims = 5
INVARIANT ProjectionTerminates
CHECK_DEADLOCK FALSE
