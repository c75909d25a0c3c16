SPECIFICATION Spec
CONSTANTS
  a = a  b = b  c = c
  bundle = bundle  wiki = wiki  policy = policy
  Statements <- MCStatements
  Sources <- MCSources
  Bundle = bundle
  Authority <- MCAuthority
  Conflicts <- MCConflicts
  Dates = {}
  None = None
  RepeatedParagraphs = FALSE
  MaxTime = 1
  MaxParagraphs = 2
  MaxClaims = 4
INVARIANTS ProjectionFaithful ChainsLinear LosersExplained
PROPERTIES ParagraphsStay ImplementsLedger
CHECK_DEADLOCK FALSE
