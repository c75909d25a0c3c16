SPECIFICATION Spec
CONSTANTS
  a = a  b = b  c = c
  bundle = bundle  wiki = wiki  policy = policy
  Statements <- MCStatements
  Sources <- MCTwoSources
  Bundle = bundle
  Authority <- MCTwoAuthority
  Conflicts <- MCDatedConflicts
  Dates = {1, 2}
  None = None
  RepeatedParagraphs = FALSE
  MaxTime = 0
  MaxParagraphs = 3
  MaxClaims = 4
INVARIANTS OutcomeHonest WindowsHandOver
CHECK_DEADLOCK FALSE
