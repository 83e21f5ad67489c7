SPECIFICATION Spec
CONSTANTS
  Budget = 3
  Costs <- MCCosts
  Spends = {}
  Sessions = {s1}
  Writer = w
  PathOrder <- MCPathOrder
  Ast <- MCAst
  Lines <- MCLines
  MarkerBytes = 2
  SymbolBytes = 3
  SpanBytes = 2
  NameBytes = 1
  Matches <- MCMatches
  Limit = 2
  Queries <- MCQueries
  InitRepo <- MCInitRepo
  Edits <- MCEdits
  Commits <- MCCommits
  MaxEdits = 2
INVARIANTS
  TypeOK
  IncrementalEqualsFull
  SpanNeverDearer
  ReturnedIsPaid
PROPERTY
  Answers
CHECK_DEADLOCK FALSE
