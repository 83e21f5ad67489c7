SPECIFICATION Spec
CONSTANTS
  k1 = k1
  k2 = k2
  NoKey = nokey
  Threads = {t1, t2}
  Keys = {k1, k2}
  KeyUser <- MCKeyUser
  KeyLimit <- MCKeyLimit
  WorkspaceOf <- MCWorkspaceOf
  Tokens <- MCTokens
  Requests <- MCRequests
  TaskIds = {1}
  Window = 1
  MaxClock = 1
  MaxRequests = 4
INVARIANTS
  WindowHolds
  OwnRowsOnly
  CreateAnswersTerminal
PROPERTY
  RequestsAnswered
CHECK_DEADLOCK FALSE
