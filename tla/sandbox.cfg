SPECIFICATION Spec
CONSTANT Requests <- MCRequests
INVARIANTS
  TypeOK
  VerifiedIsReal
  OrdinaryIsEntrypoints
  OomIsReported
  NoRunawayContainer
  
PROPERTY
  Returns
\* A run that has returned is over.
CHECK_DEADLOCK FALSE
