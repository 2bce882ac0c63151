\* One credential mail and one booking mail, two workers that may die at any
\* moment, two attempts. Without symmetry, which a liveness check does not allow.
CONSTANTS
  Messages = {credential, booking}
  Credentials = {credential}
  Workers = {w1, w2}
  MaxAttempts = 2
  None = None
  Gone = Gone
SPECIFICATION FairSpec
INVARIANTS
  TypeOK
  AttemptBudget
  ExclusiveWithinLease
PROPERTIES
  ImplementsDelivery
  Settles
\* The pool of messages is used up.
CHECK_DEADLOCK FALSE
