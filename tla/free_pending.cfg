\* A free booking that the operator creates.
CONSTANTS
  Bookings = {b1}
  Sessions = {s1}
  Services = {v1}
  Starts = {1}
  Capacities = {1}
  EditStatuses = {}
  Methods = {"free"}
  Policies = {"automatic"}
  MaxTime = 1
  MinNotice = 0
  MaxAdvance = 1
  ChangeNotice = 0
  PaymentWindow = 1
  ReminderLead = 1
  None = None
SYMMETRY Symmetric
SPECIFICATION Spec
INVARIANT
  PendingAwaitsAGate
