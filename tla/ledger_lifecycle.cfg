\* One booking through every command, sweep and customer change, with every
\* setting of its service, while the operator edits its sessions freely.
CONSTANTS
  Bookings = {b1}
  Sessions = {s1, s2}
  Services = {v1}
  Starts = {1, 3}
  Capacities = {1, 2}
  EditStatuses = {"scheduled", "done", "cancelled"}
  Methods = {"free", "manual"}
  Policies = {"automatic", "operator_approval"}
  MaxTime = 3
  MinNotice = 1
  MaxAdvance = 3
  ChangeNotice = 1
  PaymentWindow = 2
  ReminderLead = 2
  None = None
SYMMETRY Symmetric
SPECIFICATION Spec
INVARIANTS
  TypeOK
  ConfirmationGate
PROPERTIES
  ImplementsLifecycle
  VacatedSessionsReleased
