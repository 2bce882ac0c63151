\* Capacity-one sessions that the operator cancels and reinstates between any
\* two commands.
CONSTANTS
  Bookings = {b1, b2}
  Sessions = {s1, s2}
  Services = {v1}
  Starts = {1, 2}
  Capacities = {1}
  EditStatuses = {"scheduled", "cancelled"}
  Methods = {"manual"}
  Policies = {"operator_approval"}
  MaxTime = 1
  MinNotice = 0
  MaxAdvance = 2
  ChangeNotice = 0
  PaymentWindow = 1
  ReminderLead = 1
  None = None
SYMMETRY Symmetric
SPECIFICATION Spec
PROPERTIES
  HoldersKeepTheirSession
