\* The sweep cancels a public session that the operator has opened to a second
\* booking.
CONSTANTS
  Bookings = {b1, b2}
  Sessions = {s1, s2}
  Services = {v1}
  Starts = {1, 2}
  Capacities = {1, 2}
  EditStatuses = {}
  Methods = {"manual"}
  Policies = {"automatic"}
  MaxTime = 1
  MinNotice = 0
  MaxAdvance = 2
  ChangeNotice = 0
  PaymentWindow = 1
  ReminderLead = 1
  None = None
SYMMETRY Symmetric
SPECIFICATION Spec
PROPERTIES
  HoldersKeepTheirSession
