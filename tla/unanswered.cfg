\* The booking page of a service with a question that must be answered.
CONSTANTS
  Tabs = {t1}
  Bookings = {b1}
  Slots = {s1, s2, s3}
  Notice = {s1}
  Links = {b1}
  BadLink = bad
  None = None
SPECIFICATION FillingSpec
CHECK_DEADLOCK FALSE
INVARIANTS GatedOnRequired
