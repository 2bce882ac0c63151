CONSTANTS
  Clients = {c1}
  Sessions = {s1, s2}
  Capacity = 1
  MaxKeys = 2
  ann = ann
  pat = pat
  None = None
SPECIFICATION PagesSpec
CHECK_DEADLOCK FALSE
INVARIANTS TypesOK OnePerForm SeatsFit ShowsWhatTheServerHas AccountsHold EditorsHold CalendarIsTrue
PROPERTIES StepsAreMeant
