CONSTANTS
  Tabs = {t1}
  Bookings = {b1}
  Slots = {s1, s2, s3}
  Notice = {s1}
  Links = {b1}
  BadLink = bad
  None = None
SPECIFICATION PagesSpec
CHECK_DEADLOCK FALSE
INVARIANTS TypesOK MovedOnce SlotsApart DoneOnce ShowsWhatTheServerHas  AnswersGoAlong
PROPERTIES EndedStays StepsAreMeant
