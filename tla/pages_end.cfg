CONSTANTS
  Loads = {p1, p2}
  Views = {v1, v2}
  MaxClears = 2
  ann = ann
  pat = pat
  None = None
SPECIFICATION PagesSpec
CHECK_DEADLOCK FALSE
INVARIANTS SeesItsEra StaleOnlyByRacing
PROPERTIES ViewsHear ButtonsComeBack AskedIsSettled
