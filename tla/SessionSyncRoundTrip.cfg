SPECIFICATION Spec
CONSTANTS
  s1 = s1
  Instance = {0, 1}
  Session = {s1}
  Home <- MC_Home
  Marked = {s1}
  Link <- MC_Both
  MaxCounter = 6
  MaxLength = 1
  MaxChanges = 0
  MaxStops = 0
PROPERTIES RoundTripArchivesNothing
CHECK_DEADLOCK FALSE
