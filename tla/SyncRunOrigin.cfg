SPECIFICATION MC_Spec
CONSTANTS
  e1 = e1
  e2 = e2
  Entry = {e1, e2}
  None = None
  MaxVersion <- MC_MaxVersion
  MaxPushes = 0
  MaxPending = 1
  MaxCrashes = 0
  Window = 1
  MaxData = 0
PROPERTIES SessionKeepsOrigin
