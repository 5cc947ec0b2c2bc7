SPECIFICATION MC_Spec
CONSTANTS
  e1 = e1
  e2 = e2
  Entry = {e1, e2}
  None = None
  MaxVersion <- MC_MaxVersion
  MaxPushes = 1
  MaxPending = 2
  MaxCrashes = 1
  Window = 2
  MaxData = 2
INVARIANTS Replayable NoTruncatedAnswer
PROPERTIES RequestSettles RunEnds SuccessCovers RecordsAdvance BatchEndsApplied
