SPECIFICATION FairSpec
CONSTANTS
  Window = 2
  MaxData = 2
CHECK_DEADLOCK FALSE
PROPERTIES PushCompletes
