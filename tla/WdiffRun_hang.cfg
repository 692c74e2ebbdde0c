SPECIFICATION FairSpec
CONSTANTS
  MaxDirectives = 2
  PipeCap = 1
  MaxSignals = 1
  Paging = {TRUE}
  Faults = {}
  Pagers = {"eof"}
PROPERTY Terminates
CHECK_DEADLOCK FALSE
