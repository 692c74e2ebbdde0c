SPECIFICATION Spec
CONSTANTS
  MaxDirectives = 2
  PipeCap = 1
  MaxSignals = 0
  Paging = {TRUE}
  Faults = {"trouble"}
  Pagers = {"quit"}
INVARIANT DiffTroubleIsAnError
