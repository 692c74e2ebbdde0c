SPECIFICATION FairSpec
CONSTANTS
  MaxDirectives = 2
  PipeCap = 1
  MaxSignals = 1
  Paging = {TRUE, FALSE}
  Faults = {"open", "mkstemp", "unlink", "fork", "exec_pager", "term", "trouble", "binary"}
  Pagers = {"quit", "eof"}
INVARIANT TypeOK
INVARIANT SuccessIsComplete
INVARIANT CleanUpForgetsNoFile
INVARIANT DiffFindsItsFiles
INVARIANT SuccessReapsChildren
INVARIANT LostOutputIsAnError
INVARIANT EmphasisClosed
INVARIANT DiffTroubleIsSeen
PROPERTY TerminatesUndisturbed
CHECK_DEADLOCK FALSE
