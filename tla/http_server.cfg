CONSTANTS
  Requests = {r1, r2, r3}
  Limit = 2
  MaxSignals = 2
SPECIFICATION Spec
INVARIANTS TypeOK GracefulExitAnswersAll
PROPERTIES ShutdownEnds
