\* Both parsers, a ring of two and a ring of three; packets may be lost, of
\* the first packets of chunks at most one.
SPECIFICATION Spec
CONSTANTS
  Builds <- MCBuilds
  BC_LENGTH = 3
  BC_LENGTH2 = 2
  LossyOps = {6, 7, 9}
  MaxFirstLost = 1
  MaxIter = 3
INVARIANTS
  TypeOK
  IterationCovered
  ReportedAreAwaited
PROPERTIES
  FinalsLocated
  DamageStaysInChunk
  ShiftedByOneChunk
  BroadcastNotReported
