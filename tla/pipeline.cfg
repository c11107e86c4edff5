\* Both parsers, both threads and the updater; three iterations.
SPECIFICATION Spec
CONSTANTS
  Build <- SmallBuild
  OwnFirst <- SmallFirst
  Own <- SmallLater
  BC_LENGTH = 1
  BC_LENGTH2 = 1
  MaxIter = 3
  NoPacket = NoPacket
  Invalid = Invalid
INVARIANTS
  PipelineTypeOK
  GradientInPlace
  NothingStranded
PROPERTIES
  AssemblySpec
CHECK_DEADLOCK FALSE
