SPECIFICATION FairSpec
CONSTANTS
  Inputs = {i1, i2, i3}
  Builders = {b1, b2}
  MaxRetries = 1
  MaxRollbacks = 1
INVARIANT PublishedSoundly
PROPERTIES PublishedStaysReadable LiveLeaseIsKept EveryBuildEnds
CHECK_DEADLOCK FALSE
