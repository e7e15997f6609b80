SPECIFICATION FairSpec
CONSTANTS
  Payloads = {1}
  Titles = {2}
  Kinds = {"periodic", "keyframe"}
  MaxBatch = 5
  MaxQueue = 8
  MaxItems = 3
INVARIANT NothingVanishes
PROPERTIES Recovered LogoffCompletes
\* The bound MaxItems lets the modelled session come to rest.
CHECK_DEADLOCK FALSE
