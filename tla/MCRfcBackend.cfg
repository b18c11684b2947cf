SPECIFICATION FairSpec
CONSTANTS
  Sessions = {s1, s2, s3}
  Backends = {"nwrfc", "proto"}
  Paths = {"/opt/lib"}
  MaxRequests = 4
INVARIANTS
  OneLoader
  FrozenOnlyWhenLoaded
  FrozenIsServed
  SetIsHonoured
PROPERTY
  CallsEnd
CHECK_DEADLOCK FALSE
