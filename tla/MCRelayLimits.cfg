CONSTANTS
  Address = {a1, a2}
  Minute = 1
  PerIP = 1
  MapLimit = 1
  Rate = 1
  Burst = 2
  MaxFrame = 3
  MaxTime = 4
  MaxTries = 3
SPECIFICATION Spec
SYMMETRY Symmetry
INVARIANTS TypeOK WindowBound
PROPERTIES RefusedForCause BucketIsExact
