SPECIFICATION MCSpec
CONSTANTS
  N = 1
  NAny = 1
  Nobody = Nobody
INVARIANT ReturnedExceptionIsReported
