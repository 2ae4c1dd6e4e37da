SPECIFICATION MCSpec
CONSTANTS
  N = 4
  NAny = 3
  Nobody = Nobody
INVARIANTS
  OwnerIsLast
  OwnerIsAlone
  FrameHasOneEnd
  
  FirstValueOrLastException
PROPERTIES
  WhenAllReturns
  EverybodyReturns
  AwaitingOwnerIsResumed
