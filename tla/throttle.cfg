SPECIFICATION Spec
CONSTANTS
  r1 = r1
  r2 = r2
  r3 = r3
  Requests <- MCRequests
  MaxFails = 2
  MaxUnchecked = 1
  MaxCount = 6
INVARIANT OvershootIsBounded
INVARIANT CounterHasTimer
PROPERTY BlockIsLifted
