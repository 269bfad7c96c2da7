SPECIFICATION Spec
CONSTANTS
  p1 = p1
  x1 = x1
  w1 = w1
  w2 = w2
  nobody = nobody
  Jobs = {x1}
  Exports = {x1}
  Workers = {w1, w2}
  MaxCopies = 1
  Nothing = nobody
INVARIANT FailureIsRecorded
