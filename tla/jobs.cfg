SPECIFICATION FairSpec
CONSTANTS
  p1 = p1
  x1 = x1
  w1 = w1
  w2 = w2
  nobody = nobody
  Jobs = {p1, x1}
  Exports = {x1}
  Workers = {w1, w2}
  MaxCopies = 2
  Nothing = nobody
INVARIANT NoSilentStall
INVARIANT OutcomeIsTrue
PROPERTY OnlyOverlapReopens
PROPERTY AcceptedJobsSettle
