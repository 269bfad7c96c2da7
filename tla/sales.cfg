SPECIFICATION Spec
CONSTANTS
  k1 = k1
  k2 = k2
  k3 = k3
  c14 = c14
  c19 = c19
  a1 = a1
  a2 = a2
  a3 = a3
  h1 = h1
  h2 = h2
  d1 = d1
  i1 = i1
  i2 = i2
  none = none
  Types = {c14, c19}
  Days = {d1}
  Keys = {k1, k2, k3}
  Slip <- MCSlip
  Attempts = {a1, a2, a3}
  Closers = {h1}
  OnHand <- MCScarce
  PriceBooks <- MCPrices
  Extras = {1}
  NoOne = none
SYMMETRY AnyAttempt
INVARIANT RepeatReturnsOriginal
INVARIANT AnswersAreTrue
PROPERTY PostsOneAtATime
