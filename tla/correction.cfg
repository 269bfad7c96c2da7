SPECIFICATION FairCSpec
CONSTANTS
  c14 = c14
  c19 = c19
  r1 = r1
  r2 = r2
  r3 = r3
  r4 = r4
  bogus = bogus
  none = none
  Types = {c14, c19}
  Loose = {}
  Unlisted = bogus
  Requests = {r1, r2, r3, r4}
  Correctors = {r1, r2}
  Orders <- MCOrders
  Stocked = {c14}
  OnHand <- MCStock
  Counts = {0, 3}
  NoOne = none
INVARIANT AcceptedCountIsCurrent
PROPERTY DriftOnlyByOverlap
PROPERTY EveryRequestIsAnswered
