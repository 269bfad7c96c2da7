SPECIFICATION Spec
CONSTANTS
  c14 = c14
  c19 = c19
  e14 = e14
  bogus = bogus
  r1 = r1
  r2 = r2
  r3 = r3
  r4 = r4
  none = none
  Types <- MCTypes
  Loose = {e14}
  Unlisted = bogus
  Requests = {r1, r2, r3, r4}
  Orders <- MCOrders
  Stocked = {c14}
  OnHand <- MCOnHand
  NoOne = none
SYMMETRY AnyRequest
INVARIANT InStep
INVARIANT NeverOversold
PROPERTY VersionTracksCount
PROPERTY WholeOrdersOnly
