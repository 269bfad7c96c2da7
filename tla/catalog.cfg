SPECIFICATION FairSpec
CONSTANTS
  v1 = v1
  v2 = v2
  e1 = e1
  e2 = e2
  gone = gone
  r1 = r1
  r2 = r2
  r3 = r3
  x = x
  y = y
  z = z
  nul = nul
  same = same
  norow = norow
  noprice = noprice
  Kept = {v1, v2, e1, e2, gone}
  Requests = {r1, r2, r3}
  Names = {x, y, z, nul}
  Dates = {1, 2}
  Amounts = {10, 20, 30, 1000}
  Unfit = {nul, 1000}
  Same = same
  NoRow = norow
  NoPrice = noprice
  Opening <- MCOpening
  Priced <- MCPriced
  Tasks <- MCTasks
INVARIANT NothingDangles
INVARIANT OnlyOverlapFails
PROPERTY PatchesMerge
PROPERTY PricesComeIntoForce
PROPERTY ListsAreWhole
PROPERTY EveryRequestEnds
