SPECIFICATION Spec
CONSTANTS
  Clients = {c1}
  Requests = {r1, r2}
  Tokens = {t1, t2, t3}
  Nothing = Nothing
SYMMETRY AnyRequest
INVARIANT OneLiveToken
INVARIANT EndedIsDead
INVARIANT ReuseIsEarned
