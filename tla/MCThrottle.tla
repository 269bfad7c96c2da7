----------------------------- MODULE MCThrottle -----------------------------
\* Throttle for TLC: three logins at a time, blocked after two failures.
EXTENDS Throttle

CONSTANTS r1, r2, r3

MCRequests == {r1, r2, r3}
=============================================================================
