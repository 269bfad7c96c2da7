----------------------------- MODULE MCSessions -----------------------------
\* Sessions for TLC: calls are interchangeable.
EXTENDS Sessions, TLC

AnyRequest == Permutations(Requests)
=============================================================================
