------------------------------ MODULE MCSales ------------------------------
(***************************************************************************)
(* Small instances of Sales for TLC.                                       *)
(***************************************************************************)
EXTENDS Sales, TLC

CONSTANTS k1, k2, k3, c14, c19, a1, a2, a3, h1, h2, d1, i1, i2, none

Pay(c, u, o, b) == [cash |-> c, upi |-> u, online |-> o, balance |-> b]
Ln(t, n) == [type |-> t, qty |-> n]
Body5(i, ls, p, boy, owner) ==
  [invoice |-> i, day |-> d1, lines |-> ls, paid |-> p, boy |-> boy, owner |-> owner]

MCStock == [t \in {c14, c19} |-> 2]

\* Enough for k1 and k3, or for k2 and k3, and not for k1 and k2.
MCScarce == [t \in {c14, c19} |-> IF t = c14 THEN 1 ELSE 3]

\* k1 and k2 take the two rows in opposite orders; k3 has the invoice of k1
\* and draws one type twice, an override by the super_admin.  They tally at
\* the first prices only; k2 is a delivery boy's and tallies with his extra.
MCSlip == [k \in {k1, k2, k3} |->
  CASE k = k1 -> Body5(i1, <<Ln(c14, 1), Ln(c19, 1)>>, Pay(2, 1, 0, 1), FALSE, FALSE)
    [] k = k2 -> Body5(i2, <<Ln(c19, 1), Ln(c14, 1)>>, Pay(2, 0, 4, 0), TRUE, FALSE)
    [] k = k3 -> Body5(i1, <<Ln(c19, 1), Ln(c19, 1)>>, Pay(6, 0, 0, 0), FALSE, TRUE)]

\* Two keys of delivery boys that take the two rows in opposite orders.  Both
\* tally at the first prices, k1 without an extra and k2 with one, and
\* they can both be had.
MCBoySlip == [k \in {k1, k2} |->
  CASE k = k1 -> Body5(i1, <<Ln(c14, 1), Ln(c19, 1)>>, Pay(1, 1, 0, 2), TRUE, FALSE)
    [] k = k2 -> Body5(i2, <<Ln(c19, 1), Ln(c14, 1)>>, Pay(2, 0, 4, 0), TRUE, FALSE)]

\* One line each: no row-lock cycle, and enough stock for all.
MCPlainSlip == [k \in {k1, k3} |-> Body5(i1, <<Ln(c14, 1)>>, Pay(1, 0, 0, 0), FALSE, FALSE)]

Prices1 == [t \in {c14, c19} |-> IF t = c14 THEN 1 ELSE 3]
Prices2 == [t \in {c14, c19} |-> IF t = c14 THEN 2 ELSE -1]
MCPrices == {Prices1, Prices2}
MCSteady == {Prices1}

AnyAttempt == Permutations(Attempts)
=============================================================================
