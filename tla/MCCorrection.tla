---------------------------- MODULE MCCorrection ----------------------------
(***************************************************************************)
(* A small instance of Correction for TLC.                                 *)
(***************************************************************************)
EXTENDS Correction

CONSTANTS c14, c19, r1, r2, r3, r4, bogus, none

Mv(i, n) == [item |-> i, delta |-> n]

MCStock == [t \in {c14, c19} |-> IF t = c14 THEN 2 ELSE 0]

\* Two intakes cross each other on the row of c19, which does not exist at first.
MCOrders ==
  { <<Mv(c14, -1)>>, <<Mv(c14, -1), Mv(c19, -1)>>, <<Mv(c14, 1), Mv(c19, 1)>>,
    <<Mv(c19, 2), Mv(c14, 1)>> }
=============================================================================
