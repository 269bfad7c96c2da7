---------------------------- MODULE MCWarehouse ----------------------------
(***************************************************************************)
(* Small instances of Warehouse for TLC.                                   *)
(***************************************************************************)
EXTENDS Warehouse, TLC

CONSTANTS c14, c19, e14, bogus, r1, r2, r3, r4, none

Mv(i, n) == [item |-> i, delta |-> n]

MCTypes == {c14, c19}
MCOnHand == [t \in MCTypes |-> IF t = c14 THEN 2 ELSE 0]

\* The shapes that meet: the same two rows taken in both orders, a type
\* with no row yet, a type drawn twice by one sale, empties and an
\* accessory-like item, an item that does not exist.
MCOrders ==
  { <<Mv(c14, 2), Mv(c19, 1)>>,                \* intake or ac4
    <<Mv(c19, 1), Mv(c14, 1)>>,                \* the same, lines the other way
    <<Mv(c14, -1), Mv(e14, 1), Mv(c19, -1)>>,  \* sale, one empty back
    <<Mv(c14, -1), Mv(c14, -1)>>,              \* sale with a repeated type
    <<Mv(c14, -2), Mv(e14, -1)>>,              \* return, full and empty
    <<Mv(e14, -1)>>,                           \* erv
    <<Mv(c19, 1), Mv(bogus, 1)>> }             \* ac4 with an unknown id

AnyRequest == Permutations(Requests)
=============================================================================
