------------------------------ MODULE SaleDesk ------------------------------
(***************************************************************************)
(* What posting sales promises: each key is posted at most once, in one    *)
(* step, with an invoice number of its own and stock for all its lines.    *)
(***************************************************************************)
EXTENDS Integers

CONSTANTS
  Keys,
  Invoice,    \* Invoice[k]: the invoice number of the sale k
  Need,       \* Need[k][t]: the cylinders of type t that it sells
  OnHand

VARIABLES posted, shelf

Init == posted = {} /\ shelf = OnHand

Post(k) ==
  /\ k \notin posted
  /\ \A p \in posted : Invoice[p] # Invoice[k]
  /\ \A t \in DOMAIN shelf : shelf[t] >= Need[k][t]
  /\ posted' = posted \cup {k}
  /\ shelf' = [t \in DOMAIN shelf |-> shelf[t] - Need[k][t]]

Next == \E k \in Keys : Post(k)

Spec == Init /\ [][Next]_<<posted, shelf>>
=============================================================================
