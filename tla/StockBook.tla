----------------------------- MODULE StockBook -----------------------------
(***************************************************************************)
(* What the stock handlers promise, with no locks, drafts or lines: a      *)
(* request either posts one whole effect to the stock book and to the      *)
(* shelf in a single step, or is refused and changes nothing.              *)
(***************************************************************************)
EXTENDS Integers

CONSTANTS
  Types,      \* what has a live count on the shelf
  Items,      \* what the book keeps, Types among them
  Requests,
  Effects,    \* the effects a request may have: functions from Items to Int
  OnHand      \* count of each type at the start

VARIABLES shelf, book, answer

Init ==
  /\ shelf = OnHand
  /\ book = [i \in Items |-> IF i \in Types THEN OnHand[i] ELSE 0]
  /\ answer = [r \in Requests |-> "open"]

Post(r) ==
  /\ answer[r] = "open"
  /\ \E e \in Effects :
       /\ book' = [i \in Items |-> book[i] + e[i]]
       /\ shelf' = [t \in Types |-> shelf[t] + e[t]]
  /\ \A t \in Types : shelf'[t] >= 0
  /\ answer' = [answer EXCEPT ![r] = "done"]

Refuse(r) ==
  /\ answer[r] = "open"
  /\ answer' = [answer EXCEPT ![r] = "failed"]
  /\ UNCHANGED <<shelf, book>>

Next == \E r \in Requests : Post(r) \/ Refuse(r)

Spec == Init /\ [][Next]_<<shelf, book, answer>>
=============================================================================
