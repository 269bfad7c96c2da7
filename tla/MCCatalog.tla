----------------------------- MODULE MCCatalog -----------------------------
(***************************************************************************)
(* A small instance of Catalog for TLC.                                    *)
(***************************************************************************)
EXTENDS Catalog

CONSTANTS v1, v2, e1, e2, gone, r1, r2, r3, x, y, z, nul, same, norow, noprice

Named(t, n) == [table |-> t, name |-> n, active |-> TRUE]

\* Two varieties and two expense items; one id has no row.
MCOpening ==
  v1 :> Named("variety", x) @@ v2 :> Named("variety", y) @@
  e1 :> Named("expense_item", x) @@ e2 :> Named("expense_item", y) @@ gone :> norow

\* The second variety has a price, the first may be removed.
MCPriced == [k \in {v1, v2, e1, e2, gone} \X {1, 2} |-> IF k = <<v2, 1>> THEN 10 ELSE noprice]

Patch(i, n, a) == [op |-> "update", id |-> i, name |-> n, active |-> a]
Put(d, s) == [op |-> "put", date |-> d, items |-> s]
At(i, a) == [id |-> i, amount |-> a]

\* Renamings that cross, meet a new row or an expense item; PATCHes of
\* different fields; removals; price lists in both orders, one that repeats a
\* variety, one with an unknown id and one that overflows at its second item.
Whatever ==
  { [op |-> "create", table |-> "variety", name |-> z],
    Patch(v1, y, same), Patch(v2, x, FALSE), Patch(v1, z, TRUE), Patch(v1, same, FALSE),
    Patch(e1, y, same), [op |-> "delete", id |-> v1],
    Put(1, <<At(v1, 20), At(v2, 20)>>), Put(1, <<At(v2, 30), At(v1, 10), At(v1, 30)>>),
    Put(2, <<At(v1, 20), At(gone, 20)>>), Put(2, <<At(v2, 20)>>),
    [op |-> "create", table |-> "expense_item", name |-> nul],
    Patch(v1, nul, same), Put(1, <<At(v1, 30), At(v2, 1000)>>) }

\* The second and third cross any kind of the first.
MCTasks ==
  [r \in Requests |->
     CASE r = r1 -> Whatever
       [] r = r2 -> { t \in Whatever : t.op # "create" } \
                      { Patch(v1, same, FALSE), Patch(e1, y, same), Put(2, <<At(v1, 20), At(gone, 20)>>),
                        Patch(v1, nul, same), Put(1, <<At(v1, 30), At(v2, 1000)>>) }
       [] r = r3 -> { Patch(v2, x, FALSE), Put(1, <<At(v2, 30), At(v1, 30)>>) }]
=============================================================================
