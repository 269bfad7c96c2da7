----------------------------- MODULE SalesProofs -----------------------------
(***************************************************************************)
(* What create_and_post_sale and close_day keep for any number of keys,    *)
(* attempts, types and closes, any bodies and any change of the prices.    *)
(***************************************************************************)
EXTENDS Sales, SumProofs

\* The attempts whose row is in the unique indexes, for now or for good.
Indexed == Inserted \cup sales

(***************************************************************************)
(* The inductive invariant.                                                *)
(***************************************************************************)
\* An attempt is at a line it has not written, or has written them all.
Drawn ==
  \A a \in Attempts :
    /\ pc[a] \in {"idle", "lookup", "day", "invoice", "insert", "extra"} => rows[a] = <<>>
    /\ pc[a] \in {"price", "draw"} => Len(rows[a]) < Len(Body(a).lines)
    /\ pc[a] \in {"settle", "commit", "reply"} \/ a \in sales =>
         Len(rows[a]) = Len(Body(a).lines)

\* A sale is posted by its commit, and its attempt has only to answer.
PostedAreThrough ==
  \A a \in Attempts :
    /\ pc[a] = "reply" => a \in sales
    /\ a \in sales => pc[a] \in {"reply", "end"}
    /\ answer[a] # "none" => pc[a] = "end"

\* Two rows with one key or one invoice number are never in the table.
NoClash == \A a, b \in Indexed : a # b => ~Clash(a, b)

\* An attempt whose key was posted before it began never gets past the lookup.
RepeatsStop ==
  \A a \in Attempts :
    /\ known[a] \subseteq PostedKeys
    /\ pc[a] # "idle" /\ key[a] \in known[a] => pc[a] \in {"lookup", "end"}

\* Nor does a late one past the check of the day.
LateStop ==
  \A a \in Attempts :
    late[a] => pc[a] \in {"lookup", "day", "end"} /\ Body(a).day \in closed

\* A close that is done stands.
ClosesStand == \A c \in Closers : closer[c].at = "done" => closer[c].day \in closed

\* Each key, and each invoice number, is posted at most once.
PostedOnce == \A a, b \in sales : SameKey(a, b) \/ SameInvoice(a, b) => a = b

Inv ==
  /\ TypeOK /\ Drawn /\ PostedAreThrough /\ NoClash /\ RepeatsStop /\ LateStop /\ ClosesStand
  /\ RepeatReturnsOriginal /\ AnswersAreTrue /\ LateSaleRefused /\ ClosedOnce

-----------------------------------------------------------------------------
\* What an attempt has begun with is a body the schema accepts.
LEMMA BodyShape ==
  ASSUME TypeOK, NEW a \in Attempts, pc[a] # "idle"
  PROVE  SlipShape(Body(a))
BY SalesAssumption DEF TypeOK, Body

\* An attempt ends: its outcome is true and what it did not commit is gone.
LEMMA EndKeepsInv ==
  ASSUME Inv, NEW a \in Attempts, NEW outcome \in Outcomes, NEW s \in Attempts \cup {NoOne},
         End(a, outcome, s), pc[a] \notin {"idle", "end"},
         outcome = "ok" => s \in sales /\ SameKey(s, a),
         outcome \in Refusals => a \notin sales /\ key[a] \notin known[a]
  PROVE  Inv'
<1>1. TypeOK'
  <2>1. TablesOK'
    BY DEF Inv, TypeOK, TablesOK, End, Unlocked, Steps
  <2> QED  BY <2>1 DEF Inv, TypeOK, TablesOK, End, Copy, Steps, settings, history
<1>2. Drawn'
  BY DEF Inv, TypeOK, TablesOK, Drawn, End, Body, settings, history, Steps
<1>3. PostedAreThrough'
  BY DEF Inv, TypeOK, TablesOK, PostedAreThrough, End, settings, history, Steps
<1>4. NoClash'
  BY DEF Inv, TypeOK, TablesOK, NoClash, Indexed, Inserted, Clash, SameKey, SameInvoice, Body,
         End, settings, history
<1>5. RepeatsStop'
  BY DEF Inv, TypeOK, TablesOK, RepeatsStop, PostedKeys, End, settings, history
<1>6. LateStop'
  BY DEF Inv, TypeOK, TablesOK, LateStop, Body, End, settings, history
<1>7. ClosesStand'
  BY DEF Inv, ClosesStand, End, settings, history
<1>8. RepeatReturnsOriginal'
  BY DEF Inv, TypeOK, TablesOK, RepeatReturnsOriginal, SameKey, End, settings, history, Outcomes, Refusals
<1>9. AnswersAreTrue'
  BY DEF Inv, TypeOK, TablesOK, AnswersAreTrue, PostedAreThrough, SameKey, Body, End, settings,
         history, Outcomes, Refusals
<1>10. LateSaleRefused'
  BY DEF Inv, LateSaleRefused, End, settings, history
<1>11. ClosedOnce'
  BY DEF Inv, ClosedOnce, End, settings, history
<1> QED  BY <1>1, <1>2, <1>3, <1>4, <1>5, <1>6, <1>7, <1>8, <1>9, <1>10, <1>11 DEF Inv

\* A statement that changes nothing but where its attempt is.
LEMMA GotoKeepsInv ==
  ASSUME Inv, NEW a \in Attempts, NEW from \in Steps, NEW to \in Steps, Goto(a, from, to),
         from \notin {"idle", "reply", "end", "commit"}, to \notin {"idle", "lookup", "reply", "end"},
         UNCHANGED <<tables, settings, key, lock, draft, answer, shown, history, closer>>,
         boyExtra' \in [Attempts -> Nat], quote' \in [Attempts -> Nat],
         to \in {"extra", "price", "draw", "settle", "commit"} /\ a \notin Indexed =>
            \A b \in Indexed : ~Clash(a, b),
         key[a] \notin known[a],
         late[a] => to = "day",
         to \in {"price", "draw"} => Len(rows[a]) < Len(Body(a).lines),
         to \in {"settle", "commit"} => Len(rows[a]) = Len(Body(a).lines),
         to \in {"day", "invoice", "insert", "extra"} => rows[a] = <<>>
  PROVE  Inv'
<1> USE DEF Goto, tables, settings, history
<1>1. TypeOK'
  <2>1. TablesOK'
    BY DEF Inv, TypeOK, TablesOK
  <2> QED  BY <2>1 DEF Inv, TypeOK, TablesOK
<1>2. Drawn'
  BY DEF Inv, TypeOK, TablesOK, Drawn, Body
<1>3. PostedAreThrough'
  BY DEF Inv, TypeOK, TablesOK, PostedAreThrough
<1>4. NoClash'
  <2>1. Indexed' \subseteq Indexed \cup {a}
    BY DEF Inv, TypeOK, Indexed, Inserted
  <2>2. \A x, y : Clash(x, y)' <=> Clash(x, y)
    BY DEF Clash, SameKey, SameInvoice, Body
  <2>3. \A x, y : Clash(x, y) <=> Clash(y, x)
    BY DEF Clash, SameKey, SameInvoice
  <2>4. a \in Indexed' /\ a \notin Indexed => \A b \in Indexed : ~Clash(a, b)
    BY DEF Inv, TypeOK, Indexed, Inserted
  <2> QED  BY <2>1, <2>2, <2>3, <2>4 DEF Inv, NoClash
<1>5. RepeatsStop'
  <2>1. PostedKeys' = PostedKeys
    BY DEF PostedKeys
  <2>2. \A b \in Attempts \ {a} : pc'[b] = pc[b]
    BY DEF Inv, TypeOK
  <2> QED  BY <2>1, <2>2 DEF Inv, RepeatsStop
<1>6. LateStop'
  BY DEF Inv, TypeOK, TablesOK, LateStop, Body
<1>7. ClosesStand'
  BY DEF Inv, ClosesStand
<1>8. RepeatReturnsOriginal'
  BY DEF Inv, RepeatReturnsOriginal, SameKey
<1>9. AnswersAreTrue'
  BY DEF Inv, AnswersAreTrue, SameKey, Body
<1>10. LateSaleRefused'
  BY DEF Inv, LateSaleRefused
<1>11. ClosedOnce'
  BY DEF Inv, ClosedOnce
<1> QED  BY <1>1, <1>2, <1>3, <1>4, <1>5, <1>6, <1>7, <1>8, <1>9, <1>10, <1>11 DEF Inv
\* The arrival of an attempt keeps Inv.
LEMMA BeginKeepsInv == ASSUME Inv, NEW a \in Attempts, Begin(a) PROVE Inv'
<1> USE DEF Begin, Goto, tables, settings, work
<1>0. PICK k \in Keys :
        /\ key' = [key EXCEPT ![a] = k]
        /\ late' = [late EXCEPT ![a] = Slip[k].day \in closed]
  OBVIOUS
<1>a. pc[a] = "idle" /\ a \notin sales /\ answer[a] = "none" /\ a \notin Indexed /\ a \notin Indexed'
  BY DEF Inv, TypeOK, TablesOK, PostedAreThrough, Indexed, Inserted
<1>b. \A b \in Attempts \ {a} : Body(b)' = Body(b) /\ key'[b] = key[b] /\ pc'[b] = pc[b]
  BY <1>0 DEF Inv, TypeOK, TablesOK, Body
<1>c. PostedKeys' = PostedKeys /\ Indexed' = Indexed
  BY <1>0, <1>a, <1>b DEF Inv, TypeOK, TablesOK, PostedKeys, Indexed, Inserted
<1>1. TypeOK'
  <2>1. TablesOK'
    BY <1>0 DEF Inv, TypeOK, TablesOK
  <2>2. PostedKeys \subseteq Keys
    <3>1. \A s \in sales : s \in Attempts /\ pc[s] # "idle"
      BY DEF Inv, TypeOK, TablesOK, PostedAreThrough
    <3> QED  BY <3>1 DEF Inv, TypeOK, PostedKeys
  <2>3. known' \in [Attempts -> SUBSET Keys]
    BY <2>2 DEF Inv, TypeOK
  <2>4. late' \in [Attempts -> BOOLEAN]
    BY <1>0 DEF Inv, TypeOK
  <2> QED  BY <1>0, <2>1, <2>3, <2>4 DEF Inv, TypeOK, TablesOK, Steps
<1>2. Drawn'
  BY <1>a, <1>b DEF Inv, TypeOK, TablesOK, Drawn
<1>3. PostedAreThrough'
  BY <1>a DEF Inv, TypeOK, PostedAreThrough
<1>4. NoClash'
  <2>1. \A x, y \in Indexed : Clash(x, y)' <=> Clash(x, y)
    BY <1>a, <1>b DEF Clash, SameKey, SameInvoice, Indexed, Inserted, Inv, TypeOK, TablesOK
  <2> QED  BY <1>c, <2>1 DEF Inv, NoClash
<1>5. RepeatsStop'
  BY <1>a, <1>b, <1>c DEF Inv, TypeOK, TablesOK, RepeatsStop
<1>6. LateStop'
  BY <1>0, <1>a, <1>b DEF Inv, TypeOK, TablesOK, LateStop, Body
<1>7. ClosesStand'
  BY DEF Inv, ClosesStand
<1>8. RepeatReturnsOriginal'
  BY <1>a, <1>b DEF Inv, TypeOK, TablesOK, RepeatReturnsOriginal, SameKey
<1>9. AnswersAreTrue'
  BY <1>a, <1>b DEF Inv, TypeOK, TablesOK, AnswersAreTrue, SameKey
<1>10. LateSaleRefused'
  BY <1>0, <1>a DEF Inv, TypeOK, LateSaleRefused
<1>11. ClosedOnce'
  BY DEF Inv, ClosedOnce
<1> QED  BY <1>1, <1>2, <1>3, <1>4, <1>5, <1>6, <1>7, <1>8, <1>9, <1>10, <1>11 DEF Inv

\* The lookup of the idempotency key keeps Inv.
LEMMA LookupKeepsInv == ASSUME Inv, NEW a \in Attempts, Lookup(a) PROVE Inv'
<1>1. ASSUME NEW s \in Original(a), BuildSaleOut(a, s) PROVE Inv'
  BY <1>1, EndKeepsInv
  DEF Lookup, Original, BuildSaleOut, Outcomes, Refusals, Inv, TypeOK, TablesOK
<1>2. ASSUME Original(a) = {}, Goto(a, "lookup", "day"),
             UNCHANGED <<tables, settings, key, work, answer, shown, history, closer>>
      PROVE  Inv'
  <2>1. key[a] \notin known[a]
    BY <1>2 DEF Inv, RepeatsStop, PostedKeys, Original, SameKey
  <2>2. rows[a] = <<>>
    BY <1>2 DEF Inv, Drawn, Goto
  <2> QED  BY <1>2, <2>1, <2>2, GotoKeepsInv DEF Steps, work, Inv, TypeOK
<1> QED  BY <1>1, <1>2 DEF Lookup

\* The check of the day keeps Inv (_assert_day_open).
LEMMA AssertDayOpenKeepsInv == ASSUME Inv, NEW a \in Attempts, AssertDayOpen(a) PROVE Inv'
<1>0. key[a] \notin known[a] /\ a \notin sales /\ rows[a] = <<>>
  BY DEF Inv, RepeatsStop, PostedAreThrough, Drawn, AssertDayOpen
<1>1. CASE End(a, "closed", NoOne)
  BY <1>0, <1>1, EndKeepsInv DEF AssertDayOpen, Outcomes, Refusals
<1>2. CASE /\ ~DayClosed(a) /\ Goto(a, "day", "invoice")
           /\ UNCHANGED <<tables, settings, key, work, answer, shown, history, closer>>
  BY <1>0, <1>2, GotoKeepsInv DEF Steps, work, Inv, TypeOK, LateStop, DayClosed
<1> QED  BY <1>1, <1>2 DEF AssertDayOpen

\* The check of the invoice number keeps Inv.
LEMMA CheckInvoiceKeepsInv == ASSUME Inv, NEW a \in Attempts, CheckInvoice(a) PROVE Inv'
<1>0. key[a] \notin known[a] /\ a \notin sales /\ rows[a] = <<>> /\ ~late[a]
  BY DEF Inv, RepeatsStop, PostedAreThrough, Drawn, LateStop, CheckInvoice
<1>1. CASE End(a, "duplicate", NoOne)
  BY <1>0, <1>1, EndKeepsInv DEF CheckInvoice, Outcomes, Refusals
<1>2. CASE /\ Goto(a, "invoice", "insert")
           /\ UNCHANGED <<tables, settings, key, work, answer, shown, history, closer>>
  BY <1>0, <1>2, GotoKeepsInv DEF Steps, work, Inv, TypeOK
<1> QED  BY <1>1, <1>2 DEF CheckInvoice

\* The insert of the sale keeps Inv: it waits for, or fails on, a clash.
LEMMA InsertKeepsInv == ASSUME Inv, NEW a \in Attempts, Insert(a) PROVE Inv'
<1>0. key[a] \notin known[a] /\ a \notin sales /\ rows[a] = <<>> /\ ~late[a]
  BY DEF Inv, RepeatsStop, PostedAreThrough, Drawn, LateStop, Insert
<1>1. CASE End(a, "conflict", NoOne)
  BY <1>0, <1>1, EndKeepsInv DEF Insert, Outcomes, Refusals
<1>2. CASE /\ \A s \in sales : ~Clash(a, s)
           /\ Goto(a, "insert", "extra")
           /\ UNCHANGED <<tables, settings, key, work, answer, shown, history, closer>>
  <2>1. \A b \in Indexed : ~Clash(a, b)
    BY <1>2 DEF Insert, Indexed
  <2> QED  BY <1>0, <1>2, <2>1, GotoKeepsInv DEF Steps, work, Inv, TypeOK
<1> QED  BY <1>1, <1>2 DEF Insert

\* What holds of an attempt between its INSERT and its commit.
LEMMA UnderWay ==
  ASSUME Inv, NEW a \in Inserted
  PROVE  /\ key[a] \notin known[a] /\ a \notin sales /\ ~late[a]
         /\ a \in Attempts /\ a \in Indexed /\ key[a] \in Keys /\ SlipShape(Body(a))
BY SalesAssumption DEF Inv, TypeOK, RepeatsStop, PostedAreThrough, LateStop, Inserted, Indexed, Body

\* The line an attempt is at has a type and a positive quantity.
LEMMA LineShape ==
  ASSUME Inv, NEW a \in Attempts, pc[a] \in {"price", "draw"}
  PROVE  Line(a).type \in Types /\ Line(a).qty \in Nat \ {0}
<1> DEFINE S == [type : Types, qty : Nat \ {0}]
<1>1. Body(a).lines \in Seq(S)
  BY UnderWay DEF Inserted, SlipShape
<1>2. Len(rows[a]) < Len(Body(a).lines) /\ Len(rows[a]) \in Nat
  BY DEF Inv, Drawn, TypeOK, TablesOK
<1>3. Line(a) \in S
  <2> DEFINE q == Body(a).lines  n == Len(rows[a]) + 1
  <2>1. q \in Seq(S) /\ n \in 1 .. Len(q)
    BY <1>1, <1>2
  <2> HIDE DEF q, n, S
  <2>2. q[n] \in S
    BY <2>1
  <2> QED  BY <2>2 DEF Line, q, n
<1> QED  BY <1>3

\* Reading the boy's extra keeps Inv.
LEMMA ReadExtraKeepsInv == ASSUME Inv, NEW a \in Attempts, ReadExtra(a) PROVE Inv'
<1>0. a \in Inserted /\ pc[a] = "extra"
  BY DEF ReadExtra, Goto, Inserted
<1>1. boyExtra' \in [Attempts -> Nat]
  BY DEF ReadExtra, Inv, TypeOK
<1>2. Len(rows[a]) < Len(Body(a).lines)
  <2>1. rows[a] = <<>>
    BY <1>0 DEF Inv, Drawn
  <2>2. Body(a).lines # <<>> /\ Body(a).lines \in Seq([type : Types, qty : Nat \ {0}])
    BY <1>0, UnderWay DEF SlipShape
  <2>3. Len(Body(a).lines) > 0
    BY <2>2
  <2> QED  BY <2>1, <2>3
<1> QED  BY <1>0, <1>1, <1>2, UnderWay, GotoKeepsInv DEF ReadExtra, Steps, Inv, TypeOK

\* The price lookup of a line keeps Inv.
LEMMA ResolvePriceKeepsInv == ASSUME Inv, NEW a \in Attempts, ResolvePrice(a) PROVE Inv'
<1>0. a \in Inserted /\ pc[a] = "price"
  BY DEF ResolvePrice, Inserted
<1> DEFINE p == price[Line(a).type]
<1>1. CASE End(a, "noprice", NoOne)
  BY <1>0, <1>1, UnderWay, EndKeepsInv DEF Outcomes, Refusals
<1>2. CASE /\ ~Unpriced(p) /\ Goto(a, "price", "draw")
           /\ quote' = [quote EXCEPT ![a] = p]
           /\ UNCHANGED <<tables, settings, key, lock, draft, boyExtra, answer, shown,
                          history, closer>>
  <2>1. Line(a).type \in Types
    BY <1>0, LineShape
  <2>2. p \in Nat
    BY <1>2, <2>1 DEF Inv, TypeOK, Unpriced
  <2>3. quote' \in [Attempts -> Nat]
    BY <1>2, <2>2 DEF Inv, TypeOK
  <2>4. Len(rows[a]) < Len(Body(a).lines)
    BY <1>0 DEF Inv, Drawn
  <2> QED  BY <1>0, <1>2, <2>3, <2>4, UnderWay, GotoKeepsInv DEF Steps, Inv, TypeOK
<1> QED  BY <1>1, <1>2 DEF ResolvePrice

\* Locking and drawing the stock of a line keeps Inv.
LEMMA DrawLineKeepsInv == ASSUME Inv, NEW a \in Attempts, DrawLine(a) PROVE Inv'
<1>0. a \in Inserted /\ pc[a] = "draw" /\ Len(rows[a]) < Len(Body(a).lines)
  BY DEF DrawLine, Inserted, Inv, Drawn
<1> DEFINE l == Line(a)
           next == IF Len(rows[a]) + 1 < Len(Body(a).lines) THEN "price" ELSE "settle"
           row == [type |-> l.type, qty |-> l.qty, unit |-> quote[a] + boyExtra[a]]
<1>1. CASE End(a, "nostock", NoOne)
  BY <1>0, <1>1, UnderWay, EndKeepsInv DEF Outcomes, Refusals
<1>2. CASE /\ Goto(a, "draw", next)
           /\ lock' = [lock EXCEPT ![l.type] = a]
           /\ draft' = [draft EXCEPT ![a][l.type] = Quantity(l.type, a) - l.qty]
           /\ rows' = [rows EXCEPT ![a] = Append(@, row)]
           /\ quote' = [quote EXCEPT ![a] = 0]
           /\ UNCHANGED <<sales, stock, books, closed, settings, key, boyExtra, answer,
                          shown, history, closer>>
  <2> USE DEF Goto, settings, history
  <2>1. l.type \in Types /\ l.qty \in Nat \ {0}
    BY <1>0, LineShape
  <2>2. row \in PricedLines
    BY <2>1 DEF Inv, TypeOK, PricedLines
  <2>3. Append(rows[a], row) \in Seq(PricedLines) /\ Len(Append(rows[a], row)) = Len(rows[a]) + 1
    <3> HIDE DEF row
    <3> QED  BY <2>2 DEF Inv, TypeOK, TablesOK
  <2>4. rows' \in [Attempts -> Seq(PricedLines)] /\ Len(rows'[a]) = Len(rows[a]) + 1
         /\ \A b \in Attempts \ {a} : rows'[b] = rows[b]
    BY <1>2, <2>3 DEF Inv, TypeOK, TablesOK
  <2>5. pc' = [pc EXCEPT ![a] = next] /\ next \in {"price", "settle"}
    BY <1>2
  <2>6. /\ next = "price" => Len(rows'[a]) < Len(Body(a).lines)
        /\ next = "settle" => Len(rows'[a]) = Len(Body(a).lines)
    BY <1>0, <2>4, UnderWay DEF SlipShape, Inv, TypeOK, TablesOK
  <2>7. Quantity(l.type, a) - l.qty \in Int
    BY <2>1 DEF Quantity, Inv, TypeOK, TablesOK
  <2>8. PostedKeys' = PostedKeys /\ Indexed' = Indexed
    BY <1>2, <1>0, <2>5 DEF PostedKeys, Indexed, Inserted, Inv, TypeOK
  <2> HIDE DEF next, l, row
  <2>9. TypeOK'
    <3>1. TablesOK'
      BY <1>2, <2>1, <2>4 DEF Inv, TypeOK, TablesOK
    <3>2. draft' \in [Attempts -> [Types -> Int]]
      BY <1>2, <2>1, <2>7 DEF Inv, TypeOK
    <3> QED  BY <1>2, <2>5, <3>1, <3>2, UnderWay, <1>0 DEF Inv, TypeOK, Steps
  <2>10. Drawn'
    BY <1>0, <1>2, <2>4, <2>5, <2>6, UnderWay DEF Inv, TypeOK, Drawn, Body
  <2>11. PostedAreThrough'
    BY <1>0, <1>2, <2>5, UnderWay DEF Inv, TypeOK, PostedAreThrough
  <2>12. NoClash'
    BY <1>2, <2>8 DEF Inv, NoClash, Clash, SameKey, SameInvoice, Body
  <2>13. RepeatsStop'
    BY <1>0, <1>2, <2>5, <2>8, UnderWay DEF Inv, TypeOK, RepeatsStop
  <2>14. LateStop'
    BY <1>0, <1>2, <2>5, UnderWay DEF Inv, TypeOK, LateStop, Body
  <2>15. ClosesStand' /\ LateSaleRefused' /\ ClosedOnce'
    BY <1>2 DEF Inv, ClosesStand, LateSaleRefused, ClosedOnce
  <2>16. RepeatReturnsOriginal'
    BY <1>2 DEF Inv, RepeatReturnsOriginal, SameKey
  <2>17. AnswersAreTrue'
    BY <1>0, <1>2, <2>4, UnderWay DEF Inv, AnswersAreTrue, SameKey, Body
  <2> QED  BY <2>9, <2>10, <2>11, <2>12, <2>13, <2>14, <2>15, <2>16, <2>17 DEF Inv
<1> QED  BY <1>1, <1>2 DEF DrawLine

\* The reconciliation of the money keeps Inv.
LEMMA ReconcileKeepsInv == ASSUME Inv, NEW a \in Attempts, Reconcile(a) PROVE Inv'
<1>0. a \in Inserted /\ pc[a] = "settle" /\ Len(rows[a]) = Len(Body(a).lines)
  BY DEF Reconcile, Inserted, Inv, Drawn
<1>1. CASE End(a, "mismatch", NoOne)
  BY <1>0, <1>1, UnderWay, EndKeepsInv DEF Outcomes, Refusals
<1>2. CASE /\ Goto(a, "settle", "commit")
           /\ UNCHANGED <<tables, settings, key, work, answer, shown, history, closer>>
  BY <1>0, <1>2, UnderWay, GotoKeepsInv DEF Steps, work, Inv, TypeOK
<1> QED  BY <1>1, <1>2 DEF Reconcile

\* The commit of a sale keeps Inv: whoever clashes with it is not inserted.
LEMMA CommitKeepsInv == ASSUME Inv, NEW a \in Attempts, Commit(a) PROVE Inv'
<1> USE DEF Commit, Goto, settings, history
<1>0. a \in Inserted /\ pc[a] = "commit" /\ Len(rows[a]) = Len(Body(a).lines)
  BY DEF Inserted, Inv, Drawn
<1>a. pc' = [pc EXCEPT ![a] = "reply"] /\ sales' = sales \cup {a}
  OBVIOUS
<1>b. Indexed' = Indexed /\ PostedKeys \subseteq PostedKeys'
  BY <1>0, <1>a DEF Indexed, Inserted, PostedKeys, Inv, TypeOK
<1>1. TypeOK'
  <2>1. books' \in [cash : Nat, upi : Nat, online : Nat, balance : Nat]
    <3>1. Body(a).paid \in [cash : Nat, upi : Nat, online : Nat, balance : Nat]
      BY <1>0, UnderWay DEF SlipShape
    <3>2. books \in [cash : Nat, upi : Nat, online : Nat, balance : Nat]
      BY DEF Inv, TypeOK, TablesOK
    <3>3. DOMAIN books = {"cash", "upi", "online", "balance"}
      BY <3>2
    <3>4. books' = [m \in {"cash", "upi", "online", "balance"} |-> books[m] + Body(a).paid[m]]
      BY <3>3
    <3>5. books' = [cash    |-> books.cash + Body(a).paid.cash,
                    upi     |-> books.upi + Body(a).paid.upi,
                    online  |-> books.online + Body(a).paid.online,
                    balance |-> books.balance + Body(a).paid.balance]
      BY <3>4
    <3> QED  BY <3>1, <3>2, <3>5
  <2>2. stock' \in [Types -> Int]
    BY DEF Inv, TypeOK, TablesOK
  <2>3. lock' \in [Types -> Attempts \cup {NoOne}]
    BY DEF Inv, TypeOK, TablesOK, Unlocked
  <2>4. TablesOK'
    BY <2>1, <2>2, <2>3 DEF Inv, TypeOK, TablesOK
  <2> QED  BY <1>0, <1>a, <2>4, UnderWay DEF Inv, TypeOK, Steps, Copy
<1>2. Drawn'
  BY <1>0, <1>a DEF Inv, TypeOK, Drawn, Body
<1>3. PostedAreThrough'
  BY <1>0, <1>a DEF Inv, TypeOK, PostedAreThrough
<1>4. NoClash'
  BY <1>b DEF Inv, NoClash, Clash, SameKey, SameInvoice, Body
<1>5. RepeatsStop'
  BY <1>0, <1>a, <1>b, UnderWay DEF Inv, TypeOK, RepeatsStop
<1>6. LateStop'
  BY <1>0, <1>a, UnderWay DEF Inv, TypeOK, LateStop, Body
<1>7. ClosesStand' /\ ClosedOnce'
  BY DEF Inv, ClosesStand, ClosedOnce
<1>8. RepeatReturnsOriginal'
  BY <1>0, <1>a DEF Inv, RepeatReturnsOriginal, SameKey
<1>9. AnswersAreTrue'
  BY <1>0, <1>a DEF Inv, TypeOK, AnswersAreTrue, PostedAreThrough, SameKey, Body, Refusals
<1>10. LateSaleRefused'
  BY <1>0, <1>a, UnderWay DEF Inv, LateSaleRefused
<1> QED  BY <1>1, <1>2, <1>3, <1>4, <1>5, <1>6, <1>7, <1>8, <1>9, <1>10 DEF Inv

\* Building the answer keeps Inv.
LEMMA ReplyKeepsInv == ASSUME Inv, NEW a \in Attempts, Reply(a) PROVE Inv'
<1>1. a \in sales
  BY DEF Reply, Inv, PostedAreThrough
<1> QED  BY <1>1, EndKeepsInv DEF Reply, BuildSaleOut, Outcomes, Refusals, SameKey

\* A lost connection keeps Inv, before the commit and after it.
LEMMA LoseKeepsInv == ASSUME Inv, NEW a \in Attempts, Lose(a) PROVE Inv'
BY EndKeepsInv DEF Lose, Outcomes, Refusals

\* The deadlock detector's choice keeps Inv.
LEMMA VictimKeepsInv == ASSUME Inv, NEW a \in Attempts, Victim(a) PROVE Inv'
<1>1. pc[a] = "draw" /\ End(a, "conflict", NoOne)
  BY DEF Victim, Waits
<1>2. a \in Inserted
  BY <1>1 DEF Inserted
<1> QED  BY <1>1, <1>2, UnderWay, EndKeepsInv DEF Outcomes, Refusals

\* The read of close_day keeps Inv.
LEMMA CloseReadKeepsInv == ASSUME Inv, NEW c \in Closers, CloseRead(c) PROVE Inv'
<1> USE DEF CloseRead, tables, settings, work, history
<1>1. PICK d \in Days : closer' = [closer EXCEPT ![c] =
                    [at |-> IF d \in closed THEN "refused" ELSE "open", day |-> d]]
  OBVIOUS
<1>2. TypeOK'
  <2>1. TablesOK'
    BY DEF Inv, TypeOK, TablesOK
  <2> QED  BY <1>1, <2>1 DEF Inv, TypeOK, Closes
<1>3. ClosesStand' /\ ClosedOnce'
  BY <1>1 DEF Inv, TypeOK, ClosesStand, ClosedOnce
<1>4. Drawn' /\ PostedAreThrough' /\ LateStop' /\ AnswersAreTrue'
  BY DEF Inv, Drawn, PostedAreThrough, LateStop, AnswersAreTrue, Body, SameKey
<1>5. NoClash' /\ RepeatsStop' /\ RepeatReturnsOriginal' /\ LateSaleRefused'
  BY DEF Inv, NoClash, RepeatsStop, RepeatReturnsOriginal, LateSaleRefused, Indexed, Inserted,
         Clash, SameKey, SameInvoice, Body, PostedKeys
<1> QED  BY <1>2, <1>3, <1>4, <1>5 DEF Inv

\* The commit of close_day keeps Inv.
LEMMA CloseCommitKeepsInv == ASSUME Inv, NEW c \in Closers, CloseCommit(c) PROVE Inv'
<1> USE DEF CloseCommit, settings, work, history
<1>1. /\ closer[c].day \in Days /\ closed' = closed \cup {closer[c].day}
      /\ closer' = [closer EXCEPT ![c].at = Verdict(c)]
  BY DEF Inv, TypeOK
<1>2. TypeOK'
  <2>1. TablesOK'
    BY <1>1 DEF Inv, TypeOK, TablesOK
  <2>2. Verdict(c) \in {"error", "done"}
    BY DEF Verdict
  <2> QED  BY <1>1, <2>1, <2>2 DEF Inv, TypeOK, Closes
<1>3. ClosesStand'
  BY <1>1 DEF Inv, TypeOK, ClosesStand
<1>4. ClosedOnce'
  BY <1>1 DEF Inv, TypeOK, ClosesStand, ClosedOnce, Verdict
<1>5. Drawn' /\ PostedAreThrough' /\ AnswersAreTrue'
  BY DEF Inv, Drawn, PostedAreThrough, AnswersAreTrue, Body, SameKey
<1>6. LateStop'
  BY <1>1 DEF Inv, LateStop, Body
<1>7. NoClash' /\ RepeatsStop' /\ RepeatReturnsOriginal' /\ LateSaleRefused'
  BY DEF Inv, NoClash, RepeatsStop, RepeatReturnsOriginal, LateSaleRefused, Indexed, Inserted,
         Clash, SameKey, SameInvoice, Body, PostedKeys
<1> QED  BY <1>2, <1>3, <1>4, <1>5, <1>6, <1>7 DEF Inv

\* Changes of the settings, and no step at all.
LEMMA FrameKeepsInv ==
  ASSUME Inv, price' \in [Types -> Int], extra' \in Nat,
         UNCHANGED <<tables, pc, key, work, answer, shown, history, closer>>
  PROVE  Inv'
<1> USE DEF tables, work, history
<1>1. TypeOK'
  <2>1. TablesOK'
    BY DEF Inv, TypeOK, TablesOK
  <2> QED  BY <2>1 DEF Inv, TypeOK
<1>2. Drawn' /\ PostedAreThrough' /\ LateStop' /\ AnswersAreTrue' /\ ClosesStand' /\ ClosedOnce'
  BY DEF Inv, Drawn, PostedAreThrough, LateStop, AnswersAreTrue, ClosesStand, ClosedOnce, Body,
         SameKey
<1>3. NoClash' /\ RepeatsStop' /\ RepeatReturnsOriginal' /\ LateSaleRefused'
  BY DEF Inv, NoClash, RepeatsStop, RepeatReturnsOriginal, LateSaleRefused, Indexed, Inserted,
         Clash, SameKey, SameInvoice, Body, PostedKeys
<1> QED  BY <1>1, <1>2, <1>3 DEF Inv

\* Inv holds at first.
LEMMA InitInv == Init => Inv
<1> SUFFICES ASSUME Init PROVE Inv
  OBVIOUS
<1>1. TypeOK
  BY SalesAssumption DEF Init, TypeOK, TablesOK, Steps, Closes, NoBooks, Copy, Outcomes
<1>2. Drawn /\ PostedAreThrough /\ LateStop /\ AnswersAreTrue /\ ClosesStand /\ ClosedOnce
  BY DEF Init, Drawn, PostedAreThrough, LateStop, AnswersAreTrue, ClosesStand, ClosedOnce
<1>3. NoClash /\ RepeatsStop /\ RepeatReturnsOriginal /\ LateSaleRefused
  BY DEF Init, NoClash, RepeatsStop, RepeatReturnsOriginal, LateSaleRefused, Indexed, Inserted
<1> QED  BY <1>1, <1>2, <1>3 DEF Inv

\* Inv is inductive.
LEMMA NextKeepsInv == Inv /\ [Next]_vars => Inv'
<1> SUFFICES ASSUME Inv, [Next]_vars PROVE Inv'
  OBVIOUS
<1>1. ASSUME NEW a \in Attempts, Serve(a) PROVE Inv'
  BY <1>1, LookupKeepsInv, AssertDayOpenKeepsInv, CheckInvoiceKeepsInv, InsertKeepsInv,
     ReadExtraKeepsInv, ResolvePriceKeepsInv, DrawLineKeepsInv, ReconcileKeepsInv,
     CommitKeepsInv, ReplyKeepsInv, VictimKeepsInv DEF Serve
<1>2. ASSUME NEW a \in Attempts, Begin(a) \/ Lose(a) PROVE Inv'
  BY <1>2, BeginKeepsInv, LoseKeepsInv
<1>3. ASSUME NEW c \in Closers, CloseRead(c) \/ CloseCommit(c) PROVE Inv'
  BY <1>3, CloseReadKeepsInv, CloseCommitKeepsInv
<1>4. CASE SetPrices \/ SetExtra
  BY <1>4, FrameKeepsInv, SalesAssumption DEF SetPrices, SetExtra, Inv, TypeOK
<1>5. CASE Ended \/ UNCHANGED vars
  BY <1>5, FrameKeepsInv DEF Ended, vars, settings, Inv, TypeOK
<1> QED  BY <1>1, <1>2, <1>3, <1>4, <1>5 DEF Next

\* Inv holds in every reachable state.
LEMMA Invariance == Spec => []Inv
BY InitInv, NextKeepsInv, PTL DEF Spec

-----------------------------------------------------------------------------
\* The tables, every attempt and every close keep their types: no line is
\* written without a type, a quantity and a price that was set, and no attempt
\* goes on with a quote or an extra below zero, whatever create_and_post_sale
\* reads.
THEOREM SalesTypes == Spec => []TypeOK
<1>1. Inv => TypeOK  BY DEF Inv
<1> QED  BY <1>1, Invariance, PTL

\* A repeat of a posted key is answered with the sale it was posted as, and
\* with nothing else, however many attempts there are (sales.py:96).
THEOREM RepeatsReturnOriginal == Spec => []RepeatReturnsOriginal
<1>1. Inv => RepeatReturnsOriginal  BY DEF Inv
<1> QED  BY <1>1, Invariance, PTL

\* An attempt that was told "ok" is shown a posted sale of its key, one that
\* was refused has posted nothing, and posted sales have all their lines,
\* though _build_sale_out may fail after the commit: then it is told neither.
THEOREM AnswersAlwaysTrue == Spec => []AnswersAreTrue
<1>1. Inv => AnswersAreTrue  BY DEF Inv
<1> QED  BY <1>1, Invariance, PTL

\* _assert_day_open refuses every sale that was entered after the close.
THEOREM LateSalesRefused == Spec => []LateSaleRefused
<1>1. Inv => LateSaleRefused  BY DEF Inv
<1> QED  BY <1>1, Invariance, PTL

\* Of any number of close_day calls for a date one closes it.
THEOREM DaysCloseOnce == Spec => []ClosedOnce
<1>1. Inv => ClosedOnce  BY DEF Inv
<1> QED  BY <1>1, Invariance, PTL

\* The two unique indexes and the lookups before them post each key once and
\* each invoice number once.
THEOREM KeysPostOnce == Spec => []PostedOnce
<1>1. Inv => PostedOnce  BY DEF Inv, NoClash, PostedOnce, Clash, Indexed
<1> QED  BY <1>1, Invariance, PTL

-----------------------------------------------------------------------------
(* BooksBalance.                                                           *)

Settled(a) == Tallies(a) \/ Body(a).owner
PaidFor(a) == Money(Body(a).paid)

\* What is about to be committed has been reconciled, so what is posted was;
\* and the books hold the money of the posted sales.
MoneyInv ==
  /\ IsFiniteSet(sales)
  /\ \A a \in Attempts : pc[a] = "commit" \/ a \in sales => Settled(a)
  /\ Money(books) = SumFunction([s \in sales |-> PaidFor(s)])

\* The money of a sale is a natural.
LEMMA PaidType ==
  ASSUME Inv, NEW a \in Attempts, pc[a] # "idle"
  PROVE  /\ PaidFor(a) \in Nat
         /\ Body(a).paid \in [cash : Nat, upi : Nat, online : Nat, balance : Nat]
BY BodyShape DEF Inv, SlipShape, PaidFor, Money

\* MoneyInv holds of a sale as long as its lines and its key stay.
LEMMA MoneyKept ==
  ASSUME MoneyInv, UNCHANGED <<sales, books>>,
         \A a \in Attempts : pc'[a] = "commit" /\ pc[a] # "commit" => Settled(a)',
         \A a \in Attempts : (pc[a] = "commit" /\ pc'[a] = "commit") \/ a \in sales =>
            rows'[a] = rows[a] /\ key'[a] = key[a],
         sales \subseteq Attempts
  PROVE  MoneyInv'
<1>1. ASSUME NEW a \in Attempts, (pc[a] = "commit" /\ pc'[a] = "commit") \/ a \in sales
      PROVE  Settled(a)' <=> Settled(a)
  BY <1>1 DEF Settled, Tallies, Revenue, Body
<1>2. \A s \in sales : PaidFor(s)' = PaidFor(s)
  BY DEF PaidFor, Body
<1>3. [s \in sales |-> PaidFor(s)]' = [s \in sales |-> PaidFor(s)]
  BY <1>2
<1>4. Money(books)' = Money(books)
  BY DEF Money
<1>5. \A a \in Attempts : pc'[a] = "commit" \/ a \in sales' => Settled(a)'
  BY <1>1 DEF MoneyInv
<1> QED BY <1>3, <1>4, <1>5 DEF MoneyInv

\* The commit of a sale adds its money to the books.
LEMMA CommitKeepsMoney ==
  ASSUME Inv, MoneyInv, NEW a \in Attempts, Commit(a)
  PROVE  MoneyInv'
<1> DEFINE f == [s \in sales' |-> PaidFor(s)]
           g == [s \in sales |-> PaidFor(s)]
           h == [s \in {a} |-> PaidFor(s)]
<1>1. /\ pc[a] = "commit" /\ a \notin sales /\ sales' = sales \cup {a}
      /\ UNCHANGED <<rows, key>> /\ sales \subseteq Attempts
  BY DEF Commit, Goto, Inv, PostedAreThrough, TypeOK, TablesOK
<1>2. \A b \in Attempts : pc'[b] = "commit" => pc[b] = "commit"
  BY DEF Commit, Goto, Inv, TypeOK
<1>3. \A s \in sales' : PaidFor(s) \in Int
  BY <1>1, PaidType DEF Inv, PostedAreThrough
<1>4. [s \in sales |-> PaidFor(s)]' = f
  BY <1>1 DEF PaidFor, Body
<1>5. SumFunction(f) = SumFunction(g) + SumFunction(h)
  <2>1. /\ DOMAIN f = DOMAIN g \cup DOMAIN h /\ DOMAIN g \cap DOMAIN h = {}
        /\ \A s \in DOMAIN g : g[s] = f[s] /\ f[s] \in Int
        /\ \A s \in DOMAIN h : h[s] = f[s] /\ f[s] \in Int
    BY <1>1, <1>3
  <2>2. IsFiniteSet(DOMAIN g) /\ IsFiniteSet(DOMAIN h)
    BY FS_Singleton DEF MoneyInv
  <2> HIDE DEF f, g, h
  <2> QED BY <2>1, <2>2, FnUnion
<1>6. SumFunction(h) = PaidFor(a)
  <2>1. h[a] \in Int /\ DOMAIN h = {a} /\ h[a] = PaidFor(a)
    BY <1>1, <1>3
  <2> HIDE DEF h
  <2>2. SumFunctionOnSet(h, {a}) = h[a]
    BY <2>1, SumSingle
  <2> QED BY <2>1, <2>2 DEF SumFunction
<1>7. Money(books)' = Money(books) + PaidFor(a)
  <2>1. /\ books \in [cash : Nat, upi : Nat, online : Nat, balance : Nat]
        /\ books' = [m \in DOMAIN books |-> books[m] + Body(a).paid[m]]
    BY DEF Commit, Inv, TypeOK, TablesOK
  <2>2. Body(a).paid \in [cash : Nat, upi : Nat, online : Nat, balance : Nat]
    BY <1>1, PaidType
  <2>3. /\ books'.cash = books.cash + Body(a).paid.cash
        /\ books'.upi = books.upi + Body(a).paid.upi
        /\ books'.online = books.online + Body(a).paid.online
        /\ books'.balance = books.balance + Body(a).paid.balance
    BY <2>1
  <2>4. /\ books.cash \in Nat /\ books.upi \in Nat /\ books.online \in Nat /\ books.balance \in Nat
        /\ Body(a).paid.cash \in Nat /\ Body(a).paid.upi \in Nat
        /\ Body(a).paid.online \in Nat /\ Body(a).paid.balance \in Nat
    BY <2>1, <2>2
  <2> QED BY <2>3, <2>4 DEF Money, PaidFor
<1>8. Money(books)' = SumFunction(f)
  BY <1>5, <1>6, <1>7 DEF MoneyInv
<1>9. \A b \in Attempts : pc'[b] = "commit" \/ b \in sales' => Settled(b)'
  <2>1. \A b \in Attempts : Settled(b)' <=> Settled(b)
    BY <1>1 DEF Settled, Tallies, Revenue, Body
  <2> QED BY <1>1, <1>2, <2>1 DEF MoneyInv
<1>10. IsFiniteSet(sales')
  BY <1>1, FS_AddElement DEF MoneyInv
<1> HIDE DEF f
<1> QED BY <1>4, <1>8, <1>9, <1>10 DEF MoneyInv

\* No other step of a sale touches what is posted or reconciled.
LEMMA StepKeepsMoney ==
  ASSUME Inv, MoneyInv, NEW a \in Attempts,
         Begin(a) \/ (Serve(a) /\ ~Commit(a)) \/ Lose(a)
  PROVE  MoneyInv'
<1> USE DEF Goto, tables, settings, work, history
<1>1. /\ pc \in [Attempts -> Steps] /\ rows \in [Attempts -> Seq(PricedLines)]
      /\ key \in [Attempts -> Keys \cup {NoOne}] /\ sales \subseteq Attempts
      /\ \A s \in sales : pc[s] \in {"reply", "end"}
  BY DEF Inv, TypeOK, TablesOK, PostedAreThrough
<1>2. ASSUME NEW outcome, NEW s, End(a, outcome, s)
      PROVE  MoneyInv'
  <2>1. /\ UNCHANGED <<sales, books, key>> /\ pc' = [pc EXCEPT ![a] = "end"]
        /\ rows' = IF a \in sales THEN rows ELSE [rows EXCEPT ![a] = <<>>]
    BY <1>2 DEF End
  <2>2. \A b \in Attempts : pc'[b] = "commit" => pc[b] = "commit" /\ b # a
    BY <1>1, <2>1
  <2>3. \A b \in Attempts : (pc[b] = "commit" /\ pc'[b] = "commit") \/ b \in sales =>
           rows'[b] = rows[b] /\ key'[b] = key[b]
    BY <1>1, <2>1, <2>2
  <2> QED BY <1>1, <2>1, <2>2, <2>3, MoneyKept
<1>3. ASSUME UNCHANGED <<sales, books, rows, key>>, NEW step, step # "commit",
             pc' = [pc EXCEPT ![a] = step]
      PROVE  MoneyInv'
  <2>1. \A b \in Attempts : pc'[b] = "commit" => pc[b] = "commit"
    BY <1>1, <1>3
  <2> QED BY <1>1, <1>3, <2>1, MoneyKept
<1>4. CASE Begin(a)
  <2>1. /\ UNCHANGED <<sales, books, rows>> /\ pc[a] = "idle" /\ pc' = [pc EXCEPT ![a] = "lookup"]
        /\ \A b \in Attempts \ {a} : key'[b] = key[b]
    BY <1>1, <1>4 DEF Begin
  <2>2. \A b \in Attempts : pc'[b] = "commit" => pc[b] = "commit"
    BY <1>1, <2>1
  <2>3. \A b \in Attempts : (pc[b] = "commit" /\ pc'[b] = "commit") \/ b \in sales =>
           rows'[b] = rows[b] /\ key'[b] = key[b]
    BY <1>1, <2>1
  <2> QED BY <1>1, <2>1, <2>2, <2>3, MoneyKept
<1>5. CASE Lookup(a) \/ AssertDayOpen(a) \/ CheckInvoice(a) \/ Insert(a) \/ ReadExtra(a)
             \/ ResolvePrice(a)
  BY <1>2, <1>3, <1>5 DEF Lookup, BuildSaleOut, AssertDayOpen, CheckInvoice, Insert,
     ReadExtra, ResolvePrice
<1>6. CASE DrawLine(a)
  <2>1. CASE End(a, "nostock", NoOne)
    BY <1>2, <2>1
  <2>2. CASE ~End(a, "nostock", NoOne)
    <3>1. /\ UNCHANGED <<sales, books, key>> /\ pc[a] = "draw"
          /\ \E step \in {"price", "settle"} : pc' = [pc EXCEPT ![a] = step]
          /\ \E l : rows' = [rows EXCEPT ![a] = Append(@, l)]
      BY <1>6, <2>2 DEF DrawLine
    <3>2. a \notin sales /\ \A b \in Attempts : pc'[b] = "commit" => pc[b] = "commit" /\ b # a
      BY <1>1, <3>1
    <3>3. \A b \in Attempts : b # a => rows'[b] = rows[b]
      BY <1>1, <3>1
    <3>4. \A b \in Attempts : (pc[b] = "commit" /\ pc'[b] = "commit") \/ b \in sales =>
             rows'[b] = rows[b] /\ key'[b] = key[b]
      BY <3>1, <3>2, <3>3
    <3> QED BY <1>1, <3>1, <3>2, <3>4, MoneyKept
  <2> QED BY <2>1, <2>2
<1>7. CASE Reconcile(a)
  <2>1. CASE End(a, "mismatch", NoOne)
    BY <1>2, <2>1
  <2>2. CASE ~End(a, "mismatch", NoOne)
    <3>1. /\ UNCHANGED <<sales, books, rows, key>> /\ Settled(a)
          /\ pc' = [pc EXCEPT ![a] = "commit"]
      BY <1>7, <2>2 DEF Reconcile, Settled
    <3>2. \A b \in Attempts : pc'[b] = "commit" /\ pc[b] # "commit" => b = a
      BY <1>1, <3>1
    <3>3. Settled(a)' <=> Settled(a)
      BY <3>1 DEF Settled, Tallies, Revenue, Body
    <3> QED BY <1>1, <3>1, <3>2, <3>3, MoneyKept
  <2> QED BY <2>1, <2>2
<1>8. CASE Reply(a) \/ Victim(a) \/ Lose(a)
  BY <1>2, <1>8 DEF Reply, BuildSaleOut, Victim, Lose
<1> QED BY <1>4, <1>5, <1>6, <1>7, <1>8 DEF Serve

\* MoneyInv is inductive on top of Inv.
LEMMA NextKeepsMoney == Inv /\ MoneyInv /\ [Next]_vars => MoneyInv'
<1> SUFFICES ASSUME Inv, MoneyInv, [Next]_vars
             PROVE  MoneyInv'
  OBVIOUS
<1>1. ASSUME NEW a \in Attempts, Begin(a) \/ Serve(a) \/ Lose(a)
      PROVE  MoneyInv'
  BY <1>1, StepKeepsMoney, CommitKeepsMoney
<1>2. ASSUME UNCHANGED <<sales, books, rows, key, pc>>
      PROVE  MoneyInv'
  BY <1>2, MoneyKept DEF Inv, TypeOK, TablesOK
<1>3. ASSUME NEW c \in Closers, CloseRead(c) \/ CloseCommit(c)
      PROVE  MoneyInv'
  BY <1>2, <1>3 DEF CloseRead, CloseCommit, tables
<1>4. CASE SetPrices \/ SetExtra \/ Ended \/ UNCHANGED vars
  BY <1>2, <1>4 DEF SetPrices, SetExtra, Ended, vars, tables
<1> QED BY <1>1, <1>3, <1>4 DEF Next

\* The empty books balance.
LEMMA InitMoney == Init => MoneyInv
<1> SUFFICES ASSUME Init
             PROVE  MoneyInv
  OBVIOUS
<1>1. sales = {} /\ Money(books) = 0 /\ \A a \in Attempts : pc[a] # "commit"
  BY DEF Init, NoBooks, Money
<1>2. IsFiniteSet(sales)
  BY <1>1, FS_EmptySet
<1>3. SumFunction([s \in sales |-> PaidFor(s)]) = 0
  <2> DEFINE g == [s \in sales |-> PaidFor(s)]
  <2>1. IsFiniteSet(DOMAIN g) /\ \A s \in DOMAIN g : g[s] = 0
    BY <1>1, <1>2
  <2> HIDE DEF g
  <2>2. SumFunction(g) = 0
    BY <2>1, FnZero
  <2> QED BY <2>2 DEF g
<1> QED BY <1>1, <1>2, <1>3 DEF MoneyInv

\* As long as nobody overrides reconcile, the revenue of the posted lines is
\* the money in the ledgers, whatever prices and extras change under the sales
\* (sales.py: reconcile and create_and_post_sale).
THEOREM BooksAlwaysBalance == Spec => []BooksBalance
<1>1. MoneyInv /\ Inv => BooksBalance
  <2> SUFFICES ASSUME MoneyInv, Inv, \A s \in sales : ~Body(s).owner
               PROVE  SumFunction([s \in sales |-> Revenue(s)]) = Money(books)
    BY DEF BooksBalance
  <2>1. \A s \in sales : Revenue(s) = PaidFor(s)
    BY DEF MoneyInv, Settled, Tallies, PaidFor, Inv, TypeOK, TablesOK
  <2>2. [s \in sales |-> Revenue(s)] = [s \in sales |-> PaidFor(s)]
    BY <2>1
  <2> QED BY <2>2 DEF MoneyInv
<1>2. Inv /\ MoneyInv /\ [Next]_vars => MoneyInv'
  BY NextKeepsMoney
<1> QED BY <1>1, <1>2, InitMoney, Invariance, PTL DEF Spec

-----------------------------------------------------------------------------
(* Sales implements SaleDesk.                                              *)

\* The cylinders of type t in the lines of a key, and in those an attempt has
\* written so far.
Share(k, t) ==
  [n \in DOMAIN Slip[k].lines |->
     IF Slip[k].lines[n].type = t THEN Slip[k].lines[n].qty ELSE 0]
Taken(a, t) == SumFunctionOnSet(Share(key[a], t), 1 .. Len(rows[a]))

\* An attempt under way has locked the rows it has drawn from, and has written
\* in them the committed quantity less what its lines have taken; no other
\* attempt holds a lock.
HasDrawn(a) ==
  /\ a \in Inserted => \A t \in Types :
       IF lock[t] = a THEN draft[a][t] = stock[t] - Taken(a, t) /\ draft[a][t] >= 0
                      ELSE Taken(a, t) = 0
  /\ a \notin Inserted => \A t \in Types : lock[t] # a

DrawnInv ==
  /\ \A t \in Types : stock[t] >= 0
  /\ \A a \in Attempts : HasDrawn(a)

\* The share of a line in the quantity of a type.
LEMMA ShareOf ==
  ASSUME NEW k \in Keys, NEW t \in Types, NEW n \in 1 .. Len(Slip[k].lines)
  PROVE  /\ Share(k, t)[n] \in Nat
         /\ Share(k, t)[n] = IF Slip[k].lines[n].type = t THEN Slip[k].lines[n].qty ELSE 0
<1> DEFINE S == [type : Types, qty : Nat \ {0}]
           q == Slip[k].lines
<1>1. q \in Seq(S)
  BY SalesAssumption DEF SlipShape
<1>2. q[n] \in S /\ n \in DOMAIN q
  <2> HIDE DEF q, S
  <2> QED BY <1>1 DEF q
<1> QED BY <1>2 DEF Share

\* What a step leaves alone of an attempt stays drawn.
LEMMA DrawnKept ==
  ASSUME NEW b \in Attempts, HasDrawn(b), (b \in Inserted)' <=> b \in Inserted,
         rows'[b] = rows[b], key'[b] = key[b], draft'[b] = draft[b],
         \A t \in Types : (lock'[t] = b <=> lock[t] = b) /\ (lock[t] = b => stock'[t] = stock[t])
  PROVE  HasDrawn(b)'
<1>1. \A t \in Types : Taken(b, t)' = Taken(b, t)
  BY DEF Taken
<1> QED BY <1>1 DEF HasDrawn

\* An attempt that has no line yet has taken nothing.
LEMMA TakenNothing ==
  ASSUME NEW a, NEW t, rows[a] = <<>>
  PROVE  Taken(a, t) = 0
<1>1. 1 .. Len(rows[a]) = {}
  BY Z3
<1> QED BY <1>1, SumEmpty DEF Taken

\* The end of an attempt drops its locks.
LEMMA EndKeepsDrawn ==
  ASSUME Inv, DrawnInv, NEW a \in Attempts, NEW outcome, NEW s, End(a, outcome, s)
  PROVE  DrawnInv'
<1>1. /\ stock' = stock /\ key' = key
      /\ \A b \in Attempts \ {a} : pc'[b] = pc[b] /\ rows'[b] = rows[b] /\ draft'[b] = draft[b]
      /\ pc'[a] = "end"
      /\ \A t \in Types : lock'[t] = IF lock[t] = a THEN NoOne ELSE lock[t]
  BY DEF End, Unlocked, Inv, TypeOK, TablesOK
<1>2. HasDrawn(a)'
  BY <1>1, SalesAssumption DEF HasDrawn, Inserted
<1>3. ASSUME NEW b \in Attempts \ {a} PROVE HasDrawn(b)'
  BY <1>1, DrawnKept, SalesAssumption DEF DrawnInv, Inserted
<1> QED BY <1>1, <1>2, <1>3 DEF DrawnInv

\* A step of an attempt that draws nothing, from before its INSERT to before it
\* or from after it to after it.
LEMMA MoveKeepsDrawn ==
  ASSUME Inv, DrawnInv, NEW a \in Attempts, NEW step, pc' = [pc EXCEPT ![a] = step],
         step \in {"extra", "price", "draw", "settle", "commit"} <=> a \in Inserted,
         UNCHANGED <<stock, rows, lock, draft>>,
         \A b \in Attempts : key'[b] = key[b] \/ b \notin Inserted
  PROVE  DrawnInv'
<1>1. \A b \in Attempts : (b \in Inserted)' <=> b \in Inserted
  BY DEF Inserted, Inv, TypeOK
<1>2. ASSUME NEW b \in Attempts PROVE HasDrawn(b)'
  <2>1. CASE b \in Inserted
    BY <1>1, <2>1, DrawnKept DEF DrawnInv
  <2>2. CASE b \notin Inserted
    BY <1>1, <2>2 DEF DrawnInv, HasDrawn
  <2> QED BY <2>1, <2>2
<1> QED BY <1>2 DEF DrawnInv

\* A sale that is inserted has drawn nothing.
LEMMA InsertKeepsDrawn ==
  ASSUME Inv, DrawnInv, NEW a \in Attempts, Insert(a)
  PROVE  DrawnInv'
<1>1. CASE End(a, "conflict", NoOne)
  BY <1>1, EndKeepsDrawn
<1>2. CASE ~End(a, "conflict", NoOne)
  <2>1. /\ pc[a] = "insert" /\ pc' = [pc EXCEPT ![a] = "extra"]
        /\ UNCHANGED <<stock, rows, lock, draft, key>>
    BY <1>2 DEF Insert, Goto, tables, work
  <2>2. a \notin Inserted /\ rows'[a] = <<>> /\ \A t \in Types : lock'[t] # a
    BY <2>1 DEF Inv, Drawn, DrawnInv, HasDrawn, Inserted
  <2>3. \A t \in Types : Taken(a, t)' = 0
    <3>1. rows[a] = <<>> /\ \A t \in Types : Taken(a, t)' = Taken(a, t)
      BY <2>1, <2>2 DEF Taken
    <3> QED BY <3>1, TakenNothing
  <2>4. HasDrawn(a)'
    BY <2>2, <2>3, <2>1 DEF HasDrawn, Inserted, Inv, TypeOK
  <2>5. ASSUME NEW b \in Attempts \ {a} PROVE HasDrawn(b)'
    <3>1. (b \in Inserted)' <=> b \in Inserted
      BY <2>1 DEF Inserted, Inv, TypeOK
    <3> QED BY <2>1, <3>1, DrawnKept DEF DrawnInv
  <2> QED BY <2>1, <2>4, <2>5 DEF DrawnInv
<1> QED BY <1>1, <1>2

\* Drawing a line takes its quantity from the row of its type.
LEMMA DrawLineKeepsDrawn ==
  ASSUME Inv, DrawnInv, NEW a \in Attempts, DrawLine(a), ~End(a, "nostock", NoOne)
  PROVE  DrawnInv'
<1> DEFINE l == Line(a)
           n == Len(rows[a])
<1>0. /\ a \in Inserted /\ pc[a] = "draw" /\ n < Len(Body(a).lines)
      /\ key[a] \in Keys /\ n \in Nat /\ n + 1 \in 1 .. Len(Body(a).lines)
      /\ l.type \in Types /\ l.qty \in Nat
      /\ lock[l.type] \in {NoOne, a} /\ Quantity(l.type, a) >= l.qty
  <2>1. a \in Inserted /\ pc[a] = "draw" /\ n < Len(Body(a).lines)
    BY DEF DrawLine, Inserted, Inv, Drawn
  <2>2. SlipShape(Body(a)) /\ key[a] \in Keys /\ l.type \in Types /\ l.qty \in Nat
    BY <2>1, UnderWay, LineShape
  <2>3. n \in Nat /\ Len(Body(a).lines) \in Nat
    <3>1. rows[a] \in Seq(PricedLines)
      BY <2>1 DEF Inserted, Inv, TypeOK, TablesOK
    <3>2. Body(a).lines \in Seq([type : Types, qty : Nat \ {0}])
      BY <2>2 DEF SlipShape
    <3> QED BY <3>1, <3>2
  <2>4. n + 1 \in 1 .. Len(Body(a).lines)
    BY <2>1, <2>3
  <2> QED BY <2>1, <2>2, <2>3, <2>4 DEF DrawLine
<1>1. /\ stock' = stock /\ key' = key
      /\ \E step \in {"price", "settle"} : pc' = [pc EXCEPT ![a] = step]
      /\ lock' = [lock EXCEPT ![l.type] = a]
      /\ draft' = [draft EXCEPT ![a][l.type] = Quantity(l.type, a) - l.qty]
      /\ \E row : rows' = [rows EXCEPT ![a] = Append(@, row)]
  BY DEF DrawLine, Goto
<1>2. /\ Len(rows'[a]) = n + 1
      /\ \A b \in Attempts \ {a} : rows'[b] = rows[b]
  <2>1. PICK row : rows' = [rows EXCEPT ![a] = Append(@, row)]
    BY <1>1
  <2>2. rows[a] \in Seq(PricedLines) /\ DOMAIN rows = Attempts
    BY DEF Inv, TypeOK, TablesOK
  <2>3. Len(Append(rows[a], row)) = Len(rows[a]) + 1
    BY <2>2
  <2> QED BY <2>1, <2>2, <2>3
<1> HIDE DEF l, n
<1>3. ASSUME NEW t \in Types
      PROVE  Taken(a, t)' = Taken(a, t) + (IF t = l.type THEN l.qty ELSE 0) /\ Taken(a, t) \in Int
  <2> DEFINE f == Share(key[a], t)
  <2>1. \A i \in 1 .. (n + 1) : f[i] \in Int
    <3>1. ASSUME NEW i \in 1 .. (n + 1) PROVE i \in 1 .. Len(Slip[key[a]].lines)
      BY <1>0 DEF Body
    <3> QED BY <1>0, <3>1, ShareOf
  <2>2. f[n + 1] = IF t = l.type THEN l.qty ELSE 0
    <3>1. l = Slip[key[a]].lines[n + 1] /\ n + 1 \in 1 .. Len(Slip[key[a]].lines)
      BY <1>0 DEF l, n, Line, Body
    <3> QED BY <1>0, <3>1, ShareOf
  <2>3. /\ Taken(a, t) = SumFunctionOnSet(f, 1 .. n)
        /\ Taken(a, t)' = SumFunctionOnSet(f, 1 .. (n + 1))
    BY <1>1, <1>2 DEF Taken, Share, n
  <2> HIDE DEF f
  <2>4. /\ SumFunctionOnSet(f, 1 .. n) \in Int
        /\ SumFunctionOnSet(f, 1 .. (n + 1)) = SumFunctionOnSet(f, 1 .. n) + f[n + 1]
    BY <1>0, <2>1, SumNext
  <2> QED BY <2>2, <2>3, <2>4
<1>4. HasDrawn(a)'
  <2>1. (a \in Inserted)'
    BY <1>0, <1>1 DEF Inserted, Inv, TypeOK
  <2>2. ASSUME NEW t \in Types
        PROVE  IF lock'[t] = a
                 THEN draft'[a][t] = stock'[t] - Taken(a, t)' /\ draft'[a][t] >= 0
                 ELSE Taken(a, t)' = 0
    <3>1. /\ IF lock[t] = a THEN draft[a][t] = stock[t] - Taken(a, t) /\ draft[a][t] >= 0
                            ELSE Taken(a, t) = 0
          /\ stock[t] \in Int /\ draft[a][t] \in Int
      BY <1>0 DEF DrawnInv, HasDrawn, Inv, TypeOK, TablesOK
    <3>2. CASE t = l.type
      <4>1. lock'[t] = a /\ draft'[a][t] = Quantity(t, a) - l.qty
        BY <1>0, <1>1, <3>2 DEF Inv, TypeOK, TablesOK
      <4>2. Quantity(t, a) = stock[t] - Taken(a, t)
        BY <1>0, <1>3, <3>1, <3>2 DEF Quantity
      <4> QED BY <1>0, <1>1, <1>3, <3>1, <3>2, <4>1, <4>2
    <3>3. CASE t # l.type
      <4>1. lock'[t] = lock[t] /\ draft'[a][t] = draft[a][t]
        BY <1>1, <3>3 DEF Inv, TypeOK, TablesOK
      <4>2. Taken(a, t)' = Taken(a, t)
        BY <1>3, <3>3
      <4> QED BY <1>1, <3>1, <4>1, <4>2
    <3> QED BY <3>2, <3>3
  <2> QED BY <2>1, <2>2 DEF HasDrawn
<1>5. ASSUME NEW b \in Attempts \ {a} PROVE HasDrawn(b)'
  <2>1. /\ (b \in Inserted)' <=> b \in Inserted
        /\ draft'[b] = draft[b] /\ rows'[b] = rows[b] /\ key'[b] = key[b]
    BY <1>1, <1>2 DEF Inserted, Inv, TypeOK
  <2>2. ASSUME NEW t \in Types PROVE (lock'[t] = b <=> lock[t] = b) /\ stock'[t] = stock[t]
    <3>1. b # a /\ b # NoOne /\ lock[l.type] \in {NoOne, a}
      BY <1>0, SalesAssumption
    <3>2. lock'[t] = IF t = l.type THEN a ELSE lock[t]
      BY <1>1 DEF Inv, TypeOK, TablesOK
    <3> QED BY <1>1, <3>1, <3>2
  <2> QED BY <2>1, <2>2, DrawnKept DEF DrawnInv
<1> QED BY <1>1, <1>4, <1>5 DEF DrawnInv

\* A commit writes the drafts of the rows it has locked.
LEMMA CommitKeepsDrawn ==
  ASSUME Inv, DrawnInv, NEW a \in Attempts, Commit(a)
  PROVE  DrawnInv'
<1>1. /\ a \in Inserted /\ rows' = rows /\ key' = key
      /\ pc' = [pc EXCEPT ![a] = "reply"]
      /\ \A t \in Types : /\ lock'[t] = IF lock[t] = a THEN NoOne ELSE lock[t]
                          /\ stock'[t] = IF lock[t] = a THEN draft[a][t] ELSE stock[t]
      /\ \A b \in Attempts \ {a} : draft'[b] = draft[b]
  BY DEF Commit, Goto, Unlocked, Inserted, Inv, TypeOK
<1>2. HasDrawn(a)'
  BY <1>1, SalesAssumption DEF HasDrawn, Inserted, Inv, TypeOK
<1>3. ASSUME NEW b \in Attempts \ {a} PROVE HasDrawn(b)'
  <2>1. (b \in Inserted)' <=> b \in Inserted
    BY <1>1 DEF Inserted, Inv, TypeOK
  <2>2. \A t \in Types : (lock'[t] = b <=> lock[t] = b) /\ (lock[t] = b => stock'[t] = stock[t])
    BY <1>1, SalesAssumption
  <2> QED BY <1>1, <2>1, <2>2, DrawnKept DEF DrawnInv
<1>4. \A t \in Types : stock'[t] >= 0
  BY <1>1 DEF DrawnInv, HasDrawn
<1> QED BY <1>2, <1>3, <1>4 DEF DrawnInv

\* DrawnInv is inductive on top of Inv.
LEMMA NextKeepsDrawn == Inv /\ DrawnInv /\ [Next]_vars => DrawnInv'
<1> SUFFICES ASSUME Inv, DrawnInv, [Next]_vars PROVE DrawnInv'
  OBVIOUS
<1>1. ASSUME NEW a \in Attempts, NEW outcome, NEW s, End(a, outcome, s) PROVE DrawnInv'
  BY <1>1, EndKeepsDrawn
<1>2. ASSUME NEW a \in Attempts, Begin(a) PROVE DrawnInv'
  <2>1. /\ pc' = [pc EXCEPT ![a] = "lookup"] /\ a \notin Inserted
        /\ UNCHANGED <<stock, rows, lock, draft>>
        /\ \A b \in Attempts : key'[b] = key[b] \/ b \notin Inserted
    BY <1>2 DEF Begin, Goto, Inserted, tables, work, Inv, TypeOK, TablesOK
  <2> QED BY <2>1, MoveKeepsDrawn
<1>3. ASSUME NEW a \in Attempts, NEW from, NEW to, Goto(a, from, to),
             UNCHANGED <<stock, rows, lock, draft, key>>,
             from \in {"extra", "price", "draw", "settle", "commit"} <=>
               to \in {"extra", "price", "draw", "settle", "commit"}
      PROVE  DrawnInv'
  <2>1. pc' = [pc EXCEPT ![a] = to]
        /\ (to \in {"extra", "price", "draw", "settle", "commit"} <=> a \in Inserted)
    BY <1>3 DEF Goto, Inserted
  <2> QED BY <1>3, <2>1, MoveKeepsDrawn
<1>4. ASSUME NEW a \in Attempts, Serve(a) PROVE DrawnInv'
  <2>1. CASE Lookup(a) \/ AssertDayOpen(a) \/ CheckInvoice(a)
    BY <1>1, <1>3, <2>1 DEF Lookup, BuildSaleOut, AssertDayOpen, CheckInvoice, tables, work
  <2>2. CASE ReadExtra(a) \/ ResolvePrice(a) \/ Reconcile(a)
    BY <1>1, <1>3, <2>2 DEF ReadExtra, ResolvePrice, Reconcile, tables, work
  <2>3. CASE DrawLine(a)
    BY <1>1, <2>3, DrawLineKeepsDrawn
  <2>4. CASE Reply(a) \/ Victim(a)
    BY <1>1, <2>4 DEF Reply, BuildSaleOut, Victim
  <2> QED BY <1>4, <2>1, <2>2, <2>3, <2>4, InsertKeepsDrawn, CommitKeepsDrawn DEF Serve
<1>5. ASSUME NEW a \in Attempts, Lose(a) PROVE DrawnInv'
  BY <1>1, <1>5 DEF Lose
<1>6. ASSUME UNCHANGED <<stock, rows, lock, draft, key, pc>> PROVE DrawnInv'
  <2>1. \A b \in Attempts : (b \in Inserted)' <=> b \in Inserted
    BY <1>6 DEF Inserted
  <2> QED BY <1>6, <2>1, DrawnKept DEF DrawnInv
<1>7. ASSUME NEW c \in Closers, CloseRead(c) \/ CloseCommit(c) PROVE DrawnInv'
  BY <1>6, <1>7 DEF CloseRead, CloseCommit, tables, work
<1>8. CASE SetPrices \/ SetExtra \/ Ended \/ UNCHANGED vars
  BY <1>6, <1>8 DEF SetPrices, SetExtra, Ended, vars, tables, work
<1> QED BY <1>2, <1>4, <1>5, <1>7, <1>8 DEF Next

\* Nothing is drawn at first.
LEMMA InitDrawn == Init => DrawnInv
BY SalesAssumption DEF Init, DrawnInv, HasDrawn, Inserted

\* The first state of Sales is one of SaleDesk.
LEMMA InitDesk == Init => Desk!Init
BY DEF Init, Desk!Init, PostedKeys

\* An attempt that has drawn all its lines has taken what its key needs.
LEMMA TakenAll ==
  ASSUME Inv, NEW a \in Attempts, pc[a] = "commit", NEW t \in Types
  PROVE  Taken(a, t) = Needed(key[a])[t]
<1> DEFINE f == Share(key[a], t)
<1>1. a \in Inserted /\ Len(rows[a]) = Len(Slip[key[a]].lines)
  BY DEF Inserted, Inv, Drawn, Body
<1>2. DOMAIN Slip[key[a]].lines = 1 .. Len(Slip[key[a]].lines)
  <2>1. Slip[key[a]].lines \in Seq([type : Types, qty : Nat \ {0}])
    BY <1>1, UnderWay DEF SlipShape, Body
  <2> QED BY <2>1
<1>3. DOMAIN f = 1 .. Len(rows[a])
  BY <1>1, <1>2 DEF Share
<1>4. Needed(key[a])[t] = SumFunction(f)
  BY DEF Needed, Share
<1> QED BY <1>3, <1>4 DEF Taken, SumFunction

\* A commit posts its key.
LEMMA CommitPosts ==
  ASSUME Inv, DrawnInv, NEW a \in Attempts, Commit(a)
  PROVE  Desk!Post(key[a])
<1>1. /\ pc[a] = "commit" /\ a \in Inserted /\ key' = key /\ sales' = sales \cup {a}
      /\ stock' = [t \in Types |-> IF lock[t] = a THEN draft[a][t] ELSE stock[t]]
      /\ a \notin sales /\ a \in Indexed /\ key[a] \in Keys
      /\ stock \in [Types -> Int]
  <2>1. pc[a] = "commit" /\ a \in Inserted
    BY DEF Commit, Goto, Inserted
  <2> QED BY <2>1, UnderWay DEF Commit, Inv, TypeOK, TablesOK
<1>2. /\ \A s \in sales : key[s] # key[a] /\ Slip[key[s]].invoice # Slip[key[a]].invoice
      /\ \A s \in sales : key[s] \in Keys
  <2>1. \A s \in sales : s \in Indexed /\ s # a /\ s \in Attempts /\ pc[s] # "idle"
    BY <1>1 DEF Indexed, Inv, TypeOK, TablesOK, PostedAreThrough
  <2> QED BY <1>1, <2>1 DEF Inv, NoClash, Clash, SameKey, SameInvoice, Body, TypeOK
<1>3. key[a] \notin PostedKeys /\ PostedKeys' = PostedKeys \cup {key[a]}
  BY <1>1, <1>2 DEF PostedKeys
<1>4. \A p \in PostedKeys :
         [k \in Keys |-> Slip[k].invoice][p] # [k \in Keys |-> Slip[k].invoice][key[a]]
  BY <1>1, <1>2 DEF PostedKeys
<1>5. ASSUME NEW t \in Types
      PROVE  stock[t] >= Needed(key[a])[t] /\ stock'[t] = stock[t] - Needed(key[a])[t]
  <2>1. Needed(key[a])[t] = Taken(a, t)
    BY <1>1, TakenAll
  <2>2. /\ IF lock[t] = a THEN draft[a][t] = stock[t] - Taken(a, t) /\ draft[a][t] >= 0
                          ELSE Taken(a, t) = 0
        /\ stock[t] >= 0
    BY <1>1 DEF DrawnInv, HasDrawn
  <2>3. Taken(a, t) \in Int
    <3>1. /\ IsFiniteSet(1 .. Len(rows[a])) /\ Len(rows[a]) = Len(Slip[key[a]].lines)
      BY <1>1, FS_Interval DEF Inv, Drawn, Body, TypeOK, TablesOK
    <3>2. \A i \in 1 .. Len(rows[a]) : Share(key[a], t)[i] \in Int
      BY <1>1, <3>1, ShareOf
    <3> QED BY <3>1, <3>2, SumType DEF Taken
  <2>4. stock[t] \in Int /\ stock'[t] = IF lock[t] = a THEN draft[a][t] ELSE stock[t]
    BY <1>1
  <2> QED BY <2>1, <2>2, <2>3, <2>4
<1>6. [k \in Keys |-> Needed(k)][key[a]] = Needed(key[a])
  BY <1>1
<1>7. /\ \A t \in DOMAIN stock : stock[t] >= [k \in Keys |-> Needed(k)][key[a]][t]
      /\ stock' = [t \in DOMAIN stock |-> stock[t] - [k \in Keys |-> Needed(k)][key[a]][t]]
  BY <1>1, <1>5, <1>6
<1> QED BY <1>3, <1>4, <1>7 DEF Desk!Post

\* A step of Sales is one of SaleDesk or a stutter.
LEMMA StepPosts ==
  ASSUME Inv, DrawnInv, [Next]_vars
  PROVE  [Desk!Next]_<<PostedKeys, stock>>
<1> USE DEF tables, settings, work, history
<1>1. ASSUME NEW a \in Attempts, Commit(a) PROVE Desk!Next
  <2>1. key[a] \in Keys
    BY <1>1, UnderWay DEF Commit, Goto, Inserted
  <2> QED BY <1>1, <2>1, CommitPosts DEF Desk!Next
<1>2. ASSUME UNCHANGED <<sales, stock, key>> PROVE UNCHANGED <<PostedKeys, stock>>
  BY <1>2 DEF PostedKeys
<1>3. ASSUME NEW a \in Attempts, Begin(a) PROVE UNCHANGED <<PostedKeys, stock>>
  <2>1. /\ UNCHANGED <<sales, stock>> /\ a \notin sales
        /\ \A s \in sales : key'[s] = key[s]
    BY <1>3 DEF Begin, Goto, Inv, TypeOK, TablesOK, PostedAreThrough
  <2> QED BY <2>1 DEF PostedKeys
<1>4. ASSUME NEW a \in Attempts, Serve(a), ~Commit(a) PROVE UNCHANGED <<sales, stock, key>>
  BY <1>4
  DEF Serve, Lookup, AssertDayOpen, CheckInvoice, Insert, ReadExtra, ResolvePrice, DrawLine,
      Reconcile, Reply, BuildSaleOut, Victim, End
<1>5. ASSUME NEW a \in Attempts, Lose(a) PROVE UNCHANGED <<sales, stock, key>>
  BY <1>5 DEF Lose, End
<1>6. ASSUME NEW c \in Closers, CloseRead(c) \/ CloseCommit(c)
      PROVE  UNCHANGED <<sales, stock, key>>
  BY <1>6 DEF CloseRead, CloseCommit
<1>7. CASE SetPrices \/ SetExtra \/ Ended \/ UNCHANGED vars
  BY <1>2, <1>7 DEF SetPrices, SetExtra, Ended, vars
<1> QED BY <1>1, <1>2, <1>3, <1>4, <1>5, <1>6, <1>7 DEF Next

\* However attempts overlap, repeat, fail and get lost, the tables show whole
\* sales posted one at a time: one per key, one per invoice number, each with
\* stock for all its lines (create_and_post_sale).
THEOREM SalesPostOneAtATime == Spec => PostsOneAtATime
<1>1. Inv /\ DrawnInv /\ [Next]_vars => DrawnInv'
  BY NextKeepsDrawn
<1>2. Spec => []DrawnInv
  BY <1>1, InitDrawn, Invariance, PTL DEF Spec
<1>3. Inv /\ DrawnInv /\ [Next]_vars => [Desk!Next]_<<PostedKeys, stock>>
  BY StepPosts
<1> QED
  BY <1>2, <1>3, InitDesk, Invariance, PTL DEF Spec, PostsOneAtATime, Desk!Spec
=============================================================================
