------------------------------- MODULE Sales -------------------------------
(***************************************************************************)
(* Move to Day Sheet: POST /sales (create_and_post_sale) under concurrent  *)
(* attempts, next to the closing of the day sheet and to price changes.    *)
(*                                                                         *)
(* An attempt is one HTTP request and one READ COMMITTED transaction.  The *)
(* client may send the same idempotency key in any number of attempts (a   *)
(* double click, a retry after a lost answer); every statement that waits  *)
(* for the database is a step of its own.                                  *)
(***************************************************************************)
EXTENDS Integers, FiniteSets, Sequences, Functions

CONSTANTS
  Types,       \* cylinder types
  Days,        \* business dates
  Keys,        \* idempotency keys: one per sale a client means to make
  Slip,        \* Slip[k]: the body sent with key k, and who sends it
  Attempts,    \* HTTP requests to post a sale
  Closers,     \* HTTP requests to close a day
  OnHand,      \* full cylinders of each type at the start
  PriceBooks,  \* price of each type for the business dates; -1: none is set
  Extras,      \* per-cylinder extra of the delivery boy
  NoOne

\* A body: invoice number, date, lines, money by kind, whether the party is
\* a delivery boy (else a customer), whether the actor is the super_admin.
SlipShape(s) ==
  /\ s.day \in Days
  /\ s.lines \in Seq([type : Types, qty : Nat \ {0}])
  /\ s.lines # <<>>
  /\ s.paid \in [cash : Nat, upi : Nat, online : Nat, balance : Nat]
  /\ {s.boy, s.owner} \subseteq BOOLEAN

ASSUME SalesAssumption ==
  /\ Keys \subseteq DOMAIN Slip
  /\ \A k \in Keys : SlipShape(Slip[k])
  /\ OnHand \in [Types -> Nat]
  /\ PriceBooks \subseteq [Types -> Int]
  /\ Extras \subseteq Nat
  /\ NoOne \notin Attempts

VARIABLES
  \* The committed tables.
  sales,    \* the attempts whose sale is posted; a sale is named by its attempt
  rows,     \* the sale_lines each attempt has written, with the prices it read
  stock,    \* inventory.quantity
  books,    \* cash_ledger and balance ledgers: the sum of each kind of money
  closed,   \* the dates whose day_sheet_status row says closed
  price,    \* prices
  extra,    \* delivery_other_sales
  \* The requests.
  pc, key,
  lock,     \* the attempt that holds the row lock of a type
  draft,    \* quantities it has written and not committed
  boyExtra, \* the extra it has read
  quote,    \* the unit price it has read for the line it is at
  answer,   \* what the client was told
  shown,    \* the sale the answer shows
  known,    \* keys already posted when the attempt began (history)
  late,     \* its date was closed when it began (history)
  closer    \* per close request: the date, and where it is

tables == <<sales, rows, stock, books, closed>>
settings == <<price, extra>>
work == <<lock, draft, boyExtra, quote>>
history == <<known, late>>
vars == <<tables, settings, pc, key, work, answer, shown, history, closer>>

\* "conflict" and "error" are both a 500: the first is the database refusing
\* the attempt's row or breaking its wait, the second a statement that fails.
Refusals == {"closed", "duplicate", "noprice", "nostock", "mismatch", "conflict"}
Outcomes == Refusals \cup {"ok", "error", "lost"}
NoBooks == [cash |-> 0, upi |-> 0, online |-> 0, balance |-> 0]
Copy == [t \in Types |-> 0]

Init ==
  /\ sales = {} /\ closed = {}
  /\ stock = OnHand
  /\ books = NoBooks
  /\ price \in PriceBooks /\ extra \in Extras
  /\ pc = [a \in Attempts |-> "idle"]
  /\ key \in [Attempts -> {NoOne}]
  /\ rows = [a \in Attempts |-> <<>>]
  /\ lock = [t \in Types |-> NoOne]
  /\ draft = [a \in Attempts |-> Copy]
  /\ boyExtra = [a \in Attempts |-> 0]
  /\ quote = [a \in Attempts |-> 0]
  /\ answer = [a \in Attempts |-> "none"]
  /\ shown = [a \in Attempts |-> NoOne]
  /\ known = [a \in Attempts |-> {}]
  /\ late = [a \in Attempts |-> FALSE]
  /\ closer = [c \in Closers |-> [at |-> "idle", day |-> NoOne]]

Body(a) == Slip[key[a]]
PostedKeys == {key[s] : s \in sales}
SameKey(a, b) == key[a] = key[b]
SameInvoice(a, b) == Body(a).invoice = Body(b).invoice

Goto(a, from, to) == pc[a] = from /\ pc' = [pc EXCEPT ![a] = to]

\* Mutant of Unlocked: a failed attempt leaves its transaction open.
StillLocked(a) == lock

Unlocked(a) == [t \in Types |-> IF lock[t] = a THEN NoOne ELSE lock[t]]

\* The attempt is over: what it has not committed is rolled back, and its
\* locks go.  The client hears the outcome unless the outcome is "lost".
End(a, outcome, sale) ==
  /\ pc' = [pc EXCEPT ![a] = "end"]
  /\ answer' = [answer EXCEPT ![a] = outcome]
  /\ shown' = [shown EXCEPT ![a] = sale]
  /\ rows' = IF a \in sales THEN rows ELSE [rows EXCEPT ![a] = <<>>]
  /\ lock' = Unlocked(a)
  /\ draft' = [draft EXCEPT ![a] = Copy]
  /\ boyExtra' = [boyExtra EXCEPT ![a] = 0]
  /\ quote' = [quote EXCEPT ![a] = 0]
  /\ UNCHANGED <<sales, stock, books, closed, settings, key, history, closer>>

-----------------------------------------------------------------------------
Begin(a) ==
  /\ Goto(a, "idle", "lookup")
  /\ \E k \in Keys :
       /\ key' = [key EXCEPT ![a] = k]
       /\ late' = [late EXCEPT ![a] = Slip[k].day \in closed]
  /\ known' = [known EXCEPT ![a] = PostedKeys]
  /\ UNCHANGED <<tables, settings, work, answer, shown, closer>>

\* _build_sale_out reads the sale it is to show in several statements, after
\* the commit if the sale is new.  If one fails, the answer is a 500.
BuildSaleOut(a, s) == End(a, "ok", s) \/ End(a, "error", NoOne)

\* Mutant of Original: the day is checked before the key.
OriginalIfOpen(a) == {s \in sales : SameKey(s, a) /\ Body(s).day \notin closed}

\* Mutant of Original: the sale of the same invoice is taken for the original.
OriginalByInvoice(a) == {s \in sales : SameInvoice(s, a)}

Original(a) == {s \in sales : SameKey(s, a)}

\* Idempotency: a posted sale with this key is the answer, whatever else
\* has happened to its date since.
Lookup(a) ==
  /\ pc[a] = "lookup"
  /\ \/ \E s \in Original(a) : BuildSaleOut(a, s)
     \/ /\ Original(a) = {}
        /\ Goto(a, "lookup", "day")
        /\ UNCHANGED <<tables, settings, key, work, answer, shown, history, closer>>

\* Mutant of DayClosed: the check is dropped.
DayAlwaysOpen(a) == FALSE

DayClosed(a) == Body(a).day \in closed

\* _assert_day_open: the status row is read, not locked.
AssertDayOpen(a) ==
  /\ pc[a] = "day"
  /\ \/ DayClosed(a) /\ End(a, "closed", NoOne)
     \/ /\ ~DayClosed(a)
        /\ Goto(a, "day", "invoice")
        /\ UNCHANGED <<tables, settings, key, work, answer, shown, history, closer>>

CheckInvoice(a) ==
  /\ pc[a] = "invoice"
  /\ LET used == \E s \in sales : SameInvoice(s, a) IN
     \/ used /\ End(a, "duplicate", NoOne)
     \/ /\ ~used
        /\ Goto(a, "invoice", "insert")
        /\ UNCHANGED <<tables, settings, key, work, answer, shown, history, closer>>

\* Attempts whose pending sale row is in the unique indexes, uncommitted.
Inserted == {a \in Attempts : pc[a] \in {"extra", "price", "draw", "settle", "commit"}}
\* Mutant of Clash: invoice numbers have no unique index.
ClashOnKey(a, b) == SameKey(a, b)

Clash(a, b) == SameKey(a, b) \/ SameInvoice(a, b)

\* db.add(sale); db.flush(): the two unique indexes make it wait for an
\* uncommitted clash, and fail on a committed one.  Nothing catches that
\* IntegrityError: the answer is a 500.
Insert(a) ==
  /\ pc[a] = "insert"
  /\ \A b \in Inserted : ~Clash(a, b)
  /\ \/ (\E s \in sales : Clash(a, s)) /\ End(a, "conflict", NoOne)
     \/ /\ \A s \in sales : ~Clash(a, s)
        /\ Goto(a, "insert", "extra")
        /\ UNCHANGED <<tables, settings, key, work, answer, shown, history, closer>>

ReadExtra(a) ==
  /\ Goto(a, "extra", "price")
  /\ boyExtra' = [boyExtra EXCEPT ![a] = IF Body(a).boy THEN extra ELSE 0]
  /\ UNCHANGED <<tables, settings, key, lock, draft, quote, answer, shown, history, closer>>

\* The line an attempt is at: the first it has not written.
Line(a) == Body(a).lines[Len(rows[a]) + 1]

Unpriced(p) == p < 0

ResolvePrice(a) ==
  /\ pc[a] = "price"
  /\ LET p == price[Line(a).type] IN
     \/ Unpriced(p) /\ End(a, "noprice", NoOne)
     \/ /\ ~Unpriced(p)
        /\ Goto(a, "price", "draw")
        /\ quote' = [quote EXCEPT ![a] = p]
        /\ UNCHANGED <<tables, settings, key, lock, draft, boyExtra, answer, shown,
                       history, closer>>

Quantity(t, a) == IF lock[t] = a THEN draft[a][t] ELSE stock[t]

\* SELECT ... FOR UPDATE on the inventory row, the check, the deduction, and
\* the sale_lines and stock_ledger rows of the line.
DrawLine(a) ==
  /\ pc[a] = "draw"
  /\ LET l == Line(a) IN
     /\ lock[l.type] \in {NoOne, a}
     /\ \/ Quantity(l.type, a) < l.qty /\ End(a, "nostock", NoOne)
        \/ /\ Quantity(l.type, a) >= l.qty
           /\ Goto(a, "draw", IF Len(rows[a]) + 1 < Len(Body(a).lines) THEN "price" ELSE "settle")
           /\ lock' = [lock EXCEPT ![l.type] = a]
           /\ draft' = [draft EXCEPT ![a][l.type] = Quantity(l.type, a) - l.qty]
           /\ rows' = [rows EXCEPT ![a] =
                Append(@, [type |-> l.type, qty |-> l.qty, unit |-> quote[a] + boyExtra[a]])]
           /\ quote' = [quote EXCEPT ![a] = 0]
           /\ UNCHANGED <<sales, stock, books, closed, settings, key, boyExtra, answer,
                          shown, history, closer>>

Revenue(a) == SumFunction([i \in DOMAIN rows[a] |-> rows[a][i].unit * rows[a][i].qty])
Money(m) == m.cash + m.upi + m.online + m.balance

\* Mutant of Tallies: money may be missing.
TalliesAtMost(a) == Revenue(a) >= Money(Body(a).paid)

Tallies(a) == Revenue(a) = Money(Body(a).paid)

\* reconcile: only the super_admin may post a sale whose money does not add up.
Reconcile(a) ==
  /\ pc[a] = "settle"
  /\ \/ ~Tallies(a) /\ ~Body(a).owner /\ End(a, "mismatch", NoOne)
     \/ /\ Tallies(a) \/ Body(a).owner
        /\ Goto(a, "settle", "commit")
        /\ UNCHANGED <<tables, settings, key, work, answer, shown, history, closer>>

\* One commit for the approved sale, its lines, the inventory, the cash
\* ledger and the balance the party owes.
Commit(a) ==
  /\ Goto(a, "commit", "reply")
  /\ sales' = sales \cup {a}
  /\ stock' = [t \in Types |-> IF lock[t] = a THEN draft[a][t] ELSE stock[t]]
  /\ books' = [m \in DOMAIN books |-> books[m] + Body(a).paid[m]]
  /\ lock' = Unlocked(a)
  /\ draft' = [draft EXCEPT ![a] = Copy]
  /\ UNCHANGED <<rows, closed, settings, key, boyExtra, quote, answer, shown, history, closer>>

Reply(a) == pc[a] = "reply" /\ BuildSaleOut(a, a)

\* A statement fails and the answer is a 500, or the connection drops or the
\* server dies and none is heard: before the commit or after it.
Lose(a) ==
  /\ pc[a] \notin {"idle", "end"}
  /\ \E outcome \in {"error", "lost"} : End(a, outcome, NoOne)

\* PostgreSQL breaks a cycle of row-lock waits by failing one of them.
Waits(a) == pc[a] = "draw" /\ lock[Line(a).type] \notin {NoOne, a}
Victim(a) ==
  /\ \E S \in SUBSET Attempts :
       /\ a \in S
       /\ \A s \in S : Waits(s)
       /\ {lock[Line(s).type] : s \in S} = S
  /\ End(a, "conflict", NoOne)

Serve(a) ==
  \/ Lookup(a) \/ AssertDayOpen(a) \/ CheckInvoice(a) \/ Insert(a) \/ ReadExtra(a)
  \/ ResolvePrice(a) \/ DrawLine(a) \/ Reconcile(a) \/ Commit(a) \/ Reply(a) \/ Victim(a)

-----------------------------------------------------------------------------
(* close_day: the status is read without a lock; the insert of a second    *)
(* status row for the date violates its primary key (500).                 *)
CloseRead(c) ==
  /\ closer[c].at = "idle"
  /\ \E d \in Days :
       closer' = [closer EXCEPT ![c] =
                    [at |-> IF d \in closed THEN "refused" ELSE "open", day |-> d]]
  /\ UNCHANGED <<tables, settings, pc, key, work, answer, shown, history>>

\* Mutant of Verdict: the second status row overwrites the first.
VerdictDone(c) == "done"

Verdict(c) == IF closer[c].day \in closed THEN "error" ELSE "done"

\* (A status row that says open would be updated instead: no code writes one.)
CloseCommit(c) ==
  /\ closer[c].at = "open"
  /\ closed' = closed \cup {closer[c].day}
  /\ closer' = [closer EXCEPT ![c].at = Verdict(c)]
  /\ UNCHANGED <<sales, rows, stock, books, settings, pc, key, work, answer, shown, history>>

\* Prices and the boy's extra change under the running sales.
SetPrices ==
  /\ price' \in PriceBooks /\ price' # price
  /\ UNCHANGED <<tables, extra, pc, key, work, answer, shown, history, closer>>

SetExtra ==
  /\ extra' \in Extras /\ extra' # extra
  /\ UNCHANGED <<tables, price, pc, key, work, answer, shown, history, closer>>

Ended ==
  /\ \A a \in Attempts : pc[a] = "end"
  /\ \A c \in Closers : closer[c].at \in {"refused", "done", "error"}
  /\ UNCHANGED vars

Next ==
  \/ \E a \in Attempts : Begin(a) \/ Serve(a) \/ Lose(a)
  \/ \E c \in Closers : CloseRead(c) \/ CloseCommit(c)
  \/ SetPrices \/ SetExtra
  \/ Ended

Spec == Init /\ [][Next]_vars

FairSpec == Spec /\ \A a \in Attempts : WF_vars(Serve(a))

-----------------------------------------------------------------------------
PricedLines == [type : Types, qty : Nat, unit : Nat]

Steps == {"idle", "lookup", "day", "invoice", "insert", "extra", "price", "draw",
          "settle", "commit", "reply", "end"}
Closes == [at : {"idle", "open", "refused", "done", "error"}, day : Days \cup {NoOne}]

TablesOK ==
  /\ sales \subseteq Attempts
  /\ rows \in [Attempts -> Seq(PricedLines)]
  /\ stock \in [Types -> Int]
  /\ books \in [cash : Nat, upi : Nat, online : Nat, balance : Nat]
  /\ closed \subseteq Days
  /\ key \in [Attempts -> Keys \cup {NoOne}]
  /\ lock \in [Types -> Attempts \cup {NoOne}]
  /\ answer \in [Attempts -> Outcomes \cup {"none"}]
  /\ shown \in [Attempts -> Attempts \cup {NoOne}]

TypeOK ==
  /\ TablesOK
  /\ pc \in [Attempts -> Steps]
  /\ price \in [Types -> Int] /\ extra \in Nat
  /\ draft \in [Attempts -> [Types -> Int]]
  /\ boyExtra \in [Attempts -> Nat] /\ quote \in [Attempts -> Nat]
  /\ known \in [Attempts -> SUBSET Keys] /\ late \in [Attempts -> BOOLEAN]
  /\ closer \in [Closers -> Closes]
  /\ \A c \in Closers : closer[c].at # "idle" => closer[c].day \in Days
  /\ \A a \in Attempts : pc[a] # "idle" => key[a] \in Keys

\* "A repeat with the same key returns the original sale" (sales.py:96): an
\* attempt that began after its key was posted is answered with that very
\* sale, also when the day has been closed, the stock sold out or the price
\* changed in between, unless a statement fails; it is never refused.
RepeatReturnsOriginal ==
  \A a \in Attempts :
    key[a] \in known[a] /\ answer[a] \notin {"none", "lost", "error"} =>
      answer[a] = "ok" /\ shown[a] \in sales /\ SameKey(shown[a], a)

\* What the client was told is what the tables hold: an "ok" shows a posted
\* sale of its key, a refusal means that this attempt posted nothing, and
\* a posted sale has all its lines.  No answer, and the 500 of a statement
\* that failed, say nothing: the attempt may have posted its sale (the key
\* is there to find out).
AnswersAreTrue ==
  \A a \in Attempts :
    /\ answer[a] = "ok" => shown[a] \in sales /\ SameKey(shown[a], a)
    /\ answer[a] \in Refusals => a \notin sales
    /\ a \in sales => Len(rows[a]) = Len(Body(a).lines)

\* A sale entered after its day sheet was closed is never posted.
LateSaleRefused == \A a \in Attempts : late[a] => a \notin sales

\* Concurrent closes of one date: one of them closes it and is audited.
ClosedOnce ==
  \A c, d \in Closers :
    closer[c].at = "done" /\ closer[d].at = "done" /\ closer[c].day = closer[d].day => c = d

\* When nobody overrides, the revenue of the posted lines (at the prices
\* they were written with) is the money the ledgers hold: cash, UPI, online
\* and what the parties owe, under any price change in between.
BooksBalance ==
  (\A s \in sales : ~Body(s).owner) =>
     SumFunction([s \in sales |-> Revenue(s)]) = Money(books)

\* Every attempt is answered: neither the unique indexes nor the row locks
\* of sales with several lines hold each other up for good.
EveryAttemptEnds ==
  \A a \in Attempts : pc[a] = "lookup" ~> pc[a] = "end"

-----------------------------------------------------------------------------
(***************************************************************************)
(* What is promised of all this: SaleDesk.                                 *)
(***************************************************************************)

\* The cylinders of each type that the body of a key asks for.
Needed(k) ==
  [t \in Types |->
     SumFunction([n \in DOMAIN Slip[k].lines |->
       IF Slip[k].lines[n].type = t THEN Slip[k].lines[n].qty ELSE 0])]

Desk == INSTANCE SaleDesk WITH
  Invoice <- [k \in Keys |-> Slip[k].invoice],
  Need <- [k \in Keys |-> Needed(k)],
  posted <- PostedKeys,
  shelf <- stock

\* However attempts overlap, repeat, fail and get lost, the tables show
\* whole sales posted one at a time: one per key, one per invoice number,
\* each with stock for all its lines.
PostsOneAtATime == Desk!Spec

-----------------------------------------------------------------------------
(* What the docs say and the interleavings do not keep.                    *)

\* "Closing a day freezes it: the sale transaction rejects posts for a closed
\* date" (day_sheet.py:4): no sale of a date is posted once it is closed.
ClosedDayFrozen ==
  [][\A a \in sales' \ sales : Body(a).day \notin closed]_vars
=============================================================================
