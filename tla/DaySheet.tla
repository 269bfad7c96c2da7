------------------------------ MODULE DaySheet ------------------------------
(***************************************************************************)
(* GET /day-sheet/{date} and GET /cashier-box/{date} next to the postings  *)
(* of Books and StockLog.  Both answers are put together from many         *)
(* SELECTs; at READ COMMITTED each sees what is committed when it runs.  A *)
(* reader runs its statements in the order of the code and keeps their     *)
(* results; the answer is a function of those.                             *)
(***************************************************************************)
EXTENDS StockLog, Sequences

VARIABLES
  reader,   \* endpoint and date it serves, number of statements it has run
  got,      \* result of each statement
  quiet,    \* nothing was committed since it began (history)
  backdated \* something dated before its day was (history)

vars == <<log, reader, got, quiet, backdated>>

\* cashier_box: _cumulative for the day before, then for the day.
BoxPlan ==
  <<"collected0", "expenses0", "deposits0", "cash0", "cashExpenses0",
    "collected", "expenses", "deposits", "cash", "cashExpenses">>

\* get_day_sheet, which ends with the cashier box and the warehouse.
SheetPlan ==
  <<"agg", "drivers", "notes", "loads", "expenseByDriver", "balanceByDriver",
    "customers", "balanceByCustomer", "expensesTotal">>
    \o BoxPlan \o <<"openingStock", "closingStock">>

Plan(endpoint) == IF endpoint = "box" THEN BoxPlan ELSE SheetPlan

DInit ==
  /\ LogInit
  /\ reader = [endpoint |-> "none", day |-> 0, ran |-> 0]
  /\ got = <<>>
  /\ quiet = TRUE /\ backdated = FALSE

-----------------------------------------------------------------------------
(* What each statement returns.                                            *)

SalesOf(p, d) == {s \in sales : s.party = p /\ s.day = d}
CashOf(s) == Total({r \in SaleRows({"cash"}) : r.of = s})
CashOfAll(some) == SumFunction([s \in some |-> CashOf(s)])

\* Mutant of Agg: the join drops the sales of customers.
AggBoys(d) ==
  [p \in {s.party : s \in {x \in sales : x.day = d /\ x.party \in Boys}} |->
     [cash |-> CashOfAll(SalesOf(p, d)), upi |-> 0, online |-> 0,
      cylinders |-> Qty(SalesOf(p, d)), empties |-> 0]]

\* _AGG_SQL: one row per party that sold.
Agg(d) ==
  [p \in {s.party : s \in {x \in sales : x.day = d}} |->
     [cash |-> CashOfAll(SalesOf(p, d)),
      upi |-> SumFunction([s \in SalesOf(p, d) |-> s.upi]),
      online |-> SumFunction([s \in SalesOf(p, d) |-> s.online]),
      cylinders |-> Qty(SalesOf(p, d)),
      empties |-> EmptyQty(SalesOf(p, d))]]

\* charges_on: manual charges and those of sales alike.
ChargesOn(parties, d) ==
  [p \in parties |-> Total({b \in balances : b.party = p /\ b.day = d /\ b.kind = "charge"})]

\* Mutant of Eve: the bound of the opening is the day itself.
EveNot(d) == d

Eve(d) == d - 1

Result(q, d) ==
  CASE q = "agg" -> Agg(d)
    [] q = "drivers" -> active \cap Boys
    [] q = "notes" -> CashOfAll({s \in sales : s.day = d})
    [] q = "loads" ->
         [b \in Boys |-> [loaded |-> LoadedBy(b, d), returned |-> ReturnedBy(b, d)]]
    [] q = "expenseByDriver" ->
         [b \in Boys |-> Total({e \in expenses : e.day = d /\ e.boy = b})]
    [] q = "balanceByDriver" -> ChargesOn(Boys, d)
    [] q = "customers" -> {c \in Customers : SalesOf(c, d) # {}}
    [] q = "balanceByCustomer" -> ChargesOn(Customers, d)
    [] q = "expensesTotal" -> Spent(d) - Spent(d - 1)
    [] q = "collected0" -> Collected(Eve(d))
    [] q = "expenses0" -> Spent(Eve(d))
    [] q = "deposits0" -> Deposited(Eve(d))
    [] q = "cash0" -> CashCollected(Eve(d))
    [] q = "cashExpenses0" -> CashSpent(Eve(d))
    [] q = "collected" -> Collected(d)
    [] q = "expenses" -> Spent(d)
    [] q = "deposits" -> Deposited(d)
    [] q = "cash" -> CashCollected(d)
    [] q = "cashExpenses" -> CashSpent(d)
    [] q = "openingStock" -> Warehouse(Eve(d))
    [] q = "closingStock" -> Warehouse(d)

-----------------------------------------------------------------------------
Ask ==
  /\ reader.endpoint = "none"
  /\ \E e \in {"box", "sheet"}, d \in Days : reader' = [endpoint |-> e, day |-> d, ran |-> 0]
  /\ UNCHANGED <<log, got, quiet, backdated>>

Asked == reader.endpoint # "none"
Answered == Asked /\ reader.ran = Len(Plan(reader.endpoint))

RunStatement ==
  /\ Asked /\ ~Answered
  /\ LET q == Plan(reader.endpoint)[reader.ran + 1] IN
       got' = [x \in DOMAIN got \cup {q} |-> IF x = q THEN Result(q, reader.day) ELSE got[x]]
  /\ reader' = [reader EXCEPT !.ran = @ + 1]
  /\ UNCHANGED <<log, quiet, backdated>>

\* The answer is sent; the next request gets a session of its own.
Answer ==
  /\ Answered
  /\ reader' = [endpoint |-> "none", day |-> 0, ran |-> 0]
  /\ got' = <<>>
  /\ quiet' = TRUE /\ backdated' = FALSE
  /\ UNCHANGED log

\* What is committed while a reader is at work; nothing is needed after its
\* last statement.
Dated(d) ==
  <<Collected(d), Spent(d), Deposited(d), CashCollected(d), CashSpent(d), Warehouse(d)>>

Commit ==
  /\ ~Answered
  /\ LogPost
  /\ UNCHANGED <<reader, got>>
  /\ quiet' = ~Asked
  /\ backdated' = (backdated \/ (Asked /\ Dated(reader.day - 1)' # Dated(reader.day - 1)))

Next == Ask \/ RunStatement \/ Answer \/ Commit

DSpec == DInit /\ [][Next]_vars

-----------------------------------------------------------------------------
(* The answers.                                                            *)

\* The cashier box of the day.
BoxOut ==
  [opening |-> got["collected0"] - got["expenses0"] - got["deposits0"],
   collected |-> got["collected"] - got["collected0"],
   expenses |-> got["expenses"] - got["expenses0"],
   deposited |-> got["deposits"] - got["deposits0"],
   closing |-> got["collected"] - got["expenses"] - got["deposits"],
   hand_cash_opening |-> got["cash0"] - got["cashExpenses0"] - got["deposits0"],
   hand_cash_collected |-> got["cash"] - got["cash0"],
   hand_cash_closing |-> got["cash"] - got["cashExpenses"] - got["deposits"]]

\* The rows of the sheet: active boys, and customers who bought.
Listed == got["drivers"] \cup got["customers"]

Nothing == [cash |-> 0, upi |-> 0, online |-> 0, cylinders |-> 0, empties |-> 0]
Sold(p) == IF p \in DOMAIN got["agg"] THEN got["agg"][p] ELSE Nothing
RowTotal(p) == Sold(p).cash + Sold(p).upi
RowExpense(p) == IF p \in Boys THEN got["expenseByDriver"][p] ELSE 0
RowLoad(p) == IF p \in Boys THEN got["loads"][p] ELSE [loaded |-> 0, returned |-> 0]
RowNet(p) == RowTotal(p) - RowExpense(p)
RowBalance(p) ==
  IF p \in Boys THEN got["balanceByDriver"][p] ELSE got["balanceByCustomer"][p]

\* handed: net - balance for a boy, cash + UPI for a customer.
RowHanded(p) == IF p \in Boys THEN RowNet(p) - RowBalance(p) ELSE RowTotal(p)

\* Boys who sold and are not listed, because they are not active any more.
Dropped == {b \in Boys : b \in DOMAIN got["agg"]} \ got["drivers"]

\* stock: of the rows, but for the two warehouse totals.
StockOut ==
  [opening |-> got["openingStock"],
   loaded |-> SumFunction([p \in Listed |-> RowLoad(p).loaded]),
   sold |-> SumFunction([p \in Listed |-> Sold(p).cylinders]),
   returned |-> SumFunction([p \in Listed |-> RowLoad(p).returned]),
   closing |-> got["closingStock"]]

SheetShown == Answered /\ reader.endpoint = "sheet"

-----------------------------------------------------------------------------
\* "collected: cash + UPI collected on this date" (schemas/cashier_box.py:14):
\* whatever commits while the box is read, its movements are those of its
\* date unless something dated earlier slips in between the two halves.
MovementsAreOfTheDay ==
  Answered /\ ~backdated =>
    /\ BoxOut.collected <= Collected(reader.day) - Collected(reader.day - 1)
    /\ BoxOut.expenses <= Spent(reader.day) - Spent(reader.day - 1)
    /\ BoxOut.deposited <= Deposited(reader.day) - Deposited(reader.day - 1)
    /\ BoxOut.opening = Closing(reader.day - 1)
    /\ BoxOut.hand_cash_opening = HandCash(reader.day - 1)
    /\ BoxOut.hand_cash_closing - BoxOut.hand_cash_opening <=
         CashCollected(reader.day) - CashCollected(reader.day - 1)
    /\ SheetShown => StockOut.opening = Warehouse(reader.day - 1)

\* On an undisturbed read the sheet's own sums (from sales) and the cashier
\* box in it (from the ledger) tell one story: the box moved by the cash and UPI of
\* the rows and of the boys that are not listed, and by all the day's expenses; the
\* note counts cover both; what the rows call handed falls short of their net by
\* what the boys were charged that day.
SheetAgreesWithBox ==
  SheetShown /\ quiet =>
    LET everybody == Boys \cup got["customers"]
        charged == {c \in balances : c.kind = "charge" /\ c.party \in Boys}
    IN /\ SumFunction([p \in Listed \cup Dropped |-> RowTotal(p)]) = BoxOut.collected
       /\ got["expensesTotal"] = BoxOut.expenses
       /\ SumFunction([p \in everybody |-> RowNet(p)]) =
            BoxOut.collected - BoxOut.expenses
              + Total({e \in On(expenses, reader.day) : e.boy = Nobody})
       /\ SumFunction([p \in everybody |-> RowNet(p)])
            - SumFunction([p \in everybody |-> RowHanded(p)])
            = Total(On(charged, reader.day))
       /\ got["notes"] = BoxOut.hand_cash_collected

\* And so do its stock summary, where sold is of the sale lines and the two ends
\* of the stock ledger, and the boys' rows, where loads are those of the load sheet:
\* from opening to closing, full cylinders went out with the sales of the rows and
\* of the boys that are not listed, all else came or went at the warehouse.
SheetStockAddsUp ==
  SheetShown /\ quiet =>
    LET today == On(stock_ledger, reader.day)
        others == {r \in today : r.condition = "full" /\ r.reason # "sale"}
    IN /\ StockOut.closing =
            StockOut.opening - StockOut.sold
              - SumFunction([b \in Dropped |-> Sold(b).cylinders]) + SumDelta(others)
       /\ SumFunction([p \in Listed \cup Dropped |-> Sold(p).empties])
            = SumDelta({r \in today : r.condition = "empty" /\ r.reason = "sale"})
       /\ StockOut.loaded + SumFunction([b \in Boys \ Listed |-> got["loads"][b].loaded])
            = SumFunction([t \in Types |-> MovementLoaded(t, reader.day)])
=============================================================================
