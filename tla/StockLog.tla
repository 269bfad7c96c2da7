------------------------------ MODULE StockLog ------------------------------
(***************************************************************************)
(* The dated stock ledger and the drivers' load sheet beside the money     *)
(* tables of Books, and every figure about stock that is read from them:   *)
(* the overview (services/stock.py), the warehouse totals and the loads    *)
(* (services/stock_loads.py), the movement, end-of-day and trend figures   *)
(* (services/analytics.py) and the reports (services/reports.py).          *)
(*                                                                         *)
(* A movement is one row here: how the lines of a request get to their     *)
(* commit, and the live count next to them, is the subject of Warehouse.   *)
(* Movements may carry any date; a correction carries the database's.      *)
(***************************************************************************)
EXTENDS Books

CONSTANTS
  Types,         \* cylinder types
  Accessories,
  Today,         \* CURRENT_DATE
  Cargo,         \* per sale slip: the type sold, full and empty cylinders, and what
                 \* its price exceeds the money by (a super admin may let that pass)
  StockSlips,    \* intake, ac4, erv, return lines and corrections
  LoadSlips      \* PUT /stock/loads bodies

Reasons == {"intake", "ac4", "erv", "return", "adjust"}

\* A line a schema lets through, or the difference a correction books.
Movement(m) ==
  /\ m.day \in Days
  /\ m.reason # "adjust" => m.qty \in Positive
  /\ m.reason = "intake" => m.item \in Types /\ m.condition = "full"
  /\ m.reason = "ac4" =>
       \/ m.item \in Types /\ m.condition = "full"
       \/ m.item \in Accessories /\ m.condition = "none"
  /\ m.reason = "erv" => m.item \in Types /\ m.condition = "empty"
  /\ m.reason = "return" =>
       \/ m.item \in Types /\ m.condition \in {"full", "empty"}
       \/ m.item \in Accessories /\ m.condition = "none"
  /\ m.reason = "adjust" =>
       m.item \in Types /\ m.condition = "full" /\ m.qty \in Int /\ m.day = Today

LoadUpsert ==
  [day : Days, boy : Boys, type : Types, loaded : Nat, returned : Nat, known : BOOLEAN]

ASSUME StockLogAssumption ==
  /\ Types \cap Accessories = {} /\ IsFiniteSet(Types)
  /\ Today \in Days
  /\ Cargo \in [SaleSlips -> [type : Types, qty : Positive, empty : Nat, excess : Int]]
  /\ \A m \in StockSlips : m.reason \in Reasons /\ Movement(m)
  /\ LoadSlips \subseteq LoadUpsert

VARIABLES
  stock_ledger,  \* rows: the slip they are of, item, condition, reason, date, delta
  loads          \* stock_loads, one row per date, boy and type

stock == <<stock_ledger, loads>>
log == <<books, stock>>

LogInit == Init /\ stock_ledger = {} /\ loads = {}

-----------------------------------------------------------------------------
Row(slip, item, condition, reason, day, delta) ==
  [of |-> slip, item |-> item, condition |-> condition, reason |-> reason,
   day |-> day, delta |-> delta]

\* Mutant of Moved: the rows of a sale get the date of the insert.
MovedToday(s) ==
  {Row(s, Cargo[s].type, "full", "sale", Today, -Cargo[s].qty)}
    \cup (IF Cargo[s].empty = 0 THEN {}
          ELSE {Row(s, Cargo[s].type, "empty", "sale", Today, Cargo[s].empty)})

\* A sale takes full cylinders out and brings empties in, if any came back.
Moved(s) ==
  {Row(s, Cargo[s].type, "full", "sale", s.day, -Cargo[s].qty)}
    \cup (IF Cargo[s].empty = 0 THEN {}
          ELSE {Row(s, Cargo[s].type, "empty", "sale", s.day, Cargo[s].empty)})

\* The whole commit of create_and_post_sale: money, sale line and stock rows.
Sell(s) ==
  /\ PostSale(s)
  /\ stock_ledger' = stock_ledger \cup Moved(s)
  /\ UNCHANGED loads

\* A dispatch to the plant and a return take pieces out.
Recorded(m) ==
  Row(m, m.item, m.condition, m.reason, m.day,
      IF m.reason \in {"erv", "return"} THEN -m.qty ELSE m.qty)

\* record_intake, record_ac4, record_erv, record_return, adjust_inventory.
Record(m) ==
  /\ \A r \in stock_ledger : r.of # m
  /\ stock_ledger' = stock_ledger \cup {Recorded(m)}
  /\ UNCHANGED <<books, loads>>

SameLoad(x, y) == x.day = y.day /\ x.boy = y.boy /\ x.type = y.type

\* Mutant of Others: a second entry for the same load adds a row.
OthersAll(l) == loads

Others(l) == {x \in loads : ~SameLoad(x, l)}

\* upsert_load: the last entry for a date, boy and type replaces both numbers.
UpsertLoad(l) ==
  /\ l.known
  /\ loads' = Others(l) \cup {l}
  /\ UNCHANGED <<books, stock_ledger>>

\* The upsert fails on an unknown boy or type: InvalidReference.
RefuseLoad(l) == ~l.known /\ UNCHANGED log

LogPost ==
  \/ \E s \in SaleSlips : Sell(s)
  \/ PostMoney /\ UNCHANGED stock
  \/ \E m \in StockSlips : Record(m)
  \/ \E l \in LoadSlips : UpsertLoad(l) \/ RefuseLoad(l)

LogSpec == LogInit /\ [][LogPost]_log

-----------------------------------------------------------------------------
(* The figures, each as the SQL statement that computes it.                *)

SumDelta(rows) == SumFunction([r \in rows |-> r.delta])

Full(t) == {r \in stock_ledger : r.item = t /\ r.condition = "full"}
Empty(t) == {r \in stock_ledger : r.item = t /\ r.condition = "empty"}
Pieces(a) == {r \in stock_ledger : r.item = a}

\* Mutant of Before: what moved on the day is in its opening.
BeforeOrOn(rows, d) == {r \in rows : r.day <= d}

Before(rows, d) == {r \in rows : r.day < d}
UpTo(rows, d) == {r \in rows : r.day <= d}
Between(rows, start, end) == {r \in rows : r.day \in start .. end}
On(rows, d) == Between(rows, d, d)
Of(rows, reason) == {r \in rows : r.reason = reason}

\* _CYL_OVERVIEW, the columns of a type's row; the answer has the rows of active types.
FullOpening(t, d) == SumDelta(Before(Full(t), d))
FullClosing(t, d) == SumDelta(UpTo(Full(t), d))
FullReceived(t, d) == SumDelta(Of(On(Full(t), d), "ac4"))
FullSold(t, d) == -SumDelta(Of(On(Full(t), d), "sale"))
EmptyOpening(t, d) == SumDelta(Before(Empty(t), d))
EmptyClosing(t, d) == SumDelta(UpTo(Empty(t), d))
EmptyReturned(t, d) == SumDelta(Of(On(Empty(t), d), "sale"))
EmptySent(t, d) == -SumDelta(Of(On(Empty(t), d), "erv"))

\* _ACC_OVERVIEW, those of an accessory's row.
AccOpening(a, d) == SumDelta(Before(Pieces(a), d))
AccClosing(a, d) == SumDelta(UpTo(Pieces(a), d))
AccReceived(a, d) == SumDelta(Of(On(Pieces(a), d), "ac4"))
AccSold(a, d) == -SumDelta(Of(On(Pieces(a), d), "sale"))

\* warehouse_opening_closing and intake_total: all types, active or not.
Warehouse(bound) == SumDelta({r \in stock_ledger : r.condition = "full" /\ r.day <= bound})
IntakeTotal(d) == SumDelta(Of(On(stock_ledger, d), "intake"))

Loaded(rows) == SumFunction([l \in rows |-> l.loaded])
Returned(rows) == SumFunction([l \in rows |-> l.returned])

\* loads_by_driver, of all types.
LoadedBy(b, d) == Loaded({l \in loads : l.boy = b /\ l.day = d})
ReturnedBy(b, d) == Returned({l \in loads : l.boy = b /\ l.day = d})

\* sale_lines of the approved sales of some parties, dated in the range.
Lines(parties, start, end) == {s \in sales : s.party \in parties /\ s.day \in start .. end}
Qty(lines) == SumFunction([s \in lines |-> Cargo[s].qty])
EmptyQty(lines) == SumFunction([s \in lines |-> Cargo[s].empty])

\* _MOVEMENT, the columns of a type's row; the answer has the rows of active types.
MovementLoaded(t, d) == Loaded({l \in loads : l.type = t /\ l.day = d})
MovementSold(t, d) == Qty({s \in Lines(Parties, d, d) : Cargo[s].type = t})
MovementLeft(t, d) == SumDelta(UpTo(Full(t), d))

\* eod, of the tables of sales and expenses.
EodCylinders(d) == Qty(Lines(Parties, d, d))
EodCash(d) == Total({r \in SaleRows({"cash"}) : r.of.day = d})
EodUpi(d) == SumFunction([s \in Lines(Parties, d, d) |-> s.upi])
EodOnline(d) == SumFunction([s \in Lines(Parties, d, d) |-> s.online])
EodExpenses(d) == Total({e \in expenses : e.day = d})
EodProfit(d) == EodCash(d) + EodUpi(d) + EodOnline(d) - EodExpenses(d)

\* Mutant of Start: the window is a day too long.
StartEarly(end, days) == end - (IF days < 1 THEN 1 ELSE days)

\* The first day of the window; a window of no days is one of one.
Start(end, days) == end - ((IF days < 1 THEN 1 ELSE days) - 1)

\* collections_trend: the points of the window that ends on a date.
Trend(end, days) == [d \in Start(end, days) .. end |-> EodCash(d) + EodUpi(d)]

\* The four reports, of a range of dates with both ends in it.
Ac4Report(t, start, end) == SumDelta(Of(Between(Full(t), start, end), "ac4"))
ErvReport(t, start, end) == -SumDelta(Of(Between(Empty(t), start, end), "erv"))

Price(s) == Money(s) + Cargo[s].excess

SalesReport(b, start, end) == SumFunction([s \in Lines({b}, start, end) |-> Price(s)])
CylindersReport(b, start, end) == Qty(Lines({b}, start, end))

ExpenseReport(start, end) == Total(Between(expenses, start, end))

DepositReport(to, start, end) ==
  Total({t \in Between(transfers, start, end) : t.to = to})

\* month_sheet: cylinders sold, and empties sent to the plant, on a day of it.
MonthCylinders(d) == Qty({s \in sales : s.day = d})
MonthErv(d) ==
  -SumDelta({r \in On(stock_ledger, d) : r.reason = "erv" /\ r.condition = "empty"})

\* The days that have a row; a day on which stock only came in has none.
MonthDays(start, end) ==
  {d \in start .. end :
     \/ \E s \in sales : s.day = d
     \/ \E e \in expenses : e.day = d
     \/ \E r \in stock_ledger : r.day = d /\ r.reason = "erv" /\ r.condition = "empty"}

-----------------------------------------------------------------------------
\* Types of the two tables; a load has one row.
LogTypeOK ==
  /\ TypeOK
  /\ stock_ledger \subseteq
       [of : sales \cup StockSlips, item : Types \cup Accessories,
        condition : {"full", "empty", "none"}, reason : Reasons \cup {"sale"},
        day : Days, delta : Int]
  /\ loads \subseteq LoadSlips
  /\ \A x, y \in loads : SameLoad(x, y) => x = y

\* "opening = sum of delta before D; closing = sum up to and including D"
\* (stock.py:4): for any mix of dates, what a day's row opens with is what the day
\* before closed with, and what the row shows between the two is the difference,
\* but for intakes, returns and corrections, which it does not show.
OverviewCarriesOver ==
  \A d \in Days :
    LET Unshown(rows) ==
          SumDelta({r \in On(rows, d) : r.reason \in {"intake", "return", "adjust"}})
    IN /\ \A t \in Types :
            /\ FullClosing(t, d) = FullOpening(t, d + 1)
            /\ FullOpening(t, d) + FullReceived(t, d) - FullSold(t, d) + Unshown(Full(t))
                 = FullClosing(t, d)
            /\ EmptyOpening(t, d) + EmptyReturned(t, d) - EmptySent(t, d) + Unshown(Empty(t))
                 = EmptyClosing(t, d)
       /\ \A a \in Accessories :
            /\ AccClosing(a, d) = AccOpening(a, d + 1)
            /\ AccOpening(a, d) + AccReceived(a, d) - AccSold(a, d) + Unshown(Pieces(a))
                 = AccClosing(a, d)

\* The warehouse total of the day sheet, which knows no type, is the sum of the
\* overview's rows and of what is left of the types it does not list any more; it
\* moves by the day's intake, by what the rows show, and by the returns and
\* corrections they do not show.
WarehouseIsOverview ==
  \A d \in Days :
    LET change == {r \in On(stock_ledger, d) :
                     r.condition = "full" /\ r.reason \in {"return", "adjust"}}
    IN /\ Warehouse(d) = SumFunction([t \in Types |-> FullClosing(t, d)])
       /\ Warehouse(d) - Warehouse(d - 1) =
            IntakeTotal(d) + SumDelta(change)
              + SumFunction([t \in Types |-> FullReceived(t, d) - FullSold(t, d)])

\* The stock figures of a day follow from those of the day before, per type and
\* in the warehouse total alike, however late a movement is booked.
StockCarriesOver == OverviewCarriesOver /\ WarehouseIsOverview

\* What was sold is read from the stock ledger (overview) and from the sale
\* lines (movement, end of day, delivery report), what was loaded per boy (day
\* sheet) and per type (movement): all agree, on every date, once customers are
\* added to the report, which leaves them out.
DayViewsAgree ==
  \A d \in Days :
    /\ \A t \in Types : MovementSold(t, d) = FullSold(t, d) /\ MovementLeft(t, d) = FullClosing(t, d)
    /\ SumFunction([t \in Types |-> FullSold(t, d)]) = EodCylinders(d)
    /\ SumFunction([b \in Boys |-> CylindersReport(b, d, d)]) + Qty(Lines(Customers, d, d))
         = EodCylinders(d)
    /\ SumFunction([t \in Types |-> EmptyReturned(t, d)]) = EmptyQty(Lines(Parties, d, d))
    /\ SumFunction([b \in Boys |-> LoadedBy(b, d)])
         = SumFunction([t \in Types |-> MovementLoaded(t, d)])

\* A report over a range is the sum of its days in the daily views and the
\* difference of two cumulative ones, and the month sheet's totals are those of
\* the days it shows: no day is lost or counted twice.
ReportsAddUp ==
  \A start, end \in Days : start <= end =>
    /\ \A t \in Types :
         /\ Ac4Report(t, start, end) = SumFunction([d \in start .. end |-> FullReceived(t, d)])
         /\ ErvReport(t, start, end) = SumFunction([d \in start .. end |-> EmptySent(t, d)])
    /\ SumFunction([d \in MonthDays(start, end) |-> MonthErv(d)])
         = SumFunction([t \in Types |-> ErvReport(t, start, end)])
    /\ SumFunction([d \in MonthDays(start, end) |-> MonthCylinders(d)])
         = SumFunction([d \in start .. end |-> EodCylinders(d)])
    /\ ExpenseReport(start, end) = Spent(end) - Spent(start - 1)
    /\ SumFunction([d \in start .. end |-> EodProfit(d)])
         = SumFunction([d \in MonthDays(start, end) |-> MonthNet(d)])
             + SumFunction([d \in start .. end |-> EodOnline(d)])
    /\ SumFunction([to \in Accounts \cup {Outside} |-> DepositReport(to, start, end)])
         = Deposited(end) - Deposited(start - 1)
             + Total({t \in Between(transfers, start, end) : t.from # Box})

\* The trend's points are what the cashier box says was collected on these days,
\* whatever number of days is asked for, the last one being the date given.
TrendIsBox ==
  \A end \in Days, days \in 0 .. 2 :
    LET points == Trend(end, days) IN
    /\ end \in DOMAIN points
    /\ SumFunction(points)
         = Collected(end) - Collected(end - Max({1, days}))

\* What a boy sold by the price list in a range of dates is in the ledger or among
\* the charges that his balance has in that range, each by its own date, manual ones
\* apart, but for what a super admin let pass.
DeliveryReportIsCovered ==
  \A b \in Boys, start, end \in Days :
    LET charges == {c \in Between(balances, start, end) : c.party = b /\ c.kind = "charge"} IN
    SalesReport(b, start, end) =
      Total({r \in SaleRows({"cash", "upi", "online"}) :
               r.of.party = b /\ r.of.day \in start .. end})
        + Total(charges) - Total({c \in charges : c.of \in EntrySlips})
        + SumFunction([s \in Lines({b}, start, end) |-> Cargo[s].excess])

\* The figures of a range of dates, reports and trend, are those of its days.
RangesAddUp == ReportsAddUp /\ TrendIsBox

\* Every rupee of a sale is in the ledger or in a balance, in total, and on its date
\* by the price list of each boy.
SalesAreCovered == SalesAreAccounted /\ DeliveryReportIsCovered
=============================================================================
