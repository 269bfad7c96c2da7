-------------------------------- MODULE Books --------------------------------
(***************************************************************************)
(* The money tables and what is derived from them: sales with their        *)
(* cash_ledger rows and balance charges, expenses, transfers, and the      *)
(* sums of the cashier box, the bank accounts and the month sheet.         *)
(*                                                                         *)
(* All tables are append-only.  A posting handler is one transaction that  *)
(* reads nothing it could lose to another, so each is one step; how a sale *)
(* gets to its commit is the subject of module Sales.  Nothing here looks  *)
(* at the day's status: expenses, transfers and entries may be dated       *)
(* freely.  Module StockLog adds the stock rows of a sale and the          *)
(* specification.                                                          *)
(***************************************************************************)
EXTENDS Integers, FiniteSetsExt

CONSTANTS
  Boys, Customers,   \* the parties a sale may be of
  Accounts,          \* bank accounts
  Days,              \* business dates, as consecutive integers
  SaleSlips,         \* sales that may be posted
  ExpenseSlips,      \* POST /expenses bodies
  TransferSlips,     \* POST /transfers bodies
  EntrySlips,        \* manual charges and repayments
  Box,               \* the cashier box as the source of a transfer
  Outside,           \* a vendor or a person as its destination
  Nobody             \* an expense of no delivery boy

Parties == Boys \cup Customers

(***************************************************************************)
(* The request bodies; known says whether what they refer to exists.       *)
(***************************************************************************)
Positive == Nat \ {0}

SaleCreate ==
  [day : Days, party : Parties, cash : Nat, upi : Nat, online : Nat, balance : Nat]

ExpenseCreate ==
  [day : Days, amount : Positive, method : {"cash", "digital"}, boy : Boys \cup {Nobody},
   known : BOOLEAN]

\* A vendor and a person are both Outside; the two accounts must differ.
TransferCreate ==
  {t \in [day : Days, amount : Positive, from : Accounts \cup {Box},
          to : Accounts \cup {Outside}, known : BOOLEAN] : t.from # t.to}

BalanceCreate ==
  [day : Days, amount : Positive, party : Parties, kind : {"charge", "repayment"},
   known : BOOLEAN]

\* The calendar and the tables of parties and accounts are finite.
ASSUME BooksAssumption ==
  /\ Days \subseteq Int /\ Days # {} /\ IsFiniteSet(Days)
  /\ IsFiniteSet(Boys) /\ IsFiniteSet(Customers) /\ IsFiniteSet(Accounts)
  /\ Boys \cap Customers = {} /\ Nobody \notin Boys
  /\ Box \notin Accounts /\ Outside \notin Accounts
  /\ SaleSlips \subseteq SaleCreate /\ ExpenseSlips \subseteq ExpenseCreate
  /\ TransferSlips \subseteq TransferCreate /\ EntrySlips \subseteq BalanceCreate

VARIABLES
  sales, expenses, transfers,  \* the slips that are posted
  cash_ledger,                 \* rows: the slip they are of, kind, signed amount
  balances,                    \* delivery_balances and customer_balances rows
  active                       \* boys and customers whose row is active

books == <<sales, expenses, transfers, cash_ledger, balances, active>>

Entry(slip, kind, amount) == [of |-> slip, kind |-> kind, amount |-> amount]

Init ==
  /\ sales = {} /\ expenses = {} /\ transfers = {}
  /\ cash_ledger = {} /\ balances = {}
  /\ active = Parties

-----------------------------------------------------------------------------
Owed(slip, kind, amount) ==
  [of |-> slip, party |-> slip.party, day |-> slip.day, kind |-> kind, amount |-> amount]

\* Mutant of Charged: what a boy left open is not charged.
ChargedCustomers(s) ==
  IF s.balance = 0 \/ s.party \in Boys THEN {} ELSE {Owed(s, "charge", s.balance)}

\* The uncollected balance goes to the ledger of the boy or of the customer.
Charged(s) == IF s.balance = 0 THEN {} ELSE {Owed(s, "charge", s.balance)}

\* Rows for cash and UPI always, for online when there is some.
Paid(s) ==
  {Entry(s, "cash", s.cash), Entry(s, "upi", s.upi)}
    \cup (IF s.online = 0 THEN {} ELSE {Entry(s, "online", s.online)})

\* The commit of create_and_post_sale, as far as money goes.
PostSale(s) ==
  /\ s \notin sales
  /\ sales' = sales \cup {s}
  /\ cash_ledger' = cash_ledger \cup Paid(s)
  /\ balances' = balances \cup Charged(s)
  /\ UNCHANGED <<expenses, transfers, active>>

Booked(e) == IF e.method = "cash" THEN {Entry(e, "expense", -e.amount)} ELSE {}

\* create_expense: both rows and the audit row in one commit.
CreateExpense(e) ==
  /\ e \notin expenses
  /\ e.known
  /\ expenses' = expenses \cup {e}
  /\ cash_ledger' = cash_ledger \cup Booked(e)
  /\ UNCHANGED <<sales, transfers, balances, active>>

\* Mutant of Undone: the ledger row survives the failed flush.
UndoneHalf(e) == cash_ledger \cup Booked(e)

Undone(e) == cash_ledger

\* The flush fails on an unknown item or boy; rollback, InvalidExpenseItem.
RefuseExpense(e) ==
  /\ ~e.known
  /\ cash_ledger' = Undone(e)
  /\ UNCHANGED <<sales, expenses, transfers, balances, active>>

\* create_transfer: an overdrawn source is no reason to refuse.
CreateTransfer(t) ==
  /\ t \notin transfers
  /\ t.known
  /\ transfers' = transfers \cup {t}
  /\ UNCHANGED <<sales, expenses, cash_ledger, balances, active>>

\* An account or vendor that db.get does not find: InvalidReference.
RefuseTransfer(t) == ~t.known /\ UNCHANGED books

\* create_entry of the two balance services: the amount is not compared with
\* what the party owes.
CreateEntry(c) ==
  /\ \A b \in balances : b.of # c
  /\ c.known
  /\ balances' = balances \cup {Owed(c, c.kind, c.amount)}
  /\ UNCHANGED <<sales, expenses, transfers, cash_ledger, active>>

\* The commit fails on an unknown party.  The service of the customers makes it
\* InvalidReference, that of the boys leaves it to be a 500; both are rolled back.
RefuseEntry(c) == ~c.known /\ UNCHANGED books

\* update_user and update_customer: a party is deactivated, or a boy gets another
\* role, or it is active, and he a delivery boy, again.
SetActive(p) ==
  /\ active' = IF p \in active THEN active \ {p} ELSE active \cup {p}
  /\ UNCHANGED <<sales, expenses, transfers, cash_ledger, balances>>

PostMoney ==
  \/ \E e \in ExpenseSlips : CreateExpense(e) \/ RefuseExpense(e)
  \/ \E t \in TransferSlips : CreateTransfer(t) \/ RefuseTransfer(t)
  \/ \E c \in EntrySlips : CreateEntry(c) \/ RefuseEntry(c)
  \/ \E p \in Parties : SetActive(p)

-----------------------------------------------------------------------------
(* The sums, each as the SQL statement that computes it.                   *)

Total(rows) == SumFunction([r \in rows |-> r.amount])

SaleRows(kinds) == {r \in cash_ledger : r.kind \in kinds /\ r.of \in sales}

\* cashier_box.py: _COLLECTED, _EXPENSES, _DEPOSITS, _CASH_ONLY, _CASH_EXPENSES.
Collected(bound) == Total({r \in SaleRows({"cash", "upi"}) : r.of.day <= bound})
Spent(bound) == Total({e \in expenses : e.day <= bound})
Deposited(bound) == Total({t \in transfers : t.from = Box /\ t.day <= bound})
CashCollected(bound) == Total({r \in SaleRows({"cash"}) : r.of.day <= bound})
CashSpent(bound) == Total({e \in expenses : e.method = "cash" /\ e.day <= bound})

Closing(bound) == Collected(bound) - Spent(bound) - Deposited(bound)
HandCash(bound) == CashCollected(bound) - CashSpent(bound) - Deposited(bound)

\* Mutant of AccountBalance: money out is forgotten.
AccountBalanceIn(a) == Total({t \in transfers : t.to = a})

\* bank_account_balances: money in minus money out.
AccountBalance(a) ==
  Total({t \in transfers : t.to = a}) - Total({t \in transfers : t.from = a})

Outstanding(p) ==
  Total({b \in balances : b.party = p /\ b.kind = "charge"})
    - Total({b \in balances : b.party = p /\ b.kind = "repayment"})

\* summary of the balance services: a party that is not active has no row.
Summary == [p \in active |-> Outstanding(p)]
Hidden == [p \in Parties \ active |-> Outstanding(p)]

Money(s) == s.cash + s.upi + s.online + s.balance

\* Mutant of MonthTotal: what went straight to the company is counted.
MonthTotalOnline(s) == s.cash + s.upi + s.online

\* A sale in its day's row of the month sheet: cash from its ledger row, UPI
\* from the sale itself.
MonthTotal(s) == Total({r \in SaleRows({"cash"}) : r.of = s}) + s.upi

\* month_sheet: the net of one day's row.
MonthNet(d) ==
  SumFunction([s \in {x \in sales : x.day = d} |-> MonthTotal(s)])
    - Total({e \in expenses : e.day = d})

LastDay == Max(Days)

-----------------------------------------------------------------------------
TypeOK ==
  /\ sales \subseteq SaleSlips /\ expenses \subseteq ExpenseSlips
  /\ transfers \subseteq TransferSlips /\ active \subseteq Parties
  /\ cash_ledger \subseteq
       [of : sales \cup expenses, kind : {"cash", "upi", "online", "expense"}, amount : Int]
  /\ balances \subseteq
       [of : sales \cup EntrySlips, party : Parties, day : Days,
        kind : {"charge", "repayment"}, amount : Nat \ {0}]

\* "A cash expense also posts to the append-only cash ledger" (expenses.py:1):
\* the hand cash the box derives from sales, expenses and transfers is the sum
\* of the cash ledger less what was deposited, whatever failed in between.
CashLedgerIsHandCash ==
  HandCash(LastDay) + Deposited(LastDay) =
    Total({r \in cash_ledger : r.kind \in {"cash", "expense"}})

\* No transfer creates or destroys money: what was collected and not spent is
\* in the box, in the bank accounts, or outside.
MoneyIsConserved ==
  Collected(LastDay) - Spent(LastDay) =
    Closing(LastDay) + SumFunction([a \in Accounts |-> AccountBalance(a)])
      + Total({t \in transfers : t.to = Outside})

\* The month sheet, built from sales and expenses, and the cashier box, built
\* from the ledger, agree on every prefix of days.
MonthAgreesWithBox ==
  \A d \in Days :
    SumFunction([x \in {y \in Days : y <= d} |-> MonthNet(x)]) = Closing(d) + Deposited(d)

\* Three readings of the money, from the cash ledger, from sales, expenses and
\* transfers, and day by day, are one: no failed posting, no late date and no
\* kind of payment is in one of them only.
BoxAgrees == CashLedgerIsHandCash /\ MonthAgreesWithBox

\* What the company is owed or has received is what it sold for: the money of
\* all sales is in the ledger, in the balance summaries, or owed by boys and
\* customers that the summaries hide (customer_balances.py:74) because they are not
\* active; manual entries apart.
SalesAreAccounted ==
  SumFunction([s \in sales |-> Money(s)]) =
    Total(SaleRows({"cash", "upi", "online"}))
      + SumFunction(Summary)
      + SumFunction(Hidden)
      - Total({b \in balances : b.of \in EntrySlips /\ b.kind = "charge"})
      + Total({b \in balances : b.of \in EntrySlips /\ b.kind = "repayment"})
=============================================================================
