---------------------------- MODULE LedgerProofs ----------------------------
(***************************************************************************)
(* Proofs about the money and stock tables of Books and StockLog, and      *)
(* about the day sheet and the cashier box that are read from them.        *)
(*                                                                         *)
(* LogInv says what the tables hold; it is inductive, and every figure the *)
(* properties compare follows from it by the lemmas on sums: what is       *)
(* grouped by sale, party, type or day sums to the same.  DayInv adds what *)
(* a reader knows between two of its statements while others commit.       *)
(***************************************************************************)
EXTENDS DaySheet, SumProofs

-----------------------------------------------------------------------------
(* Sums of rows.                                                           *)

Amounts(rows) == IsFiniteSet(rows) /\ \A r \in rows : r.amount \in Int
Deltas(rows) == IsFiniteSet(rows) /\ \A r \in rows : r.delta \in Int

\* Some of the rows have integer amounts if all have.
LEMMA AmountsSubset ==
  ASSUME NEW rows, Amounts(rows), NEW some \in SUBSET rows
  PROVE  Amounts(some)
BY FS_Subset DEF Amounts

\* SUM(amount) of finitely many rows is an integer.
LEMMA TotalType ==
  ASSUME NEW rows, Amounts(rows)
  PROVE  Total(rows) \in Int
BY FnType DEF Total, Amounts

\* SUM(amount) of no row, as COALESCE has it.
LEMMA TotalEmpty == Total({}) = 0
BY FnZero, FS_EmptySet DEF Total

\* SUM(amount) of rows that are split in two.
LEMMA TotalUnion ==
  ASSUME NEW rows, Amounts(rows), NEW a, NEW b, rows = a \cup b, a \cap b = {}
  PROVE  Total(rows) = Total(a) + Total(b)
<1> DEFINE f == [r \in rows |-> r.amount]
           g == [r \in a |-> r.amount]
           h == [r \in b |-> r.amount]
<1>1. /\ IsFiniteSet(DOMAIN g) /\ IsFiniteSet(DOMAIN h)
      /\ DOMAIN f = DOMAIN g \cup DOMAIN h /\ DOMAIN g \cap DOMAIN h = {}
      /\ \A x \in DOMAIN g : g[x] = f[x] /\ f[x] \in Int
      /\ \A x \in DOMAIN h : h[x] = f[x] /\ f[x] \in Int
  BY FS_Subset DEF Amounts
<1> HIDE DEF f, g, h
<1>2. SumFunction(f) = SumFunction(g) + SumFunction(h)
  BY <1>1, FnUnion
<1> QED BY <1>2 DEF Total, f, g, h

\* SUM(amount) ... GROUP BY: the totals of the groups sum to the total.
LEMMA TotalFibres ==
  ASSUME NEW rows, Amounts(rows), NEW I, IsFiniteSet(I),
         NEW key, \A r \in rows : key[r] \in I,
         NEW h, DOMAIN h = I, \A i \in I : h[i] = Total({r \in rows : key[r] = i})
  PROVE  Total(rows) = SumFunction(h)
<1> DEFINE f == [r \in rows |-> r.amount]
<1>1. DOMAIN f = rows /\ \A r \in rows : f[r] = r.amount /\ f[r] \in Int
  BY DEF Amounts
<1>2. ASSUME NEW i \in I
      PROVE  h[i] = SumFunction([x \in {y \in DOMAIN f : key[y] = i} |-> f[x]])
  <2>1. {r \in rows : key[r] = i} = {y \in DOMAIN f : key[y] = i}
    BY <1>1
  <2>2. [r \in {y \in DOMAIN f : key[y] = i} |-> r.amount]
          = [x \in {y \in DOMAIN f : key[y] = i} |-> f[x]]
    BY <1>1
  <2>3. h[i] = SumFunction([r \in {r \in rows : key[r] = i} |-> r.amount])
    BY DEF Total
  <2> QED BY <2>1, <2>2, <2>3
<1>3. IsFiniteSet(DOMAIN f)
  BY <1>1 DEF Amounts
<1> HIDE DEF f
<1>4. SumFunction(f) = SumFunction(h)
  BY <1>1, <1>2, <1>3, FnFibres
<1> QED BY <1>4 DEF Total, f

\* SUM(amount) of one row.
LEMMA TotalSingle ==
  ASSUME NEW r, r.amount \in Int
  PROVE  Total({r}) = r.amount
<1> DEFINE f == [x \in {r} |-> x.amount]
<1>1. f[r] = r.amount /\ DOMAIN f = {r}
  OBVIOUS
<1>2. IsFiniteSet({r})
  BY FS_Singleton
<1> HIDE DEF f
<1>3. SumFunction(f) = SumFunctionOnSet(f, {r})
  BY <1>1 DEF SumFunction
<1>4. SumFunctionOnSet(f, {r}) = f[r]
  BY <1>1, SumSingle
<1> QED BY <1>1, <1>3, <1>4 DEF Total, f

\* Where no amount is negative, fewer rows sum to no more.
LEMMA TotalMonotone ==
  ASSUME NEW rows, IsFiniteSet(rows), \A r \in rows : r.amount \in Nat,
         NEW some \in SUBSET rows
  PROVE  Total(some) <= Total(rows)
<1> DEFINE f == [r \in rows |-> r.amount]
           g == [r \in some |-> r.amount]
<1>1. /\ IsFiniteSet(DOMAIN f) /\ DOMAIN g \subseteq DOMAIN f
      /\ \A x \in DOMAIN f : f[x] \in Nat
      /\ \A x \in DOMAIN g : g[x] = f[x]
  OBVIOUS
<1> HIDE DEF f, g
<1>2. SumFunction(g) <= SumFunction(f)
  BY <1>1, FnMonotone
<1> QED BY <1>2 DEF Total, f, g

\* Some of the rows have integer deltas if all have.
LEMMA DeltasSubset ==
  ASSUME NEW rows, Deltas(rows), NEW some \in SUBSET rows
  PROVE  Deltas(some)
BY FS_Subset DEF Deltas

\* SUM(delta) of finitely many rows is an integer.
LEMMA DeltaType ==
  ASSUME NEW rows, Deltas(rows)
  PROVE  SumDelta(rows) \in Int
BY FnType DEF SumDelta, Deltas

\* SUM(delta) of no row.
LEMMA DeltaEmpty == SumDelta({}) = 0
BY FnZero, FS_EmptySet DEF SumDelta

\* SUM(delta) of rows that are split in two.
LEMMA DeltaUnion ==
  ASSUME NEW rows, Deltas(rows), NEW a, NEW b, rows = a \cup b, a \cap b = {}
  PROVE  SumDelta(rows) = SumDelta(a) + SumDelta(b)
<1> DEFINE f == [r \in rows |-> r.delta]
           g == [r \in a |-> r.delta]
           h == [r \in b |-> r.delta]
<1>1. /\ IsFiniteSet(DOMAIN g) /\ IsFiniteSet(DOMAIN h)
      /\ DOMAIN f = DOMAIN g \cup DOMAIN h /\ DOMAIN g \cap DOMAIN h = {}
      /\ \A x \in DOMAIN g : g[x] = f[x] /\ f[x] \in Int
      /\ \A x \in DOMAIN h : h[x] = f[x] /\ f[x] \in Int
  BY FS_Subset DEF Deltas
<1> HIDE DEF f, g, h
<1>2. SumFunction(f) = SumFunction(g) + SumFunction(h)
  BY <1>1, FnUnion
<1> QED BY <1>2 DEF SumDelta, f, g, h

\* SUM(delta) ... GROUP BY: the sums of the groups sum to the whole.
LEMMA DeltaFibres ==
  ASSUME NEW rows, Deltas(rows), NEW I, IsFiniteSet(I),
         NEW key, \A r \in rows : key[r] \in I,
         NEW h, DOMAIN h = I, \A i \in I : h[i] = SumDelta({r \in rows : key[r] = i})
  PROVE  SumDelta(rows) = SumFunction(h)
<1> DEFINE f == [r \in rows |-> r.delta]
<1>1. DOMAIN f = rows /\ \A r \in rows : f[r] = r.delta /\ f[r] \in Int
  BY DEF Deltas
<1>2. ASSUME NEW i \in I
      PROVE  h[i] = SumFunction([x \in {y \in DOMAIN f : key[y] = i} |-> f[x]])
  <2>1. {r \in rows : key[r] = i} = {y \in DOMAIN f : key[y] = i}
    BY <1>1
  <2>2. [r \in {y \in DOMAIN f : key[y] = i} |-> r.delta]
          = [x \in {y \in DOMAIN f : key[y] = i} |-> f[x]]
    BY <1>1
  <2>3. h[i] = SumFunction([r \in {r \in rows : key[r] = i} |-> r.delta])
    BY DEF SumDelta
  <2> QED BY <2>1, <2>2, <2>3
<1>3. IsFiniteSet(DOMAIN f)
  BY <1>1 DEF Deltas
<1> HIDE DEF f
<1>4. SumFunction(f) = SumFunction(h)
  BY <1>1, <1>2, <1>3, FnFibres
<1> QED BY <1>4 DEF SumDelta, f

\* SUM(delta) of one row.
LEMMA DeltaSingle ==
  ASSUME NEW r, r.delta \in Int
  PROVE  SumDelta({r}) = r.delta
<1> DEFINE f == [x \in {r} |-> x.delta]
<1>1. f[r] = r.delta /\ DOMAIN f = {r}
  OBVIOUS
<1>2. IsFiniteSet({r})
  BY FS_Singleton
<1> HIDE DEF f
<1>3. SumFunction(f) = SumFunctionOnSet(f, {r})
  BY <1>1 DEF SumFunction
<1>4. SumFunctionOnSet(f, {r}) = f[r]
  BY <1>1, SumSingle
<1> QED BY <1>1, <1>3, <1>4 DEF SumDelta, f

-----------------------------------------------------------------------------
(* What the tables hold.                                                   *)

Finite ==
  /\ IsFiniteSet(sales) /\ IsFiniteSet(expenses) /\ IsFiniteSet(transfers)
  /\ IsFiniteSet(cash_ledger) /\ IsFiniteSet(balances)
  /\ IsFiniteSet(stock_ledger) /\ IsFiniteSet(loads)

\* Each row of the three ledgers is one its slip booked, and each row a slip
\* books is there.
RowsOfSlips ==
  /\ \A s \in sales : Paid(s) \subseteq cash_ledger
  /\ \A e \in expenses : Booked(e) \subseteq cash_ledger
  /\ \A r \in cash_ledger :
       (\E s \in sales : r \in Paid(s)) \/ (\E e \in expenses : r \in Booked(e))
  /\ \A s \in sales : Charged(s) \subseteq balances
  /\ \A b \in balances :
       \/ \E s \in sales : b \in Charged(s)
       \/ \E c \in EntrySlips : b = Owed(c, c.kind, c.amount)
  /\ \A s \in sales : Moved(s) \subseteq stock_ledger
  /\ \A r \in stock_ledger :
       (\E s \in sales : r \in Moved(s)) \/ (\E m \in StockSlips : r = Recorded(m))

LogInv == LogTypeOK /\ Finite /\ RowsOfSlips

\* What a sale has.
LEMMA SaleSlipType ==
  ASSUME NEW s \in SaleSlips
  PROVE  /\ s.day \in Days /\ s.day \in Int /\ s.party \in Parties
         /\ s.cash \in Nat /\ s.upi \in Nat /\ s.online \in Nat /\ s.balance \in Nat
BY BooksAssumption DEF SaleCreate

\* What an expense has.
LEMMA ExpenseSlipType ==
  ASSUME NEW e \in ExpenseSlips
  PROVE  /\ e.day \in Days /\ e.day \in Int /\ e.amount \in Nat
         /\ e.method \in {"cash", "digital"} /\ e.boy \in Boys \cup {Nobody}
BY BooksAssumption DEF ExpenseCreate, Positive

\* What a transfer has.
LEMMA TransferSlipType ==
  ASSUME NEW t \in TransferSlips
  PROVE  /\ t.day \in Days /\ t.day \in Int /\ t.amount \in Nat
         /\ t.from \in Accounts \cup {Box} /\ t.to \in Accounts \cup {Outside}
BY BooksAssumption DEF TransferCreate, Positive

\* What a manual balance entry has.
LEMMA EntrySlipType ==
  ASSUME NEW c \in EntrySlips
  PROVE  /\ c.day \in Days /\ c.day \in Int /\ c.amount \in Nat \ {0}
         /\ c.party \in Parties /\ c.kind \in {"charge", "repayment"}
BY BooksAssumption DEF BalanceCreate, Positive

\* The two kinds of bodies that book balance rows differ: only one has cash.
LEMMA EntryIsNoSale == SaleSlips \cap EntrySlips = {}
<1>1. ASSUME NEW s \in SaleSlips
      PROVE  "cash" \in DOMAIN s
  BY BooksAssumption DEF SaleCreate
<1>2. ASSUME NEW c \in EntrySlips
      PROVE  "cash" \notin DOMAIN c
  BY BooksAssumption DEF BalanceCreate
<1> QED BY <1>1, <1>2

\* The ledger rows of a sale carry its amounts, one row per kind.
LEMMA PaidRows ==
  ASSUME NEW s \in SaleSlips, NEW r \in Paid(s)
  PROVE  /\ r.of = s /\ r.kind \in {"cash", "upi", "online"} /\ r.amount \in Nat
         /\ r = Entry(s, r.kind, r.amount)
         /\ r.kind = "cash" => r.amount = s.cash
         /\ r.kind = "upi" => r.amount = s.upi
         /\ r.kind = "online" => r.amount = s.online
BY SaleSlipType DEF Paid, Entry

\* The ledger row of an expense, which only a cash expense has.
LEMMA BookedRows ==
  ASSUME NEW e \in ExpenseSlips, NEW r \in Booked(e)
  PROVE  /\ r.of = e /\ r.kind = "expense" /\ r.amount = -e.amount /\ r.amount \in Int
         /\ e.method = "cash" /\ r = Entry(e, "expense", -e.amount)
BY ExpenseSlipType DEF Booked, Entry

\* The balance row of a sale.
LEMMA ChargedRows ==
  ASSUME NEW s \in SaleSlips, NEW b \in Charged(s)
  PROVE  /\ b.of = s /\ b.party = s.party /\ b.day = s.day /\ b.kind = "charge"
         /\ b.amount = s.balance /\ b.amount \in Nat \ {0}
         /\ b = Owed(s, "charge", s.balance)
BY SaleSlipType DEF Charged, Owed

\* What a sale carries.
LEMMA CargoType ==
  ASSUME NEW s \in SaleSlips
  PROVE  /\ Cargo[s].type \in Types /\ Cargo[s].qty \in Nat /\ Cargo[s].empty \in Nat
         /\ Cargo[s].excess \in Int
BY StockLogAssumption DEF Positive

\* The stock rows of a sale carry its cylinders, on its date.
LEMMA MovedRows ==
  ASSUME NEW s \in SaleSlips, NEW r \in Moved(s)
  PROVE  /\ r.of = s /\ r.item = Cargo[s].type /\ r.reason = "sale" /\ r.day = s.day
         /\ r.condition \in {"full", "empty"} /\ r.delta \in Int
         /\ r.condition = "full" => r.delta = -Cargo[s].qty
         /\ r.condition = "empty" => r.delta = Cargo[s].empty
         /\ r = Row(s, Cargo[s].type, r.condition, "sale", s.day, r.delta)
BY CargoType DEF Moved, Row

\* A slip has finitely many rows.
LEMMA SetsOfSlip ==
  ASSUME NEW s
  PROVE  /\ IsFiniteSet(Paid(s)) /\ IsFiniteSet(Booked(s)) /\ IsFiniteSet(Charged(s))
         /\ IsFiniteSet(Moved(s))
<1>1. \A x : IsFiniteSet({x})
  BY FS_Singleton
<1>2. \A x, y : IsFiniteSet({x, y})
  <2> SUFFICES ASSUME NEW x, NEW y
               PROVE  IsFiniteSet({x, y})
    OBVIOUS
  <2>1. {x, y} = {x} \cup {y}
    OBVIOUS
  <2>2. IsFiniteSet({x} \cup {y})
    BY <1>1, FS_Union
  <2> QED BY <2>1, <2>2
<1>3. IsFiniteSet({})
  BY FS_EmptySet
<1>4. IsFiniteSet(IF s.online = 0 THEN {} ELSE {Entry(s, "online", s.online)})
  BY <1>1, <1>3
<1>5. IsFiniteSet(IF Cargo[s].empty = 0 THEN {}
                  ELSE {Row(s, Cargo[s].type, "empty", "sale", s.day, Cargo[s].empty)})
  BY <1>1, <1>3
<1>6. IsFiniteSet(Paid(s))
  BY <1>2, <1>4, FS_Union DEF Paid
<1>7. IsFiniteSet(Booked(s)) /\ IsFiniteSet(Charged(s))
  BY <1>1, <1>3 DEF Booked, Charged
<1>8. IsFiniteSet(Moved(s))
  BY <1>1, <1>5, FS_Union DEF Moved
<1> QED BY <1>6, <1>7, <1>8

-----------------------------------------------------------------------------
(* LogInv is inductive.                                                    *)

\* The empty tables satisfy LogInv.
LEMMA LogInitInv == LogInit => LogInv
<1> SUFFICES ASSUME LogInit
             PROVE  LogInv
  OBVIOUS
<1>1. LogTypeOK
  BY DEF LogInit, Init, LogTypeOK, TypeOK
<1>2. Finite
  BY FS_EmptySet DEF LogInit, Init, Finite
<1>3. RowsOfSlips
  BY DEF LogInit, Init, RowsOfSlips
<1> QED BY <1>1, <1>2, <1>3 DEF LogInv

\* A sale keeps LogInv.
LEMMA SellInv ==
  ASSUME LogInv, NEW s \in SaleSlips, Sell(s)
  PROVE  LogInv'
<1> USE DEF LogInv, Sell, PostSale
<1>1. LogTypeOK'
  <2>1. cash_ledger' \subseteq
          [of : sales' \cup expenses', kind : {"cash", "upi", "online", "expense"}, amount : Int]
    <3>1. Paid(s) \subseteq [of : {s}, kind : {"cash", "upi", "online"}, amount : Int]
      BY SaleSlipType DEF Paid, Entry
    <3> QED BY <3>1 DEF LogTypeOK, TypeOK
  <2>2. balances' \subseteq
          [of : sales' \cup EntrySlips, party : Parties, day : Days,
           kind : {"charge", "repayment"}, amount : Nat \ {0}]
    <3>1. Charged(s) \subseteq [of : {s}, party : Parties, day : Days, kind : {"charge"},
                                amount : Nat \ {0}]
      BY SaleSlipType DEF Charged, Owed
    <3> QED BY <3>1 DEF LogTypeOK, TypeOK
  <2>3. stock_ledger' \subseteq
          [of : sales' \cup StockSlips, item : Types \cup Accessories,
           condition : {"full", "empty", "none"}, reason : Reasons \cup {"sale"},
           day : Days, delta : Int]
    <3>1. Moved(s) \subseteq [of : {s}, item : Types, condition : {"full", "empty"},
                              reason : {"sale"}, day : Days, delta : Int]
      BY SaleSlipType, CargoType DEF Moved, Row
    <3> QED BY <3>1 DEF LogTypeOK
  <2> QED BY <2>1, <2>2, <2>3 DEF LogTypeOK, TypeOK
<1>2. Finite'
  BY SetsOfSlip, FS_AddElement, FS_Union DEF Finite
<1>3. RowsOfSlips'
  <2>1. /\ \A x \in sales' : Paid(x) \subseteq cash_ledger'
        /\ \A e \in expenses' : Booked(e) \subseteq cash_ledger'
        /\ \A r \in cash_ledger' :
             (\E x \in sales' : r \in Paid(x)) \/ (\E e \in expenses' : r \in Booked(e))
    BY DEF RowsOfSlips
  <2>2. /\ \A x \in sales' : Charged(x) \subseteq balances'
        /\ \A b \in balances' :
             \/ \E x \in sales' : b \in Charged(x)
             \/ \E c \in EntrySlips : b = Owed(c, c.kind, c.amount)
    BY DEF RowsOfSlips
  <2>3. /\ \A x \in sales' : Moved(x) \subseteq stock_ledger'
        /\ \A r \in stock_ledger' :
             (\E x \in sales' : r \in Moved(x)) \/ (\E m \in StockSlips : r = Recorded(m))
    BY DEF RowsOfSlips
  <2> QED BY <2>1, <2>2, <2>3 DEF RowsOfSlips
<1> QED BY <1>1, <1>2, <1>3

\* An expense, a transfer, a balance entry or a change of user keeps LogInv.
LEMMA PostMoneyInv ==
  ASSUME LogInv, PostMoney, UNCHANGED stock
  PROVE  LogInv'
<1> USE DEF LogInv, stock
<1>1. ASSUME NEW e \in ExpenseSlips, CreateExpense(e)
      PROVE  LogInv'
  <2> USE <1>1 DEF CreateExpense
  <2>1. LogTypeOK'
    <3>1. Booked(e) \subseteq [of : {e}, kind : {"expense"}, amount : Int]
      BY ExpenseSlipType DEF Booked, Entry
    <3>2. cash_ledger' \subseteq
            [of : sales' \cup expenses', kind : {"cash", "upi", "online", "expense"},
             amount : Int]
      BY <3>1 DEF LogTypeOK, TypeOK
    <3> QED BY <3>2 DEF LogTypeOK, TypeOK
  <2>2. Finite'
    BY SetsOfSlip, FS_AddElement, FS_Union DEF Finite
  <2>3. RowsOfSlips'
    BY DEF RowsOfSlips
  <2> QED BY <2>1, <2>2, <2>3
<1>2. ASSUME NEW e \in ExpenseSlips, RefuseExpense(e)
      PROVE  LogInv'
  BY <1>2 DEF RefuseExpense, Undone, LogTypeOK, TypeOK, Finite, RowsOfSlips
<1>3. ASSUME NEW t \in TransferSlips, CreateTransfer(t)
      PROVE  LogInv'
  <2>1. Finite'
    BY <1>3, FS_AddElement DEF CreateTransfer, Finite
  <2> QED BY <1>3, <2>1 DEF CreateTransfer, LogTypeOK, TypeOK, RowsOfSlips
<1>4. ASSUME UNCHANGED books
      PROVE  LogInv'
  BY <1>4 DEF books, LogTypeOK, TypeOK, Finite, RowsOfSlips
<1>5. ASSUME NEW c \in EntrySlips, CreateEntry(c)
      PROVE  LogInv'
  <2> USE <1>5 DEF CreateEntry
  <2>1. LogTypeOK'
    <3>1. Owed(c, c.kind, c.amount) \in
            [of : EntrySlips, party : Parties, day : Days, kind : {"charge", "repayment"},
             amount : Nat \ {0}]
      BY EntrySlipType DEF Owed
    <3>2. balances' \subseteq
            [of : sales' \cup EntrySlips, party : Parties, day : Days,
             kind : {"charge", "repayment"}, amount : Nat \ {0}]
      BY <3>1 DEF LogTypeOK, TypeOK
    <3> QED BY <3>2 DEF LogTypeOK, TypeOK
  <2>2. Finite'
    BY FS_AddElement DEF Finite
  <2>3. RowsOfSlips'
    BY DEF RowsOfSlips
  <2> QED BY <2>1, <2>2, <2>3
<1>6. ASSUME NEW p \in Parties, SetActive(p)
      PROVE  LogInv'
  BY <1>6 DEF SetActive, LogTypeOK, TypeOK, Finite, RowsOfSlips
<1> QED
  BY <1>1, <1>2, <1>3, <1>4, <1>5, <1>6 DEF PostMoney, RefuseTransfer, RefuseEntry

\* The row of a movement: which items and conditions each reason can have.
LEMMA RecordedRow ==
  ASSUME NEW m \in StockSlips
  PROVE  /\ Recorded(m) \in
              [of : StockSlips, item : Types \cup Accessories,
               condition : {"full", "empty", "none"}, reason : Reasons, day : Days, delta : Int]
         /\ Recorded(m).reason # "sale"
         /\ Recorded(m).reason = "erv" =>
              Recorded(m).item \in Types /\ Recorded(m).condition = "empty"
         /\ Recorded(m).reason \in {"intake", "adjust"} =>
              Recorded(m).item \in Types /\ Recorded(m).condition = "full"
         /\ Recorded(m).item \in Types => Recorded(m).condition \in {"full", "empty"}
         /\ Recorded(m).item \in Types /\ Recorded(m).reason = "ac4" =>
              Recorded(m).condition = "full"
         /\ Recorded(m).item \in Accessories =>
              /\ Recorded(m).reason \in {"ac4", "return"}
              /\ Recorded(m).condition = "none"
<1> DEFINE delta == IF m.reason \in {"erv", "return"} THEN -m.qty ELSE m.qty
<1>1. /\ m.item \in Types \cup Accessories /\ m.condition \in {"full", "empty", "none"}
      /\ m.reason \in Reasons /\ m.day \in Days /\ m.qty \in Int
      /\ m.reason = "erv" => m.item \in Types /\ m.condition = "empty"
      /\ m.reason \in {"intake", "adjust"} => m.item \in Types /\ m.condition = "full"
      /\ m.item \in Types => m.condition \in {"full", "empty"}
      /\ m.item \in Types /\ m.reason = "ac4" => m.condition = "full"
      /\ m.item \in Accessories => m.reason \in {"ac4", "return"} /\ m.condition = "none"
  BY StockLogAssumption DEF Movement, Reasons, Positive
<1>2. delta \in Int
  BY <1>1
<1>3. Recorded(m) = [of |-> m, item |-> m.item, condition |-> m.condition, reason |-> m.reason,
                     day |-> m.day, delta |-> delta]
  BY DEF Recorded, Row
<1> HIDE DEF delta
<1> QED BY <1>1, <1>2, <1>3 DEF Reasons

\* A stock movement keeps LogInv.
LEMMA RecordInv ==
  ASSUME LogInv, NEW m \in StockSlips, Record(m)
  PROVE  LogInv'
<1> USE DEF LogInv, Record
<1>1. LogTypeOK'
  <2>1. stock_ledger' \subseteq
          [of : sales' \cup StockSlips, item : Types \cup Accessories,
           condition : {"full", "empty", "none"}, reason : Reasons \cup {"sale"},
           day : Days, delta : Int]
    BY RecordedRow DEF LogTypeOK, books
  <2> QED BY <2>1 DEF LogTypeOK, TypeOK, books
<1>2. Finite'
  BY FS_AddElement DEF Finite, books
<1>3. RowsOfSlips'
  BY DEF RowsOfSlips, books
<1> QED BY <1>1, <1>2, <1>3

\* The upsert of a load keeps LogInv: there is still one row per date, boy and type.
LEMMA LoadInv ==
  ASSUME LogInv, NEW l \in LoadSlips, UpsertLoad(l)
  PROVE  LogInv'
<1> USE DEF LogInv, UpsertLoad
<1>1. LogTypeOK'
  <2>1. \A x, y \in loads' : SameLoad(x, y) => x = y
    BY DEF LogTypeOK, Others, SameLoad
  <2>2. loads' \subseteq LoadSlips
    BY DEF LogTypeOK, Others
  <2> QED BY <2>1, <2>2 DEF LogTypeOK, TypeOK, books
<1>2. Finite'
  <2>1. IsFiniteSet(Others(l))
    BY FS_Subset DEF Finite, Others
  <2>2. IsFiniteSet(loads')
    BY <2>1, FS_AddElement
  <2> QED BY <2>2 DEF Finite, books
<1>3. RowsOfSlips'
  BY DEF RowsOfSlips, books
<1> QED BY <1>1, <1>2, <1>3

\* LogInv is inductive.
LEMMA LogNextInv ==
  ASSUME LogInv, [LogPost]_log
  PROVE  LogInv'
<1>1. ASSUME UNCHANGED log
      PROVE  LogInv'
  BY <1>1 DEF log, books, stock, LogInv, LogTypeOK, TypeOK, Finite, RowsOfSlips
<1>2. CASE LogPost
  BY <1>1, <1>2, SellInv, PostMoneyInv, RecordInv, LoadInv DEF LogPost, RefuseLoad
<1> QED BY <1>1, <1>2

\* The tables have their types, one row per load, whatever is posted.
THEOREM LogTypeCorrect == LogSpec => []LogTypeOK
<1>1. LogInit => LogInv
  BY LogInitInv
<1>2. LogInv /\ [LogPost]_log => LogInv'
  BY LogNextInv
<1>3. LogInv => LogTypeOK
  BY DEF LogInv
<1> QED BY <1>1, <1>2, <1>3, PTL DEF LogSpec

-----------------------------------------------------------------------------
(* The rows of one sale, and of some sales.                                *)

\* A finite set of integers has a greatest and a least element.
LEMMA MaxMinExist ==
  ASSUME NEW S, IsFiniteSet(S), S \subseteq Int, S # {}
  PROVE  (\E x \in S : \A y \in S : x >= y) /\ (\E x \in S : \A y \in S : x <= y)
<1> DEFINE Bounded(T) == (\E x \in T : \A y \in T : x >= y) /\ (\E x \in T : \A y \in T : x <= y)
           G == {T \in SUBSET S : T = {} \/ Bounded(T)}
<1>1. {} \in G
  OBVIOUS
<1>2. ASSUME NEW T \in SUBSET S, T # {}, \A x \in T : T \ {x} \in G
      PROVE  T \in G
  <2>1. PICK x \in T : TRUE
    BY <1>2
  <2>2. CASE T \ {x} = {}
    BY <2>1, <2>2
  <2>3. CASE Bounded(T \ {x})
    <3>1. PICK a \in T \ {x} : \A y \in T \ {x} : a >= y
      BY <2>3
    <3>2. PICK b \in T \ {x} : \A y \in T \ {x} : b <= y
      BY <2>3
    <3>3. x \in Int /\ a \in Int /\ b \in Int /\ T \subseteq Int
      OBVIOUS
    <3>4. \E z \in T : \A y \in T : z >= y
      <4>1. CASE x >= a
        BY <3>1, <3>3, <4>1
      <4>2. CASE ~(x >= a)
        BY <3>1, <3>3, <4>2
      <4> QED BY <4>1, <4>2
    <3>5. \E z \in T : \A y \in T : z <= y
      <4>1. CASE x <= b
        BY <3>2, <3>3, <4>1
      <4>2. CASE ~(x <= b)
        BY <3>2, <3>3, <4>2
      <4> QED BY <4>1, <4>2
    <3> QED BY <3>4, <3>5
  <2> QED BY <1>2, <2>2, <2>3
<1>3. G \in SUBSET (SUBSET S)
  OBVIOUS
<1> HIDE DEF G
<1>4. S \in G
  BY <1>1, <1>2, <1>3, FiniteInduction
<1> QED BY <1>4 DEF G

\* The last and the first day of the calendar are days of it.
LEMMA DaysBounds ==
  /\ LastDay \in Days /\ \A d \in Days : d \in Int /\ d <= LastDay
  /\ Min(Days) \in Days /\ \A d \in Days : Min(Days) <= d
<1>1. (\E x \in Days : \A y \in Days : x >= y) /\ (\E x \in Days : \A y \in Days : x <= y)
  BY BooksAssumption, MaxMinExist
<1>2. LastDay \in Days /\ \A d \in Days : LastDay >= d
  BY <1>1 DEF LastDay, Max
<1>3. Min(Days) \in Days /\ \A d \in Days : Min(Days) <= d
  BY <1>1 DEF Min
<1> QED BY <1>2, <1>3, BooksAssumption

\* Every table is finite and has integer amounts.
LEMMA TableTypes ==
  ASSUME LogInv
  PROVE  /\ Amounts(cash_ledger) /\ Amounts(expenses) /\ Amounts(transfers)
         /\ Amounts(balances) /\ Deltas(stock_ledger)
<1>1. Amounts(cash_ledger) /\ Amounts(balances) /\ Deltas(stock_ledger)
  BY DEF LogInv, LogTypeOK, TypeOK, Finite, Amounts, Deltas
<1>2. Amounts(expenses) /\ Amounts(transfers)
  BY ExpenseSlipType, TransferSlipType DEF LogInv, LogTypeOK, TypeOK, Finite, Amounts
<1> QED BY <1>1, <1>2

\* A ledger row of a kind a sale books is a row of that sale; one of an expense
\* is the expense's.
LEMMA LedgerRow ==
  ASSUME LogInv, NEW r \in cash_ledger
  PROVE  \/ r.of \in sales /\ r \in Paid(r.of) /\ r.kind \in {"cash", "upi", "online"}
         \/ r.of \in expenses /\ r \in Booked(r.of) /\ r.kind = "expense"
<1>1. CASE \E s \in sales : r \in Paid(s)
  BY <1>1, PaidRows DEF LogInv, LogTypeOK, TypeOK
<1>2. CASE \E e \in expenses : r \in Booked(e)
  BY <1>2, BookedRows DEF LogInv, LogTypeOK, TypeOK
<1> QED BY <1>1, <1>2 DEF LogInv, RowsOfSlips

\* A balance row is that of a sale or that of a manual entry.
LEMMA BalanceRow ==
  ASSUME LogInv, NEW b \in balances
  PROVE  \/ /\ b.of \in sales /\ b.of \notin EntrySlips /\ b \in Charged(b.of)
            /\ b.kind = "charge" /\ b.party = b.of.party
         \/ /\ b.of \in EntrySlips /\ b.of \notin sales
            /\ b = Owed(b.of, b.of.kind, b.of.amount)
<1>1. CASE \E s \in sales : b \in Charged(s)
  BY <1>1, ChargedRows, EntryIsNoSale DEF LogInv, LogTypeOK, TypeOK
<1>2. CASE \E c \in EntrySlips : b = Owed(c, c.kind, c.amount)
  BY <1>2, EntryIsNoSale DEF LogInv, LogTypeOK, TypeOK, Owed
<1> QED BY <1>1, <1>2 DEF LogInv, RowsOfSlips

RowsOfSale(s, kinds) == {r \in SaleRows(kinds) : r.of = s}

\* A posted sale has all its ledger rows, and no other row names it.
LEMMA RowsOfSaleArePaid ==
  ASSUME LogInv, NEW s \in sales, NEW kinds \in SUBSET {"cash", "upi", "online"}
  PROVE  RowsOfSale(s, kinds) = {r \in Paid(s) : r.kind \in kinds}
<1>1. s \in SaleSlips
  BY DEF LogInv, LogTypeOK, TypeOK
<1>2. ASSUME NEW r \in RowsOfSale(s, kinds)
      PROVE  r \in Paid(s) /\ r.kind \in kinds
  BY LedgerRow DEF RowsOfSale, SaleRows
<1>3. ASSUME NEW r \in Paid(s), r.kind \in kinds
      PROVE  r \in RowsOfSale(s, kinds)
  BY <1>1, <1>3, PaidRows DEF RowsOfSale, SaleRows, LogInv, RowsOfSlips
<1> QED BY <1>2, <1>3

\* The ledger rows of a posted sale sum to its amounts.
LEMMA SaleAmounts ==
  ASSUME LogInv, NEW s \in sales
  PROVE  /\ Total(RowsOfSale(s, {"cash"})) = s.cash
         /\ Total(RowsOfSale(s, {"cash", "upi"})) = s.cash + s.upi
         /\ Total(RowsOfSale(s, {"cash", "upi", "online"})) = s.cash + s.upi + s.online
<1> DEFINE R(kinds) == RowsOfSale(s, kinds)
<1>1. s \in SaleSlips /\ s.cash \in Nat /\ s.upi \in Nat /\ s.online \in Nat
  BY SaleSlipType DEF LogInv, LogTypeOK, TypeOK
<1>2. Amounts(R({"cash", "upi", "online"}))
  <2>1. R({"cash", "upi", "online"}) \subseteq cash_ledger
    BY DEF RowsOfSale, SaleRows
  <2> QED BY <2>1, TableTypes, AmountsSubset
<1>3. /\ R({"cash"}) = {Entry(s, "cash", s.cash)}
      /\ R({"upi"}) = {Entry(s, "upi", s.upi)}
      /\ R({"online"}) = IF s.online = 0 THEN {} ELSE {Entry(s, "online", s.online)}
  BY RowsOfSaleArePaid DEF Paid, Entry
<1>4. /\ R({"cash", "upi"}) = R({"cash"}) \cup R({"upi"})
      /\ R({"cash", "upi", "online"}) = R({"cash", "upi"}) \cup R({"online"})
      /\ R({"cash"}) \cap R({"upi"}) = {} /\ R({"cash", "upi"}) \cap R({"online"}) = {}
  BY DEF RowsOfSale, SaleRows
<1>5. Total(R({"cash"})) = s.cash /\ Total(R({"upi"})) = s.upi
  <2>1. Entry(s, "cash", s.cash).amount = s.cash /\ Entry(s, "upi", s.upi).amount = s.upi
    BY DEF Entry
  <2> QED BY <1>1, <1>3, <2>1, TotalSingle
<1>6. Total(R({"online"})) = s.online
  <2>1. Entry(s, "online", s.online).amount = s.online
    BY DEF Entry
  <2>2. CASE s.online = 0
    BY <1>3, <2>2, TotalEmpty
  <2>3. CASE s.online # 0
    BY <1>1, <1>3, <2>1, <2>3, TotalSingle
  <2> QED BY <2>2, <2>3
<1> HIDE DEF R
<1>7. Amounts(R({"cash", "upi"}))
  BY <1>2, <1>4, AmountsSubset
<1>8. Total(R({"cash", "upi"})) = s.cash + s.upi
  BY <1>4, <1>5, <1>7, TotalUnion
<1>9. Total(R({"cash", "upi", "online"})) = s.cash + s.upi + s.online
  BY <1>2, <1>4, <1>6, <1>8, TotalUnion
<1> QED BY <1>5, <1>8, <1>9 DEF R

\* The ledger rows of some sales, summed sale by sale.
LEMMA SaleRowsBySale ==
  ASSUME LogInv, NEW kinds, NEW some \in SUBSET sales,
         NEW h, DOMAIN h = some, \A s \in some : h[s] = Total(RowsOfSale(s, kinds))
  PROVE  Total({r \in SaleRows(kinds) : r.of \in some}) = SumFunction(h)
<1> DEFINE rows == {r \in SaleRows(kinds) : r.of \in some}
           key == [r \in rows |-> r.of]
<1>1. Amounts(rows)
  <2>1. rows \subseteq cash_ledger
    BY DEF SaleRows
  <2> QED BY <2>1, TableTypes, AmountsSubset
<1>2. IsFiniteSet(some)
  BY FS_Subset DEF LogInv, Finite
<1>3. \A r \in rows : key[r] \in some
  OBVIOUS
<1>4. ASSUME NEW s \in some
      PROVE  h[s] = Total({r \in rows : key[r] = s})
  <2>1. {r \in rows : key[r] = s} = RowsOfSale(s, kinds)
    BY DEF RowsOfSale
  <2> QED BY <2>1
<1> HIDE DEF rows, key
<1>5. Total(rows) = SumFunction(h)
  BY <1>1, <1>2, <1>3, <1>4, TotalFibres
<1> QED BY <1>5 DEF rows

\* The expense rows of the ledger sum to the cash expenses.
LEMMA CashRowsOfExpenses ==
  ASSUME LogInv
  PROVE  Total({r \in cash_ledger : r.kind = "expense"})
           = -Total({e \in expenses : e.method = "cash"})
<1> DEFINE rows == {r \in cash_ledger : r.kind = "expense"}
           some == {e \in expenses : e.method = "cash"}
           key == [r \in rows |-> r.of]
           h == [e \in some |-> -e.amount]
           f == [e \in some |-> e.amount]
<1>1. Amounts(rows)
  BY TableTypes, AmountsSubset
<1>2. IsFiniteSet(some) /\ \A e \in some : e \in ExpenseSlips /\ e.amount \in Nat
  BY FS_Subset, ExpenseSlipType DEF LogInv, Finite, LogTypeOK, TypeOK
<1>3. \A r \in rows : key[r] \in some
  <2> SUFFICES ASSUME NEW r \in rows
               PROVE  r.of \in some
    OBVIOUS
  <2>1. r.of \in expenses /\ r \in Booked(r.of)
    BY LedgerRow
  <2>2. r.of \in ExpenseSlips
    BY <2>1 DEF LogInv, LogTypeOK, TypeOK
  <2> QED BY <2>1, <2>2, BookedRows
<1>4. ASSUME NEW e \in some
      PROVE  h[e] = Total({r \in rows : key[r] = e})
  <2>1. Entry(e, "expense", -e.amount) \in rows
    BY <1>2 DEF Booked, LogInv, RowsOfSlips, Entry
  <2>2. ASSUME NEW r \in rows, r.of = e
        PROVE  r = Entry(e, "expense", -e.amount)
    BY <1>2, <2>2, LedgerRow, BookedRows
  <2>3. {r \in rows : key[r] = e} = {Entry(e, "expense", -e.amount)}
    BY <2>1, <2>2 DEF Entry
  <2>4. Entry(e, "expense", -e.amount).amount = -e.amount /\ -e.amount \in Int
    BY <1>2 DEF Entry
  <2>5. Total({Entry(e, "expense", -e.amount)}) = -e.amount
    BY <2>4, TotalSingle
  <2> QED BY <2>3, <2>5
<1>5. DOMAIN h = some /\ DOMAIN f = some /\ \A e \in some : f[e] \in Int /\ h[e] = -f[e]
  BY <1>2
<1>6. Total(some) = SumFunction(f)
  BY DEF Total
<1> HIDE DEF rows, some, key, h, f
<1>7. Total(rows) = SumFunction(h)
  BY <1>1, <1>2, <1>3, <1>4, <1>5, TotalFibres
<1>8. SumFunction(h) = -SumFunction(f)
  BY <1>2, <1>5, FnNegated
<1> QED BY <1>6, <1>7, <1>8 DEF rows, some

-----------------------------------------------------------------------------
(* BoxAgrees and MoneyIsConserved.                                         *)

\* The first half of BoxAgrees.
LEMMA HandCashFromLedger == LogInv => CashLedgerIsHandCash
<1> SUFFICES ASSUME LogInv
             PROVE  CashLedgerIsHandCash
  OBVIOUS
<1> DEFINE cash == {r \in cash_ledger : r.kind = "cash"}
           spent == {r \in cash_ledger : r.kind = "expense"}
           both == {r \in cash_ledger : r.kind \in {"cash", "expense"}}
<1>1. CashCollected(LastDay) = Total(cash)
  <2>1. {r \in SaleRows({"cash"}) : r.of.day <= LastDay} = cash
    BY LedgerRow, SaleSlipType, DaysBounds DEF SaleRows, LogInv, LogTypeOK, TypeOK
  <2> QED BY <2>1 DEF CashCollected
<1>2. CashSpent(LastDay) = Total({e \in expenses : e.method = "cash"})
  <2>1. {e \in expenses : e.method = "cash" /\ e.day <= LastDay}
          = {e \in expenses : e.method = "cash"}
    BY ExpenseSlipType, DaysBounds DEF LogInv, LogTypeOK, TypeOK
  <2> QED BY <2>1 DEF CashSpent
<1>3. Amounts(both) /\ Amounts(cash) /\ Amounts({e \in expenses : e.method = "cash"})
  BY TableTypes, AmountsSubset
<1>4. Total(both) = Total(cash) + Total(spent)
  <2>1. both = cash \cup spent /\ cash \cap spent = {}
    OBVIOUS
  <2> QED BY <1>3, <2>1, TotalUnion
<1>5. Total(spent) = -Total({e \in expenses : e.method = "cash"})
  BY CashRowsOfExpenses
<1>6. Deposited(LastDay) \in Int
  BY TableTypes, AmountsSubset, TotalType DEF Deposited
<1>7. Total(cash) \in Int
  BY <1>3, TotalType
<1>8. Total({e \in expenses : e.method = "cash"}) \in Int
  BY <1>3, TotalType
<1>9. Total(both) = CashCollected(LastDay) - CashSpent(LastDay)
  BY <1>1, <1>2, <1>4, <1>5, <1>7, <1>8
<1> QED BY <1>1, <1>2, <1>6, <1>7, <1>8, <1>9 DEF CashLedgerIsHandCash, HandCash

\* A sale's share of its day's row of the month sheet.
LEMMA MonthTotalOfSale ==
  ASSUME LogInv, NEW s \in sales
  PROVE  MonthTotal(s) = s.cash + s.upi
BY SaleAmounts DEF MonthTotal, RowsOfSale

\* What was collected from the sales of some days, from the ledger and sale by
\* sale.
LEMMA CollectedBySale ==
  ASSUME LogInv, NEW days
  PROVE  Total({r \in SaleRows({"cash", "upi"}) : r.of.day \in days})
           = SumFunction([s \in {x \in sales : x.day \in days} |-> MonthTotal(s)])
<1> DEFINE some == {x \in sales : x.day \in days}
           h == [s \in some |-> MonthTotal(s)]
<1>1. \A s \in some : h[s] = Total(RowsOfSale(s, {"cash", "upi"}))
  BY MonthTotalOfSale, SaleAmounts
<1>2. {r \in SaleRows({"cash", "upi"}) : r.of.day \in days}
        = {r \in SaleRows({"cash", "upi"}) : r.of \in some}
  BY DEF SaleRows
<1>3. DOMAIN h = some /\ some \in SUBSET sales
  OBVIOUS
<1> HIDE DEF h, some
<1>4. Total({r \in SaleRows({"cash", "upi"}) : r.of \in some}) = SumFunction(h)
  BY <1>1, <1>3, SaleRowsBySale
<1> QED BY <1>2, <1>4 DEF h, some

\* Dated rows sum day by day.
LEMMA RowsByDay ==
  ASSUME NEW rows, Amounts(rows), NEW days, IsFiniteSet(days), \A r \in rows : r.day \in days,
         NEW h, DOMAIN h = days, \A d \in days : h[d] = Total({r \in rows : r.day = d})
  PROVE  Total(rows) = SumFunction(h)
<1> DEFINE key == [r \in rows |-> r.day]
<1>1. \A r \in rows : key[r] = r.day
  OBVIOUS
<1>2. ASSUME NEW d \in days
      PROVE  h[d] = Total({r \in rows : key[r] = d})
  <2>1. {r \in rows : key[r] = d} = {r \in rows : r.day = d}
    OBVIOUS
  <2> QED BY <2>1
<1> HIDE DEF key
<1> QED BY <1>1, <1>2, TotalFibres

\* The sum, over some days, of the month sheet's net is what was collected less
\* what was spent on them.
LEMMA MonthNets ==
  ASSUME LogInv, NEW days, IsFiniteSet(days)
  PROVE  SumFunction([d \in days |-> MonthNet(d)])
           = Total({r \in SaleRows({"cash", "upi"}) : r.of.day \in days})
               - Total({e \in expenses : e.day \in days})
<1> DEFINE net == [d \in days |-> MonthNet(d)]
           ins == [d \in days |-> SumFunction([s \in {x \in sales : x.day = d} |-> MonthTotal(s)])]
           outs == [d \in days |-> Total({e \in expenses : e.day = d})]
           some == {x \in sales : x.day \in days}
           f == [s \in some |-> MonthTotal(s)]
           key == [s \in some |-> s.day]
           spent == {e \in expenses : e.day \in days}
<1>1. \A s \in sales : MonthTotal(s) \in Int
  BY MonthTotalOfSale, SaleSlipType DEF LogInv, LogTypeOK, TypeOK
<1>2. IsFiniteSet(some) /\ \A d : IsFiniteSet({x \in sales : x.day = d})
  BY FS_Subset DEF LogInv, Finite
<1>3. \A d \in days : ins[d] \in Int
  <2> SUFFICES ASSUME NEW d \in days
               PROVE  ins[d] \in Int
    OBVIOUS
  <2> DEFINE g == [s \in {x \in sales : x.day = d} |-> MonthTotal(s)]
  <2>1. IsFiniteSet(DOMAIN g) /\ \A x \in DOMAIN g : g[x] \in Int
    BY <1>1, <1>2
  <2>2. ins[d] = SumFunction(g)
    OBVIOUS
  <2> HIDE DEF g
  <2>3. SumFunction(g) \in Int
    BY <2>1, FnType
  <2> QED BY <2>2, <2>3
<1>4. \A d \in days : outs[d] \in Int
  BY TableTypes, AmountsSubset, TotalType
<1>5. SumFunction(f) = SumFunction(ins)
  <2>1. \A s \in some : f[s] \in Int /\ key[s] \in days
    BY <1>1
  <2>2. ASSUME NEW d \in days
        PROVE  ins[d] = SumFunction([x \in {y \in DOMAIN f : key[y] = d} |-> f[x]])
    <3>1. {x \in sales : x.day = d} = {y \in DOMAIN f : key[y] = d}
      OBVIOUS
    <3>2. [s \in {x \in sales : x.day = d} |-> MonthTotal(s)]
            = [x \in {y \in DOMAIN f : key[y] = d} |-> f[x]]
      BY <3>1
    <3> QED BY <3>2
  <2>3. DOMAIN f = some /\ DOMAIN ins = days
    OBVIOUS
  <2> HIDE DEF f, ins, key, some
  <2> QED BY <1>2, <2>1, <2>2, <2>3, FnFibres
<1>6. Total(spent) = SumFunction(outs)
  <2>1. Amounts(spent)
    BY TableTypes, AmountsSubset
  <2>2. ASSUME NEW d \in days
        PROVE  outs[d] = Total({r \in spent : r.day = d})
    <3>1. {r \in spent : r.day = d} = {e \in expenses : e.day = d}
      OBVIOUS
    <3> QED BY <3>1
  <2>3. DOMAIN outs = days /\ \A r \in spent : r.day \in days
    OBVIOUS
  <2> HIDE DEF spent, outs
  <2> QED BY <2>1, <2>2, <2>3, RowsByDay
<1>7. SumFunction(net) = SumFunction(ins) - SumFunction(outs)
  <2>1. \A d \in days : net[d] = ins[d] - outs[d]
    BY DEF MonthNet
  <2>2. DOMAIN net = days /\ DOMAIN ins = days /\ DOMAIN outs = days
    OBVIOUS
  <2> HIDE DEF net, ins, outs
  <2> QED BY <1>3, <1>4, <2>1, <2>2, FnMinus
<1>8. Total({r \in SaleRows({"cash", "upi"}) : r.of.day \in days}) = SumFunction(f)
  BY CollectedBySale
<1> QED BY <1>5, <1>6, <1>7, <1>8

\* The second half of BoxAgrees.
LEMMA MonthFromLedger == LogInv => MonthAgreesWithBox
<1> SUFFICES ASSUME LogInv, NEW d \in Days
             PROVE  SumFunction([x \in {y \in Days : y <= d} |-> MonthNet(x)])
                      = Closing(d) + Deposited(d)
  BY DEF MonthAgreesWithBox
<1> DEFINE days == {y \in Days : y <= d}
<1>1. IsFiniteSet(days)
  BY BooksAssumption, FS_Subset
<1>2. {r \in SaleRows({"cash", "upi"}) : r.of.day \in days}
        = {r \in SaleRows({"cash", "upi"}) : r.of.day <= d}
  BY SaleSlipType DEF SaleRows, LogInv, LogTypeOK, TypeOK
<1>3. {e \in expenses : e.day \in days} = {e \in expenses : e.day <= d}
  BY ExpenseSlipType DEF LogInv, LogTypeOK, TypeOK
<1>4. Amounts({r \in SaleRows({"cash", "upi"}) : r.of.day <= d})
  BY TableTypes, AmountsSubset DEF SaleRows
<1>5. Collected(d) \in Int
  BY <1>4, TotalType DEF Collected
<1>6. Spent(d) \in Int
  BY TableTypes, AmountsSubset, TotalType DEF Spent
<1>7. Deposited(d) \in Int
  BY TableTypes, AmountsSubset, TotalType DEF Deposited
<1>8. SumFunction([x \in days |-> MonthNet(x)]) = Collected(d) - Spent(d)
  <2> HIDE DEF days
  <2>1. SumFunction([x \in days |-> MonthNet(x)])
          = Total({r \in SaleRows({"cash", "upi"}) : r.of.day \in days})
              - Total({e \in expenses : e.day \in days})
    BY <1>1, MonthNets
  <2> QED BY <1>2, <1>3, <2>1 DEF Collected, Spent
<1> QED BY <1>5, <1>6, <1>7, <1>8 DEF Closing

\* The cash ledger, the box and the month sheet agree in every reachable state
\* (the sums of cashier_box.py and reports.py).
THEOREM BoxAlwaysAgrees == LogSpec => []BoxAgrees
<1>1. LogInit => LogInv
  BY LogInitInv
<1>2. LogInv /\ [LogPost]_log => LogInv'
  BY LogNextInv
<1>3. LogInv => BoxAgrees
  BY HandCashFromLedger, MonthFromLedger DEF BoxAgrees
<1> QED BY <1>1, <1>2, <1>3, PTL DEF LogSpec

\* Transfers by where they come from and by where they go to.
LEMMA TransfersByEnd ==
  ASSUME LogInv
  PROVE  /\ Total(transfers) =
              SumFunction([a \in Accounts |-> Total({t \in transfers : t.to = a})])
                + Total({t \in transfers : t.to = Outside})
         /\ Total(transfers) =
              SumFunction([a \in Accounts |-> Total({t \in transfers : t.from = a})])
                + Total({t \in transfers : t.from = Box})
<1>0. /\ Amounts(transfers) /\ IsFiniteSet(Accounts)
      /\ \A t \in transfers : t.from \in Accounts \cup {Box} /\ t.to \in Accounts \cup {Outside}
  BY TableTypes, BooksAssumption, TransferSlipType DEF LogInv, LogTypeOK, TypeOK
<1>1. ASSUME NEW rows \in SUBSET transfers, NEW key, \A t \in rows : key[t] \in Accounts
      PROVE  Total(rows) = SumFunction([a \in Accounts |-> Total({t \in rows : key[t] = a})])
  <2> DEFINE h == [a \in Accounts |-> Total({t \in rows : key[t] = a})]
  <2>1. DOMAIN h = Accounts /\ \A a \in Accounts : h[a] = Total({t \in rows : key[t] = a})
    OBVIOUS
  <2>2. Amounts(rows)
    BY <1>0, AmountsSubset
  <2> HIDE DEF h
  <2>3. Total(rows) = SumFunction(h)
    BY <1>0, <1>1, <2>1, <2>2, TotalFibres
  <2> QED BY <2>3 DEF h
<1>2. Total(transfers) =
        SumFunction([a \in Accounts |-> Total({t \in transfers : t.to = a})])
          + Total({t \in transfers : t.to = Outside})
  <2> DEFINE rows == {t \in transfers : t.to # Outside}
             key == [t \in transfers |-> t.to]
             rest == {t \in transfers : t.to = Outside}
  <2>1. \A t \in rows : key[t] \in Accounts
    BY <1>0
  <2>2. [a \in Accounts |-> Total({t \in rows : key[t] = a})]
          = [a \in Accounts |-> Total({t \in transfers : t.to = a})]
    <3>1. \A a \in Accounts : {t \in rows : key[t] = a} = {t \in transfers : t.to = a}
      BY BooksAssumption
    <3> QED BY <3>1
  <2>3. transfers = rows \cup rest /\ rows \cap rest = {} /\ rows \in SUBSET transfers
    OBVIOUS
  <2> HIDE DEF rows, key, rest
  <2>4. Total(transfers) = Total(rows) + Total(rest)
    BY <1>0, <2>3, TotalUnion
  <2>5. Total(rows) = SumFunction([a \in Accounts |-> Total({t \in rows : key[t] = a})])
    BY <1>1, <2>1, <2>3
  <2> QED BY <2>2, <2>4, <2>5 DEF rest
<1>3. Total(transfers) =
        SumFunction([a \in Accounts |-> Total({t \in transfers : t.from = a})])
          + Total({t \in transfers : t.from = Box})
  <2> DEFINE rows == {t \in transfers : t.from # Box}
             key == [t \in transfers |-> t.from]
             rest == {t \in transfers : t.from = Box}
  <2>1. \A t \in rows : key[t] \in Accounts
    BY <1>0
  <2>2. [a \in Accounts |-> Total({t \in rows : key[t] = a})]
          = [a \in Accounts |-> Total({t \in transfers : t.from = a})]
    <3>1. \A a \in Accounts : {t \in rows : key[t] = a} = {t \in transfers : t.from = a}
      BY BooksAssumption
    <3> QED BY <3>1
  <2>3. transfers = rows \cup rest /\ rows \cap rest = {} /\ rows \in SUBSET transfers
    OBVIOUS
  <2> HIDE DEF rows, key, rest
  <2>4. Total(transfers) = Total(rows) + Total(rest)
    BY <1>0, <2>3, TotalUnion
  <2>5. Total(rows) = SumFunction([a \in Accounts |-> Total({t \in rows : key[t] = a})])
    BY <1>1, <2>1, <2>3
  <2> QED BY <2>2, <2>4, <2>5 DEF rest
<1> QED BY <1>2, <1>3

\* MoneyIsConserved, from the two readings of the transfers.
LEMMA TransfersConserve == LogInv => MoneyIsConserved
<1> SUFFICES ASSUME LogInv
             PROVE  MoneyIsConserved
  OBVIOUS
<1> DEFINE in == [a \in Accounts |-> Total({t \in transfers : t.to = a})]
           out == [a \in Accounts |-> Total({t \in transfers : t.from = a})]
           net == [a \in Accounts |-> AccountBalance(a)]
           outside == Total({t \in transfers : t.to = Outside})
<1>1. \A a \in Accounts : in[a] \in Int /\ out[a] \in Int /\ net[a] = in[a] - out[a]
  BY TableTypes, AmountsSubset, TotalType DEF AccountBalance
<1>2. Deposited(LastDay) = Total({t \in transfers : t.from = Box})
  <2>1. {t \in transfers : t.from = Box /\ t.day <= LastDay} = {t \in transfers : t.from = Box}
    BY TransferSlipType, DaysBounds DEF LogInv, LogTypeOK, TypeOK
  <2> QED BY <2>1 DEF Deposited
<1>3. DOMAIN in = Accounts /\ DOMAIN out = Accounts /\ DOMAIN net = Accounts
  OBVIOUS
<1>4. IsFiniteSet(Accounts)
  BY BooksAssumption
<1>5. SumFunction(in) + outside = SumFunction(out) + Deposited(LastDay)
  BY <1>2, TransfersByEnd
<1>6. outside \in Int
  BY TableTypes, AmountsSubset, TotalType
<1>7. Deposited(LastDay) \in Int
  BY TableTypes, AmountsSubset, TotalType DEF Deposited
<1>8. Collected(LastDay) \in Int
  <2>1. {r \in SaleRows({"cash", "upi"}) : r.of.day <= LastDay} \subseteq cash_ledger
    BY DEF SaleRows
  <2> QED BY <2>1, TableTypes, AmountsSubset, TotalType DEF Collected
<1>9. Spent(LastDay) \in Int
  BY TableTypes, AmountsSubset, TotalType DEF Spent
<1> HIDE DEF in, out, net, outside
<1>10. SumFunction(in) \in Int
  BY <1>1, <1>3, <1>4, FnType
<1>11. SumFunction(out) \in Int
  BY <1>1, <1>3, <1>4, FnType
<1>12. SumFunction(net) = SumFunction(in) - SumFunction(out)
  BY <1>1, <1>3, <1>4, FnMinus
<1>13. Collected(LastDay) - Spent(LastDay)
         = Closing(LastDay) + SumFunction(net) + outside
  BY <1>5, <1>6, <1>7, <1>8, <1>9, <1>10, <1>11, <1>12 DEF Closing
<1> QED BY <1>13 DEF MoneyIsConserved, net, outside

\* What was collected and not spent is in the box, in the accounts or outside,
\* in every reachable state (transfers.py, banking.py and cashier_box.py).
THEOREM MoneyAlwaysConserved == LogSpec => []MoneyIsConserved
<1>1. LogInit => LogInv
  BY LogInitInv
<1>2. LogInv /\ [LogPost]_log => LogInv'
  BY LogNextInv
<1>3. LogInv => MoneyIsConserved
  BY TransfersConserve
<1> QED BY <1>1, <1>2, <1>3, PTL DEF LogSpec

-----------------------------------------------------------------------------
(* SalesAreCovered.                                                        *)

\* All the money of some sales that is in the cash ledger.
LEMMA PaidBySale ==
  ASSUME LogInv, NEW some \in SUBSET sales
  PROVE  Total({r \in SaleRows({"cash", "upi", "online"}) : r.of \in some})
           = SumFunction([s \in some |-> s.cash + s.upi + s.online])
<1> DEFINE h == [s \in some |-> s.cash + s.upi + s.online]
<1>1. DOMAIN h = some
      /\ \A s \in some : h[s] = Total(RowsOfSale(s, {"cash", "upi", "online"}))
  BY SaleAmounts
<1> HIDE DEF h
<1>2. Total({r \in SaleRows({"cash", "upi", "online"}) : r.of \in some}) = SumFunction(h)
  BY <1>1, SaleRowsBySale
<1> QED BY <1>2 DEF h

\* And all that was charged to a party.
LEMMA ChargedBySale ==
  ASSUME LogInv, NEW some \in SUBSET sales
  PROVE  Total({b \in balances : b.of \in some}) = SumFunction([s \in some |-> s.balance])
<1> DEFINE rows == {b \in balances : b.of \in some}
           key == [b \in rows |-> b.of]
           h == [s \in some |-> s.balance]
<1>1. Amounts(rows) /\ IsFiniteSet(some)
  BY TableTypes, AmountsSubset, FS_Subset DEF LogInv, Finite
<1>2. ASSUME NEW s \in some
      PROVE  h[s] = Total({b \in rows : key[b] = s})
  <2>1. {b \in rows : key[b] = s} = Charged(s)
    <3>1. s \in SaleSlips /\ s \in sales
      BY DEF LogInv, LogTypeOK, TypeOK
    <3>2. ASSUME NEW b \in balances, b.of = s
          PROVE  b \in Charged(s)
      BY <3>1, <3>2, BalanceRow
    <3>3. ASSUME NEW b \in Charged(s)
          PROVE  b \in balances /\ b.of = s
      BY <3>1, ChargedRows DEF LogInv, RowsOfSlips
    <3> QED BY <3>2, <3>3
  <2>2. Total(Charged(s)) = s.balance
    <3>1. CASE s.balance = 0
      BY <3>1, TotalEmpty DEF Charged
    <3>2. CASE s.balance # 0
      <4>1. s.balance \in Int
        BY SaleSlipType DEF LogInv, LogTypeOK, TypeOK
      <4>2. Owed(s, "charge", s.balance).amount = s.balance
        BY DEF Owed
      <4> QED BY <3>2, <4>1, <4>2, TotalSingle DEF Charged
    <3> QED BY <3>1, <3>2
  <2> QED BY <2>1, <2>2
<1>3. DOMAIN h = some /\ \A b \in rows : key[b] \in some
  OBVIOUS
<1> HIDE DEF rows, key, h
<1>4. Total(rows) = SumFunction(h)
  BY <1>1, <1>2, <1>3, TotalFibres
<1> QED BY <1>4 DEF rows, h

\* The balances of all parties are what was charged less what was repaid.
LEMMA OutstandingOfParties ==
  ASSUME LogInv
  PROVE  /\ \A p \in Parties : Outstanding(p) \in Int
         /\ SumFunction([p \in Parties |-> Outstanding(p)])
              = Total({b \in balances : b.kind = "charge"})
                  - Total({b \in balances : b.kind = "repayment"})
<1> DEFINE in == [p \in Parties |-> Total({b \in balances : b.party = p /\ b.kind = "charge"})]
           out == [p \in Parties |->
                     Total({b \in balances : b.party = p /\ b.kind = "repayment"})]
           net == [p \in Parties |-> Outstanding(p)]
<1>1. \A p \in Parties : in[p] \in Int /\ out[p] \in Int /\ net[p] = in[p] - out[p]
  BY TableTypes, AmountsSubset, TotalType DEF Outstanding
<1>2. IsFiniteSet(Parties)
  BY BooksAssumption, FS_Union DEF Parties
<1>3. DOMAIN in = Parties /\ DOMAIN out = Parties /\ DOMAIN net = Parties
  OBVIOUS
<1>4. Total({b \in balances : b.kind = "charge"}) = SumFunction(in)
  <2> DEFINE rows == {b \in balances : b.kind = "charge"}
             key == [b \in rows |-> b.party]
  <2>1. Amounts(rows) /\ \A b \in rows : key[b] \in Parties
    BY TableTypes, AmountsSubset DEF LogInv, LogTypeOK, TypeOK
  <2>2. \A p \in Parties : in[p] = Total({b \in rows : key[b] = p})
    <3>1. \A p : {b \in balances : b.party = p /\ b.kind = "charge"} = {b \in rows : key[b] = p}
      OBVIOUS
    <3> QED BY <3>1
  <2> HIDE DEF rows, key, in
  <2>3. Total(rows) = SumFunction(in)
    BY <1>2, <1>3, <2>1, <2>2, TotalFibres
  <2> QED BY <2>3 DEF rows
<1>5. Total({b \in balances : b.kind = "repayment"}) = SumFunction(out)
  <2> DEFINE rows == {b \in balances : b.kind = "repayment"}
             key == [b \in rows |-> b.party]
  <2>1. Amounts(rows) /\ \A b \in rows : key[b] \in Parties
    BY TableTypes, AmountsSubset DEF LogInv, LogTypeOK, TypeOK
  <2>2. \A p \in Parties : out[p] = Total({b \in rows : key[b] = p})
    <3>1. \A p : {b \in balances : b.party = p /\ b.kind = "repayment"}
                   = {b \in rows : key[b] = p}
      OBVIOUS
    <3> QED BY <3>1
  <2> HIDE DEF rows, key, out
  <2>3. Total(rows) = SumFunction(out)
    BY <1>2, <1>3, <2>1, <2>2, TotalFibres
  <2> QED BY <2>3 DEF rows
<1>6. \A p \in Parties : Outstanding(p) \in Int
  <2> SUFFICES ASSUME NEW p \in Parties
               PROVE  Outstanding(p) \in Int
    OBVIOUS
  <2>1. Total({b \in balances : b.party = p /\ b.kind = "charge"}) \in Int
    BY TableTypes, AmountsSubset, TotalType
  <2>2. Total({b \in balances : b.party = p /\ b.kind = "repayment"}) \in Int
    BY TableTypes, AmountsSubset, TotalType
  <2> QED BY <2>1, <2>2 DEF Outstanding
<1> HIDE DEF in, out, net
<1>7. SumFunction(net) = SumFunction(in) - SumFunction(out)
  BY <1>1, <1>2, <1>3, FnMinus
<1> QED BY <1>4, <1>5, <1>6, <1>7 DEF net

\* The summaries and the parties they hide are all parties.
LEMMA SummaryHidesInactive ==
  ASSUME LogInv
  PROVE  /\ SumFunction([p \in Parties |-> Outstanding(p)])
              = SumFunction(Summary) + SumFunction(Hidden)
         /\ SumFunction(Summary) \in Int /\ SumFunction(Hidden) \in Int
<1> DEFINE f == [p \in Parties |-> Outstanding(p)]
<1>1. active \subseteq Parties
  BY DEF LogInv, LogTypeOK, TypeOK
<1>2. IsFiniteSet(active) /\ IsFiniteSet(Parties \ active)
  BY <1>1, BooksAssumption, FS_Union, FS_Subset DEF Parties
<1>3. /\ DOMAIN f = Parties /\ DOMAIN Summary = active /\ DOMAIN Hidden = Parties \ active
      /\ DOMAIN f = DOMAIN Summary \cup DOMAIN Hidden /\ DOMAIN Summary \cap DOMAIN Hidden = {}
  BY <1>1 DEF Summary, Hidden
<1>4. /\ \A p \in DOMAIN Summary : Summary[p] = f[p] /\ f[p] \in Int
      /\ \A p \in DOMAIN Hidden : Hidden[p] = f[p] /\ f[p] \in Int
  BY <1>3, OutstandingOfParties DEF Summary, Hidden
<1> HIDE DEF f
<1>5. SumFunction(f) = SumFunction(Summary) + SumFunction(Hidden)
  BY <1>2, <1>3, <1>4, FnUnion
<1>6. SumFunction(Summary) \in Int /\ SumFunction(Hidden) \in Int
  BY <1>2, <1>3, <1>4, FnType
<1> QED BY <1>5, <1>6 DEF f

\* The first half of SalesAreCovered.
LEMMA SalesAccounted == LogInv => SalesAreAccounted
<1> SUFFICES ASSUME LogInv
             PROVE  SalesAreAccounted
  OBVIOUS
<1> DEFINE money == [s \in sales |-> Money(s)]
           paid == [s \in sales |-> s.cash + s.upi + s.online]
           owed == [s \in sales |-> s.balance]
           charges == {b \in balances : b.kind = "charge"}
           ofSales == {b \in balances : b.of \in sales}
           manual == {b \in balances : b.of \in EntrySlips /\ b.kind = "charge"}
           repaid == {b \in balances : b.of \in EntrySlips /\ b.kind = "repayment"}
<1>1. \A s \in sales : paid[s] \in Int /\ owed[s] \in Int /\ money[s] = paid[s] + owed[s]
  BY SaleSlipType DEF Money, LogInv, LogTypeOK, TypeOK
<1>2. DOMAIN money = sales /\ DOMAIN paid = sales /\ DOMAIN owed = sales /\ IsFiniteSet(sales)
  BY DEF LogInv, Finite
<1>3. Total(SaleRows({"cash", "upi", "online"})) = SumFunction(paid)
  <2>1. {r \in SaleRows({"cash", "upi", "online"}) : r.of \in sales}
          = SaleRows({"cash", "upi", "online"})
    BY DEF SaleRows
  <2> QED BY <2>1, PaidBySale
<1>4. Total(ofSales) = SumFunction(owed)
  BY ChargedBySale
<1>5. charges = ofSales \cup manual /\ ofSales \cap manual = {}
  BY BalanceRow
<1>6. {b \in balances : b.kind = "repayment"} = repaid
  BY BalanceRow
<1>7. Amounts(charges) /\ Amounts(repaid) /\ Amounts(manual)
  BY TableTypes, AmountsSubset
<1> HIDE DEF money, paid, owed, charges, ofSales, manual, repaid
<1>8. SumFunction(money) = SumFunction(paid) + SumFunction(owed)
  BY <1>1, <1>2, FnPlus
<1>9. Total(charges) = Total(ofSales) + Total(manual)
  BY <1>5, <1>7, TotalUnion
<1>10. SumFunction([p \in Parties |-> Outstanding(p)]) = Total(charges) - Total(repaid)
  BY <1>6, OutstandingOfParties DEF charges
<1>11. SumFunction(paid) \in Int
  BY <1>1, <1>2, FnType
<1>12. SumFunction(owed) \in Int
  BY <1>1, <1>2, FnType
<1>13. Total(manual) \in Int
  BY <1>7, TotalType
<1>14. Total(repaid) \in Int
  BY <1>7, TotalType
<1> DEFINE x == SumFunction(Summary)
           y == SumFunction(Hidden)
<1>15. x + y = SumFunction(owed) + Total(manual) - Total(repaid)
  <2>1. x + y = Total(charges) - Total(repaid)
    BY <1>10, SummaryHidesInactive
  <2>2. Total(charges) = SumFunction(owed) + Total(manual)
    BY <1>4, <1>9
  <2> HIDE DEF x, y
  <2> QED BY <1>12, <1>13, <1>14, <2>1, <2>2
<1>16. x \in Int /\ y \in Int
  BY SummaryHidesInactive
<1> HIDE DEF x, y
<1>17. SumFunction(money) = SumFunction(paid) + x + y - Total(manual) + Total(repaid)
  BY <1>8, <1>11, <1>12, <1>13, <1>14, <1>15, <1>16
<1> QED BY <1>3, <1>17 DEF SalesAreAccounted, money, x, y, manual, repaid

\* The second half of SalesAreCovered.
LEMMA DeliveryCovered == LogInv => DeliveryReportIsCovered
<1> SUFFICES ASSUME LogInv, NEW b \in Boys, NEW start \in Days, NEW end \in Days
             PROVE  LET charges == {c \in Between(balances, start, end) :
                                      c.party = b /\ c.kind = "charge"} IN
                    SalesReport(b, start, end) =
                      Total({r \in SaleRows({"cash", "upi", "online"}) :
                               r.of.party = b /\ r.of.day \in start .. end})
                        + Total(charges) - Total({c \in charges : c.of \in EntrySlips})
                        + SumFunction([s \in Lines({b}, start, end) |-> Cargo[s].excess])
  BY DEF DeliveryReportIsCovered
<1> DEFINE own == Lines({b}, start, end)
           charges == {c \in Between(balances, start, end) : c.party = b /\ c.kind = "charge"}
           manual == {c \in charges : c.of \in EntrySlips}
           ofSales == {c \in balances : c.of \in own}
           price == [s \in own |-> Price(s)]
           paid == [s \in own |-> s.cash + s.upi + s.online]
           owed == [s \in own |-> s.balance]
           extra == [s \in own |-> Cargo[s].excess]
           sold == [s \in own |-> s.cash + s.upi + s.online + s.balance]
<1>1. own \in SUBSET sales /\ own = {s \in sales : s.party = b /\ s.day \in start .. end}
  BY DEF Lines
<1>2. IsFiniteSet(own)
  BY <1>1, FS_Subset DEF LogInv, Finite
<1>3. \A s \in own : /\ paid[s] \in Int /\ owed[s] \in Int /\ extra[s] \in Int
                     /\ sold[s] = paid[s] + owed[s] /\ sold[s] \in Int
                     /\ price[s] = sold[s] + extra[s]
  <2> SUFFICES ASSUME NEW s \in own
               PROVE  /\ paid[s] \in Int /\ owed[s] \in Int /\ extra[s] \in Int
                      /\ sold[s] = paid[s] + owed[s] /\ sold[s] \in Int
                      /\ price[s] = sold[s] + extra[s]
    OBVIOUS
  <2>1. s \in SaleSlips
    BY <1>1 DEF LogInv, LogTypeOK, TypeOK
  <2> HIDE DEF own
  <2> QED BY <2>1, SaleSlipType, CargoType DEF Price, Money
<1>4. /\ DOMAIN price = own /\ DOMAIN paid = own /\ DOMAIN owed = own /\ DOMAIN extra = own
      /\ DOMAIN sold = own
  OBVIOUS
<1>5. Total({r \in SaleRows({"cash", "upi", "online"}) :
               r.of.party = b /\ r.of.day \in start .. end}) = SumFunction(paid)
  <2>1. {r \in SaleRows({"cash", "upi", "online"}) : r.of.party = b /\ r.of.day \in start .. end}
          = {r \in SaleRows({"cash", "upi", "online"}) : r.of \in own}
    BY <1>1 DEF SaleRows
  <2> QED BY <1>1, <2>1, PaidBySale
<1>6. Total(charges) - Total(manual) = SumFunction(owed)
  <2>1. ASSUME NEW c \in balances
        PROVE  c \in charges <=> c \in ofSales \/ c \in manual
    <3>1. CASE c.of \in sales
      <4>1. c.kind = "charge" /\ c.party = c.of.party /\ c.day = c.of.day
        BY <3>1, BalanceRow DEF Charged, Owed
      <4> QED BY <1>1, <3>1, <4>1 DEF Between
    <3>2. CASE c.of \notin sales
      <4>1. c.of \in EntrySlips
        BY <3>2, BalanceRow
      <4> QED BY <1>1, <3>2, <4>1
    <3> QED BY <3>1, <3>2
  <2>2. charges \subseteq balances /\ ofSales \subseteq balances /\ manual \subseteq balances
    BY DEF Between
  <2>3. charges = ofSales \cup manual
    BY <2>1, <2>2
  <2>4. ofSales \cap manual = {}
    BY <1>1, BalanceRow
  <2>5. Amounts(ofSales) /\ Amounts(manual) /\ Amounts(charges)
    BY <2>2, TableTypes, AmountsSubset
  <2>6. Total(ofSales) = SumFunction(owed)
    BY <1>1, ChargedBySale
  <2> HIDE DEF charges, ofSales, manual, owed
  <2>7. Total(charges) = Total(ofSales) + Total(manual)
    BY <2>3, <2>4, <2>5, TotalUnion
  <2>8. Total(ofSales) \in Int /\ Total(manual) \in Int
    BY <2>5, TotalType
  <2> QED BY <2>6, <2>7, <2>8
<1>7. SalesReport(b, start, end) = SumFunction(price)
  BY DEF SalesReport
<1> HIDE DEF own, price, paid, owed, extra, sold, charges, manual
<1>8. SumFunction(sold) = SumFunction(paid) + SumFunction(owed)
  BY <1>2, <1>3, <1>4, FnPlus
<1>9. SumFunction(price) = SumFunction(sold) + SumFunction(extra)
  BY <1>2, <1>3, <1>4, FnPlus
<1>10. SumFunction(price) = SumFunction(paid) + (SumFunction(owed) + SumFunction(extra))
  <2>1. SumFunction(paid) \in Int /\ SumFunction(owed) \in Int /\ SumFunction(extra) \in Int
    BY <1>2, <1>3, <1>4, FnType
  <2> QED BY <1>8, <1>9, <2>1
<1>11. SumFunction(paid) \in Int /\ SumFunction(extra) \in Int
  BY <1>2, <1>3, <1>4, FnType
<1>12. Total(charges) \in Int /\ Total(manual) \in Int
  <2>1. charges \subseteq balances /\ manual \subseteq balances
    BY DEF charges, manual, Between
  <2> QED BY <2>1, TableTypes, AmountsSubset, TotalType
<1> QED BY <1>5, <1>6, <1>7, <1>10, <1>11, <1>12 DEF own, extra, charges, manual

\* Every rupee of a sale is in the ledger or in a balance, in every reachable
\* state (sales.py, balances.py, reports.py).
THEOREM SalesAlwaysCovered == LogSpec => []SalesAreCovered
<1>1. LogInit => LogInv
  BY LogInitInv
<1>2. LogInv /\ [LogPost]_log => LogInv'
  BY LogNextInv
<1>3. LogInv => SalesAreCovered
  BY SalesAccounted, DeliveryCovered DEF SalesAreCovered
<1> QED BY <1>1, <1>2, <1>3, PTL DEF LogSpec

-----------------------------------------------------------------------------
(* StockCarriesOver.                                                       *)

\* What a row of the stock ledger can be.
LEMMA StockRow ==
  ASSUME LogInv, NEW r \in stock_ledger
  PROVE  /\ r.day \in Days /\ r.day \in Int /\ r.delta \in Int
         /\ r.item \in Types \cup Accessories /\ r.condition \in {"full", "empty", "none"}
         /\ r.reason \in {"sale", "intake", "ac4", "erv", "return", "adjust"}
         /\ r.reason = "sale" =>
              /\ r.of \in sales /\ r \in Moved(r.of)
              /\ r.item \in Types /\ r.condition \in {"full", "empty"}
         /\ r.reason = "erv" => r.item \in Types /\ r.condition = "empty"
         /\ r.reason \in {"intake", "adjust"} => r.item \in Types /\ r.condition = "full"
         /\ r.item \in Types => r.condition \in {"full", "empty"}
         /\ r.item \in Types /\ r.reason = "ac4" => r.condition = "full"
         /\ r.item \in Accessories => r.reason \in {"ac4", "return"} /\ r.condition = "none"
<1>1. /\ r.day \in Days /\ r.day \in Int /\ r.delta \in Int
      /\ r.item \in Types \cup Accessories /\ r.condition \in {"full", "empty", "none"}
      /\ r.reason \in {"sale", "intake", "ac4", "erv", "return", "adjust"}
  BY BooksAssumption DEF LogInv, LogTypeOK, Reasons
<1>2. CASE \E s \in sales : r \in Moved(s)
  <2>1. PICK s \in sales : r \in Moved(s)
    BY <1>2
  <2>2. s \in SaleSlips
    BY DEF LogInv, LogTypeOK, TypeOK
  <2>3. /\ r.of = s /\ r.reason = "sale" /\ r.condition \in {"full", "empty"}
        /\ r.item \in Types
    BY <2>1, <2>2, MovedRows, CargoType
  <2> QED BY <1>1, <2>1, <2>3, StockLogAssumption
<1>3. CASE \E m \in StockSlips : r = Recorded(m)
  BY <1>1, <1>3, RecordedRow
<1> QED BY <1>2, <1>3 DEF LogInv, RowsOfSlips

\* Some rows of the stock ledger, grouped by a key.
LEMMA DeltaByKey ==
  ASSUME LogInv, NEW rows \in SUBSET stock_ledger, NEW I, IsFiniteSet(I),
         NEW key, \A r \in rows : key[r] \in I,
         NEW h, DOMAIN h = I, \A i \in I : h[i] = SumDelta({r \in rows : key[r] = i})
  PROVE  SumDelta(rows) = SumFunction(h)
<1>1. Deltas(rows)
  BY TableTypes, DeltasSubset
<1> QED BY <1>1, DeltaFibres

\* Sums over the stock ledger are integers.
LEMMA SumDeltaInt ==
  ASSUME LogInv, NEW rows \in SUBSET stock_ledger
  PROVE  Deltas(rows) /\ SumDelta(rows) \in Int
BY TableTypes, DeltasSubset, DeltaType

\* What is there up to a date is what was there before it and what moved on it.
LEMMA CarryOver ==
  ASSUME LogInv, NEW rows \in SUBSET stock_ledger, NEW d \in Int
  PROVE  /\ UpTo(rows, d) = Before(rows, d + 1)
         /\ SumDelta(UpTo(rows, d)) = SumDelta(Before(rows, d)) + SumDelta(On(rows, d))
<1>1. \A r \in rows : r.day \in Int
  BY StockRow
<1>2. UpTo(rows, d) = Before(rows, d + 1)
  BY <1>1 DEF UpTo, Before
<1>3. UpTo(rows, d) = Before(rows, d) \cup On(rows, d) /\ Before(rows, d) \cap On(rows, d) = {}
  BY <1>1 DEF UpTo, Before, On, Between
<1>4. Deltas(UpTo(rows, d))
  BY SumDeltaInt DEF UpTo
<1> QED BY <1>2, <1>3, <1>4, DeltaUnion

Among(rows, reasons) == {r \in rows : r.reason \in reasons}

\* Three groups of reasons that cover the rows.
LEMMA ByReason ==
  ASSUME LogInv, NEW rows \in SUBSET stock_ledger, NEW x, NEW y, x # y,
         NEW rest, x \notin rest, y \notin rest,
         \A r \in rows : r.reason = x \/ r.reason = y \/ r.reason \in rest
  PROVE  /\ SumDelta(rows) = SumDelta(Of(rows, x)) + SumDelta(Of(rows, y))
                               + SumDelta(Among(rows, rest))
         /\ SumDelta(Of(rows, x)) \in Int /\ SumDelta(Of(rows, y)) \in Int
         /\ SumDelta(Among(rows, rest)) \in Int
<1> DEFINE a == Of(rows, x)
           b == Of(rows, y)
           c == Among(rows, rest)
<1>1. rows = (a \cup b) \cup c /\ (a \cup b) \cap c = {} /\ a \cap b = {}
  BY DEF Of, Among
<1>2. Deltas(rows) /\ Deltas(a \cup b)
  BY SumDeltaInt DEF Of
<1>3. SumDelta(a) \in Int
  BY SumDeltaInt DEF Of
<1>4. SumDelta(b) \in Int
  BY SumDeltaInt DEF Of
<1>5. SumDelta(c) \in Int
  BY SumDeltaInt DEF Among
<1> HIDE DEF a, b, c
<1>6. SumDelta(rows) = SumDelta(a \cup b) + SumDelta(c)
  BY <1>1, <1>2, DeltaUnion
<1>7. SumDelta(a \cup b) = SumDelta(a) + SumDelta(b)
  BY <1>1, <1>2, DeltaUnion
<1>8. SumDelta(rows) = SumDelta(a) + SumDelta(b) + SumDelta(c)
  BY <1>6, <1>7
<1> QED BY <1>3, <1>4, <1>5, <1>8 DEF a, b, c

\* The first half of StockCarriesOver.
LEMMA OverviewOfDay == LogInv => OverviewCarriesOver
<1> DEFINE rest == {"intake", "return", "adjust"}
           Unshown(rows, d) == SumDelta(Among(On(rows, d), rest))
<1> SUFFICES ASSUME LogInv, NEW d \in Days
             PROVE  /\ \A t \in Types :
                         /\ FullClosing(t, d) = FullOpening(t, d + 1)
                         /\ FullOpening(t, d) + FullReceived(t, d) - FullSold(t, d)
                              + Unshown(Full(t), d) = FullClosing(t, d)
                         /\ EmptyOpening(t, d) + EmptyReturned(t, d) - EmptySent(t, d)
                              + Unshown(Empty(t), d) = EmptyClosing(t, d)
                    /\ \A a \in Accessories :
                         /\ AccClosing(a, d) = AccOpening(a, d + 1)
                         /\ AccOpening(a, d) + AccReceived(a, d) - AccSold(a, d)
                              + Unshown(Pieces(a), d) = AccClosing(a, d)
  BY DEF OverviewCarriesOver, Among
<1>0. d \in Int /\ "ac4" # "sale" /\ "erv" # "sale" /\ "ac4" \notin rest /\ "erv" \notin rest
      /\ "sale" \notin rest
  BY BooksAssumption
<1>1. ASSUME NEW rows \in SUBSET stock_ledger, NEW x, x # "sale", x \notin rest,
             \A r \in rows : r.reason \in {x, "sale"} \cup rest
      PROVE  /\ SumDelta(UpTo(rows, d)) = SumDelta(Before(rows, d + 1))
             /\ SumDelta(Before(rows, d)) + SumDelta(Of(On(rows, d), x))
                  + SumDelta(Of(On(rows, d), "sale")) + Unshown(rows, d)
                  = SumDelta(UpTo(rows, d))
             /\ SumDelta(Before(rows, d)) \in Int /\ Unshown(rows, d) \in Int
             /\ SumDelta(Of(On(rows, d), x)) \in Int
             /\ SumDelta(Of(On(rows, d), "sale")) \in Int
  <2> DEFINE on == On(rows, d)
  <2>1. on \in SUBSET stock_ledger /\ \A r \in on : r.reason = x \/ r.reason = "sale" \/ r.reason \in rest
    BY <1>1 DEF On, Between
  <2>2. SumDelta(Before(rows, d)) \in Int
    BY SumDeltaInt DEF Before
  <2>3. /\ SumDelta(UpTo(rows, d)) = SumDelta(Before(rows, d + 1))
        /\ SumDelta(UpTo(rows, d)) = SumDelta(Before(rows, d)) + SumDelta(on)
    BY <1>0, CarryOver
  <2> HIDE DEF on, rest
  <2>4. /\ SumDelta(on) = SumDelta(Of(on, x)) + SumDelta(Of(on, "sale"))
                               + SumDelta(Among(on, rest))
        /\ SumDelta(Of(on, x)) \in Int /\ SumDelta(Of(on, "sale")) \in Int
        /\ SumDelta(Among(on, rest)) \in Int
    BY <1>0, <1>1, <2>1, ByReason
  <2>5. SumDelta(Before(rows, d)) + SumDelta(Of(on, x)) + SumDelta(Of(on, "sale"))
          + SumDelta(Among(on, rest)) = SumDelta(UpTo(rows, d))
    BY <2>2, <2>3, <2>4
  <2> QED BY <2>2, <2>3, <2>4, <2>5 DEF on
<1> HIDE DEF rest, Unshown
<1>2. ASSUME NEW t \in Types
      PROVE  /\ FullClosing(t, d) = FullOpening(t, d + 1)
             /\ FullOpening(t, d) + FullReceived(t, d) - FullSold(t, d)
                  + Unshown(Full(t), d) = FullClosing(t, d)
  <2>1. Full(t) \in SUBSET stock_ledger
        /\ \A r \in Full(t) : r.reason \in {"ac4", "sale"} \cup rest
    BY StockRow DEF Full, rest
  <2>2. /\ SumDelta(UpTo(Full(t), d)) = SumDelta(Before(Full(t), d + 1))
        /\ SumDelta(Before(Full(t), d)) + SumDelta(Of(On(Full(t), d), "ac4"))
             + SumDelta(Of(On(Full(t), d), "sale")) + Unshown(Full(t), d)
             = SumDelta(UpTo(Full(t), d))
        /\ SumDelta(Before(Full(t), d)) \in Int /\ Unshown(Full(t), d) \in Int
        /\ SumDelta(Of(On(Full(t), d), "ac4")) \in Int
        /\ SumDelta(Of(On(Full(t), d), "sale")) \in Int
    BY <1>0, <1>1, <2>1
  <2> QED BY <2>2 DEF FullClosing, FullOpening, FullReceived, FullSold
<1>3. ASSUME NEW t \in Types
      PROVE  EmptyOpening(t, d) + EmptyReturned(t, d) - EmptySent(t, d)
               + Unshown(Empty(t), d) = EmptyClosing(t, d)
  <2>1. Empty(t) \in SUBSET stock_ledger
        /\ \A r \in Empty(t) : r.reason \in {"erv", "sale"} \cup rest
    BY StockRow DEF Empty, rest
  <2>2. /\ SumDelta(Before(Empty(t), d)) + SumDelta(Of(On(Empty(t), d), "erv"))
             + SumDelta(Of(On(Empty(t), d), "sale")) + Unshown(Empty(t), d)
             = SumDelta(UpTo(Empty(t), d))
        /\ SumDelta(Before(Empty(t), d)) \in Int /\ Unshown(Empty(t), d) \in Int
        /\ SumDelta(Of(On(Empty(t), d), "erv")) \in Int
        /\ SumDelta(Of(On(Empty(t), d), "sale")) \in Int
    BY <1>0, <1>1, <2>1
  <2> QED BY <2>2 DEF EmptyClosing, EmptyOpening, EmptyReturned, EmptySent
<1>4. ASSUME NEW a \in Accessories
      PROVE  /\ AccClosing(a, d) = AccOpening(a, d + 1)
             /\ AccOpening(a, d) + AccReceived(a, d) - AccSold(a, d)
                  + Unshown(Pieces(a), d) = AccClosing(a, d)
  <2>1. Pieces(a) \in SUBSET stock_ledger
        /\ \A r \in Pieces(a) : r.reason \in {"ac4", "sale"} \cup rest
    BY StockRow DEF Pieces, rest
  <2>2. /\ SumDelta(UpTo(Pieces(a), d)) = SumDelta(Before(Pieces(a), d + 1))
        /\ SumDelta(Before(Pieces(a), d)) + SumDelta(Of(On(Pieces(a), d), "ac4"))
             + SumDelta(Of(On(Pieces(a), d), "sale")) + Unshown(Pieces(a), d)
             = SumDelta(UpTo(Pieces(a), d))
        /\ SumDelta(Before(Pieces(a), d)) \in Int /\ Unshown(Pieces(a), d) \in Int
        /\ SumDelta(Of(On(Pieces(a), d), "ac4")) \in Int
        /\ SumDelta(Of(On(Pieces(a), d), "sale")) \in Int
    BY <1>0, <1>1, <2>1
  <2> QED BY <2>2 DEF AccClosing, AccOpening, AccReceived, AccSold
<1> QED BY <1>2, <1>3, <1>4

\* Rows of cylinders sum type by type.
LEMMA DeltaByItem ==
  ASSUME LogInv, NEW rows \in SUBSET stock_ledger, \A r \in rows : r.item \in Types,
         NEW h, DOMAIN h = Types, \A t \in Types : h[t] = SumDelta({r \in rows : r.item = t})
  PROVE  SumDelta(rows) = SumFunction(h)
<1> DEFINE key == [r \in rows |-> r.item]
<1>1. \A r \in rows : key[r] = r.item
  OBVIOUS
<1>2. \A t \in Types : {r \in rows : key[r] = t} = {r \in rows : r.item = t}
  OBVIOUS
<1>3. IsFiniteSet(Types)
  BY StockLogAssumption
<1> HIDE DEF key
<1>4. \A r \in rows : key[r] \in Types
  BY <1>1
<1>5. \A t \in Types : h[t] = SumDelta({r \in rows : key[r] = t})
  BY <1>2
<1> QED BY <1>3, <1>4, <1>5, DeltaByKey

\* Rows sum day by day.
LEMMA DeltaByDay ==
  ASSUME LogInv, NEW rows \in SUBSET stock_ledger,
         NEW days, IsFiniteSet(days), \A r \in rows : r.day \in days,
         NEW h, DOMAIN h = days, \A d \in days : h[d] = SumDelta({r \in rows : r.day = d})
  PROVE  SumDelta(rows) = SumFunction(h)
<1> DEFINE key == [r \in rows |-> r.day]
<1>1. \A r \in rows : key[r] = r.day
  OBVIOUS
<1>2. \A d \in days : {r \in rows : key[r] = d} = {r \in rows : r.day = d}
  OBVIOUS
<1> HIDE DEF key
<1>3. \A r \in rows : key[r] \in days
  BY <1>1
<1>4. \A d \in days : h[d] = SumDelta({r \in rows : key[r] = d})
  BY <1>2
<1> QED BY <1>3, <1>4, DeltaByKey

\* The second half of StockCarriesOver.
LEMMA WarehouseOfDay == LogInv => WarehouseIsOverview
<1> DEFINE full == {r \in stock_ledger : r.condition = "full"}
<1> SUFFICES ASSUME LogInv, NEW d \in Days
             PROVE  LET change == {r \in On(stock_ledger, d) :
                                     r.condition = "full" /\ r.reason \in {"return", "adjust"}}
                    IN /\ Warehouse(d) = SumFunction([t \in Types |-> FullClosing(t, d)])
                       /\ Warehouse(d) - Warehouse(d - 1) =
                            IntakeTotal(d) + SumDelta(change)
                              + SumFunction([t \in Types |-> FullReceived(t, d) - FullSold(t, d)])
  BY DEF WarehouseIsOverview
<1> DEFINE change == {r \in On(stock_ledger, d) :
                        r.condition = "full" /\ r.reason \in {"return", "adjust"}}
<1>0. d \in Int
  BY BooksAssumption
<1>1. Warehouse(d) = SumFunction([t \in Types |-> FullClosing(t, d)])
  <2> DEFINE rows == {r \in stock_ledger : r.condition = "full" /\ r.day <= d}
             h == [t \in Types |-> FullClosing(t, d)]
  <2>1. \A r \in rows : r.item \in Types
    BY StockRow
  <2>2. \A t \in Types : h[t] = SumDelta({r \in rows : r.item = t})
    <3>1. \A t \in Types : UpTo(Full(t), d) = {r \in rows : r.item = t}
      BY DEF UpTo, Full
    <3> QED BY <3>1 DEF FullClosing
  <2>3. DOMAIN h = Types /\ rows \in SUBSET stock_ledger
    OBVIOUS
  <2> HIDE DEF rows, h
  <2>4. SumDelta(rows) = SumFunction(h)
    BY <2>1, <2>2, <2>3, DeltaByItem
  <2> QED BY <2>4 DEF Warehouse, rows, h
<1>2. /\ SumDelta(UpTo(full, d)) = SumDelta(Before(full, d)) + SumDelta(On(full, d))
      /\ Warehouse(d) = SumDelta(UpTo(full, d)) /\ Warehouse(d - 1) = SumDelta(Before(full, d))
  <2>1. full \in SUBSET stock_ledger
    OBVIOUS
  <2>2. /\ UpTo(full, d) = {r \in stock_ledger : r.condition = "full" /\ r.day <= d}
        /\ Before(full, d) = {r \in stock_ledger : r.condition = "full" /\ r.day <= d - 1}
    BY <1>0, StockRow DEF UpTo, Before
  <2>3. SumDelta(UpTo(full, d)) = SumDelta(Before(full, d)) + SumDelta(On(full, d))
    BY <1>0, <2>1, CarryOver
  <2> QED BY <2>2, <2>3 DEF Warehouse
<1>3. SumDelta(On(full, d)) = IntakeTotal(d) + SumDelta(change)
        + SumFunction([t \in Types |-> FullReceived(t, d) - FullSold(t, d)])
  <2> DEFINE on == On(full, d)
             shown == {r \in on : r.reason \in {"ac4", "sale"}}
             intake == Of(on, "intake")
             h == [t \in Types |-> FullReceived(t, d) - FullSold(t, d)]
  <2>1. /\ on = (intake \cup change) \cup shown /\ (intake \cup change) \cap shown = {}
        /\ intake \cap change = {} /\ on \in SUBSET stock_ledger
        /\ Of(On(stock_ledger, d), "intake") = intake
    BY StockRow DEF On, Between, Of
  <2>2. SumDelta(shown) = SumFunction(h)
    <3>1. shown \in SUBSET stock_ledger /\ \A r \in shown : r.item \in Types
      BY StockRow DEF On, Between
    <3>2. ASSUME NEW t \in Types
          PROVE  h[t] = SumDelta({r \in shown : r.item = t})
      <4> DEFINE a == Of(On(Full(t), d), "ac4")
                 b == Of(On(Full(t), d), "sale")
      <4>1. {r \in shown : r.item = t} = a \cup b /\ a \cap b = {}
        BY DEF Full, On, Between, Of
      <4>2. SumDelta(a) \in Int
        BY SumDeltaInt DEF Full, On, Between, Of
      <4>3. SumDelta(b) \in Int
        BY SumDeltaInt DEF Full, On, Between, Of
      <4>4. Deltas({r \in shown : r.item = t})
        BY <3>1, SumDeltaInt
      <4>5. h[t] = SumDelta(a) - (-SumDelta(b))
        BY DEF FullReceived, FullSold
      <4> HIDE DEF a, b, h, shown
      <4>6. SumDelta({r \in shown : r.item = t}) = SumDelta(a) + SumDelta(b)
        BY <4>1, <4>4, DeltaUnion
      <4> QED BY <4>2, <4>3, <4>5, <4>6
    <3>3. DOMAIN h = Types
      OBVIOUS
    <3> HIDE DEF h, shown
    <3> QED BY <3>1, <3>2, <3>3, DeltaByItem
  <2>3. Deltas(on) /\ Deltas(intake \cup change)
    BY <2>1, SumDeltaInt
  <2> HIDE DEF on, shown, intake, h, change
  <2>4. SumDelta(on) = SumDelta(intake \cup change) + SumDelta(shown)
    BY <2>1, <2>3, DeltaUnion
  <2>5. SumDelta(intake \cup change) = SumDelta(intake) + SumDelta(change)
    BY <2>1, <2>3, DeltaUnion
  <2>6. SumDelta(on) = SumDelta(intake) + SumDelta(change) + SumFunction(h)
    BY <2>2, <2>4, <2>5
  <2>7. IntakeTotal(d) = SumDelta(intake)
    BY <2>1 DEF IntakeTotal
  <2> QED BY <2>6, <2>7 DEF on, h
<1>4. SumDelta(Before(full, d)) \in Int
  BY SumDeltaInt DEF Before
<1>5. SumDelta(On(full, d)) \in Int
  BY SumDeltaInt DEF On, Between
<1>6. Warehouse(d) - Warehouse(d - 1) = SumDelta(On(full, d))
  BY <1>2, <1>4, <1>5
<1> QED BY <1>1, <1>3, <1>6

\* The stock figures of a day follow from those of the day before, in every
\* reachable state (services/stock.py).
THEOREM StockAlwaysCarriesOver == LogSpec => []StockCarriesOver
<1>1. LogInit => LogInv
  BY LogInitInv
<1>2. LogInv /\ [LogPost]_log => LogInv'
  BY LogNextInv
<1>3. LogInv => StockCarriesOver
  BY OverviewOfDay, WarehouseOfDay DEF StockCarriesOver
<1> QED BY <1>1, <1>2, <1>3, PTL DEF LogSpec

-----------------------------------------------------------------------------
(* DayViewsAgree, from sums over sales and over loads.                     *)

QtyOf == [s \in sales |-> Cargo[s].qty]
EmptyOf == [s \in sales |-> Cargo[s].empty]
UpiOf == [s \in sales |-> s.upi]
OnlineOf == [s \in sales |-> s.online]
LoadedOf == [l \in loads |-> l.loaded]
ReturnedOf == [l \in loads |-> l.returned]

\* SumFibres with the sums of the groups in a function of the key.
LEMMA SumByKey ==
  ASSUME NEW f, NEW S, IsFiniteSet(S), \A x \in S : f[x] \in Int,
         NEW I, IsFiniteSet(I), NEW key, \A x \in S : key[x] \in I,
         NEW h, DOMAIN h = I, \A i \in I : h[i] = SumFunctionOnSet(f, {x \in S : key[x] = i})
  PROVE  SumFunctionOnSet(f, S) = SumFunction(h)
<1>1. SumFunctionOnSet(f, S) = SumFunctionOnSet(h, I)
  BY SumFibres
<1> QED BY <1>1 DEF SumFunction

\* The columns of some posted sales are naturals, and so are their sums.
LEMMA SumsOfSales ==
  ASSUME LogInv, NEW some \in SUBSET sales
  PROVE  /\ IsFiniteSet(some)
         /\ \A s \in some : /\ QtyOf[s] \in Nat /\ EmptyOf[s] \in Nat
                            /\ UpiOf[s] \in Nat /\ OnlineOf[s] \in Nat
         /\ Qty(some) = SumFunctionOnSet(QtyOf, some)
         /\ EmptyQty(some) = SumFunctionOnSet(EmptyOf, some)
         /\ SumFunction([s \in some |-> s.upi]) = SumFunctionOnSet(UpiOf, some)
         /\ SumFunction([s \in some |-> s.online]) = SumFunctionOnSet(OnlineOf, some)
         /\ Qty(some) \in Nat /\ EmptyQty(some) \in Nat
<1>1. IsFiniteSet(some)
  BY FS_Subset DEF LogInv, Finite
<1>2. \A s \in some : s \in SaleSlips
  BY DEF LogInv, LogTypeOK, TypeOK
<1>3. \A s \in some : /\ QtyOf[s] \in Nat /\ EmptyOf[s] \in Nat
                      /\ UpiOf[s] \in Nat /\ OnlineOf[s] \in Nat
  BY <1>2, SaleSlipType, CargoType DEF QtyOf, EmptyOf, UpiOf, OnlineOf
<1>4. Qty(some) = SumFunctionOnSet(QtyOf, some)
  <2> DEFINE g == [s \in some |-> Cargo[s].qty]
  <2>1. DOMAIN g = some /\ \A s \in some : g[s] = QtyOf[s]
    BY DEF QtyOf
  <2> HIDE DEF g
  <2>2. SumFunction(g) = SumFunctionOnSet(QtyOf, some)
    BY <1>1, <2>1, FnOnSet
  <2> QED BY <2>2 DEF Qty, g
<1>5. EmptyQty(some) = SumFunctionOnSet(EmptyOf, some)
  <2> DEFINE g == [s \in some |-> Cargo[s].empty]
  <2>1. DOMAIN g = some /\ \A s \in some : g[s] = EmptyOf[s]
    BY DEF EmptyOf
  <2> HIDE DEF g
  <2>2. SumFunction(g) = SumFunctionOnSet(EmptyOf, some)
    BY <1>1, <2>1, FnOnSet
  <2> QED BY <2>2 DEF EmptyQty, g
<1>6. SumFunction([s \in some |-> s.upi]) = SumFunctionOnSet(UpiOf, some)
  <2> DEFINE g == [s \in some |-> s.upi]
  <2>1. DOMAIN g = some /\ \A s \in some : g[s] = UpiOf[s]
    BY DEF UpiOf
  <2> HIDE DEF g
  <2>2. SumFunction(g) = SumFunctionOnSet(UpiOf, some)
    BY <1>1, <2>1, FnOnSet
  <2> QED BY <2>2 DEF g
<1>7. SumFunction([s \in some |-> s.online]) = SumFunctionOnSet(OnlineOf, some)
  <2> DEFINE g == [s \in some |-> s.online]
  <2>1. DOMAIN g = some /\ \A s \in some : g[s] = OnlineOf[s]
    BY DEF OnlineOf
  <2> HIDE DEF g
  <2>2. SumFunction(g) = SumFunctionOnSet(OnlineOf, some)
    BY <1>1, <2>1, FnOnSet
  <2> QED BY <2>2 DEF g
<1>8. Qty(some) \in Nat
  BY <1>1, <1>3, <1>4, SumNat
<1>9. EmptyQty(some) \in Nat
  BY <1>1, <1>3, <1>5, SumNat
<1> QED BY <1>1, <1>3, <1>4, <1>5, <1>6, <1>7, <1>8, <1>9

\* And so are those of some rows of the load sheet.
LEMMA SumsOfLoads ==
  ASSUME LogInv, NEW some \in SUBSET loads
  PROVE  /\ IsFiniteSet(some)
         /\ \A l \in some : /\ LoadedOf[l] \in Nat /\ ReturnedOf[l] \in Nat
                            /\ l.boy \in Boys /\ l.type \in Types
         /\ Loaded(some) = SumFunctionOnSet(LoadedOf, some)
         /\ Returned(some) = SumFunctionOnSet(ReturnedOf, some)
         /\ Loaded(some) \in Nat /\ Returned(some) \in Nat
<1>1. IsFiniteSet(some)
  BY FS_Subset DEF LogInv, Finite
<1>2. \A l \in some : l \in LoadUpsert
  BY StockLogAssumption DEF LogInv, LogTypeOK
<1>3. \A l \in some : /\ LoadedOf[l] \in Nat /\ ReturnedOf[l] \in Nat
                      /\ l.boy \in Boys /\ l.type \in Types
  BY <1>2 DEF LoadUpsert, LoadedOf, ReturnedOf
<1>4. Loaded(some) = SumFunctionOnSet(LoadedOf, some)
  <2> DEFINE g == [l \in some |-> l.loaded]
  <2>1. DOMAIN g = some /\ \A l \in some : g[l] = LoadedOf[l]
    BY DEF LoadedOf
  <2> HIDE DEF g
  <2>2. SumFunction(g) = SumFunctionOnSet(LoadedOf, some)
    BY <1>1, <2>1, FnOnSet
  <2> QED BY <2>2 DEF Loaded, g
<1>5. Returned(some) = SumFunctionOnSet(ReturnedOf, some)
  <2> DEFINE g == [l \in some |-> l.returned]
  <2>1. DOMAIN g = some /\ \A l \in some : g[l] = ReturnedOf[l]
    BY DEF ReturnedOf
  <2> HIDE DEF g
  <2>2. SumFunction(g) = SumFunctionOnSet(ReturnedOf, some)
    BY <1>1, <2>1, FnOnSet
  <2> QED BY <2>2 DEF Returned, g
<1>6. Loaded(some) \in Nat
  BY <1>1, <1>3, <1>4, SumNat
<1>7. Returned(some) \in Nat
  BY <1>1, <1>3, <1>5, SumNat
<1> QED BY <1>1, <1>3, <1>4, <1>5, <1>6, <1>7

\* Cylinders sold, grouped by a key.
LEMMA QtyByKey ==
  ASSUME LogInv, NEW some \in SUBSET sales, NEW I, IsFiniteSet(I),
         NEW key, \A s \in some : key[s] \in I,
         NEW h, DOMAIN h = I, \A i \in I : h[i] = Qty({s \in some : key[s] = i})
  PROVE  Qty(some) = SumFunction(h)
<1>1. \A i \in I : h[i] = SumFunctionOnSet(QtyOf, {s \in some : key[s] = i})
  BY SumsOfSales
<1>2. IsFiniteSet(some) /\ Qty(some) = SumFunctionOnSet(QtyOf, some)
  BY SumsOfSales
<1>3. \A s \in some : QtyOf[s] \in Nat
  BY SumsOfSales
<1>4. \A s \in some : QtyOf[s] \in Int
  BY <1>3
<1> QED BY <1>1, <1>2, <1>4, SumByKey

\* Empties brought back, grouped by a key.
LEMMA EmptyByKey ==
  ASSUME LogInv, NEW some \in SUBSET sales, NEW I, IsFiniteSet(I),
         NEW key, \A s \in some : key[s] \in I,
         NEW h, DOMAIN h = I, \A i \in I : h[i] = EmptyQty({s \in some : key[s] = i})
  PROVE  EmptyQty(some) = SumFunction(h)
<1>1. \A i \in I : h[i] = SumFunctionOnSet(EmptyOf, {s \in some : key[s] = i})
  BY SumsOfSales
<1>2. IsFiniteSet(some) /\ EmptyQty(some) = SumFunctionOnSet(EmptyOf, some)
  BY SumsOfSales
<1>3. \A s \in some : EmptyOf[s] \in Nat
  BY SumsOfSales
<1>4. \A s \in some : EmptyOf[s] \in Int
  BY <1>3
<1> QED BY <1>1, <1>2, <1>4, SumByKey

\* Cylinders loaded, grouped by a key.
LEMMA LoadedByKey ==
  ASSUME LogInv, NEW some \in SUBSET loads, NEW I, IsFiniteSet(I),
         NEW key, \A l \in some : key[l] \in I,
         NEW h, DOMAIN h = I, \A i \in I : h[i] = Loaded({l \in some : key[l] = i})
  PROVE  Loaded(some) = SumFunction(h)
<1>1. \A i \in I : h[i] = SumFunctionOnSet(LoadedOf, {l \in some : key[l] = i})
  BY SumsOfLoads
<1>2. IsFiniteSet(some) /\ (\A l \in some : LoadedOf[l] \in Int)
      /\ Loaded(some) = SumFunctionOnSet(LoadedOf, some)
  BY SumsOfLoads
<1> QED BY <1>1, <1>2, SumByKey

\* Cylinders of two disjoint sets of sales.
LEMMA QtyUnion ==
  ASSUME LogInv, NEW a \in SUBSET sales, NEW b \in SUBSET sales, a \cap b = {}
  PROVE  Qty(a \cup b) = Qty(a) + Qty(b)
<1>1. IsFiniteSet(a) /\ Qty(a) = SumFunctionOnSet(QtyOf, a)
  BY SumsOfSales
<1>2. IsFiniteSet(b) /\ Qty(b) = SumFunctionOnSet(QtyOf, b)
  BY SumsOfSales
<1>3. a \cup b \in SUBSET sales
  OBVIOUS
<1>4. Qty(a \cup b) = SumFunctionOnSet(QtyOf, a \cup b)
  BY <1>3, SumsOfSales
<1>5. \A s \in a \cup b : QtyOf[s] \in Nat
  BY <1>3, SumsOfSales
<1>6. \A s \in a \cup b : QtyOf[s] \in Int
  BY <1>5
<1> QED BY <1>1, <1>2, <1>4, <1>6, SumUnion

\* What left the stock, and what came back, with some sales.
LEMMA MovedBySale ==
  ASSUME LogInv, NEW some \in SUBSET sales
  PROVE  /\ SumDelta({r \in stock_ledger : r.reason = "sale" /\ r.condition = "full" /\ r.of \in some})
              = -Qty(some)
         /\ SumDelta({r \in stock_ledger : r.reason = "sale" /\ r.condition = "empty" /\ r.of \in some})
              = EmptyQty(some)
<1> DEFINE full == {r \in stock_ledger : r.reason = "sale" /\ r.condition = "full" /\ r.of \in some}
           empty == {r \in stock_ledger : r.reason = "sale" /\ r.condition = "empty" /\ r.of \in some}
           taken == [s \in some |-> Cargo[s].qty]
           out == [s \in some |-> -Cargo[s].qty]
           back == [s \in some |-> Cargo[s].empty]
           keyF == [r \in full |-> r.of]
           keyE == [r \in empty |-> r.of]
<1>1. IsFiniteSet(some) /\ \A s \in some : s \in SaleSlips /\ s \in sales
  BY FS_Subset DEF LogInv, Finite, LogTypeOK, TypeOK
<1>2. \A s \in some : taken[s] \in Int /\ out[s] = -taken[s] /\ back[s] \in Int
  BY <1>1, CargoType
<1>3. ASSUME NEW s \in some
      PROVE  /\ {r \in stock_ledger : r.reason = "sale" /\ r.condition = "full" /\ r.of = s}
                  = {Row(s, Cargo[s].type, "full", "sale", s.day, -Cargo[s].qty)}
             /\ {r \in stock_ledger : r.reason = "sale" /\ r.condition = "empty" /\ r.of = s}
                  = IF Cargo[s].empty = 0 THEN {}
                    ELSE {Row(s, Cargo[s].type, "empty", "sale", s.day, Cargo[s].empty)}
  <2>1. {r \in stock_ledger : r.reason = "sale" /\ r.of = s} = Moved(s)
    <3>1. ASSUME NEW r \in stock_ledger, r.reason = "sale", r.of = s
          PROVE  r \in Moved(s)
      BY <3>1, StockRow
    <3>2. ASSUME NEW r \in Moved(s)
          PROVE  r \in stock_ledger /\ r.reason = "sale" /\ r.of = s
      BY <1>1, MovedRows DEF LogInv, RowsOfSlips
    <3> QED BY <3>1, <3>2
  <2>2. \A c : {r \in stock_ledger : r.reason = "sale" /\ r.condition = c /\ r.of = s}
                 = {r \in Moved(s) : r.condition = c}
    BY <2>1
  <2>3. /\ {r \in Moved(s) : r.condition = "full"}
             = {Row(s, Cargo[s].type, "full", "sale", s.day, -Cargo[s].qty)}
        /\ {r \in Moved(s) : r.condition = "empty"}
             = IF Cargo[s].empty = 0 THEN {}
               ELSE {Row(s, Cargo[s].type, "empty", "sale", s.day, Cargo[s].empty)}
    BY DEF Moved, Row
  <2> QED BY <2>2, <2>3
<1>4. ASSUME NEW s \in some
      PROVE  out[s] = SumDelta({r \in full : keyF[r] = s})
  <2>1. {r \in full : keyF[r] = s}
          = {Row(s, Cargo[s].type, "full", "sale", s.day, -Cargo[s].qty)}
    <3>1. {r \in full : keyF[r] = s}
            = {r \in stock_ledger : r.reason = "sale" /\ r.condition = "full" /\ r.of = s}
      OBVIOUS
    <3> QED BY <3>1, <1>3
  <2>2. Row(s, Cargo[s].type, "full", "sale", s.day, -Cargo[s].qty).delta = out[s]
        /\ out[s] \in Int
    BY <1>2 DEF Row
  <2> QED BY <2>1, <2>2, DeltaSingle
<1>5. ASSUME NEW s \in some
      PROVE  back[s] = SumDelta({r \in empty : keyE[r] = s})
  <2>1. {r \in empty : keyE[r] = s}
          = IF Cargo[s].empty = 0 THEN {}
            ELSE {Row(s, Cargo[s].type, "empty", "sale", s.day, Cargo[s].empty)}
    <3>1. {r \in empty : keyE[r] = s}
            = {r \in stock_ledger : r.reason = "sale" /\ r.condition = "empty" /\ r.of = s}
      OBVIOUS
    <3> QED BY <3>1, <1>3
  <2>2. Row(s, Cargo[s].type, "empty", "sale", s.day, Cargo[s].empty).delta = back[s]
        /\ back[s] \in Int
    BY <1>2 DEF Row
  <2>3. CASE Cargo[s].empty = 0
    BY <2>1, <2>3, DeltaEmpty
  <2>4. CASE Cargo[s].empty # 0
    BY <2>1, <2>2, <2>4, DeltaSingle
  <2> QED BY <2>3, <2>4
<1>6. /\ DOMAIN taken = some /\ DOMAIN out = some /\ DOMAIN back = some
      /\ \A r \in full : keyF[r] \in some
      /\ \A r \in empty : keyE[r] \in some
      /\ full \in SUBSET stock_ledger /\ empty \in SUBSET stock_ledger
  OBVIOUS
<1>7. Qty(some) = SumFunction(taken) /\ EmptyQty(some) = SumFunction(back)
  BY DEF Qty, EmptyQty
<1> HIDE DEF full, empty, taken, out, back, keyF, keyE
<1>8. SumDelta(full) = SumFunction(out)
  BY <1>1, <1>4, <1>6, DeltaByKey
<1>9. SumDelta(empty) = SumFunction(back)
  BY <1>1, <1>5, <1>6, DeltaByKey
<1>10. SumFunction(out) = -SumFunction(taken)
  BY <1>1, <1>2, <1>6, FnNegated
<1> QED BY <1>7, <1>8, <1>9, <1>10 DEF full, empty

LinesOf(t, d) == {s \in Lines(Parties, d, d) : Cargo[s].type = t}

\* Sale lines of some parties in a range are of posted sales.
LEMMA LinesType ==
  ASSUME LogInv, NEW parties, NEW start, NEW end
  PROVE  /\ Lines(parties, start, end) \in SUBSET sales
         /\ \A s \in Lines(parties, start, end) :
              /\ s \in SaleSlips /\ s \in sales /\ s.day \in Int /\ s.day \in start .. end
              /\ s.party \in Parties /\ s.party \in parties /\ Cargo[s].type \in Types
BY SaleSlipType, CargoType DEF Lines, LogInv, LogTypeOK, TypeOK

\* What the overview shows as sold, and as come back, of a type on a day.
LEMMA OverviewSold ==
  ASSUME LogInv, NEW d \in Days, NEW t \in Types
  PROVE  FullSold(t, d) = Qty(LinesOf(t, d)) /\ EmptyReturned(t, d) = EmptyQty(LinesOf(t, d))
<1> DEFINE some == LinesOf(t, d)
<1>1. some \in SUBSET sales
  BY LinesType DEF LinesOf
<1>2. ASSUME NEW r \in stock_ledger, r.reason = "sale"
      PROVE  r.of \in some <=> r.item = t /\ r.day \in d .. d
  <2>1. r.of \in sales /\ r \in Moved(r.of)
    BY <1>2, StockRow
  <2>2. r.of \in SaleSlips
    BY <2>1 DEF LogInv, LogTypeOK, TypeOK
  <2>3. r.item = Cargo[r.of].type /\ r.day = r.of.day /\ r.of.party \in Parties
    BY <2>1, <2>2, MovedRows, SaleSlipType
  <2> QED BY <2>1, <2>3 DEF Lines, LinesOf
<1>3. Of(On(Full(t), d), "sale")
        = {r \in stock_ledger : r.reason = "sale" /\ r.condition = "full" /\ r.of \in some}
  BY <1>2 DEF Of, On, Between, Full
<1>4. Of(On(Empty(t), d), "sale")
        = {r \in stock_ledger : r.reason = "sale" /\ r.condition = "empty" /\ r.of \in some}
  BY <1>2 DEF Of, On, Between, Empty
<1> HIDE DEF some
<1>5. SumDelta(Of(On(Full(t), d), "sale")) = -Qty(some)
  BY <1>1, <1>3, MovedBySale
<1>6. SumDelta(Of(On(Empty(t), d), "sale")) = EmptyQty(some)
  BY <1>1, <1>4, MovedBySale
<1>7. Qty(some) \in Nat
  BY <1>1, SumsOfSales
<1> QED BY <1>5, <1>6, <1>7 DEF FullSold, EmptyReturned, some

\* A day's sales, type by type as the overview has them.
LEMMA SoldByType ==
  ASSUME LogInv, NEW d \in Days
  PROVE  /\ SumFunction([t \in Types |-> FullSold(t, d)]) = Qty(Lines(Parties, d, d))
         /\ SumFunction([t \in Types |-> EmptyReturned(t, d)]) = EmptyQty(Lines(Parties, d, d))
<1> DEFINE lines == Lines(Parties, d, d)
           key == [s \in lines |-> Cargo[s].type]
           full == [t \in Types |-> FullSold(t, d)]
           empty == [t \in Types |-> EmptyReturned(t, d)]
<1>1. lines \in SUBSET sales /\ IsFiniteSet(Types) /\ \A s \in lines : key[s] \in Types
  BY LinesType, StockLogAssumption
<1>2. \A t \in Types : LinesOf(t, d) = {s \in lines : key[s] = t}
  BY DEF LinesOf
<1>3. DOMAIN full = Types /\ DOMAIN empty = Types
      /\ \A t \in Types : /\ full[t] = Qty({s \in lines : key[s] = t})
                          /\ empty[t] = EmptyQty({s \in lines : key[s] = t})
  BY <1>2, OverviewSold
<1> HIDE DEF lines, key, full, empty
<1>4. Qty(lines) = SumFunction(full)
  BY <1>1, <1>3, QtyByKey
<1>5. EmptyQty(lines) = SumFunction(empty)
  BY <1>1, <1>3, EmptyByKey
<1> QED BY <1>4, <1>5 DEF lines, full, empty

\* A day's sales, boy by boy as the delivery report has them, and those of customers.
LEMMA SoldByParty ==
  ASSUME LogInv, NEW d \in Days
  PROVE  SumFunction([b \in Boys |-> CylindersReport(b, d, d)]) + Qty(Lines(Customers, d, d))
           = Qty(Lines(Parties, d, d))
<1> DEFINE own == Lines(Boys, d, d)
           rest == Lines(Customers, d, d)
           key == [s \in own |-> s.party]
           h == [b \in Boys |-> CylindersReport(b, d, d)]
<1>1. own \in SUBSET sales /\ rest \in SUBSET sales /\ IsFiniteSet(Boys)
      /\ \A s \in own : key[s] \in Boys
  BY LinesType, BooksAssumption
<1>2. Lines(Parties, d, d) = own \cup rest /\ own \cap rest = {}
  BY BooksAssumption DEF Lines, Parties
<1>3. \A b \in Boys : Lines({b}, d, d) = {s \in own : key[s] = b}
  BY DEF Lines
<1>4. DOMAIN h = Boys /\ \A b \in Boys : h[b] = Qty({s \in own : key[s] = b})
  BY <1>3 DEF CylindersReport
<1> HIDE DEF own, rest, key, h
<1>5. Qty(own) = SumFunction(h)
  BY <1>1, <1>4, QtyByKey
<1>6. Qty(own \cup rest) = Qty(own) + Qty(rest)
  BY <1>1, <1>2, QtyUnion
<1> QED BY <1>2, <1>5, <1>6 DEF rest, h

\* A day's loads, boy by boy as the day sheet has them, and type by type as the
\* movement has them.
LEMMA LoadedOnDay ==
  ASSUME LogInv, NEW d
  PROVE  /\ SumFunction([b \in Boys |-> LoadedBy(b, d)]) = Loaded({l \in loads : l.day = d})
         /\ SumFunction([t \in Types |-> MovementLoaded(t, d)]) = Loaded({l \in loads : l.day = d})
<1> DEFINE rows == {l \in loads : l.day = d}
           boyOf == [l \in rows |-> l.boy]
           typeOf == [l \in rows |-> l.type]
           byBoy == [b \in Boys |-> LoadedBy(b, d)]
           byType == [t \in Types |-> MovementLoaded(t, d)]
<1>1. /\ rows \in SUBSET loads /\ IsFiniteSet(Boys) /\ IsFiniteSet(Types)
      /\ \A l \in rows : boyOf[l] \in Boys /\ typeOf[l] \in Types
  BY SumsOfLoads, BooksAssumption, StockLogAssumption
<1>2. /\ \A b : {l \in loads : l.boy = b /\ l.day = d} = {l \in rows : boyOf[l] = b}
      /\ \A t : {l \in loads : l.type = t /\ l.day = d} = {l \in rows : typeOf[l] = t}
  OBVIOUS
<1>3. /\ DOMAIN byBoy = Boys /\ DOMAIN byType = Types
      /\ \A b \in Boys : byBoy[b] = Loaded({l \in rows : boyOf[l] = b})
      /\ \A t \in Types : byType[t] = Loaded({l \in rows : typeOf[l] = t})
  BY <1>2 DEF LoadedBy, MovementLoaded
<1> HIDE DEF rows, boyOf, typeOf, byBoy, byType
<1>4. Loaded(rows) = SumFunction(byBoy)
  BY <1>1, <1>3, LoadedByKey
<1>5. Loaded(rows) = SumFunction(byType)
  BY <1>1, <1>3, LoadedByKey
<1> QED BY <1>4, <1>5 DEF rows, byBoy, byType

\* DayViewsAgree follows from LogInv.
LEMMA ViewsOfDay == LogInv => DayViewsAgree
<1> SUFFICES ASSUME LogInv, NEW d \in Days
             PROVE  /\ \A t \in Types : /\ MovementSold(t, d) = FullSold(t, d)
                                        /\ MovementLeft(t, d) = FullClosing(t, d)
                    /\ SumFunction([t \in Types |-> FullSold(t, d)]) = EodCylinders(d)
                    /\ SumFunction([b \in Boys |-> CylindersReport(b, d, d)])
                         + Qty(Lines(Customers, d, d)) = EodCylinders(d)
                    /\ SumFunction([t \in Types |-> EmptyReturned(t, d)])
                         = EmptyQty(Lines(Parties, d, d))
                    /\ SumFunction([b \in Boys |-> LoadedBy(b, d)])
                         = SumFunction([t \in Types |-> MovementLoaded(t, d)])
  BY DEF DayViewsAgree
<1>1. \A t \in Types : MovementSold(t, d) = FullSold(t, d) /\ MovementLeft(t, d) = FullClosing(t, d)
  BY OverviewSold DEF MovementSold, MovementLeft, FullClosing, LinesOf
<1>2. SumFunction([t \in Types |-> FullSold(t, d)]) = EodCylinders(d)
  BY SoldByType DEF EodCylinders
<1>3. SumFunction([b \in Boys |-> CylindersReport(b, d, d)]) + Qty(Lines(Customers, d, d))
        = EodCylinders(d)
  BY SoldByParty DEF EodCylinders
<1>4. SumFunction([t \in Types |-> EmptyReturned(t, d)]) = EmptyQty(Lines(Parties, d, d))
  BY SoldByType
<1>5. SumFunction([b \in Boys |-> LoadedBy(b, d)]) = SumFunction([t \in Types |-> MovementLoaded(t, d)])
  BY LoadedOnDay
<1> QED BY <1>1, <1>2, <1>3, <1>4, <1>5

\* What was sold and what was loaded on a day is the same in every view, in every
\* reachable state (stock.py, analytics.py, reports.py, stock_loads.py).
THEOREM DayViewsAlwaysAgree == LogSpec => []DayViewsAgree
<1>1. LogInit => LogInv
  BY LogInitInv
<1>2. LogInv /\ [LogPost]_log => LogInv'
  BY LogNextInv
<1>3. LogInv => DayViewsAgree
  BY ViewsOfDay
<1> QED BY <1>1, <1>2, <1>3, PTL DEF LogSpec

-----------------------------------------------------------------------------
(* RangesAddUp.                                                            *)

\* A range of dates, and the days of it the month sheet shows, are finite.
LEMMA RangeType ==
  ASSUME NEW start \in Int, NEW end \in Int
  PROVE  /\ IsFiniteSet(start .. end) /\ \A d \in start .. end : d \in Int
         /\ IsFiniteSet(MonthDays(start, end)) /\ MonthDays(start, end) \subseteq start .. end
<1>1. IsFiniteSet(start .. end)
  BY FS_Interval
<1>2. MonthDays(start, end) \subseteq start .. end
  BY DEF MonthDays
<1> QED BY <1>1, <1>2, FS_Subset

KeyUpTo(rows, key, bound) == {r \in rows : key[r] <= bound}
KeyIn(rows, key, start, end) == {r \in rows : key[r] \in start .. end}

\* What is dated up to the end of a range: up to its start, or in it.
LEMMA SplitTotal ==
  ASSUME NEW rows, Amounts(rows), NEW key, \A r \in rows : key[r] \in Int,
         NEW start \in Int, NEW end \in Int, start <= end
  PROVE  /\ Total(KeyUpTo(rows, key, end))
              = Total(KeyUpTo(rows, key, start - 1))
                  + Total(KeyIn(rows, key, start, end))
         /\ Total(KeyUpTo(rows, key, start - 1)) \in Int
         /\ Total(KeyIn(rows, key, start, end)) \in Int
<1> DEFINE all == KeyUpTo(rows, key, end)
           early == KeyUpTo(rows, key, start - 1)
           late == KeyIn(rows, key, start, end)
<1>1. all = early \cup late /\ early \cap late = {}
  BY DEF KeyUpTo, KeyIn
<1>2. Amounts(all) /\ Amounts(early) /\ Amounts(late)
  BY AmountsSubset DEF KeyUpTo, KeyIn
<1> HIDE DEF all, early, late
<1>3. Total(all) = Total(early) + Total(late)
  BY <1>1, <1>2, TotalUnion
<1>4. Total(early) \in Int
  BY <1>2, TotalType
<1>5. Total(late) \in Int
  BY <1>2, TotalType
<1> QED BY <1>3, <1>4, <1>5 DEF all, early, late

\* The AC4 and ERV reports of a type sum the days of the overview.
LEMMA ReceivedInRange ==
  ASSUME LogInv, NEW start \in Int, NEW end \in Int, NEW t \in Types
  PROVE  /\ Ac4Report(t, start, end) = SumFunction([d \in start .. end |-> FullReceived(t, d)])
         /\ ErvReport(t, start, end) = SumFunction([d \in start .. end |-> EmptySent(t, d)])
<1> DEFINE days == start .. end
           in == Of(Between(Full(t), start, end), "ac4")
           out == Of(Between(Empty(t), start, end), "erv")
           received == [d \in days |-> FullReceived(t, d)]
           back == [d \in days |-> SumDelta(Of(On(Empty(t), d), "erv"))]
           sent == [d \in days |-> EmptySent(t, d)]
<1>1. IsFiniteSet(days) /\ \A d \in days : d \in Int
  BY RangeType
<1>2. /\ in \in SUBSET stock_ledger /\ out \in SUBSET stock_ledger
      /\ \A r \in in : r.day \in days
      /\ \A r \in out : r.day \in days
  BY DEF Of, Between, Full, Empty
<1>3. ASSUME NEW d \in days
      PROVE  /\ Of(On(Full(t), d), "ac4") = {r \in in : r.day = d}
             /\ Of(On(Empty(t), d), "erv") = {r \in out : r.day = d}
  <2>1. \A r \in stock_ledger : r.day \in d .. d <=> r.day = d /\ r.day \in days
    BY <1>1, StockRow
  <2> QED BY <2>1 DEF Of, On, Between, Full, Empty
<1>4. /\ DOMAIN received = days /\ DOMAIN back = days /\ DOMAIN sent = days
      /\ \A d \in days : /\ received[d] = SumDelta({r \in in : r.day = d})
                         /\ back[d] = SumDelta({r \in out : r.day = d})
                         /\ sent[d] = -back[d]
  BY <1>3 DEF FullReceived, EmptySent
<1>5. \A d \in days : back[d] \in Int
  <2>1. ASSUME NEW d \in days
        PROVE  SumDelta({r \in out : r.day = d}) \in Int
    BY <1>2, SumDeltaInt
  <2> QED BY <1>4, <2>1
<1> HIDE DEF days, in, out, received, back, sent
<1>6. SumDelta(in) = SumFunction(received)
  <2>1. \A d \in days : received[d] = SumDelta({r \in in : r.day = d})
    BY <1>4
  <2>2. DOMAIN received = days
    BY <1>4
  <2> QED BY <1>1, <1>2, <2>1, <2>2, DeltaByDay
<1>7. SumDelta(out) = SumFunction(back)
  <2>1. \A d \in days : back[d] = SumDelta({r \in out : r.day = d})
    BY <1>4
  <2>2. DOMAIN back = days
    BY <1>4
  <2> QED BY <1>1, <1>2, <2>1, <2>2, DeltaByDay
<1>8. SumFunction(sent) = -SumFunction(back)
  BY <1>1, <1>4, <1>5, FnNegated
<1> QED BY <1>6, <1>7, <1>8 DEF Ac4Report, ErvReport, days, in, out, received, sent

\* The empties sent to the plant, by the days of the month sheet and by type.
LEMMA SentInRange ==
  ASSUME LogInv, NEW start \in Int, NEW end \in Int
  PROVE  SumFunction([d \in MonthDays(start, end) |-> MonthErv(d)])
           = SumFunction([t \in Types |-> ErvReport(t, start, end)])
<1> DEFINE days == MonthDays(start, end)
           rows == {r \in Between(stock_ledger, start, end) :
                      r.reason = "erv" /\ r.condition = "empty"}
           byDay == [d \in days |->
                       SumDelta({r \in On(stock_ledger, d) : r.reason = "erv" /\ r.condition = "empty"})]
           byType == [t \in Types |-> SumDelta(Of(Between(Empty(t), start, end), "erv"))]
           month == [d \in days |-> MonthErv(d)]
           report == [t \in Types |-> ErvReport(t, start, end)]
<1>1. IsFiniteSet(days) /\ IsFiniteSet(Types) /\ \A d \in days : d \in Int /\ d \in start .. end
  BY RangeType, StockLogAssumption
<1>2. rows \in SUBSET stock_ledger /\ \A r \in rows : r.item \in Types /\ r.day \in days
  BY StockRow DEF Between, MonthDays
<1>3. \A t \in Types : Of(Between(Empty(t), start, end), "erv") = {r \in rows : r.item = t}
  BY DEF Of, Between, Empty
<1>4. ASSUME NEW d \in days
      PROVE  {r \in On(stock_ledger, d) : r.reason = "erv" /\ r.condition = "empty"}
               = {r \in rows : r.day = d}
  <2>1. \A r \in stock_ledger : r.day \in d .. d <=> r.day = d /\ r.day \in start .. end
    BY <1>1, StockRow
  <2> QED BY <2>1 DEF On, Between
<1>5. /\ DOMAIN byDay = days /\ DOMAIN month = days
      /\ DOMAIN byType = Types /\ DOMAIN report = Types
      /\ \A d \in days : byDay[d] = SumDelta({r \in rows : r.day = d}) /\ month[d] = -byDay[d]
      /\ \A t \in Types : byType[t] = SumDelta({r \in rows : r.item = t}) /\ report[t] = -byType[t]
  BY <1>3, <1>4 DEF MonthErv, ErvReport
<1>6. /\ \A d \in days : SumDelta({r \in rows : r.day = d}) \in Int
      /\ \A t \in Types : SumDelta({r \in rows : r.item = t}) \in Int
  <2>1. ASSUME NEW some \in SUBSET rows
        PROVE  SumDelta(some) \in Int
    BY <1>2, SumDeltaInt
  <2> HIDE DEF rows
  <2> QED BY <2>1
<1> HIDE DEF days, rows, byDay, byType, month, report
<1>7. SumDelta(rows) = SumFunction(byDay)
  BY <1>1, <1>2, <1>5, DeltaByDay
<1>8. SumDelta(rows) = SumFunction(byType)
  BY <1>2, <1>5, DeltaByItem
<1>9. SumFunction(month) = -SumFunction(byDay)
  BY <1>1, <1>5, <1>6, FnNegated
<1>10. SumFunction(report) = -SumFunction(byType)
  BY <1>1, <1>5, <1>6, FnNegated
<1> QED BY <1>7, <1>8, <1>9, <1>10 DEF days, month, report

\* The sale lines of a day are of the sales dated that day.
LEMMA LinesOfDay ==
  ASSUME LogInv, NEW d \in Int
  PROVE  Lines(Parties, d, d) = {s \in sales : s.day = d}
BY SaleSlipType DEF Lines, LogInv, LogTypeOK, TypeOK

\* What was sold in a range, by all its days or by those of the month sheet.
LEMMA SoldInRange ==
  ASSUME LogInv, NEW start \in Int, NEW end \in Int
  PROVE  SumFunction([d \in MonthDays(start, end) |-> MonthCylinders(d)])
           = SumFunction([d \in start .. end |-> EodCylinders(d)])
<1> DEFINE days == start .. end
           shown == MonthDays(start, end)
           some == {s \in sales : s.day \in days}
           key == [s \in some |-> s.day]
           month == [d \in shown |-> MonthCylinders(d)]
           eod == [d \in days |-> EodCylinders(d)]
<1>1. /\ IsFiniteSet(days) /\ IsFiniteSet(shown) /\ shown \subseteq days
      /\ \A d \in days : d \in Int
  BY RangeType
<1>2. some \in SUBSET sales /\ \A s \in some : key[s] \in days /\ key[s] \in shown
  BY DEF MonthDays
<1>3. \A d \in days : {s \in sales : s.day = d} = {s \in some : key[s] = d}
  OBVIOUS
<1>4. /\ DOMAIN month = shown /\ DOMAIN eod = days
      /\ \A d \in shown : month[d] = Qty({s \in some : key[s] = d})
      /\ \A d \in days : eod[d] = Qty({s \in some : key[s] = d})
  <2>1. \A d \in days : EodCylinders(d) = Qty({s \in sales : s.day = d})
    BY <1>1, LinesOfDay DEF EodCylinders
  <2>2. \A d \in days : MonthCylinders(d) = Qty({s \in sales : s.day = d})
    BY DEF MonthCylinders
  <2> HIDE DEF days, some, key
  <2> QED BY <1>1, <1>3, <2>1, <2>2
<1> HIDE DEF days, shown, some, key, month, eod
<1>5. Qty(some) = SumFunction(month)
  BY <1>1, <1>2, <1>4, QtyByKey
<1>6. Qty(some) = SumFunction(eod)
  BY <1>1, <1>2, <1>4, QtyByKey
<1> QED BY <1>5, <1>6 DEF days, shown, month, eod

\* The expense report is the difference of two cumulative totals of the box.
LEMMA SpentInRange ==
  ASSUME LogInv, NEW start \in Int, NEW end \in Int, start <= end
  PROVE  ExpenseReport(start, end) = Spent(end) - Spent(start - 1)
<1> DEFINE key == [e \in expenses |-> e.day]
<1>0. Amounts(expenses)
  BY TableTypes
<1>1. \A e \in expenses : key[e] \in Int
  BY ExpenseSlipType DEF LogInv, LogTypeOK, TypeOK
<1>2. /\ {e \in expenses : e.day <= end} = KeyUpTo(expenses, key, end)
      /\ {e \in expenses : e.day <= start - 1} = KeyUpTo(expenses, key, start - 1)
      /\ Between(expenses, start, end) = KeyIn(expenses, key, start, end)
  BY DEF Between, KeyUpTo, KeyIn
<1> HIDE DEF key
<1>3. /\ Total(KeyUpTo(expenses, key, end))
           = Total(KeyUpTo(expenses, key, start - 1))
               + Total(KeyIn(expenses, key, start, end))
      /\ Total(KeyUpTo(expenses, key, start - 1)) \in Int
      /\ Total(KeyIn(expenses, key, start, end)) \in Int
  BY <1>0, <1>1, SplitTotal
<1>4. /\ Spent(end) = Spent(start - 1) + ExpenseReport(start, end)
      /\ Spent(start - 1) \in Int /\ ExpenseReport(start, end) \in Int
  BY <1>2, <1>3 DEF ExpenseReport, Spent
<1> QED BY <1>4

\* The deposit report is that of the deposits, but for transfers out of a bank.
LEMMA DepositedInRange ==
  ASSUME LogInv, NEW start \in Int, NEW end \in Int, start <= end
  PROVE  SumFunction([to \in Accounts \cup {Outside} |-> DepositReport(to, start, end)])
           = Deposited(end) - Deposited(start - 1)
               + Total({t \in Between(transfers, start, end) : t.from # Box})
<1> DEFINE rows == Between(transfers, start, end)
           box == {t \in rows : t.from = Box}
           rest == {t \in rows : t.from # Box}
           some == {t \in transfers : t.from = Box}
           key == [t \in some |-> t.day]
           toOf == [t \in rows |-> t.to]
           ends == Accounts \cup {Outside}
           h == [to \in ends |-> DepositReport(to, start, end)]
<1>1. Amounts(rows) /\ Amounts(some) /\ Amounts(box) /\ Amounts(rest)
  BY TableTypes, AmountsSubset DEF Between
<1>2. /\ \A t \in rows : toOf[t] \in ends
      /\ \A t \in some : key[t] \in Int
  BY TransferSlipType DEF Between, LogInv, LogTypeOK, TypeOK
<1>3. IsFiniteSet(ends)
  BY BooksAssumption, FS_AddElement
<1>4. DOMAIN h = ends /\ \A to \in ends : h[to] = Total({t \in rows : toOf[t] = to})
  <2>1. \A to : {t \in rows : t.to = to} = {t \in rows : toOf[t] = to}
    OBVIOUS
  <2> QED BY <2>1 DEF DepositReport
<1>5. rows = box \cup rest /\ box \cap rest = {}
  OBVIOUS
<1>6. /\ {t \in transfers : t.from = Box /\ t.day <= end} = KeyUpTo(some, key, end)
      /\ {t \in transfers : t.from = Box /\ t.day <= start - 1} = KeyUpTo(some, key, start - 1)
      /\ box = KeyIn(some, key, start, end)
  BY DEF Between, KeyUpTo, KeyIn
<1> HIDE DEF rows, box, rest, some, key, toOf, ends, h
<1>7. Total(rows) = SumFunction(h)
  BY <1>1, <1>2, <1>3, <1>4, TotalFibres
<1>8. Total(rows) = Total(box) + Total(rest)
  BY <1>1, <1>5, TotalUnion
<1>9. /\ Total(KeyUpTo(some, key, end))
           = Total(KeyUpTo(some, key, start - 1))
               + Total(KeyIn(some, key, start, end))
      /\ Total(KeyUpTo(some, key, start - 1)) \in Int
      /\ Total(KeyIn(some, key, start, end)) \in Int
  <2>1. Amounts(some) /\ \A r \in some : key[r] \in Int
    BY <1>1, <1>2
  <2> QED BY <2>1, SplitTotal
<1>10. Total(rest) \in Int
  BY <1>1, TotalType
<1>11. /\ Deposited(end) = Deposited(start - 1) + Total(box)
       /\ Deposited(start - 1) \in Int /\ Total(box) \in Int
  BY <1>6, <1>9 DEF Deposited
<1>12. SumFunction(h) = Deposited(end) - Deposited(start - 1) + Total(rest)
  BY <1>7, <1>8, <1>10, <1>11
<1> QED BY <1>12 DEF h, ends, rest, rows

\* The end of day takes cash from the ledger and UPI from the sales, the month
\* sheet both from the ledger rows of each sale.
LEMMA NetOfDay ==
  ASSUME LogInv, NEW d \in Int
  PROVE  /\ EodCash(d) + EodUpi(d)
              = SumFunction([s \in {x \in sales : x.day = d} |-> MonthTotal(s)])
         /\ MonthNet(d) = EodCash(d) + EodUpi(d) - EodExpenses(d)
         /\ EodCash(d) \in Int /\ EodUpi(d) \in Int /\ EodExpenses(d) \in Int
         /\ EodOnline(d) \in Int
<1> DEFINE some == {x \in sales : x.day = d}
           cash == [s \in some |-> s.cash]
           upi == [s \in some |-> s.upi]
           online == [s \in some |-> s.online]
           both == [s \in some |-> MonthTotal(s)]
<1>1. some \in SUBSET sales /\ IsFiniteSet(some) /\ Lines(Parties, d, d) = some
  BY LinesOfDay, FS_Subset DEF LogInv, Finite
<1>2. \A s \in some : /\ cash[s] \in Int /\ upi[s] \in Int /\ online[s] \in Int
                      /\ both[s] = cash[s] + upi[s]
                      /\ cash[s] = Total(RowsOfSale(s, {"cash"}))
  BY SaleSlipType, MonthTotalOfSale, SaleAmounts DEF LogInv, LogTypeOK, TypeOK
<1>3. DOMAIN cash = some /\ DOMAIN upi = some /\ DOMAIN online = some /\ DOMAIN both = some
  OBVIOUS
<1>4. EodCash(d) = SumFunction(cash)
  <2>1. {r \in SaleRows({"cash"}) : r.of.day = d} = {r \in SaleRows({"cash"}) : r.of \in some}
    BY DEF SaleRows
  <2> HIDE DEF some, cash, upi, online, both
  <2>2. \A s \in some : cash[s] = Total(RowsOfSale(s, {"cash"}))
    BY <1>2
  <2>3. some \in SUBSET sales /\ DOMAIN cash = some
    BY <1>1, <1>3
  <2>4. Total({r \in SaleRows({"cash"}) : r.of \in some}) = SumFunction(cash)
    BY <2>2, <2>3, SaleRowsBySale
  <2> QED BY <2>1, <2>4 DEF EodCash
<1>5. EodUpi(d) = SumFunction(upi) /\ EodOnline(d) = SumFunction(online)
  BY <1>1 DEF EodUpi, EodOnline
<1>6. EodExpenses(d) \in Int
  BY TableTypes, AmountsSubset, TotalType DEF EodExpenses
<1>7. MonthNet(d) = SumFunction(both) - EodExpenses(d)
  BY DEF MonthNet, EodExpenses
<1> HIDE DEF some, cash, upi, online, both
<1>8. SumFunction(both) = SumFunction(cash) + SumFunction(upi)
  BY <1>1, <1>2, <1>3, FnPlus
<1>9. SumFunction(cash) \in Int
  BY <1>1, <1>2, <1>3, FnType
<1>10. SumFunction(upi) \in Int
  BY <1>1, <1>2, <1>3, FnType
<1>11. SumFunction(online) \in Int
  BY <1>1, <1>2, <1>3, FnType
<1>12. EodCash(d) + EodUpi(d) = SumFunction(both)
  BY <1>4, <1>5, <1>8
<1> QED BY <1>4, <1>5, <1>6, <1>7, <1>9, <1>10, <1>11, <1>12 DEF both, some

\* The profit of a range.
LEMMA ProfitInRange ==
  ASSUME LogInv, NEW start \in Int, NEW end \in Int
  PROVE  SumFunction([d \in start .. end |-> EodProfit(d)])
           = SumFunction([d \in MonthDays(start, end) |-> MonthNet(d)])
               + SumFunction([d \in start .. end |-> EodOnline(d)])
<1> DEFINE days == start .. end
           shown == MonthDays(start, end)
           profit == [d \in days |-> EodProfit(d)]
           net == [d \in days |-> MonthNet(d)]
           online == [d \in days |-> EodOnline(d)]
<1>1. IsFiniteSet(days) /\ IsFiniteSet(shown) /\ \A d \in days : d \in Int
  BY RangeType
<1>2. \A d \in days : /\ net[d] \in Int /\ online[d] \in Int
                      /\ profit[d] = net[d] + online[d]
  <2> SUFFICES ASSUME NEW d \in days
               PROVE  MonthNet(d) \in Int /\ EodOnline(d) \in Int
                      /\ EodProfit(d) = MonthNet(d) + EodOnline(d)
    OBVIOUS
  <2>1. d \in Int
    BY <1>1
  <2> HIDE DEF days
  <2>2. /\ MonthNet(d) = EodCash(d) + EodUpi(d) - EodExpenses(d)
        /\ EodCash(d) \in Int /\ EodUpi(d) \in Int /\ EodExpenses(d) \in Int
        /\ EodOnline(d) \in Int
    BY <2>1, NetOfDay
  <2> QED BY <2>2 DEF EodProfit
<1>3. DOMAIN profit = days /\ DOMAIN net = days /\ DOMAIN online = days
  OBVIOUS
<1>4. /\ {r \in SaleRows({"cash", "upi"}) : r.of.day \in shown}
           = {r \in SaleRows({"cash", "upi"}) : r.of.day \in days}
      /\ {e \in expenses : e.day \in shown} = {e \in expenses : e.day \in days}
  BY DEF SaleRows, MonthDays
<1> HIDE DEF days, shown
<1>5. SumFunction([d \in days |-> MonthNet(d)]) = SumFunction([d \in shown |-> MonthNet(d)])
  <2>1. SumFunction([d \in days |-> MonthNet(d)])
          = Total({r \in SaleRows({"cash", "upi"}) : r.of.day \in days})
              - Total({e \in expenses : e.day \in days})
    BY <1>1, MonthNets
  <2>2. SumFunction([d \in shown |-> MonthNet(d)])
          = Total({r \in SaleRows({"cash", "upi"}) : r.of.day \in shown})
              - Total({e \in expenses : e.day \in shown})
    BY <1>1, MonthNets
  <2> QED BY <1>4, <2>1, <2>2
<1> HIDE DEF profit, net, online
<1>6. SumFunction(profit) = SumFunction(net) + SumFunction(online)
  BY <1>1, <1>2, <1>3, FnPlus
<1> QED BY <1>5, <1>6 DEF profit, net, online, days, shown

\* The first half of RangesAddUp.
LEMMA RangeReports == LogInv => ReportsAddUp
<1> SUFFICES ASSUME LogInv, NEW start \in Days, NEW end \in Days, start <= end
             PROVE  /\ \A t \in Types :
                         /\ Ac4Report(t, start, end)
                              = SumFunction([d \in start .. end |-> FullReceived(t, d)])
                         /\ ErvReport(t, start, end)
                              = SumFunction([d \in start .. end |-> EmptySent(t, d)])
                    /\ SumFunction([d \in MonthDays(start, end) |-> MonthErv(d)])
                         = SumFunction([t \in Types |-> ErvReport(t, start, end)])
                    /\ SumFunction([d \in MonthDays(start, end) |-> MonthCylinders(d)])
                         = SumFunction([d \in start .. end |-> EodCylinders(d)])
                    /\ ExpenseReport(start, end) = Spent(end) - Spent(start - 1)
                    /\ SumFunction([d \in start .. end |-> EodProfit(d)])
                         = SumFunction([d \in MonthDays(start, end) |-> MonthNet(d)])
                             + SumFunction([d \in start .. end |-> EodOnline(d)])
                    /\ SumFunction([to \in Accounts \cup {Outside} |-> DepositReport(to, start, end)])
                         = Deposited(end) - Deposited(start - 1)
                             + Total({t \in Between(transfers, start, end) : t.from # Box})
  BY DEF ReportsAddUp
<1>0. start \in Int /\ end \in Int
  BY BooksAssumption
<1>1. \A t \in Types :
        /\ Ac4Report(t, start, end) = SumFunction([d \in start .. end |-> FullReceived(t, d)])
        /\ ErvReport(t, start, end) = SumFunction([d \in start .. end |-> EmptySent(t, d)])
  BY <1>0, ReceivedInRange
<1>2. SumFunction([d \in MonthDays(start, end) |-> MonthErv(d)])
        = SumFunction([t \in Types |-> ErvReport(t, start, end)])
  BY <1>0, SentInRange
<1>3. SumFunction([d \in MonthDays(start, end) |-> MonthCylinders(d)])
        = SumFunction([d \in start .. end |-> EodCylinders(d)])
  BY <1>0, SoldInRange
<1>4. ExpenseReport(start, end) = Spent(end) - Spent(start - 1)
  BY <1>0, SpentInRange
<1>5. SumFunction([d \in start .. end |-> EodProfit(d)])
        = SumFunction([d \in MonthDays(start, end) |-> MonthNet(d)])
            + SumFunction([d \in start .. end |-> EodOnline(d)])
  BY <1>0, ProfitInRange
<1>6. SumFunction([to \in Accounts \cup {Outside} |-> DepositReport(to, start, end)])
        = Deposited(end) - Deposited(start - 1)
            + Total({t \in Between(transfers, start, end) : t.from # Box})
  BY <1>0, DepositedInRange
<1> QED BY <1>1, <1>2, <1>3, <1>4, <1>5, <1>6

\* What was collected in a range of days, day by day.
LEMMA CollectedInRange ==
  ASSUME LogInv, NEW start \in Int, NEW end \in Int, start <= end
  PROVE  SumFunction([d \in start .. end |-> EodCash(d) + EodUpi(d)])
           = Collected(end) - Collected(start - 1)
<1> DEFINE days == start .. end
           all == SaleRows({"cash", "upi"})
           rows == {r \in all : r.of.day \in days}
           dayOf == [r \in all |-> r.of.day]
           h == [d \in days |-> EodCash(d) + EodUpi(d)]
<1>1. IsFiniteSet(days) /\ \A d \in days : d \in Int
  BY RangeType
<1>2. Amounts(all) /\ Amounts(rows)
  BY TableTypes, AmountsSubset DEF SaleRows
<1>3. \A r \in all : dayOf[r] \in Int
  BY SaleSlipType DEF SaleRows, LogInv, LogTypeOK, TypeOK
<1>4. ASSUME NEW d \in days
      PROVE  h[d] = Total({r \in rows : dayOf[r] = d})
  <2>1. {r \in rows : dayOf[r] = d} = {r \in all : r.of.day \in {d}}
    OBVIOUS
  <2>2. Total({r \in all : r.of.day \in {d}})
          = SumFunction([s \in {x \in sales : x.day \in {d}} |-> MonthTotal(s)])
    BY CollectedBySale
  <2>3. {x \in sales : x.day \in {d}} = {x \in sales : x.day = d}
    OBVIOUS
  <2>4. h[d] = SumFunction([s \in {x \in sales : x.day = d} |-> MonthTotal(s)])
    <3>1. d \in Int
      BY <1>1
    <3> QED BY <3>1, NetOfDay
  <2> HIDE DEF h, all, rows, dayOf
  <2> QED BY <2>1, <2>2, <2>3, <2>4
<1>5. DOMAIN h = days /\ \A r \in rows : dayOf[r] \in days
  OBVIOUS
<1>6. /\ {r \in all : r.of.day <= end} = KeyUpTo(all, dayOf, end)
      /\ {r \in all : r.of.day <= start - 1} = KeyUpTo(all, dayOf, start - 1)
      /\ rows = KeyIn(all, dayOf, start, end)
  BY DEF KeyUpTo, KeyIn
<1> HIDE DEF days, all, rows, dayOf, h
<1>7. Total(rows) = SumFunction(h)
  BY <1>1, <1>2, <1>4, <1>5, TotalFibres
<1>8. /\ Total(KeyUpTo(all, dayOf, end))
           = Total(KeyUpTo(all, dayOf, start - 1)) + Total(KeyIn(all, dayOf, start, end))
      /\ Total(KeyUpTo(all, dayOf, start - 1)) \in Int
      /\ Total(KeyIn(all, dayOf, start, end)) \in Int
  BY <1>2, <1>3, SplitTotal
<1>9. /\ Collected(end) = Collected(start - 1) + Total(rows)
      /\ Collected(start - 1) \in Int /\ Total(rows) \in Int
  BY <1>6, <1>8 DEF Collected, all
<1>10. SumFunction(h) = Collected(end) - Collected(start - 1)
  BY <1>7, <1>9
<1> QED BY <1>10 DEF h, days

\* A trend has the last date asked for and sums to what the box collected, for a
\* window of any number of days (collections_trend).
LEMMA TrendOfWindow ==
  ASSUME LogInv, NEW end \in Days, NEW days \in Int
  PROVE  /\ end \in DOMAIN Trend(end, days)
         /\ SumFunction(Trend(end, days))
              = Collected(end) - Collected(end - Max({1, days}))
<1>1. end \in Int
  BY BooksAssumption
<1>2. Max({1, days}) = IF days < 1 THEN 1 ELSE days
  BY <1>1 DEF Max
<1>3. /\ Start(end, days) \in Int /\ Start(end, days) <= end
      /\ Start(end, days) - 1 = end - Max({1, days})
  BY <1>1, <1>2 DEF Start
<1>4. SumFunction([d \in Start(end, days) .. end |-> EodCash(d) + EodUpi(d)])
        = Collected(end) - Collected(Start(end, days) - 1)
  BY <1>1, <1>3, CollectedInRange
<1>5. end \in DOMAIN Trend(end, days)
  BY <1>1, <1>3 DEF Trend
<1> QED BY <1>3, <1>4, <1>5 DEF Trend

\* The second half of RangesAddUp.
LEMMA TrendFromBox == LogInv => TrendIsBox
<1> SUFFICES ASSUME LogInv, NEW end \in Days, NEW days \in 0 .. 2
             PROVE  /\ end \in DOMAIN Trend(end, days)
                    /\ SumFunction(Trend(end, days))
                         = Collected(end) - Collected(end - Max({1, days}))
  BY DEF TrendIsBox
<1> QED BY TrendOfWindow

\* The figures of a range of dates are those of its days, in every reachable
\* state (reports.py, analytics.py).
THEOREM RangesAlwaysAddUp == LogSpec => []RangesAddUp
<1>1. LogInit => LogInv
  BY LogInitInv
<1>2. LogInv /\ [LogPost]_log => LogInv'
  BY LogNextInv
<1>3. LogInv => RangesAddUp
  BY RangeReports, TrendFromBox DEF RangesAddUp
<1> QED BY <1>1, <1>2, <1>3, PTL DEF LogSpec

-----------------------------------------------------------------------------
(* What a reader of the day sheet or of the cashier box knows.             *)

\* Statements bounded by the day before, and those that only grow.
Openings ==
  {"collected0", "expenses0", "deposits0", "cash0", "cashExpenses0", "openingStock"}
Growing == {"collected", "expenses", "deposits", "cash", "cashExpenses"}

ReaderOK ==
  /\ reader \in [endpoint : {"none", "box", "sheet"}, day : Int, ran : Nat]
  /\ quiet \in BOOLEAN /\ backdated \in BOOLEAN
  /\ ~Asked => got = <<>>
  /\ Asked =>
       /\ reader.day \in Days
       /\ \A i \in 1 .. reader.ran : Plan(reader.endpoint)[i] \in DOMAIN got

\* While nothing is committed every result is still what its statement would
\* return; while nothing dated earlier is, those of the day before are; and what
\* is summed up to the day lies between what it was the day before and what it
\* is now.
ResultsOK(d) ==
  /\ quiet => \A q \in DOMAIN got : got[q] = Result(q, d)
  /\ ~backdated => \A q \in DOMAIN got \cap Openings : got[q] = Result(q, d)
  /\ \A q \in DOMAIN got \cap Growing :
       /\ got[q] \in Int /\ got[q] <= Result(q, d)
       /\ ~backdated => Result(q, d - 1) <= got[q]

ReadInv == ReaderOK /\ \A d \in Days : Asked /\ reader.day = d => ResultsOK(d)

DayInv == LogInv /\ ReadInv

\* What the statements of the cashier box and of the stock ends return.
LEMMA ResultValues ==
  ASSUME NEW d
  PROVE  /\ Result("collected0", d) = Collected(d - 1)
         /\ Result("expenses0", d) = Spent(d - 1)
         /\ Result("deposits0", d) = Deposited(d - 1)
         /\ Result("cash0", d) = CashCollected(d - 1)
         /\ Result("cashExpenses0", d) = CashSpent(d - 1)
         /\ Result("openingStock", d) = Warehouse(d - 1)
         /\ Result("collected", d) = Collected(d)
         /\ Result("expenses", d) = Spent(d)
         /\ Result("deposits", d) = Deposited(d)
         /\ Result("cash", d) = CashCollected(d)
         /\ Result("cashExpenses", d) = CashSpent(d)
         /\ Result("closingStock", d) = Warehouse(d)
BY DEF Result, Eve

\* A statement returns the same while nothing is committed.
LEMMA ResultUnchanged ==
  ASSUME UNCHANGED log, NEW d, NEW q
  PROVE  Result(q, d)' = Result(q, d)
BY DEF log, books, stock, Collected, Spent, Deposited, CashCollected, CashSpent, Warehouse, SaleRows,
       Total, SumDelta, Agg, CashOfAll, CashOf, SalesOf, Qty, EmptyQty, Result, Eve, LoadedBy,
       ReturnedBy, ChargesOn

\* A posting only adds rows to the money tables.
LEMMA LogGrows ==
  ASSUME LogInv, [LogPost]_log
  PROVE  /\ sales \subseteq sales' /\ expenses \subseteq expenses'
         /\ transfers \subseteq transfers' /\ cash_ledger \subseteq cash_ledger'
<1>1. ASSUME UNCHANGED log
      PROVE  /\ sales \subseteq sales' /\ expenses \subseteq expenses'
             /\ transfers \subseteq transfers' /\ cash_ledger \subseteq cash_ledger'
  BY <1>1 DEF log, books
<1>2. ASSUME PostMoney
      PROVE  /\ sales \subseteq sales' /\ expenses \subseteq expenses'
             /\ transfers \subseteq transfers' /\ cash_ledger \subseteq cash_ledger'
  BY <1>2 DEF PostMoney, CreateExpense, RefuseExpense, Undone, CreateTransfer, RefuseTransfer,
              CreateEntry, RefuseEntry, SetActive, books
<1>3. ASSUME NEW s \in SaleSlips, Sell(s)
      PROVE  /\ sales \subseteq sales' /\ expenses \subseteq expenses'
             /\ transfers \subseteq transfers' /\ cash_ledger \subseteq cash_ledger'
  BY <1>3 DEF Sell, PostSale
<1> QED BY <1>1, <1>2, <1>3 DEF LogPost, Record, UpsertLoad, RefuseLoad, books

\* The rows behind the sums of the box have amounts from 0 on.
LEMMA BoxRows ==
  ASSUME LogInv, NEW kinds \in SUBSET {"cash", "upi", "online"}
  PROVE  /\ IsFiniteSet(SaleRows(kinds))
         /\ \A r \in SaleRows(kinds) : r.amount \in Nat /\ r.of.day \in Int
<1>1. ASSUME NEW r \in SaleRows(kinds)
      PROVE  r.amount \in Nat /\ r.of.day \in Int
  <2>1. r.of \in sales /\ r \in Paid(r.of) /\ r.of \in SaleSlips
    BY LedgerRow DEF SaleRows, LogInv, LogTypeOK, TypeOK
  <2> QED BY <2>1, PaidRows, SaleSlipType
<1>2. IsFiniteSet(SaleRows(kinds))
  BY FS_Subset DEF SaleRows, LogInv, Finite
<1> QED BY <1>1, <1>2

\* Expenses and transfers have amounts from 0 on.
LEMMA PaperRows ==
  ASSUME LogInv
  PROVE  /\ IsFiniteSet(expenses) /\ \A e \in expenses : e.amount \in Nat /\ e.day \in Int
         /\ IsFiniteSet(transfers) /\ \A t \in transfers : t.amount \in Nat /\ t.day \in Int
BY ExpenseSlipType, TransferSlipType DEF LogInv, LogTypeOK, TypeOK, Finite

\* A later bound covers more.
LEMMA LaterBound ==
  ASSUME LogInv, NEW b \in Int
  PROVE  /\ Collected(b - 1) <= Collected(b) /\ Spent(b - 1) <= Spent(b)
         /\ Deposited(b - 1) <= Deposited(b) /\ CashCollected(b - 1) <= CashCollected(b)
         /\ CashSpent(b - 1) <= CashSpent(b)
<1>1. ASSUME NEW all, IsFiniteSet(all), \A r \in all : r.amount \in Nat, NEW some \in SUBSET all
      PROVE  Total(some) <= Total(all)
  BY <1>1, TotalMonotone
<1>2. Collected(b - 1) <= Collected(b)
  <2> DEFINE all == {r \in SaleRows({"cash", "upi"}) : r.of.day <= b}
             some == {r \in SaleRows({"cash", "upi"}) : r.of.day <= b - 1}
  <2>1. IsFiniteSet(all) /\ (\A r \in all : r.amount \in Nat) /\ some \in SUBSET all
    BY BoxRows, FS_Subset
  <2> HIDE DEF all, some
  <2>2. Total(some) <= Total(all)
    BY <1>1, <2>1
  <2> QED BY <2>2 DEF Collected, all, some
<1>3. CashCollected(b - 1) <= CashCollected(b)
  <2> DEFINE all == {r \in SaleRows({"cash"}) : r.of.day <= b}
             some == {r \in SaleRows({"cash"}) : r.of.day <= b - 1}
  <2>1. IsFiniteSet(all) /\ (\A r \in all : r.amount \in Nat) /\ some \in SUBSET all
    BY BoxRows, FS_Subset
  <2> HIDE DEF all, some
  <2>2. Total(some) <= Total(all)
    BY <1>1, <2>1
  <2> QED BY <2>2 DEF CashCollected, all, some
<1>4. Spent(b - 1) <= Spent(b)
  <2> DEFINE all == {e \in expenses : e.day <= b}
             some == {e \in expenses : e.day <= b - 1}
  <2>1. IsFiniteSet(all) /\ (\A r \in all : r.amount \in Nat) /\ some \in SUBSET all
    BY PaperRows, FS_Subset
  <2> HIDE DEF all, some
  <2>2. Total(some) <= Total(all)
    BY <1>1, <2>1
  <2> QED BY <2>2 DEF Spent, all, some
<1>5. CashSpent(b - 1) <= CashSpent(b)
  <2> DEFINE all == {e \in expenses : e.method = "cash" /\ e.day <= b}
             some == {e \in expenses : e.method = "cash" /\ e.day <= b - 1}
  <2>1. IsFiniteSet(all) /\ (\A r \in all : r.amount \in Nat) /\ some \in SUBSET all
    BY PaperRows, FS_Subset
  <2> HIDE DEF all, some
  <2>2. Total(some) <= Total(all)
    BY <1>1, <2>1
  <2> QED BY <2>2 DEF CashSpent, all, some
<1>6. Deposited(b - 1) <= Deposited(b)
  <2> DEFINE all == {t \in transfers : t.from = Box /\ t.day <= b}
             some == {t \in transfers : t.from = Box /\ t.day <= b - 1}
  <2>1. IsFiniteSet(all) /\ (\A r \in all : r.amount \in Nat) /\ some \in SUBSET all
    BY PaperRows, FS_Subset
  <2> HIDE DEF all, some
  <2>2. Total(some) <= Total(all)
    BY <1>1, <2>1
  <2> QED BY <2>2 DEF Deposited, all, some
<1> QED BY <1>2, <1>3, <1>4, <1>5, <1>6

\* A posting never makes such a sum smaller.
LEMMA SumsGrow ==
  ASSUME LogInv, LogInv', [LogPost]_log, NEW b
  PROVE  /\ Collected(b) <= Collected(b)' /\ Spent(b) <= Spent(b)'
         /\ Deposited(b) <= Deposited(b)' /\ CashCollected(b) <= CashCollected(b)'
         /\ CashSpent(b) <= CashSpent(b)'
         /\ Collected(b)' \in Int /\ Spent(b)' \in Int /\ Deposited(b)' \in Int
         /\ CashCollected(b)' \in Int /\ CashSpent(b)' \in Int
<1>1. ASSUME NEW all, IsFiniteSet(all), \A r \in all : r.amount \in Nat, NEW some \in SUBSET all
      PROVE  Total(some) <= Total(all) /\ Total(all) \in Int
  <2>1. Amounts(all)
    BY <1>1 DEF Amounts
  <2> QED BY <1>1, <2>1, TotalMonotone, TotalType
<1>2. /\ sales \subseteq sales' /\ expenses \subseteq expenses'
      /\ transfers \subseteq transfers' /\ cash_ledger \subseteq cash_ledger'
  BY LogGrows
<1>3. /\ IsFiniteSet(expenses') /\ \A e \in expenses' : e.amount \in Nat
      /\ IsFiniteSet(transfers') /\ \A t \in transfers' : t.amount \in Nat
  BY ExpenseSlipType, TransferSlipType DEF LogInv, LogTypeOK, TypeOK, Finite
<1>4. \A r \in cash_ledger' : r.kind \in {"cash", "upi"} => r.amount \in Nat
  BY PaidRows, BookedRows DEF LogInv, LogTypeOK, TypeOK, RowsOfSlips
<1>5. Collected(b) <= Collected(b)' /\ Collected(b)' \in Int
  <2> DEFINE all == {r \in cash_ledger' :
                       r.kind \in {"cash", "upi"} /\ r.of \in sales' /\ r.of.day <= b}
             some == {r \in cash_ledger :
                        r.kind \in {"cash", "upi"} /\ r.of \in sales /\ r.of.day <= b}
  <2>1. IsFiniteSet(all) /\ (\A r \in all : r.amount \in Nat) /\ some \in SUBSET all
    BY <1>2, <1>4, FS_Subset DEF LogInv, Finite
  <2>2. /\ {r \in SaleRows({"cash", "upi"}) : r.of.day <= b} = some
        /\ {r \in SaleRows({"cash", "upi"}) : r.of.day <= b}' = all
    BY DEF SaleRows
  <2> HIDE DEF all, some
  <2>3. Total(some) <= Total(all) /\ Total(all) \in Int
    BY <1>1, <2>1
  <2> QED BY <2>2, <2>3 DEF Collected
<1>6. CashCollected(b) <= CashCollected(b)' /\ CashCollected(b)' \in Int
  <2> DEFINE all == {r \in cash_ledger' :
                       r.kind \in {"cash"} /\ r.of \in sales' /\ r.of.day <= b}
             some == {r \in cash_ledger :
                        r.kind \in {"cash"} /\ r.of \in sales /\ r.of.day <= b}
  <2>1. IsFiniteSet(all) /\ (\A r \in all : r.amount \in Nat) /\ some \in SUBSET all
    BY <1>2, <1>4, FS_Subset DEF LogInv, Finite
  <2>2. /\ {r \in SaleRows({"cash"}) : r.of.day <= b} = some
        /\ {r \in SaleRows({"cash"}) : r.of.day <= b}' = all
    BY DEF SaleRows
  <2> HIDE DEF all, some
  <2>3. Total(some) <= Total(all) /\ Total(all) \in Int
    BY <1>1, <2>1
  <2> QED BY <2>2, <2>3 DEF CashCollected
<1>7. Spent(b) <= Spent(b)' /\ Spent(b)' \in Int
  <2> DEFINE all == {e \in expenses' : e.day <= b}
             some == {e \in expenses : e.day <= b}
  <2>1. IsFiniteSet(all) /\ (\A r \in all : r.amount \in Nat) /\ some \in SUBSET all
    BY <1>2, <1>3, FS_Subset
  <2> HIDE DEF all, some
  <2>2. Total(some) <= Total(all) /\ Total(all) \in Int
    BY <1>1, <2>1
  <2> QED BY <2>2 DEF Spent, all, some
<1>8. CashSpent(b) <= CashSpent(b)' /\ CashSpent(b)' \in Int
  <2> DEFINE all == {e \in expenses' : e.method = "cash" /\ e.day <= b}
             some == {e \in expenses : e.method = "cash" /\ e.day <= b}
  <2>1. IsFiniteSet(all) /\ (\A r \in all : r.amount \in Nat) /\ some \in SUBSET all
    BY <1>2, <1>3, FS_Subset
  <2> HIDE DEF all, some
  <2>2. Total(some) <= Total(all) /\ Total(all) \in Int
    BY <1>1, <2>1
  <2> QED BY <2>2 DEF CashSpent, all, some
<1>9. Deposited(b) <= Deposited(b)' /\ Deposited(b)' \in Int
  <2> DEFINE all == {t \in transfers' : t.from = Box /\ t.day <= b}
             some == {t \in transfers : t.from = Box /\ t.day <= b}
  <2>1. IsFiniteSet(all) /\ (\A r \in all : r.amount \in Nat) /\ some \in SUBSET all
    BY <1>2, <1>3, FS_Subset
  <2> HIDE DEF all, some
  <2>2. Total(some) <= Total(all) /\ Total(all) \in Int
    BY <1>1, <2>1
  <2> QED BY <2>2 DEF Deposited, all, some
<1> QED BY <1>5, <1>6, <1>7, <1>8, <1>9

\* The sums of the box are integers.
LEMMA BoxSumsInt ==
  ASSUME LogInv, NEW b
  PROVE  /\ Collected(b) \in Int /\ Spent(b) \in Int /\ Deposited(b) \in Int
         /\ CashCollected(b) \in Int /\ CashSpent(b) \in Int
<1>1. {r \in SaleRows({"cash", "upi"}) : r.of.day <= b} \subseteq cash_ledger
  BY DEF SaleRows
<1>2. {r \in SaleRows({"cash"}) : r.of.day <= b} \subseteq cash_ledger
  BY DEF SaleRows
<1>3. Collected(b) \in Int
  BY <1>1, TableTypes, AmountsSubset, TotalType DEF Collected
<1>4. CashCollected(b) \in Int
  BY <1>2, TableTypes, AmountsSubset, TotalType DEF CashCollected
<1>5. Spent(b) \in Int
  BY TableTypes, AmountsSubset, TotalType DEF Spent
<1>6. CashSpent(b) \in Int
  BY TableTypes, AmountsSubset, TotalType DEF CashSpent
<1>7. Deposited(b) \in Int
  BY TableTypes, AmountsSubset, TotalType DEF Deposited
<1> QED BY <1>3, <1>4, <1>5, <1>6, <1>7

\* The statements that only grow: with the bound, and with what is posted.
LEMMA GrowingResults ==
  ASSUME LogInv, NEW q \in Growing, NEW d \in Int
  PROVE  Result(q, d) \in Int /\ Result(q, d - 1) \in Int /\ Result(q, d - 1) <= Result(q, d)
BY ResultValues, LaterBound, BoxSumsInt DEF Growing

\* And with what is posted.
LEMMA GrowingPosted ==
  ASSUME LogInv, LogInv', [LogPost]_log, NEW q \in Growing, NEW d
  PROVE  Result(q, d) \in Int /\ Result(q, d)' \in Int /\ Result(q, d) <= Result(q, d)'
<1>1. Result(q, d) \in Int
  BY ResultValues, BoxSumsInt DEF Growing
<1>2. /\ Result("collected", d)' = Collected(d)' /\ Result("expenses", d)' = Spent(d)'
      /\ Result("deposits", d)' = Deposited(d)' /\ Result("cash", d)' = CashCollected(d)'
      /\ Result("cashExpenses", d)' = CashSpent(d)'
  BY DEF Result
<1> QED BY <1>1, <1>2, ResultValues, SumsGrow DEF Growing

-----------------------------------------------------------------------------
(* DayInv is inductive.                                                    *)

\* Before any request DayInv holds.
LEMMA DayInitInv == DInit => DayInv
<1> SUFFICES ASSUME DInit
             PROVE  DayInv
  OBVIOUS
<1>1. reader = [endpoint |-> "none", day |-> 0, ran |-> 0] /\ got = <<>>
      /\ quiet = TRUE /\ backdated = FALSE
  BY DEF DInit
<1>2. ~Asked
  BY <1>1 DEF Asked
<1>3. ReaderOK
  <2>1. reader \in [endpoint : {"none", "box", "sheet"}, day : Int, ran : Nat]
    BY <1>1
  <2> QED BY <1>1, <1>2, <2>1 DEF ReaderOK
<1> QED BY <1>2, <1>3, LogInitInv DEF DInit, DayInv, ReadInv

\* LogInv depends on the tables only.
LEMMA LogInvUnchanged ==
  ASSUME LogInv, UNCHANGED log
  PROVE  LogInv'
BY LogNextInv

\* A request keeps DayInv.
LEMMA AskInv ==
  ASSUME DayInv, Ask
  PROVE  DayInv'
<1>1. LogInv'
  BY LogInvUnchanged DEF DayInv, Ask
<1>2. PICK e \in {"box", "sheet"}, d \in Days : reader' = [endpoint |-> e, day |-> d, ran |-> 0]
  BY DEF Ask
<1>3. got' = <<>> /\ quiet' \in BOOLEAN /\ backdated' \in BOOLEAN
  BY DEF DayInv, ReadInv, ReaderOK, Ask, Asked
<1>4. ReaderOK'
  BY <1>2, <1>3, BooksAssumption DEF ReaderOK, Asked
<1>5. \A x \in Days : ResultsOK(x)'
  BY <1>3 DEF ResultsOK
<1> QED BY <1>1, <1>4, <1>5 DEF DayInv, ReadInv

\* The end of a request keeps DayInv.
LEMMA AnswerInv ==
  ASSUME DayInv, Answer
  PROVE  DayInv'
<1>1. LogInv'
  BY LogInvUnchanged DEF DayInv, Answer
<1>2. reader' = [endpoint |-> "none", day |-> 0, ran |-> 0] /\ got' = <<>>
      /\ quiet' = TRUE /\ backdated' = FALSE
  BY DEF Answer
<1>3. ~Asked'
  BY <1>2 DEF Asked
<1>4. ReaderOK'
  <2>1. reader' \in [endpoint : {"none", "box", "sheet"}, day : Int, ran : Nat]
    BY <1>2
  <2> QED BY <1>2, <1>3, <2>1 DEF ReaderOK
<1> QED BY <1>1, <1>3, <1>4 DEF DayInv, ReadInv

\* A statement keeps DayInv: its result is what it returns now.
LEMMA RunInv ==
  ASSUME DayInv, RunStatement
  PROVE  DayInv'
<1> DEFINE d == reader.day
<1>0. PICK q0 : q0 = Plan(reader.endpoint)[reader.ran + 1]
  OBVIOUS
<1>1. LogInv /\ LogInv' /\ UNCHANGED log /\ UNCHANGED <<quiet, backdated>>
  BY LogInvUnchanged DEF DayInv, RunStatement
<1>2. ReaderOK /\ Asked /\ d \in Days /\ d \in Int /\ ResultsOK(d)
  BY BooksAssumption DEF DayInv, ReadInv, ReaderOK, RunStatement
<1>3. /\ reader' = [reader EXCEPT !.ran = @ + 1] /\ reader'.day = d
      /\ reader'.endpoint = reader.endpoint /\ reader'.ran = reader.ran + 1
  BY <1>2 DEF RunStatement, ReaderOK
<1>4. /\ DOMAIN got' = DOMAIN got \cup {q0}
      /\ \A q \in DOMAIN got \ {q0} : got'[q] = got[q]
      /\ got'[q0] = Result(q0, d)
  BY <1>0 DEF RunStatement
<1>5. ReaderOK'
  <2>1. Asked' /\ reader' \in [endpoint : {"none", "box", "sheet"}, day : Int, ran : Nat]
    BY <1>2, <1>3 DEF ReaderOK, Asked
  <2>2. \A i \in 1 .. reader'.ran : Plan(reader'.endpoint)[i] \in DOMAIN got'
    <3> SUFFICES ASSUME NEW i \in 1 .. reader'.ran
                 PROVE  Plan(reader.endpoint)[i] \in DOMAIN got'
      BY <1>3
    <3>1. i \in 1 .. reader.ran \/ i = reader.ran + 1
      BY <1>2, <1>3 DEF ReaderOK
    <3> QED BY <1>0, <1>2, <1>4, <3>1 DEF ReaderOK
  <2> QED BY <1>1, <1>2, <1>3, <2>1, <2>2 DEF ReaderOK
<1>6. ASSUME NEW x \in Days, x = d
      PROVE  ResultsOK(x)'
  <2>1. ResultsOK(x)
    BY <1>2, <1>6
  <2>2. \A q : Result(q, x)' = Result(q, x) /\ Result(q, x - 1)' = Result(q, x - 1)
    BY <1>1, ResultUnchanged
  <2>3. got'[q0] = Result(q0, x)'
    BY <1>4, <1>6, <2>2
  <2>4. quiet' => \A q \in DOMAIN got' : got'[q] = Result(q, x)'
    BY <1>1, <1>4, <2>1, <2>2, <2>3 DEF ResultsOK
  <2>5. ~backdated' => \A q \in DOMAIN got' \cap Openings : got'[q] = Result(q, x)'
    BY <1>1, <1>4, <2>1, <2>2, <2>3 DEF ResultsOK
  <2>6. ASSUME NEW q \in DOMAIN got' \cap Growing
        PROVE  /\ got'[q] \in Int /\ got'[q] <= Result(q, x)'
               /\ ~backdated' => Result(q, x - 1)' <= got'[q]
    <3>1. CASE q # q0
      BY <1>1, <1>4, <2>1, <2>2, <3>1 DEF ResultsOK
    <3>2. CASE q = q0
      <4>1. Result(q, x) \in Int /\ Result(q, x - 1) \in Int /\ Result(q, x - 1) <= Result(q, x)
        BY <1>1, <1>2, <1>6, GrowingResults
      <4>2. got'[q] = Result(q, x)
        BY <2>2, <2>3, <3>2
      <4> QED BY <2>2, <4>1, <4>2
    <3> QED BY <3>1, <3>2
  <2> QED BY <2>4, <2>5, <2>6 DEF ResultsOK
<1> QED BY <1>1, <1>3, <1>5, <1>6 DEF DayInv, ReadInv

\* As long as nothing dated before the day moves, the sums up to the day before
\* stay what they are.
LEMMA DatedResults ==
  ASSUME NEW d, Dated(d - 1)' = Dated(d - 1)
  PROVE  /\ \A q \in Openings : Result(q, d)' = Result(q, d)
         /\ \A q \in Growing : Result(q, d - 1)' = Result(q, d - 1)
<1>1. /\ Collected(d - 1)' = Collected(d - 1) /\ Spent(d - 1)' = Spent(d - 1)
      /\ Deposited(d - 1)' = Deposited(d - 1) /\ CashCollected(d - 1)' = CashCollected(d - 1)
      /\ CashSpent(d - 1)' = CashSpent(d - 1) /\ Warehouse(d - 1)' = Warehouse(d - 1)
  BY DEF Dated
<1> QED BY <1>1 DEF Result, Eve, Openings, Growing

\* A commit between two statements keeps DayInv: an undisturbed read is one no
\* longer, openings move only with what is dated earlier, and the rest only grows.
LEMMA CommitInv ==
  ASSUME DayInv, Commit
  PROVE  DayInv'
<1>1. LogInv /\ LogInv' /\ LogPost /\ UNCHANGED <<reader, got>>
  BY LogNextInv DEF DayInv, Commit
<1>2. ReaderOK' /\ (Asked' <=> Asked)
  BY DEF DayInv, ReadInv, ReaderOK, Commit, Asked
<1>3. ASSUME NEW x \in Days, Asked, reader.day = x
      PROVE  ResultsOK(x)'
  <2>1. ResultsOK(x) /\ ~quiet'
    BY <1>3 DEF DayInv, ReadInv, Commit
  <2>2. ~backdated' => ~backdated /\ Dated(x - 1)' = Dated(x - 1)
    <3>1. (Dated(reader.day - 1)' # Dated(reader.day - 1))
            <=> (Dated(x - 1)' # Dated(x - 1))
      BY <1>1, <1>3 DEF Dated
    <3> QED BY <1>3, <3>1 DEF Commit
  <2>3. ~backdated' => \A q \in DOMAIN got' \cap Openings : got'[q] = Result(q, x)'
    BY <1>1, <2>1, <2>2, DatedResults DEF ResultsOK
  <2>4. ASSUME NEW q \in DOMAIN got' \cap Growing
        PROVE  /\ got'[q] \in Int /\ got'[q] <= Result(q, x)'
               /\ ~backdated' => Result(q, x - 1)' <= got'[q]
    <3>1. Result(q, x) \in Int /\ Result(q, x)' \in Int /\ Result(q, x) <= Result(q, x)'
      BY <1>1, GrowingPosted
    <3>2. got'[q] = got[q] /\ got[q] \in Int /\ got[q] <= Result(q, x)
      BY <1>1, <2>1 DEF ResultsOK
    <3>3. ~backdated' => Result(q, x - 1)' <= got'[q]
      BY <1>1, <2>1, <2>2, DatedResults DEF ResultsOK
    <3> QED BY <3>1, <3>2, <3>3
  <2> QED BY <2>1, <2>3, <2>4 DEF ResultsOK
<1> QED BY <1>1, <1>2, <1>3 DEF DayInv, ReadInv

\* DayInv is inductive.
LEMMA DayNextInv ==
  ASSUME DayInv, [Next]_vars
  PROVE  DayInv'
<1>1. CASE Next
  BY <1>1, AskInv, RunInv, AnswerInv, CommitInv DEF Next
<1>2. CASE UNCHANGED vars
  <2>1. LogInv' /\ UNCHANGED <<reader, got, quiet, backdated>> /\ UNCHANGED log
    BY <1>2, LogInvUnchanged DEF DayInv, vars
  <2>2. \A q, x : Result(q, x)' = Result(q, x)
    BY <2>1, ResultUnchanged
  <2>3. ReadInv'
    BY <2>1, <2>2 DEF DayInv, ReadInv, ReaderOK, ResultsOK, Asked
  <2> QED BY <2>1, <2>3 DEF DayInv
<1> QED BY <1>1, <1>2

-----------------------------------------------------------------------------
(* MovementsAreOfTheDay: an answer has the results of all statements.      *)

BoxNames ==
  {"collected0", "expenses0", "deposits0", "cash0", "cashExpenses0",
    "collected", "expenses", "deposits", "cash", "cashExpenses"}
SheetNames ==
  BoxNames \cup {"agg", "drivers", "notes", "loads", "expenseByDriver", "balanceByDriver",
    "customers", "balanceByCustomer", "expensesTotal", "openingStock", "closingStock"}

\* Elements of the first of two concatenated sequences.
LEMMA JoinedLeft ==
  ASSUME NEW S, NEW a \in Seq(S), NEW b \in Seq(S), NEW i \in 1 .. Len(a)
  PROVE  /\ a \o b \in Seq(S) 
         /\ Len(a \o b) = Len(a) + Len(b)
         /\ (a \o b)[i] = a[i]
         /\ i \in 1 .. Len(a \o b)
OBVIOUS

\* Elements of the second of two concatenated sequences.
LEMMA JoinedRight ==
  ASSUME NEW S, NEW a \in Seq(S), NEW b \in Seq(S), NEW i \in 1 .. Len(b)
  PROVE  /\ (a \o b)[i + Len(a)] = b[i]
         /\ i + Len(a) \in 1 .. Len(a \o b)
OBVIOUS

\* A concatenation has the elements of both.
LEMMA JoinedTypes ==
  ASSUME NEW S, NEW a \in Seq(S), NEW b \in Seq(S)
  PROVE  a \o b \in Seq(S)
OBVIOUS

Has(s, q) == \E i \in 1 .. Len(s) : s[i] = q

\* What stands in one of three sequences stands in their concatenation.
LEMMA JoinedHas ==
  ASSUME NEW S, NEW a \in Seq(S), NEW b \in Seq(S), NEW c \in Seq(S), NEW q,
         Has(a, q) \/ Has(b, q) \/ Has(c, q)
  PROVE  Has((a \o b) \o c, q)
<1> DEFINE ab == a \o b
<1>1. ab \in Seq(S)
  BY JoinedTypes
<1>2. CASE Has(a, q)
  <2>1. PICK i \in 1 .. Len(a) : a[i] = q
    BY <1>2 DEF Has
  <2>2. ab[i] = q /\ i \in 1 .. Len(ab)
    BY <2>1, JoinedLeft
  <2> HIDE DEF ab
  <2>3. (ab \o c)[i] = q /\ i \in 1 .. Len(ab \o c)
    BY <1>1, <2>2, JoinedLeft
  <2> QED BY <2>3 DEF ab, Has
<1>3. CASE Has(b, q)
  <2>1. PICK i \in 1 .. Len(b) : b[i] = q
    BY <1>3 DEF Has
  <2>2. ab[i + Len(a)] = q /\ i + Len(a) \in 1 .. Len(ab)
    BY <2>1, JoinedRight
  <2> HIDE DEF ab
  <2>3. (ab \o c)[i + Len(a)] = q /\ i + Len(a) \in 1 .. Len(ab \o c)
    BY <1>1, <2>2, JoinedLeft
  <2> QED BY <2>3 DEF ab, Has
<1>4. CASE Has(c, q)
  <2>1. PICK i \in 1 .. Len(c) : c[i] = q
    BY <1>4 DEF Has
  <2> HIDE DEF ab
  <2>2. (ab \o c)[i + Len(ab)] = q /\ i + Len(ab) \in 1 .. Len(ab \o c)
    BY <1>1, <2>1, JoinedRight
  <2> QED BY <2>2 DEF ab, Has
<1> QED BY <1>2, <1>3, <1>4

\* Both endpoints run every statement their answer needs.
LEMMA PlansCover ==
  /\ \A q \in BoxNames : Has(BoxPlan, q)
  /\ \A q \in SheetNames : Has(SheetPlan, q)
<1> DEFINE rows == <<"agg", "drivers", "notes", "loads", "expenseByDriver", "balanceByDriver",
                     "customers", "balanceByCustomer", "expensesTotal">>
           stock2 == <<"openingStock", "closingStock">>
<1>1. /\ Len(BoxPlan) = 10 /\ BoxPlan \in Seq(SheetNames)
      /\ BoxPlan[1] = "collected0" /\ BoxPlan[2] = "expenses0" /\ BoxPlan[3] = "deposits0"
      /\ BoxPlan[4] = "cash0" /\ BoxPlan[5] = "cashExpenses0" /\ BoxPlan[6] = "collected"
      /\ BoxPlan[7] = "expenses" /\ BoxPlan[8] = "deposits" /\ BoxPlan[9] = "cash"
      /\ BoxPlan[10] = "cashExpenses"
  BY DEF BoxPlan, SheetNames, BoxNames
<1>2. /\ Len(rows) = 9 /\ rows \in Seq(SheetNames)
      /\ rows[1] = "agg" /\ rows[2] = "drivers" /\ rows[3] = "notes" /\ rows[4] = "loads"
      /\ rows[5] = "expenseByDriver" /\ rows[6] = "balanceByDriver" /\ rows[7] = "customers"
      /\ rows[8] = "balanceByCustomer" /\ rows[9] = "expensesTotal"
  BY DEF SheetNames
<1>3. /\ Len(stock2) = 2 /\ stock2 \in Seq(SheetNames)
      /\ stock2[1] = "openingStock" /\ stock2[2] = "closingStock"
  BY DEF SheetNames
<1>4. SheetPlan = (rows \o BoxPlan) \o stock2
  BY DEF SheetPlan
<1> HIDE DEF rows, stock2
<1>5. \A q \in BoxNames : Has(BoxPlan, q)
  BY <1>1 DEF BoxNames, Has
<1>6. ASSUME NEW q \in SheetNames
      PROVE  Has(SheetPlan, q)
  <2>1. \/ Has(rows, q)
        \/ Has(BoxPlan, q)
        \/ Has(stock2, q)
    <3>1. CASE q \in BoxNames
      BY <3>1, <1>5
    <3>2. CASE q \in {"openingStock", "closingStock"}
      BY <3>2, <1>3 DEF Has
    <3>3. CASE q \in {"agg", "drivers", "notes", "loads", "expenseByDriver", "balanceByDriver",
                      "customers", "balanceByCustomer", "expensesTotal"}
      BY <3>3, <1>2 DEF Has
    <3> QED BY <3>1, <3>2, <3>3 DEF SheetNames
  <2>2. Has((rows \o BoxPlan) \o stock2, q)
    BY <1>1, <1>2, <1>3, <2>1, JoinedHas
  <2> QED BY <2>2, <1>4
<1> QED BY <1>5, <1>6

\* An answer has the results of all its statements.
LEMMA AnsweredHasAll ==
  ASSUME ReadInv, Answered
  PROVE  /\ reader.day \in Days /\ reader.day \in Int /\ ResultsOK(reader.day)
         /\ BoxNames \subseteq DOMAIN got
         /\ reader.endpoint = "sheet" => SheetNames \subseteq DOMAIN got
<1>1. /\ Asked /\ ReaderOK /\ reader.day \in Days /\ reader.endpoint \in {"box", "sheet"}
      /\ \A i \in 1 .. Len(Plan(reader.endpoint)) : Plan(reader.endpoint)[i] \in DOMAIN got
  BY DEF ReadInv, ReaderOK, Answered, Asked
<1>2. reader.day \in Int /\ ResultsOK(reader.day)
  BY <1>1, BooksAssumption DEF ReadInv
<1>3. CASE reader.endpoint = "box"
  <2>1. Plan(reader.endpoint) = BoxPlan
    BY <1>3 DEF Plan
  <2>2. BoxNames \subseteq DOMAIN got
    BY <1>1, <2>1, PlansCover DEF Has
  <2> QED BY <1>1, <1>2, <1>3, <2>2
<1>4. CASE reader.endpoint = "sheet"
  <2>1. Plan(reader.endpoint) = SheetPlan
    BY <1>4 DEF Plan
  <2>2. SheetNames \subseteq DOMAIN got
    BY <1>1, <2>1, PlansCover DEF Has
  <2> QED BY <1>1, <1>2, <2>2 DEF SheetNames
<1> QED BY <1>1, <1>3, <1>4

\* MovementsAreOfTheDay follows from DayInv.
LEMMA MovementsOfDay == DayInv => MovementsAreOfTheDay
<1> SUFFICES ASSUME DayInv, Answered, ~backdated
             PROVE  MovementsAreOfTheDay
  BY DEF MovementsAreOfTheDay
<1> DEFINE d == reader.day
<1>1. /\ LogInv /\ d \in Int /\ ResultsOK(d) /\ BoxNames \subseteq DOMAIN got
      /\ reader.endpoint = "sheet" => SheetNames \subseteq DOMAIN got
  BY AnsweredHasAll DEF DayInv
<1>2. /\ got["collected0"] = Collected(d - 1) /\ got["expenses0"] = Spent(d - 1)
      /\ got["deposits0"] = Deposited(d - 1) /\ got["cash0"] = CashCollected(d - 1)
      /\ got["cashExpenses0"] = CashSpent(d - 1)
  <2>1. \A q \in BoxNames \cap Openings : got[q] = Result(q, d)
    BY <1>1 DEF ResultsOK
  <2> QED BY <2>1, ResultValues DEF BoxNames, Openings
<1>3. reader.endpoint = "sheet" => got["openingStock"] = Warehouse(d - 1)
  <2>1. reader.endpoint = "sheet" => "openingStock" \in DOMAIN got \cap Openings
    BY <1>1 DEF SheetNames, Openings
  <2> QED BY <1>1, <2>1, ResultValues DEF ResultsOK
<1>4. \A q \in Growing : got[q] \in Int /\ Result(q, d - 1) <= got[q] /\ got[q] <= Result(q, d)
  BY <1>1 DEF ResultsOK, BoxNames, Growing
<1>5. /\ got["collected"] \in Int /\ got["expenses"] \in Int /\ got["deposits"] \in Int
      /\ got["cash"] \in Int /\ got["cashExpenses"] \in Int
      /\ got["collected"] <= Collected(d) /\ got["expenses"] <= Spent(d)
      /\ Deposited(d - 1) <= got["deposits"] /\ got["deposits"] <= Deposited(d)
      /\ got["cash"] <= CashCollected(d) /\ CashSpent(d - 1) <= got["cashExpenses"]
  BY <1>4, ResultValues DEF Growing
<1>6. /\ Collected(d - 1) \in Int /\ Spent(d - 1) \in Int /\ Deposited(d - 1) \in Int
      /\ CashCollected(d - 1) \in Int /\ CashSpent(d - 1) \in Int
      /\ Collected(d) \in Int /\ Spent(d) \in Int /\ Deposited(d) \in Int
      /\ CashCollected(d) \in Int /\ CashSpent(d) \in Int
  BY <1>1, BoxSumsInt
<1>7. /\ BoxOut.collected <= Collected(d) - Collected(d - 1)
      /\ BoxOut.expenses <= Spent(d) - Spent(d - 1)
      /\ BoxOut.deposited <= Deposited(d) - Deposited(d - 1)
      /\ BoxOut.opening = Closing(d - 1)
      /\ BoxOut.hand_cash_opening = HandCash(d - 1)
  BY <1>2, <1>5, <1>6 DEF BoxOut, Closing, HandCash
<1>8. BoxOut.hand_cash_closing - BoxOut.hand_cash_opening <= CashCollected(d) - CashCollected(d - 1)
  <2>1. /\ BoxOut.hand_cash_closing = got["cash"] - got["cashExpenses"] - got["deposits"]
        /\ BoxOut.hand_cash_opening = CashCollected(d - 1) - CashSpent(d - 1) - Deposited(d - 1)
    BY <1>2 DEF BoxOut
  <2> QED BY <1>5, <1>6, <2>1
<1>9. SheetShown => StockOut.opening = Warehouse(d - 1)
  BY <1>3 DEF SheetShown, StockOut
<1> QED BY <1>7, <1>8, <1>9 DEF MovementsAreOfTheDay

\* Whatever is committed while a cashier box is read, it shows no more than moved on
\* its date and opens with what the day before closed with, unless something dated
\* earlier is committed meanwhile (services/cashier_box.py).
THEOREM MovementsAlwaysOfTheDay == DSpec => []MovementsAreOfTheDay
<1>1. DayInv /\ [Next]_vars => DayInv'
  BY DayNextInv
<1>2. DayInv => MovementsAreOfTheDay
  BY MovementsOfDay
<1> QED BY <1>1, <1>2, DayInitInv, PTL DEF DSpec

\* The readers of the day sheet and the cashier box change none of the tables.
THEOREM ReadersOnlyRead == DSpec => LogSpec
<1>1. DInit => LogInit
  BY DEF DInit
<1>2. [Next]_vars => [LogPost]_log
  BY DEF Next, vars, Ask, RunStatement, Answer, Commit
<1> QED BY <1>1, <1>2, PTL DEF DSpec, LogSpec

-----------------------------------------------------------------------------
(* SheetAgreesWithBox, row by row.                                         *)

SalesOn(d) == {s \in sales : s.day = d}
CashIn == [s \in sales |-> CashOf(s)]
TakenOf == [s \in sales |-> CashOf(s) + s.upi]

\* The customers who bought on a day, and the rows of the boys.
Buyers(d) == {c \in Customers : SalesOf(c, d) # {}}
LoadRows(d) == [b \in Boys |-> [loaded |-> LoadedBy(b, d), returned |-> ReturnedBy(b, d)]]
ExpenseRows(d) == [b \in Boys |-> Total({e \in expenses : e.day = d /\ e.boy = b})]

\* What a sheet read while nothing is committed is made of.
LEMMA QuietRead ==
  ASSUME DayInv, SheetShown, quiet, NEW d, d = reader.day
  PROVE  /\ LogInv /\ d \in Days /\ d \in Int
         /\ got["agg"] = Agg(d) /\ got["drivers"] = active \cap Boys
         /\ got["notes"] = CashOfAll(SalesOn(d))
         /\ got["loads"] = LoadRows(d)
         /\ got["expenseByDriver"] = ExpenseRows(d)
         /\ got["balanceByDriver"] = ChargesOn(Boys, d)
         /\ got["customers"] = Buyers(d)
         /\ got["expensesTotal"] = Spent(d) - Spent(d - 1)
         /\ got["openingStock"] = Warehouse(d - 1) /\ got["closingStock"] = Warehouse(d)
         /\ BoxOut.collected = Collected(d) - Collected(d - 1)
         /\ BoxOut.expenses = Spent(d) - Spent(d - 1)
         /\ BoxOut.hand_cash_collected = CashCollected(d) - CashCollected(d - 1)
<1>1. /\ LogInv /\ d \in Days /\ d \in Int /\ ResultsOK(d)
      /\ BoxNames \subseteq DOMAIN got /\ SheetNames \subseteq DOMAIN got
  BY AnsweredHasAll DEF DayInv, SheetShown
<1>2. \A q \in SheetNames : got[q] = Result(q, d)
  BY <1>1 DEF ResultsOK
<1>3. /\ got["agg"] = Agg(d) /\ got["drivers"] = active \cap Boys
      /\ got["notes"] = CashOfAll(SalesOn(d))
      /\ got["balanceByDriver"] = ChargesOn(Boys, d)
      /\ got["expensesTotal"] = Spent(d) - Spent(d - 1)
  BY <1>2 DEF Result, SheetNames, SalesOn
<1>4. got["loads"] = LoadRows(d)
  BY <1>2 DEF LoadRows, Result, SheetNames
<1>5. got["expenseByDriver"] = ExpenseRows(d)
  BY <1>2 DEF ExpenseRows, Result, SheetNames
<1>6. got["customers"] = Buyers(d)
  BY <1>2 DEF Buyers, Result, SheetNames
<1>7. /\ got["openingStock"] = Warehouse(d - 1) /\ got["closingStock"] = Warehouse(d)
      /\ got["collected"] = Collected(d) /\ got["collected0"] = Collected(d - 1)
      /\ got["expenses"] = Spent(d) /\ got["expenses0"] = Spent(d - 1)
      /\ got["cash"] = CashCollected(d) /\ got["cash0"] = CashCollected(d - 1)
  BY <1>2, ResultValues DEF SheetNames, BoxNames
<1>8. /\ BoxOut.collected = Collected(d) - Collected(d - 1)
      /\ BoxOut.expenses = Spent(d) - Spent(d - 1)
      /\ BoxOut.hand_cash_collected = CashCollected(d) - CashCollected(d - 1)
  BY <1>7 DEF BoxOut
<1> QED BY <1>1, <1>3, <1>4, <1>5, <1>6, <1>7, <1>8

\* Cash and UPI of some posted sales, sale by sale.
LEMMA TakenBySale ==
  ASSUME LogInv, NEW some \in SUBSET sales
  PROVE  /\ IsFiniteSet(some)
         /\ \A s \in some : CashOf(s) \in Nat /\ CashIn[s] = CashOf(s) /\ TakenOf[s] \in Int
         /\ CashOfAll(some) = SumFunctionOnSet(CashIn, some)
         /\ CashOfAll(some) \in Int
         /\ SumFunctionOnSet(TakenOf, some) \in Int
         /\ CashOfAll(some) + SumFunction([s \in some |-> s.upi])
              = SumFunctionOnSet(TakenOf, some)
<1>1. IsFiniteSet(some)
  BY SumsOfSales
<1>2. ASSUME NEW s \in some
      PROVE  /\ CashOf(s) \in Nat /\ CashIn[s] = CashOf(s) /\ UpiOf[s] = s.upi
             /\ TakenOf[s] = CashIn[s] + UpiOf[s]
             /\ TakenOf[s] \in Int /\ CashIn[s] \in Int /\ UpiOf[s] \in Int
  <2>1. CashOf(s) = s.cash /\ s \in SaleSlips
    BY SaleAmounts DEF CashOf, RowsOfSale, LogInv, LogTypeOK, TypeOK
  <2> QED BY <2>1, SaleSlipType DEF CashIn, UpiOf, TakenOf
<1>3. CashOfAll(some) = SumFunctionOnSet(CashIn, some)
  <2> DEFINE g == [s \in some |-> CashOf(s)]
  <2>1. DOMAIN g = some /\ \A s \in some : g[s] = CashIn[s]
    BY <1>2
  <2> HIDE DEF g
  <2>2. SumFunction(g) = SumFunctionOnSet(CashIn, some)
    BY <1>1, <2>1, FnOnSet
  <2> QED BY <2>2 DEF CashOfAll, g
<1>4. SumFunctionOnSet(CashIn, some) \in Int
  BY <1>1, <1>2, SumType
<1>5. SumFunctionOnSet(TakenOf, some) \in Int
  BY <1>1, <1>2, SumType
<1>6. SumFunctionOnSet(TakenOf, some)
        = SumFunctionOnSet(CashIn, some) + SumFunctionOnSet(UpiOf, some)
  BY <1>1, <1>2, SumPlus
<1>7. SumFunction([s \in some |-> s.upi]) = SumFunctionOnSet(UpiOf, some)
  BY SumsOfSales
<1> QED BY <1>1, <1>2, <1>3, <1>4, <1>5, <1>6, <1>7

\* A row of the sheet sums the sales of its party, if there are any.
LEMMA SoldOf ==
  ASSUME LogInv, NEW d, NEW p, got["agg"] = Agg(d)
  PROVE  /\ RowTotal(p) = SumFunctionOnSet(TakenOf, SalesOf(p, d)) /\ RowTotal(p) \in Int
         /\ Sold(p).cylinders = Qty(SalesOf(p, d)) /\ Sold(p).cylinders \in Int
         /\ Sold(p).empties = EmptyQty(SalesOf(p, d)) /\ Sold(p).empties \in Int
<1> DEFINE own == SalesOf(p, d)
<1>1. own \in SUBSET sales
  BY DEF SalesOf
<1>2. /\ Qty(own) \in Nat /\ EmptyQty(own) \in Nat
      /\ Qty(own) = SumFunctionOnSet(QtyOf, own) /\ EmptyQty(own) = SumFunctionOnSet(EmptyOf, own)
  <2> HIDE DEF own
  <2> QED BY <1>1, SumsOfSales
<1>3. /\ SumFunctionOnSet(TakenOf, own) \in Int
      /\ CashOfAll(own) + SumFunction([s \in own |-> s.upi]) = SumFunctionOnSet(TakenOf, own)
  BY <1>1, TakenBySale
<1>4. CASE own # {}
  <2>1. p \in {s.party : s \in {x \in sales : x.day = d}}
    BY <1>4 DEF SalesOf
  <2>2. p \in DOMAIN got["agg"] /\ Sold(p) = got["agg"][p]
    BY <2>1 DEF Agg, Sold
  <2>3. /\ Sold(p).cash = CashOfAll(own) /\ Sold(p).upi = SumFunction([s \in own |-> s.upi])
        /\ Sold(p).cylinders = Qty(own) /\ Sold(p).empties = EmptyQty(own)
    BY <2>1, <2>2 DEF Agg
  <2> QED BY <1>2, <1>3, <2>3 DEF RowTotal
<1>5. CASE own = {}
  <2>1. p \notin DOMAIN got["agg"]
    BY <1>5 DEF Agg, SalesOf
  <2>2. Sold(p) = Nothing
    BY <2>1 DEF Sold
  <2>3. /\ SumFunctionOnSet(TakenOf, own) = 0 /\ SumFunctionOnSet(QtyOf, own) = 0
        /\ SumFunctionOnSet(EmptyOf, own) = 0
    BY <1>5, SumEmpty
  <2> QED BY <1>2, <2>2, <2>3 DEF RowTotal, Nothing
<1> QED BY <1>4, <1>5

\* The rows of a set of parties with all who bought or sold that day.
LEMMA RowsOfAll ==
  ASSUME LogInv, NEW d \in Int, got["agg"] = Agg(d),
         NEW P, IsFiniteSet(P), \A s \in SalesOn(d) : s.party \in P
  PROVE  /\ SumFunction([p \in P |-> RowTotal(p)]) = EodCash(d) + EodUpi(d)
         /\ SumFunction([p \in P |-> Sold(p).cylinders]) = Qty(SalesOn(d))
         /\ SumFunction([p \in P |-> Sold(p).empties]) = EmptyQty(SalesOn(d))
<1> DEFINE today == SalesOn(d)
           key == [s \in today |-> s.party]
           total == [p \in P |-> RowTotal(p)]
           cylinders == [p \in P |-> Sold(p).cylinders]
           empties == [p \in P |-> Sold(p).empties]
<1>1. today \in SUBSET sales /\ \A s \in today : key[s] \in P
  BY DEF SalesOn
<1>2. \A p \in P : {s \in today : key[s] = p} = SalesOf(p, d)
  BY DEF SalesOn, SalesOf
<1>3. DOMAIN total = P /\ \A p \in P : total[p] = SumFunctionOnSet(TakenOf, SalesOf(p, d))
  BY SoldOf
<1>4. DOMAIN cylinders = P /\ \A p \in P : cylinders[p] = Qty(SalesOf(p, d))
  BY SoldOf
<1>5. DOMAIN empties = P /\ \A p \in P : empties[p] = EmptyQty(SalesOf(p, d))
  BY SoldOf
<1>6. EodCash(d) + EodUpi(d) = SumFunction([s \in today |-> MonthTotal(s)])
  BY NetOfDay DEF SalesOn
<1>7. SumFunction([s \in today |-> MonthTotal(s)]) = SumFunctionOnSet(TakenOf, today)
  <2> DEFINE g == [s \in today |-> MonthTotal(s)]
  <2>1. DOMAIN g = today /\ \A s \in today : g[s] = TakenOf[s]
    BY <1>1 DEF MonthTotal, TakenOf, CashOf
  <2>2. IsFiniteSet(today)
    BY <1>1, TakenBySale
  <2> HIDE DEF g, today
  <2>3. SumFunction(g) = SumFunctionOnSet(TakenOf, today)
    BY <2>1, <2>2, FnOnSet
  <2> QED BY <2>3 DEF g
<1> HIDE DEF today, key, total, cylinders, empties
<1>8. SumFunctionOnSet(TakenOf, today) = SumFunction(total)
  <2>1. IsFiniteSet(today) /\ \A s \in today : TakenOf[s] \in Int
    BY <1>1, TakenBySale
  <2>2. \A p \in P : total[p] = SumFunctionOnSet(TakenOf, {s \in today : key[s] = p})
    BY <1>2, <1>3
  <2>3. DOMAIN total = P
    BY <1>3
  <2> QED BY <1>1, <2>1, <2>2, <2>3, SumByKey
<1>9. Qty(today) = SumFunction(cylinders)
  <2>1. \A p \in P : cylinders[p] = Qty({s \in today : key[s] = p})
    BY <1>2, <1>4
  <2>2. DOMAIN cylinders = P
    BY <1>4
  <2> QED BY <1>1, <2>1, <2>2, QtyByKey
<1>10. EmptyQty(today) = SumFunction(empties)
  <2>1. \A p \in P : empties[p] = EmptyQty({s \in today : key[s] = p})
    BY <1>2, <1>5
  <2>2. DOMAIN empties = P
    BY <1>5
  <2> QED BY <1>1, <2>1, <2>2, EmptyByKey
<1>11. SumFunction(total) = EodCash(d) + EodUpi(d)
  BY <1>6, <1>7, <1>8
<1> QED BY <1>9, <1>10, <1>11 DEF today, total, cylinders, empties

\* What the cumulative figures of the box gain on a day.
LEMMA GainsOfDay ==
  ASSUME LogInv, NEW d \in Int
  PROVE  /\ Collected(d) - Collected(d - 1) = EodCash(d) + EodUpi(d)
         /\ Spent(d) - Spent(d - 1) = Total(On(expenses, d))
         /\ CashCollected(d) - CashCollected(d - 1) = CashOfAll(SalesOn(d))
<1>1. Collected(d) - Collected(d - 1) = EodCash(d) + EodUpi(d)
  <2> DEFINE g == [x \in d .. d |-> EodCash(x) + EodUpi(x)]
  <2>1. DOMAIN g = {d} /\ g[d] = EodCash(d) + EodUpi(d)
    OBVIOUS
  <2>2. g[d] \in Int
    <3>1. EodCash(d) \in Int /\ EodUpi(d) \in Int
      BY NetOfDay
    <3> QED BY <2>1, <3>1
  <2>3. SumFunction(g) = Collected(d) - Collected(d - 1)
    <3>1. d \in Int /\ d <= d
      OBVIOUS
    <3>2. SumFunction([x \in d .. d |-> EodCash(x) + EodUpi(x)]) = Collected(d) - Collected(d - 1)
      BY <3>1, CollectedInRange
    <3> QED BY <3>2
  <2> HIDE DEF g
  <2>4. SumFunctionOnSet(g, {d}) = g[d]
    BY <2>2, SumSingle
  <2>5. SumFunction(g) = SumFunctionOnSet(g, {d})
    BY <2>1 DEF SumFunction
  <2> QED BY <2>1, <2>3, <2>4, <2>5
<1>2. Spent(d) - Spent(d - 1) = Total(On(expenses, d))
  BY SpentInRange DEF ExpenseReport, On
<1>3. CashCollected(d) - CashCollected(d - 1) = CashOfAll(SalesOn(d))
  <2> DEFINE all == SaleRows({"cash"})
             some == SalesOn(d)
             dayOf == [r \in all |-> r.of.day]
             h == [s \in some |-> CashOf(s)]
  <2>1. Amounts(all)
    BY TableTypes, AmountsSubset DEF SaleRows
  <2>2. \A r \in all : dayOf[r] \in Int
    BY SaleSlipType DEF SaleRows, LogInv, LogTypeOK, TypeOK
  <2>3. /\ {r \in all : r.of.day <= d} = KeyUpTo(all, dayOf, d)
        /\ {r \in all : r.of.day <= d - 1} = KeyUpTo(all, dayOf, d - 1)
    BY DEF KeyUpTo
  <2>4. {r \in all : r.of \in some} = KeyIn(all, dayOf, d, d)
    BY DEF KeyIn, SalesOn, SaleRows
  <2>5. some \in SUBSET sales /\ DOMAIN h = some
        /\ \A s \in some : h[s] = Total(RowsOfSale(s, {"cash"}))
    BY DEF SalesOn, CashOf, RowsOfSale
  <2>6. CashCollected(d) = Total({r \in all : r.of.day <= d})
        /\ CashCollected(d - 1) = Total({r \in all : r.of.day <= d - 1})
    BY DEF CashCollected
  <2> HIDE DEF some, dayOf, h
  <2>7. Total({r \in all : r.of \in some}) = SumFunction(h)
    BY <2>5, SaleRowsBySale
  <2> HIDE DEF all
  <2>8. /\ Total(KeyUpTo(all, dayOf, d))
             = Total(KeyUpTo(all, dayOf, d - 1)) + Total(KeyIn(all, dayOf, d, d))
        /\ Total(KeyUpTo(all, dayOf, d - 1)) \in Int
        /\ Total(KeyIn(all, dayOf, d, d)) \in Int
    BY <2>1, <2>2, SplitTotal
  <2>9. CashCollected(d) - CashCollected(d - 1) = SumFunction(h)
    <3> DEFINE early == Total(KeyUpTo(all, dayOf, d - 1))
               late == Total(KeyIn(all, dayOf, d, d))
    <3>1. CashCollected(d) = early + late /\ CashCollected(d - 1) = early /\ late = SumFunction(h)
      BY <2>3, <2>4, <2>6, <2>7, <2>8
    <3>2. early \in Int /\ late \in Int
      BY <2>8
    <3> HIDE DEF early, late
    <3> QED BY <3>1, <3>2
  <2> QED BY <2>9 DEF h, some, CashOfAll
<1> QED BY <1>1, <1>2, <1>3

\* The parties a sheet can show are finitely many; its rows and the boys it
\* drops are all who sold or bought.
LEMMA PartiesOfSheet ==
  ASSUME LogInv, NEW d, got["agg"] = Agg(d), got["drivers"] = active \cap Boys,
         got["customers"] = Buyers(d)
  PROVE  /\ IsFiniteSet(Listed) /\ IsFiniteSet(Dropped) /\ IsFiniteSet(Listed \cup Dropped)
         /\ IsFiniteSet(Boys \cup got["customers"]) /\ Listed \cap Dropped = {}
         /\ Listed \cup (Boys \ Listed) = Boys \cup got["customers"]
         /\ got["customers"] \cap Boys = {}
         /\ \A s \in SalesOn(d) : s.party \in Listed \cup Dropped
         /\ \A s \in SalesOn(d) : s.party \in Boys \cup got["customers"]
<1>1. got["customers"] \subseteq Customers /\ got["drivers"] \subseteq Boys
      /\ got["customers"] \cap Boys = {}
  BY BooksAssumption DEF LogInv, LogTypeOK, TypeOK, Buyers
<1>2. IsFiniteSet(Boys \cup Customers)
  BY BooksAssumption, FS_Union
<1>3. Listed \subseteq Boys \cup Customers /\ Dropped \subseteq Boys \cup Customers
      /\ Listed \cup Dropped \subseteq Boys \cup Customers
      /\ Boys \cup got["customers"] \subseteq Boys \cup Customers
  BY <1>1 DEF Listed, Dropped, Buyers
<1>4. IsFiniteSet(Listed) /\ IsFiniteSet(Dropped) /\ IsFiniteSet(Listed \cup Dropped)
      /\ IsFiniteSet(Boys \cup got["customers"])
  BY <1>2, <1>3, FS_Subset
<1>5. Listed \cap Dropped = {} /\ Listed \cup (Boys \ Listed) = Boys \cup got["customers"]
  BY <1>1 DEF Listed, Dropped
<1>6. ASSUME NEW s \in SalesOn(d)
      PROVE  s.party \in Listed \cup Dropped /\ s.party \in Boys \cup got["customers"]
  <2>1. s \in sales /\ s.day = d /\ s.party \in Boys \cup Customers
    BY SaleSlipType DEF SalesOn, LogInv, LogTypeOK, TypeOK, Parties
  <2>2. s \in SalesOf(s.party, d) /\ s.party \in DOMAIN got["agg"]
    BY <2>1 DEF SalesOf, Agg
  <2> QED BY <2>1, <2>2 DEF Listed, Dropped, Buyers
<1> QED BY <1>1, <1>4, <1>5, <1>6

\* The expenses of the boys, row by row: those of the day but for the firm's own.
LEMMA ExpensesOfRows ==
  ASSUME LogInv, NEW d \in Int, NEW P, IsFiniteSet(P), Boys \subseteq P,
         got["expenseByDriver"] = ExpenseRows(d)
  PROVE  /\ \A p \in P : RowExpense(p) \in Int
         /\ SumFunction([p \in P |-> RowExpense(p)]) \in Int
         /\ Total({e \in On(expenses, d) : e.boy = Nobody}) \in Int
         /\ Total(On(expenses, d)) =
              SumFunction([p \in P |-> RowExpense(p)])
                + Total({e \in On(expenses, d) : e.boy = Nobody})
<1> DEFINE today == On(expenses, d)
           own == {e \in today : e.boy \in Boys}
           rest == {e \in today : e.boy = Nobody}
           key == [e \in own |-> e.boy]
           h == [p \in P |-> RowExpense(p)]
<1>1. today = {e \in expenses : e.day = d} /\ today \subseteq expenses
  BY PaperRows DEF On, Between
<1>2. Amounts(today) /\ Amounts(own) /\ Amounts(rest)
  BY <1>1, TableTypes, AmountsSubset
<1>3. today = own \cup rest /\ own \cap rest = {} /\ \A e \in own : key[e] \in P
  BY <1>1, ExpenseSlipType, BooksAssumption DEF LogInv, LogTypeOK, TypeOK
<1>4. ASSUME NEW p \in P
      PROVE  h[p] = Total({e \in own : key[e] = p}) /\ RowExpense(p) \in Int
  <2>1. CASE p \in Boys
    <3>1. {e \in expenses : e.day = d /\ e.boy = p} = {e \in own : key[e] = p}
      BY <1>1, <2>1
    <3>2. RowExpense(p) = Total({e \in expenses : e.day = d /\ e.boy = p})
      BY <2>1 DEF RowExpense, ExpenseRows
    <3>3. Total({e \in expenses : e.day = d /\ e.boy = p}) \in Int
      BY TableTypes, AmountsSubset, TotalType
    <3> QED BY <3>1, <3>2, <3>3
  <2>2. CASE p \notin Boys
    <3>1. {e \in own : key[e] = p} = {}
      BY <2>2
    <3>2. RowExpense(p) = 0
      BY <2>2 DEF RowExpense
    <3>3. h[p] = 0
      BY <3>2
    <3>4. Total({e \in own : key[e] = p}) = 0
      BY <3>1, TotalEmpty
    <3> QED BY <3>2, <3>3, <3>4
  <2> QED BY <2>1, <2>2
<1>5. DOMAIN h = P /\ \A p \in P : h[p] \in Int
  BY <1>4
<1> HIDE DEF today, own, rest, key, h
<1>6. Total(own) = SumFunction(h)
  BY <1>2, <1>3, <1>4, <1>5, TotalFibres
<1>7. Total(today) = Total(own) + Total(rest)
  BY <1>2, <1>3, TotalUnion
<1>8. Total(rest) \in Int
  BY <1>2, TotalType
<1>9. SumFunction(h) \in Int
  BY <1>5, FnType
<1>10. \A p \in P : RowExpense(p) \in Int
  BY <1>4
<1> QED BY <1>6, <1>7, <1>8, <1>9, <1>10 DEF today, rest, h

\* What was charged that day to boys, boy by boy.
LEMMA ChargesOfRows ==
  ASSUME LogInv, NEW d \in Int, NEW P, IsFiniteSet(P), Boys \subseteq P,
         NEW h, DOMAIN h = P, \A p \in P : h[p] = IF p \in Boys THEN ChargesOn(Boys, d)[p] ELSE 0,
         NEW charged, charged = {c \in balances : c.kind = "charge" /\ c.party \in Boys}
  PROVE  SumFunction(h) = Total(On(charged, d))
<1> DEFINE today == On(charged, d)
           key == [c \in today |-> c.party]
<1>1. today = {c \in balances : c.kind = "charge" /\ c.party \in Boys /\ c.day = d}
  <2>1. \A c \in balances : c.day \in Int
    BY BooksAssumption DEF LogInv, LogTypeOK, TypeOK
  <2> QED BY <2>1 DEF On, Between
<1>2. Amounts(today) /\ \A c \in today : key[c] \in P
  BY <1>1, TableTypes, AmountsSubset
<1>3. ASSUME NEW p \in P
      PROVE  h[p] = Total({c \in today : key[c] = p})
  <2>1. CASE p \in Boys
    <3>1. {b \in balances : b.party = p /\ b.day = d /\ b.kind = "charge"}
            = {c \in today : key[c] = p}
      BY <1>1, <2>1
    <3> QED BY <2>1, <3>1 DEF ChargesOn
  <2>2. CASE p \notin Boys
    <3>1. {c \in today : key[c] = p} = {}
      BY <1>1, <2>2
    <3> QED BY <2>2, <3>1, TotalEmpty
  <2> QED BY <2>1, <2>2
<1> HIDE DEF today, key
<1>4. Total(today) = SumFunction(h)
  BY <1>2, <1>3, TotalFibres
<1> QED BY <1>4 DEF today

\* SheetAgreesWithBox follows from DayInv.
LEMMA SheetFromBox == DayInv => SheetAgreesWithBox
<1> SUFFICES ASSUME DayInv, SheetShown, quiet
             PROVE  SheetAgreesWithBox
  BY DEF SheetAgreesWithBox
<1>0. PICK d : d = reader.day
  OBVIOUS
<1> DEFINE everybody == Boys \cup got["customers"]
           charged == {c \in balances : c.kind = "charge" /\ c.party \in Boys}
           total == [p \in everybody |-> RowTotal(p)]
           expense == [p \in everybody |-> RowExpense(p)]
           net == [p \in everybody |-> RowNet(p)]
           handed == [p \in everybody |-> RowHanded(p)]
           balance == [p \in everybody |-> IF p \in Boys THEN ChargesOn(Boys, d)[p] ELSE 0]
           nobody == Total({e \in On(expenses, d) : e.boy = Nobody})
<1>1. LogInv /\ d \in Days /\ d \in Int
  BY <1>0, QuietRead
<1>2. /\ got["agg"] = Agg(d) /\ got["drivers"] = active \cap Boys
      /\ got["customers"] = Buyers(d)
  BY <1>0, QuietRead
<1>3. /\ got["notes"] = CashOfAll(SalesOn(d)) /\ got["balanceByDriver"] = ChargesOn(Boys, d)
      /\ got["expenseByDriver"] = ExpenseRows(d)
  BY <1>0, QuietRead
<1>4. /\ got["expensesTotal"] = Spent(d) - Spent(d - 1)
      /\ BoxOut.collected = Collected(d) - Collected(d - 1)
      /\ BoxOut.expenses = Spent(d) - Spent(d - 1)
      /\ BoxOut.hand_cash_collected = CashCollected(d) - CashCollected(d - 1)
  BY <1>0, QuietRead
<1>5. SumFunction([p \in Listed \cup Dropped |-> RowTotal(p)]) = EodCash(d) + EodUpi(d)
  <2>1. IsFiniteSet(Listed \cup Dropped) /\ \A s \in SalesOn(d) : s.party \in Listed \cup Dropped
    BY <1>1, <1>2, PartiesOfSheet
  <2> QED BY <1>1, <1>2, <2>1, RowsOfAll
<1>6. SumFunction(total) = EodCash(d) + EodUpi(d) /\ IsFiniteSet(everybody)
  <2>1. IsFiniteSet(everybody) /\ \A s \in SalesOn(d) : s.party \in everybody
    BY <1>1, <1>2, PartiesOfSheet
  <2> QED BY <1>1, <1>2, <2>1, RowsOfAll
<1>7. EodCash(d) + EodUpi(d) = Collected(d) - Collected(d - 1)
      /\ Total(On(expenses, d)) = Spent(d) - Spent(d - 1)
      /\ CashOfAll(SalesOn(d)) = CashCollected(d) - CashCollected(d - 1)
  BY <1>1, GainsOfDay
<1>8. EodCash(d) \in Int /\ EodUpi(d) \in Int
  BY <1>1, NetOfDay
<1>9. \A p \in everybody : total[p] \in Int
  BY <1>1, <1>2, SoldOf
<1>10. /\ \A p \in everybody : expense[p] \in Int
       /\ SumFunction(expense) \in Int /\ nobody \in Int
       /\ Total(On(expenses, d)) = SumFunction(expense) + nobody
  <2>1. Boys \subseteq everybody
    OBVIOUS
  <2>2. /\ \A p \in everybody : RowExpense(p) \in Int
        /\ SumFunction(expense) \in Int /\ nobody \in Int
        /\ Total(On(expenses, d)) = SumFunction(expense) + nobody
    <3> HIDE DEF everybody
    <3> QED BY <1>1, <1>3, <1>6, <2>1, ExpensesOfRows
  <2> QED BY <2>2
<1>11. SumFunction(balance) = Total(On(charged, d))
  <2>1. Boys \subseteq everybody /\ DOMAIN balance = everybody
        /\ \A p \in everybody : balance[p] = IF p \in Boys THEN ChargesOn(Boys, d)[p] ELSE 0
    OBVIOUS
  <2> HIDE DEF balance, everybody
  <2> QED BY <1>1, <1>6, <2>1, ChargesOfRows
<1>12. /\ DOMAIN total = everybody /\ DOMAIN expense = everybody /\ DOMAIN net = everybody
       /\ DOMAIN handed = everybody /\ DOMAIN balance = everybody
  OBVIOUS
<1>12a. \A p \in everybody : net[p] = total[p] - expense[p]
  BY DEF RowNet
<1>12b. \A p \in everybody : net[p] \in Int
  <2> HIDE DEF net, total, expense, everybody
  <2> QED BY <1>9, <1>10, <1>12a
<1>13. \A p \in everybody : handed[p] = net[p] - balance[p] /\ balance[p] \in Int
  <2> SUFFICES ASSUME NEW p \in everybody
               PROVE  handed[p] = net[p] - balance[p] /\ balance[p] \in Int
    OBVIOUS
  <2>1. CASE p \in Boys
    <3>1. balance[p] = Total({b \in balances : b.party = p /\ b.day = d /\ b.kind = "charge"})
      BY <2>1 DEF ChargesOn
    <3>2. Total({b \in balances : b.party = p /\ b.day = d /\ b.kind = "charge"}) \in Int
      BY <1>1, TableTypes, AmountsSubset, TotalType
    <3>3. RowBalance(p) = balance[p] /\ handed[p] = RowNet(p) - RowBalance(p)
      BY <1>3, <2>1 DEF RowBalance, RowHanded
    <3>4. balance[p] \in Int
      BY <3>1, <3>2
    <3>5. handed[p] = net[p] - balance[p]
      BY <3>3
    <3> QED BY <3>4, <3>5
  <2>2. CASE p \notin Boys
    <3>1. RowExpense(p) = 0 /\ RowHanded(p) = RowTotal(p) /\ balance[p] = 0
      BY <2>2 DEF RowExpense, RowHanded
    <3>2. net[p] = total[p] - 0 /\ handed[p] = total[p] /\ balance[p] = 0
      BY <3>1 DEF RowNet
    <3>3. total[p] \in Int
      BY <1>9
    <3> HIDE DEF net, total, handed, balance, everybody
    <3> QED BY <3>2, <3>3
  <2> QED BY <2>1, <2>2
<1> HIDE DEF everybody, total, expense, net, handed, balance, nobody
<1>14. SumFunction(net) = SumFunction(total) - SumFunction(expense)
  BY <1>6, <1>9, <1>10, <1>12, <1>12a, FnMinus
<1>15. SumFunction(handed) = SumFunction(net) - SumFunction(balance)
  BY <1>6, <1>12, <1>13, <1>12b, FnMinus
<1>16. SumFunction(net) \in Int
  BY <1>6, <1>12, <1>12b, FnType
<1>17. SumFunction(balance) \in Int
  BY <1>6, <1>12, <1>13, FnType
<1>18. SumFunction(net) = BoxOut.collected - BoxOut.expenses + nobody
  BY <1>4, <1>6, <1>7, <1>8, <1>10, <1>14
<1>19. SumFunction(net) - SumFunction(handed) = Total(On(charged, d))
  BY <1>11, <1>15, <1>16, <1>17
<1>20. SumFunction([p \in Listed \cup Dropped |-> RowTotal(p)]) = BoxOut.collected
  BY <1>4, <1>5, <1>7
<1>21. got["notes"] = BoxOut.hand_cash_collected /\ got["expensesTotal"] = BoxOut.expenses
  BY <1>3, <1>4, <1>7
<1> QED BY <1>0, <1>18, <1>19, <1>20, <1>21 DEF SheetAgreesWithBox, everybody, net, handed, nobody

-----------------------------------------------------------------------------
(* SheetStockAddsUp.                                                       *)

SoldToday(d, condition) ==
  {r \in On(stock_ledger, d) : r.condition = condition /\ r.reason = "sale"}

\* The stock rows of the sales of a day are the rows of sales dated that day.
LEMMA StockSoldOnDay ==
  ASSUME LogInv, NEW d \in Int
  PROVE  /\ SumDelta(SoldToday(d, "full")) = -Qty(SalesOn(d))
         /\ SumDelta(SoldToday(d, "empty")) = EmptyQty(SalesOn(d))
         /\ Qty(SalesOn(d)) \in Nat
<1>1. SalesOn(d) \in SUBSET sales
  BY DEF SalesOn
<1>2. \A r \in stock_ledger : r.reason = "sale" => (r.day \in d .. d <=> r.of \in SalesOn(d))
  <2> SUFFICES ASSUME NEW r \in stock_ledger, r.reason = "sale"
               PROVE  r.day \in d .. d <=> r.of \in SalesOn(d)
    OBVIOUS
  <2>1. r.of \in sales /\ r \in Moved(r.of) /\ r.day \in Int
    BY StockRow
  <2>2. r.of \in SaleSlips
    BY <2>1 DEF LogInv, LogTypeOK, TypeOK
  <2>3. r.day = r.of.day
    BY <2>1, <2>2, MovedRows
  <2> QED BY <2>1, <2>3 DEF SalesOn
<1>3. ASSUME NEW condition
      PROVE  SoldToday(d, condition) =
               {r \in stock_ledger :
                  r.reason = "sale" /\ r.condition = condition /\ r.of \in SalesOn(d)}
  BY <1>2 DEF SoldToday, On, Between
<1>4. SumDelta({r \in stock_ledger :
                  r.reason = "sale" /\ r.condition = "full" /\ r.of \in SalesOn(d)})
        = -Qty(SalesOn(d))
  BY <1>1, MovedBySale
<1>5. SumDelta({r \in stock_ledger :
                  r.reason = "sale" /\ r.condition = "empty" /\ r.of \in SalesOn(d)})
        = EmptyQty(SalesOn(d))
  BY <1>1, MovedBySale
<1>6. Qty(SalesOn(d)) \in Nat
  BY <1>1, SumsOfSales
<1> QED BY <1>3, <1>4, <1>5, <1>6

\* What the warehouse gains on a day: the full cylinders booked that day.
LEMMA WarehouseGain ==
  ASSUME LogInv, NEW d \in Int,
         NEW others,
         others = {r \in On(stock_ledger, d) : r.condition = "full" /\ r.reason # "sale"}
  PROVE  /\ Warehouse(d) = Warehouse(d - 1) - Qty(SalesOn(d)) + SumDelta(others)
         /\ Warehouse(d - 1) \in Int /\ SumDelta(others) \in Int
<1> DEFINE full == {r \in stock_ledger : r.condition = "full"}
           sold == SoldToday(d, "full")
<1>1. /\ SumDelta(UpTo(full, d)) = SumDelta(Before(full, d)) + SumDelta(On(full, d))
      /\ Warehouse(d) = SumDelta(UpTo(full, d)) /\ Warehouse(d - 1) = SumDelta(Before(full, d))
  <2>1. full \in SUBSET stock_ledger
    OBVIOUS
  <2>2. /\ UpTo(full, d) = {r \in stock_ledger : r.condition = "full" /\ r.day <= d}
        /\ Before(full, d) = {r \in stock_ledger : r.condition = "full" /\ r.day <= d - 1}
    BY StockRow DEF UpTo, Before
  <2>3. SumDelta(UpTo(full, d)) = SumDelta(Before(full, d)) + SumDelta(On(full, d))
    BY <2>1, CarryOver
  <2> QED BY <2>2, <2>3 DEF Warehouse
<1>2. On(full, d) = sold \cup others /\ sold \cap others = {}
  BY DEF SoldToday, On, Between
<1>3. /\ On(full, d) \in SUBSET stock_ledger /\ others \in SUBSET stock_ledger
      /\ Before(full, d) \in SUBSET stock_ledger
  BY DEF On, Between, Before
<1>4. SumDelta(sold) = -Qty(SalesOn(d)) /\ Qty(SalesOn(d)) \in Nat
  BY StockSoldOnDay
<1> HIDE DEF full, sold
<1>5. Deltas(On(full, d))
  BY <1>3, SumDeltaInt
<1>6. SumDelta(others) \in Int
  BY <1>3, SumDeltaInt
<1>7. SumDelta(Before(full, d)) \in Int
  BY <1>3, SumDeltaInt
<1>8. SumDelta(On(full, d)) = SumDelta(sold) + SumDelta(others)
  BY <1>2, <1>5, DeltaUnion
<1> QED BY <1>1, <1>4, <1>6, <1>7, <1>8

\* The loads of the boys, row by row: those of the load sheet.
LEMMA LoadsOfRows ==
  ASSUME LogInv, NEW d, NEW P, IsFiniteSet(P), Boys \subseteq P, got["loads"] = LoadRows(d)
  PROVE  /\ \A p \in P : RowLoad(p).loaded \in Int
         /\ SumFunction([p \in P |-> RowLoad(p).loaded])
              = SumFunction([t \in Types |-> MovementLoaded(t, d)])
<1> DEFINE today == {l \in loads : l.day = d}
           key == [l \in today |-> l.boy]
           h == [p \in P |-> RowLoad(p).loaded]
<1>1. today \in SUBSET loads
  OBVIOUS
<1>2. \A l \in today : key[l] \in P
  <2>1. \A l \in today : l.boy \in Boys
    BY <1>1, SumsOfLoads
  <2> QED BY <2>1
<1>3. ASSUME NEW p \in P
      PROVE  h[p] = Loaded({l \in today : key[l] = p}) /\ h[p] \in Int
  <2>0. {l \in today : key[l] = p} \in SUBSET loads
    OBVIOUS
  <2>1. CASE p \in Boys
    <3>1. {l \in loads : l.boy = p /\ l.day = d} = {l \in today : key[l] = p}
      OBVIOUS
    <3>2. h[p] = LoadedBy(p, d)
      BY <2>1 DEF RowLoad, LoadRows
    <3>3. Loaded({l \in today : key[l] = p}) \in Nat
      <4> HIDE DEF today, key
      <4> QED BY <2>0, SumsOfLoads
    <3>4. LoadedBy(p, d) = Loaded({l \in today : key[l] = p})
      BY <3>1 DEF LoadedBy
    <3> HIDE DEF h, today, key
    <3> QED BY <3>2, <3>3, <3>4
  <2>2. CASE p \notin Boys
    <3>1. {l \in today : key[l] = p} = {}
      <4>1. \A l \in today : l.boy \in Boys
        BY <1>1, SumsOfLoads
      <4> QED BY <2>2, <4>1
    <3>2. h[p] = 0
      BY <2>2 DEF RowLoad
    <3>3. Loaded({}) = SumFunctionOnSet(LoadedOf, {})
      BY SumsOfLoads
    <3>4. Loaded({}) = 0
      BY <3>3, SumEmpty
    <3>5. Loaded({l \in today : key[l] = p}) = 0
      BY <3>1, <3>4
    <3> HIDE DEF h, today, key
    <3> QED BY <3>2, <3>5
  <2> QED BY <2>1, <2>2
<1>4. DOMAIN h = P
  OBVIOUS
<1>5. \A p \in P : RowLoad(p).loaded \in Int
  BY <1>3
<1>6. SumFunction([t \in Types |-> MovementLoaded(t, d)]) = Loaded(today)
  BY LoadedOnDay
<1> HIDE DEF today, key, h
<1>7. Loaded(today) = SumFunction(h)
  BY <1>1, <1>2, <1>3, <1>4, LoadedByKey
<1>8. SumFunction([t \in Types |-> MovementLoaded(t, d)]) = SumFunction(h)
  BY <1>6, <1>7
<1> QED BY <1>5, <1>8 DEF h

\* SheetStockAddsUp follows from DayInv.
LEMMA SheetFromStock == DayInv => SheetStockAddsUp
<1> SUFFICES ASSUME DayInv, SheetShown, quiet
             PROVE  SheetStockAddsUp
  BY DEF SheetStockAddsUp
<1>0. PICK d : d = reader.day
  OBVIOUS
<1> DEFINE others == {r \in On(stock_ledger, d) : r.condition = "full" /\ r.reason # "sale"}
           all == [p \in Listed \cup Dropped |-> Sold(p).cylinders]
           shown == [p \in Listed |-> Sold(p).cylinders]
           hidden == [b \in Dropped |-> Sold(b).cylinders]
           back == [p \in Listed \cup Dropped |-> Sold(p).empties]
           load == [p \in Boys \cup got["customers"] |-> RowLoad(p).loaded]
           out == [p \in Listed |-> RowLoad(p).loaded]
           rest == [b \in Boys \ Listed |-> got["loads"][b].loaded]
<1>1. LogInv /\ d \in Days /\ d \in Int
  BY <1>0, QuietRead
<1>2. /\ got["agg"] = Agg(d) /\ got["drivers"] = active \cap Boys /\ got["customers"] = Buyers(d)
      /\ got["loads"] = LoadRows(d)
      /\ got["openingStock"] = Warehouse(d - 1) /\ got["closingStock"] = Warehouse(d)
  BY <1>0, QuietRead
<1>3. /\ IsFiniteSet(Listed) /\ IsFiniteSet(Dropped) /\ IsFiniteSet(Listed \cup Dropped)
      /\ IsFiniteSet(Boys \cup got["customers"]) /\ Listed \cap Dropped = {}
      /\ Listed \cup (Boys \ Listed) = Boys \cup got["customers"]
      /\ \A s \in SalesOn(d) : s.party \in Listed \cup Dropped
  BY <1>1, <1>2, PartiesOfSheet
<1>4. SumFunction(all) = Qty(SalesOn(d))
  BY <1>1, <1>2, <1>3, RowsOfAll
<1>5. SumFunction(back) = EmptyQty(SalesOn(d))
  BY <1>1, <1>2, <1>3, RowsOfAll
<1>6. /\ \A p \in Listed \cup Dropped : all[p] \in Int
      /\ \A p \in Listed : shown[p] = all[p]
      /\ \A p \in Dropped : hidden[p] = all[p]
  BY <1>1, <1>2, SoldOf
<1>7. DOMAIN all = Listed \cup Dropped /\ DOMAIN shown = Listed /\ DOMAIN hidden = Dropped
  OBVIOUS
<1>8. /\ Warehouse(d) = Warehouse(d - 1) - Qty(SalesOn(d)) + SumDelta(others)
      /\ Warehouse(d - 1) \in Int /\ SumDelta(others) \in Int
  BY <1>1, WarehouseGain
<1>9. SumDelta(SoldToday(d, "empty")) = EmptyQty(SalesOn(d))
  BY <1>1, StockSoldOnDay
<1>10. /\ \A p \in Boys \cup got["customers"] : RowLoad(p).loaded \in Int
       /\ SumFunction(load) = SumFunction([t \in Types |-> MovementLoaded(t, d)])
  <2>1. Boys \subseteq Boys \cup got["customers"]
    OBVIOUS
  <2> QED BY <1>1, <1>2, <1>3, <2>1, LoadsOfRows
<1>11. /\ DOMAIN load = DOMAIN out \cup DOMAIN rest /\ DOMAIN out \cap DOMAIN rest = {}
       /\ \A p \in DOMAIN out : out[p] = load[p] /\ load[p] \in Int
       /\ \A b \in DOMAIN rest : rest[b] = load[b] /\ load[b] \in Int
  BY <1>3, <1>10 DEF RowLoad
<1>12. IsFiniteSet(DOMAIN out) /\ IsFiniteSet(DOMAIN rest)
  <2>1. DOMAIN out = Listed /\ DOMAIN rest = Boys \ Listed
    OBVIOUS
  <2>2. IsFiniteSet(Boys \ Listed)
    BY BooksAssumption, FS_Subset
  <2> QED BY <1>3, <2>1, <2>2
<1>13. StockOut.sold = SumFunction(shown) /\ StockOut.loaded = SumFunction(out)
       /\ StockOut.opening = Warehouse(d - 1) /\ StockOut.closing = Warehouse(d)
  BY <1>2 DEF StockOut
<1> HIDE DEF all, shown, hidden, back, load, out, rest, others
<1>14. SumFunction(all) = SumFunction(shown) + SumFunction(hidden)
  BY <1>3, <1>6, <1>7, FnUnion
<1>15. SumFunction(load) = SumFunction(out) + SumFunction(rest)
  BY <1>11, <1>12, FnUnion
<1>16. SumFunction(shown) \in Int
  BY <1>3, <1>6, <1>7, FnType
<1>17. SumFunction(hidden) \in Int
  BY <1>3, <1>6, <1>7, FnType
<1>18. StockOut.closing
         = StockOut.opening - StockOut.sold - SumFunction(hidden) + SumDelta(others)
  BY <1>4, <1>8, <1>13, <1>14, <1>16, <1>17
<1>19. SumFunction(back) = SumDelta({r \in On(stock_ledger, d) :
                                       r.condition = "empty" /\ r.reason = "sale"})
  BY <1>5, <1>9 DEF SoldToday
<1>20. StockOut.loaded + SumFunction(rest)
         = SumFunction([t \in Types |-> MovementLoaded(t, d)])
  BY <1>10, <1>13, <1>15
<1> QED BY <1>0, <1>18, <1>19, <1>20 DEF SheetStockAddsUp, others, hidden, back, rest

\* A day sheet read while nothing is committed agrees with the cashier box in it
\* (services/day_sheet.py, services/cashier_box.py).
THEOREM SheetAlwaysAgrees == DSpec => []SheetAgreesWithBox
<1>1. DayInv /\ [Next]_vars => DayInv'
  BY DayNextInv
<1>2. DayInv => SheetAgreesWithBox
  BY SheetFromBox
<1> QED BY <1>1, <1>2, DayInitInv, PTL DEF DSpec

\* And its stock summary leads from the opening to the closing of the warehouse
\* (services/day_sheet.py, services/stock.py).
THEOREM SheetStockAlwaysAddsUp == DSpec => []SheetStockAddsUp
<1>1. DayInv /\ [Next]_vars => DayInv'
  BY DayNextInv
<1>2. DayInv => SheetStockAddsUp
  BY SheetFromStock
<1> QED BY <1>1, <1>2, DayInitInv, PTL DEF DSpec
=============================================================================
