------------------------------ MODULE MCBooks ------------------------------
(***************************************************************************)
(* Small instances of Books and StockLog for TLC: two days, a boy, a       *)
(* customer, an account, two types.  Amounts are distinct powers of two,   *)
(* so that equal sums are sums of the same rows.                           *)
(***************************************************************************)
EXTENDS StockLog

CONSTANTS b1, c1, acc1, box, outside, nobody, c14, c19, pipe

Sale(d, p, c, u, o, b) ==
  [day |-> d, party |-> p, cash |-> c, upi |-> u, online |-> o, balance |-> b]
Spend(d, n, m, b, k) == [day |-> d, amount |-> n, method |-> m, boy |-> b, known |-> k]
Move(d, n, f, t, k) == [day |-> d, amount |-> n, from |-> f, to |-> t, known |-> k]
Manual(d, n, p, k, known) ==
  [day |-> d, amount |-> n, party |-> p, kind |-> k, known |-> known]

\* For the tables alone: every kind of row, on two days.
MCSales == {Sale(1, b1, 1, 2, 4, 8), Sale(2, c1, 16, 32, 0, 64)}
MCExpenses ==
  {Spend(1, 256, "cash", b1, TRUE), Spend(2, 512, "digital", nobody, TRUE),
   Spend(2, 1024, "cash", b1, FALSE)}
MCTransfers ==
  {Move(1, 2048, box, acc1, TRUE), Move(2, 4096, acc1, outside, TRUE),
   Move(2, 16384, box, acc1, FALSE)}
MCEntries ==
  {Manual(2, 32768, b1, "repayment", TRUE), Manual(1, 65536, c1, "charge", FALSE)}

Stock(d, reason, i, cond, n) ==
  [day |-> d, reason |-> reason, item |-> i, condition |-> cond, qty |-> n]
Load(d, b, t, out, back) ==
  [day |-> d, boy |-> b, type |-> t, loaded |-> out, returned |-> back, known |-> TRUE]
Carries(t, n, e, x) == [type |-> t, qty |-> n, empty |-> e, excess |-> x]

\* Today is 2: the sale of the first day may be posted late.
MCCargo ==
  [s \in MCSales |-> IF s.day = 1 THEN Carries(c14, 1, 2, 3) ELSE Carries(c19, 4, 0, 0)]
MCStock ==
  {Stock(1, "ac4", c14, "full", 16), Stock(2, "intake", c19, "full", 32),
   Stock(1, "return", c19, "full", 64), Stock(2, "adjust", c14, "full", -128),
   Stock(2, "erv", c14, "empty", 256), Stock(1, "ac4", pipe, "none", 512)}

\* Morning and evening of one load, and a load of an unknown boy.
MCLoads ==
  {Load(1, b1, c14, 1, 0), Load(1, b1, c14, 2, 1),
   [Load(2, b1, c19, 4, 0) EXCEPT !.known = FALSE]}
=============================================================================
