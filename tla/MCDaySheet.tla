----------------------------- MODULE MCDaySheet -----------------------------
(***************************************************************************)
(* A small instance of DaySheet for TLC.                                   *)
(***************************************************************************)
EXTENDS DaySheet, MCBooks

\* What one read can straddle: money and stock of the day and of the day before.
MCReadSales == {Sale(1, c1, 1, 2, 0, 0), Sale(2, b1, 4, 8, 16, 32)}
MCReadExpenses == {Spend(2, 256, "cash", b1, TRUE)}
MCReadTransfers == {Move(2, 2048, box, acc1, TRUE)}
MCReadCargo ==
  [s \in MCReadSales |-> IF s.day = 1 THEN Carries(c14, 1, 2, 0) ELSE Carries(c19, 4, 8, 0)]
MCReadStock == {Stock(1, "intake", c14, "full", 16), Stock(2, "return", c19, "full", 32)}
MCReadLoads == {Load(2, b1, c14, 1, 2)}
=============================================================================
