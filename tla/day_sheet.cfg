SPECIFICATION DSpec
CONSTANTS
  b1 = b1
  c1 = c1
  acc1 = acc1
  box = box
  outside = outside
  nobody = nobody
  c14 = c14
  c19 = c19
  pipe = pipe
  Boys = {b1}
  Customers = {c1}
  Accounts = {acc1}
  Days = {1, 2}
  SaleSlips <- MCReadSales
  ExpenseSlips <- MCReadExpenses
  TransferSlips <- MCReadTransfers
  EntrySlips = {}
  Box = box
  Outside = outside
  Nobody = nobody
  Types = {c14, c19}
  Accessories = {pipe}
  Today = 2
  Cargo <- MCReadCargo
  StockSlips <- MCReadStock
  LoadSlips <- MCReadLoads
INVARIANT MovementsAreOfTheDay
INVARIANT SheetAgreesWithBox
INVARIANT SheetStockAddsUp
