------------------------------ MODULE StockProofs -----------------------------
(***************************************************************************)
(* Warehouse and Correction, for every set of types, requests and orders.  *)
(*                                                                         *)
(* Warehouse: types, the inductive invariant CommitSafe, and what follows  *)
(* from it - the live count is the ledger's sum, it is never oversold,     *)
(* versions track counts, and the module implements StockBook.             *)
(*                                                                         *)
(* Correction: what the version check of adjust_inventory is worth, for    *)
(* any number of corrections next to any trading requests.                 *)
(***************************************************************************)
EXTENDS Correction, SumProofs

\* The line a request is at is one of the moves an order may hold.
LEMMA LineIsMove ==
  ASSUME TypeOK, NEW r \in Requests, HasLine(r)
  PROVE  /\ Line(r) \in Moves
         /\ Line(r).delta \in Int
         /\ Line(r).item \in Items \cup {Unlisted}
         /\ at[r] \in Nat
         /\ at[r] + 1 \in 1 .. (Len(order[r]) + 1)
<1>1. /\ order[r] \in Seq(Moves) /\ at[r] \in Nat /\ at[r] <= Len(order[r])
      /\ at[r] >= 1
  BY DEF TypeOK, HasLine, Running
<1>2. Line(r) \in Moves
  BY <1>1 DEF Line
<1> QED
  BY <1>1, <1>2 DEF Moves

\* The two ways a row is rewritten give rows.
LEMMA RowsClosed ==
  ASSUME NEW row \in Rows, NEW n \in Int
  PROVE  Upsert(row, n) \in Rows /\ Take(row, n) \in Rows
BY DEF Rows, Upsert, Take

\* The empty row, draft and entries have the types of full ones.
LEMMA NothingTyped ==
  /\ NoRow \in Rows
  /\ NoDraft \in [Types -> Rows]
  /\ Nothing \in [Items -> Int]
BY DEF NoRow, NoDraft, Nothing, Rows

\* Types hold at first.
LEMMA InitTypeOK == Init => TypeOK
<1> SUFFICES ASSUME Init PROVE TypeOK
  OBVIOUS
<1>1. inv \in [Types -> Rows]
  BY WarehouseAssumption DEF Init, Rows
<1>2. ledger \in [Items -> Int]
  BY WarehouseAssumption DEF Init, Items
<1>3. \A r \in Requests : pc[r] = "idle"
  BY DEF Init
<1> QED
  BY <1>1, <1>2, <1>3, NothingTyped DEF Init, TypeOK, Running

\* Going on to the next line keeps the bookkeeping typed.
LEMMA EnterTyped ==
  ASSUME TypeOK, NEW r \in Requests, HasLine(r), Line(r).item \in Items, Enter(r)
  PROVE  /\ entries' \in [Requests -> [Items -> Int]]
         /\ at' \in [Requests -> Nat]
         /\ \A q \in Requests : Running(q)' => at'[q] \in 1 .. (Len(order'[q]) + 1)
<1>1. /\ Line(r).delta \in Int
      /\ at[r] + 1 \in 1 .. (Len(order[r]) + 1)
  BY LineIsMove
<1>2. entries[r] \in [Items -> Int] /\ entries[r][Line(r).item] + Line(r).delta \in Int
  BY <1>1 DEF TypeOK
<1>3. entries' \in [Requests -> [Items -> Int]]
  BY <1>2 DEF TypeOK, Enter
<1>4. at' \in [Requests -> Nat]
  BY <1>1 DEF TypeOK, Enter
<1>5. \A q \in Requests : Running(q)' => at'[q] \in 1 .. (Len(order'[q]) + 1)
  BY <1>1 DEF TypeOK, Enter, Running
<1> QED
  BY <1>3, <1>4, <1>5

\* A written row keeps the types of locks and drafts.
LEMMA WriteTyped ==
  ASSUME TypeOK, NEW r \in Requests, NEW t \in Types, NEW row \in Rows, Write(r, t, row)
  PROVE  /\ lock' \in [Types -> Requests \cup {NoOne}]
         /\ draft' \in [Requests -> [Types -> Rows]]
BY DEF TypeOK, Write

\* What a request sees of a row is a row.
LEMMA RowTyped ==
  ASSUME TypeOK, NEW r \in Requests, NEW t \in Types
  PROVE  Row(t, r) \in Rows
BY DEF TypeOK, Row

\* The end of a request keeps the types of what it clears.
LEMMA FinishTyped ==
  ASSUME TypeOK, NEW r \in Requests, NEW o \in {"done", "failed"}, Finish(r, o)
  PROVE  /\ pc' \in [Requests -> {"idle", "running", "done", "failed"}]
         /\ order' \in [Requests -> Seq(Moves)]
         /\ at' \in [Requests -> Nat]
         /\ lock' \in [Types -> Requests \cup {NoOne}]
         /\ draft' \in [Requests -> [Types -> Rows]]
         /\ entries' \in [Requests -> [Items -> Int]]
         /\ \A q \in Requests : Running(q)' => at'[q] \in 1 .. (Len(order'[q]) + 1)
<1>1. order' \in [Requests -> Seq(Moves)]
  BY DEF TypeOK, Finish
<1>2. /\ draft' \in [Requests -> [Types -> Rows]]
      /\ entries' \in [Requests -> [Items -> Int]]
  BY NothingTyped DEF TypeOK, Finish
<1>3. \A q \in Requests : Running(q)' => at'[q] \in 1 .. (Len(order'[q]) + 1)
  <2> SUFFICES ASSUME NEW q \in Requests, Running(q)'
               PROVE  at'[q] \in 1 .. (Len(order'[q]) + 1)
    OBVIOUS
  <2>1. q # r
    BY DEF TypeOK, Finish, Running
  <2>2. Running(q) /\ at'[q] = at[q] /\ order'[q] = order[q]
    BY <2>1 DEF TypeOK, Finish, Running
  <2> QED
    BY <2>2 DEF TypeOK
<1> QED
  BY <1>1, <1>2, <1>3 DEF TypeOK, Finish, Unlocked

\* A step of a request keeps the types.
LEMMA StepTyped ==
  ASSUME TypeOK, NEW r \in Requests, Begin(r) \/ Serve(r) \/ Abort(r)
  PROVE  TypeOK'
<1>1. CASE Begin(r)
  <2>1. PICK o \in Orders : order' = [order EXCEPT ![r] = o]
    BY <1>1 DEF Begin
  <2>2. o \in Seq(Moves)
    BY WarehouseAssumption
  <2>3. order' \in [Requests -> Seq(Moves)]
    BY <2>1, <2>2 DEF TypeOK
  <2>4. \A q \in Requests : Running(q)' => at'[q] \in 1 .. (Len(order'[q]) + 1)
    BY <1>1, <2>1, <2>2 DEF TypeOK, Begin, Running
  <2> QED
    BY <1>1, <2>3, <2>4 DEF TypeOK, Begin
<1>2. CASE Receive(r)
  <2> DEFINE t == Line(r).item
             row == Upsert(Row(t, r), Line(r).delta)
  <2>1. t \in Types /\ HasLine(r) /\ Write(r, t, row) /\ Enter(r) /\ t \in Items
    BY <1>2 DEF Receive, Items
  <2>2. Row(t, r) \in Rows /\ Line(r).delta \in Int
    BY <2>1, RowTyped, LineIsMove
  <2>3. row \in Rows
    BY <2>2, RowsClosed
  <2> HIDE DEF t, row
  <2>4. /\ lock' \in [Types -> Requests \cup {NoOne}]
        /\ draft' \in [Requests -> [Types -> Rows]]
    BY <2>1, <2>3, WriteTyped
  <2>5. /\ entries' \in [Requests -> [Items -> Int]]
        /\ at' \in [Requests -> Nat]
        /\ \A q \in Requests : Running(q)' => at'[q] \in 1 .. (Len(order'[q]) + 1)
    BY <2>1, EnterTyped DEF t
  <2> QED
    BY <2>1, <2>4, <2>5 DEF TypeOK, Enter
<1>3. CASE Draw(r)
  <2> DEFINE t == Line(r).item
             row == Take(Row(t, r), Line(r).delta)
  <2>1. t \in Types /\ HasLine(r) /\ Write(r, t, row) /\ Enter(r) /\ t \in Items
    BY <1>3 DEF Draw, Items
  <2>2. Row(t, r) \in Rows /\ Line(r).delta \in Int
    BY <2>1, RowTyped, LineIsMove
  <2>3. row \in Rows
    BY <2>2, RowsClosed
  <2> HIDE DEF t, row
  <2>4. /\ lock' \in [Types -> Requests \cup {NoOne}]
        /\ draft' \in [Requests -> [Types -> Rows]]
    BY <2>1, <2>3, WriteTyped
  <2>5. /\ entries' \in [Requests -> [Items -> Int]]
        /\ at' \in [Requests -> Nat]
        /\ \A q \in Requests : Running(q)' => at'[q] \in 1 .. (Len(order'[q]) + 1)
    BY <2>1, EnterTyped DEF t
  <2> QED
    BY <2>1, <2>4, <2>5 DEF TypeOK, Enter
<1>4. CASE Note(r)
  <2>1. HasLine(r) /\ Enter(r) /\ Line(r).item \in Items /\ UNCHANGED <<lock, draft>>
    BY <1>4 DEF Note, Items
  <2>2. /\ entries' \in [Requests -> [Items -> Int]]
        /\ at' \in [Requests -> Nat]
        /\ \A q \in Requests : Running(q)' => at'[q] \in 1 .. (Len(order'[q]) + 1)
    BY <2>1, EnterTyped
  <2> QED
    BY <2>1, <2>2 DEF TypeOK, Enter
<1>5. CASE Refuse(r) \/ Victim(r) \/ Abort(r)
  <2>1. Finish(r, "failed") /\ UNCHANGED <<inv, ledger>>
    BY <1>5 DEF Refuse, Victim, Abort, Rollback
  <2> QED
    BY <2>1, FinishTyped DEF TypeOK
<1>6. CASE Commit(r)
  <2>1. Finish(r, "done")
    BY <1>6 DEF Commit
  <2>2. inv' \in [Types -> Rows] /\ ledger' \in [Items -> Int]
    BY <1>6 DEF Commit, Drafted, Entered, TypeOK
  <2> QED
    BY <2>1, <2>2, FinishTyped DEF TypeOK
<1> QED
  BY <1>1, <1>2, <1>3, <1>4, <1>5, <1>6 DEF Serve

\* Types are inductive.
LEMMA NextTyped == TypeOK /\ [Next]_vars => TypeOK'
<1>1. ASSUME TypeOK, NEW r \in Requests, Begin(r) \/ Serve(r) \/ Abort(r)
      PROVE  TypeOK'
  BY <1>1, StepTyped
<1>2. ASSUME TypeOK, UNCHANGED vars PROVE TypeOK'
  BY <1>2 DEF vars, TypeOK, Running
<1> QED
  BY <1>1, <1>2 DEF Next, AllEnded

\* The tables and the transactions' private work always have the shapes the
\* code gives them, for any number of types, requests and orders.
THEOREM TypeCorrect == Spec => []TypeOK
<1> QED
  BY InitTypeOK, NextTyped, PTL DEF Spec

-----------------------------------------------------------------------------
(***************************************************************************)
(* CommitSafe is inductive.                                                *)
(***************************************************************************)
LEMMA InitSafe == Init => CommitSafe
<1> SUFFICES ASSUME Init PROVE CommitSafe
  OBVIOUS
<1>1. HoldersRun
  BY DEF Init, HoldersRun
<1>2. AbsentIsZero
  BY WarehouseAssumption DEF Init, AbsentIsZero
<1>3. DraftsInStep
  BY WarehouseAssumption DEF Init, DraftsInStep, Nothing, Items
<1>4. InStep
  BY DEF Init, InStep, Items
<1>5. NeverOversold
  <2>1. \A t \in Types : lock[t] = NoOne /\ inv[t].qty = OnHand[t]
    BY DEF Init
  <2>2. ASSUME NEW t \in Types
        PROVE  inv[t].qty >= 0 /\ (lock[t] # NoOne => draft[lock[t]][t].qty >= 0)
    <3>1. OnHand[t] \in Nat
      BY WarehouseAssumption
    <3> QED
      BY <2>1, <3>1
  <2> QED
    BY <2>2 DEF NeverOversold
<1> QED
  BY <1>1, <1>2, <1>3, <1>4, <1>5, InitTypeOK DEF CommitSafe

\* What a line of any kind does to the row it writes: the count moves by the
\* line's delta, to a count that is not negative, and the version moves on.
RowStep(row, old, delta) ==
  /\ row.there
  /\ row.qty = old.qty + delta
  /\ row.qty >= 0
  /\ old.there => row.ver > old.ver

\* Working on one's own locked row disturbs nobody.
LEMMA WriteSafe ==
  ASSUME CommitSafe, NEW r \in Requests, HasLine(r),
         NEW t \in Types, t = Line(r).item, Free(t, r),
         NEW row \in Rows, RowStep(row, Row(t, r), Line(r).delta),
         Write(r, t, row), Enter(r)
  PROVE  HoldersRun' /\ AbsentIsZero' /\ DraftsInStep' /\ InStep' /\ NeverOversold'
<1>1. TypeOK /\ Line(r).delta \in Int
  BY LineIsMove DEF CommitSafe
<1>2. /\ \A u \in Types : lock'[u] = IF u = t THEN r ELSE lock[u]
      /\ \A q \in Requests, u \in Types :
           draft'[q][u] = IF q = r /\ u = t THEN row ELSE draft[q][u]
      /\ \A q \in Requests, u \in Types :
           entries'[q][u] = IF q = r /\ u = t THEN entries[q][u] + Line(r).delta
                                             ELSE entries[q][u]
      /\ inv' = inv /\ ledger' = ledger /\ pc' = pc
  <2>1. t \in Items
    BY DEF Items
  <2>2. Types \subseteq Items
    BY DEF Items
  <2> QED
    BY <1>1, <2>1, <2>2 DEF TypeOK, Write, Enter
<1>3. HoldersRun'
  <2> SUFFICES ASSUME NEW u \in Types, lock'[u] # NoOne
               PROVE  pc'[lock'[u]] = "running"
    BY DEF HoldersRun, Running
  <2>1. CASE u = t
    BY <2>1, <1>2 DEF HasLine, Running
  <2>2. CASE u # t
    BY <2>2, <1>2 DEF CommitSafe, HoldersRun, Running
  <2> QED
    BY <2>1, <2>2
<1>4. AbsentIsZero' /\ InStep'
  BY <1>2 DEF CommitSafe, AbsentIsZero, InStep
<1>5. row.qty = inv[t].qty + entries[r][t] + Line(r).delta
  <2>1. CASE lock[t] = r
    BY <2>1, <1>1 DEF CommitSafe, DraftsInStep, Row, RowStep, TypeOK, Rows, Items
  <2>2. CASE lock[t] # r
    BY <2>2, <1>1 DEF CommitSafe, DraftsInStep, Row, RowStep, TypeOK, Rows, Items
  <2> QED
    BY <2>1, <2>2
<1>6. inv[t].there => row.ver > inv[t].ver
  BY <1>1 DEF CommitSafe, DraftsInStep, Row, RowStep, TypeOK, Rows
<1>7. DraftsInStep'
  <2> SUFFICES ASSUME NEW q \in Requests, NEW u \in Types
               PROVE  IF lock'[u] = q
                        THEN /\ draft'[q][u].there
                             /\ draft'[q][u].qty = inv'[u].qty + entries'[q][u]
                             /\ inv'[u].there => draft'[q][u].ver > inv'[u].ver
                        ELSE entries'[q][u] = 0
    BY DEF DraftsInStep
  <2>1. CASE u = t /\ q = r
    <3>1. entries[r][t] \in Int /\ inv[t].qty \in Int
      BY <1>1 DEF TypeOK, Rows, Items
    <3> QED
      BY <2>1, <3>1, <1>1, <1>2, <1>5, <1>6 DEF RowStep
  <2>2. CASE u = t /\ q # r
    <3>1. lock[t] # q
      BY <2>2, WarehouseAssumption DEF Free
    <3> QED
      BY <2>2, <3>1, <1>2 DEF CommitSafe, DraftsInStep
  <2>3. CASE u # t
    BY <2>3, <1>2 DEF CommitSafe, DraftsInStep
  <2> QED
    BY <2>1, <2>2, <2>3
<1>8. NeverOversold'
  <2> SUFFICES ASSUME NEW u \in Types
               PROVE  /\ inv'[u].qty >= 0
                      /\ lock'[u] # NoOne => draft'[lock'[u]][u].qty >= 0
    BY DEF NeverOversold
  <2>1. CASE u = t
    BY <2>1, <1>2 DEF CommitSafe, NeverOversold, RowStep
  <2>2. CASE u # t
    <3>1. lock'[u] = lock[u] /\ lock[u] \in Requests \cup {NoOne}
      BY <2>2, <1>1, <1>2 DEF TypeOK
    <3> QED
      BY <2>2, <3>1, <1>2 DEF CommitSafe, NeverOversold
  <2> QED
    BY <2>1, <2>2
<1> QED
  BY <1>3, <1>4, <1>7, <1>8

\* Ending a transaction without committing disturbs nobody.
LEMMA RollbackSafe ==
  ASSUME CommitSafe, NEW r \in Requests, Rollback(r)
  PROVE  HoldersRun' /\ AbsentIsZero' /\ DraftsInStep' /\ InStep' /\ NeverOversold'
<1>1. /\ \A u \in Types : lock'[u] = IF lock[u] = r THEN NoOne ELSE lock[u]
      /\ \A q \in Requests \ {r} :
           draft'[q] = draft[q] /\ entries'[q] = entries[q] /\ pc'[q] = pc[q]
      /\ \A u \in Types : entries'[r][u] = 0
      /\ inv' = inv /\ ledger' = ledger
  BY DEF Rollback, Finish, Unlocked, Nothing, CommitSafe, TypeOK, Items
<1>2. HoldersRun'
  BY <1>1 DEF CommitSafe, TypeOK, HoldersRun, Running
<1>3. AbsentIsZero' /\ InStep'
  BY <1>1 DEF CommitSafe, AbsentIsZero, InStep
<1>4. DraftsInStep'
  <2> SUFFICES ASSUME NEW q \in Requests, NEW u \in Types
               PROVE  IF lock'[u] = q
                        THEN /\ draft'[q][u].there
                             /\ draft'[q][u].qty = inv'[u].qty + entries'[q][u]
                             /\ inv'[u].there => draft'[q][u].ver > inv'[u].ver
                        ELSE entries'[q][u] = 0
    BY DEF DraftsInStep
  <2>1. CASE q = r
    BY <2>1, <1>1, WarehouseAssumption
  <2>2. CASE q # r
    BY <2>2, <1>1, WarehouseAssumption DEF CommitSafe, DraftsInStep
  <2> QED
    BY <2>1, <2>2
<1>5. NeverOversold'
  BY <1>1 DEF CommitSafe, TypeOK, NeverOversold
<1> QED
  BY <1>2, <1>3, <1>4, <1>5

\* A commit makes the holder's drafts and ledger rows visible together.
LEMMA CommitKeepsSafe ==
  ASSUME CommitSafe, NEW r \in Requests, Commit(r)
  PROVE  HoldersRun' /\ AbsentIsZero' /\ DraftsInStep' /\ InStep' /\ NeverOversold'
<1>1. /\ \A u \in Types : lock'[u] = IF lock[u] = r THEN NoOne ELSE lock[u]
      /\ \A q \in Requests \ {r} :
           draft'[q] = draft[q] /\ entries'[q] = entries[q] /\ pc'[q] = pc[q]
      /\ \A u \in Types : entries'[r][u] = 0
      /\ \A u \in Types : inv'[u] = IF lock[u] = r THEN draft[r][u] ELSE inv[u]
      /\ \A u \in Types : ledger'[u] = ledger[u] + entries[r][u]
  BY DEF Commit, Drafted, Entered, Finish, Unlocked, Nothing, CommitSafe, TypeOK, Items
<1>2. \A u \in Types : /\ inv[u].qty \in Int /\ ledger[u] \in Int
                       /\ \A q \in Requests : entries[q][u] \in Int
  BY DEF CommitSafe, TypeOK, Rows, Items
<1>3. HoldersRun'
  BY <1>1 DEF CommitSafe, TypeOK, HoldersRun, Running
<1>4. AbsentIsZero'
  BY <1>1 DEF CommitSafe, AbsentIsZero, DraftsInStep
<1>5. InStep'
  BY <1>1, <1>2 DEF CommitSafe, InStep, DraftsInStep
<1>6. DraftsInStep'
  <2> SUFFICES ASSUME NEW q \in Requests, NEW u \in Types
               PROVE  IF lock'[u] = q
                        THEN /\ draft'[q][u].there
                             /\ draft'[q][u].qty = inv'[u].qty + entries'[q][u]
                             /\ inv'[u].there => draft'[q][u].ver > inv'[u].ver
                        ELSE entries'[q][u] = 0
    BY DEF DraftsInStep
  <2>1. CASE q = r
    BY <2>1, <1>1, WarehouseAssumption
  <2>2. CASE q # r
    BY <2>2, <1>1, WarehouseAssumption DEF CommitSafe, DraftsInStep
  <2> QED
    BY <2>1, <2>2
<1>7. NeverOversold'
  <2> SUFFICES ASSUME NEW u \in Types
               PROVE  /\ inv'[u].qty >= 0
                      /\ lock'[u] # NoOne => draft'[lock'[u]][u].qty >= 0
    BY DEF NeverOversold
  <2>1. CASE lock[u] = r
    BY <2>1, <1>1, WarehouseAssumption DEF CommitSafe, NeverOversold
  <2>2. CASE lock[u] # r
    BY <2>2, <1>1 DEF CommitSafe, TypeOK, NeverOversold
  <2> QED
    BY <2>1, <2>2
<1> QED
  BY <1>3, <1>4, <1>5, <1>6, <1>7

\* A step of a request keeps CommitSafe, action by action.
LEMMA StepSafe ==
  ASSUME CommitSafe, NEW r \in Requests, Begin(r) \/ Serve(r) \/ Abort(r)
  PROVE  CommitSafe'
<1>0. TypeOK /\ TypeOK'
  BY StepTyped DEF CommitSafe
<1>1. CASE Begin(r)
  <2>1. \A t \in Types : lock[t] # r
    BY <1>1, WarehouseAssumption DEF Begin, CommitSafe, HoldersRun, Running
  <2>2. HoldersRun'
    BY <1>0, <1>1, <2>1 DEF Begin, CommitSafe, TypeOK, HoldersRun, Running
  <2> QED
    BY <1>0, <1>1, <2>2
    DEF Begin, CommitSafe, AbsentIsZero, DraftsInStep, InStep, NeverOversold
<1>2. CASE Receive(r)
  <2> DEFINE t == Line(r).item
             row == Upsert(Row(t, r), Line(r).delta)
  <2>1. /\ t \in Types /\ HasLine(r) /\ Free(t, r)
        /\ Write(r, t, row) /\ Enter(r) /\ Line(r).delta > 0
    BY <1>2 DEF Receive
  <2>2. Row(t, r) \in Rows /\ Line(r).delta \in Int
    BY <1>0, <2>1, RowTyped, LineIsMove
  <2>3. Row(t, r).qty >= 0 /\ (~Row(t, r).there => Row(t, r).qty = 0)
    BY <1>0, <2>1, WarehouseAssumption
    DEF CommitSafe, NeverOversold, AbsentIsZero, DraftsInStep, Row
  <2>4. row \in Rows /\ RowStep(row, Row(t, r), Line(r).delta)
    BY <2>1, <2>2, <2>3, RowsClosed DEF Upsert, RowStep, Rows
  <2> HIDE DEF row
  <2>5. HoldersRun' /\ AbsentIsZero' /\ DraftsInStep' /\ InStep' /\ NeverOversold'
    BY <2>1, <2>4, WriteSafe
  <2> QED
    BY <1>0, <2>5 DEF CommitSafe
<1>3. CASE Draw(r)
  <2> DEFINE t == Line(r).item
             row == Take(Row(t, r), Line(r).delta)
  <2>1. /\ t \in Types /\ HasLine(r) /\ Free(t, r)
        /\ Write(r, t, row) /\ Enter(r) /\ Enough(r)
    BY <1>3 DEF Draw
  <2>2. Row(t, r) \in Rows /\ Line(r).delta \in Int
    BY <1>0, <2>1, RowTyped, LineIsMove
  <2>3. Row(t, r).qty + Line(r).delta >= 0
    BY <2>1 DEF Enough
  <2>4. row \in Rows
    BY <2>2, RowsClosed
  <2>5. RowStep(row, Row(t, r), Line(r).delta)
    BY <2>2, <2>3 DEF Take, RowStep, Rows
  <2> HIDE DEF row
  <2>6. HoldersRun' /\ AbsentIsZero' /\ DraftsInStep' /\ InStep' /\ NeverOversold'
    BY <2>1, <2>4, <2>5, WriteSafe
  <2> QED
    BY <1>0, <2>6 DEF CommitSafe
<1>4. CASE Note(r)
  <2>1. /\ Line(r).item \in Loose /\ Enter(r)
        /\ UNCHANGED <<inv, ledger, pc, lock, draft>>
    BY <1>4 DEF Note, Enter
  <2>2. \A q \in Requests, u \in Types : entries'[q][u] = entries[q][u]
    BY <1>0, <2>1, WarehouseAssumption DEF TypeOK, Enter, Items
  <2>3. HoldersRun' /\ AbsentIsZero' /\ DraftsInStep' /\ InStep' /\ NeverOversold'
    BY <2>1, <2>2
    DEF CommitSafe, HoldersRun, Running, AbsentIsZero, DraftsInStep, InStep, NeverOversold
  <2> QED
    BY <1>0, <2>3 DEF CommitSafe
<1>5. CASE Refuse(r) \/ Victim(r) \/ Abort(r)
  <2>1. Rollback(r)
    BY <1>5 DEF Refuse, Victim, Abort
  <2> QED
    BY <1>0, <2>1, RollbackSafe DEF CommitSafe
<1>6. CASE Commit(r)
  BY <1>0, <1>6, CommitKeepsSafe DEF CommitSafe
<1> QED
  BY <1>1, <1>2, <1>3, <1>4, <1>5, <1>6 DEF Serve

\* CommitSafe is inductive.
LEMMA NextSafe == CommitSafe /\ [Next]_vars => CommitSafe'
<1>1. ASSUME CommitSafe, NEW r \in Requests, Begin(r) \/ Serve(r) \/ Abort(r)
      PROVE  CommitSafe'
  BY <1>1, StepSafe
<1>2. ASSUME CommitSafe, UNCHANGED vars PROVE CommitSafe'
  <2>1. TypeOK'
    BY <1>2, NextTyped DEF CommitSafe
  <2> QED
    BY <1>2, <2>1
    DEF vars, CommitSafe, HoldersRun, Running, AbsentIsZero, DraftsInStep, InStep,
        NeverOversold
<1> QED
  BY <1>1, <1>2 DEF Next, AllEnded

\* The inductive invariant itself: in every reachable state a row lock is
\* held by a running request whose draft is the committed row plus its own
\* ledger rows, so any commit may come next.
THEOREM AlwaysCommitSafe == Spec => []CommitSafe
<1> QED
  BY InitSafe, NextSafe, PTL DEF Spec

\* "Keep the live full-cylinder inventory in step" (stock.py:61), for every
\* set of concurrent intakes, ac4s, sales, returns and ervs.
THEOREM CountsMatchLedger == Spec => []InStep
<1>1. CommitSafe => InStep
  BY DEF CommitSafe
<1> QED
  BY <1>1, AlwaysCommitSafe, PTL

\* No set of concurrent sales and returns takes a type below zero.
THEOREM StockNeverNegative == Spec => []NeverOversold
<1>1. CommitSafe => NeverOversold
  BY DEF CommitSafe
<1> QED
  BY <1>1, AlwaysCommitSafe, PTL

\* A row that exists keeps existing, its version never goes back and moves
\* with every change of its count.
THEOREM VersionsTrackCounts == Spec => VersionTracksCount
<1>1. ASSUME CommitSafe, [Next]_vars, NEW t \in Types, inv[t].there
      PROVE  /\ inv'[t].there
             /\ inv'[t].ver >= inv[t].ver
             /\ inv'[t].qty # inv[t].qty => inv'[t].ver > inv[t].ver
  <2>1. inv[t].ver \in Nat /\ \A r \in Requests : draft[r][t].ver \in Nat
    BY <1>1 DEF CommitSafe, TypeOK, Rows
  <2>2. CASE inv'[t] = inv[t]
    BY <1>1, <2>1, <2>2
  <2>3. CASE \E r \in Requests : lock[t] = r /\ inv'[t] = draft[r][t]
    BY <1>1, <2>1, <2>3 DEF CommitSafe, DraftsInStep
  <2>4. inv'[t] = inv[t] \/ \E r \in Requests : lock[t] = r /\ inv'[t] = draft[r][t]
    <3>1. CASE UNCHANGED vars
      BY <3>1 DEF vars
    <3>2. ASSUME NEW r \in Requests, Begin(r) \/ Serve(r) \/ Abort(r)
          PROVE  inv'[t] = inv[t] \/ (lock[t] = r /\ inv'[t] = draft[r][t])
      <4>1. CASE Commit(r)
        BY <4>1 DEF Commit, Drafted
      <4>2. CASE ~Commit(r)
        BY <3>2, <4>2
        DEF Begin, Serve, Receive, Draw, Note, Enter, Refuse, Victim, Abort, Rollback
      <4> QED
        BY <4>1, <4>2
    <3> QED
      BY <1>1, <3>1, <3>2 DEF Next, AllEnded
  <2> QED
    BY <2>2, <2>3, <2>4
<1>2. CommitSafe /\ [Next]_vars =>
        [\A t \in Types :
           inv[t].there =>
             /\ inv'[t].there
             /\ inv'[t].ver >= inv[t].ver
             /\ inv'[t].qty # inv[t].qty => inv'[t].ver > inv[t].ver]_vars
  BY <1>1
<1> QED
  BY <1>2, AlwaysCommitSafe, PTL DEF Spec, VersionTracksCount

-----------------------------------------------------------------------------
(***************************************************************************)
(* Warehouse implements StockBook: each commit is one atomic posting of a  *)
(* whole order to book and shelf, everything else is invisible.            *)
(***************************************************************************)

\* What each line of an order adds to the ledger of an item.
Share(o, i) == [n \in DOMAIN o |-> IF o[n].item = i THEN o[n].delta ELSE 0]

\* The entries of a request are those of the lines of its order it is through
\* with, each of which has an item of the catalogue.
EntriesSoFar ==
  \A r \in Requests :
    /\ pc[r] = "idle" => \A i \in Items : entries[r][i] = 0
    /\ Running(r) =>
         /\ order[r] \in Orders
         /\ \A n \in 1 .. (at[r] - 1) : order[r][n].item \in Items
         /\ \A i \in Items :
              entries[r][i] = SumFunctionOnSet(Share(order[r], i), 1 .. (at[r] - 1))

\* The share of a line in the ledger of an item.
LEMMA ShareOf ==
  ASSUME NEW o \in Seq(Moves), NEW i \in Items, NEW n \in 1 .. Len(o)
  PROVE  /\ Share(o, i)[n] \in Int
         /\ Share(o, i)[n] = IF o[n].item = i THEN o[n].delta ELSE 0
<1>1. o[n] \in Moves /\ n \in DOMAIN o
  OBVIOUS
<1> QED BY <1>1 DEF Share, Moves

\* At first no request has entered anything.
LEMMA InitEntries == Init => EntriesSoFar
BY DEF Init, EntriesSoFar, Nothing, Running

\* A line that is entered is the next one of the order.
LEMMA EnterSoFar ==
  ASSUME TypeOK, EntriesSoFar, NEW r \in Requests, HasLine(r), Line(r).item \in Items, Enter(r)
  PROVE  EntriesSoFar'
<1> DEFINE o == order[r]
           k == at[r] - 1
<1>1. /\ o \in Seq(Moves) /\ k \in Nat /\ k + 1 = at[r] /\ k + 1 \in 1 .. Len(o) /\ Running(r)
  BY DEF TypeOK, HasLine, Running
<1>2. /\ pc' = pc /\ order' = order /\ at'[r] = at[r] + 1
      /\ \A q \in Requests : q # r => at'[q] = at[q] /\ entries'[q] = entries[q]
      /\ \A i \in Items :
           entries'[r][i] = IF i = Line(r).item THEN entries[r][i] + Line(r).delta ELSE entries[r][i]
  BY DEF Enter, TypeOK
<1>3. ASSUME NEW q \in Requests, q # r
      PROVE  /\ pc'[q] = "idle" => \A i \in Items : entries'[q][i] = 0
             /\ Running(q)' =>
                  /\ order'[q] \in Orders
                  /\ \A n \in 1 .. (at'[q] - 1) : order'[q][n].item \in Items
                  /\ \A i \in Items :
                       entries'[q][i] = SumFunctionOnSet(Share(order'[q], i), 1 .. (at'[q] - 1))
  BY <1>2, <1>3 DEF EntriesSoFar, Running
<1>4. ASSUME NEW i \in Items
      PROVE  entries'[r][i] = SumFunctionOnSet(Share(o, i), 1 .. (k + 1))
  <2>1. entries[r][i] = SumFunctionOnSet(Share(o, i), 1 .. k)
    BY <1>1 DEF EntriesSoFar
  <2>2. \A n \in 1 .. (k + 1) : Share(o, i)[n] \in Int
    <3>1. ASSUME NEW n \in 1 .. (k + 1) PROVE n \in 1 .. Len(o)
      BY <1>1
    <3> QED BY <1>1, <3>1, ShareOf
  <2>3. /\ SumFunctionOnSet(Share(o, i), 1 .. k) \in Int
        /\ SumFunctionOnSet(Share(o, i), 1 .. (k + 1))
             = SumFunctionOnSet(Share(o, i), 1 .. k) + Share(o, i)[k + 1]
    BY <1>1, <2>2, SumNext
  <2>4. Share(o, i)[k + 1] = IF Line(r).item = i THEN Line(r).delta ELSE 0
    BY <1>1, ShareOf DEF Line
  <2> HIDE DEF o, k
  <2> QED BY <1>2, <2>1, <2>3, <2>4
<1>5. \A n \in 1 .. (k + 1) : o[n].item \in Items
  <2>1. \A n \in 1 .. k : o[n].item \in Items
    BY <1>1 DEF EntriesSoFar
  <2>2. o[k + 1].item \in Items
    BY <1>1 DEF Line
  <2> QED BY <1>1, <2>1, <2>2
<1>6. /\ Running(r)' /\ order'[r] = o /\ o \in Orders /\ at'[r] - 1 = k + 1
  BY <1>1, <1>2 DEF EntriesSoFar, Running
<1>7. /\ pc'[r] = "idle" => \A i \in Items : entries'[r][i] = 0
      /\ Running(r)' =>
           /\ order'[r] \in Orders
           /\ \A n \in 1 .. (at'[r] - 1) : order'[r][n].item \in Items
           /\ \A i \in Items :
                entries'[r][i] = SumFunctionOnSet(Share(order'[r], i), 1 .. (at'[r] - 1))
  <2> HIDE DEF o, k
  <2> QED BY <1>4, <1>5, <1>6 DEF Running
<1> QED BY <1>3, <1>7 DEF EntriesSoFar

\* EntriesSoFar is inductive.
LEMMA NextEntries == TypeOK /\ EntriesSoFar /\ [Next]_vars => EntriesSoFar'
<1> SUFFICES ASSUME TypeOK, EntriesSoFar, [Next]_vars PROVE EntriesSoFar'
  OBVIOUS
<1>1. ASSUME NEW r \in Requests, Begin(r) PROVE EntriesSoFar'
  <2>1. PICK o \in Orders : order' = [order EXCEPT ![r] = o]
    BY <1>1 DEF Begin
  <2>2. /\ order'[r] = o /\ at'[r] = 1 /\ pc[r] = "idle" /\ pc'[r] = "running"
        /\ entries' = entries
        /\ \A q \in Requests : q # r => order'[q] = order[q] /\ at'[q] = at[q] /\ pc'[q] = pc[q]
    BY <1>1, <2>1 DEF Begin, TypeOK
  <2>3. \A i \in Items : entries'[r][i] = SumFunctionOnSet(Share(o, i), 1 .. (1 - 1))
    <3>1. 1 .. (1 - 1) = {}
      OBVIOUS
    <3>2. \A i \in Items : SumFunctionOnSet(Share(o, i), {}) = 0
      BY SumEmpty
    <3> QED BY <2>2, <3>1, <3>2 DEF EntriesSoFar
  <2> QED BY <2>2, <2>3 DEF EntriesSoFar, Running
<1>2. ASSUME NEW r \in Requests, Receive(r) \/ Draw(r) \/ Note(r) PROVE EntriesSoFar'
  <2>1. HasLine(r) /\ Line(r).item \in Items /\ Enter(r)
    BY <1>2 DEF Receive, Draw, Note, Items
  <2> QED BY <2>1, EnterSoFar
<1>3. ASSUME NEW r \in Requests, NEW o \in {"done", "failed"}, Finish(r, o) PROVE EntriesSoFar'
  <2>1. \A q \in Requests : q # r =>
          order'[q] = order[q] /\ at'[q] = at[q] /\ pc'[q] = pc[q] /\ entries'[q] = entries[q]
    BY <1>3 DEF Finish, TypeOK
  <2>2. pc'[r] = o
    BY <1>3 DEF Finish, TypeOK
  <2> QED BY <2>1, <2>2 DEF EntriesSoFar, Running
<1>4. ASSUME UNCHANGED vars PROVE EntriesSoFar'
  BY <1>4 DEF vars, EntriesSoFar, Running
<1> QED
  BY <1>1, <1>2, <1>3, <1>4
  DEF Next, Serve, Refuse, Victim, Abort, Rollback, Commit, AllEnded

\* A request at the end of its order has entered the effect of all of it.
LEMMA EntriesWhole ==
  ASSUME TypeOK, EntriesSoFar, NEW r \in Requests, Commit(r)
  PROVE  /\ order[r] \in Orders /\ OrderIsListed(order[r])
         /\ \A i \in Items : entries[r][i] = Effect(order[r])[i]
<1> DEFINE o == order[r]
<1>1. /\ Running(r) /\ o \in Seq(Moves) /\ at[r] - 1 = Len(o) /\ o \in Orders
  BY DEF Commit, TypeOK, EntriesSoFar, Running
<1>2. DOMAIN o = 1 .. Len(o)
  BY <1>1
<1>3. OrderIsListed(o)
  BY <1>1, <1>2 DEF EntriesSoFar, OrderIsListed
<1>4. ASSUME NEW i \in Items PROVE entries[r][i] = Effect(o)[i]
  <2>1. entries[r][i] = SumFunctionOnSet(Share(o, i), 1 .. Len(o))
    BY <1>1 DEF EntriesSoFar
  <2>2. DOMAIN Share(o, i) = 1 .. Len(o)
    BY <1>2 DEF Share
  <2>3. Effect(o)[i] = SumFunction(Share(o, i))
    BY DEF Effect, Share
  <2> QED BY <2>1, <2>2, <2>3 DEF SumFunction
<1> QED BY <1>1, <1>3, <1>4

\* The first state of Warehouse is one of StockBook.
LEMMA InitRefines == Init => Book!Init
<1> SUFFICES ASSUME Init PROVE Book!Init
  OBVIOUS
<1>1. [t \in Types |-> inv[t].qty] = OnHand
  BY WarehouseAssumption DEF Init
<1> QED
  BY <1>1 DEF Init, Book!Init

\* A step of Warehouse is one of StockBook or a stutter.
LEMMA StepRefines ==
  ASSUME CommitSafe, CommitSafe', EntriesSoFar, [Next]_vars
  PROVE  [Book!Next]_<<[t \in Types |-> inv[t].qty], ledger,
                       [r \in Requests |->
                          IF pc[r] \in {"idle", "running"} THEN "open" ELSE pc[r]]>>
<1> DEFINE shelf == [t \in Types |-> inv[t].qty]
           answer == [r \in Requests |->
                        IF pc[r] \in {"idle", "running"} THEN "open" ELSE pc[r]]
<1>0. TypeOK
  BY DEF CommitSafe
<1>1. ASSUME NEW r \in Requests, Commit(r) PROVE Book!Post(r)
  <2>1. answer[r] = "open"
    BY <1>1 DEF Commit, Running
  <2> DEFINE e == Effect(order[r])
  <2>2. /\ e \in {Effect(o) : o \in {p \in Orders : OrderIsListed(p)}}
        /\ \A i \in Items : entries[r][i] = e[i]
    BY <1>0, <1>1, EntriesWhole
  <2> HIDE DEF e
  <2>3. ledger' = [i \in Items |-> ledger[i] + e[i]]
    BY <1>1, <2>2 DEF Commit, Entered
  <2>4. shelf' = [t \in Types |-> shelf[t] + e[t]]
    <3>1. ASSUME NEW t \in Types PROVE inv'[t].qty = inv[t].qty + entries[r][t]
      <4>1. inv[t].qty \in Int
        BY <1>0 DEF TypeOK, Rows
      <4> QED
        BY <1>1, <4>1 DEF Commit, Drafted, CommitSafe, DraftsInStep
    <3> QED
      BY <2>2, <3>1 DEF Items
  <2>5. \A t \in Types : shelf'[t] >= 0
    BY DEF CommitSafe, NeverOversold
  <2>6. answer' = [answer EXCEPT ![r] = "done"]
    BY <1>0, <1>1 DEF Commit, Finish, TypeOK
  <2> QED
    BY <2>1, <2>2, <2>3, <2>4, <2>5, <2>6 DEF Book!Post
<1>2. ASSUME NEW r \in Requests, Running(r), Rollback(r) PROVE Book!Refuse(r)
  <2>1. answer[r] = "open"
    BY <1>2 DEF Running
  <2>2. answer' = [answer EXCEPT ![r] = "failed"]
    BY <1>0, <1>2 DEF Rollback, Finish, TypeOK
  <2> QED
    BY <1>2, <2>1, <2>2 DEF Rollback, Book!Refuse
<1>3. ASSUME NEW r \in Requests, Begin(r) PROVE UNCHANGED <<shelf, ledger, answer>>
  BY <1>0, <1>3 DEF Begin, TypeOK
<1>4. ASSUME NEW r \in Requests, Receive(r) \/ Draw(r) \/ Note(r)
      PROVE  UNCHANGED <<shelf, ledger, answer>>
  BY <1>4 DEF Receive, Draw, Note, Enter
<1>5. ASSUME UNCHANGED vars PROVE UNCHANGED <<shelf, ledger, answer>>
  BY <1>5 DEF vars
<1>6. ASSUME NEW r \in Requests, Refuse(r) \/ Victim(r) \/ Abort(r)
      PROVE  Running(r) /\ Rollback(r)
  <2>1. CASE Refuse(r)
    BY <2>1 DEF Refuse, HasLine
  <2>2. CASE Abort(r)
    BY <2>2 DEF Abort
  <2>3. CASE Victim(r)
    BY <2>3 DEF Victim, OnCycle, Waits, HasLine
  <2> QED
    BY <1>6, <2>1, <2>2, <2>3
<1>7. CASE Next
  BY <1>1, <1>2, <1>3, <1>4, <1>5, <1>6, <1>7 DEF Next, Serve, AllEnded, Book!Next
<1>8. CASE UNCHANGED vars
  BY <1>5, <1>8
<1> QED
  BY <1>7, <1>8

\* Concurrent stock requests show the outside nothing but whole orders, each
\* posted in one step that moves count and ledger together and never below zero,
\* and refusals that change nothing.
THEOREM ImplementsStockBook == Spec => WholeOrdersOnly
<1>1. Init => EntriesSoFar
  BY InitEntries
<1>2. TypeOK /\ EntriesSoFar /\ [Next]_vars => EntriesSoFar'
  BY NextEntries
<1>3. Spec => []EntriesSoFar
  BY <1>1, <1>2, TypeCorrect, PTL DEF Spec
<1> QED
  BY <1>3, InitRefines, StepRefines, AlwaysCommitSafe, PTL DEF Spec, WholeOrdersOnly, Book!Spec

-----------------------------------------------------------------------------
(* Corrections.                                                            *)

\* A correction between its version check and its end.
Accepted(r) == pc[r] \in {"flushing", "running"}

(***************************************************************************)
(* The inductive invariant.                                                *)
(***************************************************************************)
CTyped ==
  /\ inv \in [Types -> Rows]
  /\ ledger \in [Items -> Int]
  /\ pc \in [Requests -> {"idle", "looked", "flushing", "running", "done", "failed"}]
  /\ order \in [Requests -> Seq(Moves)]
  /\ at \in [Requests -> Nat]
  /\ \A r \in Requests : Running(r) => at[r] # 0
  /\ lock \in [Types -> Requests \cup {NoOne}]
  /\ draft \in [Requests -> [Types -> Rows]]
  /\ entries \in [Requests -> [Items -> Int]]
  /\ slip \in [Correctors -> Slips]
  /\ raced \subseteq Types

\* A trading request has written what it has locked: the committed row and
\* its own ledger rows, with a later version.
TradersDraft ==
  \A r \in Requests \ Correctors, t \in Types :
    IF lock[t] = r
      THEN /\ draft[r][t].there
           /\ draft[r][t].qty = inv[t].qty + entries[r][t]
           /\ inv[t].there => draft[r][t].ver > inv[t].ver
      ELSE entries[r][t] = 0

\* A correction has its one ledger row from its check on, its one lock from
\* its UPDATE on, and writes the version after the one it was shown.
CorrectorDraft(r) ==
  LET s == slip[r] IN
  /\ \A t \in Types : lock[t] = r => t = s.type /\ Running(r)
  /\ \A t \in Types : t # s.type => entries[r][t] = 0
  /\ entries[r][s.type] = IF Accepted(r) THEN s.new - s.read ELSE 0
  /\ Accepted(r) => inv[s.type].there
  /\ Running(r) =>
       /\ lock[s.type] = r
       /\ draft[r][s.type] =
            [there |-> TRUE, ver |-> s.ver + 1,
             qty |-> IF s.new = s.read THEN inv[s.type].qty ELSE s.new]

CorrectorsDraft == \A r \in Correctors : CorrectorDraft(r)

\* While nobody has put its version back, a row that a client was shown has
\* a later version or the count the client was shown.
ShownOrLater ==
  \A r \in Correctors :
    LET s == slip[r] IN
    pc[r] \in {"looked", "flushing", "running"} /\ s.listed /\ s.type \notin raced =>
      /\ inv[s.type].there
      /\ inv[s.type].ver >= s.ver
      /\ inv[s.type].ver = s.ver => inv[s.type].qty = s.seen

CInv ==
  /\ CTyped /\ AbsentIsZero /\ TradersDraft /\ CorrectorsDraft
  /\ ShownOrLater /\ AcceptedCountIsCurrent

-----------------------------------------------------------------------------
\* A slip that is not filled in yet has the type of a slip.
LEMMA BlankTyped ==
  ASSUME NEW s \in [Correctors -> {Blank(t, n) : t \in Types, n \in Counts}]
  PROVE  s \in [Correctors -> Slips]
<1>1. ASSUME NEW t \in Types, NEW n \in Counts PROVE Blank(t, n) \in Slips
  BY DEF Blank, Slips
<1> QED
  BY <1>1

\* The counts and the version on a slip are numbers.
LEMMA SlipNumbers ==
  ASSUME NEW s \in Slips
  PROVE  s.new \in Int /\ s.read \in Int /\ s.ver \in Nat
<1>1. s.new \in Counts /\ s.read \in Int /\ s.ver \in Nat
  BY DEF Slips
<1>2. \A n \in Counts : n \in Int
  BY CorrectionAssumption
<1> QED
  BY <1>1, <1>2

\* CInv holds at first.
LEMMA InitCInv == CInit => CInv
<1> SUFFICES ASSUME CInit PROVE CInv
  OBVIOUS
<1>1. CTyped
  <2>1. inv \in [Types -> Rows] /\ ledger \in [Items -> Int]
    BY WarehouseAssumption DEF CInit, Init, Rows, Items
  <2>2. NoRow \in Rows /\ Nothing \in [Items -> Int]
    BY DEF NoRow, Rows, Nothing
  <2>3. slip \in [Correctors -> Slips]
    BY BlankTyped DEF CInit
  <2> QED
    BY <2>1, <2>2, <2>3 DEF CInit, Init, CTyped, Running, NoDraft
<1>2. \A r \in Requests : pc[r] = "idle" /\ \A t \in Types : lock[t] # r /\ entries[r][t] = 0
  BY WarehouseAssumption DEF CInit, Init, Nothing, Items
<1>3. AbsentIsZero
  BY WarehouseAssumption DEF CInit, Init, AbsentIsZero
<1>4. \A r \in Correctors : r \in Requests /\ slip[r].type \in Types
  BY <1>1, CorrectionAssumption DEF CTyped, Slips
<1> QED
  BY <1>1, <1>2, <1>3, <1>4
  DEF CInv, TradersDraft, CorrectorsDraft, CorrectorDraft, ShownOrLater,
      AcceptedCountIsCurrent, Accepted, Running

-----------------------------------------------------------------------------
\* What a transaction did is dropped: nothing else depends on it.
LEMMA RollbackKeepsCInv ==
  ASSUME CInv, NEW r \in Requests, Rollback(r), UNCHANGED <<slip, raced>>
  PROVE  CInv'
<1> USE DEF Rollback, Finish, Unlocked
<1>1. CTyped'
  <2>1. NoDraft \in [Types -> Rows] /\ Nothing \in [Items -> Int]
    BY DEF NoDraft, NoRow, Rows, Nothing
  <2>2. <<>> \in Seq(Moves)
    OBVIOUS
  <2> QED
    BY <2>1, <2>2 DEF CInv, CTyped, Running
<1>2. TradersDraft'
  BY WarehouseAssumption DEF CInv, CTyped, TradersDraft, Nothing, Items
<1>3. CorrectorsDraft'
  BY WarehouseAssumption, CorrectionAssumption
  DEF CInv, CTyped, CorrectorsDraft, CorrectorDraft, Accepted, Running, Nothing, Items, Slips
<1>4. AbsentIsZero' /\ ShownOrLater' /\ AcceptedCountIsCurrent'
  BY DEF CInv, CTyped, AbsentIsZero, ShownOrLater, AcceptedCountIsCurrent
<1> QED
  BY <1>1, <1>2, <1>3, <1>4 DEF CInv

\* The arrival of a trading request keeps CInv.
LEMMA BeginKeepsCInv ==
  ASSUME CInv, NEW r \in Requests \ Correctors, Begin(r), UNCHANGED <<slip, raced>>
  PROVE  CInv'
<1> USE DEF Begin
<1>1. CTyped'
  <2>1. PICK o \in Orders : order' = [order EXCEPT ![r] = o]
    OBVIOUS
  <2>2. o \in Seq(Moves)
    BY WarehouseAssumption
  <2> QED
    BY <2>1, <2>2 DEF CInv, CTyped, Running
<1>2. AbsentIsZero' /\ TradersDraft' /\ ShownOrLater' /\ AcceptedCountIsCurrent'
  BY DEF CInv, CTyped, AbsentIsZero, TradersDraft, ShownOrLater, AcceptedCountIsCurrent
<1>3. CorrectorsDraft'
  BY DEF CInv, CTyped, CorrectorsDraft, CorrectorDraft, Accepted, Running
<1> QED
  BY <1>1, <1>2, <1>3 DEF CInv

\* The delta of the line a request is at is an integer.
LEMMA LineTyped ==
  ASSUME CTyped, NEW r \in Requests, HasLine(r)
  PROVE  Line(r).delta \in Int /\ at[r] + 1 \in Nat \ {0}
<1>1. Line(r) \in Moves
  BY DEF CTyped, HasLine, Line, Running
<1> QED
  BY <1>1 DEF CTyped, Moves

\* Going on to the next line keeps the bookkeeping typed.
LEMMA EnterCTyped ==
  ASSUME CTyped, NEW r \in Requests, HasLine(r), Line(r).item \in Items, Enter(r)
  PROVE  /\ entries' \in [Requests -> [Items -> Int]]
         /\ at' \in [Requests -> Nat]
         /\ \A q \in Requests : Running(q)' => at'[q] # 0
<1>1. Line(r).delta \in Int /\ at[r] + 1 \in Nat \ {0}
  BY LineTyped
<1>2. entries[r] \in [Items -> Int] /\ entries[r][Line(r).item] + Line(r).delta \in Int
  BY <1>1 DEF CTyped
<1>3. entries' \in [Requests -> [Items -> Int]]
  BY <1>2 DEF CTyped, Enter
<1>4. at' \in [Requests -> Nat] /\ \A q \in Requests : Running(q)' => at'[q] # 0
  BY <1>1 DEF CTyped, Enter, Running
<1> QED
  BY <1>3, <1>4

\* The lines of a trading request that write no inventory row.
LEMMA NoteKeepsCInv ==
  ASSUME CInv, NEW r \in Requests \ Correctors, Note(r), UNCHANGED <<slip, raced>>
  PROVE  CInv'
<1> DEFINE i == Line(r).item
<1>0. Line(r).delta \in Int /\ at[r] + 1 \in Nat \ {0} /\ i \in Loose
  BY LineTyped DEF CInv, Note
<1>1. /\ entries' = [entries EXCEPT ![r][i] = @ + Line(r).delta]
      /\ at' = [at EXCEPT ![r] = @ + 1]
      /\ UNCHANGED <<inv, ledger, pc, order, lock, draft>>
  BY DEF Note, Enter
<1> HIDE DEF i
<1>2. CTyped'
  BY <1>1, EnterCTyped DEF CInv, CTyped, Note, Items
<1>3. \A q \in Requests, t \in Types : entries'[q][t] = entries[q][t]
  BY <1>0, <1>1, WarehouseAssumption DEF CInv, CTyped, Items
<1>4. TradersDraft'
  BY <1>1, <1>3 DEF CInv, TradersDraft
<1>5. CorrectorsDraft'
  BY <1>1, <1>3, CorrectionAssumption
  DEF CInv, CTyped, CorrectorsDraft, CorrectorDraft, Accepted, Running, Slips
<1>6. AbsentIsZero' /\ ShownOrLater' /\ AcceptedCountIsCurrent'
  BY <1>1 DEF CInv, AbsentIsZero, ShownOrLater, AcceptedCountIsCurrent
<1> QED
  BY <1>2, <1>4, <1>5, <1>6 DEF CInv

\* The lines that write one: the version after the one they found.
LEMMA WriteKeepsCInv ==
  ASSUME CInv, NEW r \in Requests \ Correctors, HasLine(r), NEW t \in Types, t = Line(r).item,
         NEW row, Free(t, r), Enter(r), Write(r, t, row), UNCHANGED <<slip, raced>>,
         row \in Rows, row.there, row.qty = Row(t, r).qty + Line(r).delta,
         Row(t, r).there => row.ver > Row(t, r).ver
  PROVE  CInv'
<1>0. Line(r).delta \in Int /\ at[r] + 1 \in Nat \ {0}
  BY LineTyped DEF CInv
<1>1. /\ entries' = [entries EXCEPT ![r][t] = @ + Line(r).delta]
      /\ at' = [at EXCEPT ![r] = @ + 1]
      /\ lock' = [lock EXCEPT ![t] = r]
      /\ draft' = [draft EXCEPT ![r][t] = row]
      /\ UNCHANGED <<inv, ledger, pc, order>>
  BY DEF Enter, Write
<1>2. CTyped'
  BY <1>1, EnterCTyped DEF CInv, CTyped, Items
<1>3. TradersDraft'
  <2> SUFFICES ASSUME NEW q \in Requests \ Correctors, NEW u \in Types
               PROVE  TradersDraft!(q, u)'
    BY DEF TradersDraft
  <2>1. CASE q = r /\ u = t
    <3>1. CASE lock[t] = r
      <4>1. /\ lock'[u] = q /\ draft'[q][u] = row /\ inv'[u] = inv[u]
            /\ entries'[q][u] = entries[q][u] + Line(r).delta
            /\ draft[q][u].there /\ draft[q][u].qty = inv[u].qty + entries[q][u]
            /\ inv[u].there => draft[q][u].ver > inv[u].ver
        BY <1>1, <2>1, <3>1 DEF CInv, CTyped, TradersDraft, Items
      <4>2. /\ inv[u] \in Rows /\ draft[q][u] \in Rows /\ entries[q][u] \in Int
        BY DEF CInv, CTyped, Items
      <4>3. row.qty = inv[u].qty + entries'[q][u]
        BY <1>0, <2>1, <3>1, <4>1, <4>2 DEF Row, Rows
      <4> QED
        BY <2>1, <3>1, <4>1, <4>2, <4>3 DEF Row, Rows
    <3>2. CASE lock[t] # r
      <4>1. /\ lock'[u] = q /\ draft'[q][u] = row /\ inv'[u] = inv[u]
            /\ entries'[q][u] = entries[q][u] + Line(r).delta /\ entries[q][u] = 0
        BY <1>1, <2>1, <3>2 DEF CInv, CTyped, TradersDraft, Items
      <4>2. row.qty = inv[u].qty + entries'[q][u]
        BY <1>0, <2>1, <3>2, <4>1 DEF CInv, CTyped, Row, Rows
      <4> QED
        BY <2>1, <3>2, <4>1, <4>2 DEF Row
    <3> QED
      BY <3>1, <3>2
  <2>2. CASE ~(q = r /\ u = t)
    BY <1>1, <2>2, WarehouseAssumption DEF CInv, CTyped, TradersDraft, Free, Items
  <2> QED
    BY <2>1, <2>2
<1>4. CorrectorsDraft'
  BY <1>1, CorrectionAssumption, WarehouseAssumption
  DEF CInv, CTyped, CorrectorsDraft, CorrectorDraft, Accepted, Running, Slips, Free
<1>5. AbsentIsZero' /\ ShownOrLater' /\ AcceptedCountIsCurrent'
  BY <1>1 DEF CInv, AbsentIsZero, ShownOrLater, AcceptedCountIsCurrent
<1> QED
  BY <1>2, <1>3, <1>4, <1>5 DEF CInv

\* record_intake and record_ac4, record_return and a sale.
LEMMA ReceiveKeepsCInv ==
  ASSUME CInv, NEW r \in Requests \ Correctors, Receive(r) \/ Draw(r), UNCHANGED <<slip, raced>>
  PROVE  CInv'
<1> DEFINE t == Line(r).item
           n == Line(r).delta
<1>0. /\ t \in Types /\ HasLine(r) /\ Free(t, r) /\ Enter(r) /\ n \in Int /\ Row(t, r) \in Rows
  BY LineTyped DEF Receive, Draw, CInv, CTyped, Row
<1>1. CASE Receive(r)
  <2>1. Write(r, t, Upsert(Row(t, r), n)) /\ n > 0
    BY <1>1 DEF Receive
  <2>2. ~Row(t, r).there => Row(t, r).qty = 0
    BY <1>0 DEF CInv, AbsentIsZero, TradersDraft, Row
  <2>3. Upsert(Row(t, r), n) \in Rows
    BY <1>0 DEF Upsert, Rows
  <2>4. /\ Upsert(Row(t, r), n).there
        /\ Upsert(Row(t, r), n).qty = Row(t, r).qty + n
        /\ Row(t, r).there => Upsert(Row(t, r), n).ver > Row(t, r).ver
    BY <1>0, <2>2 DEF Upsert, Rows
  <2> QED
    BY <1>0, <2>1, <2>3, <2>4, WriteKeepsCInv
<1>2. CASE Draw(r)
  <2>1. Write(r, t, Take(Row(t, r), n))
    BY <1>2 DEF Draw
  <2>2. Take(Row(t, r), n) \in Rows
    BY <1>0 DEF Take, Rows
  <2>3. /\ Take(Row(t, r), n).there
        /\ Take(Row(t, r), n).qty = Row(t, r).qty + n
        /\ Take(Row(t, r), n).ver > Row(t, r).ver
    BY <1>0 DEF Take, Rows
  <2> QED
    BY <1>0, <2>1, <2>2, <2>3, WriteKeepsCInv
<1> QED
  BY <1>1, <1>2

\* What a commit of a trading request puts into the tables.
LEMMA CommitRows ==
  ASSUME CTyped, NEW r \in Requests, Commit(r)
  PROVE  /\ \A t \in Types : inv'[t] = IF lock[t] = r THEN draft[r][t] ELSE inv[t]
         /\ \A t \in Types : ledger'[t] = ledger[t] + entries[r][t]
         /\ \A t \in Types : lock'[t] = IF lock[t] = r THEN NoOne ELSE lock[t]
         /\ \A q \in Requests : q # r => /\ pc'[q] = pc[q]
                                         /\ draft'[q] = draft[q] /\ entries'[q] = entries[q]
         /\ pc'[r] = "done" /\ \A t \in Types : entries'[r][t] = 0
BY WarehouseAssumption
DEF Commit, Finish, Drafted, Entered, Unlocked, Nothing, CTyped, Items

\* A commit keeps the types.
LEMMA CommitTyped ==
  ASSUME CTyped, NEW r \in Requests, Commit(r), slip' = slip, raced' \subseteq Types
  PROVE  CTyped'
<1> USE DEF Commit, Finish, Unlocked
<1>1. NoDraft \in [Types -> Rows] /\ Nothing \in [Items -> Int]
  BY DEF NoDraft, NoRow, Rows, Nothing
<1>2. inv' \in [Types -> Rows] /\ ledger' \in [Items -> Int]
  BY DEF CTyped, Drafted, Entered
<1>3. <<>> \in Seq(Moves)
  OBVIOUS
<1> QED
  BY <1>1, <1>2, <1>3 DEF CTyped, Running

\* A trading request commits: counts move with their ledger rows, versions on.
LEMMA CommitKeepsCInv ==
  ASSUME CInv, NEW r \in Requests \ Correctors, Commit(r), UNCHANGED <<slip, raced>>
  PROVE  CInv'
<1>0. CTyped /\ CTyped'
  BY CommitTyped DEF CInv, CTyped
<1>1. /\ \A t \in Types : inv'[t] = IF lock[t] = r THEN draft[r][t] ELSE inv[t]
      /\ \A t \in Types : lock'[t] = IF lock[t] = r THEN NoOne ELSE lock[t]
      /\ \A q \in Requests : q # r => /\ pc'[q] = pc[q]
                                      /\ draft'[q] = draft[q] /\ entries'[q] = entries[q]
      /\ pc'[r] = "done" /\ \A t \in Types : entries'[r][t] = 0
  BY <1>0, CommitRows
<1>2. AbsentIsZero'
  BY <1>1 DEF CInv, AbsentIsZero, TradersDraft
<1>3. TradersDraft'
  BY <1>1, WarehouseAssumption DEF CInv, TradersDraft
<1>4. CorrectorsDraft'
  <2> SUFFICES ASSUME NEW q \in Correctors PROVE CorrectorDraft(q)'
    BY DEF CorrectorsDraft
  <2>1. /\ q \in Requests /\ slip[q] \in Slips /\ slip[q].type \in Types
        /\ CorrectorDraft(q)
    BY CorrectionAssumption DEF CInv, CTyped, CorrectorsDraft, Slips
  <2>2. /\ inv[slip[q].type].there => inv'[slip[q].type].there
        /\ lock[slip[q].type] = q => inv'[slip[q].type] = inv[slip[q].type]
        /\ \A t \in Types : lock'[t] = q <=> lock[t] = q
    BY <1>1, <2>1, WarehouseAssumption DEF CInv, TradersDraft
  <2>3. q # r /\ pc'[q] = pc[q] /\ draft'[q] = draft[q] /\ entries'[q] = entries[q]
    BY <1>1, <2>1
  <2> QED
    BY <2>1, <2>2, <2>3 DEF CorrectorDraft, Accepted, Running
<1>5. ShownOrLater'
  <2> SUFFICES ASSUME NEW q \in Correctors,
                      pc[q] \in {"looked", "flushing", "running"}, slip[q].listed,
                      slip[q].type \notin raced
               PROVE  LET s == slip[q] IN
                      /\ inv'[s.type].there
                      /\ inv'[s.type].ver >= s.ver
                      /\ inv'[s.type].ver = s.ver => inv'[s.type].qty = s.seen
    BY <1>1, CorrectionAssumption DEF ShownOrLater
  <2> DEFINE t == slip[q].type
  <2>1. /\ t \in Types /\ slip[q].ver \in Nat
        /\ inv[t].ver \in Nat /\ draft[r][t].ver \in Nat
    <3>1. slip[q] \in Slips
      BY <1>0 DEF CTyped
    <3>2. inv[t] \in Rows /\ draft[r][t] \in Rows
      BY <1>0, <3>1 DEF CTyped, Slips
    <3> QED
      BY <3>1, <3>2 DEF Slips, Rows
  <2>2. /\ inv[t].there /\ inv[t].ver >= slip[q].ver
        /\ inv[t].ver = slip[q].ver => inv[t].qty = slip[q].seen
    BY DEF CInv, ShownOrLater
  <2>3. lock[t] = r => draft[r][t].there /\ draft[r][t].ver > inv[t].ver
    BY <2>1, <2>2 DEF CInv, TradersDraft
  <2> QED
    BY <1>1, <2>1, <2>2, <2>3
<1>6. AcceptedCountIsCurrent'
  BY <1>1, CorrectionAssumption DEF CInv, AcceptedCountIsCurrent
<1> QED
  BY <1>0, <1>2, <1>3, <1>4, <1>5, <1>6 DEF CInv

-----------------------------------------------------------------------------
\* GET /inventory.
LEMMA LookKeepsCInv ==
  ASSUME CInv, NEW r \in Correctors, Look(r) PROVE CInv'
<1> DEFINE t == slip[r].type
           s == [slip[r] EXCEPT !.listed = inv[t].there, !.seen = inv[t].qty, !.ver = inv[t].ver]
<1>0. r \in Requests /\ slip[r] \in Slips /\ inv[t] \in Rows /\ pc[r] = "idle"
  BY CorrectionAssumption DEF CInv, CTyped, Slips, Look
<1>1. /\ pc' = [pc EXCEPT ![r] = "looked"]
      /\ slip' = [slip EXCEPT ![r] = s]
      /\ UNCHANGED <<inv, ledger, order, at, lock, draft, entries, raced>>
  BY <1>0 DEF Look, CInv, CTyped, Slips
<1>2. /\ s \in Slips /\ s.type = t /\ s.listed = inv[t].there
      /\ s.seen = inv[t].qty /\ s.ver = inv[t].ver
  BY <1>0 DEF Slips, Rows
<1> HIDE DEF s
<1>3. CTyped'
  BY <1>0, <1>1, <1>2 DEF CInv, CTyped, Running
<1>4. AbsentIsZero' /\ TradersDraft'
  BY <1>1 DEF CInv, AbsentIsZero, TradersDraft
<1>5. CorrectorsDraft'
  <2> SUFFICES ASSUME NEW q \in Correctors PROVE CorrectorDraft(q)'
    BY DEF CorrectorsDraft
  <2>1. /\ q \in Requests /\ slip[q] \in Slips /\ slip[q].type \in Types
        /\ CorrectorDraft(q)
    BY CorrectionAssumption DEF CInv, CTyped, CorrectorsDraft, Slips
  <2>2. CASE q = r
    <3>1. slip'[q] = s /\ pc'[q] = "looked"
      BY <1>0, <1>1, <2>2 DEF CInv, CTyped
    <3> QED
      BY <1>0, <1>1, <1>2, <2>1, <2>2, <3>1 DEF CorrectorDraft, Accepted, Running
  <2>3. CASE q # r
    <3>1. slip'[q] = slip[q] /\ pc'[q] = pc[q]
      BY <1>1, <2>1, <2>3 DEF CInv, CTyped
    <3> QED
      BY <1>1, <2>1, <3>1 DEF CorrectorDraft, Accepted, Running
  <2> QED
    BY <2>2, <2>3
<1>6. ShownOrLater'
  BY <1>0, <1>1, <1>2, CorrectionAssumption DEF CInv, CTyped, ShownOrLater, Rows
<1>7. AcceptedCountIsCurrent'
  BY <1>0, <1>1, <1>2, CorrectionAssumption DEF CInv, CTyped, AcceptedCountIsCurrent
<1> QED
  BY <1>3, <1>4, <1>5, <1>6, <1>7 DEF CInv

\* The version check.
LEMMA AcceptKeepsCInv ==
  ASSUME CInv, NEW r \in Correctors, Accept(r) PROVE CInv'
<1> DEFINE t == slip[r].type
           s == [slip[r] EXCEPT !.read = inv[t].qty]
<1>0. /\ r \in Requests /\ slip[r] \in Slips /\ t \in Types /\ inv[t] \in Rows /\ pc[r] = "looked"
      /\ inv[t].there /\ inv[t].ver = slip[r].ver
  BY CorrectionAssumption DEF CInv, CTyped, Slips, Accept
<1>1. /\ pc' = [pc EXCEPT ![r] = "flushing"]
      /\ slip' = [slip EXCEPT ![r] = s]
      /\ entries' = [entries EXCEPT ![r][t] = slip[r].new - inv[t].qty]
      /\ UNCHANGED <<inv, ledger, order, at, lock, draft, raced>>
  BY <1>0 DEF Accept, Difference, CInv, CTyped, Slips
<1>2. /\ s \in Slips /\ s.type = t /\ s.listed = slip[r].listed /\ s.ver = slip[r].ver
      /\ s.seen = slip[r].seen /\ s.read = inv[t].qty /\ s.new = slip[r].new
      /\ slip[r].new - inv[t].qty \in Int
  BY <1>0, CorrectionAssumption DEF Slips, Rows
<1> HIDE DEF s
<1>3. CTyped'
  <2>1. entries[r] \in [Items -> Int]
    BY <1>0 DEF CInv, CTyped
  <2>2. entries' \in [Requests -> [Items -> Int]]
    BY <1>0, <1>1, <1>2, <2>1 DEF CInv, CTyped
  <2> QED
    BY <1>0, <1>1, <1>2, <2>2 DEF CInv, CTyped, Running
<1>4. AbsentIsZero' /\ TradersDraft'
  BY <1>0, <1>1 DEF CInv, CTyped, AbsentIsZero, TradersDraft
<1>5. CorrectorsDraft'
  <2> SUFFICES ASSUME NEW q \in Correctors PROVE CorrectorDraft(q)'
    BY DEF CorrectorsDraft
  <2>1. /\ q \in Requests /\ slip[q] \in Slips /\ slip[q].type \in Types
        /\ CorrectorDraft(q)
    BY CorrectionAssumption DEF CInv, CTyped, CorrectorsDraft, Slips
  <2>2. CASE q = r
    <3>1. /\ slip'[q] = s /\ pc'[q] = "flushing" /\ entries[q] \in [Items -> Int]
          /\ entries'[q] = [entries[q] EXCEPT ![t] = s.new - s.read]
      BY <1>0, <1>1, <1>2, <2>2 DEF CInv, CTyped
    <3> QED
      BY <1>0, <1>1, <1>2, <2>1, <2>2, <3>1 DEF CorrectorDraft, Accepted, Running, Items
  <2>3. CASE q # r
    <3>1. slip'[q] = slip[q] /\ pc'[q] = pc[q] /\ entries'[q] = entries[q]
      BY <1>0, <1>1, <2>1, <2>3 DEF CInv, CTyped
    <3> QED
      BY <1>1, <2>1, <3>1 DEF CorrectorDraft, Accepted, Running
  <2> QED
    BY <2>2, <2>3
<1>6. ShownOrLater'
  BY <1>0, <1>1, <1>2, CorrectionAssumption DEF CInv, CTyped, ShownOrLater, Slips
<1>7. AcceptedCountIsCurrent'
  BY <1>0, <1>1, <1>2, CorrectionAssumption
  DEF CInv, CTyped, ShownOrLater, AcceptedCountIsCurrent
<1> QED
  BY <1>3, <1>4, <1>5, <1>6, <1>7 DEF CInv

\* The UPDATE of the commit.
LEMMA FlushKeepsCInv ==
  ASSUME CInv, NEW r \in Correctors, Flush(r) PROVE CInv'
<1> DEFINE t == slip[r].type
           row == [there |-> TRUE, ver |-> slip[r].ver + 1,
                   qty |-> IF slip[r].new = slip[r].read THEN inv[t].qty ELSE slip[r].new]
<1>0. /\ r \in Requests /\ slip[r] \in Slips /\ t \in Types /\ inv[t] \in Rows
      /\ pc[r] = "flushing" /\ lock[t] = NoOne /\ r # NoOne
  BY CorrectionAssumption, WarehouseAssumption DEF CInv, CTyped, Slips, Flush
<1>1. /\ pc' = [pc EXCEPT ![r] = "running"]
      /\ at' = [at EXCEPT ![r] = 1]
      /\ lock' = [lock EXCEPT ![t] = r]
      /\ draft' = [draft EXCEPT ![r][t] = row]
      /\ UNCHANGED <<inv, ledger, order, entries, slip, raced>>
  BY DEF Flush, Write
<1>2. row \in Rows
  <2>1. slip[r].new \in Int /\ slip[r].ver + 1 \in Nat /\ inv[t].qty \in Int
    BY <1>0, SlipNumbers DEF Rows
  <2> QED
    BY <2>1 DEF Rows
<1>c. /\ row.there /\ row.ver = slip[r].ver + 1
      /\ row.qty = IF slip[r].new = slip[r].read THEN inv[t].qty ELSE slip[r].new
  OBVIOUS
<1>3. CTyped'
  BY <1>0, <1>1, <1>2 DEF CInv, CTyped, Running
<1>4. AbsentIsZero' /\ TradersDraft'
  <2>1. AbsentIsZero'
    BY <1>1 DEF CInv, AbsentIsZero
  <2>2. ASSUME NEW q \in Requests \ Correctors, NEW u \in Types
        PROVE  /\ draft'[q] = draft[q] /\ entries'[q] = entries[q] /\ inv'[u] = inv[u]
               /\ lock'[u] = q <=> lock[u] = q
    BY <1>0, <1>1, <2>2, WarehouseAssumption DEF CInv, CTyped
  <2>3. TradersDraft'
    BY <2>2 DEF CInv, TradersDraft
  <2> QED
    BY <2>1, <2>3
<1>5. CorrectorsDraft'
  <2> SUFFICES ASSUME NEW q \in Correctors PROVE CorrectorDraft(q)'
    BY DEF CorrectorsDraft
  <2>1. /\ q \in Requests /\ slip[q] \in Slips /\ slip[q].type \in Types
        /\ CorrectorDraft(q)
    BY CorrectionAssumption DEF CInv, CTyped, CorrectorsDraft, Slips
  <2>2. CASE q = r
    <3>1. pc'[q] = "running" /\ draft'[q][t] = row /\ lock'[t] = q
      BY <1>0, <1>1, <2>2 DEF CInv, CTyped
    <3>2. \A u \in Types : lock'[u] = q => u = t
      BY <1>0, <1>1, <2>1, <2>2 DEF CInv, CTyped, CorrectorDraft, Running
    <3> QED
      BY <1>0, <1>1, <2>1, <2>2, <3>1, <3>2 DEF CorrectorDraft, Accepted, Running
  <2>3. CASE q # r
    <3>1. /\ pc'[q] = pc[q] /\ draft'[q] = draft[q]
          /\ \A u \in Types : lock'[u] = q <=> lock[u] = q
      BY <1>0, <1>1, <2>1, <2>3, WarehouseAssumption DEF CInv, CTyped
    <3> QED
      BY <1>1, <2>1, <3>1 DEF CorrectorDraft, Accepted, Running
  <2> QED
    BY <2>2, <2>3
<1>6. ShownOrLater' /\ AcceptedCountIsCurrent'
  BY <1>0, <1>1, CorrectionAssumption DEF CInv, CTyped, ShownOrLater, AcceptedCountIsCurrent
<1> QED
  BY <1>3, <1>4, <1>5, <1>6 DEF CInv

\* The commit of a correction: the version moves on, or the type is raced.
LEMMA ConfirmKeepsCInv ==
  ASSUME CInv, NEW r \in Correctors, Confirm(r) PROVE CInv'
<1> DEFINE t == slip[r].type
<1>a. /\ r \in Requests /\ slip[r] \in Slips /\ t \in Types /\ Commit(r) /\ Running(r)
      /\ slip' = slip
      /\ raced' = IF inv[t].ver # slip[r].ver THEN raced \cup {t} ELSE raced
  BY CorrectionAssumption DEF CInv, CTyped, Slips, Confirm, Commit
<1>0. CTyped /\ CTyped'
  BY <1>a, CommitTyped DEF CInv, CTyped
<1>b. /\ CorrectorDraft(r) /\ lock[t] = r /\ inv[t] \in Rows
      /\ draft[r][t].there /\ draft[r][t].ver = slip[r].ver + 1 /\ inv[t].there
      /\ \A u \in Types : lock[u] = r => u = t
  BY <1>a, <1>0 DEF CInv, CTyped, CorrectorsDraft, CorrectorDraft, Accepted, Running
<1>1. /\ \A u \in Types : inv'[u] = IF u = t THEN draft[r][t] ELSE inv[u]
      /\ \A u \in Types : lock'[u] = IF u = t THEN NoOne ELSE lock[u]
      /\ \A q \in Requests : q # r => /\ pc'[q] = pc[q]
                                      /\ draft'[q] = draft[q] /\ entries'[q] = entries[q]
      /\ pc'[r] = "done" /\ \A u \in Types : entries'[r][u] = 0
  BY <1>0, <1>a, <1>b, CommitRows
<1>2. AbsentIsZero'
  BY <1>1, <1>b DEF CInv, AbsentIsZero
<1>3. TradersDraft'
  BY <1>1, <1>b, WarehouseAssumption DEF CInv, TradersDraft
<1>4. CorrectorsDraft'
  <2> SUFFICES ASSUME NEW q \in Correctors PROVE CorrectorDraft(q)'
    BY DEF CorrectorsDraft
  <2>1. /\ q \in Requests /\ slip[q] \in Slips /\ slip[q].type \in Types
        /\ CorrectorDraft(q)
    BY CorrectionAssumption DEF CInv, CTyped, CorrectorsDraft, Slips
  <2>2. CASE q = r
    BY <1>1, <1>a, <1>b, <2>1, <2>2, WarehouseAssumption DEF CorrectorDraft, Accepted, Running
  <2>3. CASE q # r
    <3>1. pc'[q] = pc[q] /\ draft'[q] = draft[q] /\ entries'[q] = entries[q] /\ q # NoOne
      BY <1>1, <2>1, <2>3, WarehouseAssumption
    <3>2. \A u \in Types : lock'[u] = q <=> lock[u] = q
      BY <1>1, <1>b, <2>3, <3>1
    <3>3. /\ inv[slip[q].type].there => inv'[slip[q].type].there
          /\ Running(q) => inv'[slip[q].type] = inv[slip[q].type]
      BY <1>1, <1>b, <2>1, <2>3 DEF CorrectorDraft
    <3> QED
      BY <1>a, <2>1, <3>1, <3>2, <3>3 DEF CorrectorDraft, Accepted, Running
  <2> QED
    BY <2>2, <2>3
<1>5. ShownOrLater'
  <2> SUFFICES ASSUME NEW q \in Correctors,
                      pc'[q] \in {"looked", "flushing", "running"}, slip[q].listed,
                      slip[q].type \notin raced'
               PROVE  LET s == slip[q] IN
                      /\ inv'[s.type].there
                      /\ inv'[s.type].ver >= s.ver
                      /\ inv'[s.type].ver = s.ver => inv'[s.type].qty = s.seen
    BY <1>a DEF ShownOrLater
  <2>1. q # r /\ q \in Requests /\ slip[q] \in Slips /\ slip[q].type \in Types
    BY <1>0, <1>1, CorrectionAssumption DEF CTyped, Slips
  <2>2. /\ inv[slip[q].type].there /\ inv[slip[q].type].ver >= slip[q].ver
        /\ inv[slip[q].type].ver = slip[q].ver => inv[slip[q].type].qty = slip[q].seen
    BY <1>1, <1>a, <2>1 DEF CInv, ShownOrLater
  <2>3. CASE slip[q].type = t
    <3>1. inv[t].ver = slip[r].ver
      BY <1>a, <2>3
    <3> QED
      BY <1>1, <1>a, <1>b, <2>1, <2>2, <2>3, <3>1 DEF Slips
  <2>4. CASE slip[q].type # t
    BY <1>1, <2>1, <2>2, <2>4
  <2> QED
    BY <2>3, <2>4
<1>6. AcceptedCountIsCurrent'
  BY <1>1, <1>a, CorrectionAssumption DEF CInv, AcceptedCountIsCurrent
<1> QED
  BY <1>0, <1>2, <1>3, <1>4, <1>5, <1>6 DEF CInv

-----------------------------------------------------------------------------
\* CInv is inductive.
LEMMA NextKeepsCInv == CInv /\ [CNext]_cvars => CInv'
<1> SUFFICES ASSUME CInv, [CNext]_cvars PROVE CInv'
  OBVIOUS
<1>1. ASSUME NEW r \in Correctors, Correct(r) PROVE CInv'
  <2>1. CASE Reject(r) \/ Drop(r)
    BY <2>1, RollbackKeepsCInv, CorrectionAssumption DEF Reject, Drop
  <2> QED
    BY <1>1, <2>1, LookKeepsCInv, AcceptKeepsCInv, FlushKeepsCInv, ConfirmKeepsCInv DEF Correct
<1>2. ASSUME NEW r \in Requests \ Correctors, Trade(r) PROVE CInv'
  <2>1. UNCHANGED <<slip, raced>>
    BY <1>2 DEF Trade
  <2>2. CASE Refuse(r) \/ Victim(r) \/ Abort(r)
    BY <2>1, <2>2, RollbackKeepsCInv DEF Refuse, Victim, Abort
  <2> QED
    BY <1>2, <2>1, <2>2, BeginKeepsCInv, ReceiveKeepsCInv, NoteKeepsCInv, CommitKeepsCInv
    DEF Trade, Serve
<1>3. CASE UNCHANGED cvars
  BY <1>3
  DEF cvars, CInv, CTyped, Running, AbsentIsZero, TradersDraft, CorrectorsDraft, CorrectorDraft,
      Accepted, ShownOrLater, AcceptedCountIsCurrent
<1>4. CASE AllEnded /\ UNCHANGED <<slip, raced>>
  BY <1>3, <1>4 DEF AllEnded, vars, cvars
<1> QED
  BY <1>1, <1>2, <1>3, <1>4 DEF CNext

\* CInv holds in every reachable state.
LEMMA AlwaysCInv == CSpec => []CInv
BY InitCInv, NextKeepsCInv, PTL DEF CSpec

\* A correction that passes the version check was counted against the count
\* in the table (inventory.py:102), however many corrections and other requests
\* overlap; the exceptions are those AcceptedCountIsCurrent names.
THEOREM CheckedCountIsCurrent == CSpec => []AcceptedCountIsCurrent
<1>1. CInv => AcceptedCountIsCurrent
  BY DEF CInv
<1> QED
  BY <1>1, AlwaysCInv, PTL

\* Only the commit of a correction over a row that changed after it was read
\* (inventory.py:105) moves the count without the ledger.
THEOREM OnlyOverlapDrifts == CSpec => DriftOnlyByOverlap
<1> DEFINE Drifts(t) == inv'[t].qty - ledger'[t] # inv[t].qty - ledger[t]
           Excused(t) == \E r \in Correctors :
                           /\ pc[r] = "running" /\ pc'[r] = "done"
                           /\ slip[r].type = t
                           /\ slip[r].read # inv[t].qty
<1>1. ASSUME CInv, [CNext]_cvars, NEW t \in Types, Drifts(t) PROVE Excused(t)
  <2>0. CTyped /\ inv[t] \in Rows /\ ledger[t] \in Int
    BY <1>1 DEF CInv, CTyped, Items
  <2>1. PICK r \in Requests : Commit(r) /\ (r \in Correctors => Confirm(r))
    <3>1. \/ UNCHANGED <<inv, ledger>>
          \/ \E r \in Requests : Commit(r) /\ (r \in Correctors => Confirm(r))
      BY <1>1, CorrectionAssumption
      DEF CNext, cvars, Correct, Look, Accept, Reject, Flush, Confirm, Drop, Rollback, Trade,
          Begin, Serve, Abort, Receive, Draw, Note, Enter, Refuse, Victim, AllEnded, vars
    <3> QED
      BY <1>1, <3>1
  <2>2. /\ inv'[t] = IF lock[t] = r THEN draft[r][t] ELSE inv[t]
        /\ ledger'[t] = ledger[t] + entries[r][t]
        /\ pc[r] = "running" /\ pc'[r] = "done"
        /\ entries[r][t] \in Int
    <3>1. Running(r) /\ entries[r] \in [Items -> Int]
      BY <2>0, <2>1 DEF Commit, CTyped
    <3> QED
      BY <2>0, <2>1, <3>1, CommitRows DEF Running, Items
  <2>3. r \in Correctors
    BY <1>1, <2>0, <2>2 DEF CInv, TradersDraft, Rows
  <2>4. CorrectorDraft(r) /\ slip[r] \in Slips /\ Running(r) /\ Accepted(r)
    BY <1>1, <2>2, <2>3 DEF CInv, CTyped, CorrectorsDraft, Running, Accepted
  <2>5. slip[r].type = t
    BY <1>1, <2>0, <2>2, <2>4 DEF CorrectorDraft, Rows
  <2>6. slip[r].read # inv[t].qty
    <3>1. slip[r].new \in Int /\ slip[r].read \in Int /\ inv[t].qty \in Int
      BY <2>0, <2>4, SlipNumbers DEF Rows
    <3>2. /\ entries[r][t] = slip[r].new - slip[r].read
          /\ inv'[t].qty = IF slip[r].new = slip[r].read THEN inv[t].qty ELSE slip[r].new
      BY <2>2, <2>4, <2>5 DEF CorrectorDraft
    <3> QED
      BY <1>1, <2>0, <2>2, <3>1, <3>2
  <2> QED
    BY <2>2, <2>3, <2>5, <2>6
<1>2. CInv /\ [CNext]_cvars => [\A t \in Types : Drifts(t) => Excused(t)]_cvars
  BY <1>1
<1> QED
  BY <1>2, AlwaysCInv, PTL DEF CSpec, DriftOnlyByOverlap
=============================================================================
