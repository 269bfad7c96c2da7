----------------------------- MODULE Warehouse -----------------------------
(***************************************************************************)
(* The live cylinder counts (table inventory) and the append-only          *)
(* stock_ledger, under concurrent requests: morning intake and ac4         *)
(* (received from the plant), sales and returns (which draw full cylinders *)
(* under a row lock), erv (empties sent back).                             *)
(*                                                                         *)
(* A request is one PostgreSQL transaction at READ COMMITTED.  It works    *)
(* through its order line by line; a line is a move: an item and a signed  *)
(* quantity.  Moves of a cylinder type are of FULL cylinders and go        *)
(* through an inventory row; Loose items (the empties of a type, the       *)
(* accessories) exist in the ledger only.                                  *)
(***************************************************************************)
EXTENDS Integers, Sequences, Functions

CONSTANTS
  Types,      \* cylinder types
  Loose,      \* ledger-only stock items: empties of a type, accessories
  Unlisted,   \* an item id that is in no catalogue table
  Requests,   \* the HTTP requests, each served once
  Orders,     \* the orders a client may send: sequences of moves
  Stocked,    \* types that have an inventory row before the first request
  OnHand,     \* full cylinders of each type before the first request
  NoOne       \* the holder of a row nobody has locked

Items == Types \cup Loose
Moves == [item : Items \cup {Unlisted}, delta : Int]

ASSUME WarehouseAssumption ==
  /\ Types \cap Loose = {}
  /\ Unlisted \notin Items
  /\ NoOne \notin Requests
  /\ Orders \subseteq Seq(Moves)
  /\ Stocked \subseteq Types
  /\ OnHand \in [Types -> Nat]
  /\ \A t \in Types \ Stocked : OnHand[t] = 0

VARIABLES
  inv,        \* inventory: the committed row of each type
  ledger,     \* sum of the committed stock_ledger rows of each item
  pc,         \* where each request is
  order,      \* the order a running request works on
  at,         \* the line it is at
  lock,       \* the request that holds the row lock (or the uncommitted row) of a type
  draft,      \* the row versions a running request has written, not yet committed
  entries     \* sum of the ledger rows it has added, not yet committed

vars == <<inv, ledger, pc, order, at, lock, draft, entries>>

(***************************************************************************)
(* Rows.  A type without a row reads as zero (COALESCE in list_inventory). *)
(***************************************************************************)
Rows == [there : BOOLEAN, qty : Int, ver : Nat]
NoRow == [there |-> FALSE, qty |-> 0, ver |-> 0]

\* INSERT ... ON CONFLICT DO UPDATE of record_intake and record_ac4.
Upsert(row, n) ==
  IF row.there
    THEN [there |-> TRUE, qty |-> row.qty + n, ver |-> row.ver + 1]
    ELSE [there |-> TRUE, qty |-> n, ver |-> 0]

\* Mutant of Take: the version is left alone.
TakeSameVersion(row, delta) ==
  [there |-> TRUE, qty |-> row.qty + delta, ver |-> row.ver]
\* inv.quantity -= qty; inv.version += 1  (delta is negative).
Take(row, delta) ==
  [there |-> TRUE, qty |-> row.qty + delta, ver |-> row.ver + 1]

Nothing == [i \in Items |-> 0]
NoDraft == [t \in Types |-> NoRow]

Init ==
  /\ inv = [t \in Types |-> [there |-> t \in Stocked, qty |-> OnHand[t], ver |-> 0]]
  /\ ledger = [i \in Items |-> IF i \in Types THEN OnHand[i] ELSE 0]
  /\ pc = [r \in Requests |-> "idle"]
  /\ order = [r \in Requests |-> <<>>]
  /\ at = [r \in Requests |-> 0]
  /\ lock = [t \in Types |-> NoOne]
  /\ draft = [r \in Requests |-> NoDraft]
  /\ entries = [r \in Requests |-> Nothing]

Running(r) == pc[r] = "running"
HasLine(r) == Running(r) /\ at[r] <= Len(order[r])
Line(r) == order[r][at[r]]

\* Mutant of Free: SELECT without FOR UPDATE.
FreeUnlocked(t, r) == TRUE

Free(t, r) == lock[t] \in {NoOne, r}

\* The row of t as a statement of r reads it once it may touch it.
Row(t, r) == IF lock[t] = r THEN draft[r][t] ELSE inv[t]

-----------------------------------------------------------------------------
Begin(r) ==
  /\ pc[r] = "idle"
  /\ \E o \in Orders : order' = [order EXCEPT ![r] = o]
  /\ pc' = [pc EXCEPT ![r] = "running"]
  /\ at' = [at EXCEPT ![r] = 1]
  /\ UNCHANGED <<inv, ledger, lock, draft, entries>>

\* db.add(StockLedger(...)) and on to the next line.
Enter(r) ==
  /\ entries' = [entries EXCEPT ![r][Line(r).item] = @ + Line(r).delta]
  /\ at' = [at EXCEPT ![r] = @ + 1]
  /\ UNCHANGED <<inv, ledger, pc, order>>

\* Write the row of type t, keeping it locked until the transaction ends.
Write(r, t, row) ==
  /\ lock' = [lock EXCEPT ![t] = r]
  /\ draft' = [draft EXCEPT ![r][t] = row]

\* A line of record_intake or record_ac4: waits while another transaction
\* has the row locked or has inserted it without committing.
Receive(r) ==
  /\ HasLine(r)
  /\ Line(r).item \in Types
  /\ Line(r).delta > 0
  /\ LET t == Line(r).item IN
       /\ Free(t, r)
       /\ Write(r, t, Upsert(Row(t, r), Line(r).delta))
  /\ Enter(r)

\* SELECT ... FOR UPDATE sees the row at once or not at all: it does not
\* wait for an insert that has not committed.
Sees(r, t) == inv[t].there \/ lock[t] = r

\* Mutant of Enough: the quantity check is dropped.
EnoughAnyway(r) == TRUE

Enough(r) ==
  LET t == Line(r).item IN Row(t, r).qty + Line(r).delta >= 0

\* A line of a sale, or a full-cylinder line of record_return.
Draw(r) ==
  /\ HasLine(r)
  /\ Line(r).item \in Types
  /\ Line(r).delta <= 0
  /\ LET t == Line(r).item IN
       /\ Sees(r, t)
       /\ Free(t, r)
       /\ Enough(r)
       /\ Write(r, t, Take(Row(t, r), Line(r).delta))
  /\ Enter(r)

\* Empties and accessories: a ledger row and nothing else, never checked.
Note(r) ==
  /\ HasLine(r)
  /\ Line(r).item \in Loose
  /\ Enter(r)
  /\ UNCHANGED <<lock, draft>>

\* Mutant of Unlocked: a failed request leaves its transaction open.
StillLocked(r) == lock

Unlocked(r) == [t \in Types |-> IF lock[t] = r THEN NoOne ELSE lock[t]]

\* The transaction ends: its locks go and its private work is dropped.
Finish(r, outcome) ==
  /\ pc' = [pc EXCEPT ![r] = outcome]
  /\ order' = [order EXCEPT ![r] = <<>>]
  /\ at' = [at EXCEPT ![r] = 0]
  /\ lock' = Unlocked(r)
  /\ draft' = [draft EXCEPT ![r] = NoDraft]
  /\ entries' = [entries EXCEPT ![r] = Nothing]

Drafted(r) == [t \in Types |-> IF lock[t] = r THEN draft[r][t] ELSE inv[t]]
Entered(r) == [i \in Items |-> ledger[i] + entries[r][i]]

\* Mutant of Rollback: the lines done so far were committed one by one.
RollbackNothing(r) == Finish(r, "failed") /\ inv' = Drafted(r) /\ ledger' = Entered(r)

Rollback(r) == Finish(r, "failed") /\ UNCHANGED <<inv, ledger>>

\* InsufficientStock, or the IntegrityError of an unknown item.
Refuse(r) ==
  /\ HasLine(r)
  /\ \/ Line(r).item \notin Items
     \/ /\ Line(r).item \in Types
        /\ Line(r).delta <= 0
        /\ \/ ~Sees(r, Line(r).item)
           \/ Free(Line(r).item, r) /\ ~Enough(r)
  /\ Rollback(r)

Commit(r) ==
  /\ Running(r)
  /\ at[r] > Len(order[r])
  /\ inv' = Drafted(r)
  /\ ledger' = Entered(r)
  /\ Finish(r, "done")

\* Any other end: an error of a part of the handler that is not about
\* stock, a lost connection, the server process dying.
Abort(r) == Running(r) /\ Rollback(r)

-----------------------------------------------------------------------------
(***************************************************************************)
(* PostgreSQL's deadlock detector: a transaction on a cycle of waits is    *)
(* aborted.                                                                *)
(***************************************************************************)
Waits(r) ==
  /\ HasLine(r)
  /\ Line(r).item \in Types
  /\ ~Free(Line(r).item, r)
  /\ Line(r).delta <= 0 => Sees(r, Line(r).item)

OnCycle(r) ==
  \E S \in SUBSET Requests :
    /\ r \in S
    /\ \A s \in S : Waits(s)
    /\ {lock[Line(s).item] : s \in S} = S

Victim(r) == OnCycle(r) /\ Rollback(r)

\* What the server and the database do for r without being asked again.
Serve(r) == Receive(r) \/ Draw(r) \/ Note(r) \/ Refuse(r) \/ Commit(r) \/ Victim(r)

AllEnded == (\A r \in Requests : pc[r] \in {"done", "failed"}) /\ UNCHANGED vars

Next == (\E r \in Requests : Begin(r) \/ Serve(r) \/ Abort(r)) \/ AllEnded

Spec == Init /\ [][Next]_vars

-----------------------------------------------------------------------------
TypeOK ==
  /\ inv \in [Types -> Rows]
  /\ ledger \in [Items -> Int]
  /\ pc \in [Requests -> {"idle", "running", "done", "failed"}]
  /\ order \in [Requests -> Seq(Moves)]
  /\ at \in [Requests -> Nat]
  /\ lock \in [Types -> Requests \cup {NoOne}]
  /\ draft \in [Requests -> [Types -> Rows]]
  /\ entries \in [Requests -> [Items -> Int]]
  /\ \A r \in Requests : Running(r) => at[r] \in 1 .. (Len(order[r]) + 1)

\* "Keep the live full-cylinder inventory in step" (stock.py:61): at every
\* commit point the live count of a type is the sum of its ledger rows,
\* whatever intakes, sales and returns overlap.
InStep == \A t \in Types : inv[t].qty = ledger[t]

\* No interleaving of sales and returns that each found enough stock takes
\* a type below zero; a draft that could be committed next is no exception.
NeverOversold ==
  \A t \in Types :
    /\ inv[t].qty >= 0
    /\ lock[t] # NoOne => draft[lock[t]][t].qty >= 0

(***************************************************************************)
(* The inductive strengthening of InStep, NeverOversold and                *)
(* VersionTracksCount: what a row lock protects while its holder works.    *)
(***************************************************************************)
HoldersRun == \A t \in Types : lock[t] # NoOne => Running(lock[t])

\* A type with no row yet counts zero.
AbsentIsZero == \A t \in Types : ~inv[t].there => inv[t].qty = 0

\* The holder's draft is the committed row plus exactly the ledger rows it
\* has added for that type; nobody else has added any.
DraftsInStep ==
  \A r \in Requests, t \in Types :
    IF lock[t] = r
      THEN /\ draft[r][t].there
           /\ draft[r][t].qty = inv[t].qty + entries[r][t]
           /\ inv[t].there => draft[r][t].ver > inv[t].ver
      ELSE entries[r][t] = 0

\* Everything a commit relies on: if it holds, committing any running
\* request at any of its lines' ends keeps count and ledger equal.
CommitSafe ==
  TypeOK /\ HoldersRun /\ AbsentIsZero /\ DraftsInStep /\ InStep /\ NeverOversold

\* The version of a row that exists moves forward with every change of its
\* count, so that a client that holds the current version knows the count.
VersionTracksCount ==
  [][\A t \in Types :
       inv[t].there =>
         /\ inv'[t].there
         /\ inv'[t].ver >= inv[t].ver
         /\ inv'[t].qty # inv[t].qty => inv'[t].ver > inv[t].ver]_vars

-----------------------------------------------------------------------------
(***************************************************************************)
(* What is promised of all this: StockBook, with whole orders as the only  *)
(* effects.                                                                *)
(***************************************************************************)

\* The whole effect of an order on the book, line after line.
Effect(o) ==
  [i \in Items |-> SumFunction([n \in DOMAIN o |-> IF o[n].item = i THEN o[n].delta ELSE 0])]

OrderIsListed(o) == \A n \in DOMAIN o : o[n].item \in Items

Book == INSTANCE StockBook WITH
  Effects <- {Effect(o) : o \in {p \in Orders : OrderIsListed(p)}},
  shelf <- [t \in Types |-> inv[t].qty],
  book <- ledger,
  answer <- [r \in Requests |->
               IF pc[r] \in {"idle", "running"} THEN "open" ELSE pc[r]]

\* However lines, lock waits, refusals and aborts interleave, what the
\* tables show is some serial execution of whole orders: a request's lines
\* are all posted in one step or none is.
WholeOrdersOnly == Book!Spec
=============================================================================
