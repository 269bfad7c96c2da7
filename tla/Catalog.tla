------------------------------ MODULE Catalog ------------------------------
(***************************************************************************)
(* The named rows an owner maintains (cylinder varieties, accessories,     *)
(* expense items, customers, banks, vendors, users) and the dated prices   *)
(* that refer to varieties, under overlapping requests.                    *)
(*                                                                         *)
(* A request is one PostgreSQL transaction at READ COMMITTED, statement by *)
(* statement.  What makes them meet: a unique name in each table, foreign  *)
(* keys from prices to varieties, and the ORM, which reads a row without a *)
(* lock and later writes the columns that differ from what it read.        *)
(***************************************************************************)
EXTENDS Naturals, Sequences, TLC

CONSTANTS
  Kept,      \* ids a client may name; they have a row or had one
  Requests,  \* the requests; a row one of them creates has its name
  Names,     \* codes, names and phone numbers
  Dates,     \* effective dates
  Amounts,   \* unit prices, as the column rounds them
  Unfit,     \* of both, what the schemas let through and the column cannot hold
  Same,      \* a field a PATCH leaves out
  NoRow, NoPrice,
  Opening,   \* the row of each kept id before the first request
  Priced,    \* the prices before the first request
  Tasks      \* what each request may ask for

Ids == Kept \cup Requests
Keys == Ids \X Dates

(***************************************************************************)
(* The tables differ in three ways: is there a DELETE, can the unique      *)
(* column be changed, and is the violation of its index caught then.       *)
(***************************************************************************)
Variety     == [erasable |-> TRUE,  renames |-> TRUE,  caught |-> TRUE]
Accessory   == [erasable |-> TRUE,  renames |-> TRUE,  caught |-> TRUE]
ExpenseItem == [erasable |-> FALSE, renames |-> TRUE,  caught |-> FALSE]
Customer    == [erasable |-> FALSE, renames |-> TRUE,  caught |-> TRUE]
Bank        == [erasable |-> FALSE, renames |-> TRUE,  caught |-> TRUE]
Vendor      == [erasable |-> FALSE, renames |-> TRUE,  caught |-> TRUE]
Staff       == [erasable |-> FALSE, renames |-> FALSE, caught |-> FALSE]

Traits ==
  [variety |-> Variety, accessory |-> Accessory, expense_item |-> ExpenseItem,
   customer |-> Customer, bank |-> Bank, vendor |-> Vendor, user |-> Staff]

Rows == [table : DOMAIN Traits, name : Names, active : BOOLEAN]

Creates == [op : {"create"}, table : DOMAIN Traits, name : Names]
Updates ==
  [op : {"update"}, id : Kept, name : Names \cup {Same}, active : BOOLEAN \cup {Same}]
Deletes == [op : {"delete"}, id : Kept]

\* PUT /prices has one item, PUT /prices/bulk any number for one date.
Puts == [op : {"put"}, date : Dates, items : Seq([id : Kept, amount : Amounts])]

ASSUME CatalogAssumption ==
  /\ Kept \cap Requests = {}
  /\ Dates \subseteq Nat
  /\ Same \notin Names \cup BOOLEAN
  /\ NoRow \notin Rows /\ NoPrice \notin Amounts
  /\ Opening \in [Kept -> Rows \cup {NoRow}]
  /\ Priced \in [Kept \X Dates -> Amounts \cup {NoPrice}]
  /\ \A k \in Kept \X Dates :
       /\ Priced[k] # NoPrice => Opening[k[1]] # NoRow /\ Opening[k[1]].table = "variety"
       /\ Priced[k] \notin Unfit
  /\ \A i \in Kept : Opening[i] # NoRow => Opening[i].name \notin Unfit
  /\ \A r \in Requests : Tasks[r] \subseteq Creates \cup Updates \cup Deletes \cup Puts
  /\ \A r \in Requests : \A t \in Tasks[r] :
       /\ t.op = "put" => t.items # <<>>
       /\ t.op = "update" /\ Opening[t.id] # NoRow /\ t.name # Same =>
            Traits[Opening[t.id].table].renames
       /\ t.op = "delete" /\ Opening[t.id] # NoRow => Traits[Opening[t.id].table].erasable

VARIABLES
  rows,    \* the committed tables
  prices,  \* the committed prices
  pc,      \* where each request is
  task,    \* what it is asked to do
  seen,    \* the row as db.get read it
  draft,   \* the row version it writes
  held,    \* its lock on each row: none, share (a reference), soft, full
  puts,    \* the prices it has written
  at,      \* the item it is at
  out,     \* its answer
  alone    \* no other request ran beside it (history)

vars == <<rows, prices, pc, task, seen, draft, held, puts, at, out, alone>>

\* The handlers' answers, "error" the 500 of what none of them catches, "lost" none.
Answers == {"none", "ok", "missing", "exists", "in_use", "invalid", "error", "lost"}

NoLock == [i \in Ids |-> "none"]
NoTask == [op |-> "none"]

Init ==
  /\ rows = [i \in Ids |-> IF i \in Kept THEN Opening[i] ELSE NoRow]
  /\ prices = [k \in Keys |-> IF k[1] \in Kept THEN Priced[k] ELSE NoPrice]
  /\ pc = [r \in Requests |-> "idle"]
  /\ task = [r \in Requests |-> NoTask]
  /\ seen = [r \in Requests |-> NoRow]
  /\ draft = [r \in Requests |-> NoRow]
  /\ held = [r \in Requests |-> NoLock]
  /\ puts = [r \in Requests |-> <<>>]
  /\ at = [r \in Requests |-> 1]
  /\ out = [r \in Requests |-> "none"]
  /\ alone = [r \in Requests |-> TRUE]

Active(r) == pc[r] \notin {"idle", "answered"}
Op(r) == task[r].op
Target(r) == IF Op(r) = "create" THEN r ELSE task[r].id
Row(r) == rows[Target(r)]
Item(r) == task[r].items[at[r]]

\* Mutant of Key: the price is stamped with the day it is entered on.
KeyToday(r) == <<Item(r).id, CHOOSE d \in Dates : \A e \in Dates : e <= d>>

Key(r) == <<Item(r).id, task[r].date>>

\* The ORM sets the columns whose new value differs from the one it read.
Differs(r, row, field) == task[r][field] \notin {Same, row[field]}

Sets(r, field) == Differs(r, seen[r], field)

\* Mutant of Patched: the whole row as it was read is written back.
PatchedSeen(r) ==
  [seen[r] EXCEPT
     !.name = IF Sets(r, "name") THEN task[r].name ELSE @,
     !.active = IF Sets(r, "active") THEN task[r].active ELSE @]

Patched(r) ==
  [Row(r) EXCEPT
     !.name = IF Sets(r, "name") THEN task[r].name ELSE @,
     !.active = IF Sets(r, "active") THEN task[r].active ELSE @]

-----------------------------------------------------------------------------
(* Whether a statement is refused at once, or else whom it waits for.      *)

\* The statement carries a value its column cannot hold: a unit_price of nine
\* digits or more before the point, a NUL in a text.  That is no IntegrityError.
Misfit(r) ==
  \/ pc[r] = "claim" /\ Item(r).amount \in Unfit
  \/ pc[r] = "write" /\ draft[r].name \in Unfit
  \/ pc[r] = "grab" /\ Op(r) = "update" /\ Sets(r, "name") /\ task[r].name \in Unfit

\* Row lock of UPDATE and DELETE: full when a key column changes.
Mode(r) ==
  IF Op(r) = "delete" \/ (Sets(r, "name") /\ Row(r).name # task[r].name)
    THEN "full" ELSE "soft"

Conflict(mine, theirs) ==
  {mine, theirs} \in {{"full"}, {"full", "soft"}, {"full", "share"}, {"soft"}}

\* Another transaction whose end decides whether name n of table t is free.
Undecided(q, t, n) ==
  \/ pc[q] \in {"write", "commit"} /\ held[q][Target(q)] # "none"
       /\ Row(q) # NoRow /\ Row(q).table = t /\ Row(q).name = n
  \/ pc[q] = "commit" /\ draft[q] # NoRow /\ draft[q].table = t /\ draft[q].name = n

Blockers(r) ==
  {q \in IF Misfit(r) THEN {} ELSE Requests \ {r} :
     \/ /\ pc[r] = "grab" /\ Row(r) # NoRow
        /\ Conflict(Mode(r), held[q][Target(r)])
     \/ /\ pc[r] = "write" /\ Op(q) \in {"create", "update", "delete"}
        /\ Undecided(q, draft[r].table, draft[r].name)
     \/ pc[r] = "claim" /\ Key(r) \in DOMAIN puts[q]
     \/ pc[r] = "refer" /\ Conflict("share", held[q][Item(r).id])}

Ready(r, here) == pc[r] = here /\ ~Misfit(r) /\ Blockers(r) = {}

\* Mutant of Freed: a failed request leaves its transaction open.
FreedNot(r) == held[r]

Freed(r) == NoLock

\* The transaction ends: locks and uncommitted work go.
Finish(r, next, answer) ==
  /\ pc' = [pc EXCEPT ![r] = next]
  /\ out' = [out EXCEPT ![r] = answer]
  /\ seen' = [seen EXCEPT ![r] = NoRow]
  /\ draft' = [draft EXCEPT ![r] = NoRow]
  /\ held' = [held EXCEPT ![r] = Freed(r)]
  /\ puts' = [puts EXCEPT ![r] = <<>>]
  /\ at' = [at EXCEPT ![r] = 1]
  /\ UNCHANGED <<task, alone>>

Fail(r, answer) == Finish(r, "answered", answer) /\ UNCHANGED <<rows, prices>>

-----------------------------------------------------------------------------
First(t) ==
  CASE t.op = "create" -> "write" [] t.op = "put" -> "claim" [] OTHER -> "load"

Begin(r) ==
  /\ pc[r] = "idle"
  /\ \E t \in Tasks[r] :
       /\ task' = [task EXCEPT ![r] = t]
       /\ pc' = [pc EXCEPT ![r] = First(t)]
       /\ draft' =
            [draft EXCEPT ![r] =
               IF t.op = "create"
                 THEN [table |-> t.table, name |-> t.name, active |-> TRUE] ELSE NoRow]
  /\ alone' =
       [q \in Requests |->
          alone[q] /\ ~(Active(q) \/ (q = r /\ \E p \in Requests : Active(p)))]
  /\ UNCHANGED <<rows, prices, seen, held, puts, at, out>>

\* db.get: no lock.  A PATCH that changes nothing sends no UPDATE.
Load(r) ==
  /\ pc[r] = "load"
  /\ Row(r) # NoRow
  /\ seen' = [seen EXCEPT ![r] = Row(r)]
  /\ pc' =
       [pc EXCEPT ![r] =
          IF Op(r) = "update" /\ ~\E f \in {"name", "active"} : Differs(r, Row(r), f)
            THEN "commit" ELSE "grab"]
  /\ UNCHANGED <<rows, prices, task, draft, held, puts, at, out, alone>>

\* 404.
Missing(r) == pc[r] = "load" /\ Row(r) = NoRow /\ Fail(r, "missing")

\* DBAPIError: no handler catches it.
Rejected(r) == Misfit(r) /\ Fail(r, "error")

\* Mutant of Referenced: prices without a foreign key.
ReferencedNever(i) == FALSE

Referenced(i) ==
  \E k \in Keys : k[1] = i /\ prices[k] # NoPrice

\* The UPDATE or DELETE of a row that is still there.
Grab(r) ==
  /\ Ready(r, "grab")
  /\ Row(r) # NoRow
  /\ Op(r) = "delete" => ~Referenced(Target(r))
  /\ held' = [held EXCEPT ![r][Target(r)] = Mode(r)]
  /\ draft' = [draft EXCEPT ![r] = IF Op(r) = "delete" THEN NoRow ELSE Patched(r)]
  /\ pc' = [pc EXCEPT ![r] = IF Op(r) = "update" /\ Sets(r, "name") THEN "write" ELSE "commit"]
  /\ UNCHANGED <<rows, prices, task, seen, puts, at, out, alone>>

\* CylinderTypeInUse, AccessoryInUse: the foreign key refuses the DELETE.
InUse(r) ==
  /\ Ready(r, "grab")
  /\ Op(r) = "delete" /\ Row(r) # NoRow /\ Referenced(Target(r))
  /\ Fail(r, "in_use")

\* The row went between read and write: an UPDATE of no row is an error the
\* handlers do not catch, a DELETE of no row is not.
Vanished(r) ==
  /\ pc[r] = "grab" /\ Row(r) = NoRow
  /\ \/ Op(r) = "update" /\ Fail(r, "error")
     \/ /\ Op(r) = "delete"
        /\ pc' = [pc EXCEPT ![r] = "commit"]
        /\ UNCHANGED <<rows, prices, task, seen, draft, held, puts, at, out, alone>>

Taken(r) ==
  \E i \in Ids \ {Target(r)} :
    /\ rows[i] # NoRow
    /\ rows[i].table = draft[r].table /\ rows[i].name = draft[r].name

\* The new name enters the unique index.  A new row is its request's alone.
Write(r) ==
  /\ Ready(r, "write")
  /\ ~Taken(r)
  /\ held' = [held EXCEPT ![r][Target(r)] = IF Op(r) = "create" THEN "full" ELSE @]
  /\ pc' = [pc EXCEPT ![r] = "commit"]
  /\ UNCHANGED <<rows, prices, task, seen, draft, puts, at, out, alone>>

\* Mutant of Caught: no handler of an update catches.
CaughtCreate(r) == Op(r) = "create"

Caught(r) == Op(r) = "create" \/ Traits[draft[r].table].caught

\* IntegrityError: 409, or 500 where nothing catches it.
Duplicate(r) ==
  /\ Ready(r, "write")
  /\ Taken(r)
  /\ Fail(r, IF Caught(r) THEN "exists" ELSE "error")

\* On to the next item of a price list.
Onward(r) ==
  /\ at' = [at EXCEPT ![r] = @ + 1]
  /\ pc' = [pc EXCEPT ![r] = IF at[r] = Len(task[r].items) THEN "commit" ELSE "claim"]

\* Mutant of Upserted: ON CONFLICT DO NOTHING.
UpsertedOnce(r) == puts[r] @@ (Key(r) :> Item(r).amount)

\* ON CONFLICT DO UPDATE.
Upserted(r) ==
  [k \in DOMAIN puts[r] \cup {Key(r)} |->
     IF k = Key(r) THEN Item(r).amount ELSE puts[r][k]]

\* _upsert: waits for whoever has written this (type, date) and not
\* committed.  A row that exists is updated and its reference not checked.
Claim(r) ==
  /\ Ready(r, "claim")
  /\ puts' = [puts EXCEPT ![r] = Upserted(r)]
  /\ IF prices[Key(r)] # NoPrice \/ Key(r) \in DOMAIN puts[r]
       THEN Onward(r)
       ELSE pc' = [pc EXCEPT ![r] = "refer"] /\ UNCHANGED at
  /\ UNCHANGED <<rows, prices, task, seen, draft, held, out, alone>>

IsVariety(i) == rows[i] # NoRow /\ rows[i].table = "variety"

\* The foreign key of a new price locks the variety against removal.
Refer(r) ==
  /\ Ready(r, "refer")
  /\ IsVariety(Item(r).id)
  /\ held' = [held EXCEPT ![r][Item(r).id] = "share"]
  /\ Onward(r)
  /\ UNCHANGED <<rows, prices, task, seen, draft, puts, out, alone>>

\* InvalidCylinderType.
Invalid(r) == Ready(r, "refer") /\ ~IsVariety(Item(r).id) /\ Fail(r, "invalid")

Written(r) ==
  IF Op(r) # "put" /\ held[r][Target(r)] # "none"
    THEN [rows EXCEPT ![Target(r)] = draft[r]] ELSE rows

Commit(r) ==
  /\ pc[r] = "commit"
  /\ rows' = Written(r)
  /\ prices' = [k \in Keys |-> IF k \in DOMAIN puts[r] THEN puts[r][k] ELSE prices[k]]
  /\ IF Op(r) \in {"create", "update"}
       THEN Finish(r, "refresh", "none") ELSE Finish(r, "answered", "ok")

\* db.refresh after the commit, in a transaction of its own.
Refresh(r) ==
  /\ pc[r] = "refresh"
  /\ Fail(r, IF Row(r) = NoRow THEN "error" ELSE "ok")

\* A lost connection, a dead server or database: if a 500 is still sent, it is
\* nothing the handlers have answered.
Lose(r) == Active(r) /\ Fail(r, "lost")

\* PostgreSQL ends one transaction of a cycle of waits.
OnCycle(r) ==
  /\ Blockers(r) # {}
  /\ \E S \in SUBSET Requests :
       r \in S /\ \E next \in [S -> S] :
         /\ \A s \in S : next[s] \in Blockers(s)
         /\ \A s, q \in S : next[s] = next[q] => s = q

Victim(r) == OnCycle(r) /\ Fail(r, "error")

Serve(r) ==
  \/ Load(r) \/ Missing(r) \/ Grab(r) \/ InUse(r) \/ Vanished(r) \/ Write(r)
  \/ Duplicate(r) \/ Claim(r) \/ Refer(r) \/ Invalid(r) \/ Commit(r) \/ Refresh(r)
  \/ Rejected(r) \/ Victim(r)

AllAnswered == (\A r \in Requests : pc[r] = "answered") /\ UNCHANGED vars

Next == (\E r \in Requests : Begin(r) \/ Serve(r) \/ Lose(r)) \/ AllAnswered

Spec == Init /\ [][Next]_vars

FairSpec == Spec /\ \A r \in Requests : WF_vars(Serve(r))

-----------------------------------------------------------------------------
(* prices_for_date and resolve_unit_price.                                 *)

Effective(i, d) == {e \in Dates : e <= d /\ prices[i, e] # NoPrice}

Resolve(i, d) ==
  IF Effective(i, d) = {} THEN NoPrice
  ELSE prices[i, CHOOSE e \in Effective(i, d) : \A f \in Effective(i, d) : f <= e]

-----------------------------------------------------------------------------
TypeOK ==
  /\ rows \in [Ids -> Rows \cup {NoRow}]
  /\ prices \in [Keys -> Amounts \cup {NoPrice}]
  /\ pc \in [Requests -> {"idle", "load", "grab", "write", "claim", "refer",
                          "commit", "refresh", "answered"}]
  /\ DOMAIN task = Requests /\ \A r \in Requests : task[r] \in Tasks[r] \cup {NoTask}
  /\ seen \in [Requests -> Rows \cup {NoRow}]
  /\ draft \in [Requests -> Rows \cup {NoRow}]
  /\ held \in [Requests -> [Ids -> {"none", "share", "soft", "full"}]]
  /\ DOMAIN puts = Requests
  /\ \A r \in Requests :
       /\ DOMAIN puts[r] \subseteq Keys
       /\ \A k \in DOMAIN puts[r] : puts[r][k] \in Amounts
  /\ at \in [Requests -> Nat \ {0}]
  /\ out \in [Requests -> Answers]
  /\ alone \in [Requests -> BOOLEAN]

\* "a variety referenced by historical rows is never removed" (catalog.py:4):
\* however a DELETE overlaps the price lists being set, no price is left
\* without its variety, and none that is about to be committed will be.
NothingDangles ==
  /\ \A k \in Keys : prices[k] # NoPrice => IsVariety(k[1])
  /\ \A r \in Requests : pc[r] = "commit" => \A k \in DOMAIN puts[r] : IsVariety(k[1])

\* PATCHes of one row merge: a commit leaves alone every field its request
\* did not name, whatever others changed since the row was read, and a field it
\* did name is as asked, or was so when the request read it.
PatchesMerge ==
  [][\A r \in Requests :
       pc[r] = "commit" /\ pc'[r] = "refresh" /\ Op(r) = "update" /\ Row(r) # NoRow =>
         \A f \in {"name", "active"} :
           IF task[r][f] = Same
             THEN rows'[Target(r)][f] = Row(r)[f]
             ELSE task[r][f] \in {rows'[Target(r)][f], seen[r][f]}]_vars

\* The last amount a list gives for variety i.
LastAmount(t, i) ==
  LET ns == {n \in DOMAIN t.items : t.items[n].id = i} IN
  t.items[CHOOSE n \in ns : \A m \in ns : m <= n].amount

\* "Set every supplied variety's price for one date in a single transaction"
\* (pricing.py:112): lists that overlap, wait for each other or fail half-way are
\* never mixed; the price table goes from one whole list to the next.
ListsAreWhole ==
  [][prices' # prices =>
       \E r \in Requests :
         /\ Op(r) = "put" /\ out'[r] = "ok" /\ out[r] = "none"
         /\ \A k \in Keys :
              prices'[k] =
                IF k[2] = task[r].date /\ \E n \in DOMAIN task[r].items : task[r].items[n].id = k[1]
                  THEN LastAmount(task[r], k[1]) ELSE prices[k]]_vars

\* The list of r is committed now, and comes into force for i on date d: it
\* names i, and no later price of i up to d is there.
Commits(r) == Op(r) = "put" /\ pc[r] = "commit" /\ out'[r] = "ok"

InForce(r, i, d) ==
  /\ \E n \in DOMAIN task[r].items : task[r].items[n].id = i
  /\ task[r].date <= d
  /\ \A f \in Dates : task[r].date < f /\ f <= d => prices[i, f] = NoPrice

\* "a day sheet reopened later recomputes at that day's price" (pricing.py:4):
\* what a date resolves to changes only when a price list commits that is
\* answered "ok", on the dates it comes into force on, and there it becomes the
\* last amount the list gives; lists that fail, wait or are lost, and lists of
\* later dates or behind a newer price, leave the past as it was.
PricesComeIntoForce ==
  [][\A i \in Ids, d \in Dates :
       /\ Resolve(i, d)' # Resolve(i, d) =>
            \E r \in Requests : Commits(r) /\ InForce(r, i, d)
       /\ \A r \in Requests :
            Commits(r) /\ InForce(r, i, d) => Resolve(i, d)' = LastAmount(task[r], i)]_vars

\* What a request asks for has a value its column cannot hold.
AsksUnfit(r) ==
  \/ Op(r) = "put" /\ \E n \in DOMAIN task[r].items : task[r].items[n].amount \in Unfit
  \/ Op(r) \in {"create", "update"} /\ task[r].name \in Unfit

\* The request updates a row of a table whose handler does not catch a taken name.
Uncaught(r) == Op(r) = "update" /\ Row(r) # NoRow /\ ~Traits[Row(r).table].caught

\* As long as the database answers, a request left alone gets a 500 for two
\* reasons: it renames an expense item to a name in use, or it carries a value
\* that its column cannot hold.  Every other 500 needs an overlap.
OnlyOverlapFails ==
  \A r \in Requests :
    alone[r] /\ out[r] = "error" => Uncaught(r) \/ AsksUnfit(r)

\* No set of renamings, removals and price lists waits for itself for ever.
EveryRequestEnds == \A r \in Requests : Active(r) ~> pc[r] = "answered"
=============================================================================
