----------------------------- MODULE Correction -----------------------------
(***************************************************************************)
(* Warehouse with the correction of a count beside it: adjust_inventory,   *)
(* PATCH /inventory/{type} with If-Match.  The client reads the list,      *)
(* counts, and submits the version it read; the handler compares versions  *)
(* on a row it has read WITHOUT a lock and writes that row when it         *)
(* commits.                                                                *)
(***************************************************************************)
EXTENDS Warehouse

CONSTANTS
  Correctors,   \* the requests that are corrections
  Counts        \* the counts a client may submit

ASSUME CorrectionAssumption ==
  /\ Correctors \subseteq Requests
  /\ Counts \subseteq Nat

VARIABLES
  slip,         \* per correction: type, whether the client was shown a row of it,
                \* count and version it saw, the count it submits, the count
                \* the handler read
  raced         \* the types of which a correction was committed over a row
                \* that had changed since it was read (history)

cvars == <<inv, ledger, pc, order, at, lock, draft, entries, slip, raced>>

Slips ==
  [type : Types, listed : BOOLEAN, seen : Int, ver : Nat, new : Counts, read : Int]

Blank(t, n) ==
  [type |-> t, listed |-> FALSE, seen |-> 0, ver |-> 0, new |-> n, read |-> 0]

CInit ==
  /\ Init
  /\ slip \in [Correctors -> {Blank(t, n) : t \in Types, n \in Counts}]
  /\ raced = {}

\* GET /inventory: a type without a row is listed as count 0, version 0.
Look(r) ==
  /\ pc[r] = "idle"
  /\ pc' = [pc EXCEPT ![r] = "looked"]
  /\ LET row == inv[slip[r].type] IN
       slip' = [slip EXCEPT ![r].listed = row.there, ![r].seen = row.qty, ![r].ver = row.ver]
  /\ UNCHANGED <<inv, ledger, order, at, lock, draft, entries, raced>>

\* Mutant of Difference: the new count is booked instead of the change.
WholeCount(r, t) == slip[r].new

Difference(r, t) == slip[r].new - inv[t].qty

\* The handler up to its commit: read the row, compare versions, set the new
\* values on the object in memory, add the ledger row of the difference.
Accept(r) ==
  LET t == slip[r].type IN
  /\ pc[r] = "looked"
  /\ inv[t].there
  /\ inv[t].ver = slip[r].ver
  /\ pc' = [pc EXCEPT ![r] = "flushing"]
  /\ slip' = [slip EXCEPT ![r].read = inv[t].qty]
  /\ entries' = [entries EXCEPT ![r][t] = Difference(r, t)]
  /\ UNCHANGED <<inv, ledger, order, at, lock, draft, raced>>

\* No row (404) or StaleVersion (409).
Reject(r) ==
  LET t == slip[r].type IN
  /\ pc[r] = "looked"
  /\ ~inv[t].there \/ inv[t].ver # slip[r].ver
  /\ Rollback(r)
  /\ UNCHANGED <<slip, raced>>

\* The UPDATE the ORM emits at commit: WHERE the primary key only, after
\* waiting for the row; a count equal to the one read is not in it.
Flush(r) ==
  LET t == slip[r].type
      count == IF slip[r].new = slip[r].read THEN inv[t].qty ELSE slip[r].new
  IN
  /\ pc[r] = "flushing"
  /\ lock[t] = NoOne
  /\ Write(r, t, [there |-> TRUE, qty |-> count, ver |-> slip[r].ver + 1])
  /\ pc' = [pc EXCEPT ![r] = "running"]
  /\ at' = [at EXCEPT ![r] = 1]
  /\ UNCHANGED <<inv, ledger, order, entries, slip, raced>>

Confirm(r) ==
  LET t == slip[r].type IN
  /\ Commit(r)
  /\ raced' = IF inv[t].ver # slip[r].ver THEN raced \cup {t} ELSE raced
  /\ UNCHANGED slip

Drop(r) ==
  pc[r] \in {"flushing", "running"} /\ Rollback(r) /\ UNCHANGED <<slip, raced>>

Correct(r) == Look(r) \/ Accept(r) \/ Reject(r) \/ Flush(r) \/ Confirm(r) \/ Drop(r)

\* Intakes, sales and returns go on as before.
Trade(r) == (Begin(r) \/ Serve(r) \/ Abort(r)) /\ UNCHANGED <<slip, raced>>

CNext ==
  \/ \E r \in Correctors : Correct(r)
  \/ \E r \in Requests \ Correctors : Trade(r)
  \/ AllEnded /\ UNCHANGED <<slip, raced>>

CSpec == CInit /\ [][CNext]_cvars

\* A handler runs on and a granted lock is used; nobody must send a request
\* or, having looked, a correction, and nothing must fail.
FairCSpec ==
  /\ CSpec
  /\ \A r \in Correctors : WF_cvars(Flush(r) \/ Confirm(r))
  /\ \A r \in Requests \ Correctors : WF_cvars(Serve(r) /\ UNCHANGED <<slip, raced>>)

-----------------------------------------------------------------------------
\* "The submitted inventory version is stale (someone else changed it
\* first)" (inventory.py:29): a correction that passes the version check was
\* counted against the count that is still in the table.  Two exceptions: a
\* type without a row is listed with the version its first row will have
\* (inventory.py:40 and 74), and a correction that was committed over a changed
\* row has put its version back (inventory.py:107).
AcceptedCountIsCurrent ==
  \A r \in Correctors :
    pc[r] \in {"flushing", "running"} /\ slip[r].listed /\ slip[r].type \notin raced =>
      slip[r].read = slip[r].seen

\* The only way the live count and the ledger drift apart is the commit of a
\* correction over a row that changed after the correction read it: a
\* correction nobody overlaps keeps them in step, and so does all other traffic.
DriftOnlyByOverlap ==
  [][\A t \in Types :
       inv'[t].qty - ledger'[t] # inv[t].qty - ledger[t] =>
         \E r \in Correctors :
           /\ pc[r] = "running" /\ pc'[r] = "done"
           /\ slip[r].type = t
           /\ slip[r].read # inv[t].qty]_cvars

\* Every request that is being served is answered: no set of multi-line
\* requests locks each other out for good, and no correction waits for ever for
\* a row they pass on to each other.
EveryRequestIsAnswered ==
  \A r \in Requests :
    pc[r] \in {"flushing", "running"} ~> pc[r] \in {"done", "failed"}
=============================================================================
