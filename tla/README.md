# ski-Backend: a TLA+ development

ski-Backend (`app/`) is the API of a gas-cylinder distributor: a FastAPI application over one
PostgreSQL database (and a read replica), with Redis behind a Celery worker and the login
throttle. Staff receive full cylinders from the plant, hand them to customers and delivery boys
against money ("Move to Day Sheet"), send empties back, close the day and follow the cash.

There is no shared memory between requests. Every request is one transaction at PostgreSQL's
default isolation, READ COMMITTED (`app/db/session.py` sets none): a statement sees what was
committed before *it* began, `SELECT ... FOR UPDATE` and every write wait for the row's lock, a
unique index makes a second inserter wait for the first, and a cycle of waits is broken by failing
one transaction. `get_db` (`app/api/deps.py:24`) closes the session when the handler ends, which
rolls back whatever was not committed. So the questions worth asking are what overlapping requests
may do to each other between two statements, what a failure or a lost answer leaves behind, and
whether the sums the application shows agree with each other.

## 1. Inventory

| Component | State | Operations | Hard behaviour | What makes it correct |
|---|---|---|---|---|
| Stock movements (`services/stock.py`, `services/inventory.py`) | `inventory` (count, version per type), `stock_ledger` (append-only) | intake, ac4, erv, return; a sale's lines | several lines per request, row locks in the order of the lines, inserts of missing rows, refusals half-way | count = sum of the ledger; nothing sold that is not there; all lines or none; nobody waits for ever |
| Count correction (`adjust_inventory`) | the same rows | PATCH with If-Match | optimistic version read without a lock, written at commit | an accepted correction was counted against the current row |
| Sales (`services/sales.py`) | `sales`, `sale_lines`, `cash_ledger`, balance ledgers, inventory | create_and_post_sale | idempotency key, unique invoice, closed-day check, prices read line by line, one commit | a key is posted once; a repeat shows the original; money adds up |
| Day close (`services/day_sheet.py`) | `day_sheet_status` | close_day | two closes; a sale in flight | a closed date takes no more sales |
| Day sheet (`services/day_sheet.py`) | none (reads everything) | get_day_sheet | a dozen statements, each with its own view | totals agree with rows and with each other |
| Pricing (`services/pricing.py`) | `prices` (effective_date) | set_price, set_prices_bulk, resolve | the price of a past date; upsert on (type, date) | a price holds from its date to the next one |
| Delivery other sales | `delivery_other_sales` (one amount per boy, no date) | set_amount, amount_for | the amount changes while a sale runs | a sale is reconciled with the amount it has read |
| Balances (`delivery_balances.py`, `customer_balances.py`) | balance ledgers (signed rows) | manual charge, repayment, the charge a sale adds | sums of signed rows; nothing is locked | outstanding = charges - repayments |
| Cashier box, month sheet | none (derived) | opening, movements, closing of a day | opening of a day is the sum of all earlier days | opening of the next day = closing of this one |
| Expenses, transfers, credits, banking | one table each | create, update | feed the cashier box; dated freely | the box counts each of them once |
| Stock overview | none (sums the dated stock ledger) | get_overview | any date may be booked at any time | a day opens with what the day before closed with |
| Stock loads | `stock_loads` | upsert the load of (boy, date, type); loads and warehouse totals of a date | two entries for one key | one row per boy, date and type, the last entry; every figure reads that one |
| Background jobs (`services/jobs.py`, `workers/`) | `jobs`, broker queue | create, hand off, poll, run_ping, run_export | commit before hand-off, redelivery, dead worker | a job reaches done or failed and stays there |
| Login sessions (`services/auth.py`) | `refresh_tokens` | login, refresh, logout | rotation and revocation read without a lock; a lost answer looks like a theft | a family has one live token, an ended one none; nobody is taken for a thief by accident |
| Login throttle (`core/rate_limit.py`) | Redis counters with a TTL | hit | checked before, counted after; INCR and EXPIRE are two commands; lets everybody through when Redis is away | the threshold is passed by no more than what is under way; a counter expires |
| Catalogue, accessories, customers, users | one table each | create, update, delete | rows read without a lock, unique names, foreign keys, soft deletes | no dangling reference; PATCHes merge |
| Audit log | `audit_log` | written by the others in their own transaction | commits with its action | no action without its row, no row without its action |
| Analytics, reports | none | read-only SQL over a day, a range or a window of days | the bounds of a range; which table a figure is taken from | figures of one thing agree whatever they are read from; a range is the sum of its days |
| Models, schemas, migrations | the constraints | - | - | the constraints the handlers rely on |
| Application shell (`main.py`, middleware, config, logging, metrics) | none | - | - | - |

How they interact: everything meets in the tables. Sales call pricing, delivery other sales, the
inventory rows, the ledgers, the balances and the audit log inside their own transaction; the day
sheet, the cashier box and the month sheet only read what the others commit. Two things leave
the database: a job, whose row the API commits before it sends a message to Celery through Redis,
and the login throttle, which keeps its counter in Redis.

`PROJECT.json` lists every component with its status, every hazard with the line where it bites,
and the property that would catch it.

## 2. Modules

| Module | What it is |
|---|---|
| `Warehouse` | inventory rows and stock ledger under overlapping requests, line by line |
| `StockBook` | what `Warehouse` promises: whole effects, posted in one step or not at all |
| `Correction` | `Warehouse` with `adjust_inventory` beside all other traffic |
| `Sales` | `create_and_post_sale` statement by statement, with `close_day` and price changes |
| `SaleDesk` | what `Sales` promises: one key, one invoice, one step |
| `Jobs` | the job rows, the broker's messages and the Celery workers that run them |
| `JobsProofs` | theorems about `Jobs`, checked by TLAPS |
| `Books` | the money tables: sales, ledger, expenses, transfers, balances, and every sum derived from them |
| `StockLog` | `Books` with the dated stock ledger and the load sheet, and every figure of the overview, the analytics and the reports |
| `DaySheet` | `StockLog` with a reader that runs the SELECTs of the day sheet or the cashier box one by one |
| `Throttle` | the logins of one phone number and the counter of their failures in Redis |
| `Sessions` | the refresh tokens of one user under overlapping logins, refreshes and logouts |
| `Catalog` | the named rows (varieties, accessories, expense items, customers, banks, vendors, users) and the dated prices under overlapping requests |
| `SalesProofs`, `CatalogProofs`, `ThrottleProofs`, `SessionsProofs` | theorems about the modules they are named after, checked by TLAPS |
| `StockProofs` | theorems about `Warehouse` and `Correction` |
| `LedgerProofs` | theorems about `Books`, `StockLog` and `DaySheet` |
| `SumProofs` | lemmas about the sum of a finite function, which every SUM of the models is |
| `MCWarehouse`, `MCCorrection`, `MCSales`, `MCJobs`, `MCBooks`, `MCDaySheet`, `MCCatalog`, `MCThrottle`, `MCSessions` | instances for TLC |

Composition: `Correction` EXTENDS `Warehouse`, `StockLog` EXTENDS `Books` and `DaySheet` `StockLog`;
`Warehouse` and `Sales` end with an INSTANCE of the abstract specification each of them implements,
`StockBook` and `SaleDesk`, and the refinement mapping.

### Warehouse

`inv` is the committed `inventory` table, `ledger` the per-item sum of the committed
`stock_ledger`; `draft` and `entries` are what a running transaction has written and not yet
committed, `lock` the holder of each row lock. A request works through an `order`, a sequence of
moves `[item, delta]`: positive moves of a cylinder type are lines of intake and ac4 (`Receive`,
the `INSERT ... ON CONFLICT DO UPDATE`), negative ones lines of returns and sales (`Draw`, the
`SELECT ... FOR UPDATE`, the check and the decrement); moves of empties and accessories (`Note`)
only enter the ledger. `Refuse` is InsufficientStock and the IntegrityError of an unknown id,
`Abort` every other end of a transaction, a dead server included: what is not committed is gone,
and there is nothing else to recover. `Victim` is PostgreSQL's deadlock detector. A missing row is
invisible to `SELECT ... FOR UPDATE` (the sale is refused) but an upsert waits for a concurrent
uncommitted insert of it: `Sees` and `Free` are these two rules.

Abstractions: the audit row of a request commits with it and is left out; the foreign-key violation
of an unknown id is raised at the line that has it, while the ORM may raise it at the flush: both
end in the same rollback. A sale is here only through the moves it makes (the rest of it is in
`Sales`), so that sales, intakes and returns are seen together on the same rows.

### Correction

Adds the client's `Look` (GET, which reads an absent row as count 0, version 0), the handler's read
and comparison (`Accept`, `Reject`), and `Flush`: the UPDATE the ORM emits at commit, by primary
key only, writing the version the client sent plus one, and the count only when it differs from
the count the handler read. A `slip` is what one correction knows: the count and version shown,
whether there was a row to show (`listed`), the count submitted and the count read. The history
variable `raced` holds the types of which a correction was committed over a changed row.

### Sales

One action per statement that talks to the database: the key lookup, the day status, the invoice
lookup, the insert (which waits for, or fails on, a clash in either unique index), the boy's extra,
and then per line the price and the locked stock row; then the reconciliation, the single commit,
and building the answer. `BuildSaleOut` is the half dozen queries of `_build_sale_out`, after the commit
and for a repeated key alike: one that fails makes the answer a 500 (`"error"`), also for a sale that is
posted. `Lose` is a statement that fails, or the connection that goes, before the commit or after it.
The outcome `"conflict"` is the 500 of the loser of a race for a key or an invoice number, `"error"` that of
a failed statement; only the former and the 4xx are `Refusals`. A sale is named by the attempt that posted it, so `sales` and `rows` are the two tables and `Slip` the body a
key stands for. `CloseCommit` leaves out lines 241-244, which a row of the status table other than "closed"
would need: nothing writes one. `books` has the sum of each kind of money in the cash ledger and the balance
ledgers. The history variables `known` and `late` record what was committed when an attempt began.

Abstractions: the two unique indexes are met in one atomic step, and so is the commit; the
denominations of the cash and the lines' empties are checked before the first statement and never
change afterwards; the empties' ledger rows are moves in `Warehouse`. A posted sale whose body
differs from the repeat's is out of the model: a key always stands for one body, which is what the
client contract says.

### Jobs

`table` is the `jobs` table, of which `result_url` and `error` matter only as set or not; `queue`
counts the copies of a job's message the broker holds. `Create` and `HandOver` are the two halves
of a POST (`create_job` commits, then `delay` is called), `HandOverFails` its failure in between.
A worker step is what happens between two commits: `Take` (acknowledge, load the row, leave a
finished ping alone), `Start` (running, commit), `ReadSheet`, `Upload`, `Save` (the last commit).
The row stays in the worker's session, so `seen` is the status it loaded and `Start` writes nothing
if that was "running" already. `Caught` is the `except`; `ReadError` is the one failure it cannot
record, because the transaction is aborted; `Die` is the end of the worker process. Celery, Redis
and the object storage are external: a message is acknowledged when its task starts (the default;
`celery_app.py` sets no `acks_late`) and may be delivered up to `MaxCopies` times.

### Books, StockLog and DaySheet

In `Books` a posting is one step: `create_expense`, `create_transfer` and the two `create_entry`
read nothing that another transaction could change under them, and a sale is reduced to its commit
(how it gets there is in `Sales`). A refusal leaves everything as it was; `Undone` is the rollback.
The operators below the actions are the SQL sums: `Closing` and `HandCash` are `_cumulative`,
`AccountBalance` the two grouped sums of `bank_account_balances`, `Summary` the balance summaries
(active boys and active customers; `Hidden` is what the others owe), `MonthNet` a row of the month sheet.

`StockLog` adds what is dated about stock. `Sell` is the whole commit of a sale, with its cylinders
(`Cargo`), `Record` a movement of any kind, `UpsertLoad` the entry of a load, which replaces the one
of the same boy, date and type. Every `COALESCE(SUM(x), 0)` is `SumFunction` of the function that gives
each row its x, whatever the order of the rows. Then come the figures, each as the statement that computes it: the
overview of a type and of an accessory, the warehouse totals, the loads, the movement and
end-of-day figures, the window of the trend, the four reports, and the cylinders of the month
sheet, which has a row for a day only if something of three kinds happened on it (`MonthDays`).

`DaySheet` adds one reader. `Plan` lists the statements of an endpoint in the order of the code,
`RunStatement` runs the next one against the tables as they are and keeps its result in `got`, and
the answer (`BoxOut`, `RowTotal`, `RowHanded`, `StockOut`, ...) is a function of `got` alone. `quiet`
and `backdated` are history: whether anything, or anything dated earlier, was committed meanwhile.

Abstractions: the note counts of a sale are the cash they add up to (`Sales` reconciles them), and
those of the sheet are their sum; a movement is one row, though its request may have several lines
(`Warehouse` has them, and the live count); a sale has one line; a delivery boy who is deactivated
or gets another role is the same, since the sheet asks for active users of the role; the overview,
the analytics and the reports are taken from one state of the tables, although the end-of-day
answer is five statements and reads from the replica, whose lag is not modelled.

### Throttle

`fails` and `timed` are the counter in Redis and whether it has an expiry. A login is looked at
(`Admit`, `Refuse`, or `AdmitUnchecked` when Redis does not answer), checks the password
(`Authenticate`), and then clears the counter (`Clear`) or counts (`CountFailure`: INCR) and, if it
was the first, sets the expiry in a second call (`StartTimer`). `Cut` is a call to Redis that fails,
which the code swallows, or a process that dies; `TimerFires` is Redis, which is external.

Abstractions: one phone number, since keys do not meet; time passes by `TimerFires` only, which may
come whenever an expiry is set.

### Sessions

`family` and `revoked` are the `refresh_tokens` table of one user, `held` the token each client would
present, `req` the calls under way. `Present` is the SELECT of the token, `ReadUser` that of the user,
`Rotate` the commit of the token's revocation and of its successor; `FindFamily` and `RevokeFamily`
are the two ends of the UPDATE that revokes a family, which works on the rows committed when it
starts. `Answer` brings the new token to its client, `Cut` ends a call anywhere without one: before
the commit nothing happened, after it the client still has its old token.

Abstractions: hashing, signing and the access token are left out, a token is its row; whether a
token has expired is a free choice (`Expired`); the check of the password is in `Throttle`. The
history variables say what the properties need to excuse: families in which a commit overlapped a
call (`raced`), clients that have not had an answer (`owed`) and asked again (`impatient`), families
ended by a logout or by a token presented twice (`logged_out`, `punished`).

### Catalog

Seven tables are written by the same three handlers; `Traits` holds how they differ (is there a
DELETE, may the unique column change, does the update catch the violation of its index). A request
is a task from `Tasks`, taken statement by statement: `Load` is `db.get`, which locks nothing;
`Grab` the UPDATE or DELETE, which waits for the row's lock and is refused if the row is referenced
(`InUse`) or gone (`Vanished`); `Write` the entry of the new name in the unique index, which waits
for whoever has an uncommitted claim to it (`Undecided`), or `Duplicate`; then `Commit` and, in a
transaction of its own, `Refresh`. A price list claims (type, date) after (type, date) with
`ON CONFLICT DO UPDATE` (`Claim`); a new row takes a share lock on its variety for the foreign key
(`Refer`). A value no column can hold (`Unfit`: a price of nine digits, which `Numeric(10, 2)` does not
hold and the schema lets through, a NUL in a name) fails the statement that has it with an error no
handler catches (`Rejected`), before it waits for anything. The ORM writes the columns whose new value differs from the value `Load` read and no
other: `seen` is that value, `draft` the row version the UPDATE makes out of the *current* row.
`Effective` and `Resolve` are the two price lookups.

Abstractions: a row has its unique name and one other field, the active flag, which stands for
label, category, role and password too; a price stands for every row that may reference a variety
(stock, sales, loads and, for accessories, the stock ledger), so prices hold the only foreign key;
the audit row of a price list commits with it and is left out; waiters are granted in any order.
The upsert of the boys' other sales has the shape of a price's and is not repeated.

## 3. Runs

| Run | Question | Bounds |
|---|---|---|
| `warehouse` | Do counts and ledger stay equal, is nothing oversold, are only whole orders visible, whatever overlaps? | 4 requests of 7 shapes, one type with stock and one with no row |
| `correction` | When may count and ledger part, is an accepted count current, and is every request answered? | two corrections with counts 0 and 3; two trading requests of four orders that cross on two rows, one of which does not exist at first |
| `sales` | Repeats, invoices, truthfulness of answers | 3 attempts with any of 3 keys (two share an invoice, two cross their locks, one is a boy's with an extra of 1, one an owner's override; stock for some pairs only), one close, two price books |
| `sales_close` | Late sales, concurrent closes, money while prices and the extra change; is every attempt answered? | 2 attempts with either of 2 keys of boys, which cross their locks and can both be had; two price books, an extra that changes between 0 and 1; 2 closes |
| `sales_close_race` | a finding, below | one attempt, one close |
| `jobs` | Does a job stall, is what a poll shows so, who reopens a finished ping, does every accepted job settle? | a ping and an export, 2 workers, 2 deliveries of each message |
| `jobs_read_error` | a finding, below | one export, one delivery |
| `books` | Do ledger, box, accounts, month sheet, balances, overview, warehouse totals, analytics and reports agree? | 2 days, a boy, a customer, an account, 2 types, an accessory; 2 sales, 6 stock movements, 3 loads, and money slips of each kind, valid and refused; any order, so any of them may be booked late |
| `day_sheet` | Does an answer put together from many SELECTs hold together? | 2 days; 2 sales, an expense, a transfer, 2 movements, a load and deactivations, at any point of a read |
| `throttle` | How far beyond the threshold can failures get, and does a block end? | 3 logins at a time, threshold 2, one login that Redis does not answer, counter up to 6, which it cannot reach |
| `sessions` | Has a family one live token, an ended one none, and who is taken for a thief? | a client, 2 calls at a time, 3 tokens |
| `catalog` | Does a price keep its variety, do PATCHes merge, are price lists whole, what does a date resolve to, what can fail, is everybody answered? | 3 requests: any of 14 tasks beside 7 and 2 that cross them; 2 varieties, 2 expense items, an id with no row, 3 names, 2 dates, a name and a price that fit no column |

Why the bounds are enough. Rows interact only through their locks and their counts: two types give
every order of two locks, and a third would only lengthen a cycle. Three requests on two rows give
a holder, a waiter and a bystander; the fourth lets one order follow another on both rows. Seven
shapes hold every kind of line, a repeated type, an unlisted item and a type with no row. Two keys
with one invoice, and one key in several attempts, are all the ways unique indexes meet. Counts stay
small because each request has at most three lines.
Two deliveries on two workers are the least that overlap, and a third run meets the row in the same
states. In `books` and `day_sheet` the amounts are distinct powers of two, so equal sums are sums of
the same rows; two days are a day and the one before it, which is all
the box looks at. A second boy, customer
or account is another term of sums that are over all of them. The proofs below do not depend on any
of this.

In `correction` a correction may fall anywhere between the steps of two requests and of another
correction, which is what it takes to see a version put back and met again; the type with no row has
its first row made by either request. In `throttle` three logins pass the check before any is
counted, one more than the threshold. In `sessions` the races are between two calls, and three
tokens are a login and two refreshes, or a second login; `SessionsProofs` has no bound.

Type invariants of the modules with proofs are theorems, and `LogTypeOK` alone is an invariant of a run
too, because it says that a load sheet has one row per key. Inductive invariants are theorems; they
were run as invariants before they were proved.

In `catalog` the tasks are chosen so that every pair of statements that can wait for each other does:
renamings that swap names, a renaming and a new row with one name, a DELETE beside a PATCH and
beside a price list, lists in opposite orders; the third request makes a cycle of a renaming and two
lists possible.

Symmetry is used for requests, attempts and calls in runs without a liveness property only.

Fairness. `FairSpec` of `Sales` and `Catalog`, and `FairCSpec` of `Correction` (which covers all
requests of `Warehouse`), ask for weak fairness of what the server and the database do for a request
that has begun (`Serve`): a handler is never suspended for ever by the event loop, PostgreSQL grants
a lock once it is free, and its deadlock detector acts after `deadlock_timeout`. Nothing requires
a client to send a request, a connection to fail, or a close or price change to come. Every request
runs once, so a waiter can be overtaken only finitely often and weak fairness is enough: no claim
about the order of PostgreSQL's lock queue is needed. In `Jobs` it is weak fairness of each worker
(`Work`): a running Celery worker takes messages while there are any and goes on with its task. No
client has to post, nothing has to fail, and a dead worker's message is not assumed to come back. In
`Throttle` it is Redis, which drops a key whose time is up (`TimerFires`), and a handler that has
counted a first failure and goes on to its next call (`StartTimer`), unless that call fails (`Cut`).

Every property of a passing run has a mutant in `PROJECT.json`: the definition of the module it
changes, and the operator beside it (commented "Mutant of") that TLC must then refute.

## 4. Findings

* **A sale can be posted to a closed day** (`sales_close_race`, `services/sales.py:101`): the status
  is read once, before the sale waits for stock. `LateSaleRefused` shows the window is one request.
* **A failing export is not recorded** (`jobs_read_error`, `workers/tasks.py:55`): when a statement of
  the day sheet fails, PostgreSQL has aborted the transaction, nothing rolls it back, and the commit
  that should save "failed" raises too. The job stays running.
The models contain further behaviours of the code that differ from a comment or are worth knowing,
and that no run singles out because a property states them as its exception:

Stock
* A correction overwrites a change it has not seen (`services/inventory.py:105`). The version is
  compared on a row read without a lock and the row is written by primary key at the commit; a sale
  or an intake in between is lost from the count and not from the ledger. `DriftOnlyByOverlap` shows
  it is the only way the two can part.
* The version check lets a stale count through in two cases, the exceptions of
  `AcceptedCountIsCurrent` (`services/inventory.py:29` says a stale version is rejected). A type
  without a row is listed with version 0 (`:40`), which its first row has as well (`:74`), so a
  correction counted before the first intake is accepted after it. And a correction that overwrote a
  change writes its own version plus one (`:107`), so a version can repeat with another count.
* Ervs and returns of empties are not checked, and empties may go below zero
  (`services/stock.py:104`). No stock route has an idempotency key (`api/routes/stock.py:34`): a retry
  after a lost answer books the movement twice.
* The overview of a day does not show intakes, returns and corrections, so that opening + received -
  sold need not be closing; `StockCarriesOver` says by how much.

Money and reports
* A boy's "handed" is too low by his uncollected balances (`services/day_sheet.py:143`): it subtracts
  them from cash and UPI, which never contained them (`schemas/sales.py:77`). A customer's row has
  handed = cash + UPI beside a balance (`:177`), so the totals of the sheet do not have handed =
  net - balance. `SheetAgreesWithBox` says what is missing.
* A boy or a customer who is deactivated drops out of the balance summary with what he owes
  (`services/delivery_balances.py:65`, `services/customer_balances.py:74`); `SalesAreCovered` counts it apart.
* The delivery report's `empty_cylinders` is the number of full ones sold (`services/reports.py:42`),
  where `schemas/reports.py:22` says "empties collected back". Both columns are
  `CylindersReport`.
* The net profit of the end of day includes what was paid online, the net of the day and month
  sheets does not; `RangesAddUp` relates them.
* A backdated sale that commits between the two halves of the cashier box is shown as collected today
  (`services/cashier_box.py:59`); `MovementsAreOfTheDay` shows it takes a backdated one.

Sales and jobs
* The loser of a race for an invoice number, or for a key, fails on the flush and is answered 500,
  since only the commit is inside the `try` (`services/sales.py:118`, `:253`), though nothing is
  posted twice (`PostsOneAtATime`).
* A 500 may be the answer for a posted sale, since `_build_sale_out` runs its queries after the commit
  (`services/sales.py:258`): `AnswersAreTrue` is about refusals and sales, `RepeatReturnsOriginal` says that
  sending the key again finds the sale.
* An export delivered again goes from done back to running (`workers/tasks.py:42`), and so does a ping
  whose runs overlap (`services/jobs.py:39`; `OnlyOverlapReopens` shows it takes an overlap).

Logins
* If the EXPIRE after the first failure is lost, the counter never ends, and a phone that reaches the
  threshold is blocked for good (`core/rate_limit.py:36`): the exception of `BlockIsLifted`.
* Two overlapping refreshes of one token leave two live tokens (`services/auth.py:59`), and a refresh
  that commits while a logout's UPDATE runs leaves a live token behind (`:84`): the exception `raced`
  of `OneLiveToken` and `EndedIsDead`.
* A client whose refresh was committed but whose answer was lost is taken for a thief when it asks
  again, and its family is revoked (`:64`); `ReuseIsEarned` lists the causes.

Catalogue
* Renaming an expense item to a name in use is answered 500, where every other table answers 409
  (`services/catalog.py:139`), and so is a value its column cannot hold, such as a price of 10^8
  (`services/pricing.py:103`, `:127`; `schemas/pricing.py:14` bounds it below only), which takes its whole
  list with it. `OnlyOverlapFails` shows that these are the only errors a request meets alone.
* A row deleted under a PATCH, or between the commit of a PATCH or a POST and its refresh, is answered
  500 too, in the latter case after the change was committed (`services/catalog.py:76`); two DELETEs
  of one row may both be answered 204.
* A PATCH does not write a field it names if the row had that value when it was read, even if another
  PATCH has changed it since (`PatchesMerge` says no more than that).

## 5. Proofs

`StockProofs` holds, of `Warehouse`, for every set of types, items, requests and orders that satisfy
`WarehouseAssumption` (types and loose items are disjoint, orders are sequences of moves, the
opening counts are natural numbers and zero where there is no row), and for the opening state in
which count and ledger agree.

`InStep` is not inductive: a commit replaces the committed row by the draft, and nothing in `InStep`
says what a draft is. The strengthening `CommitSafe` says it: only running requests hold locks
(`HoldersRun`), an absent row counts zero (`AbsentIsZero`), and the holder's draft is the committed
row plus exactly the ledger rows the holder has added for that type, while nobody else has added any
(`DraftsInStep`). Then `Init => CommitSafe`, every action preserves it (one lemma per action), and
`InStep`, `NeverOversold` and `VersionTracksCount` follow.

That `Warehouse` implements `StockBook` needs what a commit posts to be *all* of its order, which the
code never says in one place: the lines are entered one by one, between other requests' steps. The
invariant `EntriesSoFar` says that the ledger rows of a running request are, item by item, the sum of
the lines it is through with; at the end of the order that is `Effect`, the sum over the order.

| Theorem | States |
|---|---|
| `TypeCorrect` | `Spec => []TypeOK` |
| `AlwaysCommitSafe` | `Spec => []CommitSafe`, the inductive invariant |
| `CountsMatchLedger` | `Spec => []InStep` |
| `StockNeverNegative` | `Spec => []NeverOversold` |
| `VersionsTrackCounts` | `Spec => VersionTracksCount` |
| `ImplementsStockBook` | `Spec => WholeOrdersOnly`: every step of `Warehouse` is a step of `StockBook` or a stutter |

`JobsProofs` holds for every set of jobs and workers and every bound on deliveries
(`JobsAssumption`). `NoSilentStall` and `OutcomeIsTrue` need to know what is in flight: that a row
exists from the POST on (`Known`), what a worker may hold (`WorkersTruthful`: a ping it runs was not
finished when it loaded it, "done" of an export is about a stored file), and that a message given
out once is in one place at a time, with no outcome in its row until then (`OnceAtMost`). `JobsInv`
is their conjunction with the three invariants; one lemma per action keeps it.

| Theorem | States |
|---|---|
| `AlwaysJobsInv` | `Spec => []JobsInv`, the inductive invariant |
| `TypeCorrect`, `NothingStalls`, `PollsAreTrue` | `Spec => []TypeOK`, `[]NoSilentStall`, `[]OutcomeIsTrue` |
| `OnlyOverlaps` | `Spec => OnlyOverlapReopens` |

`StockProofs` holds, of `Correction`, for any number of corrections and other requests. The check compares
versions, so the invariant has to say what a version is worth: while nobody has put the version of a
type back, a row that was shown has a later version now, or the count that was shown
(`ShownOrLater`). That needs to know what a commit will write: a trading request's draft is the row
plus its ledger rows, with a later version (`TradersDraft`), a correction's has the version it was
shown plus one (`CorrectorsDraft`).

`SalesProofs` holds for any numbers of keys, attempts, types and closes, any bodies and any change of
prices. An attempt is at a line it has not written (`Drawn`), what is posted is through with its
statements (`PostedAreThrough`), rows in the unique indexes do not clash (`NoClash`), an attempt whose
key was posted before it began never passes the lookup (`RepeatsStop`), nor a late one the check of
the day (`LateStop`), and a close that is done stands (`ClosesStand`). `BooksBalance` needs two more
facts (`MoneyInv`): what is about to be committed has been reconciled with the lines it will be
committed with, and the books hold the money of exactly the posted sales, which are finitely many.
A price change cannot come between the reconciliation and the commit because an attempt keeps the
prices it has read. That `Sales` implements `SaleDesk` needs what an attempt has drawn so far
(`DrawnInv`): only an attempt under way holds locks, the quantity it has written in a locked row is the
committed one less what its lines have taken of that type, never below zero, and of a type it has not
locked its lines have taken nothing. So the commit, which writes each locked row once, takes exactly
what the whole body needs, also where two lines draw one type and where others have committed in between.

`CatalogProofs` is about the foreign key of the prices. A row that is locked is locked by the right
kind of request at the right step (`InPlace`, `LocksHeld`), exclusive locks exclude (`Exclusive`), and
a price written and past its check has a variety, kept by a committed price or by the share lock
(`Secured`). The other properties build on that. From its UPDATE on a PATCH holds the lock of its row,
so the version it has written stays the committed row with its own fields over it (`WillMerge`). A
request that nobody overlaps finds the rows as it left them and waits for nobody, and the tables that
do not catch a name in use have no DELETE that could take the evidence away (`Solo`, `TablesKept`). A
price list has written exactly what its items so far come to, each variety at its last amount
(`WritesList`, `PutsOf`), and nothing but the commit of one changes the table (`PricesByCommit`): so
what a date resolves to changes with the lists that come into force on it, and becomes their amount
(`ListCommitted`, `ResolvedToSet`). That there is a latest date of those up to a given one is the
well-foundedness of the naturals (`LatestExists`).

`SessionsProofs` holds for any number of clients, calls and tokens. What a call has read of a family
no race has touched is still so when it acts on it (`ReadsHold`); a family is used by one client
(`OneClient`); the token on its way to a client is nobody's yet and good (`AnswersAreFresh`); and a
client holds a spent token only if it is excused or still owed an answer (`HeldIsLive`,
`AccusedAreExcused`).

`ThrottleProofs` holds for any finite number of logins at a time and any threshold: the failures
counted and those that may still be counted together stay below the bound (`PendingIsBounded`, a
statement about a cardinality), because admission needs a counter below the threshold.

`LedgerProofs` is about sums: every figure the application shows of a day or a range is a SUM over some
of the rows, and the properties say that two such sums, of different tables or grouped differently,
are equal. It holds for every calendar, every set of boys, customers, accounts, types and accessories
and every set of slips that satisfies `BooksAssumption` and `StockLogAssumption`. The assumptions that
calendar, parties, accounts and types are finite are what a sum over them needs; a table of the
database and PostgreSQL's dates are finite. The sets of slips need not be: the tables are finite
because each step adds finitely many rows (`Finite`). The proofs have three layers.

* `SumProofs`: over a finite domain `SumFunction` is 0 of nothing, adds up over a union of disjoint sets
  (`SumUnion`), over two functions (`SumPlus`) and over groups (`SumFibres`: summing by key and then
  over the keys is summing the rows, SQL's GROUP BY), and grows with non-negative terms
  (`SumMonotone`). The library defines the sum by a fold over an arbitrary order, so the first lemma
  is that the order does not matter (`SumRemove`). The library's induction rules take an operator, which
  no installed prover instantiates; `FiniteInduction` states induction over the subsets of a finite set
  with the *set* of subsets the claim holds of, and follows from the well-foundedness of strict inclusion.
* `LogInv`: types, finiteness, and `RowsOfSlips`: a row of a ledger is one that a posted slip booked, and
  every row a posted slip books is there. None of the properties is inductive by itself, since a sum does not say what rows
  it is of; `LogInv` is, and each property follows from it by regrouping sums: by sale, for what the
  ledger and the balances hold of it (`SalesAreCovered`, `BoxAgrees`), by account (`MoneyIsConserved`), by
  type, boy and party (`StockCarriesOver`, `DayViewsAgree`), by day (`RangesAddUp`). The lemma behind the trend,
  `TrendOfWindow`, is of a window of any length, where the run has three.
* `DayInv` is `LogInv` and what a reader knows between two of its statements while others commit
  (`ReadInv`): while nothing is committed every result is what its statement would return now; while
  nothing dated earlier is committed, the results for the day before still are; and a cumulative result
  for the day lies between that of the day before and what it would be now. The tables only grow and
  what they count is not negative, so the middle one is kept by every commit (`MovementsAreOfTheDay`);
  `SheetAgreesWithBox` and `SheetStockAddsUp` follow from the first, by regrouping the rows of the
  sheet. The refinement `ReadersOnlyRead` says that `DaySheet` implements `StockLog`: so the theorems
  about the tables hold with readers beside them.

| Theorem | States |
|---|---|
| `CheckedCountIsCurrent`, `OnlyOverlapDrifts` | `CSpec => []AcceptedCountIsCurrent`, `CSpec => DriftOnlyByOverlap` |
| `RepeatsReturnOriginal`, `AnswersAlwaysTrue` | `Spec => []RepeatReturnsOriginal`, `[]AnswersAreTrue` of `Sales` |
| `LateSalesRefused`, `DaysCloseOnce`, `KeysPostOnce` | `Spec => []LateSaleRefused`, `[]ClosedOnce`, `[]PostedOnce` |
| `BooksAlwaysBalance` | `Spec => []BooksBalance` of `Sales` |
| `SalesPostOneAtATime` | `Spec => PostsOneAtATime`: every step of `Sales` is a step of `SaleDesk` or a stutter |
| `LogTypeCorrect`, `BoxAlwaysAgrees`, `MoneyAlwaysConserved` | `LogSpec => []LogTypeOK`, `[]BoxAgrees`, `[]MoneyIsConserved` |
| `SalesAlwaysCovered`, `StockAlwaysCarriesOver` | `LogSpec => []SalesAreCovered`, `[]StockCarriesOver` |
| `DayViewsAlwaysAgree`, `RangesAlwaysAddUp` | `LogSpec => []DayViewsAgree`, `[]RangesAddUp` |
| `MovementsAlwaysOfTheDay` | `DSpec => []MovementsAreOfTheDay` |
| `SheetAlwaysAgrees`, `SheetStockAlwaysAddsUp` | `DSpec => []SheetAgreesWithBox`, `[]SheetStockAddsUp` |
| `ReadersOnlyRead` | `DSpec => LogSpec`: the reader's steps are stutters of the tables |
| `PricesKeepVarieties`, `AloneOnlyItsTaskFails` | `Spec => []NothingDangles`, `[]OnlyOverlapFails` of `Catalog` |
| `PatchesAlwaysMerge`, `ListsAlwaysWhole`, `PricesAlwaysComeIntoForce` | `Spec => PatchesMerge`, `ListsAreWhole`, `PricesComeIntoForce` |
| `FamilyHasOneLiveToken`, `EndedFamilyIsDead`, `ReuseIsNeverAccidental` | `Spec => []OneLiveToken`, `[]EndedIsDead`, `[]ReuseIsEarned` |
| `Overshoot`, `CounterKeepsTimer` | `Spec => []OvershootIsBounded`, `[]CounterHasTimer` |
| `SalesTypes`, `CatalogTypes`, `SessionsTypes`, `ThrottleTypes` | `Spec => []TypeOK` of each |

Every invariant, action property and refinement the passing runs check is a theorem. Only
model-checked is liveness, because the prover handles neither fairness nor ENABLED:
`EveryRequestIsAnswered`, `EveryAttemptEnds`, `AcceptedJobsSettle`, `EveryRequestEnds` and `BlockIsLifted`.

## 6. Not modelled, and the plan

What is left of the plan:

1. Credits and bank accounts: single rows that reference nothing or a bank, which is never deleted,
   and enter no sum but their own. Two settlements of one credit may cross
   (`services/credits.py:59`), and each UPDATE has only the columns that differ from what was read.
2. The lists of sales and of the audit log: filters over rows that others commit.

Left out for good: the layout of the exported workbook, password hashing and token signing,
configuration, logging, metrics and middleware, the wording of answers, and the replica's lag (the
analytics may be read from it, and the five statements of the end of day may then straddle its
progress).
