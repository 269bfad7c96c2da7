---------------------------- MODULE CatalogProofs ----------------------------
(***************************************************************************)
(* No price loses its variety, for any number of requests, rows and dates: *)
(* what the foreign key and its row locks are worth.                       *)
(***************************************************************************)
EXTENDS Catalog, WellFoundedInduction, TLAPS

(***************************************************************************)
(* The inductive invariant, by request.                                    *)
(***************************************************************************)
\* A request is at a step of its kind, and a price list at one of its items.
InPlace(r) ==
  /\ pc[r] # "idle" => task[r] \in Tasks[r]
  /\ pc[r] = "idle" => at[r] = 1
  /\ pc[r] \in {"load", "grab"} => Op(r) \in {"update", "delete"}
  /\ pc[r] = "grab" => seen[r] # NoRow
  /\ pc[r] = "write" => Op(r) \in {"create", "update"} /\ draft[r] # NoRow
  /\ pc[r] \in {"claim", "refer"} => Op(r) = "put" /\ at[r] \in DOMAIN task[r].items

\* A price list has share locks.  Another request has the lock of its row;
\* it writes a row of the same table, or removes one no price refers to.
LocksHeld(r) ==
  \A i \in Ids :
    held[r][i] # "none" =>
      \/ /\ Op(r) = "put" /\ pc[r] \in {"claim", "refer", "commit"}
         /\ held[r][i] = "share" /\ i \in Kept
      \/ /\ Op(r) = "delete" /\ pc[r] = "commit" /\ i = task[r].id
         /\ held[r][i] = "full" /\ ~Referenced(i)
      \/ /\ Op(r) = "update" /\ pc[r] \in {"write", "commit"} /\ i = task[r].id
         /\ held[r][i] \in {"soft", "full"}
         /\ rows[i] # NoRow /\ draft[r] # NoRow /\ draft[r].table = rows[i].table
      \/ /\ Op(r) = "create" /\ pc[r] = "commit" /\ i = r
         /\ held[r][i] = "full" /\ draft[r] # NoRow

\* A price that is written and past its check has a variety, and either a
\* committed price or the share lock keeps it.
Secured(r) ==
  \A k \in DOMAIN puts[r] :
    /\ k \in Kept \X Dates /\ puts[r][k] \in Amounts
    /\ Op(r) = "put" /\ pc[r] \in {"claim", "refer", "commit"}
    /\ \/ pc[r] = "refer" /\ k = Key(r)
       \/ IsVariety(k[1]) /\ (prices[k] # NoPrice \/ held[r][k[1]] = "share")

Exclusive ==
  \A q, r \in Requests : q # r => \A i \in Ids :
    /\ held[r][i] = "full" => held[q][i] = "none"
    /\ held[r][i] = "soft" => held[q][i] \in {"none", "share"}

PricedKept == \A k \in Keys : prices[k] # NoPrice => k[1] \in Kept

Inv ==
  /\ TypeOK
  /\ \A r \in Requests : InPlace(r) /\ LocksHeld(r) /\ Secured(r)
  /\ Exclusive /\ PricedKept /\ NothingDangles

-----------------------------------------------------------------------------
\* What the kinds of requests are.
LEMMA TaskKinds ==
  ASSUME NEW r \in Requests, NEW t \in Tasks[r]
  PROVE  /\ t.op \in {"create", "update", "delete", "put"}
         /\ t.op = "create" => t.table \in DOMAIN Traits /\ t.name \in Names
         /\ t.op = "update" => /\ t.id \in Kept /\ t.name \in Names \cup {Same}
                               /\ t.active \in BOOLEAN \cup {Same}
         /\ t.op = "delete" => t.id \in Kept
         /\ t.op = "put" => /\ t.date \in Dates /\ t.items # <<>>
                            /\ t.items \in Seq([id : Kept, amount : Amounts])
<1>1. t \in Creates \/ t \in Updates \/ t \in Deletes \/ t \in Puts
  BY CatalogAssumption
<1>2. t.op = "put" => t.items # <<>>
  BY CatalogAssumption
<1>3. CASE t \in Creates
  BY <1>3 DEF Creates
<1>4. CASE t \in Updates
  BY <1>4 DEF Updates
<1>5. CASE t \in Deletes
  BY <1>5 DEF Deletes
<1>6. CASE t \in Puts
  BY <1>2, <1>6 DEF Puts
<1> QED
  BY <1>1, <1>3, <1>4, <1>5, <1>6

\* Which locks another request may hold on a row when one is granted.
LEMMA ConflictCases ==
  ASSUME NEW m \in {"share", "soft", "full"}, NEW t \in {"none", "share", "soft", "full"},
         ~Conflict(m, t)
  PROVE  /\ m = "full" => t = "none"
         /\ m = "soft" => t \in {"none", "share"}
         /\ t = "full" => FALSE
         /\ t = "soft" => m = "share"
BY DEF Conflict

\* What request r does to nobody's row leaves the others as they are.
LEMMA OthersKeep ==
  ASSUME Inv, UNCHANGED <<rows, prices>>, NEW q \in Requests,
         task'[q] = task[q], pc'[q] = pc[q], seen'[q] = seen[q], draft'[q] = draft[q],
         held'[q] = held[q], puts'[q] = puts[q], at'[q] = at[q]
  PROVE  InPlace(q)' /\ LocksHeld(q)' /\ Secured(q)'
BY DEF Inv, InPlace, LocksHeld, Secured, Op, Key, Item, IsVariety, Referenced

\* A request ends without a commit.
LEMMA FailKeepsInv ==
  ASSUME Inv, NEW r \in Requests, NEW o \in Answers, pc[r] # "idle", Fail(r, o)
  PROVE  Inv'
<1> USE DEF Fail, Finish, Freed
<1>1. TypeOK'
  BY DEF Inv, TypeOK, NoLock
<1>2. \A i \in Ids : held'[r][i] = "none"
  BY DEF Inv, TypeOK, NoLock
<1>3. \A q \in Requests : q # r => /\ held'[q] = held[q] /\ puts'[q] = puts[q] /\ pc'[q] = pc[q]
                                   /\ draft'[q] = draft[q] /\ seen'[q] = seen[q] /\ at'[q] = at[q]
  BY DEF Inv, TypeOK
<1>4. pc'[r] = "answered" /\ DOMAIN puts'[r] = {}
  BY DEF Inv, TypeOK
<1>5. ASSUME NEW q \in Requests PROVE InPlace(q)' /\ LocksHeld(q)' /\ Secured(q)'
  <2>1. CASE q = r
    BY <1>2, <1>4, <2>1 DEF Inv, InPlace, LocksHeld, Secured
  <2>2. CASE q # r
    BY <1>3, <2>2, OthersKeep
  <2> QED
    BY <2>1, <2>2
<1>6. Exclusive'
  BY <1>2, <1>3 DEF Inv, Exclusive
<1>7. PricedKept' /\ NothingDangles'
  BY <1>3, <1>4 DEF Inv, PricedKept, NothingDangles, IsVariety
<1> QED
  BY <1>1, <1>5, <1>6, <1>7 DEF Inv

\* The arrival of a request keeps Inv.
LEMMA BeginKeepsInv ==
  ASSUME Inv, NEW r \in Requests, Begin(r) PROVE Inv'
<1>1. PICK t \in Tasks[r] :
        /\ task' = [task EXCEPT ![r] = t]
        /\ pc' = [pc EXCEPT ![r] = First(t)]
        /\ draft' = [draft EXCEPT ![r] =
             IF t.op = "create"
               THEN [table |-> t.table, name |-> t.name, active |-> TRUE] ELSE NoRow]
  BY DEF Begin
<1>2. pc[r] = "idle" /\ UNCHANGED <<rows, prices, seen, held, puts, at, out>>
  BY DEF Begin
<1>3. /\ First(t) = CASE t.op = "create" -> "write" [] t.op = "put" -> "claim" [] OTHER -> "load"
      /\ First(t) \in {"load", "write", "claim"}
  BY TaskKinds DEF First
<1>4. TypeOK'
  <2>1. draft' \in [Requests -> Rows \cup {NoRow}]
    BY <1>1, TaskKinds DEF Inv, TypeOK, Rows
  <2>2. alone' \in [Requests -> BOOLEAN]
    BY DEF Begin, Inv, TypeOK
  <2> QED
    BY <1>1, <1>2, <1>3, <2>1, <2>2 DEF Inv, TypeOK
<1>5. task'[r] = t /\ pc'[r] = First(t) /\ held'[r] = held[r] /\ puts'[r] = puts[r]
  BY <1>1, <1>2 DEF Inv, TypeOK
<1>6. (\A i \in Ids : held[r][i] = "none") /\ DOMAIN puts[r] = {}
  BY <1>2 DEF Inv, LocksHeld, Secured
<1>7. ASSUME NEW q \in Requests PROVE InPlace(q)' /\ LocksHeld(q)' /\ Secured(q)'
  <2>1. CASE q = r
    <3>1. LocksHeld(q)' /\ Secured(q)'
      BY <1>5, <1>6, <2>1 DEF LocksHeld, Secured
    <3>2. t.op = "put" => 1 \in DOMAIN t.items
      BY TaskKinds
    <3>3. at'[r] = 1
      BY <1>2 DEF Inv, InPlace
    <3>4. t.op = "create" => draft'[r] # NoRow
      <4>1. t.op = "create" => draft'[r] \in Rows
        BY <1>1, TaskKinds DEF Inv, TypeOK, Rows
      <4> QED
        BY <4>1, CatalogAssumption
    <3> QED
      BY <1>3, <1>5, <2>1, <3>1, <3>2, <3>3, <3>4, TaskKinds DEF InPlace, Op
  <2>2. CASE q # r
    BY <1>1, <1>2, <2>2, OthersKeep DEF Inv, TypeOK
  <2> QED
    BY <2>1, <2>2
<1>8. Exclusive' /\ PricedKept' /\ NothingDangles'
  BY <1>1, <1>2, <1>3, <1>5 DEF Inv, TypeOK, Exclusive, PricedKept, NothingDangles, IsVariety
<1> QED
  BY <1>4, <1>7, <1>8 DEF Inv

\* The row a PATCH or DELETE works on is one of the tables' ids.
LEMMA TargetIsKept ==
  ASSUME Inv, NEW r \in Requests, pc[r] # "idle", Op(r) \in {"update", "delete"}
  PROVE  Target(r) = task[r].id /\ Target(r) \in Kept /\ Target(r) \in Ids
BY TaskKinds DEF Inv, InPlace, Target, Op, Ids

\* db.get, and the DELETE that finds no row: nothing is held.
LEMMA LoadKeepsInv ==
  ASSUME Inv, NEW r \in Requests, Load(r) \/ (Vanished(r) /\ Op(r) = "delete") PROVE Inv'
<1>0. pc[r] \in {"load", "grab"} /\ Target(r) \in Ids /\ rows[Target(r)] \in Rows \cup {NoRow}
  BY TargetIsKept DEF Load, Vanished, Inv, InPlace, TypeOK
<1>1. /\ \/ pc' = [pc EXCEPT ![r] = "grab"]
         \/ pc' = [pc EXCEPT ![r] = "commit"]
      /\ UNCHANGED <<rows, prices, task, draft, held, puts, at, out, alone>>
      /\ \/ seen' = [seen EXCEPT ![r] = rows[Target(r)]] /\ rows[Target(r)] # NoRow
         \/ seen' = seen /\ pc' = [pc EXCEPT ![r] = "commit"]
  <2>1. CASE Load(r)
    BY <2>1 DEF Load, Row
  <2>2. CASE Vanished(r) /\ Op(r) = "delete"
    BY <2>2 DEF Vanished
  <2> QED
    BY <2>1, <2>2
<1>2. TypeOK'
  BY <1>0, <1>1 DEF Inv, TypeOK
<1>3. \A i \in Ids : held[r][i] = "none"
  BY <1>0 DEF Inv, LocksHeld
<1>4. DOMAIN puts[r] = {}
  BY <1>0 DEF Inv, Secured
<1>5. ASSUME NEW q \in Requests PROVE InPlace(q)' /\ LocksHeld(q)' /\ Secured(q)'
  <2>1. CASE q = r
    <3>1. LocksHeld(q)' /\ Secured(q)'
      BY <1>1, <1>3, <1>4, <2>1 DEF LocksHeld, Secured
    <3>2. InPlace(q)'
      BY <1>0, <1>1, <2>1 DEF Inv, TypeOK, InPlace, Op
    <3> QED
      BY <3>1, <3>2
  <2>2. CASE q # r
    BY <1>1, <2>2, OthersKeep DEF Inv, TypeOK
  <2> QED
    BY <2>1, <2>2
<1>6. Exclusive' /\ PricedKept' /\ NothingDangles'
  BY <1>1, <1>4 DEF Inv, TypeOK, Exclusive, PricedKept, NothingDangles, IsVariety
<1> QED
  BY <1>2, <1>5, <1>6 DEF Inv

\* UPDATE or DELETE has the row's lock: nobody else has one that conflicts.
LEMMA GrabKeepsInv ==
  ASSUME Inv, NEW r \in Requests, Grab(r) PROVE Inv'
<1> DEFINE i == Target(r)
           m == Mode(r)
           d == IF Op(r) = "delete" THEN NoRow ELSE Patched(r)
           p == IF Op(r) = "update" /\ Sets(r, "name") THEN "write" ELSE "commit"
<1>0. /\ pc[r] = "grab" /\ Op(r) \in {"update", "delete"} /\ i \in Kept /\ i \in Ids
      /\ i = task[r].id /\ rows[i] \in Rows /\ rows[i] # NoRow
      /\ m \in {"soft", "full"} /\ (Op(r) = "delete" => m = "full")
      /\ Op(r) = "delete" => ~Referenced(i)
  <2>1. pc[r] = "grab" /\ Op(r) \in {"update", "delete"} /\ rows[i] # NoRow
    BY DEF Grab, Ready, Row, Inv, InPlace
  <2>2. i \in Kept /\ i \in Ids /\ i = task[r].id
    BY <2>1, TargetIsKept
  <2>3. rows[i] \in Rows
    BY <2>1, <2>2 DEF Inv, TypeOK
  <2>4. m \in {"soft", "full"} /\ (Op(r) = "delete" => m = "full")
    BY <2>1 DEF Mode
  <2> QED
    BY <2>1, <2>2, <2>3, <2>4 DEF Grab
<1>1. /\ held' = [held EXCEPT ![r][i] = m]
      /\ draft' = [draft EXCEPT ![r] = d]
      /\ pc' = [pc EXCEPT ![r] = p]
      /\ UNCHANGED <<rows, prices, task, seen, puts, at, out, alone>>
  BY DEF Grab
<1>2. ASSUME NEW q \in Requests, q # r
      PROVE  /\ m = "full" => held[q][i] = "none"
             /\ m = "soft" => held[q][i] \in {"none", "share"}
             /\ held[q][i] # "full" /\ (held[q][i] = "soft" => FALSE)
  <2>1. q \notin Blockers(r)
    BY DEF Grab, Ready
  <2>2. ~Conflict(m, held[q][i])
    BY <1>0, <1>2, <2>1 DEF Blockers, Grab, Ready, Row
  <2>3. held[q][i] \in {"none", "share", "soft", "full"}
    BY <1>0 DEF Inv, TypeOK
  <2> QED
    BY <1>0, <2>2, <2>3, ConflictCases
<1>3. /\ Op(r) = "delete" => d = NoRow /\ p = "commit"
      /\ Op(r) = "update" => d \in Rows /\ d.table = rows[i].table /\ d # NoRow
      /\ p \in {"write", "commit"}
  <2>1. ASSUME Op(r) = "update" PROVE d \in Rows /\ d.table = rows[i].table
    <3>1. task[r].name \in Names \cup {Same} /\ task[r].active \in BOOLEAN \cup {Same}
      BY <1>0, <2>1, TaskKinds DEF Inv, InPlace, Op
    <3>2. /\ Sets(r, "name") => task[r].name \in Names
          /\ Sets(r, "active") => task[r].active \in BOOLEAN
      BY <3>1 DEF Sets, Differs
    <3> QED
      BY <1>0, <2>1, <3>2 DEF Patched, Row, Rows
  <2> QED
    BY <1>0, <2>1, CatalogAssumption
<1> HIDE DEF i, m, d, p
<1>4. TypeOK'
  BY <1>0, <1>1, <1>3 DEF Inv, TypeOK
<1>5. /\ held'[r] = [held[r] EXCEPT ![i] = m] /\ draft'[r] = d /\ pc'[r] = p
      /\ \A u \in Ids : held[r][u] = "none"
      /\ DOMAIN puts[r] = {}
  <2>1. \A u \in Ids : held[r][u] = "none"
    BY <1>0 DEF Inv, LocksHeld
  <2>2. DOMAIN puts[r] = {}
    BY <1>0 DEF Inv, Secured
  <2> QED
    BY <1>0, <1>1, <2>1, <2>2 DEF Inv, TypeOK
<1>6. ASSUME NEW q \in Requests PROVE InPlace(q)' /\ LocksHeld(q)' /\ Secured(q)'
  <2>1. CASE q = r
    <3>1. Op(r)' = Op(r) /\ task'[r] = task[r]
      BY <1>1 DEF Op
    <3>2. InPlace(q)'
      BY <1>0, <1>1, <1>3, <1>5, <2>1, <3>1 DEF Inv, InPlace, p
    <3>3. \A u \in Ids : held'[r][u] = IF u = i THEN m ELSE "none"
      BY <1>0, <1>5 DEF Inv, TypeOK
    <3>4. LocksHeld(q)'
      BY <1>0, <1>1, <1>3, <1>5, <2>1, <3>1, <3>3 DEF LocksHeld, Referenced
    <3>5. Secured(q)'
      BY <1>1, <1>5, <2>1 DEF Secured
    <3> QED
      BY <3>2, <3>4, <3>5
  <2>2. CASE q # r
    BY <1>1, <2>2, OthersKeep DEF Inv, TypeOK
  <2> QED
    BY <2>1, <2>2
<1>7. Exclusive'
  <2>1. \A q \in Requests : q # r => held'[q] = held[q]
    BY <1>1 DEF Inv, TypeOK
  <2>2. \A u \in Ids : held'[r][u] = IF u = i THEN m ELSE "none"
    BY <1>0, <1>5 DEF Inv, TypeOK
  <2> QED
    BY <1>0, <1>2, <2>1, <2>2 DEF Inv, TypeOK, Exclusive
<1>8. PricedKept' /\ NothingDangles'
  BY <1>1, <1>5 DEF Inv, TypeOK, PricedKept, NothingDangles, IsVariety
<1> QED
  BY <1>4, <1>6, <1>7, <1>8 DEF Inv

\* The unique index: the row of an update is held already, a new one is held now.
LEMMA WriteKeepsInv ==
  ASSUME Inv, NEW r \in Requests, Write(r) PROVE Inv'
<1>0. pc[r] = "write" /\ Op(r) \in {"create", "update"} /\ draft[r] # NoRow /\ Target(r) \in Ids
  BY TargetIsKept DEF Write, Ready, Inv, InPlace, Target, Ids
<1>1. /\ held' = [held EXCEPT ![r][Target(r)] = IF Op(r) = "create" THEN "full" ELSE @]
      /\ pc' = [pc EXCEPT ![r] = "commit"]
      /\ UNCHANGED <<rows, prices, task, seen, draft, puts, at, out, alone>>
  BY DEF Write
<1>2. TypeOK'
  BY <1>0, <1>1 DEF Inv, TypeOK
<1>3. /\ pc'[r] = "commit" /\ DOMAIN puts[r] = {}
      /\ Op(r) = "update" => held'[r] = held[r]
      /\ Op(r) = "create" => Target(r) = r /\ held'[r] = [held[r] EXCEPT ![r] = "full"]
      /\ \A q \in Requests : q # r => held'[q] = held[q]
  <2>1. DOMAIN puts[r] = {}
    BY <1>0 DEF Inv, Secured
  <2>2. Op(r) = "create" => Target(r) = r
    BY DEF Target
  <2>3. held[r] \in [Ids -> {"none", "share", "soft", "full"}]
    BY DEF Inv, TypeOK
  <2> QED
    BY <1>0, <1>1, <2>1, <2>2, <2>3 DEF Inv, TypeOK
<1>4. ASSUME Op(r) = "create"
      PROVE  /\ \A u \in Ids : held'[r][u] = IF u = r THEN "full" ELSE "none"
             /\ \A q \in Requests : q # r => held[q][r] = "none"
  <2>1. \A u \in Ids : held[r][u] = "none"
    BY <1>0, <1>4 DEF Inv, LocksHeld
  <2>2. ASSUME NEW q \in Requests, q # r PROVE held[q][r] = "none"
    <3>1. Op(q) \in {"update", "delete"} /\ pc[q] # "idle" => task[q].id \in Kept
      BY TargetIsKept
    <3> QED
      BY <2>2, <3>1, CatalogAssumption DEF Inv, LocksHeld, Ids
  <2> QED
    BY <1>0, <1>3, <1>4, <2>1, <2>2 DEF Inv, TypeOK, Ids
<1>5. ASSUME NEW q \in Requests PROVE InPlace(q)' /\ LocksHeld(q)' /\ Secured(q)'
  <2>1. CASE q = r
    <3>1. InPlace(q)' /\ Secured(q)'
      BY <1>0, <1>1, <1>3, <2>1 DEF Inv, InPlace, Secured, Op
    <3>2. LocksHeld(q)'
      BY <1>0, <1>1, <1>3, <1>4, <2>1 DEF Inv, LocksHeld, Op, Referenced
    <3> QED
      BY <3>1, <3>2
  <2>2. CASE q # r
    BY <1>1, <1>3, <2>2, OthersKeep DEF Inv, TypeOK
  <2> QED
    BY <2>1, <2>2
<1>6. Exclusive'
  BY <1>0, <1>3, <1>4 DEF Inv, Exclusive
<1>7. PricedKept' /\ NothingDangles'
  BY <1>1, <1>3 DEF Inv, TypeOK, PricedKept, NothingDangles, IsVariety
<1> QED
  BY <1>2, <1>5, <1>6, <1>7 DEF Inv

-----------------------------------------------------------------------------
\* What a sequence holds at one of its places.
LEMMA Element ==
  ASSUME NEW S, NEW s \in Seq(S), NEW n \in DOMAIN s
  PROVE  s[n] \in S /\ n \in 1 .. Len(s)
OBVIOUS

\* The item of a price list a request is at: a variety, an amount, a date.
LEMMA ItemTyped ==
  ASSUME Inv, NEW r \in Requests, pc[r] \in {"claim", "refer"}
  PROVE  /\ Op(r) = "put" /\ Item(r).id \in Kept /\ Item(r).amount \in Amounts
         /\ task[r].date \in Dates /\ Key(r) \in Kept \X Dates /\ Key(r)[1] = Item(r).id
         /\ at[r] \in 1 .. Len(task[r].items)
<1>1. /\ Op(r) = "put" /\ at[r] \in DOMAIN task[r].items
      /\ task[r].date \in Dates /\ task[r].items \in Seq([id : Kept, amount : Amounts])
  BY TaskKinds DEF Inv, InPlace, Op
<1>2. task[r].items[at[r]] \in [id : Kept, amount : Amounts] /\ at[r] \in 1 .. Len(task[r].items)
  BY <1>1, Element
<1> QED
  BY <1>1, <1>2 DEF Item, Key

\* Going on to the next item, or to the commit.
LEMMA OnwardInPlace ==
  ASSUME Inv, NEW r \in Requests, pc[r] \in {"claim", "refer"}, Onward(r)
  PROVE  /\ at' \in [Requests -> Nat \ {0}]
         /\ pc' \in [Requests -> {"idle", "load", "grab", "write", "claim", "refer",
                                  "commit", "refresh", "answered"}]
         /\ pc'[r] \in {"claim", "commit"}
         /\ pc'[r] = "claim" => at'[r] \in DOMAIN task[r].items
         /\ \A q \in Requests : q # r => pc'[q] = pc[q] /\ at'[q] = at[q]
<1>1. at[r] \in 1 .. Len(task[r].items) /\ task[r].items \in Seq([id : Kept, amount : Amounts])
  BY ItemTyped, TaskKinds DEF Inv, InPlace, Op
<1>2. /\ at' = [at EXCEPT ![r] = at[r] + 1]
      /\ pc' = [pc EXCEPT ![r] = IF at[r] = Len(task[r].items) THEN "commit" ELSE "claim"]
  BY DEF Onward, Inv, TypeOK
<1>3. at[r] # Len(task[r].items) => at[r] + 1 \in DOMAIN task[r].items
  BY <1>1
<1> QED
  BY <1>1, <1>2, <1>3 DEF Inv, TypeOK

\* ON CONFLICT DO UPDATE: a price that is committed keeps its variety already.
LEMMA ClaimKeepsInv ==
  ASSUME Inv, NEW r \in Requests, Claim(r) PROVE Inv'
<1>0. /\ pc[r] = "claim" /\ Op(r) = "put" /\ Key(r) \in Kept \X Dates /\ Item(r).amount \in Amounts
      /\ Key(r) \in Keys
  <2>1. pc[r] = "claim"
    BY DEF Claim, Ready
  <2> QED
    BY <2>1, ItemTyped DEF Keys, Ids
<1>1. /\ puts' = [puts EXCEPT ![r] = Upserted(r)]
      /\ UNCHANGED <<rows, prices, task, seen, draft, held, out, alone>>
  BY DEF Claim
<1>2. /\ DOMAIN puts'[r] = DOMAIN puts[r] \cup {Key(r)}
      /\ \A k \in DOMAIN puts'[r] :
           puts'[r][k] = IF k = Key(r) THEN Item(r).amount ELSE puts[r][k]
      /\ \A q \in Requests : q # r => puts'[q] = puts[q]
      /\ DOMAIN puts' = Requests
  BY <1>1 DEF Upserted, Inv, TypeOK
<1>3. /\ at' \in [Requests -> Nat \ {0}]
      /\ pc' \in [Requests -> {"idle", "load", "grab", "write", "claim", "refer",
                               "commit", "refresh", "answered"}]
      /\ pc'[r] \in {"claim", "refer", "commit"}
      /\ pc'[r] \in {"claim", "refer"} => at'[r] \in DOMAIN task[r].items
      /\ pc'[r] = "refer" => Key(r)' = Key(r)
      /\ pc'[r] # "refer" => prices[Key(r)] # NoPrice \/ Key(r) \in DOMAIN puts[r]
      /\ \A q \in Requests : q # r => pc'[q] = pc[q] /\ at'[q] = at[q]
  <2>1. CASE prices[Key(r)] # NoPrice \/ Key(r) \in DOMAIN puts[r]
    <3>1. Onward(r)
      BY <2>1 DEF Claim
    <3> QED
      BY <1>0, <2>1, <3>1, OnwardInPlace
  <2>2. CASE ~(prices[Key(r)] # NoPrice \/ Key(r) \in DOMAIN puts[r])
    <3>1. pc' = [pc EXCEPT ![r] = "refer"] /\ at' = at
      BY <2>2 DEF Claim
    <3>2. Key(r)' = Key(r)
      BY <1>1, <3>1 DEF Key, Item
    <3> QED
      BY <1>0, <3>1, <3>2 DEF Inv, TypeOK, InPlace
  <2> QED
    BY <2>1, <2>2
<1>4. TypeOK'
  <2>1. ASSUME NEW q \in Requests
        PROVE  DOMAIN puts'[q] \subseteq Keys /\ \A k \in DOMAIN puts'[q] : puts'[q][k] \in Amounts
    <3>1. CASE q = r
      BY <1>0, <1>2, <3>1 DEF Inv, TypeOK
    <3>2. CASE q # r
      BY <1>2, <3>2 DEF Inv, TypeOK
    <3> QED
      BY <3>1, <3>2
  <2> QED
    BY <1>1, <1>2, <1>3, <2>1 DEF Inv, TypeOK
<1>5. ASSUME NEW q \in Requests PROVE InPlace(q)' /\ LocksHeld(q)' /\ Secured(q)'
  <2>1. CASE q = r
    <3>1. InPlace(q)'
      BY <1>0, <1>1, <1>3, <2>1 DEF Inv, InPlace, Op
    <3>2. LocksHeld(q)'
      BY <1>0, <1>1, <1>3, <2>1 DEF Inv, LocksHeld, Op, Referenced
    <3>3. Secured(q)'
      <4> SUFFICES ASSUME NEW k \in DOMAIN puts'[r]
                   PROVE  /\ k \in Kept \X Dates /\ puts'[r][k] \in Amounts
                          /\ \/ pc'[r] = "refer" /\ k = Key(r)'
                             \/ IsVariety(k[1]) /\ (prices[k] # NoPrice \/ held[r][k[1]] = "share")
        BY <1>0, <1>1, <1>3, <2>1 DEF Secured, Op, IsVariety
      <4>1. CASE k \in DOMAIN puts[r]
        BY <1>0, <1>2, <4>1 DEF Inv, Secured
      <4>2. CASE k \notin DOMAIN puts[r]
        <5>1. k = Key(r) /\ k \in Keys /\ puts'[r][k] \in Amounts
          BY <1>0, <1>2, <4>2
        <5>2. prices[k] # NoPrice => IsVariety(k[1])
          BY <5>1 DEF Inv, NothingDangles
        <5> QED
          BY <1>0, <1>3, <4>2, <5>1, <5>2
      <4> QED
        BY <4>1, <4>2
    <3> QED
      BY <3>1, <3>2, <3>3
  <2>2. CASE q # r
    BY <1>1, <1>2, <1>3, <2>2, OthersKeep
  <2> QED
    BY <2>1, <2>2
<1>6. NothingDangles'
  BY <1>1, <1>3, <1>5 DEF Inv, NothingDangles, Secured, IsVariety
<1>7. Exclusive' /\ PricedKept'
  BY <1>1 DEF Inv, Exclusive, PricedKept
<1> QED
  BY <1>4, <1>5, <1>6, <1>7 DEF Inv

\* The check of a new price's reference takes the share lock of its variety.
LEMMA ReferKeepsInv ==
  ASSUME Inv, NEW r \in Requests, Refer(r) PROVE Inv'
<1> DEFINE i == Item(r).id
<1>0. /\ pc[r] = "refer" /\ Op(r) = "put" /\ i \in Kept /\ i \in Ids /\ Key(r)[1] = i
      /\ IsVariety(i)
  <2>1. pc[r] = "refer" /\ IsVariety(i)
    BY DEF Refer, Ready
  <2> QED
    BY <2>1, ItemTyped DEF Ids
<1>1. /\ held' = [held EXCEPT ![r][i] = "share"]
      /\ Onward(r)
      /\ UNCHANGED <<rows, prices, task, seen, draft, puts, out, alone>>
  BY DEF Refer
<1>2. ASSUME NEW q \in Requests, q # r PROVE held[q][i] # "full"
  <2>1. ~Conflict("share", held[q][i])
    BY <1>0, <1>2 DEF Refer, Ready, Blockers
  <2> QED
    BY <2>1 DEF Conflict
<1>3. /\ at' \in [Requests -> Nat \ {0}]
      /\ pc' \in [Requests -> {"idle", "load", "grab", "write", "claim", "refer",
                               "commit", "refresh", "answered"}]
      /\ pc'[r] \in {"claim", "commit"}
      /\ pc'[r] = "claim" => at'[r] \in DOMAIN task[r].items
      /\ \A q \in Requests : q # r => pc'[q] = pc[q] /\ at'[q] = at[q]
  BY <1>0, <1>1, OnwardInPlace
<1> HIDE DEF i
<1>4. TypeOK'
  BY <1>0, <1>1, <1>3 DEF Inv, TypeOK
<1>5. /\ \A u \in Ids : held'[r][u] = IF u = i THEN "share" ELSE held[r][u]
      /\ \A q \in Requests : q # r => held'[q] = held[q]
  BY <1>0, <1>1 DEF Inv, TypeOK
<1>6. ASSUME NEW q \in Requests PROVE InPlace(q)' /\ LocksHeld(q)' /\ Secured(q)'
  <2>1. CASE q = r
    <3>1. InPlace(q)'
      BY <1>0, <1>1, <1>3, <2>1 DEF Inv, InPlace, Op
    <3>2. LocksHeld(q)'
      BY <1>0, <1>1, <1>3, <1>5, <2>1 DEF Inv, LocksHeld, Op, Referenced
    <3>3. Secured(q)'
      BY <1>0, <1>1, <1>3, <1>5, <2>1 DEF Inv, Secured, Op, IsVariety, Ids
    <3> QED
      BY <3>1, <3>2, <3>3
  <2>2. CASE q # r
    BY <1>1, <1>3, <1>5, <2>2, OthersKeep
  <2> QED
    BY <2>1, <2>2
<1>7. Exclusive'
  <2>1. \A u \in Ids : held[r][u] \in {"none", "share"} /\ held'[r][u] \in {"none", "share"}
    BY <1>0, <1>5 DEF Inv, LocksHeld
  <2> QED
    BY <1>0, <1>2, <1>5, <2>1 DEF Inv, Exclusive
<1>8. NothingDangles' /\ PricedKept'
  BY <1>1, <1>3, <1>6 DEF Inv, NothingDangles, PricedKept, Secured, IsVariety
<1> QED
  BY <1>4, <1>6, <1>7, <1>8 DEF Inv

-----------------------------------------------------------------------------
\* A commit changes one row at most, which its request has the lock of, and
\* removes no price.
LEMMA CommitEffect ==
  ASSUME Inv, NEW r \in Requests, Commit(r)
  PROVE  /\ pc[r] = "commit" /\ pc'[r] \in {"refresh", "answered"} /\ TypeOK'
         /\ \A i \in Ids : rows'[i] # rows[i] =>
              /\ Op(r) # "put" /\ held[r][i] \in {"soft", "full"} /\ rows'[i] = draft[r]
         /\ \A k \in Keys : prices[k] # NoPrice => prices'[k] # NoPrice
         /\ \A k \in Keys : prices'[k] # NoPrice => prices[k] # NoPrice \/ k \in DOMAIN puts[r]
         /\ \A i \in Ids : held'[r][i] = "none"
         /\ DOMAIN puts'[r] = {} /\ task' = task
         /\ \A q \in Requests : q # r =>
              /\ held'[q] = held[q] /\ puts'[q] = puts[q] /\ pc'[q] = pc[q]
              /\ draft'[q] = draft[q] /\ seen'[q] = seen[q] /\ at'[q] = at[q]
<1>1. PICK next \in {"refresh", "answered"}, o \in Answers :
        pc[r] = "commit" /\ rows' = Written(r) /\ Finish(r, next, o)
  BY DEF Commit, Answers
<1>2. prices' = [k \in Keys |-> IF k \in DOMAIN puts[r] THEN puts[r][k] ELSE prices[k]]
  BY DEF Commit
<1>3. /\ pc'[r] \in {"refresh", "answered"} /\ task' = task /\ DOMAIN puts'[r] = {}
      /\ \A i \in Ids : held'[r][i] = "none"
      /\ \A q \in Requests : q # r =>
           /\ held'[q] = held[q] /\ puts'[q] = puts[q] /\ pc'[q] = pc[q]
           /\ draft'[q] = draft[q] /\ seen'[q] = seen[q] /\ at'[q] = at[q]
  BY <1>1 DEF Finish, Freed, NoLock, Inv, TypeOK
<1>4. \A k \in Keys : k \in DOMAIN puts[r] => puts[r][k] \in Amounts /\ puts[r][k] # NoPrice
  BY CatalogAssumption DEF Inv, TypeOK
<1>5. rows' \in [Ids -> Rows \cup {NoRow}]
  BY <1>1 DEF Written, Inv, TypeOK
<1>6. prices' \in [Keys -> Amounts \cup {NoPrice}]
  BY <1>2, <1>4 DEF Inv, TypeOK
<1>7. TypeOK'
  BY <1>1, <1>5, <1>6 DEF Finish, Freed, NoLock, Inv, TypeOK
<1>8. ASSUME NEW i \in Ids, rows'[i] # rows[i]
      PROVE  Op(r) # "put" /\ held[r][i] \in {"soft", "full"} /\ rows'[i] = draft[r]
  <2>1. /\ Op(r) # "put" /\ held[r][Target(r)] # "none"
        /\ rows' = [rows EXCEPT ![Target(r)] = draft[r]]
    BY <1>1, <1>8 DEF Written
  <2>2. i = Target(r) /\ rows'[i] = draft[r]
    BY <1>8, <2>1 DEF Inv, TypeOK
  <2> QED
    BY <2>1, <2>2 DEF Inv, LocksHeld
<1> QED
  BY <1>1, <1>2, <1>3, <1>4, <1>7, <1>8

\* The commit keeps Inv: what it makes visible was secured by its locks.
LEMMA CommitKeepsInv ==
  ASSUME Inv, NEW r \in Requests, Commit(r) PROVE Inv'
<1>1. /\ pc[r] = "commit" /\ pc'[r] \in {"refresh", "answered"} /\ TypeOK'
      /\ \A i \in Ids : rows'[i] # rows[i] =>
           /\ Op(r) # "put" /\ held[r][i] \in {"soft", "full"} /\ rows'[i] = draft[r]
      /\ \A k \in Keys : prices[k] # NoPrice => prices'[k] # NoPrice
      /\ \A k \in Keys : prices'[k] # NoPrice => prices[k] # NoPrice \/ k \in DOMAIN puts[r]
      /\ \A i \in Ids : held'[r][i] = "none"
      /\ DOMAIN puts'[r] = {} /\ task' = task
      /\ \A q \in Requests : q # r =>
           /\ held'[q] = held[q] /\ puts'[q] = puts[q] /\ pc'[q] = pc[q]
           /\ draft'[q] = draft[q] /\ seen'[q] = seen[q] /\ at'[q] = at[q]
  BY CommitEffect
<1>2. \A k \in Kept \X Dates : k \in Keys /\ k[1] \in Kept /\ k[1] \in Ids
  BY DEF Keys, Ids
\* Only the removal of a row that no price refers to makes an end of a variety.
<1>3. ASSUME NEW i \in Kept, IsVariety(i), ~IsVariety(i)'
      PROVE  held[r][i] = "full" /\ ~Referenced(i) /\ Op(r) = "delete"
  <2>1. i \in Ids /\ rows'[i] # rows[i]
    BY <1>3 DEF IsVariety, Ids
  <2>2. Op(r) # "put" /\ held[r][i] \in {"soft", "full"} /\ rows'[i] = draft[r]
    BY <1>1, <2>1
  <2>3. Op(r) # "update"
    BY <1>3, <2>1, <2>2 DEF Inv, LocksHeld, IsVariety
  <2>4. Op(r) # "create"
    BY <1>3, <2>1, <2>2, CatalogAssumption DEF Inv, LocksHeld
  <2> QED
    BY <2>1, <2>2, <2>3, <2>4 DEF Inv, LocksHeld
<1>4. \A k \in DOMAIN puts[r] :
        /\ k \in Kept \X Dates /\ Op(r) = "put" /\ IsVariety(k[1])
        /\ prices[k] # NoPrice \/ held[r][k[1]] = "share"
  BY <1>1 DEF Inv, Secured
<1>5. \A k \in Keys : prices'[k] # NoPrice => k[1] \in Kept /\ IsVariety(k[1])'
  <2> SUFFICES ASSUME NEW k \in Keys, prices'[k] # NoPrice
               PROVE  k[1] \in Kept /\ IsVariety(k[1])'
    OBVIOUS
  <2>1. CASE prices[k] # NoPrice
    <3>1. k[1] \in Kept /\ IsVariety(k[1]) /\ Referenced(k[1])
      BY <2>1 DEF Inv, PricedKept, NothingDangles, Referenced
    <3> QED
      BY <1>3, <3>1
  <2>2. CASE k \in DOMAIN puts[r]
    <3>1. k[1] \in Kept /\ IsVariety(k[1]) /\ Op(r) = "put"
      BY <1>2, <1>4, <2>2
    <3> QED
      BY <1>3, <3>1
  <2> QED
    BY <1>1, <2>1, <2>2
<1>6. ASSUME NEW q \in Requests PROVE InPlace(q)' /\ LocksHeld(q)' /\ Secured(q)'
  <2>1. CASE q = r
    <3>1. InPlace(q)'
      BY <1>1, <2>1 DEF Inv, InPlace, Op
    <3>2. LocksHeld(q)' /\ Secured(q)'
      BY <1>1, <2>1 DEF LocksHeld, Secured
    <3> QED
      BY <3>1, <3>2
  <2>2. CASE q # r
    <3>1. InPlace(q)'
      BY <1>1, <2>2 DEF Inv, InPlace, Op
    <3>2. ASSUME NEW i \in Ids, held[q][i] \in {"soft", "full"} PROVE rows'[i] = rows[i]
      BY <1>1, <2>2, <3>2 DEF Inv, Exclusive
    <3>3. ASSUME NEW i \in Ids, held[q][i] = "full", ~Referenced(i) PROVE ~Referenced(i)'
      <4> SUFFICES ASSUME NEW k \in Keys, k[1] = i, prices'[k] # NoPrice PROVE FALSE
        BY DEF Referenced
      <4>1. prices[k] = NoPrice /\ k \in DOMAIN puts[r]
        BY <1>1, <3>3 DEF Referenced
      <4>2. held[r][i] = "share"
        BY <1>4, <4>1
      <4> QED
        BY <2>2, <3>3, <4>2 DEF Inv, Exclusive
    <3>4. LocksHeld(q)'
      BY <1>1, <2>2, <3>2, <3>3 DEF Inv, LocksHeld, Op
    <3>5. Secured(q)'
      <4> SUFFICES ASSUME NEW k \in DOMAIN puts[q]
                   PROVE  /\ k \in Kept \X Dates /\ puts[q][k] \in Amounts
                          /\ Op(q) = "put" /\ pc[q] \in {"claim", "refer", "commit"}
                          /\ \/ pc[q] = "refer" /\ k = Key(q)
                             \/ /\ IsVariety(k[1])'
                                /\ prices'[k] # NoPrice \/ held[q][k[1]] = "share"
        BY <1>1, <2>2 DEF Secured, Op, Key, Item
      <4>1. /\ k \in Kept \X Dates /\ puts[q][k] \in Amounts
            /\ Op(q) = "put" /\ pc[q] \in {"claim", "refer", "commit"}
            /\ \/ pc[q] = "refer" /\ k = Key(q)
               \/ IsVariety(k[1]) /\ (prices[k] # NoPrice \/ held[q][k[1]] = "share")
        BY DEF Inv, Secured
      <4>2. CASE pc[q] = "refer" /\ k = Key(q)
        BY <4>1, <4>2
      <4>3. CASE IsVariety(k[1]) /\ prices[k] # NoPrice
        <5>1. prices'[k] # NoPrice
          BY <1>1, <1>2, <4>1, <4>3
        <5> QED
          BY <1>2, <1>5, <4>1, <5>1
      <4>4. CASE IsVariety(k[1]) /\ held[q][k[1]] = "share"
        <5>1. held[r][k[1]] # "full"
          BY <1>2, <2>2, <4>1, <4>4 DEF Inv, Exclusive
        <5> QED
          BY <1>2, <1>3, <4>1, <4>4, <5>1
      <4> QED
        BY <4>1, <4>2, <4>3, <4>4
    <3> QED
      BY <3>1, <3>4, <3>5
  <2> QED
    BY <2>1, <2>2
<1>7. Exclusive'
  BY <1>1 DEF Inv, Exclusive
<1>8. PricedKept' /\ NothingDangles'
  <2>1. \A q \in Requests : pc'[q] = "commit" => \A k \in DOMAIN puts'[q] : IsVariety(k[1])'
    BY <1>6 DEF Secured
  <2> QED
    BY <1>5, <2>1 DEF PricedKept, NothingDangles
<1> QED
  BY <1>1, <1>6, <1>7, <1>8 DEF Inv

-----------------------------------------------------------------------------
\* Inv holds at first.
LEMMA InitInv == Init => Inv
<1> SUFFICES ASSUME Init PROVE Inv
  OBVIOUS
<1>1. rows \in [Ids -> Rows \cup {NoRow}]
  BY CatalogAssumption DEF Init, Ids
<1>2. prices \in [Keys -> Amounts \cup {NoPrice}]
  <2>1. ASSUME NEW k \in Keys, k[1] \in Kept PROVE k \in Kept \X Dates
    BY <2>1 DEF Keys
  <2>2. \A k \in Kept \X Dates : Priced[k] \in Amounts \cup {NoPrice}
    BY CatalogAssumption
  <2> QED
    BY <2>1, <2>2 DEF Init
<1>3. TypeOK
  BY <1>1, <1>2 DEF Init, TypeOK, NoLock, Answers
<1>4. \A r \in Requests : InPlace(r) /\ LocksHeld(r) /\ Secured(r)
  BY DEF Init, InPlace, LocksHeld, Secured, NoLock
<1>5. \A k \in Keys : prices[k] # NoPrice => k[1] \in Kept /\ IsVariety(k[1])
  <2> SUFFICES ASSUME NEW k \in Keys, prices[k] # NoPrice PROVE k[1] \in Kept /\ IsVariety(k[1])
    OBVIOUS
  <2>1. k[1] \in Kept /\ Priced[k] # NoPrice /\ k \in Kept \X Dates
    BY DEF Init, Keys
  <2>2. Opening[k[1]] # NoRow /\ Opening[k[1]].table = "variety"
    BY <2>1, CatalogAssumption
  <2> QED
    BY <2>1, <2>2 DEF Init, IsVariety, Ids
<1>6. Exclusive /\ PricedKept /\ NothingDangles
  BY <1>5 DEF Init, Exclusive, PricedKept, NothingDangles, NoLock
<1> QED
  BY <1>3, <1>4, <1>6 DEF Inv

\* Inv is inductive.
LEMMA NextKeepsInv == Inv /\ [Next]_vars => Inv'
<1> SUFFICES ASSUME Inv, [Next]_vars PROVE Inv'
  OBVIOUS
<1>1. ASSUME NEW r \in Requests, Serve(r) PROVE Inv'
  <2>1. CASE Missing(r) \/ InUse(r) \/ Duplicate(r) \/ Invalid(r) \/ Refresh(r) \/ Rejected(r) \/ Victim(r)
             \/ (Vanished(r) /\ Op(r) = "update")
    <3>1. PICK o \in Answers : Fail(r, o)
      BY <2>1 DEF Missing, InUse, Duplicate, Invalid, Refresh, Rejected, Misfit, Victim, Vanished, Answers
    <3>2. pc[r] # "idle"
      BY <2>1
      DEF Missing, InUse, Duplicate, Invalid, Refresh, Rejected, Misfit, Victim, Vanished, Ready, OnCycle, Blockers
    <3> QED
      BY <3>1, <3>2, FailKeepsInv
  <2>2. CASE Vanished(r) /\ Op(r) # "update"
    <3>1. Op(r) = "delete"
      BY <2>2 DEF Vanished
    <3> QED
      BY <2>2, <3>1, LoadKeepsInv
  <2> QED
    BY <1>1, <2>1, <2>2, LoadKeepsInv, GrabKeepsInv, WriteKeepsInv, ClaimKeepsInv, ReferKeepsInv,
       CommitKeepsInv DEF Serve
<1>2. ASSUME NEW r \in Requests, Begin(r) \/ Lose(r) PROVE Inv'
  BY <1>2, BeginKeepsInv, FailKeepsInv DEF Lose, Active, Answers
<1>3. CASE AllAnswered \/ UNCHANGED vars
  BY <1>3
  DEF AllAnswered, vars, Inv, TypeOK, InPlace, LocksHeld, Secured, Exclusive, PricedKept,
      NothingDangles, Op, Key, Item, IsVariety, Referenced
<1> QED
  BY <1>1, <1>2, <1>3 DEF Next

\* Inv holds in every reachable state.
LEMMA Invariance == Spec => []Inv
BY InitInv, NextKeepsInv, PTL DEF Spec

-----------------------------------------------------------------------------
\* Tables, locks and drafts keep their types, whatever the clients ask for.
THEOREM CatalogTypes == Spec => []TypeOK
<1>1. Inv => TypeOK
  BY DEF Inv
<1> QED
  BY <1>1, Invariance, PTL

\* No price loses its variety to a DELETE (catalog.py:4), and no price list that is
\* about to commit will bring one without.
THEOREM PricesKeepVarieties == Spec => []NothingDangles
<1>1. Inv => NothingDangles
  BY DEF Inv
<1> QED
  BY <1>1, Invariance, PTL

-----------------------------------------------------------------------------
(***************************************************************************)
(* PATCHes merge.  From its UPDATE on, a PATCH holds the lock of the row,  *)
(* so the version it has written stays the committed row with its own      *)
(* fields over it; one that sends no UPDATE found the row as asked.        *)
(***************************************************************************)
WillMerge(r) ==
  Op(r) = "update" =>
    /\ pc[r] = "write" => held[r][Target(r)] # "none"
    /\ pc[r] \in {"write", "commit"} /\ held[r][Target(r)] # "none" => draft[r] = Patched(r)
    /\ pc[r] = "commit" /\ held[r][Target(r)] = "none" =>
         \A f \in {"name", "active"} : task[r][f] \in {Same, seen[r][f]}

\* A step of one request leaves the work of the others alone, and the rows
\* they have locked.
LEMMA OneAtATime ==
  ASSUME Inv, NEW r \in Requests, Begin(r) \/ Serve(r) \/ Lose(r), NEW q \in Requests \ {r}
  PROVE  /\ pc'[q] = pc[q] /\ task'[q] = task[q] /\ seen'[q] = seen[q]
         /\ draft'[q] = draft[q] /\ held'[q] = held[q] /\ out'[q] = out[q]
         /\ puts'[q] = puts[q] /\ at'[q] = at[q]
         /\ \A i \in Ids : held[q][i] \in {"soft", "full"} => rows'[i] = rows[i]
<1>1. CASE Begin(r) \/ Load(r) \/ Grab(r) \/ Write(r)
  BY <1>1 DEF Begin, Load, Grab, Write, Inv, TypeOK
<1>2. CASE Claim(r) \/ Refer(r)
  BY <1>2 DEF Claim, Refer, Onward, Inv, TypeOK
<1>3. CASE \E o \in Answers : Fail(r, o)
  BY <1>3 DEF Fail, Finish, Inv, TypeOK
<1>4. CASE Commit(r)
  <2>1. /\ pc'[q] = pc[q] /\ task' = task /\ seen'[q] = seen[q]
        /\ draft'[q] = draft[q] /\ held'[q] = held[q] /\ puts'[q] = puts[q] /\ at'[q] = at[q]
        /\ \A i \in Ids : rows'[i] # rows[i] => held[r][i] \in {"soft", "full"}
    BY <1>4, CommitEffect
  <2>2. out'[q] = out[q]
    BY <1>4 DEF Commit, Finish, Inv, TypeOK
  <2> QED
    BY <2>1, <2>2 DEF Inv, Exclusive
<1>5. CASE Vanished(r)
  BY <1>3, <1>5 DEF Vanished, Answers, Inv, TypeOK
<1>6. CASE Missing(r) \/ InUse(r) \/ Duplicate(r) \/ Invalid(r) \/ Refresh(r) \/ Rejected(r)
             \/ Victim(r) \/ Lose(r)
  BY <1>3, <1>6 DEF Missing, InUse, Duplicate, Invalid, Refresh, Rejected, Misfit, Victim, Lose, Answers
<1> QED
  BY <1>1, <1>2, <1>4, <1>5, <1>6 DEF Serve

\* The steps of a PATCH keep WillMerge of it.
LEMMA OwnMerge ==
  ASSUME Inv, NEW r \in Requests, WillMerge(r), Begin(r) \/ Serve(r) \/ Lose(r)
  PROVE  WillMerge(r)'
<1>1. CASE Begin(r)
  <2>1. PICK t \in Tasks[r] : task' = [task EXCEPT ![r] = t] /\ pc' = [pc EXCEPT ![r] = First(t)]
    BY <1>1 DEF Begin
  <2>2. task'[r] = t /\ pc'[r] = First(t)
    BY <2>1 DEF Inv, TypeOK
  <2>3. t.op = "update" => First(t) = "load"
    BY TaskKinds DEF First
  <2> QED
    BY <2>2, <2>3 DEF WillMerge, Op
<1>2. CASE Load(r)
  <2>1. /\ UNCHANGED <<task, held>> /\ held[r][Target(r)] = "none"
        /\ seen'[r] = Row(r)
        /\ Op(r) = "update" /\ pc'[r] # "grab" =>
             \A f \in {"name", "active"} : ~Differs(r, Row(r), f)
        /\ pc'[r] \in {"grab", "commit"}
    <3>1. pc[r] = "load" /\ Target(r) \in Ids
      BY <1>2, TargetIsKept DEF Load, Inv, InPlace
    <3>2. held[r][Target(r)] = "none"
      BY <3>1 DEF Inv, LocksHeld
    <3> QED
      BY <1>2, <3>2 DEF Load, Inv, TypeOK
  <2>2. Target(r)' = Target(r) /\ Op(r)' = Op(r)
    BY <2>1 DEF Target, Op
  <2> QED
    BY <2>1, <2>2 DEF WillMerge, Differs
<1>3. CASE Grab(r)
  <2>1. CASE Op(r) = "update"
    <3>1. Target(r) \in Ids
      BY <1>3, <2>1, TargetIsKept DEF Grab, Ready
    <3>2. /\ UNCHANGED <<rows, task, seen>>
          /\ draft'[r] = Patched(r) /\ held'[r][Target(r)] = Mode(r)
      BY <1>3, <2>1, <3>1 DEF Grab, Inv, TypeOK
    <3>3. Patched(r)' = Patched(r) /\ Target(r)' = Target(r)
      BY <3>2 DEF Patched, Sets, Differs, Row, Target, Op
    <3>4. Mode(r) # "none"
      BY DEF Mode
    <3> QED
      BY <3>2, <3>3, <3>4 DEF WillMerge
  <2>2. CASE Op(r) # "update"
    BY <1>3, <2>2 DEF Grab, WillMerge, Op
  <2> QED
    BY <2>1, <2>2
<1>4. CASE Write(r)
  <2>1. CASE Op(r) = "update"
    <3>1. Target(r) \in Ids /\ pc[r] = "write"
      BY <1>4, <2>1, TargetIsKept DEF Write, Ready
    <3>2. /\ UNCHANGED <<rows, task, seen, draft>>
          /\ held'[r][Target(r)] = held[r][Target(r)] /\ pc'[r] = "commit"
      BY <1>4, <2>1, <3>1 DEF Write, Inv, TypeOK
    <3>3. Patched(r)' = Patched(r) /\ Target(r)' = Target(r)
      BY <3>2 DEF Patched, Sets, Differs, Row, Target, Op
    <3> QED
      BY <2>1, <3>1, <3>2, <3>3 DEF WillMerge
  <2>2. CASE Op(r) # "update"
    BY <1>4, <2>2 DEF Write, WillMerge, Op
  <2> QED
    BY <2>1, <2>2
<1>5. CASE Claim(r) \/ Refer(r)
  <2>1. task' = task /\ Op(r) = "put"
    BY <1>5 DEF Claim, Refer, Ready, Inv, InPlace
  <2> QED
    BY <2>1 DEF WillMerge, Op
<1>6. CASE \E o \in Answers : Fail(r, o)
  <2>1. pc'[r] = "answered"
    BY <1>6 DEF Fail, Finish, Inv, TypeOK
  <2> QED
    BY <2>1 DEF WillMerge
<1>7. CASE Commit(r)
  BY <1>7, CommitEffect DEF WillMerge
<1>8. CASE Vanished(r)
  <2>1. Op(r) = "update" => \E o \in Answers : Fail(r, o)
    BY <1>8 DEF Vanished, Answers
  <2>2. task' = task
    BY <1>8 DEF Vanished, Fail, Finish
  <2> QED
    BY <1>6, <2>1, <2>2 DEF WillMerge, Op
<1>9. CASE Missing(r) \/ InUse(r) \/ Duplicate(r) \/ Invalid(r) \/ Refresh(r) \/ Rejected(r)
             \/ Victim(r) \/ Lose(r)
  BY <1>6, <1>9 DEF Missing, InUse, Duplicate, Invalid, Refresh, Rejected, Misfit, Victim, Lose, Answers
<1> QED
  BY <1>1, <1>2, <1>3, <1>4, <1>5, <1>7, <1>8, <1>9 DEF Serve

\* The steps of another request keep it, since the lock does.
LEMMA OthersMerge ==
  ASSUME Inv, NEW r \in Requests, Begin(r) \/ Serve(r) \/ Lose(r),
         NEW q \in Requests \ {r}, WillMerge(q)
  PROVE  WillMerge(q)'
<1> SUFFICES ASSUME Op(q)' = "update", pc'[q] \in {"write", "commit"} PROVE WillMerge(q)'
  BY DEF WillMerge
<1>1. /\ pc'[q] = pc[q] /\ task'[q] = task[q] /\ seen'[q] = seen[q]
      /\ draft'[q] = draft[q] /\ held'[q] = held[q]
      /\ \A i \in Ids : held[q][i] \in {"soft", "full"} => rows'[i] = rows[i]
  BY OneAtATime
<1>2. Op(q) = "update" /\ Op(q)' = Op(q) /\ Target(q)' = Target(q) /\ Target(q) \in Ids
  <2>1. Op(q) = "update" /\ Op(q)' = Op(q) /\ Target(q)' = Target(q)
    BY <1>1 DEF Op, Target
  <2> QED
    BY <1>1, <2>1, TargetIsKept
<1>3. ASSUME held[q][Target(q)] # "none" PROVE Patched(q)' = Patched(q)
  <2>1. held[q][Target(q)] \in {"soft", "full"}
    BY <1>2, <1>3 DEF Inv, LocksHeld
  <2>2. rows'[Target(q)] = rows[Target(q)]
    BY <1>1, <1>2, <2>1
  <2> QED
    BY <1>1, <1>2, <2>2 DEF Patched, Sets, Differs, Row
<1> QED
  BY <1>1, <1>2, <1>3 DEF WillMerge

\* WillMerge holds of every request in every reachable state.
LEMMA AlwaysMerging == Spec => []\A r \in Requests : WillMerge(r)
<1>1. Init => \A r \in Requests : WillMerge(r)
  BY DEF Init, WillMerge
<1>2. Inv /\ (\A r \in Requests : WillMerge(r)) /\ [Next]_vars => (\A r \in Requests : WillMerge(r))'
  <2> SUFFICES ASSUME Inv, \A r \in Requests : WillMerge(r), [Next]_vars
               PROVE  \A q \in Requests : WillMerge(q)'
    OBVIOUS
  <2>1. ASSUME NEW r \in Requests, Begin(r) \/ Serve(r) \/ Lose(r)
        PROVE  \A q \in Requests : WillMerge(q)'
    BY <2>1, OwnMerge, OthersMerge
  <2>2. CASE AllAnswered \/ UNCHANGED vars
    <3>1. UNCHANGED <<rows, pc, task, seen, draft, held>>
      BY <2>2 DEF AllAnswered, vars
    <3> SUFFICES ASSUME NEW q \in Requests PROVE WillMerge(q)'
      OBVIOUS
    <3>2. Op(q)' = Op(q) /\ Target(q)' = Target(q) /\ Patched(q)' = Patched(q)
      BY <3>1 DEF Op, Target, Patched, Sets, Differs, Row
    <3> QED
      BY <3>1, <3>2 DEF WillMerge
  <2> QED
    BY <2>1, <2>2 DEF Next
<1> QED
  BY <1>1, <1>2, Invariance, PTL DEF Spec

\* A commit of a PATCH leaves every field alone that it did not name, and sets
\* one it did name, unless it read the value it was to set.
THEOREM PatchesAlwaysMerge == Spec => PatchesMerge
<1> DEFINE Merges(r) ==
      pc[r] = "commit" /\ pc'[r] = "refresh" /\ Op(r) = "update" /\ Row(r) # NoRow =>
        \A f \in {"name", "active"} :
          IF task[r][f] = Same
            THEN rows'[Target(r)][f] = Row(r)[f]
            ELSE task[r][f] \in {rows'[Target(r)][f], seen[r][f]}
<1>1. ASSUME Inv, NEW r \in Requests, WillMerge(r), Commit(r), Op(r) = "update", Row(r) # NoRow
      PROVE  Merges(r)
  <2> DEFINE i == Target(r)
  <2>1. /\ pc[r] = "commit" /\ i \in Ids /\ rows[i] \in Rows /\ rows' = Written(r)
        /\ rows \in [Ids -> Rows \cup {NoRow}]
    BY <1>1, TargetIsKept DEF Commit, Row, Inv, TypeOK
  <2>2. CASE held[r][i] = "none"
    <3>1. rows' = rows
      BY <2>1, <2>2 DEF Written
    <3> QED
      BY <1>1, <2>1, <2>2, <3>1 DEF WillMerge, Row
  <2>3. CASE held[r][i] # "none"
    <3>1. rows'[i] = Patched(r)
      BY <1>1, <2>1, <2>3 DEF Written, WillMerge
    <3>2. ASSUME NEW f \in {"name", "active"}
          PROVE  Patched(r)[f] = IF Sets(r, f) THEN task[r][f] ELSE Row(r)[f]
      BY <2>1 DEF Patched, Row, Rows
    <3> QED
      BY <3>1, <3>2 DEF Sets, Differs
  <2> QED
    BY <2>2, <2>3
<1>2. ASSUME Inv, \A r \in Requests : WillMerge(r), [Next]_vars
      PROVE  \A r \in Requests : Merges(r)
  <2> SUFFICES ASSUME NEW r \in Requests, pc[r] = "commit", pc'[r] = "refresh",
                      Op(r) = "update", Row(r) # NoRow
               PROVE  Merges(r)
    OBVIOUS
  <2>1. PICK q \in Requests : Begin(q) \/ Serve(q) \/ Lose(q)
    BY <1>2 DEF Next, AllAnswered, vars
  <2>2. q = r
    BY <1>2, <2>1, OneAtATime
  <2>3. Commit(r)
    <3>1. ~Begin(r) /\ ~Load(r) /\ ~Grab(r) /\ ~Write(r) /\ ~Claim(r) /\ ~Refer(r) /\ ~Vanished(r)
      BY DEF Begin, Load, Grab, Write, Claim, Refer, Vanished, Ready
    <3>2. ASSUME NEW o \in Answers, Fail(r, o) PROVE FALSE
      BY <1>2, <3>2 DEF Fail, Finish, Inv, TypeOK
    <3>3. ~Missing(r) /\ ~InUse(r) /\ ~Duplicate(r) /\ ~Invalid(r) /\ ~Refresh(r) /\ ~Rejected(r)
            /\ ~Victim(r) /\ ~Lose(r)
      BY <3>2 DEF Missing, InUse, Duplicate, Invalid, Refresh, Rejected, Misfit, Victim, Lose, Answers
    <3> QED
      BY <2>1, <2>2, <3>1, <3>3 DEF Serve
  <2> QED
    BY <1>1, <1>2, <2>3
<1>3. Inv /\ (\A r \in Requests : WillMerge(r)) /\ [Next]_vars =>
        [\A r \in Requests : Merges(r)]_vars
  BY <1>2
<1> QED
  BY <1>3, Invariance, AlwaysMerging, PTL DEF Spec, PatchesMerge

-----------------------------------------------------------------------------
(***************************************************************************)
(* A request that nobody overlaps finds the rows as it left them, so all   *)
(* that can fail it is what it asks for: a value no column holds, or a     *)
(* name in use.  Nothing removes the row of such a failure later, as the   *)
(* tables that do not catch it have no DELETE.                             *)
(***************************************************************************)
TablesKept ==
  \A i \in Kept : rows[i] # NoRow => Opening[i] # NoRow /\ rows[i].table = Opening[i].table

Solo(r) ==
  /\ pc[r] # "answered" => out[r] = "none"
  /\ Active(r) /\ Op(r) = "delete" => draft[r] = NoRow
  /\ pc[r] = "write" => draft[r].name = task[r].name
  /\ alone[r] /\ Active(r) => \A q \in Requests \ {r} : ~Active(q)
  /\ alone[r] /\ pc[r] \in {"grab", "refresh"} => Row(r) # NoRow
  /\ alone[r] /\ pc[r] = "commit" /\ Op(r) \in {"create", "update"} =>
       held[r][Target(r)] # "none" \/ Row(r) # NoRow
  /\ alone[r] /\ out[r] = "error" => Uncaught(r) \/ AsksUnfit(r)

SInv ==
  /\ Inv /\ TablesKept
  /\ \A r \in Requests : WillMerge(r) /\ Solo(r)

\* A step commits, ends its request without a commit, or leaves the tables alone.
LEMMA StepKinds ==
  ASSUME NEW r \in Requests, Begin(r) \/ Serve(r) \/ Lose(r)
  PROVE  /\ Commit(r) \/ rows' = rows
         /\ Begin(r) \/ (Active(r) /\ alone' = alone)
<1>1. CASE Begin(r) \/ Load(r) \/ Grab(r) \/ Write(r) \/ Claim(r) \/ Refer(r) \/ Commit(r)
  BY <1>1 DEF Begin, Load, Grab, Write, Claim, Refer, Commit, Finish, Ready, Active
<1>2. ASSUME NEW o \in Answers, Fail(r, o) PROVE rows' = rows /\ alone' = alone
  BY <1>2 DEF Fail, Finish
<1>3. CASE Missing(r) \/ InUse(r) \/ Duplicate(r) \/ Invalid(r) \/ Refresh(r) \/ Vanished(r)
             \/ Rejected(r)
  BY <1>2, <1>3
  DEF Missing, InUse, Duplicate, Invalid, Refresh, Vanished, Rejected, Misfit, Ready, Active, Answers
<1>4. CASE Victim(r)
  BY <1>2, <1>4 DEF Victim, OnCycle, Blockers, Active, Answers
<1>5. CASE Lose(r)
  BY <1>2, <1>5 DEF Lose, Answers
<1> QED
  BY <1>1, <1>3, <1>4, <1>5 DEF Serve

\* A row keeps its table, and one of a table without DELETE is there for good.
LEMMA RowsStay ==
  ASSUME Inv, TablesKept, NEW r \in Requests, Solo(r), Begin(r) \/ Serve(r) \/ Lose(r)
  PROVE  /\ TablesKept'
         /\ \A i \in Kept :
              rows[i] # NoRow /\ ~Traits[rows[i].table].caught =>
                rows'[i] # NoRow /\ rows'[i].table = rows[i].table
<1>1. CASE rows' = rows
  BY <1>1 DEF TablesKept
<1>2. CASE Commit(r)
  <2>1. ASSUME NEW i \in Kept, rows'[i] # rows[i]
        PROVE  /\ rows[i] # NoRow
               /\ rows'[i] # NoRow => rows'[i].table = rows[i].table
               /\ rows'[i] = NoRow => Traits[rows[i].table].caught
    <3>1. i \in Ids /\ i # r
      BY CatalogAssumption DEF Ids
    <3>2. Op(r) # "put" /\ held[r][i] \in {"soft", "full"} /\ rows'[i] = draft[r]
      BY <1>2, <2>1, <3>1, CommitEffect
    <3>3. CASE Op(r) = "update"
      BY <3>1, <3>2, <3>3 DEF Inv, LocksHeld
    <3>4. CASE Op(r) = "delete"
      <4>1. i = task[r].id /\ pc[r] = "commit" /\ task[r] \in Tasks[r]
        BY <3>1, <3>2, <3>4 DEF Inv, LocksHeld, InPlace
      <4>2. rows'[i] = NoRow /\ rows[i] # NoRow
        BY <2>1, <3>2, <3>4, <4>1 DEF Solo, Active
      <4>3. rows[i] \in Rows /\ rows[i].table \in DOMAIN Traits
        BY <3>1, <4>2 DEF Inv, TypeOK, Rows
      <4>4. Traits[rows[i].table].erasable
        BY <3>4, <4>1, <4>2, CatalogAssumption DEF TablesKept, Op
      <4>5. \A t \in DOMAIN Traits : Traits[t].erasable => Traits[t].caught
        BY DEF Traits, Variety, Accessory, ExpenseItem, Customer, Bank, Vendor, Staff
      <4> QED
        BY <4>2, <4>3, <4>4, <4>5
    <3> QED
      BY <3>1, <3>2, <3>3, <3>4 DEF Inv, LocksHeld
  <2> QED
    BY <2>1 DEF TablesKept
<1> QED
  BY <1>1, <1>2, StepKinds

\* Who is alone stays so only while nobody else does anything.
LEMMA OthersSolo ==
  ASSUME SInv, NEW r \in Requests, Begin(r) \/ Serve(r) \/ Lose(r), NEW q \in Requests \ {r}
  PROVE  Solo(q)'
<1>1. /\ pc'[q] = pc[q] /\ task'[q] = task[q] /\ draft'[q] = draft[q] /\ out'[q] = out[q]
      /\ Op(q)' = Op(q) /\ Target(q)' = Target(q)
  BY OneAtATime DEF SInv, Op, Target
<1>2. alone'[q] => alone[q] /\ ~Active(q)
  <2>1. CASE Begin(r)
    BY <2>1 DEF Begin
  <2>2. CASE ~Begin(r)
    BY <2>2, StepKinds DEF SInv, Solo
  <2> QED
    BY <2>1, <2>2
<1>3. ASSUME alone[q], out[q] = "error", ~AsksUnfit(q)
      PROVE  Uncaught(q)'
  <2>1. Op(q) = "update" /\ Row(q) # NoRow /\ ~Traits[Row(q).table].caught
    BY <1>3 DEF SInv, Solo, Uncaught
  <2>2. Target(q) \in Kept
    <3>1. pc[q] # "idle"
      BY <1>3 DEF SInv, Solo
    <3> QED
      BY <2>1, <3>1, TargetIsKept DEF SInv
  <2>3. rows'[Target(q)] # NoRow /\ rows'[Target(q)].table = rows[Target(q)].table
    BY <2>1, <2>2, RowsStay DEF SInv, Row
  <2> QED
    BY <1>1, <2>1, <2>3 DEF Row, Uncaught
<1>4. AsksUnfit(q)' <=> AsksUnfit(q)
  BY <1>1 DEF AsksUnfit, Op
<1> QED
  BY <1>1, <1>2, <1>3, <1>4 DEF SInv, Solo, Active

\* Nobody blocks a request that is alone.
LEMMA NobodyBlocks ==
  ASSUME SInv, NEW r \in Requests, alone[r], Active(r) PROVE Blockers(r) = {}
<1> SUFFICES ASSUME NEW q \in Blockers(r) PROVE FALSE
  OBVIOUS
<1>1. q \in Requests \ {r} /\ pc[q] \in {"idle", "answered"}
  BY DEF Blockers, SInv, Solo, Active
<1>2. (\A i \in Ids : held[q][i] = "none") /\ DOMAIN puts[q] = {}
  BY <1>1 DEF SInv, Inv, LocksHeld, Secured
<1>3. ~Undecided(q, draft[r].table, draft[r].name)
  BY <1>1 DEF Undecided
<1>4. ~Conflict("share", "none") /\ ~Conflict(Mode(r), "none")
  BY DEF Conflict, Mode
<1>5. pc[r] = "grab" => Target(r) \in Ids
  BY TargetIsKept DEF SInv, Inv, InPlace
<1>6. pc[r] = "refer" => Item(r).id \in Ids
  BY ItemTyped DEF SInv, Inv, InPlace, Ids
<1> QED
  BY <1>2, <1>3, <1>4, <1>5, <1>6 DEF Blockers

\* A request that fails alone does so because of what it asks for.
LEMMA FailsAlone ==
  ASSUME SInv, NEW r \in Requests, NEW o \in Answers, Active(r), Fail(r, o),
         o = "error" /\ alone[r] => Uncaught(r) \/ AsksUnfit(r)
  PROVE  Solo(r)'
<1>1. /\ pc'[r] = "answered" /\ out'[r] = o
      /\ UNCHANGED <<rows, task, alone>>
  BY DEF Fail, Finish, SInv, Inv, TypeOK
<1>2. Op(r)' = Op(r) /\ Row(r)' = Row(r)
  BY <1>1 DEF Op, Row, Target
<1>3. (Uncaught(r)' <=> Uncaught(r)) /\ (AsksUnfit(r)' <=> AsksUnfit(r))
  BY <1>1, <1>2 DEF Uncaught, AsksUnfit
<1> QED
  BY <1>1, <1>2, <1>3 DEF Solo, Active

\* The steps of a request keep Solo of it.
LEMMA OwnSolo ==
  ASSUME SInv, NEW r \in Requests, Begin(r) \/ Serve(r) \/ Lose(r) PROVE Solo(r)'
<1>1. CASE Begin(r)
  <2>1. PICK t \in Tasks[r] : task' = [task EXCEPT ![r] = t] /\ pc' = [pc EXCEPT ![r] = First(t)]
    BY <1>1 DEF Begin
  <2>2. pc'[r] \in {"load", "write", "claim"} /\ out'[r] = "none"
    <3>1. First(t) \in {"load", "write", "claim"}
      BY TaskKinds DEF First
    <3>2. pc[r] = "idle" /\ out' = out
      BY <1>1 DEF Begin
    <3> QED
      BY <2>1, <3>1, <3>2 DEF SInv, Solo, Inv, TypeOK
  <2>3. /\ alone'[r] => \A q \in Requests \ {r} : ~Active(q)
        /\ t.op = "delete" => draft'[r] = NoRow
        /\ pc'[r] = "write" => draft'[r].name = t.name
        /\ task'[r] = t
    <3>1. alone'[r] => \A q \in Requests \ {r} : ~Active(q)
      BY <1>1 DEF Begin
    <3>2. task'[r] = t
      BY <2>1 DEF SInv, Inv, TypeOK
    <3>3. t.op = "delete" => draft'[r] = NoRow
      BY <1>1, <3>2 DEF Begin, SInv, Inv, TypeOK
    <3>4. pc'[r] = "write" => t.op = "create"
      <4>1. First(t) = "write" => t.op = "create"
        BY TaskKinds DEF First
      <4> QED
        BY <2>1, <4>1 DEF SInv, Inv, TypeOK
    <3>5. t.op = "create" => draft'[r].name = t.name
      BY <1>1, <3>2 DEF Begin, SInv, Inv, TypeOK
    <3> QED
      BY <3>1, <3>2, <3>3, <3>4, <3>5
  <2>4. \A q \in Requests \ {r} : Active(q)' = Active(q)
    BY <2>1 DEF Active, SInv, Inv, TypeOK
  <2> QED
    BY <2>2, <2>3, <2>4 DEF Solo, Op
<1>2. ASSUME ~Begin(r), Active(r), pc'[r] \notin {"idle", "answered"} => out'[r] = "none"
      PROVE  /\ alone' = alone
             /\ alone'[r] /\ Active(r)' => \A q \in Requests \ {r} : ~Active(q)'
  <2>1. alone' = alone
    BY <1>2, StepKinds
  <2>2. \A q \in Requests \ {r} : Active(q)' = Active(q)
    BY OneAtATime DEF SInv, Active
  <2> QED
    BY <1>2, <2>1, <2>2 DEF SInv, Solo
<1>3. CASE Load(r)
  <2>1. /\ pc'[r] \in {"grab", "commit"} /\ pc[r] = "load" /\ Row(r) # NoRow
        /\ UNCHANGED <<rows, task, draft, out, alone>>
        /\ pc'[r] = "commit" => Op(r) = "update"
    BY <1>3 DEF Load, SInv, Inv, TypeOK
  <2>2. out[r] = "none" /\ Active(r) /\ ~Begin(r) /\ (Op(r) = "delete" => draft[r] = NoRow)
    BY <2>1 DEF SInv, Solo, Active, Begin
  <2>3. Op(r)' = Op(r) /\ Row(r)' = Row(r)
    BY <2>1 DEF Op, Row, Target
  <2> QED
    BY <1>2, <2>1, <2>2, <2>3 DEF Solo
<1>4. CASE Grab(r)
  <2>1. /\ pc'[r] \in {"write", "commit"} /\ pc[r] = "grab" /\ Row(r) # NoRow
        /\ UNCHANGED <<rows, task, out, alone>>
        /\ Op(r) = "delete" => draft'[r] = NoRow
    BY <1>4 DEF Grab, Ready, SInv, Inv, TypeOK
  <2>4. pc'[r] = "write" => draft'[r].name = task[r].name
    <3>1. Target(r) \in Ids /\ Row(r) \in Rows
      BY <2>1, TargetIsKept DEF SInv, Inv, InPlace, TypeOK, Row
    <3>2. pc'[r] = "write" => draft'[r] = Patched(r) /\ Sets(r, "name")
      BY <1>4, <2>1 DEF Grab, SInv, Inv, TypeOK
    <3>3. Sets(r, "name") => Patched(r).name = task[r].name
      BY <3>1 DEF Patched, Rows
    <3> QED
      BY <3>2, <3>3
  <2>2. out[r] = "none" /\ Active(r) /\ ~Begin(r)
    BY <2>1 DEF SInv, Solo, Active, Begin
  <2>3. Op(r)' = Op(r) /\ Row(r)' = Row(r)
    BY <2>1 DEF Op, Row, Target
  <2> QED
    BY <1>2, <2>1, <2>2, <2>3, <2>4 DEF Solo
<1>5. CASE Vanished(r)
  <2>1. pc[r] = "grab" /\ Row(r) = NoRow /\ Active(r) /\ ~alone[r]
    BY <1>5 DEF Vanished, SInv, Solo, Active
  <2>2. CASE Op(r) = "update"
    BY <1>5, <2>1, <2>2, FailsAlone DEF Vanished, Answers
  <2>3. CASE Op(r) # "update"
    <3>1. /\ Op(r) = "delete" /\ pc'[r] = "commit"
          /\ UNCHANGED <<task, draft, out, alone>>
      BY <1>5, <2>3 DEF Vanished, SInv, Inv, TypeOK
    <3>2. out[r] = "none" /\ Op(r)' = Op(r) /\ draft[r] = NoRow
      BY <2>1, <3>1 DEF SInv, Solo, Op, Active
    <3> QED
      BY <2>1, <3>1, <3>2 DEF Solo
  <2> QED
    BY <2>2, <2>3
<1>6. CASE Write(r)
  <2>1. /\ pc'[r] = "commit" /\ pc[r] = "write" /\ Op(r) \in {"create", "update"}
        /\ UNCHANGED <<rows, task, out, alone>>
        /\ held' = [held EXCEPT ![r][Target(r)] = IF Op(r) = "create" THEN "full" ELSE @]
    BY <1>6 DEF Write, Ready, SInv, Inv, TypeOK, InPlace
  <2>2. Target(r) \in Ids
    BY <2>1, TargetIsKept DEF SInv, Target, Ids
  <2>3. held'[r][Target(r)] # "none"
    BY <2>1, <2>2 DEF SInv, WillMerge, Inv, TypeOK
  <2>4. out[r] = "none" /\ Active(r) /\ ~Begin(r)
    BY <2>1 DEF SInv, Solo, Active, Begin
  <2>5. Op(r)' = Op(r) /\ Target(r)' = Target(r)
    BY <2>1 DEF Op, Target
  <2> QED
    BY <1>2, <2>1, <2>3, <2>4, <2>5 DEF Solo
<1>7. CASE Claim(r) \/ Refer(r)
  <2>1. /\ pc[r] \in {"claim", "refer"} /\ pc'[r] \in {"claim", "refer", "commit"}
        /\ UNCHANGED <<task, out, alone>> /\ Op(r) = "put"
    BY <1>7 DEF Claim, Refer, Onward, Ready, SInv, Inv, TypeOK, InPlace
  <2>2. out[r] = "none" /\ Active(r) /\ ~Begin(r) /\ Op(r)' = Op(r)
    BY <2>1 DEF SInv, Solo, Active, Begin, Op
  <2> QED
    BY <1>2, <2>1, <2>2 DEF Solo
<1>8. CASE Commit(r)
  <2>1. /\ pc[r] = "commit" /\ rows' = Written(r) /\ UNCHANGED <<task, alone>>
        /\ IF Op(r) \in {"create", "update"}
             THEN pc'[r] = "refresh" /\ out'[r] = "none"
             ELSE pc'[r] = "answered" /\ out'[r] = "ok"
    BY <1>8 DEF Commit, Finish, SInv, Inv, TypeOK
  <2>2. Active(r) /\ ~Begin(r) /\ Target(r)' = Target(r) /\ Op(r)' = Op(r)
    BY <2>1 DEF Active, Begin, Target, Op
  <2>3. ASSUME alone[r], Op(r) \in {"create", "update"} PROVE Row(r)' # NoRow
    <3>1. Target(r) \in Ids
      BY <2>1, <2>3, TargetIsKept DEF SInv, Target, Ids
    <3>2. CASE held[r][Target(r)] # "none"
      <4>1. draft[r] # NoRow
        BY <2>1, <2>3, <3>1, <3>2 DEF SInv, Inv, LocksHeld
      <4> QED
        BY <2>1, <2>2, <2>3, <3>1, <3>2, <4>1 DEF Written, Row, SInv, Inv, TypeOK
    <3>3. CASE held[r][Target(r)] = "none"
      BY <2>1, <2>2, <2>3, <3>3 DEF Written, Row, SInv, Solo
    <3> QED
      BY <3>2, <3>3
  <2> QED
    BY <1>2, <2>1, <2>2, <2>3 DEF Solo, Active
<1>9. CASE Missing(r) \/ InUse(r) \/ Invalid(r) \/ Lose(r)
  <2>1. PICK o \in Answers \ {"error"} : Fail(r, o)
    BY <1>9 DEF Missing, InUse, Invalid, Lose, Answers
  <2>2. Active(r)
    BY <1>9 DEF Missing, InUse, Invalid, Lose, Ready, Active
  <2> QED
    BY <2>1, <2>2, FailsAlone
<1>10. CASE Duplicate(r)
  <2>1. pc[r] = "write" /\ Active(r) /\ Fail(r, IF Caught(r) THEN "exists" ELSE "error")
    BY <1>10 DEF Duplicate, Ready, Active
  <2>2. ASSUME ~Caught(r) PROVE Uncaught(r)
    <3>1. Op(r) = "update" /\ Target(r) \in Ids
      BY <2>1, <2>2, TargetIsKept DEF Caught, SInv, Inv, InPlace
    <3>2. held[r][Target(r)] # "none"
      BY <2>1, <3>1 DEF SInv, WillMerge
    <3>3. Row(r) # NoRow /\ draft[r].table = Row(r).table
      BY <3>1, <3>2 DEF SInv, Inv, LocksHeld, Row
    <3> QED
      BY <2>2, <3>1, <3>3 DEF Caught, Uncaught
  <2> QED
    BY <2>1, <2>2, FailsAlone DEF Answers
<1>11. CASE Refresh(r)
  <2>1. pc[r] = "refresh" /\ Active(r) /\ Fail(r, IF Row(r) = NoRow THEN "error" ELSE "ok")
    BY <1>11 DEF Refresh, Active
  <2>2. alone[r] => Row(r) # NoRow
    BY <2>1 DEF SInv, Solo
  <2> QED
    BY <2>1, <2>2, FailsAlone DEF Answers
<1>12. CASE Victim(r)
  <2>1. Active(r) /\ Fail(r, "error") /\ Blockers(r) # {}
    <3>1. Fail(r, "error") /\ Blockers(r) # {}
      BY <1>12 DEF Victim, OnCycle
    <3> QED
      BY <3>1 DEF Blockers, Active
  <2>2. ~alone[r]
    BY <2>1, NobodyBlocks
  <2> QED
    BY <2>1, <2>2, FailsAlone DEF Answers
<1>13. CASE Rejected(r)
  <2>1. Active(r) /\ Fail(r, "error")
    BY <1>13 DEF Rejected, Misfit, Active
  <2>2. AsksUnfit(r)
    <3>1. CASE pc[r] = "claim" /\ Item(r).amount \in Unfit
      BY <3>1 DEF AsksUnfit, Item, SInv, Inv, InPlace
    <3>2. CASE pc[r] = "write" /\ draft[r].name \in Unfit
      BY <3>2 DEF AsksUnfit, SInv, Solo, Inv, InPlace
    <3>3. CASE Op(r) = "update" /\ task[r].name \in Unfit
      BY <3>3 DEF AsksUnfit
    <3> QED
      BY <1>13, <3>1, <3>2, <3>3 DEF Rejected, Misfit
  <2> QED
    BY <2>1, <2>2, FailsAlone DEF Answers
<1> QED
  BY <1>1, <1>3, <1>4, <1>5, <1>6, <1>7, <1>8, <1>9, <1>10, <1>11, <1>12, <1>13 DEF Serve

\* SInv holds in every reachable state.
LEMMA AlwaysSInv == Spec => []SInv
<1>1. Init => SInv
  <2> SUFFICES ASSUME Init PROVE SInv
    OBVIOUS
  <2>1. Inv
    BY InitInv
  <2>2. TablesKept
    BY DEF Init, TablesKept, Ids
  <2>3. \A r \in Requests : WillMerge(r) /\ Solo(r)
    BY DEF Init, WillMerge, Solo, Active
  <2> QED
    BY <2>1, <2>2, <2>3 DEF SInv
<1>2. SInv /\ [Next]_vars => SInv'
  <2> SUFFICES ASSUME SInv, [Next]_vars PROVE SInv'
    OBVIOUS
  <2>1. Inv'
    BY NextKeepsInv DEF SInv
  <2>2. ASSUME NEW r \in Requests, Begin(r) \/ Serve(r) \/ Lose(r)
        PROVE  TablesKept' /\ \A q \in Requests : WillMerge(q)' /\ Solo(q)'
    BY <2>2, RowsStay, OwnMerge, OthersMerge, OwnSolo, OthersSolo DEF SInv
  <2>3. ASSUME UNCHANGED vars
        PROVE  TablesKept' /\ \A q \in Requests : WillMerge(q)' /\ Solo(q)'
    <3>1. UNCHANGED <<rows, pc, task, seen, draft, held, out, alone>>
      BY <2>3 DEF vars
    <3>2. ASSUME NEW q \in Requests PROVE WillMerge(q)' /\ Solo(q)'
      <4>1. Op(q)' = Op(q) /\ Target(q)' = Target(q) /\ Patched(q)' = Patched(q) /\ Row(q)' = Row(q)
        BY <3>1 DEF Op, Target, Patched, Sets, Differs, Row
      <4>2. (Uncaught(q)' <=> Uncaught(q)) /\ (AsksUnfit(q)' <=> AsksUnfit(q))
        BY <3>1, <4>1 DEF Uncaught, AsksUnfit
      <4> QED
        BY <3>1, <4>1, <4>2 DEF SInv, WillMerge, Solo, Active
    <3> QED
      BY <3>1, <3>2 DEF SInv, TablesKept
  <2> QED
    BY <2>1, <2>2, <2>3 DEF Next, AllAnswered, SInv
<1> QED
  BY <1>1, <1>2, PTL DEF Spec

\* Alone, a request is answered 500 for the renaming of an expense item to a name
\* in use, for a value its column cannot hold, and for nothing else.
THEOREM AloneOnlyItsTaskFails == Spec => []OnlyOverlapFails
<1>1. SInv => OnlyOverlapFails
  BY DEF SInv, Solo, OnlyOverlapFails
<1> QED
  BY <1>1, AlwaysSInv, PTL

-----------------------------------------------------------------------------
(***************************************************************************)
(* What prices_for_date resolves to.                                       *)
(***************************************************************************)
LEMMA LatestExists ==
  ASSUME NEW T \in SUBSET Nat, T # {}, NEW d \in Nat, \A e \in T : e <= d
  PROVE  \E m \in T : \A e \in T : e <= m
<1> DEFINE U == {n \in Nat : d - n \in T}
           R == {ss \in Nat \X Nat : ss[1] < ss[2]}
<1>0. IsWellFoundedOn(R, Nat)
  BY NatLessThanWellFounded DEF OpToRel
<1>1. U \subseteq Nat /\ U # {}
  <2>1. PICK e \in T : TRUE
    OBVIOUS
  <2>2. d - e \in Nat /\ d - (d - e) = e
    OBVIOUS
  <2> QED
    BY <2>1, <2>2
<1>2. \E n \in U : \A x \in U : ~(<<x, n>> \in R)
  <2> HIDE DEF U, R
  <2> QED
    BY <1>0, <1>1, WFMin
<1>3. PICK n \in U : \A x \in U : n <= x
  <2>1. PICK n \in U : \A x \in U : ~(<<x, n>> \in R)
    BY <1>2
  <2>2. ASSUME NEW x \in U PROVE n <= x
    <3>1. x \in Nat /\ n \in Nat /\ ~(<<x, n>> \in R)
      BY <2>1
    <3> QED
      BY <3>1
  <2> QED
    BY <2>2
<1>4. d - n \in T /\ n \in Nat
  OBVIOUS
<1>5. ASSUME NEW e \in T PROVE e <= d - n
  <2>1. d - e \in Nat /\ d - (d - e) = e
    OBVIOUS
  <2>2. d - e \in U
    BY <2>1
  <2> QED
    BY <1>3, <1>4, <2>1, <2>2
<1> QED
  BY <1>4, <1>5

\* The dates with a price up to a date, and the one whose price is in force, of
\* any price table.
PricedUpTo(table, i, d) == {e \in Dates : e <= d /\ table[i, e] # NoPrice}
Latest(table, i, d) ==
  CHOOSE e \in PricedUpTo(table, i, d) : \A f \in PricedUpTo(table, i, d) : f <= e

\* The date a price in force is of is the latest of those priced up to a date.
LEMMA LatestInForce ==
  ASSUME NEW table, NEW i, NEW d \in Dates, PricedUpTo(table, i, d) # {}
  PROVE  /\ Latest(table, i, d) \in Dates /\ Latest(table, i, d) \in Nat
         /\ Latest(table, i, d) <= d /\ table[i, Latest(table, i, d)] # NoPrice
         /\ \A f \in Dates : f <= d /\ table[i, f] # NoPrice => f <= Latest(table, i, d)
<1> DEFINE priced(e) == table[i, e] # NoPrice
           P == PricedUpTo(table, i, d)
<1>1. P = {e \in Dates : e <= d /\ priced(e)}
  BY Zenon DEF PricedUpTo
<1>2. P \in SUBSET Nat /\ d \in Nat /\ \A e \in P : e <= d
  <2> HIDE DEF priced, P
  <2> QED
    BY <1>1, CatalogAssumption
<1>3. \E m \in P : \A e \in P : e <= m
  <2>1. P # {}
    OBVIOUS
  <2> HIDE DEF P
  <2> QED
    BY <1>2, <2>1, LatestExists
<1>4. Latest(table, i, d) \in P /\ \A e \in P : e <= Latest(table, i, d)
  BY <1>3, Zenon DEF Latest
<1>5. \A e : e \in P => e \in Dates /\ e <= d /\ priced(e)
  BY <1>1, Zenon
<1>6. \A e \in Dates : e <= d /\ priced(e) => e \in P
  BY <1>1, Zenon
<1> QED
  <2> HIDE DEF priced, P
  <2>1. Latest(table, i, d) \in Nat
    BY <1>2, <1>4
  <2>2. /\ Latest(table, i, d) \in Dates /\ Latest(table, i, d) <= d
        /\ priced(Latest(table, i, d))
    BY <1>4, <1>5
  <2>3. \A f \in Dates : f <= d /\ priced(f) => f <= Latest(table, i, d)
    BY <1>4, <1>6
  <2> QED
    BY <2>1, <2>2, <2>3, Zenon DEF priced

\* What a date resolves to changes only where the price in force on it is set.
LEMMA ResolvedBySetting ==
  ASSUME NEW i, NEW d \in Dates, Resolve(i, d)' # Resolve(i, d)
  PROVE  \E e \in Dates :
           /\ e <= d /\ prices'[i, e] # prices[i, e]
           /\ \A f \in Dates : e < f /\ f <= d => prices[i, f] = NoPrice
<1> DEFINE P == PricedUpTo(prices, i, d)
           Q == PricedUpTo(prices', i, d)
           m == Latest(prices, i, d)
           n == Latest(prices', i, d)
<1>1. Resolve(i, d) = IF P = {} THEN NoPrice ELSE prices[i, m]
  BY Zenon DEF Resolve, Effective, Latest, PricedUpTo
<1>2. Resolve(i, d)' = IF Q = {} THEN NoPrice ELSE prices'[i, n]
  BY Zenon DEF Resolve, Effective, Latest, PricedUpTo
<1>3. P = {} => \A f \in Dates : f <= d => prices[i, f] = NoPrice
  BY Zenon DEF PricedUpTo
<1>4. Q = {} => \A f \in Dates : f <= d => prices'[i, f] = NoPrice
  BY Zenon DEF PricedUpTo
<1>5. P # {} => /\ m \in Dates /\ m \in Nat /\ m <= d /\ prices[i, m] # NoPrice
                /\ \A f \in Dates : f <= d /\ prices[i, f] # NoPrice => f <= m
  BY LatestInForce, Zenon
<1>6. Q # {} => /\ n \in Dates /\ n \in Nat /\ n <= d /\ prices'[i, n] # NoPrice
                /\ \A f \in Dates : f <= d /\ prices'[i, f] # NoPrice => f <= n
  BY LatestInForce, Zenon
<1> DEFINE old(e) == prices[i, e]
           new(e) == prices'[i, e]
<1>7. \E e \in Dates :
        /\ e <= d /\ new(e) # old(e)
        /\ \A f \in Dates : e < f /\ f <= d => old(f) = NoPrice
  <2>1. /\ P = {} => \A f \in Dates : f <= d => old(f) = NoPrice
        /\ Q = {} => \A f \in Dates : f <= d => new(f) = NoPrice
        /\ P # {} => /\ m \in Dates /\ m \in Nat /\ m <= d /\ old(m) # NoPrice
                     /\ \A f \in Dates : f <= d /\ old(f) # NoPrice => f <= m
        /\ Q # {} => /\ n \in Dates /\ n \in Nat /\ n <= d /\ new(n) # NoPrice
                     /\ \A f \in Dates : f <= d /\ new(f) # NoPrice => f <= n
        /\ (IF P = {} THEN NoPrice ELSE old(m)) # (IF Q = {} THEN NoPrice ELSE new(n))
    BY <1>1, <1>2, <1>3, <1>4, <1>5, <1>6, Zenon
  <2> HIDE DEF old, new, P, Q, m, n
  <2>2. Dates \subseteq Nat
    BY CatalogAssumption
  <2>3. CASE P # {} /\ (Q = {} \/ n < m)
    <3>1. new(m) = NoPrice
      BY <2>1, <2>3
    <3> QED
      BY <2>1, <2>2, <2>3, <3>1
  <2>4. CASE Q # {} /\ (P = {} \/ m <= n)
    <3>1. old(n) # new(n)
      BY <2>1, <2>2, <2>4
    <3> QED
      BY <2>1, <2>2, <2>4, <3>1
  <2> QED
    BY <2>1, <2>3, <2>4
<1> QED
  BY <1>7, Zenon

-----------------------------------------------------------------------------
(***************************************************************************)
(* Price lists are whole.  A list has written the items it has claimed,    *)
(* each type at the last amount so far, and commits after the last one.    *)
(***************************************************************************)
Claimed(r) == IF pc[r] = "refer" THEN at[r] ELSE at[r] - 1

ItemKey(t, n) == <<t.items[n].id, t.date>>

\* The prices that the first k items of a list come to.
PutsOf(p, t, k) ==
  /\ DOMAIN p = {ItemKey(t, n) : n \in 1 .. k}
  /\ \A n \in 1 .. k :
       (\A m \in 1 .. k : m > n => t.items[m].id # t.items[n].id) =>
         p[ItemKey(t, n)] = t.items[n].amount

WritesList(r) ==
  pc[r] \in {"claim", "refer", "commit"} /\ Op(r) = "put" =>
    /\ PutsOf(puts[r], task[r], Claimed(r))
    /\ pc[r] = "commit" => Claimed(r) = Len(task[r].items)

\* One more item: its price replaces the one the list may have for its type.
LEMMA OneMoreItem ==
  ASSUME NEW p, NEW t, NEW k \in Nat, PutsOf(p, t, k),
         NEW q, q = [e \in DOMAIN p \cup {ItemKey(t, k + 1)} |->
                       IF e = ItemKey(t, k + 1) THEN t.items[k + 1].amount ELSE p[e]]
  PROVE  PutsOf(q, t, k + 1)
<1>1. \A n \in 1 .. (k + 1) : n \in 1 .. k \/ n = k + 1
  OBVIOUS
<1>2. 1 .. k \subseteq 1 .. (k + 1) /\ k + 1 \in 1 .. (k + 1)
  OBVIOUS
<1>3. DOMAIN q = {ItemKey(t, n) : n \in 1 .. (k + 1)}
  BY <1>1, <1>2 DEF PutsOf
<1>4. ASSUME NEW n \in 1 .. (k + 1),
             \A m \in 1 .. (k + 1) : m > n => t.items[m].id # t.items[n].id
      PROVE  q[ItemKey(t, n)] = t.items[n].amount
  <2>1. CASE n = k + 1
    BY <2>1
  <2>2. CASE n \in 1 .. k
    <3>1. ItemKey(t, n) # ItemKey(t, k + 1)
      BY <1>2, <1>4, <2>2 DEF ItemKey
    <3>2. p[ItemKey(t, n)] = t.items[n].amount /\ ItemKey(t, n) \in DOMAIN p
      BY <1>2, <1>4, <2>2 DEF PutsOf
    <3> QED
      BY <3>1, <3>2
  <2> QED
    BY <1>1, <2>1, <2>2
<1> QED
  BY <1>3, <1>4 DEF PutsOf

\* The statements of a price list keep WritesList of it.
LEMMA OwnList ==
  ASSUME Inv, NEW r \in Requests, WritesList(r), Begin(r) \/ Serve(r) \/ Lose(r)
  PROVE  WritesList(r)'
<1>1. CASE Begin(r)
  <2>1. PICK t \in Tasks[r] : task' = [task EXCEPT ![r] = t] /\ pc' = [pc EXCEPT ![r] = First(t)]
    BY <1>1 DEF Begin
  <2>2. pc'[r] # "refer" /\ pc'[r] # "commit" /\ at'[r] = 1 /\ puts'[r] = puts[r]
    <3>1. First(t) \in {"load", "write", "claim"}
      BY TaskKinds DEF First
    <3>2. pc[r] = "idle" /\ puts' = puts /\ at' = at
      BY <1>1 DEF Begin
    <3> QED
      BY <2>1, <3>1, <3>2 DEF Inv, TypeOK, InPlace
  <2>3. DOMAIN puts[r] = {}
    BY <1>1 DEF Begin, Inv, Secured
  <2>4. Claimed(r)' = 0
    BY <2>2 DEF Claimed
  <2> QED
    BY <2>2, <2>3, <2>4 DEF WritesList, PutsOf
<1>2. CASE Claim(r)
  <2> DEFINE t == task[r]
  <2>1. /\ pc[r] = "claim" /\ Op(r) = "put" /\ task' = task
        /\ puts'[r] = Upserted(r)
        /\ \/ Onward(r)
           \/ pc'[r] = "refer" /\ at' = at
    BY <1>2, ItemTyped DEF Claim, Ready, Inv, TypeOK
  <2>2. at[r] \in 1 .. Len(t.items) /\ Len(t.items) \in Nat
    <3>1. at[r] \in 1 .. Len(t.items) /\ t \in Tasks[r]
      BY <2>1, ItemTyped DEF Inv, InPlace
    <3>2. t.items \in Seq([id : Kept, amount : Amounts])
      BY <2>1, <3>1, TaskKinds DEF Op
    <3> QED
      BY <3>1, <3>2
  <2>3. Claimed(r) = at[r] - 1 /\ at[r] - 1 \in Nat /\ (at[r] - 1) + 1 = at[r]
    BY <2>1, <2>2 DEF Claimed
  <2>4. Claimed(r)' = at[r] /\ (pc'[r] = "commit" => at[r] = Len(t.items))
    BY <2>1, <2>2 DEF Claimed, Onward, Inv, TypeOK
  <2>5. Key(r) = ItemKey(t, at[r]) /\ Item(r).amount = t.items[at[r]].amount
    BY DEF Key, Item, ItemKey
  <2>6. PutsOf(puts[r], t, at[r] - 1)
    BY <2>1, <2>3 DEF WritesList
  <2>7. PutsOf(puts'[r], t, at[r])
    <3>1. puts'[r] = [e \in DOMAIN puts[r] \cup {ItemKey(t, at[r])} |->
                        IF e = ItemKey(t, at[r]) THEN t.items[at[r]].amount ELSE puts[r][e]]
      BY <2>1, <2>5 DEF Upserted
    <3> HIDE DEF t
    <3> QED
      BY <2>3, <2>6, <3>1, OneMoreItem
  <2> QED
    BY <2>1, <2>4, <2>7 DEF WritesList
<1>3. CASE Refer(r)
  <2>1. /\ pc[r] = "refer" /\ Op(r) = "put" /\ task' = task /\ puts' = puts /\ Onward(r)
        /\ at[r] \in 1 .. Len(task[r].items)
    BY <1>3, ItemTyped DEF Refer, Ready
  <2>2. Claimed(r)' = Claimed(r) /\ (pc'[r] = "commit" => at[r] = Len(task[r].items))
    BY <2>1 DEF Claimed, Onward, Inv, TypeOK
  <2>3. Claimed(r) = at[r]
    BY <2>1 DEF Claimed
  <2> QED
    BY <2>1, <2>2, <2>3 DEF WritesList
<1>4. CASE Load(r) \/ Grab(r) \/ Write(r) \/ Vanished(r)
  <2>1. pc[r] \in {"load", "grab", "write"} /\ task' = task
    BY <1>4 DEF Load, Grab, Write, Vanished, Ready, Fail, Finish
  <2> QED
    BY <2>1 DEF WritesList, Op, Inv, InPlace
<1>5. CASE \E o \in Answers : Fail(r, o)
  <2>1. pc'[r] = "answered"
    BY <1>5 DEF Fail, Finish, Inv, TypeOK
  <2> QED
    BY <2>1 DEF WritesList
<1>6. CASE Commit(r)
  BY <1>6, CommitEffect DEF WritesList
<1>7. CASE Missing(r) \/ InUse(r) \/ Duplicate(r) \/ Invalid(r) \/ Refresh(r) \/ Rejected(r)
             \/ Victim(r) \/ Lose(r)
  BY <1>5, <1>7 DEF Missing, InUse, Duplicate, Invalid, Refresh, Rejected, Misfit, Victim, Lose, Answers
<1> QED
  BY <1>1, <1>2, <1>3, <1>4, <1>6, <1>7 DEF Serve

\* WritesList holds of every request in every reachable state.
LEMMA AlwaysListed == Spec => []\A r \in Requests : WritesList(r)
<1>1. Init => \A r \in Requests : WritesList(r)
  BY DEF Init, WritesList
<1>2. Inv /\ (\A r \in Requests : WritesList(r)) /\ [Next]_vars
        => (\A r \in Requests : WritesList(r))'
  <2> SUFFICES ASSUME Inv, \A r \in Requests : WritesList(r), [Next]_vars
               PROVE  \A q \in Requests : WritesList(q)'
    OBVIOUS
  <2>1. ASSUME NEW r \in Requests, Begin(r) \/ Serve(r) \/ Lose(r), NEW q \in Requests \ {r}
        PROVE  WritesList(q)'
    <3>1. pc'[q] = pc[q] /\ task'[q] = task[q] /\ puts'[q] = puts[q] /\ at'[q] = at[q]
      BY <2>1, OneAtATime
    <3>2. Claimed(q)' = Claimed(q)
      BY <3>1 DEF Claimed
    <3> QED
      BY <3>1, <3>2 DEF WritesList, Op
  <2>2. CASE AllAnswered \/ UNCHANGED vars
    BY <2>2 DEF AllAnswered, vars, WritesList, Op, Claimed
  <2> QED
    BY <2>1, <2>2, OwnList DEF Next
<1> QED
  BY <1>1, <1>2, Invariance, PTL DEF Spec

\* The last item of a type is the one whose amount its list has written.
LEMMA LastWritten ==
  ASSUME NEW t, NEW S, t.items \in Seq(S), NEW n \in DOMAIN t.items,
         NEW p, PutsOf(p, t, Len(t.items))
  PROVE  /\ ItemKey(t, n) \in DOMAIN p
         /\ p[ItemKey(t, n)] = LastAmount(t, t.items[n].id)
<1> DEFINE ns == {x \in DOMAIN t.items : t.items[x].id = t.items[n].id}
           last == CHOOSE x \in ns : \A m \in ns : m <= x
<1>1. DOMAIN t.items = 1 .. Len(t.items) /\ Len(t.items) \in Nat
  OBVIOUS
<1>2. n \in ns /\ ns \in SUBSET Nat /\ \A x \in ns : x <= Len(t.items)
  BY <1>1
<1>3. \E x \in ns : \A m \in ns : m <= x
  <2> HIDE DEF ns
  <2> QED
    BY <1>1, <1>2, LatestExists
<1>4. last \in ns /\ \A m \in ns : m <= last
  <2> HIDE DEF ns
  <2> QED
    BY <1>3
<1>5. last \in 1 .. Len(t.items) /\ t.items[last].id = t.items[n].id
  BY <1>1, <1>4
<1>6. ASSUME NEW m \in 1 .. Len(t.items), m > last PROVE t.items[m].id # t.items[last].id
  <2>1. m \notin ns
    <3> HIDE DEF ns, last
    <3> QED
      BY <1>1, <1>2, <1>4, <1>6
  <2> QED
    BY <1>1, <1>5, <2>1
<1>7. ItemKey(t, last) = ItemKey(t, n) /\ LastAmount(t, t.items[n].id) = t.items[last].amount
  BY <1>5 DEF ItemKey, LastAmount
<1> HIDE DEF ns, last
<1>8. p[ItemKey(t, last)] = t.items[last].amount
  BY <1>5, <1>6 DEF PutsOf
<1>9. ItemKey(t, n) \in DOMAIN p
  BY <1>1 DEF PutsOf
<1> QED
  BY <1>7, <1>8, <1>9

\* Only a commit touches the prices.
LEMMA PricesByCommit ==
  ASSUME NEW r \in Requests, Begin(r) \/ Serve(r) \/ Lose(r)
  PROVE  Commit(r) \/ prices' = prices
<1>1. CASE Begin(r) \/ Load(r) \/ Grab(r) \/ Write(r) \/ Claim(r) \/ Refer(r)
  BY <1>1 DEF Begin, Load, Grab, Write, Claim, Refer
<1>2. ASSUME NEW o \in Answers, Fail(r, o) PROVE prices' = prices
  BY <1>2 DEF Fail
<1>3. CASE Missing(r) \/ InUse(r) \/ Duplicate(r) \/ Invalid(r) \/ Refresh(r) \/ Vanished(r)
             \/ Rejected(r) \/ Victim(r) \/ Lose(r)
  BY <1>2, <1>3
  DEF Missing, InUse, Duplicate, Invalid, Refresh, Vanished, Rejected, Victim, Lose, Answers
<1> QED
  BY <1>1, <1>3 DEF Serve

\* The commit of a list sets all its items at their last amounts, and no other price.
LEMMA ListCommitted ==
  ASSUME SInv, NEW r \in Requests, WritesList(r), Commit(r), Op(r) = "put"
  PROVE  \A k \in Keys :
           IF k[2] = task[r].date /\ \E n \in DOMAIN task[r].items : task[r].items[n].id = k[1]
             THEN prices'[k] = LastAmount(task[r], k[1]) /\ prices'[k] \in Amounts
             ELSE prices'[k] = prices[k]
<1> DEFINE t == task[r]
<1>1. /\ pc[r] = "commit"
      /\ prices' = [k \in Keys |-> IF k \in DOMAIN puts[r] THEN puts[r][k] ELSE prices[k]]
      /\ \A k \in DOMAIN puts[r] : puts[r][k] \in Amounts
  BY DEF Commit, SInv, Inv, TypeOK
<1>4. t.items \in Seq([id : Kept, amount : Amounts])
  BY <1>1, TaskKinds DEF SInv, Inv, InPlace, Op
<1>5. PutsOf(puts[r], t, Len(t.items)) /\ DOMAIN t.items = 1 .. Len(t.items)
  BY <1>1, <1>4 DEF WritesList
<1> HIDE DEF t
<1>6. ASSUME NEW k \in Keys
      PROVE  IF k[2] = t.date /\ \E n \in DOMAIN t.items : t.items[n].id = k[1]
               THEN prices'[k] = LastAmount(t, k[1]) /\ prices'[k] \in Amounts
               ELSE prices'[k] = prices[k]
  <2>1. k = <<k[1], k[2]>>
    BY DEF Keys
  <2>2. CASE k[2] = t.date /\ \E n \in DOMAIN t.items : t.items[n].id = k[1]
    <3>1. PICK n \in DOMAIN t.items : t.items[n].id = k[1]
      BY <2>2
    <3>2. ItemKey(t, n) = k
      BY <2>1, <2>2, <3>1 DEF ItemKey
    <3>3. k \in DOMAIN puts[r] /\ puts[r][k] = LastAmount(t, k[1])
      BY <1>4, <1>5, <3>1, <3>2, LastWritten
    <3> QED
      BY <1>1, <2>2, <3>3
  <2>3. CASE ~(k[2] = t.date /\ \E n \in DOMAIN t.items : t.items[n].id = k[1])
    <3>1. k \notin DOMAIN puts[r]
      BY <1>5, <2>1, <2>3 DEF PutsOf, ItemKey
    <3> QED
      BY <1>1, <2>3, <3>1
  <2> QED
    BY <2>2, <2>3
<1> QED
  BY <1>6 DEF t

\* A commit that changes prices is of a list.
LEMMA CommitsWhole ==
  ASSUME SInv, NEW r \in Requests, WritesList(r), Commit(r), prices' # prices
  PROVE  /\ Op(r) = "put" /\ pc[r] = "commit" /\ out'[r] = "ok" /\ out[r] = "none"
         /\ \A k \in Keys :
              prices'[k] =
                IF k[2] = task[r].date /\ \E n \in DOMAIN task[r].items : task[r].items[n].id = k[1]
                  THEN LastAmount(task[r], k[1]) ELSE prices[k]
<1>1. /\ pc[r] = "commit"
      /\ prices' = [k \in Keys |-> IF k \in DOMAIN puts[r] THEN puts[r][k] ELSE prices[k]]
      /\ DOMAIN prices = Keys /\ prices = [k \in Keys |-> prices[k]]
  BY DEF Commit, SInv, Inv, TypeOK
<1>2. Op(r) = "put"
  <2>1. PICK k \in Keys : k \in DOMAIN puts[r]
    BY <1>1
  <2> QED
    BY <2>1 DEF SInv, Inv, Secured
<1>3. out'[r] = "ok" /\ out[r] = "none"
  BY <1>1, <1>2 DEF Commit, Finish, SInv, Solo, Inv, TypeOK
<1> QED
  BY <1>1, <1>2, <1>3, ListCommitted

\* The price table goes from one whole list to the next (pricing.py:112), whatever
\* the lists hold and however they overlap.
THEOREM ListsAlwaysWhole == Spec => ListsAreWhole
<1> DEFINE OneList ==
      \E r \in Requests :
        /\ Op(r) = "put" /\ out'[r] = "ok" /\ out[r] = "none"
        /\ \A k \in Keys :
             prices'[k] =
               IF k[2] = task[r].date /\ \E n \in DOMAIN task[r].items : task[r].items[n].id = k[1]
                 THEN LastAmount(task[r], k[1]) ELSE prices[k]
<1>1. ASSUME SInv, \A r \in Requests : WritesList(r), [Next]_vars, prices' # prices
      PROVE  OneList
  <2>1. PICK r \in Requests : Begin(r) \/ Serve(r) \/ Lose(r)
    BY <1>1 DEF Next, AllAnswered, vars
  <2>2. Commit(r)
    BY <1>1, <2>1, PricesByCommit
  <2> QED
    BY <1>1, <2>2, CommitsWhole
<1>2. SInv /\ (\A r \in Requests : WritesList(r)) /\ [Next]_vars => [prices' # prices => OneList]_vars
  BY <1>1
<1> QED
  BY <1>2, AlwaysSInv, AlwaysListed, PTL DEF Spec, ListsAreWhole

-----------------------------------------------------------------------------
(* And with them what a date resolves to.                                  *)

LEMMA NotBelow == \A x, y \in Nat : x <= y /\ ~(x < y) => y = x
OBVIOUS

\* On the dates a list comes into force on, its amount is what they resolve to.
LEMMA ResolvedToSet ==
  ASSUME NEW i, NEW s \in Dates, NEW d \in Dates, s <= d,
         \A f \in Dates : s < f /\ f <= d => prices'[i, f] = NoPrice,
         prices'[i, s] # NoPrice
  PROVE  Resolve(i, d)' = prices'[i, s]
<1> DEFINE Q == PricedUpTo(prices', i, d)
           n == Latest(prices', i, d)
           new(e) == prices'[i, e]
<1>1. Resolve(i, d)' = IF Q = {} THEN NoPrice ELSE new(n)
  BY Zenon DEF Resolve, Effective, Latest, PricedUpTo
<1>2. Q # {}
  BY Zenon DEF PricedUpTo
<1>3. /\ n \in Dates /\ n \in Nat /\ n <= d /\ new(n) # NoPrice
      /\ \A f \in Dates : f <= d /\ new(f) # NoPrice => f <= n
  BY <1>2, LatestInForce, Zenon
<1>4. /\ \A f \in Dates : s < f /\ f <= d => new(f) = NoPrice
      /\ new(s) # NoPrice
  OBVIOUS
<1>5. n = s
  <2> HIDE DEF new, Q, n
  <2>1. s <= n /\ ~(s < n)
    BY <1>3, <1>4
  <2>2. s \in Nat /\ n \in Nat
    BY <1>3, CatalogAssumption
  <2> QED
    BY <2>1, <2>2, NotBelow, Zenon
<1>6. new(n) = new(s)
  BY <1>5
<1> QED
  BY <1>1, <1>2, <1>6, Zenon

\* A date resolves to what it did, but where a price list commits that comes into
\* force on it: there it resolves to the last amount of the list.
THEOREM PricesAlwaysComeIntoForce == Spec => PricesComeIntoForce
<1> DEFINE Taking ==
      \A i \in Ids, d \in Dates :
        /\ Resolve(i, d)' # Resolve(i, d) => \E r \in Requests : Commits(r) /\ InForce(r, i, d)
        /\ \A r \in Requests :
             Commits(r) /\ InForce(r, i, d) => Resolve(i, d)' = LastAmount(task[r], i)
<1>1. ASSUME SInv, \A r \in Requests : WritesList(r), [Next]_vars,
             NEW i \in Ids, NEW d \in Dates, Resolve(i, d)' # Resolve(i, d)
      PROVE  \E r \in Requests : Commits(r) /\ InForce(r, i, d)
  <2>1. PICK e \in Dates :
          /\ e <= d /\ prices'[i, e] # prices[i, e]
          /\ \A f \in Dates : e < f /\ f <= d => prices[i, f] = NoPrice
    BY <1>1, ResolvedBySetting, Zenon
  <2>2. prices' # prices
    BY <2>1, Zenon
  <2>3. PICK r \in Requests : Begin(r) \/ Serve(r) \/ Lose(r)
    BY <1>1, <2>2 DEF Next, AllAnswered, vars
  <2>4. Commit(r)
    BY <2>2, <2>3, PricesByCommit
  <2>5. Commits(r)
    BY <1>1, <2>2, <2>4, CommitsWhole DEF Commits
  <2>6. <<i, e>> \in Keys /\ <<i, e>>[1] = i /\ <<i, e>>[2] = e
    BY DEF Keys
  <2>7. e = task[r].date /\ \E n \in DOMAIN task[r].items : task[r].items[n].id = i
    BY <1>1, <2>1, <2>2, <2>4, <2>6, CommitsWhole
  <2> QED
    BY <2>1, <2>5, <2>7 DEF InForce
<1>2. ASSUME SInv, \A r \in Requests : WritesList(r), [Next]_vars,
             NEW i \in Ids, NEW d \in Dates, NEW r \in Requests, Commits(r), InForce(r, i, d)
      PROVE  Resolve(i, d)' = LastAmount(task[r], i)
  <2> DEFINE s == task[r].date
  <2>1. Op(r) = "put" /\ pc[r] = "commit" /\ out'[r] = "ok" /\ out[r] # "ok"
    BY <1>2 DEF Commits, SInv, Solo
  <2>2. Commit(r)
    <3>1. PICK q \in Requests : Begin(q) \/ Serve(q) \/ Lose(q)
      BY <1>2, <2>1 DEF Next, AllAnswered, vars
    <3>2. q = r
      BY <1>2, <2>1, <3>1, OneAtATime DEF SInv
    <3>3. ~Begin(r) /\ ~Load(r) /\ ~Grab(r) /\ ~Write(r) /\ ~Claim(r) /\ ~Refer(r)
      BY <2>1 DEF Begin, Load, Grab, Write, Claim, Refer, Ready
    <3>4. ~Missing(r) /\ ~InUse(r) /\ ~Vanished(r) /\ ~Duplicate(r) /\ ~Invalid(r) /\ ~Refresh(r)
            /\ ~Rejected(r)
      BY <2>1
      DEF Missing, InUse, Vanished, Duplicate, Invalid, Refresh, Rejected, Misfit, Ready
    <3>5. ~Fail(r, "error") /\ ~Fail(r, "lost")
      BY <1>2, <2>1 DEF Fail, Finish, SInv, Inv, TypeOK
    <3>6. ~Victim(r) /\ ~Lose(r)
      BY <3>5 DEF Victim, Lose
    <3> QED
      BY <3>1, <3>2, <3>3, <3>4, <3>6 DEF Serve
  <2>3. s \in Dates
    BY <1>2, <2>1, TaskKinds DEF Op, SInv, Inv, InPlace
  <2>4. \A e \in Dates : <<i, e>> \in Keys /\ <<i, e>>[1] = i /\ <<i, e>>[2] = e
    BY DEF Keys
  <2>5. /\ s <= d /\ \E n \in DOMAIN task[r].items : task[r].items[n].id = i
        /\ \A f \in Dates : s < f /\ f <= d => prices[i, f] = NoPrice
    BY <1>2 DEF InForce
  <2>6. prices'[i, s] = LastAmount(task[r], i) /\ prices'[i, s] \in Amounts
    BY <1>2, <2>1, <2>2, <2>3, <2>4, <2>5, ListCommitted
  <2>7. \A f \in Dates : s < f => prices'[i, f] = prices[i, f]
    <3>1. \A f \in Dates : s < f => f # s
      BY <2>3, CatalogAssumption
    <3> QED
      BY <1>2, <2>1, <2>2, <2>4, <3>1, ListCommitted
  <2>8. prices'[i, s] # NoPrice
    BY <2>6, CatalogAssumption
  <2>9. \A f \in Dates : s < f /\ f <= d => prices'[i, f] = NoPrice
    BY <2>5, <2>7, Zenon
  <2>10. Resolve(i, d)' = prices'[i, s]
    BY <2>3, <2>5, <2>8, <2>9, ResolvedToSet, Zenon
  <2> QED
    BY <2>6, <2>10, Zenon
<1>3. SInv /\ (\A r \in Requests : WritesList(r)) /\ [Next]_vars => [Taking]_vars
  BY <1>1, <1>2
<1> QED
  BY <1>3, AlwaysSInv, AlwaysListed, PTL DEF Spec, PricesComeIntoForce
=============================================================================
