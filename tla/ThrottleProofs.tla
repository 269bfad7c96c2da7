--------------------------- MODULE ThrottleProofs ---------------------------
(***************************************************************************)
(* TypeOK, CounterHasTimer and OvershootIsBounded hold of Throttle for any *)
(* number of logins under way and any threshold.                           *)
(***************************************************************************)
EXTENDS Throttle, FiniteSetTheorems, TLAPS

(***************************************************************************)
(* A login that may still be counted counts already: admission needs a     *)
(* counter below the threshold, and counting only moves a login from one   *)
(* summand to the other.                                                   *)
(***************************************************************************)
Pending == {r \in Requests : pc[r] \in {"admitted", "wrong"}}

PendingIsBounded ==
  fails + Cardinality(Pending) < MaxFails + Cardinality(Requests) + unchecked

Inv == TypeOK /\ CounterHasTimer /\ PendingIsBounded

-----------------------------------------------------------------------------
\* The logins that may still be counted are finitely many, at most all.
LEMMA PendingCount ==
  /\ IsFiniteSet(Requests) /\ Cardinality(Requests) \in Nat
  /\ IsFiniteSet(Pending) /\ Cardinality(Pending) \in Nat
  /\ Cardinality(Pending) <= Cardinality(Requests)
<1>1. Pending \subseteq Requests
  BY DEF Pending
<1>2. QED
  BY <1>1, ThrottleAssumption, FS_Subset, FS_CardinalityType

\* One login begins to be pending, or stops being so.
LEMMA PendingMoves ==
  ASSUME TypeOK, NEW r \in Requests, NEW step \in Steps, Go(r, step)
  PROVE  Cardinality(Pending') =
           Cardinality(Pending)
             + (IF step \in {"admitted", "wrong"} THEN 1 ELSE 0)
             - (IF pc[r] \in {"admitted", "wrong"} THEN 1 ELSE 0)
<1>1. CASE step \in {"admitted", "wrong"}
  <2>1. Pending' = Pending \cup {r}
    BY <1>1 DEF Pending, TypeOK, Go
  <2>2. r \in Pending <=> pc[r] \in {"admitted", "wrong"}
    BY DEF Pending
  <2>3. CASE r \in Pending
    <3>1. Pending' = Pending
      BY <2>1, <2>3
    <3>2. QED
      BY <1>1, <2>2, <2>3, <3>1, PendingCount
  <2>4. CASE r \notin Pending
    <3>1. Cardinality(Pending \cup {r}) = Cardinality(Pending) + 1
      BY <2>4, PendingCount, FS_AddElement
    <3>2. QED
      BY <1>1, <2>1, <2>2, <2>4, <3>1, PendingCount
  <2>5. QED
    BY <2>3, <2>4
<1>2. CASE step \notin {"admitted", "wrong"}
  <2>1. Pending' = Pending \ {r}
    BY <1>2 DEF Pending, TypeOK, Go
  <2>2. r \in Pending <=> pc[r] \in {"admitted", "wrong"}
    BY DEF Pending
  <2>3. CASE r \in Pending
    <3>1. Cardinality(Pending \ {r}) = Cardinality(Pending) - 1
      BY <2>3, PendingCount, FS_RemoveElement
    <3>2. QED
      BY <1>2, <2>1, <2>2, <2>3, <3>1, PendingCount
  <2>4. CASE r \notin Pending
    <3>1. Pending' = Pending
      BY <2>1, <2>4
    <3>2. QED
      BY <1>2, <2>2, <2>4, <3>1, PendingCount
  <2>5. QED
    BY <2>3, <2>4
<1>3. QED
  BY <1>1, <1>2

\* Inv holds at first.
LEMMA InitInv == Init => Inv
<1> SUFFICES ASSUME Init PROVE Inv
  OBVIOUS
<1>1. TypeOK /\ CounterHasTimer
  <2>1. fails \in Nat /\ unchecked \in Nat /\ ~(fails > 0)
    BY DEF Init
  <2>2. QED
    BY <2>1 DEF Init, TypeOK, Steps, CounterHasTimer
<1>2. PendingIsBounded
  <2>1. Pending = {}
    BY DEF Init, Pending
  <2>2. Cardinality(Pending) = 0
    BY <2>1, FS_EmptySet
  <2>3. QED
    BY <2>2, PendingCount, ThrottleAssumption DEF Init, PendingIsBounded
<1>3. QED
  BY <1>1, <1>2 DEF Inv

\* Types, step by step.
LEMMA NextKeepsTypes ==
  ASSUME TypeOK, Next PROVE TypeOK'
<1>1. ASSUME NEW r \in Requests, Admit(r) PROVE TypeOK'
  BY <1>1 DEF TypeOK, Steps, Admit, Go
<1>2. ASSUME NEW r \in Requests, Refuse(r) PROVE TypeOK'
  BY <1>2 DEF TypeOK, Refuse, vars
<1>3. ASSUME NEW r \in Requests, AdmitUnchecked(r) PROVE TypeOK'
  BY <1>3 DEF TypeOK, Steps, AdmitUnchecked, Go
<1>4. ASSUME NEW r \in Requests, Authenticate(r) PROVE TypeOK'
  BY <1>4 DEF TypeOK, Steps, Authenticate, Go
<1>5. ASSUME NEW r \in Requests, CountFailure(r) PROVE TypeOK'
  BY <1>5 DEF TypeOK, Steps, CountFailure, End, Go
<1>6. ASSUME NEW r \in Requests, StartTimer(r) PROVE TypeOK'
  BY <1>6 DEF TypeOK, Steps, StartTimer, Expiring, End, Go
<1>7. ASSUME NEW r \in Requests, Clear(r) PROVE TypeOK'
  BY <1>7 DEF TypeOK, Steps, Clear, End, Go
<1>8. ASSUME NEW r \in Requests, Cut(r) PROVE TypeOK'
  BY <1>8 DEF TypeOK, Steps, Cut, End, Go
<1>9. TimerFires => TypeOK'
  <2>1. TimerFires => fails' \in Nat /\ ~timed'
    BY DEF TimerFires
  <2>2. QED
    BY <2>1, Zenon DEF TypeOK, TimerFires
<1>10. SetActive => TypeOK'
  BY DEF TypeOK, SetActive
<1>11. QED
  BY <1>1, <1>2, <1>3, <1>4, <1>5, <1>6, <1>7, <1>8, <1>9, <1>10 DEF Next

\* The key without expiry, step by step: only the login that created it leaves
\* it so, and only a cut takes that login away.
LEMMA NextKeepsTimer ==
  ASSUME TypeOK, CounterHasTimer, Next PROVE CounterHasTimer'
<1>1. ASSUME NEW r \in Requests, Admit(r) PROVE CounterHasTimer'
  BY <1>1 DEF TypeOK, CounterHasTimer, Admit, Go, At
<1>2. ASSUME NEW r \in Requests, Refuse(r) PROVE CounterHasTimer'
  BY <1>2 DEF CounterHasTimer, Refuse, vars, At
<1>3. ASSUME NEW r \in Requests, AdmitUnchecked(r) PROVE CounterHasTimer'
  BY <1>3 DEF TypeOK, CounterHasTimer, AdmitUnchecked, Go, At
<1>4. ASSUME NEW r \in Requests, Authenticate(r) PROVE CounterHasTimer'
  BY <1>4 DEF TypeOK, CounterHasTimer, Authenticate, Go, At
<1>5. ASSUME NEW r \in Requests, CountFailure(r) PROVE CounterHasTimer'
  BY <1>5 DEF TypeOK, CounterHasTimer, CountFailure, StartsTimer, End, Go, At
<1>6. ASSUME NEW r \in Requests, StartTimer(r) PROVE CounterHasTimer'
  BY <1>6 DEF TypeOK, CounterHasTimer, StartTimer, Expiring
<1>7. ASSUME NEW r \in Requests, Clear(r) PROVE CounterHasTimer'
  BY <1>7 DEF CounterHasTimer, Clear
<1>8. ASSUME NEW r \in Requests, Cut(r) PROVE CounterHasTimer'
  BY <1>8 DEF TypeOK, CounterHasTimer, Cut, End, Go, At
<1>9. TimerFires => CounterHasTimer'
  BY DEF CounterHasTimer, TimerFires
<1>10. SetActive => CounterHasTimer'
  BY DEF CounterHasTimer, SetActive, At
<1>11. QED
  BY <1>1, <1>2, <1>3, <1>4, <1>5, <1>6, <1>7, <1>8, <1>9, <1>10 DEF Next

\* The bound, step by step.
LEMMA NextKeepsBound ==
  ASSUME TypeOK, PendingIsBounded, Next PROVE PendingIsBounded'
<1> USE DEF PendingIsBounded
<1>0. /\ Cardinality(Requests) \in Nat /\ Cardinality(Pending) \in Nat
      /\ fails \in Nat /\ unchecked \in Nat /\ MaxFails \in Nat
  BY PendingCount, ThrottleAssumption DEF TypeOK
<1>1. ASSUME NEW r \in Requests, Admit(r) PROVE PendingIsBounded'
  <2>1. Pending' \subseteq Requests
    BY DEF Pending
  <2>2. Cardinality(Pending') <= Cardinality(Requests) /\ Cardinality(Pending') \in Nat
    BY <2>1, PendingCount, FS_Subset, FS_CardinalityType
  <2>3. QED
    BY <1>0, <1>1, <2>2 DEF Admit, Blocked
<1>2. ASSUME NEW r \in Requests, Refuse(r) PROVE PendingIsBounded'
  BY <1>2 DEF Refuse, vars, Pending
<1>3. ASSUME NEW r \in Requests, AdmitUnchecked(r) PROVE PendingIsBounded'
  <2>1. Cardinality(Pending') = Cardinality(Pending) + 1
    BY <1>0, <1>3, PendingMoves DEF AdmitUnchecked, Steps, At
  <2>2. QED
    BY <1>0, <1>3, <2>1 DEF AdmitUnchecked
<1>4. ASSUME NEW r \in Requests, Authenticate(r) PROVE PendingIsBounded'
  <2>1. Cardinality(Pending') <= Cardinality(Pending) /\ Cardinality(Pending') \in Int
    BY <1>0, <1>4, PendingMoves DEF Authenticate, Steps, At
  <2>2. QED
    BY <1>0, <1>4, <2>1 DEF Authenticate
<1>5. ASSUME NEW r \in Requests, CountFailure(r) PROVE PendingIsBounded'
  <2>1. Cardinality(Pending') = Cardinality(Pending) - 1
    BY <1>0, <1>5, PendingMoves DEF CountFailure, End, Steps, At
  <2>2. QED
    BY <1>0, <1>5, <2>1 DEF CountFailure
<1>6. ASSUME NEW r \in Requests, StartTimer(r) PROVE PendingIsBounded'
  <2>1. Cardinality(Pending') = Cardinality(Pending)
    BY <1>0, <1>6, PendingMoves DEF StartTimer, End, Steps, At
  <2>2. QED
    BY <1>0, <1>6, <2>1 DEF StartTimer
<1>7. ASSUME NEW r \in Requests, Clear(r) PROVE PendingIsBounded'
  <2>1. Cardinality(Pending') = Cardinality(Pending)
    BY <1>0, <1>7, PendingMoves DEF Clear, End, Steps, At
  <2>2. QED
    BY <1>0, <1>7, <2>1 DEF Clear
<1>8. ASSUME NEW r \in Requests, Cut(r) PROVE PendingIsBounded'
  <2>1. Cardinality(Pending') <= Cardinality(Pending) /\ Cardinality(Pending') \in Int
    BY <1>0, <1>8, PendingMoves DEF Cut, End, Steps
  <2>2. QED
    BY <1>0, <1>8, <2>1 DEF Cut
<1>9. TimerFires => PendingIsBounded'
  <2>1. TimerFires => Pending' = Pending
    BY DEF TimerFires, Pending
  <2>2. QED
    BY <1>0, <2>1 DEF TimerFires
<1>10. SetActive => PendingIsBounded'
  BY DEF SetActive, Pending
<1>11. QED
  BY <1>1, <1>2, <1>3, <1>4, <1>5, <1>6, <1>7, <1>8, <1>9, <1>10 DEF Next

\* Inv holds in every reachable state.
LEMMA Invariance == Spec => []Inv
<1>1. Inv /\ [Next]_vars => Inv'
  <2>1. CASE Next
    BY <2>1, NextKeepsTypes, NextKeepsTimer, NextKeepsBound DEF Inv
  <2>2. CASE UNCHANGED vars
    BY <2>2 DEF Inv, TypeOK, CounterHasTimer, PendingIsBounded, Pending, At, vars
  <2>3. QED
    BY <2>1, <2>2
<1>2. QED
  BY InitInv, <1>1, PTL DEF Spec

-----------------------------------------------------------------------------
\* Types of the counter and of the logins, for any number of them.
THEOREM ThrottleTypes == Spec => []TypeOK
<1>1. Inv => TypeOK
  BY DEF Inv
<1>2. QED
  BY <1>1, Invariance, PTL

\* INCR and EXPIRE (rate_limit.py:35): a counter has its expiry, or the call
\* that sets it is under way or was lost.
THEOREM CounterKeepsTimer == Spec => []CounterHasTimer
<1>1. Inv => CounterHasTimer
  BY DEF Inv
<1>2. QED
  BY <1>1, Invariance, PTL

\* The check when a login starts and the count when it ends (routes/auth.py:20):
\* the failures exceed the threshold by less than what can be under way.
THEOREM Overshoot == Spec => []OvershootIsBounded
<1>1. Inv => OvershootIsBounded
  BY PendingCount, ThrottleAssumption
  DEF Inv, TypeOK, PendingIsBounded, OvershootIsBounded
<1>2. QED
  BY <1>1, Invariance, PTL
=============================================================================
