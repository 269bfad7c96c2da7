------------------------------ MODULE Throttle ------------------------------
(***************************************************************************)
(* The logins of one phone number (api/routes/auth.py) and the counter of  *)
(* its failures in Redis (core/rate_limit.py).  The limit is looked at     *)
(* when a login starts and the failure counted when it ends, so logins     *)
(* under way together do not see each other.  Every call to Redis may fail *)
(* and the handler then goes on without it; the process may die at any     *)
(* step.  What a login hands out is the subject of module Sessions.        *)
(***************************************************************************)
EXTENDS Naturals, FiniteSets

CONSTANTS
  Requests,      \* logins under way at a time
  MaxFails,      \* login_rate_limit_max
  MaxUnchecked,  \* bound: logins let through because Redis did not answer
  MaxCount       \* bound on the counter

ASSUME ThrottleAssumption ==
  /\ IsFiniteSet(Requests)
  /\ MaxFails \in Nat \ {0}
  /\ MaxUnchecked \in Nat
  /\ MaxCount \in Nat

VARIABLES
  fails,       \* login:fail:<phone>; 0 when there is no such key
  timed,       \* the key has an expiry
  active,      \* users.is_active
  pc,          \* where each login is
  timer_lost,  \* an EXPIRE was lost after its INCR (history)
  unchecked    \* logins let through unchecked (history)

vars == <<fails, timed, active, pc, timer_lost, unchecked>>

Init ==
  /\ fails = 0 /\ timed = FALSE /\ active = TRUE
  /\ pc = [r \in Requests |-> "idle"]
  /\ timer_lost = FALSE /\ unchecked = 0

At(r, step) == pc[r] = step
Go(r, step) == pc' = [pc EXCEPT ![r] = step]
End(r) == Go(r, "idle")

-----------------------------------------------------------------------------
\* Mutant of Blocked: one failure more than the setting is let through.
BlockedLate == fails > MaxFails

\* is_login_blocked, when Redis answers.
Blocked == fails >= MaxFails

\* The login starts; one that finds the phone blocked is answered 429.
Admit(r) ==
  /\ At(r, "idle") /\ ~Blocked
  /\ Go(r, "admitted")
  /\ UNCHANGED <<fails, timed, active, timer_lost, unchecked>>

Refuse(r) == At(r, "idle") /\ Blocked /\ UNCHANGED vars

\* Redis does not answer: the login proceeds unthrottled.
AdmitUnchecked(r) ==
  /\ At(r, "idle") /\ unchecked < MaxUnchecked
  /\ unchecked' = unchecked + 1
  /\ Go(r, "admitted")
  /\ UNCHANGED <<fails, timed, active, timer_lost>>

\* authenticate_user: no such active user, or the password is not the user's.
Authenticate(r) ==
  /\ At(r, "admitted")
  /\ Go(r, "wrong") \/ (active /\ Go(r, "right"))
  /\ UNCHANGED <<fails, timed, active, timer_lost, unchecked>>

\* Mutant of StartsTimer: the expiry is only set beyond the limit.
StartsTimerLate(n) == n = MaxFails + 1

StartsTimer(n) == n = 1

\* Mutant of CountFailure: GET and SET, which drops the expiry the key has.
CountBySet(r) ==
  /\ At(r, "wrong") /\ fails < MaxCount
  /\ fails' = fails + 1 /\ timed' = FALSE
  /\ IF StartsTimer(fails + 1) THEN Go(r, "counted") ELSE End(r)
  /\ UNCHANGED <<active, timer_lost, unchecked>>

\* record_login_failure: INCR, which keeps the expiry the key has.
CountFailure(r) ==
  /\ At(r, "wrong") /\ fails < MaxCount
  /\ fails' = fails + 1
  /\ IF StartsTimer(fails + 1) THEN Go(r, "counted") ELSE End(r)
  /\ UNCHANGED <<timed, active, timer_lost, unchecked>>

Expiring == timed \/ fails > 0

\* EXPIRE, a call of its own; without the key it does nothing.
StartTimer(r) ==
  /\ At(r, "counted")
  /\ timed' = Expiring
  /\ End(r)
  /\ UNCHANGED <<fails, active, timer_lost, unchecked>>

\* clear_login_failures; the user is in.
Clear(r) ==
  /\ At(r, "right")
  /\ fails' = 0 /\ timed' = FALSE
  /\ End(r)
  /\ UNCHANGED <<active, timer_lost, unchecked>>

\* Redis fails in one of the three and the exception is swallowed; or the
\* process dies.
Cut(r) ==
  /\ ~At(r, "idle")
  /\ timer_lost' = (timer_lost \/ At(r, "counted"))
  /\ End(r)
  /\ UNCHANGED <<fails, timed, active, unchecked>>

\* The time is up: Redis drops the key.
TimerFires ==
  /\ timed
  /\ fails' = 0 /\ timed' = FALSE
  /\ UNCHANGED <<active, pc, timer_lost, unchecked>>

\* PATCH /users/{id}.
SetActive == active' = ~active /\ UNCHANGED <<fails, timed, pc, timer_lost, unchecked>>

Next ==
  \/ \E r \in Requests :
       \/ Admit(r) \/ Refuse(r) \/ AdmitUnchecked(r) \/ Authenticate(r)
       \/ CountFailure(r) \/ StartTimer(r) \/ Clear(r) \/ Cut(r)
  \/ TimerFires \/ SetActive

\* A call that is not cut off goes on, and Redis drops a key whose time is up;
\* nobody must log in.
Fairness == WF_vars(TimerFires) /\ \A r \in Requests : WF_vars(StartTimer(r))

Spec == Init /\ [][Next]_vars /\ Fairness

-----------------------------------------------------------------------------
Steps == {"idle", "admitted", "wrong", "counted", "right"}

\* Types of the counter and of the logins; no expiry without a key.
TypeOK ==
  /\ fails \in Nat /\ timed \in BOOLEAN /\ active \in BOOLEAN
  /\ timed => fails > 0
  /\ pc \in [Requests -> Steps]
  /\ timer_lost \in BOOLEAN /\ unchecked \in Nat

\* "blocks once the threshold is reached" (rate_limit.py:3): logins under way
\* together are checked before any of them is counted, so the failures go
\* beyond the threshold, by as many as can be under way and no more; each
\* login Redis did not answer adds one.
OvershootIsBounded == fails < MaxFails + Cardinality(Requests) + unchecked

\* INCR and EXPIRE are two calls: a counter without expiry is one whose EXPIRE
\* is still to come, or was lost.
CounterHasTimer ==
  fails > 0 /\ ~timed => timer_lost \/ \E r \in Requests : At(r, "counted")

\* A phone that is blocked is let in again once the window is over, unless the
\* EXPIRE of its counter was lost: only a login that was already past the check
\* can still clear it then, as no other one succeeds while the phone is blocked.
BlockIsLifted == Blocked ~> (~Blocked \/ timer_lost)
=============================================================================
