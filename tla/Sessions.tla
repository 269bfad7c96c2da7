------------------------------ MODULE Sessions ------------------------------
(***************************************************************************)
(* The refresh tokens of one user: login, refresh and logout               *)
(* (services/auth.py).  A refresh reads the token's row, then the user's,  *)
(* and only then spends the token, all without a lock; the UPDATE that     *)
(* revokes a family works on the rows committed when it started.  A        *)
(* process may die and an answer may get lost at any step; a client that   *)
(* has no answer still holds its old token and presents that.  The check   *)
(* of the password and its throttle are module Throttle.                   *)
(***************************************************************************)
EXTENDS Naturals

CONSTANTS
  Clients,    \* apps and browsers of the user, each holding one refresh token
  Requests,   \* calls under way at a time
  Tokens,     \* refresh tokens there can be (bound)
  Nothing     \* no token, no family, no client

ASSUME SessionsAssumption == Nothing \notin Tokens \cup Clients

VARIABLES
  active,      \* users.is_active
  family,      \* refresh_tokens.family_id, named after the family's first token
  revoked,     \* tokens whose row says revoked
  held,        \* the token each client would present
  req,         \* each call: its step, client and token, and the rows its UPDATE found
  raced,       \* families in which a commit overlapped a call that had read before it (history)
  owed,        \* families whose client has not had the answer to the last refresh (history)
  impatient,   \* families whose client presented a token without that answer (history)
  logged_out,  \* families revoked by a logout (history)
  punished     \* families revoked because a spent token came back (history)

history == <<raced, owed, impatient, logged_out, punished>>
vars == <<active, family, revoked, held, req, history>>

Idle == [at |-> "idle", client |-> Nothing, token |-> Nothing, found |-> {}]

Init ==
  /\ active = TRUE
  /\ family = [t \in Tokens |-> Nothing]
  /\ revoked = {} /\ raced = {} /\ owed = {} /\ impatient = {}
  /\ logged_out = {} /\ punished = {}
  /\ held = [c \in Clients |-> Nothing]
  /\ req = [r \in Requests |-> Idle]

At(r, steps) == req[r].at \in steps
Go(r, step) == req' = [req EXCEPT ![r].at = step]
Start(r, c, step) ==
  req' = [req EXCEPT ![r] = [Idle EXCEPT !.at = step, !.client = c, !.token = held[c]]]
End(r) == req' = [req EXCEPT ![r] = Idle]

Issued == {t \in Tokens : family[t] # Nothing}
Live(f) == {t \in Issued \ revoked : family[t] = f}
FamilyOf(r) == family[req[r].token]

\* The client drops the token it sent, if that is still the one it has.
LetGo(r) == held' = [held EXCEPT ![req[r].client] = IF @ = req[r].token THEN Nothing ELSE @]

\* A random token is one nobody has yet.
NewToken == CHOOSE t \in Tokens : t \notin Issued
Left == Issued # Tokens

-----------------------------------------------------------------------------
\* The login has found an active user with that password.
LogIn(r, c) ==
  /\ At(r, {"idle"}) /\ active
  /\ req' = [req EXCEPT ![r] = [Idle EXCEPT !.at = "welcome", !.client = c]]
  /\ UNCHANGED <<active, family, revoked, held, history>>

\* issue_token_pair: the first token of a new family.
Issue(r) ==
  /\ At(r, {"welcome"}) /\ Left
  /\ family' = [family EXCEPT ![NewToken] = NewToken]
  /\ req' = [req EXCEPT ![r].at = "answering", ![r].token = NewToken]
  /\ UNCHANGED <<active, revoked, held, history>>

\* rotate_refresh_token reads the row of the token the client has.
Present(r, c) ==
  /\ At(r, {"idle"}) /\ held[c] # Nothing
  /\ Start(r, c, IF held[c] \in revoked THEN "reuse" ELSE "read")
  /\ impatient' = impatient \cup ({family[held[c]]} \cap owed)
  /\ UNCHANGED <<active, family, revoked, held, raced, owed, logged_out, punished>>

\* It is past expires_at: 401, and the client lets go of it.
Expired(r) ==
  /\ At(r, {"read"})
  /\ LetGo(r)
  /\ End(r)
  /\ UNCHANGED <<active, family, revoked, history>>

\* Mutant of ReadUser: the token is retired in a commit of its own.
ReadUserSpent(r) ==
  /\ At(r, {"read"})
  /\ revoked' = revoked \cup {req[r].token}
  /\ IF active THEN Go(r, "spending") ELSE End(r)
  /\ UNCHANGED <<active, family, held, history>>

\* The row of the user; one that is not active gets 401.
ReadUser(r) ==
  /\ At(r, {"read"})
  /\ IF active THEN Go(r, "spending") ELSE End(r)
  /\ UNCHANGED <<active, family, revoked, held, history>>

\* A commit of r in its family overlaps calls that act on what they have read.
Race(r) ==
  raced' = raced \cup {f \in {FamilyOf(r)} :
             \E q \in Requests \ {r} :
               At(q, {"read", "spending", "revoking", "leaving"}) /\ FamilyOf(q) = f}

\* Mutant of Spent: the presented token is not retired.
SpentNothing(r) == {}

Spent(r) == {req[r].token}

\* The presented token is retired and its successor added, in one commit.
Rotate(r) ==
  /\ At(r, {"spending"}) /\ Left
  /\ revoked' = revoked \cup Spent(r)
  /\ family' = [family EXCEPT ![NewToken] = FamilyOf(r)]
  /\ owed' = owed \cup {FamilyOf(r)}
  /\ Race(r)
  /\ req' = [req EXCEPT ![r].at = "answering", ![r].token = NewToken]
  /\ UNCHANGED <<active, held, impatient, logged_out, punished>>

\* The new pair reaches the client.
Answer(r) ==
  /\ At(r, {"answering"})
  /\ held' = [held EXCEPT ![req[r].client] = req[r].token]
  /\ owed' = owed \ {FamilyOf(r)}
  /\ End(r)
  /\ UNCHANGED <<active, family, revoked, raced, impatient, logged_out, punished>>

-----------------------------------------------------------------------------
\* logout reads the row of the token, live or not.
Leave(r, c) ==
  /\ At(r, {"idle"}) /\ held[c] # Nothing
  /\ Start(r, c, "logout")
  /\ UNCHANGED <<active, family, revoked, held, history>>

\* Mutant of InFamily: only the presented token is looked for.
OnlyPresented(r) == {req[r].token}

InFamily(r) == Live(FamilyOf(r))

\* _revoke_family: the UPDATE starts and finds the rows committed by now.
FindFamily(r) ==
  /\ At(r, {"reuse", "logout"})
  /\ req' = [req EXCEPT ![r].at = IF At(r, {"reuse"}) THEN "revoking" ELSE "leaving",
                        ![r].found = InFamily(r)]
  /\ UNCHANGED <<active, family, revoked, held, history>>

\* It commits; 401 or 204, and a client that hears it lets go of the token.
RevokeFamily(r) ==
  /\ At(r, {"revoking", "leaving"})
  /\ revoked' = revoked \cup req[r].found
  /\ Race(r)
  /\ IF At(r, {"revoking"})
       THEN punished' = punished \cup {FamilyOf(r)} /\ UNCHANGED logged_out
       ELSE logged_out' = logged_out \cup {FamilyOf(r)} /\ UNCHANGED punished
  /\ UNCHANGED held \/ LetGo(r)
  /\ End(r)
  /\ UNCHANGED <<active, family, owed, impatient>>

\* The process dies before the commit, or the answer gets lost after it.
Cut(r) ==
  /\ ~At(r, {"idle"})
  /\ End(r)
  /\ UNCHANGED <<active, family, revoked, held, history>>

\* PATCH /users/{id}: the tokens stay as they are.
SetActive == active' = ~active /\ UNCHANGED <<family, revoked, held, req, history>>

Next ==
  \/ \E r \in Requests :
       \/ \E c \in Clients : LogIn(r, c) \/ Present(r, c) \/ Leave(r, c)
       \/ Issue(r) \/ Expired(r) \/ ReadUser(r) \/ Rotate(r) \/ Answer(r)
       \/ FindFamily(r) \/ RevokeFamily(r) \/ Cut(r)
  \/ SetActive

Spec == Init /\ [][Next]_vars

-----------------------------------------------------------------------------
Steps == {"idle", "welcome", "read", "spending", "answering",
          "reuse", "logout", "revoking", "leaving"}

\* Types of the table, of what clients hold and of the calls.
TypeOK ==
  /\ active \in BOOLEAN
  /\ family \in [Tokens -> Tokens \cup {Nothing}]
  /\ revoked \subseteq Issued
  /\ held \in [Clients -> Issued \cup {Nothing}]
  /\ req \in [Requests -> [at : Steps, client : Clients \cup {Nothing},
                           token : Issued \cup {Nothing}, found : SUBSET Issued]]
  /\ raced \subseteq Issued /\ owed \subseteq Issued /\ impatient \subseteq Issued
  /\ logged_out \subseteq Issued /\ punished \subseteq Issued

\* However calls fail and are repeated, a family has one live token, unless a
\* refresh committed while another call had read the family and not finished:
\* the row rotate_refresh_token reads is not locked.
OneLiveToken ==
  \A t, u \in Issued \ revoked :
    family[t] = family[u] /\ family[t] \notin raced => t = u

\* "the entire family is revoked" (auth.py:6): after a logout or a reuse no
\* token of the family is live, then or later, unless another call overlapped:
\* a refresh that commits meanwhile adds a token the UPDATE does not see.
EndedIsDead ==
  \A f \in (logged_out \cup punished) \ raced : Live(f) = {}

\* A client is taken for a thief only if it had logged out, had asked again
\* without the answer to its last refresh, or had two calls overlap: a refresh
\* that died before its commit can be repeated, and one after another works.
ReuseIsEarned == punished \subseteq logged_out \cup impatient \cup raced
=============================================================================
