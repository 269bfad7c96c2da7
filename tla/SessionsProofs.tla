---------------------------- MODULE SessionsProofs ----------------------------
(***************************************************************************)
(* OneLiveToken, EndedIsDead and ReuseIsEarned hold of Sessions for any    *)
(* number of clients, calls and tokens.                                    *)
(***************************************************************************)
EXTENDS Sessions, TLAPS

Reading == {"read", "spending"}
Sweeping == {"revoking", "leaving"}
Accusing == {"reuse", "revoking"}
Excused == logged_out \cup impatient \cup raced

Knows(c, f) ==
  \/ held[c] # Nothing /\ family[held[c]] = f
  \/ \E r \in Requests : req[r].client = c /\ req[r].token # Nothing /\ FamilyOf(r) = f

(***************************************************************************)
(* The inductive invariant.                                                *)
(***************************************************************************)

\* A family is one of the tokens, issued with it.
FamiliesIssued == \A t \in Issued : family[t] \in Issued

\* A call has a client, and a token unless it is a login under way.
CallsHaveTokens ==
  \A r \in Requests :
    /\ ~At(r, {"idle"}) => req[r].client \in Clients
    /\ ~At(r, {"idle", "welcome"}) => req[r].token \in Issued
    /\ At(r, {"idle", "welcome"}) => req[r].token = Nothing

\* What a call has read of a family that no race has touched is still so:
\* the token to be spent is live, and an UPDATE has found all live rows.
ReadsHold ==
  \A r \in Requests :
    /\ At(r, Reading) /\ FamilyOf(r) \notin raced => req[r].token \notin revoked
    /\ At(r, Sweeping) => \A t \in req[r].found : family[t] = FamilyOf(r)
    /\ At(r, Sweeping) /\ FamilyOf(r) \notin raced => Live(FamilyOf(r)) \subseteq req[r].found

\* A family is used by one client.
OneClient == \A c, d \in Clients, f \in Tokens : Knows(c, f) /\ Knows(d, f) => c = d

\* A token whose answer is under way is nobody's yet, and will be good.
AnswersAreFresh ==
  \A r \in Requests :
    At(r, {"answering"}) =>
      /\ \A c \in Clients : held[c] # req[r].token
      /\ \A q \in Requests \ {r} : req[q].token # req[r].token
      /\ req[r].token \notin revoked \/ FamilyOf(r) \in Excused

\* A client holds a spent token only if it is excused or still owed an answer.
HeldIsLive ==
  \A c \in Clients :
    held[c] \in revoked => family[held[c]] \in Excused \cup owed

AccusedAreExcused == \A r \in Requests : At(r, Accusing) => FamilyOf(r) \in Excused

Inv ==
  /\ TypeOK /\ FamiliesIssued /\ CallsHaveTokens /\ ReadsHold /\ OneClient
  /\ AnswersAreFresh /\ HeldIsLive /\ AccusedAreExcused
  /\ OneLiveToken /\ EndedIsDead /\ ReuseIsEarned

-----------------------------------------------------------------------------
\* A fresh token was never issued.
LEMMA NewTokenIsNew ==
  ASSUME Left PROVE NewToken \in Tokens /\ NewToken \notin Issued
BY DEF Left, NewToken, Issued

\* One lemma per action, one step per conjunct of the invariant.
LEMMA LogInKeepsInv ==
  ASSUME Inv, NEW r \in Requests, NEW c \in Clients, LogIn(r, c)
  PROVE  Inv'
<1>1. TypeOK'
  BY DEF Inv, TypeOK, Steps, Issued, LogIn, At, Idle, history
<1>2. FamiliesIssued'
  BY DEF Inv, FamiliesIssued, Issued, LogIn, At, Idle, history
<1>3. CallsHaveTokens'
  BY DEF Inv, CallsHaveTokens, Issued, At, LogIn, Idle, history
<1>4. ReadsHold'
  BY DEF Inv, ReadsHold, Reading, Sweeping, Live, FamilyOf, Issued, At, LogIn, Idle,
     history
<1>5. OneClient'
  BY DEF Inv, OneClient, Knows, FamilyOf, LogIn, At, Idle, history
<1>6. AnswersAreFresh'
  BY SessionsAssumption DEF Inv, AnswersAreFresh, FamilyOf, Excused, At, TypeOK,
     Issued, CallsHaveTokens, FamiliesIssued, LogIn, Idle, history
<1>7. HeldIsLive'
  BY DEF Inv, HeldIsLive, Excused, LogIn, At, Idle, history
<1>8. AccusedAreExcused'
  BY DEF Inv, AccusedAreExcused, Accusing, Excused, FamilyOf, At, LogIn, Idle, history
<1>9. OneLiveToken'
  BY DEF Inv, OneLiveToken, Issued, LogIn, At, Idle, history
<1>10. EndedIsDead'
  BY DEF Inv, EndedIsDead, Live, Issued, LogIn, At, Idle, history
<1>11. ReuseIsEarned'
  BY DEF Inv, ReuseIsEarned, LogIn, At, Idle, history
<1>12. QED  BY <1>1, <1>2, <1>3, <1>4, <1>5, <1>6, <1>7, <1>8, <1>9, <1>10, <1>11 DEF Inv

\* The commit of a login's first token keeps Inv.
LEMMA IssueKeepsInv ==
  ASSUME Inv, NEW r \in Requests, Issue(r)
  PROVE  Inv'
<1>1. TypeOK'
  BY NewTokenIsNew, SessionsAssumption DEF Inv, TypeOK, Steps, Issued,
     CallsHaveTokens, FamiliesIssued, FamilyOf, At, Issue, Idle, history
<1>2. FamiliesIssued'
  BY NewTokenIsNew DEF Inv, FamiliesIssued, Issued, Issue, At, Idle, history
<1>3. CallsHaveTokens'
  BY NewTokenIsNew, SessionsAssumption DEF Inv, CallsHaveTokens, Issued, At, TypeOK,
     FamiliesIssued, FamilyOf, Issue, Idle, history
<1>4. ReadsHold'
  BY NewTokenIsNew DEF Inv, ReadsHold, Reading, Sweeping, Live, FamilyOf, Issued,
     At, TypeOK, Issue, Idle, history
<1>5. OneClient'
  BY NewTokenIsNew DEF Inv, OneClient, Knows, FamilyOf, TypeOK, Issued, Issue, At,
     Idle, history
<1>6. AnswersAreFresh'
  BY NewTokenIsNew, SessionsAssumption DEF Inv, AnswersAreFresh, FamilyOf, Excused,
     At, TypeOK, Issued, CallsHaveTokens, FamiliesIssued, Issue, Idle, history
<1>7. HeldIsLive'
  BY NewTokenIsNew DEF Inv, HeldIsLive, Excused, TypeOK, Issued, FamilyOf, Issue,
     At, Idle, history
<1>8. AccusedAreExcused'
  BY NewTokenIsNew DEF Inv, AccusedAreExcused, Accusing, Excused, FamilyOf, At,
     TypeOK, Issued, Issue, Idle, history
<1>9. OneLiveToken'
  BY NewTokenIsNew DEF Inv, OneLiveToken, Issued, TypeOK, FamilyOf, Issue, At, Idle,
     history
<1>10. EndedIsDead'
  BY NewTokenIsNew DEF Inv, EndedIsDead, Live, Issued, TypeOK, FamilyOf, Issue, At,
     Idle, history
<1>11. ReuseIsEarned'
  BY NewTokenIsNew DEF Inv, ReuseIsEarned, Issue, At, Idle, history
<1>12. QED  BY <1>1, <1>2, <1>3, <1>4, <1>5, <1>6, <1>7, <1>8, <1>9, <1>10, <1>11 DEF Inv

\* The SELECT of the presented token keeps Inv.
LEMMA PresentKeepsInv ==
  ASSUME Inv, NEW r \in Requests, NEW c \in Clients, Present(r, c)
  PROVE  Inv'
<1>1. TypeOK'
  BY DEF Inv, TypeOK, Steps, Issued, Present, Start, At, Idle, history
<1>2. FamiliesIssued'
  BY DEF Inv, FamiliesIssued, Issued, Present, Start, At, Idle, history
<1>3. CallsHaveTokens'
  BY DEF Inv, CallsHaveTokens, Issued, At, TypeOK, FamilyOf, Present, Start, Idle,
     history
<1>4. ReadsHold'
  BY DEF Inv, ReadsHold, Reading, Sweeping, Live, FamilyOf, Issued, At, Present,
     Start, Idle, history
<1>5. OneClient'
  BY DEF Inv, OneClient, Knows, FamilyOf, Present, Start, At, Idle, history
<1>6. AnswersAreFresh'
  BY DEF Inv, AnswersAreFresh, FamilyOf, Excused, At, Present, Start, Idle, history
<1>7. HeldIsLive'
  BY DEF Inv, HeldIsLive, Excused, Present, Start, At, Idle, history
<1>8. AccusedAreExcused'
  BY SessionsAssumption DEF Inv, TypeOK, CallsHaveTokens, HeldIsLive,
     AccusedAreExcused, Excused, Accusing, Present, Start, Issued, FamilyOf, At,
     Idle, history
<1>9. OneLiveToken'
  BY DEF Inv, OneLiveToken, Issued, Present, Start, At, Idle, history
<1>10. EndedIsDead'
  BY DEF Inv, EndedIsDead, Live, Issued, Present, Start, At, Idle, history
<1>11. ReuseIsEarned'
  BY DEF Inv, ReuseIsEarned, Present, Start, At, Idle, history
<1>12. QED  BY <1>1, <1>2, <1>3, <1>4, <1>5, <1>6, <1>7, <1>8, <1>9, <1>10, <1>11 DEF Inv

\* The refusal of an expired token keeps Inv.
LEMMA ExpiredKeepsInv ==
  ASSUME Inv, NEW r \in Requests, Expired(r)
  PROVE  Inv'
<1>1. TypeOK'
  BY DEF Inv, TypeOK, Steps, Issued, Expired, LetGo, End, At, Idle, history
<1>2. FamiliesIssued'
  BY DEF Inv, FamiliesIssued, Issued, Expired, LetGo, End, At, Idle, history
<1>3. CallsHaveTokens'
  BY DEF Inv, CallsHaveTokens, Issued, At, Expired, LetGo, End, Idle, history
<1>4. ReadsHold'
  BY DEF Inv, ReadsHold, Reading, Sweeping, Live, FamilyOf, Issued, At, Expired,
     LetGo, End, Idle, history
<1>5. OneClient'
  BY DEF Inv, OneClient, Knows, FamilyOf, Expired, LetGo, End, At, Idle, history
<1>6. AnswersAreFresh'
  BY SessionsAssumption DEF Inv, AnswersAreFresh, FamilyOf, Excused, At, TypeOK,
     Issued, CallsHaveTokens, FamiliesIssued, Expired, LetGo, End, Idle, history
<1>7. HeldIsLive'
  BY SessionsAssumption DEF Inv, HeldIsLive, Excused, TypeOK, Issued,
     CallsHaveTokens, FamiliesIssued, FamilyOf, At, Expired, LetGo, End, Idle,
     history
<1>8. AccusedAreExcused'
  BY DEF Inv, AccusedAreExcused, Accusing, Excused, FamilyOf, At, Expired, LetGo,
     End, Idle, history
<1>9. OneLiveToken'
  BY DEF Inv, OneLiveToken, Issued, Expired, LetGo, End, At, Idle, history
<1>10. EndedIsDead'
  BY DEF Inv, EndedIsDead, Live, Issued, Expired, LetGo, End, At, Idle, history
<1>11. ReuseIsEarned'
  BY DEF Inv, ReuseIsEarned, Expired, LetGo, End, At, Idle, history
<1>12. QED  BY <1>1, <1>2, <1>3, <1>4, <1>5, <1>6, <1>7, <1>8, <1>9, <1>10, <1>11 DEF Inv

\* The SELECT of the user keeps Inv.
LEMMA ReadUserKeepsInv ==
  ASSUME Inv, NEW r \in Requests, ReadUser(r)
  PROVE  Inv'
<1>1. TypeOK'
  BY DEF Inv, TypeOK, Steps, Issued, ReadUser, Go, End, At, Idle, history
<1>2. FamiliesIssued'
  BY DEF Inv, FamiliesIssued, Issued, ReadUser, Go, End, At, Idle, history
<1>3. CallsHaveTokens'
  BY DEF Inv, CallsHaveTokens, Issued, At, TypeOK, FamilyOf, ReadUser, Go, End,
     Idle, history
<1>4. ReadsHold'
  BY DEF Inv, ReadsHold, Reading, Sweeping, Live, FamilyOf, Issued, At, TypeOK,
     ReadUser, Go, End, Idle, history
<1>5. OneClient'
  <2>1. \A q \in Requests :
           \/ req'[q].client = req[q].client /\ req'[q].token = req[q].token
           \/ req'[q].token = Nothing
    BY DEF Inv, OneClient, Knows, FamilyOf, TypeOK, Issued, ReadUser, Go, End, Idle
  <2>2. \A c \in Clients, f \in Tokens : Knows(c, f)' => Knows(c, f)
    BY <2>1 DEF Inv, OneClient, Knows, FamilyOf, ReadUser
  <2> QED  BY <2>2 DEF Inv, OneClient
<1>6. AnswersAreFresh'
  <2>1. \A q \in Requests : At(q, {"answering"})' => req'[q] = req[q]
    BY DEF Inv, AnswersAreFresh, FamilyOf, Excused, At, TypeOK, Issued, ReadUser,
       Go, End, Idle
  <2>2. \A q \in Requests : req'[q].token \in {req[q].token, Nothing}
    BY DEF Inv, AnswersAreFresh, FamilyOf, Excused, At, TypeOK, Issued, ReadUser,
       Go, End, Idle
  <2>3. \A q \in Requests : At(q, {"answering"}) => req[q].token # Nothing
    BY SessionsAssumption DEF Inv, AnswersAreFresh, FamilyOf, Excused, At, TypeOK,
       Issued, CallsHaveTokens, FamiliesIssued
  <2> QED  BY <2>1, <2>2, <2>3 DEF Inv, AnswersAreFresh, ReadUser, history, Excused, FamilyOf, At
<1>7. HeldIsLive'
  BY DEF Inv, HeldIsLive, Excused, ReadUser, Go, End, At, Idle, history
<1>8. AccusedAreExcused'
  BY DEF Inv, AccusedAreExcused, Accusing, Excused, FamilyOf, At, TypeOK, Issued,
     ReadUser, Go, End, Idle, history
<1>9. OneLiveToken'
  BY DEF Inv, OneLiveToken, Issued, ReadUser, Go, End, At, Idle, history
<1>10. EndedIsDead'
  BY DEF Inv, EndedIsDead, Live, Issued, ReadUser, Go, End, At, Idle, history
<1>11. ReuseIsEarned'
  BY DEF Inv, ReuseIsEarned, ReadUser, Go, End, At, Idle, history
<1>12. QED  BY <1>1, <1>2, <1>3, <1>4, <1>5, <1>6, <1>7, <1>8, <1>9, <1>10, <1>11 DEF Inv

\* The commit of a rotation keeps Inv.
LEMMA RotateKeepsInv ==
  ASSUME Inv, NEW r \in Requests, Rotate(r)
  PROVE  Inv'
<1>1. TypeOK'
  BY NewTokenIsNew, SessionsAssumption DEF Inv, TypeOK, Steps, Issued,
     CallsHaveTokens, FamiliesIssued, FamilyOf, At, Rotate, Race, Spent, Idle,
     history
<1>2. FamiliesIssued'
  BY NewTokenIsNew DEF Inv, FamiliesIssued, Issued, TypeOK, FamilyOf, Rotate, Race,
     Spent, At, Idle, history
<1>3. CallsHaveTokens'
  BY NewTokenIsNew DEF Inv, CallsHaveTokens, Issued, At, TypeOK, FamilyOf, Rotate,
     Race, Spent, Idle, history
<1>4. ReadsHold'
  BY NewTokenIsNew DEF Inv, ReadsHold, Reading, Sweeping, Live, FamilyOf, Issued,
     At, TypeOK, Rotate, Race, Spent, Idle, history
<1>5. OneClient'
  BY NewTokenIsNew DEF Inv, OneClient, Knows, FamilyOf, TypeOK, Issued, Rotate,
     Race, Spent, At, Idle, history
<1>6. AnswersAreFresh'
  BY NewTokenIsNew, SessionsAssumption DEF Inv, AnswersAreFresh, FamilyOf, Excused,
     At, TypeOK, Issued, CallsHaveTokens, FamiliesIssued, Rotate, Race, Spent, Idle,
     history
<1>7. HeldIsLive'
  BY NewTokenIsNew DEF Inv, HeldIsLive, Excused, TypeOK, Issued, FamilyOf, Rotate,
     Race, Spent, At, Idle, history
<1>8. AccusedAreExcused'
  BY NewTokenIsNew DEF Inv, AccusedAreExcused, Accusing, Excused, FamilyOf, At,
     TypeOK, Issued, Rotate, Race, Spent, Idle, history
<1>9. OneLiveToken'
  BY NewTokenIsNew DEF Inv, OneLiveToken, Issued, TypeOK, FamilyOf, Rotate, Race,
     Spent, At, Idle, history
<1>10. EndedIsDead'
  BY NewTokenIsNew DEF Inv, EndedIsDead, Live, Issued, TypeOK, FamilyOf, Rotate,
     Race, Spent, At, Idle, history
<1>11. ReuseIsEarned'
  BY NewTokenIsNew DEF Inv, ReuseIsEarned, Rotate, Race, Spent, At, Idle, history
<1>12. QED  BY <1>1, <1>2, <1>3, <1>4, <1>5, <1>6, <1>7, <1>8, <1>9, <1>10, <1>11 DEF Inv

\* An answer that arrives keeps Inv.
LEMMA AnswerKeepsInv ==
  ASSUME Inv, NEW r \in Requests, Answer(r)
  PROVE  Inv'
<1>1. TypeOK'
  BY DEF Inv, TypeOK, Steps, Issued, Answer, End, At, Idle, history
<1>2. FamiliesIssued'
  BY DEF Inv, FamiliesIssued, Issued, Answer, End, At, Idle, history
<1>3. CallsHaveTokens'
  BY DEF Inv, CallsHaveTokens, Issued, At, Answer, End, Idle, history
<1>4. ReadsHold'
  BY DEF Inv, ReadsHold, Reading, Sweeping, Live, FamilyOf, Issued, At, Answer, End,
     Idle, history
<1>5. OneClient'
  BY DEF Inv, OneClient, Knows, FamilyOf, Answer, End, At, Idle, history
<1>6. AnswersAreFresh'
  BY SessionsAssumption DEF Inv, AnswersAreFresh, FamilyOf, Excused, At, TypeOK,
     Issued, CallsHaveTokens, FamiliesIssued, Answer, End, Idle, history
<1>7. HeldIsLive'
  BY SessionsAssumption DEF Inv, TypeOK, CallsHaveTokens, FamiliesIssued,
     HeldIsLive, AnswersAreFresh, AccusedAreExcused, OneClient, Knows, Excused,
     ReadsHold, Accusing, Sweeping, Answer, End, Issued, FamilyOf, At, Idle, history
<1>8. AccusedAreExcused'
  BY DEF Inv, AccusedAreExcused, Accusing, Excused, FamilyOf, At, Answer, End, Idle,
     history
<1>9. OneLiveToken'
  BY DEF Inv, OneLiveToken, Issued, Answer, End, At, Idle, history
<1>10. EndedIsDead'
  BY DEF Inv, EndedIsDead, Live, Issued, Answer, End, At, Idle, history
<1>11. ReuseIsEarned'
  BY DEF Inv, ReuseIsEarned, Answer, End, At, Idle, history
<1>12. QED  BY <1>1, <1>2, <1>3, <1>4, <1>5, <1>6, <1>7, <1>8, <1>9, <1>10, <1>11 DEF Inv

\* The start of a logout keeps Inv.
LEMMA LeaveKeepsInv ==
  ASSUME Inv, NEW r \in Requests, NEW c \in Clients, Leave(r, c)
  PROVE  Inv'
<1>1. TypeOK'
  BY DEF Inv, TypeOK, Steps, Issued, Leave, Start, At, Idle, history
<1>2. FamiliesIssued'
  BY DEF Inv, FamiliesIssued, Issued, Leave, Start, At, Idle, history
<1>3. CallsHaveTokens'
  BY DEF Inv, CallsHaveTokens, Issued, At, TypeOK, FamilyOf, Leave, Start, Idle, history
<1>4. ReadsHold'
  BY DEF Inv, ReadsHold, Reading, Sweeping, Live, FamilyOf, Issued, At, Leave,
     Start, Idle, history
<1>5. OneClient'
  BY DEF Inv, OneClient, Knows, FamilyOf, Leave, Start, At, Idle, history
<1>6. AnswersAreFresh'
  BY DEF Inv, AnswersAreFresh, FamilyOf, Excused, At, Leave, Start, Idle, history
<1>7. HeldIsLive'
  BY DEF Inv, HeldIsLive, Excused, Leave, Start, At, Idle, history
<1>8. AccusedAreExcused'
  BY DEF Inv, AccusedAreExcused, Accusing, Excused, FamilyOf, At, Leave, Start,
     Idle, history
<1>9. OneLiveToken'
  BY DEF Inv, OneLiveToken, Issued, Leave, Start, At, Idle, history
<1>10. EndedIsDead'
  BY DEF Inv, EndedIsDead, Live, Issued, Leave, Start, At, Idle, history
<1>11. ReuseIsEarned'
  BY DEF Inv, ReuseIsEarned, Leave, Start, At, Idle, history
<1>12. QED  BY <1>1, <1>2, <1>3, <1>4, <1>5, <1>6, <1>7, <1>8, <1>9, <1>10, <1>11 DEF Inv

\* The start of a family's UPDATE keeps Inv.
LEMMA FindFamilyKeepsInv ==
  ASSUME Inv, NEW r \in Requests, FindFamily(r)
  PROVE  Inv'
<1>1. TypeOK'
  <2>1. InFamily(r) \in SUBSET Issued
    BY DEF InFamily, Live
  <2>2. Issued' = Issued
    BY DEF Inv, TypeOK, Steps, Issued, FindFamily
  <2> DEFINE step == IF At(r, {"reuse"}) THEN "revoking" ELSE "leaving"
  <2>3. step \in Steps
    BY DEF Inv, TypeOK, Steps, Issued
  <2> HIDE DEF step
  <2>4. req' = [req EXCEPT ![r].at = step, ![r].found = InFamily(r)]
    BY DEF Inv, TypeOK, Steps, Issued, FindFamily, step
  <2>5. req' \in [Requests -> [at : Steps, client : Clients \cup {Nothing},
                             token : Issued \cup {Nothing}, found : SUBSET Issued]]
    BY <2>1, <2>3, <2>4 DEF Inv, TypeOK
  <2> QED  BY <2>2, <2>5 DEF Inv, TypeOK, FindFamily, history
<1>2. FamiliesIssued'
  BY DEF Inv, FamiliesIssued, Issued, FindFamily, InFamily, At, Idle, history
<1>3. CallsHaveTokens'
  BY DEF Inv, CallsHaveTokens, Issued, At, TypeOK, FamilyOf, FindFamily, InFamily,
     Idle, history
<1>4. ReadsHold'
  BY DEF Inv, ReadsHold, Reading, Sweeping, Live, FamilyOf, Issued, At, TypeOK,
     FindFamily, InFamily, Idle, history
<1>5. OneClient'
  BY DEF Inv, OneClient, Knows, FamilyOf, TypeOK, Issued, FindFamily, InFamily, At,
     Idle, history
<1>6. AnswersAreFresh'
  BY DEF Inv, AnswersAreFresh, FamilyOf, Excused, At, TypeOK, Issued, FindFamily,
     InFamily, Idle, history
<1>7. HeldIsLive'
  BY DEF Inv, HeldIsLive, Excused, FindFamily, InFamily, At, Idle, history
<1>8. AccusedAreExcused'
  BY DEF Inv, AccusedAreExcused, Accusing, Excused, FamilyOf, At, TypeOK, Issued,
     FindFamily, InFamily, Idle, history
<1>9. OneLiveToken'
  BY DEF Inv, OneLiveToken, Issued, FindFamily, InFamily, At, Idle, history
<1>10. EndedIsDead'
  BY DEF Inv, EndedIsDead, Live, Issued, FindFamily, InFamily, At, Idle, history
<1>11. ReuseIsEarned'
  BY DEF Inv, ReuseIsEarned, FindFamily, InFamily, At, Idle, history
<1>12. QED  BY <1>1, <1>2, <1>3, <1>4, <1>5, <1>6, <1>7, <1>8, <1>9, <1>10, <1>11 DEF Inv

\* The end of a family's UPDATE keeps Inv.
LEMMA RevokeFamilyKeepsInv ==
  ASSUME Inv, NEW r \in Requests, RevokeFamily(r)
  PROVE  Inv'
<1>1. TypeOK'
  <2>1. FamilyOf(r) \in Issued
    BY DEF Inv, TypeOK, Steps, Issued, CallsHaveTokens, FamiliesIssued, FamilyOf,
       At, RevokeFamily
  <2>2. Issued' = Issued
    BY DEF Inv, TypeOK, Steps, Issued, RevokeFamily
  <2>3. req' \in [Requests -> [at : Steps, client : Clients \cup {Nothing},
                             token : Issued \cup {Nothing}, found : SUBSET Issued]]
    BY DEF Inv, TypeOK, Steps, Issued, RevokeFamily, End, Idle
  <2>4. held' \in [Clients -> Issued \cup {Nothing}]
    BY DEF Inv, TypeOK, Steps, Issued, RevokeFamily, LetGo
  <2>5. revoked' \subseteq Issued
    BY DEF Inv, TypeOK, RevokeFamily
  <2>6. raced' \subseteq Issued
    BY <2>1 DEF Inv, TypeOK, Steps, Issued, RevokeFamily, Race
  <2>7. logged_out' \subseteq Issued /\ punished' \subseteq Issued
    BY <2>1 DEF Inv, TypeOK, Steps, Issued, RevokeFamily
  <2> QED  BY <2>2, <2>3, <2>4, <2>5, <2>6, <2>7 DEF Inv, TypeOK, RevokeFamily
<1>2. FamiliesIssued'
  BY DEF Inv, FamiliesIssued, Issued, RevokeFamily, Race, LetGo, End, At, Idle, history
<1>3. CallsHaveTokens'
  BY DEF Inv, CallsHaveTokens, Issued, At, RevokeFamily, Race, LetGo, End, Idle, history
<1>4. ReadsHold'
  BY DEF Inv, ReadsHold, Reading, Sweeping, Live, FamilyOf, Issued, At,
     RevokeFamily, Race, LetGo, End, Idle, history
<1>5. OneClient'
  BY DEF Inv, OneClient, Knows, FamilyOf, TypeOK, Issued, RevokeFamily, Race, LetGo,
     End, At, Idle, history
<1>6. AnswersAreFresh'
  <2> SUFFICES ASSUME NEW a \in Requests, At(a, {"answering"})'
               PROVE  /\ \A c \in Clients : held'[c] # req'[a].token
                      /\ \A q \in Requests \ {a} : req'[q].token # req'[a].token
                      /\ req'[a].token \notin revoked' \/ FamilyOf(a)' \in Excused'
    BY DEF Inv, AnswersAreFresh, FamilyOf, Excused, At
  <2>1. a # r /\ At(a, {"answering"}) /\ req'[a] = req[a]
    BY DEF Inv, AnswersAreFresh, FamilyOf, Excused, At, RevokeFamily, End, Idle
  <2>2. req[a].token # Nothing
    BY <2>1, SessionsAssumption DEF Inv, AnswersAreFresh, FamilyOf, Excused, At,
       TypeOK, Issued, CallsHaveTokens, FamiliesIssued
  <2>3. \A c \in Clients : held'[c] # req'[a].token
    BY <2>1, <2>2 DEF Inv, AnswersAreFresh, FamilyOf, Excused, At, TypeOK, Issued,
       RevokeFamily, LetGo
  <2>4. \A q \in Requests \ {a} : req'[q].token # req'[a].token
    BY <2>1, <2>2 DEF Inv, AnswersAreFresh, FamilyOf, Excused, At, RevokeFamily,
       End, Idle
  <2>5. FamilyOf(a)' = FamilyOf(a) /\ Excused \subseteq Excused'
    BY <2>1 DEF Inv, AnswersAreFresh, FamilyOf, Excused, At, RevokeFamily, Race
  <2>6. ASSUME req[a].token \in req[r].found PROVE FamilyOf(a) \in Excused'
    <3>1. FamilyOf(a) = FamilyOf(r)
      BY <2>6 DEF Inv, ReadsHold, RevokeFamily, Sweeping, FamilyOf, At
    <3>2. CASE At(r, {"revoking"})
      BY <3>1, <3>2, <2>5 DEF Inv, AccusedAreExcused, Accusing, At
    <3>3. CASE At(r, {"leaving"})
      BY <3>1, <3>3 DEF Inv, AnswersAreFresh, FamilyOf, Excused, At, RevokeFamily
    <3> QED  BY <3>2, <3>3 DEF RevokeFamily, At
  <2>7. req'[a].token \notin revoked' \/ FamilyOf(a)' \in Excused'
    BY <2>1, <2>5, <2>6 DEF Inv, AnswersAreFresh, FamilyOf, Excused, At, RevokeFamily
  <2> QED  BY <2>3, <2>4, <2>7
<1>7. HeldIsLive'
  BY SessionsAssumption DEF Inv, TypeOK, CallsHaveTokens, FamiliesIssued,
     HeldIsLive, AnswersAreFresh, AccusedAreExcused, OneClient, Knows, Excused,
     ReadsHold, Accusing, Sweeping, RevokeFamily, Race, LetGo, End, Issued,
     FamilyOf, At, Idle, history
<1>8. AccusedAreExcused'
  BY DEF Inv, AccusedAreExcused, Accusing, Excused, FamilyOf, At, RevokeFamily,
     Race, LetGo, End, Idle, history
<1>9. OneLiveToken'
  BY DEF Inv, OneLiveToken, Issued, RevokeFamily, Race, LetGo, End, At, Idle, history
<1>10. EndedIsDead'
  BY SessionsAssumption DEF Inv, TypeOK, EndedIsDead, ReadsHold, CallsHaveTokens,
     FamiliesIssued, Reading, Sweeping, Live, RevokeFamily, Race, LetGo, End,
     Issued, FamilyOf, At, Idle, history
<1>11. ReuseIsEarned'
  BY SessionsAssumption DEF Inv, TypeOK, ReuseIsEarned, AccusedAreExcused, Accusing,
     Excused, RevokeFamily, Race, LetGo, End, Issued, FamilyOf, At, Idle, history
<1>12. QED  BY <1>1, <1>2, <1>3, <1>4, <1>5, <1>6, <1>7, <1>8, <1>9, <1>10, <1>11 DEF Inv

\* A call that ends without an answer keeps Inv.
LEMMA CutKeepsInv ==
  ASSUME Inv, NEW r \in Requests, Cut(r)
  PROVE  Inv'
<1>1. TypeOK'
  BY DEF Inv, TypeOK, Steps, Issued, Cut, End, At, Idle, history
<1>2. FamiliesIssued'
  BY DEF Inv, FamiliesIssued, Issued, Cut, End, At, Idle, history
<1>3. CallsHaveTokens'
  BY DEF Inv, CallsHaveTokens, Issued, At, Cut, End, Idle, history
<1>4. ReadsHold'
  BY DEF Inv, ReadsHold, Reading, Sweeping, Live, FamilyOf, Issued, At, Cut, End,
     Idle, history
<1>5. OneClient'
  BY DEF Inv, OneClient, Knows, FamilyOf, Cut, End, At, Idle, history
<1>6. AnswersAreFresh'
  BY SessionsAssumption DEF Inv, AnswersAreFresh, FamilyOf, Excused, At, TypeOK,
     Issued, CallsHaveTokens, FamiliesIssued, Cut, End, Idle, history
<1>7. HeldIsLive'
  BY DEF Inv, HeldIsLive, Excused, Cut, End, At, Idle, history
<1>8. AccusedAreExcused'
  BY DEF Inv, AccusedAreExcused, Accusing, Excused, FamilyOf, At, Cut, End, Idle,
     history
<1>9. OneLiveToken'
  BY DEF Inv, OneLiveToken, Issued, Cut, End, At, Idle, history
<1>10. EndedIsDead'
  BY DEF Inv, EndedIsDead, Live, Issued, Cut, End, At, Idle, history
<1>11. ReuseIsEarned'
  BY DEF Inv, ReuseIsEarned, Cut, End, At, Idle, history
<1>12. QED  BY <1>1, <1>2, <1>3, <1>4, <1>5, <1>6, <1>7, <1>8, <1>9, <1>10, <1>11 DEF Inv

\* A user activated or deactivated keeps Inv.
LEMMA SetActiveKeepsInv == ASSUME Inv, SetActive PROVE Inv'
BY DEF SetActive, history, Inv, TypeOK, FamiliesIssued, CallsHaveTokens, ReadsHold, OneClient,
  AnswersAreFresh, HeldIsLive, AccusedAreExcused, OneLiveToken, EndedIsDead, ReuseIsEarned,
  Knows, Excused, Live, Issued, FamilyOf, At

\* A step that changes nothing keeps Inv.
LEMMA StutterKeepsInv == ASSUME Inv, UNCHANGED vars PROVE Inv'
BY DEF vars, history, Inv, TypeOK, FamiliesIssued, CallsHaveTokens, ReadsHold, OneClient,
  AnswersAreFresh, HeldIsLive, AccusedAreExcused, OneLiveToken, EndedIsDead, ReuseIsEarned,
  Knows, Excused, Live, Issued, FamilyOf, At

\* Inv holds at first.
LEMMA InitInv == Init => Inv
BY SessionsAssumption
DEF Init, Idle, Steps, Inv, TypeOK, FamiliesIssued, CallsHaveTokens, ReadsHold, OneClient,
  AnswersAreFresh, HeldIsLive, AccusedAreExcused, OneLiveToken, EndedIsDead, ReuseIsEarned,
  Knows, Excused, Live, Issued, FamilyOf, At, Reading, Sweeping, Accusing

\* Inv is inductive.
LEMMA NextKeepsInv == Inv /\ [Next]_vars => Inv'
BY LogInKeepsInv,
   IssueKeepsInv,
   PresentKeepsInv,
   ExpiredKeepsInv,
   ReadUserKeepsInv,
   RotateKeepsInv,
   AnswerKeepsInv,
   LeaveKeepsInv,
   FindFamilyKeepsInv,
   RevokeFamilyKeepsInv,
   CutKeepsInv,
   SetActiveKeepsInv, StutterKeepsInv
DEF Next

\* Inv holds in every reachable state.
LEMMA Invariance == Spec => []Inv
BY InitInv, NextKeepsInv, PTL DEF Spec

-----------------------------------------------------------------------------
\* refresh_tokens, what clients hold and the calls of services/auth.py keep their
\* types: whatever is revoked, held or presented has a row.
THEOREM SessionsTypes == Spec => []TypeOK
<1>1. Inv => TypeOK  BY DEF Inv
<1> QED  BY <1>1, Invariance, PTL

\* rotate_refresh_token leaves a family one live token, whatever fails or is
\* repeated, unless a commit overlapped another call that had read the family.
THEOREM FamilyHasOneLiveToken == Spec => []OneLiveToken
<1>1. Inv => OneLiveToken  BY DEF Inv
<1> QED  BY <1>1, Invariance, PTL

\* _revoke_family ends a family for good, after a logout and after a reuse alike,
\* unless a commit overlapped another call that had read the family.
THEOREM EndedFamilyIsDead == Spec => []EndedIsDead
<1>1. Inv => EndedIsDead  BY DEF Inv
<1> QED  BY <1>1, Invariance, PTL

\* rotate_refresh_token takes for a thief only a client that logged out, asked
\* again without an answer, or had two calls overlap.
THEOREM ReuseIsNeverAccidental == Spec => []ReuseIsEarned
<1>1. Inv => ReuseIsEarned  BY DEF Inv
<1> QED  BY <1>1, Invariance, PTL
=============================================================================
