--------------------------- MODULE Sessions_proofs ---------------------------
(***************************************************************************)
(* Theorems about Sessions, for any accounts, tokens, requests and bounds.    *)
(***************************************************************************)
EXTENDS Sessions, TLAPS

(***************************************************************************)
(* The inductive invariant.  What makes the safety of sessions more than the    *)
(* order of two statements is who may still write a row: only the login that     *)
(* made the token, before its answer, or its statement that runs late, and then  *)
(* nobody ever has the cookie.                                               *)
(***************************************************************************)

\* What the variables of a handler hold at each of its steps.
Shapes ==
    \A r \in Requests :
        /\ pc[r] \in {"create", "created", "conflict"} =>
             form[r] \in Users /\ token[r] = NoToken /\ user[r] = Nobody /\ expiresAt[r] = 0
        /\ pc[r] = "created" => form[r] \in users
        /\ pc[r] \in {"find", "compare"} => form[r] \in Logins
        /\ pc[r] = "compare" => user[r] \in users /\ Matches(form[r], user[r])
        /\ pc[r] \in {"insert", "inserted"} =>
             /\ form[r] \in Logins /\ user[r] \in users /\ Matches(form[r], user[r])
             /\ form[r].password = user[r].password
             /\ token[r] \in issued /\ expiresAt[r] > 0
        /\ pc[r] \in {"delete", "authenticate"} => form[r] = Nobody
        /\ pc[r] = "delete" => user[r] = Nobody /\ expiresAt[r] = 0
        /\ pc[r] \in {"delete", "authenticate", "act"} =>
             token[r] \in Tokens /\ cookie[token[r]] > 0
        /\ pc[r] = "deleted" /\ token[r] # NoToken =>
             cookie[token[r]] > 0 /\ owner[token[r]] = Nobody
        /\ pc[r] = "refused" => form[r] \in Logins \cup {Nobody}
        /\ pc[r] = "idle" => user[r] = Nobody /\ expiresAt[r] = 0

\* Nobody has the cookie of a token before the only handler that holds it answers.
Fresh ==
    /\ \A t \in Tokens \ issued : owner[t] = Nobody /\ cookie[t] = 0
    /\ \A r \in Requests : pc[r] \in {"insert", "inserted"} => cookie[token[r]] = 0
    /\ \A r, q \in Requests :
         /\ pc[r] \in {"insert", "inserted"} /\ pc[q] \in {"insert", "inserted"}
         /\ token[r] = token[q]
         => r = q

\* A late insertion is of a token whose cookie nobody has or will have.
LateHarmless ==
    \A c \in late :
        /\ c.at = "insert" =>
             /\ c.token \in issued /\ cookie[c.token] = 0 /\ c.user \in users
             /\ \A r \in Requests : pc[r] \in {"insert", "inserted"} => token[r] # c.token
        /\ c.at = "delete" => cookie[c.token] > 0

\* The row behind a cookie, while there is one, says what the client was told.
RowsTrue ==
    /\ \A t \in Tokens : cookie[t] > 0 =>
         /\ bought[t] \in Logins
         /\ owner[t] # Nobody =>
              /\ expires[t] = cookie[t]
              /\ Matches(bought[t], owner[t]) /\ bought[t].password = owner[t].password
    /\ \A r \in Requests : pc[r] = "inserted" =>
         owner[token[r]] = user[r] /\ expires[token[r]] = expiresAt[r]
    /\ \A t \in loggedOut : cookie[t] > 0 /\ owner[t] = Nobody

\* A token past its use has no valid row.
DeadIsInvalid ==
    \A r \in Requests :
        pc[r] = "authenticate" /\ token[r] \in dead[r] =>
            token[r] \in loggedOut \/ cookie[token[r]] <= clock

\* A login that may succeed has found the account it is about.
KnownIsFound ==
    \A r \in Requests :
        /\ pc[r] \in {"find", "compare"} =>
             known[r] \subseteq {u \in registered : Matches(form[r], u)}
        /\ pc[r] = "compare" => known[r] \subseteq {user[r]}

SessionsInv ==
    /\ AccountsTypeOK /\ Shapes /\ Fresh /\ LateHarmless /\ RowsTrue /\ DeadIsInvalid /\ KnownIsFound
    /\ NoRevival /\ ActsAsItself /\ RegistrationLasts

USE NamesAssumption, NobodyAssumption, NoTokenAssumption, BoundsAssumption

LEMMA InitInv == Init => SessionsInv
BY DEF Init, SessionsInv, AccountsTypeOK, Shapes, Fresh, LateHarmless, RowsTrue, DeadIsInvalid,
       KnownIsFound, NoRevival, ActsAsItself, RegistrationLasts, PCs

\* Nobody's username is another's e-mail: an identifier finds one account at most.
LEMMA OneMatch ==
    ASSUME SessionsInv, NEW l \in Logins, NEW u \in users, NEW w \in users,
           Matches(l, u), Matches(l, w)
    PROVE  u = w
<1>1. /\ u.username \in Usernames /\ u.email \in Emails
      /\ w.username \in Usernames /\ w.email \in Emails
  BY DEF SessionsInv, AccountsTypeOK, Users
<1> QED BY <1>1 DEF Matches, SessionsInv, AccountsTypeOK

\* A waiting statement is one that may run late.
LEMMA CallIsStatement ==
    ASSUME SessionsInv, NEW r \in Requests, pc[r] \in {"create", "insert", "delete"}
    PROVE  Call(r) \in Statements
BY DEF SessionsInv, AccountsTypeOK, Shapes, Call, Statements

\* A request that begins, with its input.
LEMMA BeginKeepsInv ==
    ASSUME SessionsInv, NEW r \in Requests, NEW at, NEW f, NEW t, Begin(r, at, f, t),
           \/ at = "create" /\ f \in Users /\ t = NoToken
           \/ at = "find" /\ f \in Logins /\ t = NoToken
           \/ at \in {"deleted", "refused"} /\ f = Nobody /\ t = NoToken
           \/ at \in {"delete", "authenticate"} /\ f = Nobody /\ t \in Tokens /\ cookie[t] > 0
    PROVE  SessionsInv'
<1> DEFINE kn == IF at = "find" THEN {u \in registered : Matches(f, u)} ELSE {}
           de == IF at = "authenticate" /\ (t \in loggedOut \/ cookie[t] <= clock)
                 THEN {t} ELSE {}
<1>1. /\ pc[r] = "idle"
      /\ pc' = [pc EXCEPT ![r] = at] /\ form' = [form EXCEPT ![r] = f]
      /\ token' = [token EXCEPT ![r] = t]
      /\ known' = [known EXCEPT ![r] = kn] /\ dead' = [dead EXCEPT ![r] = de]
      /\ UNCHANGED <<clock, tables, late, faults, issued, user, expiresAt, told>>
  BY DEF Begin
<1>2. /\ kn \in SUBSET Users /\ de \in SUBSET Tokens /\ (at # "authenticate" => de = {})
      /\ at = "find" => kn = {u \in registered : Matches(f, u)}
      /\ \A x \in de : x \in loggedOut \/ cookie[x] <= clock
  BY DEF SessionsInv, AccountsTypeOK
<1>3. /\ at \in PCs /\ f \in Users \cup Logins \cup {Nobody} /\ t \in Tokens \cup {NoToken}
      /\ at \notin {"created", "conflict", "compare", "insert", "inserted", "act", "idle"}
  BY DEF PCs
<1> HIDE DEF kn, de
<1>4. /\ pc' \in [Requests -> PCs] /\ form' \in [Requests -> Users \cup Logins \cup {Nobody}]
      /\ token' \in [Requests -> Tokens \cup {NoToken}]
      /\ known' \in [Requests -> SUBSET Users] /\ dead' \in [Requests -> SUBSET Tokens]
  BY <1>1, <1>2, <1>3 DEF SessionsInv, AccountsTypeOK
<1>5. /\ pc'[r] = at /\ form'[r] = f /\ token'[r] = t /\ known'[r] = kn /\ dead'[r] = de
      /\ \A q \in Requests : q # r =>
           /\ pc'[q] = pc[q] /\ form'[q] = form[q] /\ token'[q] = token[q]
           /\ known'[q] = known[q] /\ dead'[q] = dead[q]
  BY <1>1 DEF SessionsInv, AccountsTypeOK
<1>6. /\ UNCHANGED <<clock, users, owner, expires, late, faults, issued, user, expiresAt>>
      /\ UNCHANGED <<cookie, bought, registered, loggedOut>>
      /\ user[r] = Nobody /\ expiresAt[r] = 0
  BY <1>1 DEF tables, told, SessionsInv, Shapes
<1>7. AccountsTypeOK'
  BY <1>4, <1>6 DEF SessionsInv, AccountsTypeOK
<1>8. Shapes'
  BY <1>3, <1>5, <1>6 DEF SessionsInv, Shapes
<1>9. Fresh'
  BY <1>3, <1>5, <1>6 DEF SessionsInv, Fresh
<1>10. LateHarmless' /\ RowsTrue'
  BY <1>3, <1>5, <1>6 DEF SessionsInv, LateHarmless, RowsTrue
<1>11. DeadIsInvalid' /\ NoRevival'
  BY <1>2, <1>3, <1>5, <1>6 DEF SessionsInv, DeadIsInvalid, NoRevival
<1>12. KnownIsFound' /\ ActsAsItself'
  BY <1>2, <1>3, <1>5, <1>6 DEF SessionsInv, KnownIsFound, ActsAsItself
<1>13. RegistrationLasts'
  BY <1>3, <1>5, <1>6 DEF SessionsInv, RegistrationLasts
<1> QED BY <1>7, <1>8, <1>9, <1>10, <1>11, <1>12, <1>13 DEF SessionsInv

LEMMA BeginRegisterKeepsInv ==
    ASSUME SessionsInv, NEW r \in Requests, BeginRegister(r)
    PROVE  SessionsInv'
BY BeginKeepsInv, Zenon DEF BeginRegister

LEMMA BeginLoginKeepsInv ==
    ASSUME SessionsInv, NEW r \in Requests, BeginLogin(r)
    PROVE  SessionsInv'
BY BeginKeepsInv, Zenon DEF BeginLogin

LEMMA BeginLogoutKeepsInv ==
    ASSUME SessionsInv, NEW r \in Requests, BeginLogout(r)
    PROVE  SessionsInv'
BY BeginKeepsInv DEF BeginLogout

LEMMA BeginUseKeepsInv ==
    ASSUME SessionsInv, NEW r \in Requests, BeginUse(r)
    PROVE  SessionsInv'
BY BeginKeepsInv DEF BeginUse

LEMMA CreateUserKeepsInv ==
    ASSUME SessionsInv, NEW r \in Requests, CreateUser(r)
    PROVE  SessionsInv'
<1>1. AccountsTypeOK'
  <2>1. /\ form[r] \in Users
        /\ users' = IF Clash(form[r]) THEN users ELSE users \cup {form[r]}
        /\ UNCHANGED <<owner, expires>>
    BY DEF CreateUser, Runs, Call, InsertUser, SessionsInv, Shapes
  <2>2. /\ users \subseteq users' /\ users' \subseteq Users
        /\ \A u, w \in users' : u.username = w.username \/ u.email = w.email => u = w
    BY <2>1 DEF Clash, SessionsInv, AccountsTypeOK
  <2>3. pc' \in [Requests -> PCs]
    BY DEF CreateUser, Goes, SessionsInv, AccountsTypeOK, PCs
  <2> QED BY <2>1, <2>2, <2>3 DEF CreateUser, Goes, told, begun, SessionsInv, AccountsTypeOK
<1>2. Shapes' /\ Fresh' /\ LateHarmless' /\ RowsTrue' /\ DeadIsInvalid'
  BY DEF CreateUser, Goes, Runs, Call, InsertUser, told, begun, SessionsInv, AccountsTypeOK,
         Shapes, Fresh, LateHarmless, RowsTrue, DeadIsInvalid
<1>3. KnownIsFound' /\ NoRevival' /\ ActsAsItself' /\ RegistrationLasts'
  BY DEF CreateUser, Goes, Runs, Call, InsertUser, told, begun, SessionsInv, AccountsTypeOK,
         KnownIsFound, NoRevival, ActsAsItself, RegistrationLasts
<1> QED BY <1>1, <1>2, <1>3 DEF SessionsInv

LEMMA GetUserByIdentifierKeepsInv ==
    ASSUME SessionsInv, NEW r \in Requests, GetUserByIdentifier(r)
    PROVE  SessionsInv'
<1>1. AccountsTypeOK'
  BY DEF GetUserByIdentifier, Goes, tables, told, begun, SessionsInv, AccountsTypeOK, PCs
<1>2. KnownIsFound'
  <2>1. CASE pc'[r] = "compare"
    <3>1. PICK u \in users : Matches(form[r], u) /\ user' = [user EXCEPT ![r] = u]
      BY <2>1 DEF GetUserByIdentifier, Goes, SessionsInv, AccountsTypeOK
    <3>2. /\ form[r] \in Logins /\ user'[r] = u
          /\ known[r] \subseteq {w \in registered : Matches(form[r], w)}
      BY <3>1 DEF GetUserByIdentifier, SessionsInv, AccountsTypeOK, Shapes, KnownIsFound
    <3>3. known[r] \subseteq {u}
      BY <3>1, <3>2, OneMatch DEF SessionsInv, AccountsTypeOK
    <3>4. /\ UNCHANGED <<registered, known, form>>
          /\ \A q \in Requests : q # r => pc'[q] = pc[q] /\ user'[q] = user[q]
      BY <3>1 DEF GetUserByIdentifier, Goes, told, begun, SessionsInv, AccountsTypeOK
    <3> QED BY <3>2, <3>3, <3>4 DEF SessionsInv, KnownIsFound
  <2>2. CASE pc'[r] # "compare"
    BY <2>2 DEF GetUserByIdentifier, Goes, told, begun, SessionsInv, AccountsTypeOK, KnownIsFound
  <2> QED BY <2>1, <2>2
<1>3. RegistrationLasts'
  <2>1. ASSUME pc'[r] = "refused" PROVE known[r] = {}
    <3>1. \A u \in users : ~Matches(form[r], u)
      BY <2>1 DEF GetUserByIdentifier, Goes, SessionsInv, AccountsTypeOK
    <3>2. known[r] \subseteq {u \in registered : Matches(form[r], u)}
      BY DEF GetUserByIdentifier, SessionsInv, KnownIsFound
    <3> QED BY <3>1, <3>2 DEF SessionsInv, AccountsTypeOK
  <2> QED BY <2>1 DEF GetUserByIdentifier, Goes, begun, SessionsInv, AccountsTypeOK, RegistrationLasts
<1>4. Shapes' /\ Fresh' /\ LateHarmless' /\ RowsTrue'
  BY DEF GetUserByIdentifier, Goes, tables, told, begun, SessionsInv, AccountsTypeOK, Shapes,
         Fresh, LateHarmless, RowsTrue
<1>5. DeadIsInvalid' /\ NoRevival' /\ ActsAsItself'
  BY DEF GetUserByIdentifier, Goes, tables, told, begun, SessionsInv, AccountsTypeOK,
         DeadIsInvalid, NoRevival, ActsAsItself
<1> QED BY <1>1, <1>2, <1>3, <1>4, <1>5 DEF SessionsInv

LEMMA MismatchKeepsInv ==
    ASSUME SessionsInv, NEW r \in Requests, Mismatch(r)
    PROVE  SessionsInv'
<1>1. AccountsTypeOK'
  BY DEF Mismatch, Goes, tables, told, begun, SessionsInv, AccountsTypeOK, PCs
<1>2. RegistrationLasts'
  <2>1. \A u \in known[r] : form[r].password # u.password
    BY DEF Mismatch, SessionsInv, KnownIsFound
  <2> QED BY <2>1 DEF Mismatch, Goes, begun, SessionsInv, AccountsTypeOK, RegistrationLasts
<1>3. Shapes' /\ Fresh' /\ LateHarmless' /\ RowsTrue'
  BY DEF Mismatch, Goes, tables, told, begun, SessionsInv, AccountsTypeOK, Shapes, Fresh,
         LateHarmless, RowsTrue
<1>4. DeadIsInvalid' /\ KnownIsFound' /\ NoRevival' /\ ActsAsItself'
  BY DEF Mismatch, Goes, tables, told, begun, SessionsInv, AccountsTypeOK, DeadIsInvalid,
         KnownIsFound, NoRevival, ActsAsItself
<1> QED BY <1>1, <1>2, <1>3, <1>4 DEF SessionsInv

LEMMA NewSessionKeepsInv ==
    ASSUME SessionsInv, NEW r \in Requests, NewSession(r)
    PROVE  SessionsInv'
<1>1. AccountsTypeOK'
  BY DEF NewSession, tables, told, begun, SessionsInv, AccountsTypeOK, PCs
<1>2. Fresh'
  BY DEF NewSession, tables, told, begun, SessionsInv, AccountsTypeOK, Shapes, Fresh
<1>3. Shapes' /\ LateHarmless' /\ RowsTrue' /\ DeadIsInvalid'
  BY DEF NewSession, tables, told, begun, SessionsInv, AccountsTypeOK, Shapes, LateHarmless,
         RowsTrue, DeadIsInvalid
<1>4. KnownIsFound' /\ NoRevival' /\ ActsAsItself' /\ RegistrationLasts'
  BY DEF NewSession, tables, told, begun, SessionsInv, AccountsTypeOK, KnownIsFound, NoRevival,
         ActsAsItself, RegistrationLasts
<1> QED BY <1>1, <1>2, <1>3, <1>4 DEF SessionsInv

LEMMA CreateSessionKeepsInv ==
    ASSUME SessionsInv, NEW r \in Requests, CreateSession(r)
    PROVE  SessionsInv'
<1>1. AccountsTypeOK'
  BY DEF CreateSession, Goes, Runs, Call, InsertSession, told, begun, SessionsInv,
         AccountsTypeOK, Shapes, PCs
<1>2. Shapes'
  BY DEF CreateSession, Goes, Runs, Call, InsertSession, told, begun, SessionsInv,
         AccountsTypeOK, Fresh, Shapes
<1>3. Fresh'
  BY DEF CreateSession, Goes, Runs, Call, InsertSession, told, begun, SessionsInv,
         AccountsTypeOK, Shapes, Fresh
<1>4. RowsTrue'
  BY DEF CreateSession, Goes, Runs, Call, InsertSession, told, begun, SessionsInv,
         AccountsTypeOK, Shapes, Fresh, RowsTrue
<1>5. LateHarmless' /\ DeadIsInvalid' /\ KnownIsFound'
  BY DEF CreateSession, Goes, Runs, Call, InsertSession, told, begun, SessionsInv,
         AccountsTypeOK, LateHarmless, DeadIsInvalid, KnownIsFound
<1>6. NoRevival' /\ ActsAsItself' /\ RegistrationLasts'
  BY DEF CreateSession, Goes, Runs, Call, InsertSession, told, begun, SessionsInv,
         AccountsTypeOK, NoRevival, ActsAsItself, RegistrationLasts
<1> QED BY <1>1, <1>2, <1>3, <1>4, <1>5, <1>6 DEF SessionsInv

LEMMA DeleteSessionKeepsInv ==
    ASSUME SessionsInv, NEW r \in Requests, DeleteSession(r)
    PROVE  SessionsInv'
<1>1. AccountsTypeOK'
  BY DEF DeleteSession, Goes, Runs, Call, RemoveSession, told, begun, SessionsInv,
         AccountsTypeOK, PCs
<1>2. RowsTrue'
  BY DEF DeleteSession, Goes, Runs, Call, RemoveSession, told, begun, SessionsInv,
         AccountsTypeOK, Shapes, Fresh, RowsTrue
<1>3. Shapes' /\ Fresh' /\ LateHarmless' /\ DeadIsInvalid'
  BY DEF DeleteSession, Goes, Runs, Call, RemoveSession, told, begun, SessionsInv,
         AccountsTypeOK, Shapes, Fresh, LateHarmless, DeadIsInvalid
<1>4. KnownIsFound' /\ NoRevival' /\ ActsAsItself' /\ RegistrationLasts'
  BY DEF DeleteSession, Goes, Runs, Call, RemoveSession, told, begun, SessionsInv,
         AccountsTypeOK, KnownIsFound, NoRevival, ActsAsItself, RegistrationLasts
<1> QED BY <1>1, <1>2, <1>3, <1>4 DEF SessionsInv

LEMMA GetValidSessionKeepsInv ==
    ASSUME SessionsInv, NEW r \in Requests, GetValidSession(r)
    PROVE  SessionsInv'
<1>1. AccountsTypeOK'
  BY DEF GetValidSession, Goes, tables, told, begun, SessionsInv, AccountsTypeOK, Shapes, PCs
<1>2. Shapes'
  BY DEF GetValidSession, Goes, Valid, tables, told, SessionsInv, AccountsTypeOK, Shapes
<1>3. NoRevival'
  <2>1. Valid(token[r]) => token[r] \notin dead[r]
    BY DEF GetValidSession, Valid, SessionsInv, AccountsTypeOK, Shapes, RowsTrue, DeadIsInvalid
  <2> QED BY <2>1 DEF GetValidSession, Goes, begun, SessionsInv, AccountsTypeOK, NoRevival
<1>4. ActsAsItself'
  <2>1. Valid(token[r]) =>
          /\ Matches(bought[token[r]], owner[token[r]])
          /\ bought[token[r]].password = owner[token[r]].password
    BY DEF GetValidSession, Valid, SessionsInv, Shapes, RowsTrue
  <2> QED BY <2>1 DEF GetValidSession, Goes, told, SessionsInv, AccountsTypeOK, ActsAsItself
<1>5. RegistrationLasts'
  BY DEF GetValidSession, Goes, begun, SessionsInv, AccountsTypeOK, Shapes, RegistrationLasts
<1>6. Fresh' /\ LateHarmless' /\ RowsTrue'
  BY DEF GetValidSession, Goes, tables, told, begun, SessionsInv, AccountsTypeOK, Fresh,
         LateHarmless, RowsTrue
<1>7. DeadIsInvalid' /\ KnownIsFound'
  BY DEF GetValidSession, Goes, tables, told, begun, SessionsInv, AccountsTypeOK, DeadIsInvalid,
         KnownIsFound
<1> QED BY <1>1, <1>2, <1>3, <1>4, <1>5, <1>6, <1>7 DEF SessionsInv

LEMMA AnswerCreatedKeepsInv ==
    ASSUME SessionsInv, NEW r \in Requests, AnswerCreated(r)
    PROVE  SessionsInv'
<1>1. AccountsTypeOK'
  BY DEF AnswerCreated, Done, tables, SessionsInv, AccountsTypeOK, Shapes, PCs
<1>2. Shapes' /\ Fresh' /\ LateHarmless' /\ RowsTrue' /\ DeadIsInvalid'
  BY DEF AnswerCreated, Done, tables, SessionsInv, AccountsTypeOK, Shapes, Fresh, LateHarmless,
         RowsTrue, DeadIsInvalid
<1>3. KnownIsFound' /\ NoRevival' /\ ActsAsItself' /\ RegistrationLasts'
  BY DEF AnswerCreated, Done, tables, SessionsInv, AccountsTypeOK, KnownIsFound, NoRevival,
         ActsAsItself, RegistrationLasts
<1> QED BY <1>1, <1>2, <1>3 DEF SessionsInv

LEMMA AnswerLoginKeepsInv ==
    ASSUME SessionsInv, NEW r \in Requests, AnswerLogin(r)
    PROVE  SessionsInv'
<1>1. AccountsTypeOK'
  BY DEF AnswerLogin, Done, tables, SessionsInv, AccountsTypeOK, Shapes, PCs
<1>2. Fresh'
  BY DEF AnswerLogin, Done, tables, SessionsInv, AccountsTypeOK, Shapes, Fresh
<1>3. LateHarmless'
  BY DEF AnswerLogin, Done, tables, SessionsInv, AccountsTypeOK, Shapes, LateHarmless
<1>4. RowsTrue'
  BY DEF AnswerLogin, Done, tables, SessionsInv, AccountsTypeOK, Shapes, RowsTrue
<1>5. DeadIsInvalid'
  BY DEF AnswerLogin, Done, tables, SessionsInv, AccountsTypeOK, Shapes, Fresh, DeadIsInvalid
<1>6. ActsAsItself'
  BY DEF AnswerLogin, Done, tables, SessionsInv, AccountsTypeOK, Shapes, Fresh, ActsAsItself
<1>7. Shapes' /\ KnownIsFound' /\ NoRevival' /\ RegistrationLasts'
  BY DEF AnswerLogin, Done, tables, SessionsInv, AccountsTypeOK, Shapes, KnownIsFound,
         NoRevival, RegistrationLasts
<1> QED BY <1>1, <1>2, <1>3, <1>4, <1>5, <1>6, <1>7 DEF SessionsInv

LEMMA AnswerLogoutKeepsInv ==
    ASSUME SessionsInv, NEW r \in Requests, AnswerLogout(r)
    PROVE  SessionsInv'
<1>1. AccountsTypeOK'
  BY DEF AnswerLogout, Done, tables, SessionsInv, AccountsTypeOK, PCs
<1>2. RowsTrue'
  BY DEF AnswerLogout, Done, tables, SessionsInv, AccountsTypeOK, Shapes, RowsTrue
<1>3. Shapes' /\ Fresh' /\ LateHarmless' /\ DeadIsInvalid'
  BY DEF AnswerLogout, Done, tables, SessionsInv, AccountsTypeOK, Shapes, Fresh, LateHarmless,
         DeadIsInvalid
<1>4. KnownIsFound' /\ NoRevival' /\ ActsAsItself' /\ RegistrationLasts'
  BY DEF AnswerLogout, Done, tables, SessionsInv, AccountsTypeOK, KnownIsFound, NoRevival,
         ActsAsItself, RegistrationLasts
<1> QED BY <1>1, <1>2, <1>3, <1>4 DEF SessionsInv

LEMMA AnswerOtherKeepsInv ==
    ASSUME SessionsInv, NEW r \in Requests, AnswerOther(r)
    PROVE  SessionsInv'
<1>1. AccountsTypeOK'
  BY DEF AnswerOther, Done, tables, told, SessionsInv, AccountsTypeOK, PCs
<1>2. Shapes' /\ Fresh' /\ LateHarmless' /\ RowsTrue' /\ DeadIsInvalid'
  BY DEF AnswerOther, Done, tables, told, SessionsInv, AccountsTypeOK, Shapes, Fresh,
         LateHarmless, RowsTrue, DeadIsInvalid
<1>3. KnownIsFound' /\ NoRevival' /\ ActsAsItself' /\ RegistrationLasts'
  BY DEF AnswerOther, Done, tables, told, SessionsInv, AccountsTypeOK, KnownIsFound, NoRevival,
         ActsAsItself, RegistrationLasts
<1> QED BY <1>1, <1>2, <1>3 DEF SessionsInv

LEMMA CallFailsKeepsInv ==
    ASSUME SessionsInv, NEW r \in Requests, CallFails(r)
    PROVE  SessionsInv'
<1>1. AccountsTypeOK'
  <2>1. late' \subseteq Statements /\ faults' \in Nat
    BY CallIsStatement DEF CallFails, SessionsInv, AccountsTypeOK
  <2>2. pc' \in [Requests -> PCs]
    BY DEF CallFails, Done, SessionsInv, AccountsTypeOK, PCs
  <2> QED BY <2>1, <2>2 DEF CallFails, Done, tables, told, SessionsInv, AccountsTypeOK
<1>2. LateHarmless'
  <2> DEFINE Harmless(c) ==
        /\ c.at = "insert" =>
             /\ c.token \in issued /\ cookie[c.token] = 0 /\ c.user \in users
             /\ \A q \in Requests \ {r} : pc[q] \in {"insert", "inserted"} => token[q] # c.token
        /\ c.at = "delete" => cookie[c.token] > 0
  <2>1. \A c \in late : Harmless(c)
    BY DEF SessionsInv, LateHarmless
  <2>2. pc[r] \in {"create", "insert", "delete"} => Harmless(Call(r))
    BY DEF Call, SessionsInv, AccountsTypeOK, Shapes, Fresh
  <2>3. \A c \in late' : Harmless(c)
    BY <2>1, <2>2 DEF CallFails
  <2>4. /\ UNCHANGED <<issued, cookie, users>>
        /\ \A q \in Requests : pc'[q] \in {"insert", "inserted"} =>
             q # r /\ pc'[q] = pc[q] /\ token'[q] = token[q]
    BY DEF CallFails, Done, tables, told, SessionsInv, AccountsTypeOK
  <2> QED BY <2>3, <2>4 DEF LateHarmless
<1>3. Shapes' /\ Fresh' /\ RowsTrue' /\ DeadIsInvalid'
  BY DEF CallFails, Done, tables, told, SessionsInv, AccountsTypeOK, Shapes, Fresh, RowsTrue,
         DeadIsInvalid
<1>4. KnownIsFound' /\ NoRevival' /\ ActsAsItself' /\ RegistrationLasts'
  BY DEF CallFails, Done, tables, told, SessionsInv, AccountsTypeOK, KnownIsFound, NoRevival,
         ActsAsItself, RegistrationLasts
<1> QED BY <1>1, <1>2, <1>3, <1>4 DEF SessionsInv

LEMMA HandlerFailsKeepsInv ==
    ASSUME SessionsInv, NEW r \in Requests, HandlerFails(r)
    PROVE  SessionsInv'
<1>1. AccountsTypeOK'
  BY DEF HandlerFails, Done, tables, told, SessionsInv, AccountsTypeOK, PCs
<1>2. Shapes' /\ Fresh' /\ LateHarmless' /\ RowsTrue' /\ DeadIsInvalid'
  BY DEF HandlerFails, Done, tables, told, SessionsInv, AccountsTypeOK, Shapes, Fresh,
         LateHarmless, RowsTrue, DeadIsInvalid
<1>3. KnownIsFound' /\ NoRevival' /\ ActsAsItself' /\ RegistrationLasts'
  BY DEF HandlerFails, Done, tables, told, SessionsInv, AccountsTypeOK, KnownIsFound, NoRevival,
         ActsAsItself, RegistrationLasts
<1> QED BY <1>1, <1>2, <1>3 DEF SessionsInv

LEMMA RunsLateKeepsInv ==
    ASSUME SessionsInv, NEW c \in late, RunsLate(c)
    PROVE  SessionsInv'
<1>1. /\ c \in Statements /\ late' \subseteq late /\ Runs(c)
      /\ UNCHANGED <<clock, faults, issued, pc, locals, told, begun>>
  BY DEF RunsLate, SessionsInv, AccountsTypeOK
<1>2. CASE c.at = "create"
  <2>1. /\ c.form \in Users
        /\ users' = IF Clash(c.form) THEN users ELSE users \cup {c.form}
        /\ UNCHANGED <<owner, expires>>
    BY <1>1, <1>2 DEF Runs, InsertUser, Statements
  <2>2. /\ users \subseteq users' /\ users' \subseteq Users
        /\ \A u, w \in users' : u.username = w.username \/ u.email = w.email => u = w
    BY <2>1 DEF Clash, SessionsInv, AccountsTypeOK
  <2>3. AccountsTypeOK'
    BY <1>1, <2>1, <2>2 DEF locals, told, begun, SessionsInv, AccountsTypeOK
  <2>4. Shapes' /\ Fresh' /\ LateHarmless'
    BY <1>1, <2>1, <2>2 DEF locals, told, begun, SessionsInv, Shapes, Fresh, LateHarmless
  <2>5. RowsTrue' /\ DeadIsInvalid' /\ KnownIsFound'
    BY <1>1, <2>1 DEF locals, told, begun, SessionsInv, RowsTrue, DeadIsInvalid, KnownIsFound
  <2>6. NoRevival' /\ ActsAsItself' /\ RegistrationLasts'
    BY <1>1 DEF locals, told, begun, SessionsInv, NoRevival, ActsAsItself, RegistrationLasts
  <2> QED BY <2>3, <2>4, <2>5, <2>6 DEF SessionsInv
<1>3. CASE c.at \in {"insert", "delete"}
  <2> DEFINE t == c.token
  <2>1. /\ t \in issued /\ t \in Tokens /\ users' = users
        /\ \/ /\ c.at = "insert" /\ cookie[t] = 0 /\ c.user \in users /\ c.expiresAt \in Nat
              /\ owner' = [owner EXCEPT ![t] = c.user]
              /\ expires' = [expires EXCEPT ![t] = c.expiresAt]
           \/ /\ c.at = "delete" /\ cookie[t] > 0
              /\ owner' = [owner EXCEPT ![t] = Nobody]
              /\ expires' = [expires EXCEPT ![t] = 0]
    BY <1>1, <1>3 DEF Runs, InsertSession, RemoveSession, Statements, SessionsInv, AccountsTypeOK,
                      LateHarmless, Fresh
  <2>2. \A r \in Requests : pc[r] \in {"insert", "inserted"} => token[r] # t
    BY <2>1 DEF SessionsInv, LateHarmless, Fresh
  <2>3. AccountsTypeOK'
    BY <1>1, <2>1 DEF locals, told, begun, SessionsInv, AccountsTypeOK
  <2>4. Shapes'
    BY <1>1, <2>1 DEF locals, told, begun, SessionsInv, AccountsTypeOK, Shapes
  <2>5. Fresh' /\ LateHarmless'
    BY <1>1, <2>1 DEF locals, told, begun, SessionsInv, AccountsTypeOK, Fresh, LateHarmless
  <2>6. RowsTrue'
    BY <1>1, <2>1, <2>2 DEF locals, told, begun, SessionsInv, AccountsTypeOK, Shapes, RowsTrue, Fresh
  <2>7. DeadIsInvalid' /\ KnownIsFound'
    BY <1>1 DEF locals, told, begun, SessionsInv, DeadIsInvalid, KnownIsFound
  <2>8. NoRevival' /\ ActsAsItself' /\ RegistrationLasts'
    BY <1>1 DEF locals, told, begun, SessionsInv, NoRevival, ActsAsItself, RegistrationLasts
  <2> QED BY <2>3, <2>4, <2>5, <2>6, <2>7, <2>8 DEF SessionsInv
<1> QED BY <1>1, <1>2, <1>3 DEF Runs

LEMMA TickKeepsInv ==
    ASSUME SessionsInv, Tick
    PROVE  SessionsInv'
<1>1. AccountsTypeOK'
  BY DEF Tick, tables, locals, told, begun, SessionsInv, AccountsTypeOK
<1>2. Shapes' /\ Fresh' /\ LateHarmless' /\ RowsTrue'
  BY DEF Tick, tables, locals, told, begun, SessionsInv, Shapes, Fresh, LateHarmless, RowsTrue
<1>3. DeadIsInvalid'
  BY DEF Tick, locals, told, begun, SessionsInv, AccountsTypeOK, Shapes, DeadIsInvalid
<1>4. KnownIsFound' /\ NoRevival' /\ ActsAsItself' /\ RegistrationLasts'
  BY DEF Tick, tables, locals, told, begun, SessionsInv, KnownIsFound, NoRevival, ActsAsItself,
         RegistrationLasts
<1> QED BY <1>1, <1>2, <1>3, <1>4 DEF SessionsInv

LEMMA StutterKeepsInv ==
    ASSUME SessionsInv, UNCHANGED vars
    PROVE  SessionsInv'
BY DEF vars, tables, locals, told, begun, SessionsInv, AccountsTypeOK, Shapes, Fresh, LateHarmless,
       RowsTrue, DeadIsInvalid, KnownIsFound, NoRevival, ActsAsItself, RegistrationLasts

LEMMA NextKeepsInv == SessionsInv /\ [Next]_vars => SessionsInv'
BY BeginRegisterKeepsInv, BeginLoginKeepsInv, BeginLogoutKeepsInv, BeginUseKeepsInv,
   CreateUserKeepsInv, GetUserByIdentifierKeepsInv, MismatchKeepsInv, NewSessionKeepsInv,
   CreateSessionKeepsInv, DeleteSessionKeepsInv, GetValidSessionKeepsInv,
   AnswerCreatedKeepsInv, AnswerLoginKeepsInv, AnswerLogoutKeepsInv, AnswerOtherKeepsInv,
   CallFailsKeepsInv, HandlerFailsKeepsInv, RunsLateKeepsInv, TickKeepsInv, StutterKeepsInv
   DEF Next

LEMMA Invariance == Spec => []SessionsInv
BY InitInv, NextKeepsInv, PTL DEF Spec

\* Accounts and sessions keep their types: no two accounts share a username or an
\* e-mail, and every session and every answered registration has its account.
THEOREM SessionsTypeOK == Spec => []AccountsTypeOK
<1>1. SessionsInv => AccountsTypeOK
  BY DEF SessionsInv
<1> QED BY <1>1, Invariance, PTL

\* A session that was logged out or had expired before a request began never
\* authenticates it.
THEOREM SessionsNoRevival == Spec => []NoRevival
<1>1. SessionsInv => NoRevival
  BY DEF SessionsInv
<1> QED BY <1>1, Invariance, PTL

\* A request acts as the account whose credentials bought its cookie.
THEOREM SessionsActsAsItself == Spec => []ActsAsItself
<1>1. SessionsInv => ActsAsItself
  BY DEF SessionsInv
<1> QED BY <1>1, Invariance, PTL

\* Whoever was told 201 is never refused afterwards with the right credentials.
THEOREM SessionsRegistrationLasts == Spec => []RegistrationLasts
<1>1. SessionsInv => RegistrationLasts
  BY DEF SessionsInv
<1> QED BY <1>1, Invariance, PTL
=============================================================================
