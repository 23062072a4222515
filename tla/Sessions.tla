------------------------------- MODULE Sessions -------------------------------
(***************************************************************************)
(* Accounts and sessions (internal/server/auth.go, auth_middleware.go) on their *)
(* tables users and sessions: concurrent registrations, logins, logouts and   *)
(* requests that authenticate themselves with a session cookie.               *)
(*                                                                         *)
(* A handler makes one database call at a time.  The call may fail when the     *)
(* client or the connection goes away: before the statement ran, after it, or   *)
(* while it is still on its way, and then it runs late, when the handler has    *)
(* long answered.                                                          *)
(*                                                                         *)
(* A password stands for its hash, a token for its SHA-256.  Names are in lower *)
(* case, as the handlers normalise them and the unique indexes compare them.   *)
(***************************************************************************)
EXTENDS Naturals

CONSTANTS
    Usernames, Emails, Passwords,
    Nobody,
    Tokens,
    NoToken,
    Requests,      \* the handlers that may run at a time
    SessionTicks,  \* sessionDuration
    MaxClock,      \* bound on the clock
    MaxFaults      \* bound on the failed calls

Users == [username : Usernames, email : Emails, password : Passwords]
Logins == [identifier : Usernames \cup Emails, password : Passwords]

\* usernamePattern has no @, and mail.ParseAddress insists on one.
ASSUME NamesAssumption == Usernames \cap Emails = {}
ASSUME NobodyAssumption == Nobody \notin Users \cup Logins
ASSUME NoTokenAssumption == NoToken \notin Tokens
ASSUME BoundsAssumption == SessionTicks \in Nat \ {0} /\ MaxClock \in Nat /\ MaxFaults \in Nat

VARIABLES
    clock,
    users,         \* the rows of users
    owner, expires,\* the rows of sessions; Nobody where there is none
    late,          \* statements whose handler has given up on them
    faults,
    issued,        \* the tokens newSessionToken has made
    pc, form, token, user, expiresAt,   \* a handler, its input, its variables
    cookie,        \* the Expires of the cookie that a client has, 0 if none has it
    bought,        \* the credentials it was given for
    registered,    \* the accounts whose registration was answered 201
    loggedOut,     \* the tokens whose logout was answered 204
    known, dead    \* of registered, and of the tokens past their use, what a request
                   \* was about when it began

tables == <<users, owner, expires>>
locals == <<form, token, user, expiresAt>>
told == <<cookie, bought, registered, loggedOut>>
begun == <<known, dead>>
vars == <<clock, tables, late, faults, issued, pc, locals, told, begun>>

Init ==
    /\ clock = 1
    /\ users = {}
    /\ owner = [t \in Tokens |-> Nobody]
    /\ expires = [t \in Tokens |-> 0]
    /\ late = {} /\ faults = 0 /\ issued = {}
    /\ pc = [r \in Requests |-> "idle"]
    /\ form = [r \in Requests |-> Nobody]
    /\ token = [r \in Requests |-> NoToken]
    /\ user = [r \in Requests |-> Nobody]
    /\ expiresAt = [r \in Requests |-> 0]
    /\ cookie = [t \in Tokens |-> 0]
    /\ bought = [t \in Tokens |-> Nobody]
    /\ registered = {} /\ loggedOut = {}
    /\ known = [r \in Requests |-> {}]
    /\ dead = [r \in Requests |-> {}]

-----------------------------------------------------------------------------
\* The statements.

\* What the unique indexes refuse (23505).
Clash(u) == \E w \in users : w.username = u.username \/ w.email = u.email

\* Mutant of InsertUser: a clash overwrites the account.
UpsertUser(u) ==
    /\ users' = {w \in users : w.username # u.username /\ w.email # u.email} \cup {u}
    /\ UNCHANGED <<owner, expires>>

InsertUser(u) ==
    /\ users' = IF Clash(u) THEN users ELSE users \cup {u}
    /\ UNCHANGED <<owner, expires>>

\* GetUserByIdentifier looks for either.
Matches(l, u) == l.identifier = u.username \/ l.identifier = u.email

InsertSession(t, u, e) ==
    /\ owner' = [owner EXCEPT ![t] = u]
    /\ expires' = [expires EXCEPT ![t] = e]
    /\ UNCHANGED users

RemoveSession(t) ==
    /\ owner' = [owner EXCEPT ![t] = Nobody]
    /\ expires' = [expires EXCEPT ![t] = 0]
    /\ UNCHANGED users

\* What GetValidSession finds.
Valid(t) == owner[t] # Nobody /\ expires[t] > clock

\* The statement that a handler waits for, if it writes.
Call(r) == [at |-> pc[r], form |-> form[r], token |-> token[r], user |-> user[r],
            expiresAt |-> expiresAt[r]]

Runs(c) ==
    \/ c.at = "create" /\ InsertUser(c.form)
    \/ c.at = "insert" /\ InsertSession(c.token, c.user, c.expiresAt)
    \/ c.at = "delete" /\ RemoveSession(c.token)

-----------------------------------------------------------------------------
\* A request begins.

Begin(r, at, f, t) ==
    /\ pc[r] = "idle"
    /\ pc' = [pc EXCEPT ![r] = at]
    /\ form' = [form EXCEPT ![r] = f]
    /\ token' = [token EXCEPT ![r] = t]
    /\ known' = [known EXCEPT ![r] =
         IF at = "find" THEN {u \in registered : Matches(f, u)} ELSE {}]
    /\ dead' = [dead EXCEPT ![r] =
         IF at = "authenticate" /\ (t \in loggedOut \/ cookie[t] <= clock) THEN {t} ELSE {}]
    /\ UNCHANGED <<clock, tables, late, faults, issued, user, expiresAt, told>>

BeginRegister(r) == \E u \in Users : Begin(r, "create", u, NoToken)
BeginLogin(r) == \E l \in Logins : Begin(r, "find", l, NoToken)

\* Without a cookie there is nothing to delete, and nobody to be.
BeginLogout(r) ==
    \/ Begin(r, "deleted", Nobody, NoToken)
    \/ \E t \in Tokens : cookie[t] > 0 /\ Begin(r, "delete", Nobody, t)
BeginUse(r) ==
    \/ Begin(r, "refused", Nobody, NoToken)
    \/ \E t \in Tokens : cookie[t] > 0 /\ Begin(r, "authenticate", Nobody, t)

-----------------------------------------------------------------------------
\* The steps of the handlers.

Goes(r, at) ==
    /\ pc' = [pc EXCEPT ![r] = at]
    /\ UNCHANGED <<clock, late, faults, form, token, told, begun>>

CreateUser(r) ==
    /\ pc[r] = "create"
    /\ Runs(Call(r))
    /\ Goes(r, IF Clash(form[r]) THEN "conflict" ELSE "created")
    /\ UNCHANGED <<issued, user, expiresAt>>

GetUserByIdentifier(r) ==
    /\ pc[r] = "find"
    /\ \/ \E u \in users :
            /\ Matches(form[r], u)
            /\ user' = [user EXCEPT ![r] = u]
            /\ Goes(r, "compare")
       \/ /\ \A u \in users : ~Matches(form[r], u)
          /\ Goes(r, "refused")
          /\ UNCHANGED user
    /\ UNCHANGED <<tables, issued, expiresAt>>

\* ComparePasswordAndHash does not match.
Mismatch(r) ==
    /\ pc[r] = "compare"
    /\ form[r].password # user[r].password
    /\ Goes(r, "refused")
    /\ UNCHANGED <<tables, issued, user, expiresAt>>

\* Mutant of NewSession: the passwords are not compared.
NewSessionUnchecked(r) ==
    /\ pc[r] = "compare"
    /\ \E t \in Tokens \ issued :
         /\ issued' = issued \cup {t}
         /\ token' = [token EXCEPT ![r] = t]
    /\ expiresAt' = [expiresAt EXCEPT ![r] = clock + SessionTicks]
    /\ pc' = [pc EXCEPT ![r] = "insert"]
    /\ UNCHANGED <<clock, tables, late, faults, form, user, told, begun>>

\* It does: newSessionToken, and the time until which the session is to last.
NewSession(r) ==
    /\ pc[r] = "compare"
    /\ form[r].password = user[r].password
    /\ \E t \in Tokens \ issued :
         /\ issued' = issued \cup {t}
         /\ token' = [token EXCEPT ![r] = t]
    /\ expiresAt' = [expiresAt EXCEPT ![r] = clock + SessionTicks]
    /\ pc' = [pc EXCEPT ![r] = "insert"]
    /\ UNCHANGED <<clock, tables, late, faults, form, user, told, begun>>

CreateSession(r) ==
    /\ pc[r] = "insert"
    /\ Runs(Call(r))
    /\ Goes(r, "inserted")
    /\ UNCHANGED <<issued, user, expiresAt>>

\* It reports no error when there is no such row.
DeleteSession(r) ==
    /\ pc[r] = "delete"
    /\ Runs(Call(r))
    /\ Goes(r, "deleted")
    /\ UNCHANGED <<issued, user, expiresAt>>

\* currentUser; then the handler behind requireAuth, or getCurrentUser, goes on as
\* that user whatever becomes of the session.
GetValidSession(r) ==
    /\ pc[r] = "authenticate"
    /\ \/ /\ Valid(token[r])
          /\ user' = [user EXCEPT ![r] = owner[token[r]]]
          /\ Goes(r, "act")
       \/ /\ ~Valid(token[r])
          /\ Goes(r, "refused")
          /\ UNCHANGED user
    /\ UNCHANGED <<tables, issued, expiresAt>>

\* The handler returns.
Done(r) ==
    /\ pc' = [pc EXCEPT ![r] = "idle"]
    /\ form' = [form EXCEPT ![r] = Nobody]
    /\ token' = [token EXCEPT ![r] = NoToken]
    /\ user' = [user EXCEPT ![r] = Nobody]
    /\ expiresAt' = [expiresAt EXCEPT ![r] = 0]
    /\ known' = [known EXCEPT ![r] = {}]
    /\ dead' = [dead EXCEPT ![r] = {}]

AnswerCreated(r) ==
    /\ pc[r] = "created"
    /\ registered' = registered \cup {form[r]}
    /\ Done(r)
    /\ UNCHANGED <<clock, tables, late, faults, issued, cookie, bought, loggedOut>>

\* 200 and the cookie, which the client may never see.
AnswerLogin(r) ==
    /\ pc[r] = "inserted"
    /\ cookie' = [cookie EXCEPT ![token[r]] = expiresAt[r]]
    /\ bought' = [bought EXCEPT ![token[r]] = form[r]]
    /\ Done(r)
    /\ UNCHANGED <<clock, tables, late, faults, issued, registered, loggedOut>>

AnswerLogout(r) ==
    /\ pc[r] = "deleted"
    /\ loggedOut' = loggedOut \cup ({token[r]} \ {NoToken})
    /\ Done(r)
    /\ UNCHANGED <<clock, tables, late, faults, issued, cookie, bought, registered>>

\* 409, 401, or what the authenticated handler answers.
AnswerOther(r) ==
    /\ pc[r] \in {"conflict", "refused", "act"}
    /\ Done(r)
    /\ UNCHANGED <<clock, tables, late, faults, issued, told>>

-----------------------------------------------------------------------------
\* What may fail.

\* Mutant of CallFails: a logout does not look at the error.
CallFailsIgnored(r) ==
    /\ faults < MaxFaults
    /\ faults' = faults + 1
    /\ pc[r] = "delete"
    /\ loggedOut' = loggedOut \cup {token[r]}
    /\ Done(r)
    /\ UNCHANGED <<clock, tables, late, issued, cookie, bought, registered>>

\* A call fails though its statement ran, or before it runs, if it ever does: 500.
CallFails(r) ==
    /\ faults < MaxFaults
    /\ faults' = faults + 1
    /\ \/ /\ pc[r] \in {"create", "insert", "delete"}
          /\ late' = late \cup {Call(r)}
       \/ /\ pc[r] \in {"create", "insert", "delete", "find", "authenticate",
                         "created", "conflict", "inserted", "deleted"}
          /\ UNCHANGED late
    /\ Done(r)
    /\ UNCHANGED <<clock, tables, issued, told>>

\* CreateHash, newSessionToken: 500 before any statement that writes.
HandlerFails(r) ==
    /\ pc[r] \in {"create", "compare"}
    /\ Done(r)
    /\ UNCHANGED <<clock, tables, late, faults, issued, told>>

RunsLate(c) ==
    /\ late' = late \ {c}
    /\ Runs(c)
    /\ UNCHANGED <<clock, faults, issued, pc, locals, told, begun>>

Tick ==
    /\ clock < MaxClock
    /\ clock' = clock + 1
    /\ UNCHANGED <<tables, late, faults, issued, pc, locals, told, begun>>

Next ==
    \/ Tick
    \/ \E c \in late : RunsLate(c)
    \/ \E r \in Requests :
        \/ BeginRegister(r) \/ BeginLogin(r) \/ BeginLogout(r) \/ BeginUse(r)
        \/ CreateUser(r)
        \/ GetUserByIdentifier(r) \/ Mismatch(r) \/ NewSession(r) \/ CreateSession(r)
        \/ DeleteSession(r) \/ GetValidSession(r)
        \/ AnswerCreated(r) \/ AnswerLogin(r) \/ AnswerLogout(r) \/ AnswerOther(r)
        \/ CallFails(r) \/ HandlerFails(r)

Spec == Init /\ [][Next]_vars

-----------------------------------------------------------------------------

Statements ==
    [at : {"create"}, form : Users, token : {NoToken}, user : {Nobody}, expiresAt : {0}]
      \cup
    [at : {"insert"}, form : Logins, token : Tokens, user : Users, expiresAt : Nat]
      \cup
    [at : {"delete"}, form : {Nobody}, token : Tokens, user : {Nobody}, expiresAt : {0}]

PCs == {"idle", "create", "created", "conflict", "find", "compare", "insert", "inserted",
        "delete", "deleted", "authenticate", "act", "refused"}

\* The type invariant of accounts and sessions: in particular no two accounts share
\* a username or an e-mail, whatever runs late.
AccountsTypeOK ==
    /\ clock \in Nat
    /\ users \subseteq Users
    /\ \A u, w \in users : u.username = w.username \/ u.email = w.email => u = w
    /\ owner \in [Tokens -> Users \cup {Nobody}]
    /\ \A t \in Tokens : owner[t] # Nobody => owner[t] \in users
    /\ expires \in [Tokens -> Nat]
    /\ late \subseteq Statements
    /\ faults \in Nat
    /\ issued \subseteq Tokens
    /\ pc \in [Requests -> PCs]
    /\ form \in [Requests -> Users \cup Logins \cup {Nobody}]
    /\ token \in [Requests -> Tokens \cup {NoToken}]
    /\ user \in [Requests -> Users \cup {Nobody}]
    /\ expiresAt \in [Requests -> Nat]
    /\ cookie \in [Tokens -> Nat]
    /\ bought \in [Tokens -> Logins \cup {Nobody}]
    /\ registered \subseteq users
    /\ loggedOut \subseteq Tokens
    /\ known \in [Requests -> SUBSET Users]
    /\ dead \in [Requests -> SUBSET Tokens]

\* A session that was logged out, with a 204, or that has expired before a request
\* began never authenticates that request, and so never comes back: whatever
\* other requests, failed calls and late statements there are.
NoRevival == \A r \in Requests : pc[r] = "act" => token[r] \notin dead[r]

\* A request acts as the account whose name and password bought its cookie, and as
\* no other.
ActsAsItself ==
    \A r \in Requests : pc[r] = "act" =>
        /\ Matches(bought[token[r]], user[r])
        /\ bought[token[r]].password = user[r].password

\* Whoever was told 201 can log in from then on, with the username and with the
\* e-mail: those credentials are never answered 401, whoever else registers, and
\* whatever calls fail and registrations run late.
RegistrationLasts ==
    \A r \in Requests : pc[r] = "refused" /\ form[r] # Nobody =>
        \A u \in known[r] : form[r].password # u.password
=============================================================================
