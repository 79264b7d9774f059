------------------------------ MODULE Accounts ------------------------------
(* Accounts and how one gets into them (app/api/auth.py, sso.py, users.py)    *)
(* over the settings of the tenant: first-run setup, password logins with     *)
(* their lockout, the second factor, single sign-on, and the administration   *)
(* of users.  Each request is a thread of the API server with a session of    *)
(* its own; between its read of the database and its commit any other runs,   *)
(* for as long as a password hash or an exchange with the identity provider   *)
(* takes.  Accounts are identified by e-mail; of the tokens only that of a    *)
(* login that still owes its second factor is kept.                           *)
EXTENDS SettingsStore

CONSTANTS
    Emails,       \* accounts of users
    SuperAdmin,   \* SUPER_ADMIN_EMAIL, the break-glass account, with no row in users
    SuperLimit,   \* its failed attempts, written in the code
    MaxAttempts,  \* the key of security.max_login_attempts
    Logins, Setups, Factors, Callbacks,  \* concurrent requests of each kind
    Secrets,      \* TOTP secrets
    NoSecret,
    Concurrent    \* requests handled at the same time (bound)

ASSUME AccountsAssumption ==
    /\ MaxAttempts \in Keys /\ Default[MaxAttempts] > 0
    /\ SuperLimit \in Nat \ {0} /\ SuperAdmin \notin Emails
    /\ NoSecret \notin Secrets
    /\ IsFiniteSet(Logins) /\ Logins # {}

VARIABLES
    tenant,    \* has the tenant been created?
    users,     \* e-mail -> its row in users
    failures,  \* account -> failed attempts since the last success, in the window
    login,     \* password logins: [pc, email, mfa]
    setup,     \* first-run setups
    factor,    \* confirmations and removals of the second factor
    callback   \* returns from the identity provider
accountVars == <<tenant, users, failures, login, setup, factor, callback>>
vars == <<accountVars, settingsVars>>

NoUser == [status |-> "none", secret |-> NoSecret, enabled |-> FALSE]
NewUser == [NoUser EXCEPT !.status = "live"]
Live(e) == users[e].status = "live"
LoginNames == Emails \cup {SuperAdmin}

NoLogin == [pc |-> "idle", email |-> SuperAdmin, mfa |-> FALSE]
NoFactor == [pc |-> "idle", email |-> SuperAdmin, had |-> FALSE, enabled |-> FALSE]
Nobody == SuperAdmin

\* The requests under way.
InFlight == {i \in Logins : login[i].pc \in {"checked", "passed", "minting"}}
            \cup {s \in Setups : setup[s] = "checked"}
            \cup {f \in Factors : factor[f].pc # "idle"}
            \cup {c \in Callbacks : callback[c] # Nobody}
            \cup {p \in Puts : put[p].pc # "idle"}
Admitted == Cardinality(InFlight) < Concurrent

Init ==
    /\ SettingsInit
    /\ tenant = FALSE
    /\ users = [e \in Emails |-> NoUser]
    /\ failures = [e \in LoginNames |-> 0]
    /\ login = [i \in Logins |-> NoLogin]
    /\ setup = [s \in Setups |-> "idle"]
    /\ factor = [f \in Factors |-> NoFactor]
    /\ callback = [c \in Callbacks |-> Nobody]

----------------------------------------------------------------------------
\* POST /auth/setup.

SetupCheck(s) ==
    /\ Admitted /\ setup[s] = "idle"
    /\ \A e \in Emails : ~Live(e)
    /\ setup' = [setup EXCEPT ![s] = "checked"]
    /\ UNCHANGED <<tenant, users, failures, login, factor, callback>>

\* The name of the tenant is unique (and so is its row): of two setups the
\* later one fails with the flush and creates nothing.
SetupFlushUnguarded(s, e) == TRUE
SetupFlush(s, e) == ~tenant /\ users[e].status = "none"
SetupCommit(s, e) ==
    /\ setup[s] = "checked"
    /\ IF SetupFlush(s, e)
       THEN /\ setup' = [setup EXCEPT ![s] = "created"]
            /\ tenant' = TRUE
            /\ users' = [users EXCEPT ![e] = NewUser]
       ELSE /\ setup' = [setup EXCEPT ![s] = "idle"]
            /\ UNCHANGED <<tenant, users>>
    /\ UNCHANGED <<failures, login, factor, callback>>

----------------------------------------------------------------------------
\* POST /users and DELETE /users/{id}, each in one transaction.  An address
\* that was deleted is not registered again (bound).

CreateUser(e) ==
    /\ tenant
    /\ users[e].status = "none"
    /\ users' = [users EXCEPT ![e] = NewUser]
    /\ UNCHANGED <<tenant, failures, login, setup, factor, callback>>

DeleteUser(e) ==
    /\ Live(e)
    /\ users' = [users EXCEPT ![e] = [NoUser EXCEPT !.status = "deleted"]]
    /\ UNCHANGED <<tenant, failures, login, setup, factor, callback>>

----------------------------------------------------------------------------
\* POST /auth/login.

Limit(e) == IF e = SuperAdmin THEN SuperLimit ELSE Setting(MaxAttempts)
LockedOutPastLimit(e) == failures[e] > Limit(e)
LockedOut(e) == failures[e] >= Limit(e)

SetLogin(i, pc, e, mfa) ==
    login' = [login EXCEPT ![i] = [pc |-> pc, email |-> e, mfa |-> mfa]]

\* What a login would do that recorded its refusals too.
CheckAndRecordRefusal(i, e) ==
    \/ /\ Admitted /\ login[i].pc = "idle"
       /\ e \in Emails => Live(e)
       /\ ~LockedOut(e)
       /\ SetLogin(i, "checked", e, e # SuperAdmin /\ users[e].enabled)
       /\ UNCHANGED <<tenant, users, failures, setup, factor, callback>>
    \/ /\ login[i].pc = "idle" /\ LockedOut(e)
       /\ failures' = [failures EXCEPT ![e] = Limit(e) + 1]
       /\ UNCHANGED <<tenant, users, login, setup, factor, callback>>

\* The failures are counted; the password is verified after.  An account
\* locked out gets 429 and an unknown one 401, and nothing is recorded.
\* mfa is totp_enabled of the user object loaded here.
CheckLockout(i, e) ==
    /\ Admitted /\ login[i].pc = "idle"
    /\ e \in Emails => Live(e)
    /\ ~LockedOut(e)
    /\ SetLogin(i, "checked", e, e # SuperAdmin /\ users[e].enabled)
    /\ UNCHANGED <<tenant, users, failures, setup, factor, callback>>
RecordFailure(i) ==
    /\ login[i].pc = "checked"
    /\ failures' = [failures EXCEPT ![login[i].email] = @ + 1]
    /\ login' = [login EXCEPT ![i] = NoLogin]
    /\ UNCHANGED <<tenant, users, setup, factor, callback>>

\* The commit of the success expires the user object.
RecordSuccess(i) ==
    /\ login[i].pc = "checked"
    /\ failures' = [failures EXCEPT ![login[i].email] = 0]
    /\ login' = [login EXCEPT ![i].pc = "passed"]
    /\ UNCHANGED <<tenant, users, setup, factor, callback>>

\* totp_enabled is therefore read again; a row deleted meanwhile is an error.
\* The break-glass account has no second factor and gets its token here.
MfaAsLoaded(i) == login[i].mfa
MfaRequired(i) == users[login[i].email].enabled
ReadFactor(i) ==
    /\ login[i].pc = "passed"
    /\ LET e == login[i].email IN
       IF e # SuperAdmin /\ Live(e)
       THEN SetLogin(i, IF MfaRequired(i) THEN "pending" ELSE "minting", e, FALSE)
       ELSE login' = [login EXCEPT ![i] = NoLogin]
    /\ UNCHANGED <<tenant, users, failures, setup, factor, callback>>

\* The lifetime is read from the settings and the token made, for the user as
\* ReadFactor loaded it: whatever became of the account meanwhile.
Issue(i) ==
    /\ login[i].pc = "minting"
    /\ login' = [login EXCEPT ![i] = NoLogin]
    /\ UNCHANGED <<tenant, users, failures, setup, factor, callback>>

\* POST /auth/mfa/challenge with a code of the secret that is stored now.
Challenge(i) ==
    /\ login[i].pc = "pending"
    /\ LET u == users[login[i].email] IN
       u.status = "live" /\ u.enabled /\ u.secret # NoSecret
    /\ login' = [login EXCEPT ![i] = NoLogin]
    /\ UNCHANGED <<tenant, users, failures, setup, factor, callback>>

\* Five minutes after the password the pending token is void.
PendingExpires(i) ==
    /\ login[i].pc = "pending"
    /\ login' = [login EXCEPT ![i] = NoLogin]
    /\ UNCHANGED <<tenant, users, failures, setup, factor, callback>>

\* The oldest failures leave the lockout window.  Its length does not change.
WindowPasses(e) ==
    /\ failures[e] > 0
    /\ \E n \in 0..failures[e] - 1 : failures' = [failures EXCEPT ![e] = n]
    /\ UNCHANGED <<tenant, users, login, setup, factor, callback>>

LoginStep(i) ==
    \/ \E e \in LoginNames : CheckLockout(i, e)
    \/ RecordFailure(i) \/ RecordSuccess(i) \/ ReadFactor(i) \/ Issue(i)
    \/ Challenge(i) \/ PendingExpires(i)

----------------------------------------------------------------------------
\* The second factor of an account, changed by its own user.

\* A random secret replaces the one stored.
Enroll(e) ==
    /\ Live(e)
    /\ \E s \in Secrets \ {users[e].secret} : users' = [users EXCEPT ![e].secret = s]
    /\ UNCHANGED <<tenant, failures, login, setup, factor, callback>>

Load(f, pc, e) ==
    /\ Admitted /\ factor[f].pc = "idle"
    /\ Live(e)
    /\ factor' = [factor EXCEPT ![f] = [pc |-> pc, email |-> e,
                    had |-> users[e].secret # NoSecret, enabled |-> users[e].enabled]]
    /\ UNCHANGED <<tenant, users, failures, login, setup, callback>>
ConfirmRead(f, e) == users[e].secret # NoSecret /\ Load(f, "confirm", e)
DisableRead(f, e) == Load(f, "disable", e)

\* The code or the password was wrong, or the row is gone by the commit.
FactorFails(f) ==
    /\ factor[f].pc # "idle"
    /\ factor' = [factor EXCEPT ![f] = NoFactor]
    /\ UNCHANGED <<tenant, users, failures, login, setup, callback>>

\* A commit writes the columns whose value differs from the one loaded.
ConfirmWrite(f) ==
    /\ factor[f].pc = "confirm"
    /\ LET e == factor[f].email IN
       /\ Live(e)
       /\ users' = [users EXCEPT ![e].enabled = @ \/ ~factor[f].enabled]
    /\ factor' = [factor EXCEPT ![f] = NoFactor]
    /\ UNCHANGED <<tenant, failures, login, setup, callback>>

DisableWrite(f) ==
    /\ factor[f].pc = "disable"
    /\ LET e == factor[f].email IN
       /\ Live(e)
       /\ users' = [users EXCEPT
            ![e].secret = IF factor[f].had THEN NoSecret ELSE @,
            ![e].enabled = @ /\ ~factor[f].enabled]
    /\ factor' = [factor EXCEPT ![f] = NoFactor]
    /\ UNCHANGED <<tenant, failures, login, setup, callback>>

FactorStep(f) ==
    \/ \E e \in Emails : ConfirmRead(f, e) \/ DisableRead(f, e)
    \/ ConfirmWrite(f) \/ DisableWrite(f) \/ FactorFails(f)

----------------------------------------------------------------------------
\* GET /auth/sso/callback, after the exchange with the identity provider: its
\* subject is looked up, then its e-mail, and a user that neither finds is
\* created.  A user that is found is logged in, without a second factor.

FindNoUser(c, e) ==
    /\ Admitted /\ callback[c] = Nobody
    /\ tenant
    /\ ~Live(e)
    /\ callback' = [callback EXCEPT ![c] = e]
    /\ UNCHANGED <<tenant, users, failures, login, setup, factor>>

\* An e-mail registered meanwhile breaks its unique index: an error.
ProvisionUser(c) ==
    /\ callback[c] # Nobody
    /\ LET e == callback[c] IN
       users' = IF users[e].status = "none" THEN [users EXCEPT ![e] = NewUser] ELSE users
    /\ callback' = [callback EXCEPT ![c] = Nobody]
    /\ UNCHANGED <<tenant, failures, login, setup, factor>>

----------------------------------------------------------------------------
AccountNext ==
    \/ \E s \in Setups : SetupCheck(s) \/ \E e \in Emails : SetupCommit(s, e)
    \/ \E e \in Emails : CreateUser(e) \/ DeleteUser(e) \/ Enroll(e)
    \/ \E e \in LoginNames : WindowPasses(e)
    \/ \E i \in Logins : LoginStep(i)
    \/ \E f \in Factors : FactorStep(f)
    \/ \E c \in Callbacks : ProvisionUser(c) \/ \E e \in Emails : FindNoUser(c, e)

SettingsStep == \E p \in Puts : PutWrite(p) \/ (Admitted /\ (PutRead(p) \/ ResetRead(p)))

Next ==
    \/ AccountNext /\ UNCHANGED settingsVars
    \/ tenant /\ SettingsStep /\ UNCHANGED accountVars

Spec == Init /\ [][Next]_vars

\* Time passes: a failure does not stay in the window for ever.
FairSpec == Spec /\ \A e \in LoginNames :
                WF_vars(WindowPasses(e) /\ UNCHANGED settingsVars)

----------------------------------------------------------------------------
TypeOK ==
    /\ SettingsTypeOK
    /\ tenant \in BOOLEAN
    /\ users \in [Emails -> [status: {"none", "live", "deleted"},
                             secret: Secrets \cup {NoSecret}, enabled: BOOLEAN]]
    /\ failures \in [LoginNames -> Nat]
    /\ login \in [Logins -> [pc: {"idle", "checked", "passed", "minting", "pending"},
                             email: LoginNames, mfa: BOOLEAN]]
    /\ setup \in [Setups -> {"idle", "checked", "created"}]
    /\ factor \in [Factors -> [pc: {"idle", "confirm", "disable"},
                    email: LoginNames, had: BOOLEAN, enabled: BOOLEAN]]
    /\ callback \in [Callbacks -> LoginNames]

\* The values security.max_login_attempts can have.
LimitValues == {Default[MaxAttempts]} \cup
               {p[MaxAttempts] : p \in {q \in Patches : MaxAttempts \in DOMAIN q}}
WithinLimit(e, n) ==
    IF e = SuperAdmin THEN n < SuperLimit
    ELSE \E v \in LimitValues : n < v

\* The lockout counts before the password is verified and records after, so
\* logins under way together may pass it, but never by more than their number
\* less one: with every other login done it is exact (auth.py:215).
OverrunBounded ==
    \A e \in LoginNames :
        failures[e] > 0 =>
            \E over \in 0..Cardinality(Logins) - 1 :
                over <= failures[e] - 1 /\ WithinLimit(e, failures[e] - 1 - over)

\* The bootstrap happens once however many setups run at the same time: the
\* check that no user exists is only as good as the moment it was made
\* (auth.py:119).
OneSetup ==
    \A s, t \in Setups : setup[s] = "created" /\ setup[t] = "created" => s = t

\* A password alone leads to a token only if the second factor is off once the
\* success is recorded, not when the login began: an enrolment confirmed while
\* the password is being verified counts (auth.py:234).  One confirmed in the
\* instant the token takes to be made does not.
PasswordAloneOnlyWithoutMfa ==
    [][\A i \in Logins, e \in Emails :
        login[i].email = e /\ login[i].pc = "passed" /\ login'[i].pc # "passed"
        /\ users[e].enabled => login'[i].pc = "pending"]_vars

\* A locked account opens again, unless the limit is zero, which locks every
\* account for ever: refused logins are not recorded, so they cannot prolong
\* the lockout (auth.py:215).
LockoutEnds == \A e \in LoginNames : []<>(failures[e] < Limit(e) \/ Limit(e) = 0)

\* models.py:63-66: "a started-but-never-confirmed enrollment never gates
\* login": a secret that has just been made is not asked for yet.
UnconfirmedNeverGates ==
    [][\A e \in Emails :
        users'[e].secret \notin {users[e].secret, NoSecret} => ~users'[e].enabled]_vars
=============================================================================
