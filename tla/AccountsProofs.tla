--------------------------- MODULE AccountsProofs ---------------------------
(* Proofs about Accounts, for any number of accounts, settings and requests,  *)
(* and without a bound on the requests handled at the same time.              *)
EXTENDS Accounts, Integers, FiniteSetTheorems, TLAPS

User == [status: {"none", "live", "deleted"}, secret: Secrets \cup {NoSecret},
         enabled: BOOLEAN]
Login == [pc: {"idle", "checked", "passed", "minting", "pending"}, email: LoginNames, mfa: BOOLEAN]
Factor == [pc: {"idle", "confirm", "disable"}, email: LoginNames, had: BOOLEAN,
           enabled: BOOLEAN]

\* The fields of a request that changes the settings.
PutFields(f) ==
    /\ f.pc \in {"idle", "read"}
    /\ f.reset \in BOOLEAN /\ f.found \in BOOLEAN
    /\ IsOverrides(f.patch) /\ IsOverrides(f.seen)

LEMMA ConstantFacts ==
    /\ MaxAttempts \in Keys /\ Default \in [Keys -> Nat] /\ Default[MaxAttempts] > 0
    /\ SuperLimit \in Nat /\ SuperLimit > 0 /\ SuperAdmin \notin Emails
    /\ \A patch \in Patches : IsOverrides(patch)
    /\ IsFiniteSet(Logins) /\ Logins # {}
BY AccountsAssumption, SettingsAssumption

LEMMA NoOverridesType == IsOverrides(NoOverrides)
BY DEF NoOverrides, IsOverrides

LEMMA MergeType ==
    ASSUME NEW f, NEW g, IsOverrides(f), IsOverrides(g)
    PROVE  IsOverrides(DeepMerge(f, g))
BY DEF IsOverrides, DeepMerge

LEMMA NoUserType == NoUser \in User /\ NewUser \in User /\ [NoUser EXCEPT !.status = "deleted"] \in User
BY DEF NoUser, NewUser, User

LEMMA NoLoginType == NoLogin \in Login /\ NoFactor \in Factor /\ Nobody \in LoginNames
<1>1. SuperAdmin \in LoginNames
    BY DEF LoginNames
<1>2. NoLogin \in Login
    BY <1>1 DEF NoLogin, Login
<1>3. NoFactor \in Factor
    BY <1>1 DEF NoFactor, Factor
<1>4. QED
    BY <1>1, <1>2, <1>3 DEF Nobody

LEMMA InitSettings == SettingsInit => SettingsTypeOK
<1> SUFFICES ASSUME SettingsInit PROVE SettingsTypeOK
    OBVIOUS
<1>1. PutFields(NoPut)
    BY NoOverridesType DEF NoPut, PutFields
<1>2. DOMAIN put = Puts /\ \A p \in Puts : put[p] = NoPut
    BY DEF SettingsInit
<1>3. \A p \in Puts : PutFields(put[p])
    BY <1>1, <1>2
<1>4. IsOverrides(config) /\ hasRow \in BOOLEAN
    BY NoOverridesType DEF SettingsInit
<1>5. QED
    BY <1>2, <1>3, <1>4 DEF PutFields, SettingsTypeOK

LEMMA StepSettings ==
    ASSUME SettingsTypeOK, SettingsStep
    PROVE  SettingsTypeOK'
<1>1. PICK p \in Puts : PutWrite(p) \/ PutRead(p) \/ ResetRead(p)
    BY DEF SettingsStep
<1>2. ASSUME NEW reset \in BOOLEAN, NEW patch, IsOverrides(patch), ReadRow(p, reset, patch)
      PROVE  SettingsTypeOK'
    <2>1. /\ put'[p] = [pc |-> "read", reset |-> reset, patch |-> patch,
                        seen |-> config, found |-> hasRow]
          /\ DOMAIN put' = Puts
          /\ \A q \in Puts : q # p => put'[q] = put[q]
        BY <1>2 DEF ReadRow, SettingsTypeOK
    <2>2. put'[p].pc = "read" /\ put'[p].reset = reset /\ put'[p].patch = patch
          /\ put'[p].seen = config /\ put'[p].found = hasRow
        BY <2>1
    <2>3. PutFields(put'[p])
        BY <1>2, <2>2 DEF PutFields, SettingsTypeOK
    <2>4. \A q \in Puts : PutFields(put'[q])
        BY <2>1, <2>3 DEF PutFields, SettingsTypeOK
    <2>5. QED
        BY <1>2, <2>1, <2>4 DEF ReadRow, SettingsTypeOK, PutFields
<1>3. CASE PutRead(p) \/ ResetRead(p)
    BY <1>2, <1>3, NoOverridesType, ConstantFacts DEF PutRead, ResetRead
<1>4. CASE PutWrite(p)
    <2>1. IsOverrides(Written(p))
        BY MergeType, NoOverridesType DEF Written, SettingsTypeOK
    <2>2. /\ DOMAIN put' = Puts /\ put'[p] = NoPut
          /\ \A q \in Puts : q # p => put'[q] = put[q]
        BY <1>4 DEF PutWrite, Finish, SettingsTypeOK
    <2>3. PutFields(NoPut)
        BY NoOverridesType DEF NoPut, PutFields
    <2>4. \A q \in Puts : PutFields(put'[q])
        BY <2>2, <2>3 DEF PutFields, SettingsTypeOK
    <2>5. IsOverrides(config') /\ hasRow' \in BOOLEAN
        BY <1>4, <2>1 DEF PutWrite, SettingsTypeOK
    <2>6. QED
        BY <2>2, <2>4, <2>5 DEF PutFields, SettingsTypeOK
<1>5. QED
    BY <1>1, <1>3, <1>4

AccountTypes ==
    /\ tenant \in BOOLEAN
    /\ users \in [Emails -> User]
    /\ failures \in [LoginNames -> Nat]
    /\ login \in [Logins -> Login]
    /\ setup \in [Setups -> {"idle", "checked", "created"}]
    /\ factor \in [Factors -> Factor]
    /\ callback \in [Callbacks -> LoginNames]

Types == SettingsTypeOK /\ AccountTypes

LEMMA InitTypes == Init => Types
<1> SUFFICES ASSUME Init PROVE Types
    OBVIOUS
<1>1. users \in [Emails -> User] /\ login \in [Logins -> Login] /\ factor \in [Factors -> Factor]
    BY NoUserType, NoLoginType DEF Init
<1>2. failures \in [LoginNames -> Nat] /\ callback \in [Callbacks -> LoginNames]
    BY NoLoginType DEF Init
<1>3. QED
    BY <1>1, <1>2, InitSettings DEF Init, Types, AccountTypes

LEMMA SetLoginType ==
    ASSUME AccountTypes, NEW i \in Logins, NEW pc \in {"idle", "checked", "passed", "minting", "pending"},
           NEW e \in LoginNames, NEW mfa \in BOOLEAN, SetLogin(i, pc, e, mfa)
    PROVE  login' \in [Logins -> Login]
<1>1. [pc |-> pc, email |-> e, mfa |-> mfa] \in Login
    BY DEF Login
<1>2. QED
    BY <1>1 DEF SetLogin, AccountTypes

LEMMA StepAccountTypes == AccountTypes /\ AccountNext => AccountTypes'
<1> SUFFICES ASSUME AccountTypes, AccountNext PROVE AccountTypes'
    OBVIOUS
<1> USE DEF AccountTypes
<1>1. ASSUME NEW s \in Setups, SetupCheck(s) PROVE AccountTypes'
    BY <1>1 DEF SetupCheck
<1>2. ASSUME NEW s \in Setups, NEW e \in Emails, SetupCommit(s, e) PROVE AccountTypes'
    BY <1>2, NoUserType DEF SetupCommit
<1>3. ASSUME NEW e \in Emails, CreateUser(e) PROVE AccountTypes'
    BY <1>3, NoUserType DEF CreateUser
<1>4. ASSUME NEW e \in Emails, DeleteUser(e) PROVE AccountTypes'
    BY <1>4, NoUserType DEF DeleteUser
<1>5. ASSUME NEW e \in Emails, Enroll(e) PROVE AccountTypes'
    <2>1. PICK s \in Secrets : users' = [users EXCEPT ![e].secret = s]
        BY <1>5 DEF Enroll
    <2>2. [users[e] EXCEPT !.secret = s] \in User
        BY DEF User
    <2>3. users' \in [Emails -> User]
        BY <2>1, <2>2
    <2>4. QED
        BY <1>5, <2>3 DEF Enroll
<1>6. ASSUME NEW e \in LoginNames, WindowPasses(e) PROVE AccountTypes'
    BY <1>6 DEF WindowPasses
<1>7. ASSUME NEW i \in Logins, NEW e \in LoginNames, CheckLockout(i, e) PROVE AccountTypes'
    <2>1. (e # SuperAdmin /\ users[e].enabled) \in BOOLEAN
        BY DEF LoginNames, User
    <2>2. login' \in [Logins -> Login]
        BY <1>7, <2>1, SetLoginType DEF CheckLockout
    <2>3. QED
        BY <1>7, <2>2 DEF CheckLockout
<1>8. ASSUME NEW i \in Logins, RecordFailure(i) PROVE AccountTypes'
    <2>1. login[i].email \in LoginNames
        BY DEF Login
    <2>2. QED
        BY <1>8, <2>1, NoLoginType DEF RecordFailure
<1>9. ASSUME NEW i \in Logins, RecordSuccess(i) PROVE AccountTypes'
    <2>1. login[i].email \in LoginNames /\ [login[i] EXCEPT !.pc = "passed"] \in Login
        BY DEF Login
    <2>2. QED
        BY <1>9, <2>1 DEF RecordSuccess
<1>10. ASSUME NEW i \in Logins, ReadFactor(i) PROVE AccountTypes'
    <2>1. login[i].email \in LoginNames
        BY DEF Login
    <2>2. login' \in [Logins -> Login]
        BY <1>10, <2>1, SetLoginType, NoLoginType DEF ReadFactor
    <2>3. QED
        BY <1>10, <2>2 DEF ReadFactor
<1>11. ASSUME NEW i \in Logins, Issue(i) \/ Challenge(i) \/ PendingExpires(i) PROVE AccountTypes'
    BY <1>11, NoLoginType DEF Issue, Challenge, PendingExpires
<1>12. ASSUME NEW f \in Factors, NEW e \in Emails, ConfirmRead(f, e) \/ DisableRead(f, e)
       PROVE  AccountTypes'
    <2>1. PICK pc \in {"confirm", "disable"} : Load(f, pc, e)
        BY <1>12 DEF ConfirmRead, DisableRead
    <2>2. [pc |-> pc, email |-> e, had |-> users[e].secret # NoSecret,
           enabled |-> users[e].enabled] \in Factor
        BY DEF Factor, LoginNames, User
    <2>3. QED
        BY <2>1, <2>2 DEF Load
<1>13. ASSUME NEW f \in Factors, FactorFails(f) PROVE AccountTypes'
    BY <1>13, NoLoginType DEF FactorFails
<1>14. ASSUME NEW f \in Factors, ConfirmWrite(f) PROVE AccountTypes'
    <2> DEFINE e == factor[f].email
    <2>1. users' = [users EXCEPT ![e].enabled = @ \/ ~factor[f].enabled]
        BY <1>14 DEF ConfirmWrite
    <2>2. ASSUME e \in Emails PROVE [users[e] EXCEPT !.enabled = @ \/ ~factor[f].enabled] \in User
        <3>1. users[e] \in User
            BY <2>2
        <3>2. (users[e].enabled \/ ~factor[f].enabled) \in BOOLEAN
            OBVIOUS
        <3>3. QED
            BY <3>1, <3>2 DEF User
    <2>3. users' \in [Emails -> User]
        BY <2>1, <2>2
    <2>4. QED
        BY <1>14, <2>3, NoLoginType DEF ConfirmWrite
<1>15. ASSUME NEW f \in Factors, DisableWrite(f) PROVE AccountTypes'
    <2> DEFINE e == factor[f].email
    <2>1. users' = [users EXCEPT ![e].secret = IF factor[f].had THEN NoSecret ELSE @,
                                 ![e].enabled = @ /\ ~factor[f].enabled]
        BY <1>15 DEF DisableWrite
    <2>2. ASSUME NEW u \in User, NEW secret \in Secrets \cup {NoSecret}, NEW enabled \in BOOLEAN
          PROVE  [[u EXCEPT !.secret = secret] EXCEPT !.enabled = enabled] \in User
        BY <2>2 DEF User
    <2>3. ASSUME e \in Emails
          PROVE  [[users[e] EXCEPT !.secret = IF factor[f].had THEN NoSecret ELSE users[e].secret]
                            EXCEPT !.enabled = users[e].enabled /\ ~factor[f].enabled] \in User
        <3>1. /\ users[e] \in User
              /\ (IF factor[f].had THEN NoSecret ELSE users[e].secret) \in Secrets \cup {NoSecret}
              /\ (users[e].enabled /\ ~factor[f].enabled) \in BOOLEAN
            BY <2>3 DEF User
        <3>2. QED
            BY <2>2, <3>1
    <2>4. users' \in [Emails -> User]
        BY <2>1, <2>3, ZenonT(40) DEF User
    <2>5. QED
        BY <1>15, <2>4, NoLoginType DEF DisableWrite
<1>16. ASSUME NEW c \in Callbacks, ProvisionUser(c) PROVE AccountTypes'
    BY <1>16, NoUserType, NoLoginType DEF ProvisionUser
<1>17. ASSUME NEW c \in Callbacks, NEW e \in Emails, FindNoUser(c, e) PROVE AccountTypes'
    BY <1>17 DEF FindNoUser, LoginNames
<1>18. QED
    BY <1>1, <1>2, <1>3, <1>4, <1>5, <1>6, <1>7, <1>8, <1>9, <1>10, <1>11, <1>12, <1>13,
       <1>14, <1>15, <1>16, <1>17 DEF AccountNext, LoginStep, FactorStep

LEMMA StepTypes == Types /\ [Next]_vars => Types'
<1> SUFFICES ASSUME Types, [Next]_vars PROVE Types'
    OBVIOUS
<1>1. ASSUME UNCHANGED settingsVars PROVE SettingsTypeOK'
    BY <1>1 DEF settingsVars, SettingsTypeOK, Types
<1>2. ASSUME UNCHANGED accountVars PROVE AccountTypes'
    BY <1>2 DEF accountVars, AccountTypes, Types
<1>3. QED
    BY <1>1, <1>2, StepSettings, StepAccountTypes DEF Next, vars, Types

\* Every variable keeps its type, and every override is of a setting there is.
THEOREM TypeCorrect == Spec => []TypeOK
<1>1. Types => TypeOK
    BY DEF Types, AccountTypes, TypeOK, User, Login, Factor
<1>2. QED
    BY <1>1, InitTypes, StepTypes, PTL DEF Spec

----------------------------------------------------------------------------
\* The limit that a request has set, or will, is one of LimitValues.
Limited(f) == MaxAttempts \in DOMAIN f => f[MaxAttempts] \in LimitValues

LimitsKnown ==
    /\ Limited(config)
    /\ \A p \in Puts : put[p].pc = "read" => Limited(put[p].patch) /\ Limited(put[p].seen)

\* The logins whose password is being verified for an account.
Checking(e) == {i \in Logins : login[i].pc = "checked" /\ login[i].email = e}

LimitsOf(e) == IF e = SuperAdmin THEN {SuperLimit} ELSE LimitValues

\* Each of them was let in below a limit; none of the others can have been
\* counted more than once since.
LimitHolds ==
    \A e \in LoginNames : \E limit \in LimitsOf(e) :
        /\ limit > 0
        /\ failures[e] + Cardinality(Checking(e)) <= limit - 1 + Cardinality(Logins)

LEMMA LimitTypes ==
    /\ LimitValues \subseteq Nat /\ Default[MaxAttempts] \in LimitValues
    /\ \A patch \in Patches : Limited(patch)
    /\ Limited(NoOverrides)
BY ConstantFacts DEF LimitValues, Limited, IsOverrides, NoOverrides

LEMMA LimitOf ==
    ASSUME LimitsKnown, NEW e \in LoginNames
    PROVE  Limit(e) \in LimitsOf(e) /\ Limit(e) \in Nat /\ LimitsOf(e) \subseteq Nat
BY LimitTypes, ConstantFacts DEF Limit, LimitsOf, Setting, DeepMerge, LimitsKnown, Limited

LEMMA MergeLimited ==
    ASSUME NEW f, NEW g, Limited(f), Limited(g)
    PROVE  Limited(DeepMerge(f, g))
BY DEF Limited, DeepMerge

LEMMA CheckingFinite ==
    ASSUME NEW e
    PROVE  /\ IsFiniteSet(Checking(e)) /\ Cardinality(Checking(e)) \in Nat
           /\ Cardinality(Checking(e)) <= Cardinality(Logins)
           /\ Cardinality(Logins) \in Nat /\ Cardinality(Logins) > 0
<1>1. Checking(e) \in SUBSET Logins
    BY DEF Checking
<1>2. IsFiniteSet(Checking(e)) /\ Cardinality(Checking(e)) <= Cardinality(Logins)
    BY <1>1, ConstantFacts, FS_Subset
<1>3. Cardinality(Checking(e)) \in Nat /\ Cardinality(Logins) \in Nat
    BY <1>2, ConstantFacts, FS_CardinalityType
<1>4. Cardinality(Logins) # 0
    BY ConstantFacts, FS_EmptySet
<1>5. QED
    BY <1>2, <1>3, <1>4

LEMMA StepLimitsKnown == Types /\ LimitsKnown /\ [Next]_vars => LimitsKnown'
<1> SUFFICES ASSUME Types, LimitsKnown, [Next]_vars PROVE LimitsKnown'
    OBVIOUS
<1>0. DOMAIN put = Puts
    BY DEF Types, SettingsTypeOK
<1>1. CASE UNCHANGED settingsVars
    BY <1>1 DEF settingsVars, LimitsKnown
<1>2. CASE SettingsStep
    <2>1. PICK p \in Puts : PutWrite(p) \/ PutRead(p) \/ ResetRead(p)
        BY <1>2 DEF SettingsStep
    <2>2. ASSUME NEW reset \in BOOLEAN, NEW patch, Limited(patch), ReadRow(p, reset, patch)
          PROVE  LimitsKnown'
        <3>1. put'[p].patch = patch /\ put'[p].seen = config /\ config' = config
              /\ \A q \in Puts : q # p => put'[q] = put[q]
            BY <1>0, <2>2 DEF ReadRow
        <3>2. QED
            BY <2>2, <3>1 DEF LimitsKnown, Limited
    <2>3. CASE PutRead(p) \/ ResetRead(p)
        BY <2>2, <2>3, LimitTypes DEF PutRead, ResetRead
    <2>4. CASE PutWrite(p)
        <3>1. Limited(Written(p))
            BY <2>4, MergeLimited, LimitTypes DEF PutWrite, Written, LimitsKnown
        <3>2. put'[p].pc = "idle" /\ \A q \in Puts : q # p => put'[q] = put[q]
            BY <1>0, <2>4 DEF PutWrite, Finish, NoPut
        <3>3. config' = config \/ config' = Written(p)
            BY <2>4 DEF PutWrite
        <3>4. QED
            BY <3>1, <3>2, <3>3 DEF LimitsKnown, Limited
    <2>5. QED
        BY <2>1, <2>3, <2>4
<1>3. QED
    BY <1>1, <1>2 DEF Next, vars

\* A login that is refused, or not of the account, leaves its count alone.
LEMMA FewerChecking ==
    ASSUME LimitHolds, Types, NEW e \in LoginNames, failures'[e] \in Nat,
           failures'[e] <= failures[e], Checking(e)' \subseteq Checking(e)
    PROVE  \E limit \in LimitsOf(e) :
               /\ limit > 0
               /\ failures'[e] + Cardinality(Checking(e)') <= limit - 1 + Cardinality(Logins)
<1>1. PICK limit \in LimitsOf(e) :
          /\ limit > 0
          /\ failures[e] + Cardinality(Checking(e)) <= limit - 1 + Cardinality(Logins)
    BY DEF LimitHolds
<1>2. Cardinality(Checking(e)') <= Cardinality(Checking(e)) /\ Cardinality(Checking(e)') \in Nat
    BY CheckingFinite, FS_Subset, FS_CardinalityType
<1>3. limit \in Nat /\ failures[e] \in Nat
    BY LimitTypes, ConstantFacts DEF LimitsOf, Types, AccountTypes
<1>4. QED
    BY <1>1, <1>2, <1>3, CheckingFinite

LEMMA StepLimitHolds == Types /\ LimitsKnown /\ LimitHolds /\ [Next]_vars => LimitHolds'
<1> SUFFICES ASSUME Types, LimitsKnown, LimitHolds, [Next]_vars, NEW e \in LoginNames
             PROVE  \E limit \in LimitsOf(e) :
                        /\ limit > 0
                        /\ failures'[e] + Cardinality(Checking(e)') <= limit - 1 + Cardinality(Logins)
    BY DEF LimitHolds
<1> DEFINE Goal == \E limit \in LimitsOf(e) :
               /\ limit > 0
               /\ failures'[e] + Cardinality(Checking(e)') <= limit - 1 + Cardinality(Logins)
<1>0. /\ failures \in [LoginNames -> Nat] /\ failures[e] \in Nat /\ failures'[e] \in Nat
      /\ login \in [Logins -> Login]
      /\ \A i \in Logins : login[i].email \in LoginNames
    BY StepTypes DEF Types, AccountTypes, Login
<1>a. ASSUME failures'[e] <= failures[e], Checking(e)' \subseteq Checking(e) PROVE Goal
    BY <1>0, <1>a, FewerChecking
<1>b. ASSUME UNCHANGED <<failures, login>> PROVE Goal
    BY <1>0, <1>a, <1>b DEF Checking
<1>1. ASSUME NEW i \in Logins, NEW x \in LoginNames, CheckLockout(i, x) PROVE Goal
    <2>1. failures' = failures /\ login'[i].email = x
          /\ \A j \in Logins : j # i => login'[j] = login[j]
        BY <1>0, <1>1 DEF CheckLockout, SetLogin
    <2>2. CASE x # e
        <3>1. Checking(e)' \subseteq Checking(e)
            BY <2>1, <2>2 DEF Checking
        <3>2. QED
            BY <1>0, <1>a, <2>1, <3>1
    <2>3. CASE x = e
        <3>1. failures[e] < Limit(e)
            BY <1>0, <1>1, <2>3, LimitOf DEF CheckLockout, LockedOut
        <3>2. Checking(e)' \in SUBSET Logins
            BY DEF Checking
        <3>3. Cardinality(Checking(e)') <= Cardinality(Logins) /\ Cardinality(Checking(e)') \in Nat
            BY <3>2, ConstantFacts, FS_Subset, FS_CardinalityType
        <3>4. Limit(e) \in Nat /\ Cardinality(Logins) \in Nat /\ failures'[e] = failures[e]
            BY <2>1, LimitOf, CheckingFinite
        <3> HIDE DEF Goal
        <3>5. Limit(e) > 0 /\ failures'[e] + Cardinality(Checking(e)') <= Limit(e) - 1 + Cardinality(Logins)
            BY <1>0, <3>1, <3>3, <3>4
        <3>6. QED
            BY <3>5, LimitOf DEF Goal
    <2>4. QED
        BY <2>2, <2>3
<1>2. ASSUME NEW i \in Logins, RecordFailure(i) PROVE Goal
    <2>1. /\ login'[i].pc = "idle" /\ login[i].pc = "checked"
          /\ \A j \in Logins : j # i => login'[j] = login[j]
        BY <1>0, <1>2 DEF RecordFailure, NoLogin
    <2>2. CASE login[i].email # e
        <3>1. Checking(e)' \subseteq Checking(e) /\ failures'[e] = failures[e]
            BY <1>0, <1>2, <2>1, <2>2 DEF Checking, RecordFailure
        <3>2. QED
            BY <1>0, <1>a, <3>1
    <2>3. CASE login[i].email = e
        <3>1. failures'[e] = failures[e] + 1
            BY <1>0, <1>2, <2>3 DEF RecordFailure
        <3>2. Checking(e)' = Checking(e) \ {i} /\ i \in Checking(e)
            BY <2>1, <2>3 DEF Checking
        <3>3. Cardinality(Checking(e)') = Cardinality(Checking(e)) - 1
            BY <3>2, CheckingFinite, FS_RemoveElement
        <3>4. PICK limit \in LimitsOf(e) :
                  /\ limit > 0
                  /\ failures[e] + Cardinality(Checking(e)) <= limit - 1 + Cardinality(Logins)
            BY DEF LimitHolds
        <3>5. QED
            BY <1>0, <3>1, <3>3, <3>4, CheckingFinite
    <2>4. QED
        BY <2>2, <2>3
<1>3. ASSUME NEW i \in Logins, RecordSuccess(i) PROVE Goal
    <2>1. Checking(e)' \subseteq Checking(e)
        BY <1>0, <1>3 DEF RecordSuccess, Checking, Login
    <2>2. failures'[e] <= failures[e]
        BY <1>0, <1>3 DEF RecordSuccess
    <2>3. QED
        BY <1>a, <2>1, <2>2
<1>4. ASSUME NEW i \in Logins,
             ReadFactor(i) \/ Issue(i) \/ Challenge(i) \/ PendingExpires(i)
      PROVE  Goal
    <2>1. login'[i].pc # "checked" /\ (\A j \in Logins : j # i => login'[j] = login[j])
          /\ failures' = failures
        BY <1>0, <1>4 DEF ReadFactor, Issue, Challenge, PendingExpires, SetLogin, NoLogin
    <2>2. Checking(e)' \subseteq Checking(e)
        BY <2>1 DEF Checking
    <2>3. QED
        BY <1>0, <1>a, <2>1, <2>2
<1>5. ASSUME NEW x \in LoginNames, WindowPasses(x) PROVE Goal
    <2>1. failures'[e] <= failures[e]
        BY <1>0, <1>5 DEF WindowPasses
    <2>2. Checking(e)' \subseteq Checking(e)
        BY <1>5 DEF WindowPasses, Checking
    <2>3. QED
        BY <1>a, <2>1, <2>2
<1>6. ASSUME NEW s \in Setups, SetupCheck(s) \/ (\E x \in Emails : SetupCommit(s, x)) PROVE Goal
    BY <1>6, <1>b DEF SetupCheck, SetupCommit
<1>7. ASSUME NEW x \in Emails, CreateUser(x) \/ DeleteUser(x) \/ Enroll(x) PROVE Goal
    BY <1>7, <1>b DEF CreateUser, DeleteUser, Enroll
<1>8. ASSUME NEW f \in Factors, FactorStep(f) PROVE Goal
    BY <1>8, <1>b DEF FactorStep, ConfirmRead, DisableRead, Load, ConfirmWrite, DisableWrite, FactorFails
<1>9. ASSUME NEW c \in Callbacks, ProvisionUser(c) \/ (\E x \in Emails : FindNoUser(c, x)) PROVE Goal
    BY <1>9, <1>b DEF ProvisionUser, FindNoUser
<1>10. CASE UNCHANGED accountVars
    BY <1>10, <1>b DEF accountVars
<1>11. QED
    BY <1>1, <1>2, <1>3, <1>4, <1>5, <1>6, <1>7, <1>8, <1>9, <1>10 DEF Next, AccountNext, LoginStep, vars

\* The lockout of an account is passed by no more attempts than there are
\* other logins under way, for any limit an administrator may set.
THEOREM LockoutOverrunIsBounded == Spec => []OverrunBounded
<1>1. Init => Types /\ LimitsKnown /\ LimitHolds
    <2> SUFFICES ASSUME Init PROVE LimitsKnown /\ LimitHolds
        BY InitTypes
    <2>1. LimitsKnown
        BY LimitTypes DEF Init, SettingsInit, LimitsKnown, NoPut
    <2>2. ASSUME NEW e \in LoginNames
          PROVE  /\ Limit(e) \in LimitsOf(e) /\ Limit(e) > 0
                 /\ failures[e] + Cardinality(Checking(e)) <= Limit(e) - 1 + Cardinality(Logins)
        <3>1. failures[e] = 0
            BY DEF Init
        <3>2. Limit(e) > 0
            BY ConstantFacts DEF Init, SettingsInit, NoOverrides, Limit, Setting, DeepMerge
        <3>3. Limit(e) \in LimitsOf(e) /\ Limit(e) \in Nat
            BY <2>1, LimitOf
        <3>4. QED
            BY <3>1, <3>2, <3>3, CheckingFinite
    <2>3. QED
        BY <2>1, <2>2 DEF LimitHolds
<1>2. Types /\ LimitsKnown /\ LimitHolds /\ [Next]_vars => (Types /\ LimitsKnown /\ LimitHolds)'
    BY StepTypes, StepLimitsKnown, StepLimitHolds
<1>3. Types /\ LimitHolds => OverrunBounded
    <2> SUFFICES ASSUME Types, LimitHolds, NEW e \in LoginNames, failures[e] > 0
                 PROVE  \E over \in 0..Cardinality(Logins) - 1 :
                            over <= failures[e] - 1 /\ WithinLimit(e, failures[e] - 1 - over)
        BY DEF OverrunBounded
    <2> DEFINE n == Cardinality(Logins)
               over == IF failures[e] < n THEN failures[e] - 1 ELSE n - 1
    <2>1. PICK limit \in LimitsOf(e) :
              limit > 0 /\ failures[e] + Cardinality(Checking(e)) <= limit - 1 + n
        BY DEF LimitHolds
    <2>2. limit \in Nat /\ failures[e] \in Nat /\ n \in Nat /\ n > 0 /\ Cardinality(Checking(e)) \in Nat
        BY CheckingFinite, LimitTypes, ConstantFacts DEF LimitsOf, Types, AccountTypes
    <2>3. over \in 0..n - 1 /\ over <= failures[e] - 1 /\ failures[e] - 1 - over < limit
        BY <2>1, <2>2
    <2>4. WithinLimit(e, failures[e] - 1 - over)
        BY <2>3 DEF WithinLimit, LimitsOf
    <2>5. QED
        BY <2>3, <2>4
<1>4. QED
    BY <1>1, <1>2, <1>3, PTL DEF Spec

----------------------------------------------------------------------------
\* The first setup to commit makes the tenant, and none after it.
SetupsDone ==
    /\ \A s \in Setups : setup[s] = "created" => tenant
    /\ OneSetup

\* However many requests find no user, one of them sets the system up.
THEOREM SetupHappensOnce == Spec => []OneSetup
<1>1. Init => SetupsDone
    BY DEF Init, SetupsDone, OneSetup
<1>2. Types /\ SetupsDone /\ [Next]_vars => SetupsDone'
    <2> SUFFICES ASSUME Types, SetupsDone, [Next]_vars PROVE SetupsDone'
        OBVIOUS
    <2>0. setup \in [Setups -> {"idle", "checked", "created"}] /\ tenant \in BOOLEAN
        BY DEF Types, AccountTypes
    <2>1. ASSUME NEW s \in Setups, SetupCheck(s) PROVE SetupsDone'
        BY <2>0, <2>1 DEF SetupCheck, SetupsDone, OneSetup
    <2>2. ASSUME NEW s \in Setups, NEW e \in Emails, SetupCommit(s, e) PROVE SetupsDone'
        <3>1. CASE SetupFlush(s, e)
            <4>1. tenant' /\ setup' = [setup EXCEPT ![s] = "created"]
                BY <2>2, <3>1 DEF SetupCommit
            <4>2. \A t \in Setups : setup[t] # "created"
                BY <2>0, <3>1 DEF SetupFlush, SetupsDone
            <4>3. \A t \in Setups : setup'[t] = "created" => t = s
                BY <2>0, <4>1, <4>2
            <4>4. QED
                BY <4>1, <4>3 DEF SetupsDone, OneSetup
        <3>2. CASE ~SetupFlush(s, e)
            BY <2>0, <2>2, <3>2 DEF SetupCommit, SetupsDone, OneSetup
        <3>3. QED
            BY <3>1, <3>2
    <2>3. CASE UNCHANGED <<setup, tenant>>
        BY <2>3 DEF SetupsDone, OneSetup
    <2>4. QED
        BY <2>1, <2>2, <2>3 DEF Next, vars, accountVars, AccountNext, CreateUser, DeleteUser,
           Enroll, WindowPasses, LoginStep, CheckLockout, RecordFailure, RecordSuccess, ReadFactor,
           Issue, Challenge, PendingExpires, FactorStep, ConfirmRead, DisableRead, Load, ConfirmWrite,
           DisableWrite, FactorFails, ProvisionUser, FindNoUser
<1>3. SetupsDone => OneSetup
    BY DEF SetupsDone
<1>4. QED
    BY <1>1, <1>2, <1>3, InitTypes, StepTypes, PTL DEF Spec

LEMMA PutDomain == Types => DOMAIN put = Puts
BY DEF Types, SettingsTypeOK

\* A PUT changes no key it does not name, except over a commit of another
\* request between its read and its write.
THEOREM PatchKeepsOtherKeys == Spec => UntouchedKeysKept
<1>1. ASSUME Types, [Next]_vars, NEW p \in Puts, put[p].pc = "read", put'[p].pc = "idle",
             ~put[p].reset, NEW k \in Keys, k \notin DOMAIN put[p].patch, put[p].seen = config
      PROVE  /\ k \in DOMAIN config' <=> k \in DOMAIN config
             /\ k \in DOMAIN config => config'[k] = config[k]
    <2>0. DOMAIN put = Puts
        BY <1>1, PutDomain
    <2>1. put' # put
        BY <1>1
    <2>2. SettingsStep
        BY <1>1, <2>1 DEF Next, vars, settingsVars
    <2>3. PICK q \in Puts : PutWrite(q) \/ PutRead(q) \/ ResetRead(q)
        BY <2>2 DEF SettingsStep
    <2>4. CASE PutRead(q) \/ ResetRead(q)
        <3>1. put'[q].pc = "read" /\ \A r \in Puts : r # q => put'[r] = put[r]
            BY <2>0, <2>4 DEF PutRead, ResetRead, ReadRow
        <3>2. QED
            BY <1>1, <3>1
    <2>5. CASE PutWrite(q)
        <3>1. q = p
            BY <1>1, <2>0, <2>5 DEF PutWrite, Finish
        <3>2. config' = config \/ config' = Written(p)
            BY <2>5, <3>1 DEF PutWrite
        <3>3. Written(p) = DeepMerge(config, put[p].patch)
            BY <1>1 DEF Written
        <3>4. QED
            BY <1>1, <3>2, <3>3 DEF DeepMerge
    <2>6. QED
        BY <2>3, <2>4, <2>5
<1>2. Types /\ [Next]_vars =>
          [\A p \in Puts : put[p].pc = "read" /\ put'[p].pc = "idle" /\ ~put[p].reset =>
              \A k \in Keys \ DOMAIN put[p].patch :
                  \/ /\ k \in DOMAIN config' <=> k \in DOMAIN config
                     /\ k \in DOMAIN config => config'[k] = config[k]
                  \/ put[p].seen # config]_settingsVars
    BY <1>1
<1>3. QED
    BY <1>2, InitTypes, StepTypes, PTL DEF Spec, UntouchedKeysKept

\* The second factor of an account that is gone is off.
FactorsAreLive == \A e \in Emails : users[e].enabled => Live(e)

\* No password alone gets in while the second factor is on, whenever it was
\* turned on.
THEOREM SecondFactorIsAsked == Spec => PasswordAloneOnlyWithoutMfa
<1>1. Init => FactorsAreLive
    BY DEF Init, FactorsAreLive, NoUser
<1>2. Types /\ FactorsAreLive /\ [Next]_vars => FactorsAreLive'
    <2> SUFFICES ASSUME Types, FactorsAreLive, [Next]_vars PROVE FactorsAreLive'
        OBVIOUS
    <2>0. users \in [Emails -> User]
        BY DEF Types, AccountTypes
    <2>1. ASSUME NEW s \in Setups, NEW e \in Emails, SetupCommit(s, e) PROVE FactorsAreLive'
        BY <2>0, <2>1 DEF SetupCommit, FactorsAreLive, Live, NewUser, NoUser
    <2>2. ASSUME NEW e \in Emails, CreateUser(e) \/ DeleteUser(e) PROVE FactorsAreLive'
        BY <2>0, <2>2 DEF CreateUser, DeleteUser, FactorsAreLive, Live, NewUser, NoUser
    <2>3. ASSUME NEW e \in Emails, Enroll(e) PROVE FactorsAreLive'
        BY <2>0, <2>3 DEF Enroll, FactorsAreLive, Live, User
    <2>4. ASSUME NEW f \in Factors, ConfirmWrite(f) PROVE FactorsAreLive'
        BY <2>0, <2>4 DEF ConfirmWrite, FactorsAreLive, Live, User
    <2>5. ASSUME NEW f \in Factors, DisableWrite(f) PROVE FactorsAreLive'
        BY <2>0, <2>5 DEF DisableWrite, FactorsAreLive, Live, User
    <2>6. ASSUME NEW c \in Callbacks, ProvisionUser(c) PROVE FactorsAreLive'
        BY <2>0, <2>6 DEF ProvisionUser, FactorsAreLive, Live, NewUser, NoUser
    <2>7. CASE UNCHANGED users
        BY <2>7 DEF FactorsAreLive, Live
    <2>8. QED
        BY <2>1, <2>2, <2>3, <2>4, <2>5, <2>6, <2>7 DEF Next, vars, accountVars, AccountNext,
           SetupCheck, WindowPasses, LoginStep, CheckLockout, RecordFailure, RecordSuccess, ReadFactor,
           Issue, Challenge, PendingExpires, FactorStep, ConfirmRead, DisableRead, Load, FactorFails,
           FindNoUser
<1>3. ASSUME Types, FactorsAreLive, [Next]_vars, NEW i \in Logins, NEW e \in Emails,
             login[i].email = e, login[i].pc = "passed", login'[i].pc # "passed", users[e].enabled
      PROVE  login'[i].pc = "pending"
    <2>0. login \in [Logins -> Login] /\ Live(e) /\ e # SuperAdmin
        BY <1>3, ConstantFacts DEF Types, AccountTypes, FactorsAreLive
    <2>1. ASSUME NEW j \in Logins, LoginStep(j) PROVE j = i /\ ReadFactor(i)
        <3>1. j = i
            BY <1>3, <2>0, <2>1 DEF LoginStep, CheckLockout, SetLogin, RecordFailure,
               RecordSuccess, ReadFactor, Issue, Challenge, PendingExpires
        <3>2. QED
            BY <1>3, <2>1, <3>1 DEF LoginStep, CheckLockout, RecordFailure, RecordSuccess,
               Issue, Challenge, PendingExpires
    <2>2. \E j \in Logins : LoginStep(j)
        <3>1. ASSUME login' = login PROVE FALSE
            <4>1. login'[i].pc = login[i].pc
                BY <3>1
            <4>2. QED
                BY <1>3, <4>1
        <3>2. QED
            BY <1>3, <3>1 DEF Next, vars, accountVars, AccountNext, SetupCheck, SetupCommit, CreateUser,
               DeleteUser, Enroll, WindowPasses, FactorStep, ConfirmRead, DisableRead, Load,
               ConfirmWrite, DisableWrite, FactorFails, ProvisionUser, FindNoUser
    <2>3. ReadFactor(i)
        BY <2>1, <2>2
    <2>4. SetLogin(i, "pending", e, FALSE)
        BY <1>3, <2>0, <2>3 DEF ReadFactor, MfaRequired
    <2>5. QED
        BY <2>0, <2>4 DEF SetLogin
<1>4. Types /\ FactorsAreLive /\ [Next]_vars =>
          [\A i \in Logins, e \in Emails :
              login[i].email = e /\ login[i].pc = "passed" /\ login'[i].pc # "passed"
              /\ users[e].enabled => login'[i].pc = "pending"]_vars
    BY <1>3
<1>5. QED
    BY <1>1, <1>2, <1>4, InitTypes, StepTypes, PTL DEF Spec, PasswordAloneOnlyWithoutMfa
=============================================================================
