------------------------------- MODULE Posture -------------------------------
(***************************************************************************)
(* The security of a data source, as the backend sees it and as it changes *)
(* it (src/backend/app/services/security_checker.py, storage_scanner.py,   *)
(* api/security.py).  A check asks the source one question after another   *)
(* over a connection that may break or, on PostgreSQL, be left in a failed *)
(* transaction, and grades the answers; hardening requests, which may run  *)
(* at the same time, create the gateway's account there and lock it down,  *)
(* statement by statement.                                                 *)
(***************************************************************************)
EXTENDS Integers, FiniteSets, Sequences

CONSTANTS Request,    \* hardening requests
          Nobody,     \* there is no gateway account
          ByHand      \* the account was made by the source's own administrator

ASSUME MakersAssumption == Nobody \notin Request /\ ByHand \notin Request

VARIABLES kind,       \* the connector of the source
          account,    \* who created the gateway account, and so set its password
          granted,    \* the account may read
          secured,    \* the write privilege is revoked, or TLS required
          request,    \* the hardening requests
          check,      \* the check in progress
          report,     \* what the last check reported of the source
          overall     \* and of all the sources
source == <<account, granted, secured>>
checking == <<check, report, overall>>
vars == <<kind, source, request, checking>>
-----------------------------------------------------------------------------
(* What a checker asks: `severe` questions whose bad answer is a failure,   *)
(* `minor` ones whose bad answer is a warning, and what becomes of the      *)
(* questions when the statement fails: the check breaks off, they are       *)
(* reported as skipped, as a failure, or not at all.  A statement may also  *)
(* put `presumed` questions that pass whatever the source answers.          *)
Ask(severe, minor, missed) ==
  [severe |-> severe, minor |-> minor, missed |-> missed, presumed |-> 0]
Presuming(ask, n) == [ask EXCEPT !.presumed = n]
Checker(questions, given) == [questions |-> questions, given |-> given]

Postgres == Checker(<<Ask(3, 0, "breaks"), Ask(0, 1, "dropped"),
                      Ask(0, 1, "skipped"), Ask(1, 0, "dropped")>>, 0)
(* Mutant: the failed question about the grants is not reported. *)
MySQLSilent == Checker(<<Ask(9, 0, "dropped"), Ask(0, 1, "skipped")>>, 0)
MySQL == Checker(<<Ask(9, 0, "skipped"), Ask(0, 1, "skipped")>>, 0)
(* db_owner is no server role: IS_SRVROLEMEMBER answers NULL, which passes; *)
(* encrypt_option is the text TRUE or FALSE, and either passes.             *)
MSSQL == Checker(<<Presuming(Ask(2, 0, "skipped"), 1),
                   Presuming(Ask(0, 0, "skipped"), 1)>>, 0)
(* DBA is a role and is never among the privileges of SESSION_PRIVS.        *)
Oracle == Checker(<<Presuming(Ask(5, 0, "skipped"), 1), Ask(0, 1, "skipped")>>, 0)
Snowflake == Checker(<<Ask(1, 0, "skipped")>>, 1)
BigQuery == Checker(<<>>, 1)
MongoDB == Checker(<<>>, 0)
Generic == Checker(<<Ask(1, 0, "failed")>>, 0)
S3 == Checker(<<Ask(1, 0, "skipped"), Ask(1, 1, "skipped"), Ask(0, 1, "skipped"),
                Ask(1, 0, "skipped"), Ask(0, 1, "skipped"), Ask(0, 1, "skipped")>>, 0)
AzureBlob == Checker(<<Ask(0, 1, "dropped"), Ask(1, 0, "skipped"),
                       Ask(1, 0, "skipped"), Ask(0, 1, "skipped"),
                       Ask(0, 1, "skipped")>>, 1)
GCS == Checker(<<Ask(1, 0, "skipped"), Ask(0, 1, "skipped"), Ask(0, 1, "skipped"),
                 Ask(0, 1, "skipped"), Ask(0, 1, "skipped"), Ask(1, 0, "skipped")>>, 0)

CheckerOf == [postgres |-> Postgres, mysql |-> MySQL, mssql |-> MSSQL,
              oracle |-> Oracle, snowflake |-> Snowflake, bigquery |-> BigQuery,
              mongodb |-> MongoDB, other |-> Generic,
              s3 |-> S3, azure |-> AzureBlob, gcs |-> GCS]
Storage == {"s3", "azure", "gcs"}
Hardened == {"postgres", "mysql", "mssql"}

Score(passed, failed) ==
  IF passed + failed = 0 THEN 0 ELSE (100 * passed) \div (passed + failed)
Grade(score) == CASE score >= 90 -> "A"
                  [] score \in 75..89 -> "B"
                  [] score \in 50..74 -> "C"
                  [] score \in 25..49 -> "D"
                  [] score < 25 -> "F"
-----------------------------------------------------------------------------
NoRequest == [at |-> "idle", create |-> "none", secure |-> "none",
              pending |-> FALSE, aborted |-> FALSE]
NoCheck == [at |-> 0, passed |-> 0, failed |-> 0, skipped |-> FALSE,
            dropped |-> 0, presumed |-> 0, down |-> FALSE]
NoReport == [grade |-> "none", score |-> 0, reachable |-> TRUE, failed |-> 0,
             unshown |-> 0, presumed |-> 0]

Init == /\ kind \in DOMAIN CheckerOf
        /\ account = Nobody /\ granted = FALSE /\ secured = FALSE
        /\ request = [r \in Request |-> NoRequest]
        /\ check = NoCheck /\ report = NoReport
        /\ overall = [grade |-> "none", unreachable |-> FALSE]
-----------------------------------------------------------------------------
(* Hardening: apply_db_hardening and the function of the connector.  On     *)
(* PostgreSQL and SQL Server the statements of a connection are one         *)
(* transaction until the code commits; on MySQL each stands by itself.      *)
Becomes(r, next) == request' = [request EXCEPT ![r] = next]
Created(r, outcome) == [request[r] EXCEPT !.create = outcome, !.at = "secure"]

Harden(r) ==
  /\ request[r].at = "idle" /\ kind \notin Storage
  /\ \E at \in {"create", "done"} :
       /\ at = "create" => kind \in Hardened
       /\ Becomes(r, [request[r] EXCEPT !.at = at])
  /\ UNCHANGED <<kind, source, checking>>

(* GRANT CONNECT takes the name of a database and is given an expression:   *)
(* after CREATE USER the step always fails, and the transaction with it.    *)
CreatePostgres(r) ==
  /\ kind = "postgres" /\ request[r].at = "create"
  /\ Becomes(r, IF account # Nobody THEN Created(r, "skipped")
                ELSE [Created(r, "error") EXCEPT !.aborted = TRUE])
  /\ UNCHANGED <<kind, source, checking>>

CreateMySQL(r) ==
  /\ kind = "mysql" /\ request[r].at = "create"
  /\ account' = IF account = Nobody THEN r ELSE account
  /\ Becomes(r, [request[r] EXCEPT !.at = "grant"])
  /\ UNCHANGED <<kind, granted, secured, checking>>

(* The look at the principals waits for another transaction's new one.      *)
CreateMSSQL(r) ==
  /\ kind = "mssql" /\ request[r].at = "create"
  /\ \A o \in Request \ {r} : ~request[o].pending
  /\ Becomes(r, [request[r] EXCEPT !.at = "grant", !.pending = (account = Nobody)])
  /\ UNCHANGED <<kind, source, checking>>

Grant(r) ==
  /\ request[r].at = "grant"
  /\ account # Nobody \/ request[r].pending
  /\ account' = IF request[r].pending THEN r ELSE account
  /\ granted' = TRUE
  /\ Becomes(r, [Created(r, "applied") EXCEPT !.pending = FALSE])
  /\ UNCHANGED <<kind, secured, checking>>

(* The step is reported and the next one goes on over the same connection. *)
CreateFails(r) ==
  /\ request[r].at \in {"create", "grant"}
  /\ Becomes(r, [Created(r, "error") EXCEPT !.aborted = (kind = "postgres")])
  /\ UNCHANGED <<kind, source, checking>>

(* Secure: REVOKE or REQUIRE SSL, and its commit.  SQL Server knows no      *)
(* DROP or CREATE on a schema to DENY, so the step always fails there.      *)
Secure(r) ==
  /\ request[r].at = "secure" /\ ~request[r].aborted /\ kind # "mssql"
  /\ kind = "mysql" => account # Nobody
  /\ secured' = TRUE
  /\ Becomes(r, [request[r] EXCEPT !.secure = "applied", !.at = "done"])
  /\ UNCHANGED <<kind, account, granted, checking>>

(* The connection is closed without a commit.                               *)
SecureFails(r) ==
  /\ request[r].at = "secure"
  /\ Becomes(r, [request[r] EXCEPT !.secure = "error", !.at = "done",
                                   !.pending = FALSE])
  /\ UNCHANGED <<kind, source, checking>>

(* The administrator of the source.                                         *)
CreateByHand == /\ account = Nobody /\ \A r \in Request : ~request[r].pending
                /\ kind \in Hardened
                /\ account' = ByHand /\ granted' = TRUE
                /\ UNCHANGED <<kind, secured, request, checking>>
DropAccount == /\ account # Nobody
               /\ account' = Nobody /\ granted' = FALSE
               /\ UNCHANGED <<kind, secured, request, checking>>
OpenSchema == /\ secured /\ secured' = FALSE
              /\ UNCHANGED <<kind, account, granted, request, checking>>
-----------------------------------------------------------------------------
(* A check: check_source_security and check_storage.                        *)
Questions == CheckerOf[kind].questions
Asked == Questions[check.at]
Graded(passed, failed) ==
  [grade |-> Grade(Score(passed, failed)), score |-> Score(passed, failed),
   reachable |-> TRUE, failed |-> failed, unshown |-> check.dropped,
   presumed |-> check.presumed]
Broken(grade, reachable) ==
  [NoReport EXCEPT !.grade = grade, !.reachable = reachable]

StartCheck ==
  /\ check.at = 0 /\ report.grade = "none"
  /\ check' = [NoCheck EXCEPT !.at = 1, !.passed = CheckerOf[kind].given]
  /\ UNCHANGED <<kind, source, request, report, overall>>

(* The credentials cannot be decrypted, the address not be built, or the    *)
(* package of the storage provider is missing: no grade.                    *)
CannotTry ==
  /\ check.at = 0 /\ report.grade = "none"
  /\ report' = Broken("?", FALSE)
  /\ UNCHANGED <<kind, source, request, check, overall>>
CannotConnect ==
  /\ check.at = 1 /\ kind # "mongodb"
  /\ check' = NoCheck /\ report' = Broken("F", FALSE)
  /\ UNCHANGED <<kind, source, request, overall>>

(* How many of the severe questions are answered badly; the last one of the *)
(* PostgreSQL checker is about the privilege that hardening revokes.        *)
BadAnswers ==
  IF kind = "postgres" /\ check.at = 4 /\ ~secured THEN {1}
  ELSE 0..Asked.severe
(* Every line of SHOW GRANTS says GRANT, so that one of MySQL's checks at   *)
(* least fails; but if a line names INFORMATION_SCHEMA they all pass.       *)
Presumed(bad) ==
  IF kind = "mysql" /\ check.at = 1 /\ bad = 0 THEN Asked.severe ELSE Asked.presumed

(* What is neither passed nor failed: a warning.  A bucket without          *)
(* encryption has no key to ask about, and a retention of deleted blobs     *)
(* that is too short is not a failure.                                      *)
Warnings(bad) ==
  CASE kind = "s3" /\ check.at = 2 /\ bad = 1 -> {1}
    [] kind = "azure" /\ check.at = 3 /\ bad = 0 -> {0, 1}
    [] OTHER -> 0..Asked.minor

Answer ==
  /\ check.at \in DOMAIN Questions /\ ~check.down
  /\ \E bad \in BadAnswers : \E warnings \in Warnings(bad) :
       check' = [check EXCEPT !.at = @ + 1,
                              !.passed = @ + Asked.severe + Asked.minor + Asked.presumed
                                           - bad - warnings,
                              !.failed = @ + bad,
                              !.presumed = @ + Presumed(bad)]
  /\ UNCHANGED <<kind, source, request, report, overall>>

(* A statement fails.  After that every one does on PostgreSQL, where the   *)
(* transaction has failed, and on a connection that is gone.                *)
Unanswered(asked) ==
  [check EXCEPT !.at = @ + 1,
                !.down = @ \/ kind = "postgres",
                !.skipped = @ \/ asked.missed = "skipped",
                !.failed = IF asked.missed = "failed" THEN @ + asked.severe ELSE @,
                !.dropped = IF asked.missed = "dropped" THEN @ + asked.severe ELSE @]
Miss ==
  /\ check.at \in DOMAIN Questions /\ Asked.missed # "breaks"
  /\ \E gone \in BOOLEAN : check' = [Unanswered(Asked) EXCEPT !.down = @ \/ gone]
  /\ UNCHANGED <<kind, source, request, report, overall>>
BreakOff ==
  /\ check.at \in DOMAIN Questions /\ Asked.missed = "breaks"
  /\ check' = NoCheck /\ report' = Broken("F", FALSE)
  /\ UNCHANGED <<kind, source, request, overall>>

(* The name of the account is judged too, except for MongoDB and storage.   *)
FinishCheck ==
  /\ check.at = Len(Questions) + 1
  /\ \E privileged \in IF kind \in Storage \cup {"mongodb"} THEN {"unasked"}
                       ELSE {"yes", "no"} :
       report' = Graded(check.passed + (IF privileged = "no" THEN 1 ELSE 0),
                        check.failed + (IF privileged = "yes" THEN 1 ELSE 0))
  /\ check' = NoCheck
  /\ UNCHANGED <<kind, source, request, overall>>

(* security_posture: the average of the sources that have a grade; another  *)
(* source is perfect, cannot be reached or has none.                        *)
Others == {[NoReport EXCEPT !.grade = "A", !.score = 100],
           Broken("F", FALSE), Broken("?", FALSE)}
(* Mutant: only the sources that were reached. *)
CountsIfReached(r) == r.grade # "?" /\ r.reachable
Counts(r) == r.grade # "?"
Average(own, other) ==
  CASE Counts(own) /\ Counts(other) -> (own.score + other.score) \div 2
    [] Counts(own) /\ ~Counts(other) -> own.score
    [] ~Counts(own) /\ Counts(other) -> other.score
    [] ~Counts(own) /\ ~Counts(other) -> 0
OverallGrade ==
  /\ report.grade # "none"
  /\ \E other \in Others :
       overall' = [grade |-> Grade(Average(report, other)),
                   unreachable |-> \E r \in {report, other} :
                                      r.grade = "F" /\ ~r.reachable]
  /\ report' = NoReport
  /\ UNCHANGED <<kind, source, request, check>>

HardenStep(r) == \/ Harden(r) \/ CreatePostgres(r) \/ CreateMySQL(r) \/ CreateMSSQL(r)
                 \/ Grant(r) \/ CreateFails(r) \/ Secure(r) \/ SecureFails(r)
CheckStep == \/ StartCheck \/ CannotTry \/ CannotConnect \/ Answer \/ Miss
             \/ BreakOff \/ FinishCheck \/ OverallGrade
Next == \/ \E r \in Request : HardenStep(r)
        \/ CreateByHand \/ DropAccount \/ OpenSchema
        \/ CheckStep
Spec == Init /\ [][Next]_vars
-----------------------------------------------------------------------------
(* A step that reports the creation of the gateway account with a password  *)
(* has created that account, so that the password opens it.                 *)
ReportedAccountIsCreated ==
  [][\A r \in Request :
       request'[r].create = "applied" /\ request[r].create # "applied" => account' = r]_vars

(* A source graded A fails at most one check, and that only on MySQL; of    *)
(* the privileges that could not be asked about, none but the schema        *)
(* privilege of PostgreSQL is missing from its report; and a check that     *)
(* passed whatever the source answered is one of SQL Server's, Oracle's or  *)
(* MySQL's.                                                                 *)
TopGradeEarned ==
  report.grade = "A" =>
    /\ report.failed = 0 \/ (kind = "mysql" /\ report.failed = 1)
    /\ report.unshown = 0 \/ (kind = "postgres" /\ report.unshown = 1)
    /\ report.presumed = 0 \/ kind \in {"mssql", "oracle", "mysql"}

(* A source that cannot be reached counts: with one of two sources down,    *)
(* the overall grade is not an A or a B.                                    *)
UnreachableCounts == overall.unreachable => overall.grade \notin {"A", "B"}
=============================================================================
