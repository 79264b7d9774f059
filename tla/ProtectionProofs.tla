-------------------------- MODULE ProtectionProofs --------------------------
(***************************************************************************)
(* Proofs about Posture, for any number of hardening requests, and about   *)
(* Masking, for values of any length made of any pieces.  What masking     *)
(* does to a value is proved by induction over the value: a recursive      *)
(* definition, such as FlattenSeq, is taken one element at a time, and a   *)
(* value is taken apart where a format cuts it (at a comma, after its      *)
(* digits, at a character of several bytes).                               *)
(***************************************************************************)
EXTENDS Posture, Masking, SequenceTheorems, FiniteSetTheorems, WellFoundedInduction,
        TLAPS

-----------------------------------------------------------------------------
LEMMA ScoreBound ==
  ASSUME NEW p \in Nat, NEW f \in Nat
  PROVE  Score(p, f) \in 0..100
<1>1. CASE p + f = 0
  BY <1>1 DEF Score
<1>2. CASE p + f > 0
  <2> DEFINE q == (100 * p) \div (p + f)
  <2>1. q \in Int /\ q * (p + f) <= 100 * p /\ 100 * p < (q + 1) * (p + f)
    BY <1>2
  <2>2. QED
    BY <1>2, <2>1 DEF Score
<1>3. QED
  BY <1>1, <1>2

AskRecords == [severe : Nat, minor : Nat, presumed : Nat,
               missed : {"breaks", "dropped", "skipped", "failed"}]
Asks == Seq(AskRecords)

LEMMA AskType ==
  ASSUME NEW severe \in Nat, NEW minor \in Nat,
         NEW missed \in {"breaks", "dropped", "skipped", "failed"}
  PROVE  Ask(severe, minor, missed) \in AskRecords
BY DEF Ask, AskRecords

LEMMA CheckerType ==
  ASSUME NEW k \in DOMAIN CheckerOf
  PROVE  CheckerOf[k].questions \in Asks /\ CheckerOf[k].given \in Nat
<1>1. Postgres.questions \in Asks /\ Postgres.given \in Nat
  BY DEF Postgres, Checker, Ask, AskRecords, Asks
<1>2. MySQL.questions \in Asks /\ MySQL.given \in Nat
  BY DEF MySQL, Checker, Ask, AskRecords, Asks
<1>3. MSSQL.questions \in Asks /\ MSSQL.given \in Nat
  BY DEF MSSQL, Checker, Presuming, Ask, AskRecords, Asks
<1>4. Oracle.questions \in Asks /\ Oracle.given \in Nat
  BY DEF Oracle, Checker, Presuming, Ask, AskRecords, Asks
<1>5. Snowflake.questions \in Asks /\ Snowflake.given \in Nat
  BY AskType DEF Snowflake, Checker, Asks
<1>6. BigQuery.questions \in Asks /\ BigQuery.given \in Nat
  BY AskType DEF BigQuery, Checker, Asks
<1>7. MongoDB.questions \in Asks /\ MongoDB.given \in Nat
  BY AskType DEF MongoDB, Checker, Asks
<1>8. Generic.questions \in Asks /\ Generic.given \in Nat
  BY AskType DEF Generic, Checker, Asks
<1>9. S3.questions \in Asks /\ S3.given \in Nat
  BY AskType DEF S3, Checker, Asks
<1>10. AzureBlob.questions \in Asks /\ AzureBlob.given \in Nat
  BY AskType DEF AzureBlob, Checker, Asks
<1>11. GCS.questions \in Asks /\ GCS.given \in Nat
  BY AskType DEF GCS, Checker, Asks
<1>12. QED
  BY <1>1, <1>2, <1>3, <1>4, <1>5, <1>6, <1>7, <1>8, <1>9, <1>10, <1>11 DEF CheckerOf

(* The three questions whose answers are not free.                         *)
LEMMA SpecialQuestions ==
  /\ CheckerOf["postgres"].questions[4].severe = 1
  /\ CheckerOf["s3"].questions[2].minor = 1
  /\ CheckerOf["azure"].questions[3].severe = 1
BY DEF CheckerOf, Postgres, S3, AzureBlob, Checker, Ask

Checks == [at : Nat, passed : Nat, failed : Nat, skipped : BOOLEAN, dropped : Nat,
           presumed : Nat, down : BOOLEAN]
Reports == [grade : {"none", "?", "A", "B", "C", "D", "F"}, score : 0..100, reachable : BOOLEAN,
            failed : Nat, unshown : Nat, presumed : Nat]

(* A source that is not reached has no points.                             *)
GradeInv ==
  /\ kind \in DOMAIN CheckerOf
  /\ check \in Checks
  /\ report \in Reports
  /\ ~report.reachable => report.score = 0 /\ report.grade \in {"F", "?"}
  /\ UnreachableCounts

LEMMA GradeType == ASSUME NEW score \in 0..100 PROVE Grade(score) \in {"A", "B", "C", "D", "F"}
BY DEF Grade

LEMMA NoneType == NoReport \in Reports /\ NoReport.reachable /\ NoCheck \in Checks
BY DEF NoReport, Reports, NoCheck, Checks

LEMMA BrokenType ==
  ASSUME NEW grade \in {"?", "F"}
  PROVE  /\ Broken(grade, FALSE) \in Reports /\ Broken(grade, FALSE).score = 0
         /\ Broken(grade, FALSE).grade = grade /\ ~Broken(grade, FALSE).reachable
<1> DEFINE first == [NoReport EXCEPT !.grade = grade]
<1>1. first \in Reports /\ first.score = 0 /\ first.grade = grade
  <2>1. \A r \in Reports : /\ [r EXCEPT !.grade = grade] \in Reports
                            /\ [r EXCEPT !.grade = grade].score = r.score
                            /\ [r EXCEPT !.grade = grade].grade = grade
    BY DEF Reports
  <2>2. NoReport.score = 0
    BY DEF NoReport
  <2>3. QED
    BY <2>1, <2>2, NoneType
<1> HIDE DEF first
<1>2. Broken(grade, FALSE) = [first EXCEPT !.reachable = FALSE]
  BY DEF Broken, first
<1>3. QED
  BY <1>1, <1>2 DEF Reports

LEMMA CheckKeeps ==
  ASSUME GradeInv, CheckStep
  PROVE  check' \in Checks
<1>0. check \in Checks /\ check.at \in Nat /\ check.passed \in Nat /\ check.failed \in Nat
      /\ check.dropped \in Nat /\ check.presumed \in Nat /\ kind \in DOMAIN CheckerOf
  BY DEF GradeInv, Checks
<1>1. Questions \in Asks /\ CheckerOf[kind].given \in Nat
  BY <1>0, CheckerType DEF Questions
<1>2. CASE StartCheck
  BY <1>0, <1>1, <1>2 DEF StartCheck, NoCheck, Checks
<1>3. CASE Answer
  <2>1. check.at \in DOMAIN Questions
    BY <1>3 DEF Answer
  <2>2. Asked.severe \in Nat /\ Asked.minor \in Nat /\ Asked.presumed \in Nat
    <3>1. Asked \in AskRecords
      BY <1>1, <2>1 DEF Asked, Asks
    <3>2. QED
      BY <3>1 DEF AskRecords
  <2>3. PICK bad \in BadAnswers : \E warnings \in Warnings(bad) :
          check' = [check EXCEPT !.at = @ + 1,
                                 !.passed = @ + Asked.severe + Asked.minor + Asked.presumed
                                              - bad - warnings,
                                 !.failed = @ + bad,
                                 !.presumed = @ + Presumed(bad)]
    BY <1>3 DEF Answer
  <2>4. PICK warnings \in Warnings(bad) :
          check' = [check EXCEPT !.at = @ + 1,
                                 !.passed = @ + Asked.severe + Asked.minor + Asked.presumed
                                              - bad - warnings,
                                 !.failed = @ + bad,
                                 !.presumed = @ + Presumed(bad)]
    BY <2>3
  <2>5. bad \in Nat /\ bad <= Asked.severe
    <3>1. CASE kind = "postgres" /\ check.at = 4
      BY <2>2, <3>1, SpecialQuestions DEF BadAnswers, Asked, Questions
    <3>2. CASE ~(kind = "postgres" /\ check.at = 4)
      BY <2>2, <3>2 DEF BadAnswers
    <3>3. QED
      BY <3>1, <3>2
  <2>6. warnings \in Nat /\ bad + warnings <= Asked.severe + Asked.minor
    <3>1. CASE kind = "s3" /\ check.at = 2 /\ bad = 1
      BY <2>2, <2>5, <3>1, SpecialQuestions DEF Warnings, Asked, Questions
    <3>2. CASE kind = "azure" /\ check.at = 3 /\ bad = 0
      BY <2>2, <2>5, <3>2, SpecialQuestions DEF Warnings, Asked, Questions
    <3>3. CASE ~(kind = "s3" /\ check.at = 2 /\ bad = 1) /\ ~(kind = "azure" /\ check.at = 3 /\ bad = 0)
      BY <2>2, <2>5, <3>3 DEF Warnings
    <3>4. QED
      BY <3>1, <3>2, <3>3
  <2> DEFINE points == check.passed + Asked.severe + Asked.minor + Asked.presumed - bad - warnings
             unasked == check.presumed + Presumed(bad)
  <2>7. points \in Nat /\ check.failed + bad \in Nat /\ check.at + 1 \in Nat
    BY <1>0, <2>2, <2>5, <2>6
  <2>10. unasked \in Nat
    BY <1>0, <2>2 DEF Presumed
  <2> HIDE DEF points, unasked
  <2>8. check' = [check EXCEPT !.at = check.at + 1, !.passed = points, !.failed = check.failed + bad,
                               !.presumed = unasked]
    BY <2>4 DEF points, unasked
  <2>9. QED
    BY <1>0, <2>7, <2>8, <2>10 DEF Checks
<1>4. CASE Miss
  <2>1. check.at \in DOMAIN Questions
    BY <1>4 DEF Miss
  <2>2. Asked.severe \in Nat
    <3>1. Asked \in AskRecords
      BY <1>1, <2>1 DEF Asked, Asks
    <3>2. QED
      BY <3>1 DEF AskRecords
  <2>3. Unanswered(Asked) \in Checks
    <3> DEFINE failed == IF Asked.missed = "failed" THEN check.failed + Asked.severe ELSE check.failed
               dropped == IF Asked.missed = "dropped" THEN check.dropped + Asked.severe ELSE check.dropped
               down == check.down \/ kind = "postgres"
               skipped == check.skipped \/ Asked.missed = "skipped"
    <3>1. failed \in Nat /\ dropped \in Nat /\ check.at + 1 \in Nat
      BY <1>0, <2>2
    <3>2. down \in BOOLEAN /\ skipped \in BOOLEAN
      BY <1>0 DEF Checks
    <3> HIDE DEF failed, dropped, down, skipped
    <3>3. Unanswered(Asked) = [check EXCEPT !.at = check.at + 1, !.down = down, !.skipped = skipped,
                                            !.failed = failed, !.dropped = dropped]
      BY DEF Unanswered, failed, dropped, down, skipped
    <3>4. QED
      BY <1>0, <3>1, <3>2, <3>3 DEF Checks
  <2>4. PICK gone \in BOOLEAN : check' = [Unanswered(Asked) EXCEPT !.down = @ \/ gone]
    BY <1>4 DEF Miss
  <2>5. QED
    BY <2>3, <2>4 DEF Checks
<1>5. CASE CannotTry \/ CannotConnect \/ BreakOff \/ FinishCheck \/ OverallGrade
  BY <1>0, <1>5, NoneType DEF CannotTry, CannotConnect, BreakOff, FinishCheck, OverallGrade
<1>6. QED
  BY <1>2, <1>3, <1>4, <1>5 DEF CheckStep

LEMMA ReportKeeps ==
  ASSUME GradeInv, CheckStep
  PROVE  report' \in Reports /\ (~report'.reachable => report'.score = 0 /\ report'.grade \in {"F", "?"})
<1>1. CASE FinishCheck
  <2>1. /\ check.passed \in Nat /\ check.failed \in Nat /\ check.dropped \in Nat
        /\ check.presumed \in Nat
    BY DEF GradeInv, Checks
  <2>2. PICK passed \in Nat, failed \in Nat : report' = Graded(passed, failed)
    <3>1. PICK privileged \in {"unasked", "yes", "no"} :
            report' = Graded(check.passed + (IF privileged = "no" THEN 1 ELSE 0),
                             check.failed + (IF privileged = "yes" THEN 1 ELSE 0))
      BY <1>1 DEF FinishCheck
    <3>2. check.passed + (IF privileged = "no" THEN 1 ELSE 0) \in Nat
          /\ check.failed + (IF privileged = "yes" THEN 1 ELSE 0) \in Nat
      BY <2>1
    <3>3. QED
      BY <3>1, <3>2
  <2>3. Score(passed, failed) \in 0..100
    BY ScoreBound
  <2>4. Grade(Score(passed, failed)) \in {"A", "B", "C", "D", "F"}
    BY <2>3, GradeType
  <2>5. QED
    BY <2>1, <2>2, <2>3, <2>4 DEF Graded, Reports
<1>2. CASE CannotTry \/ CannotConnect \/ BreakOff
  BY <1>2, BrokenType DEF CannotTry, CannotConnect, BreakOff
<1>3. CASE OverallGrade
  BY <1>3, NoneType DEF OverallGrade
<1>4. CASE StartCheck \/ Answer \/ Miss
  BY <1>4 DEF StartCheck, Answer, Miss, GradeInv
<1>5. QED
  BY <1>1, <1>2, <1>3, <1>4 DEF CheckStep

(* Half of the points at most, and they are not enough for a B.            *)
LEMMA SumKeeps ==
  ASSUME GradeInv, OverallGrade
  PROVE  UnreachableCounts'
<1>1. PICK other \in Others :
        overall' = [grade |-> Grade(Average(report, other)),
                    unreachable |-> \E r \in {report, other} : r.grade = "F" /\ ~r.reachable]
  BY DEF OverallGrade
<1>2. /\ other.score \in {0, 100} /\ (~other.reachable => other.score = 0)
      /\ report.score \in 0..100 /\ (~report.reachable => report.score = 0)
  BY BrokenType DEF Others, NoReport, GradeInv, Reports
<1>3. ASSUME overall'.unreachable PROVE Average(report, other) \in 0..50
  <2>1. \E r \in {report, other} : r.grade = "F" /\ ~r.reachable
    BY <1>1, <1>3
  <2>2. Counts(report) \/ Counts(other)
    BY <2>1 DEF Counts
  <2>3. CASE report.grade = "F" /\ ~report.reachable
    <3>1. Counts(report) /\ report.score = 0
      BY <1>2, <2>3 DEF Counts
    <3>2. QED
      BY <1>2, <3>1 DEF Average
  <2>4. CASE other.grade = "F" /\ ~other.reachable
    <3>1. Counts(other) /\ other.score = 0
      BY <1>2, <2>4 DEF Counts
    <3>2. QED
      BY <1>2, <3>1 DEF Average
  <2>5. QED
    BY <2>1, <2>3, <2>4
<1>4. \A n \in 0..50 : Grade(n) \notin {"A", "B"}
  BY DEF Grade
<1>5. overall'.grade = Grade(Average(report, other))
  BY <1>1
<1>6. QED
  BY <1>3, <1>4, <1>5 DEF UnreachableCounts

LEMMA GradeInit == Init => GradeInv
BY NoneType DEF Init, GradeInv, UnreachableCounts

LEMMA GradeStep == GradeInv /\ [Next]_vars => GradeInv'
<1> SUFFICES ASSUME GradeInv, [Next]_vars PROVE GradeInv'
  OBVIOUS
<1>1. CASE CheckStep
  <2>1. UnreachableCounts'
    <3>1. CASE OverallGrade
      BY <3>1, SumKeeps
    <3>2. CASE overall' = overall
      BY <3>2 DEF GradeInv, UnreachableCounts
    <3>3. QED
      BY <1>1, <3>1, <3>2 DEF CheckStep, StartCheck, CannotTry, CannotConnect, Answer, Miss,
         BreakOff, FinishCheck
  <2>2. kind' = kind
    BY <1>1 DEF CheckStep, StartCheck, CannotTry, CannotConnect, Answer, Miss, BreakOff,
       FinishCheck, OverallGrade
  <2>3. QED
    BY <1>1, <2>1, <2>2, CheckKeeps, ReportKeeps DEF GradeInv
<1>2. CASE UNCHANGED <<kind, check, report, overall>>
  BY <1>2 DEF GradeInv, UnreachableCounts
<1>3. QED
  BY <1>1, <1>2 DEF Next, HardenStep, Harden, CreatePostgres, CreateMySQL, CreateMSSQL, Grant,
     CreateFails, Secure, SecureFails, CreateByHand, DropAccount, OpenSchema, vars, checking

(* A source that cannot be reached is never hidden behind a good overall   *)
(* grade.                                                                  *)
THEOREM UnreachableIsCounted == Spec => []UnreachableCounts
<1>1. GradeInv => UnreachableCounts
  BY DEF GradeInv
<1>2. QED
  BY <1>1, GradeInit, GradeStep, PTL DEF Spec

-----------------------------------------------------------------------------
(* What a grade A takes                                                    *)

(* Nine checks passed for each one failed. *)
LEMMA TopScore ==
  ASSUME NEW p \in Nat, NEW f \in Nat, Grade(Score(p, f)) = "A"
  PROVE  p >= 9 * f
<1>1. Score(p, f) >= 90
  BY ScoreBound DEF Grade
<1>2. p + f # 0
  BY <1>1 DEF Score
<1> DEFINE q == (100 * p) \div (p + f)
<1>3. q \in Int /\ q * (p + f) <= 100 * p /\ q >= 90
  BY <1>1, <1>2 DEF Score
<1> HIDE DEF q
<1>4. 90 * (p + f) <= q * (p + f)
  BY <1>2, <1>3
<1>5. QED
  BY <1>3, <1>4

(* The most that can have been counted, passed or failed, before each      *)
(* question of a checker and after its last one.                           *)
Worth ==
  [postgres |-> <<0, 3, 4, 5, 6>>, mysql |-> <<0, 9, 10>>, mssql |-> <<0, 3, 4>>,
   oracle |-> <<0, 6, 7>>, snowflake |-> <<1, 2>>, bigquery |-> <<1>>, mongodb |-> <<0>>,
   other |-> <<0, 1>>, s3 |-> <<0, 1, 3, 4, 5, 6, 7>>, azure |-> <<1, 2, 3, 4, 5, 6>>,
   gcs |-> <<0, 1, 2, 3, 4, 5, 6>>]

(* A checker c whose questions are worth no more than w, `most` in all,    *)
(* which drops no severe question but number `dropped` and presumes no more *)
(* than `presumes` answers with a question.                                 *)
Weighs(c, w, most, dropped, presumes) ==
  /\ c.given = w[1] /\ w[Len(c.questions) + 1] \in 0 .. most
  /\ \A i \in 1 .. Len(c.questions) :
       /\ w[i] \in Nat /\ w[i + 1] \in Nat
       /\ w[i] + c.questions[i].severe + c.questions[i].minor + c.questions[i].presumed <= w[i + 1]
       /\ c.questions[i].presumed <= presumes
       /\ c.questions[i].missed = "dropped" => c.questions[i].severe = IF i = dropped THEN 1 ELSE 0

LEMMA CheckersWeigh ==
  /\ Weighs(Postgres, Worth.postgres, 8, 4, 0) /\ Weighs(MySQL, Worth.mysql, 10, 0, 0)
  /\ Weighs(MSSQL, Worth.mssql, 8, 0, 1) /\ Weighs(Oracle, Worth.oracle, 8, 0, 1)
  /\ Weighs(Snowflake, Worth.snowflake, 8, 0, 0) /\ Weighs(BigQuery, Worth.bigquery, 8, 0, 0)
  /\ Weighs(MongoDB, Worth.mongodb, 8, 0, 0) /\ Weighs(Generic, Worth.other, 8, 0, 0)
  /\ Weighs(S3, Worth.s3, 8, 0, 0) /\ Weighs(AzureBlob, Worth.azure, 8, 0, 0) /\ Weighs(GCS, Worth.gcs, 8, 0, 0)
<1>1. Weighs(Postgres, Worth.postgres, 8, 4, 0)
  BY DEF Weighs, Worth, Postgres, Checker, Ask
<1>2. Weighs(MySQL, Worth.mysql, 10, 0, 0)
  BY DEF Weighs, Worth, MySQL, Checker, Ask
<1>3. Weighs(MSSQL, Worth.mssql, 8, 0, 1)
  BY DEF Weighs, Worth, MSSQL, Checker, Presuming, Ask
<1>4. Weighs(Oracle, Worth.oracle, 8, 0, 1)
  BY DEF Weighs, Worth, Oracle, Checker, Presuming, Ask
<1>5. Weighs(Snowflake, Worth.snowflake, 8, 0, 0)
  BY DEF Weighs, Worth, Snowflake, Checker, Ask
<1>6. Weighs(BigQuery, Worth.bigquery, 8, 0, 0)
  BY DEF Weighs, Worth, BigQuery, Checker, Ask
<1>7. Weighs(MongoDB, Worth.mongodb, 8, 0, 0)
  BY DEF Weighs, Worth, MongoDB, Checker, Ask
<1>8. Weighs(Generic, Worth.other, 8, 0, 0)
  BY DEF Weighs, Worth, Generic, Checker, Ask
<1>9. Weighs(S3, Worth.s3, 8, 0, 0)
  BY DEF Weighs, Worth, S3, Checker, Ask
<1>10. Weighs(AzureBlob, Worth.azure, 8, 0, 0)
  BY DEF Weighs, Worth, AzureBlob, Checker, Ask
<1>11. Weighs(GCS, Worth.gcs, 8, 0, 0)
  BY DEF Weighs, Worth, GCS, Checker, Ask
<1>12. QED
  BY <1>1, <1>2, <1>3, <1>4, <1>5, <1>6, <1>7, <1>8, <1>9, <1>10, <1>11

(* Only MySQL has a question so heavy that one failure leaves an A.        *)
LEMMA LastWorth ==
  ASSUME NEW k \in DOMAIN CheckerOf
  PROVE  /\ Weighs(CheckerOf[k], Worth[k], IF k = "mysql" THEN 10 ELSE 8,
                                           IF k = "postgres" THEN 4 ELSE 0,
                                           IF k \in {"mssql", "oracle"} THEN 1 ELSE 0)
         /\ k = "postgres" => Len(CheckerOf[k].questions) = 4
<1>1. Worth[k] = CASE k = "postgres" -> Worth.postgres [] k = "mysql" -> Worth.mysql
                   [] k = "mssql" -> Worth.mssql [] k = "oracle" -> Worth.oracle
                   [] k = "snowflake" -> Worth.snowflake [] k = "bigquery" -> Worth.bigquery
                   [] k = "mongodb" -> Worth.mongodb [] k = "other" -> Worth.other
                   [] k = "s3" -> Worth.s3 [] k = "azure" -> Worth.azure [] k = "gcs" -> Worth.gcs
  BY DEF CheckerOf
<1>2. Weighs(CheckerOf[k], Worth[k], IF k = "mysql" THEN 10 ELSE 8,
                                     IF k = "postgres" THEN 4 ELSE 0, IF k \in {"mssql", "oracle"} THEN 1 ELSE 0)
  BY <1>1, CheckersWeigh DEF CheckerOf
<1>3. k = "postgres" => Len(CheckerOf[k].questions) = 4
  BY DEF CheckerOf, Postgres, Checker
<1>4. QED
  BY <1>2, <1>3

(* The points of the check in progress, and how many questions without an  *)
(* answer will be missing from its report.                                 *)
Counted ==
  check.at # 0 =>
    /\ check.at \in 1 .. Len(Questions) + 1
    /\ check.passed + check.failed <= Worth[kind][check.at]
    /\ check.dropped <= IF kind = "postgres" /\ check.at = 5 THEN 1 ELSE 0
    /\ check.presumed = 0 \/ kind \in {"mssql", "oracle", "mysql"}

TopInv == GradeInv /\ Counted /\ TopGradeEarned

LEMMA CountedKeeps ==
  ASSUME GradeInv, Counted, CheckStep
  PROVE  Counted'
<1> DEFINE n == Len(Questions)
           w == Worth[kind]
           most == IF kind = "mysql" THEN 10 ELSE 8
           drops == IF kind = "postgres" THEN 4 ELSE 0
           presumes == IF kind \in {"mssql", "oracle"} THEN 1 ELSE 0
<1>0. /\ check \in Checks /\ check.at \in Nat /\ check.passed \in Nat /\ check.failed \in Nat
      /\ check.dropped \in Nat /\ check.presumed \in Nat /\ kind \in DOMAIN CheckerOf
  BY DEF GradeInv, Checks
<1>1. /\ Questions \in Asks /\ n \in Nat /\ DOMAIN Questions = 1 .. n
      /\ Weighs(CheckerOf[kind], w, most, drops, presumes) /\ (kind = "postgres" => n = 4)
  BY <1>0, CheckerType, LastWorth DEF Questions, Asks
<1>2. kind' = kind /\ n' = n
  BY DEF CheckStep, StartCheck, CannotTry, CannotConnect, Answer, Miss, BreakOff, FinishCheck, OverallGrade,
         Questions
<1> HIDE DEF n, w
<1>3. ASSUME check.at \in DOMAIN Questions
      PROVE  /\ check.at \in 1 .. n /\ check.passed + check.failed <= w[check.at]
             /\ check.dropped = 0 /\ w[check.at] \in Nat /\ w[check.at + 1] \in Nat
             /\ w[check.at] + Asked.severe + Asked.minor + Asked.presumed <= w[check.at + 1]
             /\ Asked.presumed <= presumes
             /\ Asked.missed = "dropped" => Asked.severe = IF check.at = drops THEN 1 ELSE 0
             /\ Asked.severe \in Nat /\ Asked.minor \in Nat /\ Asked.presumed \in Nat
  <2>1. Asked \in AskRecords /\ check.at \in 1 .. n
    BY <1>1, <1>3 DEF Asked, Asks
  <2>2. check.dropped = 0
    BY <1>0, <1>1, <2>1 DEF Counted
  <2>3. /\ w[check.at] \in Nat /\ w[check.at + 1] \in Nat
        /\ w[check.at] + Asked.severe + Asked.minor + Asked.presumed <= w[check.at + 1]
        /\ Asked.presumed <= presumes
        /\ Asked.missed = "dropped" => Asked.severe = IF check.at = drops THEN 1 ELSE 0
    BY <1>1, <2>1 DEF Weighs, Asked, Questions, n
  <2>4. check.passed + check.failed <= w[check.at]
    BY <1>1, <2>1 DEF Counted, w
  <2>5. QED
    BY <2>1, <2>2, <2>3, <2>4 DEF AskRecords
<1>4. CASE StartCheck
  <2>1. check'.at = 1 /\ check'.passed = CheckerOf[kind].given /\ check'.failed = 0 /\ check'.dropped = 0
        /\ check'.presumed = 0
    BY <1>4 DEF StartCheck, NoCheck
  <2>2. CheckerOf[kind].given = w[1] /\ CheckerOf[kind].given \in Nat
    BY <1>0, <1>1, CheckerType DEF Weighs
  <2>3. QED
    BY <1>1, <1>2, <2>1, <2>2 DEF Counted, w, n
<1>5. CASE Answer
  <2>1. check.at \in DOMAIN Questions
    BY <1>5 DEF Answer
  <2>2. PICK bad \in BadAnswers : \E warnings \in Warnings(bad) :
          check' = [check EXCEPT !.at = @ + 1,
                                 !.passed = @ + Asked.severe + Asked.minor + Asked.presumed
                                              - bad - warnings,
                                 !.failed = @ + bad,
                                 !.presumed = @ + Presumed(bad)]
    BY <1>5 DEF Answer
  <2>3. PICK warnings \in Warnings(bad) :
          check' = [check EXCEPT !.at = @ + 1,
                                 !.passed = @ + Asked.severe + Asked.minor + Asked.presumed
                                              - bad - warnings,
                                 !.failed = @ + bad,
                                 !.presumed = @ + Presumed(bad)]
    BY <2>2
  <2>4. bad \in Nat /\ warnings \in Nat
    BY <1>3, <2>1 DEF BadAnswers, Warnings
  <2>5. /\ check'.at = check.at + 1 /\ check'.dropped = check.dropped
        /\ check'.passed = check.passed + Asked.severe + Asked.minor + Asked.presumed - bad - warnings
        /\ check'.failed = check.failed + bad
        /\ check'.presumed = check.presumed + Presumed(bad)
    BY <1>0, <2>3 DEF Checks
  <2>6. check'.passed + check'.failed <= w[check.at + 1]
    <3>1. check'.passed + check'.failed
            <= check.passed + check.failed + Asked.severe + Asked.minor + Asked.presumed
      BY <1>0, <1>3, <2>1, <2>4, <2>5
    <3>2. w[check.at + 1] \in Nat
      BY <1>3, <2>1
    <3>3. QED
      BY <1>0, <1>3, <2>1, <2>4, <2>5, <3>1, <3>2
  <2>7. check'.at \in 1 .. Len(Questions)' + 1
    <3>1. check.at \in 1 .. n /\ n \in Nat
      BY <1>1, <1>3, <2>1
    <3>2. check'.at \in 1 .. n + 1
      BY <2>5, <3>1
    <3>3. Len(Questions)' = n
      BY <1>2 DEF n
    <3>4. QED
      BY <3>2, <3>3
  <2>8. check'.dropped = 0
    BY <1>3, <2>1, <2>5
  <2>10. check'.presumed = 0 \/ kind \in {"mssql", "oracle", "mysql"}
    <3>1. check.presumed = 0 \/ kind \in {"mssql", "oracle", "mysql"}
      BY <1>3, <2>1 DEF Counted
    <3>2. Presumed(bad) = 0 \/ kind \in {"mssql", "oracle", "mysql"}
      BY <1>3, <2>1 DEF Presumed
    <3>3. QED
      BY <1>0, <2>5, <3>1, <3>2
  <2>9. QED
    BY <1>2, <2>5, <2>6, <2>7, <2>8, <2>10 DEF Counted, w
<1>6. CASE Miss
  <2>1. check.at \in DOMAIN Questions
    BY <1>6 DEF Miss
  <2>2. /\ check'.at = check.at + 1 /\ check'.passed = check.passed
        /\ check'.failed = IF Asked.missed = "failed" THEN check.failed + Asked.severe ELSE check.failed
        /\ check'.dropped = IF Asked.missed = "dropped" THEN check.dropped + Asked.severe
                                                       ELSE check.dropped
        /\ check'.presumed = check.presumed
    BY <1>0, <1>6 DEF Miss, Unanswered, Checks
  <2>3. check'.passed + check'.failed <= w[check.at + 1]
    <3>1. check'.passed + check'.failed
            <= check.passed + check.failed + Asked.severe + Asked.minor + Asked.presumed
      BY <1>0, <1>3, <2>1, <2>2
    <3>2. w[check.at + 1] \in Nat
      BY <1>3, <2>1
    <3>3. check'.passed + check'.failed \in Int
      BY <1>0, <1>3, <2>1, <2>2
    <3>4. QED
      BY <1>0, <1>3, <2>1, <3>1, <3>2, <3>3
  <2>4. check'.dropped <= IF kind = "postgres" /\ check.at = 4 THEN 1 ELSE 0
    BY <1>3, <2>1, <2>2
  <2>5. check'.at \in 1 .. Len(Questions)' + 1
    BY <1>1, <1>2, <1>3, <2>1, <2>2 DEF n
  <2>6. check'.at = 5 => check.at = 4
    BY <1>0, <2>2
  <2>8. check.presumed = 0 \/ kind \in {"mssql", "oracle", "mysql"}
    BY <1>3, <2>1 DEF Counted
  <2>7. QED
    BY <1>2, <2>2, <2>3, <2>4, <2>5, <2>6, <2>8 DEF Counted, w
<1>7. CASE CannotTry \/ CannotConnect \/ BreakOff \/ FinishCheck \/ OverallGrade
  <2>1. check' = NoCheck \/ check' = check
    BY <1>7 DEF CannotTry, CannotConnect, BreakOff, FinishCheck, OverallGrade
  <2>2. CASE check' = NoCheck
    BY <2>2 DEF NoCheck, Counted
  <2>3. CASE check' = check
    BY <1>2, <2>3 DEF Counted, n
  <2>4. QED
    BY <2>1, <2>2, <2>3
<1>8. QED
  BY <1>4, <1>5, <1>6, <1>7 DEF CheckStep

LEMMA TopKeeps ==
  ASSUME GradeInv, Counted, TopGradeEarned, CheckStep
  PROVE  TopGradeEarned'
<1>0. kind' = kind /\ kind \in DOMAIN CheckerOf
  BY DEF GradeInv, CheckStep, StartCheck, CannotTry, CannotConnect, Answer, Miss, BreakOff,
         FinishCheck, OverallGrade
<1>1. CASE FinishCheck
  <2>1. /\ check.passed \in Nat /\ check.failed \in Nat /\ check.dropped \in Nat
        /\ check.at = Len(Questions) + 1 /\ Questions \in Asks
    BY <1>0, <1>1, CheckerType DEF GradeInv, Checks, FinishCheck, Questions
  <2>2. /\ check.passed + check.failed <= IF kind = "mysql" THEN 10 ELSE 8
        /\ check.dropped <= IF kind = "postgres" THEN 1 ELSE 0
        /\ check.presumed = 0 \/ kind \in {"mssql", "oracle", "mysql"}
    <3>1. Len(Questions) \in Nat
      BY <2>1 DEF Asks
    <3>2. /\ Worth[kind][Len(Questions) + 1] \in 0 .. (IF kind = "mysql" THEN 10 ELSE 8)
          /\ kind = "postgres" => Len(Questions) = 4
      BY <1>0, LastWorth DEF Weighs, Questions
    <3>3. check.at # 0
      BY <2>1, <3>1
    <3>4. QED
      BY <2>1, <3>1, <3>2, <3>3 DEF Counted
  <2>3. PICK privileged \in {"unasked", "yes", "no"} :
          report' = Graded(check.passed + (IF privileged = "no" THEN 1 ELSE 0),
                           check.failed + (IF privileged = "yes" THEN 1 ELSE 0))
    BY <1>1 DEF FinishCheck
  <2> DEFINE p == check.passed + (IF privileged = "no" THEN 1 ELSE 0)
             f == check.failed + (IF privileged = "yes" THEN 1 ELSE 0)
  <2>4. p \in Nat /\ f \in Nat /\ p + f <= IF kind = "mysql" THEN 11 ELSE 9
    BY <2>1, <2>2
  <2>5. /\ report'.grade = Grade(Score(p, f)) /\ report'.failed = f
        /\ report'.unshown = check.dropped /\ report'.presumed = check.presumed
    BY <2>3 DEF Graded
  <2> HIDE DEF p, f
  <2>6. ASSUME report'.grade = "A" PROVE f = 0 \/ (kind = "mysql" /\ f = 1)
    <3>1. p >= 9 * f
      BY <2>4, <2>5, <2>6, TopScore
    <3>2. QED
      BY <2>4, <3>1
  <2>7. QED
    BY <1>0, <2>1, <2>2, <2>5, <2>6 DEF TopGradeEarned
<1>2. CASE CannotTry \/ CannotConnect \/ BreakOff
  <2>1. report'.grade \in {"?", "F"}
    BY <1>2, BrokenType DEF CannotTry, CannotConnect, BreakOff
  <2>2. QED
    BY <2>1 DEF TopGradeEarned
<1>3. CASE OverallGrade
  BY <1>3 DEF OverallGrade, NoReport, TopGradeEarned
<1>4. CASE StartCheck \/ Answer \/ Miss
  BY <1>0, <1>4 DEF StartCheck, Answer, Miss, TopGradeEarned
<1>5. QED
  BY <1>1, <1>2, <1>3, <1>4 DEF CheckStep

(* A source graded A fails at most one check, and that only on MySQL, and  *)
(* no privilege that could not be asked about is missing from its report,  *)
(* but for the schema privilege of PostgreSQL; and only the checkers of    *)
(* SQL Server, Oracle and MySQL pass a check without an answer to it       *)
(* (check_source_security).                                                *)
THEOREM TopGradeIsEarned == Spec => []TopGradeEarned
<1>1. Init => TopInv
  BY GradeInit DEF Init, TopInv, Counted, NoCheck, NoReport, TopGradeEarned
<1>2. TopInv /\ [Next]_vars => TopInv'
  <2> SUFFICES ASSUME TopInv, [Next]_vars PROVE TopInv'
    OBVIOUS
  <2>1. CASE CheckStep
    BY <2>1, GradeStep, CountedKeeps, TopKeeps DEF TopInv
  <2>2. CASE UNCHANGED <<kind, check, report, overall>>
    <3>1. Counted' /\ TopGradeEarned'
      BY <2>2 DEF TopInv, Counted, Questions, TopGradeEarned
    <3>2. QED
      BY <3>1, GradeStep DEF TopInv
  <2>3. QED
    BY <2>1, <2>2 DEF Next, HardenStep, Harden, CreatePostgres, CreateMySQL, CreateMSSQL, Grant,
       CreateFails, Secure, SecureFails, CreateByHand, DropAccount, OpenSchema, vars, checking
<1>3. TopInv => TopGradeEarned
  BY DEF TopInv
<1>4. QED
  BY <1>1, <1>2, <1>3, PTL DEF Spec

-----------------------------------------------------------------------------
(* Induction over numbers and over sequences.  The theorems of the library *)
(* take a predicate; these take the set of the values that satisfy it.     *)

LEMMA NatMin ==
  ASSUME NEW T \in SUBSET Nat, T # {}
  PROVE  \E x \in T : \A y \in T : x <= y
<1>1. \E x \in T : \A y \in T : ~ (<<y, x>> \in OpToRel(<, Nat))
  BY NatLessThanWellFounded, WFMin
<1>2. \A x, y \in Nat : y < x => <<y, x>> \in OpToRel(<, Nat)
  BY DEF OpToRel
<1>3. \A x, y \in Nat : ~(y < x) => x <= y
  OBVIOUS
<1>4. QED
  BY <1>1, <1>2, <1>3, Zenon

LEMMA NatInd ==
  ASSUME NEW T, 0 \in T, \A n \in Nat : n \in T => n + 1 \in T
  PROVE  Nat \subseteq T
<1>1. SUFFICES ASSUME Nat \ T # {} PROVE FALSE
  OBVIOUS
<1>2. PICK x \in Nat \ T : \A y \in Nat \ T : x <= y
  BY <1>1, NatMin
<1>3. x # 0 /\ x - 1 \in Nat /\ x = (x - 1) + 1
  BY <1>2
<1>4. QED
  BY <1>2, <1>3

LEMMA SeqInd ==
  ASSUME NEW X, NEW T, <<>> \in T,
         \A s \in Seq(X), x \in X : s \in T => Append(s, x) \in T
  PROVE  Seq(X) \subseteq T
<1> DEFINE N == {n \in Nat : \A s \in Seq(X) : Len(s) = n => s \in T}
<1>1. 0 \in N
  BY EmptySeq
<1>2. ASSUME NEW n \in Nat, n \in N PROVE n + 1 \in N
  <2> SUFFICES ASSUME NEW s \in Seq(X), Len(s) = n + 1 PROVE s \in T
    OBVIOUS
  <2>1. PICK p \in Seq(X), x \in X : s = Append(p, x)
    <3>1. s # <<>>
      BY EmptySeq
    <3>2. QED
      BY <3>1, SequenceEmptyOrAppend
  <2>2. Len(p) = n
    BY <2>1, AppendProperties
  <2>3. QED
    BY <1>2, <2>1, <2>2
<1>3. Nat \subseteq N
  <2> HIDE DEF N
  <2>1. QED
    BY <1>1, <1>2, NatInd
<1>4. QED
  BY <1>3, LenProperties

-----------------------------------------------------------------------------
(* Sequences, their places and their pieces                                *)

LEMMA FirstElement ==
  ASSUME NEW X, NEW s \in Seq(X), s # <<>>
  PROVE  s[1] \in X
<1>1. Len(s) \in Nat /\ Len(s) # 0
  BY LenProperties, EmptySeq
<1>2. 1 \in 1..Len(s)
  BY <1>1
<1>3. QED
  BY <1>2, ElementOfSeq

LEMMA ConcatAppend ==
  ASSUME NEW X, NEW s \in Seq(X), NEW t \in Seq(X), NEW x \in X
  PROVE  s \o Append(t, x) = Append(s \o t, x)
<1>1. <<x>> \in Seq(X) /\ s \o t \in Seq(X)
  BY ElementOfSeq, ConcatProperties
<1>2. QED
  BY <1>1, AppendIsConcat, ConcatAssociative

(* The concatenation, as an operator that the provers leave alone.          *)
Glue(a, b) == a \o b

LEMMA GlueFacts ==
  ASSUME NEW X, NEW a \in Seq(X), NEW b \in Seq(X)
  PROVE  Glue(a, b) \in Seq(X) /\ Len(Glue(a, b)) = Len(a) + Len(b)
BY ConcatProperties DEF Glue

LEMMA GlueAssociative ==
  ASSUME NEW X, NEW a \in Seq(X), NEW b \in Seq(X), NEW c \in Seq(X)
  PROVE  Glue(Glue(a, b), c) = Glue(a, Glue(b, c))
BY ConcatAssociative DEF Glue

LEMMA GluedAt ==
  ASSUME NEW X, NEW b \in Seq(X), NEW e \in Seq(X), NEW s, s = b \o e
  PROVE  /\ s \in Seq(X) /\ Len(s) = Len(b) + Len(e)
         /\ \A j \in 1..(Len(b) + Len(e)) : s[j] = IF j <= Len(b) THEN b[j] ELSE e[j - Len(b)]
BY ConcatProperties

LEMMA SubSeqFacts ==
  ASSUME NEW X, NEW s \in Seq(X), NEW a \in Int, NEW b \in Int, a >= 1, b <= Len(s)
  PROVE  /\ SubSeq(s, a, b) \in Seq(X)
         /\ Len(SubSeq(s, a, b)) = IF a <= b THEN b - a + 1 ELSE 0
         /\ \A j \in 1..(b - a + 1) : SubSeq(s, a, b)[j] = s[a + j - 1]
<1>1. \A i \in a..b : s[i] \in X
  <2>1. \A i \in a..b : i \in 1..Len(s)
    BY LenProperties
  <2>2. QED
    BY <2>1, ElementOfSeq
<1>2. QED
  BY <1>1, SubSeqProperties

LEMMA SubSeqType ==
  ASSUME NEW X, NEW s \in Seq(X), NEW a \in Int, NEW b \in Int, a >= 1, b <= Len(s)
  PROVE  SubSeq(s, a, b) \in Seq(X)
BY SubSeqFacts

LEMMA LowestFacts ==
  ASSUME NEW S \in SUBSET Nat, S # {}
  PROVE  Lowest(S) \in S /\ \A j \in S : Lowest(S) <= j
<1>1. \E i \in S : \A j \in S : i <= j
  BY NatMin
<1>2. QED
  BY <1>1, Zenon DEF Lowest

LEMMA LowestIs ==
  ASSUME NEW S \in SUBSET Nat, NEW h \in S, \A j \in S : h <= j
  PROVE  Lowest(S) = h
<1>1. Lowest(S) \in S /\ \A j \in S : Lowest(S) <= j
  BY LowestFacts
<1>0. h \in Int /\ Lowest(S) \in Int
  <2>1. \A x \in S : x \in Int
    OBVIOUS
  <2>2. QED
    BY <1>1, <2>1, Zenon
<1>2. Lowest(S) <= h /\ h <= Lowest(S)
  BY <1>1
<1>3. QED
  BY <1>0, <1>2

LEMMA HighestFacts ==
  ASSUME NEW n \in Nat, NEW S \in SUBSET (1..n), S # {}
  PROVE  Highest(S) \in S /\ \A j \in S : j <= Highest(S)
<1> DEFINE T == {m \in Nat : \E i \in S : m = n - i}
<1>1. T # {}
  <2>1. PICK i \in S : TRUE
    OBVIOUS
  <2>2. n - i \in T
    OBVIOUS
  <2>3. QED
    BY <2>2
<1>2. PICK m \in T : \A k \in T : m <= k
  <2>1. T \in SUBSET Nat
    OBVIOUS
  <2> HIDE DEF T
  <2>2. QED
    BY <1>1, <2>1, NatMin
<1>3. PICK i \in S : m = n - i
  BY <1>2
<1>4. ASSUME NEW j \in S PROVE j <= i
  <2>1. n - j \in T /\ j \in Nat /\ i \in Nat
    OBVIOUS
  <2>2. m <= n - j
    BY <1>2, <2>1
  <2>3. QED
    BY <1>3, <2>1, <2>2
<1>5. \E x \in S : \A j \in S : j <= x
  BY <1>4
<1>6. QED
  BY <1>5, Zenon DEF Highest

LEMMA HighestIs ==
  ASSUME NEW n \in Nat, NEW S \in SUBSET (1..n), NEW h \in S, \A j \in S : j <= h
  PROVE  Highest(S) = h
<1>1. Highest(S) \in S /\ \A j \in S : j <= Highest(S)
  BY HighestFacts
<1>0. h \in Int /\ Highest(S) \in Int
  <2>1. \A x \in S : x \in Int
    OBVIOUS
  <2>2. QED
    BY <1>1, <2>1, Zenon
<1>2. Highest(S) <= h /\ h <= Highest(S)
  BY <1>1
<1>3. QED
  BY <1>0, <1>2

LEMMA PieceTypes ==
  ASSUME NEW X, NEW s \in Seq(X)
  PROVE  /\ \A n \in Nat : /\ Upto(s, n) \in Seq(X)
                           /\ Len(Upto(s, n)) = IF n < Len(s) THEN n ELSE Len(s)
                           /\ \A i \in 1..n : i <= Len(s) => Upto(s, n)[i] = s[i]
                           /\ n >= Len(s) => Upto(s, n) = s
         /\ Last4(s) \in Seq(X)
         /\ \A i \in 1..Len(s) : /\ Before(s, i) \in Seq(X) /\ Len(Before(s, i)) = i - 1
                                 /\ After(s, i) \in Seq(X) /\ Len(After(s, i)) = Len(s) - i
         /\ \A a \in 1..(Len(s) + 1), b \in 0..Len(s) : SubSeq(s, a, b) \in Seq(X)
<1>1. ASSUME NEW a \in 1..(Len(s) + 1), NEW b \in 0..Len(s)
      PROVE  /\ SubSeq(s, a, b) \in Seq(X)
             /\ Len(SubSeq(s, a, b)) = IF a <= b THEN b - a + 1 ELSE 0
             /\ \A i \in 1..(b - a + 1) : SubSeq(s, a, b)[i] = s[a + i - 1]
  <2>1. a \in Int /\ b \in Int /\ a >= 1 /\ b <= Len(s)
    BY LenProperties
  <2>2. SubSeq(s, a, b) \in Seq(X)
    BY <2>1, SubSeqFacts
  <2>3. Len(SubSeq(s, a, b)) = IF a <= b THEN b - a + 1 ELSE 0
    BY <2>1, SubSeqFacts
  <2>4. \A i \in 1..(b - a + 1) : SubSeq(s, a, b)[i] = s[a + i - 1]
    BY <2>1, SubSeqFacts
  <2>5. QED
    BY <2>2, <2>3, <2>4, Zenon
<1>2. Len(s) \in Nat
  BY LenProperties
<1>3. ASSUME NEW n \in Nat
      PROVE  /\ Upto(s, n) \in Seq(X)
             /\ Len(Upto(s, n)) = IF n < Len(s) THEN n ELSE Len(s)
             /\ \A i \in 1..n : i <= Len(s) => Upto(s, n)[i] = s[i]
             /\ n >= Len(s) => Upto(s, n) = s
  <2> DEFINE m == IF n < Len(s) THEN n ELSE Len(s)
  <2>1. m \in 0..Len(s) /\ 1 \in 1..(Len(s) + 1) /\ m - 1 + 1 = m
    BY <1>2
  <2>2. Upto(s, n) = SubSeq(s, 1, m)
    BY DEF Upto
  <2>3. Upto(s, n) \in Seq(X) /\ Len(Upto(s, n)) = m
    BY <1>1, <2>1, <2>2
  <2>4. \A i \in 1..m : Upto(s, n)[i] = s[i]
    <3>1. \A i \in 1..m : SubSeq(s, 1, m)[i] = s[1 + i - 1]
      BY <1>1, <2>1
    <3>2. \A i \in 1..m : 1 + i - 1 = i
      BY <2>1
    <3>3. QED
      BY <2>2, <3>1, <3>2
  <2>5. n >= Len(s) => Upto(s, n) = s
    <3>1. CASE n >= Len(s)
      <4>1. m = Len(s)
        BY <1>2, <3>1
      <4>2. QED
        BY <2>3, <2>4, <4>1, SeqEqual
    <3>2. QED
      BY <1>2, <3>1
  <2>6. QED
    BY <1>2, <2>3, <2>4, <2>5
<1>4. Last4(s) \in Seq(X)
  BY <1>1, <1>2 DEF Last4
<1>5. ASSUME NEW i \in 1..Len(s)
      PROVE  /\ Before(s, i) \in Seq(X) /\ Len(Before(s, i)) = i - 1
             /\ After(s, i) \in Seq(X) /\ Len(After(s, i)) = Len(s) - i
  <2>1. 1 \in 1..(Len(s) + 1) /\ i - 1 \in 0..Len(s) /\ i + 1 \in 1..(Len(s) + 1) /\ Len(s) \in 0..Len(s)
    BY <1>2
  <2>2. /\ Before(s, i) \in Seq(X)
        /\ Len(Before(s, i)) = IF 1 <= i - 1 THEN (i - 1) - 1 + 1 ELSE 0
    BY <1>1, <2>1 DEF Before
  <2>3. /\ After(s, i) \in Seq(X)
        /\ Len(After(s, i)) = IF i + 1 <= Len(s) THEN Len(s) - (i + 1) + 1 ELSE 0
    BY <1>1, <2>1 DEF After
  <2>4. QED
    BY <1>2, <2>2, <2>3
<1>6. QED
  BY <1>1, <1>3, <1>4, <1>5

LEMMA CutFacts ==
  ASSUME NEW X, NEW s \in Seq(X), NEW i \in 1..Len(s)
  PROVE  /\ Before(s, i) \in Seq(X) /\ Len(Before(s, i)) = i - 1
         /\ \A j \in 1..(i - 1) : Before(s, i)[j] = s[j]
         /\ After(s, i) \in Seq(X) /\ Len(After(s, i)) = Len(s) - i
         /\ \A j \in 1..(Len(s) - i) : After(s, i)[j] = s[i + j]
<1> DEFINE n == Len(s)
<1>1. n \in Nat
  BY LenProperties
<1>2. ASSUME NEW j \in Int, j \in 1..n PROVE s[j] \in X
  BY <1>2, ElementOfSeq
<1>3. \A j \in 1..(i - 1) : Before(s, i)[j] = s[j]
  <2>1. \A j \in 1..(i - 1) : s[j] \in X
    BY <1>1, <1>2
  <2>2. \A j \in 1..((i - 1) - 1 + 1) : SubSeq(s, 1, i - 1)[j] = s[1 + j - 1]
    BY <1>1, <2>1, SubSeqProperties
  <2>3. \A j \in 1..(i - 1) : j \in 1..((i - 1) - 1 + 1) /\ 1 + j - 1 = j
    BY <1>1
  <2>4. QED
    BY <2>2, <2>3 DEF Before
<1>4. \A j \in 1..(n - i) : After(s, i)[j] = s[i + j]
  <2>1. \A j \in (i + 1)..n : s[j] \in X
    BY <1>1, <1>2
  <2>2. \A j \in 1..(n - (i + 1) + 1) : SubSeq(s, i + 1, n)[j] = s[(i + 1) + j - 1]
    BY <1>1, <2>1, SubSeqProperties
  <2>3. \A j \in 1..(n - i) : j \in 1..(n - (i + 1) + 1) /\ (i + 1) + j - 1 = i + j
    BY <1>1
  <2>4. QED
    BY <2>2, <2>3 DEF After
<1>5. QED
  BY <1>3, <1>4, PieceTypes

(* A value is the characters before a place, the one there and those after.*)
LEMMA Pieces3 ==
  ASSUME NEW X, NEW s \in Seq(X), NEW i \in 1..Len(s)
  PROVE  s = (Before(s, i) \o <<s[i]>>) \o After(s, i)
<1> DEFINE n == Len(s)
<1>1. n \in Nat /\ s[i] \in X
  BY LenProperties, ElementOfSeq
<1>3. /\ Before(s, i) \in Seq(X) /\ Len(Before(s, i)) = i - 1
      /\ \A j \in 1..(i - 1) : Before(s, i)[j] = s[j]
  BY CutFacts
<1>4. /\ After(s, i) \in Seq(X) /\ Len(After(s, i)) = n - i
      /\ \A j \in 1..(n - i) : After(s, i)[j] = s[i + j]
  BY CutFacts
<1>5. /\ <<s[i]>> \in Seq(X) /\ Len(<<s[i]>>) = 1 /\ <<s[i]>>[1] = s[i]
  BY <1>1
<1> DEFINE a == Before(s, i) \o <<s[i]>>
<1>6. a \in Seq(X) /\ Len(a) = i /\ \A j \in 1..i : a[j] = s[j]
  <2>1. Len(Before(s, i)) + 1 = i
    BY <1>1, <1>3
  <2>2. a \in Seq(X) /\ Len(a) = i
        /\ \A j \in 1..i : a[j] = IF j <= i - 1 THEN Before(s, i)[j] ELSE <<s[i]>>[j - (i - 1)]
    BY <1>3, <1>5, <2>1, ConcatProperties
  <2>3. ASSUME NEW j \in 1..i PROVE a[j] = s[j]
    <3>1. CASE j <= i - 1
      BY <1>1, <1>3, <2>2, <3>1
    <3>2. a[i] = s[i]
      <4>1. i - (i - 1) = 1 /\ ~(i <= i - 1) /\ i \in 1..i
        BY <1>1
      <4>2. a[i] = <<s[i]>>[i - (i - 1)]
        BY <2>2, <4>1
      <4>3. QED
        BY <1>5, <4>1, <4>2
    <3>3. j <= i - 1 \/ j = i
      BY <1>1
    <3> HIDE DEF a
    <3>4. QED
      BY <3>1, <3>2, <3>3
  <2>4. QED
    BY <2>2, <2>3
<1> HIDE DEF a
<1>7. /\ a \o After(s, i) \in Seq(X) /\ Len(a \o After(s, i)) = n
      /\ \A j \in 1..n : (a \o After(s, i))[j] = IF j <= i THEN a[j] ELSE After(s, i)[j - i]
  <2>1. Len(a) + Len(After(s, i)) = n
    BY <1>1, <1>4, <1>6
  <2>2. QED
    BY <1>4, <1>6, <2>1, ConcatProperties
<1>8. \A j \in 1..n : (a \o After(s, i))[j] = s[j]
  <2> SUFFICES ASSUME NEW j \in 1..n PROVE (a \o After(s, i))[j] = s[j]
    OBVIOUS
  <2>1. CASE j <= i
    BY <1>1, <1>6, <1>7, <2>1
  <2>2. CASE ~(j <= i)
    <3>1. j - i \in 1..(n - i) /\ i + (j - i) = j
      BY <1>1, <2>2
    <3>2. After(s, i)[j - i] = s[i + (j - i)]
      BY <1>4, <3>1
    <3>3. QED
      BY <1>7, <2>2, <3>1, <3>2
  <2>3. QED
    BY <2>1, <2>2
<1>9. s = a \o After(s, i)
  BY <1>7, <1>8, SeqEqual
<1>10. QED
  BY <1>9 DEF a

LEMMA SamePiece ==
  ASSUME NEW X, NEW a \in Seq(X), NEW r \in Seq(X), NEW v, v = a \o r,
         NEW x \in Int, NEW y \in Int, x >= 1, y <= Len(a)
  PROVE  SubSeq(v, x, y) = SubSeq(a, x, y)
<1> DEFINE n == Len(a)
           m == Len(r)
           s == SubSeq(v, x, y)
           t == SubSeq(a, x, y)
<1>1. n \in Nat /\ m \in Nat
  BY LenProperties
<1>2. /\ v \in Seq(X) /\ Len(v) = n + m
      /\ \A j \in 1..(n + m) : v[j] = IF j <= n THEN a[j] ELSE r[j - n]
  BY GluedAt
<1>3. y <= Len(v)
  BY <1>1, <1>2
<1>4. /\ s \in Seq(X) /\ Len(s) = IF x <= y THEN y - x + 1 ELSE 0
      /\ \A j \in 1..(y - x + 1) : s[j] = v[x + j - 1]
  BY <1>2, <1>3, SubSeqFacts
<1>5. /\ t \in Seq(X) /\ Len(t) = IF x <= y THEN y - x + 1 ELSE 0
      /\ \A j \in 1..(y - x + 1) : t[j] = a[x + j - 1]
  BY SubSeqFacts
<1> HIDE DEF n, m, s, t
<1>6. ASSUME NEW j \in 1..(y - x + 1) PROVE s[j] = t[j]
  <2>1. PICK k \in Int : k = x + j - 1
    OBVIOUS
  <2>2. k \in 1..(n + m) /\ k <= n
    BY <1>1, <2>1 DEF n
  <2>3. v[k] = a[k]
    BY <1>2, <2>2
  <2>4. s[j] = v[k] /\ t[j] = a[k]
    BY <1>4, <1>5, <2>1
  <2>5. QED
    BY <2>3, <2>4
<1>7. Len(s) = Len(t) /\ \A j \in 1..Len(s) : j \in 1..(y - x + 1)
  BY <1>4, <1>5
<1>8. s = t
  BY <1>4, <1>5, <1>6, <1>7, SeqEqual
<1>9. QED
  BY <1>8 DEF s, t

(* A sequence around one of its elements.                                  *)
Around(a, c, e) == (a \o <<c>>) \o e

(* The elements of a concatenation, and the piece of it before one of them.*)
LEMMA Parts3 ==
  ASSUME NEW X, NEW a \in Seq(X), NEW c \in X, NEW e \in Seq(X)
  PROVE  /\ Around(a, c, e) \in Seq(X) /\ Len(Around(a, c, e)) = Len(a) + 1 + Len(e)
         /\ \A j \in 1..Len(a) : Around(a, c, e)[j] = a[j]
         /\ Around(a, c, e)[Len(a) + 1] = c
         /\ \A j \in 1..Len(e) : Around(a, c, e)[Len(a) + 1 + j] = e[j]
         /\ Before(Around(a, c, e), Len(a) + 1) = a
<1> DEFINE s == Around(a, c, e)
           b == Glue(a, <<c>>)
           n == Len(a)
           m == Len(e)
<1>1. n \in Nat /\ m \in Nat
  BY LenProperties
<1>2. b = Append(a, c)
  BY AppendIsConcat DEF Glue
<1> HIDE DEF b
<1>3. b \in Seq(X) /\ Len(b) = n + 1 /\ b[n + 1] = c /\ \A j \in 1..n : b[j] = a[j]
  BY <1>2, AppendProperties
<1>4. /\ s \in Seq(X) /\ Len(s) = Len(b) + m
      /\ \A j \in 1..(Len(b) + m) : s[j] = IF j <= Len(b) THEN b[j] ELSE e[j - Len(b)]
  <2>1. s = b \o e
    BY Zenon DEF Around, Glue, b
  <2> HIDE DEF s
  <2>2. QED
    <3>1. b \in Seq(X) /\ e \in Seq(X)
      BY <1>3
    <3>2. /\ s \in Seq(X) /\ Len(s) = Len(b) + Len(e)
          /\ \A j \in 1..(Len(b) + Len(e)) : s[j] = IF j <= Len(b) THEN b[j] ELSE e[j - Len(b)]
      BY <2>1, <3>1, GluedAt
    <3>3. QED
      BY <3>2, Zenon
<1> HIDE DEF s
<1>5. \A j \in 1..n : s[j] = a[j]
  <2> SUFFICES ASSUME NEW j \in 1..n PROVE s[j] = a[j]
    OBVIOUS
  <2>1. j \in 1..(Len(b) + m) /\ j <= Len(b)
    BY <1>1, <1>3
  <2>2. QED
    BY <1>3, <1>4, <2>1
<1>6. s[n + 1] = c
  <2>1. n + 1 \in 1..(Len(b) + m) /\ n + 1 <= Len(b)
    BY <1>1, <1>3
  <2>2. s[n + 1] = b[n + 1]
    BY <1>4, <2>1
  <2>3. QED
    BY <1>3, <2>2
<1>7. \A j \in 1..m : s[n + 1 + j] = e[j]
  <2> SUFFICES ASSUME NEW j \in 1..m PROVE s[n + 1 + j] = e[j]
    OBVIOUS
  <2>1. PICK k \in Nat : k = n + 1 + j
    BY <1>1
  <2>2. k \in 1..(Len(b) + m) /\ ~(k <= Len(b)) /\ k - Len(b) = j
    BY <1>1, <1>3, <2>1
  <2>3. s[k] = e[k - Len(b)]
    BY <1>4, <2>2
  <2>4. QED
    BY <2>1, <2>2, <2>3
<1>8. Before(s, n + 1) = a
  <2>1. PICK i \in 1..Len(s) : i = n + 1 /\ i - 1 = n
    <3>1. n + 1 \in 1..Len(s) /\ (n + 1) - 1 = n
      BY <1>1, <1>3, <1>4
    <3>2. QED
      BY <3>1, Zenon
  <2>2. /\ Before(s, i) \in Seq(X) /\ Len(Before(s, i)) = i - 1
        /\ \A j \in 1..(i - 1) : Before(s, i)[j] = s[j]
    BY <1>4, CutFacts
  <2> DEFINE h == Before(s, n + 1)
  <2> HIDE DEF h
  <2>3. h \in Seq(X) /\ Len(h) = n /\ \A j \in 1..n : h[j] = a[j]
    BY <1>5, <2>1, <2>2 DEF h
  <2>4. h = a
    BY <2>3, SeqEqual
  <2>5. QED
    BY <2>4 DEF h
<1>9. Len(s) = n + 1 + m
  BY <1>1, <1>3, <1>4
<1>10. QED
  BY <1>4, <1>5, <1>6, <1>7, <1>8, <1>9, Zenon DEF s

LEMMA AroundAppend ==
  ASSUME NEW X, NEW a \in Seq(X), NEW c \in X, NEW e \in Seq(X), NEW x \in X
  PROVE  Append(Around(a, c, e), x) = Around(a, c, Append(e, x))
<1>1. a \o <<c>> \in Seq(X)
  <2>1. <<c>> \in Seq(X)
    OBVIOUS
  <2>2. QED
    BY <2>1, ConcatProperties
<1> DEFINE b == a \o <<c>>
<1>2. b \in Seq(X)
  BY <1>1
<1> HIDE DEF b
<1>3. b \o Append(e, x) = Append(b \o e, x)
  BY <1>2, ConcatAppend
<1>4. QED
  BY <1>3 DEF Around, b

LEMMA UptoFacts ==
  ASSUME NEW X, NEW s \in Seq(X), NEW n \in Nat
  PROVE  /\ Upto(s, n) \in Seq(X)
         /\ \A i \in 1..Len(Upto(s, n)) : i \in 1..n /\ i \in 1..Len(s) /\ Upto(s, n)[i] = s[i]
         /\ \A i \in 1..Len(s) : i <= n => i \in 1..Len(Upto(s, n))
<1>1. Len(s) \in Nat
  BY LenProperties
<1>2. /\ Upto(s, n) \in Seq(X) /\ Len(Upto(s, n)) = IF n < Len(s) THEN n ELSE Len(s)
      /\ \A i \in 1..n : i <= Len(s) => Upto(s, n)[i] = s[i]
  BY PieceTypes
<1>3. QED
  BY <1>1, <1>2

LEMMA UptoMore ==
  ASSUME NEW X, NEW s \in Seq(X), NEW n \in Nat, NEW m \in Nat, n <= m,
         NEW i \in 1..Len(Upto(s, n))
  PROVE  i \in 1..Len(Upto(s, m)) /\ Upto(s, n)[i] = Upto(s, m)[i]
<1>1. i \in 1..n /\ i \in 1..Len(s) /\ Upto(s, n)[i] = s[i]
  BY UptoFacts
<1>2. i <= m
  BY <1>1
<1>3. i \in 1..Len(Upto(s, m))
  BY <1>1, <1>2, UptoFacts
<1>4. Upto(s, m)[i] = s[i]
  BY <1>3, UptoFacts
<1>5. QED
  BY <1>1, <1>3, <1>4

LEMMA UptoSome ==
  ASSUME NEW X, NEW s \in Seq(X), NEW n \in Nat, n > 0, n <= Len(s)
  PROVE  Upto(s, n) \in Seq(X) /\ Len(Upto(s, n)) = n /\ Upto(s, n)[n] = s[n]
<1>1. Len(s) \in Nat
  BY LenProperties
<1>2. /\ Upto(s, n) \in Seq(X) /\ Len(Upto(s, n)) = IF n < Len(s) THEN n ELSE Len(s)
      /\ \A i \in 1..n : i <= Len(s) => Upto(s, n)[i] = s[i]
  BY PieceTypes
<1>3. QED
  BY <1>1, <1>2

LEMMA UptoOne ==
  ASSUME NEW X, NEW s \in Seq(X), 1 <= Len(s)
  PROVE  Upto(s, 1) \in Seq(X) /\ Len(Upto(s, 1)) = 1 /\ Upto(s, 1)[1] = s[1]
<1>1. \A n \in Nat : n > 0 /\ n <= Len(s) =>
        Upto(s, n) \in Seq(X) /\ Len(Upto(s, n)) = n /\ Upto(s, n)[n] = s[n]
  BY UptoSome
<1>2. 1 \in Nat /\ 1 > 0
  OBVIOUS
<1>3. QED
  BY <1>1, <1>2, Zenon

LEMMA UptoAll ==
  ASSUME NEW X, NEW s \in Seq(X), NEW n \in Nat, n >= Len(s)
  PROVE  Upto(s, n) = s
BY PieceTypes

LEMMA UptoBefore ==
  ASSUME NEW X, NEW v \in Seq(X), NEW i \in 1..Len(v), Before(v, i) # <<>>
  PROVE  Upto(v, 1) = Upto(Before(v, i), 1)
<1> DEFINE b == Before(v, i)
<1>1. Len(v) \in Nat /\ b \in Seq(X) /\ Len(b) = i - 1
  BY LenProperties, PieceTypes
<1>2. Len(b) # 0
  <2> HIDE DEF b
  <2>1. QED
    BY <1>1, EmptySeq DEF b
<1>3. \A j \in 1..(i - 1) : b[j] = v[j]
  BY CutFacts
<1> HIDE DEF b
<1>4. i - 1 >= 1
  BY <1>1, <1>2
<1>5. Upto(v, 1) \in Seq(X) /\ Len(Upto(v, 1)) = 1 /\ Upto(v, 1)[1] = v[1]
  <2>1. 1 <= Len(v)
    BY <1>1, <1>4
  <2>2. QED
    BY <1>1, <2>1, UptoOne
<1>6. Upto(b, 1) \in Seq(X) /\ Len(Upto(b, 1)) = 1 /\ Upto(b, 1)[1] = b[1]
  <2>1. 1 <= Len(b)
    BY <1>1, <1>4
  <2>2. QED
    BY <1>1, <2>1, UptoOne
<1>7. b[1] = v[1]
  BY <1>3, <1>4
<1>8. Upto(v, 1) = Upto(b, 1)
  BY <1>5, <1>6, <1>7, SeqEqual
<1>9. QED
  BY <1>8 DEF b

LEMMA SplitPrefix ==
  ASSUME NEW X, NEW F \in SUBSET X, NEW v \in Seq(X)
  PROVE  \E a \in Seq(F), r \in Seq(X) : v = a \o r /\ (r = <<>> \/ r[1] \notin F)
<1> DEFINE Parts(t) == \E a \in Seq(F), r \in Seq(X) :
                         t = a \o r /\ (r = <<>> \/ r[1] \notin F)
           T == {t \in Seq(X) : Parts(t)}
<1>0. <<>> \in Seq(F) /\ <<>> \in Seq(X)
  BY EmptySeq
<1>1. <<>> \in T
  <2>1. <<>> = <<>> \o <<>>
    BY <1>0, ConcatEmptySeq
  <2>2. QED
    BY <1>0, <2>1
<1>2. ASSUME NEW t \in Seq(X), NEW x \in X, t \in T PROVE Append(t, x) \in T
  <2>1. Append(t, x) \in Seq(X)
    BY AppendProperties
  <2>2. PICK a \in Seq(F), r \in Seq(X) : t = a \o r /\ (r = <<>> \/ r[1] \notin F)
    BY <1>2
  <2>3. a \in Seq(X)
    BY SeqMonotonic
  <2>4. CASE r = <<>> /\ x \in F
    <3>1. t = a
      BY <2>2, <2>4, ConcatEmptySeq
    <3>2. Append(a, x) \in Seq(F)
      BY <2>4, AppendProperties
    <3>3. Append(t, x) = Append(a, x) \o <<>>
      BY <3>1, <3>2, ConcatEmptySeq
    <3>4. QED
      BY <1>0, <2>1, <3>2, <3>3
  <2>5. CASE r # <<>> \/ x \notin F
    <3>1. Append(t, x) = a \o Append(r, x) /\ Append(r, x) \in Seq(X)
      <4>1. a \o Append(r, x) = Append(a \o r, x)
        BY <2>3, ConcatAppend
      <4>2. Append(r, x) \in Seq(X)
        BY AppendProperties
      <4>3. QED
        BY <2>2, <4>1, <4>2, Zenon
    <3>2. Append(r, x)[1] \notin F
      <4>1. CASE r = <<>>
        <5>1. Append(r, x)[1] = x
          BY <4>1
        <5>2. QED
          BY <2>5, <4>1, <5>1
      <4>2. CASE r # <<>>
        <5>1. 1 \in 1..Len(r)
          BY <4>2, LenProperties, EmptySeq
        <5>2. Append(r, x)[1] = r[1]
          BY <5>1, AppendProperties
        <5>3. QED
          BY <2>2, <4>2, <5>2
      <4>3. QED
        BY <4>1, <4>2
    <3>3. QED
      BY <2>1, <3>1, <3>2
  <2>6. QED
    BY <2>4, <2>5
<1>3. Seq(X) \subseteq T
  <2> HIDE DEF T
  <2>1. QED
    BY <1>1, <1>2, SeqInd
<1>4. QED
  BY <1>3

-----------------------------------------------------------------------------
(* FlattenSeq                                                              *)

Sums(s, n, g) ==
  /\ g = [i \in 1..n |-> g[i]]
  /\ n > 0 => g[1] = s[1]
  /\ \A i \in Nat : 0 < i /\ i < n => g[i + 1] = Glue(g[i], s[i + 1])

LEMMA SumsFcn ==
  ASSUME NEW s, NEW n \in Nat, NEW g
  PROVE  Sums(s, n, g) <=> g = [i \in 1..n |-> IF i = 1 THEN s[i] ELSE g[i - 1] \o s[i]]
<1> DEFINE e(i) == IF i = 1 THEN s[i] ELSE Glue(g[i - 1], s[i])
<1>1. g = [i \in 1..n |-> e(i)] <=> g = [i \in 1..n |-> g[i]] /\ \A i \in 1..n : g[i] = e(i)
  <2> HIDE DEF e
  <2>1. ASSUME g = [i \in 1..n |-> e(i)]
        PROVE  g = [i \in 1..n |-> g[i]] /\ \A i \in 1..n : g[i] = e(i)
    BY <2>1, Zenon
  <2>2. ASSUME g = [i \in 1..n |-> g[i]], \A i \in 1..n : g[i] = e(i)
        PROVE  g = [i \in 1..n |-> e(i)]
    <3>1. [i \in 1..n |-> g[i]] = [i \in 1..n |-> e(i)]
      BY <2>2, Zenon
    <3>2. QED
      BY <2>2, <3>1, Zenon
  <2>3. QED
    BY <2>1, <2>2, Zenon
<1>2. ASSUME \A i \in 1..n : g[i] = e(i)
      PROVE  /\ n > 0 => g[1] = s[1]
             /\ \A i \in Nat : 0 < i /\ i < n => g[i + 1] = Glue(g[i], s[i + 1])
  <2>1. n > 0 => g[1] = s[1]
    BY <1>2
  <2>2. ASSUME NEW i \in Nat, 0 < i, i < n PROVE g[i + 1] = Glue(g[i], s[i + 1])
    <3>1. i + 1 \in 1..n /\ i + 1 # 1 /\ (i + 1) - 1 = i
      BY <2>2
    <3>2. g[i + 1] = e(i + 1)
      BY <1>2, <3>1, Zenon
    <3>3. e(i + 1) = Glue(g[(i + 1) - 1], s[i + 1])
      BY <3>1, Zenon
    <3>4. QED
      BY <3>1, <3>2, <3>3, Zenon
  <2>3. QED
    BY <2>1, <2>2
<1>3. ASSUME n > 0 => g[1] = s[1],
             \A i \in Nat : 0 < i /\ i < n => g[i + 1] = Glue(g[i], s[i + 1]),
             NEW i \in 1..n
      PROVE  g[i] = e(i)
  <2>1. CASE i = 1
    BY <1>3, <2>1
  <2>2. CASE i # 1
    <3>1. i - 1 \in Nat /\ 0 < i - 1 /\ i - 1 < n /\ (i - 1) + 1 = i
      BY <2>2
    <3>2. g[(i - 1) + 1] = Glue(g[i - 1], s[(i - 1) + 1])
      BY <1>3, <3>1, Zenon
    <3>3. QED
      BY <2>2, <3>1, <3>2, Zenon
  <2>3. QED
    BY <2>1, <2>2
<1>4. Sums(s, n, g) <=> g = [i \in 1..n |-> g[i]] /\ \A i \in 1..n : g[i] = e(i)
  <2> HIDE DEF e
  <2>1. QED
    BY <1>2, <1>3, Zenon DEF Sums
<1>5. Sums(s, n, g) <=> g = [i \in 1..n |-> e(i)]
  <2> HIDE DEF e
  <2>1. QED
    BY <1>1, <1>4, Zenon
<1>6. QED
  BY <1>5, Zenon DEF Glue

LEMMA SumsExist ==
  ASSUME NEW s, NEW n \in Nat
  PROVE  \E g : Sums(s, n, g)
<1> DEFINE N == {m \in Nat : \E g : Sums(s, m, g)}
<1>1. 0 \in N
  <2>1. Sums(s, 0, [i \in 1..0 |-> s[i]])
    BY DEF Sums
  <2>2. QED
    BY <2>1
<1>2. ASSUME NEW m \in Nat, m \in N PROVE m + 1 \in N
  <2>1. PICK g : Sums(s, m, g)
    BY <1>2
  <2> DEFINE last == IF m = 0 THEN s[1] ELSE Glue(g[m], s[m + 1])
             h == [i \in 1..(m + 1) |-> IF i = m + 1 THEN last ELSE g[i]]
  <2>2. h[m + 1] = last /\ \A i \in 1..m : h[i] = g[i]
    <3> HIDE DEF last
    <3>1. QED
      OBVIOUS
  <2>3. h = [i \in 1..(m + 1) |-> h[i]]
    <3> HIDE DEF last
    <3>1. QED
      OBVIOUS
  <2>4. h[1] = s[1]
    <3> HIDE DEF h
    <3>1. QED
      BY <2>1, <2>2 DEF Sums
  <2>5. ASSUME NEW i \in Nat, 0 < i, i < m + 1 PROVE h[i + 1] = Glue(h[i], s[i + 1])
    <3> HIDE DEF h
    <3>1. CASE i = m
      BY <2>2, <2>5, <3>1
    <3>2. CASE i # m
      <4>1. i + 1 \in 1..m /\ i \in 1..m /\ i < m
        BY <2>5, <3>2
      <4>2. g[i + 1] = Glue(g[i], s[i + 1])
        BY <2>1, <2>5, <4>1, Zenon DEF Sums
      <4>3. QED
        BY <2>2, <4>1, <4>2
    <3>3. QED
      BY <3>1, <3>2
  <2>6. Sums(s, m + 1, h)
    <3> HIDE DEF h
    <3>1. QED
      BY <2>3, <2>4, <2>5, Zenon DEF Sums
  <2>7. QED
    BY <2>6
<1>3. QED
  BY <1>1, <1>2, NatInd

LEMMA SumsUnique ==
  ASSUME NEW s, NEW t, NEW n \in Nat, NEW m \in Nat, NEW g, NEW h,
         Sums(s, n, g), Sums(t, m, h),
         NEW k \in Nat, k <= n, k <= m, k > 0, \A i \in 1..k : s[i] = t[i]
  PROVE  g[k] = h[k]
<1> DEFINE N == {i \in Nat : i \in 1..k => g[i] = h[i]}
<1>1. 0 \in N
  OBVIOUS
<1>2. ASSUME NEW i \in Nat, i \in N, i + 1 \in 1..k PROVE g[i + 1] = h[i + 1]
  <2>1. CASE i = 0
    <3>1. n > 0 /\ m > 0 /\ s[1] = t[1]
      OBVIOUS
    <3>2. g[1] = h[1]
      BY <3>1 DEF Sums
    <3>3. QED
      BY <2>1, <3>2
  <2>2. CASE i # 0
    <3>1. 0 < i /\ i < n /\ i < m
      BY <1>2, <2>2
    <3>2. g[i + 1] = Glue(g[i], s[i + 1]) /\ h[i + 1] = Glue(h[i], t[i + 1])
      BY <3>1, Zenon DEF Sums
    <3>3. s[i + 1] = t[i + 1] /\ g[i] = h[i]
      BY <1>2, <2>2
    <3>4. QED
      BY <3>2, <3>3
  <2>3. QED
    BY <2>1, <2>2
<1>3. Nat \subseteq N
  <2>1. \A i \in Nat : i \in N => i + 1 \in N
    BY <1>2
  <2> HIDE DEF N
  <2>2. QED
    BY <1>1, <2>1, NatInd
<1>4. QED
  BY <1>3

LEMMA FlattenEmpty == FlattenSeq(<<>>) = <<>>
<1>1. Len(<<>>) = 0
  OBVIOUS
<1>2. QED
  BY <1>1, Zenon DEF FlattenSeq

LEMMA FlattenSums ==
  ASSUME NEW s, Len(s) \in Nat \ {0}
  PROVE  \E g : Sums(s, Len(s), g) /\ FlattenSeq(s) = g[Len(s)]
<1> DEFINE F(g) == g = [i \in 1..Len(s) |-> IF i = 1 THEN s[i] ELSE g[i - 1] \o s[i]]
           f == CHOOSE g : F(g)
<1>1. \E g : Sums(s, Len(s), g)
  BY SumsExist
<1>2. \A g : Sums(s, Len(s), g) <=> F(g)
  BY SumsFcn
<1>3. F(f)
  <2> HIDE DEF F
  <2>1. QED
    BY <1>1, <1>2, Zenon
<1>4. FlattenSeq(s) = f[Len(s)]
  <2>1. Len(s) # 0
    OBVIOUS
  <2>2. QED
    BY <2>1, Zenon DEF FlattenSeq
<1>5. Sums(s, Len(s), f)
  <2> HIDE DEF F
  <2>1. QED
    BY <1>2, <1>3, Zenon
<1>6. QED
  BY <1>4, <1>5, Zenon

LEMMA FlattenAppend ==
  ASSUME NEW X, NEW s \in Seq(Seq(X)), NEW x \in Seq(X)
  PROVE  FlattenSeq(Append(s, x)) = FlattenSeq(s) \o x
<1> DEFINE n == Len(s)
           t == Append(s, x)
<1>1. /\ n \in Nat /\ Len(t) = n + 1 /\ t[n + 1] = x
      /\ \A i \in 1..n : t[i] = s[i]
  BY AppendProperties, LenProperties
<1>2. PICK g : Sums(t, n + 1, g) /\ FlattenSeq(t) = g[n + 1]
  <2>1. Len(t) \in Nat \ {0}
    BY <1>1
  <2>2. QED
    BY <1>1, <2>1, FlattenSums
<1>3. CASE n = 0
  <2>1. s = <<>>
    BY <1>3, EmptySeq
  <2>2. FlattenSeq(s) \o x = x
    BY <2>1, FlattenEmpty, ConcatEmptySeq
  <2>3. g[1] = t[1]
    <3>1. n + 1 > 0
      BY <1>1
    <3>2. QED
      BY <1>2, <3>1, Zenon DEF Sums
  <2>4. QED
    BY <1>1, <1>2, <1>3, <2>2, <2>3
<1>4. CASE n # 0
  <2>1. PICK h : Sums(s, n, h) /\ FlattenSeq(s) = h[n]
    BY <1>1, <1>4, FlattenSums
  <2>2. g[n] = h[n]
    <3>1. n + 1 \in Nat /\ n <= n + 1 /\ n > 0
      BY <1>1, <1>4
    <3> HIDE DEF n, t
    <3>2. QED
      BY <1>1, <1>2, <2>1, <3>1, SumsUnique
  <2>3. g[n + 1] = Glue(g[n], t[n + 1])
    <3>1. 0 < n /\ n < n + 1
      BY <1>1, <1>4
    <3>2. QED
      BY <1>1, <1>2, <3>1, Zenon DEF Sums
  <2>4. QED
    BY <1>1, <1>2, <2>1, <2>2, <2>3, Zenon DEF Glue
<1>5. QED
  BY <1>3, <1>4

LEMMA FlattenType ==
  ASSUME NEW X, NEW s \in Seq(Seq(X))
  PROVE  FlattenSeq(s) \in Seq(X)
<1> DEFINE T == {t \in Seq(Seq(X)) : FlattenSeq(t) \in Seq(X)}
<1>1. <<>> \in T
  BY EmptySeq, FlattenEmpty
<1>2. ASSUME NEW t \in Seq(Seq(X)), NEW x \in Seq(X), t \in T PROVE Append(t, x) \in T
  BY <1>2, FlattenAppend, AppendProperties, ConcatProperties
<1>3. Seq(Seq(X)) \subseteq T
  <2> HIDE DEF T
  <2>1. QED
    BY <1>1, <1>2, SeqInd
<1>4. QED
  BY <1>3

(* One more sequence is flattened at the end.                              *)
LEMMA FlattenMore ==
  ASSUME NEW Y, NEW n \in Nat, NEW f \in [1..n -> Seq(Y)], NEW g \in [1..(n + 1) -> Seq(Y)],
         \A i \in 1..n : g[i] = f[i]
  PROVE  FlattenSeq(g) = FlattenSeq(f) \o g[n + 1]
<1> DEFINE e == g[n + 1]
<1>1. f \in Seq(Seq(Y)) /\ Len(f) = n /\ g \in Seq(Seq(Y)) /\ Len(g) = n + 1 /\ e \in Seq(Y)
  OBVIOUS
<1>2. Append(f, e) \in Seq(Seq(Y)) /\ Len(Append(f, e)) = n + 1
      /\ Append(f, e)[n + 1] = e /\ \A i \in 1..n : Append(f, e)[i] = f[i]
  BY <1>1, AppendProperties
<1>3. g = Append(f, e)
  <2>0. g[n + 1] = e
    OBVIOUS
  <2> HIDE DEF e
  <2>1. ASSUME NEW i \in 1..(n + 1) PROVE g[i] = Append(f, e)[i]
    <3>1. CASE i = n + 1
      BY <1>2, <2>0, <3>1
    <3>2. CASE i \in 1..n
      BY <1>2, <3>2
    <3>3. i = n + 1 \/ i \in 1..n
      OBVIOUS
    <3>4. QED
      BY <3>1, <3>2, <3>3
  <2>2. QED
    BY <1>1, <1>2, <2>1, SeqEqual
<1>4. QED
  BY <1>1, <1>3, FlattenAppend

-----------------------------------------------------------------------------
(* The characters and the texts of a masked value                          *)

Unit == [place : Nat, kind : Kinds \cup {"lead", "trail"}]
Texts == {"*", "***", "@", "***@", "-***-", "***-***-", "***-**-", "-", "****-",
          "****-****-", "****-****-****-", "********", " ", ", ***", ".*.*",
          "***.**", "-**", "/**/****", "****/**, ****", "****, ****"}
Lit == {[text |-> s] : s \in Texts}
Sign == Unit \cup Lit
Plain == {x \in Sign : IsUnit(x) => x.kind # "wide"}

LEMMA UnitFacts ==
  /\ \A x \in Unit : IsUnit(x) /\ x.place \in Nat
  /\ \A x \in Lit : ~IsUnit(x)
  /\ \A s \in Texts : [text |-> s] \in Lit
<1>1. \A x \in Unit : IsUnit(x) /\ x.place \in Nat
  BY DEF Unit, IsUnit
<1>2. \A x \in Lit : ~IsUnit(x)
  BY DEF Lit, IsUnit
<1>3. QED
  BY <1>1, <1>2 DEF Lit

LEMMA LitSigns == Lit \subseteq Sign /\ Unit \subseteq Sign
BY DEF Sign

LEMMA LitPlain == Lit \subseteq Plain
BY UnitFacts DEF Plain, Sign

LEMMA PlainSigns == Plain \subseteq Sign
BY DEF Plain

LEMMA BytesType ==
  ASSUME NEW x \in Sign
  PROVE  /\ Bytes(x) \in Seq(Plain)
         /\ x \in Plain => Bytes(x) = <<x>>
         /\ x \notin Plain => /\ IsUnit(x) /\ x.kind = "wide"
                              /\ \E a, b \in Plain : /\ Bytes(x) = <<a, b>> /\ IsUnit(a) /\ IsUnit(b)
                                                     /\ a.kind = "lead" /\ b.kind = "trail"
<1>1. CASE x \in Plain
  <2>1. Bytes(x) = <<x>>
    BY <1>1 DEF Plain, Bytes
  <2>2. QED
    BY <1>1, <2>1, ElementOfSeq
<1>2. CASE x \notin Plain
  <2> DEFINE a == [x EXCEPT !.kind = "lead"]
             b == [x EXCEPT !.kind = "trail"]
  <2>1. x \in Unit /\ IsUnit(x) /\ x.kind = "wide"
    BY <1>2, UnitFacts DEF Plain, Sign
  <2>2. a \in Unit /\ b \in Unit /\ a.kind = "lead" /\ b.kind = "trail"
    BY <2>1 DEF Unit
  <2>3. a \in Plain /\ b \in Plain /\ IsUnit(a) /\ IsUnit(b)
    BY <2>2, UnitFacts DEF Plain, Sign
  <2>4. Bytes(x) = <<a, b>>
    BY <2>1 DEF Bytes
  <2> HIDE DEF a, b
  <2>5. QED
    BY <1>2, <2>1, <2>2, <2>3, <2>4
<1>3. QED
  BY <1>1, <1>2

LEMMA BytesUnits ==
  ASSUME NEW x \in Unit
  PROVE  /\ Bytes(x) \in Seq(Unit) /\ Len(Bytes(x)) >= 1 /\ Bytes(x)[1] \in Unit
         /\ Bytes(x)[1].kind = IF x.kind = "wide" THEN "lead" ELSE x.kind
<1>1. CASE x.kind = "wide"
  <2> DEFINE a == [x EXCEPT !.kind = "lead"]
             b == [x EXCEPT !.kind = "trail"]
  <2>1. a \in Unit /\ b \in Unit /\ a.kind = "lead"
    BY DEF Unit
  <2>2. Bytes(x) = <<a, b>>
    BY <1>1, UnitFacts DEF Bytes
  <2> HIDE DEF a, b
  <2>3. QED
    BY <1>1, <2>1, <2>2
<1>2. CASE x.kind # "wide"
  <2>1. Bytes(x) = <<x>>
    BY <1>2 DEF Bytes
  <2>2. QED
    BY <1>2, <2>1
<1>3. QED
  BY <1>1, <1>2

-----------------------------------------------------------------------------
(* Encode                                                                  *)

LEMMA EncodeAppend ==
  ASSUME NEW s \in Seq(Sign), NEW x \in Sign
  PROVE  Encode(Append(s, x)) = Encode(s) \o Bytes(x)
<1> DEFINE f == [i \in DOMAIN s |-> Bytes(s[i])]
           g == [i \in DOMAIN Append(s, x) |-> Bytes(Append(s, x)[i])]
<1>1. /\ Len(s) \in Nat /\ DOMAIN s = 1..Len(s) /\ DOMAIN Append(s, x) = 1..(Len(s) + 1)
      /\ Append(s, x)[Len(s) + 1] = x /\ \A i \in 1..Len(s) : Append(s, x)[i] = s[i]
  BY LenProperties, AppendProperties
<1>2. Bytes(x) \in Seq(Plain) /\ \A i \in 1..Len(s) : f[i] \in Seq(Plain) /\ f[i] = Bytes(s[i])
  BY <1>1, BytesType, ElementOfSeq
<1>3. /\ f \in [1..Len(s) -> Seq(Plain)] /\ g \in [1..(Len(s) + 1) -> Seq(Plain)]
      /\ g[Len(s) + 1] = Bytes(x) /\ \A i \in 1..Len(s) : g[i] = f[i]
  BY <1>1, <1>2
<1> HIDE DEF f, g
<1>4. FlattenSeq(g) = FlattenSeq(f) \o Bytes(x)
  BY <1>1, <1>3, FlattenMore
<1>5. QED
  BY <1>4 DEF Encode, f, g

LEMMA EncodeEmpty == Encode(<<>>) = <<>>
<1>1. [i \in DOMAIN <<>> |-> Bytes(<<>>[i])] = <<>>
  OBVIOUS
<1>2. QED
  BY <1>1, FlattenEmpty DEF Encode

LEMMA EncodeType ==
  ASSUME NEW s \in Seq(Sign)
  PROVE  Encode(s) \in Seq(Plain)
<1> DEFINE T == {t \in Seq(Sign) : Encode(t) \in Seq(Plain)}
<1>1. <<>> \in T
  BY EmptySeq, EncodeEmpty
<1>2. ASSUME NEW t \in Seq(Sign), NEW x \in Sign, t \in T PROVE Append(t, x) \in T
  <2>1. Bytes(x) \in Seq(Plain)
    BY BytesType
  <2>2. QED
    BY <1>2, <2>1, EncodeAppend, AppendProperties, ConcatProperties
<1>3. Seq(Sign) \subseteq T
  <2> HIDE DEF T
  <2>1. QED
    BY <1>1, <1>2, SeqInd
<1>4. QED
  BY <1>3

(* What has no wide character is encoded as it is.                         *)
LEMMA EncodePlain ==
  ASSUME NEW s \in Seq(Plain)
  PROVE  Encode(s) = s
<1> DEFINE T == {t \in Seq(Plain) : Encode(t) = t}
<1>1. <<>> \in T
  BY EmptySeq, EncodeEmpty
<1>2. ASSUME NEW t \in Seq(Plain), NEW x \in Plain, t \in T PROVE Append(t, x) \in T
  <2>1. t \in Seq(Sign) /\ x \in Sign
    BY PlainSigns, SeqMonotonic
  <2>2. Bytes(x) = <<x>>
    BY <2>1, BytesType
  <2>3. Encode(Append(t, x)) = t \o <<x>>
    BY <1>2, <2>1, <2>2, EncodeAppend
  <2>4. QED
    BY <2>3, AppendIsConcat, AppendProperties
<1>3. Seq(Plain) \subseteq T
  <2> HIDE DEF T
  <2>1. QED
    BY <1>1, <1>2, SeqInd
<1>4. QED
  BY <1>3

LEMMA EncodeConcat ==
  ASSUME NEW s \in Seq(Sign), NEW t \in Seq(Sign)
  PROVE  Encode(s \o t) = Encode(s) \o Encode(t)
<1> DEFINE T == {u \in Seq(Sign) : Encode(s \o u) = Encode(s) \o Encode(u)}
<1>1. <<>> \in T
  <2>1. Encode(s) \in Seq(Plain)
    BY EncodeType
  <2>2. QED
    BY <2>1, EmptySeq, EncodeEmpty, ConcatEmptySeq
<1>2. ASSUME NEW u \in Seq(Sign), NEW x \in Sign, u \in T PROVE Append(u, x) \in T
  <2>1. s \o u \in Seq(Sign) /\ s \o Append(u, x) = Append(s \o u, x) /\ Append(u, x) \in Seq(Sign)
    BY ConcatAppend, ConcatProperties, AppendProperties
  <2>2. Encode(s) \in Seq(Plain) /\ Encode(u) \in Seq(Plain) /\ Bytes(x) \in Seq(Plain)
    BY EncodeType, BytesType
  <2>3. Encode(s \o Append(u, x)) = Encode(s \o u) \o Bytes(x)
    BY <2>1, EncodeAppend
  <2>4. (Encode(s) \o Encode(u)) \o Bytes(x) = Encode(s) \o (Encode(u) \o Bytes(x))
    <3> DEFINE p == Encode(s)
               q == Encode(u)
               b == Bytes(x)
    <3>1. p \in Seq(Plain) /\ q \in Seq(Plain) /\ b \in Seq(Plain)
      BY <2>2
    <3> HIDE DEF p, q, b
    <3>2. Glue(Glue(p, q), b) = Glue(p, Glue(q, b))
      BY <3>1, GlueAssociative
    <3>3. QED
      BY <3>2, Zenon DEF Glue, p, q, b
  <2>5. Encode(u) \o Bytes(x) = Encode(Append(u, x))
    BY EncodeAppend
  <2>6. QED
    BY <1>2, <2>1, <2>3, <2>4, <2>5
<1>3. Seq(Sign) \subseteq T
  <2> HIDE DEF T
  <2>1. QED
    BY <1>1, <1>2, SeqInd
<1>4. QED
  BY <1>3

LEMMA EncodeUnits ==
  ASSUME NEW s \in Seq(Unit)
  PROVE  Encode(s) \in Seq(Unit)
<1>1. Len(s) \in Nat /\ DOMAIN s = 1..Len(s)
  BY LenProperties
<1>2. \A i \in 1..Len(s) : Bytes(s[i]) \in Seq(Unit)
  BY BytesUnits, ElementOfSeq
<1>3. [i \in DOMAIN s |-> Bytes(s[i])] \in [1..Len(s) -> Seq(Unit)]
  BY <1>1, <1>2
<1>4. [i \in DOMAIN s |-> Bytes(s[i])] \in Seq(Seq(Unit))
  BY <1>1, <1>3
<1>5. QED
  BY <1>4, FlattenType DEF Encode

(* A text that is not empty starts, encoded, with the first of the bytes   *)
(* of its first character.                                                 *)
LEMMA EncodeFirst ==
  ASSUME NEW s \in Seq(Unit), s # <<>>
  PROVE  /\ Encode(s) # <<>> /\ s[1] \in Unit
         /\ Encode(s)[1].kind = IF s[1].kind = "wide" THEN "lead" ELSE s[1].kind
<1>1. 1 \in 1..Len(s) /\ s[1] \in Unit
  <2>1. Len(s) \in Nat /\ Len(s) # 0
    BY LenProperties, EmptySeq
  <2>2. 1 \in 1..Len(s)
    BY <2>1
  <2>3. QED
    BY <2>2, ElementOfSeq
<1> DEFINE x == s[1]
           t == After(s, 1)
<1>2. s = <<x>> \o t /\ t \in Seq(Unit)
  <2>1. Before(s, 1) \in Seq(Unit) /\ Len(Before(s, 1)) = 0 /\ t \in Seq(Unit)
    <3>1. PICK i \in 1..Len(s) : i = 1
      BY <1>1
    <3>2. /\ Before(s, i) \in Seq(Unit) /\ Len(Before(s, i)) = i - 1
          /\ After(s, i) \in Seq(Unit)
      BY CutFacts
    <3>3. i - 1 = 0
      BY <3>1
    <3>4. QED
      BY <3>1, <3>2, <3>3, Zenon
  <2>2. Before(s, 1) = <<>>
    BY <2>1, EmptySeq
  <2>3. s = (Before(s, 1) \o <<s[1]>>) \o After(s, 1)
    BY <1>1, Pieces3
  <2>4. <<>> \o <<s[1]>> = <<s[1]>>
    <3>1. <<s[1]>> \in Seq(Unit)
      BY <1>1
    <3>2. QED
      BY <3>1, ConcatEmptySeq
  <2>5. QED
    BY <2>1, <2>2, <2>3, <2>4
<1> HIDE DEF x, t
<1>3. x \in Unit
  BY <1>1 DEF x
<1>4. <<x>> \in Seq(Sign) /\ t \in Seq(Sign) /\ x \in Sign
  BY <1>2, <1>3, LitSigns, SeqMonotonic
<1>5. Encode(s) = Encode(<<x>>) \o Encode(t)
  BY <1>2, <1>4, EncodeConcat
<1>6. Encode(<<x>>) = Bytes(x)
  <2>1. <<>> \in Seq(Sign) /\ Append(<<>>, x) = <<x>>
    BY EmptySeq
  <2>2. Encode(<<x>>) = Encode(<<>>) \o Bytes(x)
    BY <1>4, <2>1, EncodeAppend
  <2>3. Bytes(x) \in Seq(Unit)
    BY <1>3, BytesUnits
  <2>4. QED
    BY <2>2, <2>3, EncodeEmpty, ConcatEmptySeq
<1> DEFINE b == Bytes(x)
           e == Encode(t)
           es == Encode(s)
<1>7. b \in Seq(Unit) /\ Len(b) >= 1 /\ b[1].kind = IF x.kind = "wide" THEN "lead" ELSE x.kind
  BY <1>3, BytesUnits
<1>8. e \in Seq(Unit) /\ es = b \o e
  BY <1>2, <1>5, <1>6, EncodeUnits
<1> HIDE DEF b, e, es
<1>9. /\ es \in Seq(Unit) /\ Len(es) = Len(b) + Len(e)
      /\ \A j \in 1..(Len(b) + Len(e)) : es[j] = IF j <= Len(b) THEN b[j] ELSE e[j - Len(b)]
  BY <1>7, <1>8, GluedAt
<1>10. Len(b) \in Nat /\ Len(e) \in Nat
  BY <1>7, <1>8, LenProperties
<1>11. 1 \in 1..(Len(b) + Len(e)) /\ 1 <= Len(b) /\ Len(es) # 0
  BY <1>7, <1>9, <1>10
<1>12. es[1] = b[1]
  BY <1>9, <1>11
<1>13. es # <<>>
  BY <1>11, EmptySeq
<1>14. QED
  BY <1>1, <1>7, <1>12, <1>13 DEF es, x

-----------------------------------------------------------------------------
(* Keep and Digits                                                         *)

LEMMA KeepAppend ==
  ASSUME NEW X, NEW s \in Seq(X), NEW x \in X, NEW S, NEW S2,
         \A i \in 1..Len(s) : i \in S <=> i \in S2
  PROVE  Keep(Append(s, x), S) = Keep(s, S2) \o (IF Len(s) + 1 \in S THEN <<x>> ELSE <<>>)
<1> DEFINE f == [i \in DOMAIN s |-> IF i \in S2 THEN <<s[i]>> ELSE <<>>]
           e == IF Len(s) + 1 \in S THEN <<x>> ELSE <<>>
           g == [i \in DOMAIN Append(s, x) |-> IF i \in S THEN <<Append(s, x)[i]>> ELSE <<>>]
<1>1. /\ Len(s) \in Nat /\ DOMAIN s = 1..Len(s) /\ DOMAIN Append(s, x) = 1..(Len(s) + 1)
      /\ Append(s, x)[Len(s) + 1] = x /\ \A i \in 1..Len(s) : Append(s, x)[i] = s[i]
  BY LenProperties, AppendProperties
<1>2. e \in Seq(X)
  BY EmptySeq
<1>3. \A i \in 1..Len(s) : f[i] \in Seq(X) /\ f[i] = IF i \in S2 THEN <<s[i]>> ELSE <<>>
  <2> SUFFICES ASSUME NEW i \in 1..Len(s)
               PROVE  f[i] \in Seq(X) /\ f[i] = IF i \in S2 THEN <<s[i]>> ELSE <<>>
    OBVIOUS
  <2>1. s[i] \in X
    BY ElementOfSeq
  <2>2. QED
    BY <1>1, <2>1, EmptySeq
<1>4. /\ f \in [1..Len(s) -> Seq(X)] /\ g \in [1..(Len(s) + 1) -> Seq(X)]
      /\ g[Len(s) + 1] = e /\ \A i \in 1..Len(s) : g[i] = f[i]
  <2>1. f \in [1..Len(s) -> Seq(X)]
    BY <1>1, <1>3
  <2>2. g[Len(s) + 1] = e
    BY <1>1
  <2>3. \A i \in 1..Len(s) : g[i] = f[i]
    BY <1>1, <1>3
  <2>4. g \in [1..(Len(s) + 1) -> Seq(X)]
    <3>1. \A i \in 1..(Len(s) + 1) : g[i] \in Seq(X)
      BY <1>1, <1>2, <1>3, <2>2, <2>3
    <3>2. g = [i \in 1..(Len(s) + 1) |-> g[i]]
      BY <1>1
    <3> HIDE DEF g
    <3>3. QED
      BY <3>1, <3>2
  <2>5. QED
    BY <2>1, <2>2, <2>3, <2>4
<1> HIDE DEF e, f, g
<1>5. FlattenSeq(g) = FlattenSeq(f) \o e
  BY <1>1, <1>4, FlattenMore
<1>6. QED
  BY <1>5 DEF Keep, e, f, g

LEMMA KeepEmpty ==
  ASSUME NEW S
  PROVE  Keep(<<>>, S) = <<>>
<1>1. [i \in DOMAIN <<>> |-> IF i \in S THEN << <<>>[i]>> ELSE <<>>] = <<>>
  OBVIOUS
<1>2. QED
  BY <1>1, FlattenEmpty DEF Keep

(* The elements kept are elements at the places asked for.                 *)
LEMMA KeepType ==
  ASSUME NEW X, NEW Y, NEW s \in Seq(X), NEW S,
         \A i \in 1..Len(s) : i \in S => s[i] \in Y
  PROVE  Keep(s, S) \in Seq(Y)
<1> DEFINE f == [i \in DOMAIN s |-> IF i \in S THEN <<s[i]>> ELSE <<>>]
<1>1. Len(s) \in Nat /\ DOMAIN s = 1..Len(s)
  BY LenProperties
<1>2. ASSUME NEW i \in 1..Len(s) PROVE (IF i \in S THEN <<s[i]>> ELSE <<>>) \in Seq(Y)
  BY EmptySeq
<1>3. f \in Seq(Seq(Y))
  <2>1. f \in [1..Len(s) -> Seq(Y)]
    BY <1>1, <1>2
  <2>2. QED
    BY <1>1, <2>1
<1>4. QED
  BY <1>3, FlattenType DEF Keep

LEMMA DigitsAppend ==
  ASSUME NEW X, NEW s \in Seq(X), NEW x \in X
  PROVE  Digits(Append(s, x)) = Digits(s) \o (IF x.kind = "digit" THEN <<x>> ELSE <<>>)
<1> DEFINE S == Places(Append(s, x), "digit")
           S2 == Places(s, "digit")
<1>1. /\ Len(s) \in Nat /\ DOMAIN s = 1..Len(s) /\ DOMAIN Append(s, x) = 1..(Len(s) + 1)
      /\ Append(s, x)[Len(s) + 1] = x /\ \A i \in 1..Len(s) : Append(s, x)[i] = s[i]
  BY LenProperties, AppendProperties
<1>2. \A i \in 1..Len(s) : i \in S <=> i \in S2
  BY <1>1 DEF Places
<1>3. Len(s) + 1 \in S <=> x.kind = "digit"
  BY <1>1 DEF Places
<1> HIDE DEF S, S2
<1>4. Keep(Append(s, x), S) = Keep(s, S2) \o (IF Len(s) + 1 \in S THEN <<x>> ELSE <<>>)
  BY <1>2, KeepAppend
<1>5. QED
  BY <1>3, <1>4 DEF Digits, S, S2

LEMMA DigitsEmpty == Digits(<<>>) = <<>>
BY KeepEmpty DEF Digits

LEMMA DigitsType ==
  ASSUME NEW X, NEW s \in Seq(X)
  PROVE  Digits(s) \in Seq({x \in X : x.kind = "digit"})
<1>1. \A i \in 1..Len(s) : i \in Places(s, "digit") => s[i] \in {x \in X : x.kind = "digit"}
  BY ElementOfSeq DEF Places
<1>2. QED
  BY <1>1, KeepType DEF Digits

LEMMA DigitsLen ==
  ASSUME NEW X, NEW s \in Seq(X)
  PROVE  Len(Digits(s)) <= Len(s)
<1> DEFINE T == {t \in Seq(X) : Len(Digits(t)) <= Len(t)}
<1>1. <<>> \in T
  BY EmptySeq, DigitsEmpty
<1>2. ASSUME NEW t \in Seq(X), NEW x \in X, t \in T PROVE Append(t, x) \in T
  <2> DEFINE e == IF x.kind = "digit" THEN <<x>> ELSE <<>>
  <2>1. Digits(t) \in Seq(X) /\ Len(Append(t, x)) = Len(t) + 1 /\ Append(t, x) \in Seq(X)
    <3>1. Digits(t) \in Seq({y \in X : y.kind = "digit"})
      BY DigitsType
    <3>2. QED
      BY <3>1, SeqMonotonic, AppendProperties
  <2>2. e \in Seq(X) /\ Len(e) \in 0..1
    BY EmptySeq
  <2>3. Digits(Append(t, x)) = Digits(t) \o e
    BY DigitsAppend
  <2> HIDE DEF e
  <2>4. Len(Glue(Digits(t), e)) = Len(Digits(t)) + Len(e)
    <3>1. Digits(t) \in Seq(X) /\ e \in Seq(X)
      BY <2>1, <2>2
    <3>2. QED
      BY <3>1, GlueFacts
  <2>5. Len(Digits(Append(t, x))) = Len(Digits(t)) + Len(e)
    BY <2>3, <2>4, Zenon DEF Glue
  <2>6. Len(Digits(t)) \in Nat /\ Len(t) \in Nat /\ Len(Digits(t)) <= Len(t)
    BY <1>2, <2>1, LenProperties
  <2>7. Len(Digits(Append(t, x))) <= Len(Append(t, x))
    <3> DEFINE a == Len(Digits(t))
               b == Len(t)
               c == Len(e)
    <3>1. a \in Nat /\ b \in Nat /\ a <= b /\ c \in 0..1
      BY <2>2, <2>6
    <3>2. Len(Digits(Append(t, x))) = a + c /\ Len(Append(t, x)) = b + 1
      BY <2>1, <2>5, Zenon
    <3> HIDE DEF a, b, c
    <3>3. a + c <= b + 1
      BY <3>1
    <3>4. QED
      BY <3>2, <3>3, Zenon
  <2>8. QED
    BY <2>1, <2>7
<1>3. Seq(X) \subseteq T
  <2> HIDE DEF T
  <2>1. QED
    BY <1>1, <1>2, SeqInd
<1>4. QED
  BY <1>3

LEMMA DigitsConcat ==
  ASSUME NEW X, NEW s \in Seq(X), NEW t \in Seq(X)
  PROVE  Digits(s \o t) = Digits(s) \o Digits(t)
<1> DEFINE T == {u \in Seq(X) : Digits(s \o u) = Digits(s) \o Digits(u)}
<1>0. \A u \in Seq(X) : Digits(u) \in Seq(X)
  <2> SUFFICES ASSUME NEW u \in Seq(X) PROVE Digits(u) \in Seq(X)
    OBVIOUS
  <2>1. Digits(u) \in Seq({y \in X : y.kind = "digit"})
    BY DigitsType
  <2>2. QED
    BY <2>1, SeqMonotonic
<1>1. <<>> \in T
  BY <1>0, EmptySeq, DigitsEmpty, ConcatEmptySeq
<1>2. ASSUME NEW u \in Seq(X), NEW x \in X, u \in T PROVE Append(u, x) \in T
  <2> DEFINE e == IF x.kind = "digit" THEN <<x>> ELSE <<>>
  <2>1. s \o u \in Seq(X) /\ s \o Append(u, x) = Append(s \o u, x) /\ Append(u, x) \in Seq(X)
    BY ConcatAppend, ConcatProperties, AppendProperties
  <2>2. e \in Seq(X)
    BY EmptySeq
  <2>3. Digits(Append(s \o u, x)) = Digits(s \o u) \o e /\ Digits(Append(u, x)) = Digits(u) \o e
    BY <2>1, DigitsAppend
  <2> HIDE DEF e
  <2>4. (Digits(s) \o Digits(u)) \o e = Digits(s) \o (Digits(u) \o e)
    <3> DEFINE p == Digits(s)
               q == Digits(u)
    <3>1. p \in Seq(X) /\ q \in Seq(X)
      BY <1>0
    <3> HIDE DEF p, q, T
    <3>2. Glue(Glue(p, q), e) = Glue(p, Glue(q, e))
      BY <2>2, <3>1, GlueAssociative
    <3>3. QED
      BY <3>2, Zenon DEF Glue, p, q
  <2>5. QED
    BY <1>2, <2>1, <2>3, <2>4
<1>3. Seq(X) \subseteq T
  <2> HIDE DEF T
  <2>1. QED
    BY <1>1, <1>2, SeqInd
<1>4. QED
  BY <1>3

(* The gateway finds the same digits as the backend.                       *)
LEMMA DigitsOfEncoded ==
  ASSUME NEW s \in Seq(Unit)
  PROVE  Digits(Encode(s)) = Digits(s)
<1> DEFINE T == {t \in Seq(Unit) : Digits(Encode(t)) = Digits(t)}
<1>1. <<>> \in T
  BY EmptySeq, DigitsEmpty, EncodeEmpty
<1>2. ASSUME NEW t \in Seq(Unit), NEW x \in Unit, t \in T PROVE Append(t, x) \in T
  <2>1. t \in Seq(Sign) /\ x \in Sign /\ Append(t, x) \in Seq(Unit)
    BY SeqMonotonic, AppendProperties DEF Sign
  <2>2. Encode(Append(t, x)) = Encode(t) \o Bytes(x) /\ Encode(t) \in Seq(Plain) /\ Bytes(x) \in Seq(Plain)
    BY <2>1, EncodeAppend, EncodeType, BytesType
  <2>3. Digits(Bytes(x)) = IF x.kind = "digit" THEN <<x>> ELSE <<>>
    <3>1. \A y \in Sign : Digits(<<y>>) = IF y.kind = "digit" THEN <<y>> ELSE <<>>
      <4> SUFFICES ASSUME NEW y \in Sign PROVE Digits(<<y>>) = IF y.kind = "digit" THEN <<y>> ELSE <<>>
        OBVIOUS
      <4>1. <<y>> = Append(<<>>, y) /\ <<>> \in Seq(Sign)
        BY EmptySeq
      <4> DEFINE e == IF y.kind = "digit" THEN <<y>> ELSE <<>>
      <4>2. Digits(<<y>>) = Digits(<<>>) \o e
        BY <4>1, DigitsAppend
      <4>3. e \in Seq(Sign)
        BY EmptySeq
      <4>4. QED
        BY <4>2, <4>3, DigitsEmpty, ConcatEmptySeq
    <3>2. CASE x \in Plain
      BY <2>1, <3>1, <3>2, BytesType
    <3>3. CASE x \notin Plain
      <4>1. PICK a, b \in Plain : Bytes(x) = <<a, b>> /\ a.kind = "lead" /\ b.kind = "trail"
        BY <2>1, <3>3, BytesType
      <4>2. a \in Sign /\ b \in Sign /\ x.kind = "wide"
        <5>1. x.kind = "wide"
          BY <2>1, <3>3, BytesType
        <5>2. QED
          BY <5>1, PlainSigns
      <4>3. <<a, b>> = Append(<<a>>, b) /\ <<a>> \in Seq(Sign)
        BY <4>2
      <4>4. Digits(<<a, b>>) = Digits(<<a>>) \o <<>>
        BY <4>1, <4>2, <4>3, DigitsAppend
      <4>5. Digits(<<a>>) = <<>>
        BY <3>1, <4>1, <4>2
      <4>6. QED
        BY <4>1, <4>2, <4>4, <4>5, EmptySeq, ConcatEmptySeq
    <3>4. QED
      BY <3>2, <3>3
  <2>4. Digits(Encode(t) \o Bytes(x)) = Digits(Encode(t)) \o Digits(Bytes(x))
    BY <2>2, DigitsConcat
  <2>5. Digits(Append(t, x)) = Digits(t) \o (IF x.kind = "digit" THEN <<x>> ELSE <<>>)
    BY DigitsAppend
  <2>6. QED
    BY <1>2, <2>1, <2>2, <2>3, <2>4, <2>5
<1>3. Seq(Unit) \subseteq T
  <2> HIDE DEF T
  <2>1. QED
    BY <1>1, <1>2, SeqInd
<1>4. QED
  BY <1>3

-----------------------------------------------------------------------------
(* The texts, the stars, the initials and the words                        *)

LEMMA TextType ==
  ASSUME NEW X, Lit \subseteq X, NEW s \in Texts
  PROVE  Text(s) \in Seq(X) /\ Len(Text(s)) = 1 /\ Text(s)[1] = [text |-> s]
<1> DEFINE x == [text |-> s]
<1>1. x \in X
  BY DEF Lit
<1> HIDE DEF x
<1>2. <<x>> \in Seq(X) /\ Len(<<x>>) = 1 /\ <<x>>[1] = x
  BY <1>1
<1>3. QED
  BY <1>2 DEF Text, x

(* The provers' SMT solver takes no string with a space: these texts have a *)
(* name that hides it.                                                      *)
Blank == Text(" ")
LastPart == Text(", ***")
AnyDate == Text("****/**, ****")
AnyPlace == Text("****, ****")

LEMMA Written ==
  ASSUME NEW X, Lit \subseteq X
  PROVE  /\ Text("*") \in Seq(X) /\ Text("***") \in Seq(X) /\ Text("@") \in Seq(X)
         /\ Text("***@") \in Seq(X) /\ Text("-***-") \in Seq(X)
         /\ Text("***-***-") \in Seq(X) /\ Text("***-**-") \in Seq(X)
         /\ Text("-") \in Seq(X) /\ Text("****-") \in Seq(X)
         /\ Text("****-****-") \in Seq(X) /\ Text("****-****-****-") \in Seq(X)
         /\ Text("********") \in Seq(X) /\ Text(".*.*") \in Seq(X)
         /\ Text("***.**") \in Seq(X) /\ Text("-**") \in Seq(X)
         /\ Text("/**/****") \in Seq(X) /\ Blank \in Seq(X) /\ LastPart \in Seq(X)
         /\ AnyDate \in Seq(X) /\ AnyPlace \in Seq(X)
<1>1. \A s \in Texts : Text(s) \in Seq(X)
  BY TextType
<1>2. QED
  BY <1>1, Zenon DEF Texts, Blank, LastPart, AnyDate, AnyPlace

LEMMA StarsType ==
  ASSUME NEW X, Lit \subseteq X, NEW n \in Int
  PROVE  Stars(n) \in Seq(X)
<1>1. [text |-> "*"] \in X
  <2>1. "*" \in Texts
    BY Zenon DEF Texts
  <2>2. QED
    BY <2>1 DEF Lit
<1>2. CASE n \in Nat
  BY <1>1, <1>2 DEF Stars
<1>3. CASE n < 0
  <2>1. Stars(n) = <<>>
    BY <1>3 DEF Stars
  <2>2. QED
    BY <2>1, EmptySeq
<1>4. QED
  BY <1>2, <1>3

LEMMA StarredType ==
  ASSUME NEW X, Lit \subseteq X, NEW s \in Seq(X)
  PROVE  Starred(s) \in Seq(X)
<1> DEFINE f == [i \in DOMAIN s |-> IF s[i].kind = "digit" THEN Text("*") ELSE <<s[i]>>]
<1>1. Len(s) \in Nat /\ DOMAIN s = 1..Len(s)
  BY LenProperties
<1>2. ASSUME NEW i \in 1..Len(s)
      PROVE  (IF s[i].kind = "digit" THEN Text("*") ELSE <<s[i]>>) \in Seq(X)
  <2>1. Text("*") \in Seq(X) /\ s[i] \in X
    BY Written, ElementOfSeq
  <2>2. QED
    BY <2>1
<1>3. f \in Seq(Seq(X))
  <2>1. f \in [1..Len(s) -> Seq(X)]
    BY <1>1, <1>2
  <2>2. QED
    BY <1>1, <2>1
<1>4. QED
  BY <1>3, FlattenType DEF Starred

(* The first characters of the words of a value are characters of it.      *)
LEMMA InitialsType ==
  ASSUME NEW X, NEW s \in Seq(X)
  PROVE  /\ Initials(s) \in Seq({x \in X : \E i \in DOMAIN s : s[i] = x /\ x.kind # "space"})
         /\ Initials(s) \in Seq(X)
<1> DEFINE Y == {x \in X : \E i \in DOMAIN s : s[i] = x /\ x.kind # "space"}
           S == {i \in DOMAIN s : s[i].kind # "space" /\ (i > 1 => s[i - 1].kind = "space")}
<1>1. \A i \in 1..Len(s) : i \in S => s[i] \in Y
  BY LenProperties, ElementOfSeq
<1>2. Keep(s, S) \in Seq(Y)
  <2> HIDE DEF Y, S
  <2>1. QED
    BY <1>1, KeepType
<1>3. Y \subseteq X
  OBVIOUS
<1>4. Keep(s, S) \in Seq(X)
  <2> HIDE DEF Y, S
  <2>1. QED
    BY <1>2, <1>3, SeqMonotonic
<1>5. QED
  BY <1>2, <1>4 DEF Initials

(* A word of a value is a piece of it that starts with the first letter.   *)
LEMMA WordType ==
  ASSUME NEW X, NEW s \in Seq(X), NEW x \in X, \E i \in DOMAIN s : s[i] = x
  PROVE  /\ Word(s, x) \in Seq(X)
         /\ x.kind # "space" => Len(Word(s, x)) > 0 /\ Word(s, x)[1] = x
<1> DEFINE i == CHOOSE j \in DOMAIN s : s[j] = x
           ends == {j \in DOMAIN s : j > i /\ s[j].kind = "space"}
<1>1. Len(s) \in Nat /\ DOMAIN s = 1..Len(s) /\ i \in 1..Len(s) /\ s[i] = x
  BY LenProperties
<1> DEFINE last == IF ends = {} THEN Len(s) ELSE Lowest(ends) - 1
<1>2. last \in i..Len(s)
  <2>1. CASE ends = {}
    BY <1>1, <2>1
  <2>2. CASE ends # {}
    <3>1. ends \in SUBSET Nat
      BY <1>1
    <3>2. Lowest(ends) \in ends
      <4> HIDE DEF ends
      <4>1. QED
        BY <2>2, <3>1, LowestFacts
    <3>3. QED
      BY <1>1, <2>2, <3>2
  <2>3. QED
    BY <2>1, <2>2
<1>3. Word(s, x) = SubSeq(s, i, last)
  BY Zenon DEF Word
<1> HIDE DEF i, last
<1>4. \A j \in i..last : s[j] \in X
  BY <1>1, <1>2, ElementOfSeq
<1>5. /\ SubSeq(s, i, last) \in Seq(X) /\ Len(SubSeq(s, i, last)) = last - i + 1
      /\ \A j \in 1..(last - i + 1) : SubSeq(s, i, last)[j] = s[i + j - 1]
  <2>1. i \in Int /\ last \in Int /\ i <= last
    BY <1>1, <1>2
  <2>2. QED
    BY <1>4, <2>1, SubSeqProperties
<1>6. SubSeq(s, i, last)[1] = x
  <2>1. 1 \in 1..(last - i + 1) /\ i + 1 - 1 = i
    BY <1>1, <1>2
  <2>2. SubSeq(s, i, last)[1] = s[i + 1 - 1]
    BY <1>5, <2>1
  <2>3. QED
    BY <1>1, <2>1, <2>2
<1>7. QED
  BY <1>1, <1>2, <1>3, <1>5, <1>6

LEMMA JoinType ==
  ASSUME NEW X, NEW parts \in Seq(Seq(X)), NEW sep \in Seq(X)
  PROVE  Join(parts, sep) \in Seq(X)
<1> DEFINE f == [i \in DOMAIN parts |-> IF i = 1 THEN parts[i] ELSE sep \o parts[i]]
<1>1. Len(parts) \in Nat /\ DOMAIN parts = 1..Len(parts)
  BY LenProperties
<1>2. ASSUME NEW i \in 1..Len(parts)
      PROVE  (IF i = 1 THEN parts[i] ELSE sep \o parts[i]) \in Seq(X)
  <2>1. parts[i] \in Seq(X)
    BY ElementOfSeq
  <2>2. QED
    BY <2>1, ConcatProperties
<1>3. f \in Seq(Seq(X))
  <2>1. f \in [1..Len(parts) -> Seq(X)]
    BY <1>1, <1>2
  <2>2. QED
    BY <1>1, <2>1
<1>4. QED
  BY <1>3, FlattenType DEF Join

-----------------------------------------------------------------------------
(* What a masked value is made of: the characters of the value and texts   *)

LEMMA PlacesFacts ==
  ASSUME NEW X, NEW s \in Seq(X), NEW k
  PROVE  /\ Places(s, k) \in SUBSET (1..Len(s)) /\ Places(s, k) \in SUBSET Nat
         /\ Places(s, k) # {} => /\ Lowest(Places(s, k)) \in 1..Len(s)
                                 /\ Lowest(Places(s, k)) \in Places(s, k)
                                 /\ Highest(Places(s, k)) \in 1..Len(s)
                                 /\ Highest(Places(s, k)) \in Places(s, k)
<1>1. Len(s) \in Nat /\ DOMAIN s = 1..Len(s)
  BY LenProperties
<1>2. Places(s, k) \in SUBSET (1..Len(s)) /\ Places(s, k) \in SUBSET Nat
  BY <1>1 DEF Places
<1>3. QED
  BY <1>1, <1>2, LowestFacts, HighestFacts

LEMMA PiecesType ==
  ASSUME NEW X, NEW v \in Seq(X)
  PROVE  /\ Digits(v) \in Seq(X) /\ Last4(Digits(v)) \in Seq(X) /\ Last4(v) \in Seq(X)
         /\ Initials(v) \in Seq(X) /\ Len(Digits(v)) \in Nat /\ Len(v) \in Nat
<1>1. Digits(v) \in Seq({x \in X : x.kind = "digit"})
  BY DigitsType
<1>2. Digits(v) \in Seq(X)
  BY <1>1, SeqMonotonic
<1>3. QED
  BY <1>2, PieceTypes, InitialsType, LenProperties

LEMMA NameParts ==
  ASSUME NEW X, NEW v \in Seq(X)
  PROVE  /\ Len(Initials(v)) \in Nat
         /\ \A i \in 1..Len(Initials(v)) :
              /\ Initials(v)[i] \in X /\ Word(v, Initials(v)[i]) \in Seq(X)
              /\ Len(Word(v, Initials(v)[i])) > 0
              /\ Word(v, Initials(v)[i])[1] = Initials(v)[i]
<1> DEFINE Y == {x \in X : \E i \in DOMAIN v : v[i] = x /\ x.kind # "space"}
           p == Initials(v)
<1>1. p \in Seq(Y)
  BY InitialsType
<1>2. ASSUME NEW i \in 1..Len(p)
      PROVE  /\ p[i] \in X /\ Word(v, p[i]) \in Seq(X)
             /\ Len(Word(v, p[i])) > 0 /\ Word(v, p[i])[1] = p[i]
  <2>1. p[i] \in Y
    BY <1>1, ElementOfSeq
  <2> HIDE DEF p
  <2>2. p[i] \in X /\ (\E j \in DOMAIN v : v[j] = p[i]) /\ p[i].kind # "space"
    BY <2>1
  <2>3. QED
    BY <2>2, WordType
<1>3. Len(p) \in Nat
  <2> HIDE DEF p, Y
  <2>1. QED
    BY <1>1, LenProperties
<1>4. QED
  BY <1>2, <1>3

LEMMA AtLeast2 == \A n \in Nat : n >= 2 => n # 1
OBVIOUS
LEMMA Below2 == \A n \in Nat : n >= 2 \/ n = 1 \/ n = 0
OBVIOUS

LEMMA Concat4 ==
  ASSUME NEW X, NEW a \in Seq(X), NEW b \in Seq(X), NEW c \in Seq(X), NEW d \in Seq(X)
  PROVE  a \o b \o c \in Seq(X) /\ a \o b \o c \o d \in Seq(X)
BY ConcatProperties

LEMMA PartialNameIs ==
  ASSUME NEW X, NEW v \in Seq(X)
  PROVE  /\ Len(Initials(v)) >= 2 =>
              PartialName(v) = Word(v, Initials(v)[1]) \o Blank
                               \o <<Last(Initials(v))>> \o Text("***")
         /\ Len(Initials(v)) = 1 => PartialName(v) = Word(v, Initials(v)[1])
         /\ Len(Initials(v)) = 0 => PartialName(v) = v
<1> DEFINE p == Initials(v)
<1>0. p \in Seq(X)
  BY InitialsType
<1>1. CASE Len(p) >= 2
  <2>0. Len(p) # 0
    BY <1>0, <1>1
  <2>1. Len(p) # 1
    <3>1. Len(p) \in Nat
      BY <1>0, LenProperties
    <3>2. QED
      BY <1>1, <3>1, AtLeast2, Zenon
  <2>2. QED
    BY <1>1, <2>0, <2>1, Zenon DEF PartialName, Blank
<1>2. CASE Len(p) = 1
  <2>1. ~(Len(p) >= 2) /\ Len(p) # 0
    BY <1>0, <1>2
  <2>2. QED
    BY <1>2, <2>1, Zenon DEF PartialName
<1>3. CASE Len(p) = 0
  <2>1. ~(Len(p) >= 2) /\ Len(p) # 1
    BY <1>0, <1>3
  <2>2. QED
    BY <1>3, <2>1, Zenon DEF PartialName
<1>4. QED
  BY <1>0, <1>1, <1>2, <1>3

LEMMA PartialNameType ==
  ASSUME NEW X, Lit \subseteq X, NEW v \in Seq(X)
  PROVE  PartialName(v) \in Seq(X)
<1> DEFINE p == Initials(v)
<1>0. p \in Seq(X)
  BY PiecesType
<1>1. Len(p) \in Nat
  BY NameParts
<1>2. CASE Len(p) >= 2
  <2>1. Word(v, p[1]) \in Seq(X)
    BY <1>1, <1>2, NameParts
  <2>2. <<Last(p)>> \in Seq(X)
    <3>1. p[Len(p)] \in X
      BY <1>1, <1>2, NameParts
    <3>2. QED
      BY <3>1 DEF Last
  <2>3. PartialName(v) = Word(v, p[1]) \o Blank \o <<Last(p)>> \o Text("***")
    BY <1>2, PartialNameIs, Zenon
  <2>4. Blank \in Seq(X) /\ Text("***") \in Seq(X)
    BY Written
  <2>5. QED
    <3> DEFINE w == Word(v, p[1])
               l == <<Last(p)>>
    <3>1. w \in Seq(X) /\ l \in Seq(X)
      BY <2>1, <2>2
    <3> HIDE DEF w, l
    <3>2. w \o Blank \o l \o Text("***") \in Seq(X)
      BY <2>4, <3>1, Concat4
    <3>3. QED
      BY <2>3, <3>2 DEF w, l
<1>3. CASE Len(p) = 1
  <2>1. Word(v, p[1]) \in Seq(X)
    BY <1>1, <1>3, NameParts
  <2>2. PartialName(v) = Word(v, p[1])
    BY <1>3, PartialNameIs, Zenon
  <2>3. QED
    BY <2>1, <2>2
<1>4. CASE Len(p) = 0
  <2>1. PartialName(v) = v
    BY <1>4, PartialNameIs, Zenon
  <2>2. QED
    BY <2>1
<1>5. QED
  BY <1>1, <1>2, <1>3, <1>4, Below2, Zenon

LEMMA PartialMaskType ==
  ASSUME NEW X, Lit \subseteq X, NEW v \in Seq(X)
  PROVE  /\ PartialEmail(v) \in Seq(X) /\ PartialPhone(v) \in Seq(X)
         /\ PartialSsn(v) \in Seq(X) /\ PartialCard(v) \in Seq(X)
<1> DEFINE d == Digits(v)
<1>1. d \in Seq(X) /\ Last4(d) \in Seq(X) /\ Last4(v) \in Seq(X) /\ Len(d) \in Nat /\ Len(v) \in Nat
  BY PiecesType
<1>2. PartialEmail(v) \in Seq(X)
  <2>1. CASE Places(v, "at") = {}
    BY <2>1, PieceTypes, Written, ConcatProperties DEF PartialEmail
  <2>2. CASE Places(v, "at") # {}
    <3> DEFINE at == Lowest(Places(v, "at"))
               local == Before(v, at)
    <3>1. at \in 1..Len(v)
      BY <2>2, PlacesFacts
    <3> HIDE DEF at
    <3>2. local \in Seq(X) /\ After(v, at) \in Seq(X) /\ Len(local) \in Nat
      BY <3>1, PieceTypes, LenProperties
    <3> HIDE DEF local
    <3>3. Upto(local, 2) \in Seq(X) /\ Stars(Len(local) - 2) \in Seq(X) /\ Text("@") \in Seq(X)
      <4>1. Len(local) - 2 \in Int
        BY <3>2
      <4>2. Stars(Len(local) - 2) \in Seq(X)
        BY <4>1, StarsType
      <4>3. QED
        BY <3>2, <4>2, PieceTypes, Written
    <3>4. PartialEmail(v) = Upto(local, 2) \o Stars(Len(local) - 2) \o Text("@") \o After(v, at)
      BY <2>2 DEF PartialEmail, at, local
    <3>5. QED
      BY <3>2, <3>3, <3>4, ConcatProperties
  <2>3. QED
    BY <2>1, <2>2
<1>3. PartialPhone(v) \in Seq(X)
  BY <1>1, PieceTypes, Written, ConcatProperties DEF PartialPhone
<1>4. PartialSsn(v) \in Seq(X)
  BY <1>1, Written, ConcatProperties DEF PartialSsn
<1>5. PartialCard(v) \in Seq(X)
  <2>1. Len(d) >= 8 => SubSeq(d, Len(d) - 7, Len(d) - 4) \in Seq(X)
    <3>1. Len(d) >= 8 => Len(d) - 7 >= 1 /\ Len(d) - 4 <= Len(d) /\ Len(d) - 7 \in Int /\ Len(d) - 4 \in Int
      BY <1>1
    <3>2. QED
      BY <1>1, <3>1, SubSeqType
  <2>2. QED
    BY <1>1, <2>1, Written, ConcatProperties DEF PartialCard
<1>6. QED
  BY <1>2, <1>3, <1>4, <1>5

DateKinds == {"digit", "dash", "slash"}
Iso == Ds(4) \o <<"dash">> \o Ds(2) \o <<"dash">> \o Ds(2)
Us(m, d) == Ds(m) \o <<"slash">> \o Ds(d) \o <<"slash">> \o Ds(4)

LEMMA DateShapes ==
  /\ Iso \in Seq(DateKinds) /\ Len(Iso) = 10
  /\ \A m, d \in 1..2 : Us(m, d) \in Seq(DateKinds) /\ Len(Us(m, d)) >= m
<1>1. \A n \in Nat : Ds(n) \in Seq(DateKinds) /\ Len(Ds(n)) = n
  BY DEF Ds, DateKinds
<1>2. /\ <<"dash">> \in Seq(DateKinds) /\ Len(<<"dash">>) = 1
      /\ <<"slash">> \in Seq(DateKinds) /\ Len(<<"slash">>) = 1
  BY DEF DateKinds
<1>3. ASSUME NEW a \in Seq(DateKinds), NEW b \in Seq(DateKinds), NEW c \in Seq(DateKinds),
             NEW d \in Seq(DateKinds), NEW e \in Seq(DateKinds)
      PROVE  /\ a \o b \o c \o d \o e \in Seq(DateKinds)
             /\ Len(a \o b \o c \o d \o e) = Len(a) + Len(b) + Len(c) + Len(d) + Len(e)
  <2>1. a \o b \in Seq(DateKinds) /\ Len(a \o b) = Len(a) + Len(b)
    BY ConcatProperties
  <2>2. a \o b \o c \in Seq(DateKinds) /\ Len(a \o b \o c) = Len(a) + Len(b) + Len(c)
    BY <2>1, ConcatProperties
  <2>3. /\ a \o b \o c \o d \in Seq(DateKinds)
        /\ Len(a \o b \o c \o d) = Len(a) + Len(b) + Len(c) + Len(d)
    BY <2>2, ConcatProperties
  <2>4. QED
    BY <2>3, ConcatProperties
<1>4. Iso \in Seq(DateKinds) /\ Len(Iso) = Len(Ds(4)) + Len(<<"dash">>) + Len(Ds(2)) + Len(<<"dash">>) + Len(Ds(2))
  <2>1. Ds(4) \in Seq(DateKinds) /\ Ds(2) \in Seq(DateKinds)
    BY <1>1
  <2> DEFINE d4 == Ds(4)
             d2 == Ds(2)
             sep == <<"dash">>
  <2>2. sep \in Seq(DateKinds) /\ d4 \in Seq(DateKinds) /\ d2 \in Seq(DateKinds)
    BY <1>2, <2>1
  <2> HIDE DEF d4, d2, sep
  <2>3. /\ d4 \o sep \o d2 \o sep \o d2 \in Seq(DateKinds)
        /\ Len(d4 \o sep \o d2 \o sep \o d2) = Len(d4) + Len(sep) + Len(d2) + Len(sep) + Len(d2)
    BY <1>3, <2>1, <2>2
  <2>4. QED
    BY <2>3, Zenon DEF Iso, d4, d2, sep
<1>5. Len(Ds(4)) = 4 /\ Len(Ds(2)) = 2
  BY <1>1
<1>6. ASSUME NEW m \in 1..2, NEW d \in 1..2 PROVE Us(m, d) \in Seq(DateKinds) /\ Len(Us(m, d)) >= m
  <2>1. Ds(m) \in Seq(DateKinds) /\ Ds(d) \in Seq(DateKinds) /\ Ds(4) \in Seq(DateKinds)
    BY <1>1
  <2> DEFINE a == Ds(m)
             b == Ds(d)
             c == Ds(4)
             sep == <<"slash">>
  <2>2. sep \in Seq(DateKinds) /\ a \in Seq(DateKinds) /\ b \in Seq(DateKinds) /\ c \in Seq(DateKinds)
    BY <1>2, <2>1
  <2> HIDE DEF a, b, c, sep
  <2>3. /\ a \o sep \o b \o sep \o c \in Seq(DateKinds)
        /\ Len(a \o sep \o b \o sep \o c) = Len(a) + Len(sep) + Len(b) + Len(sep) + Len(c)
    BY <1>3, <2>2
  <2>4. Len(a) = m /\ Len(sep) \in Nat /\ Len(b) \in Nat /\ Len(c) \in Nat
    <3>1. Len(a) = m
      BY <1>1 DEF a
    <3>2. QED
      BY <2>2, <3>1, LenProperties
  <2>5. Len(a \o sep \o b \o sep \o c) >= m
    BY <2>3, <2>4
  <2>6. QED
    BY <2>3, <2>5, Zenon DEF Us, a, b, c, sep
<1>7. Len(Iso) = 10
  <2>1. Len(Iso) = 4 + 1 + 2 + 1 + 2
    BY <1>2, <1>4, <1>5, Zenon
  <2>2. QED
    BY <2>1
<1>8. QED
  BY <1>4, <1>6, <1>7

UsMonths(v) == {a \in 1..2 : \E b \in 1..2 : StartsWith(v, Us(a, b))}

LEMMA MaskDobIs ==
  ASSUME NEW v
  PROVE  /\ MaskDob(v) = IF StartsWith(v, Iso)
                           THEN Text("****-") \o SubSeq(v, 6, 7) \o Text("-**")
                         ELSE IF UsMonths(v) # {} THEN Upto(v, Lowest(UsMonths(v))) \o Text("/**/****")
                         ELSE AnyDate
         /\ maskDOB(v) = MaskDob(v)
<1> DEFINE a == Text("****-") \o SubSeq(v, 6, 7) \o Text("-**")
           b == Upto(v, Lowest(UsMonths(v))) \o Text("/**/****")
           e == IF StartsWith(v, Iso) THEN a ELSE IF UsMonths(v) # {} THEN b ELSE AnyDate
<1>1. MaskDob(v) = e
  BY Zenon DEF MaskDob, Iso, Us, UsMonths, AnyDate
<1>2. IsoDate(v) <=> StartsWith(v, Iso)
  BY Zenon DEF IsoDate, Iso
<1>3. UsDates(v) = UsMonths(v)
  BY Zenon DEF UsDates, UsMonths, Us
<1>4. maskDOB(v) = e
  <2>1. StartsWith(v, Iso) => maskDOB(v) = a
    BY <1>2, Zenon DEF maskDOB
  <2>2. ~StartsWith(v, Iso) /\ UsMonths(v) # {} => maskDOB(v) = b
    BY <1>2, <1>3, Zenon DEF maskDOB
  <2>3. ~StartsWith(v, Iso) /\ UsMonths(v) = {} => maskDOB(v) = AnyDate
    BY <1>2, <1>3, Zenon DEF maskDOB, AnyDate
  <2> HIDE DEF a, b
  <2>4. QED
    BY <2>1, <2>2, <2>3
<1>5. maskDOB(v) = MaskDob(v)
  <2> HIDE DEF e
  <2>1. QED
    BY <1>1, <1>4
<1>6. QED
  BY <1>1, <1>5, Zenon

LEMMA DobType ==
  ASSUME NEW X, Lit \subseteq X, NEW v \in Seq(X)
  PROVE  MaskDob(v) \in Seq(X)
<1>1. CASE StartsWith(v, Iso)
  <2>1. Len(v) >= 10
    BY <1>1, DateShapes DEF StartsWith
  <2>2. SubSeq(v, 6, 7) \in Seq(X)
    BY <2>1, SubSeqType
  <2>3. MaskDob(v) = Text("****-") \o SubSeq(v, 6, 7) \o Text("-**")
    BY <1>1, MaskDobIs, Zenon
  <2>4. QED
    BY <2>2, <2>3, Written, ConcatProperties
<1>2. CASE ~StartsWith(v, Iso) /\ UsMonths(v) # {}
  <2>1. Lowest(UsMonths(v)) \in Nat
    <3>1. UsMonths(v) \in SUBSET Nat
      BY DEF UsMonths
    <3>2. QED
      BY <1>2, <3>1, LowestFacts
  <2>2. Upto(v, Lowest(UsMonths(v))) \in Seq(X)
    BY <2>1, PieceTypes
  <2>3. MaskDob(v) = Upto(v, Lowest(UsMonths(v))) \o Text("/**/****")
    BY <1>2, MaskDobIs, Zenon
  <2>4. QED
    BY <2>2, <2>3, Written, ConcatProperties
<1>3. CASE ~StartsWith(v, Iso) /\ UsMonths(v) = {}
  <2>1. MaskDob(v) = AnyDate
    BY <1>3, MaskDobIs, Zenon
  <2>2. QED
    BY <2>1, Written
<1>4. QED
  BY <1>1, <1>2, <1>3

LEMMA NameType ==
  ASSUME NEW X, Lit \subseteq X, NEW v \in Seq(X)
  PROVE  /\ MaskName(v) \in Seq(X)
         /\ Initials(v) # <<>> =>
              MaskName(v) = Join([i \in DOMAIN Initials(v) |-> <<Initials(v)[i]>> \o Text("***")], Blank)
         /\ Initials(v) = <<>> => MaskName(v) = Text("********")
<1> DEFINE p == Initials(v)
           f == [i \in DOMAIN p |-> <<p[i]>> \o Text("***")]
<1>1. p \in Seq(X)
  BY PiecesType
<1>2. f \in Seq(Seq(X))
  <2>1. Text("***") \in Seq(X)
    BY Written
  <2>2. Len(p) \in Nat /\ DOMAIN p = 1..Len(p)
    BY <1>1, LenProperties
  <2>3. ASSUME NEW i \in 1..Len(p) PROVE <<p[i]>> \o Text("***") \in Seq(X)
    <3>1. p[i] \in X
      BY <1>1, ElementOfSeq
    <3>2. <<p[i]>> \in Seq(X)
      BY <3>1
    <3>3. QED
      BY <2>1, <3>2, ConcatProperties
  <2> HIDE DEF p
  <2>4. f \in [1..Len(p) -> Seq(X)]
    BY <2>2, <2>3
  <2>5. QED
    BY <2>2, <2>4
<1>3. p # <<>> => MaskName(v) = Join(f, Blank)
  BY Zenon DEF MaskName, Blank
<1>4. p = <<>> => MaskName(v) = Text("********")
  BY Zenon DEF MaskName
<1> HIDE DEF f
<1>5. Join(f, Blank) \in Seq(X)
  BY <1>2, Written, JoinType
<1>6. MaskName(v) \in Seq(X)
  BY <1>3, <1>4, <1>5, Written
<1>7. QED
  BY <1>3, <1>4, <1>6 DEF f

(* An address is its leading digits and the rest of it.                    *)
LeadDigits(v) == {i \in DOMAIN v : \A j \in 1..i : v[j].kind = "digit"}
RestOf(v) == IF LeadDigits(v) = {} THEN v ELSE After(v, Highest(LeadDigits(v)))
CutComma(s) == IF Places(s, "comma") = {} THEN s
               ELSE Before(s, Highest(Places(s, "comma"))) \o LastPart

LEMMA MaskAddressIs ==
  ASSUME NEW v
  PROVE  MaskAddress(v) = (IF LeadDigits(v) = {} THEN <<>> ELSE Text("***")) \o CutComma(RestOf(v))
BY Zenon DEF MaskAddress, LeadDigits, RestOf, CutComma, LastPart

LEMMA CutCommaType ==
  ASSUME NEW X, Lit \subseteq X, NEW s \in Seq(X)
  PROVE  CutComma(s) \in Seq(X)
<1>1. CASE Places(s, "comma") = {}
  BY <1>1 DEF CutComma
<1>2. CASE Places(s, "comma") # {}
  <2>1. Before(s, Highest(Places(s, "comma"))) \in Seq(X)
    BY <1>2, PlacesFacts, PieceTypes
  <2>2. QED
    BY <1>2, <2>1, Written, ConcatProperties DEF CutComma
<1>3. QED
  BY <1>1, <1>2

LEMMA LeadDigitsFacts ==
  ASSUME NEW X, NEW v \in Seq(X)
  PROVE  /\ LeadDigits(v) \in SUBSET (1..Len(v))
         /\ LeadDigits(v) # {} => Highest(LeadDigits(v)) \in LeadDigits(v)
         /\ RestOf(v) \in Seq(X)
<1>1. Len(v) \in Nat /\ DOMAIN v = 1..Len(v)
  BY LenProperties
<1>2. LeadDigits(v) \in SUBSET (1..Len(v))
  BY <1>1 DEF LeadDigits
<1>3. LeadDigits(v) # {} => Highest(LeadDigits(v)) \in LeadDigits(v)
  BY <1>1, <1>2, HighestFacts
<1>4. RestOf(v) \in Seq(X)
  BY <1>2, <1>3, PieceTypes DEF RestOf
<1>5. QED
  BY <1>2, <1>3, <1>4

LEMMA AddressType ==
  ASSUME NEW X, Lit \subseteq X, NEW v \in Seq(X)
  PROVE  MaskAddress(v) \in Seq(X)
<1> DEFINE p == IF LeadDigits(v) = {} THEN <<>> ELSE Text("***")
<1>1. p \in Seq(X)
  BY Written, EmptySeq
<1>2. CutComma(RestOf(v)) \in Seq(X)
  BY LeadDigitsFacts, CutCommaType
<1>3. MaskAddress(v) = p \o CutComma(RestOf(v))
  BY MaskAddressIs, Zenon
<1> HIDE DEF p
<1>4. QED
  BY <1>1, <1>2, <1>3, ConcatProperties

(* Three dots are more than one.                                           *)
LEMMA SecondDot ==
  ASSUME NEW X, NEW v \in Seq(X), Cardinality(Places(v, "dot")) = 3
  PROVE  Lowest(Places(v, "dot") \ {Lowest(Places(v, "dot"))}) \in 1..Len(v)
<1> DEFINE D == Places(v, "dot")
           d == Lowest(D)
<1>1. D \in SUBSET (1..Len(v)) /\ D \in SUBSET Nat
  BY PlacesFacts
<1> HIDE DEF D, d
<1>2. D \ {d} # {}
  <2>1. SUFFICES ASSUME D \subseteq {d} PROVE FALSE
    OBVIOUS
  <2>2. D = {} \/ D = {d}
    BY <2>1
  <2>3. Cardinality(D) = 0 \/ Cardinality(D) = 1
    BY <2>2, FS_EmptySet, FS_Singleton
  <2>4. QED
    BY <2>3 DEF D
<1>3. D \ {d} \in SUBSET Nat
  BY <1>1
<1>4. Lowest(D \ {d}) \in D \ {d}
  BY <1>2, <1>3, LowestFacts
<1>5. Lowest(D \ {d}) \in 1..Len(v)
  BY <1>1, <1>4
<1>6. QED
  BY <1>5, Zenon DEF D, d

LEMMA FullMaskType ==
  ASSUME NEW X, Lit \subseteq X, NEW v \in Seq(X)
  PROVE  /\ MaskEmail(v) \in Seq(X) /\ MaskPhone(v) \in Seq(X)
         /\ MaskSsn(v) \in Seq(X) /\ MaskCreditCard(v) \in Seq(X)
         /\ MaskIpAddress(v) \in Seq(X) /\ MaskAccount(v) \in Seq(X)
         /\ MaskGovtId(v) \in Seq(X)
<1> DEFINE d == Digits(v)
<1>1. d \in Seq(X) /\ Last4(d) \in Seq(X) /\ Last4(v) \in Seq(X) /\ Len(v) \in Nat
  BY PiecesType
<1>2. MaskEmail(v) \in Seq(X)
  <2>1. CASE Places(v, "at") = {}
    BY <2>1, Written DEF MaskEmail
  <2>2. CASE Places(v, "at") # {}
    <3> DEFINE at == Lowest(Places(v, "at"))
               local == Before(v, at)
    <3>1. at \in 1..Len(v)
      BY <2>2, PlacesFacts
    <3> HIDE DEF at
    <3>2. local \in Seq(X) /\ After(v, at) \in Seq(X)
      BY <3>1, PieceTypes
    <3> HIDE DEF local
    <3>3. Upto(local, 1) \in Seq(X) /\ Text("***@") \in Seq(X)
      BY <3>2, PieceTypes, Written
    <3>4. MaskEmail(v) = Upto(local, 1) \o Text("***@") \o After(v, at)
      BY <2>2 DEF MaskEmail, at, local
    <3>5. QED
      BY <3>2, <3>3, <3>4, ConcatProperties
  <2>3. QED
    BY <2>1, <2>2
<1>3. MaskPhone(v) \in Seq(X)
  <2> DEFINE p == IF Len(v) > 4 THEN Starred(Upto(v, Len(v) - 4)) ELSE Text("***-***-")
  <2>1. Text("***-***-") \in Seq(X)
    BY Written
  <2>2. p \in Seq(X)
    <3>1. CASE Len(v) > 4
      <4>1. Len(v) - 4 \in Nat
        BY <1>1, <3>1
      <4>2. Upto(v, Len(v) - 4) \in Seq(X)
        BY <4>1, PieceTypes
      <4>3. QED
        BY <3>1, <4>2, StarredType
    <3>2. QED
      BY <2>1, <3>1
  <2>3. MaskPhone(v) = IF Len(d) >= 4 THEN p \o Last4(d) ELSE Text("***-***-") \o d
    BY Zenon DEF MaskPhone
  <2> HIDE DEF p
  <2>4. QED
    BY <1>1, <2>1, <2>2, <2>3, ConcatProperties
<1>4. MaskSsn(v) \in Seq(X) /\ MaskCreditCard(v) \in Seq(X) /\ MaskAccount(v) \in Seq(X)
  BY <1>1, Written, ConcatProperties DEF MaskSsn, MaskCreditCard, MaskAccount
<1>5. MaskIpAddress(v) \in Seq(X)
  <2>1. CASE Cardinality(Places(v, "dot")) = 3
    <3> DEFINE second == Lowest(Places(v, "dot") \ {Lowest(Places(v, "dot"))})
    <3>1. second \in 1..Len(v)
      BY <2>1, SecondDot
    <3> HIDE DEF second
    <3>2. Before(v, second) \in Seq(X)
      BY <3>1, PieceTypes
    <3>3. MaskIpAddress(v) = Before(v, second) \o Text(".*.*")
      BY <2>1, Zenon DEF MaskIpAddress, second
    <3>4. QED
      BY <3>2, <3>3, Written, ConcatProperties
  <2>2. CASE Cardinality(Places(v, "dot")) # 3
    <3>1. Len(v) \div 2 \in Nat
      BY <1>1
    <3>2. Upto(v, Len(v) \div 2) \in Seq(X)
      BY <3>1, PieceTypes
    <3>3. QED
      BY <2>2, <3>2, Written, ConcatProperties DEF MaskIpAddress
  <2>3. QED
    BY <2>1, <2>2
<1>6. MaskGovtId(v) \in Seq(X)
  <2> DEFINE l == IF Len(Digits(v)) >= 4 THEN Last4(Digits(v)) ELSE Last4(v)
  <2>1. l \in Seq(X)
    BY <1>1
  <2> HIDE DEF l
  <2>2. Text("***") \o l \in Seq(X)
    BY <2>1, Written, ConcatProperties
  <2>3. QED
    BY <2>2 DEF MaskGovtId, l
<1>7. QED
  BY <1>2, <1>3, <1>4, <1>5, <1>6

LEMMA FullType ==
  ASSUME NEW X, Lit \subseteq X, NEW v \in Seq(X), NEW type
  PROVE  Full(v, type) \in Seq(X)
<1>1. /\ MaskAmount(v) \in Seq(X) /\ MaskSecret(v) \in Seq(X) /\ MaskSensitive(v) \in Seq(X)
      /\ MaskGeneric(v) \in Seq(X)
  BY Written DEF MaskAmount, MaskSecret, MaskSensitive, MaskGeneric
<1>2. MaskLocation(v) \in Seq(X)
  <2>1. MaskLocation(v) = AnyPlace
    BY Zenon DEF MaskLocation, AnyPlace
  <2>2. QED
    BY <2>1, Written
<1>3. QED
  BY <1>1, <1>2, FullMaskType, AddressType, NameType, DobType DEF Full

LEMMA PartialType ==
  ASSUME NEW X, Lit \subseteq X, NEW v \in Seq(X), NEW type
  PROVE  Partial(v, type) \in Seq(X)
<1>1. PartialGeneric(v) \in Seq(X)
  <2>1. Len(v) \in Nat /\ Text("***") \in Seq(X)
    BY Written, LenProperties
  <2>2. Upto(v, 1) \in Seq(X) /\ Upto(v, 2) \in Seq(X)
    BY PieceTypes
  <2>3. Len(v) > 4 => SubSeq(v, Len(v) - 1, Len(v)) \in Seq(X)
    <3>1. Len(v) > 4 => Len(v) - 1 >= 1 /\ Len(v) - 1 \in Int /\ Len(v) \in Int /\ Len(v) <= Len(v)
      BY <2>1
    <3>2. QED
      BY <3>1, SubSeqType
  <2>4. QED
    BY <2>1, <2>2, <2>3, ConcatProperties DEF PartialGeneric
<1>2. QED
  BY <1>1, PartialMaskType, PartialNameType, FullType DEF Partial

-----------------------------------------------------------------------------
(* What a masked value shows                                               *)

LEMMA ShownIs ==
  ASSUME NEW X, NEW s \in Seq(X), NEW p
  PROVE  p \in ShownPlaces(s) <=> \E i \in 1..Len(s) : IsUnit(s[i]) /\ p = s[i].place
<1>1. DOMAIN s = 1..Len(s)
  BY LenProperties
<1>2. QED
  BY <1>1 DEF ShownPlaces

LEMMA ShownAt ==
  ASSUME NEW X, NEW s \in Seq(X), NEW i \in 1..Len(s), IsUnit(s[i])
  PROVE  s[i].place \in ShownPlaces(s)
BY ShownIs

LEMMA ShownConcat ==
  ASSUME NEW X, NEW s \in Seq(X), NEW t \in Seq(X)
  PROVE  ShownPlaces(s \o t) = ShownPlaces(s) \cup ShownPlaces(t)
<1> DEFINE u == s \o t
<1>1. /\ Len(s) \in Nat /\ Len(t) \in Nat /\ u \in Seq(X) /\ Len(u) = Len(s) + Len(t)
      /\ \A i \in 1..(Len(s) + Len(t)) : u[i] = IF i <= Len(s) THEN s[i] ELSE t[i - Len(s)]
  BY LenProperties, ConcatProperties
<1> HIDE DEF u
<1>2. ASSUME NEW p \in ShownPlaces(s) PROVE p \in ShownPlaces(u)
  <2>1. PICK i \in 1..Len(s) : IsUnit(s[i]) /\ p = s[i].place
    BY ShownIs
  <2>2. i \in 1..Len(u) /\ u[i] = s[i]
    BY <1>1
  <2>3. IsUnit(u[i]) /\ p = u[i].place
    BY <2>1, <2>2
  <2>4. QED
    BY <1>1, <2>2, <2>3, ShownIs
<1>3. ASSUME NEW p \in ShownPlaces(t) PROVE p \in ShownPlaces(u)
  <2>1. PICK i \in 1..Len(t) : IsUnit(t[i]) /\ p = t[i].place
    BY ShownIs
  <2>2. PICK j \in Nat : j = i + Len(s)
    BY <1>1
  <2>3. j \in 1..Len(u) /\ ~(j <= Len(s)) /\ j - Len(s) = i
    BY <1>1, <2>2
  <2>4. u[j] = t[j - Len(s)]
    BY <1>1, <2>3
  <2>5. IsUnit(u[j]) /\ p = u[j].place
    BY <2>1, <2>3, <2>4
  <2>6. u[j].place \in ShownPlaces(u)
    BY <1>1, <2>3, <2>5, ShownAt
  <2>7. QED
    BY <2>5, <2>6
<1>4. ASSUME NEW p \in ShownPlaces(u) PROVE p \in ShownPlaces(s) \cup ShownPlaces(t)
  <2>0. u \in Seq(X)
    BY <1>1
  <2>1. PICK i \in 1..Len(u) : IsUnit(u[i]) /\ p = u[i].place
    BY <2>0, ShownIs
  <2>2. CASE i <= Len(s)
    <3>1. i \in 1..Len(s) /\ u[i] = s[i]
      BY <1>1, <2>2
    <3>2. IsUnit(s[i]) /\ p = s[i].place
      BY <2>1, <3>1
    <3>3. QED
      BY <3>1, <3>2, ShownIs
  <2>3. CASE ~(i <= Len(s))
    <3>1. i - Len(s) \in 1..Len(t) /\ u[i] = t[i - Len(s)]
      BY <1>1, <2>3
    <3>2. IsUnit(t[i - Len(s)]) /\ p = t[i - Len(s)].place
      BY <2>1, <3>1
    <3>3. QED
      BY <3>1, <3>2, ShownIs
  <2>4. QED
    BY <2>2, <2>3
<1>5. ShownPlaces(u) = ShownPlaces(s) \cup ShownPlaces(t)
  BY <1>2, <1>3, <1>4
<1>6. QED
  BY <1>5 DEF u

(* A value made of the units of Y and of texts shows places of Y.          *)
LEMMA ShownOf ==
  ASSUME NEW Y \in SUBSET Unit, NEW s \in Seq(Y \cup Lit)
  PROVE  ShownPlaces(s) \subseteq {y.place : y \in Y}
<1> SUFFICES ASSUME NEW p \in ShownPlaces(s) PROVE p \in {y.place : y \in Y}
  OBVIOUS
<1>1. PICK i \in 1..Len(s) : IsUnit(s[i]) /\ p = s[i].place
  BY ShownIs
<1>2. s[i] \in Y \cup Lit
  BY ElementOfSeq
<1>3. s[i] \in Y
  BY <1>1, <1>2, UnitFacts
<1>4. QED
  BY <1>1, <1>3

LEMMA ShownTexts ==
  ASSUME NEW s \in Seq(Lit)
  PROVE  ShownPlaces(s) = {}
<1>1. s \in Seq({} \cup Lit)
  BY SeqMonotonic
<1>2. ShownPlaces(s) \subseteq {y.place : y \in {}}
  BY <1>1, ShownOf
<1>3. QED
  BY <1>2

LEMMA ShownPart ==
  ASSUME NEW X, NEW s \in Seq(X), NEW t \in Seq(X),
         \A i \in 1..Len(s) : \E j \in 1..Len(t) : s[i] = t[j]
  PROVE  ShownPlaces(s) \subseteq ShownPlaces(t)
<1> SUFFICES ASSUME NEW p \in ShownPlaces(s) PROVE p \in ShownPlaces(t)
  OBVIOUS
<1>1. PICK i \in 1..Len(s) : IsUnit(s[i]) /\ p = s[i].place
  BY ShownIs
<1>2. PICK j \in 1..Len(t) : s[i] = t[j]
  OBVIOUS
<1>3. IsUnit(t[j]) /\ p = t[j].place
  BY <1>1, <1>2
<1>4. QED
  BY <1>3, ShownIs

LEMMA CharsFacts ==
  ASSUME NEW kinds \in Seq(Kinds)
  PROVE  /\ Chars(kinds) \in Seq(Unit) /\ Len(Chars(kinds)) = Len(kinds)
         /\ DOMAIN Chars(kinds) = 1..Len(kinds) /\ DOMAIN kinds = 1..Len(kinds)
         /\ \A i \in 1..Len(kinds) : /\ Chars(kinds)[i].place = i
                                     /\ Chars(kinds)[i].kind = kinds[i]
                                     /\ kinds[i] \in Kinds
<1>1. Len(kinds) \in Nat /\ DOMAIN kinds = 1..Len(kinds)
  BY LenProperties
<1>2. \A i \in 1..Len(kinds) : kinds[i] \in Kinds
  BY ElementOfSeq
<1>3. Chars(kinds) = [i \in 1..Len(kinds) |-> [place |-> i, kind |-> kinds[i]]]
  BY <1>1 DEF Chars
<1>4. \A i \in 1..Len(kinds) : [place |-> i, kind |-> kinds[i]] \in Unit
  BY <1>1, <1>2 DEF Unit
<1>5. Chars(kinds) \in [1..Len(kinds) -> Unit]
  BY <1>3, <1>4
<1>6. Chars(kinds) \in Seq(Unit) /\ Len(Chars(kinds)) = Len(kinds) /\ DOMAIN Chars(kinds) = 1..Len(kinds)
  BY <1>1, <1>5
<1>7. \A i \in 1..Len(kinds) : Chars(kinds)[i].place = i /\ Chars(kinds)[i].kind = kinds[i]
  BY <1>3
<1>8. QED
  BY <1>1, <1>2, <1>6, <1>7

LEMMA ShownChars ==
  ASSUME NEW kinds \in Seq(Kinds)
  PROVE  ShownPlaces(Chars(kinds)) = DOMAIN kinds
<1>1. \A i \in 1..Len(kinds) : Chars(kinds)[i] \in Unit
  BY CharsFacts, ElementOfSeq
<1>2. \A i \in 1..Len(kinds) : IsUnit(Chars(kinds)[i])
  BY <1>1, UnitFacts
<1>3. \A p : p \in ShownPlaces(Chars(kinds)) <=> p \in 1..Len(kinds)
  BY <1>2, CharsFacts, ShownIs
<1>4. QED
  BY <1>3, CharsFacts

LEMMA ShownWritten ==
  /\ ShownPlaces(Text("*")) = {} /\ ShownPlaces(Text("***")) = {} /\ ShownPlaces(Text("@")) = {}
  /\ ShownPlaces(Text("***@")) = {} /\ ShownPlaces(Text("-***-")) = {}
  /\ ShownPlaces(Text("***-***-")) = {} /\ ShownPlaces(Text("***-**-")) = {}
  /\ ShownPlaces(Text("-")) = {} /\ ShownPlaces(Text("****-****-")) = {}
  /\ ShownPlaces(Text("****-****-****-")) = {} /\ ShownPlaces(Text("********")) = {}
  /\ ShownPlaces(Blank) = {}
BY Written, ShownTexts

LEMMA ShownGlue ==
  \A a, b \in Seq(Sign) : /\ Glue(a, b) \in Seq(Sign)
                          /\ ShownPlaces(Glue(a, b)) = ShownPlaces(a) \cup ShownPlaces(b)
BY ShownConcat, ConcatProperties DEF Glue

LEMMA EmailShowsLess ==
  ASSUME NEW v \in Seq(Unit)
  PROVE  ShownPlaces(MaskEmail(v)) \subseteq ShownPlaces(PartialEmail(v))
<1>0. v \in Seq(Sign)
  BY LitSigns, SeqMonotonic
<1>1. CASE Places(v, "at") = {}
  <2>1. MaskEmail(v) = Text("********")
    BY <1>1, Zenon DEF MaskEmail
  <2>2. QED
    BY <2>1, ShownWritten
<1>2. CASE Places(v, "at") # {}
  <2> DEFINE at == Lowest(Places(v, "at"))
             local == Before(v, at)
             domain == After(v, at)
             stars == Stars(Len(local) - 2)
  <2>1. at \in 1..Len(v)
    BY <1>2, PlacesFacts
  <2>2. local \in Seq(Sign) /\ domain \in Seq(Sign)
    <3> HIDE DEF at
    <3>1. QED
      BY <1>0, <2>1, PieceTypes
  <2>3. MaskEmail(v) = Glue(Glue(Upto(local, 1), Text("***@")), domain)
    BY <1>2, Zenon DEF MaskEmail, Glue
  <2>4. PartialEmail(v) = Glue(Glue(Glue(Upto(local, 2), stars), Text("@")), domain)
    BY <1>2, Zenon DEF PartialEmail, Glue
  <2>5. stars \in Seq(Sign)
    <3> HIDE DEF local
    <3>1. Len(local) - 2 \in Int
      BY <2>2, LenProperties
    <3>2. QED
      BY <3>1, LitSigns, StarsType
  <2> HIDE DEF at, local, domain, stars
  <2>6. /\ Upto(local, 1) \in Seq(Sign) /\ Upto(local, 2) \in Seq(Sign)
        /\ Text("***@") \in Seq(Sign) /\ Text("@") \in Seq(Sign)
    BY <2>2, PieceTypes, Written, LitSigns
  <2>7. ShownPlaces(MaskEmail(v)) =
          ShownPlaces(Upto(local, 1)) \cup ShownPlaces(Text("***@")) \cup ShownPlaces(domain)
    BY <2>2, <2>3, <2>6, ShownGlue
  <2>8. ShownPlaces(PartialEmail(v)) =
          ShownPlaces(Upto(local, 2)) \cup ShownPlaces(stars) \cup ShownPlaces(Text("@")) \cup ShownPlaces(domain)
    BY <2>2, <2>4, <2>5, <2>6, ShownGlue
  <2>9. ShownPlaces(Text("***@")) = {}
    BY ShownWritten
  <2>10. ShownPlaces(Upto(local, 1)) \subseteq ShownPlaces(Upto(local, 2))
    <3>1. \A n, m \in Nat : n <= m => \A j \in 1..Len(Upto(local, n)) :
            j \in 1..Len(Upto(local, m)) /\ Upto(local, n)[j] = Upto(local, m)[j]
      BY <2>2, UptoMore
    <3>2. 1 \in Nat /\ 2 \in Nat /\ 1 <= 2
      OBVIOUS
    <3> DEFINE one == Upto(local, 1)
               two == Upto(local, 2)
    <3>3. \A j \in 1..Len(one) : j \in 1..Len(two) /\ one[j] = two[j]
      BY <3>1, <3>2, Zenon
    <3>4. one \in Seq(Sign) /\ two \in Seq(Sign)
      BY <2>6
    <3> HIDE DEF one, two
    <3>5. ShownPlaces(one) \subseteq ShownPlaces(two)
      BY <3>3, <3>4, ShownPart
    <3>6. QED
      BY <3>5, Zenon DEF one, two
  <2>11. QED
    BY <2>7, <2>8, <2>9, <2>10
<1>3. QED
  BY <1>1, <1>2

(* The digits of the value that are shown last.                            *)
LEMMA DigitPieces ==
  ASSUME NEW v \in Seq(Unit)
  PROVE  /\ v \in Seq(Sign) /\ Digits(v) \in Seq(Sign) /\ Last4(Digits(v)) \in Seq(Sign)
         /\ Len(Digits(v)) \in Nat /\ Len(v) \in Nat
<1>1. v \in Seq(Sign)
  BY LitSigns, SeqMonotonic
<1>2. QED
  BY <1>1, PiecesType

LEMMA SsnShowsLess ==
  ASSUME NEW kinds \in Seq(Kinds), NEW v, v = Chars(kinds)
  PROVE  DOMAIN kinds \cap ShownPlaces(MaskSsn(v)) \subseteq ShownPlaces(PartialSsn(v))
<1>1. v \in Seq(Unit)
  BY CharsFacts
<1>2. CASE Len(Digits(v)) >= 4
  BY <1>2, Zenon DEF MaskSsn, PartialSsn
<1>3. CASE ~(Len(Digits(v)) >= 4)
  <2>1. PartialSsn(v) = v
    BY <1>3, Zenon DEF PartialSsn
  <2>2. QED
    BY <2>1, ShownChars
<1>4. QED
  BY <1>2, <1>3

LEMMA CardShowsLess ==
  ASSUME NEW v \in Seq(Unit), Len(Digits(v)) >= 8
  PROVE  ShownPlaces(MaskCreditCard(v)) \subseteq ShownPlaces(PartialCard(v))
<1> DEFINE d == Digits(v)
           m == SubSeq(d, Len(d) - 7, Len(d) - 4)
<1>1. d \in Seq(Sign) /\ Last4(d) \in Seq(Sign) /\ Len(d) \in Nat
  BY DigitPieces
<1>2. m \in Seq(Sign)
  <2>1. Len(d) - 7 >= 1 /\ Len(d) - 7 \in Int /\ Len(d) - 4 \in Int /\ Len(d) - 4 <= Len(d)
    BY <1>1
  <2>2. QED
    BY <1>1, <2>1, SubSeqType
<1>3. MaskCreditCard(v) = Glue(Text("****-****-****-"), Last4(d))
  BY Zenon DEF MaskCreditCard, Glue
<1>4. PartialCard(v) = Glue(Glue(Glue(Text("****-****-"), m), Text("-")), Last4(d))
  BY Zenon DEF PartialCard, Glue
<1> HIDE DEF d, m
<1>5. /\ Text("****-****-****-") \in Seq(Sign) /\ Text("****-****-") \in Seq(Sign) /\ Text("-") \in Seq(Sign)
  BY Written, LitSigns
<1>6. ShownPlaces(MaskCreditCard(v)) = ShownPlaces(Text("****-****-****-")) \cup ShownPlaces(Last4(d))
  BY <1>1, <1>3, <1>5, ShownGlue
<1>7. ShownPlaces(PartialCard(v)) =
        ShownPlaces(Text("****-****-")) \cup ShownPlaces(m) \cup ShownPlaces(Text("-")) \cup ShownPlaces(Last4(d))
  BY <1>1, <1>2, <1>4, <1>5, ShownGlue
<1>8. ShownPlaces(Text("****-****-****-")) = {}
  BY ShownWritten
<1>9. QED
  BY <1>6, <1>7, <1>8

LEMMA PhoneShowsLess ==
  ASSUME NEW kinds \in Seq(Kinds), NEW v, v = Chars(kinds)
  PROVE  {i \in DOMAIN kinds : kinds[i] = "digit"} \cap ShownPlaces(MaskPhone(v))
           \subseteq ShownPlaces(PartialPhone(v))
<1> DEFINE d == Digits(v)
<1>1. v \in Seq(Unit) /\ d \in Seq(Sign) /\ Last4(d) \in Seq(Sign) /\ Len(d) \in Nat /\ Len(v) \in Nat
  BY CharsFacts, DigitPieces
<1>2. CASE Len(d) >= 7
  <2> DEFINE Y == {x \in Unit : \E i \in 1..Len(v) : x = v[i] /\ x.kind # "digit"}
             p == IF Len(v) > 4 THEN Starred(Upto(v, Len(v) - 4)) ELSE Text("***-***-")
  <2>1. MaskPhone(v) = Glue(p, Last4(d))
    <3>1. Len(d) >= 4
      BY <1>1, <1>2
    <3>2. QED
      BY <3>1, Zenon DEF MaskPhone, Glue
  <2>2. PartialPhone(v) = Glue(Glue(Upto(d, 3), Text("-***-")), Last4(d))
    BY <1>2, Zenon DEF PartialPhone, Glue
  <2>3. p \in Seq(Y \cup Lit)
    <3>1. CASE ~(Len(v) > 4)
      <4>1. p = Text("***-***-")
        BY <3>1, Zenon
      <4>2. Text("***-***-") \in Seq(Y \cup Lit)
        BY Written
      <4>3. QED
        BY <4>1, <4>2, Zenon
    <3>2. CASE Len(v) > 4
      <4> DEFINE u == Upto(v, Len(v) - 4)
                 f == [i \in DOMAIN u |-> IF u[i].kind = "digit" THEN Text("*") ELSE <<u[i]>>]
      <4>1. Len(v) - 4 \in Nat
        BY <1>1, <3>2
      <4>2. u \in Seq(Unit) /\ \A i \in 1..Len(u) : i \in 1..Len(v) /\ u[i] = v[i]
        BY <1>1, <4>1, UptoFacts
      <4> HIDE DEF u
      <4>3. DOMAIN u = 1..Len(u) /\ Len(u) \in Nat
        BY <4>2, LenProperties
      <4>4. ASSUME NEW i \in 1..Len(u)
            PROVE  (IF u[i].kind = "digit" THEN Text("*") ELSE <<u[i]>>) \in Seq(Y \cup Lit)
        <5>1. Text("*") \in Seq(Y \cup Lit)
          BY Written
        <5>2. u[i].kind # "digit" => u[i] \in Y
          BY <4>2, ElementOfSeq
        <5> HIDE DEF Y
        <5>3. u[i].kind # "digit" => <<u[i]>> \in Seq(Y \cup Lit)
          BY <5>2
        <5>4. QED
          BY <5>1, <5>3
      <4> HIDE DEF Y
      <4>5. f \in Seq(Seq(Y \cup Lit))
        <5>1. f \in [1..Len(u) -> Seq(Y \cup Lit)]
          BY <4>3, <4>4
        <5>2. QED
          BY <4>3, <5>1
      <4>6. Starred(u) \in Seq(Y \cup Lit)
        BY <4>5, FlattenType DEF Starred
      <4>7. QED
        BY <3>2, <4>6 DEF u
    <3>3. QED
      BY <3>1, <3>2
  <2>4. {i \in DOMAIN kinds : kinds[i] = "digit"} \cap ShownPlaces(p) = {}
    <3>1. Y \in SUBSET Unit
      OBVIOUS
    <3>2. ShownPlaces(p) \subseteq {y.place : y \in Y}
      <4> HIDE DEF Y, p
      <4>1. QED
        BY <2>3, <3>1, ShownOf
    <3>3. ASSUME NEW y \in Y, kinds[y.place] = "digit" PROVE FALSE
      <4>1. PICK i \in 1..Len(v) : y = v[i] /\ y.kind # "digit"
        OBVIOUS
      <4>2. v[i].place = i /\ v[i].kind = kinds[i]
        BY <4>1, CharsFacts
      <4>3. QED
        BY <3>3, <4>1, <4>2
    <3> HIDE DEF Y, p
    <3>4. QED
      BY <3>2, <3>3
  <2>5. p \in Seq(Sign)
    <3>1. Y \cup Lit \subseteq Sign
      BY LitSigns
    <3> HIDE DEF Y, p
    <3>2. QED
      BY <2>3, <3>1, SeqMonotonic
  <2> HIDE DEF p, Y, d
  <2>6. ShownPlaces(MaskPhone(v)) = ShownPlaces(p) \cup ShownPlaces(Last4(d))
    BY <1>1, <2>1, <2>5, ShownGlue
  <2>7. ShownPlaces(Last4(d)) \subseteq ShownPlaces(PartialPhone(v))
    <3>1. Upto(d, 3) \in Seq(Sign) /\ Text("-***-") \in Seq(Sign)
      BY <1>1, PieceTypes, Written, LitSigns
    <3>2. ShownPlaces(PartialPhone(v)) =
            ShownPlaces(Upto(d, 3)) \cup ShownPlaces(Text("-***-")) \cup ShownPlaces(Last4(d))
      BY <1>1, <2>2, <3>1, ShownGlue
    <3>3. QED
      BY <3>2
  <2>8. QED
    BY <2>4, <2>6, <2>7
<1>3. CASE ~(Len(d) >= 7)
  <2>1. PartialPhone(v) = v
    BY <1>3, Zenon DEF PartialPhone
  <2>2. QED
    BY <2>1, ShownChars
<1>4. QED
  BY <1>2, <1>3

LEMMA NameShowsLess ==
  ASSUME NEW v \in Seq(Unit), Len(Initials(v)) <= 2
  PROVE  ShownPlaces(MaskName(v)) \subseteq ShownPlaces(PartialName(v))
<1> DEFINE n == Len(Initials(v))
           p == Initials(v)
           f == [i \in DOMAIN p |-> <<p[i]>> \o Text("***")]
           Y == {p[i] : i \in 1..n}
<1>0. v \in Seq(Sign) /\ p \in Seq(Unit)
  <2>1. v \in Seq(Sign)
    BY LitSigns, SeqMonotonic
  <2>2. QED
    BY <2>1, PiecesType
<1>1. n \in Nat /\ DOMAIN p = 1..n /\ \A i \in 1..n : p[i] \in Unit
  <2> HIDE DEF p
  <2>1. Len(p) \in Nat /\ DOMAIN p = 1..Len(p) /\ \A i \in 1..Len(p) : p[i] \in Unit
    BY <1>0, LenProperties, ElementOfSeq
  <2>2. QED
    BY <2>1 DEF p
<1>2. \A i \in 1..n : /\ Word(v, p[i]) \in Seq(Sign) /\ Len(Word(v, p[i])) > 0
                      /\ Word(v, p[i])[1] = p[i]
  BY <1>0, NameParts
<1>3. Y \in SUBSET Unit
  BY <1>1
<1>4. ShownPlaces(MaskName(v)) \subseteq {y.place : y \in Y}
  <2>1. CASE p = <<>>
    <3>1. MaskName(v) = Text("********")
      BY <2>1, NameType, LitSigns, <1>0
    <3>2. QED
      BY <3>1, ShownWritten
  <2>2. CASE p # <<>>
    <3>1. MaskName(v) = Join(f, Blank)
      <4>1. Lit \subseteq Sign
        BY LitSigns
      <4>2. QED
        BY <1>0, <2>2, <4>1, NameType, Zenon
    <3>2. f \in Seq(Seq(Y \cup Lit))
      <4>1. Text("***") \in Seq(Y \cup Lit)
        BY Written
      <4>2. ASSUME NEW i \in 1..n PROVE <<p[i]>> \o Text("***") \in Seq(Y \cup Lit)
        <5>1. p[i] \in Y \cup Lit
          OBVIOUS
        <5> HIDE DEF p, Y, n
        <5>2. <<p[i]>> \in Seq(Y \cup Lit)
          BY <5>1
        <5>3. QED
          BY <4>1, <5>2, ConcatProperties
      <4> HIDE DEF p, n, Y
      <4>3. f \in [1..n -> Seq(Y \cup Lit)]
        BY <1>1, <4>2
      <4>4. QED
        BY <1>1, <4>3
    <3>3. Blank \in Seq(Y \cup Lit)
      BY Written
    <3> HIDE DEF f, Y
    <3>4. Join(f, Blank) \in Seq(Y \cup Lit)
      BY <3>2, <3>3, JoinType
    <3>5. QED
      BY <1>3, <3>1, <3>4, ShownOf
  <2>3. QED
    BY <2>1, <2>2
<1>5. ASSUME NEW i \in 1..n PROVE p[i].place \in ShownPlaces(Word(v, p[i]))
  <2> DEFINE w == Word(v, p[i])
  <2>1. w \in Seq(Sign) /\ 1 \in 1..Len(w) /\ w[1] = p[i]
    <3>1. w \in Seq(Sign) /\ Len(w) > 0 /\ w[1] = p[i]
      BY <1>2
    <3> HIDE DEF w
    <3>2. QED
      BY <3>1, LenProperties
  <2>2. IsUnit(p[i])
    BY <1>1, UnitFacts
  <2> HIDE DEF w, p
  <2>3. w[1].place \in ShownPlaces(w)
    BY <2>1, <2>2, ShownAt
  <2>4. QED
    BY <2>1, <2>3 DEF w
<1>6. CASE n = 0
  <2>1. Y = {}
    BY <1>6
  <2>2. QED
    BY <1>4, <2>1
<1>7. CASE n = 1
  <2>1. PartialName(v) = Word(v, p[1])
    BY <1>7, PartialNameIs, Zenon
  <2>2. p[1].place \in ShownPlaces(Word(v, p[1]))
    BY <1>5, <1>7
  <2>3. {y.place : y \in Y} = {p[1].place}
    BY <1>7
  <2>4. QED
    BY <1>4, <2>1, <2>2, <2>3
<1>8. CASE n = 2
  <2> DEFINE l == <<Last(p)>>
  <2>1. PartialName(v) = Glue(Glue(Glue(Word(v, p[1]), Blank), l), Text("***"))
    <3>1. n >= 2
      BY <1>8
    <3>2. QED
      BY <3>1, PartialNameIs, Zenon DEF Glue
  <2>2. p[1].place \in ShownPlaces(Word(v, p[1])) /\ Word(v, p[1]) \in Seq(Sign)
    BY <1>2, <1>5, <1>8
  <2>3. l \in Seq(Sign) /\ p[2].place \in ShownPlaces(l)
    <3>1. l = <<p[2]>>
      BY <1>8 DEF Last
    <3>2. p[2] \in Unit
      BY <1>1, <1>8
    <3> DEFINE x == p[2]
    <3> HIDE DEF l, x
    <3>3. x \in Sign /\ IsUnit(x) /\ l = <<x>>
      BY <3>1, <3>2, UnitFacts, LitSigns DEF x
    <3>4. l \in Seq(Sign) /\ 1 \in 1..Len(l) /\ l[1] = x
      BY <3>3
    <3>5. l[1].place \in ShownPlaces(l)
      BY <3>3, <3>4, ShownAt
    <3>6. QED
      BY <3>4, <3>5 DEF x
  <2>4. Blank \in Seq(Sign) /\ Text("***") \in Seq(Sign)
    BY Written, LitSigns
  <2>5. {y.place : y \in Y} = {p[1].place, p[2].place}
    BY <1>8
  <2> DEFINE w == Word(v, p[1])
  <2> HIDE DEF l, w, p, Y
  <2>6. ShownPlaces(w) \subseteq ShownPlaces(PartialName(v)) /\ ShownPlaces(l) \subseteq ShownPlaces(PartialName(v))
    BY <2>1, <2>2, <2>3, <2>4, ShownGlue DEF w
  <2>7. QED
    BY <1>4, <2>2, <2>3, <2>5, <2>6 DEF w
<1>9. n \in {0, 1, 2}
  <2>1. n <= 2
    OBVIOUS
  <2> HIDE DEF n
  <2>2. QED
    BY <1>1, <2>1
<1>10. QED
  BY <1>6, <1>7, <1>8, <1>9

LEMMA LevelIs ==
  /\ Level("analyst") = "full" /\ Level("manager") = "partial" /\ Level("admin") = "raw"
  /\ Level("other") = "full"
BY DEF Level, LevelForRole

LEMMA TypeIs ==
  ASSUME NEW v
  PROVE  /\ Full(v, "EMAIL") = MaskEmail(v) /\ Partial(v, "EMAIL") = PartialEmail(v)
         /\ Full(v, "PHONE") = MaskPhone(v) /\ Partial(v, "PHONE") = PartialPhone(v)
         /\ Full(v, "SSN") = MaskSsn(v) /\ Partial(v, "SSN") = PartialSsn(v)
         /\ Full(v, "CREDIT_CARD") = MaskCreditCard(v) /\ Partial(v, "CREDIT_CARD") = PartialCard(v)
         /\ Full(v, "NAME") = MaskName(v) /\ Partial(v, "NAME") = PartialName(v)
<1>1. /\ Full(v, "EMAIL") = MaskEmail(v) /\ Full(v, "PHONE") = MaskPhone(v)
      /\ Full(v, "SSN") = MaskSsn(v) /\ Full(v, "CREDIT_CARD") = MaskCreditCard(v)
      /\ Full(v, "NAME") = MaskName(v)
  BY DEF Full
<1>2. /\ Partial(v, "EMAIL") = PartialEmail(v) /\ Partial(v, "PHONE") = PartialPhone(v)
      /\ Partial(v, "SSN") = PartialSsn(v) /\ Partial(v, "CREDIT_CARD") = PartialCard(v)
      /\ Partial(v, "NAME") = PartialName(v)
  BY DEF Partial, MaskTypes, PartialTypes
<1>3. QED
  BY <1>1, <1>2

(* What an analyst is shown of a value, a manager is shown too.            *)
LEMMA ShowsLess ==
  ASSUME NEW kinds \in Seq(Kinds), NEW type \in MaskTypes
  PROVE  LET places == IF type = "PHONE" THEN {i \in DOMAIN kinds : kinds[i] = "digit"}
                       ELSE DOMAIN kinds
         IN  \/ type = "NAME" /\ Len(Initials(Chars(kinds))) > 2
             \/ type = "CREDIT_CARD" /\ Len(Digits(Chars(kinds))) < 8
             \/ places \cap ShownPlaces(MaskValue(Chars(kinds), type, "full"))
                  \subseteq ShownPlaces(MaskValue(Chars(kinds), type, "partial"))
<1> DEFINE v == Chars(kinds)
           full == MaskValue(v, type, "full")
           part == MaskValue(v, type, "partial")
           places == IF type = "PHONE" THEN {i \in DOMAIN kinds : kinds[i] = "digit"} ELSE DOMAIN kinds
<1>0. v \in Seq(Unit) /\ Len(v) \in Nat /\ Len(Initials(v)) \in Nat /\ Len(Digits(v)) \in Nat
  BY CharsFacts, PiecesType, NameParts
<1>1. CASE v = <<>>
  <2>1. full = v /\ part = v
    BY <1>1, Zenon DEF MaskValue
  <2>2. QED
    BY <2>1
<1>2. CASE v # <<>>
  <2>1. full = Full(v, type) /\ part = Partial(v, type)
    BY <1>2 DEF MaskValue
  <2> HIDE DEF v, full, part
  <2>2. CASE type = "EMAIL"
    <3>1. full = MaskEmail(v) /\ part = PartialEmail(v)
      BY <2>1, <2>2, TypeIs
    <3>2. QED
      BY <1>0, <3>1, EmailShowsLess DEF v, full, part
  <2>3. CASE type = "PHONE"
    <3>1. full = MaskPhone(v) /\ part = PartialPhone(v)
      BY <2>1, <2>3, TypeIs
    <3>2. {i \in DOMAIN kinds : kinds[i] = "digit"} \cap ShownPlaces(full) \subseteq ShownPlaces(part)
      BY <3>1, PhoneShowsLess DEF v, full, part
    <3>3. QED
      BY <2>3, <3>2 DEF v, full, part
  <2>4. CASE type = "SSN"
    <3>1. full = MaskSsn(v) /\ part = PartialSsn(v)
      BY <2>1, <2>4, TypeIs
    <3>2. DOMAIN kinds \cap ShownPlaces(full) \subseteq ShownPlaces(part)
      BY <3>1, SsnShowsLess DEF v, full, part
    <3>3. QED
      BY <2>4, <3>2 DEF v, full, part
  <2>5. CASE type = "CREDIT_CARD"
    <3>1. full = MaskCreditCard(v) /\ part = PartialCard(v)
      BY <2>1, <2>5, TypeIs
    <3>2. Len(Digits(v)) >= 8 => ShownPlaces(full) \subseteq ShownPlaces(part)
      BY <1>0, <3>1, CardShowsLess
    <3>3. QED
      BY <1>0, <2>5, <3>2 DEF v, full, part
  <2>6. CASE type = "NAME"
    <3>1. full = MaskName(v) /\ part = PartialName(v)
      BY <2>1, <2>6, TypeIs
    <3>2. Len(Initials(v)) <= 2 => ShownPlaces(full) \subseteq ShownPlaces(part)
      BY <1>0, <3>1, NameShowsLess
    <3>3. QED
      BY <1>0, <2>6, <3>2 DEF v, full, part
  <2>7. CASE type \notin PartialTypes
    <3>1. part = full
      BY <2>1, <2>7 DEF Partial, PartialTypes, MaskTypes
    <3>2. QED
      BY <3>1 DEF v, full, part
  <2>8. QED
    BY <2>2, <2>3, <2>4, <2>5, <2>6, <2>7 DEF PartialTypes
<1>3. QED
  BY <1>1, <1>2

(* The value is a sequence of characters.  Type correctness of Masking.     *)
LEMMA ValueType == MaskingSpec => [](value \in Seq(Kinds))
<1> DEFINE Inv == value \in Seq(Kinds)
<1>1. MaskingInit => Inv
  BY EmptySeq DEF MaskingInit
<1>2. Inv /\ [MaskingNext]_maskingVars => Inv'
  <2> SUFFICES ASSUME Inv, [MaskingNext]_maskingVars PROVE Inv'
    OBVIOUS
  <2>1. CASE Extend
    <3>1. PICK p \in Pieces : value' = value \o p
      BY <2>1 DEF Extend
    <3>2. p \in Seq(Kinds)
      BY PiecesAssumption
    <3>3. QED
      BY <3>1, <3>2, ConcatProperties
  <2>2. CASE Another
    BY <2>2, EmptySeq DEF Another
  <2>3. CASE UNCHANGED maskingVars
    BY <2>3 DEF maskingVars
  <2>4. QED
    BY <2>1, <2>2, <2>3 DEF MaskingNext
<1>3. QED
  BY <1>1, <1>2, PTL DEF MaskingSpec

(* Whatever is shown to an analyst of a value of any length, for which      *)
(* _mask_value is called at the level "full", is shown to a manager         *)
(* ("partial") too, for every masking type, as FullShowsLess states it.     *)
THEOREM FullLess == MaskingSpec => []FullShowsLess
<1>1. value \in Seq(Kinds) => FullShowsLess
  <2> SUFFICES ASSUME value \in Seq(Kinds), NEW type \in MaskTypes
               PROVE  LET places == IF type = "PHONE" THEN {i \in DOMAIN value : value[i] = "digit"}
                                    ELSE DOMAIN value
                      IN  \/ type = "NAME" /\ Len(Initials(Chars(value))) > 2
                          \/ type = "CREDIT_CARD" /\ Len(Digits(Chars(value))) < 8
                          \/ places \cap ShownPlaces(Masked(type, Level("analyst")))
                               \subseteq ShownPlaces(Masked(type, Level("manager")))
    BY Zenon DEF FullShowsLess
  <2>1. QED
    BY LevelIs, ShowsLess DEF Masked
<1>2. QED
  BY <1>1, ValueType, PTL

-----------------------------------------------------------------------------
(* The commas of an address                                                *)

Comma == {x \in Unit : x.kind = "comma"}
NotComma == {x \in Sign : IsUnit(x) => x.kind # "comma"}

(* The last comma of what is put together around one.                      *)
Commas(m) == {i \in DOMAIN m : IsUnit(m[i]) /\ m[i].kind = "comma"}

LEMMA LastComma ==
  ASSUME NEW a \in Seq(Sign), NEW c \in Comma, NEW e \in Seq(NotComma)
  PROVE  /\ Commas(Around(a, c, e)) # {}
         /\ Before(Around(a, c, e), Highest(Commas(Around(a, c, e)))) = a
<1> DEFINE s == Around(a, c, e)
           n == Len(a)
           m == Len(e)
<1>1. c \in Sign /\ e \in Seq(Sign) /\ IsUnit(c) /\ c.kind = "comma"
  <2>1. NotComma \subseteq Sign /\ c \in Unit /\ c.kind = "comma"
    BY LitSigns DEF NotComma, Comma
  <2>2. QED
    BY <2>1, UnitFacts, LitSigns, SeqMonotonic
<1>2. /\ s \in Seq(Sign) /\ Len(s) = n + 1 + m /\ s[n + 1] = c
      /\ \A j \in 1..m : s[n + 1 + j] = e[j]
      /\ Before(s, n + 1) = a
  <2>1. a \in Seq(Sign) /\ c \in Sign /\ e \in Seq(Sign)
    BY <1>1
  <2>2. QED
    <3>1. s \in Seq(Sign) /\ Len(s) = n + 1 + m
      BY <2>1, Parts3
    <3>2. s[n + 1] = c
      BY <2>1, Parts3
    <3>3. \A j \in 1..m : s[n + 1 + j] = e[j]
      BY <2>1, Parts3
    <3>4. Before(s, n + 1) = a
      BY <2>1, Parts3
    <3>5. QED
      BY <3>1, <3>2, <3>3, <3>4, Zenon
<1> HIDE DEF s
<1>3. n \in Nat /\ m \in Nat /\ DOMAIN s = 1..(n + 1 + m)
  BY <1>2, LenProperties
<1> HIDE DEF n, m
<1>4. n + 1 \in Commas(s)
  BY <1>1, <1>2, <1>3 DEF Commas
<1>5. ASSUME NEW j \in Commas(s) PROVE j <= n + 1
  <2>1. SUFFICES ASSUME j > n + 1 PROVE FALSE
    BY <1>3 DEF Commas
  <2>2. j \in 1..(n + 1 + m) /\ IsUnit(s[j]) /\ s[j].kind = "comma"
    BY <1>3 DEF Commas
  <2>3. PICK k \in 1..m : j = n + 1 + k
    <3>1. j - (n + 1) \in 1..m /\ j = n + 1 + (j - (n + 1))
      BY <1>3, <2>1, <2>2
    <3>2. QED
      BY <3>1
  <2>4. s[j] = e[k]
    BY <1>2, <2>3
  <2>5. e[k] \in NotComma
    BY ElementOfSeq DEF m
  <2>6. QED
    BY <2>2, <2>4, <2>5 DEF NotComma
<1>6. Commas(s) \in SUBSET (1..(n + 1 + m)) /\ n + 1 + m \in Nat
  BY <1>3 DEF Commas
<1>7. Highest(Commas(s)) = n + 1
  BY <1>4, <1>5, <1>6, HighestIs
<1>8. QED
  BY <1>2, <1>4, <1>7 DEF s

LEMMA NoCommas ==
  ASSUME NEW s \in Seq(NotComma)
  PROVE  Commas(s) = {}
<1>1. Len(s) \in Nat /\ DOMAIN s = 1..Len(s)
  BY LenProperties
<1>2. \A i \in 1..Len(s) : s[i] \in NotComma
  BY ElementOfSeq
<1>3. QED
  BY <1>1, <1>2 DEF Commas, NotComma

(* A text is cut at its last comma; it has none, or is what is before the  *)
(* last one, the comma and what is after it.                               *)
CutAt(m) == IF Commas(m) = {} THEN m ELSE Before(m, Highest(Commas(m))) \o LastPart

LEMMA CommaSigns ==
  /\ Comma \subseteq Sign /\ NotComma \subseteq Sign
  /\ \A x \in Sign : x \in Comma \/ x \in NotComma
  /\ Lit \subseteq NotComma
<1>1. \A x \in Sign : IsUnit(x) => x \in Unit
  BY UnitFacts DEF Sign
<1>2. QED
  BY <1>1, UnitFacts, LitSigns DEF Comma, NotComma, Sign

LEMMA CutParts ==
  /\ \A s \in Seq(NotComma) : CutAt(s) = s
  /\ \A a \in Seq(Sign), c \in Comma, e \in Seq(NotComma) :
       CutAt(Around(a, c, e)) = a \o LastPart
<1>1. ASSUME NEW s \in Seq(NotComma) PROVE CutAt(s) = s
  BY NoCommas DEF CutAt
<1>2. ASSUME NEW a \in Seq(Sign), NEW c \in Comma, NEW e \in Seq(NotComma)
      PROVE  CutAt(Around(a, c, e)) = a \o LastPart
  BY LastComma DEF CutAt
<1>3. QED
  BY <1>1, <1>2

LEMMA Split ==
  ASSUME NEW s \in Seq(Sign)
  PROVE  \/ s \in Seq(NotComma)
         \/ \E a \in Seq(Sign), c \in Comma, e \in Seq(NotComma) : s = Around(a, c, e)
<1> DEFINE Parts(t) == \E a \in Seq(Sign), c \in Comma, e \in Seq(NotComma) : t = Around(a, c, e)
           T == {t \in Seq(Sign) : t \in Seq(NotComma) \/ Parts(t)}
<1>0. NotComma \subseteq Sign /\ Comma \subseteq Sign /\ \A x \in Sign : x \in NotComma \/ x \in Comma
  BY CommaSigns
<1>1. <<>> \in T
  BY EmptySeq
<1>2. ASSUME NEW t \in Seq(Sign), NEW x \in Sign, t \in T PROVE Append(t, x) \in T
  <2>1. Append(t, x) \in Seq(Sign)
    BY AppendProperties
  <2>2. CASE x \in Comma
    <3>1. Append(t, x) = Around(t, x, <<>>)
      <4>1. Append(t, x) = t \o <<x>> /\ t \o <<x>> \in Seq(Sign)
        BY AppendIsConcat, AppendProperties
      <4>2. QED
        BY <4>1, ConcatEmptySeq DEF Around
    <3>2. <<>> \in Seq(NotComma)
      BY EmptySeq
    <3>3. Parts(Append(t, x))
      BY <2>2, <3>1, <3>2
    <3>4. QED
      BY <2>1, <3>3
  <2>3. CASE x \in NotComma /\ t \in Seq(NotComma)
    BY <2>1, <2>3, AppendProperties
  <2>4. CASE x \in NotComma /\ Parts(t)
    <3>1. PICK a \in Seq(Sign), c \in Comma, e \in Seq(NotComma) : t = Around(a, c, e)
      BY <2>4
    <3>2. c \in Sign /\ e \in Seq(Sign) /\ Append(e, x) \in Seq(NotComma)
      BY <1>0, <2>4, SeqMonotonic, AppendProperties
    <3>3. Append(t, x) = Around(a, c, Append(e, x))
      <4>1. Append(Around(a, c, e), x) = Around(a, c, Append(e, x))
        BY <3>2, AroundAppend
      <4>2. QED
        BY <3>1, <4>1, Zenon
    <3>4. Parts(Append(t, x))
      BY <3>2, <3>3
    <3>5. QED
      BY <2>1, <3>4
  <2>5. QED
    BY <1>0, <1>2, <2>2, <2>3, <2>4
<1>3. Seq(Sign) \subseteq T
  <2> HIDE DEF T
  <2>1. QED
    BY <1>1, <1>2, SeqInd
<1>4. QED
  BY <1>3

(* Literal text in front of a text is not cut.                             *)
LEMMA CutAfter ==
  ASSUME NEW p \in Seq(Lit), NEW s \in Seq(Sign)
  PROVE  CutAt(p \o s) = p \o CutAt(s)
<1>1. p \in Seq(Sign) /\ p \in Seq(NotComma)
  BY CommaSigns, LitSigns, SeqMonotonic
<1>2. CASE s \in Seq(NotComma)
  <2>1. p \o s \in Seq(NotComma)
    BY <1>1, <1>2, ConcatProperties
  <2>2. QED
    BY <1>2, <2>1, CutParts
<1>3. ASSUME NEW a \in Seq(Sign), NEW c \in Comma, NEW e \in Seq(NotComma), s = Around(a, c, e)
      PROVE  CutAt(p \o s) = p \o CutAt(s)
  <2>1. c \in Sign /\ e \in Seq(Sign) /\ <<c>> \in Seq(Sign) /\ LastPart \in Seq(Sign)
    <3>1. c \in Sign /\ e \in Seq(Sign)
      BY CommaSigns, SeqMonotonic
    <3>2. LastPart \in Seq(Sign)
      BY LitSigns, Written
    <3>3. QED
      BY <3>1, <3>2
  <2> DEFINE pa == Glue(p, a)
             ac == Glue(a, <<c>>)
  <2>2. pa \in Seq(Sign) /\ ac \in Seq(Sign)
    BY <1>1, <2>1, GlueFacts
  <2>3. p \o s = Around(pa, c, e)
    <3>1. p \o s = Glue(p, Glue(ac, e))
      BY <1>3, Zenon DEF Around, Glue
    <3>2. Around(pa, c, e) = Glue(Glue(pa, <<c>>), e)
      BY Zenon DEF Around, Glue
    <3>3. Glue(pa, <<c>>) = Glue(p, ac)
      <4> DEFINE cc == <<c>>
      <4>1. cc \in Seq(Sign)
        BY <2>1
      <4> HIDE DEF cc
      <4>2. Glue(Glue(p, a), cc) = Glue(p, Glue(a, cc))
        BY <1>1, <4>1, GlueAssociative
      <4>3. QED
        BY <4>2, Zenon DEF cc
    <3> HIDE DEF ac, pa
    <3>4. Glue(Glue(p, ac), e) = Glue(p, Glue(ac, e))
      BY <1>1, <2>1, <2>2, GlueAssociative
    <3>5. QED
      BY <3>1, <3>2, <3>3, <3>4
  <2>4. CutAt(p \o s) = Glue(pa, LastPart)
    <3> HIDE DEF pa
    <3>1. CutAt(p \o s) = pa \o LastPart
      BY <2>2, <2>3, CutParts
    <3>2. QED
      BY <3>1 DEF Glue
  <2>5. p \o CutAt(s) = Glue(p, Glue(a, LastPart))
    <3>1. CutAt(s) = a \o LastPart
      BY <1>3, CutParts
    <3>2. QED
      BY <3>1, Zenon DEF Glue
  <2>6. Glue(pa, LastPart) = Glue(p, Glue(a, LastPart))
    BY <1>1, <2>1, GlueAssociative
  <2> HIDE DEF pa
  <2>7. QED
    BY <2>4, <2>5, <2>6
<1>4. QED
  BY <1>2, <1>3, Split

LEMMA CutUnits ==
  ASSUME NEW s \in Seq(Unit)
  PROVE  CutAt(s) = CutComma(s)
<1>1. Commas(s) = Places(s, "comma")
  <2>1. Len(s) \in Nat /\ DOMAIN s = 1..Len(s)
    BY LenProperties
  <2>2. \A i \in 1..Len(s) : IsUnit(s[i])
    BY ElementOfSeq, UnitFacts
  <2>3. QED
    BY <2>1, <2>2 DEF Commas, Places
<1>2. QED
  BY <1>1 DEF CutAt, CutComma

(* The encoding keeps the commas of a text where they are.                 *)
LEMMA EncodeNoComma ==
  ASSUME NEW s \in Seq(NotComma)
  PROVE  Encode(s) \in Seq(NotComma)
<1>1. ASSUME NEW x \in NotComma PROVE Bytes(x) \in Seq(NotComma)
  <2>1. x \in Sign
    BY CommaSigns
  <2>2. CASE x \in Plain
    <3>1. Bytes(x) = <<x>>
      BY <2>1, <2>2, BytesType
    <3>2. QED
      BY <3>1
  <2>3. CASE x \notin Plain
    <3>1. PICK a, b \in Plain : /\ Bytes(x) = <<a, b>> /\ IsUnit(a) /\ IsUnit(b)
                                /\ a.kind = "lead" /\ b.kind = "trail"
      BY <2>1, <2>3, BytesType
    <3>2. a \in NotComma /\ b \in NotComma
      BY <3>1 DEF Plain, NotComma
    <3>3. QED
      BY <3>1, <3>2
  <2>4. QED
    BY <2>2, <2>3
<1>2. [i \in DOMAIN s |-> Bytes(s[i])] \in Seq(Seq(NotComma))
  <2>1. Len(s) \in Nat /\ DOMAIN s = 1..Len(s)
    BY LenProperties
  <2>2. \A i \in 1..Len(s) : Bytes(s[i]) \in Seq(NotComma)
    BY <1>1, ElementOfSeq
  <2>3. [i \in DOMAIN s |-> Bytes(s[i])] \in [1..Len(s) -> Seq(NotComma)]
    BY <2>1, <2>2
  <2>4. QED
    BY <2>1, <2>3
<1>3. QED
  BY <1>2, FlattenType DEF Encode

LEMMA EncodeCut ==
  ASSUME NEW s \in Seq(Sign)
  PROVE  CutAt(Encode(s)) = Encode(CutAt(s))
<1>1. CASE s \in Seq(NotComma)
  BY <1>1, EncodeNoComma, CutParts
<1>2. ASSUME NEW a \in Seq(Sign), NEW c \in Comma, NEW e \in Seq(NotComma), s = Around(a, c, e)
      PROVE  CutAt(Encode(s)) = Encode(CutAt(s))
  <2>1. /\ c \in Sign /\ c \in Plain /\ e \in Seq(Sign)
        /\ LastPart \in Seq(Lit) /\ LastPart \in Seq(Sign) /\ LastPart \in Seq(Plain)
    <3>1. Lit \subseteq Plain /\ Comma \subseteq Plain
      BY UnitFacts DEF Plain, Comma, Sign
    <3>2. LastPart \in Seq(Lit)
      BY Written
    <3>3. QED
      BY <3>1, <3>2, CommaSigns, LitSigns, SeqMonotonic
  <2> DEFINE ac == Glue(a, <<c>>)
             ea == Encode(a)
             ee == Encode(e)
  <2>2. <<c>> \in Seq(Sign) /\ <<c>> \in Seq(Plain)
    BY <2>1
  <2>3. ac \in Seq(Sign) /\ ea \in Seq(Plain) /\ ee \in Seq(NotComma)
    BY <2>1, <2>2, GlueFacts, EncodeType, EncodeNoComma
  <2>4. s = ac \o e
    BY <1>2, Zenon DEF Around, Glue
  <2>5. Encode(ac) = ea \o <<c>>
    BY <2>2, EncodeConcat, EncodePlain DEF Glue
  <2> HIDE DEF ac
  <2>6. Encode(s) = Encode(ac) \o ee
    BY <2>1, <2>3, <2>4, EncodeConcat
  <2>7. Encode(s) = Around(ea, c, ee)
    <3> HIDE DEF ea, ee
    <3>1. QED
      BY <2>5, <2>6 DEF Around
  <2>8. ea \in Seq(Sign)
    BY <2>3, PlainSigns, SeqMonotonic
  <2>9. CutAt(Encode(s)) = ea \o LastPart
    <3> HIDE DEF ea, ee
    <3>1. QED
      BY <2>3, <2>7, <2>8, CutParts
  <2>10. Encode(CutAt(s)) = Encode(a \o LastPart)
    BY <1>2, CutParts
  <2>11. Encode(a \o LastPart) = ea \o LastPart
    BY <2>1, EncodeConcat, EncodePlain
  <2> HIDE DEF ea
  <2>12. QED
    BY <2>9, <2>10, <2>11
<1>3. QED
  BY <1>1, <1>2, Split

-----------------------------------------------------------------------------
(* The digits that an address starts with                                  *)

(* A value is its leading digits and what follows them.                    *)
Figures == {x \in Unit : x.kind = "digit"}

LEMMA SplitDigits ==
  ASSUME NEW v \in Seq(Unit)
  PROVE  \E a \in Seq(Figures), r \in Seq(Unit) :
           v = a \o r /\ (r = <<>> \/ r[1].kind # "digit")
<1>1. Figures \in SUBSET Unit
  BY DEF Figures
<1>2. PICK a \in Seq(Figures), r \in Seq(Unit) : v = a \o r /\ (r = <<>> \/ r[1] \notin Figures)
  BY <1>1, SplitPrefix
<1>3. r # <<>> => r[1].kind # "digit"
  BY <1>2, FirstElement DEF Figures
<1>4. QED
  BY <1>2, <1>3

NonDigits(v) == {i \in DOMAIN v : v[i].kind # "digit"}
GoRest(v) == IF NonDigits(v) = {} THEN <<>> ELSE SubSeq(v, Lowest(NonDigits(v)), Len(v))

LEMMA DigitParts ==
  ASSUME NEW a \in Seq(Figures), NEW r \in Seq(Unit), r = <<>> \/ r[1].kind # "digit",
         NEW v, v = a \o r
  PROVE  /\ LeadDigits(v) = 1..Len(a)
         /\ RestOf(v) = r /\ GoRest(v) = r
         /\ r = v <=> a = <<>>
<1> DEFINE n == Len(a)
           m == Len(r)
<1>1. a \in Seq(Unit) /\ n \in Nat /\ m \in Nat
  BY SeqMonotonic, LenProperties DEF Figures
<1>2. /\ v \in Seq(Unit) /\ Len(v) = n + m
      /\ \A j \in 1..(n + m) : v[j] = IF j <= n THEN a[j] ELSE r[j - n]
  BY <1>1, GluedAt
<1>3. DOMAIN v = 1..(n + m)
  BY <1>2, LenProperties
<1>4. m = 0 <=> r = <<>>
  BY EmptySeq
<1>5. n = 0 <=> a = <<>>
  BY EmptySeq
<1>6. \A j \in 1..n : a[j].kind = "digit"
  <2>1. \A j \in 1..Len(a) : a[j] \in Figures
    BY ElementOfSeq
  <2>2. QED
    BY <2>1 DEF Figures
<1> HIDE DEF n, m
<1>7. \A j \in 1..n : j \in 1..(n + m) /\ v[j].kind = "digit"
  BY <1>1, <1>2, <1>6
<1>8. m > 0 => n + 1 \in 1..(n + m) /\ v[n + 1] = r[1] /\ v[n + 1].kind # "digit"
  <2> SUFFICES ASSUME m > 0 PROVE n + 1 \in 1..(n + m) /\ v[n + 1] = r[1] /\ v[n + 1].kind # "digit"
    OBVIOUS
  <2>1. n + 1 \in 1..(n + m) /\ ~(n + 1 <= n) /\ (n + 1) - n = 1
    BY <1>1
  <2>2. v[n + 1] = r[(n + 1) - n]
    BY <1>2, <2>1
  <2>3. v[n + 1] = r[1]
    BY <2>1, <2>2, Zenon
  <2>4. m # 0
    BY <1>1
  <2>5. r # <<>>
    BY <1>4, <2>4
  <2>6. QED
    BY <2>1, <2>3, <2>5
<1>9. LeadDigits(v) = 1..n
  <2>1. ASSUME NEW i \in LeadDigits(v) PROVE i \in 1..n
    <3>1. i \in 1..(n + m) /\ \A j \in 1..i : v[j].kind = "digit"
      BY <1>3 DEF LeadDigits
    <3>2. SUFFICES ASSUME i > n PROVE FALSE
      BY <1>1, <3>1
    <3>3. m > 0 /\ n + 1 \in 1..i
      BY <1>1, <3>1, <3>2
    <3>4. QED
      BY <1>8, <3>1, <3>3
  <2>2. ASSUME NEW i \in 1..n PROVE i \in LeadDigits(v)
    <3>1. \A j \in 1..i : j \in 1..n
      BY <1>1
    <3>2. QED
      BY <1>3, <1>7, <3>1 DEF LeadDigits
  <2>3. QED
    BY <2>1, <2>2
<1>10. m > 0 => NonDigits(v) # {} /\ Lowest(NonDigits(v)) = n + 1
  <2> SUFFICES ASSUME m > 0 PROVE NonDigits(v) # {} /\ Lowest(NonDigits(v)) = n + 1
    OBVIOUS
  <2>1. n + 1 \in NonDigits(v)
    BY <1>3, <1>8 DEF NonDigits
  <2>2. ASSUME NEW j \in NonDigits(v) PROVE n + 1 <= j
    <3>1. j \in 1..(n + m) /\ v[j].kind # "digit"
      BY <1>3 DEF NonDigits
    <3>2. ~(j \in 1..n)
      BY <1>7, <3>1
    <3>3. QED
      BY <1>1, <3>1, <3>2
  <2>3. NonDigits(v) \in SUBSET Nat
    BY <1>1, <1>3 DEF NonDigits
  <2>4. QED
    BY <2>1, <2>2, <2>3, LowestIs
<1>11. m = 0 => NonDigits(v) = {}
  <2> SUFFICES ASSUME m = 0 PROVE NonDigits(v) = {}
    OBVIOUS
  <2>1. DOMAIN v = 1..n
    BY <1>1, <1>3
  <2>2. QED
    BY <1>7, <2>1 DEF NonDigits
<1>12. SubSeq(v, n + 1, n + m) = r
  <2> DEFINE s == SubSeq(v, n + 1, n + m)
  <2>2. /\ s \in Seq(Unit) /\ Len(s) = IF n + 1 <= n + m THEN (n + m) - (n + 1) + 1 ELSE 0
        /\ \A j \in 1..((n + m) - (n + 1) + 1) : s[j] = v[(n + 1) + j - 1]
    <3>1. n + 1 \in Int /\ n + m \in Int /\ n + 1 >= 1 /\ n + m <= Len(v)
      BY <1>1, <1>2
    <3> DEFINE p == n + 1
               q == n + m
    <3> HIDE DEF p, q
    <3>2. p \in Int /\ q \in Int /\ p >= 1 /\ q <= Len(v)
      BY <3>1 DEF p, q
    <3>3. /\ SubSeq(v, p, q) \in Seq(Unit)
          /\ Len(SubSeq(v, p, q)) = IF p <= q THEN q - p + 1 ELSE 0
          /\ \A j \in 1..(q - p + 1) : SubSeq(v, p, q)[j] = v[p + j - 1]
      BY <1>2, <3>2, SubSeqFacts
    <3>4. QED
      BY <3>3 DEF p, q
  <2> HIDE DEF s
  <2>3. Len(s) = m /\ (n + m) - (n + 1) + 1 = m
    BY <1>1, <2>2
  <2>4. ASSUME NEW j \in 1..m PROVE s[j] = r[j]
    <3>1. PICK k \in Nat : k = (n + 1) + j - 1
      BY <1>1
    <3>2. k \in 1..(n + m) /\ ~(k <= n) /\ k - n = j /\ j \in 1..((n + m) - (n + 1) + 1)
      BY <1>1, <3>1
    <3>3. s[j] = v[k]
      BY <2>2, <3>1, <3>2
    <3>4. v[k] = r[k - n]
      BY <1>2, <3>2
    <3>5. QED
      BY <3>2, <3>3, <3>4, Zenon
  <2>5. s = r
    BY <2>2, <2>3, <2>4, SeqEqual DEF m
  <2>6. QED
    BY <2>5 DEF s
<1>13. GoRest(v) = r
  <2>1. CASE m > 0
    <3>1. GoRest(v) = SubSeq(v, n + 1, n + m)
      BY <1>2, <1>10, <2>1 DEF GoRest
    <3>2. QED
      BY <1>12, <2>1, <3>1
  <2>2. CASE m = 0
    BY <1>4, <1>11, <2>2 DEF GoRest
  <2>3. QED
    BY <1>1, <2>1, <2>2
<1>14. RestOf(v) = r
  <2>1. CASE n = 0
    <3>1. a = <<>> /\ 1..n = {}
      BY <1>5, <2>1
    <3>2. v = r
      BY <3>1, ConcatEmptySeq
    <3>3. QED
      BY <1>9, <3>1, <3>2 DEF RestOf
  <2>2. CASE n > 0
    <3>1. n \in 1..n /\ \A j \in 1..n : j <= n
      BY <1>1, <2>2
    <3>2. 1..n # {} /\ Highest(1..n) = n
      BY <1>1, <3>1, HighestIs
    <3>3. RestOf(v) = SubSeq(v, n + 1, n + m)
      BY <1>2, <1>9, <3>2 DEF RestOf, After
    <3>4. QED
      BY <1>12, <3>3
  <2>3. QED
    BY <1>1, <2>1, <2>2
<1>15. r = v <=> a = <<>>
  <2>1. ASSUME r = v PROVE a = <<>>
    <3>1. n + m = m
      BY <1>2, <2>1 DEF m
    <3>2. n = 0
      BY <1>1, <3>1
    <3>3. QED
      BY <1>5, <3>2
  <2>2. ASSUME a = <<>> PROVE r = v
    BY <2>2, ConcatEmptySeq
  <2>3. QED
    BY <2>1, <2>2
<1>16. QED
  BY <1>9, <1>13, <1>14, <1>15 DEF n

-----------------------------------------------------------------------------
(* The gateway's functions give what the backend's give for the same value *)

LEMMA GoEmail ==
  ASSUME NEW v \in Seq(Unit)
  PROVE  maskEmail(v) = MaskEmail(v) /\ partialEmail(v) = PartialEmail(v)
<1>0. Len(v) \in Nat
  BY LenProperties
<1>1. CASE Places(v, "at") = {}
  <2>1. maskEmail(v) = MaskEmail(v)
    BY <1>1, Zenon DEF maskEmail, MaskEmail, HasAt
  <2> DEFINE h == IF Len(v) >= 3 THEN Upto(v, 3) ELSE v
  <2>2. h = Upto(v, 3)
    <3>1. Len(v) >= 3 \/ 3 >= Len(v)
      BY <1>0
    <3>2. 3 >= Len(v) => Upto(v, 3) = v
      BY PieceTypes
    <3>3. QED
      BY <3>1, <3>2
  <2>3. partialEmail(v) = h \o Text("***") /\ PartialEmail(v) = Upto(v, 3) \o Text("***")
    BY <1>1, Zenon DEF partialEmail, PartialEmail, HasAt
  <2> HIDE DEF h
  <2>4. QED
    BY <2>1, <2>2, <2>3
<1>2. CASE Places(v, "at") # {}
  <2> DEFINE at == Lowest(Places(v, "at"))
             local == Before(v, at)
             domain == After(v, at)
             h == IF Len(local) >= 2 THEN Upto(local, 2) ELSE local
  <2>1. at \in 1..Len(v)
    BY <1>2, PlacesFacts
  <2>2. local \in Seq(Unit) /\ Len(local) \in Nat
    <3>1. local \in Seq(Unit)
      <4> HIDE DEF at
      <4>1. QED
        BY <2>1, PieceTypes
    <3> HIDE DEF local
    <3>2. QED
      BY <3>1, LenProperties
  <2>3. h = Upto(local, 2)
    <3> HIDE DEF local
    <3>1. Len(local) >= 2 \/ 2 >= Len(local)
      BY <2>2
    <3>2. 2 >= Len(local) => Upto(local, 2) = local
      BY <2>2, PieceTypes
    <3>3. QED
      BY <3>1, <3>2
  <2>4. partialEmail(v) = Glue(Glue(Glue(h, Stars(Len(local) - 2)), Text("@")), domain)
    BY <1>2, Zenon DEF partialEmail, HasAt, Local, Domain, Glue
  <2>5. PartialEmail(v) = Glue(Glue(Glue(Upto(local, 2), Stars(Len(local) - 2)), Text("@")), domain)
    BY <1>2, Zenon DEF PartialEmail, Glue
  <2>6. MaskEmail(v) = Glue(Glue(Upto(local, 1), Text("***@")), domain)
    BY <1>2, Zenon DEF MaskEmail, Glue
  <2>7. maskEmail(v) = MaskEmail(v)
    <3>1. CASE local = <<>>
      <4>1. maskEmail(v) = Glue(Text("***@"), domain)
        BY <1>2, <3>1, Zenon DEF maskEmail, HasAt, Local, Domain, Glue
      <4>2. Upto(local, 1) = <<>>
        <5>1. 1 >= Len(local)
          <6> HIDE DEF local
          <6>1. QED
            BY <3>1, EmptySeq
        <5> HIDE DEF local
        <5>2. QED
          BY <2>2, <3>1, <5>1, UptoAll
      <4>3. Glue(Upto(local, 1), Text("***@")) = Text("***@")
        <5>1. Text("***@") \in Seq(Lit)
          BY Written
        <5> HIDE DEF local
        <5>2. <<>> \o Text("***@") = Text("***@")
          BY <5>1, ConcatEmptySeq
        <5>3. QED
          BY <4>2, <5>2, Zenon DEF Glue
      <4> HIDE DEF local, domain
      <4>4. QED
        BY <2>6, <4>1, <4>3, Zenon
    <3>2. CASE local # <<>>
      <4>1. maskEmail(v) = Glue(Glue(Upto(v, 1), Text("***@")), domain)
        BY <1>2, <3>2, Zenon DEF maskEmail, HasAt, Local, Domain, Glue
      <4>2. Upto(v, 1) = Upto(local, 1)
        <5> HIDE DEF at
        <5>1. QED
          BY <2>1, <3>2, UptoBefore
      <4> HIDE DEF local, domain
      <4>3. QED
        BY <2>6, <4>1, <4>2
    <3>3. QED
      BY <3>1, <3>2
  <2> HIDE DEF h, local, domain
  <2>8. QED
    BY <2>3, <2>4, <2>5, <2>7
<1>3. QED
  BY <1>1, <1>2

LEMMA GoPhone ==
  ASSUME NEW v \in Seq(Unit)
  PROVE  maskPhone(v) = MaskPhone(v) /\ partialPhone(v) = PartialPhone(v)
<1> DEFINE d == Digits(v)
           e == Len(d)
           n == Len(v)
           s == Starred(Upto(v, Len(v) - 4))
<1>1. e \in Nat /\ n \in Nat /\ e <= n
  BY PiecesType, DigitsLen
<1>2. partialPhone(v) = PartialPhone(v)
  BY Zenon DEF partialPhone, PartialPhone
<1> HIDE DEF e, n
<1>3. CASE e < 4
  <2>1. ~(e >= 4)
    BY <1>1, <1>3
  <2>2. maskPhone(v) = Text("***-***-") \o d /\ MaskPhone(v) = Text("***-***-") \o d
    BY <1>3, <2>1, Zenon DEF maskPhone, MaskPhone, e
  <2>3. QED
    BY <1>2, <2>2, Zenon
<1>4. CASE e >= 4 /\ n = 4
  <2>1. ~(e < 4) /\ ~(n > 4)
    BY <1>1, <1>4
  <2>2. maskPhone(v) = Text("***-***-") \o Last4(d) /\ MaskPhone(v) = Text("***-***-") \o Last4(d)
    BY <1>4, <2>1, Zenon DEF maskPhone, MaskPhone, e, n
  <2>3. QED
    BY <1>2, <2>2, Zenon
<1>5. CASE e >= 4 /\ n > 4
  <2>1. ~(e < 4) /\ n # 4
    BY <1>1, <1>5
  <2>2. maskPhone(v) = s \o Last4(d) /\ MaskPhone(v) = s \o Last4(d)
    BY <1>5, <2>1, Zenon DEF maskPhone, MaskPhone, e, n
  <2>3. QED
    BY <1>2, <2>2, Zenon
<1>6. QED
  BY <1>1, <1>3, <1>4, <1>5

LEMMA GoCard ==
  ASSUME NEW v \in Seq(Unit)
  PROVE  maskCreditCard(v) = MaskCreditCard(v) /\ partialCard(v) = PartialCard(v)
<1> DEFINE d == Digits(v)
           m == Text("****-****-") \o SubSeq(d, Len(d) - 7, Len(d) - 4) \o Text("-") \o Last4(d)
<1>1. Len(d) \in Nat /\ Len(v) \in Nat
  BY PiecesType
<1>2. maskCreditCard(v) = MaskCreditCard(v)
  BY Zenon DEF maskCreditCard, MaskCreditCard
<1>3. CASE Len(d) >= 8
  <2>1. ~(Len(d) < 8)
    BY <1>1, <1>3
  <2>2. Len(v) >= 8 /\ ~(Len(v) < 4)
    <3>1. Len(d) <= Len(v)
      BY DigitsLen
    <3> HIDE DEF d
    <3>2. QED
      BY <1>1, <1>3, <3>1
  <2>3. partialCard(v) = m /\ PartialCard(v) = m
    BY <1>3, <2>1, <2>2, Zenon DEF partialCard, PartialCard
  <2>4. QED
    BY <1>2, <2>3, Zenon
<1>4. CASE Len(d) < 8 /\ Len(v) >= 4
  <2>1. ~(Len(d) >= 8) /\ ~(Len(v) < 4)
    BY <1>1, <1>4
  <2>2. partialCard(v) = Text("****-") \o Last4(v) /\ PartialCard(v) = Text("****-") \o Last4(v)
    BY <1>4, <2>1, Zenon DEF partialCard, PartialCard
  <2>3. QED
    BY <1>2, <2>2, Zenon
<1>5. CASE Len(d) < 8 /\ Len(v) < 4
  <2>1. ~(Len(d) >= 8) /\ ~(Len(v) >= 4)
    BY <1>1, <1>5
  <2>2. Last4(v) = v
    BY <1>5, Zenon DEF Last4
  <2>3. partialCard(v) = Text("****-") \o v /\ PartialCard(v) = Text("****-") \o Last4(v)
    BY <1>5, <2>1, Zenon DEF partialCard, PartialCard
  <2>4. QED
    BY <1>2, <2>2, <2>3, Zenon
<1>6. QED
  <2> HIDE DEF d
  <2>1. QED
    BY <1>1, <1>3, <1>4, <1>5

LEMMA GoSsn ==
  ASSUME NEW v \in Seq(Unit)
  PROVE  maskSSN(v) = MaskSsn(v) /\ partialSSN(v) = PartialSsn(v)
<1>1. Len(Digits(v)) \in Nat
  BY PiecesType
<1>2. Len(Digits(v)) < 4 <=> ~(Len(Digits(v)) >= 4)
  BY <1>1
<1>3. QED
  BY <1>2, Zenon DEF maskSSN, MaskSsn, partialSSN, PartialSsn

LEMMA GoName ==
  ASSUME NEW v \in Seq(Unit)
  PROVE  maskName(v) = MaskName(v) /\ partialName(v) = PartialName(v)
<1> DEFINE p == Initials(v)
           two == Word(v, p[1]) \o Blank \o <<Last(p)>> \o Text("***")
<1>1. Len(p) \in Nat /\ p \in Seq(Unit)
  BY PiecesType, NameParts
<1>2. maskName(v) = MaskName(v)
  BY Zenon DEF maskName, MaskName
<1>3. CASE Len(p) >= 2
  <2>1. Len(p) # 1
    BY <1>1, <1>3, AtLeast2, Zenon
  <2>2. Len(p) # 0
    <3> HIDE DEF p
    <3>1. QED
      BY <1>1, <1>3
  <2>3. partialName(v) = two /\ PartialName(v) = two
    <3>1. partialName(v) = two
      BY <1>3, <2>1, <2>2, Zenon DEF partialName, Blank, Last
    <3>2. PartialName(v) = two
      BY <1>3, PartialNameIs, Zenon
    <3>3. QED
      BY <3>1, <3>2, Zenon
  <2>4. QED
    BY <1>2, <2>3, Zenon
<1>4. CASE Len(p) = 1
  <2>1. ~(Len(p) >= 2) /\ Len(p) # 0
    BY <1>4
  <2>2. partialName(v) = Word(v, p[1])
    BY <1>4, <2>1, Zenon DEF partialName
  <2>3. PartialName(v) = Word(v, p[1])
    BY <1>4, PartialNameIs, Zenon
  <2>4. QED
    BY <1>2, <2>2, <2>3, Zenon
<1>5. CASE Len(p) = 0
  <2>1. ~(Len(p) >= 2) /\ Len(p) # 1
    BY <1>5
  <2>2. partialName(v) = v
    BY <1>5, <2>1, Zenon DEF partialName
  <2>3. PartialName(v) = v
    BY <1>5, PartialNameIs, Zenon
  <2>4. QED
    BY <1>2, <2>2, <2>3, Zenon
<1>6. QED
  BY <1>1, <1>3, <1>4, <1>5, Below2, Zenon

LEMMA GoOthers ==
  ASSUME NEW v \in Seq(Unit), v # <<>>
  PROVE  /\ Len(v) # 1 => maskIPAddress(v) = MaskIpAddress(v)
         /\ maskAccount(v) = MaskAccount(v) /\ maskGovtID(v) = MaskGovtId(v)
         /\ maskAmount(v) = MaskAmount(v) /\ maskSecret(v) = MaskSecret(v)
         /\ maskLocation(v) = MaskLocation(v) /\ maskSensitive(v) = MaskSensitive(v)
         /\ maskGeneric(v) = MaskGeneric(v) /\ partialGeneric(v) = PartialGeneric(v)
<1> DEFINE n == Len(v)
<1>0. n \in Nat /\ n # 0
  <2>1. n # 0
    BY EmptySeq
  <2>2. QED
    BY <2>1, LenProperties
<1> HIDE DEF n
<1>1. ASSUME n # 1 PROVE maskIPAddress(v) = MaskIpAddress(v)
  <2>1. CASE Cardinality(Places(v, "dot")) = 3
    BY <1>1, <2>1, Zenon DEF maskIPAddress, MaskIpAddress, n
  <2>2. CASE Cardinality(Places(v, "dot")) # 3
    <3>1. n > 1
      BY <1>0, <1>1
    <3>2. QED
      BY <1>1, <2>2, <3>1, Zenon DEF maskIPAddress, MaskIpAddress, n
  <2>3. QED
    BY <2>1, <2>2
<1>2. maskAccount(v) = MaskAccount(v)
  BY Zenon DEF maskAccount, MaskAccount
<1>3. maskGovtID(v) = MaskGovtId(v)
  <2>1. CASE Len(Digits(v)) >= 4
    BY <2>1, Zenon DEF maskGovtID, MaskGovtId, maskAccount
  <2>2. CASE ~(Len(Digits(v)) >= 4)
    BY <2>2, Zenon DEF maskGovtID, MaskGovtId, maskAccount
  <2>3. QED
    BY <2>1, <2>2
<1>4. /\ maskAmount(v) = MaskAmount(v) /\ maskSecret(v) = MaskSecret(v)
      /\ maskLocation(v) = MaskLocation(v) /\ maskSensitive(v) = MaskSensitive(v)
      /\ maskGeneric(v) = MaskGeneric(v)
  BY Zenon DEF maskAmount, MaskAmount, maskSecret, MaskSecret, maskLocation, MaskLocation,
               maskSensitive, MaskSensitive, maskGeneric, MaskGeneric
<1>5. partialGeneric(v) = PartialGeneric(v)
  <2> DEFINE a == Upto(v, 2) \o Text("***") \o SubSeq(v, Len(v) - 1, Len(v))
             b == Upto(v, 1) \o Text("***")
  <2>1. CASE n > 4
    <3>1. n \notin 2..4 /\ n # 1
      BY <1>0, <2>1
    <3>2. partialGeneric(v) = a /\ PartialGeneric(v) = a
      BY <2>1, <3>1, Zenon DEF partialGeneric, PartialGeneric, n
    <3>3. QED
      BY <3>2, Zenon
  <2>2. CASE n \in 2..4
    <3>1. ~(n > 4) /\ n # 1
      BY <1>0, <2>2
    <3>2. partialGeneric(v) = b /\ PartialGeneric(v) = b
      BY <2>2, <3>1, Zenon DEF partialGeneric, PartialGeneric, n
    <3>3. QED
      BY <3>2, Zenon
  <2>3. CASE n = 1
    <3>1. ~(n > 4) /\ n \notin 2..4
      BY <2>3
    <3>2. partialGeneric(v) = Text("***") /\ PartialGeneric(v) = Text("***")
      BY <2>3, <3>1, Zenon DEF partialGeneric, PartialGeneric, n
    <3>3. QED
      BY <3>2, Zenon
  <2>4. QED
    BY <1>0, <2>1, <2>2, <2>3
<1>6. QED
  BY <1>1, <1>2, <1>3, <1>4, <1>5 DEF n

LEMMA GoAddress ==
  ASSUME NEW v \in Seq(Unit)
  PROVE  maskAddress(v) = MaskAddress(v)
<1> DEFINE p == IF GoRest(v) = v THEN <<>> ELSE Text("***")
           q == IF LeadDigits(v) = {} THEN <<>> ELSE Text("***")
<1>1. maskAddress(v) = CutAt(p \o GoRest(v))
  BY Zenon DEF maskAddress, CutAt, GoRest, NonDigits, Commas, LastPart
<1>2. MaskAddress(v) = q \o CutComma(RestOf(v))
  BY MaskAddressIs, Zenon
<1>3. PICK a \in Seq(Figures), r \in Seq(Unit) : v = a \o r /\ (r = <<>> \/ r[1].kind # "digit")
  BY SplitDigits
<1>4. LeadDigits(v) = 1..Len(a) /\ RestOf(v) = r /\ GoRest(v) = r /\ (r = v <=> a = <<>>)
  BY <1>3, DigitParts
<1>5. LeadDigits(v) = {} <=> a = <<>>
  <2>1. Len(a) \in Nat /\ (a = <<>> <=> Len(a) = 0)
    BY LenProperties, EmptySeq
  <2>2. QED
    BY <1>4, <2>1
<1>6. p = q
  BY <1>4, <1>5
<1>7. p \in Seq(Lit)
  BY Written, EmptySeq
<1> HIDE DEF p, q
<1>8. r \in Seq(Sign)
  BY LitSigns, SeqMonotonic
<1>9. CutAt(p \o r) = p \o CutAt(r)
  BY <1>7, <1>8, CutAfter
<1>10. CutAt(r) = CutComma(r)
  BY CutUnits
<1>11. QED
  BY <1>1, <1>2, <1>4, <1>6, <1>9, <1>10

(* The gateway's function of a type gives what the backend's gives.        *)
LEMMA GoFull ==
  ASSUME NEW v \in Seq(Unit), v # <<>>, NEW type \in Types, type = "IP_ADDRESS" => Len(v) # 1
  PROVE  maskFn(v, type) = Full(v, type)
<1>1. CASE type = "IP_ADDRESS"
  <2>0. Len(v) # 1
    BY <1>1, Zenon
  <2>1. maskIPAddress(v) = MaskIpAddress(v)
    BY <2>0, GoOthers, Zenon
  <2>2. QED
    BY <1>1, <2>1 DEF maskFn, Full, MaskTypes
<1>2. CASE type = "DOB"
  <2>1. maskDOB(v) = MaskDob(v)
    BY MaskDobIs, Zenon
  <2>2. QED
    BY <1>2, <2>1 DEF maskFn, Full, MaskTypes
<1>3. CASE type \in {"EMAIL", "PHONE", "SSN", "CREDIT_CARD", "NAME", "ADDRESS"}
  <2>1. /\ maskEmail(v) = MaskEmail(v) /\ maskPhone(v) = MaskPhone(v) /\ maskSSN(v) = MaskSsn(v)
        /\ maskCreditCard(v) = MaskCreditCard(v) /\ maskName(v) = MaskName(v)
        /\ maskAddress(v) = MaskAddress(v)
    BY GoEmail, GoPhone, GoSsn, GoCard, GoName, GoAddress
  <2>2. QED
    BY <1>3, <2>1 DEF maskFn, Full, MaskTypes
<1>4. CASE type \in {"AMOUNT", "ACCOUNT", "GOVT_ID", "TAX_ID", "SECRET", "LOCATION", "SENSITIVE"}
  <2>1. /\ maskAccount(v) = MaskAccount(v) /\ maskGovtID(v) = MaskGovtId(v)
        /\ maskAmount(v) = MaskAmount(v) /\ maskSecret(v) = MaskSecret(v)
        /\ maskLocation(v) = MaskLocation(v) /\ maskSensitive(v) = MaskSensitive(v)
    BY GoOthers
  <2>2. QED
    BY <1>4, <2>1 DEF maskFn, Full, MaskTypes
<1>5. CASE type = "none"
  <2>1. maskGeneric(v) = MaskGeneric(v)
    BY GoOthers
  <2>2. QED
    BY <1>5, <2>1 DEF maskFn, Full, MaskTypes
<1>6. QED
  BY <1>1, <1>2, <1>3, <1>4, <1>5 DEF Types, MaskTypes

LEMMA GoPartial ==
  ASSUME NEW v \in Seq(Unit), v # <<>>, NEW type \in PartialTypes
  PROVE  partialMaskFn(v, type) = Partial(v, type)
<1>1. /\ partialEmail(v) = PartialEmail(v) /\ partialPhone(v) = PartialPhone(v)
      /\ partialSSN(v) = PartialSsn(v) /\ partialCard(v) = PartialCard(v)
      /\ partialName(v) = PartialName(v)
  BY GoEmail, GoPhone, GoSsn, GoCard, GoName
<1>2. QED
  BY <1>1 DEF partialMaskFn, Partial, PartialTypes

LEMMA GoIsPython ==
  ASSUME NEW v \in Seq(Unit), NEW type \in Types, NEW level \in {"raw", "partial", "full"},
         type = "IP_ADDRESS" /\ level # "raw" => Len(v) # 1
  PROVE  maskValue(v, type, level) = MaskValue(v, type, level)
<1>1. CASE level = "raw" \/ v = <<>>
  BY <1>1, Zenon DEF maskValue, MaskValue
<1>2. CASE level = "full" /\ v # <<>>
  <2>1. maskValue(v, type, level) = maskFn(v, type) /\ MaskValue(v, type, level) = Full(v, type)
    BY <1>2 DEF maskValue, MaskValue
  <2>2. QED
    BY <1>2, <2>1, GoFull
<1>3. CASE level = "partial" /\ v # <<>>
  <2>1. MaskValue(v, type, level) = Partial(v, type)
    BY <1>3 DEF MaskValue
  <2>2. CASE type \in PartialTypes
    <3>1. maskValue(v, type, level) = partialMaskFn(v, type)
      BY <1>3, <2>2 DEF maskValue, MaskTypes, PartialTypes
    <3>2. QED
      BY <1>3, <2>1, <2>2, <3>1, GoPartial
  <2>3. CASE type \in MaskTypes \ PartialTypes
    <3>1. maskValue(v, type, level) = maskFn(v, type)
      BY <1>3, <2>3 DEF maskValue
    <3>2. Partial(v, type) = Full(v, type)
      BY <2>3 DEF Partial, MaskTypes, PartialTypes
    <3>3. QED
      BY <1>3, <2>1, <3>1, <3>2, GoFull
  <2>4. CASE type = "none"
    <3>1. maskValue(v, type, level) = partialGeneric(v)
      BY <1>3, <2>4 DEF maskValue, MaskTypes, PartialTypes
    <3>2. Partial(v, type) = PartialGeneric(v)
      BY <2>4 DEF Partial, MaskTypes, PartialTypes
    <3>3. QED
      BY <1>3, <2>1, <3>1, <3>2, GoOthers
  <2>5. QED
    BY <2>2, <2>3, <2>4 DEF Types
<1>4. QED
  BY <1>1, <1>2, <1>3

-----------------------------------------------------------------------------
(* The backend's functions of a value's encoding give the encoding of what *)
(* they give for the value                                                 *)

LEMMA EncodeAddress ==
  ASSUME NEW v \in Seq(Unit)
  PROVE  MaskAddress(Encode(v)) = Encode(MaskAddress(v))
<1>1. PICK a \in Seq(Figures), r \in Seq(Unit) : v = a \o r /\ (r = <<>> \/ r[1].kind # "digit")
  BY SplitDigits
<1> DEFINE w == Encode(v)
           er == Encode(r)
           p == IF 1..Len(a) = {} THEN <<>> ELSE Text("***")
<1>2. a \in Seq(Sign) /\ a \in Seq(Plain) /\ r \in Seq(Sign)
  <2>1. Figures \subseteq Sign /\ Figures \subseteq Plain
    BY LitSigns DEF Figures, Plain
  <2>2. QED
    BY <2>1, LitSigns, SeqMonotonic
<1>3. w = a \o er
  <2>1. Encode(a \o r) = Encode(a) \o Encode(r)
    BY <1>2, EncodeConcat
  <2>2. Encode(a) = a
    BY <1>2, EncodePlain
  <2>3. QED
    BY <1>1, <2>1, <2>2
<1>4. er \in Seq(Unit) /\ (er = <<>> \/ er[1].kind # "digit")
  <2>1. er \in Seq(Unit)
    BY EncodeUnits
  <2>2. r = <<>> => er = <<>>
    BY EncodeEmpty
  <2>3. r # <<>> => er[1].kind # "digit"
    BY <1>1, EncodeFirst
  <2>4. QED
    BY <2>1, <2>2, <2>3
<1>5. LeadDigits(v) = 1..Len(a) /\ RestOf(v) = r
  BY <1>1, DigitParts
<1>6. LeadDigits(w) = 1..Len(a) /\ RestOf(w) = er
  <2> HIDE DEF w, er
  <2>1. QED
    BY <1>3, <1>4, DigitParts
<1>7. MaskAddress(v) = p \o CutAt(r)
  <2>1. MaskAddress(v) = p \o CutComma(r)
    BY <1>5, MaskAddressIs, Zenon
  <2>2. QED
    BY <2>1, CutUnits
<1>8. MaskAddress(w) = p \o CutAt(er)
  <2>1. MaskAddress(w) = p \o CutComma(er)
    BY <1>6, MaskAddressIs, Zenon
  <2> HIDE DEF er, p, w
  <2>2. QED
    BY <1>4, <2>1, CutUnits
<1>9. p \in Seq(Sign) /\ p \in Seq(Plain)
  <2>1. Lit \subseteq Plain
    BY UnitFacts DEF Plain, Sign
  <2>2. QED
    BY <2>1, LitSigns, Written, EmptySeq
<1> HIDE DEF p
<1>10. CutAt(r) \in Seq(Sign)
  <2>1. CutAt(r) = CutComma(r)
    BY CutUnits
  <2>2. QED
    BY <1>2, <2>1, LitSigns, CutCommaType
<1>11. Encode(p \o CutAt(r)) = p \o Encode(CutAt(r))
  BY <1>9, <1>10, EncodeConcat, EncodePlain
<1>12. Encode(CutAt(r)) = CutAt(er)
  BY <1>2, EncodeCut
<1>13. QED
  BY <1>7, <1>8, <1>11, <1>12, Zenon

(* The mask of a date reads no further than a character of no date.        *)
LEMMA SameStart ==
  ASSUME NEW a \in Seq(Unit), NEW r \in Seq(Unit), r = <<>> \/ r[1].kind \notin DateKinds,
         NEW v, v = a \o r, NEW kinds \in Seq(DateKinds)
  PROVE  StartsWith(v, kinds) <=> StartsWith(a, kinds)
<1> DEFINE n == Len(a)
           m == Len(r)
           k == Len(kinds)
<1>1. n \in Nat /\ m \in Nat /\ k \in Nat /\ DOMAIN kinds = 1..k
  BY LenProperties
<1>2. /\ v \in Seq(Unit) /\ Len(v) = n + m
      /\ \A j \in 1..(n + m) : v[j] = IF j <= n THEN a[j] ELSE r[j - n]
  BY GluedAt
<1>3. m = 0 <=> r = <<>>
  BY EmptySeq
<1>4. \A j \in 1..k : kinds[j] \in DateKinds
  BY ElementOfSeq
<1>5. /\ StartsWith(a, kinds) <=> k <= n /\ \A i \in 1..k : a[i].kind = kinds[i]
      /\ StartsWith(v, kinds) <=> k <= n + m /\ \A i \in 1..k : v[i].kind = kinds[i]
  BY <1>1, <1>2 DEF StartsWith
<1> HIDE DEF n, m, k
<1>6. k <= n => \A i \in 1..k : v[i] = a[i]
  <2> SUFFICES ASSUME k <= n, NEW i \in 1..k PROVE v[i] = a[i]
    OBVIOUS
  <2>1. i \in 1..(n + m) /\ i <= n
    BY <1>1
  <2>2. QED
    BY <1>2, <2>1
<1>7. StartsWith(v, kinds) => k <= n
  <2> SUFFICES ASSUME StartsWith(v, kinds), k > n PROVE FALSE
    BY <1>1
  <2>1. k <= n + m /\ \A i \in 1..k : v[i].kind = kinds[i]
    BY <1>5
  <2>2. n + 1 \in 1..k /\ n + 1 \in 1..(n + m) /\ ~(n + 1 <= n) /\ (n + 1) - n = 1 /\ m # 0
    BY <1>1, <2>1
  <2>3. v[n + 1] = r[(n + 1) - n]
    BY <1>2, <2>2
  <2>4. v[n + 1] = r[1]
    BY <2>2, <2>3, Zenon
  <2>5. r[1].kind = kinds[n + 1]
    BY <2>1, <2>2, <2>4
  <2>6. QED
    BY <1>3, <1>4, <2>2, <2>5
<1>8. k <= n => k <= n + m
  BY <1>1
<1>9. QED
  BY <1>5, <1>6, <1>7, <1>8

LEMMA DobPrefix ==
  ASSUME NEW a \in Seq(Unit), NEW r \in Seq(Unit), r = <<>> \/ r[1].kind \notin DateKinds,
         NEW v, v = a \o r
  PROVE  MaskDob(v) = MaskDob(a)
<1>1. StartsWith(v, Iso) <=> StartsWith(a, Iso)
  BY DateShapes, SameStart
<1>2. UsMonths(v) = UsMonths(a)
  <2>1. \A x, y \in 1..2 : StartsWith(v, Us(x, y)) <=> StartsWith(a, Us(x, y))
    <3> SUFFICES ASSUME NEW x \in 1..2, NEW y \in 1..2
                 PROVE  StartsWith(v, Us(x, y)) <=> StartsWith(a, Us(x, y))
      OBVIOUS
    <3>1. Us(x, y) \in Seq(DateKinds)
      BY DateShapes
    <3>2. QED
      BY <3>1, SameStart
  <2>2. QED
    BY <2>1 DEF UsMonths
<1>3. StartsWith(a, Iso) => SubSeq(v, 6, 7) = SubSeq(a, 6, 7)
  <2> SUFFICES ASSUME StartsWith(a, Iso) PROVE SubSeq(v, 6, 7) = SubSeq(a, 6, 7)
    OBVIOUS
  <2>1. Len(a) >= 10 /\ Len(a) \in Nat
    BY DateShapes, LenProperties DEF StartsWith
  <2>2. \A x, y \in Int : x >= 1 /\ y <= Len(a) => SubSeq(v, x, y) = SubSeq(a, x, y)
    BY SamePiece
  <2>3. 6 \in Int /\ 7 \in Int /\ 6 >= 1 /\ 7 <= Len(a)
    BY <2>1
  <2>4. QED
    BY <2>2, <2>3, Zenon
<1>4. UsMonths(a) # {} => Upto(v, Lowest(UsMonths(a))) = Upto(a, Lowest(UsMonths(a)))
  <2> SUFFICES ASSUME UsMonths(a) # {}
               PROVE  Upto(v, Lowest(UsMonths(a))) = Upto(a, Lowest(UsMonths(a)))
    OBVIOUS
  <2> DEFINE k == Lowest(UsMonths(a))
             n == Len(a)
             m == Len(r)
  <2>1. k \in UsMonths(a)
    <3>1. UsMonths(a) \in SUBSET Nat
      BY DEF UsMonths
    <3>2. QED
      BY <3>1, LowestFacts
  <2> HIDE DEF k
  <2>2. k \in 1..2 /\ \E d \in 1..2 : StartsWith(a, Us(k, d))
    BY <2>1 DEF UsMonths
  <2>3. n \in Nat /\ m \in Nat
    BY LenProperties
  <2>4. k <= n
    <3>1. PICK d \in 1..2 : StartsWith(a, Us(k, d))
      BY <2>2
    <3>2. Us(k, d) \in Seq(DateKinds) /\ Len(Us(k, d)) >= k
      BY <2>2, DateShapes
    <3>3. Len(Us(k, d)) <= n /\ Len(Us(k, d)) \in Nat
      BY <3>1, <3>2, LenProperties DEF StartsWith
    <3>4. QED
      BY <2>2, <2>3, <3>2, <3>3
  <2>5. Len(v) = n + m
    BY GluedAt
  <2>6. Upto(a, k) = SubSeq(a, 1, k) /\ Upto(v, k) = SubSeq(v, 1, k)
    <3> HIDE DEF n, m
    <3>1. (IF k < n THEN k ELSE n) = k /\ (IF k < Len(v) THEN k ELSE Len(v)) = k
      BY <2>2, <2>3, <2>4, <2>5
    <3>2. QED
      BY <3>1, Zenon DEF Upto, n
  <2>7. SubSeq(v, 1, k) = SubSeq(a, 1, k)
    <3>1. \A x, y \in Int : x >= 1 /\ y <= Len(a) => SubSeq(v, x, y) = SubSeq(a, x, y)
      BY SamePiece
    <3>2. 1 \in Int /\ k \in Int /\ 1 >= 1 /\ k <= Len(a)
      BY <2>2, <2>4
    <3>3. QED
      BY <3>1, <3>2, Zenon
  <2>8. QED
    BY <2>6, <2>7 DEF k
<1>5. CASE StartsWith(a, Iso)
  <2>1. MaskDob(v) = Text("****-") \o SubSeq(v, 6, 7) \o Text("-**")
    BY <1>1, <1>5, MaskDobIs, Zenon
  <2>2. MaskDob(a) = Text("****-") \o SubSeq(a, 6, 7) \o Text("-**")
    BY <1>5, MaskDobIs, Zenon
  <2>3. QED
    BY <1>3, <1>5, <2>1, <2>2, Zenon
<1>6. CASE ~StartsWith(a, Iso) /\ UsMonths(a) # {}
  <2>1. MaskDob(v) = Upto(v, Lowest(UsMonths(v))) \o Text("/**/****")
    BY <1>1, <1>2, <1>6, MaskDobIs, Zenon
  <2>2. MaskDob(a) = Upto(a, Lowest(UsMonths(a))) \o Text("/**/****")
    BY <1>6, MaskDobIs, Zenon
  <2>3. QED
    BY <1>2, <1>4, <1>6, <2>1, <2>2, Zenon
<1>7. CASE ~StartsWith(a, Iso) /\ UsMonths(a) = {}
  <2>1. MaskDob(v) = AnyDate
    BY <1>1, <1>2, <1>7, MaskDobIs, Zenon
  <2>2. MaskDob(a) = AnyDate
    BY <1>7, MaskDobIs, Zenon
  <2>3. QED
    BY <2>1, <2>2
<1>8. QED
  BY <1>5, <1>6, <1>7

Narrow == {x \in Unit : x.kind # "wide"}

LEMMA EncodeDob ==
  ASSUME NEW v \in Seq(Unit)
  PROVE  MaskDob(Encode(v)) = Encode(MaskDob(v))
<1>1. Narrow \in SUBSET Unit
  BY DEF Narrow
<1>2. PICK a \in Seq(Narrow), r \in Seq(Unit) : v = a \o r /\ (r = <<>> \/ r[1] \notin Narrow)
  BY <1>1, SplitPrefix
<1>3. r # <<>> => r[1].kind = "wide"
  BY <1>2, FirstElement DEF Narrow
<1> DEFINE er == Encode(r)
           w == Encode(v)
<1>4. er \in Seq(Unit) /\ (er = <<>> \/ er[1].kind = "lead")
  <2>1. er \in Seq(Unit)
    BY EncodeUnits
  <2>2. r = <<>> => er = <<>>
    BY EncodeEmpty
  <2>3. r # <<>> => er[1].kind = "lead"
    BY <1>3, EncodeFirst
  <2>4. QED
    BY <2>1, <2>2, <2>3
<1>5. a \in Seq(Unit) /\ a \in Seq(Plain) /\ a \in Seq(Sign) /\ r \in Seq(Sign)
  <2>1. /\ Narrow \subseteq Plain /\ Narrow \subseteq Sign /\ Narrow \subseteq Unit
        /\ Unit \subseteq Sign
    BY LitSigns DEF Plain, Narrow
  <2>2. QED
    BY <2>1, SeqMonotonic
<1>6. w = a \o er
  <2>1. Encode(a \o r) = Encode(a) \o Encode(r)
    BY <1>5, EncodeConcat
  <2>2. Encode(a) = a
    BY <1>5, EncodePlain
  <2>3. QED
    BY <1>2, <2>1, <2>2
<1>7. "wide" \notin DateKinds /\ "lead" \notin DateKinds
  BY DEF DateKinds
<1> HIDE DEF w, er
<1>8. MaskDob(v) = MaskDob(a)
  <2>1. r = <<>> \/ r[1].kind \notin DateKinds
    BY <1>3, <1>7
  <2>2. v = a \o r /\ a \in Seq(Unit)
    BY <1>2, <1>5
  <2>3. QED
    BY <2>1, <2>2, DobPrefix
<1>9. MaskDob(w) = MaskDob(a)
  <2>1. er \in Seq(Unit) /\ (er = <<>> \/ er[1].kind \notin DateKinds)
    BY <1>4, <1>7
  <2>2. w = a \o er /\ a \in Seq(Unit)
    BY <1>5, <1>6
  <2>3. QED
    BY <2>1, <2>2, DobPrefix
<1>10. MaskDob(a) \in Seq(Plain)
  BY <1>5, LitPlain, DobType
<1>11. Encode(MaskDob(a)) = MaskDob(a)
  BY <1>10, EncodePlain
<1>12. QED
  BY <1>8, <1>9, <1>11 DEF w

(* A format that does not count characters reads the same from the bytes.  *)
LEMMA EncodeSsn ==
  ASSUME NEW v \in Seq(Unit)
  PROVE  /\ MaskSsn(Encode(v)) = Encode(MaskSsn(v))
         /\ PartialSsn(Encode(v)) = Encode(PartialSsn(v))
<1> DEFINE d == Digits(v)
           p == Text("***-**-")
           l == Last4(d)
<1>1. Digits(Encode(v)) = d
  BY DigitsOfEncoded
<1>2. d \in Seq(Plain)
  <2>1. d \in Seq({x \in Unit : x.kind = "digit"})
    BY DigitsType
  <2>2. {x \in Unit : x.kind = "digit"} \subseteq Plain
    BY LitSigns DEF Plain
  <2>3. QED
    BY <2>1, <2>2, SeqMonotonic
<1>3. l \in Seq(Plain) /\ p \in Seq(Plain)
  <2> HIDE DEF d
  <2>1. QED
    BY <1>2, PieceTypes, LitPlain, Written
<1> HIDE DEF d, p, l
<1>4. p \o l \in Seq(Plain)
  BY <1>3, ConcatProperties
<1>5. Encode(p \o l) = p \o l
  BY <1>4, EncodePlain
<1>6. MaskSsn(v) = p \o l /\ MaskSsn(Encode(v)) = p \o l
  BY <1>1, Zenon DEF MaskSsn, d, p, l
<1>7. CASE Len(d) >= 4
  <2>1. PartialSsn(v) = p \o l /\ PartialSsn(Encode(v)) = p \o l
    BY <1>1, <1>7, Zenon DEF PartialSsn, d, p, l
  <2>2. QED
    BY <1>5, <1>6, <2>1
<1>8. CASE ~(Len(d) >= 4)
  <2>1. PartialSsn(v) = v /\ PartialSsn(Encode(v)) = Encode(v)
    BY <1>1, <1>8, Zenon DEF PartialSsn, d
  <2>2. QED
    BY <1>5, <1>6, <2>1
<1>9. QED
  BY <1>7, <1>8

LEMMA EncodeUncut ==
  ASSUME NEW v \in Seq(Unit), NEW type \in Uncut
  PROVE  Full(Encode(v), type) = Encode(Full(v, type))
<1>1. CASE type = "SSN"
  BY <1>1, EncodeSsn DEF Full
<1>2. CASE type = "ADDRESS"
  BY <1>2, EncodeAddress DEF Full
<1>3. CASE type = "DOB"
  BY <1>3, EncodeDob DEF Full
<1>4. CASE type \in {"AMOUNT", "SECRET", "SENSITIVE"}
  <2>1. Text("***.**") \in Seq(Plain) /\ Text("********") \in Seq(Plain)
    BY LitPlain, Written
  <2>2. Encode(Text("***.**")) = Text("***.**") /\ Encode(Text("********")) = Text("********")
    BY <2>1, EncodePlain
  <2>3. QED
    BY <1>4, <2>2 DEF Full, MaskAmount, MaskSecret, MaskSensitive
<1>5. CASE type = "LOCATION"
  <2>1. AnyPlace \in Seq(Plain)
    BY LitPlain, Written
  <2>2. Encode(AnyPlace) = AnyPlace
    BY <2>1, EncodePlain
  <2>3. MaskLocation(v) = AnyPlace /\ MaskLocation(Encode(v)) = AnyPlace
    BY Zenon DEF MaskLocation, AnyPlace
  <2>4. Full(v, type) = MaskLocation(v) /\ Full(Encode(v), type) = MaskLocation(Encode(v))
    BY <1>5 DEF Full
  <2>5. QED
    BY <2>2, <2>3, <2>4
<1>6. QED
  BY <1>1, <1>2, <1>3, <1>4, <1>5 DEF Uncut

LEMMA EncodeMask ==
  ASSUME NEW v \in Seq(Unit), NEW type \in Uncut, NEW level \in {"raw", "partial", "full"}
  PROVE  MaskValue(Encode(v), type, level) = Encode(MaskValue(v, type, level))
<1>1. CASE v = <<>>
  <2>1. Encode(v) = <<>>
    BY <1>1, EncodeEmpty
  <2>2. MaskValue(v, type, level) = v /\ MaskValue(Encode(v), type, level) = Encode(v)
    BY <1>1, <2>1, Zenon DEF MaskValue
  <2>3. QED
    BY <2>2
<1>2. CASE level = "raw"
  BY <1>2, Zenon DEF MaskValue
<1>3. CASE v # <<>> /\ level = "full"
  <2>1. Encode(v) # <<>>
    BY <1>3, EncodeFirst
  <2>2. /\ MaskValue(v, type, level) = Full(v, type)
        /\ MaskValue(Encode(v), type, level) = Full(Encode(v), type)
    BY <1>3, <2>1 DEF MaskValue
  <2>3. QED
    BY <2>2, EncodeUncut
<1>4. CASE v # <<>> /\ level = "partial"
  <2>1. Encode(v) # <<>>
    BY <1>4, EncodeFirst
  <2>2. /\ MaskValue(v, type, level) = Partial(v, type)
        /\ MaskValue(Encode(v), type, level) = Partial(Encode(v), type)
    BY <1>4, <2>1 DEF MaskValue
  <2>3. CASE type = "SSN"
    <3>1. Partial(v, type) = PartialSsn(v) /\ Partial(Encode(v), type) = PartialSsn(Encode(v))
      BY <2>3, TypeIs
    <3>2. QED
      BY <2>2, <3>1, EncodeSsn
  <2>4. CASE type # "SSN"
    <3>1. type \in MaskTypes \ PartialTypes
      BY <2>4 DEF Uncut, MaskTypes, PartialTypes
    <3>2. Partial(v, type) = Full(v, type) /\ Partial(Encode(v), type) = Full(Encode(v), type)
      BY <3>1 DEF Partial, MaskTypes, PartialTypes
    <3>3. QED
      BY <2>2, <3>2, EncodeUncut
  <2>5. QED
    BY <2>3, <2>4
<1>5. QED
  BY <1>1, <1>2, <1>3, <1>4

(* A value reads the same through the gateway and through the backend.     *)
LEMMA SameValue ==
  ASSUME NEW kinds \in Seq(Kinds), NEW type \in Types, NEW level \in {"raw", "partial", "full"},
         ~(type = "IP_ADDRESS" /\ level # "raw" /\ Len(kinds) = 1),
         (\A i \in DOMAIN kinds : kinds[i] # "wide") \/ type \in Uncut
  PROVE  maskValue(Encode(Chars(kinds)), type, level) = Encode(MaskValue(Chars(kinds), type, level))
<1> DEFINE v == Chars(kinds)
<1>1. v \in Seq(Unit) /\ Len(v) = Len(kinds) /\ Encode(v) \in Seq(Unit)
  <2>1. v \in Seq(Unit)
    BY CharsFacts
  <2>2. Len(v) = Len(kinds)
    BY LenProperties DEF Chars
  <2>3. QED
    BY <2>1, <2>2, EncodeUnits
<1>2. CASE \A i \in DOMAIN kinds : kinds[i] # "wide"
  <2>1. v \in Seq(Plain)
    <3>1. Len(kinds) \in Nat /\ DOMAIN kinds = 1..Len(kinds)
      BY LenProperties
    <3>2. \A i \in 1..Len(kinds) : v[i] = [place |-> i, kind |-> kinds[i]] /\ v[i] \in Unit
      BY <1>1, <3>1, ElementOfSeq DEF Chars
    <3>3. ASSUME NEW i \in 1..Len(kinds) PROVE v[i] \in Plain
      <4>1. kinds[i] # "wide"
        BY <1>2, <3>1
      <4> HIDE DEF v
      <4>2. v[i].kind = kinds[i]
        <5>1. v[i] = [place |-> i, kind |-> kinds[i]]
          BY <3>2
        <5>2. QED
          BY <5>1
      <4>3. QED
        BY <3>2, <4>1, <4>2, LitSigns DEF Plain
    <3>4. v = [i \in 1..Len(kinds) |-> v[i]]
      BY <3>1 DEF Chars
    <3> HIDE DEF v
    <3>5. v \in [1..Len(kinds) -> Plain]
      BY <3>3, <3>4
    <3>6. QED
      BY <3>1, <3>5
  <2> HIDE DEF v
  <2>2. Encode(v) = v
    BY <2>1, EncodePlain
  <2>3. maskValue(v, type, level) = MaskValue(v, type, level)
    BY <1>1, GoIsPython
  <2>4. MaskValue(v, type, level) \in Seq(Plain)
    <3>1. Full(v, type) \in Seq(Plain) /\ Partial(v, type) \in Seq(Plain)
      BY <2>1, LitPlain, FullType, PartialType
    <3>2. \/ MaskValue(v, type, level) = v \/ MaskValue(v, type, level) = Partial(v, type)
          \/ MaskValue(v, type, level) = Full(v, type)
      BY DEF MaskValue
    <3>3. QED
      BY <2>1, <3>1, <3>2
  <2>5. Encode(MaskValue(v, type, level)) = MaskValue(v, type, level)
    BY <2>4, EncodePlain
  <2>6. QED
    BY <2>2, <2>3, <2>5 DEF v
<1>3. CASE type \in Uncut
  <2> HIDE DEF v
  <2>1. type # "IP_ADDRESS"
    BY <1>3 DEF Uncut
  <2>2. maskValue(Encode(v), type, level) = MaskValue(Encode(v), type, level)
    BY <1>1, <2>1, GoIsPython
  <2>3. MaskValue(Encode(v), type, level) = Encode(MaskValue(v, type, level))
    BY <1>1, <1>3, EncodeMask
  <2>4. QED
    BY <2>2, <2>3 DEF v
<1>4. QED
  BY <1>2, <1>3

(* A value of any length reads the same whichever of the two masked it, the *)
(* backend (_mask_value) or the gateway (MaskValue), for every type and     *)
(* level, but where the gateway counts the bytes of a wide character and    *)
(* for an IP address of one character.                                      *)
THEOREM Alike == MaskingSpec => []SameMask
<1>1. value \in Seq(Kinds) => SameMask
  <2> SUFFICES ASSUME value \in Seq(Kinds), NEW type \in Types, NEW level \in Levels
               PROVE  \/ type = "IP_ADDRESS" /\ level # "raw" /\ Len(value) = 1
                      \/ \E i \in DOMAIN value : value[i] = "wide" /\ type \notin Uncut
                      \/ Relayed(type, level) = Encode(Masked(type, level))
    BY Zenon DEF SameMask
  <2>1. level \in {"raw", "partial", "full"}
    BY LevelIs DEF Levels
  <2>2. QED
    BY <2>1, SameValue DEF Relayed, Masked
<1>2. QED
  BY <1>1, ValueType, PTL
=============================================================================
