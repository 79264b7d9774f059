# MetaSight in TLA+

Specifications of the parts of MetaSight (Community edition) whose correctness
depends on the order in which things happen: who approved what before a query
ran, how stale a policy decision may be, what a scan has written when it says
it is complete, which database events go unrecorded, what a revoked credential
still may do, how far concurrent logins pass a lockout. They are checked with
TLC on small instances. All the safety properties that hold are also proved with
TLAPS, for every value of the constants.

Source paths below are relative to `src/backend/app/` unless they begin with
another directory of the repository (`backend/…` stands for `src/backend/…`).

Contents: [1 The system](#1-the-system) · [2 The modules](#2-the-modules) ·
[3 The runs](#3-the-runs) · [4 Fairness and timing](#4-fairness-and-timing) ·
[5 The proofs](#5-the-proofs) · [6 Where code and documents disagree](#6-where-code-and-documents-disagree) ·
[7 What is not modelled](#7-what-is-not-modelled) · [8 The plan](#8-the-plan)

## 1 The system

MetaSight stands between people (or their programs) and the databases of an
organisation. A FastAPI backend serves an HTTP API from several worker
processes over one PostgreSQL database (READ COMMITTED, no row locks, no
version columns); Redis caches policy decisions; Celery workers with a beat
process scan data sources and poll their audit trails; a Go gateway speaks the
PostgreSQL and MySQL wire protocols and asks the backend about every query; a
Go agent may run beside a fronted database.

### Components

| Component | State it keeps | Operations | Correct when |
|---|---|---|---|
| **Query execution and approvals** `api/query.py`, `api/approvals.py`, `services/audit.py` | `query_approvals` rows (status, token, approver, expiry), `audit_logs` | execute, create/approve/reject a request, validate and consume a token, audit, record a refusal | a CRITICAL query runs only for the account, with the text and in the lifetime of an approval by another administrator; a spent token stays spent; the last decision on a request stands; what the trail says is true |
| **Policy engine and cache, policies API** `services/policy_engine.py`, `services/policy_cache.py`, `api/policies.py` | `policy_rules`; Redis keys by tenant, table and role with a 60 s lifetime | decide (look up, compute, store), create/update/delete a rule, invalidate | staleness of a decision is bounded; no user gets another's row filters; schedules end |
| **Scan lifecycle** `api/scans.py`, `workers/tasks.py` | `scan_runs` rows; Celery messages | trigger (queued or in the request), run with retries, cancel, poll for a cancel | COMPLETED means a whole scan; a cancel is not overtaken; every scan ends |
| **Metadata scanners** `ingestion/native_scanner.py`, `ingestion/nosql_scanner.py` | the catalog: `databases`, `schemas`, `tables`, `columns` | find or insert the database row, list, write tables and columns, commit on the way | a completed scan has covered its source; sources do not write into each other's part; classifications by hand survive |
| **Native DAM poller** `services/dam_native_poller.py`, `workers/celery_app.py` | a watermark per source, `db_activities` rows | poll each source, ingest, move the watermark | what a source still has to show does not fall between two polls; duplicates are bounded |
| **DAM agents** `backend/agent`, `api/agents.py`, `api/security.py` | the agent's policy and report under way, `agent_registrations`, `security_events` | poll the policy, check sessions, terminate, report with retries; deduplicate, apply the threshold | "blocked" means that an order to end reached the session or found it over; a violation is stored once; a changed policy is adopted |
| **PostgreSQL gateway and credentials** `backend/gateway/internal/{session,backend,client}`, `api/gateway.py` | connections, pools, `gateway_credentials` | authenticate, both query protocols, prepare, pool look-up, run, audit; administer credentials | a credential that is cut off runs nothing; protocol in step; no pool leaks; a truthful trail |
| **Login, lockout, setup, MFA, SSO** `api/auth.py`, `api/sso.py`, `api/users.py` | `users`, `login_attempts`, `tenants` | password login, second factor, enrolment, first-run setup, return from an identity provider | the lockout limit holds but for logins under way; one setup; the second factor is asked for |
| **Settings** `api/settings.py`, `services/settings_service.py` | one row of overrides per tenant | read, merge, write; reset | a change touches only the keys it names |
| **Masking** `services/masking.py`, `backend/gateway/internal/masking` | none (pure), implemented twice | mask a value as a type at a level | backend and gateway agree; a lower level never shows more |
| **Security posture and hardening** `services/security_checker.py`, `services/storage_scanner.py`, `api/security.py` | the gateway's account inside each source | check and grade a source, average, create and lock down the account | a grade says which checks earned it; a source that is down counts; a password that is reported is the account's |
| MySQL gateway `backend/gateway/internal/mysqlgw` | as the PostgreSQL one, and a map of authentication results | the same over MySQL | an authentication result reaches its own connection |
| Tokenization, vault, encryption | `token_vault` | buffer and flush tokens, detokenize | every token handed out is in the vault |
| Rewriters, risk scorer | none (pure) | rewrite a query, score it | a rewritten query returns no more than allowed |
| RLS synchronisation `services/pg_rls.py` | policies inside the source database | apply after a rule is committed | the source follows the rules |
| Connectors, audit views, models, frontend, deployment | — | mostly I/O, one commit each | — |

The components in bold are modelled, in whole or in part.

### How they interact

* **Calls.** The gateway calls `/gateway/authenticate` once per connection,
  `/gateway/prepare` before and `/gateway/audit` after every query. `execute`
  calls `decide` once for each table, then the risk scorer, then the approvals
  functions in its own transaction. The agent polls `/agents/config`
  and posts to `/security/activity`. A hardening request opens a
  connection to the source and runs its statements one by one.
* **Shared state without locks.** Handlers read a row, decide, and commit
  later. Two handlers on a row (two approvals; a cancel and the scan's task; an
  edit of a rule and a `decide` under way; two PUTs on the settings; two scans
  of one source) interleave between read and commit.
* **Messages.** A scan is triggered by a committed row and then a Celery
  message, acknowledged early and retried by the task itself. An agent's post
  is repeated after a time-out, although the first may still be handled.
* **Caches.** Redis outlives every request and the gateway's pool map every
  connection; both are filled in a step after the state was read. The settings
  limit the logins; the masking of a value must not depend on which of two
  programs relays it.
* **Clocks.** Token lifetimes, cache lifetimes, schedules, watermarks, lockout
  windows, the window in which events of one session count as one.

### What is hard

The hazards are listed one by one, with their lines, in `PROJECT.json`. In
families: check-then-commit without a lock (approvals, scan status, pools,
lockout counting, first-run setup, settings, database rows of a scan); a cache
filled after the invalidation meant to empty it; one step of several failing
with the wrong things rolled back, or not (refusals, polls, scans, hardening);
retries of what was cancelled or already done; late decisions about rows that
have moved on; protocol state across pipelined messages and errors; events lost
between two windows or stored twice; a process number that belongs to another
session by the time it is terminated; two scans that wait for each other's
rows; two implementations of one function that drift apart.

Some that were met are not in that list, because a property covers their
mechanism elsewhere or because nothing in the code limits them: `query.py:618`
(the last commit holds the audit record and the tokens, so both are lost
together) and `:622` (the audit id returned is the user's latest record, not
this query's); `policy_engine.py:168` (the administrator's decision with
masking off has no row filters); `celery_app.py:33` (a slow poll overlaps the
next, see section 4); `api/gateway.py:222` (check of a name, then insert; the
database refuses the second); `backend/gateway/internal/backend/pool.go:76`
(`Invalidate` has no caller); `auth.py:292` (section 6).

## 2 The modules

| Module | Models | Lines |
|---|---|---|
| `QueryApprovals` | the query gate, execution and audit; approvals | 431 |
| `ApprovalLedger` | abstract: issued, granted, spent tokens, queries run | 54 |
| `PolicyCache` | `decide`, the Redis cache, the edits of rules | 390 |
| `ScanRuns` | triggers, task with retries, cancellation, scanner checks | 264 |
| `CatalogScans` | what scans of eight connectors write and when they commit | 374 |
| `DamPoller` | polls, watermarks, failing sources | 254 |
| `DamAgent` | an agent, the sessions it watches, the events API | 335 |
| `GatewaySessions` | credentials, connections, pools, audit reports | 423 |
| `SettingsStore` | the overrides and the requests that change them | 93 |
| `Accounts` | extends it with setup, logins, second factor, SSO, users | 334 |
| `MaskText` | characters, bytes and the helpers both maskings use | 65 |
| `PythonMasking`, `GatewayMasking` | the two implementations | 130, 131 |
| `Masking` | both applied to every value | 58 |
| `Posture` | checks, grades, the average, hardening | 298 |
| `…Proofs` | proofs about ten of them, in eight modules (section 5) | |
| `MC…` | instances for TLC: symmetry sets, small functions | |

`PROJECT.json` maps every definition to the lines it was translated from.

### QueryApprovals

*State.* `row[r]` is the approval row created by query request `r`, with the
four columns handlers change; requester, text, source and tenant never change
and are read from `req[r]`. `req[p]` is what handler `p` was asked for and what
it has read; `pc[p]` where it stands between two commits. `audit` is the
committed trail. `spent` and `last` (the decision on each row that committed
last) are history variables. A query request names the row
it would create, and a decision request the token it would draw, so fresh keys
and tokens need no counters.

*Actions.* `ReceiveExecute` is everything up to the gate, its outcome (blocked,
below CRITICAL, CRITICAL, or an error that answers 404 or 500 and changes
nothing) chosen freely. `validate_approval_token` is two
steps, `ValidateToken` (select and checks) and `ConsumeToken` (commit of
`used`, and only then the requester is compared, `query.py:337`), because other
requests run in between. `RunQuery`, `RunFails`, `AuditRun` follow. Every
refusal ends in `RecordBlocked`, where an exception on the way to the security
event rolls the flushed audit record back. Decisions are `ReadForDecision`,
then `CommitApprove` or `CommitReject`, which write whatever the row holds by
then; the lifetime of a token counts from some reading of the clock between the
two. `Crash` may take any handler between two commits.

*Abstract specification.* `ApprovalLedger` says what survives the missing
locks: a token exists once an approval has committed, it is granted only while
unspent, and a query runs only for a request that has spent its grant. Grants
that overlap may be spent more than once; `TokenUsedOnce.cfg` (section 6) is
exactly that case. `LedgerSpec` instantiates it with a refinement mapping.

### PolicyCache

One table and one role, since cache keys separate those. A decision is
represented by what it was computed from: rule, source, user whose attributes
fill the row filters, and the times. `rules` holds the exact rule and the `*`
rule; `Mode` is the two key shapes (`…::no_rf` below a rule, plain without).
`Read → AnswerFromCache | Compute → Store | Refuse` are the steps of `decide`,
and `Unclassified` its answer for a table without a rule or a scan, which is
deny or allow as `DEFAULT_UNCLASSIFIED_POLICY` says and is never cached;
`CommitEdit → Invalidate | EditCrash` those of create and update, and
`CommitDelete` the delete, which returns without invalidating. Redis comes and
goes (`RedisToggles`); while it is away nothing is stored or swept. `log` and
`cleaned` are history: which rules applied in each tick, and how far
invalidation has got.

### ScanRuns

`status` is the committed column and `loaded` what the task's ORM session has
read; their difference is where the cancellation races live. Cancelled and
failed are the same value, FAILED, in the code and here. `Fetch`/`MarkRunning`
are the start of `run_ingestion_task`, which sets RUNNING over anything;
`ScanUnit` is a schema or table with its cancellation check before it; `Fail`,
`FailUnrecorded`, `SourceMissing` and `Crash` are the ways an attempt ends, with
retries as Celery makes them. `_is_scan_cancelled` answers False when its query
fails, on the session the scan writes with: that session then takes no further
statement and no commit, so such an error ends in `FailUnrecorded`. `Scanner`
says which scanner runs: only the SQL one polls for cancellation.

### CatalogScans

What `ScanRuns` counts as units, seen from the catalog. `catalog[n][t]` is a
table below the database row named `n`, with the type of its one column;
`owner[n]` the source of that row, whose name is unique per tenant. `scan[s]`
holds what a scan has written and not committed (`db`, `rows`, `types`), and
with it the locks PostgreSQL keeps for it: a row inserted or updated blocks
another scan that writes the same one.

The connectors differ in five ways, which are the fields of `Connector`: whether
they commit on the way (SQL sources, at every schema and every `_COMMIT_EVERY`
tables), when the columns are read, what happens when that fails (DynamoDB's
scanner passes over errors of the catalog as well), and whether a listing may
silently lack something. `FindDb`/`InsertDb` is `_upsert_db`. Then `List`; in a
SQL source `BeginSchema` and `EnterSchema`, which inserts the rows of all the
tables of a schema, elsewhere `EnterTable`, one at a time; `WriteColumns`,
`Checkpoint`, `Finish`. Nothing in the code sorts what the sources list, so
schemas and tables come in any order, and two scans of one source may lock rows
crosswise. `Fail` (the source fails, or the scan finds itself cancelled) commits
what was written together with the status; `Break` (the catalog fails,
PostgreSQL breaks a circle of locks, or the process dies) rolls it back.
`SwallowError` is DynamoDB's: after it the session commits nothing more. Beside
the scans, `ClassifyColumn`, `DeleteSource` and `ChangeSource` go on. `must` and
`by` are history variables.

### DamPoller

One poll (`poll`) at a time works through its sources: `Start` takes up a poll
that has become `due`, `Open` reads or creates the watermark,
`Query`/`QueryFails` fetch what is newer than the watermark less the overlap,
`Ingest` flushes rows, sets the watermark to *now* and commits everything
pending. `IngestFails` leaves the flushed rows pending for the next source's
commit, since the handler does not roll back; `End` drops them.

The sources are external and of two kinds. Oracle keeps an audit trail, of which
a poll gets the oldest rows up to the limit. PostgreSQL, SQL Server, MySQL and
MariaDB (`Live`) show the statements of their live sessions: `Occur` starts one,
`Ends` takes it out of the list, and a statement that ends before a poll comes
by (`over`) is never seen; their limit is in no order, and MySQL applies the
window after it. `Occur` puts an event into its source up to `Delay` after its
timestamp. `missed` and `torn` are history variables. The query for SQL Server
names a column of another view (section 6), so of what a live source may do only
`QueryFails` happens there.

### DamAgent

`sess` are the sessions of the monitored server by process number, which the
server gives out again; `row` the registration with its policy; `agent` the one
goroutine: it lists the sessions once (`StartCheck`), and for each violation
orders it to end (`Terminate`, in block mode) or only detects (`Detect`) and
then posts, up to `MaxAttempts` times, before it looks at the next. `Terminate`
changes nothing in the database: `pg_terminate_backend`, `KILL` and `killOp` set
a flag or send a signal, whose result nobody looks at. `hit` is history: the
session that had the process number then, which need not be the one that was
judged. When a session ends (`Disconnect`) is the database's business, whether
on an order or not. A post is refused, fails, is a duplicate, or is received by
a handler of the API (`PostReceived`), which commits in a later step (`Record`),
even when the agent has given up by then (`GiveUpWaiting`). `events` is the
table of stored reports, a set of rows, each with a number of its own. The
server's part is the deduplication, the threshold that sets "blocked" on an
event without any termination, and the administration: `PatchConfig`,
`RotateKey`, `DeleteAgent`, `ClearAcknowledged`. `DeleteAgent` fails while
events of the agent exist (foreign key). `Restart` takes the agent back to the
policy of its command line; `PollConfig` adopts the server's.

### GatewaySessions

Credentials with the six ways an administrator or time changes them;
connections (`conn`) that authenticate once and then loop over messages of both
query protocols; `inbox`, what clients have pipelined; `pools` and `cached`,
where `PoolManager.Get` gives up its lock between look-up and insertion; and
audit reports `sending` from goroutines that may fail, be lost at exit, or be
refused. `owed`, `errors`, `cutOff`, `rotated` and `ran` are history variables
for the properties; `Asked` the places in an inbox of the messages that ask for
an answer of their own. Denials of prepare are audited by the backend and of
running queries by the gateway, after the rows.

### SettingsStore and Accounts

`SettingsStore` is the row of overrides with the requests that change it, each
of which reads the row (`PutRead`, `ResetRead`), merges into what it read and
writes the whole column back (`PutWrite`). `Accounts` extends it and reads
`max_login_attempts` from it at every login, as the code does.

A login is `CheckLockout` (count the failures, load the user), then
`RecordFailure` or `RecordSuccess` (the commit, which expires the loaded user),
then `ReadFactor`, which reads `totp_enabled` again, and `Issue`, which makes the
token after the settings have been read; in between any other request
runs for as long as a bcrypt verification takes. `Challenge` ends a login that
owes its second factor. `Enroll`, `ConfirmRead/Write`, `DisableRead/Write`
change the second factor, and write only the columns whose value differs from
the one they loaded, as SQLAlchemy does. `SetupCheck`/`SetupCommit` is the
first-run setup, `FindNoUser`/`ProvisionUser` the return from an identity
provider. `WindowPasses` lets the oldest failures leave the window.

### The masking modules

A value is a sequence of kinds of character (digit, letter, wide, the
separators the formats look at); a masked value says of every place which
character of the value is shown there or which sign stands for it. `MaskText`
has the characters of the backend and the bytes of the gateway, in which a wide
character takes two places (`Encode`), and what both languages offer: slices,
`Keep` for a regular expression that removes the rest, `Join`. `PythonMasking`
and `GatewayMasking` translate the two programs format by format, under the
names the formats have there (`MaskValue` is the backend's `mask_value`,
`maskValue` the gateway's `MaskValue`). `Masking` builds every value up to
`MaxPieces` pieces and compares.

### Posture

A checker is a list of questions, each with how many severe and minor points
hang on it and what becomes of them if the statement fails (`breaks`,
`skipped`, `failed`, `dropped`) or whether it passes whatever the answer
(`presumed`); the eleven checkers are such lists, and `StartCheck`, `Answer`,
`Miss`, `BreakOff`, `FinishCheck`, `OverallGrade` go through them. Presumed are
three checks: that of `db_owner` on SQL Server, which is no server role, so that
`IS_SRVROLEMEMBER` answers NULL; that of `encrypt_option` there, whose every
value passes; and that of `DBA` on Oracle, which is a role and not among the
privileges it is looked for in. On MySQL every line of `SHOW GRANTS` contains
`GRANT`, so one check at least fails, unless a line names INFORMATION_SCHEMA and
all pass (`Presumed`). Hardening is `Harden`, the `Create…` of the connector,
`Grant`, `Secure`, and their failures; on PostgreSQL and SQL Server the statements
of a request are one transaction until its commit (`pending`), PostgreSQL refuses
everything after a failure (`aborted`), MySQL commits each statement. `Secure`
never succeeds on SQL Server, whose DENY names two permissions no schema has.

## 3 The runs

Twelve runs: eleven that hold and one that shows a disagreement of section 6.
Distinct states in parentheses.

| Run | Instance | Shows |
|---|---|---|
| `ApprovalRaces` (0.3 M) | 3 query requests, 2 decisions, one tenant, clock stopped, enterprise package present | `NoReplay`: a spent token is never accepted again, whatever late commits do to its row. `NoLateDecision`: a decided request is never opened for a later decision. `LastDecisionStands`: of two decisions that overlap, only the one that commits last is acted on. `LedgerSpec`: the handlers implement the ledger |
| `ApprovalRequests` (2.0 M) | 2 and 2, two tenants, two texts, tokens that expire, failing audit commits | `Inv` (the inductive invariant), `ApprovedByAnother`, `RunMatchesApproval`, `WithinLifetime` |
| `PolicyDecisions` (3.5 M) | 2 calls, one edit or delete, lifetime 1, call duration 1, clock 0–3, rules plain, filtered or scheduled, unclassified tables denied or allowed | `StaleBounded`: the rule behind a decision was in force less than TTL + Lag ago. `StaleOnlyByRace`: only a fill overtaken by an invalidation survives it. `OwnRowFilters`, `ScheduleOverrunBounded`, `Inv` |
| `ScanLifecycle` (0.1 M) | a queued and an in-request scan, 2 cancels, 2 retries, 2 units | `CompletedIsWhole`, `CutNeverCompletes`, `ActiveHasOwner`, and the liveness property `Settles` |
| `CatalogScans` (1.3 M) | 2 scans, 2 sources whose databases have one name, 7 kinds of connector for one of them, 3 tables in 2 schemas, a commit every 2 | `OwnHierarchy`: sources do not write into each other's part. `CompletedCovers`: what could be listed and read and did not change is in the catalog when a scan completes, after failures and commits half-way. `CurationSurvives`: no rescan undoes a classification |
| `DamPolling` (4.8 M) | 2 sources, one with a trail and one with live sessions, 2 events, row limit 1, interval and overlap 3, clock 0–4 | `GapsOnlyFromQueries`: the only events lost are those a query failed to return and those of live sessions that were over before. `AtMostThrice`: the overlap records an event three times at most, and each torn poll once more |
| `AgentReports` (1.2 M) | 2 process numbers, 2 sessions, 2 events, 2 attempts, 2 handlers, threshold 1, a policy in block mode and a quiet one | `BlockedTruthful`: behind a "blocked" event is an order to end that reached the session it names or found it over, unless the threshold set the flag. `DuplicatesOnlyAfterTimeout`: a violation is stored twice only if the agent had given up on a post. `AdoptsPolicy`: liveness |
| `GatewayQueries` (0.9 M) | 2 connections of one credential, 2 secrets, 2 and 1 messages, 2 pools | `CutOffQueriesStop`, `PoolsAccounted`, `InStep`, `TrailTruthful`; no deadlock |
| `Accounts` (0.5 M) | one user and the super admin, 2 logins, 2 setups, a change of the second factor, an SSO return, 2 PUTs, any two of them at once | `OverrunBounded`: concurrent logins pass the lockout by no more than their number less one. `OneSetup`. `UntouchedKeysKept`: a PUT changes only the keys it names, except over a commit between its read and its write. `PasswordAloneOnlyWithoutMfa`. `LockoutEnds`: liveness |
| `Masking` (0.2 M) | values of up to 5 pieces from 11 kinds of piece, 16 types, 3 levels | `SameMask`: backend and gateway mask alike. `FullShowsLess`: what an analyst is shown, a manager is shown too; no deadlock |
| `SecurityPosture` (0.3 M) | each kind of connector, 2 hardening requests, the administrator, another source | `TopGradeEarned`: what an A guarantees, and on which connectors a check in it passed unasked. `UnreachableCounts`; no deadlock |
| `SameDatabaseName` | as `CatalogScans` | the counterexample to `OwnDatabaseRow` (section 6) |

*Why the bounds are enough for what the runs ask.* Every race in the code is
between two actors over one row, one key, one source or one pool, so two of each
kind make it; three query requests allow a token to be used, presented again and
a third row to interfere. Two tenants and two texts are what the checks of
`validate_approval_token` tell apart. A clock of three ticks with a lifetime and
a call duration of one reaches the last moment at which an entry, filled as late
as possible, is still served, and one tick more. The clock of the poller begins
anywhere in an interval, so three polls fit into four ticks, at 0, 1 and 4: as
close as a late poll and a punctual one can come, which is how an event is
recorded three times, the bound of `AtMostThrice`. A row limit of one with two
events makes truncation happen. Two units give a scan a check before, between
and none after. Three tables in two schemas give commits between tables and
between schemas, rows that two scans meet in different orders, and a table that
stays while the other goes. Two sessions on two process numbers are enough for a
number to be given out again and for one session's event to count towards the
other's threshold. Two messages on one connection are the smallest pipeline with
an error followed by its Sync; two pools the smallest race. A limit of one
failed attempt is passed by the second of two logins, and a PUT raises it to two
meanwhile. Five pieces make every length a format distinguishes: sixteen digits
and a separator, four groups of an address, a name of three words. The checks of
a source are sums, of which none, one and all answers bad are taken.

*Other bounds.* `Accounts`: a deleted address is not registered again, and two
requests are handled at a time (`Concurrent`). `CatalogScans`: one column per
table, one database row per source (a MongoDB source has one for each of its
databases unless one is configured), a deleted source is not created again.
`Posture`: the overall grade averages two sources, the other of which is
perfect, unreachable or ungraded. `DamAgent`: `MaxSessions` sessions begin, and
no post is received once `MaxEvents` reports are stored or being handled.

*Deadlock* is checked where the instance never comes to rest: `GatewayQueries`,
`Masking` and `SecurityPosture`. The requests of the other modules are finite in
number.

*Symmetry* is used over request, call, scan, source and event names that nothing
distinguishes, never in a run with a liveness property.

Each property of a passing run is paired in `PROJECT.json` with a mutated
definition (`…Unchecked`, `…AsDone`, `…Twice`, and the like, next to the original)
under which TLC finds it violated.

## 4 Fairness and timing

* `ScanRuns`: weak fairness of `Run(s)`, the task's own next step. A Celery
  worker takes the messages sent to it and goes on with what it has begun; it
  may still fail or die, because those are separate actions that end an
  attempt. Nothing is assumed of clients, of cancels, or of a failure ever
  happening. Progress through the units and the bound on retries make `Settles`
  true; the mutant that retries forever breaks it.
* `DamAgent.FairSpec`: weak fairness of `Judge` and `Post`, because the agent is
  one goroutine whose posts end by the client's time-out, and strong fairness of
  `PollConfig`, because the loop selects at random between its two tickers: a
  poll that can succeed again and again succeeds some time. Restarts, failing
  posts, and sessions are left free. The first assumes that the monitored
  database answers: listing its sessions and the order to end one have no
  deadline in the code, so a database that hangs holds the agent up for as long.
* `Accounts.FairSpec`: weak fairness of `WindowPasses`. Time passes, and the
  lockout counts failures of the last minutes only. `LockoutEnds` is not
  immediate from it: it would be false if refused attempts were recorded, which
  is its mutant.
* The other modules state no fairness and no liveness property: a request may
  stop anywhere.
* `PolicyCache.Lag` bounds one call of `decide`, because nginx ends a request
  after `proxy_read_timeout 120s` (`src/deploy/nginx/metasight.conf:59`). The backend
  itself enforces nothing, so without a proxy `Lag` is an assumption.
* `DamPoller.TimingAssumption`: handling one source, with the delay of its trail,
  takes less than the 30 s overlap, and the overlap is no longer than the
  interval (300 s by default, `core/config.py:54`). `Tick` and `Start` add that a
  poll begins and ends before the next one is due; it may begin as late in its
  interval as it likes and take the rest of it. The code checks none of this.
  The assumptions are stated so that a reader sees what `GapsOnlyFromQueries` and
  `AtMostThrice` rest on.

## 5 The proofs

Checked by TLAPS 1.4.5 with Z3, Zenon and LS4, for every value of the constants
that satisfies the module's assumption, which asks only that identifiers of
different kinds differ, that numbers are numbers, that functions have the right
domain, and what section 4 says of the poller's timing. No theorem has a
hypothesis besides. Each theorem follows the same line: an invariant that the
initial states have and every step keeps, one lemma for each action or group of
actions, and a step of temporal logic at the end. For masking the invariant is
only that the value is a sequence of kinds, and the work is in what the formats
do to any such sequence.

**`QueryApprovalsProofs`.** `Invariance` (`Spec => []Inv`), then `TypeCorrect`,
`GrantsAreApproved`, `RunsMatch`, `GrantsAreFresh`, `NoReplayHolds`,
`NoLateDecisionHolds`, `LastDecisionHolds`, `ImplementsLedger` and
`RecordsAreTrue`. None of the properties is inductive alone. "A spent token is
not accepted" needs to know that an approved row never holds a spent one
(`TokensSound`). That survives a late `CommitApprove` because a token is named
after its own approval, which has not committed before and so cannot have been
spent (`SpentSound`). It survives a late `CommitReject` because that never sets
`approved`. `GrantsSound` carries what was checked in `ValidateToken` over to
`ConsumeToken`, while the row changes underneath. `RunsSound` says that past the
gate the grant has been spent. That the last decision stands is a part of
`TokensSound` as well: an approved row holds the token of the decision that has
committed last, so a token that a later rejection or approval has overridden is
found in no row. The refinement follows step by step: four actions map to ledger
steps (`CommitApprove` issues, `ValidateToken` grants, `ConsumeToken` spends,
`RunQuery` runs), the others stutter. What the trail says is true in either
edition and whatever commit fails (`RecordsTrue`: a query recorded as run was
answered, one recorded as blocked was refused). That every refusal is recorded
is false in this edition, where the enterprise package is absent (section 6).

**`PolicyCacheProofs`.** `Invariance`, then `StalenessBound`, `FiltersAreOwn`,
`StaleOnlyOvertaken`, `OverrunBound`.
`StaleBounded` speaks of decisions that were given, so it is strengthened to
entries in the cache and to calls under way. `Grounded(d)` says a decision
rests on a rule in force when it was read, with its schedule checked at most
`Lag` later. `EntrySound` adds that an entry expires at most `TTL + Lag` after
that read and was stored since the last completed sweep. `CallSound` bounds
how long a call has been under way. `GroundedStable` shows the first survives
every step, because history only grows; then an edit, a lost invalidation or
an absent Redis has nothing to break. The row filters are safe because
`DecisionSound` keeps "the rule this call read has no filters" from `Compute`
to `Store`.

**`ScanRunsProofs`.** `TypeCorrect`, `InvariantHolds`, then
`CompletedScansAreWhole`, `CutScansNeverComplete`, `ActiveScansHaveOwners`.
`CompletedEnds` says that COMPLETED is the last word of its attempt, so no retry
can be under way below it; `IdleUntilSent` that the message is sent once, so
nobody runs a scan twice; `CutIsSeen` that a scan cut before its last check
still has a check to make, at which the committed column says FAILED.

**`DamProofs`.** Of `DamPoller`: `TypeCorrect`, `GapsAreFromQueries`,
`DuplicatesAreBounded`. The second needs `Window` (what a poll asks for begins
an overlap before the watermark it will replace), `Asked` (every event old
enough to show up was read or counted as missed) and `FirstWatermark` (a first
watermark that waits for the commit of another source leaves only missed events
behind); `Times` brings in the timing assumption: nothing the overlap covers is
still to show up. The third counts: an event newer than the watermark has no
copy; one inside the overlap has one, or two if it came before the poll that set
the watermark was due (`SetBy`), since then an earlier poll may have seen it; an
older one at most three (`Allowed`), plus the torn polls. `OncePerPoll` and
`Lags` say that a poll comes to each source once, and finds a watermark from
before it was due.

Of `DamAgent`: `AgentTypeCorrect`, `BlockedIsTruthful`,
`DuplicatesComeLate`. That a "blocked" report is true must hold of it in the
agent's hands and in a handler's, and go on to hold while process numbers are
given out again: what has the number a session was seen with is that session, or
one that began after it was over (`Held`). For duplicates, `RequestOK` says of
the request the agent waits for that whatever was stored of its process number
since the deduplication looked came from requests that were given up, and
`HandlersOK` that the agent waits for one request only.

**`GatewaySessionsProofs`.** `CutOffQueriesAreStopped`, `PoolsAreAccounted`,
`TrailIsTruthful`, `StaysInStep`, `TypeCorrect`.
`CutTracked`: a query that arrived after its credential was cut off is still to
be prepared, and no administrative step makes the credential active again
while it is. `PoolsInv`: an open pool is cached or held by exactly one
connection that has just opened it; what is cached is open; what is in use is
cached. `TrailInv` numbers the messages of a connection, so that two reports of
one query cannot come from two places.
`StepInv` says where every connection `Stands`: it owes as many answers as there
are places in its inbox that ask for one, and one more while it works. What makes
that last is `Synced`: each message that is answered by itself, and the end of
the inbox unless the client has yet to send Sync, is `Clear`, that is, every error
recovery that is on or that an extended query ahead of it may begin ends with a
Sync before it. Otherwise a simple query could be dropped in recovery and its
client wait for ever. That the counter is never negative follows from this, so
`TypeCorrect` comes last. `AskedAppend` and `AskedTail` count the places when a
message arrives and when the first one leaves.

**`AccountsProofs`.** `TypeCorrect`, `LockoutOverrunIsBounded`,
`SetupHappensOnce`, `PatchKeepsOtherKeys`, `SecondFactorIsAsked`.
The lockout invariant (`LimitHolds`) adds the logins whose password is being
verified to the failures recorded: the sum is below a limit that was in force
plus the number of logins. An attempt is let in only below the limit; a failure
moves one from the second summand to the first. `LimitsKnown` says that the
limits the concurrent PUTs may leave behind are known ones.

**`ProtectionProofs`.** Of `Posture`: `UnreachableIsCounted`,
`TopGradeIsEarned`. The first says that a source that was not reached has no
points, so that the average of two is 50 at most. The second: an A takes nine
points passed for each one failed (`TopScore`), and no checker but MySQL's, the
exception `TopGradeEarned` makes, has ten points in all: `Worth` bounds what can
have been counted before each question and after the last (`LastWorth`), and
which checks presume an answer; `Counted` says that the check in progress keeps
to it.

Of `Masking`: `Alike` (`SameMask`) and `FullLess` (`FullShowsLess`), for
values of any length; the constant `MaxPieces` has no part in the proofs. Both
compare the results of recursive definitions, and the induction theorems of the
library take a predicate, which the provers cannot instantiate. So `NatInd` and
`SeqInd` take the *set* of the values for which something holds; they rest on
the least counterexample, which exists because the order on Nat is well-founded
(`NatMin`). `FlattenSeq` is given by its partial sums (`SumsExist`,
`SumsUnique`), which yields the value of the empty sequence and of one element
more (`FlattenEmpty`, `FlattenAppend`); `Encode`, `Keep`, `Digits`, `Join` and
the texts follow. `Alike` has two halves. `GoIsPython`: on one and the same
value the gateway's functions give what the backend's give, format by format
(the `Go…` lemmas); names and addresses need the longest argument, because the
two are written differently. `EncodeMask`: the backend's functions commute with
`Encode`. Without a wide character `Encode` changes nothing (`EncodePlain`).
With one, a format in `Uncut` is followed through its cut: an address is taken
apart at its last comma (`LastComma`, `EncodeCut`) and after the digits it
starts with (`DigitParts`), a date of birth at its first wide character
(`Narrow`, `DobPrefix`), and no byte of a character looks like a comma, a digit
or a separator. `FullLess` computes which places of the value a mask shows:
those of a piece, of a concatenation, of a text (`ShownPart`, `ShownConcat`,
`ShownTexts`), then one lemma for each format that has a level of its own.

**`CatalogScansProofs`.** `HierarchiesAreOwn`, `CurationIsKept`,
`CompletedScansCover`, `TypeCorrect`. A scan writes under its own database row,
committed or not (`RecordOK`), no two scans insert one name (`OneInsert`, from
the lock on the unique index), and what is listed was written by the owner of
its row (`Owned`), which a deletion takes along. `LandedInv` says that a scan
which has written stands on its database row (`Standing`), and that each table
it has entered is in the catalog or in what it will commit (`Landed`), whatever
the order it comes by them. `Paced` bounds what it leaves uncommitted. `Curated`
(only what is listed has a type or a classification) makes a commit keep the
classification it finds. `CoversInv` carries `CompletedCovers` through a scan:
as long as it is held to anything it is the only one of its source (`Sole`), has
seen the tables as they are (`Faithful`), and has every table it has left in the
catalog or in what it will commit (`Leaves`).

*Model-checked only.* Liveness (`Settles`, `AdoptsPolicy`, `LockoutEnds`) and
ENABLED (the absence of deadlock) are outside what this prover does. The
counterexamples of section 6 are TLC's as well. No module uses RECURSIVE.

## 6 Where code and documents disagree

One run ends in a counterexample; the other configurations named here are kept
beside the modules and end in one too, if TLC is given the module named.

| Configuration | Module | The code | What it contradicts |
|---|---|---|---|
| `SameDatabaseName` (run) | `MCCatalogScans` | `_upsert_db` (`native_scanner.py:791`) inserts a row for this source, but names are unique per tenant (`models/models.py:134`), so the second source with a database of one name always fails to scan; every S3 source is called `Amazon-S3` | `native_scanner.py:777-779` "two sources with the same DB name … each get their own Database row" |
| `RefusalsAuditedCommunity` | `MCQueryApprovals` | `query.py:465` flushes the audit record of a blocked query, then imports `metasight_enterprise`; in this edition the import fails and `:471` rolls both back | `src/README.md:7` "keeps an audit trail of who touched what"; `settings_service.py:63` `log_denied_queries: True` |
| `StrayTermination` | `MCDamAgent` | the agent lists the sessions once and orders one after the other to end by its process number, with posts in between (`backend/agent/cmd/agent/main.go:216`): the number may be another session's by then, one that nobody judged | `src/DEPLOYMENT-ORACLE-EBS-AIX.md:171` "Block Mode terminates sessions it judges unauthorized" |
| `HardenedTwice` | `MCPosture` | a second hardening, or one after the administrator has made the account, draws a new password, which `CREATE USER IF NOT EXISTS` ignores, and reports it as applied (`security_checker.py:782`; on SQL Server `:822`) | `security_checker.py:794-798` "Created … with SELECT grants. Temp password: …", `api/security.py:634` "Create a read-only gateway user" |
| `TokenUsedOnce` | `MCQueryApprovals` | `approvals.py:267` selects, then commits `used` without lock or condition: two requests with one token both run | `approvals.py:255` "Invalid or already-used approval token." |
| `DecisionAcrossSources` | `MCPolicyCache` | the cache key (`policy_engine.py:190`) has no source | `policy_engine.py:112` "to avoid cross-source collisions" |
| `CancelledScanRestarts` | `ScanRuns` | `tasks.py:70` sets RUNNING over a cancelled scan | `tasks.py:107` "don't let autoretry restart it" |
| `DamGaps` | `MCDamPoller` | a failed or truncated query still moves the watermark (`dam_native_poller.py:66`, `:107`); a live session's statement that is over is not listed (`:121-210`, `:259-305`) | `:59` "30s overlap to avoid gaps" |
| `RotatedSecretKeepsRunning` | `MCGatewaySessions` | prepare checks status and expiry, not the secret | `src/DEPLOYMENT.md:370-372`: revoke or rotate "takes effect immediately, even on an already-open connection" |
| `EnrolmentGates` | `MCAccounts` | an account with MFA on that starts another enrolment has its secret replaced at once and is asked for the new one (`auth.py:292`) | `models/models.py:63-66` "a started-but-never-confirmed enrollment never gates login" |

`ScansDeadlock` (`MCCatalogScans`) shows something no document denies: two scans of
one source that meet its tables in different orders wait for each other
(`NoCircularWait`). PostgreSQL then aborts one of them, whose run
stays RUNNING until a retry, or for good.

Noted while modelling, without a configuration of their own:

* *Policies.* With global masking off, the administrator's decision is built
  without row filters (`policy_engine.py:168-184`), though `:66` and `:377` say
  they bind administrators. The schedule is checked when a decision is computed,
  not on a hit (`:191` against `:267`). Rules are sorted by the length of their
  pattern, so `orders*` precedes the exact `orders` (`:68-96`). `delete_policy`
  never invalidates (`policies.py:241-281`).
* *Approvals.* Two administrators who both read a row as pending both decide; the
  later commit wins. A token is consumed before the requester is compared
  (`query.py:337`), so another account presenting it spends it. An approval
  records its data source and is not compared with it on use.
* *Agents.* `models/models.py:396` says of `blocked` "1=killed", but the
  threshold sets it on events whose session goes on. Documents name a poll of 30
  seconds, the code has 5. Switching `alert_on_bypass` off also switches
  termination off. A termination within five minutes of a detection of the same
  process number is a duplicate, so the event stays "detected". An agent cannot
  be deleted while it has events.
* *Accounts and settings.* `max_login_attempts` 0 locks every account. Addresses
  are stored as typed, while login lower-cases them. A confirmation of the second
  factor racing its removal can leave it on without a secret, and then nobody
  passes the challenge. Two concurrent PUTs lose one update; a PUT and its audit
  record are two commits. A login through the identity provider has no second
  factor.
* *Catalog.* Scans only add: tables and columns that are gone stay. A scan whose
  catalog transaction fails leaves its run RUNNING; one whose reads fail table by
  table completes.
* *Masking.* The two implementations differ for addresses of one character, and
  where the gateway cuts a wide character into its bytes. Managers see less than
  analysts of the middle words of a long name and of cards with fewer than eight
  digits. A column named `ip_address` is typed ADDRESS, whose pattern comes first.
* *Posture.* `GRANT CONNECT ON DATABASE current_database()` is not PostgreSQL
  syntax, so creating the gateway's account there always fails; `DENY … DROP,
  CREATE` on a schema is not SQL Server's (`security_checker.py:854-857`), so
  locking it down there always fails. On MySQL a failed grant leaves an account
  whose password nobody was told. Three checks pass whatever the source answers:
  `IS_SRVROLEMEMBER('db_owner')`, which is NULL (`:142`, `:148`), `encrypt_option`
  (`:155-163`), and DBA among the privileges of the session on Oracle, where it is
  a role. The search for `GRANT` in SHOW GRANTS finds it in every line
  (`:113-119`). A MongoDB source always has grade F, BigQuery and unknown
  connectors can have A without a question about privileges. Sources whose
  password cannot be decrypted are left out of the average.
* *DAM poller.* The query for SQL Server asks `sys.dm_exec_sessions` for
  `client_net_address`, a column of `sys.dm_exec_connections`, and so always
  fails. Statements of live sessions that end between two polls are not seen.
* *DynamoDB.* An error of the catalog while columns are written is passed over
  (`nosql_scanner.py:421-432`) although its transaction is aborted by then: if
  nothing follows, the scan completes and nothing of it is kept.
* `PoolManager.Invalidate` has no caller.

## 7 What is not modelled

`PROJECT.json` gives a reason for each component. In short:

* *MySQL gateway*: the loop and the pool race are those of the PostgreSQL one;
  its hand-over of authentication results is its own and would need another
  front end of `GatewaySessions`.
* *Tokenization, vault, encryption*: cryptography; that the tokens of a query are
  lost with its last commit is a step of `QueryApprovals`.
* *SQL and Mongo rewriters, risk scorer*: transformations of syntax trees of the
  sqlglot library, and a sum with thresholds; their outcome is a free choice.
* *RLS synchronisation*: statements to the source after the commit of a rule,
  whose failures are logged and dropped.
* *Query engines, connectors, audit views, frontend, deployment*: input and
  output. *Models, schemas, configuration*: declarations whose rows are the
  variables here.

Inside the modelled components: the matching of several patterns, the columns
of a decision and what department restrictions contain (`PolicyCache`); role
overrides and the masking of rows (`GatewaySessions`); classification and risk
of an event, and two polls at once (`DamPoller`); heartbeats, registration after
a deletion, screen capture and the demonstration runner (`DamAgent`); refresh
and signature of session tokens, configuration of identity providers
(`Accounts`); audit records and redaction of the settings (`SettingsStore`);
the OpenMetadata synchronisation, and the deadlock PostgreSQL may detect between
a deletion and a scan (`CatalogScans`); the guess of a type from a column's name,
digits outside ASCII, and the text encoding of values (`Masking`); the texts of
the hardening guides and the statistics of bypass events (`Posture`).

## 8 The plan

Done: the query gate with its abstract ledger, the policy cache, scans and what
they write, the DAM poller and agents, the gateway, accounts and settings,
masking, posture; and proofs of all the safety properties that the runs check.

Next, in order:

1. The safety core of the liveness properties: for `Settles` a measure of the
   retries, cancels and units left that no step of `Run(s)` increases, as an
   action property with its proof; the like for `AdoptsPolicy`.
2. `DamAgent`: an abstract event log with at-least-once delivery that it
   implements.
3. `QueryRows`: the tokens of a query, flushed in the transaction of its audit
   record (`query.py:597-618`), composed with `QueryApprovals`.
4. The MySQL gateway's hand-over of authentication results; RLS
   synchronisation after the commit of a rule.
5. The precedence of several matching rules and the risk score as pure operators
   against reference definitions.
6. Overlapping polls in `DamPoller`, without the timing assumption.
