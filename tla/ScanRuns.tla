------------------------------ MODULE ScanRuns ------------------------------
(***************************************************************************)
(* The life of a metadata scan: the endpoints of app/api/scans.py that     *)
(* start and cancel scans of one data source, the Celery task of           *)
(* app/workers/tasks.py that runs them, with its automatic retries, and    *)
(* the scanner's polling for a cancellation                                *)
(* (app/ingestion/native_scanner.py).                                      *)
(*                                                                         *)
(* A cancellation and a failure are the same status, FAILED; the scanner   *)
(* takes the one for the other.  Every write of a status is a commit of a  *)
(* session that read the row some steps before.                            *)
(***************************************************************************)
EXTENDS Naturals

CONSTANTS
  Async, Sync,   \* scans triggered by POST .../scan and .../scan/sync
  Canceller,     \* POST .../cancel requests
  MaxRetries,    \* max_retries of the Celery task
  Units,         \* units of work (schemas and tables) with a check before each
  Scanner        \* what scans the source: "sql", "nosql", or the OpenMetadata
                 \* "workflow" the task falls back to; only the first polls

ASSUME ConstantsAssumption ==
  /\ Async \cap Sync = {}
  /\ MaxRetries \in Nat
  /\ Units \in Nat \ {0}
  /\ Scanner \in {"sql", "nosql", "workflow"}

Scan == Async \cup Sync

VARIABLES
  status,  \* scan_runs.status, committed
  task,    \* where the task (or the request) that runs the scan stands
  loaded,  \* the status the task's session has read
  done,    \* units of work done in the current attempt
  tries,   \* attempts that failed and were retried
  sent,    \* where the POST .../scan request of each scan stands
  cancel,  \* where each cancel request stands and the scans it read as active
  cut      \* history: scans cancelled while their attempt had checks to come

vars == <<status, task, loaded, done, tries, sent, cancel, cut>>

Status == {"absent", "PENDING", "RUNNING", "COMPLETED", "FAILED"}
Active == {"PENDING", "RUNNING"}
Final == {"COMPLETED", "FAILED"}

Init ==
  /\ status = [s \in Scan |-> "absent"]
  /\ task = [s \in Scan |-> "idle"]
  /\ loaded = [s \in Scan |-> "absent"]
  /\ done = [s \in Scan |-> 0]
  /\ tries = [s \in Scan |-> 0]
  /\ sent = [s \in Async |-> "new"]
  /\ cancel = [c \in Canceller |-> [pc |-> "new", scans |-> {}]]
  /\ cut = {}

-----------------------------------------------------------------------------
(* Starting a scan                                                         *)

(* POST .../scan commits a PENDING row, then sends the task a message.     *)
Trigger(s) ==
  /\ sent[s] = "new"
  /\ sent' = [sent EXCEPT ![s] = "created"]
  /\ status' = [status EXCEPT ![s] = "PENDING"]
  /\ UNCHANGED <<task, loaded, done, tries, cancel, cut>>

Enqueue(s) ==
  /\ sent[s] = "created"
  /\ sent' = [sent EXCEPT ![s] = "answered"]
  /\ task' = [task EXCEPT ![s] = "queued"]
  /\ UNCHANGED <<status, loaded, done, tries, cancel, cut>>

RecordedUnchanged(s) == status[s]
Recorded(s) == "FAILED"

(* The broker cannot be reached: the row is marked FAILED (503).           *)
EnqueueFails(s) ==
  /\ sent[s] = "created"
  /\ sent' = [sent EXCEPT ![s] = "answered"]
  /\ status' = [status EXCEPT ![s] = Recorded(s)]
  /\ UNCHANGED <<task, loaded, done, tries, cancel, cut>>

(* POST .../scan/sync commits a RUNNING row and scans in the request.      *)
TriggerSync(s) ==
  /\ status[s] = "absent"
  /\ status' = [status EXCEPT ![s] = "RUNNING"]
  /\ task' = [task EXCEPT ![s] = "scanning"]
  /\ loaded' = [loaded EXCEPT ![s] = "RUNNING"]
  /\ UNCHANGED <<done, tries, sent, cancel, cut>>

-----------------------------------------------------------------------------
(* Running it                                                              *)

(* run_ingestion_task reads the row ...                                    *)
Fetch(s) ==
  /\ task[s] = "queued"
  /\ task' = [task EXCEPT ![s] = "fetched"]
  /\ loaded' = [loaded EXCEPT ![s] = status[s]]
  /\ done' = [done EXCEPT ![s] = 0]
  /\ cut' = cut \ {s}
  /\ UNCHANGED <<status, tries, sent, cancel>>

(* ... and marks it RUNNING, whatever it was; the session writes the       *)
(* column only if that changes what it read.                               *)
MarkRunning(s) ==
  /\ task[s] = "fetched"
  /\ task' = [task EXCEPT ![s] = "scanning"]
  /\ status' = [status EXCEPT ![s] = IF loaded[s] = "RUNNING" THEN @ ELSE "RUNNING"]
  /\ UNCHANGED <<loaded, done, tries, sent, cancel, cut>>

Polls == Scanner = "sql"

(* _is_scan_cancelled, on the session the scan writes with.  It answers    *)
(* FALSE when its query fails, but that leaves the session a transaction   *)
(* that takes no further statement and no commit: FailUnrecorded.          *)
CancelledAsLoaded(s) == Polls /\ loaded[s] = "FAILED"
Cancelled(s) == Polls /\ status[s] = "FAILED"

MoreToScan(s) == done[s] < Units

ScanUnit(s) ==
  /\ task[s] = "scanning"
  /\ MoreToScan(s)
  /\ ~Cancelled(s)
  /\ Scanner = "workflow" => s \in Async
  /\ done' = [done EXCEPT ![s] = @ + 1]
  /\ UNCHANGED <<status, task, loaded, tries, sent, cancel, cut>>

(* "Scan stopped by user": FAILED, and no retry.                           *)
StoppedAsDone(s) == "COMPLETED"
Stopped(s) == "FAILED"

Stop(s) ==
  /\ task[s] = "scanning"
  /\ MoreToScan(s)
  /\ Cancelled(s)
  /\ task' = [task EXCEPT ![s] = "ended"]
  /\ status' = [status EXCEPT ![s] = Stopped(s)]
  /\ UNCHANGED <<loaded, done, tries, sent, cancel, cut>>

(* The scanner returns its counts: COMPLETED is written over anything.     *)
Complete(s) ==
  /\ task[s] = "scanning"
  /\ done[s] = Units
  /\ task' = [task EXCEPT ![s] = "ended"]
  /\ status' = [status EXCEPT ![s] = "COMPLETED"]
  /\ UNCHANGED <<loaded, done, tries, sent, cancel, cut>>

(* Any other exception, at any point: FAILED, and the message is sent      *)
(* again as long as retries are left.  A request just answers 400.         *)
RetriesLeftForever(s) == s \in Async
RetriesLeft(s) == s \in Async /\ tries[s] < MaxRetries

Retried(s) ==
  IF RetriesLeft(s)
    THEN /\ task' = [task EXCEPT ![s] = "queued"]
         /\ tries' = [tries EXCEPT ![s] = IF @ < MaxRetries THEN @ + 1 ELSE @]
    ELSE /\ task' = [task EXCEPT ![s] = "ended"]
         /\ UNCHANGED tries

Fail(s) ==
  /\ task[s] = "scanning"
  /\ status' = [status EXCEPT ![s] = Recorded(s)]
  /\ Retried(s)
  /\ UNCHANGED <<loaded, done, sent, cancel, cut>>

(* The data source is gone: FAILED, and no retry.                          *)
SourceMissing(s) ==
  /\ task[s] = "scanning"
  /\ s \in Async /\ done[s] = 0
  /\ status' = [status EXCEPT ![s] = "FAILED"]
  /\ task' = [task EXCEPT ![s] = "ended"]
  /\ UNCHANGED <<loaded, done, tries, sent, cancel, cut>>

(* Nothing is recorded when the row cannot be read or marked RUNNING, when *)
(* what follows fails outside the inner try, or when the final commit      *)
(* fails too (the scan broke the session's transaction, the database is    *)
(* down).  The task is retried.                                            *)
FailUnrecorded(s) ==
  /\ task[s] \in {"fetched", "scanning"}
  /\ IF RetriesLeft(s) THEN Retried(s)
                       ELSE task' = [task EXCEPT ![s] = "lost"] /\ UNCHANGED tries
  /\ UNCHANGED <<status, loaded, done, sent, cancel, cut>>

(* The worker, or the API process, dies; the message was acknowledged.     *)
Crash(s) ==
  /\ task[s] \in {"fetched", "scanning"}
  /\ task' = [task EXCEPT ![s] = "lost"]
  /\ UNCHANGED <<status, loaded, done, tries, sent, cancel, cut>>

-----------------------------------------------------------------------------
(* POST .../cancel reads the active scans and marks them FAILED.           *)
ReadActive(c) ==
  /\ cancel[c].pc = "new"
  /\ LET active == {s \in Scan : status[s] \in Active}
     IN  cancel' = [cancel EXCEPT ![c] =
           [pc |-> IF active = {} THEN "answered" ELSE "read", scans |-> active]]
  /\ UNCHANGED <<status, task, loaded, done, tries, sent, cut>>

CommitCancel(c) ==
  /\ cancel[c].pc = "read"
  /\ status' = [s \in Scan |-> IF s \in cancel[c].scans THEN "FAILED" ELSE status[s]]
  /\ cut' = cut \cup {s \in cancel[c].scans :
                        Polls /\ task[s] = "scanning" /\ done[s] < Units}
  /\ cancel' = [cancel EXCEPT ![c].pc = "answered"]
  /\ UNCHANGED <<task, loaded, done, tries, sent>>

Run(s) == Fetch(s) \/ MarkRunning(s) \/ ScanUnit(s) \/ Stop(s) \/ Complete(s)

Break(s) == Fail(s) \/ SourceMissing(s) \/ FailUnrecorded(s) \/ Crash(s)

Next ==
  \/ \E s \in Async : Trigger(s) \/ Enqueue(s) \/ EnqueueFails(s)
  \/ \E s \in Sync : TriggerSync(s)
  \/ \E s \in Scan : Run(s) \/ Break(s)
  \/ \E c \in Canceller : ReadActive(c) \/ CommitCancel(c)

(* A Celery worker is running: it takes the messages sent to it and goes   *)
(* on with what it has begun, unless it fails.                             *)
Fairness == \A s \in Scan : WF_vars(Run(s))

Spec == Init /\ [][Next]_vars /\ Fairness
-----------------------------------------------------------------------------
(* Properties                                                              *)

(* Every variable has its type: an attempt never does more units of work   *)
(* than there are.                                                         *)
TypeOK ==
  /\ status \in [Scan -> Status]
  /\ task \in [Scan -> {"idle", "queued", "fetched", "scanning", "ended", "lost"}]
  /\ loaded \in [Scan -> Status]
  /\ done \in [Scan -> 0..Units]
  /\ tries \in [Scan -> 0..MaxRetries]
  /\ sent \in [Async -> {"new", "created", "answered"}]
  /\ cancel \in [Canceller -> [pc: {"new", "read", "answered"}, scans: SUBSET Scan]]
  /\ cut \subseteq Scan

(* A scan shown as COMPLETED has read everything in its last attempt,      *)
(* whatever cancellations, failures and retries came before.               *)
CompletedIsWhole == \A s \in Scan : status[s] = "COMPLETED" => done[s] = Units

(* A cancellation that lands while the attempt still has a check to make   *)
(* is never overtaken by that attempt's COMPLETED.                         *)
CutNeverCompletes ==
  \A s \in cut : status[s] # "COMPLETED" /\ ~(task[s] = "scanning" /\ done[s] = Units)

(* A scan shown as active has somebody to finish it: a request about to    *)
(* send its message, a message, or a worker - except after a crash or a    *)
(* final commit that failed.                                               *)
ActiveHasOwner ==
  \A s \in Scan : status[s] \in Active =>
    task[s] # "ended" /\ (task[s] = "idle" => s \in Async /\ sent[s] = "created")

(* Every scan whose message is sent comes to an end, however often it      *)
(* fails and is retried, and its status with it.                           *)
Settles ==
  \A s \in Scan : task[s] = "queued" ~>
    task[s] = "lost" \/ (task[s] = "ended" /\ status[s] \in Final)

(* A cancelled scan is over ("don't let autoretry restart it").            *)
CancelIsFinal ==
  [][\A s \in Scan : (\E c \in Canceller : cancel[c].pc = "answered" /\ s \in cancel[c].scans)
                     /\ status[s] = "FAILED" => status'[s] = "FAILED"]_vars
=============================================================================
