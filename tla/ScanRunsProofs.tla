--------------------------- MODULE ScanRunsProofs ---------------------------
(***************************************************************************)
(* Proofs about ScanRuns, for any number of scans, of cancellations, of    *)
(* retries and of units of work, and for each kind of scanner.             *)
(***************************************************************************)
EXTENDS ScanRuns, TLAPS

(* A message is sent once, by the request that created the scan.           *)
IdleUntilSent == \A s \in Async : sent[s] # "answered" => task[s] = "idle"

(* COMPLETED is the last word of the attempt that wrote it.                *)
CompletedEnds ==
  \A s \in Scan : status[s] = "COMPLETED" => task[s] = "ended" /\ done[s] = Units

(* What keeps a scan that was cut from completing: until it is fetched     *)
(* again, the attempt still has a check to make, and will see FAILED.      *)
CutIsSeen ==
  \A s \in cut :
    /\ status[s] \notin {"absent", "COMPLETED"}
    /\ task[s] # "fetched"
    /\ task[s] = "scanning" => Polls /\ status[s] = "FAILED" /\ done[s] < Units

IInv == TypeOK /\ IdleUntilSent /\ CompletedEnds /\ CutIsSeen /\ ActiveHasOwner

-----------------------------------------------------------------------------
(* Types                                                                   *)

LEMMA InitType == Init => TypeOK
BY ConstantsAssumption DEF Init, TypeOK, Status

LEMMA RetriedType ==
  ASSUME TypeOK, NEW s \in Scan, Retried(s)
  PROVE  /\ task' \in [Scan -> {"idle", "queued", "fetched", "scanning", "ended", "lost"}]
         /\ tries' \in [Scan -> 0..MaxRetries]
BY ConstantsAssumption DEF TypeOK, Retried, RetriesLeft, Scan

LEMMA StepType == TypeOK /\ [Next]_vars => TypeOK'
<1> SUFFICES ASSUME TypeOK, [Next]_vars PROVE TypeOK'
  OBVIOUS
<1> USE ConstantsAssumption
<1>1. ASSUME NEW s \in Async, Trigger(s) \/ Enqueue(s) \/ EnqueueFails(s) PROVE TypeOK'
  BY <1>1 DEF TypeOK, Trigger, Enqueue, EnqueueFails, Recorded, Status, Scan
<1>2. ASSUME NEW s \in Sync, TriggerSync(s) PROVE TypeOK'
  BY <1>2 DEF TypeOK, TriggerSync, Status, Scan
<1>3. ASSUME NEW s \in Scan, Run(s) PROVE TypeOK'
  <2>1. CASE Fetch(s)
    BY <2>1 DEF TypeOK, Fetch
  <2>2. CASE MarkRunning(s)
    BY <2>2 DEF TypeOK, MarkRunning, Status
  <2>3. CASE ScanUnit(s)
    <3>1. done[s] \in 0..Units /\ done[s] < Units
      BY <2>3 DEF TypeOK, ScanUnit, MoreToScan
    <3>2. done' \in [Scan -> 0..Units]
      BY <2>3, <3>1 DEF TypeOK, ScanUnit
    <3>3. QED
      BY <2>3, <3>2 DEF TypeOK, ScanUnit
  <2>4. CASE Stop(s)
    BY <2>4 DEF TypeOK, Stop, Stopped, Status
  <2>5. CASE Complete(s)
    BY <2>5 DEF TypeOK, Complete, Status
  <2>6. QED
    BY <1>3, <2>1, <2>2, <2>3, <2>4, <2>5 DEF Run
<1>4. ASSUME NEW s \in Scan, Break(s) PROVE TypeOK'
  <2>1. CASE Fail(s)
    BY <2>1, RetriedType DEF TypeOK, Fail, Recorded, Status
  <2>2. CASE SourceMissing(s)
    BY <2>2 DEF TypeOK, SourceMissing, Status
  <2>3. CASE FailUnrecorded(s)
    <3>1. /\ task' \in [Scan -> {"idle", "queued", "fetched", "scanning", "ended", "lost"}]
          /\ tries' \in [Scan -> 0..MaxRetries]
      BY <2>3, RetriedType DEF TypeOK, FailUnrecorded
    <3>2. QED
      BY <2>3, <3>1 DEF TypeOK, FailUnrecorded
  <2>4. CASE Crash(s)
    BY <2>4 DEF TypeOK, Crash
  <2>5. QED
    BY <1>4, <2>1, <2>2, <2>3, <2>4 DEF Break
<1>5. ASSUME NEW c \in Canceller, ReadActive(c) PROVE TypeOK'
  BY <1>5 DEF TypeOK, ReadActive
<1>6. ASSUME NEW c \in Canceller, CommitCancel(c) PROVE TypeOK'
  <2>1. cancel[c] \in [pc: {"new", "read", "answered"}, scans: SUBSET Scan]
    BY DEF TypeOK
  <2>2. status' \in [Scan -> Status]
    BY <1>6 DEF TypeOK, CommitCancel, Status
  <2>3. cut' \subseteq Scan
    BY <1>6, <2>1 DEF TypeOK, CommitCancel
  <2>4. cancel' \in [Canceller -> [pc: {"new", "read", "answered"}, scans: SUBSET Scan]]
    BY <1>6 DEF TypeOK, CommitCancel
  <2>5. QED
    BY <1>6, <2>2, <2>3, <2>4 DEF TypeOK, CommitCancel
<1>7. CASE UNCHANGED vars
  BY <1>7 DEF TypeOK, vars
<1>8. QED
  BY <1>1, <1>2, <1>3, <1>4, <1>5, <1>6, <1>7 DEF Next

(* The variables of the scans have their types, and no attempt does more   *)
(* units of work than there are.                                           *)
THEOREM TypeCorrect == Spec => []TypeOK
<1>1. QED
  BY InitType, StepType, PTL DEF Spec

-----------------------------------------------------------------------------
(* The invariant                                                           *)

LEMMA InitInv == Init => IInv
<1> SUFFICES ASSUME Init PROVE IInv
  OBVIOUS
<1>1. TypeOK
  BY InitType
<1>2. IdleUntilSent /\ CompletedEnds /\ CutIsSeen /\ ActiveHasOwner
  BY DEF Init, IdleUntilSent, CompletedEnds, CutIsSeen, ActiveHasOwner, Active, Scan
<1>3. QED
  BY <1>1, <1>2 DEF IInv

(* A retry is sent to the task, or the attempt was the last one.           *)
LEMMA RetriedTask ==
  ASSUME TypeOK, NEW s \in Scan, Retried(s)
  PROVE  \E t \in {"queued", "ended"} : task' = [task EXCEPT ![s] = t]
BY DEF Retried

LEMMA FailUnrecordedTask ==
  ASSUME TypeOK, NEW s \in Scan, FailUnrecorded(s)
  PROVE  \E t \in {"queued", "lost"} : task' = [task EXCEPT ![s] = t]
BY DEF FailUnrecorded, Retried

LEMMA IdleStep == IInv /\ [Next]_vars => IdleUntilSent'
<1> SUFFICES ASSUME IInv, [Next]_vars PROVE IdleUntilSent'
  OBVIOUS
<1> USE DEF IInv, TypeOK, IdleUntilSent, Scan
<1>1. ASSUME NEW s \in Async, Trigger(s) \/ Enqueue(s) \/ EnqueueFails(s) PROVE IdleUntilSent'
  BY <1>1 DEF Trigger, Enqueue, EnqueueFails
<1>2. ASSUME NEW s \in Sync, TriggerSync(s) PROVE IdleUntilSent'
  BY <1>2, ConstantsAssumption DEF TriggerSync
<1>3. ASSUME NEW s \in Scan, Run(s) PROVE IdleUntilSent'
  BY <1>3 DEF Run, Fetch, MarkRunning, ScanUnit, Stop, Complete
<1>4. ASSUME NEW s \in Scan, Break(s) PROVE IdleUntilSent'
  BY <1>4 DEF Break, Fail, SourceMissing, FailUnrecorded, Crash, Retried
<1>5. ASSUME NEW c \in Canceller, ReadActive(c) \/ CommitCancel(c) PROVE IdleUntilSent'
  BY <1>5 DEF ReadActive, CommitCancel
<1>6. CASE UNCHANGED vars
  BY <1>6 DEF vars
<1>7. QED
  BY <1>1, <1>2, <1>3, <1>4, <1>5, <1>6 DEF Next

LEMMA CompletedStep == IInv /\ [Next]_vars => CompletedEnds'
<1> SUFFICES ASSUME IInv, [Next]_vars PROVE CompletedEnds'
  OBVIOUS
<1> USE DEF IInv, TypeOK, CompletedEnds
<1>1. ASSUME NEW s \in Async, Trigger(s) \/ Enqueue(s) \/ EnqueueFails(s) PROVE CompletedEnds'
  BY <1>1 DEF Trigger, Enqueue, EnqueueFails, Recorded, Scan, IdleUntilSent
<1>2. ASSUME NEW s \in Sync, TriggerSync(s) PROVE CompletedEnds'
  BY <1>2 DEF TriggerSync, Scan
<1>3. ASSUME NEW s \in Scan, Run(s) PROVE CompletedEnds'
  <2>1. CASE Fetch(s)
    BY <2>1 DEF Fetch
  <2>2. CASE MarkRunning(s)
    BY <2>2 DEF MarkRunning
  <2>3. CASE ScanUnit(s)
    BY <2>3 DEF ScanUnit
  <2>4. CASE Stop(s)
    BY <2>4 DEF Stop, Stopped
  <2>5. CASE Complete(s)
    BY <2>5 DEF Complete
  <2>6. QED
    BY <1>3, <2>1, <2>2, <2>3, <2>4, <2>5 DEF Run
<1>4. ASSUME NEW s \in Scan, Break(s) PROVE CompletedEnds'
  BY <1>4 DEF Break, Fail, SourceMissing, FailUnrecorded, Crash, Retried, Recorded
<1>5. ASSUME NEW c \in Canceller, ReadActive(c) \/ CommitCancel(c) PROVE CompletedEnds'
  BY <1>5 DEF ReadActive, CommitCancel
<1>6. CASE UNCHANGED vars
  BY <1>6 DEF vars
<1>7. QED
  BY <1>1, <1>2, <1>3, <1>4, <1>5, <1>6 DEF Next

LEMMA CutStep == IInv /\ [Next]_vars => CutIsSeen'
<1> SUFFICES ASSUME IInv, [Next]_vars PROVE CutIsSeen'
  OBVIOUS
<1> USE DEF IInv, TypeOK, CutIsSeen, Polls
<1>1. ASSUME NEW s \in Async, Trigger(s) \/ Enqueue(s) \/ EnqueueFails(s) PROVE CutIsSeen'
  BY <1>1 DEF Trigger, Enqueue, EnqueueFails, Recorded, Scan, IdleUntilSent
<1>2. ASSUME NEW s \in Sync, TriggerSync(s) PROVE CutIsSeen'
  BY <1>2 DEF TriggerSync, Scan
<1>3. ASSUME NEW s \in Scan, Run(s) PROVE CutIsSeen'
  <2>1. CASE Fetch(s)
    BY <2>1 DEF Fetch
  <2>2. CASE MarkRunning(s)
    BY <2>2 DEF MarkRunning
  <2>3. CASE ScanUnit(s)
    BY <2>3 DEF ScanUnit, Cancelled
  <2>4. CASE Stop(s)
    BY <2>4 DEF Stop, Stopped
  <2>5. CASE Complete(s)
    BY <2>5 DEF Complete
  <2>6. QED
    BY <1>3, <2>1, <2>2, <2>3, <2>4, <2>5 DEF Run
<1>4. ASSUME NEW s \in Scan, Break(s) PROVE CutIsSeen'
  <2>1. CASE Fail(s)
    BY <2>1, RetriedTask DEF Fail, Recorded
  <2>2. CASE SourceMissing(s)
    BY <2>2 DEF SourceMissing
  <2>3. CASE FailUnrecorded(s)
    <3>1. PICK t \in {"queued", "lost"} : task' = [task EXCEPT ![s] = t]
      BY <2>3, FailUnrecordedTask
    <3>2. UNCHANGED <<status, done, cut>>
      BY <2>3 DEF FailUnrecorded
    <3>3. QED
      BY <3>1, <3>2
  <2>4. CASE Crash(s)
    BY <2>4 DEF Crash
  <2>5. QED
    BY <1>4, <2>1, <2>2, <2>3, <2>4 DEF Break
<1>5. ASSUME NEW c \in Canceller, ReadActive(c) PROVE CutIsSeen'
  BY <1>5 DEF ReadActive
<1>6. ASSUME NEW c \in Canceller, CommitCancel(c) PROVE CutIsSeen'
  <2>1. cancel[c].scans \subseteq Scan
    BY DEF TypeOK
  <2>2. ASSUME NEW s \in cut, s \notin cancel[c].scans
        PROVE  status'[s] = status[s] /\ task'[s] = task[s] /\ done'[s] = done[s]
    BY <1>6, <2>2 DEF CommitCancel
  <2>3. ASSUME NEW s \in cancel[c].scans
        PROVE  status'[s] = "FAILED" /\ task'[s] = task[s] /\ done'[s] = done[s]
    BY <1>6, <2>1, <2>3 DEF CommitCancel
  <2>4. cut' \subseteq cut \cup {s \in cancel[c].scans :
                                   Polls /\ task[s] = "scanning" /\ done[s] < Units}
    BY <1>6 DEF CommitCancel
  <2>5. QED
    BY <2>1, <2>2, <2>3, <2>4
<1>7. CASE UNCHANGED vars
  BY <1>7 DEF vars
<1>8. QED
  BY <1>1, <1>2, <1>3, <1>4, <1>5, <1>6, <1>7 DEF Next

LEMMA OwnerStep == IInv /\ [Next]_vars => ActiveHasOwner'
<1> SUFFICES ASSUME IInv, [Next]_vars PROVE ActiveHasOwner'
  OBVIOUS
<1> USE DEF IInv, TypeOK, ActiveHasOwner, Active
<1>1. ASSUME NEW s \in Async, Trigger(s) \/ Enqueue(s) \/ EnqueueFails(s) PROVE ActiveHasOwner'
  BY <1>1 DEF Trigger, Enqueue, EnqueueFails, Recorded, Scan, IdleUntilSent
<1>2. ASSUME NEW s \in Sync, TriggerSync(s) PROVE ActiveHasOwner'
  BY <1>2 DEF TriggerSync, Scan
<1>3. ASSUME NEW s \in Scan, Run(s) PROVE ActiveHasOwner'
  <2>1. CASE Fetch(s)
    BY <2>1 DEF Fetch
  <2>2. CASE MarkRunning(s)
    BY <2>2 DEF MarkRunning
  <2>3. CASE ScanUnit(s)
    BY <2>3 DEF ScanUnit
  <2>4. CASE Stop(s)
    BY <2>4 DEF Stop, Stopped
  <2>5. CASE Complete(s)
    BY <2>5 DEF Complete
  <2>6. QED
    BY <1>3, <2>1, <2>2, <2>3, <2>4, <2>5 DEF Run
<1>4. ASSUME NEW s \in Scan, Break(s) PROVE ActiveHasOwner'
  <2>1. CASE Fail(s)
    BY <2>1, RetriedTask DEF Fail, Recorded
  <2>2. CASE SourceMissing(s)
    BY <2>2 DEF SourceMissing
  <2>3. CASE FailUnrecorded(s)
    BY <2>3, FailUnrecordedTask DEF FailUnrecorded
  <2>4. CASE Crash(s)
    BY <2>4 DEF Crash
  <2>5. QED
    BY <1>4, <2>1, <2>2, <2>3, <2>4 DEF Break
<1>5. ASSUME NEW c \in Canceller, ReadActive(c) \/ CommitCancel(c) PROVE ActiveHasOwner'
  BY <1>5 DEF ReadActive, CommitCancel
<1>6. CASE UNCHANGED vars
  BY <1>6 DEF vars
<1>7. QED
  BY <1>1, <1>2, <1>3, <1>4, <1>5, <1>6 DEF Next

(* The invariant holds in every state of every run.                        *)
THEOREM InvariantHolds == Spec => []IInv
<1>1. IInv /\ [Next]_vars => IInv'
  BY StepType, IdleStep, CompletedStep, CutStep, OwnerStep DEF IInv
<1>2. QED
  BY <1>1, InitInv, PTL DEF Spec

-----------------------------------------------------------------------------
(* The properties                                                          *)

(* A scan shown as COMPLETED has read everything in its last attempt.      *)
THEOREM CompletedScansAreWhole == Spec => []CompletedIsWhole
<1>1. IInv => CompletedIsWhole
  BY DEF IInv, CompletedEnds, CompletedIsWhole
<1>2. QED
  BY <1>1, InvariantHolds, PTL

(* A cancellation that lands before the last check of an attempt is not    *)
(* overtaken by the COMPLETED of that attempt.                             *)
THEOREM CutScansNeverComplete == Spec => []CutNeverCompletes
<1>1. IInv => CutNeverCompletes
  BY ConstantsAssumption DEF IInv, TypeOK, CutIsSeen, CutNeverCompletes
<1>2. QED
  BY <1>1, InvariantHolds, PTL

(* An active scan has somebody to finish it, but for crashes and lost      *)
(* commits.                                                                *)
THEOREM ActiveScansHaveOwners == Spec => []ActiveHasOwner
<1>1. IInv => ActiveHasOwner
  BY DEF IInv
<1>2. QED
  BY <1>1, InvariantHolds, PTL
=============================================================================
