------------------------------ MODULE JobQueue ------------------------------
(***************************************************************************)
(* The in-memory queue of app/job_queue.py.  Each operator is the body of  *)
(* one "with self._lock" block: a function from the dictionary _jobs,      *)
(* whose keys are the ids with a job other than NoJob, to the new one.     *)
(*                                                                         *)
(* created_at is the number of jobs created before: it is only compared,   *)
(* to find the oldest.  That a job is older than job_ttl is the flag       *)
(* "expired" which the passing of time sets (JobService!GrowOld).          *)
(***************************************************************************)
EXTENDS Integers, FiniteSets

CONSTANTS
    JobIds,      \* the uuids that jobs get; none is ever used twice
    MaxJobs      \* max_jobs

ASSUME IdsAssumption == IsFiniteSet(JobIds)
ASSUME MaxJobsAssumption == MaxJobs \in Nat \ {0}

Pending   == "pending"
Running   == "running"
Completed == "completed"
Failed    == "failed"
Cancelled == "cancelled"
JobStatus == {Pending, Running, Completed, Failed, Cancelled}

LiveStatus     == {Pending, Running}
TerminalStatus == {Completed, Failed, Cancelled}

Gone == "gone"                                 \* no such key in _jobs
None == "none"
Results == {None, "answer", "failure"}         \* the outcome stored in the job
Errors  == {None, "cancelled_by_user", "outcome_error", "timed_out", "exception"}

Job == [status  : JobStatus \cup {Gone},
        created : Nat,
        expired : BOOLEAN,
        result  : Results,
        error   : Errors]

NoJob == [status |-> Gone, created |-> 0, expired |-> FALSE, result |-> None, error |-> None]
NewJob(n) == [NoJob EXCEPT !.status = Pending, !.created = n]

Present(jobs)  == {j \in JobIds : jobs[j].status # Gone}
Live(jobs)     == {j \in JobIds : jobs[j].status \in LiveStatus}
Terminal(jobs) == {j \in JobIds : jobs[j].status \in TerminalStatus}

-----------------------------------------------------------------------------
(* _cleanup_expired_locked                                                 *)
CleanupAnyStatus(jobs) ==           \* a slip: the status is not looked at
    [j \in JobIds |-> IF jobs[j].expired THEN NoJob ELSE jobs[j]]

CleanupExpired(jobs) ==
    [j \in JobIds |-> IF jobs[j].expired /\ j \in Terminal(jobs) THEN NoJob ELSE jobs[j]]

(* _evict_oldest: the oldest terminal job goes; if there is none, no job.  *)
Oldest(jobs) ==
    CHOOSE j \in Terminal(jobs) : \A i \in Terminal(jobs) : jobs[j].created <= jobs[i].created

EvictNone(jobs) == jobs             \* a slip: nothing is evicted

EvictOldest(jobs) ==
    IF Terminal(jobs) = {} THEN jobs ELSE [jobs EXCEPT ![Oldest(jobs)] = NoJob]

(* create_job                                                              *)
MakeRoom(jobs) ==
    LET kept == CleanupExpired(jobs) IN
    IF Cardinality(Present(kept)) >= MaxJobs THEN EvictOldest(kept) ELSE kept

CreateJob(jobs, j, n) == [MakeRoom(jobs) EXCEPT ![j] = NewJob(n)]

(* update_job: a missing key is left missing; None leaves a field alone.   *)
UpdateOrInsert(jobs, j, status, result, error) ==   \* a slip: setdefault
    [jobs EXCEPT ![j] = [@ EXCEPT !.status = status, !.result = result, !.error = error]]

UpdateJob(jobs, j, status, result, error) ==
    IF jobs[j].status = Gone THEN jobs
    ELSE [jobs EXCEPT ![j] = [status  |-> status,
                              created |-> jobs[j].created,
                              expired |-> jobs[j].expired,
                              result  |-> IF result = None THEN jobs[j].result ELSE result,
                              error   |-> IF error = None THEN jobs[j].error ELSE error]]

(* cancel_job: True exactly when the job was pending or running.           *)
Cancellable(jobs, j) == jobs[j].status \in LiveStatus

CancelJob(jobs, j) ==
    IF Cancellable(jobs, j)
    THEN [jobs EXCEPT ![j].status = Cancelled, ![j].error = "cancelled_by_user"]
    ELSE jobs
=============================================================================
