----------------------------- MODULE JobService -----------------------------
(***************************************************************************)
(* Asynchronous jobs: the endpoints of app/main.py that submit and cancel  *)
(* them, the background task _process_job, the thread pool that runs       *)
(* coordinator.ask for it, and the shutdown handler, over the JobQueue.    *)
(*                                                                         *)
(* Everything but the threads runs on one asyncio loop, so one action is   *)
(* what a handler or a task does between two awaits.  A thread ends its    *)
(* call on its own; the task learns of it in a later turn of the loop, and *)
(* requests or the timeout may come first.                                 *)
(***************************************************************************)
EXTENDS JobQueue

CONSTANTS
    MaxWorkers,    \* threads of the loop's default executor
    MaxPolls       \* range(20) in shutdown_event

ASSUME WorkersAssumption == MaxWorkers \in Nat \ {0}
ASSUME PollsAssumption == MaxPolls \in Nat

VARIABLES
    jobs,     \* JobQueue._jobs
    created,  \* how many jobs were created
    task,     \* _process_job, one per job
    work,     \* the call handed to the executor, one per job
    phase,    \* of the service
    polls,    \* checks made by shutdown_event
    acked,    \* history: jobs whose DELETE answered {"cancelled": True}
    peak      \* history: the most jobs that were pending or running at once

vars == <<jobs, created, task, work, phase, polls, acked, peak>>

TaskState == {"unborn", "ready", "awaiting", "ended"}
WorkState == {"none", "queued", "running", "ok", "failed", "raised", "dropped"}
Ended == {"ok", "failed", "raised"}

Init ==
    /\ jobs = [j \in JobIds |-> NoJob]
    /\ created = 0
    /\ task = [j \in JobIds |-> "unborn"]
    /\ work = [j \in JobIds |-> "none"]
    /\ phase = "serving"
    /\ polls = 0
    /\ acked = {}
    /\ peak = 0

Larger(m, n) == IF m >= n THEN m ELSE n
Busy == {j \in JobIds : work[j] = "running"}

-----------------------------------------------------------------------------
(* POST /jobs/submit: create_job, then create_task with no await between.  *)
Submit(j) ==
    /\ phase = "serving" /\ task[j] = "unborn"
    /\ jobs' = CreateJob(jobs, j, created)
    /\ created' = created + 1
    /\ task' = [task EXCEPT ![j] = "ready"]
    /\ peak' = Larger(peak, Cardinality(Live(jobs')))
    /\ UNCHANGED <<work, phase, polls, acked>>

(* _process_job up to its await.  Ready tasks run in the order in which    *)
(* they were created.                                                      *)
Start(j) ==
    /\ phase # "stopped" /\ task[j] = "ready"
    /\ \A i \in JobIds : task[i] = "ready" => jobs[j].created <= jobs[i].created
    /\ jobs' = UpdateJob(jobs, j, Running, None, None)
    /\ task' = [task EXCEPT ![j] = "awaiting"]
    /\ work' = [work EXCEPT ![j] = "queued"]
    /\ UNCHANGED <<created, phase, polls, acked, peak>>

(* A free thread takes a queued call; the executor is shared with other    *)
(* endpoints, so which one it takes is left open.                          *)
TakeWork(j) ==
    /\ work[j] = "queued" /\ Cardinality(Busy) < MaxWorkers
    /\ work' = [work EXCEPT ![j] = "running"]
    /\ UNCHANGED <<jobs, created, task, phase, polls, acked, peak>>

(* coordinator.ask returns an outcome, or raises, in its thread.           *)
EndWork(j) ==
    /\ work[j] = "running"
    /\ \E r \in Ended : work' = [work EXCEPT ![j] = r]
    /\ UNCHANGED <<jobs, created, task, phase, polls, acked, peak>>

(* Slips in what _process_job writes, and in how it waits.                 *)
WrittenUnchecked(j) ==              \* the CANCELLED test dropped
    IF work[j] = "raised"  THEN UpdateJob(jobs, j, Failed, None, "exception")
    ELSE IF work[j] = "ok" THEN UpdateJob(jobs, j, Completed, "answer", None)
    ELSE UpdateJob(jobs, j, Failed, "failure", "outcome_error")
WrittenUnlessRaised(j) ==           \* no except clause
    IF work[j] = "raised" \/ jobs[j].status = Cancelled THEN jobs
    ELSE IF work[j] = "ok" THEN UpdateJob(jobs, j, Completed, "answer", None)
    ELSE UpdateJob(jobs, j, Failed, "failure", "outcome_error")

(* _process_job after its await: the outcome is written unless the job was *)
(* cancelled in the meantime; the except clause looks at nothing.          *)
Written(j) ==
    IF work[j] = "raised" THEN UpdateJob(jobs, j, Failed, None, "exception")
    ELSE IF jobs[j].status = Cancelled THEN jobs
    ELSE IF work[j] = "ok" THEN UpdateJob(jobs, j, Completed, "answer", None)
    ELSE UpdateJob(jobs, j, Failed, "failure", "outcome_error")

Resume(j) ==
    /\ phase # "stopped" /\ task[j] = "awaiting" /\ work[j] \in Ended
    /\ jobs' = Written(j)
    /\ task' = [task EXCEPT ![j] = "ended"]
    /\ UNCHANGED <<created, work, phase, polls, acked, peak>>

TimeOutKeepsWaiting(j) ==           \* the failure written, the call still awaited
    /\ phase # "stopped" /\ task[j] = "awaiting"
    /\ jobs' = UpdateJob(jobs, j, Failed, None, "timed_out")
    /\ UNCHANGED <<created, task, work, phase, polls, acked, peak>>
TimeOutOnceTaken(j) ==              \* the timer started by the thread
    /\ phase # "stopped" /\ task[j] = "awaiting" /\ work[j] = "running"
    /\ jobs' = UpdateJob(jobs, j, Failed, None, "timed_out")
    /\ task' = [task EXCEPT ![j] = "ended"]
    /\ UNCHANGED <<created, work, phase, polls, acked, peak>>

(* asyncio.wait_for gives up (timeout_seconds is at least 1, so it always  *)
(* applies).  A call that no thread has taken is withdrawn; one that runs  *)
(* goes on, and keeps its thread, although nobody waits for it.            *)
TimeOut(j) ==
    /\ phase # "stopped" /\ task[j] = "awaiting"
    /\ jobs' = UpdateJob(jobs, j, Failed, None, "timed_out")
    /\ task' = [task EXCEPT ![j] = "ended"]
    /\ work' = [work EXCEPT ![j] = IF @ = "queued" THEN "dropped" ELSE @]
    /\ UNCHANGED <<created, phase, polls, acked, peak>>

(* DELETE /jobs/{id}.  Nobody outside knows the id before the turn of the  *)
(* loop in which the submission was answered, and the task, already in the *)
(* loop's queue by then, starts before any later request is read.          *)
Cancel(j) ==
    /\ phase = "serving" /\ task[j] \notin {"unborn", "ready"}
    /\ Cancellable(jobs, j)
    /\ jobs' = CancelJob(jobs, j)
    /\ acked' = acked \cup {j}
    /\ UNCHANGED <<created, task, work, phase, polls, peak>>

(* Time: jobs pass job_ttl in the order of their creation.                 *)
GrowOld(j) ==
    /\ j \in Present(jobs) /\ ~jobs[j].expired
    /\ \A i \in Present(jobs) : jobs[i].created < jobs[j].created => jobs[i].expired
    /\ jobs' = [jobs EXCEPT ![j].expired = TRUE]
    /\ UNCHANGED <<created, task, work, phase, polls, acked, peak>>

(* shutdown_event: requests are over and the tasks they made have started. *)
BeginShutdown ==
    /\ phase = "serving" /\ \A j \in JobIds : task[j] # "ready"
    /\ phase' = IF \E j \in JobIds : jobs[j].status = Running THEN "draining" ELSE "stopped"
    /\ UNCHANGED <<jobs, created, task, work, polls, acked, peak>>

Poll ==
    /\ phase = "draining"
    /\ IF polls < MaxPolls /\ \E j \in JobIds : jobs[j].status = Running
       THEN polls' = polls + 1 /\ UNCHANGED phase
       ELSE phase' = "stopped" /\ UNCHANGED polls
    /\ UNCHANGED <<jobs, created, task, work, acked, peak>>

JobStep(j) == Submit(j) \/ Start(j) \/ TakeWork(j) \/ EndWork(j) \/ Resume(j)
              \/ TimeOut(j) \/ Cancel(j) \/ GrowOld(j)

Next == (\E j \in JobIds : JobStep(j)) \/ BeginShutdown \/ Poll

Spec == Init /\ [][Next]_vars

(* The loop runs what is ready and its timers fire.  Nothing is assumed of *)
(* the threads: a call may hang, and with it its thread.                   *)
FairSpec ==
    /\ Spec
    /\ \A j \in JobIds : WF_vars(Start(j)) /\ WF_vars(TimeOut(j))
    /\ WF_vars(Poll)

-----------------------------------------------------------------------------
TypeOK ==
    /\ jobs \in [JobIds -> Job]
    /\ created \in Nat
    /\ task \in [JobIds -> TaskState]
    /\ work \in [JobIds -> WorkState]
    /\ phase \in {"serving", "draining", "stopped"}
    /\ polls \in 0..MaxPolls
    /\ acked \subseteq JobIds
    /\ peak \in Nat

(* create_job may go over max_jobs, because it never evicts a live job,    *)
(* but the queue is then no larger than the most jobs that were ever live  *)
(* at once: terminal jobs do not pile up on top of max_jobs.               *)
SizeBound == Cardinality(Present(jobs)) <= Larger(MaxJobs, peak)

(* No job stays RUNNING with nobody to end it: on every path out of        *)
(* _process_job the status is written.                                     *)
RunningIsDriven == \A j \in JobIds : jobs[j].status = Running => task[j] = "awaiting"

(* A job whose cancellation was confirmed is never reported completed and  *)
(* never carries a result, whenever its call ends.                         *)
CancelledHasNoResult ==
    \A j \in acked : /\ jobs[j].status \in {Cancelled, Failed, Gone}
                     /\ jobs[j].result = None

(* A job that is pending or running is not removed, neither for its age    *)
(* nor to make room.                                                       *)
LiveJobsStay == [][\A j \in Live(jobs) : j \in Present(jobs')]_vars

(* A removed job does not come back: what a task or a late thread still    *)
(* writes to it goes nowhere.                                              *)
RemovedStaysRemoved ==
    [][\A j \in JobIds : task[j] # "unborn" /\ j \notin Present(jobs) => j \notin Present(jobs')]_vars

(* COMPLETED and FAILED are final: a job that timed out is not completed   *)
(* by the call that is still running for it.                               *)
OutcomeIsFinal ==
    [][\A j \in JobIds : jobs[j].status \in {Completed, Failed} =>
         \/ jobs'[j] = NoJob
         \/ /\ jobs'[j].status = jobs[j].status
            /\ jobs'[j].result = jobs[j].result
            /\ jobs'[j].error = jobs[j].error]_vars

(* Every submitted job is settled while the service runs, even when every  *)
(* thread is held by calls that hang.                                      *)
JobsSettle ==
    \A j \in JobIds : task[j] = "ready" ~> (jobs[j].status \notin LiveStatus \/ phase = "stopped")

-----------------------------------------------------------------------------
(* "Cancel a pending or running job. Returns True if the job was           *)
(* successfully cancelled" (job_queue.py:102): a job whose cancellation    *)
(* was confirmed stays cancelled for as long as it can be read.            *)
CancelledStaysCancelled ==
    \A j \in acked : jobs[j].status \in {Cancelled, Gone}
=============================================================================
