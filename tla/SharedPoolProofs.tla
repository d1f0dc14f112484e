-------------------------- MODULE SharedPoolProofs --------------------------
(***************************************************************************)
(* The jobs, and a batch beside them, for every finite set of jobs, every  *)
(* max_jobs and any number of items and threads.                           *)
(*                                                                         *)
(* First the jobs alone (JobService).  The inductive invariant ties the    *)
(* status of a job to where its task is: PENDING means that the task is    *)
(* ready, RUNNING that it awaits the call, and an awaiting task never      *)
(* finds its job COMPLETED or FAILED.  From it follow what cancellation    *)
(* guarantees and that outcomes are final.  The bound on the size needs    *)
(* cardinalities.                                                          *)
(*                                                                         *)
(* Then the shared pool: it implements JobService, so that what was proved *)
(* of the jobs holds beside a batch too; and a batch is answered in place. *)
(* The inductive invariant counts the permits: those left and the items    *)
(* that hold one make up the limit.                                        *)
(***************************************************************************)
EXTENDS SharedPool, TLAPS, FiniteSetTheorems, WellFoundedInduction

USE DEF Pending, Running, Completed, Failed, Cancelled, JobStatus, LiveStatus,
        TerminalStatus, Gone, None

TaskMatches ==
    \A j \in JobIds :
      /\ task[j] = "unborn"   => jobs[j] = NoJob
      /\ task[j] = "ready"    => jobs[j].status = Pending
      /\ task[j] = "awaiting" => jobs[j].status \in {Running, Cancelled, Gone}
      /\ task[j] = "ended"    => jobs[j].status \in TerminalStatus \cup {Gone}

NoEarlyResult ==
    \A j \in JobIds : jobs[j].status \in LiveStatus \cup {Cancelled, Gone} => jobs[j].result = None

AckedStarted == \A j \in acked : task[j] \in {"awaiting", "ended"}

IInv ==
    /\ TypeOK
    /\ TaskMatches
    /\ NoEarlyResult
    /\ AckedStarted
    /\ CancelledHasNoResult

-----------------------------------------------------------------------------
(* Lemmas about the queue                                                  *)

(* A queue that has terminal jobs has an oldest one: created_at is bounded *)
(* from below.                                                             *)
LEMMA OldestIsTerminal ==
  ASSUME NEW q \in [JobIds -> Job], Terminal(q) # {}
  PROVE  Oldest(q) \in Terminal(q)
<1> DEFINE Stamps == {q[j].created : j \in Terminal(q)}
<1>1. Stamps \subseteq Nat /\ Stamps # {}
  BY DEF Terminal, Job
<1> HIDE DEF Stamps
<1>2. PICK n \in Stamps : \A m \in Stamps : ~(<<m, n>> \in OpToRel(<, Nat))
  BY <1>1, NatLessThanWellFounded, WFMin
<1>3. \A m \in Stamps : n <= m
  <2> SUFFICES ASSUME NEW m \in Stamps, ~(n <= m) PROVE FALSE
    OBVIOUS
  <2>1. m \in Nat /\ n \in Nat /\ m < n
    BY <1>1
  <2>2. <<m, n>> \in Nat \X Nat /\ <<m, n>>[1] < <<m, n>>[2]
    BY <2>1
  <2>3. <<m, n>> \in OpToRel(<, Nat)
    BY <2>2, Zenon DEF OpToRel
  <2> QED BY <1>2, <2>3
<1>4. \E j \in Terminal(q) : \A i \in Terminal(q) : q[j].created <= q[i].created
  BY <1>3 DEF Stamps
<1> QED BY <1>4 DEF Oldest

(* Making room removes terminal jobs and touches no other.                 *)
LEMMA RoomType ==
  ASSUME NEW q \in [JobIds -> Job]
  PROVE  /\ MakeRoom(q) \in [JobIds -> Job]
         /\ \A j \in JobIds : MakeRoom(q)[j] = q[j]
                              \/ (MakeRoom(q)[j] = NoJob /\ q[j].status \in TerminalStatus)
<1> DEFINE kept == CleanupExpired(q)
<1>0. NoJob \in Job /\ NoJob.status = Gone
  BY DEF NoJob, Job, Results, Errors
<1>1. /\ kept \in [JobIds -> Job]
      /\ \A j \in JobIds : kept[j] = q[j] \/ (kept[j] = NoJob /\ q[j].status \in TerminalStatus)
  BY <1>0 DEF CleanupExpired, Terminal
<1> HIDE DEF kept
<1>2. CASE Terminal(kept) # {}
  <2>1. Oldest(kept) \in JobIds /\ kept[Oldest(kept)].status \in TerminalStatus
    BY <1>1, <1>2, OldestIsTerminal DEF Terminal
  <2>2. q[Oldest(kept)].status \in TerminalStatus
    BY <1>0, <1>1, <2>1
  <2> QED BY <1>0, <1>1, <1>2, <2>1, <2>2 DEF MakeRoom, EvictOldest, kept
<1>3. CASE Terminal(kept) = {}
  BY <1>1, <1>3 DEF MakeRoom, EvictOldest, kept
<1> QED BY <1>2, <1>3

(* create_job sets the new job and otherwise only removes terminal ones.   *)
LEMMA CreateType ==
  ASSUME NEW q \in [JobIds -> Job], NEW k \in JobIds, NEW n \in Nat
  PROVE  /\ CreateJob(q, k, n) \in [JobIds -> Job]
         /\ CreateJob(q, k, n)[k] = NewJob(n)
         /\ \A j \in JobIds \ {k} :
              \/ CreateJob(q, k, n)[j] = q[j]
              \/ CreateJob(q, k, n)[j] = NoJob /\ q[j].status \in TerminalStatus
<1>1. NewJob(n) \in Job
  BY DEF NewJob, NoJob, Job, Results, Errors
<1> QED BY <1>1, RoomType DEF CreateJob

(* The values that _process_job hands to update_job have the right types.  *)
LEMMA ConstantTypes ==
  /\ {Running, Completed, Failed} \subseteq JobStatus
  /\ {None, "answer", "failure"} \subseteq Results
  /\ {None, "outcome_error", "timed_out", "exception"} \subseteq Errors
BY DEF Results, Errors

(* update_job changes one present job and leaves a missing one missing.    *)
LEMMA UpdateType ==
  ASSUME NEW q \in [JobIds -> Job], NEW k \in JobIds, NEW s \in JobStatus,
         NEW r \in Results, NEW e \in Errors
  PROVE  /\ UpdateJob(q, k, s, r, e) \in [JobIds -> Job]
         /\ q[k].status = Gone => UpdateJob(q, k, s, r, e)[k] = q[k]
         /\ q[k].status # Gone => /\ UpdateJob(q, k, s, r, e)[k].status = s
                                  /\ UpdateJob(q, k, s, r, e)[k].result =
                                       IF r = None THEN q[k].result ELSE r
         /\ \A j \in JobIds \ {k} : UpdateJob(q, k, s, r, e)[j] = q[j]
<1>1. CASE q[k].status = Gone
  BY <1>1 DEF UpdateJob
<1>2. CASE q[k].status # Gone
  <2> DEFINE new == [status  |-> s,
                     created |-> q[k].created,
                     expired |-> q[k].expired,
                     result  |-> IF r = None THEN q[k].result ELSE r,
                     error   |-> IF e = None THEN q[k].error ELSE e]
  <2>1. new \in Job
    BY DEF Job
  <2>2. UpdateJob(q, k, s, r, e) = [q EXCEPT ![k] = new]
    BY <1>2 DEF UpdateJob
  <2>3. new.status = s /\ new.result = IF r = None THEN q[k].result ELSE r
    OBVIOUS
  <2> HIDE DEF new
  <2> QED BY <1>2, <2>1, <2>2, <2>3
<1> QED BY <1>1, <1>2

-----------------------------------------------------------------------------
(* The inductive invariant, one lemma per action that writes to the queue  *)

(* Submitting a job starts it PENDING with a ready task.                   *)
LEMMA SubmitInv == ASSUME IInv, NEW k \in JobIds, Submit(k) PROVE IInv'
<1> USE DEF IInv, TypeOK
<1>1. /\ jobs' \in [JobIds -> Job]
      /\ jobs'[k] = NewJob(created)
      /\ \A j \in JobIds \ {k} :
           \/ jobs'[j] = jobs[j]
           \/ jobs'[j] = NoJob /\ jobs[j].status \in TerminalStatus
  BY CreateType DEF Submit
<1>2. /\ NewJob(created).status = Pending /\ NewJob(created).result = None
      /\ NoJob.status = Gone /\ NoJob.result = None
  BY DEF NewJob, NoJob
<1>3. k \notin acked
  BY DEF AckedStarted, Submit
<1>4. TypeOK'
  <2>1. Live(jobs') \subseteq JobIds
    BY DEF Live
  <2>2. Cardinality(Live(jobs')) \in Nat
    BY <2>1, IdsAssumption, FS_Subset, FS_CardinalityType
  <2>3. peak' \in Nat
    BY <2>2 DEF Submit, Larger
  <2>4. created' \in Nat /\ task' \in [JobIds -> TaskState]
    BY DEF Submit, TaskState
  <2> QED BY <1>1, <2>3, <2>4 DEF Submit
<1>5. TaskMatches'
  BY <1>1, <1>2 DEF TaskMatches, Submit
<1>6. NoEarlyResult'
  BY <1>1, <1>2 DEF NoEarlyResult
<1>7. AckedStarted'
  BY <1>3 DEF AckedStarted, Submit
<1>8. CancelledHasNoResult'
  BY <1>1, <1>2, <1>3 DEF CancelledHasNoResult, Submit
<1> QED BY <1>4, <1>5, <1>6, <1>7, <1>8

(* A task that starts makes its pending job RUNNING.                       *)
LEMMA StartInv == ASSUME IInv, NEW k \in JobIds, Start(k) PROVE IInv'
<1> USE DEF IInv, TypeOK
<1>1. jobs[k].status = Pending /\ k \notin acked
  BY DEF TaskMatches, AckedStarted, Start
<1>2. /\ jobs' \in [JobIds -> Job]
      /\ jobs'[k].status = Running /\ jobs'[k].result = jobs[k].result
      /\ \A j \in JobIds \ {k} : jobs'[j] = jobs[j]
  <2>1. jobs \in [JobIds -> Job] /\ jobs' = UpdateJob(jobs, k, Running, None, None)
    BY DEF Start
  <2>2. Running \in JobStatus /\ None \in Results /\ None \in Errors
    BY ConstantTypes
  <2> HIDE DEF IInv, TypeOK
  <2> QED BY <1>1, <2>1, <2>2, UpdateType
<1>3. TypeOK'
  BY <1>2 DEF Start, TaskState, WorkState
<1>4. TaskMatches'
  BY <1>2 DEF TaskMatches, Start
<1>5. NoEarlyResult'
  BY <1>1, <1>2 DEF NoEarlyResult
<1>6. AckedStarted' /\ CancelledHasNoResult'
  BY <1>1, <1>2 DEF AckedStarted, CancelledHasNoResult, Start
<1> QED BY <1>3, <1>4, <1>5, <1>6

(* What _process_job writes in the end leaves a terminal job or none, and  *)
(* attaches no result to a cancelled one.                                  *)
LEMMA WrittenType ==
  ASSUME IInv, NEW k \in JobIds, task[k] = "awaiting", work[k] \in Ended
  PROVE  /\ Written(k) \in [JobIds -> Job]
         /\ Written(k)[k].status \in TerminalStatus \cup {Gone}
         /\ Written(k)[k].status \in {Cancelled, Gone} => Written(k)[k].result = None
         /\ jobs[k].status # Running =>
               Written(k)[k].status \in {Cancelled, Failed, Gone} /\ Written(k)[k].result = None
         /\ jobs[k].status = Gone => Written(k)[k] = jobs[k]
         /\ jobs[k].status # Gone => Written(k)[k].status # Gone
         /\ \A j \in JobIds \ {k} : Written(k)[j] = jobs[j]
<1>1. jobs[k].status \in {Running, Cancelled, Gone} /\ jobs[k].result = None
  BY DEF IInv, TaskMatches, NoEarlyResult
<1>2. jobs \in [JobIds -> Job]
  BY DEF IInv, TypeOK
<1>3. CASE work[k] = "raised"
  <2>1. Written(k) = UpdateJob(jobs, k, Failed, None, "exception")
    BY <1>3 DEF Written
  <2>2. Failed \in JobStatus /\ None \in Results /\ "exception" \in Errors
    BY ConstantTypes
  <2> QED BY <1>1, <1>2, <2>1, <2>2, UpdateType
<1>4. CASE work[k] # "raised" /\ jobs[k].status = Cancelled
  BY <1>1, <1>2, <1>4 DEF Written
<1>5. CASE work[k] = "ok" /\ jobs[k].status # Cancelled
  <2>1. Written(k) = UpdateJob(jobs, k, Completed, "answer", None)
    BY <1>5 DEF Written
  <2>2. Completed \in JobStatus /\ "answer" \in Results /\ None \in Errors
    BY ConstantTypes
  <2> QED BY <1>1, <1>2, <1>5, <2>1, <2>2, UpdateType
<1>6. CASE work[k] = "failed" /\ jobs[k].status # Cancelled
  <2>1. Written(k) = UpdateJob(jobs, k, Failed, "failure", "outcome_error")
    BY <1>6 DEF Written
  <2>2. Failed \in JobStatus /\ "failure" \in Results /\ "outcome_error" \in Errors
    BY ConstantTypes
  <2> QED BY <1>1, <1>2, <1>6, <2>1, <2>2, UpdateType
<1> QED BY <1>3, <1>4, <1>5, <1>6 DEF Ended

(* The end of a task settles its job.                                      *)
LEMMA ResumeInv == ASSUME IInv, NEW k \in JobIds, Resume(k) PROVE IInv'
<1> USE DEF IInv, TypeOK
<1>1. /\ jobs' \in [JobIds -> Job]
      /\ jobs'[k].status \in TerminalStatus \cup {Gone}
      /\ jobs'[k].status \in {Cancelled, Gone} => jobs'[k].result = None
      /\ jobs[k].status # Running =>
            jobs'[k].status \in {Cancelled, Failed, Gone} /\ jobs'[k].result = None
      /\ \A j \in JobIds \ {k} : jobs'[j] = jobs[j]
  BY WrittenType DEF Resume
<1>2. TypeOK'
  BY <1>1 DEF Resume, TaskState
<1>3. TaskMatches'
  BY <1>1 DEF TaskMatches, Resume
<1>4. NoEarlyResult'
  BY <1>1 DEF NoEarlyResult
<1>5. AckedStarted' /\ CancelledHasNoResult'
  BY <1>1 DEF AckedStarted, CancelledHasNoResult, Resume
<1> QED BY <1>2, <1>3, <1>4, <1>5

(* So does its timeout.                                                    *)
LEMMA TimeOutInv == ASSUME IInv, NEW k \in JobIds, TimeOut(k) PROVE IInv'
<1> USE DEF IInv, TypeOK
<1>1. jobs[k].status \in {Running, Cancelled, Gone} /\ jobs[k].result = None
  BY DEF TaskMatches, NoEarlyResult, TimeOut
<1>2. /\ jobs' \in [JobIds -> Job]
      /\ jobs'[k].status \in {Failed, Gone} /\ jobs'[k].result = None
      /\ \A j \in JobIds \ {k} : jobs'[j] = jobs[j]
  <2>1. jobs \in [JobIds -> Job] /\ jobs' = UpdateJob(jobs, k, Failed, None, "timed_out")
    BY DEF TimeOut
  <2>2. Failed \in JobStatus /\ None \in Results /\ "timed_out" \in Errors
    BY ConstantTypes
  <2> HIDE DEF IInv, TypeOK
  <2> QED BY <1>1, <2>1, <2>2, UpdateType
<1>3. TypeOK'
  BY <1>2 DEF TimeOut, TaskState, WorkState
<1>4. TaskMatches'
  BY <1>2 DEF TaskMatches, TimeOut
<1>5. NoEarlyResult'
  BY <1>2 DEF NoEarlyResult
<1>6. AckedStarted' /\ CancelledHasNoResult'
  BY <1>2 DEF AckedStarted, CancelledHasNoResult, TimeOut
<1> QED BY <1>3, <1>4, <1>5, <1>6

(* A confirmed cancellation finds a running job, and leaves it without a   *)
(* result.                                                                 *)
LEMMA CancelInv == ASSUME IInv, NEW k \in JobIds, Cancel(k) PROVE IInv'
<1> USE DEF IInv, TypeOK
<1>1. task[k] = "awaiting" /\ jobs[k].status = Running /\ jobs[k].result = None
  BY DEF Cancel, Cancellable, TaskMatches, NoEarlyResult, TaskState
<1>2. /\ jobs' \in [JobIds -> Job]
      /\ jobs'[k].status = Cancelled /\ jobs'[k].result = None
      /\ \A j \in JobIds \ {k} : jobs'[j] = jobs[j]
  <2> DEFINE job == [jobs[k] EXCEPT !.status = Cancelled, !.error = "cancelled_by_user"]
  <2>1. jobs' = [jobs EXCEPT ![k] = job]
    BY DEF Cancel, CancelJob
  <2>2. jobs \in [JobIds -> Job] /\ jobs[k] \in Job
    OBVIOUS
  <2>3. job \in Job /\ job.status = Cancelled /\ job.result = None
    <3> HIDE DEF IInv, TypeOK
    <3> QED BY <1>1, <2>2 DEF Job, Errors
  <2> HIDE DEF job, IInv, TypeOK
  <2> QED BY <2>1, <2>2, <2>3
<1>3. TypeOK'
  BY <1>2 DEF Cancel
<1>4. TaskMatches'
  BY <1>1, <1>2 DEF TaskMatches, Cancel
<1>5. NoEarlyResult'
  BY <1>2 DEF NoEarlyResult
<1>6. AckedStarted' /\ CancelledHasNoResult'
  BY <1>1, <1>2 DEF AckedStarted, CancelledHasNoResult, Cancel
<1> QED BY <1>3, <1>4, <1>5, <1>6

(* Growing old changes nothing but the flag.                               *)
LEMMA GrowOldInv == ASSUME IInv, NEW k \in JobIds, GrowOld(k) PROVE IInv'
<1> USE DEF IInv, TypeOK
<1>1. /\ jobs' \in [JobIds -> Job]
      /\ \A j \in JobIds : jobs'[j].status = jobs[j].status /\ jobs'[j].result = jobs[j].result
      /\ \A j \in JobIds : jobs[j].status = Gone => jobs'[j] = jobs[j]
  BY DEF GrowOld, Job, Present
<1>2. TaskMatches'
  <2>1. NoJob.status = Gone
    BY DEF NoJob
  <2> QED BY <1>1, <2>1 DEF TaskMatches, GrowOld
<1> QED
  BY <1>1, <1>2 DEF NoEarlyResult, AckedStarted, CancelledHasNoResult, GrowOld

(* The invariant is inductive.                                             *)
LEMMA Inductive == IInv /\ [Next]_vars => IInv'
<1> SUFFICES ASSUME IInv, [Next]_vars PROVE IInv'
  OBVIOUS
<1>1. ASSUME NEW k \in JobIds, JobStep(k) PROVE IInv'
  <2>1. CASE TakeWork(k)
    BY <2>1 DEF TakeWork, IInv, TypeOK, TaskMatches, NoEarlyResult, AckedStarted,
                CancelledHasNoResult, WorkState
  <2>2. CASE EndWork(k)
    BY <2>2 DEF EndWork, IInv, TypeOK, TaskMatches, NoEarlyResult, AckedStarted,
                CancelledHasNoResult, WorkState, Ended
  <2> QED
    BY <1>1, <2>1, <2>2, SubmitInv, StartInv, ResumeInv, TimeOutInv, CancelInv, GrowOldInv
    DEF JobStep
<1>2. CASE BeginShutdown
  BY <1>2 DEF BeginShutdown, IInv, TypeOK, TaskMatches, NoEarlyResult, AckedStarted,
              CancelledHasNoResult
<1>3. CASE Poll
  BY <1>3, PollsAssumption DEF Poll, IInv, TypeOK, TaskMatches, NoEarlyResult, AckedStarted,
              CancelledHasNoResult
<1>4. CASE UNCHANGED vars
  BY <1>4 DEF vars, IInv, TypeOK, TaskMatches, NoEarlyResult, AckedStarted,
              CancelledHasNoResult
<1> QED BY <1>1, <1>2, <1>3, <1>4 DEF Next

(* Every reachable state of the service satisfies the invariant.           *)
LEMMA Invariance == Spec => []IInv
<1>1. Init => IInv
  <2>1. NoJob \in Job /\ NoJob.result = None
    BY DEF NoJob, Job, Results, Errors
  <2> QED
    BY <2>1, PollsAssumption DEF Init, IInv, TypeOK, TaskMatches, NoEarlyResult, AckedStarted,
                CancelledHasNoResult, TaskState, WorkState
<1> QED BY <1>1, Inductive, PTL DEF Spec

(* The variables keep their types, for every set of jobs and pool.         *)
THEOREM TypeCorrect == Spec => []TypeOK
BY Invariance, PTL DEF IInv

(* A job whose DELETE was confirmed is never reported completed and never  *)
(* carries the answer of the call that went on running for it.             *)
THEOREM CancellationHidesTheResult == Spec => []CancelledHasNoResult
BY Invariance, PTL DEF IInv

(* A RUNNING job always has a task that awaits its call, so that shutdown  *)
(* never waits for a job that nobody will end.                             *)
THEOREM NoOrphanRuns == Spec => []RunningIsDriven
<1>1. IInv => RunningIsDriven
  <2> SUFFICES ASSUME IInv, NEW j \in JobIds, jobs[j].status = Running
               PROVE  task[j] = "awaiting"
    BY DEF RunningIsDriven
  <2>1. task[j] \in TaskState /\ NoJob.status = Gone
    BY DEF IInv, TypeOK, NoJob
  <2> QED BY <2>1 DEF IInv, TaskMatches, TaskState
<1> QED BY <1>1, Invariance, PTL

-----------------------------------------------------------------------------
(* What one step can do to one job                                         *)

Kept(j) ==
    /\ jobs'[j].status = jobs[j].status
    /\ jobs'[j].result = jobs[j].result
    /\ jobs'[j].error = jobs[j].error
    /\ jobs[j].status = Gone => jobs'[j] = jobs[j]
Removed(j)  == jobs'[j] = NoJob /\ jobs[j].status \in TerminalStatus
Progress(j) == jobs[j].status \in {Pending, Running, Cancelled} /\ jobs'[j].status # Gone

Change(j) == Kept(j) \/ Removed(j) \/ Progress(j) \/ Submit(j)

(* A step keeps a job, removes it when terminal, moves it on while its     *)
(* outcome is open, or submits it.                                         *)
LEMMA StepChange == ASSUME IInv, [Next]_vars, NEW j \in JobIds PROVE Change(j)
<1> USE DEF Change
<1>0. jobs \in [JobIds -> Job]
  BY DEF IInv, TypeOK
<1>1. ASSUME NEW k \in JobIds, Submit(k) PROVE Change(j)
  <2>1. created \in Nat /\ jobs' = CreateJob(jobs, k, created)
    BY <1>1 DEF IInv, TypeOK, Submit
  <2>2. \A i \in JobIds \ {k} :
          jobs'[i] = jobs[i] \/ (jobs'[i] = NoJob /\ jobs[i].status \in TerminalStatus)
    BY <1>0, <2>1, CreateType
  <2>3. CASE j = k
    BY <1>1, <2>3
  <2>4. CASE j # k
    <3>1. jobs'[j] = jobs[j] \/ Removed(j)
      BY <2>2, <2>4 DEF Removed
    <3> QED BY <3>1 DEF Kept
  <2> QED BY <2>3, <2>4
<1>2. ASSUME NEW k \in JobIds, Start(k) PROVE Change(j)
  <2>1. jobs[k].status = Pending
    BY <1>2 DEF IInv, TaskMatches, Start
  <2>2. jobs' = UpdateJob(jobs, k, Running, None, None)
    BY <1>2 DEF Start
  <2>3. Running \in JobStatus /\ None \in Results /\ None \in Errors
    BY ConstantTypes
  <2>4. jobs'[k].status = Running /\ \A i \in JobIds \ {k} : jobs'[i] = jobs[i]
    BY <1>0, <2>1, <2>2, <2>3, UpdateType
  <2> QED BY <2>1, <2>4 DEF Kept, Progress
<1>3. ASSUME NEW k \in JobIds, Resume(k) PROVE Change(j)
  <2>1. jobs[k].status \in {Running, Cancelled, Gone}
    BY <1>3 DEF IInv, TaskMatches, Resume
  <2>2. /\ jobs[k].status = Gone => jobs'[k] = jobs[k]
        /\ jobs[k].status # Gone => jobs'[k].status # Gone
        /\ \A i \in JobIds \ {k} : jobs'[i] = jobs[i]
    BY <1>3, WrittenType DEF Resume
  <2> QED BY <2>1, <2>2 DEF Kept, Progress
<1>4. ASSUME NEW k \in JobIds, TimeOut(k) PROVE Change(j)
  <2>1. jobs[k].status \in {Running, Cancelled, Gone}
    BY <1>4 DEF IInv, TaskMatches, TimeOut
  <2>2. jobs' = UpdateJob(jobs, k, Failed, None, "timed_out")
    BY <1>4 DEF TimeOut
  <2>3. Failed \in JobStatus /\ None \in Results /\ "timed_out" \in Errors
    BY ConstantTypes
  <2>4. /\ jobs[k].status = Gone => jobs'[k] = jobs[k]
        /\ jobs[k].status # Gone => jobs'[k].status = Failed
        /\ \A i \in JobIds \ {k} : jobs'[i] = jobs[i]
    BY <1>0, <2>2, <2>3, UpdateType
  <2> QED BY <2>1, <2>4 DEF Kept, Progress
<1>5. ASSUME NEW k \in JobIds, Cancel(k) PROVE Change(j)
  <2>1. jobs' = [jobs EXCEPT ![k].status = Cancelled, ![k].error = "cancelled_by_user"]
    BY <1>5 DEF Cancel, CancelJob
  <2>2. jobs[k].status \in LiveStatus
    BY <1>5 DEF Cancel, Cancellable
  <2> QED BY <1>0, <2>1, <2>2 DEF Kept, Progress, Job
<1>6. ASSUME NEW k \in JobIds, GrowOld(k) PROVE Change(j)
  BY <1>0, <1>6 DEF GrowOld, Kept, Present, Job
<1>7. ASSUME NEW k \in JobIds, TakeWork(k) \/ EndWork(k) PROVE Change(j)
  BY <1>7 DEF TakeWork, EndWork, Kept
<1>8. CASE BeginShutdown \/ Poll \/ UNCHANGED vars
  BY <1>8 DEF BeginShutdown, Poll, vars, Kept
<1> QED BY <1>1, <1>2, <1>3, <1>4, <1>5, <1>6, <1>7, <1>8 DEF Next, JobStep

(* A job that does not exist yet is not there.                             *)
LEMMA UnbornIsGone ==
  ASSUME IInv, NEW j \in JobIds, task[j] = "unborn" PROVE jobs[j].status = Gone
BY DEF IInv, TaskMatches, NoJob

(* Neither cleanup nor eviction removes a pending or running job.          *)
THEOREM LiveJobsAreKept == Spec => LiveJobsStay
<1>1. IInv /\ [Next]_vars => [\A j \in Live(jobs) : j \in Present(jobs')]_vars
  <2> SUFFICES ASSUME IInv, [Next]_vars, NEW j \in JobIds, jobs[j].status \in LiveStatus
               PROVE  jobs'[j].status # Gone
    BY DEF Live, Present
  <2>1. ~Submit(j)
    BY UnbornIsGone DEF Submit
  <2> QED BY <2>1, StepChange DEF Change, Kept, Removed, Progress
<1> QED BY <1>1, Invariance, PTL DEF Spec, LiveJobsStay

(* What is still written to a removed job does not bring it back.          *)
THEOREM RemovedJobsStayRemoved == Spec => RemovedStaysRemoved
<1>1. IInv /\ [Next]_vars
       => [\A j \in JobIds : task[j] # "unborn" /\ j \notin Present(jobs) => j \notin Present(jobs')]_vars
  <2> SUFFICES ASSUME IInv, [Next]_vars, NEW j \in JobIds, task[j] # "unborn",
                      jobs[j].status = Gone
               PROVE  jobs'[j].status = Gone
    BY DEF Present
  <2> QED BY StepChange DEF Change, Kept, Removed, Progress, Submit
<1> QED BY <1>1, Invariance, PTL DEF Spec, RemovedStaysRemoved

(* A COMPLETED or FAILED job keeps its status, result and error until it   *)
(* is removed.                                                             *)
THEOREM OutcomesAreFinal == Spec => OutcomeIsFinal
<1>1. IInv /\ [Next]_vars
       => [\A j \in JobIds : jobs[j].status \in {Completed, Failed} =>
             \/ jobs'[j] = NoJob
             \/ /\ jobs'[j].status = jobs[j].status
                /\ jobs'[j].result = jobs[j].result
                /\ jobs'[j].error = jobs[j].error]_vars
  <2> SUFFICES ASSUME IInv, [Next]_vars, NEW j \in JobIds,
                      jobs[j].status \in {Completed, Failed}
               PROVE  Kept(j) \/ Removed(j)
    BY DEF Kept, Removed
  <2>1. ~Submit(j)
    BY UnbornIsGone DEF Submit
  <2> QED BY <2>1, StepChange DEF Change, Progress
<1> QED BY <1>1, Invariance, PTL DEF Spec, OutcomeIsFinal

-----------------------------------------------------------------------------
(* The size of the queue                                                   *)

(* Sets of jobs are finite and have sizes.                                 *)
LEMMA Sizes ==
  ASSUME NEW S, S \subseteq JobIds
  PROVE  IsFiniteSet(S) /\ Cardinality(S) \in Nat
BY IdsAssumption, FS_Subset, FS_CardinalityType

(* Creating a job leaves the queue within max_jobs, or no larger than it   *)
(* was, or with live jobs only.                                            *)
LEMMA CreateSize ==
  ASSUME NEW q \in [JobIds -> Job], NEW k \in JobIds, q[k] = NoJob, NEW n \in Nat
  PROVE  LET new == CreateJob(q, k, n) IN
         \/ Cardinality(Present(new)) <= MaxJobs
         \/ Cardinality(Present(new)) <= Cardinality(Present(q))
         \/ Present(new) = Live(new)
<1> DEFINE kept == CleanupExpired(q)
           room == MakeRoom(q)
           new  == CreateJob(q, k, n)
<1>0. NoJob \in Job /\ NoJob.status = Gone /\ NewJob(n).status = Pending
  BY DEF NoJob, NewJob, Job, Results, Errors
<1>1. kept \in [JobIds -> Job] /\ kept[k] = NoJob /\ Present(kept) \subseteq Present(q)
  BY <1>0 DEF CleanupExpired, Present
<1>2. room \in [JobIds -> Job]
  BY RoomType
<1>3. new = [room EXCEPT ![k] = NewJob(n)]
  BY DEF CreateJob
<1>4. room = IF Cardinality(Present(kept)) >= MaxJobs THEN EvictOldest(kept) ELSE kept
  BY DEF MakeRoom
<1> HIDE DEF kept, room, new
<1>5. Present(new) = Present(room) \cup {k} /\ Live(room) \cup {k} = Live(new)
  BY <1>0, <1>2, <1>3 DEF Present, Live
<1>6. /\ Present(kept) \subseteq JobIds /\ Present(q) \subseteq JobIds
      /\ k \notin Present(kept)
  BY <1>0, <1>1 DEF Present
<1>7. /\ Cardinality(Present(kept) \cup {k}) = Cardinality(Present(kept)) + 1
      /\ Cardinality(Present(kept)) \in Nat /\ Cardinality(Present(q)) \in Nat
      /\ IsFiniteSet(Present(kept))
      /\ Cardinality(Present(kept)) <= Cardinality(Present(q))
  BY <1>1, <1>6, Sizes, FS_AddElement, FS_Subset
<1>8. CASE Cardinality(Present(kept)) < MaxJobs
  <2>1. Present(new) = Present(kept) \cup {k}
    BY <1>4, <1>5, <1>7, <1>8, MaxJobsAssumption
  <2> QED BY <1>7, <1>8, <2>1, MaxJobsAssumption DEF new
<1>9. CASE Cardinality(Present(kept)) >= MaxJobs /\ Terminal(kept) = {}
  <2>1. room = kept
    BY <1>4, <1>9 DEF EvictOldest
  <2>2. Present(kept) = Live(kept)
    BY <1>1, <1>9 DEF Present, Live, Terminal, Job
  <2>3. Present(new) = Live(new)
    BY <1>5, <2>1, <2>2
  <2> QED BY <2>3 DEF new
<1>10. CASE Cardinality(Present(kept)) >= MaxJobs /\ Terminal(kept) # {}
  <2> DEFINE o == Oldest(kept)
  <2>1. o \in Terminal(kept) /\ room = [kept EXCEPT ![o] = NoJob]
    BY <1>1, <1>4, <1>10, OldestIsTerminal DEF EvictOldest
  <2> HIDE DEF o
  <2>2. o \in JobIds /\ o \in Present(kept)
    BY <2>1 DEF Terminal, Present
  <2>3. Present(room) = Present(kept) \ {o}
    BY <1>0, <1>1, <2>1, <2>2 DEF Present
  <2>4. /\ IsFiniteSet(Present(room))
        /\ Cardinality(Present(room)) = Cardinality(Present(kept)) - 1
    BY <1>7, <2>2, <2>3, FS_RemoveElement
  <2>5. k \notin Present(room)
    BY <1>6, <2>3
  <2>6. Cardinality(Present(new)) = Cardinality(Present(room)) + 1
    BY <1>5, <2>4, <2>5, FS_AddElement
  <2> QED BY <1>7, <2>4, <2>6 DEF new
<1> QED BY <1>7, <1>8, <1>9, <1>10, MaxJobsAssumption

(* The queue never holds more than max_jobs jobs, unless more than that    *)
(* were pending or running at once, and then no more than were.            *)
THEOREM QueueIsBounded == Spec => []SizeBound
<1>1. Init => SizeBound
  <2> SUFFICES ASSUME Init PROVE SizeBound
    OBVIOUS
  <2>1. Present(jobs) = {}
    BY DEF Init, Present, NoJob
  <2> QED BY <2>1, FS_EmptySet, MaxJobsAssumption DEF Init, SizeBound, Larger
<1>2. IInv /\ SizeBound /\ [Next]_vars => SizeBound'
  <2> SUFFICES ASSUME IInv, SizeBound, [Next]_vars PROVE SizeBound'
    OBVIOUS
  <2>0. peak \in Nat /\ jobs \in [JobIds -> Job]
    BY DEF IInv, TypeOK
  <2>1. ASSUME NEW k \in JobIds, Submit(k) PROVE SizeBound'
    <3>1. jobs' = CreateJob(jobs, k, created) /\ created \in Nat /\ jobs[k] = NoJob
      BY <2>1 DEF Submit, IInv, TypeOK, TaskMatches
    <3>2. \/ Cardinality(Present(jobs')) <= MaxJobs
          \/ Cardinality(Present(jobs')) <= Cardinality(Present(jobs))
          \/ Present(jobs') = Live(jobs')
      BY <2>0, <3>1, CreateSize
    <3>3. /\ Cardinality(Present(jobs')) \in Nat /\ Cardinality(Live(jobs')) \in Nat
          /\ Cardinality(Present(jobs)) \in Nat
      BY Sizes DEF Present, Live
    <3>4. peak' = Larger(peak, Cardinality(Live(jobs')))
      BY <2>1 DEF Submit
    <3> QED BY <2>0, <3>2, <3>3, <3>4, MaxJobsAssumption DEF SizeBound, Larger
  <2>2. CASE \A k \in JobIds : ~Submit(k)
    <3>1. Present(jobs') \subseteq Present(jobs)
      <4> SUFFICES ASSUME NEW j \in JobIds, jobs[j].status = Gone PROVE jobs'[j].status = Gone
        BY DEF Present
      <4> QED BY <2>2, StepChange DEF Change, Kept, Removed, Progress
    <3>2. peak' = peak
      BY <2>2 DEF Next, JobStep, Start, TakeWork, EndWork, Resume, TimeOut, Cancel, GrowOld,
                  BeginShutdown, Poll, vars
    <3>3. /\ IsFiniteSet(Present(jobs)) /\ Cardinality(Present(jobs)) \in Nat
          /\ Cardinality(Present(jobs')) \in Nat
      BY Sizes DEF Present
    <3>4. Cardinality(Present(jobs')) <= Cardinality(Present(jobs))
      BY <3>1, <3>3, FS_Subset
    <3> QED BY <2>0, <3>2, <3>3, <3>4, MaxJobsAssumption DEF SizeBound, Larger
  <2> QED BY <2>1, <2>2
<1> QED BY <1>1, <1>2, Invariance, PTL DEF Spec

-----------------------------------------------------------------------------
(* The shared pool                                                         *)

CallState == {"none", "queued", "running"} \cup Returned
Held == {i \in Items : call[i] # "none" /\ results[i] = Unknown}
Working == InState({"running"})

PoolType ==
    /\ batch \in {"none", "running", "answered"}
    /\ call \in [Items -> CallState]
    /\ limit \in Nat /\ permits \in Nat
    /\ results \in [Items -> [index : 0..BatchSize, success : BOOLEAN]]
QuietOutside == batch # "running" =>
    /\ call = [i \in Items |-> "none"]
    /\ results = [i \in Items |-> Unknown]
OwnPlace == \A i \in Items : results[i] # Unknown =>
    /\ call[i] \in Returned
    /\ results[i] = [index |-> i, success |-> call[i] = "ok"]
PermitsCounted == permits + Cardinality(Held) = limit
ThreadsCounted == Cardinality(Busy) + Cardinality(Working) <= MaxWorkers

PInv == PoolType /\ QuietOutside /\ OwnPlace /\ PermitsCounted /\ ThreadsCounted

-----------------------------------------------------------------------------
(* A step of the shared pool is a step of the jobs, or none of theirs.     *)
LEMMA JobSideIsNext == JobSide => Next
BY DEF JobSide, Next, JobStep

(* The batch takes threads from the jobs and gives them nothing else to    *)
(* see: whatever is proved of JobService!Spec holds beside it.             *)
THEOREM ImplementsJobService == SharedSpec => Spec
<1>1. SharedInit => Init
  BY DEF SharedInit
<1>2. [SharedNext]_sharedVars => [Next]_vars
  <2> SUFFICES ASSUME [SharedNext]_sharedVars PROVE Next \/ UNCHANGED vars
    OBVIOUS
  <2>1. CASE JobSide
    BY <2>1, JobSideIsNext
  <2>2. CASE Receive
    BY <2>2 DEF Receive
  <2>3. CASE BatchProgress
    BY <2>3 DEF BatchProgress, Reply, Acquire, TakeItem, EndItem, Settle
  <2>4. CASE UNCHANGED sharedVars
    BY <2>4 DEF sharedVars
  <2> QED BY <2>1, <2>2, <2>3, <2>4 DEF SharedNext
<1> QED BY <1>1, <1>2, PTL DEF SharedSpec, Spec

-----------------------------------------------------------------------------
LEMMA ItemsFinite ==
  ASSUME NEW S, S \subseteq Items
  PROVE  IsFiniteSet(S) /\ Cardinality(S) \in Nat
<1>1. IsFiniteSet(Items)
  BY BatchAssumption, FS_Interval DEF Items
<1> QED BY <1>1, FS_Subset, FS_CardinalityType

LEMMA OneMore ==
  ASSUME NEW S, NEW x, IsFiniteSet(S)
  PROVE  /\ Cardinality(S) \in Nat /\ Cardinality(S \cup {x}) \in Nat
         /\ Cardinality(S \cup {x}) <= Cardinality(S) + 1
<1>1. IsFiniteSet(S \cup {x})
  BY FS_AddElement
<1>2. Cardinality(S) \in Nat /\ Cardinality(S \cup {x}) \in Nat
  BY <1>1, FS_CardinalityType
<1>3. CASE x \in S
  <2>1. Cardinality(S \cup {x}) = Cardinality(S)
    BY <1>3, FS_AddElement
  <2> QED BY <1>2, <2>1
<1>4. CASE x \notin S
  <2>1. Cardinality(S \cup {x}) = Cardinality(S) + 1
    BY <1>2, <1>4, FS_AddElement
  <2> QED BY <1>2, <2>1
<1> QED BY <1>3, <1>4

(* What the two fields of an item say when it is in its place.             *)
LEMMA PlacedItem ==
  ASSUME OwnPlace, NEW i \in Items, results[i] # Unknown
  PROVE  /\ results[i].index = i
         /\ results[i].success <=> call[i] = "ok"
<1>1. \A b : LET item == [index |-> i, success |-> b]
            IN  item.index = i /\ item.success = b
  OBVIOUS
<1>2. PICK b : b = (call[i] = "ok") /\ results[i] = [index |-> i, success |-> b]
  BY DEF OwnPlace
<1>3. results[i].index = i /\ results[i].success = b
  BY <1>1, <1>2, Zenon
<1> QED BY <1>2, <1>3, Zenon

LEMMA UnknownType == Unknown \in [index : 0..BatchSize, success : BOOLEAN]
BY BatchAssumption DEF Unknown

(* What is busy with jobs grows by one call at most, and only when there   *)
(* is a free thread.                                                       *)
LEMMA BusyGrows ==
  ASSUME TypeOK, JobSide
  PROVE  \/ Busy' \subseteq Busy
         \/ FreeThread /\ \E j \in JobIds : Busy' = Busy \cup {j}
<1> USE DEF Busy
<1>0. work \in [JobIds -> WorkState]
  BY DEF TypeOK
<1>1. ASSUME NEW j \in JobIds, Submit(j) \/ Cancel(j) \/ GrowOld(j) \/ Resume(j)
      PROVE  Busy' \subseteq Busy
  BY <1>1 DEF Submit, Cancel, GrowOld, Resume
<1>2. ASSUME NEW j \in JobIds, Start(j) PROVE Busy' \subseteq Busy
  BY <1>0, <1>2 DEF Start
<1>3. ASSUME NEW j \in JobIds, EndWork(j) PROVE Busy' \subseteq Busy
  BY <1>0, <1>3 DEF EndWork, Ended
<1>4. ASSUME NEW j \in JobIds, TimeOut(j) PROVE Busy' \subseteq Busy
  BY <1>0, <1>4 DEF TimeOut
<1>5. ASSUME NEW j \in JobIds, TakeWork(j) PROVE Busy' = Busy \cup {j}
  BY <1>0, <1>5 DEF TakeWork
<1>6. ASSUME BeginShutdown \/ Poll PROVE Busy' \subseteq Busy
  BY <1>6 DEF BeginShutdown, Poll
<1> HIDE DEF Busy
<1> QED BY <1>1, <1>2, <1>3, <1>4, <1>5, <1>6 DEF JobSide

-----------------------------------------------------------------------------
LEMMA JobSideInv == ASSUME PInv, TypeOK, JobSide PROVE PInv'
<1>1. UNCHANGED batchVars
  BY DEF JobSide
<1>2. /\ PoolType' /\ QuietOutside' /\ OwnPlace'
  BY <1>1 DEF PInv, PoolType, QuietOutside, OwnPlace, batchVars
<1>3. Held' = Held /\ Working' = Working
  BY <1>1 DEF Held, Working, InState, batchVars
<1>4. PermitsCounted'
  BY <1>1, <1>3 DEF PInv, PermitsCounted, batchVars
<1>5. /\ Cardinality(Busy) \in Nat /\ Cardinality(Busy') \in Nat /\ IsFiniteSet(Busy)
      /\ Cardinality(Working) \in Nat
  BY Sizes, ItemsFinite DEF Busy, Working, InState
<1>6. ThreadsCounted'
  <2>1. CASE Busy' \subseteq Busy
    <3>1. Cardinality(Busy') <= Cardinality(Busy)
      BY <1>5, <2>1, FS_Subset
    <3> QED BY <1>3, <1>5, <3>1, WorkersAssumption DEF PInv, ThreadsCounted
  <2>2. ASSUME FreeThread, NEW j \in JobIds, Busy' = Busy \cup {j} PROVE ThreadsCounted'
    <3>0. Cardinality(Busy \cup {j}) <= Cardinality(Busy) + 1
      BY <1>5, OneMore
    <3>1. Cardinality(Busy') <= Cardinality(Busy) + 1
      BY <2>2, <3>0
    <3>2. Cardinality(Busy) + Cardinality(Working) < MaxWorkers
      BY <2>2 DEF FreeThread, Working
    <3> QED BY <1>3, <1>5, <3>1, <3>2, WorkersAssumption DEF ThreadsCounted
  <2> QED BY <2>1, <2>2, BusyGrows
<1> QED BY <1>2, <1>4, <1>6 DEF PInv

LEMMA ReceiveInv == ASSUME PInv, Receive PROVE PInv'
<1> USE DEF PInv
<1>1. /\ call = [i \in Items |-> "none"] /\ results = [i \in Items |-> Unknown]
      /\ UNCHANGED <<vars, call, results>>
      /\ batch' = "running" /\ limit' \in Nat /\ permits' = limit'
  BY BatchAssumption DEF Receive, QuietOutside
<1>2. PoolType' /\ QuietOutside' /\ OwnPlace'
  BY <1>1 DEF PoolType, QuietOutside, OwnPlace
<1>3. Held' = {}
  BY <1>1 DEF Held
<1>4. PermitsCounted'
  BY <1>1, <1>3, FS_EmptySet DEF PermitsCounted
<1>5. Busy' = Busy /\ Working' = Working
  BY <1>1 DEF Busy, Working, InState, vars
<1> QED BY <1>2, <1>4, <1>5 DEF ThreadsCounted

LEMMA AcquireInv == ASSUME PInv, NEW k \in Items, Acquire(k) PROVE PInv'
<1> USE DEF PInv
<1>1. /\ call \in [Items -> CallState] /\ call[k] = "none" /\ permits \in Nat \ {0}
      /\ UNCHANGED <<vars, batch, limit, results>>
      /\ permits' = permits - 1 /\ call' = [call EXCEPT ![k] = "queued"]
      /\ batch = "running"
  BY DEF Acquire, PoolType
<1>2. PoolType' /\ QuietOutside'
  BY <1>1 DEF PoolType, QuietOutside, CallState
<1>3. results[k] = Unknown
  BY <1>1 DEF OwnPlace, Returned
<1>4. OwnPlace'
  BY <1>1, <1>3 DEF OwnPlace, Returned
<1>5. Held' = Held \cup {k} /\ k \notin Held
  BY <1>1, <1>3 DEF Held
<1>6. IsFiniteSet(Held) /\ Cardinality(Held) \in Nat
  BY ItemsFinite DEF Held
<1>7. Cardinality(Held \cup {k}) = Cardinality(Held) + 1
  BY <1>5, <1>6, FS_AddElement
<1>8. PermitsCounted'
  BY <1>1, <1>5, <1>6, <1>7 DEF PermitsCounted, PoolType
<1>9. Busy' = Busy /\ Working' = Working
  BY <1>1 DEF Busy, Working, InState, vars
<1> QED BY <1>2, <1>4, <1>8, <1>9 DEF ThreadsCounted

(* What stays the same when a call of the batch goes on.                   *)
LEMMA CallGoesOn ==
  ASSUME PInv, NEW k \in Items, call[k] \in {"queued", "running"}, NEW s \in CallState,
         s # "none", call' = [call EXCEPT ![k] = s],
         UNCHANGED <<vars, batch, limit, permits, results>>
  PROVE  PoolType' /\ QuietOutside' /\ OwnPlace' /\ PermitsCounted' /\ Busy' = Busy
<1> USE DEF PInv
<1>1. call \in [Items -> CallState] /\ results[k] = Unknown
  BY DEF PoolType, OwnPlace, Returned
<1>2. PoolType' /\ OwnPlace'
  BY <1>1 DEF PoolType, OwnPlace
<1>3. QuietOutside'
  BY <1>1 DEF QuietOutside
<1>4. Held' = Held
  BY <1>1 DEF Held
<1>5. PermitsCounted'
  BY <1>4 DEF PermitsCounted
<1>6. Busy' = Busy
  BY DEF Busy, vars
<1> QED BY <1>2, <1>3, <1>5, <1>6

LEMMA TakeItemInv == ASSUME PInv, NEW k \in Items, TakeItem(k) PROVE PInv'
<1>1. PoolType' /\ QuietOutside' /\ OwnPlace' /\ PermitsCounted' /\ Busy' = Busy
  BY CallGoesOn DEF TakeItem, CallState
<1>2. call \in [Items -> CallState] /\ call' = [call EXCEPT ![k] = "running"]
  BY DEF PInv, PoolType, TakeItem
<1>3. Working' = Working \cup {k}
  BY <1>2 DEF Working, InState
<1>4. /\ Cardinality(Working \cup {k}) <= Cardinality(Working) + 1
      /\ Cardinality(Working) \in Nat /\ Cardinality(Working \cup {k}) \in Nat
      /\ Cardinality(Busy) \in Nat
  BY Sizes, ItemsFinite, FS_AddElement DEF Working, InState, Busy
<1>5. Cardinality(Busy) + Cardinality(Working) < MaxWorkers
  BY DEF TakeItem, FreeThread, Working
<1>6. ThreadsCounted'
  BY <1>1, <1>3, <1>4, <1>5, WorkersAssumption DEF ThreadsCounted
<1> QED BY <1>1, <1>6 DEF PInv

LEMMA EndItemInv == ASSUME PInv, NEW k \in Items, EndItem(k) PROVE PInv'
<1>1. PICK r \in Returned : call' = [call EXCEPT ![k] = r]
  BY DEF EndItem
<1>2. PoolType' /\ QuietOutside' /\ OwnPlace' /\ PermitsCounted' /\ Busy' = Busy
  BY <1>1, CallGoesOn DEF EndItem, CallState, Returned
<1>3. Working' \subseteq Working
  BY <1>1 DEF Working, InState, PInv, PoolType, Returned
<1>4. /\ IsFiniteSet(Working) /\ Cardinality(Working) \in Nat
      /\ Cardinality(Working') \in Nat /\ Cardinality(Busy) \in Nat
  BY Sizes, ItemsFinite DEF Working, InState, Busy
<1>5. Cardinality(Working') <= Cardinality(Working)
  BY <1>3, <1>4, FS_Subset
<1>6. ThreadsCounted'
  BY <1>2, <1>4, <1>5, WorkersAssumption DEF ThreadsCounted, PInv
<1> QED BY <1>2, <1>6 DEF PInv

LEMMA SettleInv == ASSUME PInv, NEW k \in Items, Settle(k) PROVE PInv'
<1> USE DEF PInv
<1> DEFINE new == [index |-> k, success |-> call[k] = "ok"]
<1>1. /\ call \in [Items -> CallState] /\ call[k] \in Returned /\ batch = "running"
      /\ UNCHANGED <<vars, batch, limit, call>> /\ permits' = permits + 1
      /\ results' = [results EXCEPT ![k] = new]
  BY DEF Settle, PoolType, Placed, Released
<1>2. results[k] = Unknown
  <2>1. results[k] # Unknown => results[k].index = k
    BY PlacedItem
  <2> QED BY <2>1 DEF Settle
<1>3. new \in [index : 0..BatchSize, success : BOOLEAN] /\ new # Unknown
  BY BatchAssumption DEF Items, Unknown
<1>4. PoolType' /\ QuietOutside'
  BY <1>1, <1>3 DEF PoolType, QuietOutside
<1>5. OwnPlace'
  BY <1>1 DEF OwnPlace, PoolType
<1>6. Held' = Held \ {k} /\ k \in Held
  BY <1>1, <1>2, <1>3 DEF Held, PoolType, Returned
<1>7. IsFiniteSet(Held) /\ Cardinality(Held) \in Nat
  BY ItemsFinite DEF Held
<1>8. Cardinality(Held \ {k}) = Cardinality(Held) - 1
  BY <1>6, <1>7, FS_RemoveElement
<1>9. PermitsCounted'
  BY <1>1, <1>6, <1>7, <1>8 DEF PermitsCounted, PoolType
<1>10. Busy' = Busy /\ Working' = Working
  BY <1>1 DEF Busy, Working, InState, vars
<1> QED BY <1>4, <1>5, <1>9, <1>10 DEF ThreadsCounted

LEMMA ReplyInv == ASSUME PInv, Reply PROVE PInv'
<1> USE DEF PInv
<1>1. /\ call' = [i \in Items |-> "none"] /\ results' = [i \in Items |-> Unknown]
      /\ batch' = "answered" /\ limit' = 0 /\ permits' = 0 /\ UNCHANGED vars
  BY DEF Reply
<1>2. PoolType'
  BY <1>1, UnknownType DEF PoolType, CallState
<1>3. QuietOutside' /\ OwnPlace'
  BY <1>1 DEF QuietOutside, OwnPlace
<1>4. Held' = {} /\ Working' = {}
  BY <1>1 DEF Held, Working, InState
<1>5. PermitsCounted'
  BY <1>1, <1>4, FS_EmptySet DEF PermitsCounted
<1>6. Busy' = Busy /\ Cardinality(Busy) \in Nat /\ Cardinality(Working) \in Nat
  BY <1>1, Sizes, ItemsFinite DEF Busy, vars, Working, InState
<1>7. ThreadsCounted'
  BY <1>4, <1>6, FS_EmptySet, WorkersAssumption DEF ThreadsCounted
<1> QED BY <1>2, <1>3, <1>5, <1>7

LEMMA PoolInvariance == SharedSpec => []PInv
<1>1. SharedInit => PInv
  <2> SUFFICES ASSUME SharedInit PROVE PInv
    OBVIOUS
  <2>1. PoolType /\ QuietOutside /\ OwnPlace
    BY UnknownType DEF SharedInit, PoolType, CallState, QuietOutside, OwnPlace
  <2>2. Held = {} /\ Working = {} /\ Busy = {}
    BY DEF SharedInit, Init, Held, Working, InState, Busy
  <2> QED BY <2>1, <2>2, FS_EmptySet, WorkersAssumption
          DEF PInv, PermitsCounted, ThreadsCounted, SharedInit
<1>2. PInv /\ TypeOK /\ [SharedNext]_sharedVars => PInv'
  <2> SUFFICES ASSUME PInv, TypeOK, [SharedNext]_sharedVars PROVE PInv'
    OBVIOUS
  <2>1. CASE UNCHANGED sharedVars
    <3>1. UNCHANGED <<jobs, created, task, work, phase, polls, acked, peak>>
          /\ UNCHANGED batchVars
      BY <2>1 DEF sharedVars, vars
    <3>2. Held' = Held /\ Working' = Working /\ Busy' = Busy
      BY <3>1 DEF Held, Working, InState, Busy, batchVars
    <3> QED BY <3>1, <3>2 DEF PInv, PoolType, QuietOutside, OwnPlace, PermitsCounted,
                              ThreadsCounted, batchVars
  <2>2. CASE BatchProgress
    BY <2>2, ReplyInv, AcquireInv, TakeItemInv, EndItemInv, SettleInv DEF BatchProgress
  <2> QED BY <2>1, <2>2, JobSideInv, ReceiveInv DEF SharedNext
<1>3. SharedSpec => []TypeOK
  BY ImplementsJobService, TypeCorrect, PTL
<1> QED BY <1>1, <1>2, <1>3, PTL DEF SharedSpec

(* Every item of a batch is answered in its own place with what came of    *)
(* its own call, in whatever order the calls end; the counts agree; and    *)
(* neither the request's limit nor the number of threads is exceeded.      *)
THEOREM BatchIsAnsweredInPlace == SharedSpec => []BatchInPlace
<1>1. PInv => BatchInPlace
  <2> SUFFICES ASSUME PInv PROVE BatchInPlace
    OBVIOUS
  <2> USE DEF PInv
  <2>1. \A i \in Items : results[i] # Unknown =>
            results[i] = [index |-> i, success |-> call[i] = "ok"]
    BY DEF OwnPlace
  <2>2. ASSUME Complete PROVE Succeeded = Cardinality(InState({"ok"}))
    <3>1. \A i \in Items : results[i] # Unknown
      <4> SUFFICES ASSUME NEW i \in Items PROVE results[i] # Unknown
        OBVIOUS
      <4>1. PICK k \in Items : results[k].index = i
        BY <2>2 DEF Complete
      <4>2. results[k] # Unknown
        BY <4>1 DEF Unknown, Items
      <4>3. k = i
        BY <4>1, <4>2, PlacedItem
      <4> QED BY <4>2, <4>3
    <3>2. {i \in Items : results[i].success} = InState({"ok"})
      <4>1. \A i \in Items : results[i].success <=> call[i] \in {"ok"}
        BY <3>1, PlacedItem
      <4> QED BY <4>1, Zenon DEF InState
    <3> QED BY <3>2 DEF Succeeded
  <2>3. Cardinality(InState({"queued", "running"})) <= limit
    <3>1. InState({"queued", "running"}) \subseteq Held
      BY DEF InState, Held, OwnPlace, Returned
    <3>2. /\ IsFiniteSet(Held) /\ Cardinality(Held) \in Nat
          /\ Cardinality(InState({"queued", "running"})) \in Nat
      BY ItemsFinite DEF Held, InState
    <3>3. Cardinality(InState({"queued", "running"})) <= Cardinality(Held)
      BY <3>1, <3>2, FS_Subset
    <3> QED BY <3>2, <3>3 DEF PermitsCounted, PoolType
  <2> QED BY <2>1, <2>2, <2>3 DEF BatchInPlace, ThreadsCounted, Working
<1> QED BY <1>1, PoolInvariance, PTL

(* Beside a batch, too, a confirmed cancellation hides the result, live    *)
(* jobs are kept and the queue is bounded.                                 *)
THEOREM JobsKeepTheirPromises ==
  SharedSpec => []CancelledHasNoResult /\ []RunningIsDriven /\ []SizeBound
                /\ LiveJobsStay /\ RemovedStaysRemoved /\ OutcomeIsFinal
BY ImplementsJobService, CancellationHidesTheResult, NoOrphanRuns, QueueIsBounded,
   LiveJobsAreKept, RemovedJobsStayRemoved, OutcomesAreFinal, PTL
=============================================================================
