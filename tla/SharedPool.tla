----------------------------- MODULE SharedPool -----------------------------
(***************************************************************************)
(* A batch beside the jobs: POST /v1/batch (app/main.py) and the threads   *)
(* it shares with them.  gather starts a coroutine for each request of the *)
(* batch; each waits for a semaphore, hands coordinator.ask to the loop's  *)
(* default executor, which also runs the calls of the jobs, and puts what  *)
(* came of it in its own place of the results.  The actions of JobService  *)
(* are unchanged but for the threads, which are now fewer, so what it      *)
(* promises still holds.                                                   *)
(***************************************************************************)
EXTENDS JobService

CONSTANTS
    BatchSize,         \* len(request_body.requests)
    MaxConcurrency     \* the largest max_concurrency a request may ask for

ASSUME BatchAssumption == BatchSize \in Nat /\ MaxConcurrency \in Nat \ {0}

VARIABLES
    batch,      \* the request: "none", "running", "answered"
    call,       \* of every item: its call, as far as it is
    limit,      \* request_body.max_concurrency
    permits,    \* the value of the semaphore
    results     \* of every item: what is known of it
batchVars == <<batch, call, limit, permits, results>>
sharedVars == <<vars, batchVars>>

Items == 1..BatchSize
Returned == {"ok", "raised"}
InState(states) == {i \in Items : call[i] \in states}
Unknown == [index |-> 0, success |-> FALSE]

SharedInit ==
    /\ Init
    /\ batch = "none"
    /\ call = [i \in Items |-> "none"]
    /\ limit = 0 /\ permits = 0
    /\ results = [i \in Items |-> Unknown]

-----------------------------------------------------------------------------
(* The endpoint: the semaphore and the results are made, the coroutines    *)
(* are ready.                                                              *)
Receive ==
    /\ phase = "serving" /\ batch = "none"
    /\ batch' = "running"
    /\ limit' \in 1..MaxConcurrency /\ permits' = limit'
    /\ UNCHANGED <<vars, call, results>>

(* process_single up to its await.  The coroutines come to the semaphore   *)
(* in their order, and it wakes them in that order.                        *)
Acquire(i) ==
    /\ batch = "running" /\ call[i] = "none" /\ permits > 0
    /\ \A k \in Items : k < i => call[k] # "none"
    /\ permits' = permits - 1
    /\ call' = [call EXCEPT ![i] = "queued"]
    /\ UNCHANGED <<vars, batch, limit, results>>

FreeThread == Cardinality(Busy) + Cardinality(InState({"running"})) < MaxWorkers

TakeItem(i) ==
    /\ call[i] = "queued" /\ FreeThread
    /\ call' = [call EXCEPT ![i] = "running"]
    /\ UNCHANGED <<vars, batch, limit, permits, results>>

(* The call returns or raises.  An outcome that tells of a failure makes   *)
(* the same item as an exception and is not told apart from it.            *)
EndItem(i) ==
    /\ call[i] = "running"
    /\ \E r \in Returned : call' = [call EXCEPT ![i] = r]
    /\ UNCHANGED <<vars, batch, limit, permits, results>>

(* Slips a change to the code could make.                                  *)
Appended(i) ==            \* results.append instead of results[idx]
    [results EXCEPT ![Cardinality({k \in Items : results[k] # Unknown}) + 1] =
        [index |-> i, success |-> call[i] = "ok"]]
ReleaseUnlessRaised(i) == \* acquire and release by hand, the release skipped by an exception
    IF call[i] = "raised" THEN permits ELSE permits + 1

Placed(i) == [results EXCEPT ![i] = [index |-> i, success |-> call[i] = "ok"]]
Released(i) == permits + 1

(* process_single after its await: an outcome or an exception takes its    *)
(* place, and the semaphore is released.                                   *)
Settle(i) ==
    /\ batch = "running" /\ call[i] \in Returned /\ \A k \in Items : results[k].index # i
    /\ results' = Placed(i)
    /\ permits' = Released(i)
    /\ UNCHANGED <<vars, batch, limit, call>>

(* gather has returned: the response is sent, and the request is over.     *)
Complete == \A i \in Items : \E k \in Items : results[k].index = i
Succeeded == Cardinality({i \in Items : results[i].success})

Reply ==
    /\ batch = "running" /\ Complete
    /\ batch' = "answered"
    /\ call' = [i \in Items |-> "none"]
    /\ limit' = 0 /\ permits' = 0
    /\ results' = [i \in Items |-> Unknown]
    /\ UNCHANGED vars

(* The job's side: a thread is free only if the batch leaves one, and the  *)
(* server lets open requests end before the shutdown handler runs.         *)
JobSide ==
    /\ \/ \E j \in JobIds : \/ Submit(j) \/ Start(j) \/ EndWork(j) \/ Resume(j)
                            \/ TimeOut(j) \/ Cancel(j) \/ GrowOld(j)
                            \/ /\ FreeThread
                               /\ TakeWork(j)
       \/ /\ batch # "running"
          /\ BeginShutdown
       \/ Poll
    /\ UNCHANGED batchVars

BatchProgress == Reply \/ \E i \in Items : Acquire(i) \/ TakeItem(i) \/ EndItem(i) \/ Settle(i)

SharedNext == JobSide \/ Receive \/ BatchProgress
SharedSpec == SharedInit /\ [][SharedNext]_sharedVars

(* The loop runs what is ready, its timers fire, a free thread does not    *)
(* leave a call in the queue for ever, and the calls of the batch end.  A  *)
(* call of a job may hang.  Everything here happens once to each job and   *)
(* item, so that it is enough that one of them is not left waiting.        *)
SharedFairSpec ==
    /\ SharedSpec
    /\ WF_sharedVars((\E j \in JobIds : Start(j)) /\ UNCHANGED batchVars)
    /\ WF_sharedVars((\E j \in JobIds : TimeOut(j)) /\ UNCHANGED batchVars)
    /\ WF_sharedVars(Poll /\ UNCHANGED batchVars)
    /\ WF_sharedVars(BatchProgress)

-----------------------------------------------------------------------------
BatchTypeOK ==
    /\ batch \in {"none", "running", "answered"}
    /\ call \in [Items -> {"none", "queued", "running"} \cup Returned]
    /\ limit \in 0..MaxConcurrency /\ permits \in 0..limit
    /\ results \in [Items -> [index : 0..BatchSize, success : BOOLEAN]]

(* Every item of a batch is answered in its own place with what came of    *)
(* its own call, in whatever order the calls ended; the counts of the      *)
(* reply agree with that; no more calls than max_concurrency are under way *)
(* and no more threads than there are, jobs included (batch_inference).    *)
BatchInPlace ==
    /\ \A i \in Items : results[i] # Unknown =>
           results[i] = [index |-> i, success |-> call[i] = "ok"]
    /\ batch = "running" /\ Complete => Succeeded = Cardinality(InState({"ok"}))
    /\ Cardinality(InState({"queued", "running"})) <= limit
    /\ Cardinality(Busy) + Cardinality(InState({"running"})) <= MaxWorkers

(* A batch is answered, unless at some moment every thread is held by the  *)
(* calls of jobs; these may have been given up long ago and still run.     *)
BatchEnds == batch = "running" ~> (batch = "answered" \/ Cardinality(Busy) = MaxWorkers)
=============================================================================
