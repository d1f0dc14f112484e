-------------------------- MODULE BenchmarkRunner --------------------------
(***************************************************************************)
(* _run_parallel_benchmarks (app/model_tester.py): the selected models are *)
(* benchmarked in batches, a thread per model of the batch; each thread    *)
(* runs the tasks one after the other, and a task posts to the model's API *)
(* through the SDK, perhaps once more, and then perhaps over plain HTTP.   *)
(* The main thread collects the summaries as they are completed and goes   *)
(* down to two threads once a model was rate limited.                      *)
(*                                                                         *)
(* A summary is abstracted to how many task results it has and whether one *)
(* of them is in the category rate_limit; scores and texts are left out.   *)
(***************************************************************************)
EXTENDS ModelClient, SequencesExt

CONSTANTS
    Selected,      \* the models in their order, each once
    Tasks,         \* how many tasks a model is given
    MaxWorkers,    \* min(workers_cap, settings.max_workers)
    Faults         \* the failures a post may end in

ASSUME SelectedAssumption ==
    /\ Selected \in Seq(Range(Selected)) /\ Selected # <<>>
    /\ \A i, j \in 1..Len(Selected) : Selected[i] = Selected[j] => i = j
ASSUME TasksAssumption == Tasks \in Nat \ {0}
ASSUME WorkersAssumption == MaxWorkers \in Nat \ {0}
ASSUME FaultsAssumption == \A f \in Faults :
    f.status \in Codes /\ f.type \subseteq TypeWords /\ f.said \subseteq Phrases

VARIABLES
    phase,           \* where the main thread is
    remaining,       \* remaining_models
    batch,           \* the models whose futures are not collected yet
    active_workers,
    workers_used,
    notes,           \* rate_limit_notes say something
    summaries,       \* model_summaries
    worker           \* the thread of each model

vars == <<phase, remaining, batch, active_workers, workers_used, notes,
          summaries, worker>>

-----------------------------------------------------------------------------
Models == Range(Selected)
AtMost(a, b) == IF a < b THEN a ELSE b

(* A thread: the call it is in ("sdk", "sdk_again", "http", "http_again"), *)
(* the number of task results and whether one of them was rate limited.    *)
(* History: whether the worker raised.                                     *)
Idle  == [stage |-> "idle", results |-> 0, limited |-> FALSE, raised |-> FALSE]
Ready == [Idle EXCEPT !.stage = "sdk"]

Summary(m) == [model |-> m, results |-> worker[m].results, limited |-> worker[m].limited]
Limited(s) == s.limited

Init ==
    /\ phase = "head"
    /\ remaining = Selected
    /\ batch = {}
    /\ active_workers = AtMost(MaxWorkers, Len(Selected))
    /\ workers_used = 0
    /\ notes = FALSE
    /\ summaries = <<>>
    /\ worker = [m \in Models |-> Idle]

-----------------------------------------------------------------------------
(* The main thread.                                                        *)

(* The head of the loop: the next batch is cut off and its threads start.  *)
StartBatch ==
    /\ phase = "head" /\ remaining # <<>>
    /\ LET n == AtMost(active_workers, Len(remaining)) IN
        /\ batch' = Range(SubSeq(remaining, 1, n))
        /\ remaining' = SubSeq(remaining, n + 1, Len(remaining))
        /\ workers_used' = IF n > workers_used THEN n ELSE workers_used
    /\ worker' = [m \in Models |-> IF m \in batch' THEN Ready ELSE worker[m]]
    /\ phase' = "running"
    /\ UNCHANGED <<active_workers, notes, summaries>>

(* Slips a change to the code could make stand before the definition they  *)
(* alter; each of them breaks a property.                                  *)
CollectDropsRaised(m) ==  \* the exception logged, no summary made
    /\ m \in batch
    /\ worker[m].stage = "returned"
    /\ batch' = batch \ {m}
    /\ summaries' = IF worker[m].raised THEN summaries ELSE Append(summaries, Summary(m))
    /\ worker' = [worker EXCEPT ![m] = Idle]
    /\ UNCHANGED <<phase, remaining, active_workers, workers_used, notes>>

(* as_completed hands over a future: its summary, or one made up for a     *)
(* worker that raised, is appended, and the thread is done with.           *)
Collect(m) ==
    /\ m \in batch
    /\ worker[m].stage = "returned"
    /\ batch' = batch \ {m}
    /\ summaries' = Append(summaries, Summary(m))
    /\ worker' = [worker EXCEPT ![m] = Idle]
    /\ UNCHANGED <<phase, remaining, active_workers, workers_used, notes>>

LookAtLastOnly ==         \* the newest summary alone is looked at
    /\ phase = "running" /\ batch = {}
    /\ phase' = "head"
    /\ \/ /\ active_workers > 2 /\ Limited(Last(summaries))
          /\ active_workers' = 2
          /\ notes' = TRUE
       \/ /\ active_workers <= 2 \/ ~Limited(Last(summaries))
          /\ UNCHANGED <<active_workers, notes>>
    /\ UNCHANGED <<remaining, batch, workers_used, summaries, worker>>

EndBatchHalves ==         \* "//= 2", and the guard "> 2" gone
    /\ phase = "running" /\ batch = {}
    /\ phase' = "head"
    /\ \/ /\ \E s \in Range(summaries) : Limited(s)
          /\ active_workers' = active_workers \div 2
          /\ notes' = TRUE
       \/ /\ \A s \in Range(summaries) : ~Limited(s)
          /\ UNCHANGED <<active_workers, notes>>
    /\ UNCHANGED <<remaining, batch, workers_used, summaries, worker>>

(* The batch is done: a rate limit anywhere so far means two workers from  *)
(* now on.                                                                 *)
EndBatch ==
    /\ phase = "running" /\ batch = {}
    /\ phase' = "head"
    /\ \/ /\ active_workers > 2 /\ \E s \in Range(summaries) : Limited(s)
          /\ active_workers' = 2
          /\ notes' = TRUE
       \/ /\ active_workers <= 2 \/ \A s \in Range(summaries) : ~Limited(s)
          /\ UNCHANGED <<active_workers, notes>>
    /\ UNCHANGED <<remaining, batch, workers_used, summaries, worker>>

(* How many of the summaries come no later than the i-th in the order of   *)
(* the models; the sort is stable.                                         *)
Place(s) == CHOOSE i \in DOMAIN Selected : Selected[i] = s.model
Rank(i) ==
    LET place(j) == Place(summaries[j])
    IN  Cardinality({j \in DOMAIN summaries :
            place(j) < place(i) \/ (place(j) = place(i) /\ j <= i)})

Sorted == [k \in DOMAIN summaries |->
              summaries[CHOOSE i \in DOMAIN summaries : Rank(i) = k]]

(* No model is left: the summaries are put into the order of the models.   *)
Return ==
    /\ phase = "head" /\ remaining = <<>>
    /\ phase' = "done"
    /\ summaries' = Sorted
    /\ UNCHANGED <<remaining, batch, active_workers, workers_used, notes, worker>>

-----------------------------------------------------------------------------
(* A thread.                                                               *)

(* _should_retry_sdk and _should_try_http_fallback.                        *)
RetrySdk(result) == result.category \in {"rate_limit", "network_error"}
                    \/ result.status \in Transient
TryHttp(result) == result.category \in {"payload_rejected", "response_parse_error",
                       "empty_response", "network_error", "timeout", "other"}

Outcomes(empty) == {Success, empty} \cup {Failing(f) : f \in Faults}

(* The thread goes on to another call.                                     *)
Post(w, stage) == [w EXCEPT !.stage = stage]

(* The task ends with the result of its last post, and the next one begins *)
(* if there is one.                                                        *)
Conclude(w, result) ==
    [w EXCEPT !.stage = IF w.results + 1 < Tasks THEN "sdk" ELSE "returned",
              !.results = @ + 1,
              !.limited = @ \/ result.category = "rate_limit"]

(* After the SDK: over plain HTTP, or the end of the task.                 *)
AfterSdk(w, result) ==
    IF ~result.success /\ TryHttp(result) THEN Post(w, "http") ELSE Conclude(w, result)

(* chat_completion_sdk returns, and is called once more if that may help.  *)
Sdk(m) ==
    /\ worker[m].stage = "sdk"
    /\ \E result \in Outcomes(EmptySdk) :
         worker' = [worker EXCEPT ![m] =
             IF ~result.success /\ RetrySdk(result) THEN Post(@, "sdk_again")
             ELSE AfterSdk(@, result)]
    /\ UNCHANGED <<phase, remaining, batch, active_workers, workers_used, notes, summaries>>

SdkAgain(m) ==
    /\ worker[m].stage = "sdk_again"
    /\ \E result \in Outcomes(EmptySdk) :
         worker' = [worker EXCEPT ![m] = AfterSdk(@, result)]
    /\ UNCHANGED <<phase, remaining, batch, active_workers, workers_used, notes, summaries>>

(* chat_completion_http posts, and posts once more if that may help.       *)
Http(m) ==
    /\ worker[m].stage = "http"
    /\ \/ \E f \in Faults : PostsAgain(f)
             /\ worker' = [worker EXCEPT ![m] = Post(@, "http_again")]
       \/ \E result \in {Success, Empty} \cup {Failing(f) : f \in {g \in Faults : ~PostsAgain(g)}} :
             worker' = [worker EXCEPT ![m] = Conclude(@, result)]
    /\ UNCHANGED <<phase, remaining, batch, active_workers, workers_used, notes, summaries>>

HttpAgain(m) ==
    /\ worker[m].stage = "http_again"
    /\ \E result \in Outcomes(Empty) :
         worker' = [worker EXCEPT ![m] = Conclude(@, result)]
    /\ UNCHANGED <<phase, remaining, batch, active_workers, workers_used, notes, summaries>>

(* Something else in the thread raises, an evaluator for one: the summary  *)
(* made up for it has every task failed, in the category "other".          *)
Raises(m) ==
    /\ worker[m].stage \notin {"idle", "returned"}
    /\ worker' = [worker EXCEPT ![m] =
           [@ EXCEPT !.stage = "returned", !.results = Tasks, !.limited = FALSE,
                     !.raised = TRUE]]
    /\ UNCHANGED <<phase, remaining, batch, active_workers, workers_used, notes, summaries>>

Step(m) == Sdk(m) \/ SdkAgain(m) \/ Http(m) \/ HttpAgain(m)

MainThread == StartBatch \/ (\E m \in Models : Collect(m)) \/ EndBatch \/ Return

Next == MainThread \/ \E m \in Models : Step(m) \/ Raises(m)

Spec == Init /\ [][Next]_vars

(* The main thread goes on, and a thread's calls come to an end.           *)
FairSpec == Spec /\ WF_vars(MainThread) /\ \A m \in Models : WF_vars(Step(m))

-----------------------------------------------------------------------------
(* Every model is benchmarked once, however the batches are cut and        *)
(* whatever its worker does: a model that is not in a thread is waiting or *)
(* summarised, once; its summary has a result for every task; and the      *)
(* summaries come out in the order the models were selected in.            *)
EachModelOnce ==
    LET summarised == [i \in DOMAIN summaries |-> summaries[i].model]
    IN  /\ batch \subseteq Models
        /\ IsInjective(summarised \o remaining)
        /\ Range(summarised \o remaining) = Models \ batch
        /\ \A i \in DOMAIN summaries : summaries[i].results = Tasks
        /\ phase = "done" => summarised = Selected

(* Once a collected summary shows a rate limit, no batch of more than two  *)
(* is started ("remaining work was reduced to 2 workers",                  *)
(* app/model_tester.py:202).                                               *)
RateLimitSlowsDown ==
    [][phase = "head" /\ phase' = "running" /\ (\E s \in Range(summaries) : Limited(s))
         => Cardinality(batch') <= 2]_vars

(* The run returns, whatever the posts end in and whichever workers raise. *)
RunEnds == <>(phase = "done")
=============================================================================
