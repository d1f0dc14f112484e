# NVIDIA Model Bridge in TLA+

NVIDIA Model Bridge is a FastAPI gateway in front of the NVIDIA chat API. It
selects a model for a request, answers from a cache or calls the model, falls
back to other models when a circuit breaker is open or a call fails, and runs
slow requests as background jobs. This directory holds TLA+ models of its
stateful parts, TLC configurations that check them on small instances, and
proofs of their main properties that TLAPS checks for every value of the
constants. File and line references are to `src/`.

## The system

One process: an asyncio event loop runs every handler and background task, and
a thread pool (the loop's default executor) runs the blocking
`coordinator.ask` calls. State lives in module-level singletons, each behind a
lock of its own, so that every locked section is atomic and everything between
two of them may interleave.

| Part | State | Operations | Touches |
|---|---|---|---|
| Circuit breaker (`circuit_breaker.py`) | per model: state, failures in a row, time of the last failure, half-open slot counter | `state` (may flip OPEN to HALF_OPEN), `is_available`, `record_success`, `record_failure`, `reset`, status reads | called by the coordinator's threads and by the operator's endpoints |
| Coordinator (`coordinator.py`) | none of its own; one activation of `ask` per request | `ask`, `_try_fallbacks` | router, cache, breakers, API client, analytics |
| Response cache (`cache.py`) | TTL cache by hash of model, messages, temperature, max_tokens; hit and miss counters | `get`, `put`, `invalidate`, statistics; a Redis variant | coordinator, operator's endpoints |
| Job queue (`job_queue.py`) and its endpoints (`main.py:476-625`) | jobs by id with status, result, error | submit, read, cancel, `_process_job`, clean-up, eviction, shutdown | executor, coordinator |
| API client (`nvidia_client.py`) | none; two attempts per call | `chat_completion_http`, `_sdk`, raw forward, `list_models` | network |
| Streaming proxy (`streaming.py`) | attempt counter and line buffer of one stream | up to three attempts, forwarding of events | network, the client's connection |
| Rate limiter (`middleware/rate_limit.py`) | token bucket per client, time of the last clean-up | `is_allowed`, clean-up | every request |
| Deduplicator (`deduplication.py`) | futures by key | `deduplicate`, `resolve`, `reject` | nobody yet |
| Database (`database.py`) | schema version, log tables | start-up migrations, inserts, queries | handlers |
| Analytics (`analytics.py`) | bounded list of records | `record`, dashboard | coordinator |
| Batch endpoint (`main.py:424-471`) | semaphore, result slots | one coroutine per item | executor (which the jobs use too), coordinator |
| Benchmark runner (`model_tester.py`, `benchmark_tasks.py`), a process of its own | batches of models, results | discovery, parallel benchmarks, scores, ranking, recommendations | API client, reports |
| Audit reports (`audit.py`) | five files | written one after the other at the end of an audit | read by the router |
| Model router (`model_router.py`) | the discovered models, read once from the newest report and kept by `lru_cache` | selection, fallbacks, availability | reports, registry |
| Stateless parts | | validation, auth, headers, request ids, templates, configuration, metrics, schemas, providers, scripts | |

What is hard in this code: threads that check a breaker, call for seconds, and
record their result when the breaker is somewhere else; the operator's resets
and invalidations in the middle of it; the end of a job's call racing its
time-out, its cancellation and the shutdown; calls that outlive the job that
made them; a fallback chain in which each candidate may be absent, refused or
fail; retries of things that were already done; batches and jobs that compete
for the same threads; a crash between a migration and its version record, or
between two files of a report that the service reads while it is written.

What makes each part correct:
- breaker: closed means below the threshold, open always recovers, late
  results do not heal or break it wrongly, one probe at a time when half open;
- coordinator: the answer says truthfully who gave it, a failure means nobody
  was left, a verdict hits the model that earned it, each outcome is recorded
  once, every request is answered;
- cache: a hit is an answer that was given for the key;
- jobs: none is lost, stuck or revived, an outcome is final, a confirmed
  cancellation hides the result, the queue stays bounded;
- client, streaming: bounded attempts, at most one terminal event, no repeated
  content within an attempt; rate limiter: never more than rate + rate*t/window
  requests in t;
- batch: each item is answered in its own place, no more calls are out than
  asked for, and the batch ends unless the jobs hold every thread;
- migrations: after any crash the next start has the newest schema;
- benchmark runner: each model is run exactly once, the candidates are the best
  of their families, and a model that is to be avoided is recommended only for
  a reason that its role allows;
- reports and router: no paper tells of an audit without its report, and a
  service offers the models of one whole report, the newest, and does not waver.

## Modules

| Module | Models |
|---|---|
| `BreakerOps` | the record of one breaker and the bodies of its locked sections, as operators |
| `CircuitBreaker` | one breaker used by concurrent threads, with clock, operator and status reads |
| `BreakerPromise` | what a breaker promises, with neither threads nor clock; `CircuitBreaker` refines it |
| `CircuitBreakerProofs` | theorems about `CircuitBreaker` |
| `JobQueue` | the queue's data and the bodies of its locked sections |
| `JobService` | the job endpoints, `_process_job`, the executor and the shutdown over `JobQueue` |
| `SharedPool` | a batch beside the jobs: extends `JobService` by the coroutines, the semaphore and the threads they share |
| `SharedPoolProofs` | theorems about `JobService`, that `SharedPool` implements it, and theorems about the batch |
| `Coordinator` | concurrent requests of `ask` over the breakers (`BreakerOps`), the cache and the operator |
| `Failover` | what the gateway promises: candidates in order, a memo, and no circuits; `Coordinator` refines it but for one step |
| `CoordinatorProofs` | theorems about `Coordinator` |
| `RateLimiter` | the token buckets, the clean-up of idle clients, Retry-After |
| `RateLimiterProofs` | theorems about `RateLimiter` |
| `Streaming` | one stream of events: attempts, line buffer, failures, the client's disconnection |
| `StreamingProofs` | theorems about `Streaming` |
| `ModelClient` | how the API client classifies failures and which it tries again, as operators |
| `BenchmarkRunner` | the batches of benchmark workers and the calls of each task, over `ModelClient` |
| `BenchmarkRunnerProofs` | theorems about `BenchmarkRunner` |
| `Database` | the start-up migrations with crashes between any two statements |
| `DatabaseProofs` | theorems about `Database` |
| `Recommendations` | candidates, evaluators, scores, ranking and recommendations of an audit, as operators |
| `Audit` | audits that write their papers and die anywhere, and a service that reads the newest report, over `Recommendations` |
| `AuditProofs` | what the operators of `Recommendations` return, and theorems about `Audit` |
| `MC...` | instances for TLC |

Some definitions stand under a comment "slips": operators that alter a
neighbouring definition the way a plausible bug would. No specification uses
them; each was seen to break the property it is paired with in `PROJECT.json`.

### CircuitBreaker and the code

`breaker` is the object; `pc[t]` is where thread t stands. `Check` is the
first locked section of `is_available` (the property `state`, line 71) with
the branch on what it returned; `CompareSlot` is the second (lines 75-76).
`CallSucceeds` and `CallFails` are the return of the call together with
`record_success` and `record_failure`: nothing shared is read between the two.
`ResetBreaker`, `ReadStatus` are the operator's endpoints. `Tick` is the clock.

The code compares `time.time() - last_failure_time` with `recovery_timeout`.
The record keeps the age of the last failure in ticks, saturated just above
the time-out, and the failures in a row saturated at the threshold: no
comparison of the code tells larger values apart, so nothing is lost.
`probes` is a history variable: the calls admitted by the current half-open
episode. A threshold of 0 or less behaves as 1, hence the assumption on it.

### JobService and the code

An action is what a handler or a task does between two awaits, because all of
them run on one loop. `Submit` is the whole of `submit_job` after validation
(clean-up, eviction, insertion, `create_task`); `Start` is `_process_job` up to
its `await`; `TakeWork` and `EndWork` are the executor; `Resume` is the code
after the `await`, outcome or exception; `TimeOut` is `wait_for` giving up,
which withdraws a call that no thread has taken and leaves one that runs;
`Cancel`, `BeginShutdown` and `Poll` are the handlers. A job's age is a flag
set in the order of creation (`GrowOld`). `acked` and `peak` are history
variables. A job can be cancelled only once its task has started: the id
becomes known in a later turn of the loop than the one that queued the task.

### SharedPool and the code

`batch_inference` makes a semaphore and a list of results and gathers one
coroutine for each item. `Receive` is its beginning, `Acquire` the coroutine up
to its `await` (it holds a permit and has handed its call to the executor),
`TakeItem` and `EndItem` the thread, `Settle` the coroutine after the `await`,
by the outcome or the `except` branch, and the exit from the semaphore; `Reply`
is what follows `gather`. A thread serves a job or an item: `JobSide` is the
job's `TakeWork` with fewer threads free, and every other action of
`JobService` as it is. The loop closes open requests before the shutdown
handler runs, hence the guard of `BeginShutdown`. One batch at a time; a second
one would only hold more threads, which the jobs do already.

### Coordinator and the code

`pc[r]` is the place of a request in `ask` and `_try_fallbacks`: `lookup`
(line 143), `admit` (175), `calling` (198, 290), `store` (211, 298), `next`
(the head of the loop, 283), `done`. A step ends where the code leaves a lock
or enters a call, so steps of different requests interleave exactly where
threads can. `Arrive` covers selection and the two early refusals (streaming
and a named model that is not on offer; for a streaming request the code does
not get as far as the selection, which is then only noted). `Admit` asks the
breaker of the selected model; `TryFallback` is one turn of the loop; `GiveUp`
its end. `is_available` is one step here: its slot comparison always succeeds,
because the slot counter stays 0, so the state that was read first decides.
`log[r]` holds what the request wrote to the analytics. `fate` and `source` are
history variables: what each model did for the request, and who wrote the
content of the answer.

The cache is a map from (model, prompt) to an entry, where a prompt stands for
everything else in the key. An entry has who wrote it and the field `model`
that `invalidate` compares, which the stored responses lack. `Expire` is
cachetools dropping an entry by age or for room, at any time. A fallback's
answer is stored under the selected model (line 312), so that a later hit
reports the selected model as its author; `CacheHoldsAnswers` says what still
holds of it: it is an answer to that very prompt by a model of the chain.

`Failover` says the same from outside. A request has candidates in an order of
preference (the selected model, then the chain without what is not on offer,
unless the caller named a model); one has its turn once, when all that are
preferred to it are lost; the first answer is handed over, and a request fails
when nobody is left. The memo may forget at any time, keeps answers under the
selected model, and speaks only while nobody was tried and only with the word of
a candidate: who named a model hears that model or nobody. `Coordinator` maps its
places to three stages, a refusal and a failure to a loss, an entry of the cache
to who wrote it, and hides the circuits, the clock, the operator and the
analytics. That fallbacks are tried in their order, and nobody twice, is stated
there and nowhere else.

One step of the code is not in that promise, and `ImplementsButBorrows` names it.
`Borrow` is a hit on an entry whose author is no candidate of the request that
reads it. The key does not say whether the caller named the model, nor what its
task was: a request that names a model finds what a fallback wrote for a routed
one, and, where the prompts of two tasks are the same (no system prompt is
added), so does a request whose task has another chain. The answer then bears
the selected model's name with `fallback_used` false. The documentation excludes
the first case (`docs/model_selection_notes.md`, line 45), and the run
`gateway_switched` shows that it happens; with the cache off the refinement has
no exception (`ImplementsWithoutCache`).

### RateLimiter and the code

`dispatch` runs on the event loop and awaits nothing between the clean-up and
the answer, so that `Request` is the whole of `is_allowed`: clean-up if it is
due, a full bucket for a client that has none, refill, and a token if there is
one. A client that has no bucket simply is not in `known`. The code counts
tokens in floats; here a token is `One` = window units and a tick of the clock
refills `Rate` units, which makes every quantity an integer and is exact where
floats round. `mark` and `seen` are an observer that may start to count at any
moment, `told` is what Retry-After promised.

### Streaming and the code

A step ends where the generator awaits or yields, for there the client may go
away (`Disconnect`). `Refused` is the branch on a status code (line 78) with
the case that `_sanitize_error` raises on a body of an odd shape, `Chunk` a
turn of the outer loop (119), `SplitLine` of the inner one (121), `Breaks` the
two `except` clauses (139, 172), `Again` the wait before another attempt,
`EndOfStream` the end without `[DONE]` (137). A line is `Width` pieces, a piece
knows its line and its place in it, and a chunk may end after any piece: a line
put together wrongly is not a line of the script, and reads as noise. `Forwarded`
is what a number of lines would have the client receive, which is what the
properties compare `sent` with: every event of the lines that left the buffer,
once and in order.

### BenchmarkRunner and the code

`StartBatch`, `Collect`, `EndBatch` and `Return` are the loop of
`_run_parallel_benchmarks`; summaries are collected in the order the workers
finish. A worker's `stage` is the call it is in: the SDK, the SDK once more
(`RetrySdk`), HTTP (`TryHttp`), HTTP once more (`PostsAgain`). `Raises` is a
worker that raises, with the summary that `_worker_failure_summary` makes up.
`Sorted` is the sort by the place in `selected_models`: a summary stands at its
`Rank`, one more than there are summaries of a smaller place (or of the same
one, collected earlier).
A failure is a record from which `Classify` derives the category as
`_classify_error` does; the eight of `MCFaults` cover its branches, one of them
a 429 whose text says "unauthorized" and is classified so.

### Database and the code

`objects`, `column` and `versions` are the file; `pc` is the statement of
`init_database` that comes next. `executescript` commits what is pending and
then runs each statement on its own, hence one `Create` for each statement of
the schema and a point between `Alter` and `StampColumn`. `Disturbed` is a
statement that fails for a reason from outside (a lock, a full disk), `Crash`
the end of the process at any point. The migrations are the two of the code.

### Recommendations and the code

Operators over the results of a benchmark. `Select` is the pass of
`_select_discovery_candidates` over the models sorted by `CandidateKey`;
`EvaluatorScore` the evaluators of `benchmark_tasks.py`; `Summary`, `Group` and
`Scored` are `_benchmark_model`, `_task_group_summaries` and `_score_models`;
`First` is `_best_by` and `Ranking` Python's stable `sorted(..., reverse=True)`
over tuples; `Recommendations` is `_build_recommendations`. A sublist is the
set of its places in the list, and its ranking a sequence of places: the n-th is
the one that n - 1 others stand before. `MayResult` says what three tasks of a
model may come to, one of each category as `build_benchmark_tasks` makes them:
an answer with the score its features earn, or a failure. The
name of a model is abstracted to the lists of tokens it meets and its places in
the alphabet, a text to what an evaluator looks for in it. Scores are integers,
a score of 1 is `Unit` (10000 in the code, 100 in the run so that products stay
within TLC's integers), and ties round up where Python rounds to even. A
latency of 0 is None.

### Audit and the code

`Start`, `Discover`, `Benchmark`, then `Open` and `Fill` for each of the five
papers are `run_nvidia_model_benchmark`; a benchmark is one step, for nobody
sees it (`BenchmarkRunner` has its steps), and priority and candidate models
are given the same three tasks. `write_text` truncates a file before it fills
it, so that there is a point between. `Start` may go straight to writing: an
audit without a key writes an empty report. `Crash` leaves what is written. The
name of a report has the time to the second, hence two audits in one second
write the same file. `Serve` starts the service or restarts it; `Look` is a
request that misses the cache of `load_latest_discovered_model_ids` and takes
the newest name, `Read` its reading of the file, torn or whole, and the return
through `lru_cache`, which keeps what was stored first; `Hit` is the cache.
`found`, `settled`, `expected` and `told` are history: what NVIDIA listed to
each audit, what the newest report says while none is being written, what a
service started now must offer, and what was offered.

Assumed: one audit at a time, a clock that is not set back, the service and the
audit in one directory (the audit writes below the working directory, the
service reads below the project root), and a registry whose curated models are
not also on the avoid list.

## Runs

| Run | Question | Instance |
|---|---|---|
| `breaker` | is the record consistent under any interleaving, does the breaker refine `BreakerPromise`, and is an open circuit tried again? | 4 threads, threshold 2, recovery 2 ticks, fair |
| `breaker_half_open_limit` | does `half_open_max_calls` hold? **violated** | 2 threads, threshold 1, recovery 1 |
| `jobs` | are jobs kept, final, hidden once cancelled, driven while running, bounded, and all settled while calls may hang, beside a batch that is answered in place and in the end? | `SharedPool`: 2 jobs, room for 1, a batch of 2 with 1 or 2 at a time, 2 threads, 1 poll, fair loop |
| `jobs_cancel_undone` | does a confirmed cancellation last? **violated** | 1 job |
| `gateway` | who is asked, answered, cached, recorded, is it the fail-over of `Failover` but for borrowed hits, and is every request answered? | 2 requests, 4 models, a chain of 4, fair threads |
| `gateway_switched` | does who names a model read that model? **violated** | as `gateway` |
| `limiter` | how many are let through, does Retry-After suffice, is a clean-up invisible? | 2 clients, 2 requests per window of 2 s, ticks of 1/2 s up to 10 |
| `stream` | are events lost, repeated or mixed across chunks and attempts, and does every stream end? | 3 attempts, 5 lines of 3 pieces, chunks of up to 8 |
| `benchmark` | is each model run once, is a rate limit obeyed, does the run end? | 6 models, 2 tasks, 3 workers, 8 kinds of failure |
| `database` | is the schema whole after any crashes, and do recorded versions tell the truth? | the 10 statements of the schema |
| `database_pending` | is every migration recorded in the end? **violated** | as `database` |
| `audit` | are the candidates the best, is an avoided model recommended only with a reason, are the papers in order after crashes, and what does the service offer? | 2 audits within 2 seconds, 7 models of which 2 are chosen, 7 kinds of results, a service started twice with 2 requests |

The violated ones check what a doc string, a parameter or a document says
against what the code does; `PROJECT.json` quotes the line and says what the
counterexample is.

Five facts that no run states as a violation, but that the models show:
`is_available` may let a call through although the circuit was reopened between
its two locked sections (`OpenAdmitsNobodyNew` therefore speaks of a circuit
that stays open); a request that ends with the selected model's circuit open
and no fallback leaves no record in the analytics (the exception in
`RecordedOnce`); a client that was idle may be let through nearly twice the
rate within one window, for it has a full bucket and the refill (`BurstBound`);
a report may recommend as the fast model, or among the additional ones, a
model that it also says to avoid, although a perfect one exists: the fast one is
chosen by latency alone, and the additional ones are filled up to five
(`AvoidedWithReason` says how far that goes); and `invalidate(model_id)` removes
nothing, although its doc string (`cache.py`, line 119) speaks of that model's
entries: it compares a field `model` (line 128) that no stored response has, so
that `InvalidateModel` leaves the cache as it was.

Why the bounds are enough. Breaker: four threads allow two late results around
another thread's check while a fourth probes; threshold 2 separates "one
failure" from "open"; recovery 2 separates "just failed", "ageing" and "due".
Jobs: with room for one, the second job is created on top of a live one or
evicts a terminal one; two threads and four calls make jobs and items queue
behind each other; for more jobs, items and threads the safety properties are
proved. Coordinator: two requests are enough to race on a
breaker or a cache key; the chain holds the selected model itself, a model that
is not on offer and two that are; a threshold of 1 makes one failed call open a
circuit, and a recovery time of 0 makes it half open one tick later, so that
all breaker states occur within one request's life. Limiter: the horizon is two
and a half windows, longer than the idle time after which a bucket is dropped,
and the clean-up interval is half a window, so that buckets are dropped and made
again; the properties are proved for all values. Stream: noise stands between
two events and something follows `[DONE]`; chunks are longer than two lines and
lines longer than the shortest chunk. Audit: the second audit may fall into the
second of the first and overwrite it, or follow it; two candidates out of three
families leave a better one's relative and a tie behind; the seven results have
perfect models fast and slow, a hasty and a talkative one, one that is to be
tested again, one to avoid and one that raised, in every combination for the
first audit. The second audit's results do not matter to what is written.
Benchmark: six models and three workers leave a full batch that a rate limit must cut to two. Database: the schema has
the ten statements of the code and crashes are not counted.

`CHECK_DEADLOCK FALSE` stands where the system may stop: a service that has
shut down, requests that are all done, a stream or a run that has ended.

## Fairness

- `CircuitBreaker`: the clock ticks, a thread that is admitted goes on and its
  call ends (the client has a time-out and turns every exception into a
  result), and requests for the model keep arriving. Without the last one an
  open circuit stays open: nothing in the breaker runs by itself.
- `JobService` and `SharedPool`: the loop runs ready tasks, its timers fire, and
  the shutdown handler goes on. The calls of a batch end, for the client's
  time-outs end them. Of the calls of jobs nothing is assumed although the same
  time-outs bound them: their chain of attempts may outlast the job many times
  over, and `BatchEnds` excepts a moment at which they hold every thread.
- `Coordinator`: a thread that serves a request goes on and its calls end. No
  fairness of the clock, of arrivals or of the operator.
- `Streaming`: the generator goes on when it can, and the time-out of the HTTP
  client ends a wait. Nothing is assumed of the model, which may fall silent.
- `BenchmarkRunner`: the main thread goes on, and a worker's calls end, by
  their time-outs if by nothing else. That a worker raises is never assumed.

## Proofs

TLAPS checks every theorem to the last leaf; the assumptions are the named
`ASSUME`s on the constants, which TLC evaluates in the runs.

- `CircuitBreakerProofs`: the inductive invariant is the type invariant with
  the three facts that a closed circuit is below its threshold, an open one
  has a failure time, and a half-open one has had a quiet recovery period. The
  last two are needed together: `Look` produces HALF_OPEN from an OPEN breaker
  that is due, and the age stays saturated because every failure leaves
  HALF_OPEN. From it follow the action properties and the refinement of
  `BreakerPromise`, one case per action. `ClosedBelowThreshold` is a theorem that
  no run repeats: the promise, which the `breaker` run checks, has it in the
  guard of a strike.
- `RateLimiterProofs`: the bound on what is let through is not inductive; the
  invariant `Paid` adds what the client would still find: the requests let
  through since the mark, and the tokens left, never exceed a full bucket and
  the refill since then. A clean-up keeps it because a bucket that has been
  idle for two windows would be full again, which is also why the clean-up is
  invisible. `Promised` bounds the wait by what is missing, with the truncated
  division and the one that is added; `Recent` relates the oldest bucket to the
  last clean-up.
- `SharedPoolProofs`, of the jobs alone: the inductive invariant adds to the
  types that a live job has a task that will still write its end, that ids which
  were never submitted or were removed are absent, and that a job whose
  cancellation was acknowledged has no result and either still waits or is at
  its end. `SizeBound` needs the cardinality lemmas: eviction removes one job
  exactly when a terminal one exists, so growth beyond `max_jobs` means all jobs
  are live. `ImplementsJobService` shows that every step of the shared pool is a
  step of the jobs or none of theirs, so that all of this holds beside a batch
  (`JobsKeepTheirPromises`) without another induction. For the batch, the
  invariant counts: the permits left and the items that hold one make up the
  limit, and an item's result is there only when its call has returned.
- `CoordinatorProofs`: the invariant `KnowsInv` says what a request knows at
  each place of `ask`: nothing was tried before the first call; another model
  than the selected one is called only in its place, when it is lost; at the
  head of the loop every earlier fallback on offer is lost too. With it
  `FailureIsExhaustive` is the loop's invariant at its end, and
  `CacheHoldsAnswers` holds because a request that is done does not change.
  The two action properties follow from the types and one case per action.
  `ImplementsTheFailover` is the refinement of `Failover`, one lemma per action
  (a hit is a `Recall` or a `Borrow`, and neither with the cache off),
  from a stronger invariant (`FInv`): whom a request calls it has not tried, nor
  anybody further down the chain, which holds because no chain names a model
  twice; a fallback it calls is on offer and stands at the place just left; and
  what is cached has a model for an author. `FallbackTurn` is the heart of it:
  whoever is preferred to a fallback is the selected model or stands before it
  in the chain, and all of those are lost.
- `AuditProofs`, of the papers: where the last audit is with them, that a
  report under a stamp belongs to an audit of that stamp, and, for the service,
  that as long as no report was opened since it started whoever is reading reads
  the newest (`Waiting`). `PapersInOrder` needs that the report is the first of
  five different files, that stamps do not decrease, and that nobody but the
  last audit writes.
- `AuditProofs`, of the conclusions, for any catalogue, listing and results: a
  ranking lists every place once and the first ones first (`RankingIs`, by
  counting who stands before whom), so that the first has nobody above it
  (`FirstIs`). `BestOf` is the invariant of the pass that selects: every
  eligible model seen so far is represented by one of its family that scores as
  high, or was turned away by a full list of better ones. `SpeedIs` says that
  the slower is not the faster after the division and the rounding: k is at most
  the rounded quotient of n by d exactly when 2kd is at most 2n + d (`Rounded`),
  which turns the comparison of two quotients into one of products. With it the
  final score of perfect models falls with their latency, and the latency at the
  end of the key decides between equal scores. A model that passed a task has at
  most two malformed answers out of three, so that the third reason to avoid it
  never bites, and only the reliability, the first part of the key for coding
  and reasoning, decides: if the best of a category is avoided, all of it are.
  A perfect model scores at least as high as an avoided one, which has less than
  half the reliability and at most the quality and speed (`ScoredIs`), and stands
  before it by reliability when they tie; an additional model has before it
  whoever stands before it in the ranking (`ListedIn`).
  All of this needs the tested models to be different, which the selection by
  families gives; it holds of `candidates` and `report` in every reachable state
  by `Concluded`.
- `DatabaseProofs`: what survives a crash is the file, so the invariant ties the
  place of the process to it: the schema is whole before version 1 is written,
  the column is there before version 2 is, and a start takes a stamped file for
  an empty one only after an error of its own. Any number of statements.
- `StreamingProofs`: the seconds slept depend on the attempt alone, twice their
  sum is a(a + 1), which says of an error event that all attempts were made or
  that the refusal was final; and no event follows it. For the events, the
  invariant ties the buffer to the script: what has arrived and not been split
  is the pieces from a whole number of lines on, what was forwarded in this
  attempt is `Forwarded` of that number, and the ends of lines are at the
  multiples of the width, so that the first line found in the buffer is the next
  line of the script. `DoneIsWhole` follows with the place of `[DONE]`.
- `BenchmarkRunnerProofs`: every selected model is in exactly one of three
  places: waiting for a batch, in the thread of its turn, or summarised; a
  thread that has returned has a result of every task. That the summaries come
  out in the order of selection is a fact about cardinalities: the ranks of
  different places are different and fill 1 to their number. `SlowsDown` is the
  action property that follows from the same invariant.

Some of this is induction over data, which the provers cannot take from a
theorem with an operator for a parameter. It is done over a set instead: a set
of naturals that has 0 and the successor of each of its members is all of them
(`SetInduction`, from the well-foundedness of `<`). What holds of 0 and is kept
by a step is such a set, and a recursive function is one that exists by it
(`Recursion`).

Model-checked only: liveness (`AutoRecovery`, `JobsSettle`, `BatchEnds`,
`EveryRequestAnswered`, `StreamEnds`, `RunEnds`), for the prover has neither
fairness nor ENABLED. Every other property of the passing runs is a theorem.
The type invariants `TypeOK` are proved, or are part of the inductive invariant
that is, and so is `IdleAreForgotten` of `RateLimiter`
(theorem `Forgets`); no run repeats them.

## Not modelled

- Data without state: texts, payloads, prompt templates, validation and
  schemas, authentication and headers, the reading of the environment, log
  formats and metrics, the layout of the reports.
- The audit's smoke tests, failure analysis and summaries of the discovery: they
  are put into the report and decide nothing.
- The request deduplicator: nothing calls it, so there is no order of calls to
  model. The provider abstraction and the scripts likewise add no state.
- The counters of the cache, the order in which it evicts (any order here) and
  its Redis variant; the analytics' bounded list and sums, and the tables that
  the log functions fill: nothing reads them back into a decision.
- `forward_chat_completion_raw`: a single post, whose answer is handed on.

What could be added: two processes on one Redis cache.
