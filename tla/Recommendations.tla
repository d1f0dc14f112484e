-------------------------- MODULE Recommendations --------------------------
(***************************************************************************)
(* What an audit concludes (app/model_tester.py, app/benchmark_tasks.py):  *)
(* which of the discovered models are candidates, how an answer and a      *)
(* model are scored, and which models are recommended, to be tested again  *)
(* or to be avoided.  No state: operators over the results of a benchmark. *)
(*                                                                         *)
(* The name of a model is abstracted to the lists of tokens it meets, its  *)
(* family and its places in the alphabet; a text to what the evaluators    *)
(* look for in it.  Scores are integers, rounded to a Unit-th as the code  *)
(* rounds to four digits, latencies integers too, at least 1 for a call    *)
(* that was made and 0 for None.                                           *)
(***************************************************************************)
EXTENDS Integers, Sequences, FiniteSets, Functions

CONSTANTS
    Unit,          \* a score of 1; 10000 in the code
    Traits,        \* of every model: its tokens, and the places of its
                   \* family and of its id in the alphabet
    Priority,      \* get_priority_models(), by rank
    Limit          \* discovery_test_limit

Tokens == {"reasoning", "coding", "fast", "multimodal", "utility", "chat", "brand", "small"}

ASSUME UnitAssumption == Unit \in Nat \ {0}
ASSUME TraitsAssumption == \A id \in DOMAIN Traits :
    Traits[id].tokens \subseteq Tokens /\ Traits[id].family \in Nat /\ Traits[id].place \in Nat
ASSUME PriorityAssumption ==
    /\ Priority \in Seq(DOMAIN Traits)
    /\ \A i, j \in DOMAIN Priority : Priority[i] = Priority[j] => i = j
ASSUME LimitAssumption == Limit \in Nat

-----------------------------------------------------------------------------
(* sorted(..., reverse=True): the largest key first, keys compared like    *)
(* Python's tuples, equal keys left in their order.  The places i of a     *)
(* list are ranked by their keys, and a sublist is a set of places.        *)
Above(k, l) == \E i \in DOMAIN k : k[i] > l[i] /\ \A j \in 1..(i - 1) : k[j] = l[j]
Before(key, i, j) == Above(key[i], key[j]) \/ (key[i] = key[j] /\ i < j)

Ranking(I, key) ==
    [n \in 1..Cardinality(I) |->
        CHOOSE i \in I : Cardinality({j \in I : Before(key, j, i)}) = n - 1]

None == [model |-> "none"]
ASSUME NoneAssumption == None.model \notin DOMAIN Traits
First(s, I, key) == IF I = {} THEN None ELSE s[Ranking(I, key)[1]]

Total(f) ==
    LET sum[n \in 0..Len(f)] == IF n = 0 THEN 0 ELSE sum[n - 1] + f[n]
    IN  sum[Len(f)]
RoundDiv(n, d) == ((2 * n) + d) \div (2 * d)
Least(S) == CHOOSE x \in S : \A y \in S : x <= y
Greatest(S) == CHOOSE x \in S : \A y \in S : y <= x

-----------------------------------------------------------------------------
(* The discovered models: _categorize_discovered_model, _candidate_score   *)
(* (in quarters) and _select_discovery_candidates.                         *)
Tagged(id, token) == token \in Traits[id].tokens
Skipped(id) == Tagged(id, "utility")

CandidateScore(id) ==
    LET Worth(token, score) == IF Tagged(id, token) THEN score ELSE 0
    IN  IF Skipped(id) THEN -3996
        ELSE Worth("reasoning", 12) + Worth("coding", 8) + Worth("fast", 2)
             + Worth("multimodal", 1) + Worth("chat", 4) + Worth("brand", 2) + Worth("small", 1)

CandidateKey(id) == <<CandidateScore(id), Traits[id].family, Traits[id].place>>
Ordered(ids) == Ranking({i \in DOMAIN ids : ids[i] \notin Range(Priority)},
                        [i \in DOMAIN ids |-> CandidateKey(ids[i])])

(* Slips a change to the code could make stand before the definition they  *)
(* alter; each of them breaks a property.                                  *)
TakeAnyFamily(chosen, id) ==   \* seen_families never filled
    IF Skipped(id) \/ Len(chosen) >= Limit THEN chosen ELSE Append(chosen, id)

Take(chosen, id) ==
    IF \/ Skipped(id) \/ Len(chosen) >= Limit
       \/ \E c \in Range(chosen) : Traits[c].family = Traits[id].family
    THEN chosen ELSE Append(chosen, id)

Select(ids) ==
    LET order == Ordered(ids)
        selected[n \in 0..Len(order)] ==
            IF n = 0 THEN <<>> ELSE Take(selected[n - 1], ids[order[n]])
    IN  selected[Len(order)]

-----------------------------------------------------------------------------
(* The result of a task.  The evaluators look for these features; a score  *)
(* is in thirtieths, so that thirds, halves and fifths are exact.          *)
Categories == <<"simple", "coding", "reasoning">>
Features == [simple |-> {"sentence", "alone"}, coding |-> {"function", "bool", "tests"},
             reasoning |-> {"seven", "format"}]

EvaluatorScore(category, seen) ==
    CASE category = "simple" -> IF "alone" \in seen THEN 30
                                ELSE IF "sentence" \in seen THEN 24 ELSE 0
      [] category = "coding" -> 10 * Cardinality(seen \cap Features.coding)
      [] category = "reasoning" -> IF "format" \in seen THEN 30
                                   ELSE IF "seven" \in seen THEN 15 ELSE 0

Answered(category, seen, latency) ==
    [category |-> category, api_success |-> TRUE, latency |-> latency, error |-> "none",
     success |-> EvaluatorScore(category, seen) = 30, score |-> EvaluatorScore(category, seen)]
Failed(category, error, latency) ==
    [category |-> category, api_success |-> FALSE, latency |-> latency, error |-> error,
     success |-> FALSE, score |-> 0]
(* _worker_failure_summary: one such result for each task.                 *)
Raised(category) == Failed(category, "other", 0)

(* What the tasks of a model may result in: there is one of each category  *)
(* (FULL_BENCHMARK_TASKS, DISCOVERY_BENCHMARK_TASKS).                      *)
MayResult(tasks) ==
    /\ tasks \in Seq(Range(tasks)) /\ Len(tasks) = Len(Categories)
    /\ \A i \in DOMAIN tasks :
           LET t == tasks[i]
               c == Categories[i]
           IN  \/ \E seen \in SUBSET Features[c] :
                      t.latency \in Nat \ {0} /\ t = Answered(c, seen, t.latency)
               \/ t.latency \in Nat /\ t = Failed(c, t.error, t.latency)

(* round(mean(...), 4) of the latencies that are not None, of the tasks I. *)
AverageLatency(tasks, I) ==
    LET timed == {i \in I : tasks[i].latency # 0}
    IN  IF timed = {} THEN 0
        ELSE RoundDiv(Total([i \in DOMAIN tasks |-> IF i \in I THEN tasks[i].latency ELSE 0]),
                      Cardinality(timed))

Malformed == {"response_parse_error", "empty_response"}
Passed(tasks) == {i \in DOMAIN tasks : tasks[i].success}

(* _benchmark_model and _worker_failure_summary.                           *)
Summary(id, tasks) ==
    LET passed == Cardinality(Passed(tasks)) IN
    [model |-> id, tasks |-> tasks, successful_tasks |-> passed,
     failed_tasks |-> Len(tasks) - passed,
     average_latency |-> AverageLatency(tasks, DOMAIN tasks),
     quality |-> RoundDiv(Unit * Total([i \in DOMAIN tasks |-> tasks[i].score]), 30 * Len(tasks)),
     reliability |-> RoundDiv(Unit * passed, Len(tasks)),
     malformed |-> Cardinality({i \in DOMAIN tasks : tasks[i].error \in Malformed}),
     final |-> 0]

(* _task_group_summaries.                                                  *)
Group(m, category) ==
    LET I == {i \in DOMAIN m.tasks : m.tasks[i].category = category}
    IN  [successful_tasks |-> Cardinality(I \cap Passed(m.tasks)),
         average_latency |-> AverageLatency(m.tasks, I)]
SucceededIn(ms, category) ==
    {i \in DOMAIN ms : Group(ms[i], category).successful_tasks > 0}

-----------------------------------------------------------------------------
(* _score_models.  The speed of a model is (1/a - 1/max) / (1/min - 1/max) *)
(* for its average latency a and the extremes of all models that have one. *)
SpeedTowardsSlow(a, extremes) ==   \* the inverses forgotten
    LET min == Least(extremes)
        max == Greatest(extremes)
    IN  IF max = min THEN Unit ELSE RoundDiv(Unit * (a - min), max - min)

Speed(a, extremes) ==
    LET min == Least(extremes)
        max == Greatest(extremes)
    IN  IF max = min THEN Unit
        ELSE RoundDiv(Unit * min * (max - a), a * (max - min))

SpeedScore(m, ms) ==
    LET latencies == {l.average_latency : l \in Range(ms)} \ {0}
    IN  IF m.average_latency = 0 \/ m.successful_tasks = 0 THEN 0
        ELSE Speed(m.average_latency, latencies)

Scored(ms) ==
    [i \in DOMAIN ms |-> [ms[i] EXCEPT !.final =
        RoundDiv((5 * ms[i].reliability) + (3 * ms[i].quality) + (2 * SpeedScore(ms[i], ms)), 10)]]

-----------------------------------------------------------------------------
(* _best_by, _rank_models and _build_recommendations.                      *)
LatencyKey(latency) == -(IF latency = 0 THEN 999999 ELSE latency)

FastFirstKey(m) ==                 \* the key the latency put first
    <<LatencyKey(m.average_latency), m.final, m.reliability, m.quality>>

OverallKey(m) == <<m.final, m.reliability, m.quality, LatencyKey(m.average_latency)>>
BestIn(ms, category) ==
    First(ms, SucceededIn(ms, category),
          [i \in DOMAIN ms |-> <<ms[i].reliability, ms[i].quality, ms[i].final,
                                 LatencyKey(Group(ms[i], category).average_latency)>>])

Fastest(ms) == First(ms, SucceededIn(ms, "simple"),
                     [i \in DOMAIN ms |-> <<-Group(ms[i], "simple").average_latency>>])

(* _model_has_only_transient_failures.                                     *)
OnlyTransient(m) ==
    LET failed == DOMAIN m.tasks \ Passed(m.tasks)
    IN  /\ failed # {}
        /\ \A i \in failed : m.tasks[i].error \in {"rate_limit", "timeout", "network_error"}

Retest(m) == m.successful_tasks = 0 /\ OnlyTransient(m)
Avoid(m) ==
    /\ ~Retest(m)
    /\ \/ m.successful_tasks = 0
       \/ 2 * m.reliability < Unit
       \/ m.malformed >= 3 /\ m.malformed >= Len(m.tasks) \div 2

Successful(ms) == {i \in DOMAIN ms : ms[i].successful_tasks > 0}
DefaultPool(ms) ==
    LET perfect == {i \in DOMAIN ms : ms[i].failed_tasks = 0}
    IN  IF perfect # {} THEN perfect ELSE Successful(ms)

Recommendations(ms) ==
    LET overall == [i \in DOMAIN ms |-> OverallKey(ms[i])]
        extra == Ranking({i \in Successful(ms) : ms[i].model \notin Range(Priority)}, overall)
    IN  [default |-> First(ms, DefaultPool(ms), overall).model,
         fast |-> Fastest(ms).model,
         reasoning |-> BestIn(ms, "reasoning").model,
         coding |-> BestIn(ms, "coding").model,
         additional |-> [n \in 1..Least({5, Len(extra)}) |-> ms[extra[n]].model],
         retest |-> {ms[i].model : i \in {j \in DOMAIN ms : Retest(ms[j])}},
         avoid |-> {ms[i].model : i \in {j \in DOMAIN ms : Avoid(ms[j])}}]

-----------------------------------------------------------------------------
(* The part of the report that the properties look at.                     *)
Report(ms) == LET scored == Scored(ms)
              IN  [models |-> scored, advice |-> Recommendations(scored)]
=============================================================================
