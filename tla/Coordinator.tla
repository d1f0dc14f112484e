---------------------------- MODULE Coordinator ----------------------------
(***************************************************************************)
(* Coordinator.ask (app/coordinator.py): the requests that run at the same *)
(* time in the executor's threads, the circuit breakers and the response   *)
(* cache they share, and the operator's endpoints that reset and           *)
(* invalidate them.  A step ends where the code leaves a lock or starts a  *)
(* call.  The breaker of a model is the record of BreakerOps; its slot     *)
(* counter stays 0 (CircuitBreaker), so that is_available is decided by    *)
(* the state it reads first.  The analytics collector is read by nobody    *)
(* here: its record belongs to the step that returns the outcome.          *)
(***************************************************************************)
EXTENDS BreakerOps, Sequences, FiniteSets

CONSTANTS
    Requests,       \* calls of ask, each made once
    Models,
    Available,      \* get_available_model_ids()
    Tasks,          \* normalised task types
    Route,          \* task type -> model (get_routing_model_id)
    Fallbacks,      \* task type -> chain of models (FALLBACK_CHAINS)
    Prompts,        \* what else a cache key is made of: messages,
                    \*   temperature, max_tokens
    CacheEnabled    \* settings.enable_cache

ASSUME AvailableAssumption == Available \subseteq Models
ASSUME RouteAssumption == Route \in [Tasks -> Models]
ASSUME FallbacksAssumption == Fallbacks \in [Tasks -> Seq(Models)]
ASSUME DistinctAssumption ==       \* no chain names a model twice
    \A t \in Tasks : \A i, j \in 1..Len(Fallbacks[t]) :
        Fallbacks[t][i] = Fallbacks[t][j] => i = j
ASSUME CacheAssumption == CacheEnabled \in BOOLEAN

NoModel == "no_model"
ASSUME NoModelAssumption == NoModel \notin Models

VARIABLES
    breakers,   \* the registry: a breaker per model
    cache,      \* what the cache holds under <<model, prompt>>
    pc,         \* where each request is
    sel,        \* its ModelSelection, with the prompt
    at,         \* the model it is calling or has called last
    pos,        \* the next place of its fallback chain
    fate,       \* history: what each model did for the request
    answer,     \* its CoordinatorOutcome
    source,     \* history: who wrote the content of the answer
    log         \* its records in the analytics collector

vars == <<breakers, cache, pc, sel, at, pos, fate, answer, source, log>>

-----------------------------------------------------------------------------
Selection == [primary : Models, user_specified : BOOLEAN,
              task : Tasks, prompt : Prompts]
NoSelection == [primary |-> NoModel, user_specified |-> FALSE,
                task |-> "no_task", prompt |-> "no_prompt"]

(* select_model: an explicit model wins over the route of the task.        *)
SelectModel(explicit, task, prompt) ==
    [primary        |-> IF explicit # NoModel THEN explicit ELSE Route[task],
     user_specified |-> explicit # NoModel,
     task           |-> task,
     prompt         |-> prompt]

Untried  == "untried"
Refused  == "refused"      \* its circuit was open
Failed   == "failed"
Answered == "answered"
Fates == {Untried, Refused, Failed, Answered}

(* An entry: who wrote the content, and the "model" field that invalidate  *)
(* looks for, which the responses the coordinator stores do not have.      *)
Entries  == [by : Models \cup {NoModel}, model : Models \cup {NoModel}]
Entry(m) == [by |-> m, model |-> NoModel]
NoEntry  == [by |-> NoModel, model |-> NoModel]
Keys == Models \X Prompts

Record == [success : BOOLEAN, model : Models \cup {NoModel},
           fallback_used : BOOLEAN, cache_hit : BOOLEAN]
Outcome(success, m, used, hit) ==
    [success |-> success, model |-> m, fallback_used |-> used, cache_hit |-> hit]
NoAnswer == Outcome(FALSE, NoModel, FALSE, FALSE)
FailureOutcome(m) == Outcome(FALSE, m, FALSE, FALSE)

Key(r) == <<sel[r].primary, sel[r].prompt>>
Chain(r) == Fallbacks[sel[r].task]

(* The places of a request in ask and _try_fallbacks.                      *)
Places == {"new", "lookup", "admit", "calling", "next", "store", "done"}

Init ==
    /\ breakers = [m \in Models |-> NewBreaker]
    /\ cache = [k \in Keys |-> NoEntry]
    /\ pc = [r \in Requests |-> "new"]
    /\ sel = [r \in Requests |-> NoSelection]
    /\ at = [r \in Requests |-> NoModel]
    /\ pos = [r \in Requests |-> 1]
    /\ fate = [r \in Requests |-> [m \in Models |-> Untried]]
    /\ answer = [r \in Requests |-> NoAnswer]
    /\ source = [r \in Requests |-> NoModel]
    /\ log = [r \in Requests |-> <<>>]

-----------------------------------------------------------------------------
Goto(r, place) == pc' = [pc EXCEPT ![r] = place]
Note(r, m, f) == fate' = [fate EXCEPT ![r][m] = f]

(* ask returns outcome o, with content that model m wrote.                 *)
Return(r, o, m) ==
    /\ answer' = [answer EXCEPT ![r] = o]
    /\ source' = [source EXCEPT ![r] = m]
    /\ Goto(r, "done")
Recorded(r, o) == log' = [log EXCEPT ![r] = Append(@, o)]

(* is_available(m) is asked; what it reads is breakers'[m].state.          *)
Ask(m) == breakers' = [breakers EXCEPT ![m] = Look(@)]

(* Streaming is not supported; a model the caller named must be on offer.  *)
(* Neither answer is recorded.                                             *)
Arrive(r) ==
    /\ pc[r] = "new"
    /\ \E explicit \in Models \cup {NoModel}, task \in Tasks,
          prompt \in Prompts, stream \in BOOLEAN :
         LET s == SelectModel(explicit, task, prompt)
             turned_away == stream \/ (s.user_specified /\ s.primary \notin Available)
         IN  /\ sel' = [sel EXCEPT ![r] = s]
             /\ \/ turned_away
                   /\ Return(r, FailureOutcome(explicit), NoModel)
                \/ ~turned_away
                   /\ Goto(r, "lookup")
                   /\ UNCHANGED <<answer, source>>
    /\ UNCHANGED <<breakers, cache, at, pos, fate, log>>

(* A hit is answered under the name of the selected model.                 *)
Lookup(r) ==
    /\ pc[r] = "lookup"
    /\ LET e == cache[Key(r)]
           hit == Outcome(TRUE, sel[r].primary, FALSE, TRUE)
       IN  \/ /\ CacheEnabled /\ e # NoEntry
              /\ Recorded(r, hit)
              /\ Return(r, hit, e.by)
           \/ /\ ~CacheEnabled \/ e = NoEntry
              /\ Goto(r, "admit")
              /\ UNCHANGED <<answer, source, log>>
    /\ UNCHANGED <<breakers, cache, sel, at, pos, fate>>

Call(r, m) ==
    /\ at' = [at EXCEPT ![r] = m]
    /\ Goto(r, "calling")

(* The selected model: its circuit decides between a call, the fallbacks   *)
(* and, for a model the caller named, a failure that is not recorded.      *)
Admit(r) ==
    /\ pc[r] = "admit"
    /\ LET m == sel[r].primary IN
        /\ Ask(m)
        /\ \/ /\ breakers'[m].state # Open
              /\ Call(r, m)
              /\ UNCHANGED <<fate, answer, source>>
           \/ /\ breakers'[m].state = Open
              /\ Note(r, m, Refused)
              /\ \/ /\ sel[r].user_specified
                    /\ Return(r, FailureOutcome(m), NoModel)
                 \/ /\ ~sel[r].user_specified
                    /\ Goto(r, "next")
                    /\ UNCHANGED <<answer, source>>
              /\ UNCHANGED at
    /\ UNCHANGED <<cache, sel, pos, log>>

(* The call ends, and its result goes to the breaker of the called model.  *)
CallSucceeds(r) ==
    /\ pc[r] = "calling"
    /\ breakers' = [breakers EXCEPT ![at[r]] = RecordSuccess(@)]
    /\ Note(r, at[r], Answered)
    /\ Goto(r, "store")
    /\ UNCHANGED <<cache, sel, at, pos, answer, source, log>>

(* Slips a change to the code could make stand before the definition they  *)
(* alter; each of them breaks a property.                                  *)
FailureRecordedEarly(r) ==        \* recorded before the fallbacks are tried
    /\ pc[r] = "calling"
    /\ breakers' = [breakers EXCEPT ![at[r]] = RecordFailure(@)]
    /\ Note(r, at[r], Failed)
    /\ Recorded(r, FailureOutcome(at[r]))
    /\ Goto(r, "next")
    /\ UNCHANGED <<cache, sel, at, pos, answer, source>>

FailureBlamesSelected(r) ==       \* record_failure(selection.model_id)
    /\ pc[r] = "calling"
    /\ breakers' = [breakers EXCEPT ![sel[r].primary] = RecordFailure(@)]
    /\ Note(r, at[r], Failed)
    /\ IF sel[r].user_specified
       THEN /\ Recorded(r, FailureOutcome(at[r]))
            /\ Return(r, FailureOutcome(at[r]), NoModel)
       ELSE Goto(r, "next") /\ UNCHANGED <<answer, source, log>>
    /\ UNCHANGED <<cache, sel, at, pos>>

CallFails(r) ==
    /\ pc[r] = "calling"
    /\ breakers' = [breakers EXCEPT ![at[r]] = RecordFailure(@)]
    /\ Note(r, at[r], Failed)
    /\ \/ /\ sel[r].user_specified
          /\ Recorded(r, FailureOutcome(at[r]))
          /\ Return(r, FailureOutcome(at[r]), NoModel)
       \/ /\ ~sel[r].user_specified
          /\ Goto(r, "next")
          /\ UNCHANGED <<answer, source, log>>
    /\ UNCHANGED <<cache, sel, at, pos>>

(* One turn of the loop of _try_fallbacks.  fallback_candidates_for has    *)
(* left the selected model out; what is not on offer is passed over.       *)
PassedIfNotOffered(r, m) == m \notin Available    \* the selected one kept in

Passed(r, m) == m = sel[r].primary \/ m \notin Available

StopAtRefused(r) ==               \* "break" for "continue"
    /\ pc[r] = "next"
    /\ pos[r] <= Len(Chain(r))
    /\ LET m == Chain(r)[pos[r]] IN
        \/ /\ Passed(r, m)
           /\ pos' = [pos EXCEPT ![r] = @ + 1]
           /\ UNCHANGED <<breakers, pc, at, fate>>
        \/ /\ ~Passed(r, m)
           /\ Ask(m)
           /\ \/ /\ breakers'[m].state = Open
                 /\ Note(r, m, Refused)
                 /\ pos' = [pos EXCEPT ![r] = Len(Chain(r)) + 1]
                 /\ UNCHANGED <<pc, at>>
              \/ /\ breakers'[m].state # Open
                 /\ Call(r, m)
                 /\ pos' = [pos EXCEPT ![r] = @ + 1]
                 /\ UNCHANGED fate
    /\ UNCHANGED <<cache, sel, answer, source, log>>

CalledUnasked(r) ==               \* no is_available for a fallback
    /\ pc[r] = "next"
    /\ pos[r] <= Len(Chain(r))
    /\ pos' = [pos EXCEPT ![r] = @ + 1]
    /\ LET m == Chain(r)[pos[r]] IN
        \/ Passed(r, m)  /\ UNCHANGED <<pc, at>>
        \/ ~Passed(r, m) /\ Call(r, m)
    /\ UNCHANGED <<breakers, cache, sel, fate, answer, source, log>>

RefusedAskedAgain(r) ==           \* wait for a refusing fallback
    /\ pc[r] = "next"
    /\ pos[r] <= Len(Chain(r))
    /\ LET m == Chain(r)[pos[r]] IN
        \/ /\ Passed(r, m)
           /\ pos' = [pos EXCEPT ![r] = @ + 1]
           /\ UNCHANGED <<breakers, pc, at>>
        \/ /\ ~Passed(r, m)
           /\ Ask(m)
           /\ \/ breakers'[m].state = Open  /\ UNCHANGED <<pc, at, pos>>
              \/ breakers'[m].state # Open /\ Call(r, m)
                    /\ pos' = [pos EXCEPT ![r] = @ + 1]
    /\ UNCHANGED <<cache, sel, fate, answer, source, log>>

TryFallback(r) ==
    /\ pc[r] = "next"
    /\ pos[r] <= Len(Chain(r))
    /\ pos' = [pos EXCEPT ![r] = @ + 1]
    /\ LET m == Chain(r)[pos[r]] IN
        \/ /\ Passed(r, m)
           /\ UNCHANGED <<breakers, pc, at, fate>>
        \/ /\ ~Passed(r, m)
           /\ Ask(m)
           /\ \/ /\ breakers'[m].state = Open
                 /\ Note(r, m, Refused)
                 /\ UNCHANGED <<pc, at>>
              \/ /\ breakers'[m].state # Open
                 /\ Call(r, m)
                 /\ UNCHANGED fate
    /\ UNCHANGED <<cache, sel, answer, source, log>>

(* The chain is exhausted: the failure is recorded if the selected model   *)
(* was called, and is not if its circuit was open.                         *)
GiveUp(r) ==
    /\ pc[r] = "next"
    /\ pos[r] > Len(Chain(r))
    /\ LET m == sel[r].primary
           o == FailureOutcome(m)
       IN  /\ Return(r, o, NoModel)
           /\ \/ fate[r][m] = Failed  /\ Recorded(r, o)
              \/ fate[r][m] = Refused /\ UNCHANGED log
    /\ UNCHANGED <<breakers, cache, sel, at, pos, fate>>

StoreNamesSelected(r) ==          \* fallback_used not passed on
    /\ pc[r] = "store"
    /\ LET o == Outcome(TRUE, sel[r].primary, FALSE, FALSE) IN
        Recorded(r, o) /\ Return(r, o, at[r])
    /\ cache' = [cache EXCEPT ![Key(r)] = Entry(at[r])]
    /\ UNCHANGED <<breakers, sel, at, pos, fate>>

StoreUnderAnswerer(r) ==          \* model_id=fallback_model_id
    /\ pc[r] = "store"
    /\ LET o == Outcome(TRUE, at[r], at[r] # sel[r].primary, FALSE) IN
        Recorded(r, o) /\ Return(r, o, at[r])
    /\ cache' = [cache EXCEPT ![<<at[r], sel[r].prompt>>] = Entry(at[r])]
    /\ UNCHANGED <<breakers, sel, at, pos, fate>>

(* The answer, a fallback's too, is cached under the selected model.       *)
Store(r) ==
    /\ pc[r] = "store"
    /\ LET o == Outcome(TRUE, at[r], at[r] # sel[r].primary, FALSE) IN
        /\ Recorded(r, o)
        /\ Return(r, o, at[r])
    /\ \/ CacheEnabled  /\ cache' = [cache EXCEPT ![Key(r)] = Entry(at[r])]
       \/ ~CacheEnabled /\ UNCHANGED cache
    /\ UNCHANGED <<breakers, sel, at, pos, fate>>

-----------------------------------------------------------------------------
local == <<pc, sel, at, pos, fate, answer, source, log>>

(* /circuit-breakers/reset of a model; with no model, one after the other. *)
ResetModel(m) ==
    /\ breakers' = [breakers EXCEPT ![m] = Reset(@)]
    /\ UNCHANGED <<cache, local>>

(* /circuit-breakers and /health read the state of every breaker in turn.  *)
ReadStatus(m) ==
    /\ Ask(m)
    /\ UNCHANGED <<cache, local>>

(* invalidate(m) removes the entries whose value names m as its model.     *)
Without(m) == [k \in Keys |-> IF cache[k].model = m THEN NoEntry ELSE cache[k]]

InvalidateModel(m) ==
    /\ cache' = Without(m)
    /\ UNCHANGED <<breakers, local>>

InvalidateAll ==
    /\ cache' = [k \in Keys |-> NoEntry]
    /\ UNCHANGED <<breakers, local>>

(* TTLCache drops an entry that is too old, or the oldest one when full.   *)
Expire(k) ==
    /\ cache[k] # NoEntry
    /\ cache' = [cache EXCEPT ![k] = NoEntry]
    /\ UNCHANGED <<breakers, local>>

Tick ==
    /\ breakers' = [m \in Models |-> Older(breakers[m])]
    /\ UNCHANGED <<cache, local>>

Proceed(r) == \/ Lookup(r) \/ Admit(r) \/ CallSucceeds(r) \/ CallFails(r)
              \/ TryFallback(r) \/ GiveUp(r) \/ Store(r)

Operate == \/ \E m \in Models : ResetModel(m) \/ ReadStatus(m) \/ InvalidateModel(m)
           \/ InvalidateAll
           \/ \E k \in Keys : Expire(k)

Next == (\E r \in Requests : Arrive(r) \/ Proceed(r)) \/ Operate \/ Tick

Spec == Init /\ [][Next]_vars

(* A thread that serves a request goes on, and a call comes to an end.     *)
FairSpec == Spec /\ \A r \in Requests : WF_vars(Proceed(r))

-----------------------------------------------------------------------------
TypeOK ==
    /\ breakers \in [Models -> Breaker]
    /\ cache \in [Keys -> Entries]
    /\ pc \in [Requests -> Places]
    /\ sel \in [Requests -> Selection \cup {NoSelection}]
    /\ at \in [Requests -> Models \cup {NoModel}]
    /\ pos \in [Requests -> Nat \ {0}]
    /\ fate \in [Requests -> [Models -> Fates]]
    /\ answer \in [Requests -> Record]
    /\ source \in [Requests -> Models \cup {NoModel}]
    /\ log \in [Requests -> Seq(Record)]
    /\ \A r \in Requests :
         /\ pc[r] # "new" => sel[r] \in Selection
         /\ pc[r] \in {"calling", "store"} => at[r] \in Models

Done(r) == pc[r] = "done"
TurnedAway(r) == Done(r) /\ \A m \in Models : fate[r][m] = Untried

(* An answer that was not cached is owned up to: it comes from the model   *)
(* it names, that model did answer this very request, and if it is a       *)
(* fallback then fallback_used says so, nobody had named a model, and the  *)
(* selected one had failed or was refused.                                 *)
AnswerOwnsUp ==
    \A r \in Requests : Done(r) /\ answer[r].success /\ ~answer[r].cache_hit =>
        LET m == answer[r].model  p == sel[r].primary IN
        /\ source[r] = m
        /\ m \in Models /\ fate[r][m] = Answered
        /\ answer[r].fallback_used <=> m # p
        /\ m # p => fate[r][p] \in {Failed, Refused} /\ ~sel[r].user_specified

(* A request fails only when nobody is left: the selected model failed or  *)
(* was refused, and unless the caller had named it so did every fallback   *)
(* on offer.                                                               *)
FailureIsExhaustive ==
    \A r \in Requests : Done(r) /\ ~answer[r].success /\ ~TurnedAway(r) =>
        /\ fate[r][sel[r].primary] \in {Failed, Refused}
        /\ ~sel[r].user_specified =>
             \A i \in 1..Len(Chain(r)) :
                 Chain(r)[i] \in Available => fate[r][Chain(r)[i]] \in {Failed, Refused}

(* What is cached is an answer: the content under a key was given, by the  *)
(* model the entry came from, to a request for that model and prompt.      *)
CacheHoldsAnswers ==
    \A k \in Keys : cache[k] # NoEntry =>
        \E r \in Requests : Key(r) = k /\ Done(r) /\ fate[r][cache[k].by] = Answered

(* Each outcome is recorded once, as the caller saw it, except that of a   *)
(* request that was turned away or that ended with the circuit of the      *)
(* selected model open and no fallback left.                               *)
RecordedOnce ==
    \A r \in Requests :
        \/ ~Done(r) /\ log[r] = <<>>
        \/ Done(r) /\ log[r] = <<answer[r]>>
        \/ Done(r) /\ log[r] = <<>> /\ ~answer[r].success
             /\ (TurnedAway(r) \/ fate[r][sel[r].primary] = Refused)

(* The verdict on a model is its own: its circuit opens only on a failed   *)
(* call of that model, and closes only on its success or by a reset.       *)
VerdictIsItsOwn ==
    [][\A m \in Models :
         LET ended(f) == \E r \in Requests :
                 pc[r] = "calling" /\ at[r] = m /\ pc'[r] # "calling" /\ fate'[r][m] = f
         IN  /\ breakers[m].state # Open /\ breakers'[m].state = Open => ended(Failed)
             /\ breakers[m].state # Closed /\ breakers'[m].state = Closed =>
                  ended(Answered) \/ breakers'[m] = NewBreaker]_vars

(* A model whose circuit stays open is left alone: no request starts to    *)
(* call it, neither as the selected model nor as a fallback.               *)
OpenIsLeftAlone ==
    [][\A m \in Models : breakers[m].state = Open /\ breakers'[m].state = Open =>
         {r \in Requests : pc'[r] = "calling" /\ at'[r] = m} \subseteq
         {r \in Requests : pc[r] = "calling" /\ at[r] = m}]_vars

(* Every request that is let in is answered, whatever the circuits do and  *)
(* however often the operator resets them.                                 *)
EveryRequestAnswered == \A r \in Requests : pc[r] = "lookup" ~> pc[r] = "done"

(* The fail-over that the gateway promises: the circuits, the clock, the   *)
(* operator and the places in ask are hidden, and so is what an analytics  *)
(* collector hears.                                                        *)
Stage(r)  == CASE pc[r] = "new"  -> "unasked"
               [] pc[r] = "done" -> "settled"
               [] OTHER          -> "open"
Losers(r) == {m \in Models : fate[r][m] \in {Failed, Refused}}
InHand(r) == IF pc[r] = "store" THEN at[r] ELSE NoModel

Promise == INSTANCE Failover WITH
    Nobody <- NoModel,
    stage  <- [r \in Requests |-> Stage(r)],
    want   <- sel,
    lost   <- [r \in Requests |-> Losers(r)],
    given  <- [r \in Requests |-> InHand(r)],
    told   <- answer,
    author <- source,
    memo   <- [k \in Keys |-> cache[k].by]

(* The one step that the promise does not have: a hit hands over what was  *)
(* written by a model that is no candidate of the request, for the caller  *)
(* named another one or its task has another chain.                        *)
Borrow(r) == \E m \in Models : Promise!Hear(r, m) /\ m \notin Promise!Candidates(sel[r])

(* Every other step is one of the promise.  In particular a fallback is    *)
(* called only when everybody in front of it in the chain is lost, nobody  *)
(* is called twice for a request, and a hit stands for an answer given     *)
(* before (ask, _try_fallbacks).                                           *)
ImplementsButBorrows ==
    Promise!Init /\ [][Promise!Next \/ \E r \in Requests : Borrow(r)]_(Promise!fvars)

-----------------------------------------------------------------------------
(* "If a model is explicitly supplied, the gateway forwards to that exact  *)
(* model and does not silently switch models."  (model_selection_notes.md, *)
(* line 45): who named a model and is answered reads what that model       *)
(* wrote.                                                                  *)
NeverSwitched ==
    \A r \in Requests : Done(r) /\ sel[r].user_specified /\ answer[r].success =>
        source[r] = sel[r].primary
=============================================================================
