------------------------- MODULE CoordinatorProofs -------------------------
(***************************************************************************)
(* Coordinator for every set of requests, models and chains, whatever the  *)
(* breakers decide.  The inductive invariant says what a request knows at  *)
(* each place of ask: nothing has been tried before its first call, it     *)
(* calls or stores for another model only when the selected one is lost,   *)
(* and when it looks for the next fallback every one before it on offer is *)
(* lost too.  A request that is done never changes again, which is why     *)
(* what it backs in the cache stays backed.  That the gateway implements   *)
(* Failover needs to know two things more: that a request has not tried    *)
(* whom it calls, nor anybody further down the chain, and that a model     *)
(* signed whatever is cached.                                              *)
(***************************************************************************)
EXTENDS Coordinator, TLAPS

Lost(r, m) == fate[r][m] \in {Failed, Refused}

(* Another model than the selected one is called only in its place.        *)
InPlace(r) ==
    at[r] # sel[r].primary => Lost(r, sel[r].primary) /\ ~sel[r].user_specified

(* Every fallback on offer before place n of the chain is lost.            *)
LostBefore(r, n) ==
    \A i \in 1..Len(Chain(r)) :
        i < n /\ Chain(r)[i] \in Available => Lost(r, Chain(r)[i])

Unspoilt(r) == \A m \in Models : fate[r][m] = Untried

OwnsUp(r) ==
    answer[r].success /\ ~answer[r].cache_hit =>
        LET m == answer[r].model  p == sel[r].primary IN
        /\ source[r] = m
        /\ m \in Models /\ fate[r][m] = Answered
        /\ answer[r].fallback_used <=> m # p
        /\ m # p => fate[r][p] \in {Failed, Refused} /\ ~sel[r].user_specified

Exhaustive(r) ==
    ~answer[r].success /\ ~Unspoilt(r) =>
        /\ Lost(r, sel[r].primary)
        /\ ~sel[r].user_specified => LostBefore(r, Len(Chain(r)) + 1)

Logged(r) ==
    \/ log[r] = <<answer[r]>>
    \/ log[r] = <<>> /\ ~answer[r].success
         /\ (Unspoilt(r) \/ fate[r][sel[r].primary] = Refused)

(* What a request knows, place by place.                                   *)
Knows(r) ==
    /\ pc[r] # "done" => log[r] = <<>>
    /\ pc[r] \in {"new", "lookup", "admit"} => Unspoilt(r) /\ pos[r] = 1
    /\ pc[r] = "calling" =>
         /\ InPlace(r)
         /\ at[r] = sel[r].primary => pos[r] = 1
         /\ at[r] # sel[r].primary =>
              /\ LostBefore(r, pos[r] - 1)
              /\ pos[r] - 1 \in 1..Len(Chain(r)) => at[r] = Chain(r)[pos[r] - 1]
    /\ pc[r] = "next" => /\ Lost(r, sel[r].primary)
                         /\ ~sel[r].user_specified
                         /\ LostBefore(r, pos[r])
    /\ pc[r] = "store" => InPlace(r) /\ fate[r][at[r]] = Answered
    /\ pc[r] = "done" => OwnsUp(r) /\ Exhaustive(r) /\ Logged(r)

KnowsInv == \A r \in Requests : Knows(r)

IInv == TypeOK /\ KnowsInv /\ CacheHoldsAnswers

-----------------------------------------------------------------------------
(* The breakers                                                            *)

(* Every locked section keeps the type of a breaker.                       *)
LEMMA BreakerTypes ==
  ASSUME NEW b \in Breaker
  PROVE  /\ NewBreaker \in Breaker
         /\ Look(b) \in Breaker /\ RecordSuccess(b) \in Breaker
         /\ RecordFailure(b) \in Breaker /\ Reset(b) \in Breaker
         /\ Older(b) \in Breaker
<1> USE ThresholdAssumption, RecoveryAssumption, HalfOpenAssumption
<1> DEFINE healed == IF b.state = HalfOpen THEN Closed ELSE b.state
           struck == IF b.state = HalfOpen \/ NextStreak(b) >= FailureThreshold
                     THEN Open ELSE b.state
           aged   == IF b.age \in 0..RecoveryTimeout THEN b.age + 1 ELSE b.age
<1>0. /\ 0 \in 0..FailureThreshold /\ 0 \in 0..HalfOpenMaxCalls
      /\ 0 \in Ages /\ NoFailure \in Ages
      /\ Closed \in CircuitState /\ Open \in CircuitState /\ HalfOpen \in CircuitState
  BY DEF Ages, Elapsed, CircuitState
<1>1. NewBreaker \in Breaker /\ Reset(b) \in Breaker
  BY <1>0 DEF NewBreaker, Reset, Breaker
<1>2. Look(b) \in Breaker
  <2>1. [b EXCEPT !.state = HalfOpen, !.half_calls = 0] \in Breaker
    BY <1>0 DEF Breaker
  <2> QED BY <2>1 DEF Look
<1>3. RecordSuccess(b) \in Breaker
  <2>1. healed \in CircuitState
    BY <1>0 DEF Breaker
  <2>2. RecordSuccess(b) = [b EXCEPT !.streak = 0, !.state = healed]
    BY DEF RecordSuccess
  <2> HIDE DEF healed
  <2> QED BY <1>0, <2>1, <2>2 DEF Breaker
<1>4. RecordFailure(b) \in Breaker
  <2>1. NextStreak(b) \in 0..FailureThreshold
    BY DEF NextStreak, Breaker
  <2>2. struck \in CircuitState
    BY <1>0 DEF Breaker
  <2>3. RecordFailure(b) = [b EXCEPT !.streak = NextStreak(b), !.age = 0, !.state = struck]
    BY DEF RecordFailure
  <2> HIDE DEF struck
  <2> QED BY <1>0, <2>1, <2>2, <2>3 DEF Breaker
<1>5. Older(b) \in Breaker
  <2>1. aged \in Ages
    BY DEF Breaker, Ages, Elapsed
  <2>2. Older(b) = b \/ Older(b) = [b EXCEPT !.age = aged]
    BY DEF Older
  <2> HIDE DEF aged
  <2> QED BY <2>1, <2>2 DEF Breaker
<1> QED BY <1>1, <1>2, <1>3, <1>4, <1>5

(* A look opens or closes nothing, a success opens nothing and a failure   *)
(* closes nothing.                                                         *)
LEMMA BreakerMoves ==
  ASSUME NEW b \in Breaker
  PROVE  /\ Look(b).state = Open => b.state = Open
         /\ Look(b).state = Closed => b.state = Closed
         /\ RecordSuccess(b).state = Open => b.state = Open
         /\ RecordFailure(b).state = Closed => b.state = Closed
         /\ Older(b).state = b.state
         /\ NewBreaker.state = Closed
<1> USE DEF Breaker, CircuitState, Closed, Open, HalfOpen
<1>1. (Look(b).state = Open => b.state = Open) /\ (Look(b).state = Closed => b.state = Closed)
  BY DEF Look, Due
<1>2. RecordSuccess(b).state = Open => b.state = Open
  BY DEF RecordSuccess
<1>3. RecordFailure(b).state = Closed => b.state = Closed
  BY DEF RecordFailure
<1>4. Older(b).state = b.state /\ NewBreaker.state = Closed
  BY DEF Older, NewBreaker
<1> QED BY <1>1, <1>2, <1>3, <1>4

USE AvailableAssumption, RouteAssumption, FallbacksAssumption, NoModelAssumption,
    ThresholdAssumption, RecoveryAssumption, HalfOpenAssumption

USE DEF Untried, Refused, Failed, Answered

-----------------------------------------------------------------------------
(* What a step of one request does to the others                           *)

Kept(q) ==
    /\ pc'[q] = pc[q] /\ sel'[q] = sel[q] /\ at'[q] = at[q] /\ pos'[q] = pos[q]
    /\ fate'[q] = fate[q] /\ answer'[q] = answer[q] /\ source'[q] = source[q]
    /\ log'[q] = log[q]

(* A request that a step does not touch knows what it knew.                *)
LEMMA KeptKnows ==
  ASSUME NEW q \in Requests, Kept(q), Knows(q)
  PROVE  Knows(q)'
<1>1. /\ \A n : LostBefore(q, n)' <=> LostBefore(q, n)
      /\ \A m : Lost(q, m)' <=> Lost(q, m)
      /\ Chain(q)' = Chain(q)
  BY DEF Kept, LostBefore, Lost, Chain
<1>2. (InPlace(q)' <=> InPlace(q)) /\ (Unspoilt(q)' <=> Unspoilt(q))
  BY DEF Kept, InPlace, Lost, Unspoilt
<1>3. OwnsUp(q)' <=> OwnsUp(q)
  BY DEF Kept, OwnsUp
<1>4. Exhaustive(q)' <=> Exhaustive(q)
  BY <1>1, <1>2 DEF Kept, Exhaustive
<1>5. Logged(q)' <=> Logged(q)
  BY <1>2 DEF Kept, Logged
<1> QED BY <1>1, <1>2, <1>3, <1>4, <1>5 DEF Kept, Knows

(* While only a request that is not done moves and nothing is cached, the  *)
(* entries keep their backing.                                             *)
LEMMA StillBacked ==
  ASSUME CacheHoldsAnswers, NEW r \in Requests, pc[r] # "done",
         \A q \in Requests \ {r} : Kept(q), UNCHANGED cache
  PROVE  CacheHoldsAnswers'
<1> SUFFICES ASSUME NEW k \in Keys, cache[k] # NoEntry
             PROVE  \E q \in Requests :
                      Key(q)' = k /\ Done(q)' /\ fate'[q][cache[k].by] = Answered
  BY DEF CacheHoldsAnswers
<1>1. PICK q \in Requests : Key(q) = k /\ Done(q) /\ fate[q][cache[k].by] = Answered
  BY DEF CacheHoldsAnswers
<1>2. q # r
  BY <1>1 DEF Done
<1> QED BY <1>1, <1>2 DEF Kept, Key, Done

(* The step of one request, in three parts.                                *)
LEMMA OneMoves ==
  ASSUME IInv, NEW r \in Requests, \A q \in Requests \ {r} : Kept(q), Knows(r)'
  PROVE  KnowsInv'
  BY KeptKnows DEF IInv, KnowsInv
-----------------------------------------------------------------------------
(* The steps of a request                                                  *)

LEMMA OutcomeType ==
  ASSUME NEW s \in BOOLEAN, NEW m \in Models \cup {NoModel}, NEW u \in BOOLEAN,
         NEW h \in BOOLEAN
  PROVE  /\ Outcome(s, m, u, h) \in Record
         /\ Outcome(s, m, u, h).success = s /\ Outcome(s, m, u, h).model = m
         /\ Outcome(s, m, u, h).fallback_used = u /\ Outcome(s, m, u, h).cache_hit = h
  BY DEF Outcome, Record

(* select_model always selects a model.                                    *)
LEMMA SelectType ==
  ASSUME NEW e \in Models \cup {NoModel}, NEW t \in Tasks, NEW p \in Prompts
  PROVE  SelectModel(e, t, p) \in Selection
  BY DEF SelectModel, Selection

(* Returning, recording, moving and noting touch one request and keep the  *)
(* types.                                                                  *)
LEMMA GotoDoes ==
  ASSUME TypeOK, NEW r \in Requests, NEW place \in Places, Goto(r, place)
  PROVE  /\ pc' \in [Requests -> Places] /\ pc'[r] = place
         /\ \A q \in Requests \ {r} : pc'[q] = pc[q]
  BY DEF TypeOK, Goto

LEMMA ReturnDoes ==
  ASSUME TypeOK, NEW r \in Requests, NEW o \in Record, NEW m \in Models \cup {NoModel},
         Return(r, o, m)
  PROVE  /\ pc' \in [Requests -> Places] /\ pc'[r] = "done"
         /\ answer' \in [Requests -> Record] /\ answer'[r] = o
         /\ source' \in [Requests -> Models \cup {NoModel}] /\ source'[r] = m
         /\ \A q \in Requests \ {r} :
               pc'[q] = pc[q] /\ answer'[q] = answer[q] /\ source'[q] = source[q]
<1>1. "done" \in Places /\ Goto(r, "done")
  BY DEF Places, Return
<1>2. answer' = [answer EXCEPT ![r] = o] /\ source' = [source EXCEPT ![r] = m]
  BY DEF Return
<1> QED BY <1>1, <1>2, GotoDoes DEF TypeOK

LEMMA RecordedDoes ==
  ASSUME TypeOK, NEW r \in Requests, NEW o \in Record, Recorded(r, o), log[r] = <<>>
  PROVE  /\ log' \in [Requests -> Seq(Record)] /\ log'[r] = <<o>>
         /\ \A q \in Requests \ {r} : log'[q] = log[q]
<1>1. log' = [log EXCEPT ![r] = Append(log[r], o)]
  BY DEF Recorded
<1>2. Append(log[r], o) = <<o>> /\ <<o>> \in Seq(Record)
  OBVIOUS
<1> QED BY <1>1, <1>2 DEF TypeOK

LEMMA NoteDoes ==
  ASSUME TypeOK, NEW r \in Requests, NEW m \in Models, NEW f \in Fates, Note(r, m, f)
  PROVE  /\ fate' \in [Requests -> [Models -> Fates]] /\ fate'[r][m] = f
         /\ \A n \in Models \ {m} : fate'[r][n] = fate[r][n]
         /\ \A q \in Requests \ {r} : fate'[q] = fate[q]
<1>1. fate' = [fate EXCEPT ![r] = [fate[r] EXCEPT ![m] = f]]
  BY DEF Note
<1>2. fate[r] \in [Models -> Fates]
  BY DEF TypeOK
<1>3. [fate[r] EXCEPT ![m] = f] \in [Models -> Fates]
  BY <1>2
<1> QED BY <1>1, <1>2, <1>3 DEF TypeOK

LEMMA AskDoes ==
  ASSUME TypeOK, NEW m \in Models, Ask(m)
  PROVE  breakers' \in [Models -> Breaker]
<1>1. Look(breakers[m]) \in Breaker
  BY BreakerTypes DEF TypeOK
<1> QED BY <1>1 DEF TypeOK, Ask

LEMMA CallDoes ==
  ASSUME TypeOK, NEW r \in Requests, NEW m \in Models, Call(r, m)
  PROVE  /\ pc' \in [Requests -> Places] /\ pc'[r] = "calling"
         /\ at' \in [Requests -> Models \cup {NoModel}] /\ at'[r] = m
         /\ \A q \in Requests \ {r} : pc'[q] = pc[q] /\ at'[q] = at[q]
<1>1. "calling" \in Places /\ Goto(r, "calling")
  BY DEF Places, Call
<1> QED BY <1>1, GotoDoes DEF TypeOK, Call

LEMMA ArriveKeeps ==
  ASSUME IInv, NEW r \in Requests, Arrive(r)
  PROVE  IInv'
<1>1. PICK e \in Models \cup {NoModel}, t \in Tasks, p \in Prompts, stream \in BOOLEAN :
        LET s == SelectModel(e, t, p)
            turned_away == stream \/ (s.user_specified /\ s.primary \notin Available)
        IN  /\ sel' = [sel EXCEPT ![r] = s]
            /\ \/ turned_away
                  /\ Return(r, FailureOutcome(e), NoModel)
               \/ ~turned_away
                  /\ Goto(r, "lookup")
                  /\ UNCHANGED <<answer, source>>
  BY DEF Arrive
<1> DEFINE s == SelectModel(e, t, p)
<1>2. sel' = [sel EXCEPT ![r] = s] /\ s \in Selection
  BY <1>1, SelectType
<1>3. \/ Return(r, FailureOutcome(e), NoModel)
      \/ Goto(r, "lookup") /\ UNCHANGED <<answer, source>>
  BY <1>1
<1> HIDE DEF s
<1>4. pc[r] = "new" /\ UNCHANGED <<breakers, cache, at, pos, fate, log>>
  BY DEF Arrive
<1>5. FailureOutcome(e) \in Record /\ ~FailureOutcome(e).success
  BY OutcomeType DEF FailureOutcome
<1>6. TypeOK'
  <2>1. sel' \in [Requests -> Selection \cup {NoSelection}] /\ sel'[r] \in Selection
        /\ \A q \in Requests \ {r} : sel'[q] = sel[q]
    BY <1>2 DEF IInv, TypeOK
  <2>2. /\ pc' \in [Requests -> Places] /\ pc'[r] \in {"lookup", "done"}
        /\ \A q \in Requests \ {r} : pc'[q] = pc[q]
        /\ answer' \in [Requests -> Record] /\ source' \in [Requests -> Models \cup {NoModel}]
    BY <1>3, <1>5, ReturnDoes, GotoDoes DEF IInv, TypeOK, Places
  <2> QED BY <1>4, <2>1, <2>2 DEF IInv, TypeOK
<1>7. \A q \in Requests \ {r} : Kept(q)
  BY <1>2, <1>3, <1>4 DEF IInv, TypeOK, Return, Goto, Kept
<1>8. Knows(r)'
  <2>1. log[r] = <<>> /\ Unspoilt(r) /\ pos[r] = 1
    BY <1>4 DEF IInv, KnowsInv, Knows
  <2>2. CASE Return(r, FailureOutcome(e), NoModel)
    <3>1. pc'[r] = "done" /\ answer'[r] = FailureOutcome(e)
      BY <2>2 DEF Return, Goto, IInv, TypeOK
    <3> QED BY <1>4, <1>5, <2>1, <3>1 DEF Knows, OwnsUp, Exhaustive, Logged, Unspoilt
  <2>3. CASE Goto(r, "lookup") /\ UNCHANGED <<answer, source>>
    <3>1. pc'[r] = "lookup"
      BY <2>3 DEF Goto, IInv, TypeOK
    <3> QED BY <1>4, <2>1, <3>1 DEF Knows, Unspoilt
  <2> QED BY <1>3, <2>2, <2>3
<1>9. CacheHoldsAnswers'
  BY <1>4, <1>7, StillBacked DEF IInv
<1> QED BY <1>6, <1>7, <1>8, <1>9, OneMoves DEF IInv

LEMMA LookupKeeps ==
  ASSUME IInv, NEW r \in Requests, Lookup(r)
  PROVE  IInv'
<1> DEFINE hit == Outcome(TRUE, sel[r].primary, FALSE, TRUE)
           by  == cache[Key(r)].by
<1>1. /\ pc[r] = "lookup" /\ UNCHANGED <<breakers, cache, sel, at, pos, fate>>
      /\ \/ Recorded(r, hit) /\ Return(r, hit, by)
         \/ Goto(r, "admit") /\ UNCHANGED <<answer, source, log>>
  BY DEF Lookup
<1>2. sel[r] \in Selection /\ sel[r].primary \in Models
  BY <1>1 DEF IInv, TypeOK, Selection
<1>3. hit \in Record /\ hit.success /\ hit.cache_hit
  BY <1>2, OutcomeType
<1>4. by \in Models \cup {NoModel}
  <2>1. Key(r) \in Keys
    BY <1>2 DEF Key, Keys, Selection
  <2> QED BY <2>1 DEF IInv, TypeOK, Entries
<1> HIDE DEF hit, by
<1>5. TypeOK'
  <2>1. /\ pc' \in [Requests -> Places] /\ pc'[r] \in {"admit", "done"}
        /\ \A q \in Requests \ {r} : pc'[q] = pc[q]
        /\ answer' \in [Requests -> Record] /\ source' \in [Requests -> Models \cup {NoModel}]
    BY <1>1, <1>3, <1>4, ReturnDoes, GotoDoes DEF IInv, TypeOK, Places
  <2>2. log' \in [Requests -> Seq(Record)]
    BY <1>1, <1>3, RecordedDoes DEF IInv, TypeOK, KnowsInv, Knows
  <2> QED BY <1>1, <1>2, <2>1, <2>2 DEF IInv, TypeOK
<1>6. \A q \in Requests \ {r} : Kept(q)
  BY <1>1 DEF IInv, TypeOK, Return, Goto, Recorded, Kept
<1>7. Knows(r)'
  <2>1. log[r] = <<>> /\ Unspoilt(r) /\ pos[r] = 1
    BY <1>1 DEF IInv, KnowsInv, Knows
  <2>2. CASE Recorded(r, hit) /\ Return(r, hit, by)
    <3>1. pc'[r] = "done" /\ answer'[r] = hit /\ log'[r] = <<hit>>
      BY <2>1, <2>2, <1>3 DEF Return, Goto, Recorded, IInv, TypeOK
    <3> QED BY <1>3, <3>1 DEF Knows, OwnsUp, Exhaustive, Logged
  <2>3. CASE Goto(r, "admit") /\ UNCHANGED <<answer, source, log>>
    <3>1. pc'[r] = "admit"
      BY <2>3 DEF Goto, IInv, TypeOK
    <3> QED BY <1>1, <2>1, <2>3, <3>1 DEF Knows, Unspoilt
  <2> QED BY <1>1, <2>2, <2>3
<1>8. CacheHoldsAnswers'
  BY <1>1, <1>6, StillBacked DEF IInv
<1> QED BY <1>5, <1>6, <1>7, <1>8, OneMoves DEF IInv

LEMMA AdmitKeeps ==
  ASSUME IInv, NEW r \in Requests, Admit(r)
  PROVE  IInv'
<1> DEFINE m == sel[r].primary
<1>1. /\ pc[r] = "admit" /\ UNCHANGED <<cache, sel, pos, log>> /\ Ask(m)
      /\ \/ Call(r, m) /\ UNCHANGED <<fate, answer, source>>
         \/ /\ Note(r, m, Refused) /\ UNCHANGED at
            /\ \/ sel[r].user_specified /\ Return(r, FailureOutcome(m), NoModel)
               \/ ~sel[r].user_specified /\ Goto(r, "next") /\ UNCHANGED <<answer, source>>
  BY DEF Admit
<1>2. TypeOK /\ log[r] = <<>> /\ Unspoilt(r) /\ pos[r] = 1 /\ m \in Models
      /\ sel[r] \in Selection
  BY <1>1 DEF IInv, KnowsInv, Knows, TypeOK, Selection
<1>3. FailureOutcome(m) \in Record /\ ~FailureOutcome(m).success
  BY <1>2, OutcomeType DEF FailureOutcome
<1>4. breakers' \in [Models -> Breaker]
  BY <1>1, <1>2, AskDoes
<1>5. CASE Call(r, m) /\ UNCHANGED <<fate, answer, source>>
  <2>1. /\ pc' \in [Requests -> Places] /\ pc'[r] = "calling"
        /\ at' \in [Requests -> Models \cup {NoModel}] /\ at'[r] = m
        /\ \A q \in Requests \ {r} : pc'[q] = pc[q] /\ at'[q] = at[q]
    BY <1>2, <1>5, CallDoes
  <2>2. TypeOK'
    BY <1>1, <1>2, <1>4, <1>5, <2>1 DEF TypeOK
  <2>3. \A q \in Requests \ {r} : Kept(q)
    BY <1>1, <1>5, <2>1 DEF Kept
  <2>4. Knows(r)'
    BY <1>1, <1>2, <2>1 DEF Knows, InPlace
  <2>5. CacheHoldsAnswers'
    BY <1>1, <2>3, StillBacked DEF IInv
  <2> QED BY <2>2, <2>3, <2>4, <2>5, OneMoves DEF IInv
<1>6. CASE /\ Note(r, m, Refused) /\ UNCHANGED at
           /\ \/ sel[r].user_specified /\ Return(r, FailureOutcome(m), NoModel)
              \/ ~sel[r].user_specified /\ Goto(r, "next") /\ UNCHANGED <<answer, source>>
  <2>1. /\ fate' \in [Requests -> [Models -> Fates]] /\ fate'[r][m] = Refused
        /\ \A q \in Requests \ {r} : fate'[q] = fate[q]
    BY <1>2, <1>6, NoteDoes DEF Fates
  <2>2. CASE sel[r].user_specified /\ Return(r, FailureOutcome(m), NoModel)
    <3>1. /\ pc' \in [Requests -> Places] /\ pc'[r] = "done"
          /\ answer' \in [Requests -> Record] /\ answer'[r] = FailureOutcome(m)
          /\ source' \in [Requests -> Models \cup {NoModel}]
          /\ \A q \in Requests \ {r} :
                pc'[q] = pc[q] /\ answer'[q] = answer[q] /\ source'[q] = source[q]
      BY <1>2, <1>3, <2>2, ReturnDoes
    <3>2. TypeOK'
      BY <1>1, <1>2, <1>4, <1>6, <2>1, <3>1 DEF TypeOK
    <3>3. \A q \in Requests \ {r} : Kept(q)
      BY <1>1, <1>6, <2>1, <3>1 DEF Kept
    <3>4. Knows(r)'
      BY <1>1, <1>2, <1>3, <2>1, <2>2, <3>1 DEF Knows, OwnsUp, Exhaustive, Logged, Lost
    <3>5. CacheHoldsAnswers'
      BY <1>1, <3>3, StillBacked DEF IInv
    <3> QED BY <3>2, <3>3, <3>4, <3>5, OneMoves DEF IInv
  <2>3. CASE ~sel[r].user_specified /\ Goto(r, "next") /\ UNCHANGED <<answer, source>>
    <3>1. /\ pc' \in [Requests -> Places] /\ pc'[r] = "next"
          /\ \A q \in Requests \ {r} : pc'[q] = pc[q]
      BY <1>2, <2>3, GotoDoes DEF Places
    <3>2. TypeOK'
      BY <1>1, <1>2, <1>4, <1>6, <2>1, <2>3, <3>1 DEF TypeOK
    <3>3. \A q \in Requests \ {r} : Kept(q)
      BY <1>1, <1>6, <2>1, <2>3, <3>1 DEF Kept
    <3>4. Knows(r)'
      BY <1>1, <1>2, <2>1, <2>3, <3>1 DEF Knows, Lost, LostBefore
    <3>5. CacheHoldsAnswers'
      BY <1>1, <3>3, StillBacked DEF IInv
    <3> QED BY <3>2, <3>3, <3>4, <3>5, OneMoves DEF IInv
  <2> QED BY <1>6, <2>2, <2>3
<1> QED BY <1>1, <1>5, <1>6

LEMMA CallSucceedsKeeps ==
  ASSUME IInv, NEW r \in Requests, CallSucceeds(r)
  PROVE  IInv'
<1> DEFINE m == at[r]
<1>1. /\ pc[r] = "calling" /\ UNCHANGED <<cache, sel, at, pos, answer, source, log>>
      /\ breakers' = [breakers EXCEPT ![m] = RecordSuccess(breakers[m])]
      /\ Note(r, m, Answered) /\ Goto(r, "store")
  BY DEF CallSucceeds
<1>2. TypeOK /\ log[r] = <<>> /\ InPlace(r) /\ m \in Models
      /\ sel[r] \in Selection /\ sel[r].primary \in Models
  BY <1>1 DEF IInv, KnowsInv, Knows, TypeOK, Selection
<1>3. breakers' \in [Models -> Breaker]
  <2>1. RecordSuccess(breakers[m]) \in Breaker
    BY <1>2, BreakerTypes DEF TypeOK
  <2> QED BY <1>1, <1>2, <2>1 DEF TypeOK
<1>4. /\ fate' \in [Requests -> [Models -> Fates]] /\ fate'[r][m] = Answered
      /\ \A n \in Models \ {m} : fate'[r][n] = fate[r][n]
      /\ \A q \in Requests \ {r} : fate'[q] = fate[q]
  BY <1>1, <1>2, NoteDoes DEF Fates
<1>5. /\ pc' \in [Requests -> Places] /\ pc'[r] = "store"
      /\ \A q \in Requests \ {r} : pc'[q] = pc[q]
  BY <1>1, <1>2, GotoDoes DEF Places
<1>6. TypeOK'
  BY <1>1, <1>2, <1>3, <1>4, <1>5 DEF TypeOK
<1>7. \A q \in Requests \ {r} : Kept(q)
  BY <1>1, <1>4, <1>5 DEF Kept
<1>8. Knows(r)'
  BY <1>1, <1>2, <1>4, <1>5 DEF Knows, InPlace, Lost
<1>9. CacheHoldsAnswers'
  BY <1>1, <1>7, StillBacked DEF IInv
<1> QED BY <1>6, <1>7, <1>8, <1>9, OneMoves DEF IInv

LEMMA CallFailsKeeps ==
  ASSUME IInv, NEW r \in Requests, CallFails(r)
  PROVE  IInv'
<1> DEFINE m == at[r]
<1>1. /\ pc[r] = "calling" /\ UNCHANGED <<cache, sel, at, pos>>
      /\ breakers' = [breakers EXCEPT ![m] = RecordFailure(breakers[m])]
      /\ Note(r, m, Failed)
      /\ \/ /\ sel[r].user_specified /\ Recorded(r, FailureOutcome(m))
            /\ Return(r, FailureOutcome(m), NoModel)
         \/ ~sel[r].user_specified /\ Goto(r, "next") /\ UNCHANGED <<answer, source, log>>
  BY DEF CallFails
<1>2. TypeOK /\ log[r] = <<>> /\ InPlace(r) /\ m \in Models
      /\ sel[r] \in Selection /\ sel[r].primary \in Models /\ pos[r] \in Nat \ {0}
  BY <1>1 DEF IInv, KnowsInv, Knows, TypeOK, Selection
<1>3. breakers' \in [Models -> Breaker]
  <2>1. RecordFailure(breakers[m]) \in Breaker
    BY <1>2, BreakerTypes DEF TypeOK
  <2> QED BY <1>1, <1>2, <2>1 DEF TypeOK
<1>4. /\ fate' \in [Requests -> [Models -> Fates]] /\ fate'[r][m] = Failed
      /\ \A n \in Models \ {m} : fate'[r][n] = fate[r][n]
      /\ \A q \in Requests \ {r} : fate'[q] = fate[q]
  BY <1>1, <1>2, NoteDoes DEF Fates
<1>5. FailureOutcome(m) \in Record /\ ~FailureOutcome(m).success
  BY <1>2, OutcomeType DEF FailureOutcome
<1>6. CASE /\ sel[r].user_specified /\ Recorded(r, FailureOutcome(m))
           /\ Return(r, FailureOutcome(m), NoModel)
  <2>1. /\ pc' \in [Requests -> Places] /\ pc'[r] = "done"
        /\ answer' \in [Requests -> Record] /\ answer'[r] = FailureOutcome(m)
        /\ source' \in [Requests -> Models \cup {NoModel}]
        /\ \A q \in Requests \ {r} :
              pc'[q] = pc[q] /\ answer'[q] = answer[q] /\ source'[q] = source[q]
    BY <1>2, <1>5, <1>6, ReturnDoes
  <2>2. /\ log' \in [Requests -> Seq(Record)] /\ log'[r] = <<FailureOutcome(m)>>
        /\ \A q \in Requests \ {r} : log'[q] = log[q]
    BY <1>2, <1>5, <1>6, RecordedDoes
  <2>3. TypeOK'
    BY <1>1, <1>2, <1>3, <1>4, <2>1, <2>2 DEF TypeOK
  <2>4. \A q \in Requests \ {r} : Kept(q)
    BY <1>1, <1>4, <2>1, <2>2 DEF Kept
  <2>5. m = sel[r].primary
    BY <1>2, <1>6 DEF InPlace
  <2>6. Knows(r)'
    BY <1>1, <1>4, <1>5, <1>6, <2>1, <2>2, <2>5 DEF Knows, OwnsUp, Exhaustive, Logged, Lost
  <2>7. CacheHoldsAnswers'
    BY <1>1, <2>4, StillBacked DEF IInv
  <2> QED BY <2>3, <2>4, <2>6, <2>7, OneMoves DEF IInv
<1>7. CASE ~sel[r].user_specified /\ Goto(r, "next") /\ UNCHANGED <<answer, source, log>>
  <2>1. /\ pc' \in [Requests -> Places] /\ pc'[r] = "next"
        /\ \A q \in Requests \ {r} : pc'[q] = pc[q]
    BY <1>2, <1>7, GotoDoes DEF Places
  <2>2. TypeOK'
    BY <1>1, <1>2, <1>3, <1>4, <1>7, <2>1 DEF TypeOK
  <2>3. \A q \in Requests \ {r} : Kept(q)
    BY <1>1, <1>4, <1>7, <2>1 DEF Kept
  <2>4. Chain(r) \in Seq(Models)
    BY <1>2 DEF Chain, Selection
  <2>5. \A n \in Models : Lost(r, n) => fate'[r][n] \in {Failed, Refused}
    BY <1>4 DEF Lost
  <2>6. fate'[r][sel[r].primary] \in {Failed, Refused}
    BY <1>2, <1>4, <2>5 DEF InPlace
  <2>7. \A i \in 1..Len(Chain(r)) : i < pos[r] /\ Chain(r)[i] \in Available =>
          fate'[r][Chain(r)[i]] \in {Failed, Refused}
    <3> SUFFICES ASSUME NEW i \in 1..Len(Chain(r)), i < pos[r], Chain(r)[i] \in Available
                 PROVE  fate'[r][Chain(r)[i]] \in {Failed, Refused}
      OBVIOUS
    <3>1. m # sel[r].primary
      BY <1>1, <1>2 DEF IInv, KnowsInv, Knows
    <3>2. /\ LostBefore(r, pos[r] - 1)
          /\ pos[r] - 1 \in 1..Len(Chain(r)) => m = Chain(r)[pos[r] - 1]
      BY <1>1, <3>1 DEF IInv, KnowsInv, Knows
    <3>3. CASE i = pos[r] - 1
      BY <1>4, <3>2, <3>3
    <3>4. CASE i # pos[r] - 1
      <4>0. i \in Int /\ pos[r] \in Int /\ i < pos[r]
        BY <1>2, <2>4
      <4>1. i < pos[r] - 1
        BY <3>4, <4>0
      <4>2. Lost(r, Chain(r)[i])
        BY <3>2, <4>1 DEF LostBefore
      <4> QED BY <2>5, <4>2
    <3> QED BY <3>3, <3>4
  <2>8. Knows(r)'
    BY <1>1, <1>2, <1>7, <2>1, <2>6, <2>7 DEF Knows, Lost, LostBefore, Chain
  <2>9. CacheHoldsAnswers'
    BY <1>1, <2>3, StillBacked DEF IInv
  <2> QED BY <2>2, <2>3, <2>8, <2>9, OneMoves DEF IInv
<1> QED BY <1>1, <1>6, <1>7

LEMMA TryFallbackKeeps ==
  ASSUME IInv, NEW r \in Requests, TryFallback(r)
  PROVE  IInv'
<1> DEFINE m == Chain(r)[pos[r]]
<1>1. /\ pc[r] = "next" /\ pos[r] <= Len(Chain(r))
      /\ pos' = [pos EXCEPT ![r] = pos[r] + 1]
      /\ UNCHANGED <<cache, sel, answer, source, log>>
      /\ \/ Passed(r, m) /\ UNCHANGED <<breakers, pc, at, fate>>
         \/ /\ ~Passed(r, m) /\ Ask(m)
            /\ \/ Note(r, m, Refused) /\ UNCHANGED <<pc, at>>
               \/ Call(r, m) /\ UNCHANGED fate
  BY DEF TryFallback
<1>2. /\ TypeOK /\ log[r] = <<>> /\ sel[r] \in Selection /\ pos[r] \in Nat \ {0}
      /\ Lost(r, sel[r].primary) /\ ~sel[r].user_specified /\ LostBefore(r, pos[r])
  BY <1>1 DEF IInv, KnowsInv, Knows, TypeOK
<1>3. Chain(r) \in Seq(Models)
  BY <1>2 DEF Chain, Selection
<1>4. pos[r] \in 1..Len(Chain(r)) /\ m \in Models
  BY <1>1, <1>2, <1>3
<1>5. /\ pos' \in [Requests -> Nat \ {0}] /\ pos'[r] = pos[r] + 1 /\ pos'[r] - 1 = pos[r]
      /\ \A q \in Requests \ {r} : pos'[q] = pos[q]
  BY <1>1, <1>2 DEF TypeOK
<1>6. \A i \in 1..Len(Chain(r)) : i < pos[r] + 1 => i < pos[r] \/ i = pos[r]
  BY <1>2, <1>3
<1>7. CASE Passed(r, m) /\ UNCHANGED <<breakers, pc, at, fate>>
  <2>1. TypeOK'
    BY <1>1, <1>2, <1>5, <1>7 DEF TypeOK
  <2>2. \A q \in Requests \ {r} : Kept(q)
    BY <1>1, <1>5, <1>7 DEF Kept
  <2>3. m \in Available => Lost(r, m)
    BY <1>2, <1>7 DEF Passed
  <2>4. LostBefore(r, pos[r] + 1)
    BY <1>2, <1>6, <2>3 DEF LostBefore
  <2>5. Knows(r)'
    BY <1>1, <1>2, <1>5, <1>7, <2>4 DEF Knows, Lost, LostBefore, Chain
  <2>6. CacheHoldsAnswers'
    BY <1>1, <2>2, StillBacked DEF IInv
  <2> QED BY <2>1, <2>2, <2>5, <2>6, OneMoves DEF IInv
<1>8. CASE Ask(m) /\ Note(r, m, Refused) /\ UNCHANGED <<pc, at>>
  <2>1. breakers' \in [Models -> Breaker]
    BY <1>2, <1>4, <1>8, AskDoes
  <2>2. /\ fate' \in [Requests -> [Models -> Fates]] /\ fate'[r][m] = Refused
        /\ \A n \in Models \ {m} : fate'[r][n] = fate[r][n]
        /\ \A q \in Requests \ {r} : fate'[q] = fate[q]
    BY <1>2, <1>4, <1>8, NoteDoes DEF Fates
  <2>3. TypeOK'
    BY <1>1, <1>2, <1>5, <1>8, <2>1, <2>2 DEF TypeOK
  <2>4. \A q \in Requests \ {r} : Kept(q)
    BY <1>1, <1>5, <1>8, <2>2 DEF Kept
  <2>5. \A n \in Models : Lost(r, n) => fate'[r][n] \in {Failed, Refused}
    BY <2>2 DEF Lost
  <2>6. fate'[r][sel[r].primary] \in {Failed, Refused}
    BY <1>2, <2>5 DEF Selection
  <2>7. \A i \in 1..Len(Chain(r)) : i < pos[r] + 1 /\ Chain(r)[i] \in Available =>
          fate'[r][Chain(r)[i]] \in {Failed, Refused}
    BY <1>2, <1>3, <1>6, <2>2, <2>5 DEF LostBefore
  <2>8. Knows(r)'
    BY <1>1, <1>2, <1>5, <1>8, <2>6, <2>7 DEF Knows, Lost, LostBefore, Chain
  <2>9. CacheHoldsAnswers'
    BY <1>1, <2>4, StillBacked DEF IInv
  <2> QED BY <2>3, <2>4, <2>8, <2>9, OneMoves DEF IInv
<1>9. CASE ~Passed(r, m) /\ Ask(m) /\ Call(r, m) /\ UNCHANGED fate
  <2>1. breakers' \in [Models -> Breaker]
    BY <1>2, <1>4, <1>9, AskDoes
  <2>2. /\ pc' \in [Requests -> Places] /\ pc'[r] = "calling"
        /\ at' \in [Requests -> Models \cup {NoModel}] /\ at'[r] = m
        /\ \A q \in Requests \ {r} : pc'[q] = pc[q] /\ at'[q] = at[q]
    BY <1>2, <1>4, <1>9, CallDoes
  <2>3. TypeOK'
    BY <1>1, <1>2, <1>4, <1>5, <1>9, <2>1, <2>2 DEF TypeOK
  <2>4. \A q \in Requests \ {r} : Kept(q)
    BY <1>1, <1>5, <1>9, <2>2 DEF Kept
  <2>5. m # sel[r].primary
    BY <1>9 DEF Passed
  <2>6. Knows(r)'
    BY <1>1, <1>2, <1>5, <1>9, <2>2, <2>5 DEF Knows, InPlace, Lost, LostBefore, Chain
  <2>7. CacheHoldsAnswers'
    BY <1>1, <2>4, StillBacked DEF IInv
  <2> QED BY <2>3, <2>4, <2>6, <2>7, OneMoves DEF IInv
<1> QED BY <1>1, <1>7, <1>8, <1>9

LEMMA GiveUpKeeps ==
  ASSUME IInv, NEW r \in Requests, GiveUp(r)
  PROVE  IInv'
<1> DEFINE m == sel[r].primary
           o == FailureOutcome(m)
<1>1. /\ pc[r] = "next" /\ pos[r] > Len(Chain(r)) /\ Return(r, o, NoModel)
      /\ \/ fate[r][m] = Failed /\ Recorded(r, o)
         \/ fate[r][m] = Refused /\ UNCHANGED log
      /\ UNCHANGED <<breakers, cache, sel, at, pos, fate>>
  BY DEF GiveUp
<1>2. /\ TypeOK /\ log[r] = <<>> /\ sel[r] \in Selection /\ m \in Models
      /\ pos[r] \in Nat \ {0}
      /\ Lost(r, m) /\ LostBefore(r, pos[r])
  BY <1>1 DEF IInv, KnowsInv, Knows, TypeOK, Selection
<1>3. o \in Record /\ ~o.success
  BY <1>2, OutcomeType DEF FailureOutcome
<1>4. /\ pc' \in [Requests -> Places] /\ pc'[r] = "done"
      /\ answer' \in [Requests -> Record] /\ answer'[r] = o
      /\ source' \in [Requests -> Models \cup {NoModel}]
      /\ \A q \in Requests \ {r} :
            pc'[q] = pc[q] /\ answer'[q] = answer[q] /\ source'[q] = source[q]
  BY <1>1, <1>2, <1>3, ReturnDoes
<1>5. /\ log' \in [Requests -> Seq(Record)]
      /\ \A q \in Requests \ {r} : log'[q] = log[q]
      /\ log'[r] = <<o>> \/ (log'[r] = <<>> /\ fate[r][m] = Refused)
  BY <1>1, <1>2, <1>3, RecordedDoes DEF TypeOK
<1>6. TypeOK'
  BY <1>1, <1>2, <1>4, <1>5 DEF TypeOK
<1>7. \A q \in Requests \ {r} : Kept(q)
  BY <1>1, <1>4, <1>5 DEF Kept
<1>8. LostBefore(r, Len(Chain(r)) + 1)
  <2>1. Chain(r) \in Seq(Models)
    BY <1>2 DEF Chain, Selection
  <2>2. \A i \in 1..Len(Chain(r)) : i < pos[r]
    BY <1>1, <1>2, <2>1
  <2> QED BY <1>2, <2>2 DEF LostBefore
<1> HIDE DEF o
<1>9. Knows(r)'
  <2>1. Exhaustive(r)'
    BY <1>1, <1>2, <1>8 DEF Exhaustive, Lost, LostBefore, Chain
  <2>2. OwnsUp(r)' /\ Logged(r)'
    BY <1>1, <1>3, <1>4, <1>5 DEF OwnsUp, Logged
  <2> QED BY <1>4, <2>1, <2>2 DEF Knows
<1>10. CacheHoldsAnswers'
  BY <1>1, <1>7, StillBacked DEF IInv
<1> QED BY <1>6, <1>7, <1>9, <1>10, OneMoves DEF IInv

LEMMA StoreKeeps ==
  ASSUME IInv, NEW r \in Requests, Store(r)
  PROVE  IInv'
<1> DEFINE m == at[r]
           o == Outcome(TRUE, m, m # sel[r].primary, FALSE)
<1>1. /\ pc[r] = "store" /\ Recorded(r, o) /\ Return(r, o, m)
      /\ UNCHANGED <<breakers, sel, at, pos, fate>>
      /\ \/ cache' = [cache EXCEPT ![Key(r)] = Entry(m)]
         \/ UNCHANGED cache
  BY DEF Store
<1>2. /\ TypeOK /\ log[r] = <<>> /\ sel[r] \in Selection /\ m \in Models
      /\ InPlace(r) /\ fate[r][m] = Answered
  BY <1>1 DEF IInv, KnowsInv, Knows, TypeOK
<1>3. /\ o \in Record /\ o.success /\ o.model = m /\ ~o.cache_hit
      /\ o.fallback_used <=> m # sel[r].primary
  BY <1>2, OutcomeType
<1> HIDE DEF o
<1>4. /\ pc' \in [Requests -> Places] /\ pc'[r] = "done"
      /\ answer' \in [Requests -> Record] /\ answer'[r] = o
      /\ source' \in [Requests -> Models \cup {NoModel}] /\ source'[r] = m
      /\ \A q \in Requests \ {r} :
            pc'[q] = pc[q] /\ answer'[q] = answer[q] /\ source'[q] = source[q]
  BY <1>1, <1>2, <1>3, ReturnDoes
<1>5. /\ log' \in [Requests -> Seq(Record)] /\ log'[r] = <<o>>
      /\ \A q \in Requests \ {r} : log'[q] = log[q]
  BY <1>1, <1>2, <1>3, RecordedDoes
<1>6. Key(r) \in Keys /\ Entry(m) \in Entries /\ Entry(m).by = m
  BY <1>2 DEF Key, Keys, Selection, Entry, Entries
<1>7. cache' \in [Keys -> Entries]
  <2>1. cache \in [Keys -> Entries]
    BY <1>2 DEF TypeOK
  <2>2. CASE UNCHANGED cache
    BY <2>1, <2>2
  <2>3. CASE cache' = [cache EXCEPT ![Key(r)] = Entry(m)]
    <3> HIDE DEF m, o
    <3> QED BY <1>6, <2>1, <2>3
  <2> QED BY <1>1, <2>2, <2>3
<1>8. TypeOK'
  BY <1>1, <1>2, <1>4, <1>5, <1>7 DEF TypeOK
<1>9. \A q \in Requests \ {r} : Kept(q)
  BY <1>1, <1>4, <1>5 DEF Kept
<1>10. Knows(r)'
  BY <1>1, <1>2, <1>3, <1>4, <1>5 DEF Knows, OwnsUp, Exhaustive, Logged, InPlace, Lost
<1>11. CacheHoldsAnswers'
  <2>1. CASE UNCHANGED cache
    BY <1>1, <1>9, <2>1, StillBacked DEF IInv
  <2>2. CASE cache' = [cache EXCEPT ![Key(r)] = Entry(m)]
    <3> SUFFICES ASSUME NEW k \in Keys, cache'[k] # NoEntry
                 PROVE  \E q \in Requests :
                          Key(q)' = k /\ Done(q)' /\ fate'[q][cache'[k].by] = Answered
      BY DEF CacheHoldsAnswers
    <3>1. CASE k = Key(r)
      <4>1. cache'[k].by = m
        BY <1>2, <1>6, <2>2, <3>1 DEF TypeOK
      <4> QED BY <1>1, <1>2, <1>4, <3>1, <4>1 DEF Key, Done
    <3>2. CASE k # Key(r)
      <4>1. cache'[k] = cache[k]
        BY <1>2, <2>2, <3>2 DEF TypeOK
      <4>2. PICK q \in Requests : Key(q) = k /\ Done(q) /\ fate[q][cache[k].by] = Answered
        BY <4>1 DEF IInv, CacheHoldsAnswers
      <4>3. q # r
        BY <1>1, <4>2 DEF Done
      <4> QED BY <1>9, <4>1, <4>2, <4>3 DEF Kept, Key, Done
    <3> QED BY <3>1, <3>2
  <2> QED BY <1>1, <2>1, <2>2
<1> QED BY <1>8, <1>9, <1>10, <1>11, OneMoves DEF IInv

-----------------------------------------------------------------------------
(* The operator, the clock, and the theorems                               *)

(* What changes breakers and entries, and no request, and only removes     *)
(* entries, keeps the invariant.                                           *)
LEMMA OperatorKeeps ==
  ASSUME IInv, UNCHANGED local,
         breakers' \in [Models -> Breaker],
         cache' \in [Keys -> Entries],
         \A k \in Keys : cache'[k] = cache[k] \/ cache'[k] = NoEntry
  PROVE  IInv'
<1>1. TypeOK'
  BY DEF IInv, TypeOK, local
<1>2. \A q \in Requests : Kept(q)
  BY DEF Kept, local
<1>3. KnowsInv'
  BY <1>2, KeptKnows DEF IInv, KnowsInv
<1>4. CacheHoldsAnswers'
  BY DEF IInv, CacheHoldsAnswers, local, Key, Done
<1> QED BY <1>1, <1>3, <1>4 DEF IInv

LEMMA OperateKeeps == ASSUME IInv, Operate \/ Tick PROVE IInv'
<1>0. /\ breakers \in [Models -> Breaker] /\ cache \in [Keys -> Entries]
      /\ NoEntry \in Entries
  BY DEF IInv, TypeOK, NoEntry, Entries
<1>1. ASSUME NEW m \in Models, ResetModel(m) PROVE IInv'
  <2>1. breakers' \in [Models -> Breaker]
    BY <1>0, <1>1, BreakerTypes DEF ResetModel
  <2> QED BY <1>0, <1>1, <2>1, OperatorKeeps DEF ResetModel
<1>2. ASSUME NEW m \in Models, ReadStatus(m) PROVE IInv'
  <2>1. breakers' \in [Models -> Breaker]
    BY <1>2, AskDoes DEF ReadStatus, IInv
  <2> QED BY <1>0, <1>2, <2>1, OperatorKeeps DEF ReadStatus
<1>3. ASSUME NEW m \in Models, InvalidateModel(m) PROVE IInv'
  BY <1>0, <1>3, OperatorKeeps DEF InvalidateModel, Without
<1>4. CASE InvalidateAll
  BY <1>0, <1>4, OperatorKeeps DEF InvalidateAll
<1>5. ASSUME NEW k \in Keys, Expire(k) PROVE IInv'
  BY <1>0, <1>5, OperatorKeeps DEF Expire
<1>6. CASE Tick
  <2>1. breakers' \in [Models -> Breaker]
    BY <1>0, <1>6, BreakerTypes DEF Tick
  <2> QED BY <1>0, <1>6, <2>1, OperatorKeeps DEF Tick
<1> QED BY <1>1, <1>2, <1>3, <1>4, <1>5, <1>6 DEF Operate

LEMMA InitIInv == ASSUME Init PROVE IInv
<1>1. TypeOK
  <2>1. NewBreaker \in Breaker
    BY ThresholdAssumption, RecoveryAssumption, HalfOpenAssumption
       DEF NewBreaker, Breaker, CircuitState, Closed, Ages, NoFailure
  <2>2. NoEntry \in Entries /\ NoAnswer \in Record
    BY OutcomeType DEF NoEntry, Entries, NoAnswer
  <2> QED BY <2>1, <2>2 DEF Init, TypeOK, Places, Fates
<1>2. KnowsInv
  BY DEF Init, KnowsInv, Knows, Unspoilt
<1>3. CacheHoldsAnswers
  BY DEF Init, CacheHoldsAnswers
<1> QED BY <1>1, <1>2, <1>3 DEF IInv

LEMMA NextIInv == ASSUME IInv, [Next]_vars PROVE IInv'
<1>1. ASSUME NEW r \in Requests, Arrive(r) PROVE IInv'
  BY <1>1, ArriveKeeps
<1>2. ASSUME NEW r \in Requests, Proceed(r) PROVE IInv'
  BY <1>2, LookupKeeps, AdmitKeeps, CallSucceedsKeeps, CallFailsKeeps, TryFallbackKeeps,
     GiveUpKeeps, StoreKeeps DEF Proceed
<1>3. CASE Operate \/ Tick
  BY <1>3, OperateKeeps
<1>4. CASE UNCHANGED vars
  <2>1. /\ UNCHANGED local /\ breakers' = breakers /\ cache' = cache
    BY <1>4 DEF vars, local
  <2> QED BY <2>1, OperatorKeeps DEF IInv, TypeOK
<1> QED BY <1>1, <1>2, <1>3, <1>4 DEF Next

LEMMA Invariant == Spec => []IInv
<1>1. Init => IInv
  BY InitIInv
<1>2. IInv /\ [Next]_vars => IInv'
  BY NextIInv
<1> QED BY <1>1, <1>2, PTL DEF Spec

(* The variables keep their types, for every set of requests and models,   *)
(* every route and every chain.                                            *)
THEOREM TypeCorrect == Spec => []TypeOK
<1>1. IInv => TypeOK
  BY DEF IInv
<1> QED BY <1>1, Invariant, PTL

(* An answer that is not cached comes from the model it names, and a       *)
(* fallback's is marked as such (Coordinator.ask, _try_fallbacks).         *)
THEOREM AnswersOwnUp == Spec => []AnswerOwnsUp
<1>1. IInv => AnswerOwnsUp
  BY DEF IInv, KnowsInv, Knows, OwnsUp, AnswerOwnsUp, Done
<1> QED BY <1>1, Invariant, PTL

(* A request fails only when the selected model and, unless the caller had *)
(* named it, every fallback on offer failed or refused.                    *)
THEOREM FailuresAreExhaustive == Spec => []FailureIsExhaustive
<1>1. IInv => FailureIsExhaustive
  <2> SUFFICES ASSUME IInv, NEW r \in Requests, Done(r), ~answer[r].success, ~TurnedAway(r)
               PROVE  /\ fate[r][sel[r].primary] \in {Failed, Refused}
                      /\ ~sel[r].user_specified =>
                           \A i \in 1..Len(Chain(r)) :
                             Chain(r)[i] \in Available =>
                               fate[r][Chain(r)[i]] \in {Failed, Refused}
    BY DEF FailureIsExhaustive
  <2>1. Exhaustive(r) /\ sel[r] \in Selection
    BY DEF IInv, KnowsInv, Knows, Done, TypeOK
  <2>2. ~Unspoilt(r)
    BY DEF TurnedAway, Unspoilt
  <2>3. Chain(r) \in Seq(Models)
    BY <2>1 DEF Chain, Selection
  <2>4. \A i \in 1..Len(Chain(r)) : i < Len(Chain(r)) + 1
    BY <2>3
  <2> QED BY <2>1, <2>2, <2>4 DEF Exhaustive, Lost, LostBefore
<1> QED BY <1>1, Invariant, PTL

(* What is cached under a key was given to a request for that key by the   *)
(* model that the entry came from, clean-ups and invalidations included.   *)
THEOREM CachedAnswersAreReal == Spec => []CacheHoldsAnswers
<1>1. IInv => CacheHoldsAnswers
  BY DEF IInv
<1> QED BY <1>1, Invariant, PTL

(* Each outcome is recorded once, as the caller saw it.                    *)
THEOREM OutcomesAreRecordedOnce == Spec => []RecordedOnce
<1>1. IInv => RecordedOnce
  BY DEF IInv, KnowsInv, Knows, Logged, Unspoilt, RecordedOnce, Done, TurnedAway
<1> QED BY <1>1, Invariant, PTL

-----------------------------------------------------------------------------
(* What the steps may never do to a circuit                                *)

Ended(m, f) ==
    \E r \in Requests : pc[r] = "calling" /\ at[r] = m /\ pc'[r] # "calling" /\ fate'[r][m] = f

(* Whatever changes a breaker is a look, the clock, a reset, or a call of  *)
(* its own model that ended.                                               *)
LEMMA BreakerStep ==
  ASSUME IInv, [Next]_vars, NEW m \in Models
  PROVE  \/ breakers'[m] = breakers[m]
         \/ breakers'[m] = Look(breakers[m])
         \/ breakers'[m] = Older(breakers[m])
         \/ breakers'[m] = NewBreaker
         \/ breakers'[m] = RecordSuccess(breakers[m]) /\ Ended(m, Answered)
         \/ breakers'[m] = RecordFailure(breakers[m]) /\ Ended(m, Failed)
<1> DEFINE P == \/ breakers'[m] = breakers[m]
                \/ breakers'[m] = Look(breakers[m])
                \/ breakers'[m] = Older(breakers[m])
                \/ breakers'[m] = NewBreaker
                \/ breakers'[m] = RecordSuccess(breakers[m]) /\ Ended(m, Answered)
                \/ breakers'[m] = RecordFailure(breakers[m]) /\ Ended(m, Failed)
<1>0. breakers \in [Models -> Breaker] /\ TypeOK
  BY DEF IInv, TypeOK
<1>1. ASSUME NEW n \in Models, Ask(n) PROVE P
  BY <1>0, <1>1 DEF Ask
<1>2. CASE UNCHANGED breakers
  BY <1>2
<1>3. ASSUME NEW r \in Requests, Arrive(r) \/ Lookup(r) \/ GiveUp(r) \/ Store(r) PROVE P
  BY <1>2, <1>3 DEF Arrive, Lookup, GiveUp, Store
<1>4. ASSUME NEW r \in Requests, Admit(r) PROVE P
  <2>1. sel[r].primary \in Models /\ Ask(sel[r].primary)
    BY <1>4 DEF Admit, IInv, TypeOK, Selection
  <2> QED BY <1>1, <2>1
<1>5. ASSUME NEW r \in Requests, TryFallback(r) PROVE P
  <2>1. sel[r] \in Selection /\ pos[r] \in Nat \ {0} /\ pos[r] <= Len(Chain(r))
    BY <1>5 DEF TryFallback, IInv, TypeOK
  <2>2. Chain(r) \in Seq(Models)
    BY <2>1 DEF Chain, Selection
  <2>3. Chain(r)[pos[r]] \in Models
    BY <2>1, <2>2
  <2>4. Ask(Chain(r)[pos[r]]) \/ UNCHANGED breakers
    BY <1>5 DEF TryFallback
  <2> QED BY <1>1, <1>2, <2>3, <2>4
<1>6. ASSUME NEW r \in Requests, CallSucceeds(r) PROVE P
  <2>1. at[r] \in Models /\ pc[r] = "calling" /\ Note(r, at[r], Answered) /\ Goto(r, "store")
        /\ breakers' = [breakers EXCEPT ![at[r]] = RecordSuccess(breakers[at[r]])]
    BY <1>6 DEF CallSucceeds, IInv, TypeOK
  <2>2. fate'[r][at[r]] = Answered
    BY <1>0, <2>1, NoteDoes DEF Fates
  <2>3. pc'[r] = "store"
    BY <1>0, <2>1, GotoDoes DEF Places
  <2>4. CASE at[r] = m
    BY <1>0, <2>1, <2>2, <2>3, <2>4 DEF Ended
  <2>5. CASE at[r] # m
    BY <1>0, <2>1, <2>5
  <2> QED BY <2>4, <2>5
<1>7. ASSUME NEW r \in Requests, CallFails(r) PROVE P
  <2>1. at[r] \in Models /\ pc[r] = "calling" /\ Note(r, at[r], Failed)
        /\ (Goto(r, "done") \/ Goto(r, "next"))
        /\ breakers' = [breakers EXCEPT ![at[r]] = RecordFailure(breakers[at[r]])]
    BY <1>7 DEF CallFails, IInv, TypeOK, Return
  <2>2. fate'[r][at[r]] = Failed
    BY <1>0, <2>1, NoteDoes DEF Fates
  <2>3. pc'[r] # "calling"
    BY <1>0, <2>1, GotoDoes DEF Places
  <2>4. CASE at[r] = m
    BY <1>0, <2>1, <2>2, <2>3, <2>4 DEF Ended
  <2>5. CASE at[r] # m
    BY <1>0, <2>1, <2>5
  <2> QED BY <2>4, <2>5
<1>8. CASE Operate
  <2>1. ASSUME NEW n \in Models, ResetModel(n) PROVE P
    BY <1>0, <2>1 DEF ResetModel, Reset
  <2>2. ASSUME NEW n \in Models, ReadStatus(n) PROVE P
    BY <1>1, <2>2 DEF ReadStatus
  <2>3. ASSUME NEW n \in Models, InvalidateModel(n) PROVE P
    BY <2>3 DEF InvalidateModel
  <2>4. CASE InvalidateAll
    BY <2>4 DEF InvalidateAll
  <2>5. ASSUME NEW k \in Keys, Expire(k) PROVE P
    BY <2>5 DEF Expire
  <2> QED BY <1>8, <2>1, <2>2, <2>3, <2>4, <2>5 DEF Operate
<1>9. CASE Tick
  BY <1>0, <1>9 DEF Tick
<1>10. CASE UNCHANGED vars
  BY <1>10 DEF vars
<1> QED BY <1>3, <1>4, <1>5, <1>6, <1>7, <1>8, <1>9, <1>10 DEF Next, Proceed

(* A circuit opens only on a failed call of its own model and closes only  *)
(* on a successful one or by a reset, whatever other requests do.          *)
THEOREM VerdictsAreTheirOwn == Spec => VerdictIsItsOwn
<1>1. ASSUME IInv, [Next]_vars
      PROVE  \A m \in Models :
               LET ended(f) == \E r \in Requests :
                       pc[r] = "calling" /\ at[r] = m /\ pc'[r] # "calling" /\ fate'[r][m] = f
               IN  /\ breakers[m].state # Open /\ breakers'[m].state = Open => ended(Failed)
                   /\ breakers[m].state # Closed /\ breakers'[m].state = Closed =>
                        ended(Answered) \/ breakers'[m] = NewBreaker
  <2> SUFFICES ASSUME NEW m \in Models
               PROVE  /\ breakers[m].state # Open /\ breakers'[m].state = Open => Ended(m, Failed)
                      /\ breakers[m].state # Closed /\ breakers'[m].state = Closed =>
                           Ended(m, Answered) \/ breakers'[m] = NewBreaker
    BY DEF Ended
  <2>1. breakers[m] \in Breaker
    BY <1>1 DEF IInv, TypeOK
  <2>2. Open # Closed
    BY DEF Open, Closed
  <2> QED BY <1>1, <2>1, <2>2, BreakerStep, BreakerMoves
<1> QED BY <1>1, Invariant, PTL DEF Spec, VerdictIsItsOwn

(* No request starts to call a model whose circuit stays open.             *)
THEOREM OpenCircuitsAreLeftAlone == Spec => OpenIsLeftAlone
<1>1. ASSUME IInv, [Next]_vars
      PROVE  \A m \in Models : breakers[m].state = Open /\ breakers'[m].state = Open =>
               {r \in Requests : pc'[r] = "calling" /\ at'[r] = m} \subseteq
               {r \in Requests : pc[r] = "calling" /\ at[r] = m}
  <2> SUFFICES ASSUME NEW m \in Models, breakers'[m].state = Open,
                      NEW q \in Requests, pc'[q] = "calling", at'[q] = m
               PROVE  pc[q] = "calling" /\ at[q] = m
    OBVIOUS
  <2>0. TypeOK
    BY <1>1 DEF IInv
  <2>1. ASSUME NEW r \in Requests, NEW n \in Models, Call(r, n), breakers'[n].state # Open
        PROVE  pc[q] = "calling" /\ at[q] = m
    BY <2>0, <2>1, CallDoes
  <2>2. CASE pc'[q] = pc[q] /\ at'[q] = at[q]
    BY <2>2
  <2>3. ASSUME NEW r \in Requests, NEW place \in Places \ {"calling"}, Goto(r, place), UNCHANGED at
        PROVE  pc[q] = "calling" /\ at[q] = m
    BY <2>0, <2>3, GotoDoes
  <2>4. ASSUME NEW r \in Requests, Arrive(r) PROVE pc[q] = "calling" /\ at[q] = m
    BY <2>3, <2>4 DEF Arrive, Return, Places
  <2>5. ASSUME NEW r \in Requests, Lookup(r) PROVE pc[q] = "calling" /\ at[q] = m
    BY <2>3, <2>5 DEF Lookup, Return, Places
  <2>6. ASSUME NEW r \in Requests, Admit(r) PROVE pc[q] = "calling" /\ at[q] = m
    <3>1. sel[r].primary \in Models
      BY <2>0, <2>6 DEF Admit, TypeOK, Selection
    <3> QED BY <2>1, <2>3, <2>6, <3>1 DEF Admit, Return, Places
  <2>7. ASSUME NEW r \in Requests, CallSucceeds(r) PROVE pc[q] = "calling" /\ at[q] = m
    BY <2>3, <2>7 DEF CallSucceeds, Places
  <2>8. ASSUME NEW r \in Requests, CallFails(r) PROVE pc[q] = "calling" /\ at[q] = m
    BY <2>3, <2>8 DEF CallFails, Return, Places
  <2>9. ASSUME NEW r \in Requests, TryFallback(r) PROVE pc[q] = "calling" /\ at[q] = m
    <3>1. sel[r] \in Selection /\ pos[r] \in Nat \ {0} /\ pos[r] <= Len(Chain(r))
      BY <2>0, <2>9 DEF TryFallback, TypeOK
    <3>2. Chain(r) \in Seq(Models)
      BY <3>1 DEF Chain, Selection
    <3>3. Chain(r)[pos[r]] \in Models
      BY <3>1, <3>2
    <3> QED BY <2>1, <2>2, <2>9, <3>3 DEF TryFallback
  <2>10. ASSUME NEW r \in Requests, GiveUp(r) \/ Store(r) PROVE pc[q] = "calling" /\ at[q] = m
    BY <2>3, <2>10 DEF GiveUp, Store, Return, Places
  <2>11. CASE Operate
    BY <2>2, <2>11 DEF Operate, ResetModel, ReadStatus, InvalidateModel, InvalidateAll, Expire, local
  <2>12. CASE Tick \/ UNCHANGED vars
    BY <2>2, <2>12 DEF Tick, local, vars
  <2> QED BY <1>1, <2>4, <2>5, <2>6, <2>7, <2>8, <2>9, <2>10, <2>11, <2>12 DEF Next, Proceed
<1> QED BY <1>1, Invariant, PTL DEF Spec, OpenIsLeftAlone

-----------------------------------------------------------------------------
(* The fail-over: what each step does to the request that takes it, to     *)
(* what is cached and to nobody else.                                      *)

OnlyFor(r) == \A q \in Requests \ {r} : Kept(q)

LEMMA ArriveDoes ==
  ASSUME IInv, NEW r \in Requests, Arrive(r)
  PROVE  /\ OnlyFor(r) /\ pc[r] = "new"
         /\ UNCHANGED <<cache, at, pos, fate>>
         /\ sel'[r] \in Selection
         /\ sel'[r].user_specified \/ sel'[r].primary = Route[sel'[r].task]
         /\ \/ /\ pc'[r] = "lookup" /\ answer'[r] = answer[r] /\ source'[r] = source[r]
               /\ sel'[r].user_specified => sel'[r].primary \in Available
            \/ /\ pc'[r] = "done" /\ source'[r] = NoModel
               /\ answer'[r] = FailureOutcome(IF sel'[r].user_specified
                                              THEN sel'[r].primary ELSE NoModel)
<1>1. PICK e \in Models \cup {NoModel}, t \in Tasks, p \in Prompts, stream \in BOOLEAN :
        LET s == SelectModel(e, t, p)
            turned_away == stream \/ (s.user_specified /\ s.primary \notin Available)
        IN  /\ sel' = [sel EXCEPT ![r] = s]
            /\ \/ turned_away
                  /\ Return(r, FailureOutcome(e), NoModel)
               \/ ~turned_away
                  /\ Goto(r, "lookup")
                  /\ UNCHANGED <<answer, source>>
  BY DEF Arrive
<1> DEFINE s == SelectModel(e, t, p)
<1>2. sel' = [sel EXCEPT ![r] = s] /\ s \in Selection
  BY <1>1, SelectType
<1>3. \/ Return(r, FailureOutcome(e), NoModel)
      \/ /\ Goto(r, "lookup") /\ UNCHANGED <<answer, source>>
         /\ s.user_specified => s.primary \in Available
  BY <1>1
<1>4. /\ s.user_specified \/ s.primary = Route[s.task]
      /\ e = IF s.user_specified THEN s.primary ELSE NoModel
  BY DEF SelectModel
<1> HIDE DEF s
<1>5. pc[r] = "new" /\ UNCHANGED <<cache, at, pos, fate, log>>
  BY DEF Arrive
<1>6. OnlyFor(r)
  BY <1>2, <1>3, <1>5 DEF IInv, TypeOK, Return, Goto, Kept, OnlyFor
<1>7. sel'[r] = s
  BY <1>2 DEF IInv, TypeOK
<1> QED BY <1>2, <1>3, <1>4, <1>5, <1>6, <1>7 DEF IInv, TypeOK, Return, Goto

LEMMA LookupDoes ==
  ASSUME IInv, NEW r \in Requests, Lookup(r)
  PROVE  /\ OnlyFor(r) /\ pc[r] = "lookup"
         /\ UNCHANGED <<cache, sel, at, pos, fate>>
         /\ \/ pc'[r] = "admit" /\ answer'[r] = answer[r] /\ source'[r] = source[r]
            \/ /\ pc'[r] = "done" /\ CacheEnabled /\ cache[Key(r)] # NoEntry
               /\ answer'[r] = Outcome(TRUE, sel[r].primary, FALSE, TRUE)
               /\ source'[r] = cache[Key(r)].by
<1> DEFINE hit == Outcome(TRUE, sel[r].primary, FALSE, TRUE)
           by  == cache[Key(r)].by
<1>1. /\ pc[r] = "lookup" /\ UNCHANGED <<cache, sel, at, pos, fate>>
      /\ \/ /\ Recorded(r, hit) /\ Return(r, hit, by)
            /\ CacheEnabled /\ cache[Key(r)] # NoEntry
         \/ Goto(r, "admit") /\ UNCHANGED <<answer, source, log>>
  BY DEF Lookup
<1> HIDE DEF hit, by
<1>2. OnlyFor(r)
  BY <1>1 DEF IInv, TypeOK, Return, Goto, Recorded, Kept, OnlyFor
<1>3. \/ pc'[r] = "admit" /\ answer'[r] = answer[r] /\ source'[r] = source[r]
      \/ /\ pc'[r] = "done" /\ CacheEnabled /\ cache[Key(r)] # NoEntry
         /\ answer'[r] = hit /\ source'[r] = by
  BY <1>1 DEF IInv, TypeOK, Return, Goto
<1> QED BY <1>1, <1>2, <1>3 DEF hit, by

LEMMA AdmitDoes ==
  ASSUME IInv, NEW r \in Requests, Admit(r)
  PROVE  /\ OnlyFor(r) /\ pc[r] = "admit"
         /\ UNCHANGED <<cache, sel, pos>>
         /\ \/ /\ pc'[r] = "calling" /\ at'[r] = sel[r].primary /\ fate'[r] = fate[r]
               /\ answer'[r] = answer[r] /\ source'[r] = source[r]
            \/ /\ fate'[r] = [fate[r] EXCEPT ![sel[r].primary] = Refused]
               /\ \/ /\ pc'[r] = "next" /\ ~sel[r].user_specified
                     /\ answer'[r] = answer[r] /\ source'[r] = source[r]
                  \/ /\ pc'[r] = "done" /\ sel[r].user_specified
                     /\ answer'[r] = FailureOutcome(sel[r].primary) /\ source'[r] = NoModel
<1> DEFINE m == sel[r].primary
           o == FailureOutcome(m)
<1>1. /\ pc[r] = "admit" /\ UNCHANGED <<cache, sel, pos, log>>
      /\ \/ Call(r, m) /\ UNCHANGED <<fate, answer, source>>
         \/ /\ Note(r, m, Refused) /\ UNCHANGED at
            /\ \/ sel[r].user_specified /\ Return(r, o, NoModel)
               \/ ~sel[r].user_specified /\ Goto(r, "next") /\ UNCHANGED <<answer, source>>
  BY DEF Admit
<1> HIDE DEF m, o
<1>2. OnlyFor(r)
  BY <1>1 DEF IInv, TypeOK, Call, Return, Goto, Note, Kept, OnlyFor
<1>3. CASE Call(r, m) /\ UNCHANGED <<fate, answer, source>>
  <2>1. pc'[r] = "calling" /\ at'[r] = m
    BY <1>3 DEF IInv, TypeOK, Call, Goto
  <2> QED BY <1>1, <1>2, <1>3, <2>1 DEF m
<1>4. CASE /\ Note(r, m, Refused)
           /\ \/ sel[r].user_specified /\ Return(r, o, NoModel)
              \/ ~sel[r].user_specified /\ Goto(r, "next") /\ UNCHANGED <<answer, source>>
  <2>1. fate'[r] = [fate[r] EXCEPT ![m] = Refused]
    BY <1>4 DEF IInv, TypeOK, Note
  <2>2. \/ /\ pc'[r] = "next" /\ ~sel[r].user_specified
           /\ answer'[r] = answer[r] /\ source'[r] = source[r]
        \/ /\ pc'[r] = "done" /\ sel[r].user_specified
           /\ answer'[r] = o /\ source'[r] = NoModel
    BY <1>4 DEF IInv, TypeOK, Return, Goto
  <2> QED BY <1>1, <1>2, <2>1, <2>2 DEF m, o
<1> QED BY <1>1, <1>3, <1>4

LEMMA CallDone ==
  ASSUME IInv, NEW r \in Requests, CallSucceeds(r) \/ CallFails(r)
  PROVE  /\ OnlyFor(r) /\ pc[r] = "calling"
         /\ UNCHANGED <<cache, sel, at, pos>>
         /\ \/ /\ pc'[r] = "store" /\ fate'[r] = [fate[r] EXCEPT ![at[r]] = Answered]
               /\ answer'[r] = answer[r] /\ source'[r] = source[r]
            \/ /\ fate'[r] = [fate[r] EXCEPT ![at[r]] = Failed]
               /\ \/ /\ pc'[r] = "next" /\ ~sel[r].user_specified
                     /\ answer'[r] = answer[r] /\ source'[r] = source[r]
                  \/ /\ pc'[r] = "done" /\ sel[r].user_specified
                     /\ answer'[r] = FailureOutcome(at[r]) /\ source'[r] = NoModel
<1> DEFINE o == FailureOutcome(at[r])
<1>1. /\ pc[r] = "calling" /\ UNCHANGED <<cache, sel, at, pos>>
      /\ \/ Note(r, at[r], Answered) /\ Goto(r, "store") /\ UNCHANGED <<answer, source, log>>
         \/ /\ Note(r, at[r], Failed)
            /\ \/ sel[r].user_specified /\ Recorded(r, o) /\ Return(r, o, NoModel)
               \/ ~sel[r].user_specified /\ Goto(r, "next") /\ UNCHANGED <<answer, source, log>>
  BY DEF CallSucceeds, CallFails
<1> HIDE DEF o
<1>2. OnlyFor(r)
  BY <1>1 DEF IInv, TypeOK, Return, Recorded, Goto, Note, Kept, OnlyFor
<1>3. \/ /\ pc'[r] = "store" /\ fate'[r] = [fate[r] EXCEPT ![at[r]] = Answered]
         /\ answer'[r] = answer[r] /\ source'[r] = source[r]
      \/ /\ fate'[r] = [fate[r] EXCEPT ![at[r]] = Failed]
         /\ \/ /\ pc'[r] = "next" /\ ~sel[r].user_specified
               /\ answer'[r] = answer[r] /\ source'[r] = source[r]
            \/ /\ pc'[r] = "done" /\ sel[r].user_specified
               /\ answer'[r] = o /\ source'[r] = NoModel
  BY <1>1 DEF IInv, TypeOK, Return, Goto, Note
<1> QED BY <1>1, <1>2, <1>3 DEF o

LEMMA TryFallbackDoes ==
  ASSUME IInv, NEW r \in Requests, TryFallback(r)
  PROVE  LET m == Chain(r)[pos[r]] IN
         /\ OnlyFor(r) /\ pc[r] = "next" /\ pos[r] \in 1..Len(Chain(r)) /\ m \in Models
         /\ UNCHANGED <<cache, sel, answer, source>> /\ pos'[r] = pos[r] + 1
         /\ \/ pc'[r] = "next" /\ fate'[r] = fate[r]
            \/ /\ m # sel[r].primary /\ m \in Available
               /\ \/ pc'[r] = "next" /\ fate'[r] = [fate[r] EXCEPT ![m] = Refused]
                  \/ pc'[r] = "calling" /\ at'[r] = m /\ fate'[r] = fate[r]
<1> DEFINE m == Chain(r)[pos[r]]
<1>1. /\ pc[r] = "next" /\ pos[r] <= Len(Chain(r))
      /\ pos' = [pos EXCEPT ![r] = pos[r] + 1]
      /\ UNCHANGED <<cache, sel, answer, source, log>>
      /\ \/ UNCHANGED <<pc, at, fate>>
         \/ /\ ~Passed(r, m)
            /\ \/ Note(r, m, Refused) /\ UNCHANGED <<pc, at>>
               \/ Call(r, m) /\ UNCHANGED fate
  BY DEF TryFallback
<1>2. sel[r] \in Selection /\ pos[r] \in Nat \ {0}
  BY <1>1 DEF IInv, TypeOK
<1>3. Chain(r) \in Seq(Models)
  BY <1>2 DEF Chain, Selection
<1>4. pos[r] \in 1..Len(Chain(r)) /\ m \in Models
  BY <1>1, <1>2, <1>3
<1> HIDE DEF m
<1>5. OnlyFor(r)
  BY <1>1 DEF IInv, TypeOK, Call, Goto, Note, Kept, OnlyFor
<1>6. pos'[r] = pos[r] + 1
  BY <1>1 DEF IInv, TypeOK
<1>7. \/ pc'[r] = "next" /\ fate'[r] = fate[r]
      \/ /\ m # sel[r].primary /\ m \in Available
         /\ \/ pc'[r] = "next" /\ fate'[r] = [fate[r] EXCEPT ![m] = Refused]
            \/ pc'[r] = "calling" /\ at'[r] = m /\ fate'[r] = fate[r]
  BY <1>1 DEF IInv, TypeOK, Call, Goto, Note, Passed
<1> QED BY <1>1, <1>4, <1>5, <1>6, <1>7 DEF m

LEMMA GiveUpDoes ==
  ASSUME IInv, NEW r \in Requests, GiveUp(r)
  PROVE  /\ OnlyFor(r) /\ pc[r] = "next" /\ pos[r] > Len(Chain(r))
         /\ UNCHANGED <<cache, sel, at, pos, fate>>
         /\ pc'[r] = "done" /\ source'[r] = NoModel
         /\ answer'[r] = FailureOutcome(sel[r].primary)
<1> DEFINE o == FailureOutcome(sel[r].primary)
<1>1. /\ pc[r] = "next" /\ pos[r] > Len(Chain(r)) /\ Return(r, o, NoModel)
      /\ Recorded(r, o) \/ UNCHANGED log
      /\ UNCHANGED <<cache, sel, at, pos, fate>>
  BY DEF GiveUp
<1> HIDE DEF o
<1>2. OnlyFor(r)
  BY <1>1 DEF IInv, TypeOK, Return, Recorded, Goto, Kept, OnlyFor
<1>3. pc'[r] = "done" /\ source'[r] = NoModel /\ answer'[r] = o
  BY <1>1 DEF IInv, TypeOK, Return, Goto
<1> QED BY <1>1, <1>2, <1>3 DEF o

LEMMA StoreDoes ==
  ASSUME IInv, NEW r \in Requests, Store(r)
  PROVE  /\ OnlyFor(r) /\ pc[r] = "store"
         /\ UNCHANGED <<sel, at, pos, fate>>
         /\ cache' = [cache EXCEPT ![Key(r)] = Entry(at[r])] \/ UNCHANGED cache
         /\ pc'[r] = "done" /\ source'[r] = at[r]
         /\ answer'[r] = Outcome(TRUE, at[r], at[r] # sel[r].primary, FALSE)
<1> DEFINE o == Outcome(TRUE, at[r], at[r] # sel[r].primary, FALSE)
<1>1. /\ pc[r] = "store" /\ Return(r, o, at[r]) /\ Recorded(r, o)
      /\ UNCHANGED <<sel, at, pos, fate>>
      /\ cache' = [cache EXCEPT ![Key(r)] = Entry(at[r])] \/ UNCHANGED cache
  BY DEF Store
<1> HIDE DEF o
<1>2. OnlyFor(r)
  BY <1>1 DEF IInv, TypeOK, Return, Recorded, Goto, Kept, OnlyFor
<1>3. pc'[r] = "done" /\ source'[r] = at[r] /\ answer'[r] = o
  BY <1>1 DEF IInv, TypeOK, Return, Goto
<1> QED BY <1>1, <1>2, <1>3 DEF o

(* The operator and the clock touch no request and at most remove entries. *)
LEMMA OperatorsChange ==
  ASSUME IInv, Operate \/ Tick
  PROVE  /\ UNCHANGED local
         /\ \A k \in Keys : cache'[k] = cache[k] \/ cache'[k] = NoEntry
         /\ cache' = [k \in Keys |-> cache'[k]]
<1>1. cache \in [Keys -> Entries]
  BY DEF IInv, TypeOK
<1>2. CASE UNCHANGED local /\ UNCHANGED cache
  BY <1>1, <1>2
<1>3. ASSUME NEW m \in Models, InvalidateModel(m)
      PROVE  /\ UNCHANGED local
             /\ \A k \in Keys : cache'[k] = cache[k] \/ cache'[k] = NoEntry
             /\ cache' = [k \in Keys |-> cache'[k]]
  BY <1>3 DEF InvalidateModel, Without
<1>4. CASE InvalidateAll
  BY <1>4 DEF InvalidateAll
<1>5. ASSUME NEW k \in Keys, Expire(k)
      PROVE  /\ UNCHANGED local
             /\ \A l \in Keys : cache'[l] = cache[l] \/ cache'[l] = NoEntry
             /\ cache' = [l \in Keys |-> cache'[l]]
  BY <1>1, <1>5 DEF Expire
<1> QED BY <1>2, <1>3, <1>4, <1>5 DEF Operate, Tick, ResetModel, ReadStatus

-----------------------------------------------------------------------------
(* What lies ahead of a request                                            *)

(* From place n of the chain on nobody was tried, but the selected model.  *)
UntriedFrom(r, n) ==
    \A i \in 1..Len(Chain(r)) :
        i >= n /\ Chain(r)[i] # sel[r].primary => fate[r][Chain(r)[i]] = Untried

(* A request calls whom it has not tried, and a fallback that it took from *)
(* the place of the chain that it has just left.                           *)
Ahead(r) ==
    /\ pc[r] \in {"calling", "next"} => UntriedFrom(r, pos[r])
    /\ pc[r] = "calling" =>
         /\ fate[r][at[r]] = Untried
         /\ at[r] # sel[r].primary => /\ pos[r] - 1 \in 1..Len(Chain(r))
                                      /\ at[r] = Chain(r)[pos[r] - 1]
                                      /\ at[r] \in Available

AheadInv == \A r \in Requests : Ahead(r)

(* Whatever is cached was written by a model.                              *)
Signed == \A k \in Keys : cache[k] = NoEntry \/ cache[k].by \in Models

FInv == IInv /\ AheadInv /\ Signed

LEMMA KeptAhead ==
  ASSUME NEW q \in Requests, Kept(q), Ahead(q)
  PROVE  Ahead(q)'
<1>1. Chain(q)' = Chain(q) /\ (\A n : UntriedFrom(q, n)' <=> UntriedFrom(q, n))
  BY DEF Kept, UntriedFrom, Chain
<1> QED BY <1>1 DEF Kept, Ahead

LEMMA AheadMoves ==
  ASSUME AheadInv, NEW r \in Requests, OnlyFor(r), Ahead(r)'
  PROVE  AheadInv'
  BY KeptAhead DEF AheadInv, OnlyFor

LEMMA SignedMoves ==
  ASSUME Signed, UNCHANGED cache \/ \A k \in Keys : cache'[k] = cache[k] \/ cache'[k] = NoEntry
  PROVE  Signed'
  BY DEF Signed

LEMMA FirstCall ==
  ASSUME IInv, AheadInv, NEW r \in Requests, Admit(r)
  PROVE  AheadInv'
<1>1. /\ TypeOK /\ TypeOK' /\ Unspoilt(r) /\ pos[r] = 1
      /\ sel[r] \in Selection /\ sel[r].primary \in Models
  BY AdmitDoes, AdmitKeeps DEF IInv, KnowsInv, Knows, TypeOK, Selection
<1>2. Chain(r) \in Seq(Models)
  BY <1>1 DEF Chain, Selection
<1>3. Chain(r)' = Chain(r)
  BY AdmitDoes DEF Chain
<1>4. /\ sel'[r] = sel[r] /\ pos'[r] = pos[r]
      /\ fate'[r] = fate[r] \/ fate'[r] = [fate[r] EXCEPT ![sel[r].primary] = Refused]
      /\ pc'[r] = "calling" => at'[r] = sel[r].primary /\ fate'[r] = fate[r]
  BY AdmitDoes
<1>5. UntriedFrom(r, pos[r])'
  <2>1. \A m \in Models \ {sel[r].primary} : fate'[r][m] = Untried
    BY <1>1, <1>4 DEF TypeOK, Unspoilt
  <2>2. \A i \in 1..Len(Chain(r)) : Chain(r)[i] \in Models
    BY <1>2
  <2> QED BY <1>3, <1>4, <2>1, <2>2 DEF UntriedFrom
<1>6. pc'[r] = "calling" => at'[r] = sel'[r].primary /\ fate'[r][at'[r]] = Untried
  BY <1>1, <1>4 DEF Unspoilt
<1>7. Ahead(r)'
  BY <1>5, <1>6 DEF Ahead
<1> QED BY <1>7, AdmitDoes, AheadMoves

LEMMA AfterCall ==
  ASSUME IInv, AheadInv, NEW r \in Requests, CallSucceeds(r) \/ CallFails(r)
  PROVE  AheadInv'
<1>1. /\ TypeOK /\ Ahead(r) /\ Knows(r) /\ pc[r] = "calling" /\ pos[r] \in Nat \ {0}
      /\ sel[r] \in Selection /\ at[r] \in Models
  BY CallDone DEF IInv, KnowsInv, AheadInv, TypeOK, Selection
<1>2. Chain(r) \in Seq(Models)
  BY <1>1 DEF Chain, Selection
<1>3. Chain(r)' = Chain(r)
  BY CallDone DEF Chain
<1>4. \A i, j \in 1..Len(Chain(r)) : Chain(r)[i] = Chain(r)[j] => i = j
  BY <1>1, DistinctAssumption DEF Chain, Selection
<1>5. \A i \in 1..Len(Chain(r)) :
        i >= pos[r] /\ Chain(r)[i] # sel[r].primary =>
          Chain(r)[i] # at[r] /\ Chain(r)[i] \in Models
  BY <1>1, <1>2, <1>4 DEF Ahead
<1>6. /\ sel'[r] = sel[r] /\ pos'[r] = pos[r]
      /\ \/ fate'[r] = [fate[r] EXCEPT ![at[r]] = Answered]
         \/ fate'[r] = [fate[r] EXCEPT ![at[r]] = Failed]
  BY CallDone
<1>7. UntriedFrom(r, pos[r])'
  <2>1. \A m \in Models \ {at[r]} : fate'[r][m] = fate[r][m]
    BY <1>1, <1>6 DEF TypeOK
  <2>2. UntriedFrom(r, pos[r])
    BY <1>1 DEF Ahead
  <2> QED BY <1>3, <1>5, <1>6, <2>1, <2>2 DEF UntriedFrom
<1>8. Ahead(r)'
  BY <1>7, CallDone DEF Ahead
<1> QED BY <1>8, CallDone, AheadMoves

LEMMA OneFurther ==
  ASSUME IInv, AheadInv, NEW r \in Requests, TryFallback(r)
  PROVE  AheadInv'
<1> DEFINE m == Chain(r)[pos[r]]
<1>1. /\ TypeOK /\ Ahead(r) /\ pc[r] = "next" /\ pos[r] \in Nat \ {0}
      /\ sel[r] \in Selection
  BY TryFallbackDoes DEF IInv, AheadInv, TypeOK
<1>2. Chain(r) \in Seq(Models)
  BY <1>1 DEF Chain, Selection
<1>3. Chain(r)' = Chain(r)
  BY TryFallbackDoes DEF Chain
<1>4. \A i, j \in 1..Len(Chain(r)) : Chain(r)[i] = Chain(r)[j] => i = j
  BY <1>1, DistinctAssumption DEF Chain, Selection
<1>5. \A i \in 1..Len(Chain(r)) : i >= pos[r] + 1 => i >= pos[r] /\ Chain(r)[i] # m
                                                  /\ Chain(r)[i] \in Models
  BY <1>1, <1>2, <1>4, TryFallbackDoes
<1>6. /\ sel'[r] = sel[r] /\ pos'[r] = pos[r] + 1 /\ pos[r] \in 1..Len(Chain(r))
      /\ fate'[r] = fate[r] \/ fate'[r] = [fate[r] EXCEPT ![m] = Refused]
      /\ pc'[r] = "calling" => /\ at'[r] = m /\ m \in Available
                              /\ m # sel[r].primary /\ fate'[r] = fate[r]
  BY TryFallbackDoes
<1>7. UntriedFrom(r, pos[r])'
  <2>1. \A n \in Models \ {m} : fate'[r][n] = fate[r][n]
    BY <1>1, <1>6 DEF TypeOK
  <2>2. UntriedFrom(r, pos[r])
    BY <1>1 DEF Ahead
  <2> QED BY <1>3, <1>5, <1>6, <2>1, <2>2 DEF UntriedFrom
<1>8. ASSUME pc'[r] = "calling"
      PROVE  /\ at'[r] = m /\ m \in Available /\ fate'[r][m] = Untried
             /\ pos'[r] - 1 = pos[r] /\ pos[r] \in 1..Len(Chain(r))
  <2>1. UntriedFrom(r, pos[r])
    BY <1>1 DEF Ahead
  <2>2. fate[r][m] = Untried
    <3>1. m # sel[r].primary /\ pos[r] \in 1..Len(Chain(r)) /\ pos[r] >= pos[r]
      BY <1>1, <1>6, <1>8
    <3> QED BY <2>1, <3>1 DEF UntriedFrom
  <2> QED BY <1>1, <1>6, <1>8, <2>2
<1> HIDE DEF m
<1>9. Ahead(r)'
  <2>2. pc'[r] = "calling" =>
          /\ fate'[r][at'[r]] = Untried
          /\ pos'[r] - 1 \in 1..Len(Chain(r)') /\ at'[r] = Chain(r)'[pos'[r] - 1]
          /\ at'[r] \in Available
    BY <1>3, <1>8 DEF m
  <2> QED BY <1>7, <2>2 DEF Ahead
<1> QED BY <1>9, TryFallbackDoes, AheadMoves

LEMMA StoreSigns ==
  ASSUME IInv, Signed, NEW r \in Requests, Store(r)
  PROVE  Signed'
<1>1. at[r] \in Models /\ Entry(at[r]).by = at[r] /\ Key(r) \in Keys
      /\ cache \in [Keys -> Entries]
  BY StoreDoes DEF IInv, TypeOK, Entry, Key, Keys, Selection
<1>2. cache' = [cache EXCEPT ![Key(r)] = Entry(at[r])] \/ UNCHANGED cache
  BY StoreDoes
<1>3. CASE cache' = [cache EXCEPT ![Key(r)] = Entry(at[r])]
  BY <1>1, <1>3 DEF Signed
<1>4. CASE UNCHANGED cache
  BY <1>4, SignedMoves
<1> QED BY <1>2, <1>3, <1>4

LEMMA NextFInv == ASSUME FInv, [Next]_vars PROVE FInv'
<1>1. IInv'
  BY NextIInv DEF FInv
<1>2. ASSUME NEW r \in Requests, Arrive(r) PROVE AheadInv' /\ Signed'
  BY <1>2, ArriveDoes, AheadMoves, SignedMoves DEF FInv, Ahead
<1>3. ASSUME NEW r \in Requests, Lookup(r) PROVE AheadInv' /\ Signed'
  BY <1>3, LookupDoes, AheadMoves, SignedMoves DEF FInv, Ahead
<1>4. ASSUME NEW r \in Requests, Admit(r) PROVE AheadInv' /\ Signed'
  BY <1>4, AdmitDoes, FirstCall, SignedMoves DEF FInv
<1>5. ASSUME NEW r \in Requests, CallSucceeds(r) \/ CallFails(r) PROVE AheadInv' /\ Signed'
  BY <1>5, CallDone, AfterCall, SignedMoves DEF FInv
<1>6. ASSUME NEW r \in Requests, TryFallback(r) PROVE AheadInv' /\ Signed'
  BY <1>6, TryFallbackDoes, OneFurther, SignedMoves DEF FInv
<1>7. ASSUME NEW r \in Requests, GiveUp(r) PROVE AheadInv' /\ Signed'
  BY <1>7, GiveUpDoes, AheadMoves, SignedMoves DEF FInv, Ahead
<1>8. ASSUME NEW r \in Requests, Store(r) PROVE AheadInv' /\ Signed'
  BY <1>8, StoreDoes, StoreSigns, AheadMoves DEF FInv, Ahead
<1>9. ASSUME UNCHANGED local, \/ UNCHANGED cache
                              \/ \A k \in Keys : cache'[k] = cache[k] \/ cache'[k] = NoEntry
      PROVE  AheadInv' /\ Signed'
  BY <1>9, KeptAhead, SignedMoves DEF FInv, AheadInv, local, Kept
<1>10. CASE Operate \/ Tick
  <2>1. UNCHANGED local /\ \A k \in Keys : cache'[k] = cache[k] \/ cache'[k] = NoEntry
    BY <1>10, OperatorsChange DEF FInv
  <2> QED BY <1>1, <1>9, <2>1 DEF FInv
<1>11. CASE UNCHANGED vars
  <2>1. UNCHANGED local /\ UNCHANGED cache
    BY <1>11 DEF vars, local
  <2> QED BY <1>1, <1>9, <2>1 DEF FInv
<1> QED BY <1>1, <1>2, <1>3, <1>4, <1>5, <1>6, <1>7, <1>8, <1>10, <1>11
        DEF Next, Proceed, FInv

LEMMA FInvariant == Spec => []FInv
<1>1. Init => FInv
  BY InitIInv DEF FInv, Init, AheadInv, Ahead, Signed
<1>2. FInv /\ [Next]_vars => FInv'
  BY NextFInv
<1> QED BY <1>1, <1>2, PTL DEF Spec

-----------------------------------------------------------------------------
(* The refinement: what the fail-over sees of a step                       *)

StageF == [r \in Requests |-> Stage(r)]
LostF  == [r \in Requests |-> Losers(r)]
GivenF == [r \in Requests |-> InHand(r)]
MemoF  == [k \in Keys |-> cache[k].by]
View   == <<StageF, sel, LostF, GivenF, answer, source, MemoF>>

(* A step of one request changes the view of it alone, to what its own     *)
(* places say after the step.                                              *)
LEMMA ViewOfOne ==
  ASSUME TypeOK, TypeOK', NEW r \in Requests, OnlyFor(r)
  PROVE  /\ StageF[r] = Stage(r) /\ StageF' = [StageF EXCEPT ![r] = Stage(r)']
         /\ LostF[r] = Losers(r) /\ LostF' = [LostF EXCEPT ![r] = Losers(r)']
         /\ GivenF[r] = InHand(r) /\ GivenF' = [GivenF EXCEPT ![r] = InHand(r)']
         /\ sel' = [sel EXCEPT ![r] = sel'[r]]
         /\ answer' = [answer EXCEPT ![r] = answer'[r]]
         /\ source' = [source EXCEPT ![r] = source'[r]]
<1>1. \A q \in Requests \ {r} : Stage(q)' = Stage(q) /\ Losers(q)' = Losers(q)
                                /\ InHand(q)' = InHand(q)
  BY DEF OnlyFor, Kept, Stage, Losers, InHand
<1>2. /\ StageF[r] = Stage(r) /\ StageF' = [StageF EXCEPT ![r] = Stage(r)']
      /\ LostF[r] = Losers(r) /\ LostF' = [LostF EXCEPT ![r] = Losers(r)']
      /\ GivenF[r] = InHand(r) /\ GivenF' = [GivenF EXCEPT ![r] = InHand(r)']
  BY <1>1 DEF StageF, LostF, GivenF
<1>3. \A q \in Requests \ {r} : sel'[q] = sel[q] /\ answer'[q] = answer[q]
                                /\ source'[q] = source[q]
  BY DEF OnlyFor, Kept
<1>4. sel' = [sel EXCEPT ![r] = sel'[r]]
  BY <1>3 DEF TypeOK
<1>5. answer' = [answer EXCEPT ![r] = answer'[r]]
  BY <1>3 DEF TypeOK
<1>6. source' = [source EXCEPT ![r] = source'[r]]
  BY <1>3 DEF TypeOK
<1> QED BY <1>2, <1>4, <1>5, <1>6

(* What a step leaves as it was for the request that takes it, it leaves.  *)
LEMMA SameView ==
  ASSUME TypeOK, TypeOK', NEW r \in Requests, OnlyFor(r)
  PROVE  /\ Stage(r)' = Stage(r) => StageF' = StageF
         /\ Losers(r)' = Losers(r) => LostF' = LostF
         /\ InHand(r)' = InHand(r) => GivenF' = GivenF
         /\ sel'[r] = sel[r] => sel' = sel
         /\ answer'[r] = answer[r] => answer' = answer
         /\ source'[r] = source[r] => source' = source
<1>1. \A q \in Requests \ {r} : Stage(q)' = Stage(q) /\ Losers(q)' = Losers(q)
                                /\ InHand(q)' = InHand(q)
  BY DEF OnlyFor, Kept, Stage, Losers, InHand
<1>2. /\ Stage(r)' = Stage(r) => StageF' = StageF
      /\ Losers(r)' = Losers(r) => LostF' = LostF
      /\ InHand(r)' = InHand(r) => GivenF' = GivenF
  BY <1>1 DEF StageF, LostF, GivenF
<1>3. \A q \in Requests \ {r} : sel'[q] = sel[q] /\ answer'[q] = answer[q]
                                /\ source'[q] = source[q]
  BY DEF OnlyFor, Kept
<1>4. sel'[r] = sel[r] => sel' = sel
  BY <1>3 DEF TypeOK
<1>5. answer'[r] = answer[r] => answer' = answer
  BY <1>3 DEF TypeOK
<1>6. source'[r] = source[r] => source' = source
  BY <1>3 DEF TypeOK
<1> QED BY <1>2, <1>4, <1>5, <1>6

(* A fate that a call or a refusal leaves makes the loser one more.        *)
LEMMA OneMoreLoser ==
  ASSUME TypeOK, NEW r \in Requests, NEW m \in Models, NEW f \in {Failed, Refused},
         fate'[r] = [fate[r] EXCEPT ![m] = f]
  PROVE  Losers(r)' = Losers(r) \cup {m}
<1>1. fate[r] \in [Models -> Fates]
  BY DEF TypeOK
<1> QED BY <1>1 DEF Losers

LEMMA NoMoreLosers ==
  ASSUME TypeOK, NEW r \in Requests, NEW m \in Models, fate[r][m] = Untried,
         fate'[r] = [fate[r] EXCEPT ![m] = Answered]
  PROVE  Losers(r)' = Losers(r)
<1>1. fate[r] \in [Models -> Fates]
  BY DEF TypeOK
<1> QED BY <1>1 DEF Losers

(* The steps of the fail-over, in the terms of the view.                   *)
LEMMA Turned ==
  ASSUME TypeOK, NEW r \in Requests, NEW m, StageF[r] = "open", GivenF[r] = NoModel,
         m \in Promise!Candidates(sel[r]) \ LostF[r],
         \A n \in Promise!Candidates(sel[r]) :
            Promise!Preferred(sel[r], n, m) => n \in LostF[r]
  PROVE  Promise!Turn(r, m)
  BY DEF Promise!Turn, Promise!Trying, StageF, GivenF, LostF

(* The selected model has its turn first,                                  *)
LEMMA FirstTurn ==
  ASSUME TypeOK, NEW r \in Requests, sel[r] \in Selection, Stage(r) = "open",
         InHand(r) = NoModel, fate[r][sel[r].primary] = Untried
  PROVE  Promise!Turn(r, sel[r].primary)
<1>1. sel[r].primary \in Promise!Candidates(sel[r])
  BY DEF Promise!Candidates
<1>2. \A n : ~Promise!Preferred(sel[r], n, sel[r].primary)
  BY DEF Promise!Preferred
<1>3. StageF[r] = "open" /\ GivenF[r] = NoModel /\ LostF[r] = Losers(r)
  BY DEF StageF, GivenF, LostF
<1>4. sel[r].primary \notin LostF[r]
  BY <1>3 DEF Losers
<1> QED BY <1>1, <1>2, <1>3, <1>4, Turned

(* and a fallback when everybody before it in the chain is lost.           *)
LEMMA FallbackTurn ==
  ASSUME TypeOK, NEW r \in Requests, sel[r] \in Selection, Stage(r) = "open",
         InHand(r) = NoModel, ~sel[r].user_specified, Lost(r, sel[r].primary),
         NEW i \in 1..Len(Chain(r)), LostBefore(r, i),
         Chain(r)[i] \in Available, Chain(r)[i] # sel[r].primary,
         fate[r][Chain(r)[i]] = Untried
  PROVE  Promise!Turn(r, Chain(r)[i])
<1> DEFINE m == Chain(r)[i]
<1>1. Chain(r) = Fallbacks[sel[r].task] /\ Chain(r) \in Seq(Models)
      /\ sel[r].primary \in Models
  BY DEF Chain, Selection
<1>2. m \in Promise!Candidates(sel[r])
  BY <1>1 DEF Promise!Candidates, Promise!Places
<1>3. StageF[r] = "open" /\ GivenF[r] = NoModel /\ LostF[r] = Losers(r)
  BY DEF StageF, GivenF, LostF
<1>4. m \notin LostF[r]
  BY <1>3 DEF Losers
<1>5. ASSUME NEW n \in Promise!Candidates(sel[r]), Promise!Preferred(sel[r], n, m)
      PROVE  n \in LostF[r]
  <2>1. CASE n = sel[r].primary
    BY <1>1, <1>3, <2>1 DEF Losers, Lost
  <2>2. CASE n # sel[r].primary
    <3>1. n \in Available
      BY <2>2 DEF Promise!Candidates
    <3>2. PICK a, b \in 1..Len(Chain(r)) : a < b /\ Chain(r)[a] = n /\ Chain(r)[b] = m
      BY <1>1, <1>5, <2>2 DEF Promise!Preferred, Promise!Places
    <3>3. b = i
      BY <3>2, DistinctAssumption DEF Chain, Selection
    <3>4. Lost(r, n)
      BY <3>1, <3>2, <3>3 DEF LostBefore
    <3>5. n \in Models
      BY <1>1, <3>2
    <3> QED BY <1>3, <3>4, <3>5 DEF Losers, Lost
  <2> QED BY <2>1, <2>2
<1> QED BY <1>2, <1>3, <1>4, <1>5, Turned

(* Who is called has its turn.                                             *)
LEMMA CalledHasTurn ==
  ASSUME FInv, NEW r \in Requests, pc[r] = "calling"
  PROVE  Promise!Turn(r, at[r])
<1>1. /\ TypeOK /\ Knows(r) /\ Ahead(r) /\ sel[r] \in Selection
  BY DEF FInv, IInv, KnowsInv, AheadInv, TypeOK
<1>2. Stage(r) = "open" /\ InHand(r) = NoModel
  BY DEF Stage, InHand
<1>3. fate[r][at[r]] = Untried
  BY <1>1 DEF Ahead
<1>4. CASE at[r] = sel[r].primary
  BY <1>1, <1>2, <1>3, <1>4, FirstTurn
<1>5. CASE at[r] # sel[r].primary
  <2>1. Lost(r, sel[r].primary) /\ ~sel[r].user_specified /\ LostBefore(r, pos[r] - 1)
    BY <1>1, <1>5 DEF Knows, InPlace
  <2>2. pos[r] - 1 \in 1..Len(Chain(r)) /\ at[r] = Chain(r)[pos[r] - 1] /\ at[r] \in Available
    BY <1>1, <1>5 DEF Ahead
  <2> QED BY <1>1, <1>2, <1>3, <1>5, <2>1, <2>2, FallbackTurn
<1> QED BY <1>4, <1>5

LEMMA Losing ==
  ASSUME NEW r \in Requests, NEW m, Promise!Turn(r, m),
         LostF' = [LostF EXCEPT ![r] = LostF[r] \cup {m}],
         \/ UNCHANGED <<StageF, answer, source>>
         \/ /\ Promise!Candidates(sel[r]) \subseteq LostF'[r]
            /\ StageF' = [StageF EXCEPT ![r] = "settled"]
            /\ answer' = [answer EXCEPT ![r] = FailureOutcome(sel[r].primary)]
            /\ source' = [source EXCEPT ![r] = NoModel],
         UNCHANGED <<sel, GivenF, MemoF>>
  PROVE  Promise!Lose(r, m)
  BY DEF Promise!Lose, Promise!Fail, Promise!Tell, Promise!Wait, Promise!Told, FailureOutcome,
         Outcome, StageF, LostF, GivenF, MemoF

(* Each step of ask is a step of the fail-over, or one that it does not    *)
(* see, unless a hit borrows from somebody who is no candidate.            *)
Seen == Promise!Next \/ UNCHANGED View

LEMMA ArriveRefines ==
  ASSUME FInv, TypeOK', NEW r \in Requests, Arrive(r)
  PROVE  Seen
<1> DEFINE w == sel'[r]
           named == IF w.user_specified THEN w.primary ELSE NoModel
<1>1. /\ TypeOK /\ OnlyFor(r) /\ pc[r] = "new" /\ UNCHANGED <<cache, at, pos, fate>>
      /\ w \in Selection
      /\ w.user_specified \/ w.primary = Route[w.task]
      /\ \/ /\ pc'[r] = "lookup" /\ answer'[r] = answer[r] /\ source'[r] = source[r]
            /\ w.user_specified => w.primary \in Available
         \/ /\ pc'[r] = "done" /\ source'[r] = NoModel
            /\ answer'[r] = FailureOutcome(named)
  BY ArriveDoes DEF FInv, IInv
<1> HIDE DEF w, named
<1>2. LostF' = LostF /\ GivenF' = GivenF /\ MemoF' = MemoF
  <2>1. Losers(r)' = Losers(r) /\ InHand(r)' = InHand(r)
    BY <1>1 DEF Losers, InHand
  <2> QED BY <1>1, <2>1, SameView DEF MemoF
<1>3. Stage(r) = "unasked" /\ StageF[r] = "unasked" /\ sel' = [sel EXCEPT ![r] = w]
  BY <1>1, ViewOfOne DEF Stage, w
<1>4. \/ /\ w.user_specified => w.primary \in Available
         /\ StageF' = [StageF EXCEPT ![r] = "open"] /\ UNCHANGED <<answer, source>>
      \/ /\ StageF' = [StageF EXCEPT ![r] = "settled"]
         /\ answer' = [answer EXCEPT ![r] = FailureOutcome(named)]
         /\ source' = [source EXCEPT ![r] = NoModel]
  <2>1. CASE /\ pc'[r] = "lookup" /\ answer'[r] = answer[r] /\ source'[r] = source[r]
             /\ w.user_specified => w.primary \in Available
    <3>1. Stage(r)' = "open"
      BY <2>1 DEF Stage
    <3> QED BY <1>1, <2>1, <3>1, ViewOfOne, SameView
  <2>2. CASE /\ pc'[r] = "done" /\ source'[r] = NoModel
             /\ answer'[r] = FailureOutcome(named)
    <3>1. Stage(r)' = "settled"
      BY <2>2 DEF Stage
    <3> QED BY <1>1, <2>2, <3>1, ViewOfOne
  <2> QED BY <1>1, <2>1, <2>2
<1>5. w \in Promise!Wishes /\ Promise!Sincere(w)
  BY <1>1 DEF Promise!Sincere, Promise!Wishes, Selection
<1>6. Promise!Wish(r)
  BY <1>2, <1>3, <1>4, <1>5 DEF Promise!Wish, Promise!Tell, Promise!Told, FailureOutcome,
     Outcome, StageF, LostF, GivenF, MemoF, named
<1> QED BY <1>6 DEF Seen, Promise!Next

LEMMA LookupRefines ==
  ASSUME FInv, TypeOK', NEW r \in Requests, Lookup(r)
  PROVE  Seen \/ (CacheEnabled /\ Borrow(r))
<1>1. /\ TypeOK /\ Unspoilt(r) /\ OnlyFor(r) /\ pc[r] = "lookup"
      /\ UNCHANGED <<cache, sel, at, pos, fate>> /\ Key(r) \in Keys
      /\ \/ pc'[r] = "admit" /\ answer'[r] = answer[r] /\ source'[r] = source[r]
         \/ /\ pc'[r] = "done" /\ CacheEnabled /\ cache[Key(r)] # NoEntry
            /\ answer'[r] = Outcome(TRUE, sel[r].primary, FALSE, TRUE)
            /\ source'[r] = cache[Key(r)].by
  BY LookupDoes DEF FInv, IInv, KnowsInv, Knows, TypeOK, Key, Keys, Selection
<1>2. MemoF' = MemoF /\ sel' = sel
  BY <1>1 DEF MemoF
<1>3. LostF' = LostF /\ LostF[r] = {}
  <2>1. Losers(r)' = Losers(r) /\ Losers(r) = {}
    BY <1>1 DEF Losers, Unspoilt
  <2> QED BY <1>1, <2>1, SameView, ViewOfOne
<1>4. GivenF' = GivenF /\ GivenF[r] = NoModel
  <2>1. InHand(r)' = InHand(r) /\ InHand(r) = NoModel
    BY <1>1 DEF InHand
  <2> QED BY <1>1, <2>1, SameView, ViewOfOne
<1>5. CASE pc'[r] = "admit" /\ answer'[r] = answer[r] /\ source'[r] = source[r]
  <2>1. Stage(r)' = Stage(r)
    BY <1>1, <1>5 DEF Stage
  <2> QED BY <1>1, <1>2, <1>3, <1>4, <1>5, <2>1, SameView DEF Seen, View
<1>6. CASE /\ pc'[r] = "done" /\ CacheEnabled /\ cache[Key(r)] # NoEntry
           /\ answer'[r] = Outcome(TRUE, sel[r].primary, FALSE, TRUE)
           /\ source'[r] = cache[Key(r)].by
  <2> DEFINE m == MemoF[Key(r)]
  <2>1. Stage(r) = "open" /\ Stage(r)' = "settled"
    BY <1>1, <1>6 DEF Stage
  <2>2. StageF[r] = "open" /\ StageF' = [StageF EXCEPT ![r] = "settled"]
    BY <1>1, <2>1, ViewOfOne
  <2>3. /\ answer' = [answer EXCEPT ![r] = Outcome(TRUE, sel[r].primary, FALSE, TRUE)]
        /\ source' = [source EXCEPT ![r] = m]
    BY <1>1, <1>6, ViewOfOne DEF MemoF
  <2>4. m \in Models
    BY <1>1, <1>6 DEF MemoF, FInv, Signed
  <2>5. m = MemoF[<<sel[r].primary, sel[r].prompt>>]
    BY DEF Key
  <2> HIDE DEF m
  <2>6. Promise!Hear(r, m)
    BY <1>2, <1>3, <1>4, <2>2, <2>3, <2>5 DEF Promise!Hear, Promise!Trying, Promise!Tell,
       Promise!Told, Outcome, StageF, LostF, GivenF, MemoF
  <2>7. CASE m \in Promise!Candidates(sel[r])
    <3>1. Promise!Recall(r)
      BY <2>4, <2>6, <2>7 DEF Promise!Recall
    <3> QED BY <3>1 DEF Seen, Promise!Next
  <2>8. CASE m \notin Promise!Candidates(sel[r])
    BY <1>6, <2>4, <2>6, <2>8 DEF Borrow
  <2> QED BY <2>7, <2>8
<1> QED BY <1>1, <1>5, <1>6

(* A refusal or a failure of who has the turn.                             *)
LEMMA LossRefines ==
  ASSUME TypeOK, TypeOK', NEW r \in Requests, NEW m \in Models, NEW f \in {Failed, Refused},
         OnlyFor(r), UNCHANGED <<cache, sel>>,
         Promise!Turn(r, m), Stage(r) = "open", InHand(r) = NoModel,
         fate'[r] = [fate[r] EXCEPT ![m] = f],
         \/ pc'[r] = "next" /\ answer'[r] = answer[r] /\ source'[r] = source[r]
         \/ /\ pc'[r] = "done" /\ sel[r].user_specified /\ m = sel[r].primary
            /\ answer'[r] = FailureOutcome(m) /\ source'[r] = NoModel
  PROVE  Seen
<1>1. LostF' = [LostF EXCEPT ![r] = LostF[r] \cup {m}] /\ LostF'[r] = Losers(r) \cup {m}
  <2>1. Losers(r)' = Losers(r) \cup {m}
    BY OneMoreLoser
  <2>2. LostF[r] = Losers(r) /\ LostF' = [LostF EXCEPT ![r] = Losers(r)']
    BY ViewOfOne
  <2>3. LostF'[r] = Losers(r)'
    BY DEF LostF
  <2> QED BY <2>1, <2>2, <2>3
<1>2. GivenF' = GivenF
  <2>1. InHand(r)' = NoModel
    BY DEF InHand
  <2> QED BY <2>1, SameView
<1>3. sel' = sel /\ MemoF' = MemoF
  BY DEF MemoF
<1>4. CASE pc'[r] = "next" /\ answer'[r] = answer[r] /\ source'[r] = source[r]
  <2>1. Stage(r)' = "open"
    BY <1>4 DEF Stage
  <2>2. UNCHANGED <<StageF, answer, source>>
    BY <1>4, <2>1, SameView
  <2>3. Promise!Lose(r, m)
    BY <1>1, <1>2, <1>3, <2>2, Losing
  <2> QED BY <2>3 DEF Seen, Promise!Next
<1>5. CASE /\ pc'[r] = "done" /\ sel[r].user_specified /\ m = sel[r].primary
           /\ answer'[r] = FailureOutcome(m) /\ source'[r] = NoModel
  <2>1. Stage(r)' = "settled"
    BY <1>5 DEF Stage
  <2>2. /\ StageF' = [StageF EXCEPT ![r] = "settled"]
        /\ answer' = [answer EXCEPT ![r] = FailureOutcome(sel[r].primary)]
        /\ source' = [source EXCEPT ![r] = NoModel]
    BY <1>5, <2>1, ViewOfOne
  <2>3. Promise!Candidates(sel[r]) \subseteq LostF'[r]
    BY <1>1, <1>5 DEF Promise!Candidates
  <2>4. Promise!Lose(r, m)
    BY <1>1, <1>2, <1>3, <2>2, <2>3, Losing
  <2> QED BY <2>4 DEF Seen, Promise!Next
<1> QED BY <1>4, <1>5

LEMMA AdmitRefines ==
  ASSUME FInv, TypeOK', NEW r \in Requests, Admit(r)
  PROVE  Seen
<1> DEFINE m == sel[r].primary
<1>1. /\ TypeOK /\ Unspoilt(r) /\ OnlyFor(r) /\ pc[r] = "admit" /\ UNCHANGED <<cache, sel>>
      /\ sel[r] \in Selection /\ m \in Models
      /\ \/ /\ pc'[r] = "calling" /\ fate'[r] = fate[r]
            /\ answer'[r] = answer[r] /\ source'[r] = source[r]
         \/ /\ fate'[r] = [fate[r] EXCEPT ![m] = Refused]
            /\ \/ pc'[r] = "next" /\ answer'[r] = answer[r] /\ source'[r] = source[r]
               \/ /\ pc'[r] = "done" /\ sel[r].user_specified
                  /\ answer'[r] = FailureOutcome(m) /\ source'[r] = NoModel
  BY AdmitDoes DEF FInv, IInv, KnowsInv, Knows, TypeOK, Selection
<1>2. Stage(r) = "open" /\ InHand(r) = NoModel
  BY <1>1 DEF Stage, InHand
<1>3. CASE /\ pc'[r] = "calling" /\ fate'[r] = fate[r]
           /\ answer'[r] = answer[r] /\ source'[r] = source[r]
  <2>1. Stage(r)' = Stage(r) /\ InHand(r)' = InHand(r) /\ Losers(r)' = Losers(r)
    BY <1>1, <1>2, <1>3 DEF Stage, InHand, Losers
  <2>2. MemoF' = MemoF /\ sel' = sel
    BY <1>1 DEF MemoF
  <2> QED BY <1>1, <1>3, <2>1, <2>2, SameView DEF Seen, View
<1>4. CASE /\ fate'[r] = [fate[r] EXCEPT ![m] = Refused]
           /\ \/ pc'[r] = "next" /\ answer'[r] = answer[r] /\ source'[r] = source[r]
              \/ /\ pc'[r] = "done" /\ sel[r].user_specified
                 /\ answer'[r] = FailureOutcome(m) /\ source'[r] = NoModel
  <2>1. Promise!Turn(r, m)
    BY <1>1, <1>2, FirstTurn DEF Unspoilt
  <2> QED BY <1>1, <1>2, <1>4, <2>1, LossRefines
<1> QED BY <1>1, <1>3, <1>4

LEMMA CallRefines ==
  ASSUME FInv, TypeOK', NEW r \in Requests, CallSucceeds(r) \/ CallFails(r)
  PROVE  Seen
<1> DEFINE m == at[r]
<1>1. /\ TypeOK /\ Knows(r) /\ Ahead(r) /\ OnlyFor(r) /\ pc[r] = "calling"
      /\ UNCHANGED <<cache, sel, at>> /\ m \in Models
      /\ \/ /\ pc'[r] = "store" /\ fate'[r] = [fate[r] EXCEPT ![m] = Answered]
            /\ answer'[r] = answer[r] /\ source'[r] = source[r]
         \/ /\ fate'[r] = [fate[r] EXCEPT ![m] = Failed]
            /\ \/ pc'[r] = "next" /\ answer'[r] = answer[r] /\ source'[r] = source[r]
               \/ /\ pc'[r] = "done" /\ sel[r].user_specified
                  /\ answer'[r] = FailureOutcome(m) /\ source'[r] = NoModel
  BY CallDone DEF FInv, IInv, KnowsInv, AheadInv, TypeOK
<1>2. Stage(r) = "open" /\ InHand(r) = NoModel
  BY <1>1 DEF Stage, InHand
<1>3. Promise!Turn(r, m)
  BY <1>1, CalledHasTurn
<1>4. CASE /\ pc'[r] = "store" /\ fate'[r] = [fate[r] EXCEPT ![m] = Answered]
           /\ answer'[r] = answer[r] /\ source'[r] = source[r]
  <2>1. Stage(r)' = "open" /\ InHand(r)' = m
    BY <1>1, <1>4 DEF Stage, InHand
  <2>2. Losers(r)' = Losers(r)
    BY <1>1, <1>4, NoMoreLosers DEF Ahead
  <2>3. UNCHANGED <<StageF, LostF, sel, answer, source, MemoF>>
    BY <1>1, <1>2, <1>4, <2>1, <2>2, SameView DEF MemoF
  <2>4. GivenF' = [GivenF EXCEPT ![r] = m]
    BY <1>1, <2>1, ViewOfOne
  <2>5. Promise!Answer(r, m)
    BY <1>3, <2>3, <2>4 DEF Promise!Answer, Promise!Wait, StageF, LostF, GivenF, MemoF
  <2> QED BY <1>1, <2>5 DEF Seen, Promise!Next
<1>5. CASE /\ fate'[r] = [fate[r] EXCEPT ![m] = Failed]
           /\ \/ pc'[r] = "next" /\ answer'[r] = answer[r] /\ source'[r] = source[r]
              \/ /\ pc'[r] = "done" /\ sel[r].user_specified
                 /\ answer'[r] = FailureOutcome(m) /\ source'[r] = NoModel
  <2>1. sel[r].user_specified => m = sel[r].primary
    BY <1>1 DEF Knows, InPlace
  <2> QED BY <1>1, <1>2, <1>3, <1>5, <2>1, LossRefines
<1> QED BY <1>1, <1>4, <1>5

LEMMA TryFallbackRefines ==
  ASSUME FInv, TypeOK', NEW r \in Requests, TryFallback(r)
  PROVE  Seen
<1> DEFINE m == Chain(r)[pos[r]]
<1>1. /\ TypeOK /\ Knows(r) /\ Ahead(r) /\ sel[r] \in Selection
      /\ OnlyFor(r) /\ pc[r] = "next" /\ pos[r] \in 1..Len(Chain(r)) /\ m \in Models
      /\ UNCHANGED <<cache, sel, answer, source>>
      /\ \/ pc'[r] = "next" /\ fate'[r] = fate[r]
         \/ pc'[r] = "calling" /\ fate'[r] = fate[r]
         \/ /\ m # sel[r].primary /\ m \in Available /\ pc'[r] = "next"
            /\ fate'[r] = [fate[r] EXCEPT ![m] = Refused]
  BY TryFallbackDoes DEF FInv, IInv, KnowsInv, AheadInv, TypeOK
<1>2. Stage(r) = "open" /\ InHand(r) = NoModel
  BY <1>1 DEF Stage, InHand
<1>3. CASE pc'[r] \in {"next", "calling"} /\ fate'[r] = fate[r]
  <2>1. Stage(r)' = Stage(r) /\ InHand(r)' = InHand(r) /\ Losers(r)' = Losers(r)
    BY <1>2, <1>3 DEF Stage, InHand, Losers
  <2>2. UNCHANGED <<sel, answer, source, MemoF>>
    BY <1>1 DEF MemoF
  <2> QED BY <1>1, <2>1, <2>2, SameView DEF Seen, View
<1>4. CASE /\ m # sel[r].primary /\ m \in Available /\ pc'[r] = "next"
           /\ fate'[r] = [fate[r] EXCEPT ![m] = Refused]
  <2>1. Lost(r, sel[r].primary) /\ ~sel[r].user_specified /\ LostBefore(r, pos[r])
    BY <1>1 DEF Knows
  <2>2. fate[r][m] = Untried
    <3>1. UntriedFrom(r, pos[r]) /\ pos[r] >= pos[r]
      BY <1>1 DEF Ahead
    <3> QED BY <1>1, <1>4, <3>1 DEF UntriedFrom
  <2>3. Promise!Turn(r, m)
    BY <1>1, <1>2, <1>4, <2>1, <2>2, FallbackTurn
  <2>4. answer'[r] = answer[r] /\ source'[r] = source[r] /\ UNCHANGED <<cache, sel>>
    BY <1>1
  <2> QED BY <1>1, <1>2, <1>4, <2>3, <2>4, LossRefines
<1> QED BY <1>1, <1>3, <1>4

LEMMA GiveUpRefines ==
  ASSUME FInv, TypeOK', NEW r \in Requests, GiveUp(r)
  PROVE  Seen
<1>1. /\ TypeOK /\ Knows(r) /\ sel[r] \in Selection /\ pos[r] \in Nat \ {0}
      /\ OnlyFor(r) /\ pc[r] = "next" /\ pos[r] > Len(Chain(r))
      /\ UNCHANGED <<cache, sel, at, pos, fate>>
      /\ pc'[r] = "done" /\ source'[r] = NoModel
      /\ answer'[r] = FailureOutcome(sel[r].primary)
  BY GiveUpDoes DEF FInv, IInv, KnowsInv, TypeOK
<1>2. Stage(r) = "open" /\ InHand(r) = NoModel /\ Stage(r)' = "settled" /\ InHand(r)' = NoModel
      /\ Losers(r)' = Losers(r)
  BY <1>1 DEF Stage, InHand, Losers
<1>3. UNCHANGED <<sel, LostF, GivenF, MemoF>> /\ LostF'[r] = Losers(r)
  BY <1>1, <1>2, SameView, ViewOfOne DEF MemoF
<1>4. /\ StageF[r] = "open" /\ GivenF[r] = NoModel
      /\ StageF' = [StageF EXCEPT ![r] = "settled"]
      /\ answer' = [answer EXCEPT ![r] = FailureOutcome(sel[r].primary)]
      /\ source' = [source EXCEPT ![r] = NoModel]
  BY <1>1, <1>2, ViewOfOne
<1>5. Promise!Candidates(sel[r]) \subseteq LostF'[r]
  <2>1. Chain(r) = Fallbacks[sel[r].task] /\ Chain(r) \in Seq(Models)
        /\ sel[r].primary \in Models
    BY <1>1 DEF Chain, Selection
  <2>2. Lost(r, sel[r].primary) /\ LostBefore(r, pos[r])
    BY <1>1 DEF Knows
  <2>3. \A i \in 1..Len(Chain(r)) : Chain(r)[i] \in Available =>
          Lost(r, Chain(r)[i]) /\ Chain(r)[i] \in Models
    BY <1>1, <2>1, <2>2 DEF LostBefore
  <2> QED BY <1>3, <2>1, <2>2, <2>3 DEF Promise!Candidates, Promise!Places, Losers, Lost
<1>6. Promise!Despair(r)
  BY <1>3, <1>4, <1>5 DEF Promise!Despair, Promise!Trying, Promise!Fail, Promise!Tell,
     Promise!Told, FailureOutcome, Outcome, StageF, LostF, GivenF, MemoF
<1> QED BY <1>6 DEF Seen, Promise!Next

LEMMA StoreRefines ==
  ASSUME FInv, TypeOK', NEW r \in Requests, Store(r)
  PROVE  Seen
<1> DEFINE m == at[r]
           o == Outcome(TRUE, m, m # sel[r].primary, FALSE)
<1>1. /\ TypeOK /\ OnlyFor(r) /\ pc[r] = "store" /\ UNCHANGED <<sel, at, pos, fate>>
      /\ m \in Models /\ Key(r) \in Keys /\ cache \in [Keys -> Entries]
      /\ cache' = [cache EXCEPT ![Key(r)] = Entry(m)] \/ UNCHANGED cache
      /\ pc'[r] = "done" /\ source'[r] = m /\ answer'[r] = o
  BY StoreDoes DEF FInv, IInv, TypeOK, Key, Keys, Selection
<1> HIDE DEF m, o
<1>2. /\ Stage(r) = "open" /\ Stage(r)' = "settled" /\ Losers(r)' = Losers(r)
      /\ InHand(r) = m /\ InHand(r)' = NoModel
  BY <1>1 DEF Stage, Losers, InHand, m
<1>3. /\ StageF[r] = "open" /\ GivenF[r] = m /\ UNCHANGED <<sel, LostF>>
      /\ StageF' = [StageF EXCEPT ![r] = "settled"]
      /\ GivenF' = [GivenF EXCEPT ![r] = NoModel]
      /\ answer' = [answer EXCEPT ![r] = o]
      /\ source' = [source EXCEPT ![r] = m]
  BY <1>1, <1>2, SameView, ViewOfOne
<1>4. MemoF' = [MemoF EXCEPT ![Key(r)] = m] \/ MemoF' = MemoF
  <2>1. Entry(m).by = m
    BY DEF Entry
  <2> QED BY <1>1, <2>1 DEF MemoF
<1>5. m # NoModel
  BY <1>1, NoModelAssumption
<1>6. Promise!Deliver(r)
  BY <1>3, <1>4, <1>5 DEF Promise!Deliver, Promise!Tell, Promise!Told, Outcome, Key,
     StageF, LostF, GivenF, MemoF, o
<1> QED BY <1>6 DEF Seen, Promise!Next

LEMMA OperatorRefines ==
  ASSUME FInv, Operate \/ Tick
  PROVE  Seen
<1>1. /\ UNCHANGED local
      /\ \A k \in Keys : cache'[k] = cache[k] \/ cache'[k] = NoEntry
  BY OperatorsChange DEF FInv
<1>2. UNCHANGED <<StageF, sel, LostF, GivenF, answer, source>>
  BY <1>1 DEF local, StageF, LostF, GivenF, Stage, Losers, InHand
<1> DEFINE K == {k \in Keys : cache'[k] = NoEntry}
<1>3. MemoF' = [k \in Keys |-> IF k \in K THEN NoModel ELSE MemoF[k]]
  BY <1>1 DEF MemoF, NoEntry
<1>4. K \in SUBSET (Models \X Prompts)
  BY DEF Keys
<1> HIDE DEF K
<1>5. Promise!Forget
  BY <1>2, <1>3, <1>4 DEF Promise!Forget, Keys, StageF, LostF, GivenF, MemoF
<1> QED BY <1>5 DEF Seen, Promise!Next

LEMMA InitRefines == ASSUME Init PROVE Promise!Init
<1>1. StageF = [r \in Requests |-> "unasked"]
  BY DEF Init, StageF, Stage
<1>2. LostF = [r \in Requests |-> {}]
  BY DEF Init, LostF, Losers
<1>3. GivenF = [r \in Requests |-> NoModel]
  BY DEF Init, GivenF, InHand
<1>4. MemoF = [k \in Models \X Prompts |-> NoModel]
  BY DEF Init, MemoF, NoEntry, Keys
<1> QED BY <1>1, <1>2, <1>3, <1>4 DEF Init, Promise!Init, Promise!NoWish, NoSelection,
           Promise!Told, NoAnswer, Outcome, StageF, LostF, GivenF, MemoF

LEMMA NextRefines ==
  ASSUME FInv, [Next]_vars
  PROVE  Seen \/ (CacheEnabled /\ \E r \in Requests : Borrow(r))
<1>1. TypeOK'
  BY NextFInv DEF FInv, IInv
<1>2. CASE \E r \in Requests : Lookup(r)
  <2>1. PICK r \in Requests : Lookup(r)
    BY <1>2
  <2>2. Seen \/ (CacheEnabled /\ Borrow(r))
    BY <1>1, <2>1, LookupRefines
  <2> QED BY <2>2
<1>3. ASSUME NEW r \in Requests, Arrive(r) \/ (Proceed(r) /\ ~Lookup(r)) PROVE Seen
  BY <1>1, <1>3, ArriveRefines, AdmitRefines, CallRefines,
     TryFallbackRefines, GiveUpRefines, StoreRefines DEF Proceed
<1>4. CASE Operate \/ Tick
  BY <1>4, OperatorRefines
<1>5. CASE UNCHANGED vars
  BY <1>5 DEF Seen, View, vars, StageF, LostF, GivenF, MemoF, Stage, Losers, InHand
<1> QED BY <1>2, <1>3, <1>4, <1>5 DEF Next

(* But for borrowed hits the gateway implements the fail-over: whatever    *)
(* the circuits, the clock and the operator do, candidates have their      *)
(* turns in the order of the chain, once each, the first that answers is   *)
(* the answer, a failure means that nobody is left, and any other hit is   *)
(* an answer given before by a candidate; for any number of requests and   *)
(* models, any route and any chain.                                        *)
THEOREM ImplementsTheFailover == Spec => ImplementsButBorrows
<1>1. Init => Promise!Init
  BY InitRefines
<1>2. FInv /\ [Next]_vars =>
          [Promise!Next \/ \E r \in Requests : Borrow(r)]_(Promise!fvars)
  BY NextRefines DEF Seen, View, Promise!fvars, StageF, LostF, GivenF, MemoF
<1> QED BY <1>1, <1>2, FInvariant, PTL DEF Spec, ImplementsButBorrows

(* The cache alone is to blame for the borrowing: with enable_cache off    *)
(* the gateway implements the fail-over without exception.                 *)
THEOREM ImplementsWithoutCache == ASSUME ~CacheEnabled PROVE Spec => Promise!Spec
<1>1. Init => Promise!Init
  BY InitRefines
<1>2. FInv /\ [Next]_vars => [Promise!Next]_(Promise!fvars)
  BY NextRefines DEF Seen, View, Promise!fvars, StageF, LostF, GivenF, MemoF
<1> QED BY <1>1, <1>2, FInvariant, PTL DEF Spec, Promise!Spec
=============================================================================
