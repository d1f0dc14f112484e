------------------------ MODULE CircuitBreakerProofs ------------------------
(***************************************************************************)
(* CircuitBreaker for every number of threads, threshold and timeout.      *)
(* The four invariants are proved together: the inductive step of each     *)
(* needs the types, and that of OpenKnowsItsFailure nothing else, while    *)
(* HalfOpenWasQuiet is what makes the refinement's Heal and Relapse match  *)
(* (a half-open breaker is never due).                                     *)
(***************************************************************************)
EXTENDS CircuitBreaker, TLAPS

IInv ==
    /\ TypeOK
    /\ ClosedBelowThreshold
    /\ OpenKnowsItsFailure
    /\ HalfOpenWasQuiet

USE ThresholdAssumption, RecoveryAssumption, HalfOpenAssumption

(* What the locked sections do to a breaker that satisfies the invariant.  *)
Sound(b) ==
    /\ b \in Breaker
    /\ b.state = Closed => b.streak < FailureThreshold
    /\ b.state = Open => b.age # NoFailure
    /\ b.state = HalfOpen => b.age = Elapsed

(* A new breaker, made by the constructor or by reset, is sound.           *)
LEMMA NewSound == Sound(NewBreaker)
  BY DEF Sound, NewBreaker, Breaker, CircuitState, Ages, Closed, Open, HalfOpen,
         NoFailure, Elapsed

(* Looking at the state, and with it the lazy move to HALF_OPEN, keeps a   *)
(* breaker sound.                                                          *)
LEMMA LookSound == ASSUME NEW b, Sound(b) PROVE Sound(Look(b))
<1>1. CASE Due(b)
  <2>1. Look(b) = [state |-> HalfOpen, streak |-> b.streak, age |-> b.age, half_calls |-> 0]
    BY <1>1 DEF Look, Sound, Breaker
  <2>2. b.age = Elapsed
    BY <1>1 DEF Due, Sound, Breaker, Ages, Elapsed, NoFailure
  <2> QED
    BY <2>1, <2>2 DEF Sound, Breaker, CircuitState, Closed, Open, HalfOpen
<1>2. CASE ~Due(b)
  BY <1>2 DEF Look
<1> QED BY <1>1, <1>2

(* Recording a success keeps a breaker sound.                              *)
LEMMA SuccessSound == ASSUME NEW b, Sound(b) PROVE Sound(RecordSuccess(b))
<1> DEFINE next == IF b.state = HalfOpen THEN Closed ELSE b.state
           r    == RecordSuccess(b)
<1>1. r.state = next /\ r.streak = 0 /\ r.age = b.age
  BY DEF RecordSuccess, Sound, Breaker
<1>2. next \in CircuitState /\ next # HalfOpen /\ (next = Open => b.state = Open)
  BY DEF Sound, Breaker, CircuitState, Closed, Open, HalfOpen
<1>3. r \in Breaker
  <2>1. r = [b EXCEPT !.streak = 0, !.state = next]
    BY DEF RecordSuccess
  <2>2. 0 \in 0..FailureThreshold
    OBVIOUS
  <2> HIDE DEF next, r
  <2> QED BY <1>2, <2>1, <2>2 DEF Sound, Breaker
<1> HIDE DEF next, r
<1>4. Sound(r)
  BY <1>1, <1>2, <1>3 DEF Sound
<1> QED BY <1>4 DEF r

(* Recording a failure keeps a breaker sound.                              *)
LEMMA FailureSound == ASSUME NEW b, Sound(b) PROVE Sound(RecordFailure(b))
<1> DEFINE next == IF b.state = HalfOpen \/ NextStreak(b) >= FailureThreshold
                   THEN Open ELSE b.state
           r    == RecordFailure(b)
<1>1. r.state = next /\ r.streak = NextStreak(b) /\ r.age = 0
  BY DEF RecordFailure, Sound, Breaker
<1>2. NextStreak(b) \in 0..FailureThreshold
  BY DEF NextStreak, Sound, Breaker
<1>3. /\ next \in CircuitState
      /\ next # HalfOpen
      /\ next = Closed => NextStreak(b) < FailureThreshold
  BY <1>2 DEF Sound, Breaker, CircuitState, Closed, Open, HalfOpen
<1>4. 0 \in Ages /\ 0 # NoFailure
  BY DEF Ages, Elapsed, NoFailure
<1>5. r \in Breaker
  BY <1>2, <1>3, <1>4 DEF RecordFailure, Sound, Breaker
<1> HIDE DEF next, r
<1>6. Sound(r)
  BY <1>1, <1>2, <1>3, <1>4, <1>5 DEF Sound
<1> QED BY <1>6 DEF r

(* Time that passes keeps a breaker sound.                                 *)
LEMMA OlderSound == ASSUME NEW b, Sound(b) PROVE Sound(Older(b))
  BY DEF Sound, Older, Breaker, CircuitState, Ages, Closed, Open, HalfOpen,
         NoFailure, Elapsed

-----------------------------------------------------------------------------
(* The control part of the type invariant, one step per action.            *)
Places == {Idle, AtSlot, Calling}
ControlOK == pc \in [Threads -> Places] /\ probes \in 0..HalfOpenMaxCalls + 1

(* The invariant is the soundness of the breaker and the control part.     *)
LEMMA Split == IInv <=> Sound(breaker) /\ ControlOK
  BY DEF IInv, TypeOK, ClosedBelowThreshold, OpenKnowsItsFailure, HalfOpenWasQuiet,
         Sound, ControlOK, Places

(* The invariant is inductive.                                             *)
LEMMA Inductive == IInv /\ [Next]_vars => IInv'
<1> SUFFICES ASSUME Sound(breaker), ControlOK, [Next]_vars
             PROVE  Sound(breaker)' /\ ControlOK'
  <2>1. IInv' <=> Sound(breaker)' /\ ControlOK'
    BY Split, PTL
  <2> QED BY Split, <2>1
<1>1. ASSUME NEW t \in Threads, Check(t) PROVE Sound(breaker)' /\ ControlOK'
  <2>1. Sound(breaker')
    BY <1>1, LookSound DEF Check
  <2>2. ControlOK'
    BY <1>1 DEF Check, ControlOK, Places
  <2> QED BY <2>1, <2>2 DEF Sound
<1>2. ASSUME NEW t \in Threads, CompareSlot(t) PROVE Sound(breaker)' /\ ControlOK'
  BY <1>2 DEF CompareSlot, ControlOK, Places, Sound
<1>3. ASSUME NEW t \in Threads, CallSucceeds(t) PROVE Sound(breaker)' /\ ControlOK'
  <2>1. Sound(breaker')
    BY <1>3, SuccessSound DEF CallSucceeds
  <2>2. ControlOK'
    BY <1>3 DEF CallSucceeds, ControlOK, Places
  <2> QED BY <2>1, <2>2 DEF Sound
<1>4. ASSUME NEW t \in Threads, CallFails(t) PROVE Sound(breaker)' /\ ControlOK'
  <2>1. Sound(breaker')
    BY <1>4, FailureSound DEF CallFails
  <2>2. ControlOK'
    BY <1>4 DEF CallFails, ControlOK, Places
  <2> QED BY <2>1, <2>2 DEF Sound
<1>5. CASE ResetBreaker
  <2>1. Sound(breaker')
    BY <1>5, NewSound DEF ResetBreaker, Reset
  <2>2. ControlOK'
    BY <1>5 DEF ResetBreaker, ControlOK
  <2> QED BY <2>1, <2>2 DEF Sound
<1>6. CASE ReadStatus
  <2>1. Sound(breaker')
    BY <1>6, LookSound DEF ReadStatus
  <2>2. ControlOK'
    BY <1>6 DEF ReadStatus, ControlOK
  <2> QED BY <2>1, <2>2 DEF Sound
<1>7. CASE Tick
  <2>1. Sound(breaker')
    BY <1>7, OlderSound DEF Tick
  <2>2. ControlOK'
    BY <1>7 DEF Tick, ControlOK
  <2> QED BY <2>1, <2>2 DEF Sound
<1>8. CASE UNCHANGED vars
  BY <1>8 DEF vars, ControlOK, Sound
<1> QED BY <1>1, <1>2, <1>3, <1>4, <1>5, <1>6, <1>7, <1>8 DEF Next, Step

(* Every reachable state of the breaker satisfies the invariant, for any   *)
(* number of threads and any interleaving of their checks and records.     *)
LEMMA Invariance == Spec => []IInv
<1>1. Init => IInv
  <2>1. Init => Sound(breaker)
    BY NewSound DEF Init
  <2>2. Init => ControlOK
    BY DEF Init, ControlOK, Places
  <2> QED BY <2>1, <2>2, Split
<1> QED BY <1>1, Inductive, PTL DEF Spec

-----------------------------------------------------------------------------
(* The record, the program counters and the history keep their types.      *)
THEOREM TypeCorrect == Spec => []TypeOK
BY Invariance, PTL DEF IInv

(* However concurrent calls interleave, a closed circuit has fewer than    *)
(* failure_threshold failures in a row on its record: record_failure opens *)
(* in time, and every way back to CLOSED clears the streak.                *)
THEOREM ClosedIsHealthy == Spec => []ClosedBelowThreshold
BY Invariance, PTL DEF IInv

(* A circuit is never stuck OPEN for want of a failure time.               *)
THEOREM OpenCanRecover == Spec => []OpenKnowsItsFailure
BY Invariance, PTL DEF IInv

(* A half-open circuit has been quiet for the whole recovery period.       *)
THEOREM QuietWhenHalfOpen == Spec => []HalfOpenWasQuiet
BY Invariance, PTL DEF IInv

-----------------------------------------------------------------------------
(* The late success of a call admitted before the outage does not close an *)
(* OPEN circuit: only reset does.                                          *)
THEOREM LateSuccessDoesNotHeal == Spec => OpenClosesOnlyByReset
<1>1. IInv /\ [Next]_vars
        => [breaker.state = Open /\ breaker'.state = Closed => breaker' = NewBreaker]_vars
  <2> SUFFICES ASSUME IInv, [Next]_vars, breaker.state = Open, breaker'.state = Closed
               PROVE  breaker' = NewBreaker
    OBVIOUS
  <2>1. breaker \in Breaker
    BY DEF IInv, TypeOK
  <2>2. Look(breaker).state # Closed
    BY <2>1 DEF Look, Breaker, Open, HalfOpen, Closed
  <2>3. RecordSuccess(breaker).state # Closed
    BY <2>1 DEF RecordSuccess, Breaker, Open, HalfOpen, Closed
  <2>4. RecordFailure(breaker).state # Closed
    BY <2>1 DEF RecordFailure, Breaker, Open, HalfOpen, Closed
  <2>5. Older(breaker).state # Closed
    BY <2>1 DEF Older, Breaker, Open, Closed
  <2>6. breaker' # breaker
    BY DEF Open, Closed
  <2> QED
    BY <2>2, <2>3, <2>4, <2>5, <2>6
    DEF Next, Step, Check, CompareSlot, CallSucceeds, CallFails, ResetBreaker, Reset,
        ReadStatus, Tick, vars
<1> QED BY Invariance, <1>1, PTL DEF Spec, OpenClosesOnlyByReset

(* While a circuit stays OPEN, no thread that was not already past the     *)
(* state check gets to call.                                               *)
THEOREM OpenShutsOut == Spec => OpenAdmitsNobodyNew
<1>1. IInv /\ [Next]_vars
        => [breaker.state = Open /\ breaker'.state = Open =>
              {t \in Threads : pc'[t] # Idle} \subseteq {t \in Threads : pc[t] # Idle}]_vars
  <2> SUFFICES ASSUME IInv, [Next]_vars, breaker.state = Open, breaker'.state = Open,
                      NEW t \in Threads, pc'[t] # Idle
               PROVE  pc[t] # Idle
    OBVIOUS
  <2>1. ASSUME NEW u \in Threads, Check(u) PROVE pc' = pc
    BY <2>1 DEF Check, Open, Closed, HalfOpen
  <2>2. ASSUME NEW u \in Threads, CompareSlot(u) \/ CallSucceeds(u) \/ CallFails(u)
        PROVE  pc[u] # Idle /\ (t # u => pc'[t] = pc[t])
    BY <2>2 DEF CompareSlot, CallSucceeds, CallFails, IInv, TypeOK, Idle, AtSlot, Calling
  <2> QED
    BY <2>1, <2>2 DEF Next, Step, ResetBreaker, ReadStatus, Tick, vars
<1> QED BY Invariance, <1>1, PTL DEF Spec, OpenAdmitsNobodyNew

-----------------------------------------------------------------------------
(* The abstract view of a breaker, as the refinement mapping computes it.  *)
StrikesOf(b) == IF b.state = Closed THEN b.streak ELSE 0

(* Looking at a due breaker is the promise's Try; nothing else happens.    *)
LEMMA LookRefines ==
  ASSUME Sound(breaker), breaker' = Look(breaker)
  PROVE  Promise!Try \/ UNCHANGED <<breaker.state, StrikesOf(breaker), Due(breaker)>>
<1>1. CASE Due(breaker)
  <2>1. breaker.state = Open /\ breaker'.state = HalfOpen
    BY <1>1 DEF Look, Due, Sound, Breaker
  <2> QED
    BY <1>1, <2>1 DEF Promise!Try, Due, Open, HalfOpen, Closed
<1>2. CASE ~Due(breaker)
  BY <1>2 DEF Look
<1> QED BY <1>1, <1>2

(* Recording a success is Clear, Heal or, while OPEN, nothing.             *)
LEMMA SuccessRefines ==
  ASSUME Sound(breaker), breaker' = RecordSuccess(breaker)
  PROVE  \/ Promise!Clear \/ Promise!Heal
         \/ UNCHANGED <<breaker.state, StrikesOf(breaker), Due(breaker)>>
<1>1. /\ breaker'.state = IF breaker.state = HalfOpen THEN Closed ELSE breaker.state
      /\ breaker'.streak = 0 /\ breaker'.age = breaker.age
  BY DEF RecordSuccess, Sound, Breaker
<1>2. breaker.state \in CircuitState
  BY DEF Sound, Breaker
<1> QED
  BY <1>1, <1>2 DEF Promise!Clear, Promise!Heal, StrikesOf, Due, CircuitState,
                    Open, HalfOpen, Closed

(* Recording a failure is Strike or Trip when CLOSED, Relapse when         *)
(* HALF_OPEN, and Prolong when OPEN.                                       *)
LEMMA FailureRefines ==
  ASSUME Sound(breaker), breaker' = RecordFailure(breaker)
  PROVE  Promise!Strike \/ Promise!Trip \/ Promise!Relapse \/ Promise!Prolong
<1>1. /\ breaker'.state = IF breaker.state = HalfOpen \/ NextStreak(breaker) >= FailureThreshold
                          THEN Open ELSE breaker.state
      /\ breaker'.streak = NextStreak(breaker) /\ breaker'.age = 0
  BY DEF RecordFailure, Sound, Breaker
<1>2. breaker.state \in CircuitState /\ breaker.streak \in 0..FailureThreshold
  BY DEF Sound, Breaker
<1>3. Due(breaker)' = FALSE
  BY <1>1 DEF Due
<1>4. CASE breaker.state = Closed
  <2>1. breaker.streak < FailureThreshold /\ NextStreak(breaker) = breaker.streak + 1
    BY <1>4 DEF Sound, NextStreak
  <2>2. Due(breaker) = FALSE
    BY <1>4 DEF Due, Open, Closed
  <2>3. CASE breaker.streak + 1 < FailureThreshold
    <3>1. breaker'.state = Closed /\ breaker'.streak = breaker.streak + 1
      BY <1>1, <1>2, <1>4, <2>1, <2>3 DEF Closed, HalfOpen
    <3> QED BY <1>3, <1>4, <2>2, <2>3, <3>1 DEF Promise!Strike, Closed
  <2>4. CASE breaker.streak + 1 = FailureThreshold
    <3>1. breaker'.state = Open
      BY <1>1, <1>2, <1>4, <2>1, <2>4 DEF Closed, HalfOpen
    <3> QED BY <1>3, <1>4, <2>4, <3>1 DEF Promise!Trip, Closed, Open
  <2> QED BY <1>2, <2>1, <2>3, <2>4
<1>5. CASE breaker.state = HalfOpen
  <2>1. Due(breaker) = FALSE
    BY <1>5 DEF Due, Open, HalfOpen
  <2>2. breaker'.state = Open
    BY <1>1, <1>5
  <2> QED
    BY <1>3, <1>5, <2>1, <2>2 DEF Promise!Relapse, Open, Closed, HalfOpen
<1>6. CASE breaker.state = Open
  BY <1>1, <1>3, <1>6 DEF Promise!Prolong, StrikesOf, Open, Closed, HalfOpen
<1> QED BY <1>2, <1>4, <1>5, <1>6 DEF CircuitState

(* The breaker implements the promise: every step of the threads, the      *)
(* operator and the clock is a step of BreakerPromise or a stutter.        *)
THEOREM ImplementsThePromise == Spec => ImplementsPromise
<1> DEFINE View == <<breaker.state, StrikesOf(breaker), Due(breaker)>>
<1>1. Init => Promise!Init
  BY DEF Init, Promise!Init, NewBreaker, Due, Closed, Open
<1>2. IInv /\ [Next]_vars => [Promise!Next]_(Promise!pvars)
  <2> SUFFICES ASSUME IInv, [Next]_vars PROVE Promise!Next \/ UNCHANGED View
    BY DEF Promise!pvars, StrikesOf
  <2>1. Sound(breaker)
    BY Split
  <2>2. CASE \E t \in Threads : Check(t)
    BY <2>1, <2>2, LookRefines DEF Check, Promise!Next
  <2>3. CASE \E t \in Threads : CompareSlot(t)
    BY <2>3 DEF CompareSlot
  <2>4. CASE \E t \in Threads : CallSucceeds(t)
    BY <2>1, <2>4, SuccessRefines DEF CallSucceeds, Promise!Next
  <2>5. CASE \E t \in Threads : CallFails(t)
    BY <2>1, <2>5, FailureRefines DEF CallFails, Promise!Next
  <2>6. CASE ResetBreaker
    <3>1. Promise!Override
      BY <2>6 DEF ResetBreaker, Reset, NewBreaker, Promise!Override, Due, Closed, Open
    <3> QED BY <3>1 DEF Promise!Next
  <2>7. CASE ReadStatus
    BY <2>1, <2>7, LookRefines DEF ReadStatus, Promise!Next
  <2>8. CASE Tick
    <3>1. breaker'.state = breaker.state /\ breaker'.streak = breaker.streak
      BY <2>1, <2>8 DEF Tick, Older, Sound, Breaker
    <3>2. Due(breaker) => Due(breaker)'
      BY <2>1, <2>8, <3>1 DEF Tick, Older, Due, Sound, Breaker
    <3>3. CASE Due(breaker) = Due(breaker)'
      BY <3>1, <3>3 DEF StrikesOf
    <3>4. CASE ~Due(breaker) /\ Due(breaker)'
      <4>1. breaker.state = Open
        BY <3>1, <3>4 DEF Due
      <4> QED BY <3>1, <3>4, <4>1 DEF Promise!Next, Promise!Rest, Open
    <3> QED BY <3>2, <3>3, <3>4 DEF Due
  <2>9. CASE UNCHANGED vars
    BY <2>9 DEF vars, StrikesOf, Due
  <2> QED BY <2>2, <2>3, <2>4, <2>5, <2>6, <2>7, <2>8, <2>9 DEF Next, Step
<1> QED BY <1>1, <1>2, Invariance, PTL DEF Spec, ImplementsPromise, Promise!Spec
=============================================================================
