--------------------------- MODULE CircuitBreaker ---------------------------
(***************************************************************************)
(* One ModelCircuitBreaker shared by the threads of the executor.  A       *)
(* thread asks is_available, which takes the lock twice when the circuit   *)
(* is half open (once for the state, once for the slot), makes its call    *)
(* with no lock held, and records the result.  The operator may reset the  *)
(* breaker and read its status at any time.                                *)
(***************************************************************************)
EXTENDS BreakerOps, FiniteSets

CONSTANT Threads

VARIABLES
    breaker,   \* the record of ModelCircuitBreaker
    pc,        \* where each thread is
    probes     \* history: calls admitted by this half-open episode

vars == <<breaker, pc, probes>>

Idle    == "idle"        \* not using this breaker
AtSlot  == "slot"        \* is_available read HALF_OPEN, lock released
Calling == "calling"     \* admitted; the call has not been recorded yet

Init ==
    /\ breaker = NewBreaker
    /\ pc = [t \in Threads |-> Idle]
    /\ probes = 0

-----------------------------------------------------------------------------
CheckNotClosed(t) ==              \* "not CLOSED" taken for HALF_OPEN
    /\ pc[t] = Idle
    /\ breaker' = Look(breaker)
    /\ probes' = IF Due(breaker) THEN 0 ELSE probes
    /\ pc' = [pc EXCEPT ![t] = IF breaker'.state = Closed THEN Calling ELSE AtSlot]

(* is_available, first locked section, and the branch on what it read.     *)
Check(t) ==
    /\ pc[t] = Idle
    /\ breaker' = Look(breaker)
    /\ probes' = IF Due(breaker) THEN 0 ELSE probes
    /\ \/ breaker'.state = Closed   /\ pc' = [pc EXCEPT ![t] = Calling]
       \/ breaker'.state = HalfOpen /\ pc' = [pc EXCEPT ![t] = AtSlot]
       \/ breaker'.state = Open     /\ UNCHANGED pc

(* is_available, second locked section: the slot is compared and not taken.*)
CompareSlot(t) ==
    /\ pc[t] = AtSlot
    /\ pc' = [pc EXCEPT ![t] = IF SlotFree(breaker) THEN Calling ELSE Idle]
    /\ probes' = IF SlotFree(breaker) /\ breaker.state = HalfOpen
                     /\ probes <= HalfOpenMaxCalls
                  THEN probes + 1 ELSE probes
    /\ UNCHANGED breaker

CallSucceeds(t) ==
    /\ pc[t] = Calling
    /\ breaker' = RecordSuccess(breaker)
    /\ pc' = [pc EXCEPT ![t] = Idle]
    /\ UNCHANGED probes

CallFails(t) ==
    /\ pc[t] = Calling
    /\ breaker' = RecordFailure(breaker)
    /\ pc' = [pc EXCEPT ![t] = Idle]
    /\ UNCHANGED probes

(* reset: POST /circuit-breakers/reset.                                    *)
ResetBreaker ==
    /\ breaker' = Reset(breaker)
    /\ UNCHANGED <<pc, probes>>

(* get_status and get_open_circuits look at the state, and so may flip it. *)
ReadStatus ==
    /\ breaker' = Look(breaker)
    /\ probes' = IF Due(breaker) THEN 0 ELSE probes
    /\ UNCHANGED pc

Tick ==
    /\ breaker' = Older(breaker)
    /\ UNCHANGED <<pc, probes>>

Step(t) == Check(t) \/ CompareSlot(t) \/ CallSucceeds(t) \/ CallFails(t)

Next == (\E t \in Threads : Step(t)) \/ ResetBreaker \/ ReadStatus \/ Tick

Spec == Init /\ [][Next]_vars

(* Time passes; a thread goes on, and a call that was made ends, because   *)
(* chat_completion_http has a timeout and its result is always recorded.   *)
(* Nothing in the breaker wakes up by itself: that it leaves OPEN takes    *)
(* requests for the model that keep arriving, the fairness of Check.       *)
Returns(t) == CompareSlot(t) \/ CallSucceeds(t) \/ CallFails(t)
Asked == \E t \in Threads : Check(t)

FairSpec ==
    /\ Spec
    /\ WF_vars(Tick)
    /\ WF_vars(Asked)
    /\ \A t \in Threads : WF_vars(Returns(t))

-----------------------------------------------------------------------------
TypeOK ==
    /\ breaker \in Breaker
    /\ pc \in [Threads -> {Idle, AtSlot, Calling}]
    /\ probes \in 0..HalfOpenMaxCalls + 1

(* A closed circuit has not seen failure_threshold failures in a row,      *)
(* whatever the order in which concurrent calls record their results.      *)
ClosedBelowThreshold ==
    breaker.state = Closed => breaker.streak < FailureThreshold

(* An open circuit always knows when it failed: Look never finds an OPEN   *)
(* breaker without a failure time, which would never leave OPEN.  reset    *)
(* clears the time, so it must clear the state in the same locked section. *)
OpenKnowsItsFailure == breaker.state = Open => breaker.age # NoFailure

(* A half-open circuit was quiet: the age of the last failure is still the *)
(* whole recovery period, so that no failure has been recorded since the   *)
(* episode began without closing it.                                       *)
HalfOpenWasQuiet == breaker.state = HalfOpen => breaker.age = Elapsed

(* Late successes do not heal: a success of a call that was admitted       *)
(* before the circuit opened leaves it OPEN.  Only reset goes from OPEN to *)
(* CLOSED directly, and then nothing of the old record survives.           *)
OpenClosesOnlyByReset ==
    [][breaker.state = Open /\ breaker'.state = Closed => breaker' = NewBreaker]_vars

(* While the circuit stays OPEN the set of threads that may call shrinks:  *)
(* whoever gets through had already read HALF_OPEN.                        *)
OpenAdmitsNobodyNew ==
    [][breaker.state = Open /\ breaker'.state = Open =>
         {t \in Threads : pc'[t] # Idle} \subseteq {t \in Threads : pc[t] # Idle}]_vars

(* Auto-recovery: while requests keep arriving an OPEN circuit does not    *)
(* stay OPEN, even though the calls that were in flight when it opened may *)
(* still fail, one after the other, and each of them prolongs the outage.  *)
AutoRecovery == breaker.state = Open ~> breaker.state # Open

(* The breaker implements the promise: threads, the clock and what a       *)
(* breaker that is not closed remembers of its strikes are hidden.         *)
Promise == INSTANCE BreakerPromise WITH
    Limit   <- FailureThreshold,
    mode    <- breaker.state,
    strikes <- IF breaker.state = Closed THEN breaker.streak ELSE 0,
    rested  <- Due(breaker)

ImplementsPromise == Promise!Spec

-----------------------------------------------------------------------------
(* half_open_max_calls: int = 1 (circuit_breaker.py:44).  A half-open      *)
(* episode admits no more calls than that.                                 *)
HalfOpenLimit == probes <= HalfOpenMaxCalls
=============================================================================
