----------------------------- MODULE BreakerOps -----------------------------
(***************************************************************************)
(* The data of one ModelCircuitBreaker and what its locked sections do to  *)
(* it (app/circuit_breaker.py).  Every operator is the body of one         *)
(* "with self._lock" block: a function of the breaker's record.            *)
(*                                                                         *)
(* Time: the code compares time.time() - last_failure_time with            *)
(* recovery_timeout.  The record keeps the AGE of the last failure, in     *)
(* clock ticks, saturated at RecoveryTimeout + 1: no comparison of the     *)
(* code tells larger ages apart.  In the same way consecutive_failures is  *)
(* saturated at FailureThreshold, the only value it is compared with.      *)
(* The counters that are only reported (failures, successes,               *)
(* total_requests) and the timestamps that are only reported are left out. *)
(***************************************************************************)
EXTENDS Integers

CONSTANTS
    FailureThreshold,   \* failure_threshold, NVIDIA_BRIDGE_CB_THRESHOLD
    RecoveryTimeout,    \* recovery_timeout in ticks, NVIDIA_BRIDGE_CB_RECOVERY
    HalfOpenMaxCalls    \* half_open_max_calls; the registry leaves it at 1

(* A threshold of 0 or less behaves as 1: the first failure opens.         *)
ASSUME ThresholdAssumption == FailureThreshold \in Nat \ {0}
ASSUME RecoveryAssumption == RecoveryTimeout \in Nat
ASSUME HalfOpenAssumption == HalfOpenMaxCalls \in Nat \ {0}

Closed   == "closed"
Open     == "open"
HalfOpen == "half_open"
CircuitState == {Closed, Open, HalfOpen}

NoFailure == -1                        \* last_failure_time is None
Elapsed == RecoveryTimeout + 1         \* any age > recovery_timeout
Ages == {NoFailure} \cup 0..Elapsed

Breaker == [state      : CircuitState,
            streak     : 0..FailureThreshold,   \* consecutive_failures
            age        : Ages,                  \* now - last_failure_time
            half_calls : 0..HalfOpenMaxCalls]   \* _half_open_calls

NewBreaker == [state |-> Closed, streak |-> 0, age |-> NoFailure, half_calls |-> 0]

-----------------------------------------------------------------------------
(* The state property: an OPEN breaker whose last failure is older than    *)
(* the recovery timeout turns HALF_OPEN when somebody looks at it.         *)
Due(b) == b.state = Open /\ b.age # NoFailure /\ b.age > RecoveryTimeout

Look(b) == IF Due(b) THEN [b EXCEPT !.state = HalfOpen, !.half_calls = 0] ELSE b

(* The second locked section of is_available.                              *)
SlotFree(b) == b.half_calls < HalfOpenMaxCalls

(* Slips a change to the recording code could make; each one breaks a      *)
(* property of CircuitBreaker.  The operators of the code follow them.     *)
SuccessAlwaysCloses(b) ==         \* the HALF_OPEN test dropped
    [b EXCEPT !.streak = 0, !.state = Closed]

RecordSuccess(b) ==
    [b EXCEPT !.streak = 0,
              !.state  = IF b.state = HalfOpen THEN Closed ELSE b.state]

NextStreak(b) == IF b.streak < FailureThreshold THEN b.streak + 1 ELSE b.streak

FailureByStreakOnly(b) ==         \* the HALF_OPEN branch dropped
    [b EXCEPT !.streak = NextStreak(b), !.age = 0,
              !.state = IF NextStreak(b) >= FailureThreshold THEN Open ELSE b.state]
FailureNotStamped(b) ==           \* last_failure_time not renewed in HALF_OPEN
    [b EXCEPT !.streak = NextStreak(b),
              !.age = IF b.state = HalfOpen THEN b.age ELSE 0,
              !.state = IF b.state = HalfOpen \/ NextStreak(b) >= FailureThreshold
                        THEN Open ELSE b.state]
FailureForgotten(b) ==            \* statistics replaced when the circuit opens
    IF b.state = HalfOpen \/ NextStreak(b) >= FailureThreshold
    THEN [NewBreaker EXCEPT !.state = Open]
    ELSE [b EXCEPT !.streak = NextStreak(b), !.age = 0]

RecordFailure(b) ==
    [b EXCEPT !.streak = NextStreak(b),
              !.age    = 0,
              !.state  = IF b.state = HalfOpen \/ NextStreak(b) >= FailureThreshold
                         THEN Open ELSE b.state]

Reset(b) == NewBreaker

(* One tick of the clock.                                                  *)
Older(b) == IF b.age \in 0..RecoveryTimeout THEN [b EXCEPT !.age = @ + 1] ELSE b
=============================================================================
