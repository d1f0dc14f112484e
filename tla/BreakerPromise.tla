--------------------------- MODULE BreakerPromise ---------------------------
(***************************************************************************)
(* What a circuit breaker promises, with no threads, no locks and no       *)
(* clock: a closed circuit trips on the last of so many strikes in a row,  *)
(* an open one lets nobody try before it has rested, every failure it      *)
(* hears of starts the rest again, and a trial decides between closing it  *)
(* and opening it again.  CircuitBreaker is shown to implement it.         *)
(***************************************************************************)
EXTENDS Integers

CONSTANT Limit                       \* strikes that trip the circuit, at least 1

VARIABLES mode, strikes, rested
pvars == <<mode, strikes, rested>>

Init == mode = "closed" /\ strikes = 0 /\ rested = FALSE

Strike ==
    /\ mode = "closed" /\ strikes + 1 < Limit
    /\ strikes' = strikes + 1
    /\ UNCHANGED <<mode, rested>>

Trip ==
    /\ mode = "closed" /\ strikes + 1 = Limit
    /\ mode' = "open" /\ strikes' = 0 /\ rested' = FALSE

Clear ==
    /\ mode = "closed"
    /\ strikes' = 0
    /\ UNCHANGED <<mode, rested>>

Rest ==
    /\ mode = "open"
    /\ rested' = TRUE
    /\ UNCHANGED <<mode, strikes>>

Prolong ==
    /\ mode = "open"
    /\ rested' = FALSE
    /\ UNCHANGED <<mode, strikes>>

Try ==
    /\ mode = "open" /\ rested
    /\ mode' = "half_open" /\ rested' = FALSE
    /\ UNCHANGED strikes

Heal ==
    /\ mode = "half_open"
    /\ mode' = "closed"
    /\ UNCHANGED <<strikes, rested>>

Relapse ==
    /\ mode = "half_open"
    /\ mode' = "open"
    /\ UNCHANGED <<strikes, rested>>

Override == mode' = "closed" /\ strikes' = 0 /\ rested' = FALSE

Next == Strike \/ Trip \/ Clear \/ Rest \/ Prolong \/ Try \/ Heal \/ Relapse \/ Override

Spec == Init /\ [][Next]_pvars
=============================================================================
