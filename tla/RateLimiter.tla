---------------------------- MODULE RateLimiter ----------------------------
(***************************************************************************)
(* RateLimiter and TokenBucket (app/middleware/rate_limit.py): a bucket    *)
(* per client, created when the client is first seen and forgotten when it *)
(* has been idle.  dispatch runs in the event loop and does not await      *)
(* between the clean-up and the answer, so a request is one step.          *)
(*                                                                         *)
(* Time passes in ticks of 1/Second of a second.  The code counts tokens   *)
(* in floats; here a token is One units, where One is also the length of   *)
(* the window in ticks, so that a tick refills Rate units exactly and      *)
(* every quantity of the code is an integer.                               *)
(***************************************************************************)
EXTENDS Integers

CONSTANTS
    Clients,
    Rate,        \* default_rate; the middleware is installed if it is > 0
    Window,      \* default_window, in seconds
    Second,      \* ticks in a second
    Interval,    \* _cleanup_interval, in ticks
    Horizon      \* bound: the clock stops here

ASSUME RateAssumption == Rate \in Nat \ {0}
ASSUME WindowAssumption == Window \in Nat \ {0}
ASSUME SecondAssumption == Second \in Nat \ {0}
ASSUME IntervalAssumption == Interval \in Nat \ {0}
ASSUME HorizonAssumption == Horizon \in Nat

VARIABLES
    now,           \* time.monotonic()
    known,         \* the clients that have a bucket
    tokens,        \* its tokens, and
    last_refill,   \*   when they were counted
    last_cleanup,
    mark,          \* history: when an observer began to count
    seen,          \* history: the requests let through since then
    told           \* history: when Retry-After lets a client come back,
                   \*   0 if it is not waiting

vars == <<now, known, tokens, last_refill, last_cleanup, mark, seen, told>>

-----------------------------------------------------------------------------
One == Window * Second
Full == Rate * One
AtMost(a, b) == IF a < b THEN a ELSE b

Init ==
    /\ now = 0
    /\ known = {}
    /\ tokens = [c \in Clients |-> 0]
    /\ last_refill = [c \in Clients |-> 0]
    /\ last_cleanup = 0
    /\ mark = 0
    /\ seen = [c \in Clients |-> 0]
    /\ told = [c \in Clients |-> 0]

(* Slips a change to the code could make stand before the definition they  *)
(* alter; each of them breaks a property.                                  *)
UncappedRefill(c) == tokens[c] + (now - last_refill[c]) * Rate

(* What a bucket holds by now: refilled for the time that has passed, and  *)
(* never beyond the rate.                                                  *)
Refilled(c) == AtMost(Full, tokens[c] + (now - last_refill[c]) * Rate)

(* What a request of c would find: a client without a bucket gets a full   *)
(* one.                                                                    *)
Tokens(c) == IF c \in known THEN Refilled(c) ELSE Full

StaleSoon == {c \in known : 2 * (now - last_refill[c]) > One}  \* window / 2

(* _maybe_cleanup forgets who has been idle for two windows.               *)
CleanupDue == now - last_cleanup >= Interval
Stale == {c \in known : now - last_refill[c] > 2 * One}

LateByNothing(left) == Second * ((One - left) \div (Rate * Second))  \* no "+ 1"

(* Retry-After in ticks: the seconds that are missing, truncated, and one. *)
RetryAfter(left) == Second * ((One - left) \div (Rate * Second) + 1)

(* A request of c that is not for an exempt path: clean-up if it is due,   *)
(* a bucket if c has none (any more), refill, and a token if there is one. *)
Request(c) ==
    LET kept == IF CleanupDue THEN known \ Stale ELSE known
        found == IF c \in kept THEN Refilled(c) ELSE Full
        allowed == found >= One
        left == IF allowed THEN found - One ELSE found
    IN  /\ known' = kept \cup {c}
        /\ last_cleanup' = IF CleanupDue THEN now ELSE last_cleanup
        /\ tokens' = [tokens EXCEPT ![c] = left]
        /\ last_refill' = [last_refill EXCEPT ![c] = now]
        /\ seen' = IF allowed THEN [seen EXCEPT ![c] = @ + 1] ELSE seen
        /\ told' = [told EXCEPT ![c] = IF allowed THEN 0 ELSE now + RetryAfter(left)]
        /\ UNCHANGED <<now, mark>>

Tick ==
    /\ now < Horizon
    /\ now' = now + 1
    /\ UNCHANGED <<known, tokens, last_refill, last_cleanup, mark, seen, told>>

(* The observer begins to count, at any time.                              *)
Observe ==
    /\ mark' = now
    /\ seen' = [c \in Clients |-> 0]
    /\ UNCHANGED <<now, known, tokens, last_refill, last_cleanup, told>>

Next == (\E c \in Clients : Request(c)) \/ Tick \/ Observe

Spec == Init /\ [][Next]_vars

-----------------------------------------------------------------------------
TypeOK ==
    /\ now \in 0..Horizon
    /\ known \subseteq Clients
    /\ tokens \in [Clients -> 0..Full]
    /\ last_refill \in [Clients -> 0..now]
    /\ last_cleanup \in 0..now
    /\ mark \in 0..now
    /\ seen \in [Clients -> Nat]
    /\ told \in [Clients -> Nat]

(* From whatever moment one counts, a client is let through at most Rate   *)
(* times at once and Rate times per window from then on; clean-up and the  *)
(* new bucket after it never give more.                                    *)
BurstBound == \A c \in Clients : seen[c] * One <= Full + Rate * (now - mark)

(* A client that comes back when Retry-After says so, and has not come     *)
(* before, finds a token.                                                  *)
RetryAfterSuffices ==
    \A c \in Clients : told[c] # 0 /\ told[c] <= now => Tokens(c) >= One

(* Who is idle is forgotten: the buckets kept belong to clients that came  *)
(* within two windows and a clean-up interval of the latest request.       *)
IdleAreForgotten ==
    \A c, d \in known : last_refill[d] - last_refill[c] < 2 * One + Interval

(* What a client finds changes, apart from the refill, only by its own     *)
(* requests and only by the tokens they are let through with: neither a    *)
(* clean-up nor another client's request gives or takes any.               *)
ChargedOnlyWhenAdmitted ==
    [][\A c \in Clients :
         \/ now' # now
         \/ Tokens(c)' = Tokens(c)
         \/ seen'[c] = seen[c] + 1 /\ Tokens(c)' = Tokens(c) - One]_vars
=============================================================================
