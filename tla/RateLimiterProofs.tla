------------------------- MODULE RateLimiterProofs -------------------------
(***************************************************************************)
(* Theorems about RateLimiter, for every rate, window, clean-up interval   *)
(* and set of clients.                                                     *)
(***************************************************************************)
EXTENDS RateLimiter, TLAPS

-----------------------------------------------------------------------------
(* Arithmetic.                                                             *)

(* A token has a size, and a full bucket holds at least one.               *)
LEMMA Sizes == /\ One \in Nat \ {0}
               /\ Full \in Nat /\ Full >= One
               /\ Full = Rate * One
BY RateAssumption, WindowAssumption, SecondAssumption, SMT DEF One, Full

(* Multiplying by a natural number is monotone.                            *)
LEMMA Monotone == ASSUME NEW r \in Nat, NEW a \in Int, NEW b \in Int, a <= b
                  PROVE  a * r <= b * r
BY SMT

(* The quotient, rounded up beyond the number, exceeds it.                 *)
LEMMA NextMultiple == ASSUME NEW x \in Nat, NEW d \in Nat \ {0}
                      PROVE  /\ x \div d \in Nat
                             /\ x < d * (x \div d + 1)
BY SMT

(* While a client waits as long as Retry-After says, the missing part of   *)
(* its token is refilled.                                                  *)
LEMMA WaitIsEnough ==
    ASSUME NEW left \in Nat, left < One
    PROVE  /\ RetryAfter(left) \in Nat \ {0}
           /\ left + RetryAfter(left) * Rate >= One
<1> DEFINE d == Rate * Second
           q == (One - left) \div d
<1>1. One - left \in Nat
  BY Sizes, SMT
<1>2. d \in Nat \ {0}
  BY RateAssumption, SecondAssumption, SMT
<1>3. q \in Nat /\ One - left < d * (q + 1)
  <2> HIDE DEF d
  <2> QED BY <1>1, <1>2, NextMultiple
<1>4. RetryAfter(left) = Second * (q + 1)
  BY DEF RetryAfter
<1> HIDE DEF q
<1>5. RetryAfter(left) * Rate = d * (q + 1)
  BY <1>3, <1>4, RateAssumption, SecondAssumption, SMT
<1>6. RetryAfter(left) \in Nat \ {0}
  BY <1>3, <1>4, SecondAssumption, SMT
<1> HIDE DEF d
<1> QED BY <1>1, <1>2, <1>3, <1>5, <1>6, Sizes, SMT

-----------------------------------------------------------------------------
(* What was let through and what is left never exceed a full bucket and    *)
(* the refill since the observer began.                                    *)
Paid == \A c \in Clients : seen[c] * One + Tokens(c) <= Full + Rate * (now - mark)

(* A waiting client that has a bucket is refilled in time.                 *)
Promised ==
    \A c \in Clients : told[c] # 0 /\ c \in known =>
        tokens[c] + (told[c] - last_refill[c]) * Rate >= One

(* Every bucket was used in the two windows before the last clean-up, or   *)
(* in less than an interval after it.                                      *)
Recent ==
    \A c \in known : /\ last_cleanup - 2 * One <= last_refill[c]
                     /\ last_refill[c] < last_cleanup + Interval

IInv == TypeOK /\ Paid /\ Promised /\ Recent

(* The tokens found are a number between none and a full bucket.           *)
LEMMA TokensType ==
    ASSUME TypeOK, NEW c \in Clients
    PROVE  /\ Refilled(c) \in 0..Full
           /\ Tokens(c) \in 0..Full
<1>1. tokens[c] \in 0..Full /\ now - last_refill[c] \in Nat
  BY Sizes, SMT DEF TypeOK
<1>2. (now - last_refill[c]) * Rate \in Nat
  BY <1>1, RateAssumption, SMT
<1> QED
  BY <1>1, <1>2, Sizes, SMT DEF Tokens, Refilled, AtMost

(* A bucket that is forgotten would have been full again: the clean-up     *)
(* does not change what anybody finds.                                     *)
LEMMA StaleIsFull ==
    ASSUME TypeOK, NEW c \in Clients, c \in Stale
    PROVE  Refilled(c) = Full
<1>1. /\ tokens[c] \in 0..Full /\ now - last_refill[c] \in Nat
      /\ now - last_refill[c] >= One
  BY Sizes, SMT DEF TypeOK, Stale
<1> DEFINE idle == now - last_refill[c]
<1>2. One * Rate <= idle * Rate
  BY <1>1, Sizes, RateAssumption, Monotone
<1>3. idle * Rate \in Nat
  BY <1>1, RateAssumption, SMT
<1>4. Full <= tokens[c] + idle * Rate
  BY <1>1, <1>2, <1>3, Sizes, RateAssumption, SMT
<1> QED
  BY <1>1, <1>3, <1>4, Sizes, SMT DEF Refilled, AtMost

(* So a request finds Tokens(c), whether a clean-up comes first or not.    *)
LEMMA RequestFinds ==
    ASSUME TypeOK, NEW c \in Clients, NEW kept,
           kept = IF CleanupDue THEN known \ Stale ELSE known
    PROVE  /\ kept \subseteq known
           /\ (IF c \in kept THEN Refilled(c) ELSE Full) = Tokens(c)
<1>1. kept \subseteq known /\ (c \in known /\ c \notin kept => c \in Stale)
  OBVIOUS
<1> QED
  BY <1>1, StaleIsFull DEF Tokens

(* What a request of c does, without the clean-up.                         *)
LEMMA RequestEffect ==
    ASSUME TypeOK, NEW c \in Clients, Request(c)
    PROVE  /\ known' \subseteq known \cup {c} /\ c \in known'
           /\ \A b \in known : b \notin known' => b \in Stale
           /\ last_refill' = [last_refill EXCEPT ![c] = now]
           /\ UNCHANGED <<now, mark>>
           /\ \/ /\ CleanupDue /\ last_cleanup' = now
                 /\ \A b \in known' : b = c \/ b \notin Stale
              \/ ~CleanupDue /\ UNCHANGED last_cleanup
           /\ \/ /\ Tokens(c) >= One
                 /\ tokens' = [tokens EXCEPT ![c] = Tokens(c) - One]
                 /\ seen' = [seen EXCEPT ![c] = @ + 1]
                 /\ told' = [told EXCEPT ![c] = 0]
              \/ /\ Tokens(c) < One
                 /\ tokens' = [tokens EXCEPT ![c] = Tokens(c)]
                 /\ seen' = seen
                 /\ told' = [told EXCEPT ![c] = now + RetryAfter(Tokens(c))]
<1> DEFINE kept == IF CleanupDue THEN known \ Stale ELSE known
           found == IF c \in kept THEN Refilled(c) ELSE Full
<1>1. found = Tokens(c) /\ kept \subseteq known
  BY RequestFinds
<1>2. Tokens(c) \in 0..Full
  BY TokensType
<1>3. /\ known' = kept \cup {c}
      /\ last_cleanup' = IF CleanupDue THEN now ELSE last_cleanup
      /\ last_refill' = [last_refill EXCEPT ![c] = now]
      /\ UNCHANGED <<now, mark>>
  BY DEF Request
<1>4. /\ tokens' = [tokens EXCEPT ![c] = IF found >= One THEN found - One ELSE found]
      /\ seen' = IF found >= One THEN [seen EXCEPT ![c] = @ + 1] ELSE seen
      /\ told' = [told EXCEPT ![c] =
                    IF found >= One THEN 0
                    ELSE now + RetryAfter(IF found >= One THEN found - One ELSE found)]
  BY DEF Request
<1>5. /\ \A b \in known : b \notin known' => b \in Stale
      /\ CleanupDue => \A b \in known' : b = c \/ b \notin Stale
  BY <1>3
<1>6. CASE Tokens(c) >= One
  <2> HIDE DEF found, kept
  <2>1. /\ tokens' = [tokens EXCEPT ![c] = Tokens(c) - One]
        /\ seen' = [seen EXCEPT ![c] = @ + 1]
        /\ told' = [told EXCEPT ![c] = 0]
    BY <1>1, <1>4, <1>6
  <2> QED BY <1>1, <1>3, <1>5, <1>6, <2>1
<1>7. CASE ~(Tokens(c) >= One)
  <2> HIDE DEF found, kept
  <2>1. /\ tokens' = [tokens EXCEPT ![c] = Tokens(c)]
        /\ seen' = seen
        /\ told' = [told EXCEPT ![c] = now + RetryAfter(Tokens(c))]
    BY <1>1, <1>4, <1>7
  <2>2. Tokens(c) < One
    BY <1>2, <1>7, Sizes, SMT
  <2> QED BY <1>1, <1>3, <1>5, <2>1, <2>2
<1> QED
  BY <1>6, <1>7

(* For a client that does not make a request, nothing changes but the      *)
(* refill.                                                                 *)
LEMMA OthersKeep ==
    ASSUME TypeOK, NEW c \in Clients, Request(c), NEW b \in Clients, b # c
    PROVE  Tokens(b)' = Tokens(b) /\ seen'[b] = seen[b]
<1>1. /\ known' \subseteq known \cup {c}
      /\ \A e \in known : e \notin known' => e \in Stale
      /\ tokens'[b] = tokens[b] /\ last_refill'[b] = last_refill[b]
      /\ seen'[b] = seen[b] /\ now' = now
  BY RequestEffect DEF TypeOK
<1>2. Refilled(b)' = Refilled(b)
  BY <1>1 DEF Refilled, AtMost, Full, One
<1>3. CASE b \in known'
  BY <1>1, <1>2, <1>3 DEF Tokens
<1>4. CASE b \notin known'
  <2>1. Tokens(b)' = Full
    BY <1>4 DEF Tokens, Full, One
  <2>2. Tokens(b) = Full
    BY <1>1, <1>4, StaleIsFull DEF Tokens
  <2> QED BY <1>1, <2>1, <2>2
<1> QED
  BY <1>3, <1>4

(* A bucket that was just counted holds what it says.                      *)
LEMMA JustCounted ==
    ASSUME TypeOK, NEW c \in Clients, Request(c)
    PROVE  Tokens(c)' = tokens'[c] /\ tokens'[c] \in 0..Full
<1>1. /\ c \in known' /\ now' = now /\ last_refill'[c] = now
      /\ now \in Nat /\ tokens \in [Clients -> 0..Full]
  BY RequestEffect, HorizonAssumption, SMT DEF TypeOK
<1>2. tokens'[c] \in 0..Full
  <2>1. Tokens(c) \in 0..Full
    BY TokensType
  <2>2. \/ Tokens(c) >= One /\ tokens'[c] = Tokens(c) - One
        \/ tokens'[c] = Tokens(c)
    BY <1>1, RequestEffect
  <2> QED BY <2>1, <2>2, Sizes, SMT
<1>3. (now' - last_refill'[c]) * Rate = 0
  BY <1>1, RateAssumption, SMT
<1>4. Refilled(c)' = tokens'[c]
  BY <1>2, <1>3, Sizes, SMT DEF Refilled, AtMost, Full, One
<1> QED
  BY <1>1, <1>2, <1>4 DEF Tokens

-----------------------------------------------------------------------------
LEMMA InitIInv == Init => IInv
<1> SUFFICES ASSUME Init PROVE IInv
  OBVIOUS
<1>1. TypeOK
  BY Sizes, HorizonAssumption, SMT DEF Init, TypeOK
<1>2. Paid
  <2> SUFFICES ASSUME NEW c \in Clients
               PROVE  seen[c] * One + Tokens(c) <= Full + Rate * (now - mark)
    BY DEF Paid
  <2>1. seen[c] = 0 /\ Tokens(c) = Full /\ now = 0 /\ mark = 0
    BY DEF Init, Tokens
  <2> QED BY <2>1, Sizes, RateAssumption, SMT
<1>3. Promised /\ Recent
  BY DEF Init, Promised, Recent
<1> QED
  BY <1>1, <1>2, <1>3 DEF IInv

LEMMA RequestIInv == ASSUME IInv, NEW c \in Clients, Request(c) PROVE IInv'
<1> USE RequestEffect DEF IInv
<1>1. TypeOK'
  <2>1. tokens' \in [Clients -> 0..Full]
    BY JustCounted, RequestEffect DEF TypeOK
  <2>2. /\ now' = now /\ mark' = mark /\ known' \subseteq Clients
        /\ now \in 0..Horizon /\ mark \in 0..now
    BY DEF TypeOK
  <2>3. last_refill' \in [Clients -> 0..now] /\ last_cleanup' \in 0..now
    BY <2>2, HorizonAssumption, SMT DEF TypeOK
  <2>4. seen' \in [Clients -> Nat]
    BY SMT DEF TypeOK
  <2>5. told' \in [Clients -> Nat]
    <3>1. Tokens(c) < One => now + RetryAfter(Tokens(c)) \in Nat
      <4>1. Tokens(c) \in Nat
        BY TokensType, Sizes, SMT
      <4> QED BY <4>1, <2>2, WaitIsEnough, HorizonAssumption, SMT
    <3> QED BY <3>1 DEF TypeOK
  <2>6. tokens' \in [Clients -> (0..Full)']
    BY <2>1 DEF Full, One
  <2> QED BY <2>2, <2>3, <2>4, <2>5, <2>6 DEF TypeOK
<1>2. Paid'
  <2> SUFFICES ASSUME NEW b \in Clients
               PROVE  seen'[b] * One + Tokens(b)' <= Full + Rate * (now - mark)
    BY DEF Paid, Full, One
  <2>1. seen[b] * One + Tokens(b) <= Full + Rate * (now - mark)
    BY DEF Paid
  <2>2. CASE b # c
    BY <2>1, <2>2, OthersKeep
  <2>3. CASE b = c
    <3>1. Tokens(c)' = tokens'[c] /\ Tokens(c) \in 0..Full /\ seen[c] \in Nat
      BY JustCounted, TokensType DEF TypeOK
    <3>2. \/ tokens'[c] = Tokens(c) - One /\ seen'[c] = seen[c] + 1
          \/ tokens'[c] = Tokens(c) /\ seen'[c] = seen[c]
      BY DEF TypeOK
    <3>3. (seen[c] + 1) * One = seen[c] * One + One
      BY <3>1, Sizes, SMT
    <3>4. seen[c] * One \in Nat /\ Rate * (now - mark) \in Int
      BY <3>1, Sizes, RateAssumption, HorizonAssumption, SMT DEF TypeOK
    <3>5. CASE tokens'[c] = Tokens(c) - One /\ seen'[c] = seen[c] + 1
      <4>1. seen'[c] * One = seen[c] * One + One
        BY <3>3, <3>5
      <4> QED BY <2>1, <2>3, <3>1, <3>4, <3>5, <4>1, Sizes, SMT
    <3>6. CASE tokens'[c] = Tokens(c) /\ seen'[c] = seen[c]
      BY <2>1, <2>3, <3>1, <3>6
    <3> QED BY <3>2, <3>5, <3>6
  <2> QED BY <2>2, <2>3
<1>3. Promised'
  <2> SUFFICES ASSUME NEW b \in Clients, told'[b] # 0, b \in known'
               PROVE  tokens'[b] + (told'[b] - last_refill'[b]) * Rate >= One
    BY DEF Promised, One
  <2>1. CASE b # c
    BY <2>1 DEF Promised, TypeOK
  <2>2. CASE b = c
    <3>1. /\ Tokens(c) < One /\ tokens'[c] = Tokens(c)
          /\ told'[c] = now + RetryAfter(Tokens(c)) /\ last_refill'[c] = now
      BY <2>2 DEF TypeOK
    <3>2. Tokens(c) \in Nat /\ now \in Nat
      BY TokensType, Sizes, HorizonAssumption, SMT DEF TypeOK
    <3>3. /\ RetryAfter(Tokens(c)) \in Nat
          /\ Tokens(c) + RetryAfter(Tokens(c)) * Rate >= One
      BY <3>1, <3>2, WaitIsEnough
    <3>4. told'[c] - last_refill'[c] = RetryAfter(Tokens(c))
      BY <3>1, <3>2, <3>3, SMT
    <3> QED BY <2>2, <3>1, <3>3, <3>4
  <2> QED BY <2>1, <2>2
<1>4. Recent'
  <2> SUFFICES ASSUME NEW b \in known'
               PROVE  /\ last_cleanup' - 2 * One <= last_refill'[b]
                      /\ last_refill'[b] < last_cleanup' + Interval
    BY DEF Recent, One
  <2>1. /\ now \in Nat /\ last_cleanup \in 0..now /\ last_cleanup' \in Nat
        /\ last_refill[b] \in 0..now
        /\ last_refill'[b] = IF b = c THEN now ELSE last_refill[b]
    BY HorizonAssumption, SMT DEF TypeOK
  <2>2. b # c => b \in known
    OBVIOUS
  <2>3. CASE CleanupDue
    <3>1. last_cleanup' = now /\ (b # c => ~(now - last_refill[b] > 2 * One))
      BY <2>2, <2>3 DEF Stale
    <3> QED BY <2>1, <3>1, Sizes, IntervalAssumption, SMT
  <2>4. CASE ~CleanupDue
    <3>1. last_cleanup' = last_cleanup /\ now < last_cleanup + Interval
      BY <2>1, <2>4, IntervalAssumption, SMT DEF CleanupDue
    <3>2. b # c => /\ last_cleanup - 2 * One <= last_refill[b]
                   /\ last_refill[b] < last_cleanup + Interval
      BY <2>2 DEF Recent
    <3> QED BY <2>1, <3>1, <3>2, Sizes, IntervalAssumption, SMT
  <2> QED BY <2>3, <2>4
<1> QED
  BY <1>1, <1>2, <1>3, <1>4

(* A tick refills a bucket by at most Rate.                                *)
LEMMA TickFinds ==
    ASSUME TypeOK, Tick, NEW c \in Clients
    PROVE  Tokens(c)' \in Int /\ Tokens(c)' <= Tokens(c) + Rate
<1>1. /\ now \in Nat /\ now' = now + 1 /\ tokens'[c] = tokens[c]
      /\ last_refill'[c] = last_refill[c] /\ known' = known
      /\ tokens[c] \in Nat /\ last_refill[c] \in 0..now
  BY Sizes, HorizonAssumption, SMT DEF TypeOK, Tick
<1> DEFINE idle == now - last_refill[c]
<1>2. /\ (now' - last_refill'[c]) * Rate = idle * Rate + Rate
      /\ idle * Rate \in Nat
  BY <1>1, RateAssumption, SMT
<1>3. /\ Refilled(c)' \in Int /\ Refilled(c) \in Int
      /\ Refilled(c)' <= Refilled(c) + Rate
  <2>1. Refilled(c)' = AtMost(Full, tokens[c] + (idle * Rate + Rate))
    BY <1>1, <1>2 DEF Refilled, AtMost, Full, One
  <2>2. Refilled(c) = AtMost(Full, tokens[c] + idle * Rate)
    BY DEF Refilled
  <2> HIDE DEF idle
  <2> QED BY <1>1, <1>2, <2>1, <2>2, Sizes, RateAssumption, SMT DEF AtMost
<1> QED
  BY <1>1, <1>3, Sizes, RateAssumption, SMT DEF Tokens, Full, One

LEMMA TickIInv == ASSUME IInv, Tick PROVE IInv'
<1> USE DEF IInv
<1>1. /\ now \in Nat /\ now' = now + 1 /\ now < Horizon
      /\ UNCHANGED <<known, tokens, last_refill, last_cleanup, mark, seen, told>>
  BY HorizonAssumption, SMT DEF TypeOK, Tick
<1>2. TypeOK'
  <2>1. 0..now \subseteq 0..now' /\ now' \in 0..Horizon
    BY <1>1, HorizonAssumption, SMT
  <2> QED BY <1>1, <2>1 DEF TypeOK, Full, One
<1>3. Paid'
  <2> SUFFICES ASSUME NEW c \in Clients
               PROVE  seen[c] * One + Tokens(c)' <= Full + Rate * (now' - mark)
    BY <1>1 DEF Paid, Full, One
  <2>1. /\ seen[c] * One + Tokens(c) <= Full + Rate * (now - mark)
        /\ Tokens(c)' \in Int /\ Tokens(c)' <= Tokens(c) + Rate
    BY TickFinds DEF Paid
  <2>2. /\ Rate * (now' - mark) = Rate * (now - mark) + Rate
        /\ Rate * (now - mark) \in Int /\ seen[c] * One \in Int
    BY <1>1, Sizes, RateAssumption, SMT DEF TypeOK
  <2>3. Tokens(c) \in 0..Full
    BY TokensType
  <2> QED BY <2>1, <2>2, <2>3, Sizes, RateAssumption, SMT
<1>4. Promised' /\ Recent'
  BY <1>1 DEF Promised, Recent, One
<1> QED
  BY <1>2, <1>3, <1>4

LEMMA ObserveIInv == ASSUME IInv, Observe PROVE IInv'
<1> USE DEF IInv
<1>1. /\ mark' = now /\ seen' = [c \in Clients |-> 0] /\ now \in Nat
      /\ UNCHANGED <<now, known, tokens, last_refill, last_cleanup, told>>
  BY HorizonAssumption, SMT DEF TypeOK, Observe
<1>2. TypeOK'
  BY <1>1, HorizonAssumption, SMT DEF TypeOK, Full, One
<1>3. Paid'
  <2> SUFFICES ASSUME NEW c \in Clients
               PROVE  seen'[c] * One + Tokens(c)' <= Full + Rate * (now' - mark')
    BY DEF Paid, Full, One
  <2>1. Tokens(c)' = Tokens(c) /\ seen'[c] = 0
    BY <1>1 DEF Tokens, Refilled, AtMost, Full, One
  <2> QED BY <1>1, <2>1, TokensType, Sizes, RateAssumption, SMT
<1>4. Promised' /\ Recent'
  BY <1>1 DEF Promised, Recent, One
<1> QED
  BY <1>2, <1>3, <1>4

LEMMA StutterIInv == ASSUME IInv, UNCHANGED vars PROVE IInv'
BY DEF IInv, TypeOK, Paid, Promised, Recent, Tokens, Refilled, AtMost, Full, One, vars

(* The invariant holds in every state.                                     *)
THEOREM Inductive == Spec => []IInv
<1>1. IInv /\ [Next]_vars => IInv'
  BY RequestIInv, TickIInv, ObserveIInv, StutterIInv DEF Next
<1> QED
  BY <1>1, InitIInv, PTL DEF Spec

-----------------------------------------------------------------------------
(* Every bucket is within its limits, and no time is in the future.        *)
THEOREM TypeCorrect == Spec => []TypeOK
BY Inductive, PTL DEF IInv

(* From any moment on, a client is let through at most Rate times at once  *)
(* and Rate times per window afterwards, whatever clean-ups do.            *)
THEOREM Bounded == Spec => []BurstBound
<1>1. IInv => BurstBound
  <2> SUFFICES ASSUME IInv, NEW c \in Clients
               PROVE  seen[c] * One <= Full + Rate * (now - mark)
    BY DEF BurstBound
  <2>1. seen[c] * One + Tokens(c) <= Full + Rate * (now - mark)
    BY DEF IInv, Paid
  <2>2. Tokens(c) \in 0..Full
    BY TokensType DEF IInv
  <2>3. /\ seen[c] * One \in Int /\ Rate * (now - mark) \in Int
    BY Sizes, RateAssumption, HorizonAssumption, SMT DEF IInv, TypeOK
  <2> QED BY <2>1, <2>2, <2>3, Sizes, SMT
<1> QED
  BY <1>1, Inductive, PTL

(* A client that waits as long as it was told finds a token.               *)
THEOREM WaitingPays == Spec => []RetryAfterSuffices
<1>1. IInv => RetryAfterSuffices
  <2> SUFFICES ASSUME IInv, NEW c \in Clients, told[c] # 0, told[c] <= now
               PROVE  Tokens(c) >= One
    BY DEF RetryAfterSuffices
  <2>1. CASE c \in known
    <3>1. /\ now \in Nat /\ told[c] \in Nat /\ last_refill[c] \in Nat
          /\ tokens[c] \in Nat
      BY Sizes, HorizonAssumption, SMT DEF IInv, TypeOK
    <3>2. tokens[c] + (told[c] - last_refill[c]) * Rate >= One
      BY <2>1 DEF IInv, Promised
    <3> DEFINE a == told[c] - last_refill[c]
               b == now - last_refill[c]
    <3>3. a \in Int /\ b \in Int /\ a <= b
      BY <3>1, SMT
    <3>4. a * Rate <= b * Rate /\ a * Rate \in Int /\ b * Rate \in Int
      BY <3>3, RateAssumption, Monotone, SMT
    <3>5. tokens[c] + b * Rate >= One
      <4> HIDE DEF a, b
      <4>1. tokens[c] + a * Rate >= One
        BY <3>2 DEF a
      <4> QED BY <3>1, <3>4, <4>1, Sizes, SMT
    <3>6. Refilled(c) >= One
      BY <3>1, <3>4, <3>5, Sizes, SMT DEF Refilled, AtMost
    <3> QED BY <2>1, <3>6 DEF Tokens
  <2>2. CASE c \notin known
    BY <2>2, Sizes DEF Tokens
  <2> QED BY <2>1, <2>2
<1> QED
  BY <1>1, Inductive, PTL

(* The buckets kept are those of recent clients.                           *)
THEOREM Forgets == Spec => []IdleAreForgotten
<1>1. IInv => IdleAreForgotten
  <2> SUFFICES ASSUME IInv, NEW c \in known, NEW d \in known
               PROVE  last_refill[d] - last_refill[c] < 2 * One + Interval
    BY DEF IdleAreForgotten
  <2>1. /\ last_cleanup - 2 * One <= last_refill[c]
        /\ last_refill[d] < last_cleanup + Interval
    BY DEF IInv, Recent
  <2>2. last_refill[c] \in Int /\ last_refill[d] \in Int /\ last_cleanup \in Int
    BY HorizonAssumption, SMT DEF IInv, TypeOK
  <2> QED BY <2>1, <2>2, Sizes, IntervalAssumption, SMT
<1> QED
  BY <1>1, Inductive, PTL

(* What a client finds changes only with time and by the tokens of its own *)
(* requests: a clean-up is invisible.                                      *)
THEOREM CleanupIsInvisible == Spec => ChargedOnlyWhenAdmitted
<1>1. ASSUME IInv, [Next]_vars
      PROVE  \A c \in Clients :
               \/ now' # now
               \/ Tokens(c)' = Tokens(c)
               \/ seen'[c] = seen[c] + 1 /\ Tokens(c)' = Tokens(c) - One
  <2> SUFFICES ASSUME NEW c \in Clients
               PROVE  \/ now' # now
                      \/ Tokens(c)' = Tokens(c)
                      \/ seen'[c] = seen[c] + 1 /\ Tokens(c)' = Tokens(c) - One
    OBVIOUS
  <2>1. CASE \E b \in Clients : Request(b)
    <3>1. PICK b \in Clients : Request(b)
      BY <2>1
    <3>2. CASE b # c
      BY <1>1, <3>1, <3>2, OthersKeep DEF IInv
    <3>3. CASE b = c
      <4>1. Tokens(c)' = tokens'[c]
        BY <1>1, <3>1, <3>3, JustCounted DEF IInv
      <4>2. \/ tokens'[c] = Tokens(c) - One /\ seen'[c] = seen[c] + 1
            \/ tokens'[c] = Tokens(c)
        BY <1>1, <3>1, <3>3, RequestEffect DEF IInv, TypeOK
      <4> QED BY <4>1, <4>2
    <3> QED BY <3>2, <3>3
  <2>2. CASE Tick
    BY <1>1, <2>2, HorizonAssumption, SMT DEF Tick, IInv, TypeOK
  <2>3. CASE Observe \/ UNCHANGED vars
    BY <2>3 DEF Observe, vars, Tokens, Refilled, AtMost, Full, One
  <2> QED BY <1>1, <2>1, <2>2, <2>3 DEF Next
<1> QED
  BY <1>1, Inductive, PTL DEF Spec, ChargedOnlyWhenAdmitted
=============================================================================
