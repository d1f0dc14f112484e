------------------------------ MODULE Failover ------------------------------
(***************************************************************************)
(* What the gateway promises to those who ask, with no circuits, no clock, *)
(* no threads and no operator: every request has its candidates in an      *)
(* order of preference, a candidate has its turn once and only when all    *)
(* that are preferred to it are lost, the first that answers is the        *)
(* answer, and a request fails when nobody is left.  Beside that there is  *)
(* a memo, which holds what was answered to a request for the same model   *)
(* and prompt, may lose anything at any time, and speaks only to a request *)
(* that nobody was tried for, with the word of one of its candidates: who  *)
(* named a model hears that model or nobody.  Coordinator is shown to      *)
(* implement it but for one step.                                          *)
(***************************************************************************)
EXTENDS Integers, Sequences

CONSTANTS Requests, Models, Tasks, Prompts,
          Available,    \* the models on offer
          Route,        \* task -> the model preferred for it
          Fallbacks,    \* task -> the others, the best first, each once
          Nobody        \* no model

VARIABLES
    stage,     \* of a request: "unasked", "open" or "settled"
    want,      \* what it asks for
    lost,      \* the candidates that refused or failed
    given,     \* the one whose answer is in hand
    told,      \* the outcome that the caller sees
    author,    \* who wrote what the caller reads
    memo       \* who wrote what is remembered for a model and a prompt

fvars == <<stage, want, lost, given, told, author, memo>>

Wishes  == [primary : Models, user_specified : BOOLEAN, task : Tasks, prompt : Prompts]
NoWish  == [primary |-> Nobody, user_specified |-> FALSE,
            task |-> "no_task", prompt |-> "no_prompt"]

(* A wish names a model, or has that of its task.                          *)
Sincere(w) == w \in Wishes /\ (w.user_specified \/ w.primary = Route[w.task])

Places(w) == 1..Len(Fallbacks[w.task])
Candidates(w) ==
    {w.primary} \cup
    {m \in Available : ~w.user_specified /\ \E i \in Places(w) : Fallbacks[w.task][i] = m}

Preferred(w, n, m) ==
    /\ m # w.primary
    /\ \/ n = w.primary
       \/ \E i, j \in Places(w) : /\ i < j
                                  /\ Fallbacks[w.task][i] = n
                                  /\ Fallbacks[w.task][j] = m

Told(success, m, used, hit) ==
    [success |-> success, model |-> m, fallback_used |-> used, cache_hit |-> hit]

Init ==
    /\ stage = [r \in Requests |-> "unasked"]
    /\ want = [r \in Requests |-> NoWish]
    /\ lost = [r \in Requests |-> {}]
    /\ given = [r \in Requests |-> Nobody]
    /\ told = [r \in Requests |-> Told(FALSE, Nobody, FALSE, FALSE)]
    /\ author = [r \in Requests |-> Nobody]
    /\ memo = [k \in Models \X Prompts |-> Nobody]

Tell(r, o, m) ==
    /\ stage' = [stage EXCEPT ![r] = "settled"]
    /\ told' = [told EXCEPT ![r] = o]
    /\ author' = [author EXCEPT ![r] = m]
Wait == UNCHANGED <<stage, told, author>>

(* A wish is let in if a model it names is on offer, or is declined.       *)
Wish(r) ==
    /\ stage[r] = "unasked"
    /\ \E w \in Wishes :
         /\ Sincere(w)
         /\ want' = [want EXCEPT ![r] = w]
         /\ \/ /\ w.user_specified => w.primary \in Available
               /\ stage' = [stage EXCEPT ![r] = "open"]
               /\ UNCHANGED <<told, author>>
            \/ LET named == IF w.user_specified THEN w.primary ELSE Nobody IN
               Tell(r, Told(FALSE, named, FALSE, FALSE), Nobody)
    /\ UNCHANGED <<lost, given, memo>>

Trying(r) == stage[r] = "open" /\ given[r] = Nobody

(* The memo's word, that of m, told while nobody was tried, under the name *)
(* of the primary.  The memo may speak for a candidate of the request.     *)
Hear(r, m) ==
    /\ Trying(r) /\ lost[r] = {}
    /\ m = memo[<<want[r].primary, want[r].prompt>>]
    /\ Tell(r, Told(TRUE, want[r].primary, FALSE, TRUE), m)
    /\ UNCHANGED <<want, lost, given, memo>>

Recall(r) == \E m \in Models : Hear(r, m) /\ m \in Candidates(want[r])

(* It is the turn of candidate m.                                          *)
Turn(r, m) ==
    /\ Trying(r)
    /\ m \in Candidates(want[r]) \ lost[r]
    /\ \A n \in Candidates(want[r]) : Preferred(want[r], n, m) => n \in lost[r]

Fail(r) == /\ Candidates(want[r]) \subseteq lost'[r]
           /\ Tell(r, Told(FALSE, want[r].primary, FALSE, FALSE), Nobody)

Lose(r, m) ==
    /\ Turn(r, m)
    /\ lost' = [lost EXCEPT ![r] = @ \cup {m}]
    /\ Wait \/ Fail(r)
    /\ UNCHANGED <<want, given, memo>>

Despair(r) ==
    /\ Trying(r)
    /\ Fail(r)
    /\ UNCHANGED <<want, lost, given, memo>>

Answer(r, m) ==
    /\ Turn(r, m)
    /\ given' = [given EXCEPT ![r] = m]
    /\ Wait
    /\ UNCHANGED <<want, lost, memo>>

(* The caller is told who answered; the memo may keep it for the primary.  *)
Deliver(r) ==
    /\ stage[r] = "open" /\ given[r] # Nobody
    /\ LET w == want[r]  m == given[r] IN
        /\ Tell(r, Told(TRUE, m, m # w.primary, FALSE), m)
        /\ \/ memo' = [memo EXCEPT ![<<w.primary, w.prompt>>] = m]
           \/ UNCHANGED memo
    /\ given' = [given EXCEPT ![r] = Nobody]
    /\ UNCHANGED <<want, lost>>

Forget ==
    /\ UNCHANGED <<stage, want, lost, given, told, author>>
    /\ \E K \in SUBSET (Models \X Prompts) :
         memo' = [k \in Models \X Prompts |-> IF k \in K THEN Nobody ELSE memo[k]]

Next ==
    \/ \E r \in Requests : Wish(r) \/ Recall(r) \/ Despair(r) \/ Deliver(r)
    \/ \E r \in Requests, m \in Models : Lose(r, m) \/ Answer(r, m)
    \/ Forget

Spec == Init /\ [][Next]_fvars
=============================================================================
