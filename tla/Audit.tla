------------------------------- MODULE Audit -------------------------------
(***************************************************************************)
(* An audit and the service that reads it.  run_nvidia_model_benchmark     *)
(* (app/model_tester.py) asks NVIDIA for its models, benchmarks the        *)
(* priority models and some candidates, and writes a JSON report, its      *)
(* Markdown and three documents one after the other (app/audit.py); it is  *)
(* a process of its own and may die between any two steps.  The service    *)
(* takes the models it may fall back to from the report with the newest    *)
(* name, read when it first needs it and kept by lru_cache for the life of *)
(* the process (app/model_router.py); its requests run in threads.         *)
(*                                                                         *)
(* BenchmarkRunner has the steps of a benchmark; here it is one step, for  *)
(* it shares nothing with anybody.  A paper is the audit it tells of and   *)
(* whether it is whole: write_text truncates, then fills.                  *)
(***************************************************************************)
EXTENDS Recommendations

CONSTANTS
    Registry,      \* the curated models that are not "avoid"
    Avoided,       \* the curated models that are
    Listings,      \* what /v1/models may list, sorted
    Showings,      \* of the n-th audit: what a model's tasks may result in
    Readers,       \* the requests of the service
    Nothing,       \* no report, not cached, not known
    MaxAudits, MaxStamp, MaxLives     \* bounds: audits, seconds, starts

ASSUME ListingsAssumption == \A l \in Listings : l \in Seq(DOMAIN Traits)
ASSUME ShowingsAssumption == \A a \in 1..MaxAudits :
    \A tasks \in Showings[a] : MayResult(tasks)
Models == UNION {Range(l) : l \in Listings}
ASSUME CuratedAssumption == Registry \cap Avoided = {}
ASSUME NothingAssumption == \A ids \in SUBSET Models : ids # Nothing
ASSUME BoundsAssumption == MaxAudits \in Nat /\ MaxStamp \in Nat \ {0} /\ MaxLives \in Nat

VARIABLES
    clock,         \* the time of day, in seconds
    audits,        \* how many audits were begun
    stage,         \* where the last of them is
    stamp,         \* its timestamp
    candidates,    \* its selected_candidates
    report,        \* what it concluded, until it writes
    page,          \* the paper it is at
    found,         \* of every audit: its stamp and the models it was told of
    papers,        \* the files
    lives,         \* how often the service was started
    cached,        \* load_latest_discovered_model_ids, once known
    reader,        \* the requests that are looking for the report
    settled,       \* history: what the newest report says while none is being written
    expected,      \* history: what a service started then must offer
    told           \* history: offers made first, or to who asked after the first
auditVars == <<audits, stage, stamp, candidates, report, page, found, papers>>
serviceVars == <<lives, cached, reader, told>>
vars == <<clock, auditVars, serviceVars, settled, expected>>

-----------------------------------------------------------------------------
Ident == 1..MaxAudits
Stamps == 1..MaxStamp

Docs == {<<"priority_models", 0>>, <<"discovered_models", 0>>, <<"selection_notes", 0>>}
Paths == ({"json", "markdown"} \X Stamps) \cup Docs

(* The order of write_audit_reports and write_supporting_docs.             *)
DocsFirst(s) == <<<<"priority_models", 0>>, <<"discovered_models", 0>>,
                  <<"selection_notes", 0>>, <<"json", s>>, <<"markdown", s>>>>
Order(s) == <<<<"json", s>>, <<"markdown", s>>, <<"priority_models", 0>>,
              <<"discovered_models", 0>>, <<"selection_notes", 0>>>>

Absent == [audit |-> 0, whole |-> FALSE]
AtRest == [state |-> "idle", path |-> <<"json", 0>>]

Init ==
    /\ clock = 1 /\ audits = 0 /\ stage = "returned" /\ stamp = 0
    /\ candidates = <<>> /\ report = Nothing /\ page = 1
    /\ found = [a \in Ident |-> [stamp |-> 0, ids |-> {}]]
    /\ papers = [p \in Paths |-> Absent]
    /\ lives = 0 /\ cached = Nothing /\ reader = [r \in Readers |-> AtRest] /\ told = {}
    /\ settled = {} /\ expected = Nothing

Tick == /\ clock < MaxStamp
        /\ clock' = clock + 1
        /\ UNCHANGED <<auditVars, serviceVars, settled, expected>>

-----------------------------------------------------------------------------
(* The audit.                                                              *)

(* The settings and the time.  Without a key there is nothing to ask, and  *)
(* the report says so.                                                     *)
Start ==
    /\ stage \in {"returned", "crashed"} /\ audits < MaxAudits
    /\ audits' = audits + 1
    /\ stamp' = clock
    /\ found' = [found EXCEPT ![audits'] = [stamp |-> clock, ids |-> {}]]
    /\ stage' \in {"discover", "write"}
    /\ page' = 1
    /\ UNCHANGED <<clock, candidates, report, papers, serviceVars, settled, expected>>

(* list_models and _select_discovery_candidates.  A body that is no object *)
(* lists nothing; a failure of any kind is caught and ends the audit with  *)
(* a report that says so.                                                  *)
Listed(ids) ==
    /\ found' = [found EXCEPT ![audits].ids = Range(ids)]
    /\ candidates' = Select(ids)
    /\ stage' = "benchmark"
Unlisted ==
    /\ stage' = "write"
    /\ UNCHANGED <<found, candidates>>
Discover ==
    /\ stage = "discover"
    /\ Unlisted \/ \E ids \in Listings : Listed(ids)
    /\ UNCHANGED <<clock, audits, stamp, report, page, papers, serviceVars, settled, expected>>

(* The benchmarks of the priority models and of the candidates, and what   *)
(* is concluded from all of them together.                                 *)
Benchmark ==
    /\ stage = "benchmark"
    /\ stage' = "write"
    /\ LET tested == Priority \o candidates IN
       \E shown \in [DOMAIN tested -> Showings[audits]] :
           report' = Report([i \in DOMAIN tested |-> Summary(tested[i], shown[i])])
    /\ UNCHANGED <<clock, audits, stamp, candidates, page, found, papers, serviceVars,
                   settled, expected>>

(* write_text truncates the file, ...                                      *)
Open ==
    /\ stage = "write"
    /\ stage' = "fill"
    /\ papers' = [papers EXCEPT ![Order(stamp)[page]] = [audit |-> audits, whole |-> FALSE]]
    /\ report' = Nothing /\ candidates' = <<>>
    /\ IF Order(stamp)[page][1] = "json"
       THEN /\ settled' = Nothing
            /\ expected' = IF cached = Nothing THEN Nothing ELSE expected
       ELSE UNCHANGED <<settled, expected>>
    /\ UNCHANGED <<clock, audits, stamp, page, found, serviceVars>>

(* ... then fills it; after the last one the audit returns.                *)
Fill ==
    /\ stage = "fill"
    /\ papers' = [papers EXCEPT ![Order(stamp)[page]] = [audit |-> audits, whole |-> TRUE]]
    /\ stage' = IF page = 5 THEN "returned" ELSE "write"
    /\ page' = IF page = 5 THEN 1 ELSE page + 1
    /\ settled' = IF page = 5 THEN found[audits].ids ELSE settled
    /\ UNCHANGED <<clock, audits, stamp, candidates, report, found, serviceVars, expected>>

(* The process dies, or an OSError ends it: what is written stays.         *)
Crash ==
    /\ stage \notin {"returned", "crashed"}
    /\ stage' = "crashed"
    /\ candidates' = <<>> /\ report' = Nothing
    /\ UNCHANGED <<clock, audits, stamp, page, found, papers, serviceVars, settled, expected>>

AuditStep == Start \/ Discover \/ Benchmark \/ Open \/ Fill \/ Crash

-----------------------------------------------------------------------------
(* The service.                                                            *)

(* get_available_model_ids.                                                *)
Offer(ids) == Registry \cup (ids \ Avoided)

(* A start, or a restart: the cache and the requests are gone.             *)
Serve ==
    /\ lives < MaxLives
    /\ lives' = lives + 1
    /\ cached' = Nothing
    /\ reader' = [r \in Readers |-> AtRest]
    /\ told' = {}
    /\ expected' = settled
    /\ UNCHANGED <<clock, auditVars, settled>>

(* sorted(glob)[-1]: the stamps sort as the names do.                      *)
Written == {p \in Paths : p[1] = "json" /\ papers[p].audit # 0}
Oldest == IF Written = {} THEN <<"json", 0>>
          ELSE CHOOSE p \in Written : \A q \in Written : p[2] <= q[2]
Newest == IF Written = {} THEN <<"json", 0>>
          ELSE CHOOSE p \in Written : \A q \in Written : q[2] <= p[2]

(* json.loads: a torn report counts as none.                               *)
Content(path) ==
    IF path[2] # 0 /\ papers[path].whole THEN found[papers[path].audit].ids ELSE {}

(* The cache is empty: the request looks for the newest report ...         *)
Look(r) ==
    /\ lives > 0 /\ reader[r].state = "idle" /\ cached = Nothing
    /\ reader' = [reader EXCEPT ![r] =
           [state |-> "reading", path |-> Newest]]
    /\ UNCHANGED <<clock, auditVars, lives, cached, told, settled, expected>>

(* ... and reads it.  What the first one to have read returns is kept; one *)
(* that looked at the same time returns what it read itself.               *)
ReadAndReplace(r) ==              \* the cache written without another look
    /\ reader[r].state = "reading"
    /\ reader' = [reader EXCEPT ![r] = AtRest]
    /\ cached' = Content(reader[r].path)
    /\ told' = IF cached = Nothing THEN {Offer(cached')} ELSE told
    /\ UNCHANGED <<clock, auditVars, lives, settled, expected>>

Read(r) ==
    /\ reader[r].state = "reading"
    /\ reader' = [reader EXCEPT ![r] = AtRest]
    /\ IF cached = Nothing
       THEN /\ cached' = Content(reader[r].path)
            /\ told' = {Offer(cached')}
       ELSE UNCHANGED <<cached, told>>
    /\ UNCHANGED <<clock, auditVars, lives, settled, expected>>

(* The cache knows: the request is answered at once.                       *)
Hit(r) ==
    /\ lives > 0 /\ reader[r].state = "idle" /\ cached # Nothing
    /\ told' = told \cup {Offer(cached)}
    /\ UNCHANGED <<clock, auditVars, lives, cached, reader, settled, expected>>

Next ==
    \/ Tick \/ AuditStep \/ Serve
    \/ \E r \in Readers : Look(r) \/ Read(r) \/ Hit(r)
Spec == Init /\ [][Next]_vars

-----------------------------------------------------------------------------
TypeOK ==
    /\ clock \in Stamps /\ audits \in 0..MaxAudits /\ stamp \in 0..MaxStamp
    /\ stage \in {"returned", "discover", "benchmark", "write", "fill", "crashed"}
    /\ page \in 1..5
    /\ found \in [Ident -> [stamp : 0..MaxStamp, ids : SUBSET Models]]
    /\ papers \in [Paths -> [audit : 0..MaxAudits, whole : BOOLEAN]]
    /\ lives \in 0..MaxLives /\ cached \in (SUBSET Models) \cup {Nothing}
    /\ reader \in [Readers -> [state : {"idle", "reading"},
                                path : {"json"} \X (0..MaxStamp)]]
    /\ settled \in (SUBSET Models) \cup {Nothing}
    /\ expected \in (SUBSET Models) \cup {Nothing}

(* The candidates of a run of audits are the best of what was listed: of   *)
(* as many families as there is room for the best member each, and nobody  *)
(* left out scores higher, unless one of its own family was taken.  The    *)
(* selection is one pass over a sort by score, family and name             *)
(* (_select_discovery_candidates).                                         *)
CandidatesAreBest ==
    stage = "benchmark" =>
        LET eligible == {id \in found[audits].ids \ Range(Priority) : ~Skipped(id)}
            chosen == Range(candidates)
            FamiliesOf(S) == {Traits[id].family : id \in S}
        IN  /\ chosen \subseteq eligible
            /\ Len(candidates) = Cardinality(FamiliesOf(chosen))
            /\ Len(candidates) = Least({Limit, Cardinality(FamiliesOf(eligible))})
            /\ \A id \in eligible \ chosen :
                   IF Traits[id].family \in FamiliesOf(chosen)
                   THEN \E c \in chosen : Traits[c].family = Traits[id].family
                                         /\ CandidateScore(c) >= CandidateScore(id)
                   ELSE \A c \in chosen : CandidateScore(c) >= CandidateScore(id)

Judged == report # Nothing
Perfect == {m \in Range(report.models) : m.failed_tasks = 0}

(* A report may recommend a model that it also says to avoid.  The default *)
(* then is one because no model passed everything, those for coding and    *)
(* reasoning because every model that can do it is to be avoided.  The     *)
(* fast one is one whatever others can do, for nothing but its speed: none *)
(* of those that passed the simple task did it faster.  And an additional  *)
(* one stands behind every model that passed everything, none of which is  *)
(* left out for it but those of the priority list.  A model that passed    *)
(* nothing is to be tested again or avoided, never both and never          *)
(* recommended (_build_recommendations).                                   *)
SimpleLatency(i) == Group(report.models[i], "simple").average_latency

AvoidedWithReason ==
    Judged =>
        LET advice == report.advice
            ms == report.models
            Useless == {m \in Range(ms) : m.successful_tasks = 0}
        IN  /\ advice.default \in advice.avoid => Perfect = {}
            /\ \A category \in {"coding", "reasoning"} :
                   advice[category] \in advice.avoid =>
                       \A i \in SucceededIn(ms, category) : ms[i].model \in advice.avoid
            /\ advice.fast \in advice.avoid =>
                   \E i \in SucceededIn(ms, "simple") :
                       /\ ms[i].model = advice.fast
                       /\ \A j \in SucceededIn(ms, "simple") :
                              SimpleLatency(i) <= SimpleLatency(j)
            /\ \A n \in DOMAIN advice.additional :
                   advice.additional[n] \in advice.avoid =>
                       \A m \in Perfect :
                           \/ m.model \in Range(Priority)
                           \/ \E k \in 1..(n - 1) : advice.additional[k] = m.model
            /\ advice.retest \cap advice.avoid = {}
            /\ \A m \in Useless :
                   /\ m.model \in advice.retest \cup advice.avoid
                   /\ m.model \notin {advice.default, advice.fast, advice.coding,
                                     advice.reasoning} \cup Range(advice.additional)

(* Of several models that passed everything the default is the one that    *)
(* answered fastest on average: the speed is a fifth of a score that is    *)
(* relative to the slowest and the fastest model, failing ones included    *)
(* (_score_models, _best_by).                                              *)
PerfectAndFast ==
    Judged /\ Perfect # {} =>
        \E d \in Perfect :
            /\ d.model = report.advice.default
            /\ \A m \in Perfect : d.average_latency <= m.average_latency

(* No paper tells of an audit whose JSON report was not kept whole, or     *)
(* replaced by a later one; and when an audit has returned all five papers *)
(* tell of it, however the audits before it ended (write_audit_reports,    *)
(* write_supporting_docs).                                                 *)
PapersInOrder ==
    /\ \A p \in Paths : papers[p].audit # 0 /\ p[1] # "json" =>
           LET a == papers[p].audit
               json == papers[<<"json", found[a].stamp>>]
           IN  json.audit > a \/ json = [audit |-> a, whole |-> TRUE]
    /\ stage = "returned" /\ audits > 0 =>
           \A i \in 1..5 : papers[Order(stamp)[i]] = [audit |-> audits, whole |-> TRUE]

(* What the service knows of is what one audit was told, all of it, or     *)
(* nothing; and it is the newest audit if that one had returned before the *)
(* service was started and none has begun to write before it was read.     *)
(* Nobody is ever offered a model on the avoid list, or denied a curated   *)
(* one (load_latest_discovered_model_ids, get_available_model_ids).        *)
OfferIsNewest ==
    /\ cached # Nothing =>
           /\ cached = {} \/ \E a \in Ident : a <= audits /\ cached = found[a].ids
           /\ expected # Nothing => cached = expected
    /\ \A offer \in told : offer \cap Avoided = {} /\ Registry \subseteq offer

(* In one life of the service whoever asks after somebody was answered is  *)
(* offered the same, whatever audits have written since: two requests that *)
(* looked at once may have read different reports, but the cache holds the *)
(* first for good (lru_cache).                                             *)
OfferIsSteady == Cardinality(told) <= 1
=============================================================================
