----------------------- MODULE BenchmarkRunnerProofs -----------------------
(***************************************************************************)
(* BenchmarkRunner for any models, any number of workers and tasks, and    *)
(* any failures: no model is lost or done twice between the batches, and   *)
(* a rate limit slows the run down.  The inductive invariant says where    *)
(* each model is, and that a thread which has returned did every task.     *)
(***************************************************************************)
EXTENDS BenchmarkRunner, TLAPS, FiniteSetTheorems, SequenceTheorems

USE TasksAssumption, WorkersAssumption

Stages == {"idle", "sdk", "sdk_again", "http", "http_again", "returned"}
Worker == [stage : Stages, results : Nat, limited : BOOLEAN, raised : BOOLEAN]
SummaryType == [model : Models, results : Nat, limited : BOOLEAN]

TypeOK ==
    /\ phase \in {"head", "running", "done"}
    /\ remaining \in Seq(Models)
    /\ batch \in SUBSET Models
    /\ active_workers \in Nat \ {0}
    /\ summaries \in Seq(SummaryType)
    /\ worker \in [Models -> Worker]

(* The models of s and r, each once, are those that are not in b.          *)
EachOnce(s, r, b) ==
    /\ \A i, j \in DOMAIN s : s[i].model = s[j].model => i = j
    /\ \A i, j \in DOMAIN r : r[i] = r[j] => i = j
    /\ \A i \in DOMAIN s, j \in DOMAIN r : s[i].model # r[j]
    /\ \A m \in Models : m \notin b <=> \/ \E i \in DOMAIN s : s[i].model = m
                                        \/ \E j \in DOMAIN r : r[j] = m

AllTasks ==
    /\ \A m \in Models : IF worker[m].stage = "returned" THEN worker[m].results = Tasks
                         ELSE worker[m].results < Tasks
    /\ \A i \in DOMAIN summaries : summaries[i].results = Tasks

BetweenBatches ==
    /\ phase # "running" => batch = {}
    /\ phase = "done" => [i \in DOMAIN summaries |-> summaries[i].model] = Selected

SlowedDown ==
    phase = "head" /\ (\E i \in DOMAIN summaries : summaries[i].limited) => active_workers <= 2

IInv ==
    /\ TypeOK
    /\ EachOnce(summaries, remaining, batch)
    /\ AllTasks
    /\ BetweenBatches
    /\ SlowedDown

-----------------------------------------------------------------------------
LEMMA SelectedType ==
  /\ Selected \in Seq(Models) /\ Len(Selected) \in Nat \ {0}
  /\ DOMAIN Selected = 1..Len(Selected)
  /\ \A m \in Models : \E i \in 1..Len(Selected) : Selected[i] = m
  /\ \A i \in 1..Len(Selected) : Selected[i] \in Models
BY SelectedAssumption DEF Models, Range

LEMMA AtMostIs ==
  ASSUME NEW a \in Nat \ {0}, NEW b \in Nat \ {0}
  PROVE  AtMost(a, b) \in Nat \ {0} /\ AtMost(a, b) <= a /\ AtMost(a, b) <= b
BY DEF AtMost

LEMMA InitIInv == ASSUME Init PROVE IInv
<1>1. TypeOK
  <2>1. AtMost(MaxWorkers, Len(Selected)) \in Nat \ {0}
    BY SelectedType, AtMostIs
  <2>2. Idle \in Worker
    BY DEF Idle, Worker, Stages
  <2> HIDE DEF Worker, SummaryType
  <2> QED BY <2>1, <2>2, SelectedType DEF Init, TypeOK
<1>2. EachOnce(summaries, remaining, batch)
  BY SelectedType, SelectedAssumption DEF Init, EachOnce
<1>3. AllTasks
  BY DEF Init, AllTasks, Idle
<1> QED BY <1>1, <1>2, <1>3 DEF IInv, Init, BetweenBatches, SlowedDown

-----------------------------------------------------------------------------
(* The main thread.                                                        *)

LEMMA StartBatchInv == ASSUME IInv, StartBatch PROVE IInv'
<1> DEFINE n == AtMost(active_workers, Len(remaining))
           first == SubSeq(remaining, 1, n)
           rest == SubSeq(remaining, n + 1, Len(remaining))
<1>0. /\ phase = "head" /\ remaining # <<>> /\ phase' = "running" /\ batch = {}
      /\ batch' = Range(first) /\ remaining' = rest
      /\ worker' = [m \in Models |-> IF m \in batch' THEN Ready ELSE worker[m]]
      /\ UNCHANGED <<active_workers, summaries>>
  BY DEF StartBatch, IInv, BetweenBatches
<1>1. remaining \in Seq(Models) /\ Len(remaining) \in Nat \ {0} /\ active_workers \in Nat \ {0}
  BY <1>0, EmptySeq DEF IInv, TypeOK
<1>2. n \in 1..Len(remaining)
  BY <1>1, AtMostIs
<1> HIDE DEF n
<1>3. /\ first \in Seq(Models) /\ DOMAIN first = 1..n
      /\ \A i \in 1..n : first[i] = remaining[i]
      /\ rest \in Seq(Models) /\ DOMAIN rest = 1..(Len(remaining) - n)
      /\ \A i \in 1..(Len(remaining) - n) : rest[i] = remaining[n + i]
  BY <1>1, <1>2
<1> HIDE DEF first, rest
<1>4. batch' = {remaining[i] : i \in 1..n} /\ batch' \subseteq Models
  <2>1. Range(first) = {remaining[i] : i \in 1..n}
    <3>1. Range(first) = {first[i] : i \in 1..n}
      BY <1>3 DEF Range
    <3>2. {first[i] : i \in 1..n} = {remaining[i] : i \in 1..n}
      BY <1>3
    <3> QED BY <3>1, <3>2
  <2>2. \A i \in 1..n : first[i] \in Models
    BY <1>3, ElementOfSeq, LenProperties
  <2> QED BY <1>0, <1>3, <2>1, <2>2
<1>5. EachOnce(summaries, rest, batch')
  <2> DEFINE R == Len(remaining)
  <2>1. /\ \A i, j \in DOMAIN summaries : summaries[i].model = summaries[j].model => i = j
        /\ \A i, j \in 1..R : remaining[i] = remaining[j] => i = j
        /\ \A i \in DOMAIN summaries, j \in 1..R : summaries[i].model # remaining[j]
        /\ \A m \in Models : \/ \E i \in DOMAIN summaries : summaries[i].model = m
                             \/ \E j \in 1..R : remaining[j] = m
    <3>1. EachOnce(summaries, remaining, {}) /\ DOMAIN remaining = 1..R
      BY <1>0, <1>1 DEF IInv
    <3>2. \A m \in Models : m \notin {} <=> \/ \E i \in DOMAIN summaries : summaries[i].model = m
                                            \/ \E j \in DOMAIN remaining : remaining[j] = m
      BY <3>1 DEF EachOnce
    <3>3. \A m \in Models : m \notin {}
      OBVIOUS
    <3>4. \A m \in Models : \/ \E i \in DOMAIN summaries : summaries[i].model = m
                            \/ \E j \in 1..R : remaining[j] = m
      BY <3>1, <3>2, <3>3
    <3>5. /\ \A i, j \in DOMAIN summaries : summaries[i].model = summaries[j].model => i = j
          /\ \A i, j \in DOMAIN remaining : remaining[i] = remaining[j] => i = j
          /\ \A i \in DOMAIN summaries, j \in DOMAIN remaining : summaries[i].model # remaining[j]
      BY <3>1 DEF EachOnce
    <3> HIDE DEF R
    <3> QED BY <3>1, <3>4, <3>5
  <2>2. \A i \in 1..(R - n) : n + i \in 1..R /\ n + i \notin 1..n
    BY <1>1, <1>2
  <2>3. \A j \in 1..R : j \in 1..n \/ (j - n \in 1..(R - n) /\ remaining[j] = rest[j - n])
    <3> TAKE j \in 1..R
    <3>1. j \in 1..n \/ (j - n \in 1..(R - n) /\ n + (j - n) = j)
      BY <1>1, <1>2
    <3> QED BY <1>3, <3>1
  <2>4. \A i, j \in DOMAIN rest : rest[i] = rest[j] => i = j
    <3> SUFFICES ASSUME NEW i \in 1..(R - n), NEW j \in 1..(R - n), rest[i] = rest[j]
                 PROVE  i = j
      BY <1>3
    <3>1. n + i = n + j
      BY <1>3, <2>1, <2>2
    <3> QED BY <1>1, <1>2, <3>1
  <2>5. \A i \in DOMAIN summaries, j \in DOMAIN rest : summaries[i].model # rest[j]
    BY <1>3, <2>1, <2>2
  <2>6. ASSUME NEW m \in Models
        PROVE  m \notin batch' <=> \/ \E i \in DOMAIN summaries : summaries[i].model = m
                                   \/ \E j \in DOMAIN rest : rest[j] = m
    <3>1. CASE \E i \in DOMAIN summaries : summaries[i].model = m
      <4>1. \A j \in 1..n : j \in 1..R
        BY <1>1, <1>2
      <4> QED BY <1>4, <2>1, <3>1, <4>1
    <3>2. CASE \E j \in DOMAIN rest : rest[j] = m
      <4>1. PICK j \in 1..(R - n) : remaining[n + j] = m
        BY <1>3, <3>2
      <4>2. \A i \in 1..n : i \in 1..R /\ i # n + j
        BY <1>1, <1>2, <4>1
      <4>3. \A i \in 1..n : remaining[i] # m
        BY <2>1, <2>2, <4>1, <4>2
      <4> QED BY <1>4, <3>2, <4>3
    <3>3. CASE /\ ~ \E i \in DOMAIN summaries : summaries[i].model = m
               /\ ~ \E j \in DOMAIN rest : rest[j] = m
      <4>1. PICK j \in 1..R : remaining[j] = m
        BY <2>1, <3>3
      <4>2. j \in 1..n
        BY <1>3, <2>3, <3>3, <4>1
      <4> QED BY <1>4, <3>3, <4>1, <4>2
    <3> QED BY <3>1, <3>2, <3>3
  <2> QED BY <2>1, <2>4, <2>5, <2>6 DEF EachOnce
<1>6. TypeOK'
  <2>1. Ready \in Worker
    BY DEF Ready, Idle, Worker, Stages
  <2> HIDE DEF Worker, SummaryType
  <2> QED BY <1>0, <1>3, <1>4, <2>1 DEF IInv, TypeOK
<1>7. AllTasks'
  <2>1. Ready.stage # "returned" /\ Ready.results < Tasks
    BY DEF Ready, Idle
  <2> QED BY <1>0, <2>1 DEF IInv, AllTasks
<1> QED BY <1>0, <1>5, <1>6, <1>7 DEF IInv, BetweenBatches, SlowedDown

LEMMA CollectInv == ASSUME IInv, NEW m \in Models, Collect(m) PROVE IInv'
<1> DEFINE n == Len(summaries)
<1>0. /\ m \in batch /\ worker[m].stage = "returned" /\ batch' = batch \ {m}
      /\ summaries' = Append(summaries, Summary(m))
      /\ worker' = [worker EXCEPT ![m] = Idle]
      /\ UNCHANGED <<phase, remaining, active_workers>>
  BY DEF Collect
<1>1. Summary(m) \in SummaryType /\ Summary(m).model = m /\ Summary(m).results = Tasks
  BY <1>0 DEF IInv, TypeOK, AllTasks, Worker, Summary, SummaryType
<1>2. summaries \in Seq(SummaryType)
  BY DEF IInv, TypeOK
<1> HIDE DEF SummaryType, Worker
<1>3. /\ summaries' \in Seq(SummaryType) /\ n \in Nat
      /\ DOMAIN summaries = 1..n /\ DOMAIN summaries' = 1..(n + 1)
      /\ summaries'[n + 1] = Summary(m)
      /\ \A i \in 1..n : summaries'[i] = summaries[i]
  BY <1>0, <1>1, <1>2
<1> HIDE DEF n
<1>4. TypeOK'
  <2>1. Idle \in Worker
    BY DEF Idle, Worker, Stages
  <2> QED BY <1>0, <1>3, <2>1 DEF IInv, TypeOK
<1>5. EachOnce(summaries', remaining', batch')
  <2>1. /\ \A i \in 1..n : summaries[i].model # m
        /\ \A j \in DOMAIN remaining : remaining[j] # m
    BY <1>0, <1>3 DEF IInv, EachOnce
  <2>2. \A i \in 1..(n + 1) : i \in 1..n \/ i = n + 1
    BY <1>3
  <2>3. \A i, j \in 1..(n + 1) : summaries'[i].model = summaries'[j].model => i = j
    <3>1. \A i, j \in 1..n : summaries[i].model = summaries[j].model => i = j
      BY <1>3 DEF IInv, EachOnce
    <3> QED BY <1>1, <1>3, <2>1, <2>2, <3>1
  <2>4. \A i \in 1..(n + 1), j \in DOMAIN remaining : summaries'[i].model # remaining[j]
    BY <1>1, <1>3, <2>1, <2>2 DEF IInv, EachOnce
  <2>5. ASSUME NEW k \in Models
        PROVE  k \notin batch' <=> \/ \E i \in 1..(n + 1) : summaries'[i].model = k
                                   \/ \E j \in DOMAIN remaining : remaining[j] = k
    <3>1. k \notin batch <=> \/ \E i \in 1..n : summaries[i].model = k
                             \/ \E j \in DOMAIN remaining : remaining[j] = k
      BY <1>3 DEF IInv, EachOnce
    <3>2. (\E i \in 1..(n + 1) : summaries'[i].model = k)
            <=> (\E i \in 1..n : summaries[i].model = k) \/ k = m
      <4>1. n + 1 \in 1..(n + 1) /\ \A i \in 1..n : i \in 1..(n + 1)
        BY <1>3
      <4> QED BY <1>1, <1>3, <2>2, <4>1
    <3> QED BY <1>0, <3>1, <3>2
  <2> QED BY <1>0, <1>3, <2>3, <2>4, <2>5 DEF IInv, EachOnce
<1>6. AllTasks'
  <2>1. \A i \in 1..(n + 1) : i \in 1..n \/ i = n + 1
    BY <1>3
  <2>2. \A i \in DOMAIN summaries' : summaries'[i].results = Tasks
    BY <1>1, <1>3, <2>1 DEF IInv, AllTasks
  <2>3. Idle.stage # "returned" /\ Idle.results < Tasks
    BY DEF Idle
  <2> QED BY <1>0, <2>2, <2>3 DEF IInv, AllTasks, TypeOK
<1>7. phase = "running"
  BY <1>0 DEF IInv, BetweenBatches, TypeOK
<1> QED BY <1>0, <1>4, <1>5, <1>6, <1>7 DEF IInv, BetweenBatches, SlowedDown

LEMMA EndBatchInv == ASSUME IInv, EndBatch PROVE IInv'
<1>0. /\ batch = {} /\ phase' = "head" /\ UNCHANGED <<remaining, batch, summaries, worker>>
      /\ active_workers' \in {2, active_workers}
  BY DEF EndBatch
<1>1. TypeOK'
  BY <1>0 DEF IInv, TypeOK
<1>2. SlowedDown'
  <2>1. CASE active_workers' = 2
    BY <2>1 DEF SlowedDown
  <2>2. CASE /\ active_workers <= 2 \/ \A s \in Range(summaries) : ~Limited(s)
             /\ UNCHANGED active_workers
    <3>1. \A i \in DOMAIN summaries : summaries[i] \in Range(summaries)
      BY DEF Range
    <3> QED BY <1>0, <2>2, <3>1 DEF SlowedDown, Limited
  <2> QED BY <2>1, <2>2 DEF EndBatch
<1> QED BY <1>0, <1>1, <1>2 DEF IInv, AllTasks, BetweenBatches

-----------------------------------------------------------------------------
(* The order of the summaries.  When no model waits or is in a thread, a   *)
(* summary's place is its rank.                                            *)

LEMMA PlaceIs ==
  ASSUME NEW s, NEW k \in 1..Len(Selected), s.model = Selected[k]
  PROVE  Place(s) = k
<1>1. \A i \in DOMAIN Selected : Selected[i] = s.model => i = k
  BY SelectedType, SelectedAssumption
<1>2. k \in DOMAIN Selected /\ Selected[k] = s.model
  BY SelectedType
<1> DEFINE D == DOMAIN Selected
           Is(i) == Selected[i] = s.model
<1>3. k \in D /\ Is(k) /\ \A i \in D : Is(i) => i = k
  BY <1>1, <1>2
<1> HIDE DEF D, Is
<1>4. (CHOOSE i \in D : Is(i)) = k
  BY <1>3
<1> QED BY <1>4 DEF Place, D, Is

LEMMA SortedByPlace ==
  ASSUME IInv, batch = {}, remaining = <<>>
  PROVE  /\ Sorted \in Seq(SummaryType)
         /\ DOMAIN Sorted = 1..Len(Selected)
         /\ \A k \in 1..Len(Selected) :
               /\ Sorted[k].model = Selected[k]
               /\ \E i \in DOMAIN summaries : Sorted[k] = summaries[i]
<1> DEFINE n == Len(summaries)
           N == Len(Selected)
           place(j) == Place(summaries[j])
           pl == [j \in 1..n |-> place(j)]
<1>1. /\ summaries \in Seq(SummaryType) /\ n \in Nat /\ DOMAIN summaries = 1..n
      /\ N \in Nat
  BY SelectedType DEF IInv, TypeOK
<1>2. /\ \A i, j \in 1..n : summaries[i].model = summaries[j].model => i = j
      /\ \A m \in Models : \E i \in 1..n : summaries[i].model = m
      /\ \A i \in 1..n : summaries[i].model \in Models
  <2>1. EachOnce(summaries, <<>>, {}) /\ DOMAIN <<>> = {}
    BY DEF IInv
  <2>0. \A m \in Models : m \notin {} <=> \/ \E i \in DOMAIN summaries : summaries[i].model = m
                                          \/ \E j \in DOMAIN <<>> : <<>>[j] = m
    BY <2>1 DEF EachOnce
  <2>2. \A i \in 1..n : summaries[i] \in SummaryType
    BY <1>1
  <2>3. \A s \in SummaryType : s.model \in Models
    BY DEF SummaryType
  <2>4. \A m \in Models : \E i \in DOMAIN summaries : summaries[i].model = m
    BY <2>0, <2>1
  <2>5. \A i, j \in DOMAIN summaries : summaries[i].model = summaries[j].model => i = j
    BY <2>1 DEF EachOnce
  <2> QED BY <1>1, <2>2, <2>3, <2>4, <2>5
<1>3. ASSUME NEW j \in 1..n
      PROVE  place(j) \in 1..N /\ Selected[place(j)] = summaries[j].model
  <2>1. PICK k \in 1..N : Selected[k] = summaries[j].model
    BY <1>2, SelectedType
  <2>2. place(j) = k
    BY <2>1, PlaceIs
  <2> QED BY <2>1, <2>2
<1>4. \A i, j \in 1..n : place(i) = place(j) => i = j
  BY <1>2, <1>3
<1>5. ASSUME NEW k \in 1..N PROVE \E j \in 1..n : place(j) = k
  <2>1. PICK j \in 1..n : summaries[j].model = Selected[k]
    BY <1>2, SelectedType
  <2> QED BY <2>1, PlaceIs
<1> HIDE DEF place
<1>6. pl \in Bijection(1..n, 1..N)
  <2>1. pl \in [1..n -> 1..N] /\ \A i, j \in 1..n : pl[i] = pl[j] => i = j
    BY <1>3, <1>4
  <2>2. \A k \in 1..N : \E j \in 1..n : pl[j] = k
    BY <1>5
  <2> HIDE DEF pl
  <2> QED BY <2>1, <2>2 DEF Bijection, Injection, Surjection, IsInjective
<1>7. n = N
  <2>1. /\ IsFiniteSet(1..n) /\ Cardinality(1..n) = n /\ Cardinality(1..N) = N
    <3> HIDE DEF n, N
    <3> QED BY <1>1, FS_Interval
  <2>2. ExistsBijection(1..n, 1..N)
    BY <1>6 DEF ExistsBijection
  <2> QED BY <2>1, <2>2, FS_Bijection
<1>8. ASSUME NEW i \in 1..n PROVE Rank(i) = place(i)
  <2> DEFINE Up == {j \in 1..n : place(j) <= place(i)}
             up == [j \in Up |-> place(j)]
  <2>1. place(i) \in 1..N
    BY <1>3
  <2>2. Rank(i) = Cardinality(Up)
    <3>1. \A j \in 1..n : (place(j) < place(i) \/ (place(j) = place(i) /\ j <= i))
                             <=> place(j) <= place(i)
      BY <1>1, <1>3, <1>4
    <3>2. Up = {j \in DOMAIN summaries : place(j) < place(i) \/ (place(j) = place(i) /\ j <= i)}
      BY <1>1, <3>1
    <3> HIDE DEF Up
    <3> QED BY <3>2 DEF Rank, place
  <2>3. up \in Bijection(Up, 1..place(i))
    <3>1. up \in [Up -> 1..place(i)] /\ \A a, b \in Up : up[a] = up[b] => a = b
      BY <1>3, <1>4, <2>1
    <3>2. \A k \in 1..place(i) : \E j \in Up : up[j] = k
      <4> TAKE k \in 1..place(i)
      <4>1. k \in 1..N /\ k <= place(i)
        BY <1>1, <2>1
      <4>2. PICK j \in 1..n : place(j) = k
        BY <1>5, <4>1
      <4> QED BY <4>1, <4>2
    <3> HIDE DEF up, Up
    <3> QED BY <3>1, <3>2 DEF Bijection, Injection, Surjection, IsInjective
  <2>4. Cardinality(Up) = place(i)
    <3>1. IsFiniteSet(Up)
      <4>1. IsFiniteSet(1..n) /\ Up \subseteq 1..n
        BY <1>1, FS_Interval
      <4> HIDE DEF Up
      <4> QED BY <4>1, FS_Subset
    <3>2. ExistsBijection(Up, 1..place(i))
      <4> HIDE DEF up, Up
      <4> QED BY <2>3 DEF ExistsBijection
    <3>3. Cardinality(1..place(i)) = place(i)
      BY <2>1, FS_Interval
    <3> HIDE DEF up, Up
    <3> QED BY <3>1, <3>2, <3>3, FS_Bijection
  <2> QED BY <2>2, <2>4
<1>9. ASSUME NEW k \in 1..N
      PROVE  /\ Sorted[k].model = Selected[k]
             /\ \E i \in DOMAIN summaries : Sorted[k] = summaries[i]
  <2>1. PICK j \in 1..n : place(j) = k
    BY <1>5
  <2>2. \A i \in 1..n : Rank(i) = k <=> i = j
    BY <1>4, <1>8, <2>1
  <2> DEFINE D == DOMAIN summaries
             R(i) == Rank(i)
  <2>3. j \in D /\ R(j) = k /\ \A i \in D : R(i) = k => i = j
    BY <1>1, <2>2
  <2> HIDE DEF D, R
  <2>4. (CHOOSE i \in D : R(i) = k) = j
    BY <2>3
  <2>5. Sorted[k] = summaries[j]
    BY <1>1, <1>7, <2>4 DEF Sorted, D, R
  <2> QED BY <1>1, <1>3, <2>1, <2>5
<1>10. DOMAIN Sorted = 1..N /\ Sorted = [k \in 1..N |-> Sorted[k]]
  BY <1>1, <1>7 DEF Sorted
<1>11. Sorted \in Seq(SummaryType)
  <2> DEFINE P == SummaryType
  <2>1. \A i \in DOMAIN summaries : summaries[i] \in P
    <3> HIDE DEF P
    <3> QED BY <1>1, ElementOfSeq DEF P
  <2> HIDE DEF P
  <2>2. \A k \in 1..N : Sorted[k] \in P
    BY <1>9, <2>1
  <2>3. Sorted \in [1..N -> P]
    BY <1>10, <2>2
  <2> HIDE DEF N
  <2>4. Sorted \in Seq(P)
    BY <1>1, <2>3, SeqDef
  <2> QED BY <2>4 DEF P
<1> QED BY <1>9, <1>10, <1>11

LEMMA ReturnInv == ASSUME IInv, Return PROVE IInv'
<1> DEFINE N == Len(Selected)
<1>0. /\ remaining = <<>> /\ batch = {} /\ phase' = "done" /\ summaries' = Sorted
      /\ UNCHANGED <<remaining, batch, active_workers, worker>>
  BY DEF Return, IInv, BetweenBatches
<1>1. /\ Sorted \in Seq(SummaryType) /\ DOMAIN Sorted = 1..N
      /\ \A k \in 1..N : /\ Sorted[k].model = Selected[k]
                        /\ \E i \in DOMAIN summaries : Sorted[k] = summaries[i]
  BY <1>0, SortedByPlace
<1>2. TypeOK'
  <2> HIDE DEF SummaryType, Worker
  <2> QED BY <1>0, <1>1 DEF IInv, TypeOK
<1>3. EachOnce(summaries', remaining', batch')
  <2>1. \A i, j \in 1..N : Selected[i] = Selected[j] => i = j
    BY SelectedAssumption
  <2>2. \A i, j \in DOMAIN Sorted : Sorted[i].model = Sorted[j].model => i = j
    BY <1>1, <2>1
  <2>3. \A m \in Models : \E i \in DOMAIN Sorted : Sorted[i].model = m
    BY <1>1, SelectedType
  <2>4. DOMAIN <<>> = {}
    OBVIOUS
  <2>5. EachOnce(Sorted, <<>>, {})
    BY <2>2, <2>3, <2>4 DEF EachOnce
  <2> QED BY <1>0, <2>5
<1>4. [i \in DOMAIN Sorted |-> Sorted[i].model] = Selected
  <2> DEFINE names == [i \in DOMAIN Sorted |-> Sorted[i].model]
  <2>1. /\ names = [i \in 1..N |-> names[i]] /\ \A i \in 1..N : names[i] = Selected[i]
    BY <1>1
  <2>2. Selected = [i \in 1..N |-> Selected[i]]
    BY SelectedType
  <2> HIDE DEF names, N
  <2>3. names = Selected
    BY <2>1, <2>2
  <2> QED BY <2>3 DEF names
<1>5. AllTasks'
  BY <1>0, <1>1 DEF IInv, AllTasks
<1> QED BY <1>0, <1>2, <1>3, <1>4, <1>5 DEF IInv, BetweenBatches, SlowedDown

-----------------------------------------------------------------------------
(* The threads.                                                            *)

Good(w) == w \in Worker /\ (IF w.stage = "returned" THEN w.results = Tasks
                             ELSE w.results < Tasks)

LEMMA ThreadKeeps ==
  ASSUME IInv, NEW m \in Models, NEW w, Good(w),
         worker' = [worker EXCEPT ![m] = w],
         UNCHANGED <<phase, remaining, batch, active_workers, workers_used, notes, summaries>>
  PROVE  IInv'
<1>1. TypeOK'
  <2> HIDE DEF Worker, SummaryType
  <2> QED BY DEF IInv, TypeOK, Good
<1>2. AllTasks'
  BY DEF IInv, TypeOK, AllTasks, Good
<1> QED BY <1>1, <1>2 DEF IInv, BetweenBatches, SlowedDown

(* What a thread that is in a call goes on to.                             *)
LEMMA PostIsGood ==
  ASSUME NEW w, Good(w), w.stage # "returned",
         NEW stage \in {"sdk", "sdk_again", "http", "http_again"}
  PROVE  Good(Post(w, stage))
BY DEF Good, Worker, Stages, Post

LEMMA ConcludeIsGood ==
  ASSUME NEW w, Good(w), w.stage # "returned", NEW result
  PROVE  Good(Conclude(w, result))
<1> DEFINE stage == IF w.results + 1 < Tasks THEN "sdk" ELSE "returned"
           limited == w.limited \/ result.category = "rate_limit"
<1>1. w \in Worker /\ w.results \in Nat /\ w.results < Tasks
  BY DEF Good, Worker
<1>2. stage \in Stages /\ (stage = "returned" <=> w.results + 1 = Tasks)
      /\ w.results + 1 \in Nat /\ (stage # "returned" => w.results + 1 < Tasks)
  BY <1>1 DEF Stages
<1>3. limited \in BOOLEAN
  OBVIOUS
<1> DEFINE n == w.results + 1
           x == [w EXCEPT !.stage = stage, !.results = n, !.limited = limited]
<1>4. Conclude(w, result) = x
  BY DEF Conclude
<1>5. n \in Nat
  BY <1>1
<1> HIDE DEF stage, limited, n
<1>6. x \in Worker /\ x.stage = stage /\ x.results = n
  BY <1>1, <1>2, <1>3, <1>5 DEF Worker
<1> HIDE DEF x
<1>7. IF x.stage = "returned" THEN x.results = Tasks ELSE x.results < Tasks
  BY <1>2, <1>6 DEF n
<1> QED BY <1>4, <1>6, <1>7 DEF Good

LEMMA AfterSdkIsGood ==
  ASSUME NEW w, Good(w), w.stage # "returned", NEW result
  PROVE  Good(AfterSdk(w, result))
BY PostIsGood, ConcludeIsGood DEF AfterSdk

LEMMA StepInv == ASSUME IInv, NEW m \in Models, Step(m) \/ Raises(m) PROVE IInv'
<1> DEFINE w == worker[m]
<1>1. Good(w)
  BY DEF IInv, TypeOK, AllTasks, Good
<1>2. /\ UNCHANGED <<phase, remaining, batch, active_workers, workers_used, notes, summaries>>
      /\ w.stage # "returned"
  BY DEF Step, Raises, Sdk, SdkAgain, Http, HttpAgain
<1>3. \E x : Good(x) /\ worker' = [worker EXCEPT ![m] = x]
  <2>1. CASE Sdk(m)
    <3>1. PICK result : worker' = [worker EXCEPT ![m] =
                 IF ~result.success /\ RetrySdk(result) THEN Post(w, "sdk_again")
                 ELSE AfterSdk(w, result)]
      BY <2>1 DEF Sdk
    <3>2. Good(Post(w, "sdk_again")) /\ Good(AfterSdk(w, result))
      BY <1>1, <1>2, PostIsGood, AfterSdkIsGood
    <3> QED BY <3>1, <3>2
  <2>2. CASE SdkAgain(m)
    <3>1. PICK result : worker' = [worker EXCEPT ![m] = AfterSdk(w, result)]
      BY <2>2 DEF SdkAgain
    <3> QED BY <1>1, <1>2, <3>1, AfterSdkIsGood
  <2>3. CASE Http(m)
    <3>1. \/ worker' = [worker EXCEPT ![m] = Post(w, "http_again")]
          \/ \E result : worker' = [worker EXCEPT ![m] = Conclude(w, result)]
      BY <2>3 DEF Http
    <3> QED BY <1>1, <1>2, <3>1, PostIsGood, ConcludeIsGood
  <2>4. CASE HttpAgain(m)
    <3>1. PICK result : worker' = [worker EXCEPT ![m] = Conclude(w, result)]
      BY <2>4 DEF HttpAgain
    <3> QED BY <1>1, <1>2, <3>1, ConcludeIsGood
  <2>5. CASE Raises(m)
    <3> DEFINE x == [w EXCEPT !.stage = "returned", !.results = Tasks, !.limited = FALSE,
                              !.raised = TRUE]
    <3>1. worker' = [worker EXCEPT ![m] = x]
      BY <2>5 DEF Raises
    <3>2. Good(x)
      BY <1>1 DEF Good, Worker, Stages
    <3> HIDE DEF x
    <3> QED BY <3>1, <3>2
  <2> QED BY <2>1, <2>2, <2>3, <2>4, <2>5 DEF Step
<1> QED BY <1>2, <1>3, ThreadKeeps

-----------------------------------------------------------------------------
LEMMA NextIInv == ASSUME IInv, [Next]_vars PROVE IInv'
<1>1. CASE MainThread
  BY <1>1, StartBatchInv, CollectInv, EndBatchInv, ReturnInv DEF MainThread
<1>2. CASE \E m \in Models : Step(m) \/ Raises(m)
  BY <1>2, StepInv
<1>3. CASE UNCHANGED vars
  BY <1>3 DEF vars, IInv, TypeOK, AllTasks, BetweenBatches, SlowedDown
<1> QED BY <1>1, <1>2, <1>3 DEF Next

LEMMA Invariance == Spec => []IInv
<1>1. Init => IInv
  BY InitIInv
<1>2. IInv /\ [Next]_vars => IInv'
  BY NextIInv
<1> QED BY <1>1, <1>2, PTL DEF Spec

LEMMA Concatenated ==
  \A s, t \in Seq(Models) :
    /\ DOMAIN (s \o t) = 1..(Len(s) + Len(t))
    /\ \A i \in 1..Len(s) : (s \o t)[i] = s[i]
    /\ \A j \in 1..Len(t) : (s \o t)[Len(s) + j] = t[j]
OBVIOUS

(* Every model that was selected is benchmarked once with every task, and  *)
(* comes out in its place, for any number of models, workers and tasks and *)
(* whatever the posts end in (_run_parallel_benchmarks).                   *)
THEOREM ModelsAreDoneOnce == Spec => []EachModelOnce
<1>1. IInv => EachModelOnce
  <2> DEFINE names == [i \in DOMAIN summaries |-> summaries[i].model]
             a == Len(summaries)
             b == Len(remaining)
             both == names \o remaining
  <2> SUFFICES ASSUME IInv
               PROVE  /\ batch \subseteq Models
                      /\ IsInjective(both) /\ Range(both) = Models \ batch
                      /\ \A i \in DOMAIN summaries : summaries[i].results = Tasks
                      /\ phase = "done" => names = Selected
    BY DEF EachModelOnce
  <2>1. /\ a \in Nat /\ DOMAIN summaries = 1..a
        /\ b \in Nat /\ DOMAIN remaining = 1..b /\ remaining \in Seq(Models)
        /\ \A i \in 1..a : summaries[i].model \in Models
    <3>1. \A s \in SummaryType : s.model \in Models
      BY DEF SummaryType
    <3> QED BY <3>1 DEF IInv, TypeOK
  <2>2. names \in Seq(Models) /\ Len(names) = a
    <3>1. names \in [1..a -> Models]
      BY <2>1
    <3> HIDE DEF names, a
    <3>2. names \in Seq(Models)
      BY <2>1, <3>1, SeqDef
    <3> QED BY <2>1, <3>1, <3>2, LenProperties
  <2>3. \A i \in 1..a : names[i] = summaries[i].model
    BY <2>1
  <2> HIDE DEF names, a, b
  <2>4. /\ DOMAIN both = 1..(a + b)
        /\ \A i \in 1..a : both[i] = summaries[i].model
        /\ \A j \in 1..b : both[a + j] = remaining[j]
        /\ \A k \in 1..(a + b) : k \in 1..a \/ \E j \in 1..b : k = a + j
    <3>1. Len(remaining) = b
      BY DEF b
    <3>2. DOMAIN both = 1..(a + b) /\ (\A i \in 1..a : both[i] = names[i])
          /\ \A j \in 1..b : both[a + j] = remaining[j]
      <4> DEFINE t == remaining
      <4>1. names \in Seq(Models) /\ t \in Seq(Models) /\ Len(names) = a /\ Len(t) = b
        BY <2>1, <2>2, <3>1
      <4> HIDE DEF t
      <4>2. /\ DOMAIN (names \o t) = 1..(Len(names) + Len(t))
            /\ \A i \in 1..Len(names) : (names \o t)[i] = names[i]
            /\ \A j \in 1..Len(t) : (names \o t)[Len(names) + j] = t[j]
        BY <4>1, Concatenated
      <4>3. /\ DOMAIN (names \o t) = 1..(a + b)
            /\ \A i \in 1..a : (names \o t)[i] = names[i]
            /\ \A j \in 1..b : (names \o t)[a + j] = t[j]
        BY <4>1, <4>2
      <4> QED BY <4>3 DEF t
    <3>3. \A k \in 1..(a + b) : k \in 1..a \/ (k - a \in 1..b /\ k = a + (k - a))
      BY <2>1
    <3> QED BY <2>3, <3>2, <3>3
  <2> HIDE DEF both
  <2>5. /\ \A i, j \in 1..a : summaries[i].model = summaries[j].model => i = j
        /\ \A i, j \in 1..b : remaining[i] = remaining[j] => i = j
        /\ \A i \in 1..a, j \in 1..b : summaries[i].model # remaining[j]
        /\ \A m \in Models : m \notin batch <=> \/ \E i \in 1..a : summaries[i].model = m
                                                \/ \E j \in 1..b : remaining[j] = m
    BY <2>1 DEF IInv, EachOnce
  <2>6. IsInjective(both)
    <3> SUFFICES ASSUME NEW k \in 1..(a + b), NEW l \in 1..(a + b), both[k] = both[l]
                 PROVE  k = l
      BY <2>4 DEF IsInjective
    <3> QED BY <2>4, <2>5
  <2>7. Range(both) = Models \ batch
    <3>1. Range(both) = {both[k] : k \in 1..(a + b)}
      BY <2>4 DEF Range
    <3>2. ASSUME NEW k \in 1..(a + b) PROVE both[k] \in Models \ batch
      <4>1. CASE k \in 1..a
        <5>1. both[k] = summaries[k].model /\ summaries[k].model \in Models
          BY <2>1, <2>4, <4>1
        <5> QED BY <2>5, <4>1, <5>1
      <4>2. CASE \E j \in 1..b : k = a + j
        <5>1. PICK j \in 1..b : k = a + j
          BY <4>2
        <5>2. both[k] = remaining[j] /\ remaining[j] \in Models
          BY <2>1, <2>4, <5>1
        <5> QED BY <2>5, <5>2
      <4> QED BY <2>4, <4>1, <4>2
    <3>3. ASSUME NEW m \in Models \ batch PROVE \E k \in 1..(a + b) : both[k] = m
      <4>1. \A i \in 1..a : i \in 1..(a + b)
        BY <2>1
      <4>2. \A j \in 1..b : a + j \in 1..(a + b)
        BY <2>1
      <4> QED BY <2>4, <2>5, <4>1, <4>2
    <3> QED BY <3>1, <3>2, <3>3
  <2> QED BY <2>6, <2>7 DEF IInv, TypeOK, AllTasks, BetweenBatches, names
<1> QED BY <1>1, Invariance, PTL

(* Once a collected summary shows a rate limit, no batch of more than two  *)
(* models is started, for any number of workers.                           *)
THEOREM SlowsDown == Spec => RateLimitSlowsDown
<1>1. IInv /\ [Next]_vars =>
        [phase = "head" /\ phase' = "running" /\ (\E s \in Range(summaries) : Limited(s))
           => Cardinality(batch') <= 2]_vars
  <2> SUFFICES ASSUME IInv, Next, phase = "head", phase' = "running",
                      NEW s \in Range(summaries), Limited(s)
               PROVE  Cardinality(batch') <= 2
    OBVIOUS
  <2>1. StartBatch
    <3>1. ~EndBatch /\ ~Return
      BY DEF EndBatch, Return
    <3>2. ASSUME NEW m \in Models PROVE ~Collect(m) /\ ~Step(m) /\ ~Raises(m)
      BY DEF Collect, Step, Raises, Sdk, SdkAgain, Http, HttpAgain
    <3> QED BY <3>1, <3>2 DEF Next, MainThread
  <2> DEFINE n == AtMost(active_workers, Len(remaining))
             first == SubSeq(remaining, 1, n)
  <2>2. batch' = Range(first) /\ remaining # <<>>
    BY <2>1 DEF StartBatch
  <2>3. active_workers <= 2 /\ active_workers \in Nat \ {0}
    <3>1. \E i \in DOMAIN summaries : summaries[i].limited
      BY DEF Range, Limited
    <3> QED BY <3>1 DEF IInv, SlowedDown, TypeOK
  <2>4. remaining \in Seq(Models) /\ Len(remaining) \in Nat \ {0}
    BY <2>2, EmptySeq DEF IInv, TypeOK
  <2>5. n \in 1..2 /\ n <= Len(remaining)
    <3>1. n \in Nat \ {0} /\ n <= active_workers /\ n <= Len(remaining)
      BY <2>3, <2>4, AtMostIs
    <3> HIDE DEF n
    <3> QED BY <2>3, <2>4, <3>1
  <2> HIDE DEF n
  <2>6. first \in Seq(Models) /\ DOMAIN first = 1..n
    BY <2>4, <2>5
  <2> HIDE DEF first
  <2>7. Range(first) \subseteq {first[1], first[2]}
    BY <2>5, <2>6 DEF Range
  <2>8. IsFiniteSet({first[1], first[2]}) /\ Cardinality({first[1], first[2]}) <= 2
    <3>1. {first[1], first[2]} = {first[1]} \cup {first[2]}
      OBVIOUS
    <3>2. IsFiniteSet({first[1]}) /\ Cardinality({first[1]}) = 1
      BY FS_Singleton
    <3>3. /\ IsFiniteSet({first[1]} \cup {first[2]})
          /\ \/ Cardinality({first[1]} \cup {first[2]}) = Cardinality({first[1]})
             \/ Cardinality({first[1]} \cup {first[2]}) = Cardinality({first[1]}) + 1
      BY <3>2, FS_AddElement
    <3> QED BY <3>1, <3>2, <3>3
  <2>9. Cardinality(Range(first)) <= Cardinality({first[1], first[2]})
        /\ Cardinality(Range(first)) \in Nat /\ Cardinality({first[1], first[2]}) \in Nat
    BY <2>7, <2>8, FS_Subset, FS_CardinalityType
  <2> QED BY <2>2, <2>8, <2>9
<1> QED BY <1>1, Invariance, PTL DEF Spec, RateLimitSlowsDown
=============================================================================
