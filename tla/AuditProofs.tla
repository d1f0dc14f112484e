---------------------------- MODULE AuditProofs ----------------------------
(***************************************************************************)
(* Audit for every catalogue, listing and result of a task, every number   *)
(* of audits, requests and starts: the candidates are the best of what was *)
(* listed, what is to be avoided is recommended with the reason given, the *)
(* papers come in order, and the service offers what the newest report     *)
(* said when it was read, and nothing else for the rest of its life.       *)
(*                                                                         *)
(* Recommendations has no state: what its operators return is told by      *)
(* lemmas, from rankings and quotients up to a whole report.  The          *)
(* inductive invariant says where the last audit is with its papers, that  *)
(* no report carries a later stamp than its own, and that as long as no    *)
(* report was opened since the service was started, whoever is reading     *)
(* reads the newest one.                                                   *)
(***************************************************************************)
EXTENDS Audit, TLAPS, FiniteSetTheorems, WellFoundedInduction

(* A set of naturals has a least element, and what holds of 0 and of the   *)
(* successor of whatever it holds of holds of all: the induction of this   *)
(* module is over sets of naturals.                                        *)
LEMMA LeastNatural ==
  ASSUME NEW S \in SUBSET Nat, S # {}
  PROVE  \E n \in S : \A m \in S : n <= m
<1>1. PICK n \in S : \A m \in S : ~(<<m, n>> \in OpToRel(<, Nat))
  BY NatLessThanWellFounded, WFMin
<1> SUFFICES ASSUME NEW m \in S, ~(n <= m) PROVE FALSE
  OBVIOUS
<1>2. m \in Nat /\ n \in Nat /\ m < n
  OBVIOUS
<1>3. <<m, n>> \in Nat \X Nat /\ <<m, n>>[1] < <<m, n>>[2]
  BY <1>2
<1>4. <<m, n>> \in OpToRel(<, Nat)
  BY <1>3, Zenon DEF OpToRel
<1> QED BY <1>1, <1>4

LEMMA SetInduction ==
  ASSUME NEW S, 0 \in S, \A n \in Nat : n \in S => n + 1 \in S
  PROVE  Nat \subseteq S
<1> SUFFICES ASSUME Nat \ S # {} PROVE FALSE
  OBVIOUS
<1>1. PICK n \in Nat \ S : \A m \in Nat \ S : n <= m
  BY LeastNatural
<1>2. n # 0 /\ n - 1 \in Nat /\ ~(n <= n - 1)
  BY <1>1
<1>3. n - 1 \in S
  BY <1>1, <1>2
<1>4. (n - 1) + 1 \in S
  BY <1>2, <1>3
<1> QED BY <1>1, <1>4

(* There is a function that starts from zero and goes on by steps.         *)
Stepwise(g, zero, N, step) == g[0] = zero /\ \A n \in 1..N : g[n] = step[n][g[n - 1]]

LEMMA Recursion ==
  ASSUME NEW S, NEW zero \in S, NEW N \in Nat, NEW step \in [1..N -> [S -> S]]
  PROVE  \E g \in [0..N -> S] : Stepwise(g, zero, N, step)
<1> DEFINE Good(k, g) == g[0] = zero /\ \A n \in 1..k : g[n] = step[n][g[n - 1]]
           K == {k \in Nat : k <= N => \E g \in [0..k -> S] : Good(k, g)}
<1>1. 0 \in K
  <2> DEFINE g == [n \in 0..0 |-> zero]
  <2>1. g \in [0..0 -> S] /\ Good(0, g)
    OBVIOUS
  <2> QED BY <2>1
<1>2. ASSUME NEW k \in Nat, k \in K PROVE k + 1 \in K
  <2>0. SUFFICES ASSUME k + 1 <= N PROVE \E g \in [0..(k + 1) -> S] : Good(k + 1, g)
    <3>1. k + 1 \in Nat
      OBVIOUS
    <3> HIDE DEF Good
    <3> QED BY <3>1
  <2>1. PICK g \in [0..k -> S] : Good(k, g)
    <3>1. k <= N
      BY <2>0
    <3> HIDE DEF Good
    <3> QED BY <1>2, <3>1
  <2> DEFINE last == step[k + 1][g[k]]
             h == [n \in 0..(k + 1) |-> IF n = k + 1 THEN last ELSE g[n]]
  <2>2. step[k + 1][g[k]] \in S /\ k \in 0..k
    <3>1. g[k] \in S /\ k + 1 \in 1..N /\ k \in 0..k
      BY <2>0
    <3>2. \A a \in S, b \in 1..N : step[b][a] \in S
      OBVIOUS
    <3> QED BY <3>1, <3>2
  <2>3. h \in [0..(k + 1) -> S]
    <3>1. last \in S
      BY <2>2
    <3>2. \A n \in 0..(k + 1) : n # k + 1 => n \in 0..k
      OBVIOUS
    <3> HIDE DEF last
    <3> QED BY <3>1, <3>2
  <2>4. h[0] = zero
    <3>1. 0 \in 0..(k + 1) /\ 0 # k + 1
      OBVIOUS
    <3> QED BY <2>1, <3>1
  <2>5. ASSUME NEW n \in 1..(k + 1) PROVE h[n] = step[n][h[n - 1]]
    <3>1. n \in 0..(k + 1) /\ n - 1 \in 0..(k + 1) /\ n - 1 # k + 1
      OBVIOUS
    <3>2. h[n - 1] = g[n - 1]
      BY <3>1
    <3>3. CASE n = k + 1
      <4>1. n - 1 = k
        BY <3>3
      <4> QED BY <3>1, <3>2, <3>3, <4>1
    <3>4. CASE n # k + 1
      <4>1. n \in 1..k /\ h[n] = g[n]
        BY <3>1, <3>4
      <4> QED BY <2>1, <3>2, <4>1
    <3> QED BY <3>3, <3>4
  <2> QED BY <2>3, <2>4, <2>5
<1> HIDE DEF K
<1>3. N \in K
  BY <1>1, <1>2, SetInduction
<1>4. N <= N => \E g \in [0..N -> S] : Good(N, g)
  <2> HIDE DEF Good
  <2> QED BY <1>3 DEF K
<1> QED BY <1>4 DEF Stepwise

-----------------------------------------------------------------------------
(* Keys of one length are compared like numbers.                           *)
LEMMA AboveIsOrder ==
  ASSUME NEW d \in Nat, NEW k \in [1..d -> Int], NEW l \in [1..d -> Int],
         NEW m \in [1..d -> Int]
  PROVE  /\ ~Above(k, k)
         /\ Above(k, l) => ~Above(l, k) /\ k # l
         /\ Above(k, l) /\ Above(l, m) => Above(k, m)
         /\ k # l => Above(k, l) \/ Above(l, k)
<1> DEFINE Differ(i, a, b) == a[i] > b[i] /\ \A j \in 1..(i - 1) : a[j] = b[j]
<1>0. ASSUME NEW a \in [1..d -> Int], NEW b \in [1..d -> Int]
      PROVE  Above(a, b) <=> \E i \in 1..d : Differ(i, a, b)
  BY DEF Above
<1>1. ~Above(k, k)
  BY DEF Above
<1>2. ASSUME Above(k, l), Above(l, k) PROVE FALSE
  <2>1. PICK i \in 1..d : Differ(i, k, l)
    BY <1>0, <1>2
  <2>2. PICK j \in 1..d : Differ(j, l, k)
    BY <1>0, <1>2
  <2>3. CASE i < j
    <3>1. i \in 1..(j - 1) /\ k[i] \in Int /\ l[i] \in Int
      BY <2>3
    <3> QED BY <2>1, <2>2, <3>1
  <2>4. CASE j < i
    <3>1. j \in 1..(i - 1) /\ k[j] \in Int /\ l[j] \in Int
      BY <2>4
    <3> QED BY <2>1, <2>2, <3>1
  <2>5. CASE i = j
    <3>1. k[j] \in Int /\ l[j] \in Int
      OBVIOUS
    <3> QED BY <2>1, <2>2, <2>5, <3>1
  <2> QED BY <2>3, <2>4, <2>5
<1>3. ASSUME Above(k, l), Above(l, m) PROVE Above(k, m)
  <2>1. PICK i \in 1..d : Differ(i, k, l)
    BY <1>0, <1>3
  <2>2. PICK j \in 1..d : Differ(j, l, m)
    BY <1>0, <1>3
  <2>3. CASE i < j
    <3>1. i \in 1..(j - 1) /\ \A n \in 1..(i - 1) : n \in 1..(j - 1)
      BY <2>3
    <3>2. Differ(i, k, m)
      BY <2>1, <2>2, <3>1
    <3> QED BY <1>0, <3>2
  <2>4. CASE j <= i
    <3>1. \A n \in 1..(j - 1) : n \in 1..(i - 1)
      BY <2>4
    <3>2. k[j] \in Int /\ l[j] \in Int /\ m[j] \in Int /\ k[j] >= l[j]
      BY <2>1, <2>2, <2>4
    <3>3. k[j] > m[j]
      BY <2>2, <3>2
    <3>4. \A n \in 1..(j - 1) : k[n] = m[n]
      BY <2>1, <2>2, <3>1
    <3>5. Differ(j, k, m)
      BY <3>3, <3>4
    <3> QED BY <1>0, <3>5
  <2> QED BY <2>3, <2>4
<1>4. ASSUME k # l PROVE Above(k, l) \/ Above(l, k)
  <2> DEFINE D == {i \in 1..d : k[i] # l[i]}
  <2>1. D # {} /\ D \in SUBSET Nat
    <3>1. PICK i \in 1..d : k[i] # l[i]
      BY <1>4
    <3>2. i \in D
      BY <3>1
    <3>3. D \subseteq 1..d /\ 1..d \subseteq Nat
      OBVIOUS
    <3> HIDE DEF D
    <3> QED BY <3>2, <3>3
  <2>2. PICK i \in D : \A j \in D : i <= j
    BY <2>1, LeastNatural
  <2>3. \A j \in 1..(i - 1) : k[j] = l[j]
    <3> TAKE j \in 1..(i - 1)
    <3>1. j \in 1..d /\ ~(i <= j)
      OBVIOUS
    <3> QED BY <2>2, <3>1
  <2>4. k[i] > l[i] \/ l[i] > k[i]
    OBVIOUS
  <2>5. Differ(i, k, l) \/ Differ(i, l, k)
    BY <2>3, <2>4
  <2> QED BY <1>0, <2>5
<1> QED BY <1>1, <1>2, <1>3, <1>4

(* So are the places that have such keys: no two are equal.                *)
Keyed(I, key) == \E d \in Nat : \E J : I \subseteq J /\ key \in [J -> [1..d -> Int]]

LEMMA BeforeIsOrder ==
  ASSUME NEW I \in SUBSET Nat, NEW key, Keyed(I, key)
  PROVE  /\ \A i \in I : ~Before(key, i, i)
         /\ \A i, j \in I : Before(key, i, j) => ~Before(key, j, i)
         /\ \A i, j, n \in I : Before(key, i, j) /\ Before(key, j, n) => Before(key, i, n)
         /\ \A i, j \in I : i # j => Before(key, i, j) \/ Before(key, j, i)
<1>1. PICK d \in Nat : \E J : I \subseteq J /\ key \in [J -> [1..d -> Int]]
  BY DEF Keyed
<1>2. \A i \in I : key[i] \in [1..d -> Int]
  BY <1>1
<1>3. ASSUME NEW i \in I, NEW j \in I, NEW n \in I
      PROVE  /\ ~Before(key, i, i)
             /\ Before(key, i, j) => ~Before(key, j, i)
             /\ Before(key, i, j) /\ Before(key, j, n) => Before(key, i, n)
             /\ i # j => Before(key, i, j) \/ Before(key, j, i)
  <2> DEFINE k == key[i]
             l == key[j]
             m == key[n]
  <2>1. k \in [1..d -> Int] /\ l \in [1..d -> Int] /\ m \in [1..d -> Int]
    BY <1>2
  <2> HIDE DEF k, l, m
  <2>2. /\ ~Above(k, k)
        /\ Above(k, l) => ~Above(l, k) /\ k # l
        /\ Above(k, l) /\ Above(l, m) => Above(k, m)
        /\ k # l => Above(k, l) \/ Above(l, k)
    BY <2>1, AboveIsOrder
  <2>3. /\ Before(key, i, i) <=> Above(k, k)
        /\ Before(key, i, j) <=> Above(k, l) \/ (k = l /\ i < j)
        /\ Before(key, j, i) <=> Above(l, k) \/ (l = k /\ j < i)
        /\ Before(key, j, n) <=> Above(l, m) \/ (l = m /\ j < n)
        /\ Before(key, i, n) <=> Above(k, m) \/ (k = m /\ i < n)
    BY DEF Before, k, l, m
  <2> QED BY <2>2, <2>3
<1> QED BY <1>3

(* What a function makes of a finite set.                                  *)
LEMMA ImageIs ==
  ASSUME NEW S, IsFiniteSet(S), NEW f
  PROVE  /\ IsFiniteSet({f[x] : x \in S})
         /\ Cardinality({f[x] : x \in S}) <= Cardinality(S)
         /\ Cardinality({f[x] : x \in S}) = Cardinality(S)
               <=> \A x, y \in S : f[x] = f[y] => x = y
<1> DEFINE T == {f[x] : x \in S}
           g == [x \in S |-> f[x]]
<1>1. g \in Surjection(S, T)
  BY DEF Surjection
<1>2. /\ IsFiniteSet(T) /\ Cardinality(T) <= Cardinality(S)
      /\ Cardinality(T) = Cardinality(S) <=> g \in Injection(S, T)
  <2> HIDE DEF g, T
  <2> QED BY <1>1, FS_Surjection
<1>3. g \in Injection(S, T) <=> \A x, y \in S : f[x] = f[y] => x = y
  <2>1. g \in [S -> T] /\ \A x \in S : g[x] = f[x]
    OBVIOUS
  <2> HIDE DEF g, T
  <2> QED BY <2>1 DEF Injection, IsInjective
<1> QED BY <1>2, <1>3

(* A ranking lists the places of I, each once, the first ones first.       *)
LEMMA RankingIs ==
  ASSUME NEW I \in SUBSET Nat, IsFiniteSet(I), NEW key, Keyed(I, key)
  PROVE  /\ Cardinality(I) \in Nat /\ Ranking(I, key) \in [1..Cardinality(I) -> I]
         /\ \A i \in I : \E n \in 1..Cardinality(I) : Ranking(I, key)[n] = i
         /\ \A m, n \in 1..Cardinality(I) :
                m < n => Before(key, Ranking(I, key)[m], Ranking(I, key)[n])
<1> DEFINE N == Cardinality(I)
           Ahead(i) == {j \in I : Before(key, j, i)}
           cnt == [i \in I |-> Cardinality(Ahead(i))]
           R == Ranking(I, key)
<1>1. N \in Nat /\ IsFiniteSet(I)
  BY FS_CardinalityType
<1>2. ASSUME NEW i \in I
      PROVE  IsFiniteSet(Ahead(i)) /\ Cardinality(Ahead(i)) \in 0..(N - 1)
  <2>1. i \notin Ahead(i) /\ Ahead(i) \in SUBSET I
    BY BeforeIsOrder
  <2> DEFINE A == Ahead(i)
  <2>2. i \notin A /\ A \in SUBSET I
    BY <2>1
  <2> HIDE DEF A
  <2>3. IsFiniteSet(A) /\ Cardinality(A) <= N /\ (N = Cardinality(A) => I = A)
    BY <2>2, FS_Subset
  <2>4. Cardinality(A) \in Nat
    BY <2>3, FS_CardinalityType
  <2>5. Cardinality(A) # N
    BY <2>2, <2>3
  <2> HIDE DEF N
  <2>6. Cardinality(A) \in 0..(N - 1)
    BY <1>1, <2>3, <2>4, <2>5
  <2> QED BY <2>3, <2>6 DEF A
<1>3. ASSUME NEW i \in I, NEW j \in I, Before(key, i, j)
      PROVE  Cardinality(Ahead(i)) < Cardinality(Ahead(j))
  <2> DEFINE A == Ahead(i)
             B == Ahead(j)
  <2>1. A \in SUBSET B /\ i \in B /\ i \notin A
    BY <1>3, BeforeIsOrder
  <2>2. IsFiniteSet(A) /\ IsFiniteSet(B) /\ Cardinality(A) \in Int /\ Cardinality(B) \in Int
    BY <1>2
  <2> HIDE DEF A, B
  <2>3. Cardinality(A) <= Cardinality(B) /\ Cardinality(A) # Cardinality(B)
    BY <2>1, <2>2, FS_Subset
  <2> QED BY <2>2, <2>3 DEF A, B
<1>4. cnt \in [I -> 0..(N - 1)]
  BY <1>2
<1>5. \A i, j \in I : cnt[i] = cnt[j] => i = j
  <2> SUFFICES ASSUME NEW i \in I, NEW j \in I, i # j PROVE cnt[i] # cnt[j]
    OBVIOUS
  <2>1. Before(key, i, j) \/ Before(key, j, i)
    BY BeforeIsOrder
  <2>2. cnt[i] = Cardinality(Ahead(i)) /\ cnt[j] = Cardinality(Ahead(j))
    OBVIOUS
  <2>3. cnt[i] < cnt[j] \/ cnt[j] < cnt[i]
    BY <1>3, <2>1, <2>2
  <2>4. cnt[i] \in Int /\ cnt[j] \in Int
    BY <1>4
  <2> HIDE DEF cnt
  <2> QED BY <2>3, <2>4
<1>6. cnt \in Surjection(I, 0..(N - 1))
  <2>1. cnt \in Injection(I, 0..(N - 1))
    <3> HIDE DEF cnt, N
    <3> QED BY <1>4, <1>5 DEF Injection, IsInjective
  <2>2. IsFiniteSet(0..(N - 1)) /\ Cardinality(0..(N - 1)) = N
    <3> HIDE DEF N
    <3>1. 0 \in Int /\ N - 1 \in Int
      BY <1>1
    <3>2. IsFiniteSet(0..(N - 1))
          /\ Cardinality(0..(N - 1)) = IF 0 > N - 1 THEN 0 ELSE (N - 1) - 0 + 1
      BY <3>1, FS_Interval
    <3> QED BY <1>1, <3>2
  <2> HIDE DEF cnt
  <2> QED BY <2>1, <2>2, FS_Injection
<1>7. \A c \in 0..(N - 1) : \E i \in I : cnt[i] = c
  <2> HIDE DEF cnt, N
  <2> QED BY <1>6 DEF Surjection
<1>8. ASSUME NEW n \in 1..N PROVE R[n] \in I /\ cnt[R[n]] = n - 1
  <2>1. n - 1 \in 0..(N - 1)
    BY <1>1
  <2>2. PICK i \in I : cnt[i] = n - 1
    BY <1>7, <2>1
  <2>3. R[n] = CHOOSE j \in I : Cardinality(Ahead(j)) = n - 1
    BY DEF Ranking
  <2>4. Cardinality(Ahead(i)) = n - 1
    BY <2>2
  <2>5. R[n] \in I /\ Cardinality(Ahead(R[n])) = n - 1
    <3> HIDE DEF R, Ahead
    <3> QED BY <2>3, <2>4
  <2> QED BY <2>5
<1>9. ASSUME NEW i \in I PROVE \E n \in 1..N : R[n] = i
  <2> DEFINE n == cnt[i] + 1
  <2>1. cnt[i] \in 0..(N - 1)
    BY <1>4
  <2>2. n \in 1..N /\ n - 1 = cnt[i]
    <3> HIDE DEF cnt
    <3> QED BY <1>1, <2>1
  <2> HIDE DEF n
  <2>3. R[n] \in I /\ cnt[R[n]] = cnt[i]
    BY <1>8, <2>2
  <2> HIDE DEF cnt, R
  <2> QED BY <1>5, <2>2, <2>3
<1>10. ASSUME NEW m \in 1..N, NEW n \in 1..N, m < n PROVE Before(key, R[m], R[n])
  <2> DEFINE a == R[m]
             b == R[n]
  <2>1. a \in I /\ cnt[a] = m - 1 /\ b \in I /\ cnt[b] = n - 1
    BY <1>8
  <2> HIDE DEF a, b, R
  <2>2. a # b
    <3> HIDE DEF cnt
    <3> QED BY <1>10, <2>1
  <2>3. ~Before(key, b, a)
    <3> SUFFICES ASSUME Before(key, b, a) PROVE FALSE
      OBVIOUS
    <3>1. Cardinality(Ahead(b)) < Cardinality(Ahead(a))
      BY <1>3, <2>1
    <3>2. cnt[b] < cnt[a]
      BY <2>1, <3>1
    <3> HIDE DEF cnt
    <3> QED BY <1>10, <2>1, <3>2
  <2>4. Before(key, a, b)
    BY <2>1, <2>2, <2>3, BeforeIsOrder
  <2> QED BY <2>4 DEF a, b
<1>11. R \in [1..N -> I]
  <2> DEFINE Pick(n) == CHOOSE i \in I : Cardinality({j \in I : Before(key, j, i)}) = n - 1
  <2>1. R = [n \in 1..N |-> Pick(n)]
    BY DEF Ranking
  <2> HIDE DEF R, Pick, N
  <2> QED BY <1>8, <2>1
<1> QED BY <1>1, <1>9, <1>10, <1>11

(* The best of some: nobody else of them is above it.                      *)
LEMMA FirstIs ==
  ASSUME NEW I \in SUBSET Nat, IsFiniteSet(I), NEW key, Keyed(I, key), I # {}, NEW s
  PROVE  \E i \in I : /\ First(s, I, key) = s[i]
                      /\ \A j \in I : ~Above(key[j], key[i])
<1> DEFINE N == Cardinality(I)
           R == Ranking(I, key)
<1>0. /\ N \in Nat /\ R \in [1..N -> I]
      /\ \A i \in I : \E n \in 1..N : R[n] = i
      /\ \A m, n \in 1..N : m < n => Before(key, R[m], R[n])
  BY RankingIs
<1> HIDE DEF N, R
<1>1. /\ N \in Nat
      /\ \A n \in 1..N : R[n] \in I
      /\ \A i \in I : \E n \in 1..N : R[n] = i
      /\ \A m, n \in 1..N : m < n => Before(key, R[m], R[n])
  BY <1>0
<1>2. 1 \in 1..N
  <2>1. PICK i \in I : TRUE
    OBVIOUS
  <2>2. PICK n \in 1..N : R[n] = i
    BY <1>1
  <2> QED BY <1>1, <2>2
<1>3. ASSUME NEW j \in I PROVE ~Before(key, j, R[1])
  <2>1. PICK n \in 1..N : R[n] = j
    BY <1>1
  <2>2. n = 1 \/ 1 < n
    OBVIOUS
  <2>3. n = 1 => ~Before(key, j, R[1])
    BY <1>1, <1>2, <2>1, BeforeIsOrder
  <2>4. 1 < n => ~Before(key, j, R[1])
    <3>1. 1 < n => Before(key, R[1], j) /\ R[1] \in I
      BY <1>1, <1>2, <2>1
    <3>2. Before(key, R[1], j) /\ R[1] \in I => ~Before(key, j, R[1])
      BY BeforeIsOrder
    <3> QED BY <3>1, <3>2
  <2> QED BY <2>2, <2>3, <2>4
<1>4. R[1] \in I /\ First(s, I, key) = s[R[1]]
  BY <1>1, <1>2 DEF First, R
<1>5. \A j \in I : ~Above(key[j], key[R[1]])
  BY <1>3 DEF Before
<1> QED BY <1>4, <1>5

-----------------------------------------------------------------------------
(* Sums and quotients.                                                     *)
LEMMA TotalOfThree ==
  ASSUME NEW f \in Seq(Int), Len(f) = 3
  PROVE  Total(f) = f[1] + f[2] + f[3]
<1> DEFINE step == [n \in 1..3 |-> [x \in Int |-> x + f[n]]]
<1>1. \A n \in 1..3 : f[n] \in Int
  <2> DEFINE N == Len(f)
  <2>1. f \in [1..N -> Int] /\ N = 3
    OBVIOUS
  <2> HIDE DEF N
  <2> QED BY <2>1
<1>2. step \in [1..3 -> [Int -> Int]]
  BY <1>1
<1>3. PICK g \in [0..3 -> Int] : g[0] = 0 /\ \A n \in 1..3 : g[n] = step[n][g[n - 1]]
  <2> HIDE DEF step
  <2> DEFINE N == 3
  <2>a. 0 \in Int /\ N \in Nat
    OBVIOUS
  <2>b. step \in [1..N -> [Int -> Int]]
    BY <1>2
  <2>1. 0 \in Int /\ N \in Nat /\ step \in [1..N -> [Int -> Int]]
    BY <2>a, <2>b
  <2> HIDE DEF N
  <2>2. \E g \in [0..N -> Int] : Stepwise(g, 0, N, step)
    BY <2>1, Recursion
  <2> QED BY <2>2 DEF N, Stepwise
<1> DEFINE Body(h) == [n \in 0..3 |-> IF n = 0 THEN 0 ELSE h[n - 1] + f[n]]
<1>4. g = Body(g)
  <2> SUFFICES ASSUME NEW n \in 0..3 PROVE g[n] = IF n = 0 THEN 0 ELSE g[n - 1] + f[n]
    OBVIOUS
  <2>1. CASE n = 0
    BY <1>3, <2>1
  <2>2. CASE n # 0
    <3>1. n \in 1..3 /\ n - 1 \in 0..3
      BY <2>2
    <3>2. step[n][g[n - 1]] = g[n - 1] + f[n]
      BY <3>1
    <3> HIDE DEF step
    <3> QED BY <1>3, <2>2, <3>2
  <2> QED BY <2>1, <2>2
<1> DEFINE sum == CHOOSE h : h = Body(h)
<1>5. sum = Body(sum)
  <2> HIDE DEF Body
  <2> QED BY <1>4
<1>6. Total(f) = sum[3]
  BY DEF Total
<1> HIDE DEF sum
<1>7. /\ sum[0] = 0 /\ sum[1] = sum[0] + f[1]
      /\ sum[2] = sum[1] + f[2] /\ sum[3] = sum[2] + f[3]
  BY <1>5
<1> QED BY <1>1, <1>6, <1>7

LEMMA Rounded ==
  ASSUME NEW n \in Nat, NEW d \in Nat \ {0}
  PROVE  /\ RoundDiv(n, d) \in Nat
         /\ \A k \in Nat : k <= RoundDiv(n, d) <=> k * (2 * d) <= 2 * n + d
<1> DEFINE x == 2 * n + d
           y == 2 * d
           q == x \div y
           e == x % y
<1>0. x \in Nat /\ y \in Nat \ {0}
  OBVIOUS
<1>a. RoundDiv(n, d) = q
  BY DEF RoundDiv
<1>b. q \in Nat /\ e \in 0..(y - 1) /\ x = q * y + e
  <2> HIDE DEF x, y
  <2> QED BY <1>0
<1> HIDE DEF q, e, x, y
<1>2. ASSUME NEW j \in Nat PROVE j * y <= x <=> j <= q
  <2>1. ASSUME j <= q PROVE j * y <= x
    <3>1. j * y <= q * y /\ q * y \in Nat /\ j * y \in Nat
      BY <1>0, <1>b, <2>1
    <3> QED BY <1>0, <1>b, <3>1
  <2>2. ASSUME ~(j <= q) PROVE ~(j * y <= x)
    <3>1. j >= q + 1
      BY <1>b, <2>2
    <3>2. j * y >= (q + 1) * y /\ j * y \in Nat
      BY <1>0, <1>b, <3>1
    <3>3. (q + 1) * y = q * y + y /\ q * y \in Nat
      BY <1>0, <1>b
    <3> QED BY <1>0, <1>b, <3>2, <3>3
  <2> QED BY <2>1, <2>2
<1> QED BY <1>a, <1>b, <1>2 DEF x, y

LEMMA RoundedUp ==
  ASSUME NEW n \in Nat, NEW d \in Nat \ {0}, n >= d
  PROVE  RoundDiv(n, d) >= 1
<1>1. 1 * (2 * d) <= 2 * n + d
  OBVIOUS
<1> QED BY <1>1, Rounded

LEMMA RoundedMonotone ==
  ASSUME NEW n \in Nat, NEW m \in Nat, n <= m, NEW d \in Nat \ {0}
  PROVE  RoundDiv(n, d) <= RoundDiv(m, d)
<1> DEFINE k == RoundDiv(n, d)
<1>1. k \in Nat
  BY Rounded
<1>2. k <= RoundDiv(n, d) <=> k * (2 * d) <= 2 * n + d
  BY <1>1, Rounded
<1>3. k <= RoundDiv(m, d) <=> k * (2 * d) <= 2 * m + d
  BY <1>1, Rounded
<1> DEFINE x == k * (2 * d)
<1>4. x \in Nat /\ x <= 2 * n + d
  BY <1>1, <1>2
<1> HIDE DEF x, k
<1>5. x <= 2 * m + d
  BY <1>4
<1> QED BY <1>3, <1>5 DEF x, k

LEMMA RoundedExactly ==
  ASSUME NEW k \in Nat, NEW d \in Nat \ {0}
  PROVE  RoundDiv(k * d, d) = k
<1> DEFINE n == k * d
<1>1. n \in Nat
  OBVIOUS
<1>2. k * (2 * d) = 2 * n /\ (k + 1) * (2 * d) = 2 * n + 2 * d
  OBVIOUS
<1> HIDE DEF n
<1>3. RoundDiv(n, d) \in Nat
      /\ \A j \in Nat : j <= RoundDiv(n, d) <=> j * (2 * d) <= 2 * n + d
  BY <1>1, Rounded
<1>4. k <= RoundDiv(n, d)
  BY <1>1, <1>2, <1>3
<1>5. k + 1 \in Nat /\ ~((k + 1) * (2 * d) <= 2 * n + d)
  BY <1>1, <1>2
<1>6. ~(k + 1 <= RoundDiv(n, d))
  BY <1>3, <1>5
<1> QED BY <1>3, <1>4, <1>6 DEF n

-----------------------------------------------------------------------------
(* What the summary of a model says.                                       *)
LEMMA ResultsAre ==
  ASSUME NEW tasks, MayResult(tasks)
  PROVE  /\ tasks \in Seq(Range(tasks)) /\ Len(tasks) = 3 /\ DOMAIN tasks = 1..3
         /\ \A i \in 1..3 :
               /\ tasks[i].latency \in Nat
               /\ tasks[i].score \in 0..30
               /\ tasks[i].success =>
                     tasks[i].score = 30 /\ tasks[i].latency >= 1 /\ tasks[i].error \notin Malformed
<1>1. tasks \in Seq(Range(tasks)) /\ Len(tasks) = 3 /\ DOMAIN tasks = 1..3
  BY DEF MayResult, Categories
<1>2. ASSUME NEW c \in {"simple", "coding", "reasoning"}, NEW seen \in SUBSET Features[c]
      PROVE  EvaluatorScore(c, seen) \in 0..30
  <2>1. CASE c = "simple"
    BY <2>1 DEF EvaluatorScore
  <2>2. CASE c = "coding"
    <3>1. IsFiniteSet({"function", "bool", "tests"})
          /\ Cardinality({"function", "bool", "tests"}) = 3
      <4>1. IsFiniteSet({"function"}) /\ Cardinality({"function"}) = 1
        BY FS_Singleton
      <4>2. IsFiniteSet({"function"} \cup {"bool"}) /\ Cardinality({"function"} \cup {"bool"}) = 2
        BY <4>1, FS_AddElement
      <4> DEFINE two == {"function"} \cup {"bool"}
                 all == {"function", "bool", "tests"}
      <4>3. "tests" \notin two /\ all = two \cup {"tests"}
        OBVIOUS
      <4>4. IsFiniteSet(two) /\ Cardinality(two) = 2
        BY <4>2
      <4> HIDE DEF two, all
      <4> QED BY <4>3, <4>4, FS_AddElement DEF all
    <3>2. Features.coding = {"function", "bool", "tests"}
      BY DEF Features
    <3> DEFINE S == seen \cap Features.coding
    <3>3. IsFiniteSet(S) /\ Cardinality(S) <= 3
      <4> DEFINE all == {"function", "bool", "tests"}
      <4>1. S \in SUBSET all /\ IsFiniteSet(all) /\ Cardinality(all) = 3
        BY <3>1, <3>2
      <4> HIDE DEF S, all
      <4> QED BY <4>1, FS_Subset
    <3>4. Cardinality(S) \in 0..3
      <4> HIDE DEF S
      <4> QED BY <3>3, FS_CardinalityType
    <3>5. EvaluatorScore(c, seen) = 10 * Cardinality(S)
      BY <2>2 DEF EvaluatorScore
    <3> HIDE DEF S
    <3> QED BY <3>4, <3>5
  <2>3. CASE c = "reasoning"
    BY <2>3 DEF EvaluatorScore
  <2> QED BY <2>1, <2>2, <2>3
<1>3. ASSUME NEW i \in 1..3
      PROVE  /\ tasks[i].latency \in Nat
             /\ tasks[i].score \in 0..30
             /\ tasks[i].success =>
                  tasks[i].score = 30 /\ tasks[i].latency >= 1 /\ tasks[i].error \notin Malformed
  <2> DEFINE t == tasks[i]
             c == Categories[i]
  <2>1. c \in {"simple", "coding", "reasoning"}
    BY DEF Categories
  <2>2. \/ \E seen \in SUBSET Features[c] :
              t.latency \in Nat \ {0} /\ t = Answered(c, seen, t.latency)
        \/ t.latency \in Nat /\ t = Failed(c, t.error, t.latency)
    BY <1>1 DEF MayResult
  <2> HIDE DEF t, c
  <2>3. ASSUME NEW seen \in SUBSET Features[c],
               t.latency \in Nat \ {0}, t = Answered(c, seen, t.latency)
        PROVE  /\ t.latency \in Nat /\ t.score \in 0..30
               /\ t.success => t.score = 30 /\ t.latency >= 1 /\ t.error \notin Malformed
    <3> DEFINE score == EvaluatorScore(c, seen)
    <3>1. score \in 0..30
      BY <1>2, <2>1
    <3> DEFINE passed == (score = 30)
    <3>2. t = [category |-> c, api_success |-> TRUE, latency |-> t.latency, error |-> "none",
               success |-> passed, score |-> score]
      BY <2>3, Zenon DEF Answered
    <3> HIDE DEF score, passed
    <3>4. t.success = passed /\ t.score = score /\ t.error = "none"
      BY <3>2
    <3>3. t.success => score = 30
      BY <3>4, Zenon DEF passed
    <3>5. t.error \notin Malformed
      BY <3>4 DEF Malformed
    <3> QED BY <2>3, <3>1, <3>3, <3>4, <3>5
  <2>4. ASSUME t.latency \in Nat, t = Failed(c, t.error, t.latency)
        PROVE  /\ t.latency \in Nat /\ t.score \in 0..30
               /\ t.success => t.score = 30 /\ t.latency >= 1 /\ t.error \notin Malformed
    <3>1. t.success = FALSE /\ t.score = 0
      BY <2>4 DEF Failed
    <3>2. ~t.success
      BY <3>1, Zenon
    <3> QED BY <2>4, <3>1, <3>2
  <2> QED BY <2>2, <2>3, <2>4 DEF t
<1> QED BY <1>1, <1>3

LEMMA Thirds ==
  ASSUME NEW I \in SUBSET (1..3)
  PROVE  /\ IsFiniteSet(I) /\ Cardinality(I) \in 0..3
         /\ Cardinality(I) = 0 <=> I = {}
         /\ Cardinality(I) = 3 <=> I = 1..3
         /\ \A J \in SUBSET I : Cardinality(J) <= Cardinality(I)
<1>1. IsFiniteSet(1..3) /\ Cardinality(1..3) = 3
  <2> DEFINE a == 1
             b == 3
  <2>1. a \in Int /\ b \in Int
    OBVIOUS
  <2> HIDE DEF a, b
  <2>2. IsFiniteSet(a..b) /\ Cardinality(a..b) = IF a > b THEN 0 ELSE b - a + 1
    BY <2>1, FS_Interval
  <2> QED BY <2>2 DEF a, b
<1>2. IsFiniteSet(I) /\ Cardinality(I) <= 3 /\ (3 = Cardinality(I) => I = 1..3)
  <2> DEFINE S == 1..3
  <2>1. IsFiniteSet(S) /\ I \in SUBSET S
    BY <1>1
  <2>2. S = 1..3
    OBVIOUS
  <2> HIDE DEF S
  <2>3. IsFiniteSet(I) /\ Cardinality(I) <= Cardinality(S) /\ (Cardinality(S) = Cardinality(I) => S = I)
    BY <2>1, FS_Subset
  <2> QED BY <1>1, <2>2, <2>3
<1>3. Cardinality(I) \in Nat
  BY <1>2, FS_CardinalityType
<1>4. Cardinality(I) = 0 <=> I = {}
  BY <1>2, FS_EmptySet
<1>5. ASSUME NEW J \in SUBSET I PROVE Cardinality(J) <= Cardinality(I)
  BY <1>2, FS_Subset
<1> QED BY <1>1, <1>2, <1>3, <1>4, <1>5

LEMMA AverageIs ==
  ASSUME NEW tasks, MayResult(tasks), NEW I \in SUBSET (1..3)
  PROVE  /\ AverageLatency(tasks, I) \in Nat
         /\ I = 1..3 /\ (\A i \in 1..3 : tasks[i].latency >= 1)
               => AverageLatency(tasks, I) >= 1
<1> DEFINE timed == {i \in I : tasks[i].latency # 0}
           f == [i \in 1..3 |-> IF i \in I THEN tasks[i].latency ELSE 0]
           n == Total(f)
           d == Cardinality(timed)
<1>1. DOMAIN tasks = 1..3 /\ \A i \in 1..3 : tasks[i].latency \in Nat
  BY ResultsAre
<1>2. \A i \in 1..3 : f[i] \in Nat /\ (i \in I => f[i] = tasks[i].latency)
  BY <1>1
<1>3. f \in Seq(Int) /\ Len(f) = 3
  BY <1>2
<1>4. n = f[1] + f[2] + f[3] /\ n \in Nat
  <2> HIDE DEF f
  <2>1. n = f[1] + f[2] + f[3]
    BY <1>3, TotalOfThree
  <2> HIDE DEF n
  <2> QED BY <1>2, <2>1
<1>5. AverageLatency(tasks, I) = IF timed = {} THEN 0 ELSE RoundDiv(n, d)
  <2>1. [i \in DOMAIN tasks |-> IF i \in I THEN tasks[i].latency ELSE 0] = f
    BY <1>1
  <2> QED BY <2>1, Zenon DEF AverageLatency
<1>6. timed \in SUBSET (1..3)
  OBVIOUS
<1> HIDE DEF timed
<1>7. d \in 0..3 /\ (d = 0 <=> timed = {})
  BY <1>6, Thirds
<1> HIDE DEF d, n
<1>8. AverageLatency(tasks, I) \in Nat
  <2>1. CASE timed = {}
    BY <1>5, <2>1
  <2>2. CASE timed # {}
    <3>1. d \in Nat \ {0}
      BY <1>7, <2>2
    <3>2. RoundDiv(n, d) \in Nat
      BY <1>4, <3>1, Rounded
    <3> QED BY <1>5, <2>2, <3>2
  <2> QED BY <2>1, <2>2
<1>9. ASSUME I = 1..3, \A i \in 1..3 : tasks[i].latency >= 1
      PROVE  AverageLatency(tasks, I) >= 1
  <2>1. 1 \in timed
    BY <1>1, <1>9 DEF timed
  <2>2. d \in Nat \ {0} /\ d <= 3
    BY <1>7, <2>1
  <2>3. n >= 3
    <3>1. \A i \in 1..3 : f[i] \in Nat /\ f[i] >= 1
      BY <1>1, <1>2, <1>9
    <3> HIDE DEF f
    <3> QED BY <1>4, <3>1
  <2>4. n >= d
    BY <1>4, <2>2, <2>3
  <2>5. RoundDiv(n, d) >= 1
    BY <1>4, <2>2, <2>4, RoundedUp
  <2> QED BY <1>5, <2>1, <2>5
<1> QED BY <1>8, <1>9

(* The numbers of a summary; somebody who passed a task has answered, and  *)
(* well-formed; a perfect one is like any other in quality and            *)
(* reliability.                                                            *)
Summed(m, tasks) ==
    /\ m.tasks = tasks
    /\ m.successful_tasks = Cardinality(Passed(tasks)) /\ m.successful_tasks \in 0..3
    /\ m.failed_tasks = 3 - m.successful_tasks
    /\ m.average_latency \in Nat /\ m.reliability \in Nat
    /\ m.quality \in Nat /\ m.quality <= Unit
    /\ m.malformed \in Nat
    /\ m.successful_tasks > 0 => m.malformed <= 2
    /\ m.failed_tasks = 0 =>
           m.reliability = Unit /\ m.quality = Unit /\ m.average_latency >= 1

LEMMA SummaryIs ==
  ASSUME NEW tasks, MayResult(tasks), NEW id
  PROVE  /\ Summed(Summary(id, tasks), tasks) /\ Summary(id, tasks).model = id
         /\ Summary(id, tasks).final = 0
<1> DEFINE P == Passed(tasks)
           passed == Cardinality(P)
           B == {i \in DOMAIN tasks : tasks[i].error \in Malformed}
           bad == Cardinality(B)
           f == [i \in DOMAIN tasks |-> tasks[i].score]
           n == Total(f)
           average == AverageLatency(tasks, 1..3)
           quality == RoundDiv(Unit * n, 30 * 3)
           reliability == RoundDiv(Unit * passed, 3)
           S == Summary(id, tasks)
<1>0. Unit \in Nat \ {0}
  BY UnitAssumption
<1>1. DOMAIN tasks = 1..3 /\ Len(tasks) = 3
  BY ResultsAre
<1>2. \A i \in 1..3 : /\ tasks[i].latency \in Nat /\ tasks[i].score \in 0..30
                      /\ tasks[i].success =>
                            tasks[i].score = 30 /\ tasks[i].latency >= 1
                            /\ tasks[i].error \notin Malformed
  BY ResultsAre
<1>3. P \in SUBSET (1..3) /\ B \in SUBSET (1..3)
  BY <1>1 DEF Passed
<1>4. \A i \in P : i \notin B /\ tasks[i].score = 30 /\ tasks[i].latency >= 1
  BY <1>1, <1>2 DEF Passed
<1>5. S = [model |-> id, tasks |-> tasks, successful_tasks |-> passed,
           failed_tasks |-> 3 - passed, average_latency |-> average, quality |-> quality,
           reliability |-> reliability, malformed |-> bad, final |-> 0]
  BY <1>1, Zenon DEF Summary
<1>6. f \in Seq(Int) /\ Len(f) = 3 /\ \A i \in 1..3 : f[i] = tasks[i].score /\ f[i] \in 0..30
  BY <1>1, <1>2
<1> HIDE DEF f, P, B
<1>7. n = f[1] + f[2] + f[3] /\ n \in 0..90
  <2>1. n = f[1] + f[2] + f[3]
    BY <1>6, TotalOfThree
  <2>2. f[1] \in 0..30 /\ f[2] \in 0..30 /\ f[3] \in 0..30
    <3>1. 1 \in 1..3 /\ 2 \in 1..3 /\ 3 \in 1..3
      OBVIOUS
    <3> QED BY <1>6, <3>1, Zenon
  <2> HIDE DEF n
  <2> QED BY <2>1, <2>2
<1>8. passed \in 0..3 /\ (passed = 0 <=> P = {}) /\ (passed = 3 <=> P = 1..3)
  BY <1>3, Thirds
<1>9. bad \in 0..3 /\ (bad = 3 <=> B = 1..3)
  BY <1>3, Thirds
<1>10. average \in Nat /\ ((\A i \in 1..3 : tasks[i].latency >= 1) => average >= 1)
  <2>1. 1..3 \in SUBSET (1..3)
    OBVIOUS
  <2> QED BY <2>1, AverageIs
<1> HIDE DEF n, passed, bad, average
<1>11. Unit * n \in Nat /\ Unit * passed \in Nat
  BY <1>0, <1>7, <1>8
<1>12. quality \in Nat /\ quality <= Unit /\ reliability \in Nat
  <2> DEFINE a == Unit * n
             b == Unit * passed
             c == Unit * (30 * 3)
  <2>1. a \in Nat /\ b \in Nat /\ 3 \in Nat \ {0} /\ 30 * 3 \in Nat \ {0}
    BY <1>11
  <2>2. c \in Nat /\ a <= c
    <3>1. c = a + Unit * (90 - n) /\ Unit * (90 - n) \in Nat
      BY <1>0, <1>7
    <3> HIDE DEF a, c
    <3> QED BY <2>1, <3>1
  <2>3. RoundDiv(c, 30 * 3) = Unit
    BY <1>0, RoundedExactly
  <2> HIDE DEF a, b, c
  <2>4. RoundDiv(a, 30 * 3) \in Nat /\ RoundDiv(b, 3) \in Nat
    BY <2>1, Rounded
  <2>5. RoundDiv(a, 30 * 3) <= RoundDiv(c, 30 * 3)
    BY <2>1, <2>2, RoundedMonotone
  <2> QED BY <2>3, <2>4, <2>5 DEF a, b
<1>13. ASSUME passed > 0 PROVE bad <= 2
  <2>1. PICK i \in P : TRUE
    BY <1>8, <1>13
  <2>2. i \in 1..3 /\ i \notin B
    BY <1>3, <1>4
  <2>3. bad # 3
    BY <1>9, <2>2
  <2> QED BY <1>9, <2>3
<1>14. ASSUME passed = 3 PROVE quality = Unit /\ reliability = Unit /\ average >= 1
  <2>1. P = 1..3
    BY <1>8, <1>14
  <2>2. \A i \in 1..3 : f[i] = 30 /\ tasks[i].latency >= 1
    BY <1>4, <1>6, <2>1
  <2>3. n = 90
    BY <1>7, <2>2
  <2>4. RoundDiv(Unit * (30 * 3), 30 * 3) = Unit /\ RoundDiv(Unit * 3, 3) = Unit
    BY <1>0, RoundedExactly
  <2>5. quality = Unit
    <3>1. 90 = 30 * 3
      OBVIOUS
    <3> QED BY <2>3, <2>4, <3>1
  <2> QED BY <1>10, <1>14, <2>2, <2>4, <2>5
<1> HIDE DEF quality, reliability, S
<1>15. /\ S.model = id /\ S.tasks = tasks /\ S.successful_tasks = passed
       /\ S.failed_tasks = 3 - passed /\ S.average_latency = average /\ S.quality = quality
       /\ S.reliability = reliability /\ S.malformed = bad /\ S.final = 0
  BY <1>5
<1>16. Summed(S, tasks)
  <2>1. 3 - passed = 0 => passed = 3
    BY <1>8
  <2>2. bad \in Nat
    BY <1>9
  <2>3. passed = Cardinality(Passed(tasks))
    BY DEF passed, P
  <2> QED BY <1>8, <1>10, <1>12, <1>13, <1>14, <1>15, <2>1, <2>2, <2>3 DEF Summed
<1> QED BY <1>15, <1>16 DEF S

-----------------------------------------------------------------------------
(* Whoever is slower is not faster.                                        *)
LEMMA Slower ==
  ASSUME NEW w \in Nat, NEW g \in Nat, NEW a \in Nat, NEW b \in Nat, NEW max \in Nat,
         a <= b, b <= max, NEW k \in Nat,
         k * (2 * (b * g)) <= 2 * (w * (max - b)) + b * g
  PROVE  k * (2 * (a * g)) <= 2 * (w * (max - a)) + a * g
<1> DEFINE x == a * g
           y == b * g
           u == w * (max - a)
           v == w * (max - b)
<1>1. x \in Nat /\ y \in Nat /\ x <= y
  <2>1. y = x + (b - a) * g /\ (b - a) * g \in Nat
    OBVIOUS
  <2> QED BY <2>1
<1>2. u \in Nat /\ v \in Nat /\ v <= u
  <2>1. max - b \in Nat /\ max - a \in Nat /\ b - a \in Nat
    OBVIOUS
  <2>2. u = v + w * (b - a) /\ w * (b - a) \in Nat /\ v \in Nat
    BY <2>1
  <2> QED BY <2>2
<1>3. k * (2 * y) <= 2 * v + y
  OBVIOUS
<1> HIDE DEF x, y, u, v
<1>4. k * (2 * x) <= 2 * u + x
  <2>1. CASE k = 0
    BY <1>1, <1>2, <2>1
  <2>2. CASE k # 0
    <3> DEFINE j == 2 * k - 1
               p == j * x
               q == j * y
    <3>1. j \in Nat
      BY <2>2
    <3>2. k * (2 * x) = p + x /\ k * (2 * y) = q + y
      BY <1>1
    <3> HIDE DEF j
    <3>3. p \in Nat /\ q \in Nat /\ p <= q
      <4>1. q = p + j * (y - x) /\ y - x \in Nat /\ j * (y - x) \in Nat
        BY <1>1, <3>1
      <4>2. p \in Nat
        BY <1>1, <3>1
      <4> QED BY <4>1, <4>2
    <3> HIDE DEF p, q
    <3> QED BY <1>1, <1>2, <1>3, <3>2, <3>3
  <2> QED BY <2>1, <2>2
<1> QED BY <1>4 DEF x, u

LEMMA ExtremesAre ==
  ASSUME NEW S \in SUBSET Nat, IsFiniteSet(S), S # {}
  PROVE  /\ Least(S) \in S /\ \A n \in S : Least(S) <= n
         /\ Greatest(S) \in S /\ \A n \in S : n <= Greatest(S)
<1>1. Least(S) \in S /\ \A n \in S : Least(S) <= n
  <2>1. \E n \in S : \A m \in S : n <= m
    BY LeastNatural
  <2> QED BY <2>1 DEF Least
<1>2. \E n \in S : \A m \in S : m <= n
  <2> DEFINE key == [n \in S |-> [i \in 1..1 |-> n]]
  <2>1. Keyed(S, key)
    <3>1. key \in [S -> [1..1 -> Int]]
      OBVIOUS
    <3> HIDE DEF key
    <3> DEFINE d == 1
    <3>2. d \in Nat /\ S \subseteq S /\ key \in [S -> [1..d -> Int]]
      BY <3>1
    <3> HIDE DEF d
    <3> QED BY <3>2 DEF Keyed
  <2>2. \A i, j \in S : Above(key[j], key[i]) <=> j > i
    <3> SUFFICES ASSUME NEW i \in S, NEW j \in S PROVE Above(key[j], key[i]) <=> j > i
      OBVIOUS
    <3>1. key[i] = [n \in 1..1 |-> i] /\ key[j] = [n \in 1..1 |-> j]
      OBVIOUS
    <3> QED BY <3>1 DEF Above
  <2> HIDE DEF key
  <2> DEFINE s == [n \in S |-> n]
  <2>3. \E i \in S : First(s, S, key) = s[i] /\ \A j \in S : ~Above(key[j], key[i])
    <3> HIDE DEF s
    <3> QED BY <2>1, FirstIs
  <2>4. PICK i \in S : \A j \in S : ~Above(key[j], key[i])
    BY <2>3
  <2>5. \A j \in S : ~(j > i)
    BY <2>2, <2>4
  <2> QED BY <2>5
<1>3. Greatest(S) \in S /\ \A n \in S : n <= Greatest(S)
  BY <1>2 DEF Greatest
<1> QED BY <1>1, <1>3

LEMMA SpeedIs ==
  ASSUME NEW E \in SUBSET (Nat \ {0}), IsFiniteSet(E), NEW a \in E, NEW b \in E, a <= b
  PROVE  Speed(a, E) \in Nat /\ Speed(b, E) \in Nat /\ Speed(b, E) <= Speed(a, E)
<1> DEFINE min == Least(E)
           max == Greatest(E)
           g == max - min
           w == Unit * min
<1>0. Unit \in Nat \ {0}
  BY UnitAssumption
<1>1. /\ min \in Nat \ {0} /\ max \in Nat \ {0}
      /\ \A n \in E : n \in Nat \ {0} /\ min <= n /\ n <= max
  <2>1. E \in SUBSET Nat /\ E # {}
    OBVIOUS
  <2>2. /\ min \in E /\ \A n \in E : min <= n
        /\ max \in E /\ \A n \in E : n <= max
    BY <2>1, ExtremesAre
  <2> HIDE DEF min, max
  <2> QED BY <2>2
<1>2. \A n \in E : Speed(n, E) = IF max = min THEN Unit ELSE RoundDiv(w * (max - n), n * g)
  BY DEF Speed
<1> HIDE DEF min, max
<1>3. CASE max = min
  BY <1>0, <1>2, <1>3
<1>4. CASE max # min
  <2>1. w \in Nat /\ g \in Nat \ {0}
    BY <1>0, <1>1, <1>4
  <2> HIDE DEF w, g
  <2>2. ASSUME NEW n \in E
        PROVE  w * (max - n) \in Nat /\ n * g \in Nat \ {0}
    <3>1. max - n \in Nat /\ n \in Nat \ {0}
      BY <1>1
    <3> QED BY <2>1, <3>1
  <2> DEFINE na == w * (max - a)
             nb == w * (max - b)
             da == a * g
             db == b * g
             k == RoundDiv(nb, db)
             l == RoundDiv(na, da)
  <2>3. na \in Nat /\ nb \in Nat /\ da \in Nat \ {0} /\ db \in Nat \ {0}
    BY <2>2
  <2>4. Speed(a, E) = l /\ Speed(b, E) = k
    BY <1>2, <1>4
  <2>5. k \in Nat /\ l \in Nat
    <3> HIDE DEF na, nb, da, db
    <3> QED BY <2>3, Rounded
  <2>6. k * (2 * db) <= 2 * nb + db
    <3>1. \A i \in Nat : i <= RoundDiv(nb, db) <=> i * (2 * db) <= 2 * nb + db
      <4> HIDE DEF na, nb, da, db
      <4> QED BY <2>3, Rounded
    <3>2. k <= RoundDiv(nb, db)
      <4> HIDE DEF nb, db
      <4> QED BY <2>5
    <3> HIDE DEF nb, db
    <3> QED BY <2>5, <3>1, <3>2
  <2>7. k * (2 * da) <= 2 * na + da
    <3>1. a \in Nat /\ b \in Nat /\ max \in Nat /\ b <= max /\ g \in Nat
      BY <1>1, <2>1
    <3> HIDE DEF k
    <3> QED BY <2>1, <2>5, <2>6, <3>1, Slower
  <2>8. k <= l
    <3>1. \A i \in Nat : i <= RoundDiv(na, da) <=> i * (2 * da) <= 2 * na + da
      <4> HIDE DEF na, nb, da, db
      <4> QED BY <2>3, Rounded
    <3> HIDE DEF na, nb, da, db, k
    <3> QED BY <2>5, <2>7, <3>1
  <2> QED BY <2>4, <2>5, <2>8
<1> QED BY <1>3, <1>4

LEMMA SpeedAtMost ==
  ASSUME NEW E \in SUBSET (Nat \ {0}), IsFiniteSet(E), NEW a \in E
  PROVE  Speed(a, E) \in Nat /\ Speed(a, E) <= Unit
<1> DEFINE min == Least(E)
           max == Greatest(E)
           d == min * (max - min)
<1>1. /\ min \in E /\ max \in E /\ min \in Nat \ {0} /\ max \in Nat
      /\ min <= a /\ min <= max
  <2>1. E \in SUBSET Nat /\ E # {}
    OBVIOUS
  <2>2. /\ min \in E /\ \A n \in E : min <= n
        /\ max \in E /\ \A n \in E : n <= max
    BY <2>1, ExtremesAre
  <2> HIDE DEF min, max
  <2> QED BY <2>2
<1>2. Speed(min, E) = IF max = min THEN Unit ELSE RoundDiv(Unit * min * (max - min), d)
  BY DEF Speed
<1> HIDE DEF min, max
<1>3. Speed(min, E) = Unit
  <2>1. CASE max = min
    BY <1>2, <2>1
  <2>2. CASE max # min
    <3>1. d \in Nat \ {0}
      BY <1>1, <2>2
    <3>2. Unit * min * (max - min) = Unit * d
      BY <1>1, UnitAssumption
    <3> HIDE DEF d
    <3>3. RoundDiv(Unit * d, d) = Unit
      BY <3>1, UnitAssumption, RoundedExactly
    <3> QED BY <1>2, <2>2, <3>2, <3>3
  <2> QED BY <2>1, <2>2
<1>4. Speed(a, E) \in Nat /\ Speed(a, E) <= Speed(min, E)
  BY <1>1, SpeedIs
<1> QED BY <1>3, <1>4

-----------------------------------------------------------------------------
(* A benchmark: the models are all different, and each has been shown some *)
(* results.  What is concluded from it, in terms of the places of models.  *)
Benchmarked(ms, N, tested, shown) ==
    /\ N \in Nat /\ tested \in [1..N -> DOMAIN Traits]
    /\ \A i, j \in 1..N : tested[i] = tested[j] => i = j
    /\ \A i \in 1..N : MayResult(shown[i])
    /\ ms = [i \in 1..N |-> Summary(tested[i], shown[i])]

Judgeable(ms, N, tested, shown) ==
    /\ N \in Nat /\ tested \in [1..N -> DOMAIN Traits]
    /\ \A i, j \in 1..N : tested[i] = tested[j] => i = j
    /\ DOMAIN ms = 1..N
    /\ \A i \in 1..N : /\ MayResult(shown[i]) /\ Summed(ms[i], shown[i])
                       /\ ms[i].model = tested[i] /\ ms[i].final \in Nat
    /\ \A i, j \in 1..N :
           /\ ms[i].failed_tasks = 0 /\ ms[j].failed_tasks = 0
           /\ ms[i].average_latency <= ms[j].average_latency
           => ms[j].final <= ms[i].final
    /\ \A i, j \in 1..N : ms[i].failed_tasks = 0 /\ 2 * ms[j].reliability < Unit
                          => ms[j].final <= ms[i].final

LEMMA SummaryScored ==
  ASSUME NEW id, NEW tasks, NEW x
  PROVE  LET m == Summary(id, tasks)
             s == [m EXCEPT !.final = x]
         IN  /\ s.model = m.model /\ s.tasks = m.tasks
             /\ s.successful_tasks = m.successful_tasks /\ s.failed_tasks = m.failed_tasks
             /\ s.average_latency = m.average_latency /\ s.quality = m.quality
             /\ s.reliability = m.reliability /\ s.malformed = m.malformed /\ s.final = x
<1> DEFINE passed == Cardinality(Passed(tasks))
           failed == Len(tasks) - passed
           average == AverageLatency(tasks, DOMAIN tasks)
           quality == RoundDiv(Unit * Total([i \in DOMAIN tasks |-> tasks[i].score]),
                               30 * Len(tasks))
           reliability == RoundDiv(Unit * passed, Len(tasks))
           bad == Cardinality({i \in DOMAIN tasks : tasks[i].error \in Malformed})
           m == Summary(id, tasks)
<1>1. m = [model |-> id, tasks |-> tasks, successful_tasks |-> passed,
           failed_tasks |-> failed, average_latency |-> average, quality |-> quality,
           reliability |-> reliability, malformed |-> bad, final |-> 0]
  BY Zenon DEF Summary
<1> HIDE DEF m, passed, failed, average, quality, reliability, bad
<1>2. [m EXCEPT !.final = x] =
          [model |-> id, tasks |-> tasks, successful_tasks |-> passed,
           failed_tasks |-> failed, average_latency |-> average, quality |-> quality,
           reliability |-> reliability, malformed |-> bad, final |-> x]
  BY <1>1
<1> DEFINE s == [m EXCEPT !.final = x]
<1>3. s = [model |-> id, tasks |-> tasks, successful_tasks |-> passed,
           failed_tasks |-> failed, average_latency |-> average, quality |-> quality,
           reliability |-> reliability, malformed |-> bad, final |-> x]
  BY <1>2
<1> HIDE DEF s
<1>4. /\ s.model = m.model /\ s.tasks = m.tasks
      /\ s.successful_tasks = m.successful_tasks /\ s.failed_tasks = m.failed_tasks
      /\ s.average_latency = m.average_latency /\ s.quality = m.quality
      /\ s.reliability = m.reliability /\ s.malformed = m.malformed /\ s.final = x
  BY <1>1, <1>3
<1> QED BY <1>4 DEF s, m

LEMMA ScoredIs ==
  ASSUME NEW ms, NEW N, NEW tested, NEW shown, Benchmarked(ms, N, tested, shown)
  PROVE  Judgeable(Scored(ms), N, tested, shown)
<1> DEFINE E == {l.average_latency : l \in Range(ms)} \ {0}
           S == Scored(ms)
           Score(i) == (5 * ms[i].reliability) + (3 * ms[i].quality)
                       + (2 * SpeedScore(ms[i], ms))
<1>1. /\ N \in Nat /\ tested \in [1..N -> DOMAIN Traits]
      /\ \A i, j \in 1..N : tested[i] = tested[j] => i = j
      /\ \A i \in 1..N : MayResult(shown[i])
      /\ DOMAIN ms = 1..N
      /\ \A i \in 1..N : ms[i] = Summary(tested[i], shown[i])
  BY DEF Benchmarked
<1>2. ASSUME NEW i \in 1..N
      PROVE  Summed(ms[i], shown[i]) /\ ms[i].model = tested[i]
  BY <1>1, SummaryIs
<1>3. ASSUME NEW i \in 1..N
      PROVE  /\ ms[i].average_latency \in Nat /\ ms[i].reliability \in Nat
             /\ ms[i].quality \in Nat /\ ms[i].quality <= Unit
             /\ ms[i].successful_tasks \in Nat
             /\ ms[i].failed_tasks = 0 =>
                   /\ ms[i].successful_tasks = 3 /\ ms[i].average_latency >= 1
                   /\ ms[i].reliability = Unit /\ ms[i].quality = Unit
  BY <1>2 DEF Summed
<1>4. E \in SUBSET (Nat \ {0}) /\ IsFiniteSet(E)
  <2> DEFINE f == [i \in 1..N |-> ms[i].average_latency]
             F == {f[i] : i \in 1..N}
  <2>1. IsFiniteSet(1..N)
    BY <1>1, FS_Interval
  <2>2. IsFiniteSet(F)
    <3> DEFINE I == 1..N
    <3>1. IsFiniteSet(I)
      BY <2>1
    <3> HIDE DEF f, I
    <3>2. IsFiniteSet({f[i] : i \in I})
      BY <3>1, ImageIs
    <3> QED BY <3>2 DEF I
  <2>3. E \in SUBSET F /\ F \in SUBSET Nat
    BY <1>1, <1>3 DEF Range
  <2>4. 0 \notin E
    OBVIOUS
  <2> HIDE DEF E, F
  <2>5. IsFiniteSet(E)
    BY <2>2, <2>3, FS_Subset
  <2> QED BY <2>3, <2>4, <2>5
<1>5. ASSUME NEW i \in 1..N
      PROVE  /\ SpeedScore(ms[i], ms) = IF ms[i].average_latency = 0 \/ ms[i].successful_tasks = 0
                                        THEN 0 ELSE Speed(ms[i].average_latency, E)
             /\ ms[i].average_latency # 0 => ms[i].average_latency \in E
             /\ SpeedScore(ms[i], ms) \in Nat /\ SpeedScore(ms[i], ms) <= Unit
  <2>1. SpeedScore(ms[i], ms) = IF ms[i].average_latency = 0 \/ ms[i].successful_tasks = 0
                                THEN 0 ELSE Speed(ms[i].average_latency, E)
    BY Zenon DEF SpeedScore
  <2>2. ms[i].average_latency # 0 => ms[i].average_latency \in E
    BY <1>1 DEF Range
  <2> DEFINE a == ms[i].average_latency
  <2> HIDE DEF E
  <2>3. a # 0 => a \in E
    BY <2>2
  <2>4. a \in Nat
    BY <1>3
  <2> HIDE DEF a
  <2>5. a # 0 => Speed(a, E) \in Nat /\ Speed(a, E) <= Unit
    BY <1>4, <2>3, <2>4, SpeedAtMost
  <2> QED BY <2>1, <2>2, <2>5, UnitAssumption DEF a
<1> HIDE DEF E
<1>6. ASSUME NEW i \in 1..N
      PROVE  Score(i) \in Nat /\ RoundDiv(Score(i), 10) \in Nat
  <2>1. Score(i) \in Nat
    BY <1>3, <1>5
  <2> HIDE DEF Score
  <2> QED BY <2>1, Rounded
<1>7. DOMAIN S = 1..N /\ \A i \in 1..N :
          S[i] = [ms[i] EXCEPT !.final = RoundDiv(Score(i), 10)]
  BY <1>1 DEF Scored
<1>8. ASSUME NEW i \in 1..N
      PROVE  /\ S[i].model = ms[i].model /\ S[i].tasks = ms[i].tasks
             /\ S[i].successful_tasks = ms[i].successful_tasks
             /\ S[i].failed_tasks = ms[i].failed_tasks
             /\ S[i].average_latency = ms[i].average_latency /\ S[i].quality = ms[i].quality
             /\ S[i].reliability = ms[i].reliability /\ S[i].malformed = ms[i].malformed
             /\ S[i].final = RoundDiv(Score(i), 10)
  <2> DEFINE x == RoundDiv(Score(i), 10)
             m == Summary(tested[i], shown[i])
             s == [m EXCEPT !.final = x]
  <2>1. S[i] = s /\ ms[i] = m
    BY <1>1, <1>7
  <2>2. /\ s.model = m.model /\ s.tasks = m.tasks
        /\ s.successful_tasks = m.successful_tasks /\ s.failed_tasks = m.failed_tasks
        /\ s.average_latency = m.average_latency /\ s.quality = m.quality
        /\ s.reliability = m.reliability /\ s.malformed = m.malformed /\ s.final = x
    <3> HIDE DEF x
    <3> QED BY SummaryScored
  <2> HIDE DEF x, m, s
  <2> QED BY <2>1, <2>2 DEF x
<1> HIDE DEF S, Score
<1>9. ASSUME NEW i \in 1..N PROVE Summed(S[i], shown[i])
  BY <1>2, <1>8 DEF Summed
<1>10. ASSUME NEW i \in 1..N, NEW j \in 1..N,
              S[i].failed_tasks = 0, S[j].failed_tasks = 0,
              S[i].average_latency <= S[j].average_latency
       PROVE  S[j].final <= S[i].final
  <2> DEFINE a == ms[i].average_latency
             b == ms[j].average_latency
  <2>1. a >= 1 /\ b >= 1 /\ a <= b /\ ms[i].failed_tasks = 0 /\ ms[j].failed_tasks = 0
    BY <1>3, <1>8, <1>10
  <2>2. a \in E /\ b \in E
    BY <1>3, <1>5, <2>1
  <2>3. SpeedScore(ms[i], ms) = Speed(a, E) /\ SpeedScore(ms[j], ms) = Speed(b, E)
    BY <1>3, <1>5, <2>1
  <2> HIDE DEF a, b
  <2>4. Speed(a, E) \in Nat /\ Speed(b, E) \in Nat /\ Speed(b, E) <= Speed(a, E)
    BY <1>4, <2>1, <2>2, SpeedIs
  <2>5. Score(j) <= Score(i)
    <3>1. Unit \in Nat /\ ms[i].failed_tasks = 0 /\ ms[j].failed_tasks = 0
      BY <2>1, UnitAssumption
    <3> QED BY <1>3, <2>3, <2>4, <3>1 DEF Score
  <2>6. RoundDiv(Score(j), 10) <= RoundDiv(Score(i), 10)
    BY <1>6, <2>5, RoundedMonotone
  <2> QED BY <1>8, <2>6
<1>11. \A i \in 1..N : S[i].model = tested[i] /\ S[i].final \in Nat
  BY <1>2, <1>6, <1>8
<1>12. ASSUME NEW i \in 1..N, NEW j \in 1..N,
              S[i].failed_tasks = 0, 2 * S[j].reliability < Unit
       PROVE  S[j].final <= S[i].final
  <2>1. ms[i].failed_tasks = 0 /\ 2 * ms[j].reliability < Unit
    BY <1>8, <1>12
  <2>2. Score(j) <= Score(i)
    BY <1>3, <1>5, <2>1, UnitAssumption DEF Score
  <2>3. RoundDiv(Score(j), 10) <= RoundDiv(Score(i), 10)
    BY <1>6, <2>2, RoundedMonotone
  <2> QED BY <1>8, <2>3
<1>13. Judgeable(S, N, tested, shown)
  BY <1>1, <1>7, <1>9, <1>10, <1>11, <1>12 DEF Judgeable
<1> QED BY <1>13 DEF S

LEMMA GroupIs ==
  ASSUME NEW tasks, MayResult(tasks), NEW m, Summed(m, tasks), NEW category
  PROVE  /\ Group(m, category).average_latency \in Nat
         /\ Group(m, category).successful_tasks \in Nat
         /\ Group(m, category).successful_tasks > 0 => m.successful_tasks > 0
<1> DEFINE I == {i \in DOMAIN m.tasks : m.tasks[i].category = category}
           P == Passed(tasks)
           passed == Cardinality(I \cap P)
           average == AverageLatency(tasks, I)
<1>1. m.tasks = tasks /\ DOMAIN tasks = 1..3 /\ m.successful_tasks = Cardinality(P)
  BY ResultsAre DEF Summed
<1>2. I \in SUBSET (1..3) /\ P \in SUBSET (1..3) /\ I \cap P \in SUBSET (1..3)
  BY <1>1 DEF Passed
<1>3. Group(m, category) = [successful_tasks |-> passed, average_latency |-> average]
  BY <1>1, Zenon DEF Group
<1> HIDE DEF I, P
<1>4. passed \in 0..3 /\ Cardinality(P) \in 0..3 /\ passed <= Cardinality(P)
  <2>1. I \cap P \in SUBSET P
    OBVIOUS
  <2> QED BY <1>2, <2>1, Thirds
<1>5. average \in Nat
  BY <1>2, AverageIs
<1> HIDE DEF passed, average
<1> QED BY <1>1, <1>3, <1>4, <1>5

(* The key by which the best is found, and what finding it means.          *)
OverallKeys(ms) == [i \in DOMAIN ms |-> OverallKey(ms[i])]
BestKeys(ms, category) ==
    [i \in DOMAIN ms |-> <<ms[i].reliability, ms[i].quality, ms[i].final,
                           LatencyKey(Group(ms[i], category).average_latency)>>]
FastKeys(ms) == [i \in DOMAIN ms |-> <<-Group(ms[i], "simple").average_latency>>]

Chosen(ms, I, key, model) ==
    \/ I = {} /\ model = None.model
    \/ \E i \in I : model = ms[i].model /\ \A j \in I : ~Above(key[j], key[i])

LEMMA ChosenIs ==
  ASSUME NEW I \in SUBSET Nat, IsFiniteSet(I), NEW key, Keyed(I, key), NEW ms
  PROVE  Chosen(ms, I, key, First(ms, I, key).model)
<1>1. CASE I = {}
  BY <1>1 DEF First, Chosen
<1>2. CASE I # {}
  <2>1. \E i \in I : First(ms, I, key) = ms[i] /\ \A j \in I : ~Above(key[j], key[i])
    BY <1>2, FirstIs
  <2>2. PICK i \in I : First(ms, I, key) = ms[i] /\ \A j \in I : ~Above(key[j], key[i])
    BY <2>1
  <2> QED BY <2>2 DEF Chosen
<1> QED BY <1>1, <1>2

LEMMA KeysAreKeyed ==
  ASSUME NEW ms, NEW N, NEW tested, NEW shown, Judgeable(ms, N, tested, shown),
         NEW I \in SUBSET (1..N)
  PROVE  /\ I \in SUBSET Nat /\ IsFiniteSet(I)
         /\ Keyed(I, OverallKeys(ms)) /\ Keyed(I, FastKeys(ms))
         /\ \A category : Keyed(I, BestKeys(ms, category))
<1>1. /\ N \in Nat /\ DOMAIN ms = 1..N
      /\ \A i \in 1..N : MayResult(shown[i]) /\ Summed(ms[i], shown[i]) /\ ms[i].final \in Nat
  BY DEF Judgeable
<1>2. ASSUME NEW i \in 1..N
      PROVE  /\ ms[i].average_latency \in Nat /\ ms[i].quality \in Nat
             /\ ms[i].reliability \in Nat /\ ms[i].final \in Nat
             /\ \A category : Group(ms[i], category).average_latency \in Nat
  <2>1. MayResult(shown[i]) /\ Summed(ms[i], shown[i]) /\ ms[i].final \in Nat
    BY <1>1
  <2> DEFINE m == ms[i]
             tasks == shown[i]
  <2>2. MayResult(tasks) /\ Summed(m, tasks)
    BY <2>1
  <2>3. m.average_latency \in Nat /\ m.quality \in Nat /\ m.reliability \in Nat
    BY <2>2 DEF Summed
  <2> HIDE DEF m, tasks
  <2>4. \A category : Group(m, category).average_latency \in Nat
    BY <2>2, GroupIs
  <2> QED BY <2>1, <2>3, <2>4 DEF m
<1>3. \A l \in Nat : LatencyKey(l) \in Int
  BY DEF LatencyKey
<1>4. I \in SUBSET Nat /\ IsFiniteSet(I)
  <2>1. IsFiniteSet(1..N)
    BY <1>1, FS_Interval
  <2> QED BY <1>1, <2>1, FS_Subset
<1>5. Keyed(I, OverallKeys(ms))
  <2> DEFINE key == OverallKeys(ms)
  <2>1. ASSUME NEW i \in 1..N PROVE OverallKey(ms[i]) \in [1..4 -> Int]
    <3> DEFINE a == ms[i].final
               b == ms[i].reliability
               c == ms[i].quality
               d == LatencyKey(ms[i].average_latency)
    <3>1. a \in Int /\ b \in Int /\ c \in Int /\ d \in Int
      BY <1>2, <1>3
    <3>2. OverallKey(ms[i]) = <<a, b, c, d>>
      BY DEF OverallKey
    <3> HIDE DEF a, b, c, d
    <3> QED BY <3>1, <3>2
  <2>2. key \in [1..N -> [1..4 -> Int]]
    BY <1>1, <2>1 DEF OverallKeys
  <2> HIDE DEF key
  <2>3. \E d \in Nat : key \in [1..N -> [1..d -> Int]]
    BY <2>2
  <2>4. Keyed(I, key)
    BY <2>3, Zenon DEF Keyed
  <2> QED BY <2>4 DEF key
<1>6. Keyed(I, FastKeys(ms))
  <2> DEFINE key == FastKeys(ms)
  <2>1. ASSUME NEW i \in 1..N
        PROVE  <<-Group(ms[i], "simple").average_latency>> \in [1..1 -> Int]
    <3> DEFINE a == -Group(ms[i], "simple").average_latency
    <3>1. a \in Int
      BY <1>2
    <3> HIDE DEF a
    <3>2. <<a>> \in [1..1 -> Int]
      BY <3>1
    <3> QED BY <3>2 DEF a
  <2>2. key \in [1..N -> [1..1 -> Int]]
    BY <1>1, <2>1 DEF FastKeys
  <2> HIDE DEF key
  <2>3. \E d \in Nat : key \in [1..N -> [1..d -> Int]]
    BY <2>2
  <2>4. Keyed(I, key)
    BY <2>3, Zenon DEF Keyed
  <2> QED BY <2>4 DEF key
<1>7. ASSUME NEW category PROVE Keyed(I, BestKeys(ms, category))
  <2> DEFINE key == BestKeys(ms, category)
             Best(i) == <<ms[i].reliability, ms[i].quality, ms[i].final,
                          LatencyKey(Group(ms[i], category).average_latency)>>
  <2>1. ASSUME NEW i \in 1..N PROVE Best(i) \in [1..4 -> Int]
    <3> DEFINE a == ms[i].reliability
               b == ms[i].quality
               c == ms[i].final
               d == LatencyKey(Group(ms[i], category).average_latency)
    <3>1. a \in Int /\ b \in Int /\ c \in Int /\ d \in Int
      BY <1>2, <1>3
    <3> HIDE DEF a, b, c, d
    <3>2. <<a, b, c, d>> \in [1..4 -> Int]
      BY <3>1
    <3> QED BY <3>2 DEF a, b, c, d
  <2>2. key \in [1..N -> [1..4 -> Int]]
    BY <1>1, <2>1 DEF BestKeys
  <2> HIDE DEF key
  <2>3. \E d \in Nat : key \in [1..N -> [1..d -> Int]]
    BY <2>2
  <2>4. Keyed(I, key)
    BY <2>3, Zenon DEF Keyed
  <2> QED BY <2>4 DEF key
<1> QED BY <1>4, <1>5, <1>6, <1>7

LEMMA PoolsAre ==
  ASSUME NEW ms, NEW N, NEW tested, NEW shown, Judgeable(ms, N, tested, shown)
  PROVE  /\ DefaultPool(ms) \in SUBSET Successful(ms) /\ Successful(ms) \in SUBSET (1..N)
         /\ \A category : SucceededIn(ms, category) \in SUBSET Successful(ms)
         /\ \A i \in 1..N : ms[i].failed_tasks = 0 =>
                i \in DefaultPool(ms) /\ \A j \in DefaultPool(ms) : ms[j].failed_tasks = 0
<1>1. /\ DOMAIN ms = 1..N
      /\ \A i \in 1..N : MayResult(shown[i]) /\ Summed(ms[i], shown[i])
  BY DEF Judgeable
<1>2. ASSUME NEW i \in 1..N
      PROVE  /\ ms[i].failed_tasks = 0 => ms[i].successful_tasks > 0
             /\ \A category : Group(ms[i], category).successful_tasks > 0
                                  => ms[i].successful_tasks > 0
  <2> DEFINE m == ms[i]
             tasks == shown[i]
  <2>1. MayResult(tasks) /\ Summed(m, tasks)
    BY <1>1
  <2>2. m.failed_tasks = 0 => m.successful_tasks > 0
    BY <2>1 DEF Summed
  <2> HIDE DEF m, tasks
  <2>3. \A category : Group(m, category).successful_tasks > 0 => m.successful_tasks > 0
    BY <2>1, GroupIs
  <2> QED BY <2>2, <2>3 DEF m
<1>3. Successful(ms) = {i \in 1..N : ms[i].successful_tasks > 0}
  BY <1>1 DEF Successful
<1>4. ASSUME NEW category PROVE SucceededIn(ms, category) \in SUBSET Successful(ms)
  BY <1>1, <1>2, <1>3 DEF SucceededIn
<1> DEFINE perfect == {i \in 1..N : ms[i].failed_tasks = 0}
<1>5. DefaultPool(ms) = IF perfect # {} THEN perfect ELSE Successful(ms)
  BY <1>1 DEF DefaultPool
<1>6. perfect \in SUBSET Successful(ms)
  BY <1>2, <1>3
<1>7. \A i \in 1..N : ms[i].failed_tasks = 0 =>
          i \in DefaultPool(ms) /\ \A j \in DefaultPool(ms) : ms[j].failed_tasks = 0
  BY <1>5
<1>8. DefaultPool(ms) \in SUBSET Successful(ms)
  <2> HIDE DEF perfect
  <2> QED BY <1>5, <1>6
<1> QED BY <1>3, <1>4, <1>7, <1>8

(* Every name is of some model, and nobody above it is missing before it.   *)
ListedIn(ms, names) ==
    \A n \in DOMAIN names : \E i \in Successful(ms) :
        /\ names[n] = ms[i].model
        /\ \A j \in Successful(ms) :
               /\ ms[j].model \notin Range(Priority)
               /\ Above(OverallKeys(ms)[j], OverallKeys(ms)[i])
               => \E k \in 1..(n - 1) : names[k] = ms[j].model

LEMMA AdviceIs ==
  ASSUME NEW ms, NEW N, NEW tested, NEW shown, Judgeable(ms, N, tested, shown)
  PROVE  LET a == Recommendations(ms) IN
         /\ Chosen(ms, DefaultPool(ms), OverallKeys(ms), a.default)
         /\ Chosen(ms, SucceededIn(ms, "simple"), FastKeys(ms), a.fast)
         /\ Chosen(ms, SucceededIn(ms, "reasoning"), BestKeys(ms, "reasoning"), a.reasoning)
         /\ Chosen(ms, SucceededIn(ms, "coding"), BestKeys(ms, "coding"), a.coding)
         /\ ListedIn(ms, a.additional)
         /\ a.retest = {ms[i].model : i \in {j \in DOMAIN ms : Retest(ms[j])}}
         /\ a.avoid = {ms[i].model : i \in {j \in DOMAIN ms : Avoid(ms[j])}}
<1> DEFINE overall == OverallKeys(ms)
           default == First(ms, DefaultPool(ms), overall).model
           fast == Fastest(ms).model
           reasoning == BestIn(ms, "reasoning").model
           coding == BestIn(ms, "coding").model
           others == {i \in Successful(ms) : ms[i].model \notin Range(Priority)}
           extra == Ranking(others, overall)
           additional == [n \in 1..Least({5, Len(extra)}) |-> ms[extra[n]].model]
           retest == {ms[i].model : i \in {j \in DOMAIN ms : Retest(ms[j])}}
           avoid == {ms[i].model : i \in {j \in DOMAIN ms : Avoid(ms[j])}}
           a == Recommendations(ms)
<1>1. a = [default |-> default, fast |-> fast, reasoning |-> reasoning, coding |-> coding,
           additional |-> additional, retest |-> retest, avoid |-> avoid]
  BY Zenon DEF Recommendations, OverallKeys
<1>2. \A I \in SUBSET Successful(ms) :
          /\ I \in SUBSET Nat /\ IsFiniteSet(I)
          /\ Keyed(I, OverallKeys(ms)) /\ Keyed(I, FastKeys(ms))
          /\ \A category : Keyed(I, BestKeys(ms, category))
  <2> SUFFICES ASSUME NEW I \in SUBSET Successful(ms)
               PROVE  /\ I \in SUBSET Nat /\ IsFiniteSet(I)
                      /\ Keyed(I, OverallKeys(ms)) /\ Keyed(I, FastKeys(ms))
                      /\ \A category : Keyed(I, BestKeys(ms, category))
    OBVIOUS
  <2>1. I \in SUBSET (1..N)
    BY PoolsAre
  <2> QED BY <2>1, KeysAreKeyed
<1>3. /\ DefaultPool(ms) \in SUBSET Successful(ms)
      /\ \A category : SucceededIn(ms, category) \in SUBSET Successful(ms)
  BY PoolsAre
<1>4. Chosen(ms, DefaultPool(ms), OverallKeys(ms), default)
  BY <1>2, <1>3, ChosenIs
<1>5. Chosen(ms, SucceededIn(ms, "simple"), FastKeys(ms), fast)
  <2>1. Chosen(ms, SucceededIn(ms, "simple"), FastKeys(ms),
               First(ms, SucceededIn(ms, "simple"), FastKeys(ms)).model)
    BY <1>2, <1>3, ChosenIs
  <2>2. Fastest(ms) = First(ms, SucceededIn(ms, "simple"), FastKeys(ms))
    BY Zenon DEF Fastest, FastKeys
  <2> QED BY <2>1, <2>2, Zenon
<1>6. ASSUME NEW category
      PROVE  Chosen(ms, SucceededIn(ms, category), BestKeys(ms, category),
                    BestIn(ms, category).model)
  <2>1. Chosen(ms, SucceededIn(ms, category), BestKeys(ms, category),
               First(ms, SucceededIn(ms, category), BestKeys(ms, category)).model)
    BY <1>2, <1>3, ChosenIs
  <2>2. BestIn(ms, category) = First(ms, SucceededIn(ms, category), BestKeys(ms, category))
    BY Zenon DEF BestIn, BestKeys
  <2> QED BY <2>1, <2>2, Zenon
<1>7. ListedIn(ms, additional)
  <2> DEFINE c == Cardinality(others)
  <2>1. /\ others \in SUBSET Successful(ms)
        /\ \A j \in Successful(ms) : ms[j].model \notin Range(Priority) => j \in others
    OBVIOUS
  <2> HIDE DEF others
  <2>2. others \in SUBSET Nat /\ IsFiniteSet(others) /\ Keyed(others, overall)
    BY <1>2, <2>1
  <2> HIDE DEF overall
  <2>3. /\ c \in Nat /\ extra \in [1..c -> others]
        /\ \A i \in others : \E n \in 1..c : extra[n] = i
        /\ \A m, n \in 1..c : m < n => Before(overall, extra[m], extra[n])
    BY <2>2, RankingIs
  <2>4. Len(extra) = c
    <3>1. extra \in Seq(others)
      <4> HIDE DEF extra, c
      <4> QED BY <2>3
    <3> HIDE DEF extra, c
    <3> QED BY <2>3, <3>1
  <2> DEFINE l == Least({5, c})
  <2>5. l \in Nat /\ l <= c
    <3>1. \E x \in {5, c} : \A y \in {5, c} : x <= y
      <4> HIDE DEF c
      <4>1. 5 <= c \/ c <= 5
        BY <2>3
      <4> QED BY <2>3, <4>1
    <3>2. l \in {5, c} /\ \A y \in {5, c} : l <= y
      <4> HIDE DEF c
      <4> QED BY <3>1 DEF Least
    <3> HIDE DEF l, c
    <3> QED BY <2>3, <3>2
  <2>6. additional = [n \in 1..l |-> ms[extra[n]].model]
    BY <2>4
  <2> HIDE DEF l, c, extra, additional
  <2>7. ASSUME NEW n \in 1..l, NEW j \in others, Above(overall[j], overall[extra[n]])
        PROVE  \E k \in 1..(n - 1) : additional[k] = ms[j].model
    <3>1. n \in 1..c /\ extra[n] \in others
      BY <2>3, <2>5
    <3>2. PICK k \in 1..c : extra[k] = j
      BY <2>3
    <3>3. Before(overall, extra[k], extra[n])
      BY <2>7, <3>2 DEF Before
    <3>4. k # n
      BY <2>2, <3>1, <3>3, BeforeIsOrder
    <3>5. ~(n < k)
      <4>1. n < k => Before(overall, extra[n], extra[k])
        BY <2>3, <3>1
      <4>2. Before(overall, extra[k], extra[n]) => ~Before(overall, extra[n], extra[k])
        BY <2>2, <3>1, <3>2, BeforeIsOrder
      <4> QED BY <3>3, <4>1, <4>2
    <3>6. k \in 1..(n - 1) /\ k \in 1..l
      BY <2>3, <2>5, <3>4, <3>5
    <3> QED BY <2>6, <3>2, <3>6
  <2>8. ASSUME NEW n \in DOMAIN additional
        PROVE  \E i \in Successful(ms) :
                  /\ additional[n] = ms[i].model
                  /\ \A j \in Successful(ms) :
                         /\ ms[j].model \notin Range(Priority)
                         /\ Above(overall[j], overall[i])
                         => \E k \in 1..(n - 1) : additional[k] = ms[j].model
    <3>1. n \in 1..l /\ additional[n] = ms[extra[n]].model
      BY <2>6
    <3>2. extra[n] \in Successful(ms)
      BY <2>1, <2>3, <2>5, <3>1
    <3>3. \A j \in Successful(ms) :
              /\ ms[j].model \notin Range(Priority)
              /\ Above(overall[j], overall[extra[n]])
              => \E k \in 1..(n - 1) : additional[k] = ms[j].model
      BY <2>1, <2>7, <3>1
    <3> QED BY <3>1, <3>2, <3>3
  <2> QED BY <2>8, Zenon DEF ListedIn, overall
<1>8. /\ Chosen(ms, SucceededIn(ms, "reasoning"), BestKeys(ms, "reasoning"), reasoning)
      /\ Chosen(ms, SucceededIn(ms, "coding"), BestKeys(ms, "coding"), coding)
  BY <1>6
<1> HIDE DEF a, default, fast, reasoning, coding, additional, retest, avoid
<1>9. /\ a.default = default /\ a.fast = fast /\ a.reasoning = reasoning /\ a.coding = coding
      /\ a.additional = additional /\ a.retest = retest /\ a.avoid = avoid
  BY <1>1
<1>10. /\ Chosen(ms, DefaultPool(ms), OverallKeys(ms), a.default)
       /\ Chosen(ms, SucceededIn(ms, "simple"), FastKeys(ms), a.fast)
       /\ Chosen(ms, SucceededIn(ms, "reasoning"), BestKeys(ms, "reasoning"), a.reasoning)
       /\ Chosen(ms, SucceededIn(ms, "coding"), BestKeys(ms, "coding"), a.coding)
       /\ ListedIn(ms, a.additional)
       /\ a.retest = retest /\ a.avoid = avoid
  BY <1>4, <1>5, <1>7, <1>8, <1>9
<1> QED BY <1>10 DEF a, retest, avoid

(* What the two properties say of a report.                                *)
PerfectIn(r) == {m \in Range(r.models) : m.failed_tasks = 0}
AvoidedOf(r) ==
    LET advice == r.advice
        ms == r.models
        Useless == {m \in Range(ms) : m.successful_tasks = 0}
    IN  /\ advice.default \in advice.avoid => PerfectIn(r) = {}
        /\ \A category \in {"coding", "reasoning"} :
               advice[category] \in advice.avoid =>
                   \A i \in SucceededIn(ms, category) : ms[i].model \in advice.avoid
        /\ advice.fast \in advice.avoid =>
               \E i \in SucceededIn(ms, "simple") :
                   /\ ms[i].model = advice.fast
                   /\ \A j \in SucceededIn(ms, "simple") :
                          Group(ms[i], "simple").average_latency
                              <= Group(ms[j], "simple").average_latency
        /\ \A n \in DOMAIN advice.additional :
               advice.additional[n] \in advice.avoid =>
                   \A m \in PerfectIn(r) :
                       \/ m.model \in Range(Priority)
                       \/ \E k \in 1..(n - 1) : advice.additional[k] = m.model
        /\ advice.retest \cap advice.avoid = {}
        /\ \A m \in Useless :
               /\ m.model \in advice.retest \cup advice.avoid
               /\ m.model \notin {advice.default, advice.fast, advice.coding,
                                 advice.reasoning} \cup Range(advice.additional)
PerfectOf(r) ==
    PerfectIn(r) # {} =>
        \E d \in PerfectIn(r) :
            /\ d.model = r.advice.default
            /\ \A m \in PerfectIn(r) : d.average_latency <= m.average_latency

(* Two keys that differ first in their first part.                         *)
LEMMA AboveFirst ==
  ASSUME NEW a \in Int, NEW b, NEW c, NEW d, NEW e \in Int, NEW f, NEW g, NEW h, a > e
  PROVE  Above(<<a, b, c, d>>, <<e, f, g, h>>)
<1>1. 1 \in DOMAIN <<a, b, c, d>> /\ <<a, b, c, d>>[1] > <<e, f, g, h>>[1]
  OBVIOUS
<1>2. \A j \in 1..(1 - 1) : <<a, b, c, d>>[j] = <<e, f, g, h>>[j]
  OBVIOUS
<1> QED BY <1>1, <1>2, Zenon DEF Above

LEMMA AboveSecond ==
  ASSUME NEW a, NEW b \in Int, NEW c, NEW d, NEW f \in Int, NEW g, NEW h, b > f
  PROVE  Above(<<a, b, c, d>>, <<a, f, g, h>>)
<1>1. 2 \in DOMAIN <<a, b, c, d>> /\ <<a, b, c, d>>[2] > <<a, f, g, h>>[2]
  OBVIOUS
<1>2. \A j \in 1..(2 - 1) : <<a, b, c, d>>[j] = <<a, f, g, h>>[j]
  OBVIOUS
<1> QED BY <1>1, <1>2, Zenon DEF Above

LEMMA AboveLast ==
  ASSUME NEW a, NEW b, NEW c, NEW d \in Int, NEW h \in Int, d > h
  PROVE  Above(<<a, b, c, d>>, <<a, b, c, h>>)
<1>1. 4 \in DOMAIN <<a, b, c, d>> /\ <<a, b, c, d>>[4] > <<a, b, c, h>>[4]
  OBVIOUS
<1>2. \A j \in 1..(4 - 1) : <<a, b, c, d>>[j] = <<a, b, c, h>>[j]
  OBVIOUS
<1> QED BY <1>1, <1>2, Zenon DEF Above

LEMMA ReportIs ==
  ASSUME NEW ms, NEW N, NEW tested, NEW shown, Benchmarked(ms, N, tested, shown)
  PROVE  AvoidedOf(Report(ms)) /\ PerfectOf(Report(ms))
<1> DEFINE S == Scored(ms)
           a == Recommendations(S)
           r == Report(ms)
<1>1. Judgeable(S, N, tested, shown)
  BY ScoredIs
<1>2. r.models = S /\ r.advice = a
  <2>1. r = [models |-> S, advice |-> a]
    BY Zenon DEF Report
  <2> HIDE DEF r, S, a
  <2> QED BY <2>1
<1> HIDE DEF r, S
<1>3. /\ N \in Nat /\ tested \in [1..N -> DOMAIN Traits]
      /\ \A i, j \in 1..N : tested[i] = tested[j] => i = j
      /\ DOMAIN S = 1..N
      /\ \A i \in 1..N : /\ Summed(S[i], shown[i])
                         /\ S[i].model = tested[i] /\ S[i].final \in Nat
      /\ \A i, j \in 1..N :
             /\ S[i].failed_tasks = 0 /\ S[j].failed_tasks = 0
             /\ S[i].average_latency <= S[j].average_latency
             => S[j].final <= S[i].final
      /\ \A i, j \in 1..N : S[i].failed_tasks = 0 /\ 2 * S[j].reliability < Unit
                            => S[j].final <= S[i].final
      /\ \A i \in 1..N : MayResult(shown[i])
  BY <1>1 DEF Judgeable
<1>4. /\ Chosen(S, DefaultPool(S), OverallKeys(S), a.default)
      /\ Chosen(S, SucceededIn(S, "simple"), FastKeys(S), a.fast)
      /\ Chosen(S, SucceededIn(S, "reasoning"), BestKeys(S, "reasoning"), a.reasoning)
      /\ Chosen(S, SucceededIn(S, "coding"), BestKeys(S, "coding"), a.coding)
      /\ ListedIn(S, a.additional)
      /\ a.retest = {S[i].model : i \in {j \in DOMAIN S : Retest(S[j])}}
      /\ a.avoid = {S[i].model : i \in {j \in DOMAIN S : Avoid(S[j])}}
  BY <1>1, AdviceIs
<1>5. /\ DefaultPool(S) \in SUBSET Successful(S) /\ Successful(S) \in SUBSET (1..N)
      /\ \A category : SucceededIn(S, category) \in SUBSET Successful(S)
      /\ \A i \in 1..N : S[i].failed_tasks = 0 =>
             i \in DefaultPool(S) /\ \A j \in DefaultPool(S) : S[j].failed_tasks = 0
  BY <1>1, PoolsAre
<1> HIDE DEF a
<1>6. /\ \A i, j \in 1..N : S[i].model = S[j].model => i = j
      /\ \A i \in 1..N : S[i].model # None.model
  BY <1>3, NoneAssumption
<1>7. \A i \in 1..N : /\ S[i].model \in a.avoid <=> Avoid(S[i])
                      /\ S[i].model \in a.retest <=> Retest(S[i])
  BY <1>3, <1>4, <1>6
<1>8. ASSUME NEW i \in 1..N
      PROVE  /\ S[i].average_latency \in Nat /\ S[i].quality \in Nat
             /\ S[i].reliability \in Nat /\ S[i].final \in Nat
             /\ S[i].successful_tasks \in Nat
             /\ S[i].failed_tasks = 0 =>
                  /\ ~Avoid(S[i]) /\ S[i].reliability = Unit /\ S[i].quality = Unit
                  /\ S[i].average_latency >= 1
             /\ S[i].successful_tasks > 0 => (Avoid(S[i]) <=> 2 * S[i].reliability < Unit)
             /\ S[i].successful_tasks = 0 => Retest(S[i]) \/ Avoid(S[i])
             /\ Avoid(S[i]) => ~Retest(S[i])
  <2> DEFINE m == S[i]
             tasks == shown[i]
  <2>1. Summed(m, tasks) /\ m.final \in Nat /\ Unit \in Nat \ {0}
    BY <1>3, UnitAssumption
  <2>2. /\ Avoid(m) => m.successful_tasks = 0 \/ 2 * m.reliability < Unit \/ m.malformed >= 3
        /\ Avoid(m) => ~Retest(m)
        /\ ~Retest(m) /\ (m.successful_tasks = 0 \/ 2 * m.reliability < Unit) => Avoid(m)
        /\ Retest(m) => m.successful_tasks = 0
    BY Zenon DEF Avoid, Retest
  <2> HIDE DEF m, tasks
  <2>3. /\ m.average_latency \in Nat /\ m.quality \in Nat /\ m.reliability \in Nat
        /\ m.successful_tasks \in Nat /\ m.malformed \in Nat
        /\ m.successful_tasks > 0 => m.malformed <= 2
        /\ m.failed_tasks = 3 - m.successful_tasks
        /\ m.failed_tasks = 0 =>
             m.reliability = Unit /\ m.quality = Unit /\ m.average_latency >= 1
    BY <2>1 DEF Summed
  <2>4. m.successful_tasks > 0 => (Avoid(m) <=> 2 * m.reliability < Unit)
    <3>1. m.successful_tasks > 0 => ~(m.malformed >= 3) /\ m.successful_tasks # 0
      BY <2>3
    <3> DEFINE half == 2 * m.reliability < Unit
    <3>2. m.successful_tasks > 0 => (Avoid(m) <=> half)
      <4> HIDE DEF half
      <4> QED BY <2>2, <3>1, Zenon DEF half
    <3> QED BY <3>2
  <2>5. m.failed_tasks = 0 => ~Avoid(m)
    BY <2>1, <2>3, <2>4
  <2> QED BY <2>1, <2>2, <2>3, <2>4, <2>5 DEF m
<1>9. \A i \in 1..N : S[i].successful_tasks = 0 <=> i \notin Successful(S)
  <2>1. Successful(S) = {i \in 1..N : S[i].successful_tasks > 0}
    BY <1>3 DEF Successful
  <2>2. \A i \in 1..N : S[i].successful_tasks \in Nat
    BY <1>8
  <2> QED BY <2>1, <2>2
<1>10. ASSUME NEW I \in SUBSET Successful(S), NEW key, NEW model, Chosen(S, I, key, model)
       PROVE  \A i \in 1..N : i \notin Successful(S) => S[i].model # model
  <2>1. CASE I = {} /\ model = None.model
    BY <1>6, <2>1
  <2>2. CASE \E i \in I : model = S[i].model /\ \A j \in I : ~Above(key[j], key[i])
    <3>1. PICK j \in I : model = S[j].model
      BY <2>2
    <3> QED BY <1>5, <1>6, <3>1
  <2> QED BY <1>10, <2>1, <2>2 DEF Chosen
<1>11. ASSUME NEW k \in 1..N, S[k].failed_tasks = 0
       PROVE  \E d \in 1..N : /\ S[d].failed_tasks = 0 /\ S[d].model = a.default
                              /\ \A j \in 1..N : S[j].failed_tasks = 0 =>
                                     S[d].average_latency <= S[j].average_latency
  <2> DEFINE I == DefaultPool(S)
             key == OverallKeys(S)
  <2>1. k \in I /\ (\A j \in I : S[j].failed_tasks = 0) /\ I \in SUBSET (1..N)
    BY <1>5, <1>11
  <2>2. PICK d \in I : a.default = S[d].model /\ \A j \in I : ~Above(key[j], key[d])
    BY <1>4, <2>1 DEF Chosen
  <2>3. ASSUME NEW j \in 1..N, S[j].failed_tasks = 0,
               ~(S[d].average_latency <= S[j].average_latency)
        PROVE  FALSE
    <3>1. j \in I /\ d \in 1..N /\ S[d].failed_tasks = 0
      BY <1>5, <2>1, <2>3
    <3> DEFINE fj == S[j].final
               fd == S[d].final
               lj == LatencyKey(S[j].average_latency)
               ld == LatencyKey(S[d].average_latency)
    <3>2. S[j].average_latency < S[d].average_latency /\ S[j].average_latency >= 1
          /\ S[j].average_latency \in Nat /\ S[d].average_latency \in Nat
      BY <1>8, <2>3, <3>1
    <3>3. fj \in Int /\ fd \in Int /\ fd <= fj
      <4>1. fj \in Nat /\ fd \in Nat
        BY <1>8, <3>1
      <4>2. S[j].average_latency <= S[d].average_latency
        BY <3>2
      <4>3. fd <= fj
        BY <1>3, <2>3, <3>1, <4>2
      <4> HIDE DEF fj, fd
      <4> QED BY <4>1, <4>3
    <3>4. lj \in Int /\ ld \in Int /\ lj > ld
      BY <3>2 DEF LatencyKey
    <3>5. key[j] = <<fj, Unit, Unit, lj>> /\ key[d] = <<fd, Unit, Unit, ld>>
      BY <1>3, <1>8, <2>3, <3>1 DEF OverallKeys, OverallKey
    <3> HIDE DEF key, fj, fd, lj, ld
    <3>6. Above(key[j], key[d])
      <4>1. CASE fj > fd
        BY <3>3, <3>5, <4>1, AboveFirst
      <4>2. CASE fj = fd
        BY <3>4, <3>5, <4>2, AboveLast
      <4> QED BY <3>3, <4>1, <4>2
    <3> QED BY <2>2, <3>1, <3>6
  <2> QED BY <2>1, <2>2, <2>3
<1>12. ASSUME NEW category, Chosen(S, SucceededIn(S, category), BestKeys(S, category), a[category]),
              a[category] \in a.avoid
       PROVE  \A i \in SucceededIn(S, category) : S[i].model \in a.avoid
  <2> DEFINE I == SucceededIn(S, category)
             key == BestKeys(S, category)
  <2>1. I \in SUBSET (1..N) /\ I \in SUBSET Successful(S)
    BY <1>5
  <2> SUFFICES ASSUME NEW i \in I PROVE S[i].model \in a.avoid
    OBVIOUS
  <2>2. PICK d \in I : a[category] = S[d].model /\ \A j \in I : ~Above(key[j], key[d])
    BY <1>12 DEF Chosen
  <2> HIDE DEF I
  <2>3. d \in 1..N /\ i \in 1..N /\ S[d].successful_tasks > 0 /\ S[i].successful_tasks > 0
    BY <1>8, <1>9, <2>1
  <2>4. Avoid(S[d])
    BY <1>7, <1>12, <2>2, <2>3
  <2>5. 2 * S[d].reliability < Unit
    BY <1>8, <2>3, <2>4
  <2> DEFINE x == S[i].reliability
             y == S[d].reliability
  <2>6. x \in Int /\ y \in Int
    BY <1>8, <2>3
  <2>7. ~(x > y)
    <3> DEFINE xk == LatencyKey(Group(S[i], category).average_latency)
               yk == LatencyKey(Group(S[d], category).average_latency)
    <3>1. /\ key[i] = <<x, S[i].quality, S[i].final, xk>>
          /\ key[d] = <<y, S[d].quality, S[d].final, yk>>
      BY <1>3, <2>3 DEF BestKeys
    <3> HIDE DEF key, x, y, xk, yk
    <3>2. x > y => Above(key[i], key[d])
      BY <2>6, <3>1, AboveFirst
    <3> QED BY <2>2, <3>2
  <2>8. 2 * S[i].reliability < Unit
    BY <2>5, <2>6, <2>7, UnitAssumption
  <2>9. Avoid(S[i])
    BY <1>8, <2>3, <2>8
  <2> QED BY <1>7, <2>3, <2>9
<1>13. PerfectIn(r) = {S[i] : i \in {j \in 1..N : S[j].failed_tasks = 0}}
  BY <1>2, <1>3 DEF PerfectIn, Range
<1>14. a.default \in a.avoid => PerfectIn(r) = {}
  <2> SUFFICES ASSUME a.default \in a.avoid, NEW k \in 1..N, S[k].failed_tasks = 0
               PROVE  FALSE
    BY <1>13
  <2>1. PICK d \in 1..N : S[d].failed_tasks = 0 /\ S[d].model = a.default
    BY <1>11
  <2> QED BY <1>7, <1>8, <2>1
<1>15. a.retest \cap a.avoid = {}
  BY <1>3, <1>4, <1>7, <1>8
<1>16. ASSUME NEW i \in 1..N, S[i].successful_tasks = 0
       PROVE  /\ S[i].model \in a.retest \cup a.avoid
              /\ S[i].model \notin {a.default, a.fast, a.coding, a.reasoning}
                                   \cup Range(a.additional)
  <2>1. i \notin Successful(S)
    BY <1>9, <1>16
  <2>2. S[i].model # a.default
    BY <1>4, <1>5, <1>10, <2>1
  <2>3. S[i].model # a.fast
    BY <1>4, <1>5, <1>10, <2>1
  <2>4. S[i].model # a.coding
    BY <1>4, <1>5, <1>10, <2>1
  <2>5. S[i].model # a.reasoning
    BY <1>4, <1>5, <1>10, <2>1
  <2>6. S[i].model \notin Range(a.additional)
    <3> SUFFICES ASSUME S[i].model \in Range(a.additional) PROVE FALSE
      OBVIOUS
    <3>1. \A n \in DOMAIN a.additional : \E j \in Successful(S) : a.additional[n] = S[j].model
      BY <1>4, Zenon DEF ListedIn
    <3>2. PICK j \in Successful(S) : S[i].model = S[j].model
      BY <3>1 DEF Range
    <3> QED BY <1>5, <1>6, <2>1, <3>2
  <2> QED BY <1>7, <1>8, <1>16, <2>2, <2>3, <2>4, <2>5, <2>6
<1>17. PerfectOf(r)
  <2> SUFFICES ASSUME NEW k \in 1..N, S[k].failed_tasks = 0
               PROVE  \E d \in PerfectIn(r) :
                         /\ d.model = a.default
                         /\ \A m \in PerfectIn(r) : d.average_latency <= m.average_latency
    BY <1>2, <1>13 DEF PerfectOf
  <2>1. PICK d \in 1..N : /\ S[d].failed_tasks = 0 /\ S[d].model = a.default
                          /\ \A j \in 1..N : S[j].failed_tasks = 0 =>
                                 S[d].average_latency <= S[j].average_latency
    BY <1>11
  <2>2. S[d] \in PerfectIn(r)
    BY <1>13, <2>1
  <2>3. \A m \in PerfectIn(r) : S[d].average_latency <= m.average_latency
    BY <1>13, <2>1
  <2> QED BY <2>1, <2>2, <2>3
<1>18. ASSUME a.fast \in a.avoid
       PROVE  \E i \in SucceededIn(S, "simple") :
                 /\ S[i].model = a.fast
                 /\ \A j \in SucceededIn(S, "simple") :
                        Group(S[i], "simple").average_latency
                            <= Group(S[j], "simple").average_latency
  <2> DEFINE I == SucceededIn(S, "simple")
             key == FastKeys(S)
             Latency(i) == Group(S[i], "simple").average_latency
  <2>1. I \in SUBSET (1..N)
    BY <1>5
  <2>2. a.fast # None.model
    BY <1>3, <1>4, <1>6, <1>18
  <2>3. PICK d \in I : a.fast = S[d].model /\ \A j \in I : ~Above(key[j], key[d])
    BY <1>4, <2>2 DEF Chosen
  <2>4. ASSUME NEW i \in 1..N PROVE Latency(i) \in Nat /\ key[i] = <<-Latency(i)>>
    <3>1. Latency(i) \in Nat
      BY <1>3, GroupIs
    <3>2. key[i] = <<-Latency(i)>>
      BY <1>3 DEF FastKeys
    <3> QED BY <3>1, <3>2
  <2> HIDE DEF I, key, Latency
  <2>5. ASSUME NEW j \in I PROVE Latency(d) <= Latency(j)
    <3> DEFINE x == -Latency(j)
               y == -Latency(d)
    <3>1. /\ Latency(d) \in Nat /\ Latency(j) \in Nat
          /\ key[d] = <<y>> /\ key[j] = <<x>>
      BY <2>1, <2>4
    <3>2. x \in Int /\ y \in Int /\ (~(x > y) => Latency(d) <= Latency(j))
      BY <3>1
    <3> HIDE DEF x, y
    <3>3. x > y => Above(<<x>>, <<y>>)
      <4>1. 1 \in DOMAIN <<x>> /\ (x > y => <<x>>[1] > <<y>>[1])
            /\ \A k \in 1..(1 - 1) : <<x>>[k] = <<y>>[k]
        OBVIOUS
      <4> QED BY <4>1, Zenon DEF Above
    <3> QED BY <2>3, <3>1, <3>2, <3>3
  <2> QED BY <2>3, <2>5 DEF I, Latency
<1>19. ASSUME NEW n \in DOMAIN a.additional, a.additional[n] \in a.avoid,
              NEW p \in 1..N, S[p].failed_tasks = 0, S[p].model \notin Range(Priority)
       PROVE  \E k \in 1..(n - 1) : a.additional[k] = S[p].model
  <2> DEFINE key == OverallKeys(S)
             names == a.additional
  <2>1. PICK i \in Successful(S) :
            /\ names[n] = S[i].model
            /\ \A j \in Successful(S) :
                   S[j].model \notin Range(Priority) /\ Above(key[j], key[i])
                   => \E k \in 1..(n - 1) : names[k] = S[j].model
    BY <1>4, Zenon DEF ListedIn
  <2>2. p \in Successful(S) /\ i \in 1..N /\ S[i].successful_tasks > 0
    BY <1>5, <1>8, <1>9, <1>19
  <2>3. 2 * S[i].reliability < Unit
    BY <1>7, <1>8, <1>19, <2>1, <2>2
  <2> DEFINE x == S[p].final
             y == S[i].final
             v == S[i].reliability
  <2>4. x \in Int /\ y \in Int /\ v \in Int /\ y <= x /\ Unit \in Int /\ Unit > v
    <3>1. x \in Nat /\ y \in Nat /\ v \in Nat
      BY <1>8, <2>2
    <3>2. y <= x
      BY <1>3, <1>19, <2>2, <2>3
    <3>3. Unit > v
      BY <2>3, <3>1, UnitAssumption
    <3> HIDE DEF x, y, v
    <3> QED BY <3>1, <3>2, <3>3, UnitAssumption
  <2>5. Above(key[p], key[i])
    <3> DEFINE xk == LatencyKey(S[p].average_latency)
               yk == LatencyKey(S[i].average_latency)
               q == S[i].quality
    <3>1. key[p] = <<x, Unit, Unit, xk>> /\ key[i] = <<y, v, q, yk>>
      BY <1>3, <1>8, <1>19, <2>2 DEF OverallKeys, OverallKey
    <3> HIDE DEF key, x, y, v, xk, yk, q
    <3>2. CASE x > y
      BY <2>4, <3>1, <3>2, AboveFirst
    <3>3. CASE x = y
      BY <2>4, <3>1, <3>3, AboveSecond
    <3> QED BY <2>4, <3>2, <3>3
  <2> QED BY <1>19, <2>1, <2>2, <2>5
<1>20. AvoidedOf(r)
  <2>1. {m \in Range(r.models) : m.successful_tasks = 0}
            = {S[i] : i \in {j \in 1..N : S[j].successful_tasks = 0}}
    BY <1>2, <1>3 DEF Range
  <2>2. \A category \in {"coding", "reasoning"} :
            a[category] \in a.avoid =>
                \A i \in SucceededIn(S, category) : S[i].model \in a.avoid
    BY <1>4, <1>12
  <2>3. \A m \in {m \in Range(r.models) : m.successful_tasks = 0} :
            /\ m.model \in a.retest \cup a.avoid
            /\ m.model \notin {a.default, a.fast, a.coding, a.reasoning}
                              \cup Range(a.additional)
    BY <1>16, <2>1
  <2>4. \A n \in DOMAIN a.additional :
            a.additional[n] \in a.avoid =>
                \A m \in PerfectIn(r) :
                    \/ m.model \in Range(Priority)
                    \/ \E k \in 1..(n - 1) : a.additional[k] = m.model
    BY <1>13, <1>19
  <2> QED BY <1>2, <1>14, <1>15, <1>18, <2>2, <2>3, <2>4 DEF AvoidedOf
<1> QED BY <1>17, <1>20 DEF r

-----------------------------------------------------------------------------
(* The selection.  What holds of the candidates chosen from those that     *)
(* were seen: each eligible one is represented by a member of its family   *)
(* that scores as high, or was turned away by a full list of better ones.  *)
Represented(s, id) ==
    \/ \E c \in Range(s) : /\ Traits[c].family = Traits[id].family
                           /\ CandidateScore(c) >= CandidateScore(id)
    \/ Len(s) = Limit /\ \A c \in Range(s) : CandidateScore(c) >= CandidateScore(id)

BestOf(s, seen) ==
    /\ s \in Seq(DOMAIN Traits) /\ Len(s) <= Limit
    /\ Range(s) \subseteq seen /\ \A c \in Range(s) : ~Skipped(c)
    /\ \A i, j \in 1..Len(s) : Traits[s[i]].family = Traits[s[j]].family => i = j
    /\ \A id \in seen : Skipped(id) \/ Represented(s, id)

LEMMA CandidateScoreType ==
  ASSUME NEW id
  PROVE  CandidateScore(id) \in Int
<1> DEFINE W(token, score) == IF Tagged(id, token) THEN score ELSE 0
<1>1. CandidateScore(id) =
          IF Skipped(id) THEN -3996
          ELSE W("reasoning", 12) + W("coding", 8) + W("fast", 2) + W("multimodal", 1)
               + W("chat", 4) + W("brand", 2) + W("small", 1)
  BY DEF CandidateScore
<1>2. \A token : /\ W(token, 12) \in Int /\ W(token, 8) \in Int /\ W(token, 4) \in Int
                 /\ W(token, 2) \in Int /\ W(token, 1) \in Int
  OBVIOUS
<1> HIDE DEF W
<1>3. W("reasoning", 12) + W("coding", 8) + W("fast", 2) + W("multimodal", 1)
      + W("chat", 4) + W("brand", 2) + W("small", 1) \in Int
  BY <1>2
<1> QED BY <1>1, <1>3

LEMMA TakeIsBest ==
  ASSUME NEW seen, NEW s, BestOf(s, seen), NEW id \in DOMAIN Traits,
         \A x \in seen : CandidateScore(x) >= CandidateScore(id)
  PROVE  BestOf(Take(s, id), seen \cup {id})
<1>1. /\ s \in Seq(DOMAIN Traits) /\ Len(s) <= Limit /\ Len(s) \in Nat /\ Limit \in Nat
      /\ Range(s) \subseteq seen /\ \A c \in Range(s) : ~Skipped(c)
      /\ \A i, j \in 1..Len(s) : Traits[s[i]].family = Traits[s[j]].family => i = j
      /\ \A x \in seen : Skipped(x) \/ Represented(s, x)
  BY LimitAssumption DEF BestOf
<1>2. CASE Skipped(id)
  <2>1. Take(s, id) = s
    BY <1>2 DEF Take
  <2> QED BY <1>1, <1>2, <2>1 DEF BestOf
<1>3. CASE Len(s) >= Limit
  <2>1. Take(s, id) = s
    BY <1>3 DEF Take
  <2>2. Len(s) = Limit
    BY <1>1, <1>3
  <2>3. Represented(s, id)
    BY <1>1, <2>2 DEF Represented
  <2> QED BY <1>1, <2>1, <2>3 DEF BestOf
<1>4. CASE \E c \in Range(s) : Traits[c].family = Traits[id].family
  <2>1. Take(s, id) = s
    BY <1>4 DEF Take
  <2>2. Represented(s, id)
    BY <1>1, <1>4 DEF Represented
  <2> QED BY <1>1, <2>1, <2>2 DEF BestOf
<1>5. CASE /\ ~Skipped(id) /\ ~(Len(s) >= Limit)
           /\ ~\E c \in Range(s) : Traits[c].family = Traits[id].family
  <2> DEFINE t == Append(s, id)
             n == Len(s)
  <2>1. Take(s, id) = t
    BY <1>5 DEF Take
  <2>2. /\ t \in Seq(DOMAIN Traits) /\ Len(t) = n + 1 /\ n \in Nat
        /\ t[n + 1] = id /\ \A i \in 1..n : t[i] = s[i]
    BY <1>1
  <2>3. Range(t) = Range(s) \cup {id}
    <3>1. DOMAIN s = 1..n /\ DOMAIN t = 1..(n + 1)
      BY <1>1, <2>2
    <3>2. \A i \in 1..(n + 1) : i \in 1..n \/ i = n + 1
      BY <2>2
    <3>3. n + 1 \in 1..(n + 1) /\ \A i \in 1..n : i \in 1..(n + 1)
      BY <2>2
    <3> HIDE DEF t, n
    <3> QED BY <2>2, <3>1, <3>2, <3>3 DEF Range
  <2>4. \A i \in 1..n : s[i] \in Range(s)
    BY <1>1 DEF Range
  <2> HIDE DEF t
  <2>5. n + 1 <= Limit /\ n # Limit
    BY <1>1, <1>5
  <2>6. ASSUME NEW i \in 1..(n + 1), NEW j \in 1..(n + 1),
               Traits[t[i]].family = Traits[t[j]].family
        PROVE  i = j
    <3>1. i \in 1..n \/ i = n + 1
      BY <2>2
    <3>2. j \in 1..n \/ j = n + 1
      BY <2>2
    <3> HIDE DEF n
    <3>3. CASE i \in 1..n /\ j \in 1..n
      BY <1>1, <2>2, <2>6, <3>3 DEF n
    <3>4. CASE i \in 1..n /\ j = n + 1
      BY <1>5, <2>2, <2>4, <2>6, <3>4
    <3>5. CASE i = n + 1 /\ j \in 1..n
      BY <1>5, <2>2, <2>4, <2>6, <3>5
    <3> QED BY <3>1, <3>2, <3>3, <3>4, <3>5
  <2>7. ASSUME NEW x \in seen \cup {id} PROVE Skipped(x) \/ Represented(t, x)
    <3>1. CASE x = id
      <4>1. CandidateScore(id) >= CandidateScore(id) /\ id \in Range(t)
        BY <2>3, CandidateScoreType
      <4> QED BY <3>1, <4>1 DEF Represented
    <3>2. CASE x \in seen /\ ~Skipped(x)
      <4>1. Represented(s, x)
        BY <1>1, <3>2
      <4>2. PICK c \in Range(s) : /\ Traits[c].family = Traits[x].family
                                  /\ CandidateScore(c) >= CandidateScore(x)
        BY <2>5, <4>1 DEF Represented
      <4>3. c \in Range(t)
        BY <2>3
      <4> QED BY <4>2, <4>3 DEF Represented
    <3> QED BY <3>1, <3>2
  <2>8. Range(t) \subseteq seen \cup {id} /\ \A c \in Range(t) : ~Skipped(c)
    BY <1>1, <1>5, <2>3
  <2>9. Len(t) <= Limit /\ \A i, j \in 1..Len(t) :
            Traits[t[i]].family = Traits[t[j]].family => i = j
    BY <2>2, <2>5, <2>6
  <2> HIDE DEF n
  <2> QED BY <2>1, <2>2, <2>7, <2>8, <2>9 DEF BestOf
<1> QED BY <1>2, <1>3, <1>4, <1>5

(* The chosen ones after n of those that are in order.                     *)
LEMMA SelectIs ==
  ASSUME NEW ids, NEW c \in Nat, Ordered(ids) \in Seq(Nat), Len(Ordered(ids)) = c,
         \A n \in 1..c : ids[Ordered(ids)[n]] \in DOMAIN Traits
  PROVE  \E g \in [0..c -> Seq(DOMAIN Traits)] :
             /\ g[0] = <<>> /\ \A n \in 1..c : g[n] = Take(g[n - 1], ids[Ordered(ids)[n]])
             /\ Select(ids) = g[c]
<1> DEFINE T == Seq(DOMAIN Traits)
           R == Ordered(ids)
           step == [n \in 1..c |-> [s \in T |-> Take(s, ids[R[n]])]]
           zero == <<>>
<1>1. zero \in T
  OBVIOUS
<1>2. ASSUME NEW s \in T, NEW id \in DOMAIN Traits PROVE Take(s, id) \in T
  <2>1. Take(s, id) = s \/ Take(s, id) = Append(s, id)
    BY DEF Take
  <2>2. Append(s, id) \in T
    OBVIOUS
  <2> HIDE DEF T
  <2> QED BY <2>1, <2>2
<1>3. step \in [1..c -> [T -> T]]
  <2> HIDE DEF T, R
  <2>1. \A n \in 1..c, s \in T : Take(s, ids[R[n]]) \in T
    BY <1>2 DEF R
  <2> QED BY <2>1
<1>4. PICK g \in [0..c -> T] : g[0] = zero /\ \A n \in 1..c : g[n] = step[n][g[n - 1]]
  <2> HIDE DEF step, T, zero
  <2>1. \E g \in [0..c -> T] : Stepwise(g, zero, c, step)
    BY <1>1, <1>3, Recursion
  <2> QED BY <2>1 DEF Stepwise
<1>5. \A n \in 1..c : g[n] = Take(g[n - 1], ids[R[n]])
  <2> SUFFICES ASSUME NEW n \in 1..c PROVE g[n] = Take(g[n - 1], ids[R[n]])
    OBVIOUS
  <2> HIDE DEF T, zero, R
  <2>1. n - 1 \in 0..c
    OBVIOUS
  <2>2. g[n - 1] \in T
    BY <2>1
  <2>3. step[n][g[n - 1]] = Take(g[n - 1], ids[R[n]])
    BY <2>2
  <2> HIDE DEF step
  <2> QED BY <1>4, <2>3
<1> DEFINE Body(h) == [n \in 0..c |-> IF n = 0 THEN <<>> ELSE Take(h[n - 1], ids[R[n]])]
<1>6. g = Body(g)
  <2> SUFFICES ASSUME NEW n \in 0..c
               PROVE  g[n] = IF n = 0 THEN <<>> ELSE Take(g[n - 1], ids[R[n]])
    <3> HIDE DEF T, R
    <3> QED OBVIOUS
  <2>1. CASE n = 0
    BY <1>4, <2>1
  <2>2. CASE n # 0
    <3>1. n \in 1..c
      BY <2>2
    <3> QED BY <1>5, <2>2, <3>1
  <2> QED BY <2>1, <2>2
<1> DEFINE selected == CHOOSE h : h = Body(h)
<1>7. selected = Body(selected)
  <2> HIDE DEF Body
  <2> QED BY <1>6
<1>8. Select(ids) = selected[c]
  <2>1. Len(R) = c
    OBVIOUS
  <2> DEFINE Raw == CHOOSE h : h = [n \in 0..Len(R) |->
                        IF n = 0 THEN <<>> ELSE Take(h[n - 1], ids[R[n]])]
  <2>2. Select(ids) = Raw[Len(R)]
    BY DEF Select
  <2>3. Raw = selected
    BY <2>1
  <2> HIDE DEF Raw, selected, R
  <2> QED BY <2>1, <2>2, <2>3
<1> HIDE DEF selected, R, T
<1>9. /\ selected[0] = <<>>
      /\ \A n \in 1..c : selected[n] = Take(selected[n - 1], ids[R[n]])
  <2>1. \A n \in 1..c : n \in 0..c /\ n # 0
    OBVIOUS
  <2>2. 0 \in 0..c
    OBVIOUS
  <2> QED BY <1>7, <2>1, <2>2
<1>10. \A n \in 0..c : selected[n] = g[n]
  <2> DEFINE K == {n \in Nat : n <= c => selected[n] = g[n]}
  <2>1. 0 \in K
    BY <1>4, <1>9
  <2>2. ASSUME NEW n \in Nat, n \in K PROVE n + 1 \in K
    <3>1. SUFFICES ASSUME n + 1 <= c PROVE selected[n + 1] = g[n + 1]
      OBVIOUS
    <3>2. n + 1 \in 1..c /\ (n + 1) - 1 = n /\ n <= c
      BY <3>1
    <3>3. selected[n] = g[n]
      BY <2>2, <3>2
    <3>4. selected[n + 1] = Take(selected[n], ids[R[n + 1]])
          /\ g[n + 1] = Take(g[n], ids[R[n + 1]])
      BY <1>5, <1>9, <3>2
    <3> QED BY <3>3, <3>4
  <2> HIDE DEF K
  <2>3. Nat \subseteq K
    BY <2>1, <2>2, SetInduction
  <2> QED BY <2>3 DEF K
<1>11. Select(ids) = g[c]
  BY <1>8, <1>10
<1> QED BY <1>4, <1>5, <1>11 DEF R, T

(* What the property says of candidates and what was listed.               *)
FamiliesIn(S) == {Traits[id].family : id \in S}
Eligible(listed) == {id \in listed \ Range(Priority) : ~Skipped(id)}
CandidatesOf(chosen, listed) ==
    /\ Range(chosen) \subseteq Eligible(listed)
    /\ Len(chosen) = Cardinality(FamiliesIn(Range(chosen)))
    /\ Len(chosen) = Least({Limit, Cardinality(FamiliesIn(Eligible(listed)))})
    /\ \A id \in Eligible(listed) \ Range(chosen) :
           IF Traits[id].family \in FamiliesIn(Range(chosen))
           THEN \E c \in Range(chosen) : Traits[c].family = Traits[id].family
                                         /\ CandidateScore(c) >= CandidateScore(id)
           ELSE \A c \in Range(chosen) : CandidateScore(c) >= CandidateScore(id)

(* Candidates and priority models are different models.                    *)
Different(chosen) ==
    /\ chosen \in Seq(DOMAIN Traits)
    /\ \A i, j \in 1..Len(chosen) : chosen[i] = chosen[j] => i = j
    /\ \A i \in 1..Len(chosen) : chosen[i] \notin Range(Priority)

LEMMA BestAreCandidates ==
  ASSUME NEW listed \in SUBSET (DOMAIN Traits), IsFiniteSet(listed), NEW s,
         BestOf(s, listed \ Range(Priority))
  PROVE  CandidatesOf(s, listed) /\ Different(s)
<1> DEFINE E == Eligible(listed)
           n == Len(s)
           F == FamiliesIn(E)
           G == FamiliesIn(Range(s))
           all == Cardinality(F)
           some == Cardinality(G)
<1>1. /\ s \in Seq(DOMAIN Traits) /\ n <= Limit /\ n \in Nat /\ Limit \in Nat
      /\ Range(s) \subseteq listed \ Range(Priority) /\ \A c \in Range(s) : ~Skipped(c)
      /\ \A i, j \in 1..n : Traits[s[i]].family = Traits[s[j]].family => i = j
      /\ \A x \in listed \ Range(Priority) : Skipped(x) \/ Represented(s, x)
  BY LimitAssumption DEF BestOf
<1>2. DOMAIN s = 1..n /\ \A i \in 1..n : s[i] \in Range(s)
  BY <1>1 DEF Range
<1>3. Range(s) \subseteq E
  BY <1>1 DEF Eligible
<1>4. IsFiniteSet(E) /\ E \subseteq DOMAIN Traits
  <2>1. E \subseteq listed
    BY DEF Eligible
  <2> HIDE DEF E
  <2> QED BY <2>1, FS_Subset
<1>5. IsFiniteSet(F) /\ all \in Nat
  <2> DEFINE f == [id \in E |-> Traits[id].family]
             H == {f[id] : id \in E}
  <2>1. F = H
    BY DEF FamiliesIn
  <2>2. IsFiniteSet(H)
    <3> HIDE DEF f, E
    <3> QED BY <1>4, ImageIs
  <2> HIDE DEF H
  <2> QED BY <2>1, <2>2, FS_CardinalityType
<1>6. some = n
  <2> DEFINE I == 1..n
             f == [i \in I |-> Traits[s[i]].family]
             H == {f[i] : i \in I}
  <2>1. G = H
    <3>1. G = {Traits[s[i]].family : i \in I}
      BY <1>2 DEF FamiliesIn, Range
    <3> QED BY <3>1
  <2>2. IsFiniteSet(I) /\ Cardinality(I) = n
    <3> DEFINE a == 1
    <3>0. a \in Int /\ n \in Int
      BY <1>1
    <3> HIDE DEF a, n
    <3>1. IsFiniteSet(a..n) /\ Cardinality(a..n) = IF a > n THEN 0 ELSE n - a + 1
      BY <3>0, FS_Interval
    <3> QED BY <1>1, <3>1 DEF a
  <2>3. \A i, j \in I : f[i] = f[j] => i = j
    BY <1>1
  <2>4. Cardinality(H) = n
    <3> HIDE DEF f, I, n
    <3> QED BY <2>2, <2>3, ImageIs
  <2> HIDE DEF G, H
  <2> QED BY <2>1, <2>4
<1>7. G \in SUBSET F /\ some <= all
  <2>1. G \in SUBSET F
    BY <1>3 DEF FamiliesIn
  <2> HIDE DEF G, F
  <2> QED BY <1>5, <2>1, FS_Subset
<1>8. n < Limit => all = n
  <2>0. F \subseteq G => all = n
    <3>1. F \subseteq G => F = G
      BY <1>7
    <3> HIDE DEF F, G, n
    <3> QED BY <1>6, <3>1
  <2> SUFFICES ASSUME n < Limit PROVE F \subseteq G
    BY <2>0
  <2>1. ASSUME NEW id \in E PROVE Traits[id].family \in G
    <3>1. Represented(s, id)
      BY <1>1 DEF Eligible
    <3>2. \E c \in Range(s) : Traits[c].family = Traits[id].family
      BY <1>1, <3>1 DEF Represented
    <3> QED BY <3>2 DEF FamiliesIn
  <2> QED BY <2>1 DEF FamiliesIn
<1>9. n = Least({Limit, all})
  <2> HIDE DEF n, all, some
  <2> DEFINE l == Least({Limit, all})
  <2>1. n \in {Limit, all} /\ n <= Limit /\ n <= all
    BY <1>1, <1>5, <1>6, <1>7, <1>8
  <2>2. l \in {Limit, all} /\ \A y \in {Limit, all} : l <= y
    <3>1. \E x \in {Limit, all} : \A y \in {Limit, all} : x <= y
      BY <1>1, <1>5, <2>1
    <3> QED BY <3>1 DEF Least
  <2> HIDE DEF l
  <2>3. n = l
    BY <1>1, <1>5, <2>1, <2>2
  <2> QED BY <2>3 DEF l
<1>10. ASSUME NEW id \in E \ Range(s)
       PROVE  IF Traits[id].family \in G
              THEN \E c \in Range(s) : Traits[c].family = Traits[id].family
                                       /\ CandidateScore(c) >= CandidateScore(id)
              ELSE \A c \in Range(s) : CandidateScore(c) >= CandidateScore(id)
  <2>1. Represented(s, id)
    BY <1>1 DEF Eligible
  <2>2. CASE Traits[id].family \in G
    <3>1. PICK c \in Range(s) : Traits[c].family = Traits[id].family
      BY <2>2 DEF FamiliesIn
    <3>2. \E d \in Range(s) : Traits[d].family = Traits[id].family
                              /\ CandidateScore(d) >= CandidateScore(id)
      BY <2>1, <3>1 DEF Represented
    <3> QED BY <2>2, <3>2
  <2>3. CASE Traits[id].family \notin G
    <3>1. ~\E c \in Range(s) : Traits[c].family = Traits[id].family
      BY <2>3 DEF FamiliesIn
    <3> QED BY <2>1, <2>3, <3>1 DEF Represented
  <2> QED BY <2>2, <2>3
<1>11. CandidatesOf(s, listed)
  BY <1>3, <1>6, <1>9, <1>10 DEF CandidatesOf
<1>12. Different(s)
  <2>1. \A i, j \in 1..n : s[i] = s[j] => i = j
    BY <1>1
  <2>2. \A i \in 1..n : s[i] \notin Range(Priority)
    BY <1>1, <1>2
  <2> QED BY <1>1, <2>1, <2>2 DEF Different
<1> QED BY <1>11, <1>12

LEMMA CandidatesAre ==
  ASSUME NEW ids \in Seq(DOMAIN Traits)
  PROVE  CandidatesOf(Select(ids), Range(ids)) /\ Different(Select(ids))
<1> DEFINE T == DOMAIN Traits
           I == {i \in DOMAIN ids : ids[i] \notin Range(Priority)}
           key == [i \in DOMAIN ids |-> CandidateKey(ids[i])]
           c == Cardinality(I)
           R == Ordered(ids)
           N == Len(ids)
           Seen(n) == {ids[R[m]] : m \in 1..n}
<1>1. N \in Nat /\ DOMAIN ids = 1..N /\ \A i \in 1..N : ids[i] \in T
  OBVIOUS
<1>2. I \in SUBSET (1..N) /\ I \in SUBSET Nat /\ IsFiniteSet(I)
  <2>1. IsFiniteSet(1..N)
    BY <1>1, FS_Interval
  <2> QED BY <1>1, <2>1, FS_Subset
<1>3. ASSUME NEW i \in 1..N
      PROVE  /\ key[i] \in [1..3 -> Int] /\ key[i][1] = CandidateScore(ids[i])
             /\ key[i][1] \in Int
  <2> DEFINE x == CandidateScore(ids[i])
             y == Traits[ids[i]].family
             z == Traits[ids[i]].place
  <2>1. x \in Int /\ y \in Int /\ z \in Int
    BY <1>1, CandidateScoreType, TraitsAssumption
  <2>2. key[i] = <<x, y, z>>
    BY <1>1 DEF CandidateKey
  <2> HIDE DEF x, y, z, key
  <2>3. key[i] \in [1..3 -> Int] /\ key[i][1] = x /\ x \in Int
    BY <2>1, <2>2
  <2> QED BY <2>3 DEF x
<1>4. Keyed(I, key)
  <2>1. key \in [1..N -> [1..3 -> Int]]
    BY <1>1, <1>3
  <2> HIDE DEF key
  <2>2. \E d \in Nat : key \in [1..N -> [1..d -> Int]]
    BY <2>1
  <2> QED BY <1>2, <2>2, Zenon DEF Keyed
<1>5. /\ c \in Nat /\ R \in [1..c -> I]
      /\ \A i \in I : \E n \in 1..c : R[n] = i
      /\ \A m, n \in 1..c : m < n => Before(key, R[m], R[n])
  <2>1. R = Ranking(I, key)
    BY DEF Ordered
  <2> HIDE DEF I, key, R
  <2> QED BY <1>2, <1>4, <2>1, RankingIs
<1>6. /\ \A i \in 1..N : ids[i] \in T
      /\ \A n \in 1..c : ids[R[n]] \in T /\ R[n] \in 1..N /\ R[n] \in I
  <2> HIDE DEF R, c, I
  <2> QED BY <1>1, <1>2, <1>5
<1>7. ASSUME NEW m \in 1..c, NEW n \in 1..c, m < n
      PROVE  CandidateScore(ids[R[m]]) >= CandidateScore(ids[R[n]])
  <2> DEFINE k == key[R[m]]
             l == key[R[n]]
  <2>1. Above(k, l) \/ k = l
    BY <1>5, <1>7 DEF Before
  <2>2. k \in [1..3 -> Int] /\ l \in [1..3 -> Int]
        /\ k[1] = CandidateScore(ids[R[m]]) /\ l[1] = CandidateScore(ids[R[n]])
        /\ k[1] \in Int /\ l[1] \in Int
    BY <1>3, <1>6
  <2> HIDE DEF k, l
  <2>3. ASSUME Above(k, l) PROVE k[1] >= l[1]
    <3>1. PICK i \in DOMAIN k : k[i] > l[i] /\ \A j \in 1..(i - 1) : k[j] = l[j]
      BY <2>3 DEF Above
    <3>2. i \in 1..3
      BY <2>2
    <3>3. i = 1 \/ 1 \in 1..(i - 1)
      BY <3>2
    <3> QED BY <2>2, <3>1, <3>3
  <2> QED BY <2>1, <2>2, <2>3
<1>8. R \in Seq(Nat) /\ Len(R) = c
  <2>1. R \in [1..c -> Nat]
    <3> HIDE DEF R, c, I
    <3> QED BY <1>2, <1>5
  <2> HIDE DEF R, c
  <2> QED BY <1>5, <2>1
<1>9. PICK g \in [0..c -> Seq(T)] :
          /\ g[0] = <<>> /\ \A n \in 1..c : g[n] = Take(g[n - 1], ids[R[n]])
          /\ Select(ids) = g[c]
  <2>1. /\ c \in Nat /\ Ordered(ids) \in Seq(Nat) /\ Len(Ordered(ids)) = c
        /\ \A n \in 1..c : ids[Ordered(ids)[n]] \in DOMAIN Traits
    BY <1>5, <1>6, <1>8
  <2> HIDE DEF c
  <2> QED BY <2>1, SelectIs
<1> HIDE DEF R, key, c, I
<1>10. BestOf(g[c], Seen(c))
  <2> DEFINE K == {n \in Nat : n <= c => BestOf(g[n], Seen(n))}
  <2>1. 0 \in K
    <3>1. Seen(0) = {} /\ <<>> \in Seq(T) /\ Len(<<>>) = 0 /\ Limit \in Nat
      BY LimitAssumption
    <3>2. Range(<<>>) = {}
      BY DEF Range
    <3>3. BestOf(<<>>, {})
      BY <3>1, <3>2 DEF BestOf
    <3> QED BY <1>9, <3>1, <3>3
  <2>2. ASSUME NEW n \in Nat, n \in K PROVE n + 1 \in K
    <3>1. SUFFICES ASSUME n + 1 <= c PROVE BestOf(g[n + 1], Seen(n + 1))
      OBVIOUS
    <3> DEFINE S == Seen(n)
               s == g[n]
               id == ids[R[n + 1]]
    <3>2. n + 1 \in 1..c /\ (n + 1) - 1 = n /\ n <= c /\ \A m \in 1..n : m \in 1..c /\ m < n + 1
      BY <1>5, <3>1
    <3>3. BestOf(s, S)
      BY <2>2, <3>2
    <3>4. id \in DOMAIN Traits /\ \A x \in S : CandidateScore(x) >= CandidateScore(id)
      BY <1>6, <1>7, <3>2
    <3>5. Seen(n + 1) = S \cup {id}
      <4>1. \A m \in 1..(n + 1) : m \in 1..n \/ m = n + 1
        OBVIOUS
      <4>2. n + 1 \in 1..(n + 1) /\ \A m \in 1..n : m \in 1..(n + 1)
        OBVIOUS
      <4> QED BY <4>1, <4>2
    <3>6. g[n + 1] = Take(s, id)
      BY <1>9, <3>2
    <3> HIDE DEF S, s, id, Seen
    <3>7. BestOf(Take(s, id), S \cup {id})
      BY <3>3, <3>4, TakeIsBest
    <3> QED BY <3>5, <3>6, <3>7
  <2> HIDE DEF K, Seen
  <2>3. Nat \subseteq K
    BY <2>1, <2>2, SetInduction
  <2>4. c \in K /\ c <= c
    BY <1>5, <2>3
  <2> QED BY <2>4 DEF K
<1>11. Seen(c) = Range(ids) \ Range(Priority)
  <2>1. Range(ids) = {ids[i] : i \in 1..N}
    BY <1>1 DEF Range
  <2>2. ASSUME NEW m \in 1..c PROVE ids[R[m]] \in Range(ids) \ Range(Priority)
    <3>1. R[m] \in 1..N /\ ids[R[m]] \notin Range(Priority)
      BY <1>6 DEF I
    <3> QED BY <2>1, <3>1
  <2>3. ASSUME NEW i \in 1..N, ids[i] \notin Range(Priority) PROVE ids[i] \in Seen(c)
    <3>1. i \in I
      BY <1>1, <2>3 DEF I
    <3>2. PICK n \in 1..c : R[n] = i
      BY <1>5, <3>1
    <3> QED BY <3>2
  <2> QED BY <2>1, <2>2, <2>3
<1>12. Range(ids) \in SUBSET T /\ IsFiniteSet(Range(ids))
  <2> DEFINE D == 1..N
             S == {ids[i] : i \in D}
  <2>1. Range(ids) = S
    BY <1>1 DEF Range
  <2>2. IsFiniteSet(D)
    BY <1>1, FS_Interval
  <2>3. IsFiniteSet(S)
    <3> HIDE DEF D
    <3> QED BY <2>2, ImageIs
  <2> HIDE DEF S
  <2>4. S \in SUBSET T
    BY <1>6 DEF S
  <2> QED BY <2>1, <2>3, <2>4
<1>13. BestOf(Select(ids), Range(ids) \ Range(Priority))
  BY <1>9, <1>10, <1>11
<1> QED BY <1>12, <1>13, BestAreCandidates

-----------------------------------------------------------------------------
(* The papers and the service.                                             *)
Whole == [audit |-> audits, whole |-> TRUE]
Untouched == \/ stage \in {"discover", "benchmark"}
             \/ stage = "write" /\ page = 1

Timely ==
    /\ stage # "returned" => audits > 0
    /\ stamp <= clock /\ (audits > 0 => stamp >= 1 /\ found[audits].stamp = stamp)
    /\ \A a \in Ident : a <= audits => 1 <= found[a].stamp /\ found[a].stamp <= stamp
    /\ stage \in {"discover", "benchmark"} => page = 1
    /\ stage = "discover" => found[audits].ids = {}

Placed ==
    \A p \in Paths :
        /\ papers[p].audit <= audits
        /\ papers[p].audit = 0 => ~papers[p].whole
        /\ p[1] = "json" /\ papers[p].audit # 0 => found[papers[p].audit].stamp = p[2]

NotYet ==
    /\ Untouched => \A p \in Paths : papers[p].audit < audits
    /\ stage = "fill" /\ page = 1 => \A p \in Paths : p[1] # "json" => papers[p].audit < audits

SoFar == stage \in {"write", "fill"} =>
    \A i \in 1..5 : i < page => papers[Order(stamp)[i]] = Whole

Settled ==
    /\ stage \in {"write", "fill"} /\ ~Untouched => settled = Nothing
    /\ settled # Nothing => settled = Content(Newest)

Waiting == cached = Nothing /\ expected # Nothing =>
    /\ expected = settled
    /\ \A r \in Readers : reader[r].state = "reading" => reader[r].path = Newest

Known == cached # Nothing =>
    /\ expected # Nothing => cached = expected
    /\ cached = {} \/ \E a \in Ident : a <= audits /\ cached = found[a].ids

Told == told \subseteq (IF cached = Nothing THEN {} ELSE {Offer(cached)})

PaperInv == Timely /\ Placed /\ NotYet /\ SoFar /\ PapersInOrder
ServiceInv == Settled /\ Waiting /\ Known /\ Told
AInv == TypeOK /\ PaperInv /\ ServiceInv

-----------------------------------------------------------------------------
(* The five papers of an audit are five files, and the report comes first. *)
LEMMA OrderFacts ==
  ASSUME NEW s \in Stamps
  PROVE  /\ Order(s)[1] = <<"json", s>>
         /\ \A i \in 1..5 : Order(s)[i] \in Paths
         /\ \A i \in 1..5 : Order(s)[i][1] = "json" => i = 1
         /\ \A i, j \in 1..5 : Order(s)[i] = Order(s)[j] => i = j
<1>1. Order(s) = <<<<"json", s>>, <<"markdown", s>>, <<"priority_models", 0>>,
                   <<"discovered_models", 0>>, <<"selection_notes", 0>>>>
  BY DEF Order
<1>2. \A i \in 1..5 : i \in {1, 2, 3, 4, 5}
  OBVIOUS
<1>3. \A i \in 1..5 : Order(s)[i] \in Paths
  BY <1>1, <1>2 DEF Paths, Docs
<1>4. \A i \in 1..5 : Order(s)[i][1] = "json" => i = 1
  BY <1>1, <1>2
<1>5. \A i, j \in 1..5 : Order(s)[i] = Order(s)[j] => i = j
  <2>1. /\ Order(s)[1][1] = "json" /\ Order(s)[2][1] = "markdown"
        /\ Order(s)[3][1] = "priority_models" /\ Order(s)[4][1] = "discovered_models"
        /\ Order(s)[5][1] = "selection_notes"
    BY <1>1
  <2> QED BY <1>2, <2>1
<1> QED BY <1>1, <1>3, <1>4, <1>5

(* A report path is its name and its stamp.                                *)
LEMMA JsonPaths ==
  /\ \A p \in Paths : p[1] = "json" => p[2] \in Stamps /\ p = <<"json", p[2]>>
  /\ \A s \in Stamps : <<"json", s>> \in Paths
BY DEF Paths, Docs

LEMMA ReadPaths ==
  ASSUME NEW p \in {"json"} \X (0..MaxStamp), p[2] # 0
  PROVE  p \in Paths
BY DEF Paths, Stamps

(* The newest of the reports is the one with the greatest stamp.           *)
LEMMA NewestIs ==
  ASSUME NEW s \in Stamps, papers[<<"json", s>>].audit # 0,
         \A q \in Paths : q[1] = "json" /\ papers[q].audit # 0 => q[2] <= s
  PROVE  Newest = <<"json", s>>
<1> DEFINE top == <<"json", s>>
<1>1. top \in Written /\ \A q \in Written : q[2] <= top[2]
  BY JsonPaths DEF Written
<1>2. \A p \in Written : p[2] \in Nat /\ p = <<"json", p[2]>>
  BY JsonPaths DEF Written, Stamps
<1>3. ASSUME NEW p \in Written, \A q \in Written : q[2] <= p[2] PROVE p = top
  <2>1. p[2] = top[2]
    BY <1>1, <1>2, <1>3
  <2> QED BY <1>2, <2>1
<1>4. Written # {}
  BY <1>1
<1>5. Newest = CHOOSE p \in Written : \A q \in Written : q[2] <= p[2]
  BY <1>4 DEF Newest
<1> HIDE DEF top
<1>6. (CHOOSE p \in Written : \A q \in Written : q[2] <= p[2]) = top
  BY <1>1, <1>3
<1> QED BY <1>5, <1>6 DEF top

(* Nobody writes a report, or learns anything about one that is written:   *)
(* the newest is still the same and says the same.                         *)
LEMMA SameReports ==
  ASSUME TypeOK, TypeOK', Placed,
         \A p \in Paths : p[1] = "json" => papers'[p] = papers[p],
         \A p \in Paths : p[1] = "json" /\ papers[p].audit # 0 =>
             found'[papers[p].audit].ids = found[papers[p].audit].ids
  PROVE  /\ Newest' = Newest
         /\ \A p \in {"json"} \X (0..MaxStamp) : Content(p)' = Content(p)
<1>1. Written' = Written
  BY DEF Written
<1>2. Newest' = Newest
  BY <1>1 DEF Newest
<1>3. ASSUME NEW p \in {"json"} \X (0..MaxStamp) PROVE Content(p)' = Content(p)
  <2>1. CASE p[2] = 0
    BY <2>1 DEF Content
  <2>2. CASE p[2] # 0
    <3>1. p \in Paths /\ p[1] = "json"
      BY <2>2, ReadPaths
    <3> QED BY <3>1 DEF Content, Placed
  <2> QED BY <2>1, <2>2
<1> QED BY <1>2, <1>3

(* There is a newest report if there is any: the distances to the last     *)
(* second have a least element.                                            *)
LEMMA NewestType == Newest \in {"json"} \X (0..MaxStamp)
<1>1. CASE Written = {}
  BY <1>1, BoundsAssumption DEF Newest
<1>2. CASE Written # {}
  <2> DEFINE Ages == {MaxStamp - p[2] : p \in Written}
  <2>1. \A p \in Written : p[2] \in Stamps /\ p = <<"json", p[2]>>
    BY JsonPaths DEF Written
  <2>2. Ages \subseteq Nat /\ Ages # {}
    BY <1>2, <2>1, BoundsAssumption DEF Stamps
  <2> HIDE DEF Ages
  <2>3. PICK n \in Ages : \A m \in Ages : n <= m
    BY <2>2, LeastNatural
  <2>5. PICK p \in Written : n = MaxStamp - p[2]
    BY DEF Ages
  <2>6. \A q \in Written : q[2] <= p[2]
    <3> SUFFICES ASSUME NEW q \in Written PROVE q[2] <= p[2]
      OBVIOUS
    <3>1. MaxStamp - q[2] \in Ages
      BY DEF Ages
    <3>2. MaxStamp - p[2] <= MaxStamp - q[2]
      BY <2>3, <2>5, <3>1
    <3> QED BY <2>1, <3>2, BoundsAssumption DEF Stamps
  <2>7. Newest \in Written
    <3>1. Newest = CHOOSE x \in Written : \A q \in Written : q[2] <= x[2]
      BY <1>2 DEF Newest
    <3> QED BY <2>6, <3>1
  <2>8. Newest[2] \in Stamps /\ Newest = <<"json", Newest[2]>>
    BY <2>1, <2>7
  <2> HIDE DEF Newest
  <2>9. <<"json", Newest[2]>> \in {"json"} \X (0..MaxStamp)
    BY <2>8, BoundsAssumption DEF Stamps
  <2> QED BY <2>8, <2>9
<1> QED BY <1>1, <1>2

-----------------------------------------------------------------------------
(* The steps of the service change nothing of the papers.                  *)
LEMMA PapersStay ==
  ASSUME AInv, UNCHANGED <<clock, auditVars>> PROVE PaperInv'
<1>1. UNCHANGED <<clock, audits, stage, stamp, candidates, report, page, found, papers>>
  BY DEF auditVars
<1> QED BY <1>1 DEF AInv, PaperInv, Timely, Placed, NotYet, Untouched, SoFar, Whole, PapersInOrder

LEMMA ReportsStay ==
  ASSUME UNCHANGED <<papers, found>>
  PROVE  Newest' = Newest /\ \A p : Content(p)' = Content(p)
BY DEF Newest, Written, Content

LEMMA ServeInv == ASSUME AInv, Serve PROVE AInv'
<1> USE DEF AInv
<1>1. TypeOK'
  <2>1. AtRest \in [state : {"idle", "reading"}, path : {"json"} \X (0..MaxStamp)]
    BY BoundsAssumption DEF AtRest
  <2>2. lives' \in 0..MaxLives
    BY BoundsAssumption DEF TypeOK, Serve
  <2>3. /\ UNCHANGED <<clock, audits, stage, stamp, page, found, papers, settled>>
        /\ cached' = Nothing /\ expected' = settled
        /\ reader' = [r \in Readers |-> AtRest]
    BY DEF Serve, auditVars
  <2> HIDE DEF AInv
  <2> QED BY <2>1, <2>2, <2>3 DEF AInv, TypeOK
<1>2. PaperInv'
  BY PapersStay DEF Serve
<1>3. Settled'
  <2>1. Newest' = Newest /\ Content(Newest)' = Content(Newest)
    BY ReportsStay DEF Serve, auditVars
  <2> QED BY <2>1 DEF ServiceInv, Settled, Serve, auditVars, Untouched
<1>4. Waiting'
  BY DEF Waiting, Serve, AtRest
<1>5. Known' /\ Told'
  BY DEF Known, Told, Serve
<1> QED BY <1>1, <1>2, <1>3, <1>4, <1>5 DEF ServiceInv

LEMMA LookInv == ASSUME AInv, NEW r \in Readers, Look(r) PROVE AInv'
<1> USE DEF AInv
<1>1. TypeOK'
  BY NewestType DEF TypeOK, Look, auditVars
<1>2. PaperInv'
  BY PapersStay DEF Look
<1>3. Newest' = Newest /\ Content(Newest)' = Content(Newest)
  BY ReportsStay DEF Look, auditVars
<1>4. Settled'
  BY <1>3 DEF ServiceInv, Settled, Look, auditVars, Untouched
<1>5. Waiting'
  BY <1>3 DEF ServiceInv, Waiting, Look, TypeOK
<1>6. Known' /\ Told'
  BY DEF ServiceInv, Known, Told, Look, auditVars
<1> QED BY <1>1, <1>2, <1>4, <1>5, <1>6 DEF ServiceInv

(* What a request reads is nothing, or what one audit was told.            *)
LEMMA ContentType ==
  ASSUME TypeOK, PaperInv, NEW p \in {"json"} \X (0..MaxStamp)
  PROVE  /\ Content(p) \in SUBSET Models
         /\ Content(p) = {} \/ \E a \in Ident : a <= audits /\ Content(p) = found[a].ids
<1>1. CASE p[2] # 0 /\ papers[p].whole
  <2>1. p \in Paths
    BY <1>1, ReadPaths
  <2>2. papers[p].audit \in Ident /\ papers[p].audit <= audits
    BY <1>1, <2>1, BoundsAssumption DEF PaperInv, Placed, TypeOK, Ident
  <2> QED BY <1>1, <2>2 DEF Content, TypeOK
<1>2. CASE ~(p[2] # 0 /\ papers[p].whole)
  BY <1>2 DEF Content
<1> QED BY <1>1, <1>2

LEMMA ReadInv == ASSUME AInv, NEW r \in Readers, Read(r) PROVE AInv'
<1> USE DEF AInv
<1>0. /\ reader[r].path \in {"json"} \X (0..MaxStamp)
      /\ UNCHANGED <<clock, audits, stage, stamp, page, found, papers, lives, settled, expected>>
      /\ reader' = [reader EXCEPT ![r] = AtRest]
  BY DEF TypeOK, Read, auditVars
<1>1. CASE cached # Nothing
  <2>1. UNCHANGED <<cached, told>>
    BY <1>1 DEF Read
  <2>2. TypeOK'
    BY <1>0, <2>1, BoundsAssumption DEF TypeOK, AtRest
  <2>3. Newest' = Newest /\ Content(Newest)' = Content(Newest)
    BY <1>0, ReportsStay
  <2>4. Settled'
    BY <1>0, <2>3 DEF ServiceInv, Settled, Untouched
  <2>5. Waiting' /\ Known' /\ Told'
    BY <1>0, <1>1, <2>1 DEF ServiceInv, Waiting, Known, Told
  <2> QED BY <2>2, <2>4, <2>5, PapersStay DEF ServiceInv, Read
<1>2. CASE cached = Nothing
  <2> DEFINE new == Content(reader[r].path)
  <2>1. cached' = new /\ told' = {Offer(cached')}
    BY <1>2 DEF Read
  <2>2. /\ new \in SUBSET Models
        /\ new = {} \/ \E a \in Ident : a <= audits /\ new = found[a].ids
    BY <1>0, ContentType
  <2>3. expected # Nothing => new = expected
    BY <1>2 DEF ServiceInv, Waiting, Settled, Read
  <2> HIDE DEF new
  <2>4. new # Nothing
    BY <2>2, NothingAssumption
  <2>5. TypeOK'
    BY <1>0, <2>1, <2>2, BoundsAssumption DEF TypeOK, AtRest
  <2>6. Newest' = Newest /\ Content(Newest)' = Content(Newest)
    BY <1>0, ReportsStay
  <2>7. Settled'
    BY <1>0, <2>6 DEF ServiceInv, Settled, Untouched
  <2>8. Waiting' /\ Known' /\ Told'
    BY <1>0, <2>1, <2>2, <2>3, <2>4 DEF Waiting, Known, Told
  <2> QED BY <2>5, <2>7, <2>8, PapersStay DEF ServiceInv, Read
<1> QED BY <1>1, <1>2

LEMMA HitInv == ASSUME AInv, NEW r \in Readers, Hit(r) PROVE AInv'
<1> USE DEF AInv
<1>0. UNCHANGED <<clock, audits, stage, stamp, page, found, papers, lives, settled, expected,
                  cached, reader>> /\ cached # Nothing /\ told' = told \cup {Offer(cached)}
  BY DEF Hit, auditVars
<1>1. TypeOK'
  BY <1>0 DEF TypeOK
<1>2. Newest' = Newest /\ Content(Newest)' = Content(Newest)
  BY <1>0, ReportsStay
<1>3. Settled'
  BY <1>0, <1>2 DEF ServiceInv, Settled, Untouched
<1>4. Waiting' /\ Known' /\ Told'
  BY <1>0 DEF ServiceInv, Waiting, Known, Told
<1> QED BY <1>1, <1>3, <1>4, PapersStay DEF ServiceInv, Hit

LEMMA TickInv == ASSUME AInv, Tick PROVE AInv'
<1> USE DEF AInv
<1>0. /\ UNCHANGED <<audits, stage, stamp, page, found, papers, lives, settled, expected,
                     cached, reader, told>>
      /\ clock' = clock + 1 /\ clock < MaxStamp
  BY DEF Tick, auditVars, serviceVars
<1>1. TypeOK'
  BY <1>0, BoundsAssumption DEF TypeOK, Stamps
<1>2. Timely'
  BY <1>0, BoundsAssumption DEF TypeOK, Stamps, PaperInv, Timely
<1>3. Placed' /\ NotYet' /\ SoFar' /\ PapersInOrder'
  BY <1>0 DEF PaperInv, Placed, NotYet, Untouched, SoFar, Whole, PapersInOrder
<1>4. Newest' = Newest /\ Content(Newest)' = Content(Newest)
  BY <1>0, ReportsStay
<1>5. Settled' /\ Waiting' /\ Known' /\ Told'
  BY <1>0, <1>4 DEF ServiceInv, Settled, Untouched, Waiting, Known, Told
<1> QED BY <1>1, <1>2, <1>3, <1>5 DEF PaperInv, ServiceInv

-----------------------------------------------------------------------------
(* The steps of an audit that write nothing.                               *)
LEMMA ServiceStays ==
  ASSUME AInv, TypeOK', UNCHANGED <<serviceVars, settled, expected>>,
         audits <= audits',
         \A p \in Paths : p[1] = "json" => papers'[p] = papers[p],
         \A p \in Paths : papers[p].audit # 0 =>
             found'[papers[p].audit].ids = found[papers[p].audit].ids,
         \A a \in Ident : a <= audits =>
             found'[a].ids = found[a].ids \/ found[a].ids = {},
         stage' \in {"write", "fill"} /\ ~Untouched' =>
             stage \in {"write", "fill"} /\ ~Untouched
  PROVE  ServiceInv'
<1> USE DEF AInv
<1>0. UNCHANGED <<lives, cached, reader, told, settled, expected>>
  BY DEF serviceVars
<1>1. /\ Newest' = Newest
      /\ \A p \in {"json"} \X (0..MaxStamp) : Content(p)' = Content(p)
  BY <1>0, SameReports DEF PaperInv
<1>2. Content(Newest)' = Content(Newest)
  <2> DEFINE top == Newest
  <2>1. Content(top) = Content(Newest) /\ top \in {"json"} \X (0..MaxStamp)
    BY NewestType
  <2>2. Content(Newest)' = IF Newest[2] # 0 /\ papers'[Newest].whole
                           THEN found'[papers'[Newest].audit].ids ELSE {}
    BY <1>1 DEF Content
  <2>3. CASE Newest[2] # 0 /\ papers[Newest].whole
    <3>1. Newest \in Paths /\ papers[Newest].audit # 0 /\ Newest[1] = "json"
      BY <2>3, NewestType, ReadPaths DEF PaperInv, Placed
    <3> QED BY <2>2, <2>3, <3>1 DEF Content
  <2>4. CASE Newest[2] # 0 /\ ~papers[Newest].whole
    <3>1. Newest \in Paths /\ Newest[1] = "json"
      BY <2>4, NewestType, ReadPaths
    <3> QED BY <2>2, <2>4, <3>1 DEF Content
  <2>5. CASE Newest[2] = 0
    BY <2>2, <2>5 DEF Content
  <2> QED BY <2>3, <2>4, <2>5
<1>3. Settled'
  BY <1>0, <1>1, <1>2 DEF ServiceInv, Settled
<1>4. Waiting' /\ Told'
  BY <1>0, <1>1 DEF ServiceInv, Waiting, Told
<1>5. Known'
  <2>1. audits \in Nat /\ audits' \in Nat
    BY BoundsAssumption DEF TypeOK
  <2>2. \A a \in Ident : a <= audits => a <= audits'
    BY <2>1 DEF Ident
  <2> QED BY <1>0, <2>2 DEF ServiceInv, Known
<1> QED BY <1>3, <1>4, <1>5 DEF ServiceInv

LEMMA StartInv == ASSUME AInv, Start PROVE AInv'
<1> USE DEF AInv
<1> DEFINE n == audits + 1
<1>0. /\ UNCHANGED <<clock, papers, serviceVars, settled, expected>>
      /\ audits' = n /\ n \in Ident /\ audits \in Nat /\ stamp' = clock /\ page' = 1
      /\ found' = [found EXCEPT ![n] = [stamp |-> clock, ids |-> {}]]
      /\ stage \in {"returned", "crashed"} /\ stage' \in {"discover", "write"}
  BY BoundsAssumption DEF TypeOK, Start, Ident
<1>1. clock \in Nat /\ clock >= 1 /\ clock <= MaxStamp /\ stamp \in Nat /\ stamp <= clock
  BY BoundsAssumption DEF TypeOK, Stamps, PaperInv, Timely
<1>2. TypeOK'
  BY <1>0, <1>1, BoundsAssumption DEF TypeOK, Stamps, Ident, serviceVars
<1>3. /\ found'[n] = [stamp |-> clock, ids |-> {}]
      /\ \A a \in Ident : a <= audits => found'[a] = found[a] /\ found[a].stamp \in Nat
  BY <1>0, BoundsAssumption DEF TypeOK
<1>4. Timely'
  <2>1. \A a \in Ident : a <= n => a <= audits \/ a = n
    BY <1>0 DEF Ident
  <2>2. \A a \in Ident : a <= audits => 1 <= found[a].stamp /\ found[a].stamp <= clock
    BY <1>1, <1>3 DEF PaperInv, Timely
  <2>3. \A a \in Ident : a <= n => 1 <= found'[a].stamp /\ found'[a].stamp <= clock
    BY <1>1, <1>3, <2>1, <2>2
  <2> QED BY <1>0, <1>1, <1>3, <2>3 DEF Timely
<1>5. \A p \in Paths : papers[p].audit \in Nat /\ papers[p].audit <= audits
  BY BoundsAssumption DEF TypeOK, PaperInv, Placed
<1>6. \A p \in Paths : papers[p].audit # 0 =>
          papers[p].audit \in Ident /\ found'[papers[p].audit] = found[papers[p].audit]
  <2> SUFFICES ASSUME NEW p \in Paths, papers[p].audit # 0
               PROVE  papers[p].audit \in Ident
                      /\ found'[papers[p].audit] = found[papers[p].audit]
    OBVIOUS
  <2>1. papers[p].audit \in Ident /\ papers[p].audit <= audits
    BY <1>0, <1>5, BoundsAssumption DEF Ident
  <2> QED BY <1>3, <2>1
<1> HIDE DEF n
<1>7. Placed'
  BY <1>0, <1>5, <1>6 DEF PaperInv, Placed, n
<1>8. NotYet'
  BY <1>0, <1>5 DEF NotYet, n
<1>9. SoFar'
  BY <1>0 DEF SoFar
<1>10. PapersInOrder'
  BY <1>0, <1>6 DEF PaperInv, PapersInOrder
<1>11. ServiceInv'
  <2>1. Untouched'
    BY <1>0 DEF Untouched
  <2>2. audits <= audits'
    BY <1>0 DEF n
  <2> QED BY <1>0, <1>2, <1>3, <1>6, <2>1, <2>2, ServiceStays
<1> QED BY <1>2, <1>4, <1>7, <1>8, <1>9, <1>10, <1>11 DEF PaperInv

(* The models an audit is told of are some that may be listed.             *)
LEMMA ListedModels == \A l \in Listings : Range(l) \subseteq Models
BY DEF Models

LEMMA DiscoverInv == ASSUME AInv, Discover PROVE AInv'
<1> USE DEF AInv
<1>0. /\ UNCHANGED <<clock, audits, stamp, page, papers, serviceVars, settled, expected>>
      /\ stage = "discover" /\ stage' \in {"benchmark", "write"}
      /\ audits \in Ident /\ found[audits].ids = {} /\ page = 1
  BY BoundsAssumption DEF Discover, Listed, Unlisted, TypeOK, PaperInv, Timely, Ident
<1>1. \/ found' = found
      \/ \E ids \in SUBSET Models : found' = [found EXCEPT ![audits].ids = ids]
  BY ListedModels DEF Discover, Listed, Unlisted
<1>2. TypeOK'
  BY <1>0, <1>1 DEF TypeOK, serviceVars
<1>3. \A a \in Ident :
          /\ found'[a].stamp = found[a].stamp
          /\ a # audits => found'[a] = found[a]
  BY <1>1 DEF TypeOK
<1>4. \A p \in Paths : papers[p].audit \in Nat /\ papers[p].audit < audits
  BY <1>0, BoundsAssumption DEF TypeOK, PaperInv, NotYet, Untouched
<1>5. \A p \in Paths : papers[p].audit # 0 =>
          papers[p].audit \in Ident /\ found'[papers[p].audit] = found[papers[p].audit]
  <2> SUFFICES ASSUME NEW p \in Paths, papers[p].audit # 0
               PROVE  papers[p].audit \in Ident
                      /\ found'[papers[p].audit] = found[papers[p].audit]
    OBVIOUS
  <2>1. papers[p].audit \in Ident /\ papers[p].audit # audits
    BY <1>0, <1>4, BoundsAssumption DEF Ident
  <2> QED BY <1>3, <2>1
<1>6. Timely'
  BY <1>0, <1>3 DEF PaperInv, Timely
<1>7. Placed'
  BY <1>0, <1>5 DEF PaperInv, Placed
<1>8. NotYet' /\ SoFar' /\ PapersInOrder'
  BY <1>0, <1>4, <1>5 DEF PaperInv, NotYet, SoFar, PapersInOrder
<1>9. ServiceInv'
  <2>1. Untouched' /\ audits <= audits'
    BY <1>0 DEF Untouched, Ident
  <2>2. \A a \in Ident : a <= audits => found'[a].ids = found[a].ids \/ found[a].ids = {}
    <3> SUFFICES ASSUME NEW a \in Ident PROVE found'[a].ids = found[a].ids \/ found[a].ids = {}
      OBVIOUS
    <3>1. CASE a = audits
      BY <1>0, <3>1
    <3>2. CASE a # audits
      BY <1>3, <3>2
    <3> QED BY <3>1, <3>2
  <2> QED BY <1>0, <1>2, <1>5, <2>1, <2>2, ServiceStays
<1> QED BY <1>2, <1>6, <1>7, <1>8, <1>9 DEF PaperInv

LEMMA BenchmarkOrCrashInv == ASSUME AInv, Benchmark \/ Crash PROVE AInv'
<1> USE DEF AInv
<1>0. /\ UNCHANGED <<clock, audits, stamp, page, found, papers, serviceVars, settled, expected>>
      /\ \/ stage = "benchmark" /\ stage' = "write"
         \/ stage # "returned" /\ stage' = "crashed"
  BY DEF Benchmark, Crash
<1>1. TypeOK'
  BY <1>0 DEF TypeOK, serviceVars
<1>2. Timely' /\ Placed'
  BY <1>0 DEF PaperInv, Timely, Placed
<1>3. NotYet'
  BY <1>0 DEF PaperInv, NotYet, Untouched, Timely
<1>4. SoFar'
  BY <1>0 DEF PaperInv, SoFar, Timely, TypeOK
<1>5. PapersInOrder'
  BY <1>0 DEF PaperInv, PapersInOrder
<1>6. ServiceInv'
  <2>1. stage' \in {"write", "fill"} => Untouched'
    BY <1>0 DEF Untouched, PaperInv, Timely
  <2>2. audits <= audits'
    BY <1>0, BoundsAssumption DEF TypeOK
  <2> QED BY <1>0, <1>1, <2>1, <2>2, ServiceStays
<1> QED BY <1>1, <1>2, <1>3, <1>4, <1>5, <1>6 DEF PaperInv

-----------------------------------------------------------------------------
(* A paper is opened or filled: it is the audit's own, the ones before it  *)
(* stay whole, and a paper that tells of an earlier audit is not bereft of *)
(* its report but by a later one.                                          *)
LEMMA PaperWritten ==
  ASSUME AInv, stage \in {"write", "fill"}, NEW w \in BOOLEAN,
         papers' = [papers EXCEPT ![Order(stamp)[page]] = [audit |-> audits, whole |-> w]],
         UNCHANGED <<clock, audits, stamp, found>>
  PROVE  /\ papers' \in [Paths -> [audit : 0..MaxAudits, whole : BOOLEAN]]
         /\ Placed'
         /\ \A i \in 1..5 : i < page => papers'[Order(stamp)[i]] = Whole
         /\ papers'[Order(stamp)[page]] = [audit |-> audits, whole |-> w]
         /\ page # 1 => \A p \in Paths : p[1] = "json" => papers'[p] = papers[p]
         /\ page = 1 => \A p \in Paths : p[1] # "json" => papers'[p] = papers[p]
                                                        /\ papers'[p].audit < audits
         /\ \A p \in Paths : papers'[p].audit # 0 /\ p[1] # "json" =>
                LET a == papers'[p].audit
                    json == papers'[<<"json", found[a].stamp>>]
                IN  json.audit > a \/ json = [audit |-> a, whole |-> TRUE]
<1> USE DEF AInv
<1> DEFINE path == Order(stamp)[page]
           new == [audit |-> audits, whole |-> w]
<1>1. /\ stamp \in Stamps /\ page \in 1..5 /\ audits \in Ident /\ audits # 0
      /\ found[audits].stamp = stamp
      /\ papers \in [Paths -> [audit : 0..MaxAudits, whole : BOOLEAN]]
  BY BoundsAssumption DEF TypeOK, PaperInv, Timely, Stamps, Ident
<1>2. path \in Paths /\ (path[1] = "json" <=> page = 1) /\ (page = 1 => path = <<"json", stamp>>)
  BY <1>1, OrderFacts
<1>3. \A i \in 1..5 : i < page => Order(stamp)[i] \in Paths /\ Order(stamp)[i] # path
  BY <1>1, OrderFacts
<1> HIDE DEF path
<1>4. new \in [audit : 0..MaxAudits, whole : BOOLEAN]
  BY <1>1 DEF Ident
<1>5. papers' = [papers EXCEPT ![path] = new]
  BY DEF path
<1>6. papers'[path] = new /\ \A p \in Paths : p # path => papers'[p] = papers[p]
  BY <1>1, <1>2, <1>5
<1>7. papers' \in [Paths -> [audit : 0..MaxAudits, whole : BOOLEAN]]
  BY <1>1, <1>2, <1>4, <1>5
<1>8. Placed'
  <2> SUFFICES ASSUME NEW p \in Paths
               PROVE  /\ papers'[p].audit <= audits
                      /\ papers'[p].audit = 0 => ~papers'[p].whole
                      /\ p[1] = "json" /\ papers'[p].audit # 0
                           => found[papers'[p].audit].stamp = p[2]
    BY DEF Placed
  <2>1. CASE p = path
    BY <1>1, <1>2, <1>6, <2>1 DEF Ident
  <2>2. CASE p # path
    BY <1>6, <2>2 DEF PaperInv, Placed
  <2> QED BY <2>1, <2>2
<1>9. \A i \in 1..5 : i < page => papers'[Order(stamp)[i]] = Whole
  BY <1>3, <1>6 DEF PaperInv, SoFar
<1>10. page # 1 => \A p \in Paths : p[1] = "json" => papers'[p] = papers[p]
  BY <1>2, <1>6
<1>11. page = 1 => \A p \in Paths : p[1] # "json" => papers'[p] = papers[p]
                                                   /\ papers'[p].audit < audits
  BY <1>2, <1>6 DEF PaperInv, NotYet, Untouched
<1>12. ASSUME NEW p \in Paths, papers'[p].audit # 0, p[1] # "json"
       PROVE  LET a == papers'[p].audit
                  json == papers'[<<"json", found[a].stamp>>]
              IN  json.audit > a \/ json = [audit |-> a, whole |-> TRUE]
  <2> DEFINE a == papers'[p].audit
             top == <<"json", found[a].stamp>>
  <2>1. /\ a \in Ident /\ (a # audits => p # path)
        /\ papers[p].audit # 0 => papers[p].audit \in Ident
    BY <1>1, <1>2, <1>6, <1>7, <1>12, BoundsAssumption DEF Ident
  <2>2. CASE p # path
    <3>1. papers'[p] = papers[p] /\ a = papers[p].audit /\ a <= audits
      BY <1>6, <2>2 DEF PaperInv, Placed
    <3>2. top \in Paths
      <4>1. found[a].stamp \in Stamps
        BY <1>1, <2>1, <3>1, BoundsAssumption DEF TypeOK, PaperInv, Timely, Stamps
      <4> QED BY <4>1, JsonPaths
    <3>3. papers[top].audit > a \/ papers[top] = [audit |-> a, whole |-> TRUE]
      BY <1>12, <3>1 DEF PaperInv, PapersInOrder
    <3>4. CASE top = path
      <4>1. page = 1
        BY <1>2, <3>4
      <4>2. a < audits
        BY <1>11, <1>12, <4>1
      <4>3. papers'[top].audit = audits
        BY <1>6, <3>4
      <4>4. a \in Nat /\ audits \in Nat
        BY <1>1, <2>1, BoundsAssumption DEF Ident
      <4> QED BY <4>2, <4>3, <4>4
    <3>5. CASE top # path
      BY <1>6, <3>2, <3>3, <3>5
    <3> QED BY <3>4, <3>5
  <2>3. CASE p = path
    <3>1. a = audits /\ page # 1
      BY <1>2, <1>6, <1>12, <2>3
    <3>2. top = Order(stamp)[1] /\ 1 < page
      BY <1>1, <3>1, OrderFacts
    <3>3. papers'[Order(stamp)[1]] = Whole
      BY <1>9, <3>2
    <3>4. papers'[top] = Whole
      BY <3>2, <3>3
    <3>5. papers'[top] = [audit |-> a, whole |-> TRUE]
      BY <3>1, <3>4 DEF Whole
    <3> QED BY <3>5
  <2> QED BY <2>2, <2>3
<1> QED BY <1>6, <1>7, <1>8, <1>9, <1>10, <1>11, <1>12 DEF path

LEMMA OpenInv == ASSUME AInv, Open PROVE AInv'
<1> USE DEF AInv
<1>0. /\ stage = "write" /\ stage' = "fill"
      /\ papers' = [papers EXCEPT ![Order(stamp)[page]] = [audit |-> audits, whole |-> FALSE]]
      /\ UNCHANGED <<clock, audits, stamp, page, found, lives, cached, reader, told>>
  BY DEF Open, serviceVars
<1>1. /\ stamp \in Stamps /\ page \in 1..5 /\ Order(stamp)[page] \in Paths
      /\ Order(stamp)[page][1] = "json" <=> page = 1
  BY <1>0, OrderFacts DEF TypeOK, PaperInv, Timely, Stamps
<1>2. /\ page = 1 => settled' = Nothing /\ expected' = IF cached = Nothing THEN Nothing ELSE expected
      /\ page # 1 => UNCHANGED <<settled, expected>>
  BY <1>1 DEF Open
<1>3. /\ papers' \in [Paths -> [audit : 0..MaxAudits, whole : BOOLEAN]]
      /\ Placed'
      /\ \A i \in 1..5 : i < page => papers'[Order(stamp)[i]] = Whole
      /\ page # 1 => \A p \in Paths : p[1] = "json" => papers'[p] = papers[p]
      /\ page = 1 => \A p \in Paths : p[1] # "json" => papers'[p].audit < audits
      /\ \A p \in Paths : papers'[p].audit # 0 /\ p[1] # "json" =>
             LET a == papers'[p].audit
                 json == papers'[<<"json", found[a].stamp>>]
             IN  json.audit > a \/ json = [audit |-> a, whole |-> TRUE]
  BY <1>0, PaperWritten
<1>4. TypeOK'
  BY <1>0, <1>2, <1>3 DEF TypeOK
<1>5. Timely' /\ ~Untouched'
  BY <1>0 DEF PaperInv, Timely, Untouched
<1>6. NotYet' /\ SoFar' /\ PapersInOrder'
  <2>1. NotYet'
    BY <1>0, <1>3, <1>5 DEF NotYet
  <2>2. SoFar'
    BY <1>0, <1>3 DEF SoFar, Whole
  <2>3. PapersInOrder'
    BY <1>0, <1>3 DEF PapersInOrder
  <2> QED BY <2>1, <2>2, <2>3
<1>7. ServiceInv'
  <2>1. CASE page = 1
    <3>1. Settled' /\ Waiting'
      BY <1>0, <1>2, <2>1 DEF Settled, Waiting
    <3>2. Known' /\ Told'
      BY <1>0, <1>2, <2>1 DEF ServiceInv, Known, Told
    <3> QED BY <1>0, <3>1, <3>2 DEF ServiceInv
  <2>2. CASE page # 1
    <3>1. audits <= audits' /\ ~Untouched
      BY <1>0, <2>2, BoundsAssumption DEF TypeOK, Untouched
    <3>2. \A p \in Paths : p[1] = "json" => papers'[p] = papers[p]
      BY <1>3, <2>2
    <3>3. UNCHANGED <<serviceVars, settled, expected>> /\ found' = found
      BY <1>0, <1>2, <2>2 DEF serviceVars
    <3> QED BY <1>0, <1>4, <3>1, <3>2, <3>3, ServiceStays
  <2> QED BY <2>1, <2>2
<1> QED BY <1>3, <1>4, <1>5, <1>6, <1>7 DEF PaperInv

LEMMA FillInv == ASSUME AInv, Fill PROVE AInv'
<1> USE DEF AInv
<1>0. /\ stage = "fill" /\ stage' = IF page = 5 THEN "returned" ELSE "write"
      /\ page' = IF page = 5 THEN 1 ELSE page + 1
      /\ settled' = IF page = 5 THEN found[audits].ids ELSE settled
      /\ papers' = [papers EXCEPT ![Order(stamp)[page]] = [audit |-> audits, whole |-> TRUE]]
      /\ UNCHANGED <<clock, audits, stamp, found, lives, cached, reader, told, expected>>
  BY DEF Fill, serviceVars
<1>1. /\ stamp \in Stamps /\ page \in 1..5 /\ audits \in Ident /\ found[audits].stamp = stamp
      /\ found[audits].ids \in SUBSET Models
  BY <1>0, BoundsAssumption DEF TypeOK, PaperInv, Timely, Stamps, Ident
<1>2. settled = Nothing
  BY <1>0 DEF ServiceInv, Settled, Untouched
<1>3. /\ papers' \in [Paths -> [audit : 0..MaxAudits, whole : BOOLEAN]]
      /\ Placed'
      /\ \A i \in 1..5 : i < page => papers'[Order(stamp)[i]] = Whole
      /\ papers'[Order(stamp)[page]] = Whole
      /\ page # 1 => \A p \in Paths : p[1] = "json" => papers'[p] = papers[p]
      /\ \A p \in Paths : papers'[p].audit # 0 /\ p[1] # "json" =>
             LET a == papers'[p].audit
                 json == papers'[<<"json", found[a].stamp>>]
             IN  json.audit > a \/ json = [audit |-> a, whole |-> TRUE]
  BY <1>0, PaperWritten DEF Whole
<1>4. TypeOK'
  BY <1>0, <1>1, <1>3 DEF TypeOK
<1>5. Timely' /\ ~Untouched' /\ stage' # "fill"
  BY <1>0, <1>1 DEF PaperInv, Timely, Untouched
<1>6. \A i \in 1..5 : i <= page => papers'[Order(stamp)[i]] = Whole
  <2> SUFFICES ASSUME NEW i \in 1..5, i <= page PROVE papers'[Order(stamp)[i]] = Whole
    OBVIOUS
  <2>1. i < page \/ i = page
    BY <1>1
  <2> QED BY <1>3, <2>1
<1>7. NotYet' /\ SoFar' /\ PapersInOrder'
  <2>1. NotYet'
    BY <1>5 DEF NotYet
  <2>2. SoFar'
    BY <1>0, <1>1, <1>6 DEF SoFar, Whole
  <2>3. stage' = "returned" =>
            \A i \in 1..5 : papers'[Order(stamp)[i]] = [audit |-> audits, whole |-> TRUE]
    BY <1>0, <1>6 DEF Whole
  <2> QED BY <1>0, <1>3, <2>1, <2>2, <2>3 DEF PapersInOrder
<1>8. Waiting' /\ Known' /\ Told'
  BY <1>0, <1>2 DEF ServiceInv, Waiting, Known, Told
<1>9. Settled'
  <2>1. CASE page # 5
    BY <1>0, <1>2, <2>1 DEF Settled
  <2>2. CASE page = 5
    <3> DEFINE top == <<"json", stamp>>
    <3>1. /\ \A p \in Paths : p[1] = "json" => papers'[p] = papers[p]
          /\ papers'[top] = Whole /\ top \in Paths
      BY <1>1, <1>3, <2>2, OrderFacts, JsonPaths
    <3>2. Newest = top
      <4>1. papers[top].audit # 0
        BY <1>1, <3>1 DEF Whole, Ident
      <4>2. ASSUME NEW q \in Paths, q[1] = "json", papers[q].audit # 0 PROVE q[2] <= stamp
        <5>1. papers[q].audit \in Ident /\ papers[q].audit <= audits
          BY <4>2, BoundsAssumption DEF TypeOK, PaperInv, Placed, Ident
        <5> QED BY <4>2, <5>1 DEF PaperInv, Placed, Timely
      <4> QED BY <1>1, <4>1, <4>2, NewestIs
    <3>3. Newest' = Newest
      BY <1>0, <1>4, <3>1, SameReports DEF PaperInv
    <3>4. Content(Newest)' = found[audits].ids
      <4>1. Content(Newest)' = IF top[2] # 0 /\ papers'[top].whole
                               THEN found'[papers'[top].audit].ids ELSE {}
        BY <3>2, <3>3 DEF Content
      <4> QED BY <1>0, <1>1, <3>1, <4>1 DEF Whole, Stamps
    <3> QED BY <1>0, <2>2, <3>4 DEF Settled
  <2> QED BY <2>1, <2>2
<1> QED BY <1>3, <1>4, <1>5, <1>7, <1>8, <1>9 DEF PaperInv, ServiceInv

-----------------------------------------------------------------------------
LEMMA Invariance == Spec => []AInv
<1>1. Init => AInv
  <2> SUFFICES ASSUME Init PROVE AInv
    OBVIOUS
  <2>1. TypeOK
    BY BoundsAssumption DEF Init, TypeOK, Stamps, Absent, AtRest
  <2>2. Timely
    BY BoundsAssumption DEF Init, Timely, Ident
  <2>3. Placed /\ NotYet /\ SoFar /\ PapersInOrder
    BY DEF Init, Placed, NotYet, Untouched, SoFar, PapersInOrder, Absent
  <2>4. Settled
    <3>1. Written = {}
      BY DEF Init, Written, Absent
    <3>2. Content(Newest) = {}
      BY <3>1 DEF Newest, Content
    <3> QED BY <3>2 DEF Init, Settled
  <2>5. Waiting /\ Known /\ Told
    BY DEF Init, Waiting, Known, Told
  <2> QED BY <2>1, <2>2, <2>3, <2>4, <2>5 DEF AInv, PaperInv, ServiceInv
<1>2. AInv /\ [Next]_vars => AInv'
  <2> SUFFICES ASSUME AInv, [Next]_vars PROVE AInv'
    OBVIOUS
  <2>1. CASE UNCHANGED vars
    <3>1. UNCHANGED <<clock, audits, stage, stamp, page, found, papers, lives, settled, expected,
                      cached, reader, told>> /\ UNCHANGED <<clock, auditVars>>
      BY <2>1 DEF vars, auditVars, serviceVars
    <3>2. TypeOK'
      BY <3>1 DEF AInv, TypeOK
    <3>3. Newest' = Newest /\ Content(Newest)' = Content(Newest)
      BY <3>1, ReportsStay
    <3>4. Settled' /\ Waiting' /\ Known' /\ Told'
      BY <3>1, <3>3 DEF AInv, ServiceInv, Settled, Untouched, Waiting, Known, Told
    <3> QED BY <3>1, <3>2, <3>4, PapersStay DEF AInv, ServiceInv
  <2> QED BY <2>1, TickInv, StartInv, DiscoverInv, BenchmarkOrCrashInv, OpenInv, FillInv,
             ServeInv, LookInv, ReadInv, HitInv DEF Next, AuditStep
<1> QED BY <1>1, <1>2, PTL DEF Spec

-----------------------------------------------------------------------------
(* What an audit has concluded, until it writes.                           *)
Concluded ==
    /\ stage = "benchmark" =>
           CandidatesOf(candidates, found[audits].ids) /\ Different(candidates)
    /\ Judged => AvoidedOf(report) /\ PerfectOf(report)

LEMMA TestedIs ==
  ASSUME Different(candidates), NEW shown, NEW results, \A tasks \in results : MayResult(tasks),
         shown \in [DOMAIN (Priority \o candidates) -> results]
  PROVE  LET tested == Priority \o candidates
             ms == [i \in DOMAIN tested |-> Summary(tested[i], shown[i])]
         IN  AvoidedOf(Report(ms)) /\ PerfectOf(Report(ms))
<1> DEFINE p == Len(Priority)
           c == Len(candidates)
           tested == Priority \o candidates
           N == p + c
           ms == [i \in 1..N |-> Summary(tested[i], shown[i])]
<1>1. /\ Priority \in Seq(DOMAIN Traits) /\ candidates \in Seq(DOMAIN Traits)
      /\ \A i, j \in 1..p : Priority[i] = Priority[j] => i = j
      /\ \A i, j \in 1..c : candidates[i] = candidates[j] => i = j
      /\ \A i \in 1..c : candidates[i] \notin Range(Priority)
  BY PriorityAssumption DEF Different
<1>2. p \in Nat /\ c \in Nat /\ N \in Nat /\ DOMAIN Priority = 1..p
  BY <1>1
<1>3. /\ tested \in Seq(DOMAIN Traits) /\ Len(tested) = N
      /\ \A i \in 1..N : tested[i] = IF i <= p THEN Priority[i] ELSE candidates[i - p]
  BY <1>1
<1>4. DOMAIN tested = 1..N /\ tested \in [1..N -> DOMAIN Traits]
  <2> HIDE DEF tested, N
  <2> QED BY <1>2, <1>3
<1>5. \A i \in 1..p : Priority[i] \in Range(Priority)
  BY <1>2 DEF Range
<1> HIDE DEF tested, p, c
<1>6. ASSUME NEW i \in 1..N, NEW j \in 1..N, tested[i] = tested[j] PROVE i = j
  <2>1. CASE i <= p /\ j <= p
    <3>1. i \in 1..p /\ j \in 1..p
      BY <1>2, <2>1
    <3> QED BY <1>1, <1>3, <1>6, <2>1, <3>1
  <2>2. CASE ~(i <= p) /\ ~(j <= p)
    <3>1. i - p \in 1..c /\ j - p \in 1..c
      BY <1>2, <2>2
    <3>2. i - p = j - p
      BY <1>1, <1>3, <1>6, <2>2, <3>1
    <3> QED BY <1>2, <3>2
  <2>3. CASE i <= p /\ ~(j <= p)
    <3>1. i \in 1..p /\ j - p \in 1..c
      BY <1>2, <2>3
    <3> QED BY <1>1, <1>3, <1>5, <1>6, <2>3, <3>1
  <2>4. CASE ~(i <= p) /\ j <= p
    <3>1. i - p \in 1..c /\ j \in 1..p
      BY <1>2, <2>4
    <3> QED BY <1>1, <1>3, <1>5, <1>6, <2>4, <3>1
  <2> QED BY <2>1, <2>2, <2>3, <2>4
<1>7. \A i \in 1..N : MayResult(shown[i])
  BY <1>4 DEF tested
<1>8. Benchmarked(ms, N, tested, shown)
  BY <1>2, <1>4, <1>6, <1>7 DEF Benchmarked
<1> HIDE DEF N
<1>9. AvoidedOf(Report(ms)) /\ PerfectOf(Report(ms))
  <2> HIDE DEF ms
  <2> QED BY <1>8, ReportIs
<1>10. ms = [i \in DOMAIN tested |-> Summary(tested[i], shown[i])]
  BY <1>4
<1> HIDE DEF ms
<1> QED BY <1>9, <1>10 DEF tested

LEMMA ConcludedStep ==
  ASSUME AInv, Concluded, [Next]_vars PROVE Concluded'
<1>1. CASE UNCHANGED <<audits, stage, candidates, report, found>>
  BY <1>1 DEF Concluded, Judged
<1>2. CASE Tick \/ Serve \/ (\E r \in Readers : Look(r) \/ Read(r) \/ Hit(r)) \/ UNCHANGED vars
  <2>1. UNCHANGED auditVars
    BY <1>2 DEF Tick, Serve, Look, Read, Hit, vars
  <2> QED BY <1>1, <2>1 DEF auditVars
<1>3. CASE Start \/ Fill
  <2>1. stage' # "benchmark" /\ report' = report
    BY <1>3 DEF Start, Fill
  <2> QED BY <2>1 DEF Concluded, Judged
<1>4. CASE Open \/ Crash
  <2>1. stage' # "benchmark" /\ report' = Nothing
    BY <1>4 DEF Open, Crash
  <2> QED BY <2>1 DEF Concluded, Judged
<1>5. CASE Discover
  <2>1. UNCHANGED <<audits, report>> /\ stage = "discover"
    BY <1>5 DEF Discover
  <2>2. CASE Unlisted
    BY <2>1, <2>2 DEF Unlisted, Concluded, Judged
  <2>3. CASE \E ids \in Listings : Listed(ids)
    <3>1. PICK ids \in Listings : Listed(ids)
      BY <2>3
    <3>2. audits \in Ident /\ found \in [Ident -> [stamp : 0..MaxStamp, ids : SUBSET Models]]
      BY <2>1, BoundsAssumption DEF AInv, PaperInv, Timely, TypeOK, Ident
    <3>3. candidates' = Select(ids) /\ found'[audits].ids = Range(ids)
      BY <3>1, <3>2 DEF Listed
    <3>4. CandidatesOf(Select(ids), Range(ids)) /\ Different(Select(ids))
      BY ListingsAssumption, CandidatesAre
    <3>5. CandidatesOf(candidates', found'[audits'].ids) /\ Different(candidates')
      BY <2>1, <3>3, <3>4
    <3> QED BY <2>1, <3>5 DEF Concluded, Judged
  <2> QED BY <1>5, <2>2, <2>3 DEF Discover
<1>6. CASE Benchmark
  <2> DEFINE tested == Priority \o candidates
  <2>1. PICK shown \in [DOMAIN tested -> Showings[audits]] :
            report' = Report([i \in DOMAIN tested |-> Summary(tested[i], shown[i])])
    BY <1>6 DEF Benchmark
  <2>2. stage = "benchmark" /\ stage' # "benchmark"
    BY <1>6 DEF Benchmark
  <2>3. Different(candidates)
    BY <2>2 DEF Concluded
  <2>4. \A tasks \in Showings[audits] : MayResult(tasks)
    <3>1. audits \in 1..MaxAudits
      BY <2>2, BoundsAssumption DEF AInv, PaperInv, Timely, TypeOK
    <3> QED BY <3>1, ShowingsAssumption
  <2>5. AvoidedOf(report') /\ PerfectOf(report')
    BY <2>1, <2>3, <2>4, TestedIs
  <2> QED BY <2>2, <2>5 DEF Concluded
<1> QED BY <1>2, <1>3, <1>4, <1>5, <1>6 DEF Next, AuditStep

LEMMA Conclusions == Spec => []Concluded
<1>1. Init => Concluded
  BY DEF Init, Concluded, Judged
<1>2. AInv /\ Concluded /\ [Next]_vars => Concluded'
  BY ConcludedStep
<1> QED BY <1>1, <1>2, Invariance, PTL DEF Spec

(* The candidates of an audit are the best of what was listed, whatever it *)
(* is: of as many families as there is room for the best member each, and  *)
(* nobody left out scores higher but for a member of its own family.       *)
THEOREM TheCandidatesAreBest == Spec => []CandidatesAreBest
<1>1. Concluded => CandidatesAreBest
  BY Zenon DEF Concluded, CandidatesAreBest, CandidatesOf, Eligible, FamiliesIn
<1> QED BY <1>1, Conclusions, PTL

(* However the models have done, one that is to be avoided is recommended  *)
(* as the default, for coding or for reasoning only for want of better, as *)
(* the fast one only if nobody passed the simple task faster, and as an    *)
(* additional one only behind everybody perfect but for the priority list; *)
(* what is to be tested again is not to be avoided, and what passed        *)
(* nothing is one of both and not recommended.                             *)
THEOREM AvoidedOnlyWithReason == Spec => []AvoidedWithReason
<1>1. Concluded => AvoidedWithReason
  BY Zenon DEF Concluded, AvoidedWithReason, AvoidedOf, PerfectIn, Perfect, SimpleLatency
<1> QED BY <1>1, Conclusions, PTL

(* Of the models that passed everything the default answered fastest,      *)
(* whatever the speeds of all the others are.                              *)
THEOREM ThePerfectAndFast == Spec => []PerfectAndFast
<1>1. Concluded => PerfectAndFast
  BY Zenon DEF Concluded, PerfectAndFast, PerfectOf, PerfectIn, Perfect
<1> QED BY <1>1, Conclusions, PTL

(* No paper is without the report it belongs to, and an audit that has     *)
(* returned has left all five, whatever earlier ones left behind.          *)
THEOREM PapersComeInOrder == Spec => []PapersInOrder
BY Invariance, PTL DEF AInv, PaperInv

(* The service knows of the newest audit that had returned when it was     *)
(* started, if nothing was written before it looked, and it never offers   *)
(* an avoided model or withholds a curated one.                            *)
THEOREM TheOfferIsTheNewest == Spec => []OfferIsNewest
<1>1. AInv => OfferIsNewest
  <2> SUFFICES ASSUME AInv PROVE OfferIsNewest
    OBVIOUS
  <2>1. \A offer \in told : offer \cap Avoided = {} /\ Registry \subseteq offer
    BY CuratedAssumption DEF AInv, ServiceInv, Told, Offer
  <2> QED BY <2>1 DEF AInv, ServiceInv, Known, OfferIsNewest
<1> QED BY <1>1, Invariance, PTL

(* Who asks later is offered the same, whatever was written meanwhile.     *)
THEOREM TheOfferIsSteady == Spec => []OfferIsSteady
<1>1. AInv => OfferIsSteady
  <2> SUFFICES ASSUME AInv PROVE Cardinality(told) <= 1
    BY DEF OfferIsSteady
  <2>1. told = {} \/ \E o : told = {o}
    BY DEF AInv, ServiceInv, Told
  <2>2. Cardinality(told) = 0 \/ Cardinality(told) = 1
    BY <2>1, FS_EmptySet, FS_Singleton
  <2> QED BY <2>2
<1> QED BY <1>1, Invariance, PTL
=============================================================================
