--------------------------- MODULE ReadyQueueProofs ---------------------------
(***************************************************************************)
(* The proof that the ring of threads implements ReadyQueue, for any       *)
(* number of threads.                                                      *)
(***************************************************************************)
EXTENDS SchedulerProofs, SequenceTheorems, WellFoundedInduction

-----------------------------------------------------------------------------
(* Induction on the natural numbers stated with sets: the provers can      *)
(* instantiate a set where they cannot instantiate a predicate.            *)

\* Every non-empty set of natural numbers has a least element.
LEMMA LeastNumber ==
  ASSUME NEW T \in SUBSET Nat, T # {}
  PROVE  \E m \in T : \A k \in T : m =< k
<1> DEFINE R == OpToRel(<, Nat)
<1>1. IsWellFoundedOn(R, Nat)
  BY NatLessThanWellFounded
<1>2. PICK m \in T : \A k \in T : ~ (<<k, m>> \in R)
  <2> HIDE DEF R
  <2> QED
    BY <1>1, WFMin
<1>3. \A k \in T : <<k, m>> \in R <=> k < m
  BY DEF OpToRel
<1> HIDE DEF R
<1>4. \A k \in T : m \in Nat /\ k \in Nat /\ ~ (k < m)
  BY <1>2, <1>3
<1> QED
  BY <1>4

\* A set that holds 0 and the successor of each of its numbers holds them all.
LEMMA SetInduction ==
  ASSUME NEW S, 0 \in S, \A n \in Nat : n \in S => n + 1 \in S
  PROVE  \A n \in Nat : n \in S
<1> SUFFICES ASSUME NEW x \in Nat, x \notin S PROVE FALSE
  OBVIOUS
<1> DEFINE T == Nat \ S
<1>1. PICK m \in T : \A k \in T : m =< k
  <2>1. T \in SUBSET Nat /\ T # {}
    OBVIOUS
  <2> HIDE DEF T
  <2> QED
    BY <2>1, LeastNumber
<1>2. m # 0 /\ m \in Nat
  OBVIOUS
<1>3. m - 1 \in Nat /\ m - 1 \notin T
  BY <1>1, <1>2
<1> QED
  BY <1>2, <1>3

-----------------------------------------------------------------------------
(* The walk along the ring.                                                *)

\* A function on 1..n that starts at c and follows nx.
IsWalk(w, n, c, nx) ==
  w = [i \in 1..n |-> IF i = 1 THEN c ELSE nx[w[i - 1]]]

\* There is a walk of every length.
LEMMA WalkExists ==
  ASSUME NEW c, NEW nx, NEW n \in Nat
  PROVE  \E w : IsWalk(w, n, c, nx)
<1> DEFINE P == {m \in Nat : \E w : IsWalk(w, m, c, nx)}
<1>1. 0 \in P
  <2> DEFINE w0 == [i \in 1..0 |-> c]
  <2>1. w0 = [i \in 1..0 |-> IF i = 1 THEN c ELSE nx[w0[i - 1]]]
    OBVIOUS
  <2> HIDE DEF w0
  <2>2. IsWalk(w0, 0, c, nx)
    BY <2>1 DEF IsWalk
  <2> QED
    BY <2>2
<1>2. ASSUME NEW m \in Nat, m \in P PROVE m + 1 \in P
  <2>1. PICK w : IsWalk(w, m, c, nx)
    BY <1>2
  <2> DEFINE v == [i \in 1..(m + 1) |-> IF i = 1 THEN c ELSE nx[w[i - 1]]]
  <2>2. ASSUME NEW i \in 1..m PROVE v[i] = w[i]
    BY <2>1 DEF IsWalk
  <2>3. ASSUME NEW i \in 1..(m + 1), i # 1 PROVE v[i - 1] = w[i - 1]
    <3>1. i - 1 \in 1..m
      BY <2>3
    <3> QED
      BY <3>1, <2>2
  <2>4. v = [i \in 1..(m + 1) |-> IF i = 1 THEN c ELSE nx[v[i - 1]]]
    <3>1. \A i \in 1..(m + 1) : (IF i = 1 THEN c ELSE nx[w[i - 1]]) = (IF i = 1 THEN c ELSE nx[v[i - 1]])
      BY <2>3, Zenon
    <3> QED
      BY <3>1, Zenon
  <2> HIDE DEF v
  <2>5. IsWalk(v, m + 1, c, nx)
    BY <2>4, Zenon DEF IsWalk
  <2> QED
    BY <2>5
<1> HIDE DEF P
<1>3. n \in P
  BY <1>1, <1>2, SetInduction
<1> QED
  BY <1>3 DEF P

\* Two walks of the same length are equal.
LEMMA WalkUnique ==
  ASSUME NEW c, NEW nx, NEW n \in Nat, NEW v, NEW w,
         IsWalk(v, n, c, nx), IsWalk(w, n, c, nx)
  PROVE  v = w
<1> DEFINE P == {m \in Nat : m \in 1..n => v[m] = w[m]}
<1>1. 0 \in P
  OBVIOUS
<1>2. ASSUME NEW m \in Nat, m \in P PROVE m + 1 \in P
  <2> SUFFICES ASSUME m + 1 \in 1..n PROVE v[m + 1] = w[m + 1]
    OBVIOUS
  <2>1. CASE m = 0
    BY <2>1 DEF IsWalk
  <2>2. CASE m # 0
    <3>1. m \in 1..n /\ m + 1 # 1 /\ (m + 1) - 1 = m
      BY <2>2
    <3>2. v[m] = w[m]
      BY <1>2, <3>1
    <3>3. v[m + 1] = nx[v[m]] /\ w[m + 1] = nx[w[m]]
      BY <3>1 DEF IsWalk
    <3> QED
      BY <3>2, <3>3
  <2> QED
    BY <2>1, <2>2
<1> HIDE DEF P
<1>3. \A m \in Nat : m \in P
  BY <1>1, <1>2, SetInduction
<1>4. \A m \in 1..n : v[m] = w[m]
  BY <1>3 DEF P
<1> QED
  BY <1>4 DEF IsWalk

\* RingWalk is the one walk as long as the ring.
LEMMA RingWalkIs ==
  ASSUME NEW S, NEW c, NEW nx, IsFiniteSet(S)
  PROVE  /\ IsWalk(RingWalk(S, c, nx), Cardinality(S), c, nx)
         /\ \A w : IsWalk(w, Cardinality(S), c, nx) => w = RingWalk(S, c, nx)
<1>1. Cardinality(S) \in Nat
  BY FS_CardinalityType
<1>2. RingWalk(S, c, nx) = CHOOSE w : IsWalk(w, Cardinality(S), c, nx)
  BY Zenon DEF RingWalk, IsWalk
<1>3. \E w : IsWalk(w, Cardinality(S), c, nx)
  BY <1>1, WalkExists
<1>4. IsWalk(RingWalk(S, c, nx), Cardinality(S), c, nx)
  BY <1>2, <1>3, Zenon
<1> QED
  BY <1>1, <1>4, WalkUnique

\* The walk of a ring follows nx inside the ring.
LEMMA WalkSteps ==
  ASSUME NEW S \in SUBSET Threads, NEW c \in S, NEW nx, \A t \in S : nx[t] \in S
  PROVE  LET N == Cardinality(S)
             w == RingWalk(S, c, nx)
         IN  /\ N \in Nat \ {0}
             /\ w \in [1..N -> S]
             /\ w[1] = c
             /\ \A i \in 1..N : i < N => w[i + 1] = nx[w[i]]
<1> DEFINE N == Cardinality(S)
           w == RingWalk(S, c, nx)
<1>1. IsFiniteSet(S) /\ N \in Nat
  BY FiniteAssumption, FS_Subset, FS_CardinalityType
<1>2. N # 0
  BY <1>1, FS_EmptySet
<1>3. IsWalk(w, N, c, nx)
  BY <1>1, RingWalkIs
<1> HIDE DEF N, w
<1>4. w[1] = c
  BY <1>1, <1>2, <1>3 DEF IsWalk
<1>5. ASSUME NEW i \in 1..N, i < N PROVE w[i + 1] = nx[w[i]]
  <2>1. i + 1 \in 1..N /\ i + 1 # 1 /\ (i + 1) - 1 = i
    BY <1>1, <1>5
  <2> QED
    BY <1>3, <2>1 DEF IsWalk
<1>6. \A i \in 1..N : w[i] \in S
  <2> DEFINE P == {m \in Nat : m \in 1..N => w[m] \in S}
  <2>1. 0 \in P
    OBVIOUS
  <2>2. ASSUME NEW m \in Nat, m \in P PROVE m + 1 \in P
    <3> SUFFICES ASSUME m + 1 \in 1..N PROVE w[m + 1] \in S
      OBVIOUS
    <3>1. CASE m = 0
      BY <3>1, <1>4
    <3>2. CASE m # 0
      <4>1. m \in 1..N /\ m < N
        BY <1>1, <3>2
      <4>2. w[m] \in S /\ w[m + 1] = nx[w[m]]
        BY <2>2, <4>1, <1>5
      <4> QED
        BY <4>2
    <3> QED
      BY <3>1, <3>2
  <2> HIDE DEF P
  <2>3. \A m \in Nat : m \in P
    BY <2>1, <2>2, SetInduction
  <2> QED
    BY <2>3, <1>1 DEF P
<1>7. w \in [1..N -> S]
  BY <1>3, <1>6 DEF IsWalk
<1> QED
  BY <1>1, <1>2, <1>4, <1>5, <1>7 DEF N, w

\* In a single ring the walk meets no thread twice, misses none, and its last
\* thread leads back to the first.
LEMMA WalkIsRing ==
  ASSUME NEW S \in SUBSET Threads, NEW c \in S, NEW nx, NEW pv,
         Linked(S, nx, pv), Connected(S, nx)
  PROVE  LET N == Cardinality(S)
             w == RingWalk(S, c, nx)
         IN  /\ \A i, j \in 1..N : w[i] = w[j] => i = j
             /\ S = {w[i] : i \in 1..N}
             /\ nx[w[N]] = c
<1> DEFINE N == Cardinality(S)
           w == RingWalk(S, c, nx)
<1>0. \A t \in S : nx[t] \in S
  BY DEF Linked
<1>1. /\ N \in Nat \ {0} /\ w \in [1..N -> S] /\ w[1] = c
      /\ \A i \in 1..N : i < N => w[i + 1] = nx[w[i]]
  BY <1>0, WalkSteps
<1>2. IsFiniteSet(S)
  BY FiniteAssumption, FS_Subset
<1>3. N = Cardinality(S)
  OBVIOUS
<1> HIDE DEF N, w
<1>4. ASSUME NEW j \in 2..N PROVE w[j] # c
  <2> SUFFICES ASSUME w[j] = c PROVE FALSE
    OBVIOUS
  <2> DEFINE T == {w[k] : k \in 1..(j - 1)}
             f == [k \in 1..(j - 1) |-> w[k]]
  <2>0. 1 \in 1..(j - 1) /\ \A k \in 1..(j - 1) : k \in 1..N /\ k < N
    BY <1>1, <1>4
  <2>1. T \in SUBSET S /\ T # {}
    BY <1>1, <2>0
  <2>2. ASSUME NEW k \in 1..(j - 1) PROVE nx[w[k]] \in T
    <3>1. w[k + 1] = nx[w[k]]
      BY <1>1, <2>0
    <3>2. CASE k = j - 1
      <4>1. nx[w[k]] = w[1]
        BY <3>1, <3>2, <1>1, <1>4
      <4> QED
        BY <4>1, <2>0
    <3>3. CASE k # j - 1
      <4>1. k + 1 \in 1..(j - 1)
        BY <3>3
      <4> QED
        BY <4>1, <3>1
    <3> QED
      BY <3>2, <3>3
  <2>3. T = S
    <3>1. \A t \in T : nx[t] \in T
      BY <2>2
    <3> HIDE DEF T
    <3> QED
      BY <3>1, <2>1 DEF Connected
  <2>4. f \in Surjection(1..(j - 1), S)
    <3>1. f \in [1..(j - 1) -> S]
      BY <1>1, <2>0
    <3>2. \A t \in S : \E k \in 1..(j - 1) : f[k] = t
      BY <2>3
    <3> HIDE DEF f
    <3> QED
      BY <3>1, <3>2 DEF Surjection
  <2>5. IsFiniteSet(1..(j - 1)) /\ Cardinality(1..(j - 1)) = j - 1
    BY FS_Interval
  <2> HIDE DEF f, T
  <2>6. Cardinality(S) =< j - 1
    BY <2>4, <2>5, FS_Surjection
  <2> QED
    BY <2>6, <1>1, <1>3
<1>5. ASSUME NEW i \in 1..N, NEW j \in 1..N, i < j, w[i] = w[j] PROVE FALSE
  <2> DEFINE T == {m \in Nat : m \in 1..N /\ \E k \in 1..N : m < k /\ w[m] = w[k]}
  <2>1. i \in T
    BY <1>5, <1>1
  <2>2. PICK m \in T : \A k \in T : m =< k
    <3>1. T \in SUBSET Nat /\ T # {}
      BY <2>1
    <3> HIDE DEF T
    <3> QED
      BY <3>1, LeastNumber
  <2>3. PICK k \in 1..N : m < k /\ w[m] = w[k]
    OBVIOUS
  <2>4. m # 1
    <3>1. m = 1 => k \in 2..N /\ w[k] = c
      BY <2>3, <1>1
    <3> QED
      BY <3>1, <1>4
  <2>5. /\ m - 1 \in 1..N /\ k - 1 \in 1..N /\ m - 1 < k - 1
        /\ m - 1 < N /\ k - 1 < N /\ (m - 1) + 1 = m /\ (k - 1) + 1 = k
    BY <2>3, <2>4, <1>1
  <2>6. w[m] = nx[w[m - 1]] /\ w[k] = nx[w[k - 1]]
    BY <2>5, <1>1
  <2>7. w[m - 1] = pv[w[m]] /\ w[k - 1] = pv[w[k]]
    BY <2>5, <2>6, <1>1 DEF Linked
  <2>8. m - 1 \in T
    BY <2>3, <2>5, <2>7, <1>1
  <2> QED
    BY <2>2, <2>5, <2>8
<1>6. \A i, j \in 1..N : w[i] = w[j] => i = j
  <2> SUFFICES ASSUME NEW i \in 1..N, NEW j \in 1..N, w[i] = w[j] PROVE i = j
    OBVIOUS
  <2>1. ~(i < j) /\ ~(j < i)
    BY <1>5
  <2> QED
    BY <2>1, <1>1
<1>7. w \in Surjection(1..N, S)
  <2>1. w \in Injection(1..N, S)
    BY <1>1, <1>6 DEF Injection, IsInjective
  <2>2. IsFiniteSet(1..N) /\ Cardinality(1..N) = N
    BY <1>1, FS_Interval
  <2> QED
    BY <2>1, <2>2, <1>2, <1>3, FS_Injection
<1>8. S = {w[i] : i \in 1..N}
  BY <1>7, <1>1 DEF Surjection
<1>9. nx[w[N]] = c
  <2>1. N \in 1..N /\ w[N] \in S /\ nx[w[N]] \in S /\ pv[nx[w[N]]] = w[N]
    BY <1>1 DEF Linked
  <2>2. PICK k \in 1..N : nx[w[N]] = w[k]
    BY <2>1, <1>8
  <2>3. CASE k = 1
    BY <2>2, <2>3, <1>1
  <2>4. CASE k # 1
    <3>1. k - 1 \in 1..N /\ k - 1 < N /\ (k - 1) + 1 = k
      BY <2>4, <1>1
    <3>2. w[k] = nx[w[k - 1]] /\ w[k - 1] \in S
      BY <3>1, <1>1
    <3>3. w[k - 1] = w[N]
      BY <3>2, <2>1, <2>2 DEF Linked
    <3> QED
      BY <3>1, <3>3, <2>1, <1>6
  <2> QED
    BY <2>3, <2>4
<1> QED
  BY <1>6, <1>8, <1>9 DEF N, w

\* Append and Tail as functions.
LEMMA AppendIs ==
  ASSUME NEW T, NEW s \in Seq(T), NEW x \in T
  PROVE  /\ Append(s, x) \in [1..(Len(s) + 1) -> T]
         /\ Append(s, x)[Len(s) + 1] = x
         /\ \A i \in 1..Len(s) : Append(s, x)[i] = s[i]
<1>1. Append(s, x) \in Seq(T) /\ Len(Append(s, x)) = Len(s) + 1
  BY AppendProperties
<1>2. Append(s, x) \in [1..(Len(s) + 1) -> T]
  BY <1>1, LenProperties
<1> QED
  BY <1>2, AppendProperties

LEMMA TailIs ==
  ASSUME NEW T, NEW s \in Seq(T), s # <<>>
  PROVE  /\ Tail(s) \in Seq(T) /\ Len(Tail(s)) = Len(s) - 1
         /\ Tail(s) \in [1..(Len(s) - 1) -> T]
         /\ \A i \in 1..(Len(s) - 1) : Tail(s)[i] = s[i + 1]
<1>1. Tail(s) \in Seq(T) /\ Len(Tail(s)) = Len(s) - 1
  BY HeadTailProperties
<1>2. Tail(s) \in [1..(Len(s) - 1) -> T]
  BY <1>1, LenProperties
<1>3. \A i \in 1..(Len(s) - 1) : Tail(s)[i] = s[i + 1]
  BY <1>1, HeadTailProperties
<1> QED
  BY <1>1, <1>2, <1>3

\* A walk as a sequence.
LEMMA WalkSeq ==
  ASSUME NEW S \in SUBSET Threads, NEW c \in S, NEW nx, \A t \in S : nx[t] \in S
  PROVE  LET w == RingWalk(S, c, nx)
         IN  w \in Seq(Threads) /\ Len(w) = Cardinality(S) /\ w # <<>> /\ Head(w) = c
<1> DEFINE N == Cardinality(S)
           w == RingWalk(S, c, nx)
<1>1. N \in Nat \ {0} /\ w \in [1..N -> S] /\ w[1] = c
  BY WalkSteps
<1> HIDE DEF w
<1>2. w \in Seq(Threads)
  BY <1>1
<1>3. Len(w) = N
  BY <1>1, <1>2
<1> QED
  BY <1>1, <1>2, <1>3 DEF w

\* Append under a name of its own: the provers rewrite Append where it stands,
\* and the lemma would not be found.
Joined(w, t) == Append(w, t)

\* Linking t just before c appends it to the walk from c.
LEMMA WalkAppend ==
  ASSUME NEW S \in SUBSET Threads, NEW c \in S, NEW t \in Threads \ S,
         NEW nx, NEW pv, NEW nx2,
         Linked(S, nx, pv), Connected(S, nx),
         nx2[pv[c]] = t, \A u \in S \ {pv[c]} : nx2[u] = nx[u]
  PROVE  RingWalk(S \cup {t}, c, nx2) = Joined(RingWalk(S, c, nx), t)
<1> DEFINE N == Cardinality(S)
           w == RingWalk(S, c, nx)
           v == Append(w, t)
<1>0. \A u \in S : nx[u] \in S
  BY DEF Linked
<1>1. /\ N \in Nat \ {0} /\ w \in [1..N -> S] /\ w[1] = c
      /\ \A i \in 1..N : i < N => w[i + 1] = nx[w[i]]
  BY <1>0, WalkSteps
<1>2. /\ \A i, j \in 1..N : w[i] = w[j] => i = j
      /\ nx[w[N]] = c
  BY WalkIsRing
<1>3. IsFiniteSet(S \cup {t}) /\ Cardinality(S \cup {t}) = N + 1
  BY FiniteAssumption, FS_Subset, FS_AddElement
<1>4. w \in Seq(Threads) /\ Len(w) = N
  BY <1>0, WalkSeq
<1>5. /\ pv[c] \in S /\ nx2[pv[c]] = t
      /\ \A u \in S \ {pv[c]} : nx2[u] = nx[u]
  BY DEF Linked
<1> HIDE DEF w, N
<1>6. /\ v \in [1..(N + 1) -> Threads] /\ v[N + 1] = t
      /\ \A i \in 1..N : v[i] = w[i]
  BY <1>4, AppendIs
<1> HIDE DEF v
<1>7. w[N] = pv[c]
  BY <1>1, <1>2 DEF Linked
<1>8. ASSUME NEW i \in 1..(N + 1), i # 1 PROVE v[i] = nx2[v[i - 1]]
  <2>1. i - 1 \in 1..N /\ v[i - 1] = w[i - 1] /\ w[i - 1] \in S
    BY <1>1, <1>6, <1>8
  <2>2. CASE i = N + 1
    <3>1. i - 1 = N
      BY <1>1, <2>2
    <3> QED
      BY <2>1, <2>2, <3>1, <1>5, <1>6, <1>7
  <2>3. CASE i # N + 1
    <3>1. i \in 1..N /\ i - 1 < N /\ (i - 1) + 1 = i /\ N \in 1..N /\ i - 1 # N
      BY <2>3, <1>1, <1>8
    <3>2. w[i] = nx[w[i - 1]] /\ w[i - 1] # pv[c]
      BY <3>1, <2>1, <1>1, <1>2, <1>7
    <3>3. nx2[w[i - 1]] = nx[w[i - 1]]
      BY <3>2, <2>1, <1>5
    <3> QED
      BY <3>1, <3>2, <3>3, <2>1, <1>6
  <2> QED
    BY <2>2, <2>3
<1>9. v[1] = c
  BY <1>1, <1>6
<1>10. IsWalk(v, N + 1, c, nx2)
  <2>1. v = [i \in 1..(N + 1) |-> v[i]]
    BY <1>6
  <2>2. \A i \in 1..(N + 1) : v[i] = IF i = 1 THEN c ELSE nx2[v[i - 1]]
    BY <1>8, <1>9
  <2> QED
    BY <2>1, <2>2 DEF IsWalk
<1>11. v = RingWalk(S \cup {t}, c, nx2)
  BY <1>3, <1>10, RingWalkIs
<1> QED
  BY <1>11 DEF v, w, Joined

\* The walk from the next thread is the walk from c with c moved to its end.
LEMMA WalkRotate ==
  ASSUME NEW S \in SUBSET Threads, NEW c \in S, NEW nx, NEW pv,
         Linked(S, nx, pv), Connected(S, nx)
  PROVE  RingWalk(S, nx[c], nx) = Append(Tail(RingWalk(S, c, nx)), c)
<1> DEFINE N == Cardinality(S)
           w == RingWalk(S, c, nx)
           v == Append(Tail(w), c)
<1>0. \A t \in S : nx[t] \in S
  BY DEF Linked
<1>1. /\ N \in Nat \ {0} /\ w \in [1..N -> S] /\ w[1] = c
      /\ \A i \in 1..N : i < N => w[i + 1] = nx[w[i]]
  BY <1>0, WalkSteps
<1>2. nx[w[N]] = c
  BY WalkIsRing
<1>3. IsFiniteSet(S) /\ N = Cardinality(S)
  BY FiniteAssumption, FS_Subset
<1>4. w \in Seq(Threads) /\ Len(w) = N /\ w # <<>>
  BY <1>0, WalkSeq
<1> HIDE DEF w, N
<1>5. /\ v \in [1..N -> Threads] /\ v[N] = c
      /\ \A i \in 1..N : i < N => v[i] = w[i + 1]
  <2>1. /\ Tail(w) \in Seq(Threads) /\ Len(Tail(w)) = N - 1
        /\ \A i \in 1..(N - 1) : Tail(w)[i] = w[i + 1]
    BY <1>4, TailIs
  <2>2. /\ v \in [1..((N - 1) + 1) -> Threads] /\ v[(N - 1) + 1] = c
        /\ \A i \in 1..(N - 1) : v[i] = Tail(w)[i]
    <3> DEFINE s == Tail(w)
    <3>1. s \in Seq(Threads) /\ Len(s) = N - 1 /\ c \in Threads
      BY <2>1
    <3> HIDE DEF s
    <3>2. /\ Append(s, c) \in [1..(Len(s) + 1) -> Threads]
          /\ Append(s, c)[Len(s) + 1] = c
          /\ \A i \in 1..Len(s) : Append(s, c)[i] = s[i]
      BY <3>1, AppendIs
    <3> QED
      BY <3>1, <3>2, Zenon DEF s
  <2>3. (N - 1) + 1 = N /\ \A i \in 1..N : i < N => i \in 1..(N - 1)
    BY <1>1
  <2> HIDE DEF v
  <2> QED
    BY <2>1, <2>2, <2>3
<1> HIDE DEF v
<1>6. ASSUME NEW i \in 1..N, i # 1 PROVE v[i] = nx[v[i - 1]]
  <2>1. i - 1 \in 1..N /\ i - 1 < N /\ (i - 1) + 1 = i
    BY <1>1, <1>6
  <2>2. v[i - 1] = w[i]
    BY <2>1, <1>5
  <2>3. CASE i = N
    BY <2>2, <2>3, <1>2, <1>5
  <2>4. CASE i # N
    <3>1. i < N
      BY <2>4, <1>1
    <3> QED
      BY <3>1, <2>2, <1>1, <1>5
  <2> QED
    BY <2>3, <2>4
<1>7. v[1] = nx[c]
  <2>1. 1 \in 1..N
    BY <1>1
  <2>2. CASE N = 1
    BY <2>2, <1>1, <1>2, <1>5
  <2>3. CASE N # 1
    <3>1. 1 < N /\ 1 + 1 = 2
      BY <1>1, <2>3
    <3>2. v[1] = w[2] /\ w[2] = nx[w[1]]
      BY <2>1, <3>1, <1>1, <1>5
    <3> QED
      BY <3>2, <1>1
  <2> QED
    BY <2>2, <2>3
<1>8. IsWalk(v, N, nx[c], nx)
  <2>1. v = [i \in 1..N |-> v[i]]
    BY <1>5
  <2>2. \A i \in 1..N : v[i] = IF i = 1 THEN nx[c] ELSE nx[v[i - 1]]
    BY <1>6, <1>7
  <2> QED
    BY <2>1, <2>2 DEF IsWalk
<1>9. v = RingWalk(S, nx[c], nx)
  BY <1>3, <1>8, RingWalkIs
<1> QED
  BY <1>9 DEF v, w

\* Unlinking c from a ring of two or more leaves the rest of the walk.
LEMMA WalkLeave ==
  ASSUME NEW S \in SUBSET Threads, NEW c \in S,
         NEW nx \in [Threads -> Pointers], NEW pv \in [Threads -> Pointers],
         Linked(S, nx, pv), Connected(S, nx), nx[c] # c
  PROVE  RingWalk(S \ {c}, nx[c], [nx EXCEPT ![pv[c]] = nx[c]]) = Tail(RingWalk(S, c, nx))
<1> DEFINE N == Cardinality(S)
           w == RingWalk(S, c, nx)
           nx2 == [nx EXCEPT ![pv[c]] = nx[c]]
           v == Tail(w)
<1>0. \A t \in S : nx[t] \in S
  BY DEF Linked
<1>1. /\ N \in Nat \ {0} /\ w \in [1..N -> S] /\ w[1] = c
      /\ \A i \in 1..N : i < N => w[i + 1] = nx[w[i]]
  BY <1>0, WalkSteps
<1>2. /\ \A i, j \in 1..N : w[i] = w[j] => i = j
      /\ nx[w[N]] = c
  BY WalkIsRing
<1>3. IsFiniteSet(S \ {c}) /\ Cardinality(S \ {c}) = N - 1
  BY FiniteAssumption, FS_Subset, FS_RemoveElement
<1>4. w \in Seq(Threads) /\ Len(w) = N /\ w # <<>>
  BY <1>0, WalkSeq
<1>5. /\ pv[c] \in S /\ \A u \in S \ {pv[c]} : nx2[u] = nx[u]
  BY DEF Linked
<1> HIDE DEF w, N, nx2
<1>6. N # 1
  BY <1>1, <1>2
<1>7. v \in [1..(N - 1) -> Threads] /\ \A i \in 1..(N - 1) : v[i] = w[i + 1]
  BY <1>4, TailIs
<1> HIDE DEF v
<1>8. w[N] = pv[c]
  BY <1>1, <1>2 DEF Linked
<1>9. ASSUME NEW i \in 1..(N - 1), i # 1 PROVE v[i] = nx2[v[i - 1]]
  <2>1. /\ i \in 1..N /\ i < N /\ N \in 1..N /\ i # N
        /\ i - 1 \in 1..(N - 1) /\ (i - 1) + 1 = i
    BY <1>1, <1>9
  <2>2. v[i - 1] = w[i] /\ v[i] = w[i + 1] /\ w[i + 1] = nx[w[i]]
    BY <2>1, <1>1, <1>7
  <2>3. w[i] \in S \ {pv[c]}
    BY <2>1, <1>1, <1>2, <1>8
  <2> QED
    BY <2>2, <2>3, <1>5
<1>10. v[1] = nx[c]
  <2>1. 1 \in 1..(N - 1) /\ 1 \in 1..N /\ 1 < N /\ 1 + 1 = 2
    BY <1>1, <1>6
  <2>2. v[1] = w[2] /\ w[2] = nx[w[1]]
    BY <2>1, <1>1, <1>7
  <2> QED
    BY <2>2, <1>1
<1>11. IsWalk(v, N - 1, nx[c], nx2)
  <2>1. v = [i \in 1..(N - 1) |-> v[i]]
    BY <1>7
  <2>2. \A i \in 1..(N - 1) : v[i] = IF i = 1 THEN nx[c] ELSE nx2[v[i - 1]]
    BY <1>9, <1>10
  <2> QED
    BY <2>1, <2>2 DEF IsWalk
<1>12. v = RingWalk(S \ {c}, nx[c], nx2)
  BY <1>3, <1>11, RingWalkIs
<1> QED
  BY <1>12 DEF v, w, nx2

-----------------------------------------------------------------------------
(* Every step of the scheduler is a step of the queue.                     *)

\* A walk does not depend on the link of its last thread.
LEMMA WalkSame ==
  ASSUME NEW S \in SUBSET Threads, NEW c \in S, NEW nx, NEW pv, NEW nx2,
         Linked(S, nx, pv), Connected(S, nx),
         \A u \in S \ {pv[c]} : nx2[u] = nx[u]
  PROVE  RingWalk(S, c, nx2) = RingWalk(S, c, nx)
<1> DEFINE N == Cardinality(S)
           w == RingWalk(S, c, nx)
<1>0. \A t \in S : nx[t] \in S
  BY DEF Linked
<1>1. /\ N \in Nat \ {0} /\ w \in [1..N -> S] /\ w[1] = c
      /\ \A i \in 1..N : i < N => w[i + 1] = nx[w[i]]
  BY <1>0, WalkSteps
<1>2. /\ \A i, j \in 1..N : w[i] = w[j] => i = j
      /\ nx[w[N]] = c
  BY WalkIsRing
<1>3. IsFiniteSet(S) /\ N = Cardinality(S)
  BY ThreadSets
<1> HIDE DEF w, N
<1>4. w[N] = pv[c]
  BY <1>1, <1>2 DEF Linked
<1>5. ASSUME NEW i \in 1..N, i # 1 PROVE w[i] = nx2[w[i - 1]]
  <2>1. i - 1 \in 1..N /\ i - 1 < N /\ (i - 1) + 1 = i /\ N \in 1..N /\ i - 1 # N
    BY <1>1, <1>5
  <2>2. w[i] = nx[w[i - 1]] /\ w[i - 1] \in S \ {pv[c]}
    BY <2>1, <1>1, <1>2, <1>4
  <2> QED
    BY <2>2
<1>6. IsWalk(w, N, c, nx2)
  <2>1. w = [i \in 1..N |-> w[i]]
    BY <1>1
  <2>2. \A i \in 1..N : w[i] = IF i = 1 THEN c ELSE nx2[w[i - 1]]
    BY <1>1, <1>5
  <2> QED
    BY <2>1, <2>2 DEF IsWalk
<1>7. w = RingWalk(S, c, nx2)
  BY <1>3, <1>6, RingWalkIs
<1> QED
  BY <1>7 DEF w

\* The ring of a running kernel.
LEMMA RunningRing ==
  ASSUME RingInvariant, Running
  PROVE  /\ current_thread \in Scheduled /\ kernel_thread \in Scheduled
         /\ Scheduled \in SUBSET Threads
         /\ current_thread # Null /\ kernel_thread # Null
         /\ Linked(Scheduled, next, prev) /\ Connected(Scheduled, next)
         /\ next \in [Threads -> Pointers] /\ prev \in [Threads -> Pointers]
         /\ \A t \in Scheduled : next[t] \in Scheduled
         /\ RingOrder = RingWalk(Scheduled, current_thread, next)
<1>1. /\ current_thread \in Scheduled /\ kernel_thread \in Scheduled
      /\ Scheduled \in SUBSET Threads
      /\ Linked(Scheduled, next, prev) /\ Connected(Scheduled, next)
  BY DEF RingInvariant, RingLinked, RingConnected, Scheduled, Live
<1>2. next \in [Threads -> Pointers] /\ prev \in [Threads -> Pointers]
  BY DEF RingInvariant, TypeOK
<1>3. current_thread # Null /\ kernel_thread # Null
  BY <1>1, NullAssumption
<1>4. \A t \in Scheduled : next[t] \in Scheduled
  BY <1>1 DEF Linked
<1> QED
  BY <1>1, <1>2, <1>3, <1>4 DEF RingOrder

\* The queue of a running kernel is not empty and starts with the current
\* thread; its members are the scheduled threads.
LEMMA QueueFacts ==
  ASSUME RingInvariant, Running
  PROVE  /\ RingOrder # <<>> /\ Head(RingOrder) = current_thread
         /\ RingOrder \in Seq(Threads)
         /\ Queue!Members = Scheduled
<1> DEFINE w == RingWalk(Scheduled, current_thread, next)
<1>0. /\ Scheduled \in SUBSET Threads /\ current_thread \in Scheduled
      /\ Linked(Scheduled, next, prev) /\ Connected(Scheduled, next)
  BY RunningRing
<1>1. RingOrder = w
  BY RunningRing
<1>2. w \in Seq(Threads) /\ Len(w) = Cardinality(Scheduled) /\ w # <<>> /\ Head(w) = current_thread
  BY RunningRing, WalkSeq
<1>3. Scheduled = {w[i] : i \in 1..Cardinality(Scheduled)}
  BY <1>0, WalkIsRing
<1> HIDE DEF w
<1>4. Queue!Members = {RingOrder[i] : i \in 1..Len(RingOrder)}
  BY DEF Queue!Members
<1> QED
  BY <1>1, <1>2, <1>3, <1>4

\* A step that leaves the current thread, its state and the links of the ring
\* alone does not change the queue.
LEMMA QueueQuiet ==
  ASSUME RingInvariant, Running, Scheduled' = Scheduled,
         \A t \in Scheduled \ {prev[current_thread]} : next'[t] = next[t],
         UNCHANGED <<current_thread, kernel_thread>>,
         state'[current_thread] = state[current_thread]
  PROVE  /\ RingOrder' = RingOrder
         /\ ({kernel_thread} \ {Null})' = {kernel_thread} \ {Null}
         /\ Finishing' = Finishing
<1>1. RingWalk(Scheduled, current_thread, next') = RingWalk(Scheduled, current_thread, next)
  BY RunningRing, WalkSame
<1>2. RingOrder' = RingWalk(Scheduled, current_thread, next')
  BY RunningRing DEF RingOrder
<1>3. RingOrder = RingWalk(Scheduled, current_thread, next)
  BY RunningRing
<1> QED
  BY <1>1, <1>2, <1>3 DEF Finishing

\* With the queue unchanged the kernel goes on or stops.
LEMMA QueueStutter ==
  ASSUME status = "ok", RingOrder' = RingOrder,
         ({kernel_thread} \ {Null})' = {kernel_thread} \ {Null},
         Finishing' = Finishing
  PROVE  [Queue!Next]_(Queue!vars)
<1>1. CASE status' = "ok"
  BY <1>1 DEF Queue!vars
<1>2. CASE status' # "ok"
  BY <1>2 DEF Queue!Next, Queue!Halt
<1> QED
  BY <1>1, <1>2

\* scheduling_init starts the queue with the kernel thread.
LEMMA QueueStart == RingInvariant /\ scheduling_init => [Queue!Next]_(Queue!vars)
<1> SUFFICES ASSUME RingInvariant, scheduling_init PROVE Queue!Next
  OBVIOUS
<1> USE NullAssumption DEF TASK_SLEEP, TASK_READY, TASK_RUNNING, TASK_FINISHED
<1>1. PICK t \in Threads : create_kernel_thread(t)
  BY DEF scheduling_init
<1>2. heap = {} /\ kernel_thread = Null /\ current_thread = Null /\ status = "ok"
  BY DEF RingInvariant, BootState, scheduling_init
<1>3. /\ heap' = {<<t, "thread">>}
      /\ state' = [state EXCEPT ![t] = TASK_READY]
      /\ kernel_thread' = t /\ current_thread' = t
      /\ next' = [next EXCEPT ![t] = t]
      /\ status' = status
  BY <1>1, <1>2 DEF create_kernel_thread, schedule_thread, scheduling_init
<1>4. state'[t] = TASK_READY /\ next'[t] = t
  BY <1>3 DEF RingInvariant, TypeOK
<1>5. Scheduled' = {t}
  BY <1>3, <1>4 DEF Live, Scheduled
<1>6. RingWalk({t}, t, next') = <<t>>
  <2>1. IsFiniteSet({t}) /\ Cardinality({t}) = 1
    BY FS_Singleton
  <2>2. IsWalk(<<t>>, 1, t, next')
    <3>1. <<t>> = [i \in 1..1 |-> t]
      OBVIOUS
    <3>2. \A i \in 1..1 : t = IF i = 1 THEN t ELSE next'[<<t>>[i - 1]]
      OBVIOUS
    <3> QED
      BY <3>1, <3>2, Zenon DEF IsWalk
  <2> QED
    BY <2>1, <2>2, RingWalkIs
<1>7. RingOrder = <<>> /\ Finishing = FALSE
  BY <1>2 DEF RingOrder, Finishing
<1>8. RingOrder' = <<t>>
  BY <1>3, <1>5, <1>6 DEF RingOrder
<1>9. Finishing' = FALSE
  BY <1>3, <1>4 DEF Finishing
<1>10. {kernel_thread'} \ {Null} = {t}
  BY <1>3
<1>11. Queue!Start
  BY <1>3, <1>7, <1>8, <1>9, <1>10 DEF Queue!Start
<1> QED
  BY <1>2, <1>11 DEF Queue!Next

\* The private steps of create_thread, its failures and its return leave the
\* queue alone.
LEMMA QueueCreate ==
  ASSUME RingInvariant,
         \/ \E u \in BOOLEAN : create_thread_alloc(u)
         \/ create_thread_kstack
         \/ create_thread_ustack
         \/ create_thread_fail
         \/ \E p \in Processes : create_thread_fill(p)
         \/ create_thread_return
  PROVE  [Queue!Next]_(Queue!vars)
<1>0. TypeOK /\ CallState
  BY DEF RingInvariant
<1>1. Running /\ status = "ok" /\ UNCHANGED <<kernel_thread, current_thread>>
  BY DEF create_thread_alloc, create_thread_kstack, create_thread_ustack,
         create_thread_fail, create_thread_fill, create_thread_return, MainAt, Running,
         schedVars
<1>2. CASE \E u \in BOOLEAN : create_thread_alloc(u)
  <2>1. PICK t \in Threads \ Live :
          /\ heap' = heap \cup {<<t, "thread">>}
          /\ state' = [state EXCEPT ![t] = TASK_SLEEP]
          /\ next' = [next EXCEPT ![t] = Null]
    BY <1>2, Zenon DEF create_thread_alloc
  <2>2. Live' = Live \cup {t}
    BY <2>1 DEF Live
  <2>3. /\ \A x \in Threads \ {t} : state'[x] = state[x] /\ next'[x] = next[x]
        /\ state'[t] = TASK_SLEEP
    BY <1>0, <2>1 DEF TypeOK
  <2>4. Scheduled' = Scheduled /\ \A x \in Scheduled : x \in Threads \ {t}
    BY <2>1, <2>2, <2>3 DEF Scheduled, Live
  <2>5. /\ RingOrder' = RingOrder /\ Finishing' = Finishing
        /\ ({kernel_thread} \ {Null})' = {kernel_thread} \ {Null}
    BY <1>1, <2>3, <2>4, RunningRing, QueueQuiet
  <2> QED
    BY <1>1, <2>5, QueueStutter
<1>3. CASE \/ create_thread_kstack \/ create_thread_ustack \/ create_thread_fail
           \/ \E p \in Processes : create_thread_fill(p)
           \/ create_thread_return
  <2>1. UNCHANGED <<state, next>>
    BY <1>3 DEF create_thread_kstack, create_thread_ustack, create_thread_fail,
                create_thread_fill, create_thread_return, threadVars
  <2>2. \A t \in Threads : <<t, "thread">> \in heap' <=> <<t, "thread">> \in heap
    BY <1>3 DEF create_thread_kstack, create_thread_ustack, create_thread_fail,
                create_thread_fill, create_thread_return
  <2>3. Scheduled' = Scheduled
    BY <2>1, <2>2 DEF Scheduled, Live
  <2>4. /\ RingOrder' = RingOrder /\ Finishing' = Finishing
        /\ ({kernel_thread} \ {Null})' = {kernel_thread} \ {Null}
    BY <1>1, <2>1, <2>3, QueueQuiet
  <2> QED
    BY <1>1, <2>4, QueueStutter
<1> QED
  BY <1>2, <1>3

\* Registering a thread appends it.
LEMMA QueueRegister == RingInvariant /\ create_thread_register => [Queue!Next]_(Queue!vars)
<1> SUFFICES ASSUME RingInvariant, create_thread_register PROVE Queue!Next
  OBVIOUS
<1> USE DEF TASK_SLEEP, TASK_READY, TASK_RUNNING, TASK_FINISHED
<1> DEFINE t == call.thread
<1>0. TypeOK /\ Running /\ status = "ok" /\ call.at = "register" /\ current_thread = kernel_thread
  BY DEF RingInvariant, create_thread_register, MainAt, Running
<1>1. t \in Threads /\ t \in Live /\ t \notin Scheduled
  BY <1>0 DEF RingInvariant, CallState, Live, Scheduled
<1>2. /\ current_thread \in Scheduled /\ current_thread # Null /\ kernel_thread # Null
      /\ Scheduled \in SUBSET Threads
      /\ Linked(Scheduled, next, prev) /\ Connected(Scheduled, next)
      /\ next \in [Threads -> Pointers] /\ prev \in [Threads -> Pointers]
      /\ RingOrder = RingWalk(Scheduled, current_thread, next)
  BY <1>0, RunningRing
<1>3. /\ state' = [state EXCEPT ![t] = TASK_READY]
      /\ next' = [next EXCEPT ![t] = current_thread, ![prev[current_thread]] = t]
      /\ UNCHANGED <<heap, status, kernel_thread, current_thread>>
  BY <1>2 DEF create_thread_register, schedule_thread
<1>4. state'[t] = TASK_READY /\ \A x \in Threads \ {t} : state'[x] = state[x]
  BY <1>0, <1>1, <1>3 DEF TypeOK
<1>5. Scheduled' = Scheduled \cup {t}
  <2>1. Live' = Live /\ Live \subseteq Threads
    BY <1>3 DEF Live
  <2>2. \A x \in Live : state'[x] # TASK_SLEEP <=> x = t \/ state[x] # TASK_SLEEP
    BY <1>1, <1>4, <2>1
  <2> QED
    BY <1>1, <2>1, <2>2 DEF Scheduled
<1>6. RingOrder' = RingWalk(Scheduled \cup {t}, current_thread, next')
  BY <1>2, <1>3, <1>5 DEF RingOrder
<1>7. RingOrder' = Append(RingOrder, t)
  <2>1. prev[current_thread] \in Scheduled /\ t \in Threads \ Scheduled
    BY <1>1, <1>2 DEF Linked
  <2>2. /\ next'[prev[current_thread]] = t
        /\ \A u \in Scheduled \ {prev[current_thread]} : next'[u] = next[u]
    BY <1>1, <1>2, <1>3, <2>1
  <2> HIDE DEF t
  <2>3. RingWalk(Scheduled \cup {t}, current_thread, next')
          = Joined(RingWalk(Scheduled, current_thread, next), t)
    BY <1>2, <2>1, <2>2, WalkAppend
  <2>4. RingOrder = RingWalk(Scheduled, current_thread, next)
    BY <1>2
  <2> QED
    BY <1>6, <2>3, <2>4, Zenon DEF Joined
<1>8. Finishing' = Finishing
  BY <1>1, <1>2, <1>3, <1>4 DEF Finishing
<1>9. RingOrder # <<>> /\ Head(RingOrder) = current_thread /\ Queue!Members = Scheduled
  BY <1>0, QueueFacts
<1>10. t \in Threads \ Queue!Members
  BY <1>1, <1>9
<1>11. Queue!Enqueue
  BY <1>0, <1>2, <1>3, <1>7, <1>8, <1>9, <1>10 DEF Queue!Enqueue
<1> QED
  BY <1>0, <1>11 DEF Queue!Next

\* thread_exit marks the head of the queue finished.
LEMMA QueueExit == RingInvariant /\ thread_exit => [Queue!Next]_(Queue!vars)
<1> SUFFICES ASSUME RingInvariant, thread_exit PROVE Queue!Next
  OBVIOUS
<1> USE DEF TASK_SLEEP, TASK_READY, TASK_RUNNING, TASK_FINISHED
<1>0. TypeOK /\ Running /\ status = "ok" /\ current_thread # kernel_thread
  BY DEF RingInvariant, thread_exit, Running
<1>1. /\ current_thread \in Scheduled /\ current_thread # Null
      /\ Scheduled \in SUBSET Threads
      /\ RingOrder = RingWalk(Scheduled, current_thread, next)
  BY <1>0, RunningRing
<1>2. /\ state' = [state EXCEPT ![current_thread] = TASK_FINISHED]
      /\ UNCHANGED <<heap, next, kernel_thread, current_thread, status>>
  BY DEF thread_exit, schedVars
<1>3. /\ state'[current_thread] = TASK_FINISHED
      /\ \A x \in Threads \ {current_thread} : state'[x] = state[x]
  BY <1>0, <1>1, <1>2 DEF TypeOK
<1>4. Scheduled' = Scheduled
  BY <1>1, <1>2, <1>3 DEF Scheduled, Live
<1>5. RingOrder' = RingOrder
  BY <1>1, <1>2, <1>4 DEF RingOrder
<1>6. Finishing' = TRUE
  BY <1>1, <1>2, <1>3 DEF Finishing
<1>7. RingOrder # <<>> /\ Head(RingOrder) = current_thread
  BY <1>0, QueueFacts
<1>8. Queue!Finish
  BY <1>0, <1>2, <1>5, <1>6, <1>7 DEF Queue!Finish
<1> QED
  BY <1>0, <1>8 DEF Queue!Next

\* A tick, a trap or an overrun that keeps the current thread.
LEMMA QueueKeep ==
  ASSUME RingInvariant, Running, schedule_tick_keep \/ user_trap \/ stack_overrun
  PROVE  [Queue!Next]_(Queue!vars)
<1>1. UNCHANGED <<heap, state, next, kernel_thread, current_thread>> /\ status = "ok"
  BY DEF schedule_tick_keep, user_trap, stack_overrun, threadVars, schedVars, Running
<1>2. Scheduled' = Scheduled
  BY <1>1 DEF Scheduled, Live
<1>3. /\ RingOrder' = RingOrder /\ Finishing' = Finishing
      /\ ({kernel_thread} \ {Null})' = {kernel_thread} \ {Null}
  BY <1>1, <1>2, QueueQuiet
<1> QED
  BY <1>1, <1>3, QueueStutter

\* A tick that moves on sends the head to the end of the queue.
LEMMA QueueSwitch ==
  RingInvariant /\ Running /\ schedule_tick_switch => [Queue!Next]_(Queue!vars)
<1> SUFFICES ASSUME RingInvariant, Running, schedule_tick_switch PROVE Queue!Next
  OBVIOUS
<1> USE DEF TASK_SLEEP, TASK_READY, TASK_RUNNING, TASK_FINISHED
<1>0. TypeOK /\ status = "ok"
  BY DEF RingInvariant, Running
<1>1. /\ current_thread \in Scheduled /\ current_thread # Null
      /\ Scheduled \in SUBSET Threads
      /\ Linked(Scheduled, next, prev) /\ Connected(Scheduled, next)
      /\ \A t \in Scheduled : next[t] \in Scheduled
      /\ RingOrder = RingWalk(Scheduled, current_thread, next)
  BY RunningRing
<1>2. PICK n \in Threads :
        /\ next_ready_thread(n) /\ n # current_thread
        /\ switch_to(n, [state EXCEPT ![current_thread] = TASK_READY])
  BY DEF schedule_tick_switch
<1>3. n = next[current_thread] /\ n \in Scheduled /\ n # Null
  BY <1>1, <1>2, NextReady, NullAssumption
<1>4. /\ state' = [[state EXCEPT ![current_thread] = TASK_READY] EXCEPT ![n] = TASK_RUNNING]
      /\ current_thread' = n
  BY <1>2 DEF switch_to
<1>5. /\ state[current_thread] # TASK_FINISHED
      /\ UNCHANGED <<heap, next, kernel_thread, status>>
  BY DEF schedule_tick_switch
<1>6. /\ state'[n] = TASK_RUNNING /\ state'[current_thread] = TASK_READY
      /\ \A x \in Threads \ {n, current_thread} : state'[x] = state[x]
  BY <1>0, <1>1, <1>2, <1>4 DEF TypeOK
<1>7. Live' = Live
  BY <1>5 DEF Live
<1>8. Scheduled' = Scheduled
  <2>1. \A t \in Live : state'[t] # TASK_SLEEP <=> state[t] # TASK_SLEEP
    <3>1. Live \subseteq Threads /\ state[n] # TASK_SLEEP /\ state[current_thread] # TASK_SLEEP
      BY <1>1, <1>3 DEF Scheduled, Live
    <3> QED
      BY <1>6, <3>1
  <2> QED
    BY <1>7, <2>1 DEF Scheduled
<1>9. RingOrder' = RingWalk(Scheduled, next[current_thread], next)
  BY <1>3, <1>4, <1>5, <1>8 DEF RingOrder
<1>10. RingOrder # <<>> /\ Head(RingOrder) = current_thread
  BY QueueFacts
<1>11. RingOrder' = Append(Tail(RingOrder), Head(RingOrder))
  <2>1. RingWalk(Scheduled, next[current_thread], next)
          = Append(Tail(RingWalk(Scheduled, current_thread, next)), current_thread)
    BY <1>1, WalkRotate
  <2> QED
    BY <1>1, <1>9, <1>10, <2>1, Zenon
<1>12. Finishing = FALSE /\ Finishing' = FALSE
  BY <1>4, <1>5, <1>6 DEF Finishing
<1>13. Queue!Rotate
  BY <1>5, <1>10, <1>11, <1>12, Zenon DEF Queue!Rotate
<1> QED
  BY <1>0, <1>13 DEF Queue!Next

\* A tick that frees the finished thread takes the head off the queue; when the
\* assertion of kfree stops the kernel, the queue is still what it was.
LEMMA QueueReap ==
  RingInvariant /\ Running /\ schedule_tick_reap => [Queue!Next]_(Queue!vars)
<1> SUFFICES ASSUME RingInvariant, Running, schedule_tick_reap
             PROVE  [Queue!Next]_(Queue!vars)
  OBVIOUS
<1> USE DEF TASK_SLEEP, TASK_READY, TASK_RUNNING, TASK_FINISHED
<1> DEFINE c == current_thread
<1>0. TypeOK /\ status = "ok"
  BY DEF RingInvariant, Running
<1>1. /\ c \in Scheduled /\ c # Null /\ Scheduled \in SUBSET Threads
      /\ Linked(Scheduled, next, prev) /\ Connected(Scheduled, next)
      /\ \A t \in Scheduled : next[t] \in Scheduled
      /\ RingOrder = RingWalk(Scheduled, c, next)
      /\ next \in [Threads -> Pointers] /\ prev \in [Threads -> Pointers]
  BY RunningRing
<1>2. PICK n \in Threads :
        /\ next_ready_thread(n) /\ n # c
        /\ unschedule_thread(c)
        /\ destroy_thread(c)
        /\ IF status' = "ok"
           THEN switch_to(n, state)
           ELSE UNCHANGED <<state, current_thread, cpuVars>>
  BY DEF schedule_tick_reap
<1>3. state[c] = TASK_FINISHED /\ c # kernel_thread /\ kernel_thread' = kernel_thread
  <2>1. FinishedIsCurrent
    BY DEF RingInvariant
  <2> QED
    BY <1>1, <2>1 DEF schedule_tick_reap, FinishedIsCurrent
<1>4. n = next[c] /\ n \in Scheduled /\ prev[c] \in Scheduled /\ n # Null
  <2>1. next_ready_thread(n) <=> n = next[c]
    BY <1>2, NextReady
  <2> QED
    BY <1>1, <1>2, <2>1, NullAssumption DEF Linked
<1>5. next' = [next EXCEPT ![prev[c]] = next[c]]
  <2>1. prev[c] # Null
    BY <1>1, <1>4, NullAssumption
  <2> QED
    BY <1>2, <1>3, <2>1 DEF unschedule_thread
<1>6. CASE status' = "ok"
  <2>1. /\ heap' = heap \ ({<<c, "kstack">>, <<c, "thread">>}
                           \cup (IF ustack[c] THEN {<<c, "ustack">>} ELSE {}))
    BY <1>2, <1>6, Zenon DEF destroy_thread
  <2>2. state' = [state EXCEPT ![n] = TASK_RUNNING] /\ current_thread' = n
    BY <1>2, <1>6 DEF switch_to
  <2>3. Live' = Live \ {c}
    <3>1. \A t \in Threads : <<t, "thread">> \in heap' <=> <<t, "thread">> \in heap /\ t # c
      BY <2>1
    <3> QED
      BY <3>1 DEF Live
  <2>4. state'[n] = TASK_RUNNING /\ \A x \in Threads \ {n} : state'[x] = state[x]
    BY <1>0, <1>2, <2>2 DEF TypeOK
  <2>5. Scheduled' = Scheduled \ {c}
    <3>1. Live \subseteq Threads /\ n \in Live /\ state[n] # TASK_SLEEP
      BY <1>4 DEF Scheduled, Live
    <3>2. \A t \in Live : state'[t] # TASK_SLEEP <=> state[t] # TASK_SLEEP
      BY <2>4, <3>1
    <3> QED
      BY <2>3, <3>2 DEF Scheduled
  <2>6. RingOrder' = RingWalk(Scheduled \ {c}, next[c], next')
    BY <1>4, <2>2, <2>5 DEF RingOrder
  <2>7. RingOrder' = Tail(RingOrder)
    <3>1. next[c] # c
      BY <1>2, <1>4
    <3>2. RingWalk(Scheduled \ {c}, next[c], [next EXCEPT ![prev[c]] = next[c]])
            = Tail(RingWalk(Scheduled, c, next))
      BY <1>1, <3>1, WalkLeave
    <3> QED
      BY <1>1, <1>5, <2>6, <3>2
  <2>8. Finishing = TRUE
    BY <1>1, <1>3 DEF Finishing
  <2>9. Finishing' = FALSE
    BY <2>2, <2>4 DEF Finishing
  <2>10. Queue!Leave
    BY <1>0, <1>3, <1>6, <2>7, <2>8, <2>9 DEF Queue!Leave
  <2> QED
    BY <1>0, <2>10 DEF Queue!Next
<1>7. CASE status' # "ok"
  <2>1. UNCHANGED <<state, current_thread, heap>>
    BY <1>0, <1>2, <1>7 DEF destroy_thread
  <2>2. Scheduled' = Scheduled
    BY <2>1 DEF Scheduled, Live
  <2>3. \A t \in Scheduled \ {prev[c]} : next'[t] = next[t]
    BY <1>1, <1>5
  <2>4. /\ RingOrder' = RingOrder /\ Finishing' = Finishing
        /\ ({kernel_thread} \ {Null})' = {kernel_thread} \ {Null}
    BY <1>3, <2>1, <2>2, <2>3, QueueQuiet
  <2> QED
    BY <1>0, <2>4, QueueStutter
<1> QED
  BY <1>6, <1>7

\* For any number of threads the linked list, its insertions and its ticks
\* implement the first-in first-out queue of ReadyQueue: a thread registered by
\* create_thread runs after all those that were there before it, a tick never
\* overtakes, drops or repeats one, and only a finished head leaves.
THEOREM ReadyQueueImplemented == Spec => ImplementsReadyQueue
<1>1. Init => Queue!Init
  <2> SUFFICES ASSUME Init PROVE Queue!Init
    OBVIOUS
  <2>1. RingOrder = <<>> /\ Finishing = FALSE /\ {kernel_thread} \ {Null} = {}
    BY DEF Init, RingOrder, Finishing
  <2>2. (status # "ok") = FALSE
    BY DEF Init
  <2> QED
    BY <2>1, <2>2 DEF Queue!Init
<1>2. RingInvariant /\ [Next]_vars => [Queue!Next]_(Queue!vars)
  <2> SUFFICES ASSUME RingInvariant, [Next]_vars PROVE [Queue!Next]_(Queue!vars)
    OBVIOUS
  <2>1. CASE scheduling_init
    BY <2>1, QueueStart
  <2>2. CASE create_thread
    BY <2>2, QueueCreate, QueueRegister DEF create_thread
  <2>3. CASE thread_exit
    BY <2>3, QueueExit
  <2>4. CASE irq_timer \/ switch_next
    BY <2>4, QueueReap, QueueSwitch, QueueKeep DEF irq_timer, switch_next, schedule_tick
  <2>5. CASE user_trap \/ stack_overrun
    BY <2>5, QueueKeep DEF user_trap, stack_overrun
  <2>6. CASE UNCHANGED vars
    <3>1. UNCHANGED <<heap, state, next, kernel_thread, current_thread, status>>
      BY <2>6 DEF vars, threadVars, schedVars
    <3>2. Scheduled' = Scheduled
      BY <3>1 DEF Scheduled, Live
    <3>3. RingOrder' = RingOrder /\ Finishing' = Finishing
      BY <3>1, <3>2 DEF RingOrder, Finishing
    <3> QED
      BY <3>1, <3>3 DEF Queue!vars
  <2> QED
    BY <2>1, <2>2, <2>3, <2>4, <2>5, <2>6 DEF Next
<1> QED
  BY <1>1, <1>2, RingAlways, PTL DEF Spec, ImplementsReadyQueue, Queue!Spec

=============================================================================
