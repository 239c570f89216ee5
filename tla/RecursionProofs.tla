---------------------------- MODULE RecursionProofs ----------------------------
(***************************************************************************)
(* Induction and recursion over the natural numbers, induction over finite *)
(* sets, and sums over them, for the proofs about what is defined by       *)
(* recursion or by a fold.  Induction is over the set of the numbers, or   *)
(* of the subsets, for which a claim holds.                                *)
(***************************************************************************)
EXTENDS Integers, FiniteSets, WellFoundedInduction, FiniteSetTheorems, TLAPS

\* A set of natural numbers has a first element.
LEMMA LeastOf == ASSUME NEW S \in SUBSET Nat, S # {} PROVE \E k \in S : \A j \in S : k <= j
  <1> DEFINE Less == {ss \in Nat \X Nat : ss[1] < ss[2]}
  <1>1. IsWellFoundedOn(Less, Nat)
    BY NatLessThanWellFounded DEF OpToRel
  <1> HIDE DEF Less
  <1>2. \E k \in S : \A j \in S : ~(<<j, k>> \in Less)
    BY <1>1, WFMin, Zenon
  <1>3. PICK k \in S : \A j \in S : ~(<<j, k>> \in Less)
    BY <1>2
  <1>4. ASSUME NEW j \in S PROVE k <= j
    <2>1. j \in Nat /\ k \in Nat /\ ~(<<j, k>> \in Less)
      BY <1>3
    <2>2. j < k => <<j, k>> \in Less
      BY <2>1 DEF Less
    <2> QED
      BY <2>1, <2>2
  <1> QED
    BY <1>3, <1>4

\* A set with zero and the successor of each of its numbers has them all.
LEMMA AllNumbers ==
  ASSUME NEW S, 0 \in S, \A n \in Nat : n \in S => n + 1 \in S
  PROVE  Nat \subseteq S
  <1> DEFINE rest == {n \in Nat : n \notin S}
  <1>1. SUFFICES ASSUME rest # {} PROVE FALSE
    OBVIOUS
  <1>2. PICK k \in rest : \A j \in rest : k <= j
    BY <1>1, LeastOf
  <1>3. k \in Nat /\ k # 0 /\ k \notin S
    OBVIOUS
  <1>4. k - 1 \in Nat /\ k - 1 \in S
    BY <1>2, <1>3
  <1> QED
    BY <1>3, <1>4

\* There is a function for each recursion over the natural numbers.
LEMMA Recursion ==
  ASSUME NEW T, NEW a \in T, NEW step \in [T -> T]
  PROVE  \E f : f = [n \in Nat |-> IF n = 0 THEN a ELSE step[f[n - 1]]]
  <1> DEFINE Upto(g, n) ==
               g \in [0 .. n -> T] /\ g[0] = a /\ \A i \in 0 .. n - 1 : g[i + 1] = step[g[i]]
  <1>1. \A n \in Nat : \E g : Upto(g, n)
    <2> DEFINE S == {n \in Nat : \E g : Upto(g, n)}
    <2>1. 0 \in S
      <3>1. Upto([i \in 0 .. 0 |-> a], 0)
        OBVIOUS
      <3> QED
        BY <3>1
    <2>2. ASSUME NEW n \in Nat, n \in S PROVE n + 1 \in S
      <3>1. PICK g : Upto(g, n)
        BY <2>2
      <3> DEFINE h == [i \in 0 .. n + 1 |-> IF i = n + 1 THEN step[g[n]] ELSE g[i]]
      <3>2. h \in [0 .. n + 1 -> T]
        BY <3>1
      <3>3. h[0] = a
        BY <3>1
      <3>4. \A i \in 0 .. (n + 1) - 1 : h[i + 1] = step[h[i]]
        BY <3>1
      <3> HIDE DEF h
      <3>5. Upto(h, n + 1)
        BY <3>2, <3>3, <3>4
      <3> QED
        BY <3>5
    <2> HIDE DEF S
    <2>3. Nat \subseteq S
      BY <2>1, <2>2, AllNumbers
    <2> QED
      BY <2>3 DEF S
  <1>2. ASSUME NEW n \in Nat, NEW g, NEW h, Upto(g, n), Upto(h, n + 1) PROVE g[n] = h[n]
    <2> DEFINE S == {i \in Nat : i <= n => g[i] = h[i]}
    <2>1. 0 \in S
      BY <1>2
    <2>2. ASSUME NEW i \in Nat, i \in S PROVE i + 1 \in S
      BY <1>2, <2>2
    <2> HIDE DEF S
    <2>3. Nat \subseteq S
      BY <2>1, <2>2, AllNumbers
    <2> QED
      BY <2>3 DEF S
  <1>3. PICK upto : \A n \in Nat : Upto(upto[n], n)
    <2> DEFINE u == [n \in Nat |-> CHOOSE g : Upto(g, n)]
    <2> HIDE DEF Upto
    <2>1. \A n \in Nat : Upto(u[n], n)
      BY <1>1
    <2> QED
      BY <2>1
  <1> DEFINE f == [n \in Nat |-> upto[n][n]]
  <1>4. \A n \in Nat : n + 1 \in Nat /\ f[n] = upto[n][n]
    OBVIOUS
  <1>5. f[0] = a
    BY <1>3
  <1>6. ASSUME NEW n \in Nat PROVE f[n + 1] = step[f[n]]
    <2>1. Upto(upto[n], n) /\ Upto(upto[n + 1], n + 1)
      BY <1>3, <1>4
    <2> DEFINE g == upto[n]
               h == upto[n + 1]
    <2>2. g[n] = h[n]
      <3> HIDE DEF g, h, Upto
      <3>1. Upto(g, n) /\ Upto(h, n + 1)
        BY <2>1 DEF g, h
      <3> QED
        BY <1>2, <3>1
    <2>3. h[n + 1] = step[h[n]]
      <3>1. Upto(h, n + 1) /\ n \in 0 .. (n + 1) - 1
        BY <2>1
      <3> HIDE DEF h
      <3> QED
        BY <3>1
    <2>4. f[n] = upto[n][n] /\ f[n + 1] = upto[n + 1][n + 1]
      BY <1>4
    <2> QED
      BY <2>2, <2>3, <2>4
  <1>7. f = [n \in Nat |-> f[n]]
    OBVIOUS
  <1> HIDE DEF f
  <1>8. ASSUME NEW n \in Nat, n # 0 PROVE f[n] = step[f[n - 1]]
    <2>1. n - 1 \in Nat /\ (n - 1) + 1 = n
      BY <1>8
    <2> QED
      BY <1>6, <2>1
  <1>9. f = [n \in Nat |-> IF n = 0 THEN a ELSE step[f[n - 1]]]
    BY <1>5, <1>7, <1>8
  <1> QED
    BY <1>9

-------------------------------------------------------------------------------
(* Sums over finite sets, as MapThenSumSet computes them.                  *)

\* A claim of the empty set that extends by each element is one of every subset.
LEMMA FiniteInduction ==
  ASSUME NEW S, IsFiniteSet(S), NEW P, {} \in P, \A T \in SUBSET S : T \in P => \A x \in S : T \cup {x} \in P
  PROVE  \A T \in SUBSET S : T \in P
  <1> DEFINE N == {n \in Nat : \A T \in SUBSET S : Cardinality(T) = n => T \in P}
  <1>1. \A T \in SUBSET S : IsFiniteSet(T) /\ Cardinality(T) \in Nat
    BY FS_Subset, FS_CardinalityType
  <1>2. 0 \in N
    BY <1>1, FS_EmptySet
  <1>3. ASSUME NEW n \in Nat, n \in N PROVE n + 1 \in N
    <2> SUFFICES ASSUME NEW T \in SUBSET S, Cardinality(T) = n + 1 PROVE T \in P
      OBVIOUS
    <2>1. T # {}
      <3>1. Cardinality({}) = 0 /\ n + 1 # 0
        BY FS_EmptySet
      <3> QED
        BY <3>1
    <2>2. PICK x \in T : TRUE
      BY <2>1
    <2> DEFINE U == T \ {x}
    <2>3. U \in SUBSET S /\ U \cup {x} = T /\ x \in S
      OBVIOUS
    <2>4. Cardinality(U) = (n + 1) - 1
      <3>1. IsFiniteSet(T) /\ x \in T
        BY <1>1, <2>2
      <3> HIDE DEF N
      <3> QED
        BY <3>1, FS_RemoveElement
    <2> HIDE DEF U
    <2>5. U \in P
      BY <1>3, <2>3, <2>4
    <2> QED
      BY <2>3, <2>5
  <1> HIDE DEF N
  <1>4. Nat \subseteq N
    BY <1>2, <1>3, AllNumbers
  <1>5. ASSUME NEW T \in SUBSET S PROVE T \in P
    <2>1. Cardinality(T) \in N
      BY <1>1, <1>4
    <2> QED
      BY <2>1 DEF N
  <1> QED
    BY <1>5

Some(s) == CHOOSE x \in s : TRUE

\* g sums f up over the subsets of S, element by element in the order of CHOOSE.
IsFold(g, f, S) ==
  g = [s \in SUBSET S |-> IF s = {} THEN 0 ELSE f[Some(s)] + g[s \ {Some(s)}]]

\* g sums f up over the subsets of S, in any order.
IsSum(g, f, S) ==
  /\ g \in [SUBSET S -> Int] /\ g[{}] = 0
  /\ \A T \in SUBSET S : \A x \in T : g[T] = f[x] + g[T \ {x}]

\* An element of a set is one.
LEMMA SomeIs == ASSUME NEW s, s # {} PROVE Some(s) \in s
  BY DEF Some

\* There is such a fold over a finite set.
LEMMA FoldExists ==
  ASSUME NEW S, IsFiniteSet(S), NEW f \in [S -> Int]
  PROVE  \E g : IsFold(g, f, S)
  <1> DEFINE T == [SUBSET S -> Int]
             zero == [s \in SUBSET S |-> 0]
             next(g) == [s \in SUBSET S |-> IF s = {} THEN 0 ELSE f[Some(s)] + g[s \ {Some(s)}]]
             step == [g \in T |-> next(g)]
  <1>1. \A g \in T : next(g) \in T
    <2> SUFFICES ASSUME NEW g \in T, NEW s \in SUBSET S, s # {} PROVE f[Some(s)] + g[s \ {Some(s)}] \in Int
      OBVIOUS
    <2>1. Some(s) \in S /\ s \ {Some(s)} \in SUBSET S
      BY SomeIs
    <2> QED
      BY <2>1
  <1>2. zero \in T
    OBVIOUS
  <1>3. step \in [T -> T] /\ \A g \in T : step[g] = next(g)
    BY <1>1
  <1>4. /\ \A g, s : s \in SUBSET S /\ s # {} => next(g)[s] = f[Some(s)] + g[s \ {Some(s)}]
        /\ \A g : next(g)[{}] = 0
    OBVIOUS
  <1> HIDE DEF T, step, next
  <1>5. PICK F : F = [n \in Nat |-> IF n = 0 THEN zero ELSE step[F[n - 1]]]
    <2>1. \E F : F = [n \in Nat |-> IF n = 0 THEN zero ELSE step[F[n - 1]]]
      <3> HIDE DEF zero
      <3>1. step \in [T -> T]
        BY <1>3
      <3> QED
        BY <1>2, <3>1, Recursion
    <2> QED
      BY <2>1
  <1>6. \A n \in Nat : F[n] \in T /\ F[n + 1] = step[F[n]]
    <2>1. \A n \in Nat : n + 1 \in Nat /\ n + 1 # 0 /\ (n + 1) - 1 = n
      OBVIOUS
    <2>2. \A n \in Nat : F[n + 1] = step[F[n]]
      BY <1>5, <2>1
    <2> DEFINE N == {n \in Nat : F[n] \in T}
    <2>3. 0 \in N
      BY <1>2, <1>5
    <2>4. ASSUME NEW n \in Nat, n \in N PROVE n + 1 \in N
      BY <1>3, <2>1, <2>2, <2>4
    <2> HIDE DEF N
    <2>5. Nat \subseteq N
      BY <2>3, <2>4, AllNumbers
    <2> QED
      BY <2>2, <2>5 DEF N
  <1>7. \A n \in Nat : F[n + 1] = next(F[n])
    BY <1>3, <1>6
  <1>8. \A s \in SUBSET S : IsFiniteSet(s) /\ Cardinality(s) \in Nat
    BY FS_Subset, FS_CardinalityType
  <1> DEFINE M == {n \in Nat : \A s \in SUBSET S : Cardinality(s) <= n => F[n][s] = F[n + 1][s]}
  <1>9. 0 \in M
    <2> SUFFICES ASSUME NEW s \in SUBSET S, Cardinality(s) <= 0 PROVE F[0][s] = F[0 + 1][s]
      OBVIOUS
    <2>1. s = {}
      BY <1>8, FS_EmptySet
    <2>2. F[0][{}] = 0
      BY <1>5
    <2>3. F[0 + 1][{}] = 0
      BY <1>4, <1>7
    <2> QED
      BY <2>1, <2>2, <2>3
  <1>10. ASSUME NEW n \in Nat, n \in M PROVE n + 1 \in M
    <2> SUFFICES ASSUME NEW s \in SUBSET S, Cardinality(s) <= n + 1
                 PROVE  F[n + 1][s] = F[(n + 1) + 1][s]
      OBVIOUS
    <2>1. F[n + 1] = next(F[n]) /\ F[(n + 1) + 1] = next(F[n + 1])
      BY <1>7
    <2>2. CASE s = {}
      BY <1>4, <2>1, <2>2
    <2>3. CASE s # {}
      <3> DEFINE u == s \ {Some(s)}
      <3>1. u \in SUBSET S
        OBVIOUS
      <3>2. Cardinality(u) = Cardinality(s) - 1
        BY <1>8, <2>3, SomeIs, FS_RemoveElement
      <3>3. Cardinality(u) <= n
        BY <1>8, <3>2
      <3> HIDE DEF u
      <3>4. F[n][u] = F[n + 1][u]
        BY <1>10, <3>1, <3>3
      <3>5. F[n + 1][s] = f[Some(s)] + F[n][u] /\ F[(n + 1) + 1][s] = f[Some(s)] + F[n + 1][u]
        BY <1>4, <2>1, <2>3 DEF u
      <3> QED
        BY <3>4, <3>5
    <2> QED
      BY <2>2, <2>3
  <1> HIDE DEF M
  <1>11. Nat \subseteq M
    BY <1>9, <1>10, AllNumbers
  <1> DEFINE n == Cardinality(S)
             g == F[n]
  <1>12. n \in Nat
    BY FS_CardinalityType
  <1>13. \A s \in SUBSET S : Cardinality(s) <= n
    BY FS_Subset
  <1>14. \A s \in SUBSET S : g[s] = F[n + 1][s]
    <2>1. n \in M
      BY <1>11, <1>12
    <2> QED
      BY <1>13, <2>1 DEF M
  <1>15. \A s \in SUBSET S : g[s] = next(g)[s]
    BY <1>7, <1>12, <1>14
  <1>16. g \in T
    BY <1>6, <1>12
  <1> HIDE DEF g
  <1>17. g = next(g)
    <2>1. g = [s \in SUBSET S |-> g[s]]
      BY <1>16 DEF T
    <2>2. next(g) = [s \in SUBSET S |-> next(g)[s]]
      BY DEF next
    <2> QED
      BY <1>15, <2>1, <2>2
  <1> QED
    BY <1>17 DEF IsFold, next

\* The order does not matter.
LEMMA FoldIsSum ==
  ASSUME NEW S, IsFiniteSet(S), NEW f \in [S -> Int], NEW g, IsFold(g, f, S)
  PROVE  IsSum(g, f, S)
  <1>1. \A s \in SUBSET S : IsFiniteSet(s) /\ Cardinality(s) \in Nat
    BY FS_Subset, FS_CardinalityType
  <1>2. g[{}] = 0
    BY DEF IsFold
  <1>3. \A s \in SUBSET S : s # {} => g[s] = f[Some(s)] + g[s \ {Some(s)}]
    BY DEF IsFold
  <1>4. g = [s \in SUBSET S |-> g[s]]
    BY DEF IsFold
  <1> DEFINE Fine(s) == g[s] \in Int /\ \A x \in s : g[s] = f[x] + g[s \ {x}]
             N == {n \in Nat : \A s \in SUBSET S : Cardinality(s) <= n => Fine(s)}
  <1>5. 0 \in N
    <2> SUFFICES ASSUME NEW s \in SUBSET S, Cardinality(s) <= 0 PROVE Fine(s)
      OBVIOUS
    <2>1. s = {}
      BY <1>1, FS_EmptySet
    <2> QED
      BY <1>2, <2>1
  <1>6. ASSUME NEW n \in Nat, n \in N PROVE n + 1 \in N
    <2> SUFFICES ASSUME NEW s \in SUBSET S, Cardinality(s) <= n + 1 PROVE Fine(s)
      OBVIOUS
    <2>1. CASE s = {}
      BY <1>2, <2>1
    <2>2. CASE s # {}
      <3> DEFINE y == Some(s)
      <3>1. y \in s /\ y \in S
        BY <2>2, SomeIs
      <3> HIDE DEF y
      <3>2. \A x \in s : s \ {x} \in SUBSET S /\ Cardinality(s \ {x}) <= n
        <4> SUFFICES ASSUME NEW x \in s PROVE Cardinality(s \ {x}) <= n
          OBVIOUS
        <4>1. Cardinality(s \ {x}) = Cardinality(s) - 1
          BY <1>1, FS_RemoveElement
        <4> QED
          BY <1>1, <4>1
      <3> HIDE DEF Fine
      <3>3. \A x \in s : Fine(s \ {x})
        BY <1>6, <3>2
      <3> DEFINE u == s \ {y}
      <3>4. g[s] = f[y] + g[u]
        BY <1>3, <2>2 DEF y
      <3>5. g[u] \in Int
        BY <3>1, <3>3 DEF Fine
      <3>6. ASSUME NEW x \in s, x # y PROVE g[s] = f[x] + g[s \ {x}]
        <4> DEFINE v == s \ {x}
                   w == u \ {x}
        <4>1. w = v \ {y} /\ y \in v /\ x \in u /\ w \in SUBSET S /\ f[x] \in Int /\ f[y] \in Int
          BY <3>1, <3>6
        <4>2. g[u] = f[x] + g[w]
          BY <3>1, <3>3, <4>1 DEF Fine
        <4>3. g[v] = f[y] + g[w]
          BY <3>3, <4>1 DEF Fine
        <4>4. g[w] \in Int
          <5>1. Cardinality(w) <= n
            <6>1. IsFiniteSet(u) /\ Cardinality(u) <= n /\ Cardinality(u) \in Nat
              BY <1>1, <3>1, <3>2
            <6>2. Cardinality(w) = Cardinality(u) - 1
              BY <4>1, <6>1, FS_RemoveElement
            <6> QED
              BY <6>1, <6>2
          <5> HIDE DEF w
          <5>2. Fine(w)
            BY <1>6, <4>1, <5>1
          <5> QED
            BY <5>2 DEF Fine
        <4> HIDE DEF u, v, w
        <4>5. g[s] = f[x] + g[v]
          BY <3>4, <4>1, <4>2, <4>3, <4>4
        <4> QED
          BY <4>5 DEF v
      <3>7. g[s] \in Int
        BY <3>1, <3>4, <3>5
      <3> QED
        BY <3>4, <3>6, <3>7 DEF Fine
    <2> QED
      BY <2>1, <2>2
  <1> HIDE DEF N
  <1>7. Nat \subseteq N
    BY <1>5, <1>6, AllNumbers
  <1>8. ASSUME NEW s \in SUBSET S PROVE Fine(s)
    <2>1. Cardinality(s) \in N /\ Cardinality(s) <= Cardinality(s)
      BY <1>1, <1>7
    <2> QED
      BY <2>1 DEF N
  <1>9. g \in [SUBSET S -> Int]
    BY <1>4, <1>8
  <1> QED
    BY <1>2, <1>8, <1>9 DEF IsSum

\* A sum over a part is the same, whatever is summed outside of it.
LEMMA SumsAgree ==
  ASSUME NEW S, IsFiniteSet(S), NEW f, NEW g, IsSum(g, f, S),
         NEW T \in SUBSET S, NEW e, NEW h, IsSum(h, e, T), \A x \in T : e[x] = f[x]
  PROVE  h[T] = g[T]
  <1> DEFINE P == {U \in SUBSET T : h[U] = g[U]}
  <1>1. IsFiniteSet(T)
    BY FS_Subset
  <1>2. {} \in P
    BY DEF IsSum
  <1>3. ASSUME NEW U \in SUBSET T, U \in P, NEW x \in T PROVE U \cup {x} \in P
    <2>1. CASE x \in U
      <3>1. U \cup {x} = U
        BY <2>1
      <3> QED
        BY <1>3, <3>1
    <2>2. CASE x \notin U
      <3> DEFINE W == U \cup {x}
      <3>1. W \in SUBSET T /\ x \in W /\ W \ {x} = U /\ W \in SUBSET S
        BY <2>2
      <3> HIDE DEF W
      <3>2. h[W] = e[x] + h[U]
        BY <3>1 DEF IsSum
      <3>3. g[W] = f[x] + g[U]
        BY <3>1 DEF IsSum
      <3>4. W \in P
        BY <1>3, <3>1, <3>2, <3>3
      <3> QED
        BY <3>4 DEF W
    <2> QED
      BY <2>1, <2>2
  <1> HIDE DEF P
  <1>4. \A U \in SUBSET T : U \in P
    BY <1>1, <1>2, <1>3, FiniteInduction
  <1>5. T \in P
    BY <1>4
  <1> QED
    BY <1>5 DEF P

\* The sum over two sets that have nothing in common.
LEMMA SumOfTwo ==
  ASSUME NEW S, IsFiniteSet(S), NEW f, NEW g, IsSum(g, f, S), f \in [S -> Int],
         NEW A \in SUBSET S, NEW B \in SUBSET S, A \cap B = {}
  PROVE  g[A \cup B] = g[A] + g[B]
  <1> DEFINE P == {U \in SUBSET B : g[A \cup U] = g[A] + g[U]}
  <1>1. IsFiniteSet(B)
    BY FS_Subset
  <1>2. \A U \in SUBSET S : g[U] \in Int
    BY DEF IsSum
  <1>3. {} \in P
    <2>1. A \cup {} = A /\ g[{}] = 0
      BY DEF IsSum
    <2> QED
      BY <1>2, <2>1
  <1>4. ASSUME NEW U \in SUBSET B, U \in P, NEW x \in B PROVE U \cup {x} \in P
    <2>1. CASE x \in U
      <3>1. U \cup {x} = U
        BY <2>1
      <3> QED
        BY <1>4, <3>1
    <2>2. CASE x \notin U
      <3> DEFINE W == U \cup {x}
                 V == A \cup W
                 Y == A \cup U
      <3>1. /\ W \in SUBSET B /\ W \in SUBSET S /\ x \in W /\ W \ {x} = U
            /\ V \in SUBSET S /\ x \in V /\ V \ {x} = Y /\ Y \in SUBSET S /\ U \in SUBSET S
        BY <2>2
      <3>2. g[Y] = g[A] + g[U]
        BY <1>4
      <3> HIDE DEF W, V, Y
      <3>3. g[W] = f[x] + g[U]
        BY <3>1 DEF IsSum
      <3>4. g[V] = f[x] + g[Y]
        BY <3>1 DEF IsSum
      <3>5. f[x] \in Int /\ g[A] \in Int /\ g[U] \in Int /\ g[Y] \in Int
        BY <1>2, <3>1
      <3>6. g[V] = g[A] + g[W]
        BY <3>2, <3>3, <3>4, <3>5
      <3>7. W \in P
        BY <3>1, <3>6 DEF V
      <3> QED
        BY <3>7 DEF W
    <2> QED
      BY <2>1, <2>2
  <1> HIDE DEF P
  <1>5. \A U \in SUBSET B : U \in P
    BY <1>1, <1>3, <1>4, FiniteInduction
  <1>6. B \in P
    BY <1>5
  <1> QED
    BY <1>6 DEF P

Additive(g, S) == \A A, B \in SUBSET S : A \cap B = {} => g[A \cup B] = g[A] + g[B]

\* The same, of every two such sets.
LEMMA SumIsAdditive ==
  ASSUME NEW S, IsFiniteSet(S), NEW f \in [S -> Int], NEW g, IsSum(g, f, S)
  PROVE  Additive(g, S)
  <1> SUFFICES ASSUME NEW A \in SUBSET S, NEW B \in SUBSET S, A \cap B = {}
               PROVE  g[A \cup B] = g[A] + g[B]
    BY DEF Additive
  <1> QED
    BY SumOfTwo

\* A sum of natural numbers.
LEMMA SumIsNat ==
  ASSUME NEW S, IsFiniteSet(S), NEW f \in [S -> Nat], NEW g, IsSum(g, f, S)
  PROVE  \A T \in SUBSET S : g[T] \in Nat
  <1> DEFINE P == {U \in SUBSET S : g[U] \in Nat}
  <1>1. {} \in P
    BY DEF IsSum
  <1>2. ASSUME NEW U \in SUBSET S, U \in P, NEW x \in S PROVE U \cup {x} \in P
    <2>1. CASE x \in U
      <3>1. U \cup {x} = U
        BY <2>1
      <3> QED
        BY <1>2, <3>1
    <2>2. CASE x \notin U
      <3> DEFINE W == U \cup {x}
      <3>1. W \in SUBSET S /\ x \in W /\ W \ {x} = U
        BY <2>2
      <3> HIDE DEF W
      <3>2. g[W] = f[x] + g[U] /\ g[U] \in Nat /\ f[x] \in Nat
        BY <1>2, <3>1 DEF IsSum
      <3>3. W \in P
        BY <3>1, <3>2
      <3> QED
        BY <3>3 DEF W
    <2> QED
      BY <2>1, <2>2
  <1> HIDE DEF P
  <1>3. \A U \in SUBSET S : U \in P
    BY <1>1, <1>2, FiniteInduction
  <1> QED
    BY <1>3 DEF P
===============================================================================
