---------------------------- MODULE LineageProofs -----------------------------
(***************************************************************************)
(* Proofs about Lineage, for any graph: what its walks and paths are, and  *)
(* that they agree; and for the graph of the enterprise, that the default  *)
(* depths are deep enough.                                                 *)
(***************************************************************************)
EXTENDS Lineage, FiniteSetTheorems, SequenceTheorems, RecursionProofs, TLAPS

-------------------------------------------------------------------------------
(* Walks.                                                                  *)

\* What a walk of one step more finds.
LEMMA WithinIs ==
  ASSUME NEW V, NEW E \in SUBSET (V \X V), NEW root \in V
  PROVE  /\ Within(0, root, E) = {root}
         /\ \A d \in Nat : \A n : n \in Within(d + 1, root, E) <=>
              n \in Within(d, root, E) \/ \E e \in E : e[1] \in Within(d, root, E) /\ e[2] = n
         /\ \A d \in Nat : Within(d, root, E) \in SUBSET V
  <1> DEFINE wider(S) == S \cup {e[2] : e \in {f \in E : f[1] \in S}}
             ball == CHOOSE g : g = [d \in Nat |-> IF d = 0 THEN {root} ELSE wider(g[d - 1])]
             T == SUBSET V
             step == [S \in T |-> wider(S)]
  <1>1. \A S \in T : wider(S) \in T
    OBVIOUS
  <1>2. \A S, n : n \in wider(S) <=> n \in S \/ \E e \in E : e[1] \in S /\ e[2] = n
    OBVIOUS
  <1>3. \A d \in Nat : Within(d, root, E) = ball[d]
    BY DEF Within
  <1>4. {root} \in T
    OBVIOUS
  <1> HIDE DEF wider, T
  <1>5. step \in [T -> T]
    BY <1>1
  <1>6. \A S \in T : step[S] = wider(S)
    OBVIOUS
  <1> HIDE DEF step
  <1>7. PICK f : f = [n \in Nat |-> IF n = 0 THEN {root} ELSE step[f[n - 1]]]
    BY <1>4, <1>5, Recursion
  <1>8. \A d \in Nat : f[d] \in T
    <2> DEFINE S == {d \in Nat : f[d] \in T}
    <2>1. 0 \in S
      BY <1>4, <1>7
    <2>2. ASSUME NEW d \in Nat, d \in S PROVE d + 1 \in S
      <3>1. d + 1 \in Nat /\ d + 1 # 0 /\ (d + 1) - 1 = d
        OBVIOUS
      <3>2. f[d + 1] = step[f[d]]
        BY <1>7, <3>1
      <3> QED
        BY <1>5, <2>2, <3>1, <3>2
    <2> HIDE DEF S
    <2>3. Nat \subseteq S
      BY <2>1, <2>2, AllNumbers
    <2> QED
      BY <2>3 DEF S
  <1>9. f = [d \in Nat |-> IF d = 0 THEN {root} ELSE wider(f[d - 1])]
    <2>1. \A d \in Nat \ {0} : d - 1 \in Nat
      OBVIOUS
    <2>2. \A d \in Nat \ {0} : step[f[d - 1]] = wider(f[d - 1])
      BY <1>6, <1>8, <2>1
    <2>3. f = [d \in Nat |-> f[d]]
      BY <1>7
    <2>4. \A d \in Nat : f[d] = IF d = 0 THEN {root} ELSE wider(f[d - 1])
      BY <1>7, <2>2
    <2> QED
      BY <2>3, <2>4
  <1>10. ball = [d \in Nat |-> IF d = 0 THEN {root} ELSE wider(ball[d - 1])]
    BY <1>9
  <1> HIDE DEF ball
  <1>11. ball[0] = {root} /\ \A d \in Nat : ball[d + 1] = wider(ball[d])
    <2>1. \A d \in Nat : d + 1 \in Nat /\ d + 1 # 0 /\ (d + 1) - 1 = d
      OBVIOUS
    <2> QED
      BY <1>10, <2>1
  <1>12. \A d \in Nat : ball[d] \in T
    <2> DEFINE S == {d \in Nat : ball[d] \in T}
    <2>1. 0 \in S
      BY <1>4, <1>11
    <2>2. ASSUME NEW d \in Nat, d \in S PROVE d + 1 \in S
      BY <1>1, <1>11, <2>2
    <2> HIDE DEF S
    <2>3. Nat \subseteq S
      BY <2>1, <2>2, AllNumbers
    <2> QED
      BY <2>3 DEF S
  <1> QED
    BY <1>2, <1>3, <1>11, <1>12 DEF T

-------------------------------------------------------------------------------
(* Paths.                                                                  *)

\* p goes on with the edge e.
Onward(p, e) == e[1] = Last(p) /\ ~Contains(p, e[2])

\* What paths of one step more there are.
LEMMA PathsAre ==
  ASSUME NEW V, NEW E \in SUBSET (V \X V), NEW root \in V
  PROVE  /\ SimplePaths(root, E, 0) = {<<root>>}
         /\ \A n \in Nat : \A p : p \in SimplePaths(root, E, n + 1) <=>
              \/ p \in SimplePaths(root, E, n)
              \/ \E q \in SimplePaths(root, E, n), e \in E : Onward(q, e) /\ p = Append(q, e[2])
         /\ \A n \in Nat : SimplePaths(root, E, n) \in SUBSET Seq(V)
  <1> DEFINE onward(p) == {e \in E : e[1] = Last(p) /\ ~Contains(p, e[2])}
             longer(P) == P \cup UNION {{Append(p, e[2]) : e \in onward(p)} : p \in P}
             paths == CHOOSE g : g = [n \in Nat |-> IF n = 0 THEN {<<root>>} ELSE longer(g[n - 1])]
             T == SUBSET Seq(V)
             step == [P \in T |-> longer(P)]
  <1>1. \A P, p : p \in longer(P) <=>
          p \in P \/ \E q \in P, e \in E : Onward(q, e) /\ p = Append(q, e[2])
    BY DEF Onward
  <1>2. \A n \in Nat : SimplePaths(root, E, n) = paths[n]
    BY DEF SimplePaths
  <1> HIDE DEF longer
  <1>3. \A P \in T : longer(P) \in T
    <2> SUFFICES ASSUME NEW P \in T, NEW p \in longer(P) PROVE p \in Seq(V)
      OBVIOUS
    <2>1. CASE p \in P
      BY <2>1
    <2>2. ASSUME NEW q \in P, NEW e \in E, p = Append(q, e[2]) PROVE p \in Seq(V)
      BY <2>2, AppendProperties
    <2> QED
      BY <1>1, <2>1, <2>2
  <1>4. {<<root>>} \in T
    OBVIOUS
  <1> HIDE DEF T
  <1>5. step \in [T -> T]
    BY <1>3
  <1>6. \A P \in T : step[P] = longer(P)
    OBVIOUS
  <1> HIDE DEF step
  <1>7. PICK f : f = [n \in Nat |-> IF n = 0 THEN {<<root>>} ELSE step[f[n - 1]]]
    BY <1>4, <1>5, Recursion
  <1>8. \A d \in Nat : f[d] \in T
    <2> DEFINE S == {d \in Nat : f[d] \in T}
    <2>1. 0 \in S
      BY <1>4, <1>7
    <2>2. ASSUME NEW d \in Nat, d \in S PROVE d + 1 \in S
      <3>1. d + 1 \in Nat /\ d + 1 # 0 /\ (d + 1) - 1 = d
        OBVIOUS
      <3>2. f[d + 1] = step[f[d]]
        BY <1>7, <3>1
      <3> QED
        BY <1>5, <2>2, <3>1, <3>2
    <2> HIDE DEF S
    <2>3. Nat \subseteq S
      BY <2>1, <2>2, AllNumbers
    <2> QED
      BY <2>3 DEF S
  <1>9. f = [n \in Nat |-> IF n = 0 THEN {<<root>>} ELSE longer(f[n - 1])]
    <2>1. \A d \in Nat \ {0} : d - 1 \in Nat
      OBVIOUS
    <2>2. \A d \in Nat \ {0} : step[f[d - 1]] = longer(f[d - 1])
      BY <1>6, <1>8, <2>1
    <2>3. f = [d \in Nat |-> f[d]]
      BY <1>7
    <2>4. \A d \in Nat : f[d] = IF d = 0 THEN {<<root>>} ELSE longer(f[d - 1])
      BY <1>7, <2>2
    <2> QED
      BY <2>3, <2>4
  <1>10. paths = [n \in Nat |-> IF n = 0 THEN {<<root>>} ELSE longer(paths[n - 1])]
    BY <1>9
  <1> HIDE DEF paths
  <1>11. paths[0] = {<<root>>} /\ \A d \in Nat : paths[d + 1] = longer(paths[d])
    <2>1. \A d \in Nat : d + 1 \in Nat /\ d + 1 # 0 /\ (d + 1) - 1 = d
      OBVIOUS
    <2> QED
      BY <1>10, <2>1
  <1>12. \A d \in Nat : paths[d] \in T
    <2> DEFINE S == {d \in Nat : paths[d] \in T}
    <2>1. 0 \in S
      BY <1>4, <1>11
    <2>2. ASSUME NEW d \in Nat, d \in S PROVE d + 1 \in S
      BY <1>3, <1>11, <2>2
    <2> HIDE DEF S
    <2>3. Nat \subseteq S
      BY <2>1, <2>2, AllNumbers
    <2> QED
      BY <2>3 DEF S
  <1>13. ASSUME NEW n \in Nat, NEW p
         PROVE  p \in SimplePaths(root, E, n + 1) <=>
                  \/ p \in SimplePaths(root, E, n)
                  \/ \E q \in SimplePaths(root, E, n), e \in E : Onward(q, e) /\ p = Append(q, e[2])
    <2>1. SimplePaths(root, E, n) = paths[n] /\ SimplePaths(root, E, n + 1) = longer(paths[n])
      BY <1>2, <1>11
    <2> QED
      BY <1>1, <2>1
  <1>14. SimplePaths(root, E, 0) = {<<root>>}
    BY <1>2, <1>11
  <1> QED
    BY <1>2, <1>12, <1>13, <1>14 DEF T

\* A way along edges of E that begins at root and visits no node twice.
IsPath(p, root, V, E) ==
  /\ p \in Seq(V) /\ Len(p) >= 1 /\ p[1] = root /\ IsInjective(p)
  /\ \A i \in 1 .. Len(p) - 1 : <<p[i], p[i + 1]>> \in E

\* One step more is a path again.
LEMMA OneStepMore ==
  ASSUME NEW V, NEW E \in SUBSET (V \X V), NEW root, NEW q, IsPath(q, root, V, E),
         NEW e \in E, Onward(q, e)
  PROVE  /\ IsPath(Append(q, e[2]), root, V, E) /\ Len(Append(q, e[2])) = Len(q) + 1
         /\ Last(Append(q, e[2])) = e[2]
         /\ \A i \in 1 .. Len(q) : Append(q, e[2])[i] = q[i]
  <1> DEFINE p == Append(q, e[2])
             n == Len(q)
  <1>1. e = <<e[1], e[2]>> /\ e[1] \in V /\ e[2] \in V
    OBVIOUS
  <1>2. q \in Seq(V) /\ n \in Nat \ {0} /\ q[1] = root /\ DOMAIN q = 1 .. n
    BY LenProperties DEF IsPath
  <1>3. /\ p \in Seq(V) /\ Len(p) = n + 1 /\ p[n + 1] = e[2]
        /\ \A i \in 1 .. n : p[i] = q[i]
    BY <1>1, <1>2, AppendProperties
  <1>4. DOMAIN p = 1 .. n + 1
    BY <1>3, LenProperties
  <1>5. e[1] = q[n] /\ \A i \in 1 .. n : q[i] # e[2]
    BY DEF Onward, Last, Contains
  <1> HIDE DEF p, n
  <1>6. IsInjective(p)
    <2>1. \A i, j \in 1 .. n : q[i] = q[j] => i = j
      BY <1>2 DEF IsPath, IsInjective
    <2>2. \A i \in 1 .. n + 1 : i \in 1 .. n \/ i = n + 1
      BY <1>2
    <2> QED
      BY <1>3, <1>4, <1>5, <2>1, <2>2 DEF IsInjective
  <1>7. ASSUME NEW i \in 1 .. Len(p) - 1 PROVE <<p[i], p[i + 1]>> \in E
    <2>1. CASE i = n
      BY <1>1, <1>2, <1>3, <1>5, <2>1
    <2>2. CASE i # n
      <3>1. i \in 1 .. n - 1 /\ i \in 1 .. n /\ i + 1 \in 1 .. n
        BY <1>2, <1>3, <2>2
      <3> QED
        BY <1>3, <3>1 DEF IsPath, n
    <2> QED
      BY <2>1, <2>2
  <1>8. Len(p) >= 1 /\ p[1] = root
    BY <1>2, <1>3
  <1>9. Last(p) = e[2]
    BY <1>3 DEF Last
  <1>10. IsPath(p, root, V, E)
    BY <1>3, <1>6, <1>7, <1>8 DEF IsPath
  <1> QED
    BY <1>3, <1>9, <1>10 DEF p, n

\* What SimplePaths finds are paths, and not too long.
LEMMA FoundPathsArePaths ==
  ASSUME NEW V, NEW E \in SUBSET (V \X V), NEW root \in V
  PROVE  \A k \in Nat : \A p \in SimplePaths(root, E, k) : IsPath(p, root, V, E) /\ Len(p) <= k + 1
  <1>0. /\ SimplePaths(root, E, 0) = {<<root>>}
        /\ \A n \in Nat : \A p : p \in SimplePaths(root, E, n + 1) <=>
             \/ p \in SimplePaths(root, E, n)
             \/ \E q \in SimplePaths(root, E, n), e \in E : Onward(q, e) /\ p = Append(q, e[2])
        /\ \A n \in Nat : SimplePaths(root, E, n) \in SUBSET Seq(V)
    BY PathsAre, Zenon
  <1> DEFINE Good(p, k) == IsPath(p, root, V, E) /\ Len(p) <= k + 1
             S == {k \in Nat : \A p \in SimplePaths(root, E, k) : Good(p, k)}
  <1>1. 0 \in S
    <2>1. Good(<<root>>, 0)
      BY DEF IsPath, IsInjective
    <2> HIDE DEF Good
    <2> QED
      BY <1>0, <2>1
  <1>2. ASSUME NEW k \in Nat, k \in S PROVE k + 1 \in S
    <2> SUFFICES ASSUME NEW p \in SimplePaths(root, E, k + 1) PROVE Good(p, k + 1)
      OBVIOUS
    <2>1. CASE p \in SimplePaths(root, E, k)
      <3>1. Good(p, k) /\ Len(p) \in Nat
        BY <1>2, <2>1, LenProperties DEF IsPath
      <3> QED
        BY <3>1
    <2>2. ASSUME NEW q \in SimplePaths(root, E, k), NEW e \in E, Onward(q, e), p = Append(q, e[2])
          PROVE  Good(p, k + 1)
      <3>1. Good(q, k) /\ Len(q) \in Nat
        BY <1>2, LenProperties DEF IsPath
      <3>2. IsPath(p, root, V, E) /\ Len(p) = Len(q) + 1
        BY <2>2, <3>1, OneStepMore
      <3> QED
        BY <3>1, <3>2
    <2> HIDE DEF Good
    <2> QED
      BY <1>0, <2>1, <2>2
  <1> HIDE DEF S
  <1>3. Nat \subseteq S
    BY <1>1, <1>2, AllNumbers
  <1> QED
    BY <1>3 DEF S

\* Longer walks find more.
LEMMA WithinGrows ==
  ASSUME NEW V, NEW E \in SUBSET (V \X V), NEW root \in V, NEW d \in Nat, NEW k \in Nat, d <= k
  PROVE  Within(d, root, E) \subseteq Within(k, root, E) /\ root \in Within(d, root, E)
  <1>0. /\ Within(0, root, E) = {root}
        /\ \A j \in Nat : \A n : n \in Within(j + 1, root, E) <=>
             n \in Within(j, root, E) \/ \E e \in E : e[1] \in Within(j, root, E) /\ e[2] = n
        /\ \A j \in Nat : Within(j, root, E) \in SUBSET V
    BY WithinIs, Zenon
  <1> DEFINE S == {j \in Nat : Within(d, root, E) \subseteq Within(d + j, root, E)}
  <1>1. 0 \in S
    OBVIOUS
  <1>2. ASSUME NEW j \in Nat, j \in S PROVE j + 1 \in S
    <2>1. d + j \in Nat /\ (d + j) + 1 = d + (j + 1)
      OBVIOUS
    <2>2. Within(d + j, root, E) \subseteq Within((d + j) + 1, root, E)
      BY <2>1, WithinIs
    <2> QED
      BY <1>2, <2>1, <2>2
  <1> HIDE DEF S
  <1>3. Nat \subseteq S
    BY <1>1, <1>2, AllNumbers
  <1>4. k - d \in S
    BY <1>3
  <1> DEFINE R == {j \in Nat : root \in Within(j, root, E)}
  <1>5. 0 \in R
    BY <1>0
  <1>6. \A j \in Nat : j \in R => j + 1 \in R
    BY <1>0
  <1> HIDE DEF R
  <1>7. Nat \subseteq R
    BY <1>5, <1>6, AllNumbers
  <1>8. d + (k - d) = k
    OBVIOUS
  <1> QED
    BY <1>4, <1>7, <1>8 DEF S, R

\* A path does not leave a walk of as many steps.
LEMMA PathsStayWithin ==
  ASSUME NEW V, NEW E \in SUBSET (V \X V), NEW root \in V, NEW p, IsPath(p, root, V, E)
  PROVE  \A i \in 1 .. Len(p) : p[i] \in Within(i - 1, root, E)
  <1>0. /\ Within(0, root, E) = {root}
        /\ \A d \in Nat : \A n : n \in Within(d + 1, root, E) <=>
             n \in Within(d, root, E) \/ \E e \in E : e[1] \in Within(d, root, E) /\ e[2] = n
        /\ \A d \in Nat : Within(d, root, E) \in SUBSET V
    BY WithinIs, Zenon
  <1> DEFINE S == {i \in Nat : i + 1 <= Len(p) => p[i + 1] \in Within(i, root, E)}
  <1>1. Len(p) \in Nat /\ p[1] = root
    BY LenProperties DEF IsPath
  <1>2. 0 \in S
    BY <1>0, <1>1
  <1>3. ASSUME NEW i \in Nat, i \in S PROVE i + 1 \in S
    <2> SUFFICES ASSUME (i + 1) + 1 <= Len(p) PROVE p[(i + 1) + 1] \in Within(i + 1, root, E)
      OBVIOUS
    <2>1. p[i + 1] \in Within(i, root, E) /\ i + 1 \in 1 .. Len(p) - 1
      BY <1>1, <1>3
    <2>2. <<p[i + 1], p[(i + 1) + 1]>> \in E
      BY <2>1 DEF IsPath
    <2> DEFINE e == <<p[i + 1], p[(i + 1) + 1]>>
    <2>3. e[1] \in Within(i, root, E) /\ e[2] = p[(i + 1) + 1] /\ e \in E
      BY <2>1, <2>2
    <2> HIDE DEF e
    <2> QED
      BY <1>0, <2>3
  <1> HIDE DEF S
  <1>4. Nat \subseteq S
    BY <1>2, <1>3, AllNumbers
  <1>5. ASSUME NEW i \in 1 .. Len(p) PROVE p[i] \in Within(i - 1, root, E)
    <2>1. i - 1 \in Nat /\ (i - 1) + 1 = i /\ i <= Len(p)
      BY <1>1
    <2>2. i - 1 \in S
      BY <1>4, <2>1
    <2> QED
      BY <2>1, <2>2 DEF S
  <1> QED
    BY <1>5

\* A path that stays in a set can be found there: as short as the walk that finds its end.
LEMMA WithinIsReached ==
  ASSUME NEW V, NEW E \in SUBSET (V \X V), NEW root \in V, NEW D \in Nat, NEW B,
         Within(D, root, E) \subseteq B
  PROVE  \A d \in 0 .. D : \A n \in Within(d, root, E) :
           \E p \in SimplePaths(root, Induced(B, E), d) : Last(p) = n
  <1> DEFINE F == Induced(B, E)
             Reached(n, d) == \E p \in SimplePaths(root, F, d) :
                                Last(p) = n /\ \A i \in 1 .. Len(p) : p[i] \in Within(d, root, E)
             S == {d \in Nat : d <= D => \A n \in Within(d, root, E) : Reached(n, d)}
  <1>1. F \in SUBSET (V \X V) /\ \A e \in E : e[1] \in B /\ e[2] \in B => e \in F
    BY DEF Induced
  <1> HIDE DEF F
  <1>2. /\ Within(0, root, E) = {root}
        /\ \A d \in Nat : \A n : n \in Within(d + 1, root, E) <=>
             n \in Within(d, root, E) \/ \E e \in E : e[1] \in Within(d, root, E) /\ e[2] = n
        /\ \A d \in Nat : Within(d, root, E) \in SUBSET V
    BY WithinIs, Zenon
  <1>3. /\ SimplePaths(root, F, 0) = {<<root>>}
        /\ \A n \in Nat : \A p : p \in SimplePaths(root, F, n + 1) <=>
             \/ p \in SimplePaths(root, F, n)
             \/ \E q \in SimplePaths(root, F, n), e \in F : Onward(q, e) /\ p = Append(q, e[2])
        /\ \A n \in Nat : SimplePaths(root, F, n) \in SUBSET Seq(V)
    BY <1>1, PathsAre, Zenon
  <1>4. 0 \in S
    <2>1. Last(<<root>>) = root /\ Len(<<root>>) = 1 /\ <<root>>[1] = root
      BY DEF Last
    <2>2. \A i \in 1 .. Len(<<root>>) : <<root>>[i] \in Within(0, root, E)
      BY <1>2, <2>1
    <2> QED
      BY <1>2, <1>3, <2>1, <2>2
  <1>5. ASSUME NEW d \in Nat, d \in S PROVE d + 1 \in S
    <2> SUFFICES ASSUME d + 1 <= D, NEW n \in Within(d + 1, root, E) PROVE Reached(n, d + 1)
      OBVIOUS
    <2>1. d <= D /\ \A m \in Within(d, root, E) : Reached(m, d)
      BY <1>5
    <2>2. Within(d, root, E) \subseteq Within(d + 1, root, E)
      BY <1>2
    <2>3. CASE n \in Within(d, root, E)
      <3>1. PICK p \in SimplePaths(root, F, d) :
              Last(p) = n /\ \A i \in 1 .. Len(p) : p[i] \in Within(d, root, E)
        BY <2>1, <2>3
      <3>2. p \in SimplePaths(root, F, d + 1)
        BY <1>3
      <3> QED
        BY <2>2, <3>1, <3>2
    <2>4. CASE n \notin Within(d, root, E)
      <3>1. PICK e \in E : e[1] \in Within(d, root, E) /\ e[2] = n
        BY <1>2, <2>4
      <3>2. e \in F
        <4>1. Within(d + 1, root, E) \subseteq B
          BY WithinGrows
        <4> QED
          BY <1>1, <2>2, <3>1, <4>1
      <3>3. PICK q \in SimplePaths(root, F, d) :
              Last(q) = e[1] /\ \A i \in 1 .. Len(q) : q[i] \in Within(d, root, E)
        BY <2>1, <3>1
      <3>4. Onward(q, e)
        BY <2>4, <3>1, <3>3 DEF Onward, Contains
      <3>5. IsPath(q, root, V, F)
        BY <1>1, FoundPathsArePaths
      <3> DEFINE p == Append(q, e[2])
      <3>6. /\ Len(p) = Len(q) + 1 /\ Last(p) = n /\ Len(q) \in Nat
            /\ \A i \in 1 .. Len(q) : p[i] = q[i]
        BY <1>1, <3>1, <3>2, <3>4, <3>5, OneStepMore, LenProperties DEF IsPath
      <3>7. p \in SimplePaths(root, F, d + 1)
        BY <1>3, <3>2, <3>4
      <3> HIDE DEF p
      <3>8. \A i \in 1 .. Len(p) : p[i] \in Within(d + 1, root, E)
        <4>1. p[Len(p)] = n
          BY <3>6 DEF Last
        <4>2. \A i \in 1 .. Len(p) : i \in 1 .. Len(q) \/ i = Len(p)
          BY <3>6
        <4> QED
          BY <2>2, <3>3, <3>6, <4>1, <4>2
      <3> QED
        BY <3>6, <3>7, <3>8
    <2> QED
      BY <2>3, <2>4
  <1> HIDE DEF S
  <1>6. Nat \subseteq S
    BY <1>4, <1>5, AllNumbers
  <1> QED
    BY <1>6 DEF S, F

-------------------------------------------------------------------------------
(* Looking back.                                                           *)

\* A walk of one step more from root is a walk from root or from behind one of its edges.
LEMMA FirstStep ==
  ASSUME NEW V, NEW E \in SUBSET (V \X V)
  PROVE  \A d \in Nat : \A r, n \in V :
           n \in Within(d + 1, r, E) <=>
             n \in Within(d, r, E) \/ \E e \in E : e[1] = r /\ n \in Within(d, e[2], E)
  <1> DEFINE Steps1(d) == \A r, n \in V :
               n \in Within(d + 1, r, E) <=>
                 n \in Within(d, r, E) \/ \E e \in E : e[1] = r /\ n \in Within(d, e[2], E)
             S == {d \in Nat : Steps1(d)}
  <1>1. ASSUME NEW r \in V
        PROVE  /\ Within(0, r, E) = {r}
               /\ \A d \in Nat : \A n : n \in Within(d + 1, r, E) <=>
                    n \in Within(d, r, E) \/ \E e \in E : e[1] \in Within(d, r, E) /\ e[2] = n
               /\ \A d \in Nat : Within(d, r, E) \in SUBSET V
    BY WithinIs, Zenon
  <1>2. \A e \in E : e[1] \in V /\ e[2] \in V
    OBVIOUS
  <1>3. 0 \in S
    <2> SUFFICES ASSUME NEW r \in V, NEW n \in V
                 PROVE  n \in Within(0 + 1, r, E) <=>
                          n \in Within(0, r, E) \/ \E e \in E : e[1] = r /\ n \in Within(0, e[2], E)
      OBVIOUS
    <2>1. n \in Within(0 + 1, r, E) <=> n = r \/ \E e \in E : e[1] = r /\ e[2] = n
      <3>1. /\ \A x : x \in Within(0, r, E) <=> x = r
            /\ 0 \in Nat
            /\ \A d \in Nat : \A x : x \in Within(d + 1, r, E) <=>
                 x \in Within(d, r, E) \/ \E e \in E : e[1] \in Within(d, r, E) /\ e[2] = x
        BY <1>1
      <3> HIDE DEF S, Steps1
      <3> QED
        BY <3>1
    <2>2. \A e \in E : n \in Within(0, e[2], E) <=> n = e[2]
      BY <1>1, <1>2
    <2> QED
      BY <1>1, <2>1, <2>2
  <1>4. ASSUME NEW d \in Nat, d \in S PROVE d + 1 \in S
    <2> SUFFICES ASSUME NEW r \in V, NEW n \in V
                 PROVE  n \in Within((d + 1) + 1, r, E) <=>
                          \/ n \in Within(d + 1, r, E)
                          \/ \E e \in E : e[1] = r /\ n \in Within(d + 1, e[2], E)
      OBVIOUS
    <2>1. \A q, m \in V :
            m \in Within(d + 1, q, E) <=>
              m \in Within(d, q, E) \/ \E e \in E : e[1] = q /\ m \in Within(d, e[2], E)
      BY <1>4
    <2>2. \A q \in V : \A m : m \in Within(d + 1, q, E) <=>
            m \in Within(d, q, E) \/ \E e \in E : e[1] \in Within(d, q, E) /\ e[2] = m
      BY <1>1
    <2>3. \A q \in V : \A m : m \in Within((d + 1) + 1, q, E) <=>
            m \in Within(d + 1, q, E) \/ \E e \in E : e[1] \in Within(d + 1, q, E) /\ e[2] = m
      <3>1. d + 1 \in Nat
        OBVIOUS
      <3> QED
        BY <1>1, <3>1
    <2>4. ASSUME NEW e \in E, e[1] \in Within(d + 1, r, E), e[2] = n
          PROVE  n \in Within(d + 1, r, E) \/ \E f \in E : f[1] = r /\ n \in Within(d + 1, f[2], E)
      <3>1. CASE e[1] \in Within(d, r, E)
        BY <2>2, <2>4, <3>1
      <3>2. ASSUME NEW f \in E, f[1] = r, e[1] \in Within(d, f[2], E)
            PROVE  n \in Within(d + 1, f[2], E)
        BY <1>2, <2>2, <2>4, <3>2
      <3> QED
        BY <1>2, <2>1, <2>4, <3>1, <3>2
    <2>5. ASSUME NEW f \in E, f[1] = r, n \in Within(d + 1, f[2], E)
          PROVE  n \in Within((d + 1) + 1, r, E)
      <3>1. CASE n \in Within(d, f[2], E)
        BY <2>1, <2>3, <2>5, <3>1
      <3>2. ASSUME NEW e \in E, e[1] \in Within(d, f[2], E), e[2] = n
            PROVE  n \in Within((d + 1) + 1, r, E)
        <4>1. e[1] \in Within(d + 1, r, E)
          BY <1>2, <2>1, <2>5, <3>2
        <4> QED
          BY <2>3, <3>2, <4>1
      <3> QED
        BY <1>2, <2>2, <2>5, <3>1, <3>2
    <2> QED
      BY <2>3, <2>4, <2>5
  <1> HIDE DEF S
  <1>5. Nat \subseteq S
    BY <1>3, <1>4, AllNumbers
  <1> QED
    BY <1>5 DEF S

\* The edges of the reversed graph.
LEMMA ReversedIs ==
  ASSUME NEW V, NEW E \in SUBSET (V \X V)
  PROVE  /\ Reversed(E) \in SUBSET (V \X V)
         /\ \A x, y : <<x, y>> \in Reversed(E) <=> <<y, x>> \in E
  BY DEF Reversed

\* One walks from a node to another exactly if one walks back on the reversed graph.
LEMMA Mirror ==
  ASSUME NEW V, NEW E \in SUBSET (V \X V)
  PROVE  \A d \in Nat : \A r, n \in V :
           n \in Within(d, r, E) <=> r \in Within(d, n, Reversed(E))
  <1> DEFINE R == Reversed(E)
             S == {d \in Nat : \A r, n \in V : n \in Within(d, r, E) <=> r \in Within(d, n, R)}
  <1>1. R \in SUBSET (V \X V) /\ \A x, y : <<x, y>> \in R <=> <<y, x>> \in E
    BY ReversedIs
  <1> HIDE DEF R
  <1>2. ASSUME NEW r \in V
        PROVE  /\ Within(0, r, E) = {r}
               /\ \A d \in Nat : \A n : n \in Within(d + 1, r, E) <=>
                    n \in Within(d, r, E) \/ \E e \in E : e[1] \in Within(d, r, E) /\ e[2] = n
               /\ \A d \in Nat : Within(d, r, E) \in SUBSET V
    BY WithinIs, Zenon
  <1>3. ASSUME NEW r \in V
        PROVE  /\ Within(0, r, R) = {r}
               /\ \A d \in Nat : \A n : n \in Within(d + 1, r, R) <=>
                    n \in Within(d, r, R) \/ \E e \in R : e[1] \in Within(d, r, R) /\ e[2] = n
               /\ \A d \in Nat : Within(d, r, R) \in SUBSET V
    BY <1>1, WithinIs, Zenon
  <1>4. \A d \in Nat : \A r, n \in V :
          n \in Within(d + 1, r, R) <=>
            n \in Within(d, r, R) \/ \E e \in R : e[1] = r /\ n \in Within(d, e[2], R)
    BY <1>1, FirstStep
  <1>5. 0 \in S
    BY <1>2, <1>3
  <1>6. ASSUME NEW d \in Nat, d \in S PROVE d + 1 \in S
    <2> SUFFICES ASSUME NEW r \in V, NEW n \in V
                 PROVE  n \in Within(d + 1, r, E) <=> r \in Within(d + 1, n, R)
      OBVIOUS
    <2>1. \A q, m \in V : m \in Within(d, q, E) <=> q \in Within(d, m, R)
      BY <1>6
    <2>2. n \in Within(d + 1, r, E) <=>
            n \in Within(d, r, E) \/ \E x \in V : <<x, n>> \in E /\ x \in Within(d, r, E)
      <3>1. \A e \in E : e = <<e[1], e[2]>> /\ e[1] \in V
        OBVIOUS
      <3>2. ASSUME NEW x \in V, <<x, n>> \in E, x \in Within(d, r, E)
            PROVE  \E e \in E : e[1] \in Within(d, r, E) /\ e[2] = n
        <4> DEFINE e == <<x, n>>
        <4>1. e \in E /\ e[1] = x /\ e[2] = n
          BY <3>2
        <4> HIDE DEF e
        <4> QED
          BY <3>2, <4>1
      <3>3. ASSUME NEW e \in E, e[1] \in Within(d, r, E), e[2] = n
            PROVE  \E x \in V : <<x, n>> \in E /\ x \in Within(d, r, E)
        <4>1. <<e[1], n>> \in E /\ e[1] \in V
          BY <3>1, <3>3
        <4> QED
          BY <3>3, <4>1
      <3>4. n \in Within(d + 1, r, E) <=>
              n \in Within(d, r, E) \/ \E e \in E : e[1] \in Within(d, r, E) /\ e[2] = n
        BY <1>2
      <3> QED
        BY <3>2, <3>3, <3>4
    <2>3. r \in Within(d + 1, n, R) <=>
            r \in Within(d, n, R) \/ \E x \in V : <<n, x>> \in R /\ r \in Within(d, x, R)
      <3>1. \A e \in R : e = <<e[1], e[2]>> /\ e[2] \in V
        BY <1>1
      <3>2. ASSUME NEW x \in V, <<n, x>> \in R, r \in Within(d, x, R)
            PROVE  \E e \in R : e[1] = n /\ r \in Within(d, e[2], R)
        <4> DEFINE e == <<n, x>>
        <4>1. e \in R /\ e[1] = n /\ e[2] = x
          BY <3>2
        <4> HIDE DEF e
        <4> QED
          BY <3>2, <4>1
      <3>3. ASSUME NEW e \in R, e[1] = n, r \in Within(d, e[2], R)
            PROVE  \E x \in V : <<n, x>> \in R /\ r \in Within(d, x, R)
        <4>1. <<n, e[2]>> \in R /\ e[2] \in V
          BY <3>1, <3>3
        <4> QED
          BY <3>3, <4>1
      <3>4. r \in Within(d + 1, n, R) <=>
              r \in Within(d, n, R) \/ \E e \in R : e[1] = n /\ r \in Within(d, e[2], R)
        BY <1>4
      <3> QED
        BY <3>2, <3>3, <3>4
    <2> QED
      BY <1>1, <2>1, <2>2, <2>3
  <1> HIDE DEF S
  <1>7. Nat \subseteq S
    BY <1>5, <1>6, AllNumbers
  <1> QED
    BY <1>7 DEF S, R

-------------------------------------------------------------------------------
(* Paths in either direction, and their number.                            *)

\* One for each of finitely many: as many.
LEMMA SameNumber ==
  ASSUME NEW S, IsFiniteSet(S), NEW T, NEW f \in [S -> T],
         \A x, y \in S : f[x] = f[y] => x = y, \A t \in T : \E x \in S : f[x] = t
  PROVE  IsFiniteSet(T) /\ Cardinality(T) = Cardinality(S)
  <1>1. f \in Bijection(S, T)
    BY DEF Bijection, Injection, Surjection, IsInjective
  <1>2. ExistsBijection(S, T)
    BY <1>1 DEF ExistsBijection
  <1> QED
    BY <1>2, FS_Bijection

\* A finite graph has finitely many paths of some length.
LEMMA PathsAreFinite ==
  ASSUME NEW V, NEW E \in SUBSET (V \X V), NEW root \in V, IsFiniteSet(V)
  PROVE  \A n \in Nat : IsFiniteSet(SimplePaths(root, E, n))
  <1> DEFINE S == {n \in Nat : IsFiniteSet(SimplePaths(root, E, n))}
  <1>1. /\ SimplePaths(root, E, 0) = {<<root>>}
        /\ \A n \in Nat : \A p : p \in SimplePaths(root, E, n + 1) <=>
             \/ p \in SimplePaths(root, E, n)
             \/ \E q \in SimplePaths(root, E, n), e \in E : Onward(q, e) /\ p = Append(q, e[2])
        /\ \A n \in Nat : SimplePaths(root, E, n) \in SUBSET Seq(V)
    BY PathsAre, Zenon
  <1>2. 0 \in S
    BY <1>1, FS_Singleton
  <1>3. ASSUME NEW n \in Nat, n \in S PROVE n + 1 \in S
    <2> DEFINE P == SimplePaths(root, E, n)
               Q == SimplePaths(root, E, n + 1)
               f == [x \in P \X V |-> Append(x[1], x[2])]
               I == {f[x] : x \in P \X V}
    <2>1. IsFiniteSet(P)
      BY <1>3
    <2>2. IsFiniteSet(P \X V)
      BY <2>1, FS_Product
    <2>3. f \in Surjection(P \X V, I)
      BY DEF Surjection
    <2>4. IsFiniteSet(I)
      <3> HIDE DEF I, f
      <3> QED
        BY <2>2, <2>3, FS_Surjection
    <2>5. IsFiniteSet(P \cup I)
      BY <2>1, <2>4, FS_Union
    <2>6. \A q \in P, v \in V : Append(q, v) \in I
      <3> SUFFICES ASSUME NEW q \in P, NEW v \in V PROVE Append(q, v) \in I
        OBVIOUS
      <3>1. <<q, v>> \in P \X V /\ f[<<q, v>>] = Append(q, v)
        OBVIOUS
      <3> QED
        BY <3>1
    <2>7. Q \subseteq P \cup I
      <3> SUFFICES ASSUME NEW p \in Q, p \notin P PROVE p \in I
        OBVIOUS
      <3> HIDE DEF I, f
      <3>1. PICK q \in P, e \in E : p = Append(q, e[2])
        BY <1>1
      <3> QED
        BY <2>6, <3>1
    <2> HIDE DEF P, I
    <2>8. IsFiniteSet(Q)
      BY <2>5, <2>7, FS_Subset
    <2> QED
      BY <2>8
  <1> HIDE DEF S
  <1>4. Nat \subseteq S
    BY <1>2, <1>3, AllNumbers
  <1> QED
    BY <1>4 DEF S

\* The edges of a walk in the direction of the data.
LEMMA OrientedIs ==
  ASSUME NEW V, NEW E \in SUBSET (V \X V), NEW direction
  PROVE  /\ Oriented(direction, E) \in SUBSET (V \X V)
         /\ direction = "upstream" =>
              \A x, y : <<x, y>> \in Oriented(direction, E) <=> <<y, x>> \in E
         /\ direction # "upstream" => Oriented(direction, E) = E
  BY ReversedIs DEF Oriented

\* p is the path q, found from root on along F, as it is given to the caller.
IsGiven(p, q, direction, root, V, F) ==
  /\ p \in Seq(V) /\ Len(p) = Len(q) /\ Len(q) \in Nat \ {0}
  /\ IsInjective(p) /\ ToSet(p) = ToSet(q)
  /\ direction = "upstream" =>
       Last(p) = root /\ Head(p) = Last(q) /\ \A e \in Steps(p) : <<e[2], e[1]>> \in F
  /\ direction # "upstream" =>
       Head(p) = root /\ Last(p) = Last(q) /\ \A e \in Steps(p) : e \in F
  /\ \A e \in Steps(p) : e = <<e[1], e[2]>>
  /\ DataFlow(direction, p) = q

\* Paths are given so that a caller can tell what was found.
LEMMA FlowIs ==
  ASSUME NEW V, NEW F \in SUBSET (V \X V), NEW root \in V, NEW q, IsPath(q, root, V, F),
         NEW direction, NEW p, p = DataFlow(direction, q)
  PROVE  IsGiven(p, q, direction, root, V, F)
  <1> DEFINE n == Len(q)
  <1>1. q \in Seq(V) /\ n \in Nat \ {0} /\ DOMAIN q = 1 .. n /\ q[1] = root /\ q \in [1 .. n -> V]
    BY LenProperties DEF IsPath
  <1>2. \A i \in 1 .. n - 1 : <<q[i], q[i + 1]>> \in F
    BY DEF IsPath
  <1>3. Head(q) = q[1]
    BY <1>1
  <1>4. \A e \in Steps(p) : e = <<e[1], e[2]>>
    BY DEF Steps
  <1>5. CASE direction # "upstream"
    <2>1. p = q
      BY <1>5 DEF DataFlow
    <2>2. \A e \in Steps(p) : e \in F
      BY <1>2, <2>1 DEF Steps
    <2> QED
      BY <1>1, <1>3, <1>4, <1>5, <2>1, <2>2 DEF IsPath, IsGiven
  <1>6. CASE direction = "upstream"
    <2>1. p = [i \in 1 .. n |-> q[(n - i) + 1]]
      BY <1>6 DEF DataFlow, Reverse
    <2>2. \A i \in 1 .. n : (n - i) + 1 \in 1 .. n /\ (n - ((n - i) + 1)) + 1 = i
      BY <1>1
    <2>3. p \in [1 .. n -> V]
      BY <1>1, <2>1, <2>2
    <2>4. p \in Seq(V) /\ Len(p) = n /\ DOMAIN p = 1 .. n
      BY <1>1, <2>3
    <2>5. \A i \in 1 .. n : p[i] = q[(n - i) + 1] /\ p[(n - i) + 1] = q[i]
      BY <2>1, <2>2
    <2>6. Last(p) = root /\ Head(p) = Last(q)
      <3>1. p[n] = q[1] /\ p[1] = q[n]
        <4>1. 1 \in 1 .. n /\ n \in 1 .. n /\ (n - n) + 1 = 1
          BY <1>1
        <4> QED
          BY <2>5, <4>1
      <3>2. Head(p) = p[1]
        BY <1>1, <2>4
      <3> QED
        BY <1>1, <2>4, <3>1, <3>2 DEF Last
    <2>7. IsInjective(p)
      <3>1. \A i, j \in 1 .. n : q[i] = q[j] => i = j
        BY <1>1 DEF IsPath, IsInjective
      <3> SUFFICES ASSUME NEW i \in 1 .. n, NEW j \in 1 .. n, p[i] = p[j] PROVE i = j
        BY <2>4 DEF IsInjective
      <3>2. (n - i) + 1 \in 1 .. n /\ (n - j) + 1 \in 1 .. n
        BY <2>2
      <3>3. p[i] = q[(n - i) + 1] /\ p[j] = q[(n - j) + 1]
        BY <2>5
      <3>4. (n - i) + 1 = (n - j) + 1
        BY <3>1, <3>2, <3>3, Zenon
      <3> QED
        BY <1>1, <3>4
    <2>8. ToSet(p) = ToSet(q)
      <3>1. ToSet(p) = {p[i] : i \in 1 .. n} /\ ToSet(q) = {q[i] : i \in 1 .. n}
        BY <1>1, <2>4 DEF ToSet
      <3>2. \A i \in 1 .. n : p[i] \in ToSet(q) /\ q[i] \in ToSet(p)
        BY <2>2, <2>5, <3>1
      <3> QED
        BY <3>1, <3>2
    <2>9. ASSUME NEW e \in Steps(p) PROVE <<e[2], e[1]>> \in F
      <3>1. PICK i \in 1 .. n - 1 : e = <<p[i], p[i + 1]>>
        BY <2>4 DEF Steps
      <3>2. /\ i \in 1 .. n /\ i + 1 \in 1 .. n /\ n - i \in 1 .. n - 1
            /\ (n - (i + 1)) + 1 = n - i
        BY <1>1
      <3>3. p[i] = q[(n - i) + 1] /\ p[i + 1] = q[n - i]
        BY <2>5, <3>2
      <3> QED
        BY <1>2, <3>1, <3>2, <3>3
    <2>10. DataFlow(direction, p) = q
      <3>1. DataFlow(direction, p) = [i \in 1 .. n |-> p[(n - i) + 1]]
        BY <1>6, <2>4 DEF DataFlow, Reverse
      <3>2. q = [i \in 1 .. n |-> q[i]]
        BY <1>1
      <3> QED
        BY <2>5, <3>1, <3>2
    <2>11. \A e \in Steps(p) : <<e[2], e[1]>> \in F
      BY <2>9
    <2> HIDE DEF n
    <2>12. /\ p \in Seq(V) /\ Len(p) = Len(q) /\ Len(q) \in Nat \ {0}
           /\ IsInjective(p) /\ ToSet(p) = ToSet(q)
           /\ \A e \in Steps(p) : e = <<e[1], e[2]>>
           /\ DataFlow(direction, p) = q
      BY <1>1, <1>4, <2>4, <2>7, <2>8, <2>10, Zenon DEF n
    <2> QED
      BY <1>6, <2>6, <2>11, <2>12, Zenon DEF IsGiven
  <1> QED
    BY <1>5, <1>6

-------------------------------------------------------------------------------
(* The graph and the reply.                                                *)

\* The reply to a walk or a path is of the graph as it is.
GraphInv ==
  /\ cached \in BOOLEAN
  /\ nodes \subseteq IF cached THEN AtlasNodes ELSE Names
  /\ IsFiniteSet(nodes)
  /\ edges \subseteq nodes \X nodes
  /\ reply.direction \in Directions \cup {"none", "error", "path"}
  /\ IsWalk =>
       /\ reply.root \in nodes /\ reply.depth \in Nat
       /\ reply \in Results(reply.direction, reply.root, reply.depth)
  /\ reply.direction = "path" =>
       /\ reply.root \in nodes /\ reply.target \in nodes
       /\ LET shortest == ShortestPaths(reply.root, reply.target, edges)
          IN  \/ shortest = {} /\ reply.nodes = {} /\ reply.edges = {} /\ reply.paths = {}
              \/ \E p \in shortest :
                   reply.nodes = ToSet(p) /\ reply.edges = EdgesAlong(p) /\ reply.paths = {p}

\* The reply to a walk names what was asked for.
LEMMA ResultsAreWalks ==
  ASSUME NEW direction \in Directions, NEW root, NEW depth, NEW r \in Results(direction, root, depth)
  PROVE  r.direction = direction /\ r.root = root /\ r.depth = depth
  BY DEF Results

\* Both stores that a caller begins with are of the form.
LEMMA GraphInvInit == Init => GraphInv
  <1> SUFFICES ASSUME Init PROVE GraphInv
    OBVIOUS
  <1>1. reply.direction = "none"
    BY DEF Init, None
  <1>2. ~IsWalk /\ reply.direction # "path"
    BY <1>1 DEF IsWalk, Directions
  <1>3. /\ cached \in BOOLEAN /\ nodes \subseteq (IF cached THEN AtlasNodes ELSE Names)
        /\ IsFiniteSet(nodes) /\ edges \subseteq nodes \X nodes
    BY AtlasIsClosed, FS_EmptySet DEF Init
  <1> QED
    BY <1>1, <1>2, <1>3 DEF GraphInv

\* Each call and its return keep it.
LEMMA GraphInvNext == GraphInv /\ [Next]_vars => GraphInv'
  <1> SUFFICES ASSUME GraphInv, [Next]_vars PROVE GraphInv'
    OBVIOUS
  <1> DEFINE Graph ==
               /\ cached \in BOOLEAN /\ nodes \subseteq (IF cached THEN AtlasNodes ELSE Names)
               /\ IsFiniteSet(nodes) /\ edges \subseteq nodes \X nodes
  <1>1. Graph
    BY DEF GraphInv
  <1>2. ASSUME Graph', reply'.direction \in {"none", "error"} PROVE GraphInv'
    <2>1. ~IsWalk' /\ reply'.direction # "path"
      BY <1>2 DEF IsWalk, Directions
    <2> QED
      BY <1>2, <2>1 DEF GraphInv
  <1>3. None.direction = "none" /\ Error.direction = "error"
    BY DEF None, Error
  <1>4. ASSUME UNCHANGED <<cached, nodes, edges>>
        PROVE  /\ Graph'
               /\ \A d, r, k : Results(d, r, k)' = Results(d, r, k)
               /\ \A s, t : ShortestPaths(s, t, edges)' = ShortestPaths(s, t, edges)
               /\ \A p : EdgesAlong(p)' = EdgesAlong(p)
    <2>1. Graph'
      BY <1>1, <1>4
    <2>2. \A d, r, k : Results(d, r, k)' = Results(d, r, k)
      BY <1>4 DEF Results
    <2>3. \A s, t : ShortestPaths(s, t, edges)' = ShortestPaths(s, t, edges)
      BY <1>4 DEF ShortestPaths
    <2>4. \A p : EdgesAlong(p)' = EdgesAlong(p)
      BY <1>4 DEF EdgesAlong
    <2> QED
      BY <2>1, <2>2, <2>3, <2>4
  <1>5. CASE UNCHANGED vars
    <2>1. UNCHANGED <<cached, nodes, edges>> /\ UNCHANGED reply
      BY <1>5 DEF vars
    <2> HIDE DEF Graph
    <2>2. /\ \A d, r, k : Results(d, r, k)' = Results(d, r, k)
          /\ \A s, t : ShortestPaths(s, t, edges)' = ShortestPaths(s, t, edges)
          /\ \A p : EdgesAlong(p)' = EdgesAlong(p)
      BY <1>4, <2>1
    <2> QED
      BY <2>1, <2>2 DEF GraphInv, IsWalk
  <1>6. CASE Return
    BY <1>1, <1>2, <1>3, <1>6 DEF Return
  <1>7. ASSUME NEW n \in Names, AddNode(n) PROVE GraphInv'
    <2>1. IsFiniteSet(nodes \cup {n})
      BY <1>1, FS_AddElement
    <2>2. Graph' /\ reply' = None
      BY <1>1, <1>7, <2>1 DEF AddNode
    <2> QED
      BY <1>2, <1>3, <2>2
  <1>8. ASSUME NEW source \in Names, NEW target \in Names, AddEdge(source, target) PROVE GraphInv'
    <2>1. Graph' /\ reply' \in {None, Error}
      BY <1>1, <1>8 DEF AddEdge
    <2> QED
      BY <1>2, <1>3, <2>1
  <1>9. ASSUME NEW direction \in Directions, NEW root, NEW depth \in Nat, Walk(direction, root, depth)
        PROVE  GraphInv'
    <2>1. UNCHANGED <<cached, nodes, edges>>
      BY <1>9 DEF Walk
    <2>2. Graph' /\ \A d, r, k : Results(d, r, k)' = Results(d, r, k)
      BY <1>4, <2>1
    <2>3. CASE root \notin nodes
      BY <1>2, <1>3, <1>9, <2>2, <2>3 DEF Walk
    <2>4. CASE root \in nodes
      <3>1. reply' \in Results(direction, root, depth)
        BY <1>9, <2>4 DEF Walk
      <3>2. reply'.direction = direction /\ reply'.root = root /\ reply'.depth = depth
        BY <3>1, ResultsAreWalks
      <3>3. reply'.direction # "path" /\ reply'.direction \in Directions
        BY <3>2 DEF Directions
      <3>4. reply' \in Results(reply.direction, reply.root, reply.depth)'
        BY <2>2, <3>1, <3>2
      <3>5. reply'.root \in nodes' /\ reply'.depth \in Nat
        BY <2>1, <2>4, <3>2
      <3> QED
        BY <2>2, <3>3, <3>4, <3>5 DEF GraphInv, IsWalk
    <2> QED
      BY <2>3, <2>4
  <1>10. ASSUME NEW source, NEW target, Path(source, target) PROVE GraphInv'
    <2> DEFINE shortest == ShortestPaths(source, target, edges)
               empty == [direction |-> "path", root |-> source, target |-> target,
                         nodes |-> {}, edges |-> {}, paths |-> {}]
    <2>1. UNCHANGED <<cached, nodes, edges>>
      BY <1>10 DEF Path
    <2>2. /\ Graph' /\ \A s, t : ShortestPaths(s, t, edges)' = ShortestPaths(s, t, edges)
          /\ \A p : EdgesAlong(p)' = EdgesAlong(p)
      BY <1>4, <2>1
    <2>3. CASE ~({source, target} \subseteq nodes)
      BY <1>2, <1>3, <1>10, <2>2, <2>3 DEF Path
    <2>4. CASE {source, target} \subseteq nodes
      <3>1. IF shortest = {} THEN reply' = empty
            ELSE \E p \in shortest : reply' = [empty EXCEPT !.nodes = ToSet(p),
                                                 !.edges = EdgesAlong(p), !.paths = {p}]
        BY <1>10, <2>4 DEF Path
      <3> HIDE DEF shortest
      <3>2. /\ reply'.direction = "path" /\ reply'.root = source /\ reply'.target = target
            /\ \/ shortest = {} /\ reply'.nodes = {} /\ reply'.edges = {} /\ reply'.paths = {}
               \/ \E p \in shortest :
                    reply'.nodes = ToSet(p) /\ reply'.edges = EdgesAlong(p) /\ reply'.paths = {p}
        <4>1. CASE shortest = {}
          BY <3>1, <4>1
        <4>2. CASE shortest # {}
          <5>1. PICK p \in shortest : reply' = [empty EXCEPT !.nodes = ToSet(p),
                                                  !.edges = EdgesAlong(p), !.paths = {p}]
            BY <3>1, <4>2
          <5>2. /\ reply'.direction = "path" /\ reply'.root = source /\ reply'.target = target
                /\ reply'.nodes = ToSet(p) /\ reply'.edges = EdgesAlong(p) /\ reply'.paths = {p}
            BY <5>1
          <5> QED
            BY <5>2
        <4> QED
          BY <4>1, <4>2
      <3>3. reply'.root \in nodes' /\ reply'.target \in nodes'
        BY <2>1, <2>4, <3>2
      <3>4. ~IsWalk'
        BY <3>2 DEF IsWalk, Directions
      <3>5. ShortestPaths(reply.root, reply.target, edges)' = shortest
        BY <2>2, <3>2 DEF shortest
      <3> HIDE DEF Graph
      <3>6. \/ /\ ShortestPaths(reply.root, reply.target, edges)' = {}
               /\ reply'.nodes = {} /\ reply'.edges = {} /\ reply'.paths = {}
            \/ \E p \in ShortestPaths(reply.root, reply.target, edges)' :
                 reply'.nodes = ToSet(p) /\ reply'.edges = EdgesAlong(p)' /\ reply'.paths = {p}
        BY <2>2, <3>2, <3>5
      <3> QED
        BY <2>2, <3>2, <3>3, <3>4, <3>6 DEF GraphInv, Graph
    <2> QED
      BY <2>3, <2>4
  <1>11. \A direction \in Directions : DefaultDepth[direction] \in Nat
    BY DEF Directions, DefaultDepth
  <1>12. CASE Call
    <2>1. \A direction \in Directions : \A depth \in Depths \cup {DefaultDepth[direction]} : depth \in Nat
      BY <1>11, BoundsAreNat
    <2> HIDE DEF Graph
    <2> QED
      BY <1>7, <1>8, <1>9, <1>10, <1>12, <2>1 DEF Call
  <1> QED
    BY <1>5, <1>6, <1>12 DEF Next

\* The graph stays closed, and a reply to a walk or a path is one to the graph as it is.
THEOREM RepliesAreOfTheGraph == Spec => []GraphInv
  BY GraphInvInit, GraphInvNext, PTL DEF Spec

-------------------------------------------------------------------------------
(* Replies to walks.                                                       *)

\* The way that the edges are walked.
Ways == Oriented(reply.direction, edges)

\* What a walk has found, the edges there, and the paths that end at its boundary.
Ball == Within(reply.depth, reply.root, Ways)
BallWays == Induced(Ball, Ways)
Found == PathsToLeaves(reply.root, reply.depth, Ways)

\* A reply to a walk, part by part.
LEMMA WalkReply ==
  ASSUME GraphInv, IsWalk
  PROVE  /\ reply.root \in nodes /\ reply.depth \in Nat /\ reply.direction \in Directions
         /\ Ways \in SUBSET (nodes \X nodes) /\ edges \in SUBSET (nodes \X nodes)
         /\ Ball \subseteq nodes /\ reply.root \in Ball
         /\ BallWays \in SUBSET (Ball \X Ball)
         /\ reply.nodes = Ball /\ reply.edges = Oriented(reply.direction, BallWays)
         /\ IsFiniteSet(Found)
         /\ \E T \in SUBSET Found :
              /\ T = Found \/ Cardinality(T) = MaxPaths
              /\ reply.paths = {DataFlow(reply.direction, q) : q \in T}
  <1>1. /\ reply.root \in nodes /\ reply.depth \in Nat /\ reply.direction \in Directions
        /\ edges \in SUBSET (nodes \X nodes) /\ IsFiniteSet(nodes)
        /\ reply \in Results(reply.direction, reply.root, reply.depth)
    BY DEF GraphInv, IsWalk
  <1>2. Ways \in SUBSET (nodes \X nodes)
    BY <1>1, OrientedIs DEF Ways
  <1>3. Ball \subseteq nodes /\ reply.root \in Ball
    <2> DEFINE k == reply.depth
    <2>1. k \in Nat /\ k <= k
      BY <1>1
    <2>2. /\ Within(0, reply.root, Ways) = {reply.root}
          /\ \A d \in Nat : \A n : n \in Within(d + 1, reply.root, Ways) <=>
               \/ n \in Within(d, reply.root, Ways)
               \/ \E e \in Ways : e[1] \in Within(d, reply.root, Ways) /\ e[2] = n
          /\ \A d \in Nat : Within(d, reply.root, Ways) \in SUBSET nodes
      <3>1. reply.root \in nodes
        BY <1>1
      <3> QED
        BY <1>2, <3>1, WithinIs, ZenonT(60)
    <2>3. /\ Within(k, reply.root, Ways) \subseteq Within(k, reply.root, Ways)
          /\ reply.root \in Within(k, reply.root, Ways)
      BY <1>1, <1>2, <2>1, WithinGrows, Zenon
    <2>4. Within(k, reply.root, Ways) \in SUBSET nodes
      BY <2>1, <2>2
    <2> QED
      BY <2>3, <2>4 DEF Ball
  <1>4. BallWays \in SUBSET (Ball \X Ball)
    <2> SUFFICES ASSUME NEW e \in BallWays PROVE e \in Ball \X Ball
      OBVIOUS
    <2>1. e \in nodes \X nodes /\ e[1] \in Ball /\ e[2] \in Ball
      BY <1>2 DEF BallWays, Induced
    <2> QED
      BY <2>1
  <1> DEFINE taken == IF Cardinality(Found) <= MaxPaths THEN {Found} ELSE kSubset(MaxPaths, Found)
  <1>5. PICK T \in taken :
          reply = [direction |-> reply.direction, root |-> reply.root, depth |-> reply.depth,
                   nodes |-> Ball, edges |-> Oriented(reply.direction, BallWays),
                   paths |-> {DataFlow(reply.direction, p) : p \in T},
                   affected |-> {n \in Ball \ {reply.root} : IsAsset[n]}]
    BY <1>1, Zenon DEF Results, Ways, Ball, BallWays, Found
  <1>6. T \in SUBSET Found /\ (T = Found \/ Cardinality(T) = MaxPaths)
    BY DEF kSubset
  <1> HIDE DEF taken
  <1> DEFINE given == {DataFlow(reply.direction, p) : p \in T}
             affected == {n \in Ball \ {reply.root} : IsAsset[n]}
             part == Oriented(reply.direction, BallWays)
  <1>7. reply.nodes = Ball /\ reply.edges = part /\ reply.paths = given
    <2> HIDE DEF given, affected, part
    <2>1. reply = [direction |-> reply.direction, root |-> reply.root, depth |-> reply.depth,
                   nodes |-> Ball, edges |-> part, paths |-> given, affected |-> affected]
      BY <1>5 DEF given, affected, part
    <2> DEFINE d == reply.direction
               r == reply.root
               k == reply.depth
    <2>2. reply = [direction |-> d, root |-> r, depth |-> k,
                   nodes |-> Ball, edges |-> part, paths |-> given, affected |-> affected]
      BY <2>1
    <2> HIDE DEF d, r, k
    <2> QED
      BY <2>2
  <1>8. IsFiniteSet(Found)
    <2>1. IsFiniteSet(Ball)
      BY <1>1, <1>3, FS_Subset
    <2>2. IsFiniteSet(SimplePaths(reply.root, BallWays, reply.depth))
      BY <1>1, <1>3, <1>4, <2>1, PathsAreFinite
    <2>3. Found \subseteq SimplePaths(reply.root, BallWays, reply.depth)
      BY DEF Found, PathsToLeaves, BallWays, Ball
    <2> QED
      BY <2>2, <2>3, FS_Subset
  <1> QED
    BY <1>1, <1>2, <1>3, <1>4, <1>6, <1>7, <1>8

\* What a path that is found is.
LEMMA FoundIs ==
  ASSUME GraphInv, IsWalk, NEW q \in Found
  PROVE  /\ IsPath(q, reply.root, Ball, BallWays) /\ Len(q) \in 2 .. reply.depth + 1
         /\ Last(q) \in Ball \ {reply.root} /\ \A e \in BallWays : e[1] # Last(q)
  <1>1. q \in SimplePaths(reply.root, BallWays, reply.depth)
    BY DEF Found, PathsToLeaves, BallWays, Ball
  <1>2. Last(q) \in Ball \ {reply.root} /\ \A e \in BallWays : e[1] # Last(q)
    BY DEF Found, PathsToLeaves, Leaves, BallWays, Ball
  <1>3. IsPath(q, reply.root, Ball, BallWays) /\ Len(q) <= reply.depth + 1
    BY <1>1, WalkReply, FoundPathsArePaths
  <1>4. Len(q) \in Nat /\ Len(q) >= 1 /\ q[1] = reply.root
    BY <1>3, LenProperties DEF IsPath
  <1>5. Len(q) # 1
    BY <1>2, <1>4 DEF Last
  <1>6. reply.depth \in Nat
    BY WalkReply
  <1>7. Len(q) \in 2 .. reply.depth + 1
    <2> DEFINE k == reply.depth
               n == Len(q)
    <2>1. k \in Nat /\ n \in Nat /\ n >= 1 /\ n # 1 /\ n <= k + 1
      BY <1>3, <1>4, <1>5, <1>6
    <2> HIDE DEF k, n
    <2>2. n \in 2 .. k + 1
      BY <2>1
    <2> QED
      BY <2>2 DEF k, n
  <1> QED
    BY <1>2, <1>3, <1>7

\* The edges of a reply to a walk.
LEMMA ReplyEdges ==
  ASSUME GraphInv, IsWalk
  PROVE  /\ \A x, y : <<x, y>> \in reply.edges <=>
              IF reply.direction = "upstream" THEN <<y, x>> \in BallWays ELSE <<x, y>> \in BallWays
         /\ reply.edges \subseteq edges
         /\ \A e \in reply.edges : e = <<e[1], e[2]>>
         /\ \A e \in BallWays : e = <<e[1], e[2]>>
  <1>1. /\ BallWays \in SUBSET (Ball \X Ball) /\ reply.edges = Oriented(reply.direction, BallWays)
        /\ edges \in SUBSET (nodes \X nodes)
    BY WalkReply
  <1>2. /\ Oriented(reply.direction, BallWays) \in SUBSET (Ball \X Ball)
        /\ reply.direction = "upstream" =>
             \A x, y : <<x, y>> \in Oriented(reply.direction, BallWays) <=> <<y, x>> \in BallWays
        /\ reply.direction # "upstream" => Oriented(reply.direction, BallWays) = BallWays
    BY <1>1, OrientedIs, Zenon
  <1>3. /\ reply.direction = "upstream" => \A x, y : <<x, y>> \in Ways <=> <<y, x>> \in edges
        /\ reply.direction # "upstream" => Ways = edges
    BY <1>1, OrientedIs DEF Ways
  <1>4. \A x, y : <<x, y>> \in reply.edges <=>
          IF reply.direction = "upstream" THEN <<y, x>> \in BallWays ELSE <<x, y>> \in BallWays
    <2>1. \A x, y : <<x, y>> \in Reversed(BallWays) <=> <<y, x>> \in BallWays
      BY <1>1, ReversedIs
    <2>2. CASE reply.direction = "upstream"
      <3>1. reply.edges = Reversed(BallWays)
        BY <1>1, <2>2 DEF Oriented
      <3> QED
        BY <2>1, <2>2, <3>1, Zenon
    <2>3. CASE reply.direction # "upstream"
      <3>1. reply.edges = BallWays
        BY <1>1, <2>3 DEF Oriented
      <3> QED
        BY <2>3, <3>1, Zenon
    <2> QED
      BY <2>2, <2>3
  <1>5. \A e \in reply.edges : e = <<e[1], e[2]>>
    BY <1>1, <1>2
  <1>6. \A e \in BallWays : e = <<e[1], e[2]>>
    BY <1>1
  <1>7. BallWays \subseteq Ways
    BY DEF BallWays, Induced
  <1>8. ASSUME NEW e \in reply.edges PROVE e \in edges
    <2>1. <<e[1], e[2]>> \in reply.edges /\ e = <<e[1], e[2]>>
      BY <1>5
    <2>2. CASE reply.direction = "upstream"
      BY <1>3, <1>4, <1>7, <2>1, <2>2
    <2>3. CASE reply.direction # "upstream"
      BY <1>3, <1>4, <1>7, <2>1, <2>3
    <2> QED
      BY <2>2, <2>3
  <1> QED
    BY <1>4, <1>5, <1>6, <1>8

-------------------------------------------------------------------------------
(* What is proved of the replies.                                          *)

\* More steps allow more paths.
LEMMA PathsGrow ==
  ASSUME NEW V, NEW E \in SUBSET (V \X V), NEW root \in V, NEW d \in Nat, NEW k \in Nat, d <= k
  PROVE  SimplePaths(root, E, d) \subseteq SimplePaths(root, E, k)
  <1> DEFINE S == {j \in Nat : SimplePaths(root, E, d) \subseteq SimplePaths(root, E, d + j)}
  <1>1. 0 \in S
    OBVIOUS
  <1>2. ASSUME NEW j \in Nat, j \in S PROVE j + 1 \in S
    <2>1. d + j \in Nat /\ (d + j) + 1 = d + (j + 1)
      OBVIOUS
    <2>2. SimplePaths(root, E, d + j) \subseteq SimplePaths(root, E, (d + j) + 1)
      BY <2>1, PathsAre
    <2> QED
      BY <1>2, <2>1, <2>2
  <1> HIDE DEF S
  <1>3. Nat \subseteq S
    BY <1>1, <1>2, AllNumbers
  <1>4. k - d \in S /\ d + (k - d) = k
    BY <1>3
  <1> QED
    BY <1>4 DEF S

\* A path is given as it was found, or in reverse.
LEMMA GivenIs ==
  ASSUME GraphInv, IsWalk, NEW p \in reply.paths
  PROVE  \E q \in Found :
           /\ p = DataFlow(reply.direction, q)
           /\ Len(p) = Len(q) /\ Len(q) \in Nat /\ IsInjective(p) /\ ToSet(p) \subseteq Ball
           /\ reply.direction = "upstream" => Last(p) = reply.root /\ Head(p) = Last(q)
           /\ reply.direction # "upstream" => Head(p) = reply.root /\ Last(p) = Last(q)
           /\ Steps(p) \subseteq reply.edges
  <1>1. PICK q \in Found : p = DataFlow(reply.direction, q)
    BY WalkReply
  <1>2. IsPath(q, reply.root, Ball, BallWays)
    BY FoundIs
  <1>3. reply.root \in Ball
    BY WalkReply
  <1>4. BallWays \in SUBSET (Ball \X Ball)
    BY WalkReply
  <1>5. IsGiven(p, q, reply.direction, reply.root, Ball, BallWays)
    BY <1>1, <1>2, <1>3, <1>4, FlowIs, Zenon
  <1>6. /\ p \in Seq(Ball) /\ Len(p) = Len(q) /\ Len(q) \in Nat \ {0}
        /\ IsInjective(p) /\ ToSet(p) = ToSet(q)
        /\ reply.direction = "upstream" =>
             Last(p) = reply.root /\ Head(p) = Last(q) /\ \A e \in Steps(p) : <<e[2], e[1]>> \in BallWays
        /\ reply.direction # "upstream" =>
             Head(p) = reply.root /\ Last(p) = Last(q) /\ \A e \in Steps(p) : e \in BallWays
        /\ \A e \in Steps(p) : e = <<e[1], e[2]>>
    BY <1>5 DEF IsGiven
  <1>7. \A x, y : <<x, y>> \in reply.edges <=>
          IF reply.direction = "upstream" THEN <<y, x>> \in BallWays ELSE <<x, y>> \in BallWays
    BY ReplyEdges
  <1>8. ASSUME NEW e \in Steps(p) PROVE e \in reply.edges
    <2>1. e = <<e[1], e[2]>>
      BY <1>6
    <2>2. IF reply.direction = "upstream" THEN <<e[2], e[1]>> \in BallWays ELSE <<e[1], e[2]>> \in BallWays
      BY <1>6, <2>1
    <2> QED
      BY <1>7, <2>1, <2>2
  <1>9. ToSet(p) \subseteq Ball
    <2>1. p \in [1 .. Len(p) -> Ball] /\ DOMAIN p = 1 .. Len(p)
      BY <1>6, LenProperties
    <2> QED
      BY <2>1 DEF ToSet
  <1> QED
    BY <1>1, <1>6, <1>8, <1>9

\* A shortest path is a path of the graph.
LEMMA ShortestIs ==
  ASSUME GraphInv, NEW source \in nodes, NEW target, NEW p \in ShortestPaths(source, target, edges)
  PROVE  /\ IsPath(p, source, nodes, edges) /\ Last(p) = target
         /\ Len(p) \in Nat \ {0} /\ p \in [1 .. Len(p) -> nodes] /\ DOMAIN p = 1 .. Len(p)
         /\ EdgesAlong(p) = Steps(p)
         /\ \A q \in SimplePaths(source, edges, Cardinality(nodes)) : Last(q) = target => Len(p) <= Len(q)
  <1>1. /\ p \in SimplePaths(source, edges, Cardinality(nodes)) /\ Last(p) = target
        /\ \A q \in SimplePaths(source, edges, Cardinality(nodes)) : Last(q) = target => Len(p) <= Len(q)
    BY DEF ShortestPaths
  <1>2. edges \in SUBSET (nodes \X nodes) /\ Cardinality(nodes) \in Nat
    BY FS_CardinalityType DEF GraphInv
  <1>3. IsPath(p, source, nodes, edges)
    BY <1>1, <1>2, FoundPathsArePaths
  <1>4. Len(p) \in Nat \ {0} /\ p \in [1 .. Len(p) -> nodes] /\ DOMAIN p = 1 .. Len(p)
    BY <1>3, LenProperties DEF IsPath
  <1>5. Steps(p) \subseteq edges
    BY <1>3 DEF IsPath, Steps
  <1>6. EdgesAlong(p) = Steps(p)
    BY <1>5 DEF EdgesAlong
  <1> QED
    BY <1>1, <1>3, <1>4, <1>6

\* The reply to a path: the nodes and the edges of one that is shortest, or nothing.
LEMMA PathReply ==
  ASSUME GraphInv, reply.direction = "path"
  PROVE  /\ reply.root \in nodes /\ reply.target \in nodes
         /\ \/ /\ ShortestPaths(reply.root, reply.target, edges) = {}
               /\ reply.nodes = {} /\ reply.edges = {} /\ reply.paths = {}
            \/ \E p \in ShortestPaths(reply.root, reply.target, edges) :
                 reply.nodes = ToSet(p) /\ reply.edges = Steps(p) /\ reply.paths = {p}
  <1>1. /\ reply.root \in nodes /\ reply.target \in nodes
        /\ \/ /\ ShortestPaths(reply.root, reply.target, edges) = {}
              /\ reply.nodes = {} /\ reply.edges = {} /\ reply.paths = {}
           \/ \E p \in ShortestPaths(reply.root, reply.target, edges) :
                reply.nodes = ToSet(p) /\ reply.edges = EdgesAlong(p) /\ reply.paths = {p}
    BY DEF GraphInv
  <1>2. \A p \in ShortestPaths(reply.root, reply.target, edges) : EdgesAlong(p) = Steps(p)
    BY <1>1, ShortestIs
  <1> QED
    BY <1>1, <1>2

\* A reply is a part of the graph.
LEMMA TypeOKHolds == GraphInv => TypeOK
  <1> SUFFICES ASSUME GraphInv PROVE TypeOK
    OBVIOUS
  <1> DEFINE Part == /\ reply.nodes \subseteq nodes
                     /\ reply.edges \subseteq edges
                     /\ \A p \in reply.paths : ToSet(p) \subseteq reply.nodes /\ Steps(p) \subseteq reply.edges
  <1>1. ASSUME IsWalk PROVE Part
    <2>1. reply.nodes = Ball /\ Ball \subseteq nodes
      BY <1>1, WalkReply
    <2>2. reply.edges \subseteq edges
      BY <1>1, ReplyEdges
    <2>3. \A p \in reply.paths : ToSet(p) \subseteq Ball /\ Steps(p) \subseteq reply.edges
      BY <1>1, GivenIs
    <2> QED
      BY <2>1, <2>2, <2>3
  <1>2. ASSUME reply.direction = "path" PROVE Part
    <2>1. /\ reply.root \in nodes
          /\ \/ /\ ShortestPaths(reply.root, reply.target, edges) = {}
                /\ reply.nodes = {} /\ reply.edges = {} /\ reply.paths = {}
             \/ \E p \in ShortestPaths(reply.root, reply.target, edges) :
                  reply.nodes = ToSet(p) /\ reply.edges = Steps(p) /\ reply.paths = {p}
      BY <1>2, PathReply
    <2>2. ASSUME reply.nodes = {} /\ reply.edges = {} /\ reply.paths = {} PROVE Part
      BY <2>2
    <2>3. ASSUME NEW p \in ShortestPaths(reply.root, reply.target, edges),
                 reply.nodes = ToSet(p) /\ reply.edges = Steps(p) /\ reply.paths = {p}
          PROVE  Part
      <3>1. p \in [1 .. Len(p) -> nodes] /\ DOMAIN p = 1 .. Len(p) /\ EdgesAlong(p) = Steps(p)
        BY <2>1, ShortestIs
      <3>2. ToSet(p) \subseteq nodes
        BY <3>1 DEF ToSet
      <3>3. Steps(p) \subseteq edges
        BY <3>1 DEF EdgesAlong
      <3> QED
        BY <2>3, <3>2, <3>3
    <2> QED
      BY <2>1, <2>2, <2>3
  <1>3. CASE reply.direction \in {"none", "error"}
    BY <1>3 DEF GraphInv, TypeOK
  <1>4. IsWalk \/ reply.direction = "path" \/ reply.direction \in {"none", "error"}
    BY DEF GraphInv, IsWalk
  <1> QED
    BY <1>1, <1>2, <1>3, <1>4 DEF GraphInv, TypeOK

\* Looking up and looking down agree.
LEMMA WalksMirrorHolds == GraphInv => WalksMirror
  <1> SUFFICES ASSUME GraphInv, IsWalk PROVE WalksMirror
    BY DEF WalksMirror
  <1> DEFINE back == Oriented(IF reply.direction = "upstream" THEN "downstream" ELSE "upstream", edges)
  <1>1. /\ reply.root \in nodes /\ reply.depth \in Nat /\ reply.nodes = Ball
        /\ Ways \in SUBSET (nodes \X nodes) /\ edges \in SUBSET (nodes \X nodes)
    BY WalkReply
  <1>2. back = Reversed(Ways)
    <2>1. CASE reply.direction = "upstream"
      <3>1. Ways = Reversed(edges) /\ back = edges
        BY <2>1 DEF Ways, Oriented
      <3>2. /\ Reversed(edges) \in SUBSET (nodes \X nodes)
            /\ \A x, y : <<x, y>> \in Reversed(edges) <=> <<y, x>> \in edges
        BY <1>1, ReversedIs
      <3>3. /\ Reversed(Reversed(edges)) \in SUBSET (nodes \X nodes)
            /\ \A x, y : <<x, y>> \in Reversed(Reversed(edges)) <=> <<y, x>> \in Reversed(edges)
        BY <3>2, ReversedIs
      <3> DEFINE R == Reversed(edges)
                 RR == Reversed(R)
      <3> HIDE DEF R, RR
      <3>4. /\ RR \in SUBSET (nodes \X nodes)
            /\ \A x, y : <<x, y>> \in RR <=> <<x, y>> \in edges
        BY <3>2, <3>3, Zenon DEF R, RR
      <3>5. \A e \in nodes \X nodes : e = <<e[1], e[2]>>
        OBVIOUS
      <3>6. ASSUME NEW e \in nodes \X nodes PROVE e \in RR <=> e \in edges
        BY <3>4, <3>5
      <3>7. RR = edges
        BY <1>1, <3>4, <3>6
      <3> QED
        BY <3>1, <3>7 DEF R, RR
    <2>2. CASE reply.direction # "upstream"
      BY <2>2 DEF Ways, Oriented
    <2> QED
      BY <2>1, <2>2
  <1> DEFINE k == reply.depth
             r == reply.root
  <1>3. \A n \in nodes : n \in Within(k, r, Ways) <=> r \in Within(k, n, Reversed(Ways))
    BY <1>1, Mirror
  <1>4. \A n \in nodes : n \in reply.nodes <=> reply.root \in Within(reply.depth, n, back)
    BY <1>1, <1>2, <1>3, Zenon DEF Ball
  <1> QED
    BY <1>4 DEF WalksMirror

\* The paths of a walk go from its root to its boundary.
LEMMA PathsJoinRootAndBoundaryHolds == GraphInv => PathsJoinRootAndBoundary
  <1> SUFFICES ASSUME GraphInv, IsWalk PROVE PathsJoinRootAndBoundary
    BY DEF PathsJoinRootAndBoundary
  <1> DEFINE up == reply.direction = "upstream"
  <1>1. ASSUME NEW p \in reply.paths
        PROVE  LET boundary == IF up THEN Head(p) ELSE Last(p)
               IN  /\ IsInjective(p) /\ Len(p) - 1 \in 1 .. reply.depth
                   /\ reply.root = (IF up THEN Last(p) ELSE Head(p))
                   /\ \A e \in reply.edges : boundary # (IF up THEN e[2] ELSE e[1])
    <2>1. PICK q \in Found :
            /\ Len(p) = Len(q) /\ Len(q) \in Nat /\ IsInjective(p)
            /\ reply.direction = "upstream" => Last(p) = reply.root /\ Head(p) = Last(q)
            /\ reply.direction # "upstream" => Head(p) = reply.root /\ Last(p) = Last(q)
      BY GivenIs
    <2>2. Len(q) \in 2 .. reply.depth + 1 /\ \A e \in BallWays : e[1] # Last(q)
      BY FoundIs
    <2>3. Len(p) - 1 \in 1 .. reply.depth
      <3> DEFINE k == reply.depth
                 n == Len(q)
      <3>1. k \in Nat /\ n \in Nat /\ n \in 2 .. k + 1 /\ Len(p) = n
        BY <2>1, <2>2, WalkReply
      <3> HIDE DEF k, n
      <3>2. n - 1 \in 1 .. k
        BY <3>1
      <3> QED
        BY <3>1, <3>2 DEF k
    <2>4. \A x, y : <<x, y>> \in reply.edges <=>
            IF reply.direction = "upstream" THEN <<y, x>> \in BallWays ELSE <<x, y>> \in BallWays
      BY ReplyEdges
    <2>5. \A e \in reply.edges : e = <<e[1], e[2]>>
      BY ReplyEdges
    <2>6. ASSUME NEW e \in reply.edges PROVE Last(q) # (IF up THEN e[2] ELSE e[1])
      <3>1. <<e[1], e[2]>> \in reply.edges
        BY <2>5
      <3>2. CASE up
        <4>1. <<e[2], e[1]>> \in BallWays
          BY <2>4, <3>1, <3>2
        <4>2. <<e[2], e[1]>>[1] # Last(q)
          BY <2>2, <4>1
        <4> QED
          BY <3>2, <4>2
      <3>3. CASE ~up
        <4>1. <<e[1], e[2]>> \in BallWays
          BY <2>4, <3>1, <3>3
        <4>2. <<e[1], e[2]>>[1] # Last(q)
          BY <2>2, <4>1
        <4> QED
          BY <3>3, <4>2
      <3> QED
        BY <3>2, <3>3
    <2>7. (IF up THEN Head(p) ELSE Last(p)) = Last(q) /\ reply.root = (IF up THEN Last(p) ELSE Head(p))
      BY <2>1
    <2> QED
      BY <2>1, <2>3, <2>6, <2>7
  <1> QED
    BY <1>1 DEF PathsJoinRootAndBoundary

\* What a walk finds is joined to its root by a path, or is not at its boundary.
LEMMA BoundaryIsExplainedHolds == GraphInv => BoundaryIsExplained
  <1> SUFFICES ASSUME GraphInv, IsWalk, Cardinality(reply.paths) < MaxPaths,
                      NEW n \in reply.nodes \ {reply.root}
               PROVE  \/ \E p \in reply.paths : Contains(p, n)
                      \/ \E e \in reply.edges : n = IF reply.direction = "upstream" THEN e[2] ELSE e[1]
    BY DEF BoundaryIsExplained
  <1> DEFINE d == reply.direction
             k == reply.depth
             root == reply.root
  <1>1. /\ root \in nodes /\ k \in Nat /\ Ways \in SUBSET (nodes \X nodes)
        /\ reply.nodes = Ball /\ root \in Ball
    BY WalkReply
  <1>2. BallWays \in SUBSET (Ball \X Ball) /\ IsFiniteSet(Found)
    BY WalkReply
  <1>3. PICK T \in SUBSET Found :
          (T = Found \/ Cardinality(T) = MaxPaths) /\ reply.paths = {DataFlow(d, q) : q \in T}
    BY WalkReply
  <1>4. ASSUME NEW q \in Found PROVE IsGiven(DataFlow(d, q), q, d, root, Ball, BallWays)
    <2>1. IsPath(q, root, Ball, BallWays)
      BY FoundIs
    <2> QED
      BY <1>1, <1>2, <2>1, FlowIs
  <1>5. Cardinality(reply.paths) = Cardinality(T)
    <2> DEFINE f == [q \in T |-> DataFlow(d, q)]
               P == reply.paths
    <2>1. IsFiniteSet(T)
      BY <1>2, FS_Subset
    <2>2. f \in [T -> P] /\ \A t \in P : \E q \in T : f[q] = t
      BY <1>3
    <2>3. \A q \in T : DataFlow(d, f[q]) = q
      BY <1>4 DEF IsGiven
    <2> HIDE DEF f, P, d
    <2>4. \A x, y \in T : f[x] = f[y] => x = y
      BY <2>3, Zenon
    <2> QED
      BY <2>1, <2>2, <2>4, SameNumber, Zenon DEF P
  <1>6. T = Found
    BY <1>3, <1>5, BoundsAreNat
  <1>7. CASE n \in Leaves(root, Ball, Ways)
    <2>1. \A j \in 0 .. k : \A m \in Within(j, root, Ways) :
            \E p \in SimplePaths(root, Induced(Ball, Ways), j) : Last(p) = m
      <3>1. Within(k, root, Ways) \subseteq Ball
        BY DEF Ball
      <3> QED
        BY <1>1, <3>1, WithinIsReached
    <2>2. n \in Within(k, root, Ways) /\ k \in 0 .. k
      BY <1>1 DEF Ball
    <2>3. PICK q \in SimplePaths(root, Induced(Ball, Ways), k) : Last(q) = n
      BY <2>1, <2>2
    <2>4. q \in Found
      BY <1>7, <2>3 DEF Found, PathsToLeaves, Ball
    <2> DEFINE p == DataFlow(d, q)
    <2>5. p \in reply.paths
      BY <1>3, <1>6, <2>4
    <2>6. ToSet(p) = ToSet(q)
      BY <1>4, <2>4 DEF IsGiven
    <2>7. IsPath(q, root, Ball, BallWays) /\ Len(q) \in 2 .. k + 1
      BY <2>4, FoundIs
    <2>8. n \in ToSet(q)
      <3>1. Len(q) \in DOMAIN q /\ q[Len(q)] = n
        BY <1>1, <2>3, <2>7, LenProperties DEF IsPath, Last
      <3> QED
        BY <3>1 DEF ToSet
    <2>9. n \in ToSet(p)
      BY <2>6, <2>8
    <2>10. Contains(p, n)
      <3>1. p \in Seq(Ball)
        BY <1>4, <2>4 DEF IsGiven
      <3> HIDE DEF p
      <3> QED
        BY <2>9, <3>1, LenProperties DEF ToSet, Contains
    <2> QED
      BY <2>5, <2>10
  <1>8. CASE n \notin Leaves(root, Ball, Ways)
    <2>1. n \in Ball \ {root}
      BY <1>1
    <2>2. PICK e \in BallWays : e[1] = n
      BY <1>8, <2>1 DEF Leaves, BallWays
    <2>3. <<n, e[2]>> \in BallWays
      <3>1. e = <<e[1], e[2]>>
        BY ReplyEdges
      <3> QED
        BY <2>2, <3>1
    <2>4. \A x, y : <<x, y>> \in reply.edges <=>
            IF reply.direction = "upstream" THEN <<y, x>> \in BallWays ELSE <<x, y>> \in BallWays
      BY ReplyEdges
    <2> DEFINE g == IF d = "upstream" THEN <<e[2], n>> ELSE <<n, e[2]>>
    <2>5. g \in reply.edges
      BY <2>3, <2>4
    <2>6. n = IF d = "upstream" THEN g[2] ELSE g[1]
      OBVIOUS
    <2> HIDE DEF g
    <2> QED
      BY <2>5, <2>6
  <1> QED
    BY <1>7, <1>8

\* A shortest path is as long as the walk that first finds its end.
LEMMA PathAgreesWithWalksHolds == GraphInv => PathAgreesWithWalks
  <1> SUFFICES ASSUME GraphInv, reply.direction = "path" PROVE PathAgreesWithWalks
    BY DEF PathAgreesWithWalks
  <1> DEFINE root == reply.root
             target == reply.target
             N == Cardinality(nodes)
             shortest == ShortestPaths(root, target, edges)
  <1>1. edges \in SUBSET (nodes \X nodes) /\ IsFiniteSet(nodes)
    BY DEF GraphInv
  <1>2. N \in Nat
    BY <1>1, FS_CardinalityType
  <1>3. /\ root \in nodes /\ target \in nodes
        /\ \/ shortest = {} /\ reply.nodes = {} /\ reply.edges = {} /\ reply.paths = {}
           \/ \E p \in shortest :
                reply.nodes = ToSet(p) /\ reply.edges = Steps(p) /\ reply.paths = {p}
    BY PathReply
  <1> HIDE DEF N, root, target
  <1>4. ASSUME NEW k \in 0 .. N, target \in Within(k, root, edges)
        PROVE  \E q \in SimplePaths(root, edges, N) : Last(q) = target /\ Len(q) \in Nat /\ Len(q) <= k + 1
    <2>1. k \in Nat /\ k <= N /\ k \in 0 .. k
      BY <1>2
    <2>2. /\ Within(0, root, edges) = {root}
          /\ \A d \in Nat : \A n : n \in Within(d + 1, root, edges) <=>
               \/ n \in Within(d, root, edges)
               \/ \E e \in edges : e[1] \in Within(d, root, edges) /\ e[2] = n
          /\ \A d \in Nat : Within(d, root, edges) \in SUBSET nodes
      <3>1. root \in nodes
        BY <1>3
      <3>2. edges \in SUBSET (nodes \X nodes)
        BY <1>1
      <3> QED
        BY <3>1, <3>2, WithinIs, Zenon
    <2>3. Within(k, root, edges) \subseteq nodes
      BY <2>1, <2>2
    <2>4. \A d \in 0 .. k : \A n \in Within(d, root, edges) :
            \E p \in SimplePaths(root, Induced(nodes, edges), d) : Last(p) = n
      BY <1>1, <1>3, <2>1, <2>3, WithinIsReached
    <2>5. Induced(nodes, edges) = edges
      BY <1>1 DEF Induced
    <2>6. PICK q \in SimplePaths(root, edges, k) : Last(q) = target
      BY <1>4, <2>1, <2>4, <2>5
    <2>7. q \in SimplePaths(root, edges, N)
      <3>1. SimplePaths(root, edges, k) \subseteq SimplePaths(root, edges, N)
        BY <1>1, <1>2, <1>3, <2>1, PathsGrow
      <3> QED
        BY <3>1
    <2>8. IsPath(q, root, nodes, edges) /\ Len(q) <= k + 1
      BY <1>1, <1>3, <2>1, FoundPathsArePaths
    <2>9. Len(q) \in Nat
      BY <2>8, LenProperties DEF IsPath
    <2> QED
      BY <2>6, <2>7, <2>8, <2>9
  <1>5. ASSUME NEW p \in shortest,
               reply.nodes = ToSet(p) /\ reply.edges = Steps(p) /\ reply.paths = {p}
        PROVE  /\ \A k \in 0 .. N : target \in Within(k, root, edges) <=> Len(p) - 1 <= k
               /\ Cardinality(reply.edges) = Len(p) - 1
    <2>1. /\ IsPath(p, root, nodes, edges) /\ Last(p) = target
          /\ Len(p) \in Nat \ {0} /\ DOMAIN p = 1 .. Len(p)
          /\ \A q \in SimplePaths(root, edges, N) : Last(q) = target => Len(p) <= Len(q)
      BY <1>3, ShortestIs DEF N
    <2>2. ASSUME NEW k \in 0 .. N, target \in Within(k, root, edges) PROVE Len(p) - 1 <= k
      <3>1. PICK q \in SimplePaths(root, edges, N) : Last(q) = target /\ Len(q) \in Nat /\ Len(q) <= k + 1
        BY <1>4, <2>2
      <3>2. Len(p) <= Len(q)
        BY <2>1, <3>1
      <3> QED
        BY <1>2, <2>1, <3>1, <3>2
    <2>3. ASSUME NEW k \in 0 .. N, Len(p) - 1 <= k PROVE target \in Within(k, root, edges)
      <3>1. \A i \in 1 .. Len(p) : p[i] \in Within(i - 1, root, edges)
        BY <1>1, <1>3, <2>1, PathsStayWithin
      <3>2. Len(p) \in 1 .. Len(p) /\ Len(p) - 1 \in Nat /\ k \in Nat
        BY <1>2, <2>1
      <3>3. target \in Within(Len(p) - 1, root, edges)
        BY <2>1, <3>1, <3>2 DEF Last
      <3>4. Within(Len(p) - 1, root, edges) \subseteq Within(k, root, edges)
        BY <1>1, <1>3, <2>3, <3>2, WithinGrows
      <3> QED
        BY <3>3, <3>4
    <2>4. Cardinality(Steps(p)) = Len(p) - 1
      <3> DEFINE m == Len(p) - 1
                 I == 1 .. m
                 f == [i \in I |-> <<p[i], p[i + 1]>>]
                 R == Steps(p)
      <3>1. m \in Nat
        BY <2>1
      <3>2. IsFiniteSet(I) /\ Cardinality(I) = m
        <4>1. IsFiniteSet(1 .. m) /\ Cardinality(1 .. m) = IF 1 > m THEN 0 ELSE m - 1 + 1
          BY <3>1, FS_Interval
        <4> QED
          BY <3>1, <4>1
      <3>3. f \in [I -> R] /\ \A t \in R : \E i \in I : f[i] = t
        BY DEF Steps
      <3>4. ASSUME NEW i \in I, NEW j \in I, f[i] = f[j] PROVE i = j
        <4>1. p[i] = p[j]
          BY <3>4
        <4>2. i \in DOMAIN p /\ j \in DOMAIN p
          BY <2>1
        <4> QED
          BY <2>1, <4>1, <4>2 DEF IsPath, IsInjective
      <3> HIDE DEF I, f, R
      <3>5. Cardinality(R) = Cardinality(I)
        BY <3>2, <3>3, <3>4, SameNumber, Zenon
      <3> QED
        BY <3>2, <3>5 DEF R
    <2> QED
      BY <1>5, <2>2, <2>3, <2>4
  <1>6. ASSUME shortest = {}, NEW k \in 0 .. N PROVE target \notin Within(k, root, edges)
    <2> SUFFICES ASSUME target \in Within(k, root, edges) PROVE FALSE
      OBVIOUS
    <2> DEFINE joined == {q \in SimplePaths(root, edges, N) : Last(q) = target}
               lengths == {Len(q) : q \in joined}
    <2>1. joined # {}
      BY <1>4
    <2>2. \A q \in joined : Len(q) \in Nat
      <3>1. \A q \in joined : IsPath(q, root, nodes, edges)
        BY <1>1, <1>2, <1>3, FoundPathsArePaths
      <3> QED
        BY <3>1, LenProperties DEF IsPath
    <2> HIDE DEF joined
    <2>3. lengths \in SUBSET Nat /\ lengths # {}
      BY <2>1, <2>2
    <2>4. PICK l \in lengths : \A j \in lengths : l <= j
      BY <2>3, LeastOf
    <2>5. PICK p \in joined : Len(p) = l
      OBVIOUS
    <2>6. \A q \in joined : Len(p) <= Len(q)
      BY <2>4, <2>5
    <2>7. p \in shortest
      BY <2>6 DEF ShortestPaths, joined, N
    <2> QED
      BY <1>6, <2>7
  <1> HIDE DEF shortest
  <1>7. CASE shortest = {} /\ reply.edges = {} /\ reply.paths = {}
    <2>1. \A k \in 0 .. N : target \in Within(k, root, edges) <=> \E p \in reply.paths : Len(p) - 1 <= k
      BY <1>6, <1>7
    <2>2. \A p \in reply.paths : Cardinality(reply.edges) = Len(p) - 1
      BY <1>7
    <2> QED
      BY <2>1, <2>2 DEF PathAgreesWithWalks, N, root, target
  <1>8. ASSUME NEW p \in shortest,
               reply.nodes = ToSet(p) /\ reply.edges = Steps(p) /\ reply.paths = {p}
        PROVE  PathAgreesWithWalks
    <2>1. /\ \A k \in 0 .. N : target \in Within(k, root, edges) <=> Len(p) - 1 <= k
          /\ Cardinality(reply.edges) = Len(p) - 1
      BY <1>5, <1>8
    <2>2. \A k \in 0 .. N : target \in Within(k, root, edges) <=> \E q \in reply.paths : Len(q) - 1 <= k
      BY <1>8, <2>1
    <2>3. \A q \in reply.paths : Cardinality(reply.edges) = Len(q) - 1
      BY <1>8, <2>1
    <2> QED
      BY <2>2, <2>3 DEF PathAgreesWithWalks, N, root, target
  <1> QED
    BY <1>3, <1>7, <1>8

-------------------------------------------------------------------------------
(* The graph of the enterprise (lineage/graph_config.py).                  *)

Atlas == INSTANCE AtlasLineage

FocusOfTheAgent == {Atlas!RootCauseFocusNode[c] : c \in DOMAIN Atlas!RootCauseFocusNode}

\* The cached store holds the graph of graph_config.py.
OfTheEnterprise ==
  /\ AtlasNodes = Atlas!Nodes /\ AtlasEdges = Atlas!Edges /\ FocusNodes = FocusOfTheAgent
  /\ \A n \in Atlas!Nodes : IsAsset[n] = (n \in Atlas!Assets)

\* A walk finds a only from a set that contains it and whose edges all begin inside.
LEMMA FoundOnlyFrom ==
  ASSUME NEW V, NEW E \in SUBSET (V \X V), NEW a \in V, NEW S, a \in S,
         \A e \in E : e[2] \in S => e[1] \in S
  PROVE  \A k \in Nat : \A r \in V : a \in Within(k, r, E) => r \in S
  <1> DEFINE D == {k \in Nat : \A r \in V : a \in Within(k, r, E) => r \in S}
  <1>1. 0 \in D
    <2>1. ASSUME NEW r \in V PROVE Within(0, r, E) = {r}
      <3>1. /\ Within(0, r, E) = {r}
            /\ \A d \in Nat : \A n : n \in Within(d + 1, r, E) <=>
                 n \in Within(d, r, E) \/ \E e \in E : e[1] \in Within(d, r, E) /\ e[2] = n
            /\ \A d \in Nat : Within(d, r, E) \in SUBSET V
        BY WithinIs, Zenon
      <3> QED
        BY <3>1
    <2> QED
      BY <2>1
  <1>2. ASSUME NEW k \in Nat, k \in D PROVE k + 1 \in D
    <2> SUFFICES ASSUME NEW r \in V, a \in Within(k + 1, r, E) PROVE r \in S
      OBVIOUS
    <2>1. a \in Within(k, r, E) \/ \E e \in E : e[1] = r /\ a \in Within(k, e[2], E)
      BY FirstStep
    <2>2. ASSUME NEW e \in E, e[1] = r, a \in Within(k, e[2], E) PROVE r \in S
      <3>1. e[2] \in V
        OBVIOUS
      <3> QED
        BY <1>2, <2>2, <3>1
    <2> QED
      BY <1>2, <2>1, <2>2
  <1> HIDE DEF D
  <1>3. Nat \subseteq D
    BY <1>1, <1>2, AllNumbers
  <1> QED
    BY <1>3 DEF D

\* The nodes from which a walk of depth k finds a.
Near(a, k) == {n \in Atlas!Nodes : a \in Within(k, n, Atlas!Edges)}

\* One edge before a node that is near, is near with one step more.
LEMMA NearIs ==
  ASSUME Atlas!Edges \in SUBSET (Atlas!Nodes \X Atlas!Nodes), NEW a \in Atlas!Nodes
  PROVE  /\ a \in Near(a, 0)
         /\ \A k \in Nat : Near(a, k) \subseteq Near(a, k + 1)
         /\ \A k \in Nat, r, n \in Atlas!Nodes :
              <<r, n>> \in Atlas!Edges /\ n \in Near(a, k) => r \in Near(a, k + 1)
  <1> DEFINE V == Atlas!Nodes
             E == Atlas!Edges
  <1>1. E \in SUBSET (V \X V) /\ a \in V /\ \A k, n : n \in Near(a, k) <=> n \in V /\ a \in Within(k, n, E)
    BY Zenon DEF Near
  <1> HIDE DEF V, E
  <1>2. Within(0, a, E) = {a}
    <2>1. E \in SUBSET (V \X V) /\ a \in V
      BY <1>1
    <2>2. /\ Within(0, a, E) = {a}
          /\ \A d \in Nat : \A n : n \in Within(d + 1, a, E) <=>
               n \in Within(d, a, E) \/ \E e \in E : e[1] \in Within(d, a, E) /\ e[2] = n
          /\ \A d \in Nat : Within(d, a, E) \in SUBSET V
      BY <2>1, WithinIs, Zenon
    <2> QED
      BY <2>2
  <1>3. \A k \in Nat : \A r, n \in V : n \in Within(k + 1, r, E) <=>
          n \in Within(k, r, E) \/ \E e \in E : e[1] = r /\ n \in Within(k, e[2], E)
    BY <1>1, FirstStep, Zenon
  <1>4. a \in Near(a, 0)
    BY <1>1, <1>2
  <1>5. ASSUME NEW k \in Nat PROVE Near(a, k) \subseteq Near(a, k + 1)
    BY <1>1, <1>3
  <1>6. ASSUME NEW k \in Nat, NEW r \in V, NEW n \in V, <<r, n>> \in E, n \in Near(a, k)
        PROVE  r \in Near(a, k + 1)
    <2>1. a \in Within(k, n, E)
      BY <1>1, <1>6
    <2> DEFINE e == <<r, n>>
    <2>2. e \in E /\ e[1] = r /\ a \in Within(k, e[2], E)
      BY <1>6, <2>1
    <2> HIDE DEF e
    <2> QED
      BY <1>1, <1>3, <2>2
  <1> QED
    BY <1>4, <1>5, <1>6 DEF V, E

\* What refund_rate_metric is computed from.
FeedsRate ==
  {"refund_rate_metric", "refunds", "refund_pipeline", "payments",
   "payment_reconciliation_pipeline", "orders", "payment_provider_api", "staging_records",
   "customers", "orders_ingest", "customer_mapping_pipeline", "orders_system", "crm_customers",
   "crm_sync", "crm_api"}

\* What daily_revenue_report is computed from.
FeedsReport ==
  {"daily_revenue_report", "revenue_aggregation_pipeline", "orders", "payments", "refunds",
   "fx_rates", "staging_records", "customers", "payment_reconciliation_pipeline",
   "refund_pipeline", "fx_rate_pipeline", "orders_ingest", "customer_mapping_pipeline",
   "payment_provider_api", "fx_api", "orders_system", "crm_customers", "crm_sync", "crm_api"}

\* No edge leads into these sets from outside.
LEMMA FeedsAreClosed ==
  /\ \A e \in Atlas!Edges : e[2] \in FeedsRate => e[1] \in FeedsRate
  /\ \A e \in Atlas!Edges : e[2] \in FeedsReport => e[1] \in FeedsReport
  /\ \A a \in Atlas!Assets \ {"refund_rate_metric"} : \A e \in Atlas!Edges :
       e[2] \in FeedsReport \cup {a} => e[1] \in FeedsReport \cup {a}
  BY DEF FeedsRate, FeedsReport, Atlas!Edges, Atlas!Assets

\* refund_rate_metric is ten edges from the farthest of its sources, crm_api, and six from the
\* farthest node where the agent starts.
LEMMA RateIsNear ==
  ASSUME Atlas!Edges \in SUBSET (Atlas!Nodes \X Atlas!Nodes)
  PROVE  /\ FeedsRate \subseteq Near("refund_rate_metric", 10)
         /\ FeedsRate \cap FocusOfTheAgent \subseteq Near("refund_rate_metric", 6)
  <1> DEFINE a == "refund_rate_metric"
             N(k) == Near(a, k)
  <1>0. /\ a \in N(0)
        /\ \A k \in Nat : N(k) \subseteq N(k + 1)
        /\ \A k \in Nat, r, n \in Atlas!Nodes : <<r, n>> \in Atlas!Edges /\ n \in N(k) => r \in N(k + 1)
    <2>1. a \in Atlas!Nodes
      BY DEF Atlas!Nodes, Atlas!Assets
    <2> QED
      BY <2>1, NearIs
  <1>1. ASSUME NEW k \in Nat, NEW m, m = k + 1, NEW r, NEW n, <<r, n>> \in Atlas!Edges, n \in N(k)
        PROVE  r \in N(m)
    <2>1. r \in Atlas!Nodes /\ n \in Atlas!Nodes
      BY <1>1
    <2> QED
      BY <1>0, <1>1, <2>1
  <1> HIDE DEF N
  <1>2. "refunds" \in N(1)
    BY <1>0, <1>1 DEF Atlas!Edges
  <1>3. "refund_pipeline" \in N(2)
    BY <1>1, <1>2 DEF Atlas!Edges
  <1>4. "payments" \in N(3)
    BY <1>1, <1>3 DEF Atlas!Edges
  <1>5. "payment_reconciliation_pipeline" \in N(4)
    BY <1>1, <1>4 DEF Atlas!Edges
  <1>6. "orders" \in N(5) /\ "payment_provider_api" \in N(5)
    BY <1>1, <1>5 DEF Atlas!Edges
  <1>7. "staging_records" \in N(6) /\ "customers" \in N(6)
    BY <1>1, <1>6 DEF Atlas!Edges
  <1>8. "orders_ingest" \in N(7) /\ "customer_mapping_pipeline" \in N(7)
    BY <1>1, <1>7 DEF Atlas!Edges
  <1>9. "orders_system" \in N(8) /\ "crm_customers" \in N(8)
    BY <1>1, <1>8 DEF Atlas!Edges
  <1>10. "crm_sync" \in N(9)
    BY <1>1, <1>9 DEF Atlas!Edges
  <1>11. "crm_api" \in N(10)
    BY <1>1, <1>10 DEF Atlas!Edges
  <1>12. /\ N(0) \subseteq N(1) /\ N(1) \subseteq N(2) /\ N(2) \subseteq N(3) /\ N(3) \subseteq N(4)
         /\ N(4) \subseteq N(5) /\ N(5) \subseteq N(6) /\ N(6) \subseteq N(7) /\ N(7) \subseteq N(8)
         /\ N(8) \subseteq N(9) /\ N(9) \subseteq N(10)
    <2>1. \A k \in 0 .. 9 : k \in Nat /\ N(k) \subseteq N(k + 1)
      BY <1>0
    <2> QED
      BY <2>1
  <1>13. FeedsRate \subseteq N(10)
    BY <1>0, <1>2, <1>3, <1>4, <1>5, <1>6, <1>7, <1>8, <1>9, <1>10, <1>11, <1>12 DEF FeedsRate
  <1>14. {"payments", "orders", "customers", "staging_records", "payment_provider_api"} \subseteq N(6)
    BY <1>4, <1>6, <1>7, <1>12
  <1>15. FeedsRate \cap FocusOfTheAgent \subseteq
           {"payments", "orders", "customers", "staging_records", "payment_provider_api"}
    BY DEF FeedsRate, FocusOfTheAgent, Atlas!RootCauseFocusNode
  <1> QED
    BY <1>13, <1>14, <1>15 DEF N

\* So are the report and whatever is one edge behind it: at most nine edges from crm_api, and
\* five from where the agent starts.
LEMMA ReportIsNear ==
  ASSUME Atlas!Edges \in SUBSET (Atlas!Nodes \X Atlas!Nodes), NEW a \in Atlas!Nodes,
         "daily_revenue_report" \in Near(a, 1)
  PROVE  /\ FeedsReport \subseteq Near(a, 10)
         /\ FeedsReport \cap FocusOfTheAgent \subseteq Near(a, 6)
  <1> DEFINE N(k) == Near(a, k)
  <1>0. /\ \A k \in Nat : N(k) \subseteq N(k + 1)
        /\ \A k \in Nat, r, n \in Atlas!Nodes : <<r, n>> \in Atlas!Edges /\ n \in N(k) => r \in N(k + 1)
    BY NearIs
  <1>1. ASSUME NEW k \in Nat, NEW m, m = k + 1, NEW r, NEW n, <<r, n>> \in Atlas!Edges, n \in N(k)
        PROVE  r \in N(m)
    <2>1. r \in Atlas!Nodes /\ n \in Atlas!Nodes
      BY <1>1
    <2> QED
      BY <1>0, <1>1, <2>1
  <1>2. "daily_revenue_report" \in N(1)
    OBVIOUS
  <1> HIDE DEF N
  <1>3. "revenue_aggregation_pipeline" \in N(2)
    BY <1>1, <1>2 DEF Atlas!Edges
  <1>4. {"orders", "payments", "refunds", "fx_rates"} \subseteq N(3)
    BY <1>1, <1>3 DEF Atlas!Edges
  <1>5. {"staging_records", "customers", "payment_reconciliation_pipeline",
         "refund_pipeline", "fx_rate_pipeline"} \subseteq N(4)
    BY <1>1, <1>4 DEF Atlas!Edges
  <1>6. {"orders_ingest", "customer_mapping_pipeline", "payment_provider_api", "fx_api"} \subseteq N(5)
    BY <1>1, <1>5 DEF Atlas!Edges
  <1>7. {"orders_system", "crm_customers"} \subseteq N(6)
    BY <1>1, <1>6 DEF Atlas!Edges
  <1>8. "crm_sync" \in N(7)
    BY <1>1, <1>7 DEF Atlas!Edges
  <1>9. "crm_api" \in N(8)
    BY <1>1, <1>8 DEF Atlas!Edges
  <1>10. /\ N(1) \subseteq N(2) /\ N(2) \subseteq N(3) /\ N(3) \subseteq N(4)
         /\ N(4) \subseteq N(5) /\ N(5) \subseteq N(6) /\ N(6) \subseteq N(7) /\ N(7) \subseteq N(8)
         /\ N(8) \subseteq N(9) /\ N(9) \subseteq N(10)
    <2>1. \A k \in 0 .. 9 : k \in Nat /\ N(k) \subseteq N(k + 1)
      BY <1>0
    <2> QED
      BY <2>1
  <1>11. N(2) \subseteq N(6) /\ N(3) \subseteq N(6) /\ N(4) \subseteq N(6) /\ N(1) \subseteq N(6)
         /\ N(6) \subseteq N(10) /\ N(7) \subseteq N(10) /\ N(8) \subseteq N(10) /\ N(5) \subseteq N(6)
    BY <1>10
  <1>12. /\ "daily_revenue_report" \in N(6) /\ "revenue_aggregation_pipeline" \in N(6)
         /\ {"orders", "payments", "refunds", "fx_rates"} \subseteq N(6)
         /\ {"staging_records", "customers", "payment_reconciliation_pipeline",
             "refund_pipeline", "fx_rate_pipeline"} \subseteq N(6)
         /\ {"orders_ingest", "customer_mapping_pipeline", "payment_provider_api", "fx_api"} \subseteq N(6)
    BY <1>2, <1>3, <1>4, <1>5, <1>6, <1>11
  <1>13. \A n \in FeedsReport :
           \/ n = "daily_revenue_report" \/ n = "revenue_aggregation_pipeline"
           \/ n \in {"orders", "payments", "refunds", "fx_rates"}
           \/ n \in {"staging_records", "customers", "payment_reconciliation_pipeline",
                    "refund_pipeline", "fx_rate_pipeline"}
           \/ n \in {"orders_ingest", "customer_mapping_pipeline", "payment_provider_api", "fx_api"}
           \/ n \in {"orders_system", "crm_customers"} \/ n = "crm_sync" \/ n = "crm_api"
    BY DEF FeedsReport
  <1>14. FeedsReport \subseteq N(10)
    BY <1>7, <1>8, <1>9, <1>11, <1>12, <1>13
  <1>15. \A n \in FocusOfTheAgent : n \notin {"orders_system", "crm_customers", "crm_sync", "crm_api"}
    BY DEF FocusOfTheAgent, Atlas!RootCauseFocusNode
  <1>16. FeedsReport \cap FocusOfTheAgent \subseteq N(6)
    BY <1>12, <1>13, <1>15
  <1> QED
    BY <1>14, <1>16 DEF N

\* A walk of the default depth finds every business output that any walk finds, and one that
\* begins where the agent does finds some.
LEMMA DefaultsAreDeep ==
  ASSUME Atlas!Edges \in SUBSET (Atlas!Nodes \X Atlas!Nodes)
  PROVE  /\ \A a \in Atlas!Assets, k \in Nat, r \in Atlas!Nodes :
              a \in Within(k, r, Atlas!Edges) =>
                /\ a \in Within(10, r, Atlas!Edges)
                /\ r \in FocusOfTheAgent => a \in Within(6, r, Atlas!Edges)
         /\ \A r \in FocusOfTheAgent : r \in Atlas!Nodes =>
              "executive_revenue_dashboard" \in Within(6, r, Atlas!Edges) \ {r}
  <1> DEFINE V == Atlas!Nodes
             E == Atlas!Edges
             rate == "refund_rate_metric"
             report == "daily_revenue_report"
  <1>0. \A a \in Atlas!Assets : a \in V
    BY DEF Atlas!Nodes
  <1>1. ASSUME NEW a \in Atlas!Assets \ {rate}
        PROVE  /\ report \in Near(a, 1) /\ a \in Near(a, 6) /\ a \in Near(a, 10)
    <2>1. /\ a \in Near(a, 0)
          /\ \A k \in Nat : Near(a, k) \subseteq Near(a, k + 1)
          /\ \A k \in Nat, r, n \in V : <<r, n>> \in E /\ n \in Near(a, k) => r \in Near(a, k + 1)
      BY <1>0, NearIs, Zenon
    <2> DEFINE N(k) == Near(a, k)
    <2>2. \A k \in 0 .. 9 : N(k) \subseteq N(k + 1)
      BY <2>1
    <2> HIDE DEF N
    <2>3. /\ N(0) \subseteq N(1) /\ N(1) \subseteq N(2) /\ N(2) \subseteq N(3) /\ N(3) \subseteq N(4)
          /\ N(4) \subseteq N(5) /\ N(5) \subseteq N(6) /\ N(6) \subseteq N(7) /\ N(7) \subseteq N(8)
          /\ N(8) \subseteq N(9) /\ N(9) \subseteq N(10)
      BY <2>2
    <2>4. N(0) \subseteq N(1) /\ N(0) \subseteq N(6) /\ N(0) \subseteq N(10)
      BY <2>3
    <2>5. a = report \/ <<report, a>> \in E
      BY DEF Atlas!Assets, Atlas!Edges
    <2>6. report \in V
      BY <1>0 DEF Atlas!Assets
    <2>7. a \in N(0) /\ (<<report, a>> \in E => report \in N(1))
      <3>1. 0 + 1 = 1
        OBVIOUS
      <3> QED
        BY <1>0, <2>1, <2>6, <3>1 DEF N
    <2> QED
      BY <2>4, <2>5, <2>7 DEF N
  <1>2. ASSUME NEW a \in Atlas!Assets \ {rate}
        PROVE  /\ FeedsReport \cup {a} \subseteq Near(a, 10)
               /\ FeedsReport \cap FocusOfTheAgent \subseteq Near(a, 6)
    <2>1. a \in V /\ report \in Near(a, 1)
      BY <1>0, <1>1
    <2>2. /\ FeedsReport \subseteq Near(a, 10)
          /\ FeedsReport \cap FocusOfTheAgent \subseteq Near(a, 6)
      BY <2>1, ReportIsNear, Zenon
    <2> QED
      BY <1>1, <2>2
  <1>3. ASSUME NEW a \in Atlas!Assets, NEW S, a \in S, \A e \in E : e[2] \in S => e[1] \in S,
               S \subseteq Near(a, 10), S \cap FocusOfTheAgent \subseteq Near(a, 6),
               NEW k \in Nat, NEW r \in V, a \in Within(k, r, E)
        PROVE  a \in Within(10, r, E) /\ (r \in FocusOfTheAgent => a \in Within(6, r, E))
    <2>1. r \in S
      <3>1. \A j \in Nat : \A q \in V : a \in Within(j, q, E) => q \in S
        BY <1>0, <1>3, FoundOnlyFrom, Zenon
      <3> QED
        BY <1>3, <3>1
    <2> QED
      BY <1>3, <2>1 DEF Near
  <1>4. ASSUME NEW a \in Atlas!Assets, NEW k \in Nat, NEW r \in V, a \in Within(k, r, E)
        PROVE  a \in Within(10, r, E) /\ (r \in FocusOfTheAgent => a \in Within(6, r, E))
    <2>1. CASE a = rate
      <3>1. rate \in FeedsRate
        BY DEF FeedsRate
      <3> QED
        BY <1>3, <1>4, <2>1, <3>1, RateIsNear, FeedsAreClosed, Zenon
    <2>2. CASE a # rate
      <3> DEFINE S == FeedsReport \cup {a}
      <3>1. a \in Atlas!Assets \ {rate} /\ a \in S
        BY <2>2
      <3>2. \A e \in E : e[2] \in S => e[1] \in S
        BY <3>1, FeedsAreClosed
      <3>3. S \subseteq Near(a, 10)
        BY <1>2, <3>1
      <3>4. S \cap FocusOfTheAgent \subseteq Near(a, 6)
        BY <1>1, <1>2, <3>1
      <3> HIDE DEF S
      <3> QED
        BY <1>3, <1>4, <3>1, <3>2, <3>3, <3>4, Zenon
    <2> QED
      BY <2>1, <2>2
  <1>5. ASSUME NEW r \in FocusOfTheAgent, r \in V
        PROVE  "executive_revenue_dashboard" \in Within(6, r, E) \ {r}
    <2> DEFINE a == "executive_revenue_dashboard"
    <2>1. a \in Atlas!Assets \ {rate}
      BY DEF Atlas!Assets
    <2>2. r \in FeedsReport /\ r # a
      BY DEF FocusOfTheAgent, Atlas!RootCauseFocusNode, FeedsReport
    <2>3. r \in Near(a, 6)
      BY <1>2, <2>1, <2>2
    <2> QED
      BY <2>2, <2>3 DEF Near
  <1> QED
    BY <1>4, <1>5

\* The graph has more nodes than the deepest default has steps.
LEMMA AtlasIsLarge ==
  ASSUME IsFiniteSet(Atlas!Nodes)
  PROVE  Cardinality(Atlas!Nodes) \in Nat /\ Cardinality(Atlas!Nodes) >= 10
  <1> DEFINE S2 == {"crm_api", "fx_api"}
             S3 == S2 \cup {"orders_system"}
             S4 == S3 \cup {"shipments_system"}
             S5 == S4 \cup {"atlas_postgres"}
             S6 == S5 \cup {"crm_customers"}
             S7 == S6 \cup {"customers"}
             S8 == S7 \cup {"orders"}
             S9 == S8 \cup {"payments"}
             S10 == S9 \cup {"refunds"}
  <1>1. ASSUME NEW S, NEW k \in Nat, IsFiniteSet(S), Cardinality(S) = k, NEW x, x \notin S
        PROVE  IsFiniteSet(S \cup {x}) /\ Cardinality(S \cup {x}) = k + 1
    BY <1>1, FS_AddElement
  <1>2. S10 \subseteq Atlas!Nodes
    BY DEF Atlas!Nodes
  <1>3. /\ "orders_system" \notin S2 /\ "shipments_system" \notin S3 /\ "atlas_postgres" \notin S4
        /\ "crm_customers" \notin S5 /\ "customers" \notin S6 /\ "orders" \notin S7
        /\ "payments" \notin S8 /\ "refunds" \notin S9
    OBVIOUS
  <1>4. IsFiniteSet(S2) /\ Cardinality(S2) = 2
    <2>1. IsFiniteSet({"crm_api"}) /\ Cardinality({"crm_api"}) = 1
      BY FS_Singleton
    <2>2. S2 = {"crm_api"} \cup {"fx_api"} /\ "fx_api" \notin {"crm_api"}
      OBVIOUS
    <2> HIDE DEF S2
    <2> QED
      BY <1>1, <2>1, <2>2
  <1> HIDE DEF S2
  <1>5. IsFiniteSet(S3) /\ Cardinality(S3) = 3
    BY <1>1, <1>3, <1>4
  <1> HIDE DEF S3
  <1>6. IsFiniteSet(S4) /\ Cardinality(S4) = 4
    BY <1>1, <1>3, <1>5
  <1> HIDE DEF S4
  <1>7. IsFiniteSet(S5) /\ Cardinality(S5) = 5
    BY <1>1, <1>3, <1>6
  <1> HIDE DEF S5
  <1>8. IsFiniteSet(S6) /\ Cardinality(S6) = 6
    BY <1>1, <1>3, <1>7
  <1> HIDE DEF S6
  <1>9. IsFiniteSet(S7) /\ Cardinality(S7) = 7
    BY <1>1, <1>3, <1>8
  <1> HIDE DEF S7
  <1>10. IsFiniteSet(S8) /\ Cardinality(S8) = 8
    BY <1>1, <1>3, <1>9
  <1> HIDE DEF S8
  <1>11. IsFiniteSet(S9) /\ Cardinality(S9) = 9
    BY <1>1, <1>3, <1>10
  <1> HIDE DEF S9
  <1>12. IsFiniteSet(S10) /\ Cardinality(S10) = 10
    BY <1>1, <1>3, <1>11
  <1> HIDE DEF S10
  <1>13. Cardinality(S10) <= Cardinality(Atlas!Nodes)
    BY <1>2, FS_Subset
  <1>14. Cardinality(Atlas!Nodes) \in Nat
    BY FS_CardinalityType
  <1> QED
    BY <1>12, <1>13, <1>14

\* The cached store is never changed.
CachedInv == cached => nodes = AtlasNodes /\ edges = AtlasEdges

\* Neither to be built nor to be asked changes it.
LEMMA CachedInvNext == CachedInv /\ [Next]_vars => CachedInv'
  <1> SUFFICES ASSUME CachedInv, [Next]_vars PROVE CachedInv'
    OBVIOUS
  <1>1. CASE UNCHANGED vars
    BY <1>1 DEF CachedInv, vars
  <1>2. CASE Return
    BY <1>2 DEF CachedInv, Return
  <1>3. ASSUME NEW n \in Names, AddNode(n) PROVE CachedInv'
    BY <1>3 DEF CachedInv, AddNode
  <1>4. ASSUME NEW source \in Names, NEW target \in Names, AddEdge(source, target) PROVE CachedInv'
    BY <1>4 DEF CachedInv, AddEdge
  <1>5. ASSUME NEW direction, NEW root, NEW depth, Walk(direction, root, depth) PROVE CachedInv'
    BY <1>5 DEF CachedInv, Walk
  <1>6. ASSUME NEW source, NEW target, Path(source, target) PROVE CachedInv'
    <2>1. UNCHANGED <<cached, nodes, edges>>
      BY <1>6 DEF Path
    <2> QED
      BY <2>1 DEF CachedInv
  <1>7. CASE Call
    BY <1>3, <1>4, <1>5, <1>6, <1>7 DEF Call
  <1> QED
    BY <1>1, <1>2, <1>7 DEF Next

\* The cached store holds the graph of the enterprise for good.
THEOREM CachedStoreStays == Spec => []CachedInv
  <1>1. Init => CachedInv
    BY DEF Init, CachedInv
  <1> QED
    BY <1>1, CachedInvNext, PTL DEF Spec

\* The assets that a walk finds, part of its reply.
LEMMA AffectedAre ==
  ASSUME GraphInv, IsWalk
  PROVE  reply.affected = {n \in Ball \ {reply.root} : IsAsset[n]}
  <1> DEFINE d == reply.direction
             r == reply.root
             k == reply.depth
             taken == IF Cardinality(Found) <= MaxPaths THEN {Found} ELSE kSubset(MaxPaths, Found)
             given(T) == {DataFlow(d, p) : p \in T}
             affected == {n \in Ball \ {r} : IsAsset[n]}
             part == Oriented(d, BallWays)
  <1>1. reply \in Results(d, r, k)
    BY DEF GraphInv, IsWalk
  <1>2. PICK T \in taken :
          reply = [direction |-> d, root |-> r, depth |-> k, nodes |-> Ball, edges |-> part,
                   paths |-> given(T), affected |-> affected]
    BY <1>1, Zenon DEF Results, Ways, Ball, BallWays, Found
  <1> HIDE DEF d, r, k, taken, given, affected, part
  <1>3. reply.affected = affected
    BY <1>2
  <1> QED
    BY <1>3 DEF affected, r

\* On the graph of the enterprise the defaults suffice for whatever is asked of it.
LEMMA DefaultDepthsSufficeHolds == OfTheEnterprise /\ GraphInv /\ CachedInv => DefaultDepthsSuffice
  <1> SUFFICES ASSUME OfTheEnterprise, GraphInv, CachedInv, cached, IsWalk,
                      reply.direction # "upstream", reply.depth = DefaultDepth[reply.direction],
                      reply.direction = "downstream" => reply.root \in FocusNodes
               PROVE  LET all == Within(Cardinality(nodes), reply.root, edges) \ {reply.root}
                      IN  /\ reply.affected = {n \in all : IsAsset[n]}
                          /\ reply.root \in FocusNodes => reply.affected # {}
    BY DEF DefaultDepthsSuffice
  <1> DEFINE V == Atlas!Nodes
             E == Atlas!Edges
             r == reply.root
             d == reply.depth
             c == Cardinality(V)
  <1>1. nodes = V /\ edges = E /\ FocusNodes = FocusOfTheAgent /\ \A n \in V : IsAsset[n] = (n \in Atlas!Assets)
    BY DEF OfTheEnterprise, CachedInv
  <1>2. E \in SUBSET (V \X V) /\ IsFiniteSet(V)
    BY <1>1, AtlasIsClosed DEF OfTheEnterprise
  <1>3. /\ r \in V /\ reply.direction \in Directions
        /\ reply.affected = {n \in Ball \ {r} : IsAsset[n]}
    BY <1>1, WalkReply, AffectedAre
  <1>4. Ball = Within(d, r, E)
    BY <1>1 DEF Ball, Ways, Oriented
  <1>5. c \in Nat /\ c >= 10
    BY <1>2, AtlasIsLarge
  <1>6. d = 10 \/ (d = 6 /\ r \in FocusOfTheAgent)
    <2>1. reply.direction = "impact" \/ reply.direction = "downstream"
      BY <1>3 DEF Directions
    <2>2. DefaultDepth["impact"] = 10 /\ DefaultDepth["downstream"] = 6
      BY DEF DefaultDepth
    <2> QED
      BY <1>1, <2>1, <2>2
  <1>7. ASSUME NEW k \in Nat PROVE Within(k, r, E) \subseteq V
    <2> HIDE DEF V, E, r
    <2>0. r \in V
      BY <1>3
    <2>1. /\ Within(0, r, E) = {r}
          /\ \A j \in Nat : \A n : n \in Within(j + 1, r, E) <=>
               n \in Within(j, r, E) \/ \E e \in E : e[1] \in Within(j, r, E) /\ e[2] = n
          /\ \A j \in Nat : Within(j, r, E) \in SUBSET V
      BY <1>2, <2>0, WithinIs, Zenon
    <2> QED
      BY <2>1
  <1>8. Within(d, r, E) \subseteq Within(c, r, E) /\ Within(6, r, E) \subseteq Within(d, r, E)
    <2> HIDE DEF V, E, r, c, d
    <2>1. d \in Nat /\ d <= c /\ 6 \in Nat /\ 6 <= d
      BY <1>5, <1>6
    <2> QED
      BY <1>2, <1>3, <1>5, <2>1, WithinGrows
  <1>9. /\ \A a \in Atlas!Assets : a \in Within(c, r, E) =>
             a \in Within(10, r, E) /\ (r \in FocusOfTheAgent => a \in Within(6, r, E))
        /\ r \in FocusOfTheAgent => "executive_revenue_dashboard" \in Within(6, r, E) \ {r}
    BY <1>2, <1>3, <1>5, DefaultsAreDeep
  <1> HIDE DEF r, d, c
  <1>10. \A a \in Atlas!Assets : a \in Within(c, r, E) => a \in Within(d, r, E)
    BY <1>6, <1>9
  <1>11. Within(c, r, E) \subseteq V /\ Within(d, r, E) \subseteq V
    <2>1. d \in Nat
      BY <1>6
    <2> QED
      BY <1>5, <1>7, <2>1
  <1>12. reply.affected = {n \in Within(c, r, E) \ {r} : IsAsset[n]}
    <2>1. reply.affected = {n \in Within(d, r, E) \ {r} : IsAsset[n]}
      BY <1>3, <1>4
    <2>2. \A n \in V : IsAsset[n] <=> n \in Atlas!Assets
      BY <1>1
    <2> HIDE DEF V, E
    <2>3. \A n : n \in Within(d, r, E) \ {r} /\ IsAsset[n] <=> n \in Within(c, r, E) \ {r} /\ IsAsset[n]
      BY <1>8, <1>10, <1>11, <2>2
    <2> QED
      BY <2>1, <2>3
  <1>13. ASSUME r \in FocusOfTheAgent PROVE reply.affected # {}
    <2> DEFINE a == "executive_revenue_dashboard"
    <2>1. a \in Within(d, r, E) \ {r} /\ a \in V
      BY <1>8, <1>9, <1>11, <1>13
    <2>2. IsAsset[a]
      BY <1>1, <2>1 DEF Atlas!Assets
    <2> QED
      BY <1>3, <1>4, <2>1, <2>2
  <1>14. Cardinality(nodes) = c
    BY <1>1 DEF c
  <1>15. reply.affected = {n \in Within(Cardinality(nodes), r, edges) \ {r} : IsAsset[n]}
    BY <1>1, <1>12, <1>14
  <1> QED
    BY <1>1, <1>13, <1>15 DEF r

-------------------------------------------------------------------------------
(* Theorems.                                                               *)

\* The graph is closed, and each reply is a part of it in the direction of the data.
THEOREM RepliesArePartOfTheGraph == Spec => []TypeOK
  BY RepliesAreOfTheGraph, TypeOKHolds, PTL

\* Looking upstream and looking downstream never disagree about what is near what.
THEOREM UpAndDownAgree == Spec => []WalksMirror
  BY RepliesAreOfTheGraph, WalksMirrorHolds, PTL

\* Each path of a walk leads from its root to its boundary, without a loop.
THEOREM PathsReachTheBoundary == Spec => []PathsJoinRootAndBoundary
  BY RepliesAreOfTheGraph, PathsJoinRootAndBoundaryHolds, PTL

\* Unless the paths are cut off, the walk shows how it has reached each node at its boundary.
THEOREM NoLeafWithoutPath == Spec => []BoundaryIsExplained
  BY RepliesAreOfTheGraph, BoundaryIsExplainedHolds, PTL

\* The route /lineage/path finds a path exactly if a walk deep enough finds the target, and
\* none that is longer than necessary.
THEOREM PathsAreAsShortAsWalks == Spec => []PathAgreesWithWalks
  BY RepliesAreOfTheGraph, PathAgreesWithWalksHolds, PTL

\* Where the cached store holds the graph of the enterprise, impact of the default depth misses
\* no business output, nor does the agent with its shallower one, who finds some for each cause.
THEOREM DefaultsAreDeepEnough == ASSUME OfTheEnterprise PROVE Spec => []DefaultDepthsSuffice
  <1>1. GraphInv /\ CachedInv => DefaultDepthsSuffice
    BY DefaultDepthsSufficeHolds
  <1> QED
    BY <1>1, RepliesAreOfTheGraph, CachedStoreStays, PTL
===============================================================================
