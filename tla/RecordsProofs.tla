--------------------------- MODULE RecordsProofs ---------------------------
(* InsertState, for every list of masters, every state.json and every        *)
(* configuration: masterRecord numbers the masters right, the enumeration is *)
(* exact, SRV records lead to addresses, and a task's own name leads to the  *)
(* address its sources state, in their order of priority.                    *)
EXTENDS Records, TLAPS

-----------------------------------------------------------------------------
(* The loops over what state.json holds.  The library's induction theorems   *)
(* take an operator parameter; the inductions here go through a set.         *)

\* A set with 0 that has k whenever it has k - 1 has all numbers up to n.  What
\* needs it assumes it; InductionHolds proves it from the library, at the end of
\* the module, because all proofs below the library's theorems are slower.
Induction ==
  \A n \in Nat : \A Good :
    (0 \in Good /\ \A k \in 1..n : k - 1 \in Good => k \in Good) => \A k \in 0..n : k \in Good

LEMMA Upward ==
  ASSUME Induction, NEW n \in Nat, NEW Good, 0 \in Good, \A k \in 1..n : k - 1 \in Good => k \in Good
  PROVE  \A k \in 0..n : k \in Good
BY Zenon DEF Induction

\* f holds what a loop of n turns has made of z after each of them, when its turn
\* k makes G[k][x] of x.
IsLoop(f, n, U, z, G) ==
  f \in [0..n -> U] /\ f[0] = z /\ \A k \in 1..n : f[k] = G[k][f[k - 1]]

LEMMA LoopExists ==
  ASSUME Induction, NEW n \in Nat, NEW U, NEW z \in U, NEW G \in [1..n -> [U -> U]]
  PROVE  \E f : IsLoop(f, n, U, z, G)
<1> DEFINE Is(f, m) == f \in [0..m -> U] /\ f[0] = z /\ \A k \in 1..m : f[k] = G[k][f[k - 1]]
           Good == {m \in 0..n : \E f : Is(f, m)}
<1>1. 0 \in Good
  <2>1. Is([k \in 0..0 |-> z], 0)
    OBVIOUS
  <2> HIDE DEF Is
  <2>2. 0 \in 0..n
    OBVIOUS
  <2> QED
    BY <2>1, <2>2, Zenon
<1>2. ASSUME NEW m \in 1..n, m - 1 \in Good PROVE m \in Good
  <2>1. PICK f : Is(f, m - 1)
    BY <1>2, Zenon
  <2> DEFINE g == [k \in 0..m |-> IF k = m THEN G[m][f[m - 1]] ELSE f[k]]
  <2>2. m - 1 \in 0..(m - 1) /\ m \in Nat /\ f[m - 1] \in U /\ G[m] \in [U -> U] /\ G[m][f[m - 1]] \in U
    BY <2>1
  <2>3. g \in [0..m -> U]
    <3>1. \A k \in 0..m : k # m => k \in 0..(m - 1)
      OBVIOUS
    <3>2. \A k \in 0..m : g[k] \in U
      BY <2>1, <2>2, <3>1, Zenon
    <3> QED
      BY <3>2, Zenon
  <2>4. g[0] = z
    BY <2>1, <2>2
  <2>5. ASSUME NEW k \in 1..m PROVE g[k] = G[k][g[k - 1]]
    <3>1. k \in 0..m /\ k - 1 \in 0..m /\ k - 1 # m /\ (k # m => k \in 1..(m - 1))
      BY <2>2
    <3>2. g[k - 1] = f[k - 1]
      BY <3>1, Zenon
    <3>3. CASE k = m
      BY <3>1, <3>2, <3>3, Zenon
    <3>4. CASE k # m
      BY <2>1, <3>1, <3>2, <3>4, Zenon
    <3> QED
      BY <3>3, <3>4, Zenon
  <2> HIDE DEF g
  <2>6. Is(g, m)
    BY <2>3, <2>4, <2>5, Zenon
  <2>7. m \in 0..n
    OBVIOUS
  <2> HIDE DEF Is
  <2> QED
    BY <2>6, <2>7, Zenon
<1>3. n \in Good
  <2>1. n \in 0..n
    OBVIOUS
  <2> HIDE DEF Good
  <2> QED
    BY <1>1, <1>2, <2>1, Upward, Zenon
<1> QED
  BY <1>3, Zenon DEF IsLoop

\* The loop of Filter.
IsFilter(F, s, T) ==
  /\ Filter(s, T) = F[Len(s)] /\ F[0] = << >>
  /\ \A k \in 1..Len(s) : F[k] = IF s[k] \in T THEN Append(F[k-1], s[k]) ELSE F[k-1]

LEMMA FilterLoop == ASSUME Induction, NEW S, NEW s \in Seq(S), NEW T PROVE \E F : IsFilter(F, s, T)
<1> DEFINE n == Len(s)
           U == Seq(S)
           turn(k, x) == IF s[k] \in T THEN Append(x, s[k]) ELSE x
           G == [k \in 1..n |-> [x \in U |-> turn(k, x)]]
           Def(f) == f = [k \in 0..n |-> IF k = 0 THEN << >>
                                         ELSE IF s[k] \in T THEN Append(f[k-1], s[k]) ELSE f[k-1]]
<1>1. n \in Nat /\ << >> \in U /\ \A k \in 1..n : \A x \in U : turn(k, x) \in U
  OBVIOUS
<1> HIDE DEF n, U
<1>2. G \in [1..n -> [U -> U]]
  <2> HIDE DEF turn
  <2>1. \A k \in 1..n : [x \in U |-> turn(k, x)] \in [U -> U]
    BY <1>1, Zenon
  <2> QED
    BY <2>1, Zenon
<1>3. PICK f : IsLoop(f, n, U, << >>, G)
  <2> HIDE DEF G
  <2> QED
    BY <1>1, <1>2, LoopExists, Zenon
<1>4. \A k \in 1..n : k - 1 \in 0..n
  BY <1>1
<1>5. \A k \in 1..n : f[k] = turn(k, f[k - 1])
  <2> HIDE DEF turn
  <2> QED
    BY <1>3, <1>4, Zenon DEF IsLoop
<1>6. Def(f)
  <2>1. \A k \in 0..n : k = 0 \/ k \in 1..n
    BY <1>1
  <2>2. \A k \in 0..n : f[k] = IF k = 0 THEN << >>
                               ELSE IF s[k] \in T THEN Append(f[k-1], s[k]) ELSE f[k-1]
    BY <1>3, <1>5, <2>1, Zenon DEF IsLoop
  <2>3. f = [k \in 0..n |-> f[k]]
    BY <1>3, Zenon DEF IsLoop
  <2> QED
    BY <2>2, <2>3, Zenon
<1> DEFINE F == CHOOSE g : Def(g)
<1>7. Def(F)
  <2> HIDE DEF Def
  <2> QED
    BY <1>6, Zenon
<1>8. Filter(s, T) = F[n]
  BY Zenon DEF Filter, n
<1> HIDE DEF F
<1>9. \A k \in 1..n : k \in 0..n /\ k # 0
  BY <1>1
<1>10. 0 \in 0..n
  BY <1>1
<1>11. F[0] = << >> /\ \A k \in 1..n : F[k] = IF s[k] \in T THEN Append(F[k-1], s[k]) ELSE F[k-1]
  BY <1>7, <1>9, <1>10, Zenon
<1> QED
  BY <1>8, <1>11, Zenon DEF n, IsFilter

\* The loop of Concat.
IsConcat(C, ss) ==
  Concat(ss) = C[Len(ss)] /\ C[1] = ss[1] /\ \A k \in 2..Len(ss) : C[k] = C[k-1] \o ss[k]

LEMMA ConcatLoop ==
  ASSUME Induction, NEW S, NEW ss \in Seq(Seq(S)), ss # << >> PROVE \E C : IsConcat(C, ss)
<1> DEFINE n == Len(ss)
           U == Seq(S)
           G == [k \in 1..n |-> [x \in U |-> x \o ss[k]]]
           Def(c) == c = [k \in 1..n |-> IF k = 1 THEN ss[1] ELSE c[k-1] \o ss[k]]
<1>1. n \in Nat /\ 1 \in 1..n /\ << >> \in U /\ \A k \in 1..n : ss[k] \in U
  OBVIOUS
<1>0. \A k \in 1..n : \A x \in U : x \o ss[k] \in U
  BY <1>1
<1>2. << >> \o ss[1] = ss[1]
  BY <1>1
<1> HIDE DEF n, U
<1>3. G \in [1..n -> [U -> U]]
  <2>1. \A k \in 1..n : [x \in U |-> x \o ss[k]] \in [U -> U]
    BY <1>0, Zenon
  <2> QED
    BY <2>1, Zenon
<1>4. PICK f : IsLoop(f, n, U, << >>, G)
  <2> HIDE DEF G
  <2> QED
    BY <1>1, <1>3, LoopExists, Zenon
<1>5. \A k \in 1..n : k - 1 \in 0..n /\ k \in 0..n /\ (k # 1 => k - 1 \in 1..n)
  BY <1>1
<1>6. \A k \in 1..n : f[k] = f[k - 1] \o ss[k]
  BY <1>4, <1>5, Zenon DEF IsLoop
<1> DEFINE c == [k \in 1..n |-> f[k]]
<1>7. Def(c)
  <2>1. f[1] = ss[1]
    <3>1. f[1 - 1] = << >>
      <4>1. 1 - 1 = 0
        OBVIOUS
      <4> QED
        BY <1>4, <4>1, Zenon DEF IsLoop
    <3> QED
      BY <1>1, <1>2, <1>6, <3>1, Zenon
  <2>2. \A k \in 1..n : c[k] = IF k = 1 THEN ss[1] ELSE c[k-1] \o ss[k]
    BY <1>5, <1>6, <2>1, Zenon
  <2>3. c = [k \in 1..n |-> c[k]]
    BY Zenon
  <2> HIDE DEF c
  <2> QED
    BY <2>2, <2>3, Zenon
<1> DEFINE C == CHOOSE g : Def(g)
<1>8. Def(C)
  <2> HIDE DEF Def, c
  <2> QED
    BY <1>7, Zenon
<1>9. Concat(ss) = C[n]
  BY Zenon DEF Concat, n
<1> HIDE DEF C
<1>10. \A k \in 2..n : k \in 1..n /\ k # 1
  BY <1>1
<1>11. C[1] = ss[1] /\ \A k \in 2..n : C[k] = C[k-1] \o ss[k]
  BY <1>1, <1>8, <1>10, Zenon
<1> QED
  BY <1>9, <1>11, Zenon DEF n, IsConcat

\* The loop of StatusIPs over the statuses.
IsLatest(J, st) ==
  /\ Latest(st) = J[Len(st)] /\ J[0] = 0
  /\ \A k \in 1..Len(st) : J[k] = IF /\ st[k].State = "TASK_RUNNING"
                                     /\ J[k-1] # 0 => st[k].Timestamp > st[J[k-1]].Timestamp
                                    THEN k ELSE J[k-1]

LEMMA LatestLoop == ASSUME Induction, NEW S, NEW st \in Seq(S) PROVE \E J : IsLatest(J, st)
<1> DEFINE n == Len(st)
           U == 0..n
           takes(k, x) == /\ st[k].State = "TASK_RUNNING"
                          /\ x # 0 => st[k].Timestamp > st[x].Timestamp
           G == [k \in 1..n |-> [x \in U |-> IF takes(k, x) THEN k ELSE x]]
           Def(f) == f = [k \in 0..n |-> IF k = 0 THEN 0
                                         ELSE IF /\ st[k].State = "TASK_RUNNING"
                                                 /\ f[k-1] # 0 => st[k].Timestamp > st[f[k-1]].Timestamp
                                                THEN k ELSE f[k-1]]
<1>1. n \in Nat /\ 0 \in U /\ \A k \in 1..n : k \in U /\ k # 0 /\ k - 1 \in 0..n
  OBVIOUS
<1> HIDE DEF n, U
<1>2. G \in [1..n -> [U -> U]]
  <2> HIDE DEF takes
  <2>1. \A k \in 1..n : [x \in U |-> IF takes(k, x) THEN k ELSE x] \in [U -> U]
    BY <1>1, Zenon
  <2> QED
    BY <2>1, Zenon
<1>3. PICK f : IsLoop(f, n, U, 0, G)
  <2> HIDE DEF G
  <2> QED
    BY <1>1, <1>2, LoopExists, Zenon
<1>4. f[0] = 0 /\ \A k \in 1..n : f[k] = IF takes(k, f[k-1]) THEN k ELSE f[k-1]
  <2> HIDE DEF takes
  <2> QED
    BY <1>1, <1>3, Zenon DEF IsLoop
<1>5. Def(f)
  <2>1. \A k \in 0..n : k = 0 \/ k \in 1..n
    BY <1>1
  <2>2. \A k \in 0..n : f[k] = IF k = 0 THEN 0 ELSE IF takes(k, f[k-1]) THEN k ELSE f[k-1]
    <3> HIDE DEF takes
    <3> QED
      BY <1>4, <2>1, Zenon
  <2>3. f = [k \in 0..n |-> f[k]]
    BY <1>3, Zenon DEF IsLoop
  <2> QED
    BY <2>2, <2>3, Zenon
<1> DEFINE J == CHOOSE g : Def(g)
<1>6. Def(J)
  <2> HIDE DEF Def
  <2> QED
    BY <1>5, Zenon
<1>7. Latest(st) = J[n]
  BY Zenon DEF Latest, n
<1> HIDE DEF J
<1>8. J[0] = 0
  <2>1. 0 \in 0..n
    BY <1>1
  <2> QED
    BY <1>6, <2>1, Zenon
<1>9. ASSUME NEW k \in 1..n
      PROVE  J[k] = IF /\ st[k].State = "TASK_RUNNING"
                       /\ J[k-1] # 0 => st[k].Timestamp > st[J[k-1]].Timestamp
                      THEN k ELSE J[k-1]
  <2>1. k \in 0..n /\ k # 0
    BY <1>1
  <2> QED
    BY <1>6, <2>1, Zenon
<1> QED
  BY <1>7, <1>8, <1>9, Zenon DEF n, IsLatest

\* x comes first among the elements of c that lie in T.
IsFirst(x, c, T) == \E j \in 1..Len(c) : x = c[j] /\ x \in T /\ \A l \in 1..(j-1) : c[l] \notin T

\* Filter keeps what lies in T, the first of it in front.
LEMMA FilterFirst ==
  ASSUME Induction, NEW S, NEW s \in Seq(S), NEW T
  PROVE  /\ Filter(s, T) \in Seq(S)
         /\ Elems(Filter(s, T)) = Elems(s) \cap T
         /\ Filter(s, T) # << >> => IsFirst(Filter(s, T)[1], s, T)
<1> DEFINE n == Len(s)
<1>f. PICK F : IsFilter(F, s, T)
  BY FilterLoop, Zenon
<1>1. /\ Filter(s, T) = F[n] /\ F[0] = << >>
      /\ \A k \in 1..n : F[k] = IF s[k] \in T THEN Append(F[k-1], s[k]) ELSE F[k-1]
  BY <1>f, Zenon DEF IsFilter
<1>0. n \in Nat /\ DOMAIN s = 1..n /\ \A k \in 1..n : s[k] \in S
  OBVIOUS
<1> DEFINE In(x, c) == \E j \in 1..Len(c) : x = c[j]
           OK(c, k) == /\ c \in Seq(S)
                       /\ \A x : In(x, c) <=> x \in T /\ \E j \in 1..k : x = s[j]
                       /\ c # << >> => \E j \in 1..k : /\ c[1] = s[j] /\ s[j] \in T
                                                       /\ \A l \in 1..(j-1) : s[l] \notin T
           Good == {k \in 0..n : OK(F[k], k)}
<1> HIDE DEF n
<1>2. 0 \in Good
  <2>1. OK(<< >>, 0)
    <3>1. << >> \in Seq(S)
      OBVIOUS
    <3>2. \A x : ~In(x, << >>)
      OBVIOUS
    <3>3. \A j : j \notin 1..0
      OBVIOUS
    <3> HIDE DEF In
    <3> QED
      BY <3>1, <3>2, <3>3, Zenon
  <2>2. 0 \in 0..n
    BY <1>0
  <2> HIDE DEF OK
  <2> QED
    BY <1>1, <2>1, <2>2, Zenon
<1>3. ASSUME NEW k \in 1..n, k - 1 \in Good PROVE k \in Good
  <2> DEFINE c == F[k - 1]
             d == F[k]
  <2>1. k \in Nat /\ k - 1 \in 0..n /\ k \in 0..n /\ s[k] \in S /\ k \in 1..k
    BY <1>0
  <2>2. OK(c, k - 1)
    BY <1>3, Zenon
  <2>3. d = IF s[k] \in T THEN Append(c, s[k]) ELSE c
    BY <1>1, Zenon
  <2> HIDE DEF c, d
  <2>4. \A j : j \in 1..k <=> j \in 1..(k-1) \/ j = k
    BY <2>1
  <2>5. CASE s[k] \notin T
    <3>1. d = c
      BY <2>3, <2>5, Zenon
    <3>2. \A x : In(x, c) <=> x \in T /\ \E j \in 1..k : x = s[j]
      BY <2>2, <2>4, <2>5, ZenonT(40)
    <3>3. OK(c, k)
      BY <2>2, <2>4, <3>2, Zenon
    <3> HIDE DEF OK
    <3> QED
      BY <2>1, <3>1, <3>3, Zenon DEF d
  <2>6. CASE s[k] \in T
    <3>0. d = Append(c, s[k]) /\ c \in Seq(S)
      BY <2>2, <2>3, <2>6, Zenon
    <3>1. /\ d \in Seq(S) /\ Len(c) \in Nat /\ Len(d) = Len(c) + 1 /\ d[Len(c) + 1] = s[k]
          /\ \A j \in 1..Len(c) : d[j] = c[j]
      BY <2>1, <3>0
    <3>2. \A x : In(x, d) <=> In(x, c) \/ x = s[k]
      <4>1. \A j : j \in 1..Len(d) <=> j \in 1..Len(c) \/ j = Len(c) + 1
        BY <3>1
      <4> QED
        BY <3>1, <4>1, Zenon
    <3>3. \A x : In(x, d) <=> x \in T /\ \E j \in 1..k : x = s[j]
      <4> HIDE DEF In
      <4> QED
        BY <2>2, <2>4, <2>6, <3>2, Zenon
    <3>4. \E j \in 1..k : d[1] = s[j] /\ s[j] \in T /\ \A l \in 1..(j-1) : s[l] \notin T
      <4>1. CASE c = << >>
        <5>1. d[1] = s[k]
          BY <3>1, <4>1
        <5>2. \A x : ~In(x, c)
          BY <4>1
        <5>3. \A l \in 1..(k-1) : s[l] \notin T
          <6> HIDE DEF In
          <6> QED
            BY <2>2, <5>2, Zenon
        <5> QED
          BY <2>1, <2>6, <5>1, <5>3, Zenon
      <4>2. CASE c # << >>
        <5>1. d[1] = c[1]
          BY <3>0, <3>1, <4>2
        <5> HIDE DEF In
        <5> QED
          BY <2>2, <2>4, <4>2, <5>1, Zenon
      <4> QED
        BY <4>1, <4>2, Zenon
    <3>5. OK(d, k)
      BY <3>1, <3>3, <3>4, Zenon
    <3> HIDE DEF OK
    <3> QED
      BY <2>1, <3>5, Zenon DEF d
  <2> QED
    BY <2>5, <2>6, Zenon
<1>4. OK(F[n], n)
  <2>1. n \in 0..n
    BY <1>0
  <2>2. n \in Good
    <3> HIDE DEF Good
    <3> QED
      BY <1>0, <1>2, <1>3, <2>1, Upward, Zenon
  <2> QED
    BY <2>2, Zenon
<1> DEFINE r == F[n]
<1>5. r = Filter(s, T)
  BY <1>1, Zenon
<1> HIDE DEF r
<1>6. r \in Seq(S) /\ DOMAIN r = 1..Len(r)
  BY <1>4, <1>5, <1>1
<1>7. Elems(r) = Elems(s) \cap T
  <2>1. \A x : x \in Elems(r) <=> In(x, r)
    BY <1>6, Zenon DEF Elems
  <2>2. \A x : x \in Elems(s) <=> \E j \in 1..n : x = s[j]
    BY <1>0, Zenon DEF Elems
  <2>3. \A x : In(x, r) <=> x \in T /\ \E j \in 1..n : x = s[j]
    BY <1>4, Zenon DEF r
  <2> HIDE DEF In
  <2>4. \A x : x \in Elems(r) <=> x \in Elems(s) \cap T
    BY <2>1, <2>2, <2>3, Zenon
  <2> QED
    BY <2>4
<1>8. r # << >> => IsFirst(r[1], s, T)
  BY <1>4, Zenon DEF r, IsFirst, n
<1> QED
  BY <1>5, <1>6, <1>7, <1>8, Zenon

IsJoin(d, c, e, S) ==
  /\ d \in Seq(S) /\ Len(c) \in Nat /\ Len(e) \in Nat /\ Len(d) = Len(c) + Len(e)
  /\ \A j \in 1..Len(c) : d[j] = c[j]
  /\ DOMAIN c = 1..Len(c) /\ DOMAIN e = 1..Len(e) /\ DOMAIN d = 1..Len(d)
  /\ \A j \in 1..Len(d) :
       j \in 1..Len(c) \/ (j - Len(c) \in 1..Len(e) /\ d[j] = e[j - Len(c)])
  /\ Elems(d) = Elems(c) \cup Elems(e)

\* The elements of two sequences, one after the other.
LEMMA Joined ==
  ASSUME NEW S, NEW c \in Seq(S), NEW e \in Seq(S)
  PROVE  IsJoin(c \o e, c, e, S)
<1> DEFINE d == c \o e
<1>1. /\ d \in Seq(S) /\ Len(c) \in Nat /\ Len(e) \in Nat /\ Len(d) = Len(c) + Len(e)
      /\ \A j \in 1..Len(c) : d[j] = c[j]
      /\ \A j \in 1..Len(e) : d[Len(c) + j] = e[j]
      /\ DOMAIN c = 1..Len(c) /\ DOMAIN e = 1..Len(e) /\ DOMAIN d = 1..Len(d)
  OBVIOUS
<1> HIDE DEF d
<1>2. \A j \in 1..Len(d) : j \in 1..Len(c) \/ (j - Len(c) \in 1..Len(e) /\ d[j] = e[j - Len(c)])
  <2> SUFFICES ASSUME NEW j \in 1..Len(d), j \notin 1..Len(c)
               PROVE  j - Len(c) \in 1..Len(e) /\ d[j] = e[j - Len(c)]
    BY Zenon
  <2>1. j - Len(c) \in 1..Len(e) /\ Len(c) + (j - Len(c)) = j
    BY <1>1
  <2>2. d[Len(c) + (j - Len(c))] = e[j - Len(c)]
    BY <1>1, <2>1, Zenon
  <2> QED
    BY <2>1, <2>2, Zenon
<1>3. ASSUME NEW j \in 1..Len(d) PROVE d[j] \in Elems(c) \/ d[j] \in Elems(e)
  <2>1. CASE j \in 1..Len(c)
    BY <1>1, <2>1, Zenon DEF Elems
  <2>2. CASE j - Len(c) \in 1..Len(e) /\ d[j] = e[j - Len(c)]
    BY <1>1, <2>2, Zenon DEF Elems
  <2> QED
    BY <1>2, <2>1, <2>2, Zenon
<1>4. \A x \in Elems(d) : \E j \in 1..Len(d) : x = d[j]
  BY <1>1, Zenon DEF Elems
<1>5. \A x : x \in Elems(c) => x \in Elems(d)
  <2>1. \A j \in 1..Len(c) : j \in 1..Len(d)
    BY <1>1
  <2> QED
    BY <1>1, <2>1, Zenon DEF Elems
<1>6. \A x : x \in Elems(e) => x \in Elems(d)
  <2>1. \A j \in 1..Len(e) : Len(c) + j \in 1..Len(d)
    BY <1>1
  <2> QED
    BY <1>1, <2>1, ZenonT(40) DEF Elems
<1>7. Elems(d) = Elems(c) \cup Elems(e)
  BY <1>3, <1>4, <1>5, <1>6, Zenon
<1>8. IsJoin(d, c, e, S)
  BY <1>1, <1>2, <1>7, Zenon DEF IsJoin
<1> QED
  BY <1>8, Zenon DEF d

Gathers(c, ss, k, S, T) ==
  /\ c \in Seq(S)
  /\ \A x : x \in Elems(c) <=> \E l \in 1..k : x \in Elems(ss[l])
  /\ \A x : IsFirst(x, c, T) =>
       \E l \in 1..k : /\ x \in Elems(ss[l])
                       /\ \A o \in 1..(l-1) : Elems(ss[o]) \cap T = {}

\* Concat puts the sequences one after the other: what comes first in T is of
\* the first of them that has anything in T.
LEMMA ConcatFirst ==
  ASSUME Induction, NEW S, NEW ss \in Seq(Seq(S)), NEW T
  PROVE  Gathers(Concat(ss), ss, Len(ss), S, T)
<1> DEFINE n == Len(ss)
           OK(c, k) == Gathers(c, ss, k, S, T)
<1>1. n \in Nat /\ \A k \in 1..n : ss[k] \in Seq(S)
  OBVIOUS
<1>2. CASE ss = << >>
  <2>1. Concat(ss) = << >>
    BY <1>2, Zenon DEF Concat
  <2>2. << >> \in Seq(S) /\ Elems(<< >>) = {} /\ \A x : ~IsFirst(x, << >>, T)
    BY DEF Elems, IsFirst
  <2>3. \A l : l \notin 1..Len(ss)
    BY <1>2
  <2> QED
    BY <2>1, <2>2, <2>3, Zenon DEF Gathers
<1>3. CASE ss # << >>
  <2>0. PICK C : IsConcat(C, ss)
    BY <1>3, ConcatLoop, Zenon
  <2>1. /\ Concat(ss) = C[n] /\ C[1] = ss[1]
        /\ \A k \in 2..n : C[k] = C[k-1] \o ss[k]
    BY <2>0, Zenon DEF IsConcat
  <2>2. n # 0
    BY <1>3
  <2> DEFINE Good == {k \in 0..n : k # 0 => OK(C[k], k)}
  <2> HIDE DEF n
  <2>3. ASSUME NEW k \in 1..n, k - 1 \in Good PROVE k \in Good
    <3>1. k \in Nat /\ k \in 0..n /\ k \in 1..k /\ (k # 1 => k \in 2..n /\ k - 1 # 0)
      BY <1>1
    <3> DEFINE d == C[k]
    <3>2. CASE k = 1
      <4>1. d = ss[1] /\ d \in Seq(S)
        BY <1>1, <2>1, <3>2, Zenon
      <4> HIDE DEF d
      <4>2. \A l : l \in 1..1 <=> l = 1
        OBVIOUS
      <4>3. \A l : l \notin 1..(1-1)
        OBVIOUS
      <4>4. \A x : IsFirst(x, d, T) => x \in Elems(d)
        <5>1. DOMAIN d = 1..Len(d)
          BY <4>1
        <5> QED
          BY <5>1, Zenon DEF IsFirst, Elems
      <4>5. OK(d, 1)
        BY <4>1, <4>2, <4>3, <4>4, Zenon DEF Gathers
      <4> HIDE DEF OK
      <4> QED
        BY <3>1, <3>2, <4>5, Zenon DEF d
    <3>3. CASE k # 1
      <4> DEFINE c == C[k - 1]
                 e == ss[k]
      <4>1. d = c \o e /\ OK(c, k - 1) /\ e \in Seq(S)
        BY <1>1, <2>1, <2>3, <3>1, <3>3, Zenon
      <4> HIDE DEF c, d, e
      <4>2. d = c \o e /\ c \in Seq(S) /\ e \in Seq(S)
        BY <4>1, Zenon DEF Gathers
      <4>4. IsJoin(d, c, e, S)
        BY <4>2, Joined, Zenon
      <4>3. /\ d \in Seq(S) /\ Len(c) \in Nat /\ Len(e) \in Nat /\ Len(d) = Len(c) + Len(e)
            /\ \A j \in 1..Len(c) : d[j] = c[j]
            /\ DOMAIN c = 1..Len(c) /\ DOMAIN e = 1..Len(e) /\ DOMAIN d = 1..Len(d)
            /\ \A j \in 1..Len(d) :
                 j \in 1..Len(c) \/ (j - Len(c) \in 1..Len(e) /\ d[j] = e[j - Len(c)])
            /\ Elems(d) = Elems(c) \cup Elems(e)
        BY <4>4, Zenon DEF IsJoin
      <4>6. \A l : l \in 1..k <=> l \in 1..(k-1) \/ l = k
        BY <3>1
      <4>7. \A x : x \in Elems(d) <=> \E l \in 1..k : x \in Elems(ss[l])
        BY <4>1, <4>3, <4>6, Zenon DEF e, Gathers
      <4>8. ASSUME NEW x, IsFirst(x, d, T)
            PROVE  \E l \in 1..k : /\ x \in Elems(ss[l])
                                   /\ \A o \in 1..(l-1) : Elems(ss[o]) \cap T = {}
        <5>1. PICK j \in 1..Len(d) : x = d[j] /\ x \in T /\ \A l \in 1..(j-1) : d[l] \notin T
          BY <4>8, Zenon DEF IsFirst
        <5>2. CASE j \in 1..Len(c)
          <6>1. \A l \in 1..(j-1) : l \in 1..Len(c) /\ d[l] = c[l]
            BY <4>3, <5>2
          <6>2. IsFirst(x, c, T)
            BY <4>3, <5>1, <5>2, <6>1, Zenon DEF IsFirst
          <6> QED
            BY <4>1, <4>6, <6>2, Zenon DEF Gathers
        <5>3. CASE j \notin 1..Len(c)
          <6>1. j - Len(c) \in 1..Len(e) /\ d[j] = e[j - Len(c)]
            BY <4>3, <5>3, Zenon
          <6>2. x \in Elems(e)
            BY <4>3, <5>1, <6>1, Zenon DEF Elems
          <6>3. \A l \in 1..Len(c) : l \in 1..(j-1)
            BY <4>3, <5>3
          <6>4. \A y \in Elems(c) : y \notin T
            <7>1. \A l \in 1..Len(c) : c[l] \notin T
              BY <4>3, <5>1, <6>3, Zenon
            <7> QED
              BY <4>3, <7>1, Zenon DEF Elems
          <6>5. \A o \in 1..(k-1) : Elems(ss[o]) \cap T = {}
            BY <4>1, <6>4, Zenon DEF Gathers
          <6> QED
            BY <3>1, <6>2, <6>5, Zenon DEF e
        <5> QED
          BY <5>2, <5>3, Zenon
      <4>9. OK(d, k)
        BY <4>3, <4>7, <4>8, Zenon DEF Gathers
      <4> HIDE DEF OK
      <4> QED
        BY <3>1, <4>9, Zenon DEF d
    <3> QED
      BY <3>2, <3>3, Zenon
  <2>4. OK(C[n], n)
    <3>1. 0 \in Good /\ n \in 0..n
      BY <1>1
    <3>2. n \in Good
      <4> HIDE DEF Good
      <4> QED
        BY <1>1, <2>3, <3>1, Upward, Zenon
    <3> QED
      BY <2>2, <3>2, Zenon
  <2> QED
    BY <2>1, <2>4, Zenon DEF n
<1> QED
  BY <1>2, <1>3, Zenon

\* Latest settles for a newest running status, whatever the order.
LEMMA LatestNewest ==
  ASSUME Induction, NEW S, NEW st \in Seq(S), \A x \in S : x.Timestamp \in Nat
  PROVE  /\ Latest(st) \in 0..Len(st)
         /\ Latest(st) = 0 => \A k \in 1..Len(st) : st[k].State # "TASK_RUNNING"
         /\ Latest(st) # 0 =>
              /\ st[Latest(st)].State = "TASK_RUNNING"
              /\ \A k \in 1..Len(st) : st[k].State = "TASK_RUNNING" =>
                   st[k].Timestamp <= st[Latest(st)].Timestamp
<1> DEFINE n == Len(st)
           runs(k) == st[k].State = "TASK_RUNNING"
           ts(k) == st[k].Timestamp
           OK(j, k) == /\ j \in 0..k
                       /\ j = 0 => \A l \in 1..k : ~runs(l)
                       /\ j # 0 => runs(j) /\ \A l \in 1..k : runs(l) => ts(l) <= ts(j)
<1>0. PICK J : IsLatest(J, st)
  BY LatestLoop, Zenon
<1>1. /\ Latest(st) = J[n] /\ J[0] = 0
      /\ \A k \in 1..n : J[k] = IF runs(k) /\ (J[k-1] # 0 => ts(k) > ts(J[k-1])) THEN k ELSE J[k-1]
  BY <1>0, Zenon DEF IsLatest
<1>2. n \in Nat /\ \A k \in 1..n : ts(k) \in Nat
  OBVIOUS
<1> DEFINE Good == {k \in 0..n : OK(J[k], k)}
<1> HIDE DEF n, runs, ts
<1>3. 0 \in Good
  <2>1. 0 \in 0..n /\ OK(0, 0)
    BY <1>2
  <2> HIDE DEF OK
  <2> QED
    BY <1>1, <2>1, Zenon
<1>4. ASSUME NEW k \in 1..n, k - 1 \in Good PROVE k \in Good
  <2> DEFINE j == J[k - 1]
             i0 == J[k]
  <2>1. OK(j, k - 1) /\ k \in 0..n /\ k \in Nat
    BY <1>2, <1>4
  <2>2. i0 = IF runs(k) /\ (j # 0 => ts(k) > ts(j)) THEN k ELSE j
    BY <1>1, Zenon
  <2> HIDE DEF j, i0
  <2>3. OK(i0, k)
    <3>1. \A l \in 1..k : l \in 1..(k-1) \/ l = k
      BY <2>1
    <3>2. j \in 0..(k-1) /\ (j # 0 => j \in 1..n) /\ \A l \in 1..k : ts(l) \in Nat
      BY <1>2, <2>1
    <3>3. CASE runs(k) /\ (j # 0 => ts(k) > ts(j))
      <4>1. i0 = k /\ k # 0 /\ k \in 0..k
        BY <2>1, <2>2, <3>3
      <4>2. \A l \in 1..k : runs(l) => ts(l) <= ts(k)
        <5>1. ASSUME NEW l \in 1..(k-1), runs(l) PROVE ts(l) <= ts(k)
          <6>1. j # 0 /\ ts(l) <= ts(j)
            BY <2>1, <5>1, Zenon
          <6> QED
            BY <1>2, <3>2, <3>3, <6>1
        <5>2. ts(k) <= ts(k)
          BY <1>2
        <5> QED
          BY <3>1, <5>1, <5>2, Zenon
      <4> QED
        BY <3>3, <4>1, <4>2, Zenon
    <3>4. CASE ~(runs(k) /\ (j # 0 => ts(k) > ts(j)))
      <4>1. i0 = j /\ j \in 0..k
        BY <2>1, <2>2, <3>2, <3>4
      <4>2. CASE j = 0
        BY <2>1, <3>1, <3>4, <4>1, <4>2, Zenon
      <4>3. CASE j # 0
        <5>1. runs(k) => ts(k) <= ts(j)
          BY <1>2, <3>2, <3>4, <4>3, SMTT(30)
        <5> QED
          BY <2>1, <3>1, <4>1, <4>3, <5>1, Zenon
      <4> QED
        BY <4>2, <4>3, Zenon
    <3> QED
      BY <3>3, <3>4, Zenon
  <2> HIDE DEF OK
  <2> QED
    BY <2>1, <2>3, Zenon DEF i0
<1>5. n \in Good
  <2>1. n \in 0..n
    BY <1>2
  <2> HIDE DEF Good
  <2> QED
    BY <1>2, <1>3, <1>4, <2>1, Upward, Zenon
<1>6. OK(Latest(st), n)
  BY <1>1, <1>5, Zenon
<1> QED
  BY <1>6, Zenon DEF n, runs, ts

-----------------------------------------------------------------------------
(* What the sources say of a task *)

TypedStatus(s) ==
  /\ s.Timestamp \in Nat /\ s.Labels \in Seq(Elems(s.Labels))
  /\ s.NetworkInfos \in Seq(Elems(s.NetworkInfos))
  /\ \A n \in Elems(s.NetworkInfos) : n.IPAddresses \in Seq(Elems(n.IPAddresses))

TypedTask(t) ==
  t.Statuses \in Seq(Elems(t.Statuses)) /\ \A s \in Elems(t.Statuses) : TypedStatus(s)

\* A function on 1..m is a sequence of its values.
LEMMA SeqOfElems ==
  ASSUME NEW m \in Nat, NEW r, r = [k \in 1..m |-> r[k]]
  PROVE  r \in Seq(Elems(r)) /\ Len(r) = m /\ DOMAIN r = 1..m
<1>1. DOMAIN r = 1..m
  BY Zenon
<1>2. \A k \in 1..m : r[k] \in Elems(r)
  BY <1>1, Zenon DEF Elems
<1>3. r \in [1..m -> Elems(r)]
  BY <1>2, Zenon
<1> QED
  BY <1>1, <1>3

\* The labels of a status with a key.
LEMMA LabelsSay ==
  ASSUME Induction, NEW s, s.Labels \in Seq(Elems(s.Labels)), NEW key
  PROVE  /\ Labels(s, key) \in Seq(Elems(Labels(s, key)))
         /\ Elems(Labels(s, key)) = {l.Value : l \in {x \in Elems(s.Labels) : x.Key = key}}
<1> DEFINE T == {l \in Elems(s.Labels) : l.Key = key}
           own == Filter(s.Labels, T)
           r == [k \in DOMAIN own |-> own[k].Value]
<1>1. Labels(s, key) = r
  BY Zenon DEF Labels, Elems
<1>2. own \in Seq(Elems(s.Labels)) /\ Elems(own) = Elems(s.Labels) \cap T
  <2> HIDE DEF T
  <2> QED
    BY FilterFirst, Zenon
<1>3. Elems(own) = T
  BY <1>2, Zenon
<1> HIDE DEF own, T
<1>4. DOMAIN own = 1..Len(own) /\ Len(own) \in Nat
  BY <1>2
<1>5. r \in Seq(Elems(r)) /\ DOMAIN r = DOMAIN own
  <2>1. r = [k \in 1..Len(own) |-> r[k]] /\ DOMAIN r = DOMAIN own
    BY <1>4, Zenon
  <2> HIDE DEF r
  <2> QED
    BY <1>4, <2>1, SeqOfElems, Zenon
<1>6. \A x : x \in Elems(r) <=> x \in {l.Value : l \in Elems(own)}
  BY Zenon DEF Elems
<1>7. Elems(r) = {l.Value : l \in T}
  BY <1>3, <1>6
<1> QED
  BY <1>1, <1>5, <1>7, Zenon DEF T

\* The addresses of the interfaces, but for the empty strings in front.
LEMMA NetworkInfosSay ==
  ASSUME Induction, NEW s, TypedStatus(s)
  PROVE  /\ networkInfoIPs(s) \in Seq(Elems(networkInfoIPs(s)))
         /\ DOMAIN ParseIP \cap Elems(networkInfoIPs(s)) = DOMAIN ParseIP \cap Stated(s, "netinfo")
<1> DEFINE infos == s.NetworkInfos
           of(n) == IF n.IPAddresses # << >> THEN n.IPAddresses
                    ELSE IF n.IPAddress # "" THEN <<n.IPAddress>> ELSE << >>
           says(n) == IF n.IPAddresses # << >> THEN Elems(n.IPAddresses) ELSE {n.IPAddress}
           a == [k \in DOMAIN infos |-> ""]
           ss == [k \in DOMAIN infos |-> of(infos[k])]
           b == Concat(ss)
           S == {""} \cup UNION {Elems(of(n)) : n \in Elems(infos)}
           r == a \o b
<1>1. networkInfoIPs(s) = r
  BY Zenon DEF networkInfoIPs
<1>2. Stated(s, "netinfo") = UNION {says(n) : n \in Elems(infos)}
  BY DEF Stated
<1>3. infos \in Seq(Elems(infos)) /\ DOMAIN infos = 1..Len(infos) /\ Len(infos) \in Nat
  BY DEF TypedStatus
<1>4. ASSUME NEW n \in Elems(infos)
      PROVE  /\ of(n) \in Seq(Elems(of(n)))
             /\ DOMAIN ParseIP \cap Elems(of(n)) = DOMAIN ParseIP \cap says(n)
  <2>1. n.IPAddresses \in Seq(Elems(n.IPAddresses))
    BY Zenon DEF TypedStatus
  <2>2. \A x : <<x>> \in Seq(Elems(<<x>>)) /\ Elems(<<x>>) = {x}
    BY DEF Elems
  <2>3. << >> \in Seq(Elems(<< >>)) /\ Elems(<< >>) = {}
    BY DEF Elems
  <2>4. CASE n.IPAddresses # << >>
    BY <2>1, <2>4, Zenon
  <2>5. CASE n.IPAddresses = << >> /\ n.IPAddress # ""
    <3>1. of(n) = <<n.IPAddress>> /\ says(n) = {n.IPAddress}
      BY <2>5, Zenon
    <3> HIDE DEF of, says
    <3> QED
      BY <2>2, <3>1, Zenon
  <2>6. CASE n.IPAddresses = << >> /\ n.IPAddress = ""
    <3>1. of(n) = << >> /\ says(n) = {""}
      BY <2>6, Zenon
    <3> HIDE DEF of, says
    <3> QED
      BY <2>3, <3>1, StatusAssumption, Zenon
  <2> QED
    BY <2>4, <2>5, <2>6, Zenon
<1> HIDE DEF of, says, infos
<1>5. ss \in Seq(Seq(S)) /\ Len(ss) = Len(infos) /\ \A k \in 1..Len(infos) : ss[k] = of(infos[k])
  <2>1. \A k \in 1..Len(infos) : infos[k] \in Elems(infos)
    BY <1>3, Zenon DEF Elems
  <2>2. \A X, Y : X \subseteq Y => Seq(X) \subseteq Seq(Y)
    OBVIOUS
  <2>3. \A n \in Elems(infos) : Elems(of(n)) \subseteq S
    BY Zenon
  <2> HIDE DEF S
  <2>4. \A k \in 1..Len(infos) : of(infos[k]) \in Seq(S)
    BY <1>4, <2>1, <2>2, <2>3, Zenon
  <2>5. ss \in [1..Len(infos) -> Seq(S)]
    BY <1>3, <2>4, Zenon
  <2>6. \A k \in 1..Len(infos) : ss[k] = of(infos[k])
    BY <1>3, Zenon
  <2> HIDE DEF ss
  <2> QED
    BY <1>3, <2>5, <2>6
<1>6. Gathers(b, ss, Len(ss), S, {})
  <2> HIDE DEF ss, S
  <2> QED
    BY <1>5, ConcatFirst, Zenon
<1>7. a \in Seq(S) /\ Elems(a) \subseteq {""}
  <2>1. a \in [1..Len(infos) -> S]
    BY <1>3, Zenon
  <2>2. Elems(a) \subseteq {""}
    BY Zenon DEF Elems
  <2> HIDE DEF a, S
  <2>3. a \in Seq(S)
    BY <1>3, <2>1
  <2> QED
    BY <2>2, <2>3, Zenon
<1> HIDE DEF a, b, S
<1>8. r \in Seq(S) /\ Elems(r) = Elems(a) \cup Elems(b)
  <2>1. b \in Seq(S)
    BY <1>6, Zenon DEF Gathers
  <2>2. IsJoin(r, a, b, S)
    BY <1>7, <2>1, Joined, Zenon
  <2> QED
    BY <2>2, Zenon DEF IsJoin
<1> HIDE DEF r
<1>9. r \in Seq(Elems(r))
  <2>1. Len(r) \in Nat /\ r = [k \in 1..Len(r) |-> r[k]]
    BY <1>8
  <2> QED
    BY <2>1, SeqOfElems, Zenon
<1>10. \A x : x \in Elems(b) <=> \E n \in Elems(infos) : x \in Elems(of(n))
  <2> HIDE DEF ss
  <2>1. \A x : x \in Elems(b) <=> \E k \in 1..Len(infos) : x \in Elems(of(infos[k]))
    BY <1>5, <1>6, Zenon DEF Gathers
  <2> QED
    BY <1>3, <2>1, ZenonT(40) DEF Elems
<1>11. \A x \in DOMAIN ParseIP : x \in Elems(r) <=> x \in Stated(s, "netinfo")
  <2>1. \A x \in DOMAIN ParseIP : x \notin Elems(a)
    BY <1>7, StatusAssumption, Zenon
  <2>2. \A x \in DOMAIN ParseIP : \A n \in Elems(infos) : x \in Elems(of(n)) <=> x \in says(n)
    BY <1>4, Zenon
  <2> QED
    BY <1>2, <1>8, <1>10, <2>1, <2>2, ZenonT(40)
<1> QED
  BY <1>1, <1>9, <1>11, Zenon

\* The status that StatusIPs settles for, if any, in a set.
Counted(t) == IF Latest(t.Statuses) = 0 THEN {} ELSE {t.Statuses[Latest(t.Statuses)]}

\* What may be read off a source, the strings no address can be parsed from included.
Says(t, slaveIP, src) ==
  IF src = "host" THEN {slaveIP} ELSE UNION {Stated(s, src) : s \in Counted(t)}

\* The status that counts is a newest running one; none counts if none runs.
LEMMA CountedNewest ==
  ASSUME Induction, NEW t, TypedTask(t)
  PROVE  /\ Counted(t) \in {{s} : s \in Newest(t)} \cup IF Newest(t) = {} THEN {{}} ELSE {}
         /\ \A s \in Counted(t) : TypedStatus(s)
<1> DEFINE st == t.Statuses
           S == Elems(st)
           l == Latest(st)
<1>1. st \in Seq(S) /\ \A x \in S : TypedStatus(x) /\ x.Timestamp \in Nat
  BY Zenon DEF TypedTask, TypedStatus
<1>2. /\ l \in 0..Len(st)
      /\ l = 0 => \A k \in 1..Len(st) : st[k].State # "TASK_RUNNING"
      /\ l # 0 => /\ st[l].State = "TASK_RUNNING"
                  /\ \A k \in 1..Len(st) : st[k].State = "TASK_RUNNING" =>
                       st[k].Timestamp <= st[l].Timestamp
  <2> HIDE DEF st, S
  <2> QED
    BY <1>1, LatestNewest, Zenon DEF l
<1>3. \A x : x \in S <=> \E k \in 1..Len(st) : x = st[k]
  <2>1. DOMAIN st = 1..Len(st)
    BY <1>1
  <2> QED
    BY <2>1, Zenon DEF Elems
<1>4. Newest(t) = {s \in S : s.State = "TASK_RUNNING" /\
                     \A r \in S : r.State = "TASK_RUNNING" => r.Timestamp <= s.Timestamp}
  BY Zenon DEF Newest
<1>5. Counted(t) = IF l = 0 THEN {} ELSE {st[l]}
  BY Zenon DEF Counted
<1> HIDE DEF st, S, l
<1>6. CASE l = 0
  <2>1. \A x \in S : x.State # "TASK_RUNNING"
    BY <1>2, <1>3, <1>6, ZenonT(40)
  <2>2. Newest(t) = {} /\ Counted(t) = {}
    BY <1>4, <1>5, <1>6, <2>1, Zenon
  <2> QED
    BY <2>2, Zenon
<1>7. CASE l # 0
  <2>1. l \in 1..Len(st)
    <3>1. Len(st) \in Nat
      BY <1>1
    <3> QED
      BY <1>2, <1>7, <3>1
  <2>2. st[l] \in S
    BY <1>3, <2>1, Zenon
  <2>3. st[l] \in Newest(t)
    <3>1. \A x \in S : x.State = "TASK_RUNNING" => x.Timestamp <= st[l].Timestamp
      BY <1>2, <1>3, <1>7, Zenon
    <3> QED
      BY <1>2, <1>4, <1>7, <2>2, <3>1, Zenon
  <2>4. Counted(t) = {st[l]}
    BY <1>5, <1>7, Zenon
  <2> QED
    BY <1>1, <2>2, <2>3, <2>4, Zenon
<1> QED
  BY <1>6, <1>7, Zenon

\* The sequence a source gives, and what of it can be parsed.
LEMMA SourceSays ==
  ASSUME Induction, NEW t, TypedTask(t), NEW slaveIP, NEW src
  PROVE  /\ source(t, slaveIP, src) \in Seq(Elems(source(t, slaveIP, src)))
         /\ DOMAIN ParseIP \cap Elems(source(t, slaveIP, src)) = DOMAIN ParseIP \cap Says(t, slaveIP, src)
<1> DEFINE r == source(t, slaveIP, src)
           l == Latest(t.Statuses)
           s == t.Statuses[l]
<1>1. \A x : <<x>> \in Seq(Elems(<<x>>)) /\ Elems(<<x>>) = {x}
  BY DEF Elems
<1>2. << >> \in Seq(Elems(<< >>)) /\ Elems(<< >>) = {}
  BY DEF Elems
<1>3. CASE src = "host"
  <2>1. r = <<slaveIP>> /\ Says(t, slaveIP, src) = {slaveIP}
    BY <1>3, Zenon DEF source, Says
  <2> QED
    BY <1>1, <2>1, Zenon
<1>4. CASE src # "host" /\ l = 0
  <2>1. r = << >> /\ Counted(t) = {}
    BY <1>4, Zenon DEF source, Counted
  <2>2. Says(t, slaveIP, src) = {}
    BY <1>4, <2>1, Zenon DEF Says
  <2> QED
    BY <1>2, <2>1, <2>2, Zenon
<1>5. CASE src # "host" /\ l # 0
  <2>1. Counted(t) = {s} /\ TypedStatus(s)
    <3>1. Counted(t) = {s}
      BY <1>5, Zenon DEF Counted
    <3> QED
      BY <3>1, CountedNewest, Zenon
  <2>2. Says(t, slaveIP, src) = Stated(s, src)
    BY <1>5, <2>1, Zenon DEF Says
  <2>3. r = CASE src = "docker"  -> Labels(s, "docker")
              [] src = "mesos"   -> Labels(s, "mesos")
              [] src = "netinfo" -> networkInfoIPs(s)
              [] OTHER           -> << >>
    BY <1>5, Zenon DEF source
  <2> HIDE DEF s, r
  <2>4. s.Labels \in Seq(Elems(s.Labels))
    BY <2>1, Zenon DEF TypedStatus
  <2> SUFFICES r \in Seq(Elems(r)) /\ DOMAIN ParseIP \cap Elems(r) = DOMAIN ParseIP \cap Stated(s, src)
    BY <2>2, Zenon DEF r
  <2>5. CASE src = "docker"
    <3>1. r = Labels(s, "docker")
      BY <2>3, <2>5
    <3>2. Stated(s, src) = {x.Value : x \in {y \in Elems(s.Labels) : y.Key = "docker"}}
      BY <2>5 DEF Stated
    <3> QED
      BY <2>4, <3>1, <3>2, LabelsSay, Zenon
  <2>6. CASE src = "mesos"
    <3>1. r = Labels(s, "mesos")
      BY <2>3, <2>6
    <3>2. Stated(s, src) = {x.Value : x \in {y \in Elems(s.Labels) : y.Key = "mesos"}}
      BY <2>6 DEF Stated
    <3> QED
      BY <2>4, <3>1, <3>2, LabelsSay, Zenon
  <2>7. CASE src = "netinfo"
    <3>1. r = networkInfoIPs(s)
      BY <2>3, <2>7
    <3> QED
      BY <2>1, <2>7, <3>1, NetworkInfosSay, Zenon
  <2>8. CASE src \notin {"docker", "mesos", "netinfo"}
    <3>1. r = << >>
      BY <2>3, <2>8
    <3>2. Stated(s, src) = {}
      BY <2>8 DEF Stated
    <3> QED
      BY <1>2, <3>1, <3>2, Zenon
  <2> QED
    BY <2>5, <2>6, <2>7, <2>8, Zenon
<1> QED
  BY <1>3, <1>4, <1>5, Zenon

\* A task's address is one its first source with any states of the status that
\* counts (task.IP over IPs, StatusIPs and the parsing of what they give).
LEMMA IPChosen ==
  ASSUME Induction, NEW t, TypedTask(t), NEW slaveIP, ipSources \in Seq(Elems(ipSources))
  PROVE  ByPriority(IP(t, slaveIP, ipSources), Counted(t), slaveIP)
<1> DEFINE n == Len(ipSources)
           ss == [k \in DOMAIN ipSources |-> source(t, slaveIP, ipSources[k])]
           S == UNION {Elems(source(t, slaveIP, ipSources[k])) : k \in DOMAIN ipSources}
           c == Concat(ss)
           D == DOMAIN ParseIP
           ips == Filter(c, D)
           by(k) == AddressesBy(Counted(t), slaveIP, ipSources[k])
<1>1. n \in Nat /\ DOMAIN ipSources = 1..n
  OBVIOUS
<1>2. ss \in Seq(Seq(S)) /\ Len(ss) = n /\ \A k \in 1..n : ss[k] = source(t, slaveIP, ipSources[k])
  <2>1. \A k \in 1..n : ss[k] = source(t, slaveIP, ipSources[k])
    BY <1>1, Zenon
  <2>2. \A k \in 1..n : source(t, slaveIP, ipSources[k]) \in Seq(S)
    <3> TAKE k \in 1..n
    <3> DEFINE q == source(t, slaveIP, ipSources[k])
    <3>1. \A X, Y : X \subseteq Y => Seq(X) \subseteq Seq(Y)
      OBVIOUS
    <3>2. Elems(q) \subseteq S
      BY <1>1, Zenon
    <3>3. q \in Seq(Elems(q))
      BY SourceSays, Zenon
    <3> HIDE DEF S, q
    <3>4. q \in Seq(S)
      BY <3>1, <3>2, <3>3, Zenon
    <3> QED
      BY <3>4, Zenon DEF q
  <2> HIDE DEF S
  <2>3. ss \in [1..n -> Seq(S)]
    BY <1>1, <2>2, Zenon
  <2> HIDE DEF ss, n
  <2> QED
    BY <1>1, <2>1, <2>3
<1>3. \A k \in 1..n : by(k) = {ParseIP[a] : a \in D \cap Elems(ss[k])}
  <2> SUFFICES ASSUME NEW k \in 1..n PROVE by(k) = {ParseIP[a] : a \in D \cap Elems(ss[k])}
    BY Zenon
  <2>1. D \cap Elems(ss[k]) = D \cap Says(t, slaveIP, ipSources[k])
    BY <1>2, SourceSays, Zenon
  <2>2. by(k) = {ParseIP[a] : a \in D \cap Says(t, slaveIP, ipSources[k])}
    BY Zenon DEF AddressesBy, Says
  <2> QED
    BY <2>1, <2>2, Zenon
<1>4. Gathers(c, ss, n, S, D)
  <2> HIDE DEF ss, S, D
  <2>1. Gathers(Concat(ss), ss, Len(ss), S, D)
    BY <1>2, ConcatFirst, Zenon
  <2> QED
    BY <1>2, <2>1, Zenon
<1>5. IP(t, slaveIP, ipSources) = IF ips # << >> THEN ParseIP[ips[1]] ELSE ""
  BY Zenon DEF IP, IPs
<1> HIDE DEF ss, S, c, D, by
<1>6. /\ ips \in Seq(S) /\ Elems(ips) = Elems(c) \cap D
      /\ ips # << >> => IsFirst(ips[1], c, D)
  <2>1. c \in Seq(S)
    BY <1>4, Zenon DEF Gathers
  <2> QED
    BY <2>1, FilterFirst, Zenon
<1> HIDE DEF ips
<1>7. ByPriority(IP(t, slaveIP, ipSources), Counted(t), slaveIP) <=>
        LET some == {k \in 1..n : by(k) # {}}
        IN  \/ some = {} /\ IP(t, slaveIP, ipSources) = ""
            \/ \E k \in some : (\A l \in some : k <= l) /\ IP(t, slaveIP, ipSources) \in by(k)
  BY <1>1, Zenon DEF ByPriority, by
<1>8. CASE ips = << >>
  <2>1. Elems(c) \cap D = {}
    <3>1. Elems(<< >>) = {}
      BY DEF Elems
    <3> QED
      BY <1>6, <1>8, <3>1, Zenon
  <2>2. \A k \in 1..n : D \cap Elems(ss[k]) = {}
    BY <1>4, <2>1, Zenon DEF Gathers
  <2>3. \A k \in 1..n : by(k) = {}
    BY <1>3, <2>2, Zenon
  <2>4. IP(t, slaveIP, ipSources) = ""
    BY <1>5, <1>8, Zenon
  <2> QED
    BY <1>7, <2>3, <2>4, Zenon
<1>9. CASE ips # << >>
  <2> DEFINE x == ips[1]
  <2>1. IsFirst(x, c, D) /\ IP(t, slaveIP, ipSources) = ParseIP[x]
    BY <1>5, <1>6, <1>9, Zenon
  <2> HIDE DEF x
  <2>2. x \in D
    BY <2>1, Zenon DEF IsFirst
  <2>3. PICK k \in 1..n : x \in Elems(ss[k]) /\ \A o \in 1..(k-1) : Elems(ss[o]) \cap D = {}
    BY <1>4, <2>1, Zenon DEF Gathers
  <2>4. IP(t, slaveIP, ipSources) \in by(k)
    BY <1>3, <2>1, <2>2, <2>3, Zenon
  <2>5. \A o \in 1..(k-1) : o \in 1..n => by(o) = {}
    <3>1. \A o \in 1..(k-1) : D \cap Elems(ss[o]) = {}
      BY <2>3, Zenon
    <3> QED
      BY <1>3, <3>1, ZenonT(40)
  <2>6. \A o \in 1..n : o \notin 1..(k-1) => k <= o
    BY <1>1
  <2>7. \A o \in {j \in 1..n : by(j) # {}} : k <= o
    BY <2>5, <2>6, Zenon
  <2>8. k \in {j \in 1..n : by(j) # {}}
    BY <2>4, Zenon
  <2> QED
    BY <1>7, <2>4, <2>7, <2>8, Zenon
<1> QED
  BY <1>8, <1>9, Zenon

-----------------------------------------------------------------------------
(* The masters *)

\* The address under the name of a master's number.
Of(k) == Addresses(<<MasterN[k]>>)
NumberedIPs == UNION {Of(k) : k \in DOMAIN MasterN}
Given == {sj.Leader.ip} \cup {masters[j].ip : j \in {l \in 1..i : masters[l] # NoAddr}}

MasterNames == {<<"leader">>, <<"master">>} \cup {<<MasterN[k]>> : k \in DOMAIN MasterN}

Inputs ==
  /\ EnforceRFC952 \in BOOLEAN
  /\ pc # "ParseState" =>
       sj \in States /\ masters \in MasterLists /\ hostSpec = Mangled[EnforceRFC952]
  /\ pc \in {"slaves", "leader", "masters", "tasks"} =>
       \A f \in Elems(sj.Frameworks) : DomainFrag(f.Name) # Panic
  /\ at \in (Nat \ {0}) \X (Nat \ {0})

\* n numbers are given, to one address each and to no address twice.
Numbering(n) ==
  /\ \A k \in DOMAIN MasterN : k >= n => Of(k) = {}
  /\ \A k \in DOMAIN MasterN : k < n => \E h : Of(k) = {h}
  /\ \A k, l \in DOMAIN MasterN : k # l => Of(k) \cap Of(l) = {}

\* The loop of masterRecord: all the masters seen so far have a number, the
\* leader only if it was among them.
Loop ==
  /\ Addresses(<<"leader">>) = {sj.Leader.ip}
  /\ Addresses(<<"master">>) = Given
  /\ Numbering(idx)
  /\ NumberedIPs = IF addedLeaderMasterN THEN Given ELSE Given \ {sj.Leader.ip}

Finished ==
  /\ Addresses(<<"leader">>) = {sj.Leader.ip}
  /\ Addresses(<<"master">>) = {sj.Leader.ip} \cup {m.ip : m \in Elems(masters) \ {NoAddr}}
  /\ \E n \in Nat : 0..(n - 1) \subseteq DOMAIN MasterN /\ Numbering(n)
  /\ NumberedIPs = Addresses(<<"master">>)

MastersInv ==
  /\ Inputs
  /\ pc \in {"ParseState", "frameworks"} => As = {}
  /\ pc \in {"ParseState", "frameworks", "slaves", "leader"} =>
       i = 0 /\ idx = 0 /\ addedLeaderMasterN = FALSE
  /\ pc \in {"slaves", "leader"} /\ NoClash => \A a \in As : a.name \notin MasterNames
  /\ pc = "masters" =>
       /\ sj.Leader # NoAddr
       /\ i \in 0..Len(masters) /\ idx \in 0..i /\ addedLeaderMasterN \in BOOLEAN
       /\ NoClash => Loop
  /\ pc \in {"tasks", "done"} /\ sj.Leader # NoAddr /\ NoClash => Finished

-----------------------------------------------------------------------------
(* Addresses *)

LEMMA AddressesAdded ==
  ASSUME NEW R, As' = As \cup R, NEW n
  PROVE  Addresses(n)' = Addresses(n) \cup {a.host : a \in {x \in R : x.name = n}}
BY Zenon DEF Addresses

LEMMA OtherNames ==
  ASSUME NEW R, As' = As \cup R, NEW n, \A x \in R : x.name # n
  PROVE  Addresses(n)' = Addresses(n)
BY AddressesAdded

LEMMA OneAdded ==
  ASSUME NEW n, NEW h, As' = As \cup {ARec(n, h)}
  PROVE  /\ Addresses(n)' = Addresses(n) \cup {h}
         /\ \A x : x # n => Addresses(x)' = Addresses(x)
<1> DEFINE R == {ARec(n, h)}
<1>1. ARec(n, h).name = n /\ ARec(n, h).host = h
  BY Zenon DEF ARec
<1>2. {a.host : a \in {r \in R : r.name = n}} = {h}
  BY <1>1, Zenon
<1>3. \A x : x # n => \A r \in R : r.name # x
  BY <1>1, Zenon
<1>4. As' = As \cup R
  BY Zenon
<1> HIDE DEF R
<1>5. Addresses(n)' = Addresses(n) \cup {a.host : a \in {r \in R : r.name = n}}
  BY <1>4, AddressesAdded, Zenon
<1>6. ASSUME NEW x, x # n PROVE Addresses(x)' = Addresses(x)
  BY <1>3, <1>4, <1>6, OtherNames, Zenon
<1> QED
  BY <1>2, <1>5, <1>6, Zenon

LEMMA TwoAdded ==
  ASSUME NEW n, NEW h, NEW m, NEW g, n # m, As' = As \cup {ARec(n, h), ARec(m, g)}
  PROVE  /\ Addresses(n)' = Addresses(n) \cup {h}
         /\ Addresses(m)' = Addresses(m) \cup {g}
         /\ \A x : x \notin {n, m} => Addresses(x)' = Addresses(x)
<1> DEFINE R == {ARec(n, h), ARec(m, g)}
<1>1. ARec(n, h).name = n /\ ARec(n, h).host = h /\ ARec(m, g).name = m /\ ARec(m, g).host = g
  BY Zenon DEF ARec
<1>2. {a.host : a \in {r \in R : r.name = n}} = {h} /\ {a.host : a \in {r \in R : r.name = m}} = {g}
  BY <1>1, Zenon
<1>3. \A x : x \notin {n, m} => \A r \in R : r.name # x
  BY <1>1, Zenon
<1>4. As' = As \cup R
  BY Zenon
<1> HIDE DEF R
<1>5. /\ Addresses(n)' = Addresses(n) \cup {a.host : a \in {r \in R : r.name = n}}
      /\ Addresses(m)' = Addresses(m) \cup {a.host : a \in {r \in R : r.name = m}}
  BY <1>4, AddressesAdded, Zenon
<1>6. ASSUME NEW x, x \notin {n, m} PROVE Addresses(x)' = Addresses(x)
  BY <1>3, <1>4, <1>6, OtherNames, Zenon
<1> QED
  BY <1>2, <1>5, <1>6, Zenon

LEMMA InNumbered ==
  /\ \A x : x \in NumberedIPs <=> \E k \in DOMAIN MasterN : x \in Of(k)
  /\ \A x : x \in NumberedIPs' <=> \E k \in DOMAIN MasterN : x \in Of(k)'
BY Zenon DEF NumberedIPs

LEMMA NamesDiffer ==
  /\ <<"leader">> # <<"master">> /\ <<"slave">> \notin MasterNames
  /\ \A k \in DOMAIN MasterN : <<MasterN[k]>> \notin {<<"leader">>, <<"master">>, <<"slave">>}
  /\ \A k, l \in DOMAIN MasterN : k # l => <<MasterN[k]>> # <<MasterN[l]>>
BY RecordsAssumption, Zenon DEF MasterNames

\* Records under other names change nothing of what Loop and Finished say.
LEMMA Preserved ==
  ASSUME NEW R, As' = As \cup R, \A x \in R : x.name \notin MasterNames,
         UNCHANGED <<sj, masters, i, idx, addedLeaderMasterN>>
  PROVE  /\ Addresses(<<"leader">>)' = Addresses(<<"leader">>)
         /\ Addresses(<<"master">>)' = Addresses(<<"master">>)
         /\ \A k \in DOMAIN MasterN : Of(k)' = Of(k)
BY OtherNames, ZenonT(40) DEF MasterNames, Of

LEMMA FinishedKept ==
  ASSUME Finished, UNCHANGED <<sj, masters>>,
         Addresses(<<"leader">>)' = Addresses(<<"leader">>),
         Addresses(<<"master">>)' = Addresses(<<"master">>),
         \A k \in DOMAIN MasterN : Of(k)' = Of(k)
  PROVE  Finished'
<1>1. NumberedIPs' = NumberedIPs
  BY Zenon DEF NumberedIPs
<1>2. ASSUME NEW n \in Nat, Numbering(n) PROVE Numbering(n)'
  BY <1>2, Zenon DEF Numbering
<1> QED
  BY <1>1, <1>2, Zenon DEF Finished

-----------------------------------------------------------------------------
(* The steps *)

Labs == STRING \cup {""}

\* The names of a task have two labels or more.
LEMMA LongName ==
  ASSUME NEW x, NEW s \in Seq(Labs), s # << >>, NEW n \in MasterNames
  PROVE  <<x>> \o s # n /\ Append(<<x>> \o s, "slave") # n
<1> DEFINE T == Labs \cup {x, "slave"}
<1>1. s \in Seq(T) /\ <<x>> \in Seq(T)
  OBVIOUS
<1>2. Len(s) \in Nat /\ Len(s) # 0
  OBVIOUS
<1>3. <<x>> \o s \in Seq(T) /\ Len(<<x>> \o s) = 1 + Len(s)
  BY <1>1
<1>4. Len(Append(<<x>> \o s, "slave")) = 2 + Len(s)
  BY <1>2, <1>3
<1>5. Len(n) = 1
  BY DEF MasterNames
<1> DEFINE a == <<x>> \o s
           b == Append(a, "slave")
<1>6. Len(a) # Len(n) /\ Len(b) # Len(n)
  BY <1>2, <1>3, <1>4, <1>5
<1> HIDE DEF a, b
<1>7. a # n /\ b # n
  BY <1>6, Zenon
<1> QED
  BY <1>7, Zenon DEF a, b

LEMMA TaskNamesLong ==
  ASSUME NEW f, NEW t, NEW taskName,
         DomainFrag(f.Name) \in Seq(Labs), DomainFrag(f.Name) # << >>
  PROVE  \A r \in taskContextRecord(f, t, taskName).A : r.name \notin MasterNames
<1>1. \A n \in MasterNames :
        /\ <<taskName>> \o DomainFrag(f.Name) # n
        /\ Append(<<taskName>> \o DomainFrag(f.Name), "slave") # n
        /\ canonical(f, t, taskName) # n
        /\ Append(canonical(f, t, taskName), "slave") # n
  BY LongName, Zenon DEF canonical
<1>2. taskContextRecord(f, t, taskName).A =
        NonEmpty(taskAs(<<taskName>> \o DomainFrag(f.Name), canonical(f, t, taskName),
                        IP(t, SlaveIPs[t.SlaveID], ipSources), SlaveIPs[t.SlaveID]))
  BY DEF taskContextRecord
<1>3. ASSUME NEW arec, NEW name, NEW a, NEW b, NEW r \in NonEmpty(taskAs(arec, name, a, b))
      PROVE  r.name \in {arec, name, Append(arec, "slave"), Append(name, "slave")}
  <2>1. r \in taskAs(arec, name, a, b)
    BY Zenon DEF NonEmpty
  <2> QED
    BY <2>1 DEF taskAs, ARec
<1>4. ASSUME NEW r \in taskContextRecord(f, t, taskName).A PROVE r.name \notin MasterNames
  <2>0. r \in NonEmpty(taskAs(<<taskName>> \o DomainFrag(f.Name), canonical(f, t, taskName),
                        IP(t, SlaveIPs[t.SlaveID], ipSources), SlaveIPs[t.SlaveID]))
    BY <1>2, Zenon
  <2>1. r.name \in {<<taskName>> \o DomainFrag(f.Name), canonical(f, t, taskName),
                    Append(<<taskName>> \o DomainFrag(f.Name), "slave"),
                    Append(canonical(f, t, taskName), "slave")}
    BY <2>0, <1>3, Zenon
  <2> QED
    BY <1>1, <2>1, Zenon
<1> QED
  BY <1>4, Zenon

LEMMA FragTyped ==
  ASSUME Inputs, pc # "ParseState", NEW f \in Elems(sj.Frameworks)
  PROVE  \/ DomainFrag(f.Name) = Panic
         \/ DomainFrag(f.Name) \in Seq(Labs) /\ DomainFrag(f.Name) # << >>
<1>1. hostSpec[f.Name].frag \in Seq(STRING) \cup {Panic}
  BY RecordsAssumption, Zenon DEF Inputs
<1>2. <<"">> \in Seq(Labs)
  BY DEF Labs
<1>3. <<"">> # << >>
  <2>1. Len(<<"">>) = 1 /\ Len(<< >>) = 0
    BY Zenon
  <2> QED
    BY <2>1, Zenon
<1>4. \A s \in Seq(STRING) : s \in Seq(Labs)
  <2>1. ASSUME NEW S, NEW x, NEW s \in Seq(S) PROVE s \in Seq(S \cup {x})
    OBVIOUS
  <2> QED
    BY <2>1, Zenon DEF Labs
<1>5. CASE hostSpec[f.Name].frag = << >>
  BY <1>2, <1>3, <1>5, Zenon DEF DomainFrag
<1>6. CASE hostSpec[f.Name].frag # << >>
  <2>1. DomainFrag(f.Name) = hostSpec[f.Name].frag
    BY <1>6, Zenon DEF DomainFrag
  <2> QED
    BY <1>1, <1>4, <1>6, <2>1, Zenon
<1> QED
  BY <1>5, <1>6, Zenon

LEMMA InitMasters == Init => MastersInv
BY DEF Init, MastersInv, Inputs

LEMMA InputsKept ==
  ASSUME Inputs, UNCHANGED inputs, pc # "ParseState", pc' # "ParseState",
         at' \in (Nat \ {0}) \X (Nat \ {0}),
         pc' \in {"slaves", "leader", "masters", "tasks"} =>
           pc \in {"slaves", "leader", "masters", "tasks"}
  PROVE  Inputs'
BY Zenon DEF Inputs, inputs, DomainFrag

LEMMA SameClash == ASSUME UNCHANGED inputs PROVE NoClash' <=> NoClash
BY Zenon DEF inputs, NoClash, DomainFrag

LEMMA StepFrameworks == ASSUME MastersInv, frameworkRecords PROVE MastersInv'
<1> DEFINE a(f) == DomainFrag(f.Name)
           fs == {f \in Elems(sj.Frameworks) : hostToIP4[HostPort(f).host] # ""}
<1>1. CASE \E f \in Elems(sj.Frameworks) : a(f) = Panic
  <2>1. Crash
    BY <1>1, Zenon DEF frameworkRecords
  <2> QED
    BY <2>1, InputsKept, Zenon DEF frameworkRecords, Crash, MastersInv, Inputs
<1>2. CASE ~ \E f \in Elems(sj.Frameworks) : a(f) = Panic
  <2>1. /\ As' = As \cup {ARec(a(f), hostToIP4[HostPort(f).host]) : f \in fs}
        /\ pc' = "slaves" /\ UNCHANGED <<inputs, SlaveIPs, locals, at, EnumData>>
    BY <1>2, Zenon DEF frameworkRecords
  <2>2. Inputs'
    BY <1>2, <2>1, Zenon DEF frameworkRecords, MastersInv, Inputs, inputs, DomainFrag
  <2>3. NoClash => \A x \in As' : x.name \notin MasterNames
    <3> SUFFICES ASSUME NoClash, NEW x \in As' PROVE x.name \notin MasterNames
      BY Zenon
    <3>1. PICK f \in Elems(sj.Frameworks) : x = ARec(a(f), hostToIP4[HostPort(f).host])
      BY <2>1, Zenon DEF MastersInv, frameworkRecords
    <3> QED
      BY <3>1, Zenon DEF NoClash, MasterNames, ARec
  <2> QED
    BY <2>1, <2>2, <2>3, SameClash, Zenon DEF MastersInv, frameworkRecords, locals
<1> QED
  BY <1>1, <1>2, Zenon

LEMMA StepSlaves == ASSUME MastersInv, slaveRecords PROVE MastersInv'
<1> DEFINE ok == {s \in Elems(sj.Slaves) : hostToIP4[s.Host] # ""}
<1>1. CASE \E s \in Elems(sj.Slaves) \ ok : DomainFrag(s.Host) = Panic
  <2>1. Crash
    BY <1>1, ZenonT(40) DEF slaveRecords
  <2> QED
    BY <2>1, InputsKept, Zenon DEF slaveRecords, Crash, MastersInv, Inputs
<1>2. CASE ~ \E s \in Elems(sj.Slaves) \ ok : DomainFrag(s.Host) = Panic
  <2>1. /\ As' = As \cup {ARec(<<"slave">>, hostToIP4[s.Host]) : s \in ok}
        /\ pc' = "leader" /\ UNCHANGED <<inputs, locals, at, EnumData>>
    BY <1>2, ZenonT(40) DEF slaveRecords
  <2>2. Inputs'
    BY <2>1, InputsKept, Zenon DEF slaveRecords, MastersInv, Inputs
  <2>3. \A x \in As' : x \in As \/ x.name = <<"slave">>
    <3> HIDE DEF ok
    <3> QED
      BY <2>1, SMTT(40) DEF ARec
  <2>4. NoClash => \A x \in As' : x.name \notin MasterNames
    BY <2>3, NamesDiffer, Zenon DEF MastersInv, slaveRecords
  <2> QED
    BY <2>1, <2>2, <2>4, SameClash, Zenon DEF MastersInv, slaveRecords, locals
<1> QED
  BY <1>1, <1>2, Zenon

\* Before masterRecord nobody has an address under a name of the masters; the
\* leader's are added.
LEMMA StepLeader == ASSUME MastersInv, leaderRecord PROVE MastersInv'
<1>1. Inputs'
  BY InputsKept, Zenon DEF leaderRecord, MastersInv, Inputs
<1>2. CASE sj.Leader = NoAddr
  BY <1>1, <1>2, Zenon DEF leaderRecord, MastersInv, inputs
<1>3. CASE sj.Leader # NoAddr
  <2> DEFINE R == {ARec(<<"leader">>, sj.Leader.ip), ARec(<<"master">>, sj.Leader.ip)}
  <2>1. As' = As \cup R /\ pc' = "masters" /\ UNCHANGED <<inputs, locals>>
    BY <1>3, Zenon DEF leaderRecord
  <2>2. UNCHANGED <<sj, masters, i, idx, addedLeaderMasterN>> /\ i = 0 /\ idx = 0 /\ addedLeaderMasterN = FALSE
    BY <2>1, Zenon DEF inputs, locals, leaderRecord, MastersInv
  <2>3. Len(masters) \in Nat
    BY RecordsAssumption DEF leaderRecord, MastersInv, Inputs
  <2>4. ASSUME NoClash PROVE Loop'
    <3>1. \A n \in MasterNames : Addresses(n) = {}
      BY <2>4, Zenon DEF leaderRecord, MastersInv, Addresses
    <3>2. /\ Addresses(<<"leader">>)' = Addresses(<<"leader">>) \cup {sj.Leader.ip}
          /\ Addresses(<<"master">>)' = Addresses(<<"master">>) \cup {sj.Leader.ip}
          /\ \A x : x \notin {<<"leader">>, <<"master">>} => Addresses(x)' = Addresses(x)
      BY <2>1, TwoAdded, NamesDiffer
    <3>3. <<"leader">> \in MasterNames /\ <<"master">> \in MasterNames
      BY Zenon DEF MasterNames
    <3>4. \A k \in DOMAIN MasterN : Of(k)' = {}
      <4> SUFFICES ASSUME NEW k \in DOMAIN MasterN PROVE Of(k)' = {}
        BY Zenon
      <4>1. <<MasterN[k]>> \in MasterNames
        BY Zenon DEF MasterNames
      <4>2. <<MasterN[k]>> \notin {<<"leader">>, <<"master">>}
        BY NamesDiffer, Zenon
      <4> QED
        BY <3>1, <3>2, <4>1, <4>2, Zenon DEF Of
    <3>5. Given' = {sj.Leader.ip}
      BY <2>2 DEF Given
    <3>6. Numbering(idx)'
      <4>1. idx' = 0 /\ \A k \in DOMAIN MasterN : ~(k < 0)
        BY <2>2, RecordsAssumption
      <4>2. /\ \A k \in DOMAIN MasterN : k >= idx' => Of(k)' = {}
            /\ \A k \in DOMAIN MasterN : ~(k < idx')
            /\ \A k, l \in DOMAIN MasterN : Of(k)' \cap Of(l)' = {}
        BY <3>4, <4>1, Zenon
      <4> QED
        BY <4>2, Zenon DEF Numbering
    <3>7. NumberedIPs' = {}
      BY <3>4, Zenon DEF NumberedIPs
    <3> QED
      BY <2>2, <3>1, <3>2, <3>3, <3>5, <3>6, <3>7, Zenon DEF Loop
  <2>5. i' \in 0..Len(masters') /\ idx' \in 0..i' /\ addedLeaderMasterN' \in BOOLEAN
    <3>1. i' = 0 /\ idx' = 0 /\ masters' = masters
      BY <2>2, Zenon
    <3>2. addedLeaderMasterN' \in BOOLEAN
      BY <2>2, Zenon
    <3> QED
      BY <2>3, <3>1, <3>2
  <2>6. NoClash' => Loop'
    BY <2>1, <2>4, SameClash, Zenon
  <2> QED
    BY <1>1, <1>3, <2>1, <2>2, <2>5, <2>6, Zenon DEF MastersInv
<1> QED
  BY <1>2, <1>3, Zenon

\* One more number is given, to an address that has none.
LEMMA NumberAdded ==
  ASSUME NEW n \in Nat, n \in DOMAIN MasterN, Numbering(n),
         NEW h, h \notin NumberedIPs,
         Of(n)' = Of(n) \cup {h},
         \A k \in DOMAIN MasterN : k # n => Of(k)' = Of(k)
  PROVE  /\ \A k \in DOMAIN MasterN : k >= n + 1 => Of(k)' = {}
         /\ \A k \in DOMAIN MasterN : k < n + 1 => \E g : Of(k)' = {g}
         /\ \A k, l \in DOMAIN MasterN : k # l => Of(k)' \cap Of(l)' = {}
         /\ NumberedIPs' = NumberedIPs \cup {h}
<1>1. DOMAIN MasterN \subseteq Nat
  BY RecordsAssumption, Zenon
<1>2. Of(n)' = {h}
  BY DEF Numbering
<1>3. \A k \in DOMAIN MasterN : k >= n + 1 => Of(k)' = {}
  BY <1>1 DEF Numbering
<1>4. \A k \in DOMAIN MasterN : k < n + 1 => \E g : Of(k)' = {g}
  <2> SUFFICES ASSUME NEW k \in DOMAIN MasterN, k < n + 1 PROVE \E g : Of(k)' = {g}
    BY Zenon
  <2>1. CASE k = n
    BY <1>2, <2>1, Zenon
  <2>2. CASE k # n
    <3>1. k < n /\ Of(k)' = Of(k)
      BY <1>1, <2>2
    <3>2. PICK g : Of(k) = {g}
      BY <3>1, Zenon DEF Numbering
    <3> QED
      BY <3>1, <3>2, Zenon
  <2> QED
    BY <2>1, <2>2, Zenon
<1>5. \A k, l \in DOMAIN MasterN : k # l => Of(k)' \cap Of(l)' = {}
  BY <1>2, InNumbered DEF Numbering
<1>6. NumberedIPs' = NumberedIPs \cup {h}
  <2>1. \A k \in DOMAIN MasterN : Of(k)' = IF k = n THEN {h} ELSE Of(k)
    BY <1>2, Zenon
  <2>2. Of(n) = {}
    BY DEF Numbering
  <2>3. \A x : x \in NumberedIPs' <=> x \in NumberedIPs \/ x = h
    BY <2>1, <2>2, InNumbered
  <2> QED
    BY <2>3, Zenon
<1> QED
  BY <1>3, <1>4, <1>5, <1>6, Zenon

\* What one turn of the loop does to Loop: an entry that is passed over is
\* accounted for already, any other has no number yet.
LEMMA TurnOfLoop == ASSUME MastersInv, masterRecord, NoClash PROVE Loop'
<1> DEFINE m == masters[i + 1]
           ldr == sj.Leader.ip
<1>0. /\ Loop /\ i \in Nat /\ idx \in Nat /\ idx <= i /\ i < Len(masters) /\ Len(masters) \in Nat
      /\ masters \in MasterLists
  BY RecordsAssumption, SMTT(40) DEF masterRecord, MastersInv, Inputs
<1>1. i' = i + 1 /\ sj' = sj /\ masters' = masters
  BY Zenon DEF masterRecord, inputs
<1>2. Given' = Given \cup IF m = NoAddr THEN {} ELSE {m.ip}
  <2>1. {l \in 1..(i + 1) : masters[l] # NoAddr} =
          {l \in 1..i : masters[l] # NoAddr} \cup IF m = NoAddr THEN {} ELSE {i + 1}
    BY <1>0
  <2> QED
    BY <1>1, <2>1, ZenonT(40) DEF Given
<1>3. ldr \in Given
  BY Zenon DEF Given
<1>4. CASE Skip(m)
  <2>1. UNCHANGED <<As, idx, addedLeaderMasterN>>
    BY <1>4, Zenon DEF masterRecord
  <2>2. m = NoAddr \/ m.ip \in Given
    BY <1>0, <1>3, <1>4, Zenon DEF Skip, Loop
  <2>3. Given' = Given
    BY <1>2, <2>2, Zenon
  <2>4. /\ \A n : Addresses(n)' = Addresses(n)
        /\ \A k : Of(k)' = Of(k)
    BY <2>1, Zenon DEF Addresses, Of
  <2>5. NumberedIPs' = NumberedIPs
    BY <2>4, Zenon DEF NumberedIPs
  <2>6. Numbering(idx)'
    BY <1>0, <2>1, <2>4, Zenon DEF Numbering, Loop
  <2> QED
    BY <1>0, <1>1, <2>1, <2>3, <2>4, <2>5, <2>6, Zenon DEF Loop
<1>5. CASE ~Skip(m)
  <2> DEFINE h == m.ip
  <2>1. PICK n \in DOMAIN MasterN : n = idx
    BY <1>0, RecordsAssumption
  <2>2. /\ As' = As \cup {ARec(<<"master">>, h), ARec(<<MasterN[n]>>, h)}
        /\ idx' = n + 1
    BY <1>5, <2>1, Zenon DEF masterRecord
  <2>3. addedLeaderMasterN' = (addedLeaderMasterN \/ m = sj.Leader)
    BY <1>5, Zenon DEF masterRecord
  <2>4. /\ Addresses(<<"master">>)' = Addresses(<<"master">>) \cup {h}
        /\ Addresses(<<MasterN[n]>>)' = Addresses(<<MasterN[n]>>) \cup {h}
        /\ \A x : x \notin {<<"master">>, <<MasterN[n]>>} => Addresses(x)' = Addresses(x)
    <3>1. <<"master">> # <<MasterN[n]>>
      BY NamesDiffer, Zenon
    <3> HIDE DEF h
    <3> QED
      BY <2>2, <3>1, TwoAdded
  <2>5. Addresses(<<"leader">>)' = Addresses(<<"leader">>)
    BY <2>4, NamesDiffer, Zenon
  <2>6. /\ Of(n)' = Of(n) \cup {h}
        /\ \A k \in DOMAIN MasterN : k # n => Of(k)' = Of(k)
    BY <2>4, NamesDiffer, Zenon DEF Of
  <2>7. m # NoAddr /\ Given' = Given \cup {h} /\ Addresses(<<"master">>) = Given
    BY <1>0, <1>2, <1>5, Zenon DEF Skip, Loop
  <2>8. h \notin NumberedIPs
    <3>1. CASE m = sj.Leader
      <4>1. addedLeaderMasterN # TRUE
        BY <1>5, <3>1, Zenon DEF Skip
      <4> QED
        BY <1>0, <3>1, <4>1, Zenon DEF Loop
    <3>2. CASE m # sj.Leader
      <4>1. h \notin Given
        BY <1>5, <2>7, <3>2, Zenon DEF Skip
      <4> QED
        BY <1>0, <4>1, Zenon DEF Loop
    <3> QED
      BY <3>1, <3>2, Zenon
  <2>9. n \in Nat /\ Numbering(n)
    BY <1>0, <2>1, Zenon DEF Loop
  <2> HIDE DEF h
  <2>10. /\ \A k \in DOMAIN MasterN : k >= n + 1 => Of(k)' = {}
         /\ \A k \in DOMAIN MasterN : k < n + 1 => \E g : Of(k)' = {g}
         /\ \A k, l \in DOMAIN MasterN : k # l => Of(k)' \cap Of(l)' = {}
         /\ NumberedIPs' = NumberedIPs \cup {h}
    BY <2>6, <2>8, <2>9, NumberAdded, Zenon
  <2>11. Numbering(idx)'
    BY <2>2, <2>10, Zenon DEF Numbering
  <2>12. NumberedIPs' = IF addedLeaderMasterN' THEN Given' ELSE Given' \ {ldr}
    <3>1. CASE m = sj.Leader
      <4>1. addedLeaderMasterN' = TRUE /\ h = ldr
        BY <2>3, <3>1, Zenon DEF h
      <4> QED
        BY <1>0, <1>3, <2>7, <2>10, <4>1, Zenon DEF Loop
    <3>2. CASE m # sj.Leader
      <4>1. h \notin Given
        BY <1>5, <2>7, <3>2 DEF Skip, h
      <4>2. h # ldr
        BY <1>3, <4>1, Zenon
      <4>3. addedLeaderMasterN' <=> addedLeaderMasterN
        BY <2>3, <3>2, Zenon
      <4> QED
        BY <1>0, <2>7, <2>10, <4>2, <4>3, Zenon DEF Loop
    <3> QED
      BY <3>1, <3>2, Zenon
  <2> QED
    BY <1>0, <1>1, <2>4, <2>5, <2>7, <2>11, <2>12, SMTT(30) DEF Loop
<1> QED
  BY <1>4, <1>5, Zenon

LEMMA StepMaster == ASSUME MastersInv, masterRecord PROVE MastersInv'
<1>1. Inputs'
  BY InputsKept, Zenon DEF masterRecord, MastersInv, Inputs
<1>2. NoClash' => Loop'
  BY TurnOfLoop, SameClash, Zenon DEF masterRecord
<1>3. i \in Nat /\ idx \in 0..i /\ Len(masters) \in Nat
  BY RecordsAssumption, SMTT(40) DEF masterRecord, MastersInv, Inputs
<1>4. i' = i + 1 /\ i < Len(masters) /\ masters' = masters /\ (idx' = idx \/ idx' = idx + 1)
  BY Zenon DEF masterRecord, inputs
<1>5. i' \in 0..Len(masters') /\ idx' \in 0..i'
  BY <1>3, <1>4
<1>6. addedLeaderMasterN' \in BOOLEAN
  BY Zenon DEF masterRecord, MastersInv
<1> QED
  BY <1>1, <1>2, <1>5, <1>6, Zenon DEF MastersInv, masterRecord, inputs

\* At the end of the loop, the leader has a number or gets the last one.
LEMMA LoopEnds == ASSUME MastersInv, unlistedLeader, NoClash PROVE Finished'
<1> DEFINE ldr == sj.Leader.ip
           all == {ldr} \cup {m.ip : m \in Elems(masters) \ {NoAddr}}
<1>0. /\ Loop /\ idx \in Nat /\ idx <= Len(masters) /\ i = Len(masters) /\ Len(masters) \in Nat
      /\ masters \in MasterLists
  BY RecordsAssumption DEF unlistedLeader, MastersInv, Inputs
<1>1. sj' = sj /\ masters' = masters
  BY Zenon DEF unlistedLeader, inputs
<1>2. Given = all
  <2>1. DOMAIN masters = 1..Len(masters)
    BY <1>0, RecordsAssumption, SMTT(40)
  <2>2. {masters[j].ip : j \in {l \in 1..i : masters[l] # NoAddr}} =
          {m.ip : m \in Elems(masters) \ {NoAddr}}
    BY <1>0, <2>1, Zenon DEF Elems
  <2> QED
    BY <2>2, Zenon DEF Given
<1>3. PICK n \in DOMAIN MasterN : n = idx
  BY <1>0, RecordsAssumption, SMTT(40)
<1>4. 0..n \subseteq DOMAIN MasterN /\ n \in Nat /\ Numbering(n)
  BY <1>0, <1>3, RecordsAssumption DEF Loop
<1>5. CASE addedLeaderMasterN
  <2>1. As' = As
    BY <1>5, Zenon DEF unlistedLeader
  <2>2. /\ \A x : Addresses(x)' = Addresses(x)
        /\ \A k : Of(k)' = Of(k)
    BY <2>1, Zenon DEF Addresses, Of
  <2>3. NumberedIPs = Given /\ Addresses(<<"master">>) = Given /\ Addresses(<<"leader">>) = {ldr}
    BY <1>0, <1>5, Zenon DEF Loop
  <2>4. 0..(n - 1) \subseteq DOMAIN MasterN
    BY <1>4
  <2>5. Finished
    BY <1>2, <1>4, <2>3, <2>4, Zenon DEF Finished
  <2> QED
    BY <1>1, <2>2, <2>5, FinishedKept, Zenon
<1>6. CASE ~addedLeaderMasterN
  <2>1. As' = As \cup {ARec(<<MasterN[n]>>, ldr)}
    BY <1>3, <1>6, Zenon DEF unlistedLeader
  <2> HIDE DEF ldr
  <2>2. /\ Addresses(<<MasterN[n]>>)' = Addresses(<<MasterN[n]>>) \cup {ldr}
        /\ \A x : x # <<MasterN[n]>> => Addresses(x)' = Addresses(x)
    BY <2>1, OneAdded, Zenon
  <2>3. /\ Addresses(<<"leader">>)' = Addresses(<<"leader">>)
        /\ Addresses(<<"master">>)' = Addresses(<<"master">>)
    BY <2>2, NamesDiffer, Zenon
  <2>4. /\ Of(n)' = Of(n) \cup {ldr}
        /\ \A k \in DOMAIN MasterN : k # n => Of(k)' = Of(k)
    BY <2>2, NamesDiffer, Zenon DEF Of
  <2>5. NumberedIPs = Given \ {ldr} /\ Addresses(<<"master">>) = Given /\ Addresses(<<"leader">>) = {ldr}
    BY <1>0, <1>6, Zenon DEF Loop, ldr
  <2>6. /\ \A k \in DOMAIN MasterN : k >= n + 1 => Of(k)' = {}
        /\ \A k \in DOMAIN MasterN : k < n + 1 => \E g : Of(k)' = {g}
        /\ \A k, l \in DOMAIN MasterN : k # l => Of(k)' \cap Of(l)' = {}
        /\ NumberedIPs' = NumberedIPs \cup {ldr}
    BY <1>4, <2>4, <2>5, NumberAdded, Zenon
  <2>7. PICK q \in Nat : q = n + 1 /\ 0..(q - 1) \subseteq DOMAIN MasterN
    BY <1>4
  <2>8. ldr \in Given
    BY Zenon DEF Given, ldr
  <2>9. NumberedIPs' = Addresses(<<"master">>)'
    BY <2>3, <2>5, <2>6, <2>8
  <2>10. (\E k \in Nat : 0..(k - 1) \subseteq DOMAIN MasterN /\ Numbering(k))'
    <3>1. Numbering(q)'
      BY <2>6, <2>7, Zenon DEF Numbering
    <3> QED
      BY <2>7, <3>1, Zenon
  <2>11. Addresses(<<"master">>)' = all'
    BY <1>1, <1>2, <2>3, <2>5, Zenon DEF ldr
  <2>12. Addresses(<<"leader">>)' = {sj.Leader.ip}'
    BY <1>1, <2>3, <2>5, Zenon DEF ldr
  <2> QED
    BY <2>9, <2>10, <2>11, <2>12, Zenon DEF Finished, ldr
<1> QED
  BY <1>5, <1>6, Zenon

LEMMA StepUnlisted == ASSUME MastersInv, unlistedLeader PROVE MastersInv'
<1>1. Inputs'
  BY InputsKept, Zenon DEF unlistedLeader, MastersInv, Inputs
<1>2. NoClash' => Finished'
  BY LoopEnds, SameClash, Zenon DEF unlistedLeader
<1> QED
  BY <1>1, <1>2, Zenon DEF MastersInv, unlistedLeader

\* The records of a task have names of their own.
LEMMA StepTask == ASSUME MastersInv, taskRecord PROVE MastersInv'
<1> DEFINE f == sj.Frameworks[at[1]]
           t == f.Tasks[at[2]]
           ctx == {taskContextRecord(f, t, n) : n \in taskNames(t)}
           R == UNION {c.A : c \in ctx}
<1>0. pc = "tasks" /\ Inputs /\ (sj.Leader # NoAddr /\ NoClash => Finished)
  BY Zenon DEF taskRecord, MastersInv
<1>1. at \in (Nat \ {0}) \X (Nat \ {0}) /\ <<at[1], at[2] + 1>> \in (Nat \ {0}) \X (Nat \ {0})
  BY <1>0 DEF Inputs
<1>2. UNCHANGED inputs /\ (pc' = "tasks" \/ pc' = "panic") /\ (at' = at \/ at' = <<at[1], at[2] + 1>>)
  BY <1>0, Zenon DEF taskRecord, Crash
<1>3. Inputs'
  BY <1>0, <1>1, <1>2, InputsKept, Zenon
<1>4. CASE pc' = "panic"
  BY <1>3, <1>4, Zenon DEF MastersInv
<1>5. CASE pc' # "panic" /\ As' = As
  <2>1. /\ \A x : Addresses(x)' = Addresses(x)
        /\ \A k : Of(k)' = Of(k)
    BY <1>5, Zenon DEF Addresses, Of
  <2>2. NoClash' /\ sj'.Leader # NoAddr => Finished'
    BY <1>0, <1>2, <2>1, SameClash, FinishedKept, Zenon DEF inputs
  <2> QED
    BY <1>2, <1>3, <1>5, <2>2, Zenon DEF MastersInv
<1>6. CASE pc' # "panic" /\ As' = As \cup R
  <2>1. f \in Elems(sj.Frameworks)
    <3>1. sj.Frameworks \in Seq(Elems(sj.Frameworks))
      BY <1>0, RecordsAssumption, Zenon DEF Inputs
    <3>2. Len(sj.Frameworks) \in Nat /\ DOMAIN sj.Frameworks = 1..Len(sj.Frameworks)
      BY <3>1
    <3>3. at[1] <= Len(sj.Frameworks)
      BY Zenon DEF taskRecord
    <3>4. at[1] \in Nat /\ at[1] # 0
      BY <1>1, Zenon
    <3>5. at[1] \in DOMAIN sj.Frameworks
      BY <3>2, <3>3, <3>4, SMTT(40)
    <3> QED
      BY <3>5, Zenon DEF Elems
  <2>2. DomainFrag(f.Name) \in Seq(Labs) /\ DomainFrag(f.Name) # << >>
    <3>1. DomainFrag(f.Name) # Panic
      BY <1>0, <2>1, Zenon DEF Inputs
    <3> QED
      BY <1>0, <2>1, <3>1, FragTyped, Zenon
  <2>3. \A r \in R : r.name \notin MasterNames
    <3> SUFFICES ASSUME NEW n \in taskNames(t), NEW r \in taskContextRecord(f, t, n).A
                 PROVE  r.name \notin MasterNames
      BY Zenon
    <3> QED
      BY <2>2, TaskNamesLong, Zenon
  <2>4. UNCHANGED <<sj, masters, i, idx, addedLeaderMasterN>>
    BY <1>6, Zenon DEF taskRecord, Crash, inputs, locals
  <2> HIDE DEF R
  <2>5. /\ Addresses(<<"leader">>)' = Addresses(<<"leader">>)
        /\ Addresses(<<"master">>)' = Addresses(<<"master">>)
        /\ \A k \in DOMAIN MasterN : Of(k)' = Of(k)
    BY <1>6, <2>3, <2>4, Preserved, Zenon
  <2>6. NoClash' /\ sj'.Leader # NoAddr => Finished'
    BY <1>0, <1>2, <2>4, <2>5, SameClash, FinishedKept, Zenon
  <2> QED
    BY <1>2, <1>3, <1>6, <2>6, Zenon DEF MastersInv
<1> QED
  BY <1>4, <1>5, <1>6, ZenonT(40) DEF taskRecord, Crash

LEMMA StepOthers == ASSUME MastersInv, ParseState \/ taskRecords \/ UNCHANGED vars PROVE MastersInv'
<1>1. CASE ParseState
  <2>1. Inputs'
    BY <1>1, Zenon DEF ParseState, MastersInv, Inputs
  <2> QED
    BY <1>1, <2>1, Zenon DEF ParseState, MastersInv, locals
<1>2. CASE taskRecords
  <2>1. at' \in (Nat \ {0}) \X (Nat \ {0})
    <3>1. at \in (Nat \ {0}) \X (Nat \ {0}) /\ <<at[1] + 1, 1>> \in (Nat \ {0}) \X (Nat \ {0})
      BY DEF MastersInv, Inputs
    <3> QED
      BY <1>2, <3>1, Zenon DEF taskRecords
  <2>2. pc = "tasks" /\ pc' \in {"tasks", "done"} /\ UNCHANGED <<inputs, As>>
    BY <1>2, Zenon DEF taskRecords
  <2>3. Inputs'
    BY <2>1, <2>2, InputsKept, Zenon DEF MastersInv
  <2>4. /\ \A x : Addresses(x)' = Addresses(x)
        /\ \A k : Of(k)' = Of(k)
    BY <2>2, Zenon DEF Addresses, Of
  <2>5. NoClash' /\ sj'.Leader # NoAddr => Finished'
    BY <2>2, <2>4, SameClash, FinishedKept, Zenon DEF inputs, MastersInv
  <2> QED
    BY <2>2, <2>3, <2>5, Zenon DEF MastersInv
<1>3. CASE UNCHANGED vars
  <2>1. UNCHANGED <<pc, EnforceRFC952, hostSpec, sj, masters, As, i, idx, addedLeaderMasterN, at>>
    BY <1>3, Zenon DEF vars, inputs, locals
  <2>2. UNCHANGED inputs
    BY <1>3, Zenon DEF vars
  <2>3. Inputs'
    BY <2>1, Zenon DEF MastersInv, Inputs, DomainFrag
  <2>4. /\ \A x : Addresses(x)' = Addresses(x)
        /\ \A k : Of(k)' = Of(k)
    BY <2>1, Zenon DEF Addresses, Of
  <2>5. NumberedIPs' = NumberedIPs /\ Given' = Given
    BY <2>1, <2>4, Zenon DEF NumberedIPs, Given
  <2>6. Loop' = Loop
    BY <2>1, <2>4, <2>5, Zenon DEF Loop, Numbering
  <2>7. Finished => Finished'
    BY <2>1, <2>4, FinishedKept, Zenon
  <2> QED
    BY <2>1, <2>2, <2>3, <2>6, <2>7, SameClash, Zenon DEF MastersInv
<1> QED
  BY <1>1, <1>2, <1>3, Zenon

LEMMA NextMasters == MastersInv /\ [Next]_vars => MastersInv'
BY StepFrameworks, StepSlaves, StepLeader, StepMaster, StepUnlisted, StepTask, StepOthers, Zenon
DEF Next

-----------------------------------------------------------------------------
(* What /v1/enumerate lists, and where SRV records lead *)

Infra ==
  {DomainFrag(f.Name) : f \in Elems(sj.Frameworks)}
    \cup {<<"slave">>, <<"leader">>, <<"master">>}
    \cup {<<MasterN[k]>> : k \in DOMAIN MasterN}

\* Every enumerated record is served, and none of them is enumerated twice; any
\* other record bears a name of a framework, the slaves or the masters.
EnumInv ==
  /\ EnumData \in Seq(Elems(EnumData))
  /\ \A e \in Elems(EnumData) : e.records.A \subseteq As /\ e.records.SRV \subseteq SRVs
  /\ \A k, l \in DOMAIN EnumData : k # l =>
       /\ EnumData[k].records.A \cap EnumData[l].records.A = {}
       /\ EnumData[k].records.SRV \cap EnumData[l].records.SRV = {}
  /\ \A a \in As : a.name \in Infra \/ \E e \in Elems(EnumData) : a \in e.records.A

\* The task of an entry has no address of the kind a target is for.
Unaddressed(target, e) ==
  \E n \in taskNames(e.t) :
    LET name == canonical(e.f, e.t, n)
        slaveIP == SlaveIPs[e.t.SlaveID]
    IN \/ target = name /\ IP(e.t, slaveIP, ipSources) = ""
       \/ target = Append(name, "slave") /\ slaveIP = ""

Leads(target) ==
  \/ Addresses(target) # {}
  \/ \E e \in Elems(EnumData) : Unaddressed(target, e)

TargetsInv == \A s \in SRVs : Leads(s.target)

ListsInv ==
  /\ pc \notin {"tasks", "done", "panic"} => EnumData = << >>
  /\ pc = "ParseState" => As = {} /\ SRVs = {}
  /\ EnumInv /\ TargetsInv

\* An entry more at the end of a list is one element more.
LEMMA ElemsAppend ==
  ASSUME NEW s, s \in Seq(Elems(s)), NEW e
  PROVE  /\ Append(s, e) \in Seq(Elems(Append(s, e)))
         /\ Elems(Append(s, e)) = Elems(s) \cup {e}
         /\ Len(s) \in Nat /\ DOMAIN s = 1..Len(s)
         /\ DOMAIN Append(s, e) = 1..(Len(s) + 1)
         /\ Append(s, e)[Len(s) + 1] = e
         /\ \A k \in DOMAIN s : Append(s, e)[k] = s[k]
<1> DEFINE S == Elems(s) \cup {e}
           a == Append(s, e)
<1>1. s \in Seq(S)
  OBVIOUS
<1>2. /\ a \in Seq(S) /\ Len(s) \in Nat /\ DOMAIN s = 1..Len(s) /\ Len(a) = Len(s) + 1
      /\ DOMAIN a = 1..(Len(s) + 1) /\ a[Len(s) + 1] = e
      /\ \A k \in 1..Len(s) : a[k] = s[k]
  BY <1>1
<1> HIDE DEF a
<1>3. \A x : (\E k \in DOMAIN a : x = a[k]) <=> ((\E k \in DOMAIN s : x = s[k]) \/ x = e)
  BY <1>2
<1>4. Elems(a) = Elems(s) \cup {e}
  BY <1>3, Zenon DEF Elems
<1> QED
  BY <1>2, <1>4, Zenon DEF a

\* Records of the infrastructure are not enumerated; what led somewhere still does.
LEMMA InfraAdded ==
  ASSUME ListsInv, As \subseteq As', SRVs \subseteq SRVs', EnumData' = EnumData, Infra' = Infra,
         pc' # "ParseState", pc' \notin {"tasks", "done", "panic"} => EnumData = << >>,
         \A e \in Elems(EnumData) : \A x : Unaddressed(x, e) => Unaddressed(x, e)',
         \A a \in As' : a \in As \/ a.name \in Infra,
         \A q \in SRVs' : q \in SRVs \/ \E a \in As' : a.name = q.target
  PROVE  ListsInv'
<1>1. Elems(EnumData)' = Elems(EnumData)
  BY Zenon DEF Elems
<1>2. EnumInv'
  <2>1. \A a \in As' : a.name \in Infra \/ \E e \in Elems(EnumData) : a \in e.records.A
    BY Zenon DEF ListsInv, EnumInv
  <2>2. \A e \in Elems(EnumData) : e.records.A \subseteq As' /\ e.records.SRV \subseteq SRVs'
    BY Zenon DEF ListsInv, EnumInv
  <2> QED
    BY <1>1, <2>1, <2>2, Zenon DEF ListsInv, EnumInv
<1>3. TargetsInv'
  <2> SUFFICES ASSUME NEW s \in SRVs' PROVE Leads(s.target)'
    BY Zenon DEF TargetsInv
  <2>1. CASE s \in SRVs
    <3>1. Leads(s.target)
      BY <2>1, Zenon DEF ListsInv, TargetsInv
    <3>2. Addresses(s.target) \subseteq Addresses(s.target)'
      BY Zenon DEF Addresses
    <3> QED
      BY <1>1, <3>1, <3>2, Zenon DEF Leads
  <2>2. CASE \E a \in As' : a.name = s.target
    <3>1. Addresses(s.target)' # {}
      BY <2>2, Zenon DEF Addresses
    <3> QED
      BY <3>1, Zenon DEF Leads
  <2> QED
    BY <2>1, <2>2, Zenon
<1> QED
  BY <1>2, <1>3, Zenon DEF ListsInv

\* The names of frameworks, slaves and masters stay what they are.
LEMMA SameInfra == ASSUME UNCHANGED inputs PROVE Infra' = Infra
BY Zenon DEF Infra, inputs, DomainFrag

\* So does what has no address.
LEMMA SameUnaddressed ==
  ASSUME UNCHANGED inputs, UNCHANGED SlaveIPs, NEW e, NEW x
  PROVE  Unaddressed(x, e)' <=> Unaddressed(x, e)
BY ZenonT(40) DEF Unaddressed, inputs, taskNames, spec, canonical, DomainFrag

\* They hold at the start, with nothing inserted.
LEMMA InitLists == Init => ListsInv
<1> SUFFICES ASSUME Init PROVE ListsInv
  BY Zenon
<1>1. As = {} /\ SRVs = {} /\ EnumData = << >> /\ Elems(EnumData) = {} /\ DOMAIN EnumData = {}
  BY DEF Init, Elems
<1>2. << >> \in Seq({})
  OBVIOUS
<1> QED
  BY <1>1, <1>2, Zenon DEF ListsInv, EnumInv, TargetsInv

\* Nothing said here depends on where InsertState is, once it has its input.
LEMMA ListsKept ==
  ASSUME ListsInv, pc # "ParseState", pc' # "ParseState",
         UNCHANGED <<inputs, As, SRVs, EnumData>>,
         UNCHANGED SlaveIPs \/ EnumData = << >>,
         pc' \notin {"tasks", "done", "panic"} => pc \notin {"tasks", "done", "panic"}
  PROVE  ListsInv'
<1>1. Infra' = Infra
  BY SameInfra, Zenon
<1>2. \A e \in Elems(EnumData) : \A x : Unaddressed(x, e) => Unaddressed(x, e)'
  <2>1. CASE UNCHANGED SlaveIPs
    BY <2>1, SameUnaddressed, Zenon
  <2>2. CASE EnumData = << >>
    BY <2>2 DEF Elems
  <2> QED
    BY <2>1, <2>2, Zenon
<1>3. pc' \notin {"tasks", "done", "panic"} => EnumData = << >>
  BY Zenon DEF ListsInv
<1> QED
  BY <1>1, <1>2, <1>3, InfraAdded, Zenon

\* The records of the frameworks bear their names.
LEMMA ListFrameworks == ASSUME ListsInv, frameworkRecords PROVE ListsInv'
<1> DEFINE a(f) == DomainFrag(f.Name)
           fs == {f \in Elems(sj.Frameworks) : hostToIP4[HostPort(f).host] # ""}
           R == {ARec(a(f), hostToIP4[HostPort(f).host]) : f \in fs}
           Q == {SRVRec(<<"_framework", "_tcp">> \o a(f), a(f), HostPort(f).port) :
                   f \in {g \in fs : HostPort(g).port # 0}}
<1>0. pc = "frameworks" /\ EnumData = << >>
  BY Zenon DEF frameworkRecords, ListsInv
<1>1. CASE \E f \in Elems(sj.Frameworks) : a(f) = Panic
  <2>1. Crash
    BY <1>1, Zenon DEF frameworkRecords
  <2> QED
    BY <1>0, <2>1, ListsKept, Zenon DEF Crash
<1>2. CASE ~ \E f \in Elems(sj.Frameworks) : a(f) = Panic
  <2>1. /\ As' = As \cup R /\ SRVs' = SRVs \cup Q
        /\ pc' = "slaves" /\ UNCHANGED <<inputs, SlaveIPs, locals, at, EnumData>>
    BY <1>2, Zenon DEF frameworkRecords
  <2>2. \A r \in R : r.name \in Infra
    <3> SUFFICES ASSUME NEW f \in fs
                 PROVE  ARec(a(f), hostToIP4[HostPort(f).host]).name \in Infra
      BY Zenon
    <3>1. ARec(a(f), hostToIP4[HostPort(f).host]).name = a(f)
      BY Zenon DEF ARec
    <3> QED
      BY <3>1, Zenon DEF Infra
  <2>3. \A q \in Q : \E r \in R : r.name = q.target
    <3> SUFFICES ASSUME NEW f \in fs
                 PROVE  \E r \in R : r.name =
                          SRVRec(<<"_framework", "_tcp">> \o a(f), a(f), HostPort(f).port).target
      BY Zenon
    <3>1. ARec(a(f), hostToIP4[HostPort(f).host]).name = a(f)
      BY Zenon DEF ARec
    <3>2. SRVRec(<<"_framework", "_tcp">> \o a(f), a(f), HostPort(f).port).target = a(f)
      BY Zenon DEF SRVRec
    <3>3. ARec(a(f), hostToIP4[HostPort(f).host]) \in R
      BY Zenon
    <3> HIDE DEF R, fs
    <3> QED
      BY <3>1, <3>2, <3>3, Zenon
  <2>4. Infra' = Infra
    BY <2>1, SameInfra, Zenon
  <2>5. \A e \in Elems(EnumData) : \A x : Unaddressed(x, e) => Unaddressed(x, e)'
    BY <1>0 DEF Elems
  <2> HIDE DEF R, Q
  <2> QED
    BY <1>0, <2>1, <2>2, <2>3, <2>4, <2>5, InfraAdded, Zenon
<1> QED
  BY <1>1, <1>2

\* The records of the slaves all bear the one name.
LEMMA ListSlaves == ASSUME ListsInv, slaveRecords PROVE ListsInv'
<1> DEFINE ok == {s \in Elems(sj.Slaves) : hostToIP4[s.Host] # ""}
           R == {ARec(<<"slave">>, hostToIP4[s.Host]) : s \in ok}
           Q == {SRVRec(<<"_slave", "_tcp">>, <<"slave">>, s.Port) : s \in ok}
<1>0. pc = "slaves" /\ EnumData = << >>
  BY Zenon DEF slaveRecords, ListsInv
<1>1. CASE \E s \in Elems(sj.Slaves) \ ok : DomainFrag(s.Host) = Panic
  <2>1. Crash
    BY <1>1, ZenonT(40) DEF slaveRecords
  <2> QED
    BY <1>0, <2>1, ListsKept, Zenon DEF Crash
<1>2. CASE ~ \E s \in Elems(sj.Slaves) \ ok : DomainFrag(s.Host) = Panic
  <2>1. /\ As' = As \cup R /\ SRVs' = SRVs \cup Q
        /\ pc' = "leader" /\ UNCHANGED <<inputs, EnumData>>
    BY <1>2, ZenonT(40) DEF slaveRecords
  <2>2. \A r \in R : r.name \in Infra
    <3>1. \A r \in R : r.name = <<"slave">>
      <4>1. \A x, h : ARec(x, h).name = x
        BY Zenon DEF ARec
      <4> QED
        BY <4>1, Zenon
    <3> QED
      BY <3>1, Zenon DEF Infra
  <2>3. \A q \in Q : \E r \in R : r.name = q.target
    <3> SUFFICES ASSUME NEW s \in ok
                 PROVE  \E r \in R : r.name =
                          SRVRec(<<"_slave", "_tcp">>, <<"slave">>, s.Port).target
      BY Zenon
    <3>1. ARec(<<"slave">>, hostToIP4[s.Host]) \in R
      BY Zenon
    <3> HIDE DEF R, ok
    <3> QED
      BY <3>1, Zenon DEF ARec, SRVRec
  <2>4. Infra' = Infra
    BY <2>1, SameInfra, Zenon
  <2>5. \A e \in Elems(EnumData) : \A x : Unaddressed(x, e) => Unaddressed(x, e)'
    BY <1>0 DEF Elems
  <2> HIDE DEF R, Q
  <2> QED
    BY <1>0, <2>1, <2>2, <2>3, <2>4, <2>5, InfraAdded, Zenon
<1> QED
  BY <1>1, <1>2, Zenon

\* The records of the masters bear theirs.
LEMMA ListMasters ==
  ASSUME MastersInv, ListsInv, leaderRecord \/ masterRecord \/ unlistedLeader
  PROVE  ListsInv'
<1>0. EnumData = << >> /\ EnumData' = << >> /\ UNCHANGED inputs /\ pc' # "ParseState"
  BY Zenon DEF leaderRecord, masterRecord, unlistedLeader, ListsInv
<1>1. \A e \in Elems(EnumData) : \A x : Unaddressed(x, e) => Unaddressed(x, e)'
  BY <1>0 DEF Elems
<1>2. Infra' = Infra
  BY <1>0, SameInfra, Zenon
<1>3. {<<"leader">>, <<"master">>} \cup {<<MasterN[k]>> : k \in DOMAIN MasterN} \subseteq Infra
  BY Zenon DEF Infra
<1>4. \A n, h : ARec(n, h).name = n
  BY Zenon DEF ARec
<1>5. pc = "masters" => idx \in DOMAIN MasterN
  <2>1. ASSUME pc = "masters" PROVE /\ masters \in MasterLists
                                    /\ i \in 0..Len(masters) /\ idx \in 0..i
    BY <2>1, Zenon DEF MastersInv, Inputs
  <2>2. ASSUME pc = "masters" PROVE Len(masters) \in Nat /\ 0..Len(masters) \subseteq DOMAIN MasterN
    BY <2>1, <2>2, RecordsAssumption
  <2> QED
    BY <2>1, <2>2
<1>6. CASE leaderRecord /\ sj.Leader # NoAddr
  <2> DEFINE R == {ARec(<<"leader">>, sj.Leader.ip), ARec(<<"master">>, sj.Leader.ip)}
             Q == {SRVRec(<<"_leader", p>>, <<"leader">>, sj.Leader.port) : p \in {"_tcp", "_udp"}}
  <2>1. As' = As \cup R /\ SRVs' = SRVs \cup Q
    BY <1>6, Zenon DEF leaderRecord
  <2>2. \A r \in R : r.name \in Infra
    BY <1>3, <1>4, Zenon
  <2>3. \A q \in Q : q.target = <<"leader">>
    BY DEF SRVRec
  <2>4. ARec(<<"leader">>, sj.Leader.ip) \in R
    BY Zenon
  <2> HIDE DEF R, Q
  <2>5. \A q \in Q : \E r \in R : r.name = q.target
    BY <1>4, <2>3, <2>4, Zenon
  <2> QED
    BY <1>0, <1>1, <1>2, <2>1, <2>2, <2>5, InfraAdded, Zenon
<1>7. ASSUME As \subseteq As', \A a \in As' : a \in As \/ a.name \in Infra, SRVs' = SRVs PROVE ListsInv'
  BY <1>0, <1>1, <1>2, <1>7, InfraAdded, Zenon
<1>8. CASE leaderRecord /\ sj.Leader = NoAddr
  BY <1>7, <1>8, Zenon DEF leaderRecord
<1>9. CASE masterRecord
  <2>1. CASE As' = As
    BY <1>7, <1>9, <2>1, Zenon DEF masterRecord
  <2>2. CASE As' # As
    <3> DEFINE h == masters[i + 1].ip
               R == {ARec(<<"master">>, h), ARec(<<MasterN[idx]>>, h)}
    <3>1. As' = As \cup R /\ SRVs' = SRVs /\ pc = "masters"
      BY <1>9, <2>2, Zenon DEF masterRecord
    <3>2. \A r \in R : r.name \in Infra
      BY <1>3, <1>4, <1>5, <3>1, SMTT(40)
    <3> HIDE DEF R
    <3> QED
      BY <1>7, <3>1, <3>2, Zenon
  <2> QED
    BY <2>1, <2>2, Zenon
<1>10. CASE unlistedLeader
  <2> DEFINE R == IF addedLeaderMasterN THEN {} ELSE {ARec(<<MasterN[idx]>>, sj.Leader.ip)}
  <2>1. As' = As \cup R /\ SRVs' = SRVs /\ pc = "masters"
    BY <1>10, Zenon DEF unlistedLeader
  <2>2. \A r \in R : r.name \in Infra
    BY <1>3, <1>4, <1>5, <2>1, SMTT(30)
  <2> HIDE DEF R
  <2> QED
    BY <1>7, <2>1, <2>2
<1> QED
  BY <1>6, <1>8, <1>9, <1>10, Zenon

\* The A records of a task, apart from its SRV records.
LEMMA TaskAddresses ==
  ASSUME NEW f, NEW t, NEW taskName
  PROVE  taskContextRecord(f, t, taskName).A =
           NonEmpty(taskAs(<<taskName>> \o DomainFrag(f.Name), canonical(f, t, taskName),
                           IP(t, SlaveIPs[t.SlaveID], ipSources), SlaveIPs[t.SlaveID]))
BY DEF taskContextRecord

\* An SRV record of a task leads to its canonical name, with or without "slave".
LEMMA TaskTargets ==
  ASSUME NEW f, NEW t, NEW taskName
  PROVE  \A q \in taskContextRecord(f, t, taskName).SRV :
           q.target \in {canonical(f, t, taskName), Append(canonical(f, t, taskName), "slave")}
<1> DEFINE fname == DomainFrag(f.Name)
           name == canonical(f, t, taskName)
           subdomains == IF HasDiscoveryInfo(t) THEN {"slave"} ELSE {"slave", ""}
           plain == withSubdomains(withProtocol({<<"_" \o taskName>>}, "", fname), subdomains)
           named(p) == withNamedPort(withProtocol({<<"_" \o taskName>>}, p.Protocol, fname), p.Name)
<1>1. taskContextRecord(f, t, taskName).SRV =
        {SRVRec(n, Append(name, "slave"), p) : n \in plain, p \in Ports(t.Ranges)}
          \cup IF ~HasDiscoveryInfo(t) THEN {}
               ELSE UNION {{SRVRec(n, name, p.Number) : n \in named(p)} : p \in t.DiscoveryInfo.Ports}
  BY DEF taskContextRecord
<1> HIDE DEF name, plain, named
<1>2. \A q \in taskContextRecord(f, t, taskName).SRV :
        \E n, p : q = SRVRec(n, Append(name, "slave"), p) \/ q = SRVRec(n, name, p)
  BY <1>1
<1>3. \A n, d, p : SRVRec(n, d, p).target = d
  BY Zenon DEF SRVRec
<1>4. \A q \in taskContextRecord(f, t, taskName).SRV : q.target \in {name, Append(name, "slave")}
  <2> TAKE q \in taskContextRecord(f, t, taskName).SRV
  <2>1. PICK n, p : q = SRVRec(n, Append(name, "slave"), p) \/ q = SRVRec(n, name, p)
    BY <1>2, Zenon
  <2>2. CASE q = SRVRec(n, Append(name, "slave"), p)
    BY <1>3, <2>2, Zenon
  <2>3. CASE q = SRVRec(n, name, p)
    BY <1>3, <2>3, Zenon
  <2> QED
    BY <2>1, <2>2, <2>3, Zenon
<1> QED
  BY <1>4, Zenon DEF name

\* Under the names its SRV records lead to, a task has its addresses, if any.
LEMMA TaskLeads ==
  ASSUME NEW f, NEW t, NEW taskName, NEW q \in taskContextRecord(f, t, taskName).SRV
  PROVE  \/ \E r \in taskContextRecord(f, t, taskName).A : r.name = q.target
         \/ q.target = canonical(f, t, taskName) /\ IP(t, SlaveIPs[t.SlaveID], ipSources) = ""
         \/ q.target = Append(canonical(f, t, taskName), "slave") /\ SlaveIPs[t.SlaveID] = ""
<1> DEFINE name == canonical(f, t, taskName)
           slaveIP == SlaveIPs[t.SlaveID]
           taskIP == IP(t, slaveIP, ipSources)
<1>1. taskContextRecord(f, t, taskName).A =
        NonEmpty(taskAs(<<taskName>> \o DomainFrag(f.Name), name, taskIP, slaveIP))
  BY TaskAddresses, Zenon
<1>2. q.target \in {name, Append(name, "slave")}
  BY TaskTargets, Zenon
<1> HIDE DEF name, slaveIP, taskIP
<1>3. /\ taskIP # "" => ARec(name, taskIP) \in taskContextRecord(f, t, taskName).A
      /\ slaveIP # "" => ARec(Append(name, "slave"), slaveIP) \in taskContextRecord(f, t, taskName).A
  BY <1>1, Zenon DEF NonEmpty, taskAs, ARec
<1>4. \A x, h : ARec(x, h).name = x
  BY Zenon DEF ARec
<1> QED
  BY <1>2, <1>3, <1>4, ZenonT(40) DEF name, slaveIP, taskIP

\* A task lists what it adds, and leads where it has an address.
LEMMA ListTask == ASSUME ListsInv, taskRecord PROVE ListsInv'
<1> DEFINE f == sj.Frameworks[at[1]]
           t == f.Tasks[at[2]]
           ctx == {taskContextRecord(f, t, n) : n \in taskNames(t)}
           RA == UNION {c.A : c \in ctx}
           RS == UNION {c.SRV : c \in ctx}
           e == [f |-> f, t |-> t, records |-> [A |-> RA \ As, SRV |-> RS \ SRVs]]
<1>0. pc = "tasks" /\ UNCHANGED <<inputs, SlaveIPs>> /\ pc' \in {"tasks", "panic"}
  BY Zenon DEF taskRecord, Crash
<1>1. CASE UNCHANGED <<As, SRVs, EnumData>>
  BY <1>0, <1>1, ListsKept, Zenon
<1>2. CASE /\ As' = As \cup RA /\ SRVs' = SRVs \cup RS
           /\ EnumData' = Append(EnumData, e)
  <2>1. e.f = f /\ e.t = t /\ e.records.A = RA \ As /\ e.records.SRV = RS \ SRVs
    BY Zenon
  <2>2. \A q \in RS : (\E r \in RA : r.name = q.target) \/ Unaddressed(q.target, e)
    <3> SUFFICES ASSUME NEW n \in taskNames(t), NEW q \in taskContextRecord(f, t, n).SRV
                 PROVE  (\E r \in RA : r.name = q.target) \/ Unaddressed(q.target, e)
      BY Zenon
    <3>1. CASE \E r \in taskContextRecord(f, t, n).A : r.name = q.target
      BY <3>1, Zenon
    <3>2. CASE \/ q.target = canonical(f, t, n) /\ IP(t, SlaveIPs[t.SlaveID], ipSources) = ""
               \/ q.target = Append(canonical(f, t, n), "slave") /\ SlaveIPs[t.SlaveID] = ""
      <4> HIDE DEF f, t, e, RA
      <4> QED
        BY <2>1, <3>2, Zenon DEF Unaddressed
    <3>3. \/ \E r \in taskContextRecord(f, t, n).A : r.name = q.target
          \/ q.target = canonical(f, t, n) /\ IP(t, SlaveIPs[t.SlaveID], ipSources) = ""
          \/ q.target = Append(canonical(f, t, n), "slave") /\ SlaveIPs[t.SlaveID] = ""
      <4> HIDE DEF f, t
      <4> QED
        BY TaskLeads, Zenon
    <3> QED
      BY <3>1, <3>2, <3>3, Zenon
  <2> HIDE DEF e, RA, RS
  <2>3. EnumData \in Seq(Elems(EnumData))
    BY Zenon DEF ListsInv, EnumInv
  <2>4. PICK N \in Nat :
          /\ EnumData' \in Seq(Elems(EnumData)')
          /\ Elems(EnumData)' = Elems(EnumData) \cup {e}
          /\ DOMAIN EnumData = 1..N /\ DOMAIN EnumData' = 1..(N + 1)
          /\ EnumData'[N + 1] = e
          /\ \A k \in DOMAIN EnumData : EnumData'[k] = EnumData[k]
    <3> DEFINE longer == Append(EnumData, e)
    <3>1. /\ longer \in Seq(Elems(longer)) /\ Elems(longer) = Elems(EnumData) \cup {e}
          /\ Len(EnumData) \in Nat
          /\ DOMAIN EnumData = 1..Len(EnumData) /\ DOMAIN longer = 1..(Len(EnumData) + 1)
          /\ longer[Len(EnumData) + 1] = e
          /\ \A k \in DOMAIN EnumData : longer[k] = EnumData[k]
      BY <2>3, ElemsAppend
    <3>2. EnumData' = longer /\ Elems(EnumData)' = Elems(EnumData')
      BY <1>2, Zenon DEF Elems
    <3> HIDE DEF longer
    <3> QED
      BY <3>1, <3>2, Zenon
  <2>5. \A d \in Elems(EnumData) : d.records.A \subseteq As /\ d.records.SRV \subseteq SRVs
    BY Zenon DEF ListsInv, EnumInv
  <2>6. \A k \in DOMAIN EnumData : EnumData[k] \in Elems(EnumData)
    BY Zenon DEF Elems
  <2>7. EnumInv'
    <3>1. \A d \in Elems(EnumData)' : d.records.A \subseteq As' /\ d.records.SRV \subseteq SRVs'
      BY <1>2, <2>1, <2>4, <2>5, Zenon
    <3>2. \A k \in DOMAIN EnumData :
            /\ EnumData[k].records.A \cap e.records.A = {}
            /\ EnumData[k].records.SRV \cap e.records.SRV = {}
      BY <2>1, <2>5, <2>6, Zenon
    <3>3. \A k \in DOMAIN EnumData' : k \in DOMAIN EnumData \/ k = N + 1
      BY <2>4
    <3>4. N + 1 \notin DOMAIN EnumData
      BY <2>4
    <3>5. \A k, l \in DOMAIN EnumData : k # l =>
            /\ EnumData[k].records.A \cap EnumData[l].records.A = {}
            /\ EnumData[k].records.SRV \cap EnumData[l].records.SRV = {}
      BY Zenon DEF ListsInv, EnumInv
    <3>6. \A k, l \in DOMAIN EnumData' : k # l =>
            /\ EnumData'[k].records.A \cap EnumData'[l].records.A = {}
            /\ EnumData'[k].records.SRV \cap EnumData'[l].records.SRV = {}
      BY <2>4, <3>2, <3>3, <3>4, <3>5, SMTT(40)
    <3>7. \A a \in As' : a.name \in Infra \/ \E d \in Elems(EnumData)' : a \in d.records.A
      <4>1. \A a \in As : a.name \in Infra \/ \E d \in Elems(EnumData) : a \in d.records.A
        BY Zenon DEF ListsInv, EnumInv
      <4> QED
        BY <1>2, <2>1, <2>4, <4>1, Zenon
    <3>8. Infra' = Infra
      BY <1>0, SameInfra, Zenon
    <3> QED
      BY <2>4, <3>1, <3>6, <3>7, <3>8, ZenonT(40) DEF EnumInv
  <2>8. TargetsInv'
    <3> SUFFICES ASSUME NEW s \in SRVs' PROVE Leads(s.target)'
      BY Zenon DEF TargetsInv
    <3>1. \A n : Addresses(n)' = Addresses(n) \cup {a.host : a \in {x \in RA : x.name = n}}
      BY <1>2, AddressesAdded, Zenon
    <3>2. \A d, x : Unaddressed(x, d) => Unaddressed(x, d)'
      BY <1>0, SameUnaddressed, Zenon
    <3>3. CASE s \in SRVs
      <4>1. Leads(s.target)
        BY <3>3, Zenon DEF ListsInv, TargetsInv
      <4> QED
        BY <2>4, <3>1, <3>2, <4>1, Zenon DEF Leads
    <3>4. CASE s \in RS
      <4>1. CASE \E r \in RA : r.name = s.target
        <5>1. PICK r \in RA : r.name = s.target
          BY <4>1, Zenon
        <5>2. r.host \in Addresses(s.target)'
          BY <3>1, <5>1, Zenon
        <5> QED
          BY <5>2, Zenon DEF Leads
      <4>2. CASE Unaddressed(s.target, e)
        BY <2>4, <3>2, <4>2, Zenon DEF Leads
      <4> QED
        BY <2>2, <3>4, <4>1, <4>2, Zenon
    <3> QED
      BY <1>2, <3>3, <3>4, Zenon
  <2> QED
    BY <1>0, <2>7, <2>8, Zenon DEF ListsInv
<1> QED
  <2>1. \/ UNCHANGED <<As, SRVs, EnumData>>
        \/ /\ As' = As \cup RA /\ SRVs' = SRVs \cup RS
           /\ EnumData' = Append(EnumData, e)
    BY ZenonT(40) DEF taskRecord, Crash, Enumerated
  <2> QED
    BY <1>1, <1>2, <2>1, Zenon

\* Every step keeps them.
LEMMA NextLists == MastersInv /\ ListsInv /\ [Next]_vars => ListsInv'
<1> SUFFICES ASSUME MastersInv, ListsInv, [Next]_vars PROVE ListsInv'
  BY Zenon
<1>1. CASE ParseState
  <2>1. /\ As' = {} /\ SRVs' = {} /\ EnumData' = << >> /\ pc' = "frameworks"
    BY <1>1, Zenon DEF ParseState, ListsInv
  <2>2. Elems(EnumData)' = {} /\ DOMAIN EnumData' = {} /\ EnumData' \in Seq({})
    BY <2>1 DEF Elems
  <2> QED
    BY <2>1, <2>2, Zenon DEF ListsInv, EnumInv, TargetsInv
<1>2. CASE taskRecords
  <2>1. /\ pc = "tasks" /\ pc' \in {"tasks", "done"}
        /\ UNCHANGED <<inputs, As, SRVs, SlaveIPs, EnumData>>
    BY <1>2, Zenon DEF taskRecords
  <2> QED
    BY <2>1, ListsKept, Zenon
<1>3. CASE UNCHANGED vars
  <2>1. /\ UNCHANGED <<pc, inputs, As, SRVs, SlaveIPs, EnumData>>
    BY <1>3, Zenon DEF vars
  <2>2. Elems(EnumData)' = Elems(EnumData) /\ Infra' = Infra
    BY <2>1, SameInfra, Zenon DEF Elems
  <2>3. \A x : Leads(x)' <=> Leads(x)
    <3>1. \A x, d : Unaddressed(x, d)' <=> Unaddressed(x, d)
      BY <2>1, SameUnaddressed, Zenon
    <3>2. \A x : Addresses(x)' = Addresses(x)
      BY <2>1, Zenon DEF Addresses
    <3> QED
      BY <2>2, <3>1, <3>2, Zenon DEF Leads
  <2>4. EnumInv' /\ TargetsInv'
    BY <2>1, <2>2, <2>3, ZenonT(40) DEF ListsInv, EnumInv, TargetsInv
  <2> QED
    BY <2>1, <2>4, Zenon DEF ListsInv
<1> QED
  BY <1>1, <1>2, <1>3, ListFrameworks, ListSlaves, ListMasters, ListTask, SMTT(40) DEF Next

\* "EnumerableRecord ... should map 1:1 with DNS records": for every state.json,
\* the enumerated records are served, are enumerated once, and all others bear a
\* name of a framework, the slaves or the masters.
THEOREM EnumerationAlwaysExact == Spec => []EnumerationExact
<1>1. ListsInv => EnumerationExact
  BY SMTT(30) DEF ListsInv, EnumInv, EnumerationExact, Infra
<1> QED
  BY <1>1, InitMasters, NextMasters, InitLists, NextLists, PTL DEF Spec

\* For every state.json, the target of an SRV record has an address, unless it
\* is that of a task which has none of the kind the target is for.
THEOREM TargetsAlwaysResolve == Spec => []TargetsResolve
<1>1. ListsInv => TargetsResolve
  BY ZenonT(40) DEF ListsInv, TargetsInv, TargetsResolve, Leads, Unaddressed
<1> QED
  BY <1>1, InitMasters, NextMasters, InitLists, NextLists, PTL DEF Spec

-----------------------------------------------------------------------------
(* Where tasks are found *)

\* The A records of a task under one of its names.
TaskA(f, t, n) ==
  NonEmpty(taskAs(<<n>> \o DomainFrag(f.Name), canonical(f, t, n),
                  IP(t, SlaveIPs[t.SlaveID], ipSources), SlaveIPs[t.SlaveID]))

\* The A records are those of the enumerated tasks, all of them, and those of
\* frameworks, slaves and masters.
AddressInv ==
  /\ pc # "ParseState" => ipSources \in Sources
  /\ \A e \in Elems(EnumData) :
       /\ e.f \in Elems(sj.Frameworks) /\ e.t \in Elems(e.f.Tasks)
       /\ DomainFrag(e.f.Name) # Panic
       /\ \A n \in taskNames(e.t) : TaskA(e.f, e.t, n) \subseteq As
  /\ \A a \in As :
       \/ a.name \in Infra
       \/ \E e \in Elems(EnumData) : \E n \in taskNames(e.t) : a \in TaskA(e.f, e.t, n)

\* While no task has been reached, every record is of the infrastructure.
LEMMA AddressNone ==
  ASSUME ListsInv, EnumData = << >>, pc # "ParseState" => ipSources \in Sources
  PROVE  AddressInv
<1>1. Elems(EnumData) = {}
  BY DEF Elems
<1> QED
  BY <1>1, Zenon DEF ListsInv, EnumInv, AddressInv

\* The records of a task depend on what InsertState was called with and on the
\* slaves, not on what was inserted before.
LEMMA SameTask ==
  ASSUME UNCHANGED inputs, UNCHANGED SlaveIPs
  PROVE  /\ \A f, t, n : TaskA(f, t, n)' = TaskA(f, t, n)
         /\ \A t : taskNames(t)' = taskNames(t)
         /\ \A f : DomainFrag(f.Name)' = DomainFrag(f.Name)
<1>1. hostSpec' = hostSpec /\ ipSources' = ipSources /\ SlaveIPs' = SlaveIPs
  BY Zenon DEF inputs
<1>2. \A f : DomainFrag(f.Name)' = DomainFrag(f.Name)
  BY <1>1, Zenon DEF DomainFrag
<1>3. \A t : taskNames(t)' = taskNames(t)
  BY <1>1, Zenon DEF taskNames, spec
<1>4. \A f, t, n : canonical(f, t, n)' = canonical(f, t, n)
  BY <1>2, Zenon DEF canonical
<1> QED
  BY <1>1, <1>2, <1>3, <1>4, Zenon DEF TaskA

LEMMA AddressKept ==
  ASSUME AddressInv, UNCHANGED <<inputs, As, SlaveIPs, EnumData>>, pc # "ParseState"
  PROVE  AddressInv'
<1>1. /\ \A f, t, n : TaskA(f, t, n)' = TaskA(f, t, n)
      /\ \A t : taskNames(t)' = taskNames(t)
      /\ \A f : DomainFrag(f.Name)' = DomainFrag(f.Name)
  BY SameTask, Zenon
<1>2. /\ Elems(EnumData)' = Elems(EnumData) /\ Infra' = Infra
      /\ sj' = sj /\ ipSources' = ipSources /\ As' = As
  BY SameInfra, Zenon DEF Elems, inputs
<1>3. Elems(sj.Frameworks)' = Elems(sj.Frameworks)
  BY <1>2, Zenon DEF Elems
<1>4. \A e : Elems(e.f.Tasks)' = Elems(e.f.Tasks)
  BY Zenon DEF Elems
<1> QED
  BY <1>1, <1>2, <1>3, <1>4, ZenonT(40) DEF AddressInv

\* taskRecord adds the records of the task it enumerates.
LEMMA AddressTask == ASSUME MastersInv, ListsInv, AddressInv, taskRecord PROVE AddressInv'
<1> DEFINE f == sj.Frameworks[at[1]]
           t == f.Tasks[at[2]]
           ctx == {taskContextRecord(f, t, n) : n \in taskNames(t)}
           R == UNION {c.A : c \in ctx}
           recs == [A |-> R, SRV |-> UNION {c.SRV : c \in ctx}]
           e == [f |-> f, t |-> t, records |-> Enumerated(recs)]
<1>0. /\ pc = "tasks" /\ UNCHANGED <<inputs, SlaveIPs>> /\ Inputs
      /\ ipSources \in Sources
  BY Zenon DEF taskRecord, Crash, MastersInv, AddressInv
<1>1. CASE UNCHANGED <<As, EnumData>>
  BY <1>0, <1>1, AddressKept, Zenon
<1>2. CASE As' = As \cup R /\ EnumData' = Append(EnumData, e)
  <2>1. e.f = f /\ e.t = t
    BY Zenon
  <2>2. f \in Elems(sj.Frameworks) /\ t \in Elems(f.Tasks)
    <3>1. at[1] \in Nat /\ at[1] # 0 /\ at[2] \in Nat /\ at[2] # 0
      BY <1>0, Zenon DEF Inputs
    <3>2. at[1] <= Len(sj.Frameworks) /\ at[2] <= Len(f.Tasks)
      BY Zenon DEF taskRecord
    <3>3. ASSUME NEW s, s \in Seq(Elems(s)), NEW k \in Nat, k # 0, k <= Len(s)
          PROVE  s[k] \in Elems(s)
      <4>1. k \in DOMAIN s
        BY <3>3
      <4> QED
        BY <4>1, Zenon DEF Elems
    <3>4. sj.Frameworks \in Seq(Elems(sj.Frameworks))
      BY <1>0, RecordsAssumption, Zenon DEF Inputs
    <3>5. f \in Elems(sj.Frameworks)
      BY <3>1, <3>2, <3>3, <3>4, Zenon
    <3>6. f.Tasks \in Seq(Elems(f.Tasks))
      BY <1>0, <3>5, RecordsAssumption, Zenon DEF Inputs
    <3> HIDE DEF f
    <3> QED
      BY <3>1, <3>2, <3>3, <3>5, <3>6, Zenon
  <2>3. DomainFrag(f.Name) # Panic
    BY <1>0, <2>2, Zenon DEF Inputs
  <2>4. \A r : r \in R <=> \E n \in taskNames(t) : r \in TaskA(f, t, n)
    <3> HIDE DEF f, t
    <3>1. \A n : taskContextRecord(f, t, n).A = TaskA(f, t, n)
      BY TaskAddresses, Zenon DEF TaskA
    <3> QED
      BY <3>1, Zenon
  <2> HIDE DEF e, R, ctx, recs, f, t
  <2>5. Elems(EnumData)' = Elems(EnumData) \cup {e}
    <3>1. EnumData \in Seq(Elems(EnumData))
      BY Zenon DEF ListsInv, EnumInv
    <3>2. Elems(Append(EnumData, e)) = Elems(EnumData) \cup {e}
      BY <3>1, ElemsAppend, Zenon
    <3>3. Elems(EnumData)' = Elems(EnumData')
      BY Zenon DEF Elems
    <3> QED
      BY <1>2, <3>2, <3>3, Zenon
  <2>6. /\ \A g, u, n : TaskA(g, u, n)' = TaskA(g, u, n)
        /\ \A u : taskNames(u)' = taskNames(u)
        /\ \A g : DomainFrag(g.Name)' = DomainFrag(g.Name)
    BY <1>0, SameTask, Zenon
  <2>7. Infra' = Infra /\ sj' = sj /\ ipSources' = ipSources
    BY <1>0, SameInfra, Zenon DEF inputs
  <2>8. \A d \in Elems(EnumData) \cup {e} :
          /\ d.f \in Elems(sj.Frameworks) /\ d.t \in Elems(d.f.Tasks)
          /\ DomainFrag(d.f.Name) # Panic
          /\ \A n \in taskNames(d.t) : TaskA(d.f, d.t, n) \subseteq As'
    <3>1. \A d \in Elems(EnumData) :
            /\ d.f \in Elems(sj.Frameworks) /\ d.t \in Elems(d.f.Tasks)
            /\ DomainFrag(d.f.Name) # Panic
            /\ \A n \in taskNames(d.t) : TaskA(d.f, d.t, n) \subseteq As'
      BY <1>2, Zenon DEF AddressInv
    <3>2. \A n \in taskNames(t) : TaskA(f, t, n) \subseteq As'
      BY <1>2, <2>4, Zenon
    <3> QED
      BY <2>1, <2>2, <2>3, <3>1, <3>2, Zenon
  <2>9. \A a \in As' :
          \/ a.name \in Infra
          \/ \E d \in Elems(EnumData) \cup {e} : \E n \in taskNames(d.t) : a \in TaskA(d.f, d.t, n)
    <3> TAKE a \in As'
    <3>1. CASE a \in As
      BY <3>1, Zenon DEF AddressInv
    <3>2. CASE a \in R
      BY <2>1, <2>4, <3>2, Zenon
    <3> QED
      BY <1>2, <3>1, <3>2, Zenon
  <2>10. Elems(sj.Frameworks)' = Elems(sj.Frameworks)
    BY <2>7, Zenon DEF Elems
  <2>11. \A d : Elems(d.f.Tasks)' = Elems(d.f.Tasks)
    BY Zenon DEF Elems
  <2> QED
    BY <1>0, <2>5, <2>6, <2>7, <2>8, <2>9, <2>10, <2>11, ZenonT(40) DEF AddressInv
<1> QED
  <2>1. \/ UNCHANGED <<As, EnumData>>
        \/ As' = As \cup R /\ EnumData' = Append(EnumData, e)
    BY ZenonT(40) DEF taskRecord, Crash
  <2> QED
    BY <1>1, <1>2, <2>1, Zenon

LEMMA InitAddress == Init => AddressInv
<1> SUFFICES ASSUME Init PROVE AddressInv
  BY Zenon
<1>1. ListsInv
  BY InitLists, Zenon
<1>2. EnumData = << >> /\ pc = "ParseState"
  BY Zenon DEF Init
<1> QED
  BY <1>1, <1>2, AddressNone, Zenon

LEMMA NextAddress == MastersInv /\ ListsInv /\ AddressInv /\ [Next]_vars => AddressInv'
<1> SUFFICES ASSUME MastersInv, ListsInv, AddressInv, [Next]_vars PROVE AddressInv'
  BY Zenon
<1>1. ListsInv'
  BY NextLists, Zenon
<1>2. ASSUME EnumData' = << >>, pc' # "ParseState" => ipSources' \in Sources PROVE AddressInv'
  <2>1. Elems(EnumData)' = {}
    BY <1>2 DEF Elems
  <2> QED
    BY <1>1, <1>2, <2>1, Zenon DEF ListsInv, EnumInv, AddressInv
<1>3. CASE ParseState
  <2>1. EnumData' = << >> /\ ipSources' \in Sources
    BY <1>3, Zenon DEF ParseState, ListsInv
  <2> QED
    BY <1>2, <2>1, Zenon
<1>4. CASE frameworkRecords \/ slaveRecords \/ leaderRecord \/ masterRecord \/ unlistedLeader
  <2>1. pc \in {"frameworks", "slaves", "leader", "masters"} /\ UNCHANGED <<ipSources, EnumData>>
    BY <1>4, ZenonT(40)
    DEF frameworkRecords, slaveRecords, leaderRecord, masterRecord, unlistedLeader, Crash, inputs
  <2>2. EnumData' = << >> /\ ipSources' \in Sources
    BY <2>1 DEF ListsInv, AddressInv
  <2> QED
    BY <1>2, <2>2, Zenon
<1>5. CASE taskRecords
  <2>1. pc # "ParseState" /\ UNCHANGED <<inputs, As, SlaveIPs, EnumData>>
    BY <1>5, Zenon DEF taskRecords
  <2> QED
    BY <2>1, AddressKept, Zenon
<1>6. CASE UNCHANGED vars
  <2>1. UNCHANGED <<pc, inputs, As, SlaveIPs, EnumData>>
    BY <1>6, Zenon DEF vars
  <2>2. CASE pc = "ParseState"
    <3>1. EnumData' = << >> /\ pc' = "ParseState"
      BY <2>1, <2>2, Zenon DEF ListsInv
    <3> QED
      BY <1>2, <3>1, Zenon
  <2> QED
    BY <2>1, <2>2, AddressKept, Zenon
<1> QED
  BY <1>3, <1>4, <1>5, <1>6, AddressTask, Zenon DEF Next

\* The records of a task, one by one.
LEMMA TaskRecords ==
  ASSUME NEW f, NEW t, NEW n
  PROVE  LET arec == <<n>> \o DomainFrag(f.Name)
             name == canonical(f, t, n)
             ip == IP(t, SlaveIPs[t.SlaveID], ipSources)
         IN  /\ ip # "" => ARec(name, ip) \in TaskA(f, t, n)
             /\ \A a \in TaskA(f, t, n) :
                  \/ a.name \in {arec, name} /\ a.host = ip /\ ip # ""
                  \/ a.name \in {Append(arec, "slave"), Append(name, "slave")}
<1> DEFINE slaveIP == SlaveIPs[t.SlaveID]
<1>1. ASSUME NEW arec, NEW name, NEW ip, NEW slave
      PROVE  /\ ip # "" => ARec(name, ip) \in NonEmpty(taskAs(arec, name, ip, slave))
             /\ \A a \in NonEmpty(taskAs(arec, name, ip, slave)) :
                  \/ a.name \in {arec, name} /\ a.host = ip /\ ip # ""
                  \/ a.name \in {Append(arec, "slave"), Append(name, "slave")}
  <2>1. \A x, h : ARec(x, h).name = x /\ ARec(x, h).host = h
    BY Zenon DEF ARec
  <2>2. \A a : a \in NonEmpty(taskAs(arec, name, ip, slave)) <=>
               /\ a.host # ""
               /\ \/ a = ARec(arec, ip) \/ a = ARec(name, ip)
                  \/ a = ARec(Append(arec, "slave"), slave) \/ a = ARec(Append(name, "slave"), slave)
    BY Zenon DEF NonEmpty, taskAs
  <2>3. ip # "" => ARec(name, ip) \in NonEmpty(taskAs(arec, name, ip, slave))
    BY <2>1, <2>2, Zenon
  <2>4. ASSUME NEW a \in NonEmpty(taskAs(arec, name, ip, slave))
        PROVE  \/ a.name \in {arec, name} /\ a.host = ip /\ ip # ""
               \/ a.name \in {Append(arec, "slave"), Append(name, "slave")}
    <3>1. CASE a = ARec(arec, ip) \/ a = ARec(name, ip)
      <4>1. a.host # ""
        BY <2>2, Zenon
      <4>2. a.host = ip /\ (a.name = arec \/ a.name = name)
        BY <2>1, <3>1, ZenonT(40)
      <4> QED
        BY <4>1, <4>2, Zenon
    <3>2. CASE a = ARec(Append(arec, "slave"), slave) \/ a = ARec(Append(name, "slave"), slave)
      <4>1. a.name = Append(arec, "slave") \/ a.name = Append(name, "slave")
        BY <2>1, <3>2, Zenon
      <4> QED
        BY <4>1, Zenon
    <3> QED
      BY <2>2, <3>1, <3>2, Zenon
  <2> QED
    BY <2>3, <2>4, Zenon
<1> QED
  BY <1>1, Zenon DEF TaskA

\* The canonical name of a task is no name of the slaves or the masters.
LEMMA CanonicalNoInfra ==
  ASSUME NEW f, NEW t, NEW n, DomainFrag(f.Name) \in Seq(Labs), DomainFrag(f.Name) # << >>
  PROVE  canonical(f, t, n) \in Infra =>
           canonical(f, t, n) \in {DomainFrag(g.Name) : g \in Elems(sj.Frameworks)}
<1> DEFINE x == n \o "-" \o hashString[t.ID] \o "-" \o slaveIDTail[t.SlaveID]
           s == DomainFrag(f.Name)
<1>1. canonical(f, t, n) = <<x>> \o s
  BY Zenon DEF canonical
<1> HIDE DEF x, s
<1>2. <<x>> \o s \notin MasterNames
  BY LongName, Zenon DEF s
<1>3. <<x>> \o s # <<"slave">>
  <2> DEFINE T == Labs \cup {x}
             a == <<x>> \o s
  <2>1. s \in Seq(T) /\ <<x>> \in Seq(T) /\ Len(s) \in Nat /\ Len(s) # 0
    BY DEF s
  <2>2. Len(a) = 1 + Len(s) /\ Len(<<"slave">>) = 1
    BY <2>1
  <2>3. Len(a) # Len(<<"slave">>)
    BY <2>1, <2>2
  <2> HIDE DEF a
  <2>4. a # <<"slave">>
    BY <2>3, Zenon
  <2> QED
    BY <2>4, Zenon DEF a
<1> QED
  BY <1>1, <1>2, <1>3, Zenon DEF Infra, MasterNames

LEMMA AtOwnAddress == ASSUME Induction, MastersInv, ListsInv, AddressInv PROVE OwnAddress
<1> SUFFICES ASSUME NEW e \in Elems(EnumData), NEW n \in taskNames(e.t),
                    ~Shared(canonical(e.f, e.t, n), e)
             PROVE  \E statuses \in {{s} : s \in Newest(e.t)} \cup IF Newest(e.t) = {} THEN {{}} ELSE {} :
                      \E ip \in Addresses(canonical(e.f, e.t, n)) \cup {""} :
                        /\ Addresses(canonical(e.f, e.t, n)) = {ip} \ {""}
                        /\ ByPriority(ip, statuses, SlaveIPs[e.t.SlaveID])
  BY Zenon DEF OwnAddress
<1> DEFINE name == canonical(e.f, e.t, n)
           slaveIP == SlaveIPs[e.t.SlaveID]
           ip == IP(e.t, slaveIP, ipSources)
<1>1. /\ e.f \in Elems(sj.Frameworks) /\ e.t \in Elems(e.f.Tasks)
      /\ DomainFrag(e.f.Name) # Panic
      /\ TaskA(e.f, e.t, n) \subseteq As
  BY Zenon DEF AddressInv
<1>2. pc # "ParseState" /\ Inputs /\ sj \in States /\ ipSources \in Sources
  <2>1. EnumData # << >>
    BY DEF Elems
  <2>2. pc # "ParseState"
    BY <2>1, Zenon DEF ListsInv
  <2> QED
    BY <2>2, Zenon DEF MastersInv, Inputs, AddressInv
<1>3. TypedTask(e.t) /\ ipSources \in Seq(Elems(ipSources))
  BY <1>1, <1>2, StatusAssumption, Zenon DEF TypedTask, TypedStatus
<1>4. ByPriority(ip, Counted(e.t), slaveIP)
  BY <1>3, IPChosen, Zenon
<1>5. Counted(e.t) \in {{s} : s \in Newest(e.t)} \cup IF Newest(e.t) = {} THEN {{}} ELSE {}
  BY <1>3, CountedNewest, Zenon
<1>6. DomainFrag(e.f.Name) \in Seq(Labs) /\ DomainFrag(e.f.Name) # << >>
  BY <1>1, <1>2, FragTyped, Zenon
<1>7. ip # "" => ARec(name, ip) \in As
  BY <1>1, TaskRecords, Zenon
<1>8. ASSUME NEW a \in As, a.name = name PROVE a.host = ip /\ ip # ""
  <2>1. name \notin {DomainFrag(g.Name) : g \in Elems(sj.Frameworks)}
    BY Zenon DEF Shared
  <2>2. a.name \notin Infra
    BY <1>6, <1>8, <2>1, CanonicalNoInfra, Zenon
  <2>3. PICK d \in Elems(EnumData) : \E m \in taskNames(d.t) : a \in TaskA(d.f, d.t, m)
    BY <2>2, Zenon DEF AddressInv
  <2>4. PICK m \in taskNames(d.t) : a \in TaskA(d.f, d.t, m)
    BY <2>3, Zenon
  <2> DEFINE arec == <<m>> \o DomainFrag(d.f.Name)
             other == canonical(d.f, d.t, m)
             ipd == IP(d.t, SlaveIPs[d.t.SlaveID], ipSources)
  <2>5. \/ a.name \in {arec, other} /\ a.host = ipd /\ ipd # ""
        \/ a.name \in {Append(arec, "slave"), Append(other, "slave")}
    BY <2>4, TaskRecords, Zenon
  <2>6. (d # e => name \notin {arec, other}) /\ name \notin {Append(arec, "slave"), Append(other, "slave")}
    BY Zenon DEF Shared
  <2> HIDE DEF arec, other, name
  <2>7. a.name \in {arec, other} /\ a.host = ipd /\ ipd # "" /\ d = e
    BY <1>8, <2>5, <2>6, Zenon
  <2> QED
    BY <2>7, Zenon
<1> HIDE DEF name, ip, slaveIP
<1>9. \A h : h \in Addresses(name) <=> h = ip /\ ip # ""
  <2>1. \A h : h \in Addresses(name) <=> \E a \in As : a.name = name /\ a.host = h
    BY Zenon DEF Addresses
  <2>2. ARec(name, ip).name = name /\ ARec(name, ip).host = ip
    BY Zenon DEF ARec
  <2> QED
    BY <1>7, <1>8, <2>1, <2>2, Zenon
<1>10. Addresses(name) = {ip} \ {""} /\ ip \in Addresses(name) \cup {""}
  <2> DEFINE A == Addresses(name)
  <2> HIDE DEF A
  <2>1. \A h : h \in A <=> h \in {ip} \ {""}
    BY <1>9, Zenon DEF A
  <2>2. A = {ip} \ {""}
    BY <2>1, Zenon
  <2>3. ip = "" \/ ip \in A
    BY <1>9, Zenon DEF A
  <2> QED
    BY <2>2, <2>3, Zenon DEF A
<1>11. \E x \in Addresses(name) \cup {""} :
         Addresses(name) = {x} \ {""} /\ ByPriority(x, Counted(e.t), slaveIP)
  BY <1>4, <1>10, Zenon
<1> QED
  BY <1>5, <1>11, Zenon DEF name, slaveIP

-----------------------------------------------------------------------------
(* Finished says what MastersNumbered says, with numbers counted. *)

INSTANCE FiniteSetTheorems

LEMMA FinishedNumbered == ASSUME MastersInv PROVE MastersNumbered
<1> SUFFICES ASSUME Finished
             PROVE  /\ Numbered = 0..(Cardinality(Numbered) - 1)
                    /\ \A k \in Numbered : Cardinality(Of(k)) = 1
                    /\ \A k, l \in Numbered : k # l => Of(k) \cap Of(l) = {}
                    /\ Addresses(<<"master">>) = UNION {Of(k) : k \in Numbered}
  BY Zenon DEF MastersInv, MastersNumbered, Finished, Of
<1>1. PICK n \in Nat : 0..(n - 1) \subseteq DOMAIN MasterN /\ Numbering(n)
  BY Zenon DEF Finished
<1>2. Numbered = {k \in DOMAIN MasterN : Of(k) # {}}
  BY ZenonT(40) DEF Numbered, Of
<1>3. DOMAIN MasterN \subseteq Nat
  BY RecordsAssumption, SMTT(30)
<1>4. \A k \in DOMAIN MasterN : Of(k) # {} <=> k < n
  BY <1>1, <1>3, SMTT(30) DEF Numbering
<1>5. Numbered = 0..(n - 1)
  BY <1>1, <1>2, <1>3, <1>4, SMTT(30)
<1>6. Cardinality(Numbered) = n
  BY <1>5, FS_Interval, SMTT(30)
<1>7. \A k \in Numbered : Cardinality(Of(k)) = 1
  <2> SUFFICES ASSUME NEW k \in Numbered PROVE Cardinality(Of(k)) = 1
    BY Zenon
  <2>1. PICK h : Of(k) = {h}
    BY <1>1, <1>2, <1>4, Zenon DEF Numbering
  <2> QED
    BY <2>1, FS_Singleton, Zenon
<1>8. \A k, l \in Numbered : k # l => Of(k) \cap Of(l) = {}
  BY <1>1, <1>2, Zenon DEF Numbering
<1>9. NumberedIPs = UNION {Of(k) : k \in Numbered}
  BY <1>2, Zenon DEF NumberedIPs
<1> QED
  BY <1>5, <1>6, <1>7, <1>8, <1>9, SMTT(30) DEF Finished

\* "masterN.domain. // one IP address for each master": for every list of masters
\* and every state.json, the loop of masterRecord and its unlisted leader number
\* the masters without gap or double.
THEOREM MastersAlwaysNumbered == Spec => []MastersNumbered
<1>1. Spec => []MastersInv
  BY InitMasters, NextMasters, PTL DEF Spec
<1>2. MastersInv => MastersNumbered
  BY FinishedNumbered, Zenon
<1> QED
  BY <1>1, <1>2, PTL

-----------------------------------------------------------------------------
(* Induction, from the well-foundedness of < on the numbers. *)

LEMMA InductionHolds == Induction
<1> SUFFICES ASSUME NEW n \in Nat, NEW Good, 0 \in Good,
                    \A k \in 1..n : k - 1 \in Good => k \in Good
             PROVE  \A k \in 0..n : k \in Good
  BY Zenon DEF Induction
<1> DEFINE Bad == {k \in 0..n : k \notin Good}
<1>1. SUFFICES ASSUME Bad # {} PROVE FALSE
  BY Zenon
<1>2. PICK k \in Bad : \A m \in Bad : ~(<<m, k>> \in OpToRel(<, Nat))
  <2>1. IsWellFoundedOn(OpToRel(<, Nat), Nat)
    BY NatLessThanWellFounded, Zenon
  <2>2. Bad \subseteq Nat
    OBVIOUS
  <2> HIDE DEF Bad
  <2> QED
    BY <1>1, <2>1, <2>2, WFMin, Zenon
<1>3. k \in Nat /\ k # 0 /\ k \in 1..n /\ k - 1 \in 0..n /\ k - 1 < k /\ k - 1 \in Nat
  OBVIOUS
<1>4. k - 1 \notin Bad
  BY <1>2, <1>3, Zenon DEF OpToRel
<1> QED
  BY <1>3, <1>4, Zenon

\* Wherever tasks come from and whatever they share names with: a task's own name
\* leads to the address its first source with any states, in a newest running
\* status, and to none if no source does.
THEOREM TasksAtOwnAddress == Spec => []OwnAddress
BY InductionHolds, AtOwnAddress, InitMasters, NextMasters, InitLists, NextLists, InitAddress, NextAddress, PTL
DEF Spec
=============================================================================
