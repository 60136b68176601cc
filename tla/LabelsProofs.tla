---------------------------- MODULE LabelsProofs ----------------------------
(* What label makes of a name, for every name and every limit on the length, *)
(* what that means for the names InsertState is given, and that only a name  *)
(* which is cut on a dash stops it.  The library's induction theorems take   *)
(* an operator parameter; the inductions here go through the least           *)
(* counterexample instead (WFMin of WellFoundedInduction).                   *)
EXTENDS Records, TLAPS

LOCAL INSTANCE WellFoundedInduction

\* Every nonempty set of natural numbers has a least element.
LEMMA NatLeast ==
  ASSUME NEW T \in SUBSET Nat, T # {}
  PROVE  \E n \in T : \A m \in T : n <= m
<1>1. IsWellFoundedOn(OpToRel(<, Nat), Nat)
  BY NatLessThanWellFounded, Zenon
<1>2. PICK n \in T : \A m \in T : ~(<<m, n>> \in OpToRel(<, Nat))
  BY <1>1, WFMin, Zenon
<1>3. \A m \in T : ~(m < n)
  BY <1>2, Zenon DEF OpToRel
<1> QED
  BY <1>3

-----------------------------------------------------------------------------
(* bytes.Map *)

\* The recursive function inside Map.
MapDef(s, f, n) ==
  f = [k \in 0..n |-> IF k = 0 THEN << >>
                      ELSE IF s[k] \in Kept THEN Append(f[k-1], mapping(s[k])) ELSE f[k-1]]

\* It exists for every prefix of the name.
LEMMA MapExists ==
  ASSUME NEW S, NEW s \in Seq(S)
  PROVE  \A n \in 0..Len(s) : \E f : MapDef(s, f, n)
<1> DEFINE Bad == {n \in 0..Len(s) : ~ \E f : MapDef(s, f, n)}
           step(p, c) == IF c \in Kept THEN Append(p, mapping(c)) ELSE p
<1>1. SUFFICES ASSUME Bad # {} PROVE FALSE
  BY Zenon
<1>2. PICK n \in Bad : \A o \in Bad : n <= o
  <2>1. Bad \in SUBSET Nat
    OBVIOUS
  <2> HIDE DEF Bad
  <2> QED BY <1>1, <2>1, NatLeast, Zenon
<1>3. n \in 0..Len(s) /\ Len(s) \in Nat
  OBVIOUS
<1>0. \A f, o : MapDef(s, f, o) <=> f = [k \in 0..o |-> IF k = 0 THEN << >> ELSE step(f[k-1], s[k])]
  BY Zenon DEF MapDef
<1> HIDE DEF step
<1>4. n # 0
  <2>1. SUFFICES ASSUME n = 0 PROVE FALSE
    BY Zenon
  <2>2. MapDef(s, [k \in 0..0 |-> << >>], 0)
    <3> DEFINE z == [k \in 0..0 |-> << >>]
    <3>1. z = [k \in 0..0 |-> IF k = 0 THEN << >> ELSE step(z[k-1], s[k])]
      <4>1. \A k \in 0..0 : k = 0
        OBVIOUS
      <4> QED BY <4>1, Zenon
    <3> HIDE DEF z
    <3>2. MapDef(s, z, 0)
      BY <1>0, <3>1, Zenon
    <3> QED BY <3>2, Zenon DEF z
  <2> QED BY <2>1, <2>2, Zenon
<1>5. n-1 \in 0..Len(s) /\ n-1 \notin Bad
  BY <1>2, <1>3, <1>4
<1>6. PICK f : MapDef(s, f, n-1)
  BY <1>5, Zenon
<1> DEFINE g == [k \in 0..n |-> IF k = n THEN step(f[n-1], s[n]) ELSE f[k]]
<1>7. MapDef(s, g, n)
  <2>1. \A k \in 0..n : k # 0 => k-1 \in 0..n /\ k-1 # n
    BY <1>3
  <2>2. \A k \in 0..n : k # 0 => g[k-1] = f[k-1]
    BY <2>1, Zenon
  <2>3. \A k \in 0..(n-1) : f[k] = IF k = 0 THEN << >> ELSE step(f[k-1], s[k])
    <3>1. f = [k \in 0..(n-1) |-> IF k = 0 THEN << >> ELSE step(f[k-1], s[k])]
      BY <1>0, <1>6, Zenon
    <3> QED BY <3>1, Zenon
  <2>4. \A k \in 0..n : k # n => k \in 0..(n-1)
    BY <1>3
  <2>5. \A k \in 0..n : g[k] = IF k = 0 THEN << >> ELSE step(g[k-1], s[k])
    BY <1>4, <2>2, <2>3, <2>4, Zenon
  <2>6. g = [k \in 0..n |-> IF k = 0 THEN << >> ELSE step(g[k-1], s[k])]
    <3> HIDE DEF g
    <3>1. g = [k \in 0..n |-> g[k]]
      BY Zenon DEF g
    <3> QED BY <2>5, <3>1, Zenon
  <2> QED BY <1>0, <2>6, Zenon
<1> QED
  BY <1>2, <1>7, Zenon

\* A mapped name is made of characters of names, and no longer than the name.
LEMMA MapIsSeq ==
  ASSUME NEW s \in Seq(Chars)
  PROVE  Map(s) \in Seq(Chars) /\ Len(Map(s)) \in Nat /\ Len(Map(s)) <= Len(s)
<1> DEFINE n == Len(s)
           F == CHOOSE f : MapDef(s, f, n)
           OK(k) == F[k] \in Seq(Chars) /\ Len(F[k]) <= k
           Bad == {k \in 0..n : ~OK(k)}
<1>1. n \in Nat /\ \A k \in 1..n : s[k] \in Chars
  OBVIOUS
<1>2. MapDef(s, F, n)
  <2>1. n \in 0..Len(s)
    BY <1>1
  <2>2. \E f : MapDef(s, f, n)
    BY <2>1, MapExists, Zenon
  <2> QED BY <2>2, Zenon
<1>3. Map(s) = F[n]
  BY Zenon DEF Map, MapDef
<1>0. \A c \in Kept : mapping(c) \in Chars
  BY LabelsAssumption, Zenon DEF mapping, Kept, Chars, Dashes
<1> HIDE DEF F, n
<1>4. \A k \in 0..n : F[k] = IF k = 0 THEN << >>
                      ELSE IF s[k] \in Kept THEN Append(F[k-1], mapping(s[k])) ELSE F[k-1]
  BY <1>2, Zenon DEF MapDef
<1>5. ASSUME NEW k \in Bad, \A o \in Bad : k <= o PROVE FALSE
  <2>1. CASE k = 0
    <3>1. 0 \in 0..n
      BY <1>1
    <3>2. F[0] = << >>
      BY <1>4, <3>1, Zenon
    <3>3. OK(0)
      BY <3>2
    <3> QED BY <2>1, <3>3, Zenon
  <2>2. CASE k # 0
    <3>1. k-1 \in 0..n /\ k-1 \notin Bad /\ k \in 1..n
      BY <1>1, <1>5, <2>2
    <3> DEFINE p == F[k-1]
    <3>2. p \in Seq(Chars) /\ Len(p) <= k-1 /\ Len(p) \in Nat
      BY <3>1
    <3>3. F[k] = IF s[k] \in Kept THEN Append(p, mapping(s[k])) ELSE p
      BY <1>4, <2>2, <3>1, Zenon
    <3> HIDE DEF p
    <3>4. CASE s[k] \in Kept
      <4>1. mapping(s[k]) \in Chars
        BY <1>0, <3>4, Zenon
      <4>2. F[k] \in Seq(Chars) /\ Len(F[k]) = Len(p) + 1
        BY <3>2, <3>3, <3>4, <4>1
      <4>3. OK(k)
        BY <1>1, <3>1, <3>2, <4>2
      <4> QED BY <4>3, Zenon
    <3>5. CASE s[k] \notin Kept
      <4>1. F[k] = p
        BY <3>3, <3>5, Zenon
      <4>2. OK(k)
        BY <1>1, <3>1, <3>2, <4>1
      <4> QED BY <4>2
    <3> QED BY <3>4, <3>5, Zenon
  <2> QED BY <2>1, <2>2, Zenon
<1>6. Bad = {}
  <2>1. Bad \in SUBSET Nat
    BY <1>1
  <2> HIDE DEF Bad
  <2> QED BY <1>5, <2>1, NatLeast, Zenon
<1> QED
  BY <1>1, <1>3, <1>6 DEF n

-----------------------------------------------------------------------------
(* What a label is, for every name *)

\* bytes.TrimLeft leaves off what is in the cutset before the first byte that is not.
LEMMA TrimLeftFinds ==
  ASSUME NEW b, NEW lo \in Nat, NEW hi \in Nat, NEW cutset
  PROVE  \/ /\ TrimLeft(b, lo, hi, cutset) = hi + 1
            /\ \A k \in lo..hi : b[k] \in cutset
         \/ /\ TrimLeft(b, lo, hi, cutset) \in lo..hi
            /\ b[TrimLeft(b, lo, hi, cutset)] \notin cutset
            /\ \A k \in lo..hi : k < TrimLeft(b, lo, hi, cutset) => b[k] \in cutset
<1> DEFINE P == {k \in lo..hi : b[k] \notin cutset}
           t == CHOOSE k \in P : \A l \in P : k <= l
<1>1. CASE P = {}
  BY <1>1, Zenon DEF TrimLeft
<1>2. CASE P # {}
  <2>1. P \in SUBSET Nat
    OBVIOUS
  <2>2. \E k \in P : \A l \in P : k <= l
    <3> HIDE DEF P
    <3> QED BY <1>2, <2>1, NatLeast, Zenon
  <2>3. t \in P /\ \A l \in P : t <= l
    <3> HIDE DEF P
    <3> QED BY <2>2, Zenon
  <2>4. TrimLeft(b, lo, hi, cutset) = t
    BY <1>2, Zenon DEF TrimLeft
  <2> HIDE DEF t
  <2> QED
    BY <2>3, <2>4
<1> QED
  BY <1>1, <1>2, Zenon

\* bytes.TrimRight leaves off what is in the cutset behind the last byte that is not.
LEMMA TrimRightFinds ==
  ASSUME NEW b, NEW lo \in Nat, NEW hi \in Nat, NEW cutset
  PROVE  \/ /\ TrimRight(b, lo, hi, cutset) = lo - 1
            /\ \A k \in lo..hi : b[k] \in cutset
         \/ /\ TrimRight(b, lo, hi, cutset) \in lo..hi
            /\ b[TrimRight(b, lo, hi, cutset)] \notin cutset
            /\ \A k \in lo..hi : k > TrimRight(b, lo, hi, cutset) => b[k] \in cutset
<1> DEFINE P == {k \in lo..hi : b[k] \notin cutset}
           Q == {d \in Nat : hi - d \in P}
           t == CHOOSE k \in P : \A l \in P : k >= l
<1>1. CASE P = {}
  BY <1>1, Zenon DEF TrimRight
<1>2. CASE P # {}
  <2>0. \A k \in P : k \in Nat /\ k <= hi
    OBVIOUS
  <2>1. Q \in SUBSET Nat /\ Q # {}
    <3>1. PICK k \in P : TRUE
      BY <1>2, Zenon
    <3> HIDE DEF P
    <3>2. hi - k \in Q
      BY <2>0, <3>1
    <3> QED BY <3>2, Zenon
  <2>2. PICK d \in Q : \A e \in Q : d <= e
    <3> HIDE DEF Q
    <3> QED BY <2>1, NatLeast, Zenon
  <2>3. hi - d \in P /\ \A l \in P : hi - d >= l
    <3> HIDE DEF P
    <3>1. \A l \in P : hi - l \in Q
      BY <2>0
    <3> QED BY <2>0, <2>2, <3>1
  <2>4. t \in P /\ \A l \in P : t >= l
    <3> HIDE DEF P
    <3> QED BY <2>3, Zenon
  <2>5. TrimRight(b, lo, hi, cutset) = t
    BY <1>2, Zenon DEF TrimRight
  <2> HIDE DEF t
  <2> QED
    BY <2>4, <2>5
<1> QED
  BY <1>1, <1>2, Zenon

\* Where trimCut ends the head, and what it makes of it: the head itself, if it
\* is not cut on a dash or only dashes follow; otherwise the head filled up
\* with what follows the dashes, or a panic.
CutTo(l, b, n, trim, end, last) ==
  /\ b[last] # "-" /\ \A k \in trim..end : k > last => b[k] = "-"
  /\ last = end \/ (\A k \in end + 1..n : b[k] = "-") => l = SubSeq(b, trim, last)
  /\ \/ l = SubSeq(b, trim, last) \/ l = Panic
     \/ \E tail \in end + 1..n :
          /\ tail + (end - last) - 1 <= Len(b)
          /\ l = SubSeq(b, trim, last) \o SubSeq(b, tail, tail + (end - last) - 1)

\* trimCut drops a label that is all in the left cutset, and cuts any other.
LEMMA TrimCutParts ==
  ASSUME NEW X, NEW b \in Seq(X), NEW n \in 0..Len(b), NEW maxlen \in Nat \ {0},
         NEW left, "-" \in left, NEW trim, trim = TrimLeft(b, 1, n, left),
         NEW end, end = trim + min(n + 1 - trim, maxlen) - 1,
         NEW l, l = trimCut(b, n, maxlen, left, {"-"})
  PROVE  /\ trim = n + 1 => l = << >>
         /\ trim # n + 1 => /\ trim \in 1..n /\ end \in trim..n
                            /\ \E last \in trim..end : CutTo(l, b, n, trim, end, last)
<1> DEFINE last == TrimRight(b, trim, end, {"-"})
           head == SubSeq(b, trim, last)
           tail == TrimLeft(b, end + 1, n, {"-"})
           fill == end - last
<1>0. n \in Nat /\ Len(b) \in Nat
  OBVIOUS
<1>1. \/ trim = n + 1
      \/ trim \in 1..n /\ b[trim] \notin left
  BY <1>0, TrimLeftFinds, Zenon
<1>2. trim \in 1..(n + 1) /\ end \in Nat /\ end <= n /\ (trim <= n => trim <= end)
  <2>1. trim \in 1..(n + 1)
    BY <1>0, <1>1
  <2>2. \A c \in Nat : min(c, maxlen) \in 0..c /\ (c >= 1 => min(c, maxlen) >= 1)
    BY DEF min
  <2>3. n + 1 - trim \in Nat
    BY <1>0, <2>1, SMTT(30)
  <2> DEFINE size == min(n + 1 - trim, maxlen)
  <2>4. size \in 0..(n + 1 - trim) /\ (n + 1 - trim >= 1 => size >= 1)
    BY <2>2, <2>3, Zenon
  <2>5. end = trim + size - 1
    BY Zenon
  <2> HIDE DEF size
  <2> QED
    BY <1>0, <2>1, <2>4, <2>5, SMTT(30)
<1>3. \/ last = trim - 1 /\ \A k \in trim..end : b[k] \in {"-"}
      \/ /\ last \in trim..end /\ b[last] \notin {"-"}
         /\ \A k \in trim..end : k > last => b[k] \in {"-"}
  <2>1. trim \in Nat /\ end \in Nat
    BY <1>0, <1>2
  <2> QED BY <2>1, TrimRightFinds, SMTT(40)
<1>4. \/ tail = n + 1
      \/ tail \in end + 1..n /\ b[tail] \notin {"-"}
  <2>1. end + 1 \in Nat /\ n \in Nat
    BY <1>0, <1>2, SMTT(30)
  <2> QED BY <2>1, TrimLeftFinds, ZenonT(40)
<1>5. l = IF fill = 0 \/ tail > n THEN head
          ELSE IF tail + fill - 1 <= Len(b) THEN head \o SubSeq(b, tail, tail + fill - 1)
          ELSE Panic
  BY Zenon DEF trimCut
<1> HIDE DEF last, tail
<1>6. CASE trim = n + 1
  <2>1. end = n
    BY <1>0, <1>6 DEF min
  <2>2. last = n /\ fill = 0
    BY <1>0, <1>3, <1>6, <2>1
  <2>3. head = << >>
    BY <1>0, <1>6, <2>2, SMTT(30)
  <2> QED
    BY <1>5, <1>6, <2>2, <2>3, Zenon
<1>7. CASE trim # n + 1
  <2>1. trim \in 1..n /\ end \in trim..n /\ b[trim] # "-"
    BY <1>0, <1>1, <1>2, <1>7, SMTT(30)
  <2>2. last \in trim..end /\ b[last] # "-" /\ \A k \in trim..end : k > last => b[k] = "-"
    BY <1>0, <1>3, <2>1, SMTT(30)
  <2>3. last = end \/ (\A k \in end + 1..n : b[k] = "-") => l = head
    <3>1. CASE last = end
      <4>1. fill = 0
        BY <1>2, <3>1
      <4> QED BY <1>5, <4>1, Zenon
    <3>2. CASE \A k \in end + 1..n : b[k] = "-"
      <4>1. tail > n
        BY <1>0, <1>4, <3>2
      <4> QED BY <1>5, <4>1, Zenon
    <3> QED BY <3>1, <3>2, Zenon
  <2>4. \/ l = head \/ l = Panic
        \/ \E x \in end + 1..n : /\ x + (end - last) - 1 <= Len(b)
                                 /\ l = head \o SubSeq(b, x, x + (end - last) - 1)
    <3>1. tail > n \/ tail \in end + 1..n
      BY <1>0, <1>4
    <3> HIDE DEF head
    <3> QED BY <1>5, <3>1, Zenon
  <2>5. CutTo(l, b, n, trim, end, last)
    BY <2>2, <2>3, <2>4, Zenon DEF CutTo
  <2> QED
    BY <1>7, <2>1, <2>2, <2>5, Zenon
<1> QED
  BY <1>6, <1>7, Zenon

\* The best label runs from the first position outside the left cutset to the
\* last one before the cut that holds no dash.
LEMMA BestLabelIs ==
  ASSUME NEW name \in Seq(Chars), NEW maxlen \in Nat \ {0}, NEW left,
         NEW m, m = Map(name), NEW n, n = Len(m),
         NEW trim, trim = TrimLeft(m, 1, n, left),
         NEW end, end = trim + min(n + 1 - trim, maxlen) - 1
  PROVE  /\ trim = n + 1 => BestLabel(name, maxlen, left) = << >>
         /\ \A last \in trim..end :
              /\ trim # n + 1 /\ m[last] # "-"
              /\ \A k \in trim..end : k > last => m[k] = "-"
              => BestLabel(name, maxlen, left) = SubSeq(m, trim, last)
<1> DEFINE C == {r \in (1..n) \X (1..n) :
                   /\ \A k \in 1..(r[1] - 1) : m[k] \in left
                   /\ m[r[1]] \notin left
                   /\ r[1] <= r[2] /\ r[2] - r[1] < maxlen /\ m[r[2]] # "-"}
           best == CHOOSE x \in C : \A y \in C : y[2] <= x[2]
<1>1. BestLabel(name, maxlen, left) = IF C = {} THEN << >> ELSE SubSeq(m, best[1], best[2])
  BY DEF BestLabel
<1>2. n \in Nat
  BY MapIsSeq, Zenon
<1>3. \/ trim = n + 1 /\ \A k \in 1..n : m[k] \in left
      \/ /\ trim \in 1..n /\ m[trim] \notin left
         /\ \A k \in 1..n : k < trim => m[k] \in left
  BY <1>2, TrimLeftFinds, Zenon
<1>4. CASE trim = n + 1
  <2>1. C = {}
    BY <1>2, <1>3, <1>4, SMTT(30)
  <2> HIDE DEF C
  <2> QED BY <1>1, <1>2, <1>4, <2>1, Zenon DEF min
<1>5. CASE trim # n + 1
  <2>1. /\ trim \in 1..n /\ m[trim] \notin left /\ end \in trim..n
        /\ \A k \in 1..n : k < trim => m[k] \in left
        /\ \A k \in trim..n : k - trim < maxlen => k <= end
        /\ end - trim < maxlen
    BY <1>2, <1>3, <1>5, SMTT(30) DEF min
  <2>2. \A r \in C : r = <<r[1], r[2]>> /\ r[1] = trim /\ r[2] \in trim..end /\ m[r[2]] # "-"
    <3> TAKE r \in C
    <3>1. r[1] \in 1..n /\ r[2] \in 1..n /\ r = <<r[1], r[2]>>
      OBVIOUS
    <3>2. r[1] = trim
      <4>1. ~(r[1] < trim)
        BY <2>1, <3>1, Zenon
      <4>2. ~(trim < r[1])
        <5>1. SUFFICES ASSUME trim < r[1] PROVE FALSE
          BY Zenon
        <5>2. trim \in 1..(r[1] - 1)
          BY <1>2, <2>1, <3>1, <5>1, SMTT(30)
        <5> QED BY <2>1, <5>2, Zenon
      <4> QED BY <1>2, <2>1, <3>1, <4>1, <4>2, SMTT(30)
    <3>3. r[2] \in trim..n /\ r[2] - trim < maxlen /\ m[r[2]] # "-"
      BY <1>2, <2>1, <3>1, <3>2
    <3> QED BY <1>2, <2>1, <3>1, <3>2, <3>3, SMTT(30)
  <2>3. SUFFICES ASSUME NEW last \in trim..end, m[last] # "-",
                        \A k \in trim..end : k > last => m[k] = "-"
                 PROVE  BestLabel(name, maxlen, left) = SubSeq(m, trim, last)
    BY <1>5, ZenonT(40)
  <2>4. <<trim, last>> \in C
    <3>1. /\ trim \in 1..n /\ last \in 1..n /\ trim <= last /\ last - trim < maxlen
          /\ \A k \in 1..(trim - 1) : k \in 1..n /\ k < trim
      BY <1>2, <2>1, SMTT(30)
    <3>2. \A k \in 1..(trim - 1) : m[k] \in left
      BY <2>1, <3>1, Zenon
    <3> QED BY <2>1, <2>3, <3>1, <3>2, Zenon
  <2> HIDE DEF C
  <2>5. \A y \in C : y[2] <= last
    BY <1>2, <2>1, <2>2, <2>3, SMTT(30)
  <2>6. \E x \in C : \A y \in C : y[2] <= x[2]
    BY <2>4, <2>5, Zenon
  <2>7. best \in C /\ \A y \in C : y[2] <= best[2]
    BY <2>6, Zenon
  <2>8. best[1] = trim /\ best[2] = last
    <3> HIDE DEF best
    <3>1. best[1] = trim /\ best[2] \in trim..end /\ best[2] <= last
      BY <2>2, <2>5, <2>7, Zenon
    <3>2. last <= best[2]
      BY <2>4, <2>7, Zenon
    <3> QED BY <1>2, <2>1, <3>1, <3>2, SMTT(30)
  <2> QED
    BY <1>1, <2>4, <2>8, Zenon
<1> QED
  BY <1>4, <1>5, Zenon

\* Two sequences have the same stretch where they agree.
LEMMA SameStretch ==
  ASSUME NEW X, NEW b \in Seq(X), NEW Y, NEW m \in Seq(Y), NEW lo \in Nat \ {0}, NEW hi \in Nat,
         hi <= Len(b), hi <= Len(m), \A k \in lo..hi : b[k] = m[k]
  PROVE  SubSeq(b, lo, hi) = SubSeq(m, lo, hi)
<1>1. \A k \in lo..hi : b[k] \in X /\ m[k] \in X
  OBVIOUS
<1>2. /\ SubSeq(b, lo, hi) \in Seq(X) /\ SubSeq(m, lo, hi) \in Seq(X)
      /\ Len(SubSeq(b, lo, hi)) = Len(SubSeq(m, lo, hi))
      /\ \A k \in 1..Len(SubSeq(b, lo, hi)) :
           SubSeq(b, lo, hi)[k] = b[lo + k - 1] /\ SubSeq(m, lo, hi)[k] = m[lo + k - 1]
      /\ Len(SubSeq(b, lo, hi)) = IF lo <= hi THEN hi - lo + 1 ELSE 0
  BY <1>1
<1>3. \A k \in 1..Len(SubSeq(b, lo, hi)) : SubSeq(b, lo, hi)[k] = SubSeq(m, lo, hi)[k]
  BY <1>2
<1> QED
  BY <1>2, <1>3, SMTT(30)

\* Every name becomes a clean label (RFC952 and RFC1123, with any limit on the
\* length): the best one there is, unless it is cut on a dash; never one that
\* is too long or begins with a character of the left cutset.  Not cut on a
\* dash, it is made of characters of names: no NUL, and no panic.
THEOREM EveryLabelClean ==
  ASSUME NEW name \in Seq(Chars), NEW maxlen \in Nat \ {0}, NEW left, "-" \in left
  PROVE  /\ CleanLabel(name, maxlen, left)
         /\ ~CutOnDash(name, maxlen, left) => label(name, maxlen, left, {"-"}) \in Seq(Chars)
<1> DEFINE m == Map(name)
           n == Len(m)
           b == [k \in 1..Len(name) |-> IF k <= n THEN m[k] ELSE NUL]
           trim == TrimLeft(m, 1, n, left)
           end == trim + min(n + 1 - trim, maxlen) - 1
           l == label(name, maxlen, left, {"-"})
           best == BestLabel(name, maxlen, left)
<1>1. m \in Seq(Chars) /\ n \in Nat /\ Len(name) \in Nat /\ n <= Len(name)
  BY MapIsSeq
<1>0. << >> \in Seq(Chars)
  OBVIOUS
<1>2. l = trimCut(b, n, maxlen, left, {"-"})
  BY Zenon DEF label
<1>3. CutOnDash(name, maxlen, left) <=>
        /\ trim + maxlen - 1 < n /\ m[trim + maxlen - 1] = "-"
        /\ \E k \in trim + maxlen - 1 + 1..n : m[k] # "-"
  BY Zenon DEF CutOnDash
<1> HIDE DEF m, n, l, best
<1>4. b \in Seq(Chars \cup {NUL}) /\ Len(b) = Len(name) /\ \A k \in 1..n : b[k] = m[k]
  <2>1. \A k \in 1..n : m[k] \in Chars /\ k \in 1..Len(name) /\ k <= n
    BY <1>1 DEF n
  <2>2. \A k \in 1..Len(name) : k <= n => k \in 1..n
    BY <1>1
  <2>3. b \in [1..Len(name) -> Chars \cup {NUL}] /\ \A k \in 1..n : b[k] = m[k]
    BY <2>1, <2>2, Zenon
  <2> HIDE DEF b
  <2> QED BY <1>1, <2>3
<1> HIDE DEF b
<1>5. trim = TrimLeft(b, 1, n, left)
  <2> DEFINE t == TrimLeft(b, 1, n, left)
  <2>1. \/ t = n + 1 /\ \A k \in 1..n : b[k] \in left
        \/ t \in 1..n /\ b[t] \notin left /\ \A k \in 1..n : k < t => b[k] \in left
    BY <1>1, TrimLeftFinds, Zenon
  <2>2. \/ trim = n + 1 /\ \A k \in 1..n : m[k] \in left
        \/ trim \in 1..n /\ m[trim] \notin left /\ \A k \in 1..n : k < trim => m[k] \in left
    BY <1>1, TrimLeftFinds, Zenon
  <2> HIDE DEF t, trim
  <2>3. \A k \in 1..n : b[k] \in left <=> m[k] \in left
    BY <1>4, Zenon
  <2>4. t = trim
    BY <1>1, <2>1, <2>2, <2>3, SMTT(30)
  <2> QED BY <2>4, Zenon DEF t
<1> HIDE DEF trim, end
<1>6. /\ trim = n + 1 => l = << >> /\ best = << >>
      /\ trim # n + 1 => /\ trim \in 1..n /\ end \in trim..n
                         /\ \E last \in trim..end : CutTo(l, b, n, trim, end, last)
  <2>1. n \in 0..Len(b)
    BY <1>1, <1>4
  <2>2. trim = n + 1 => best = << >>
    BY BestLabelIs DEF m, n, trim, end, best
  <2>3. end = trim + min(n + 1 - trim, maxlen) - 1
    BY Zenon DEF end
  <2> QED
    BY <1>2, <1>4, <1>5, <2>1, <2>2, <2>3, TrimCutParts, SMTT(30)
<1>7. CASE trim = n + 1
  <2>1. l = << >> /\ best = << >> /\ Len(l) = 0
    BY <1>6, <1>7, Zenon
  <2> QED BY <1>0, <2>1 DEF CleanLabel, l, best
<1>8. CASE trim # n + 1
  <2>1. /\ trim \in 1..n /\ end \in trim..n
        /\ end - trim < maxlen /\ (end < n => end = trim + maxlen - 1)
    BY <1>1, <1>6, <1>8, SMTT(30) DEF end, min
  <2>2. PICK last \in trim..end : CutTo(l, b, n, trim, end, last)
    BY <1>6, <1>8, Zenon
  <2>3. last \in 1..n /\ end \in 1..n /\ last <= end /\ \A k \in trim..end : k \in 1..n
    BY <1>1, <2>1
  <2>4. m[last] # "-" /\ \A k \in trim..end : k > last => m[k] = "-"
    BY <1>4, <2>2, <2>3, Zenon DEF CutTo
  <2>5. best = SubSeq(m, trim, last)
    BY <1>8, <2>2, <2>4, BestLabelIs, SMTT(30) DEF m, n, trim, end, best
  <2>6. SubSeq(b, trim, last) = SubSeq(m, trim, last)
    <3>1. /\ trim \in Nat \ {0} /\ last \in Nat /\ last <= Len(b) /\ last <= Len(m)
          /\ \A k \in trim..last : k \in 1..n
      BY <1>1, <1>4, <2>1, <2>3 DEF n
    <3>2. \A k \in trim..last : b[k] = m[k]
      BY <1>4, <3>1, Zenon
    <3> QED BY <1>1, <1>4, <3>1, <3>2, SameStretch, SMTT(30)
  <2>7. ASSUME ~CutOnDash(name, maxlen, left) PROVE l = best /\ l \in Seq(Chars)
    <3>1. last = end \/ \A k \in end + 1..n : b[k] = "-"
      <4>1. SUFFICES ASSUME last # end, NEW k \in end + 1..n, b[k] # "-" PROVE FALSE
        BY Zenon
      <4>2. end < n /\ end = trim + maxlen - 1 /\ k \in 1..n /\ end > last /\ end \in trim..end
        BY <1>1, <2>1, <2>3, <4>1
      <4>3. m[end] = "-" /\ m[k] # "-"
        BY <1>4, <2>4, <4>1, <4>2, Zenon
      <4> QED BY <1>3, <2>7, <4>2, <4>3, Zenon
    <3>2. SubSeq(m, trim, last) \in Seq(Chars)
      <4>1. \A k \in trim..last : m[k] \in Chars
        BY <1>1, <2>1, <2>3 DEF n
      <4> QED BY <1>1, <2>1, <2>3, <4>1, SMTT(30)
    <3> QED BY <2>2, <2>5, <2>6, <3>1, <3>2, Zenon DEF CutTo
  <2>8. /\ SubSeq(b, trim, last) \in Seq(Chars \cup {NUL})
        /\ Len(SubSeq(b, trim, last)) = last - trim + 1
        /\ SubSeq(b, trim, last)[1] = b[trim]
    <3>1. \A k \in trim..last : b[k] \in Chars \cup {NUL}
      BY <1>1, <1>4, <2>1, <2>3
    <3> QED BY <1>1, <2>1, <2>3, <3>1, SMTT(30)
  <2>9. b[trim] \notin left
    BY <1>1, <1>5, <1>8, TrimLeftFinds, Zenon
  <2>10. CASE l = SubSeq(b, trim, last)
    <3>1. Len(l) <= maxlen /\ l[1] \notin left
      BY <1>1, <2>1, <2>3, <2>8, <2>9, <2>10, SMTT(30)
    <3> QED BY <2>7, <3>1, Zenon DEF CleanLabel, l, best
  <2>11. CASE l = Panic
    BY <2>7, <2>11, Zenon DEF CleanLabel, l, best
  <2>12. ASSUME NEW tail \in end + 1..n, tail + (end - last) - 1 <= Len(b),
                l = SubSeq(b, trim, last) \o SubSeq(b, tail, tail + (end - last) - 1)
         PROVE  /\ CleanLabel(name, maxlen, left)
                /\ ~CutOnDash(name, maxlen, left) => l \in Seq(Chars)
    <3> DEFINE more == SubSeq(b, tail, tail + (end - last) - 1)
    <3>1. \A k \in tail..tail + (end - last) - 1 : b[k] \in Chars \cup {NUL}
      <4> DEFINE to == tail + (end - last) - 1
      <4>0. Len(b) \in Nat /\ tail \in Nat /\ tail >= 1 /\ to \in Int
        BY <1>1, <1>4, <2>1, <2>3
      <4>1. to <= Len(b)
        BY <2>12, Zenon
      <4> HIDE DEF to
      <4>2. \A k \in tail..to : k \in 1..Len(b)
        BY <4>0, <4>1
      <4> QED BY <1>4, <4>2 DEF to
    <3>2. more \in Seq(Chars \cup {NUL}) /\ Len(more) = end - last
      BY <1>1, <2>1, <2>3, <3>1, SMTT(30)
    <3> HIDE DEF more
    <3>3. Len(l) = (last - trim + 1) + (end - last) /\ l[1] = b[trim]
      BY <1>1, <2>1, <2>3, <2>8, <2>12, <3>2, SMTT(30) DEF more
    <3>4. Len(l) <= maxlen /\ l[1] \notin left
      BY <1>1, <2>1, <2>3, <2>9, <3>3
    <3> QED BY <2>7, <3>4, Zenon DEF CleanLabel, l, best
  <2> QED
    BY <2>2, <2>10, <2>11, <2>12, Zenon DEF CutTo, l
<1> QED
  BY <1>7, <1>8, Zenon

-----------------------------------------------------------------------------
(* Split *)

\* The recursive function inside Split.
SplitDef(s, sep, f, n) ==
  f = [k \in 0..n |-> IF k = 0 THEN << << >> >>
                      ELSE IF s[k] = sep THEN Append(f[k-1], << >>)
                      ELSE [f[k-1] EXCEPT ![Len(f[k-1])] = Append(@, s[k])]]

\* It exists for every prefix of the name.
LEMMA SplitExists ==
  ASSUME NEW S, NEW s \in Seq(S), NEW sep
  PROVE  \A n \in 0..Len(s) : \E f : SplitDef(s, sep, f, n)
<1> DEFINE Bad == {n \in 0..Len(s) : ~ \E f : SplitDef(s, sep, f, n)}
           one == << << >> >>
           step(p, c) == IF c = sep THEN Append(p, << >>)
                         ELSE [p EXCEPT ![Len(p)] = Append(@, c)]
<1>1. SUFFICES ASSUME Bad # {} PROVE FALSE
  BY Zenon
<1>2. PICK n \in Bad : \A o \in Bad : n <= o
  <2>1. Bad \in SUBSET Nat
    OBVIOUS
  <2> HIDE DEF Bad
  <2> QED BY <1>1, <2>1, NatLeast
<1>3. n \in 0..Len(s) /\ Len(s) \in Nat
  OBVIOUS
<1>0. \A f, o : SplitDef(s, sep, f, o) <=>
        f = [k \in 0..o |-> IF k = 0 THEN one ELSE step(f[k-1], s[k])]
  BY Zenon DEF SplitDef
<1> HIDE DEF step, one
<1>4. n # 0
  <2>1. SUFFICES ASSUME n = 0 PROVE FALSE
    BY Zenon
  <2>2. SplitDef(s, sep, [k \in 0..0 |-> one], 0)
    <3> DEFINE z == [k \in 0..0 |-> one]
    <3>1. z = [k \in 0..0 |-> IF k = 0 THEN one ELSE step(z[k-1], s[k])]
      <4>1. \A k \in 0..0 : k = 0
        OBVIOUS
      <4> QED BY <4>1, Zenon
    <3> HIDE DEF z
    <3>2. SplitDef(s, sep, z, 0)
      BY <1>0, <3>1, Zenon
    <3> QED BY <3>2, Zenon DEF z
  <2> QED BY <2>1, <2>2, Zenon
<1>5. n-1 \in 0..Len(s) /\ n-1 \notin Bad
  BY <1>2, <1>3, <1>4
<1>6. PICK f : SplitDef(s, sep, f, n-1)
  BY <1>5, Zenon
<1> DEFINE g == [k \in 0..n |-> IF k = n THEN step(f[n-1], s[n]) ELSE f[k]]
<1>7. SplitDef(s, sep, g, n)
  <2>1. \A k \in 0..n : k # 0 => k-1 \in 0..n /\ k-1 # n
    BY <1>3
  <2>2. \A k \in 0..n : k # 0 => g[k-1] = f[k-1]
    BY <2>1, Zenon
  <2>3. \A k \in 0..(n-1) : f[k] = IF k = 0 THEN one ELSE step(f[k-1], s[k])
    <3>1. f = [k \in 0..(n-1) |-> IF k = 0 THEN one ELSE step(f[k-1], s[k])]
      BY <1>0, <1>6, Zenon
    <3> QED BY <3>1, Zenon
  <2>4. \A k \in 0..n : k # n => k \in 0..(n-1)
    BY <1>3
  <2>5. \A k \in 0..n : g[k] = IF k = 0 THEN one ELSE step(g[k-1], s[k])
    BY <1>4, <2>2, <2>3, <2>4, Zenon
  <2>6. g = [k \in 0..n |-> IF k = 0 THEN one ELSE step(g[k-1], s[k])]
    <3> HIDE DEF g
    <3>1. g = [k \in 0..n |-> g[k]]
      BY Zenon DEF g
    <3> QED BY <2>5, <3>1, Zenon
  <2> QED BY <1>0, <2>6, Zenon
<1> QED
  BY <1>2, <1>7, Zenon

\* The parts of a name are made of its characters.
LEMMA SplitParts ==
  ASSUME NEW S, NEW s \in Seq(S), NEW sep
  PROVE  Split(s, sep) \in Seq(Seq(S))
<1> DEFINE n == Len(s)
           F == CHOOSE f : SplitDef(s, sep, f, n)
           one == << << >> >>
           OK(p) == p \in Seq(Seq(S)) /\ Len(p) >= 1
           Bad == {k \in 0..n : ~OK(F[k])}
<1>1. n \in Nat /\ \A k \in 1..n : s[k] \in S
  OBVIOUS
<1>2. SplitDef(s, sep, F, n)
  <2>1. n \in 0..Len(s)
    BY <1>1
  <2>2. \E f : SplitDef(s, sep, f, n)
    BY <2>1, SplitExists, Zenon
  <2> QED BY <2>2, Zenon
<1>3. Split(s, sep) = F[n]
  BY Zenon DEF Split, SplitDef
<1>0. one \in Seq(Seq(S)) /\ Len(one) >= 1
  OBVIOUS
<1> HIDE DEF F, n
<1>4. \A k \in 0..n : F[k] = IF k = 0 THEN one
                      ELSE IF s[k] = sep THEN Append(F[k-1], << >>)
                      ELSE [F[k-1] EXCEPT ![Len(F[k-1])] = Append(@, s[k])]
  BY <1>2, Zenon DEF SplitDef
<1> HIDE DEF one
<1>5. ASSUME NEW k \in Bad, \A o \in Bad : k <= o PROVE FALSE
  <2>1. CASE k = 0
    <3>1. 0 \in 0..n
      BY <1>1
    <3>2. F[0] = one
      BY <1>4, <3>1, Zenon
    <3>3. OK(F[k])
      BY <1>0, <2>1, <3>2, Zenon
    <3> QED BY <3>3, Zenon
  <2>2. CASE k # 0
    <3>1. k-1 \in 0..n /\ k-1 \notin Bad /\ k \in 1..n
      BY <1>1, <1>5, <2>2
    <3> DEFINE p == F[k-1]
    <3>2. p \in Seq(Seq(S)) /\ Len(p) >= 1 /\ Len(p) \in Nat /\ Len(p) \in DOMAIN p
      BY <3>1
    <3>3. F[k] = IF s[k] = sep THEN Append(p, << >>) ELSE [p EXCEPT ![Len(p)] = Append(@, s[k])]
      BY <1>4, <2>2, <3>1, Zenon
    <3> HIDE DEF p
    <3>4. OK(Append(p, << >>))
      <4>1. << >> \in Seq(S)
        OBVIOUS
      <4> QED BY <3>2, <4>1
    <3>5. OK([p EXCEPT ![Len(p)] = Append(@, s[k])])
      <4>1. Append(p[Len(p)], s[k]) \in Seq(S)
        BY <1>1, <3>1, <3>2
      <4> DEFINE c == Append(p[Len(p)], s[k])
      <4> HIDE DEF c
      <4>2. [p EXCEPT ![Len(p)] = c] \in Seq(Seq(S)) /\ Len([p EXCEPT ![Len(p)] = c]) = Len(p)
        BY <3>2, <4>1 DEF c
      <4> QED BY <3>2, <4>2, Zenon DEF c
    <3>6. OK(F[k])
      BY <3>3, <3>4, <3>5, Zenon
    <3> QED BY <3>6
  <2> QED BY <2>1, <2>2, Zenon
<1>6. Bad = {}
  <2>1. Bad \in SUBSET Nat
    BY <1>1
  <2> HIDE DEF Bad
  <2> QED BY <1>5, <2>1, NatLeast, Zenon
<1> QED
  BY <1>1, <1>3, <1>6


-----------------------------------------------------------------------------
(* Panics *)

\* The label function ParseState picks panics only on a name that is cut on a dash.
LEMMA LabelPanics ==
  ASSUME NEW rfc952 \in BOOLEAN, NEW name \in Seq(Chars), hostSpecOf(rfc952, name) = Panic
  PROVE  CutOnDash(name, IF rfc952 THEN MaxRFC952 ELSE MaxRFC1123,
                   IF rfc952 THEN Digits \cup {"-"} ELSE {"-"})
<1> DEFINE maxlen == IF rfc952 THEN MaxRFC952 ELSE MaxRFC1123
           left == IF rfc952 THEN Digits \cup {"-"} ELSE {"-"}
<1>1. hostSpecOf(rfc952, name) = label(name, maxlen, left, {"-"})
  BY Zenon DEF hostSpecOf, RFC952, RFC1123
<1>2. maxlen \in Nat \ {0} /\ "-" \in left
  BY LabelsAssumption, Zenon
<1>3. \A x \in Seq(Chars) : x # Panic
  <2>1. \A x \in Seq(Chars) : x \in Seq(STRING)
    BY LabelsAssumption
  <2> QED BY <2>1, LabelsAssumption, Zenon
<1> HIDE DEF maxlen, left
<1>4. ~CutOnDash(name, maxlen, left) => label(name, maxlen, left, {"-"}) \in Seq(Chars)
  BY <1>2, EveryLabelClean, Zenon
<1>5. CutOnDash(name, maxlen, left)
  BY <1>1, <1>3, <1>4, Zenon
<1> QED
  BY <1>5, Zenon DEF maxlen, left

-----------------------------------------------------------------------------
(* Labels, and what makes InsertState panic *)

\* LabelsClean: whatever names and lengths it is stated for.
THEOREM LabelsAlwaysClean == Spec => []LabelsClean
<1>1. LabelsClean
  <2>1. \A n \in Names : n \in Seq(Chars)
    BY MangledAssumption, Zenon
  <2>2. \A k \in MaxLens : k \in Nat \ {0}
    BY MangledAssumption, Zenon
  <2>3. "-" \in leftCutset
    BY Zenon DEF leftCutset
  <2>4. \A n \in Names, k \in MaxLens : CleanLabel(n, k, leftCutset)
    BY <2>1, <2>2, <2>3, EveryLabelClean, Zenon
  <2> QED
    BY <2>4, Zenon DEF LabelsClean
<1> QED
  BY <1>1, PTL

\* hostSpec panics only on a name that is cut on a dash.
LEMMA SpecPanics ==
  ASSUME EnforceRFC952 \in BOOLEAN, NEW name \in Seq(Chars),
         hostSpecOf(EnforceRFC952, name) = Panic
  PROVE  Cut(name)
BY LabelPanics, Zenon DEF Cut, leftCutset

PanicInv ==
  /\ EnforceRFC952 \in BOOLEAN
  /\ at \in (Nat \ {0}) \X (Nat \ {0})
  /\ pc # "ParseState" => sj \in States /\ hostSpec = Mangled[EnforceRFC952]
  /\ PanicsOnCutOnDash

\* Neither the names of a state.json nor the rule for labels are changed.
LEMMA SameCut ==
  ASSUME UNCHANGED <<sj, EnforceRFC952>>
  PROVE  CutSomewhere' <=> CutSomewhere
BY DEF CutSomewhere, CutPart, Cut, leftCutset

\* The label of a name is a panic only if the name is cut on a dash.
LEMMA NamePanics ==
  ASSUME EnforceRFC952 \in BOOLEAN, hostSpec = Mangled[EnforceRFC952],
         NEW n \in DOMAIN Spelling, spec(n) = Panic
  PROVE  Cut(Spelling[n])
<1>1. Spelling[n] \in Seq(Chars)
  BY MangledAssumption, Zenon
<1>2. hostSpecOf(EnforceRFC952, Spelling[n]) # Panic => Mangled[EnforceRFC952][n].label \in STRING
  BY MangledAssumption, Zenon
<1>3. Panic \notin STRING
  BY LabelsAssumption, Zenon
<1>4. Mangled[EnforceRFC952][n].label = Panic
  BY Zenon DEF spec
<1> QED
  BY <1>1, <1>2, <1>3, <1>4, SpecPanics, Zenon

\* The labels of a name are a panic only if a part of the name is cut on a dash.
LEMMA PartPanics ==
  ASSUME EnforceRFC952 \in BOOLEAN, hostSpec = Mangled[EnforceRFC952],
         NEW n \in DOMAIN Spelling, DomainFrag(n) = Panic
  PROVE  CutPart(n)
<1>1. Spelling[n] \in Seq(Chars)
  BY MangledAssumption, Zenon
<1>2. (\A p \in Elems(Split(Spelling[n], ".")) : hostSpecOf(EnforceRFC952, p) # Panic)
        => Mangled[EnforceRFC952][n].frag \in Seq(STRING)
  BY MangledAssumption, Zenon
<1>3. Panic \notin Seq(STRING)
  BY LabelsAssumption, Zenon
<1>4. <<"">> # Panic
  BY MangledAssumption, Zenon
<1>5. Mangled[EnforceRFC952][n].frag = Panic
  BY <1>4, Zenon DEF DomainFrag
<1>6. PICK p \in Elems(Split(Spelling[n], ".")) : hostSpecOf(EnforceRFC952, p) = Panic
  BY <1>2, <1>3, <1>5, Zenon
<1>7. p \in Seq(Chars)
  <2>1. Split(Spelling[n], ".") \in Seq(Seq(Chars))
    BY <1>1, SplitParts, Zenon
  <2> QED BY <2>1 DEF Elems
<1> QED
  BY <1>6, <1>7, SpecPanics, Zenon DEF CutPart

LEMMA InitPanic == Init => PanicInv
BY DEF Init, PanicInv, PanicsOnCutOnDash

\* A step that goes on leaves the invariant, whatever it does to the records.
LEMMA GoesOn ==
  ASSUME PanicInv, UNCHANGED inputs, pc # "ParseState", pc' # "panic",
         at' \in (Nat \ {0}) \X (Nat \ {0})
  PROVE  PanicInv'
BY Zenon DEF PanicInv, PanicsOnCutOnDash, inputs

\* A crash needs a name that is cut.
LEMMA Crashes ==
  ASSUME PanicInv, pc # "ParseState", Crash, CutSomewhere
  PROVE  PanicInv'
<1>1. UNCHANGED <<sj, EnforceRFC952, hostSpec, at>>
  BY Zenon DEF Crash, inputs
<1>2. PanicsOnCutOnDash'
  BY <1>1, SameCut, Zenon DEF PanicsOnCutOnDash
<1> QED
  BY <1>1, <1>2, Zenon DEF PanicInv

\* Each step of InsertState keeps it; one per action that can panic.
LEMMA NextPanic == PanicInv /\ [Next]_vars => PanicInv'
<1> SUFFICES ASSUME PanicInv, [Next]_vars PROVE PanicInv'
  BY Zenon
<1>1. CASE ParseState
  <2>1. /\ sj' \in States /\ hostSpec' = Mangled[EnforceRFC952]
        /\ pc' = "frameworks" /\ UNCHANGED <<EnforceRFC952, at>>
    BY <1>1, Zenon DEF ParseState
  <2> QED
    BY <2>1, Zenon DEF PanicInv, PanicsOnCutOnDash
<1>0. pc # "ParseState" => /\ sj \in States /\ hostSpec = Mangled[EnforceRFC952]
                           /\ EnforceRFC952 \in BOOLEAN
                           /\ at \in (Nat \ {0}) \X (Nat \ {0})
  BY Zenon DEF PanicInv
<1>2. CASE frameworkRecords
  <2>0. pc = "frameworks"
    BY <1>2, Zenon DEF frameworkRecords
  <2>1. CASE \E f \in Elems(sj.Frameworks) : DomainFrag(f.Name) = Panic
    <3>1. PICK f \in Elems(sj.Frameworks) : DomainFrag(f.Name) = Panic
      BY <2>1, Zenon
    <3>2. f.Name \in DOMAIN Spelling
      BY <1>0, <2>0, <3>1, MangledAssumption, Zenon
    <3>3. CutPart(f.Name)
      BY <1>0, <2>0, <3>1, <3>2, PartPanics
    <3>4. Crash
      BY <1>2, <2>1, Zenon DEF frameworkRecords
    <3>5. CutSomewhere
      BY <3>3, Zenon DEF CutSomewhere
    <3> QED BY <2>0, <3>4, <3>5, Crashes
  <2>2. CASE ~ \E f \in Elems(sj.Frameworks) : DomainFrag(f.Name) = Panic
    <3>1. pc' = "slaves" /\ UNCHANGED <<inputs, at>>
      BY <1>2, <2>2, Zenon DEF frameworkRecords
    <3> QED BY <1>0, <2>0, <3>1, GoesOn, Zenon
  <2> QED BY <2>1, <2>2
<1>3. CASE slaveRecords
  <2>0. pc = "slaves"
    BY <1>3, Zenon DEF slaveRecords
  <2> DEFINE ok == {s \in Elems(sj.Slaves) : hostToIP4[s.Host] # ""}
  <2>1. CASE \E s \in Elems(sj.Slaves) \ ok : DomainFrag(s.Host) = Panic
    <3>1. PICK s \in Elems(sj.Slaves) : DomainFrag(s.Host) = Panic
      BY <2>1, Zenon
    <3>2. s.Host \in DOMAIN Spelling
      BY <1>0, <2>0, <3>1, MangledAssumption, ZenonT(40)
    <3>3. CutPart(s.Host)
      BY <1>0, <2>0, <3>1, <3>2, PartPanics, Zenon
    <3>4. Crash
      BY <1>3, <2>1, Zenon DEF slaveRecords
    <3>5. CutSomewhere
      BY <3>3, Zenon DEF CutSomewhere
    <3> QED BY <2>0, <3>4, <3>5, Crashes, Zenon
  <2>2. CASE ~ \E s \in Elems(sj.Slaves) \ ok : DomainFrag(s.Host) = Panic
    <3>1. pc' = "leader" /\ UNCHANGED <<inputs, at>>
      BY <1>3, <2>2, Zenon DEF slaveRecords
    <3> QED BY <1>0, <2>0, <3>1, GoesOn, Zenon
  <2> QED BY <2>1, <2>2, Zenon
<1>4. CASE leaderRecord \/ masterRecord \/ unlistedLeader
  <2>1. /\ pc \in {"leader", "masters"} /\ pc' \in {"masters", "tasks"}
        /\ UNCHANGED <<inputs, at>>
    BY <1>4, Zenon DEF leaderRecord, masterRecord, unlistedLeader
  <2> QED BY <1>0, <2>1, GoesOn, Zenon
<1>5. CASE taskRecord
  <2> DEFINE f == sj.Frameworks[at[1]]
             t == f.Tasks[at[2]]
  <2>0. pc = "tasks" /\ at[1] <= Len(sj.Frameworks) /\ at[2] <= Len(f.Tasks)
    BY <1>5, Zenon DEF taskRecord
  <2>1. f \in Elems(sj.Frameworks) /\ t \in Elems(f.Tasks)
    <3>1. at[1] \in Nat \ {0} /\ at[2] \in Nat \ {0}
      BY <1>0, <2>0, Zenon
    <3>2. sj.Frameworks \in Seq(Elems(sj.Frameworks))
      BY <1>0, <2>0, RecordsAssumption, Zenon
    <3>3. f \in Elems(sj.Frameworks)
      BY <2>0, <3>1, <3>2, SMTT(30) DEF Elems
    <3>4. f.Tasks \in Seq(Elems(f.Tasks))
      BY <1>0, <2>0, <3>3, RecordsAssumption, Zenon
    <3> HIDE DEF f
    <3>5. t \in Elems(f.Tasks)
      BY <2>0, <3>1, <3>4 DEF Elems
    <3> QED BY <3>3, <3>5, Zenon
  <2>2. CASE Discoverable(t) /\ \E n \in TaskNames(t) : spec(n) = Panic
    <3>1. PICK n \in TaskNames(t) : spec(n) = Panic
      BY <2>2, Zenon
    <3>4. Crash
      BY <1>5, <2>2, Zenon DEF taskRecord
    <3> HIDE DEF f, t
    <3>2. n \in DOMAIN Spelling
      BY <1>0, <2>0, <2>1, <3>1, MangledAssumption, ZenonT(40)
    <3>3. Cut(Spelling[n])
      BY <1>0, <2>0, <3>1, <3>2, NamePanics
    <3>5. CutSomewhere
      BY <2>1, <3>3, Zenon DEF CutSomewhere
    <3> QED BY <2>0, <3>4, <3>5, Crashes, Zenon
  <2>3. CASE ~(Discoverable(t) /\ \E n \in TaskNames(t) : spec(n) = Panic)
    <3>1. /\ pc' = pc /\ UNCHANGED inputs /\ at' = <<at[1], at[2] + 1>>
      BY <1>5, <2>3, Zenon DEF taskRecord
    <3>2. at' \in (Nat \ {0}) \X (Nat \ {0})
      BY <1>0, <2>0, <3>1
    <3> QED BY <2>0, <3>1, <3>2, GoesOn, Zenon
  <2> QED BY <2>2, <2>3, Zenon
<1>6. CASE taskRecords
  <2>1. /\ pc = "tasks" /\ pc' \in {"tasks", "done"} /\ UNCHANGED inputs
        /\ at' = at \/ at' = <<at[1] + 1, 1>>
    BY <1>6, Zenon DEF taskRecords
  <2>2. at' \in (Nat \ {0}) \X (Nat \ {0})
    BY <1>0, <2>1
  <2> QED BY <2>1, <2>2, GoesOn, Zenon
<1>7. CASE UNCHANGED vars
  <2>1. UNCHANGED <<pc, sj, EnforceRFC952, hostSpec, at>>
    BY <1>7, Zenon DEF vars, inputs
  <2>2. PanicsOnCutOnDash'
    BY <2>1, SameCut, Zenon DEF PanicInv, PanicsOnCutOnDash
  <2> QED BY <2>1, <2>2, Zenon DEF PanicInv
<1> QED
  BY <1>1, <1>2, <1>3, <1>4, <1>5, <1>6, <1>7, SMTT(30) DEF Next

\* PanicsOnCutOnDash: for every state.json, InsertState goes through unless
\* some name in it is cut on a dash.
THEOREM PanicsOnlyOnCutOnDash == Spec => []PanicsOnCutOnDash
<1>1. PanicInv => PanicsOnCutOnDash
  BY Zenon DEF PanicInv
<1> QED
  BY <1>1, InitPanic, NextPanic, PTL DEF Spec
=============================================================================
