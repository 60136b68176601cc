--------------------------- MODULE DetectorProofs ---------------------------
(* Type correctness of Detector, the shape of every list of masters, and     *)
(* that no list is lost on its way to the main loop, for every number of     *)
(* masters, znodes and faults and for every configuration.                   *)
EXTENDS Detector, TLAPS

-----------------------------------------------------------------------------
(* Filter.  The library's induction theorems take an operator parameter; the  *)
(* induction here goes through the least counterexample instead.              *)

LOCAL INSTANCE WellFoundedInduction

\* Every nonempty set of natural numbers has a least element.
LEMMA NatLeast ==
  ASSUME NEW T \in SUBSET Nat, T # {}
  PROVE  \E n \in T : \A m \in T : n <= m
<1>1. IsWellFoundedOn(OpToRel(<, Nat), Nat)
  BY NatLessThanWellFounded, Zenon
<1>2. PICK n \in T : \A m \in T : ~(<<m, n>> \in OpToRel(<, Nat))
  BY <1>1, WFMin, Zenon
<1>3. \A m \in T : ~(m < n)
  BY <1>2, Zenon DEF OpToRel
<1> QED
  BY <1>3

\* The recursive function inside Filter.
FilterDef(s, T, f, k) ==
  f = [i \in 0..k |-> IF i = 0 THEN << >>
                      ELSE IF s[i] \in T THEN Append(f[i-1], s[i]) ELSE f[i-1]]

\* A function that satisfies the recursive equation of Filter exists for every
\* prefix of the sequence, and its values are sequences over S \cap T that are
\* no longer than the prefix.
LEMMA FilterExists ==
  ASSUME NEW S, NEW s \in Seq(S), NEW T
  PROVE  \A k \in 0..Len(s) : \E f : FilterDef(s, T, f, k)
<1> DEFINE Bad == {k \in 0..Len(s) : ~ \E f : FilterDef(s, T, f, k)}
<1>1. SUFFICES ASSUME Bad # {} PROVE FALSE
  BY Zenon
<1>2. PICK k \in Bad : \A m \in Bad : k <= m
  <2>1. Bad \in SUBSET Nat
    OBVIOUS
  <2> HIDE DEF Bad
  <2> QED BY <1>1, <2>1, NatLeast, Zenon
<1>3. k \in 0..Len(s) /\ Len(s) \in Nat
  OBVIOUS
<1>4. k # 0
  <2>1. SUFFICES ASSUME k = 0 PROVE FALSE
    BY Zenon
  <2>2. FilterDef(s, T, [i \in 0..0 |-> << >>], 0)
    BY DEF FilterDef
  <2> QED BY <2>1, <2>2, Zenon
<1>5. k-1 \in 0..Len(s) /\ k-1 \notin Bad
  BY <1>2, <1>3, <1>4
<1>6. PICK f : FilterDef(s, T, f, k-1)
  BY <1>5, Zenon
<1> DEFINE g == [i \in 0..k |-> IF i = k THEN IF s[k] \in T THEN Append(f[k-1], s[k])
                                                          ELSE f[k-1]
                                ELSE f[i]]
<1>7. FilterDef(s, T, g, k)
  <2>1. \A i \in 0..k : i # 0 => i-1 \in 0..k /\ i-1 # k
    BY <1>3
  <2>2. \A i \in 0..k : i # 0 => g[i-1] = f[i-1]
    BY <2>1, Zenon
  <2>3. \A i \in 0..(k-1) : f[i] = IF i = 0 THEN << >>
                   ELSE IF s[i] \in T THEN Append(f[i-1], s[i]) ELSE f[i-1]
    BY <1>6, Zenon DEF FilterDef
  <2>4. \A i \in 0..k : g[i] = IF i = 0 THEN << >>
                   ELSE IF s[i] \in T THEN Append(g[i-1], s[i]) ELSE g[i-1]
    <3>1. TAKE i \in 0..k
    <3>2. CASE i = k
      BY <3>2, <2>2, <1>4, Zenon
    <3>3. CASE i # k
      <4>1. i \in 0..(k-1) /\ g[i] = f[i]
        BY <3>3, <1>3
      <4> QED BY <4>1, <2>2, <2>3, Zenon
    <3> QED BY <3>2, <3>3, Zenon
  <2>5. g = [i \in 0..k |-> g[i]]
    BY Zenon
  <2> HIDE DEF g
  <2> QED BY <2>4, <2>5, Zenon DEF FilterDef
<1> QED BY <1>7, Zenon

\* A property of the prefixes of s that Filter's partial results have: a
\* sequence over S \cap T, not longer than the prefix, in which every element
\* of the prefix that lies in T occurs.
PrefixOK(S, T, s, i, out) ==
  /\ out \in Seq(S \cap T)
  /\ Len(out) <= i
  /\ \A j \in 1..i : s[j] \in T => \E k \in 1..Len(out) : out[k] = s[j]

\* Filter keeps exactly the elements of T: its result is a sequence over
\* S \cap T, no longer than s, that contains every element of s in T.
THEOREM FilterProperties ==
  ASSUME NEW S, NEW s \in Seq(S), NEW T
  PROVE  /\ Filter(s, T) \in Seq(S \cap T)
         /\ Len(Filter(s, T)) <= Len(s)
         /\ \A j \in 1..Len(s) : s[j] \in T =>
               \E k \in 1..Len(Filter(s, T)) : Filter(s, T)[k] = s[j]
<1> DEFINE F == CHOOSE f : FilterDef(s, T, f, Len(s))
           n == Len(s)
           Bad == {i \in 0..n : ~ PrefixOK(S, T, s, i, F[i])}
<1>1. n \in Nat /\ \A i \in 1..n : s[i] \in S
  OBVIOUS
<1>2. FilterDef(s, T, F, n)
  <2>1. \A k \in 0..Len(s) : \E f : FilterDef(s, T, f, k)
    BY FilterExists, Zenon
  <2>2. n \in 0..Len(s)
    BY <1>1
  <2>3. \E f : FilterDef(s, T, f, n)
    BY <2>1, <2>2, Zenon
  <2> QED BY <2>3, Zenon
<1>3. Filter(s, T) = F[n]
  BY Zenon DEF Filter, FilterDef
<1> HIDE DEF F, n
<1>4. \A i \in 0..n : F[i] = IF i = 0 THEN << >>
                   ELSE IF s[i] \in T THEN Append(F[i-1], s[i]) ELSE F[i-1]
  BY <1>2, Zenon DEF FilterDef
<1>5. ASSUME NEW i \in Bad, \A m \in Bad : i <= m PROVE FALSE
  <2>1. CASE i = 0
    <3>1. F[0] = << >>
      BY <1>1, <1>4
    <3>2. << >> \in Seq(S \cap T) /\ Len(<< >>) = 0
      OBVIOUS
    <3>3. PrefixOK(S, T, s, 0, << >>)
      BY <3>2 DEF PrefixOK
    <3> QED BY <2>1, <3>1, <3>3, Zenon
  <2>2. CASE i # 0
    <3>1. i-1 \in 0..n /\ i-1 \notin Bad /\ i \in 1..n
      BY <1>1, <1>5, <2>2
    <3>2. PrefixOK(S, T, s, i-1, F[i-1])
      BY <3>1, Zenon
    <3> DEFINE out == F[i-1]
    <3>3. out \in Seq(S \cap T) /\ Len(out) <= i-1 /\ Len(out) \in Nat
      BY <3>2 DEF PrefixOK
    <3>4. \A j \in 1..(i-1) : s[j] \in T => \E k \in 1..Len(out) : out[k] = s[j]
      BY <3>2, Zenon DEF PrefixOK
    <3>5. F[i] = IF s[i] \in T THEN Append(out, s[i]) ELSE out
      BY <1>4, <3>1, <2>2, Zenon
    <3> HIDE DEF out
    <3>6. CASE s[i] \in T
      <4>1. s[i] \in S \cap T
        BY <1>1, <3>1, <3>6, Zenon
      <4> DEFINE r == Append(out, s[i])
      <4>2. /\ r \in Seq(S \cap T)
            /\ Len(r) = Len(out) + 1
            /\ r[Len(out) + 1] = s[i]
            /\ \A k \in 1..Len(out) : r[k] = out[k]
        BY <3>3, <4>1
      <4> HIDE DEF r
      <4>3. \A j \in 1..i : s[j] \in T => \E k \in 1..Len(r) : r[k] = s[j]
        <5>1. TAKE j \in 1..i
        <5>2. HAVE s[j] \in T
        <5>3. CASE j = i
          BY <5>3, <4>2, <3>3
        <5>4. CASE j # i
          <6>1. PICK k \in 1..Len(out) : out[k] = s[j]
            BY <5>2, <5>4, <3>4, <3>1
          <6> QED BY <6>1, <4>2, <3>3
        <5> QED BY <5>3, <5>4, Zenon
      <4>4. F[i] = r
        BY <3>5, <3>6, Zenon DEF r
      <4> QED BY <4>2, <4>3, <4>4, <3>1, <3>3, <1>5 DEF PrefixOK
    <3>7. CASE s[i] \notin T
      <4>1. F[i] = out
        BY <3>5, <3>7, Zenon
      <4>2. \A j \in 1..i : s[j] \in T => j \in 1..(i-1)
        BY <3>1, <3>7
      <4> QED BY <4>1, <4>2, <3>1, <3>3, <3>4, SMTT(40) DEF PrefixOK
    <3> QED BY <3>6, <3>7, Zenon
  <2> QED BY <2>1, <2>2, Zenon
<1>6. Bad = {}
  <2>1. Bad \in SUBSET Nat
    BY <1>1
  <2> HIDE DEF Bad
  <2> QED BY <1>5, <2>1, NatLeast, Zenon
<1>7. PrefixOK(S, T, s, n, F[n])
  BY <1>1, <1>6
<1> QED BY <1>3, <1>7, Zenon DEF PrefixOK, n

\* What the filtered sequence holds.
LEMMA FilterContents ==
  ASSUME NEW S, NEW s \in Seq(S), NEW T
  PROVE  {Filter(s, T)[k] : k \in 1..Len(Filter(s, T))} = {s[j] : j \in 1..Len(s)} \cap T
<1> DEFINE E == {s[j] : j \in 1..Len(s)}
<1>1. s \in Seq(E)
  OBVIOUS
<1> HIDE DEF E
<1>2. /\ Filter(s, T) \in Seq(E \cap T)
      /\ \A j \in 1..Len(s) : s[j] \in T =>
            \E k \in 1..Len(Filter(s, T)) : Filter(s, T)[k] = s[j]
  BY <1>1, FilterProperties
<1>3. PICK f : f = Filter(s, T)
  BY Zenon
<1>4. /\ \A k \in 1..Len(f) : f[k] \in E \cap T
      /\ \A j \in 1..Len(s) : s[j] \in T => \E k \in 1..Len(f) : f[k] = s[j]
  BY <1>2, <1>3
<1>5. {f[k] : k \in 1..Len(f)} = E \cap T
  BY <1>4, ZenonT(40) DEF E
<1> QED BY <1>3, <1>5, Zenon DEF E

-----------------------------------------------------------------------------
(* The lists of masters *)

\* selectTopNode yields a znode number or 0.
LEMMA TopNodeType ==
  ASSUME NEW nodes \in SUBSET NodeNum
  PROVE  TopNode(nodes) \in 0..MaxNode
<1>1. MaxNode \in Nat
  BY ConfigAssumption, Zenon
<1>2. CASE nodes = {}
  BY <1>1, <1>2 DEF TopNode
<1>3. CASE nodes # {}
  <2>1. nodes \in SUBSET Nat
    BY <1>1 DEF NodeNum
  <2>2. \E n \in nodes : \A m \in nodes : n <= m
    BY <2>1, <1>3, NatLeast, Zenon
  <2>3. TopNode(nodes) \in nodes
    BY <2>2, <1>3, Zenon DEF TopNode
  <2>4. TopNode(nodes) \in NodeNum
    BY <2>3, Zenon
  <2>5. \A n \in NodeNum : n \in 0..MaxNode
    BY <1>1 DEF NodeNum
  <2> QED BY <2>4, <2>5, Zenon
<1> QED BY <1>2, <1>3, Zenon

\* masterAddr yields an address or the empty string.
LEMMA masterAddrType ==
  ASSUME NEW info \in Info \cup {Nil}
  PROVE  masterAddr(info) \in MaybeAddr
BY Zenon DEF masterAddr, MaybeAddr, Info, Addr

\* ordered puts the leader first and builds a well-formed list from any
\* sequence.
LEMMA orderedOK ==
  ASSUME NEW leader \in MaybeAddr, NEW S, NEW ms \in Seq(S)
  PROVE  /\ ordered(leader, ms) \in Seq(MaybeAddr)
         /\ ordered(leader, ms) # << >>
         /\ WellFormed(ordered(leader, ms))
<1> DEFINE f == Filter(ms, Addr \ {leader})
<1>1. f \in Seq(S \cap (Addr \ {leader}))
  BY FilterProperties, Zenon
<1>2. ordered(leader, ms) = <<leader>> \o f
  BY Zenon DEF ordered
<1> HIDE DEF f
<1>3. f \in Seq(MaybeAddr) /\ Len(f) \in Nat
      /\ \A i \in 1..Len(f) : f[i] \in Addr /\ f[i] # leader
  BY <1>1 DEF MaybeAddr
<1>4. <<leader>> \in Seq(MaybeAddr) /\ Len(<<leader>>) = 1 /\ <<leader>>[1] = leader
  OBVIOUS
<1> DEFINE o == <<leader>> \o f
<1>5. /\ o \in Seq(MaybeAddr)
      /\ Len(o) = 1 + Len(f)
      /\ o[1] = leader
      /\ \A i \in 2..Len(o) : o[i] = f[i-1]
  BY <1>3, <1>4
<1>6. WellFormed(o)
  <2> HIDE DEF o
  <2>1. \A i \in 2..Len(o) : i-1 \in 1..Len(f)
    BY <1>3, <1>5
  <2> QED BY <1>3, <1>5, <2>1, Zenon DEF WellFormed
<1>7. o # << >>
  BY <1>3, <1>5
<1> QED BY <1>2, <1>5, <1>6, <1>7, Zenon

-----------------------------------------------------------------------------
\* The invariant: the three properties together are inductive.
DetectorInv == TypeOK /\ ListsWellFormed /\ NewestDelivered

\* What a step leaves to be shown about Masters.masters.
MastersOK(ms) == ms \in Seq(MaybeAddr) /\ ms # << >> /\ WellFormed(ms)

\* The callbacks keep Masters.masters well formed.
LEMMA OnMasterChangedOK ==
  ASSUME TypeOK, NEW info \in Info \cup {Nil}, OnMasterChanged(info)
  PROVE  MastersOK(masters')
<1>1. Tail(masters) \in Seq(MaybeAddr)
  BY DEF TypeOK
<1>2. masterAddr(info) \in MaybeAddr
  BY masterAddrType, Zenon
<1> QED BY <1>1, <1>2, orderedOK, Zenon DEF OnMasterChanged, MastersOK

\* So does the list UpdatedMasters makes, from whichever of the znodes could be
\* read.
LEMMA UpdatedMastersOK ==
  ASSUME TypeOK, NEW nodes \in SUBSET Live, NEW infos \in Listings(nodes),
         UpdatedMasters(infos)
  PROVE  MastersOK(masters')
<1> DEFINE read == {znodes[n] : n \in nodes}
           addrs == [k \in DOMAIN infos |-> masterAddr(infos[k])]
<1>1. read \subseteq Info
  BY Zenon DEF TypeOK, Live
<1>2. PICK k \in 0..Cardinality(nodes) : infos \in [1..k -> read]
  BY ZenonT(40) DEF Listings
<1>3. k \in Nat
  BY <1>2
<1>4. addrs \in Seq(MaybeAddr)
  <2>1. DOMAIN infos = 1..k /\ \A i \in 1..k : infos[i] \in Info \cup {Nil}
    BY <1>1, <1>2, Zenon
  <2>2. \A i \in 1..k : masterAddr(infos[i]) \in MaybeAddr
    BY <2>1, masterAddrType, Zenon
  <2>3. addrs \in [1..k -> MaybeAddr]
    BY <2>1, <2>2, Zenon
  <2> HIDE DEF addrs
  <2> QED BY <2>3, <1>3
<1> HIDE DEF addrs
<1>5. Filter(addrs, Addr) \in Seq(MaybeAddr \cap Addr)
  BY <1>4, FilterProperties, Zenon
<1>6. masters[1] \in MaybeAddr
  BY DEF TypeOK
<1>7. masters' = ordered(masters[1], Filter(addrs, Addr))
  BY Zenon DEF UpdatedMasters, addrs
<1> HIDE DEF read
<1> QED BY <1>5, <1>6, <1>7, orderedOK, Zenon DEF MastersOK

\* A receive empties a channel of capacity one.
LEMMA ChannelOfOne ==
  ASSUME NEW S, NEW ch \in Seq(S), Len(ch) <= 1, ch # << >>
  PROVE  Len(ch) = 1 /\ ch[1] \in S /\ Head(ch) = ch[1] /\ Tail(ch) = << >>
<1>1. Len(ch) = 1
  <2>1. Len(ch) \in Nat /\ Len(ch) # 0
    OBVIOUS
  <2>2. \A k \in Nat : k # 0 /\ k <= 1 => k = 1
    OBVIOUS
  <2> QED BY <2>1, <2>2, Zenon
<1>2. Tail(ch) \in Seq(S) /\ Len(Tail(ch)) = 0
  BY <1>1
<1>3. Tail(ch) = << >>
  BY <1>2
<1> QED BY <1>1, <1>3

\* The invariant holds initially.
LEMMA InitInv == Init => DetectorInv
<1> SUFFICES ASSUME Init PROVE DetectorInv
  BY Zenon
<1> USE ConfigAssumption
<1>1. /\ masters \in Seq(MaybeAddr) /\ masters # << >>
      /\ WellFormed(masters)
  <2>1. Configured \in Seq(MaybeAddr) /\ Len(Configured) \in Nat
        /\ \A i \in 1..Len(Configured) : Configured[i] \in Addr
    BY DEF MaybeAddr
  <2>2. <<NoAddr>> \in Seq(MaybeAddr) /\ Len(<<NoAddr>>) = 1 /\ <<NoAddr>>[1] = NoAddr
    BY DEF MaybeAddr
  <2> DEFINE o == <<NoAddr>> \o Configured
  <2>3. /\ o \in Seq(MaybeAddr)
        /\ Len(o) = 1 + Len(Configured)
        /\ o[1] = NoAddr
        /\ \A i \in 2..Len(o) : o[i] = Configured[i-1]
    BY <2>1, <2>2
  <2>4. masters = o
    BY Zenon DEF Init, NewMasters
  <2> HIDE DEF o
  <2>5. \A i \in 2..Len(o) : i-1 \in 1..Len(Configured)
    BY <2>1, <2>3
  <2>6. WellFormed(o)
    BY <2>1, <2>3, <2>5, SMTT(30) DEF WellFormed
  <2> QED BY <2>1, <2>3, <2>4, <2>6
<1>2. Configured \in Seq(MaybeAddr) /\ WellFormed(Configured)
  BY DEF MaybeAddr, WellFormed
<1>3. /\ changed \in Seq(Seq(MaybeAddr)) /\ Len(changed) <= 1
      /\ \A i \in 1..Len(changed) : WellFormed(changed[i])
  BY <1>2 DEF Init
<1>4. znodes \in [NodeNum -> Info \cup {Nil}]
  BY DEF Init, NodeNum
<1>5. /\ nextNode \in 1..(MaxNode + 1) /\ notify \in BOOLEAN
      /\ faults \in 0..MaxFaults /\ leaderNode \in 0..MaxNode
      /\ children \in SUBSET NodeNum
      /\ dpc \in {"off", "watch", "notifyMaster", "emitMaster", "notifyAll",
                  "emitAll", "emitLost"}
  BY DEF Init, NodeNum
<1>6. TypeOK
  BY <1>1, <1>2, <1>3, <1>4, <1>5, Zenon DEF TypeOK, Init
<1>7. ListsWellFormed
  BY <1>1, <1>2, <1>3, Zenon DEF ListsWellFormed, Init
<1>8. NewestDelivered
  BY Zenon DEF NewestDelivered, Init
<1> QED BY <1>6, <1>7, <1>8, Zenon DEF DetectorInv

\* Every step preserves the invariant.
LEMMA StepInv == DetectorInv /\ [Next]_vars => DetectorInv'
<1> SUFFICES ASSUME DetectorInv, [Next]_vars PROVE DetectorInv'
  BY Zenon
<1> USE ConfigAssumption
<1>0. TypeOK /\ ListsWellFormed /\ NewestDelivered
  BY Zenon DEF DetectorInv
<1>1. CASE ChildrenChanged
  BY <1>0, <1>1, Zenon DEF ChildrenChanged, DetectorInv, TypeOK, ListsWellFormed,
                    NewestDelivered, Live
<1>2. CASE notifyMasterChanged
  <2>1. CASE NotifySameLeader
    BY <1>0, <1>2, <2>1, Zenon DEF notifyMasterChanged, NotifySameLeader, DetectorInv, TypeOK,
                            ListsWellFormed, NewestDelivered
  <2>2. CASE NotifyNewLeader
    <3>1. TopNode(children) \in 0..MaxNode
      BY <1>0, TopNodeType, Zenon DEF TypeOK
    <3>2. MastersOK(masters') /\ faults' \in 0..MaxFaults
      <4>1. CASE TopNode(children) = 0
        BY <1>0, <2>2, <4>1, OnMasterChangedOK, Zenon DEF NotifyNewLeader, TypeOK
      <4>2. CASE TopNode(children) # 0
        <5>1. PICK info \in Info \cup {Nil} :
                ReadNode(TopNode(children), info) /\ OnMasterChanged(info)
          BY <2>2, <4>2, Zenon DEF NotifyNewLeader
        <5>2. faults' \in 0..MaxFaults
          BY <1>0, <5>1, SMTT(30) DEF ReadNode, TypeOK
        <5> QED BY <1>0, <5>1, <5>2, OnMasterChangedOK, Zenon
      <4> QED BY <4>1, <4>2, Zenon
    <3>3. /\ dpc' = "emitMaster" /\ leaderNode' = TopNode(children)
          /\ UNCHANGED <<znodes, nextNode, notify, children, changed, current>>
      BY <1>2, <2>2, Zenon DEF notifyMasterChanged, NotifyNewLeader
    <3> QED BY <1>0, <3>1, <3>2, <3>3, Zenon DEF DetectorInv, TypeOK, ListsWellFormed,
                                          NewestDelivered, MastersOK
  <2> QED BY <1>2, <2>1, <2>2, Zenon DEF notifyMasterChanged
<1>3. CASE notifyAllMasters
  <2>1. PICK nodes \in SUBSET (children \cap Live) :
          /\ IF nodes = children \cap Live THEN faults' = faults
             ELSE /\ faults < MaxFaults
                  /\ faults' = faults + 1
          /\ \E infos \in Listings(nodes) : UpdatedMasters(infos)
    BY <1>3, Zenon DEF notifyAllMasters
  <2>2. MastersOK(masters')
    BY <1>0, <2>1, UpdatedMastersOK, Zenon
  <2>3. faults' \in 0..MaxFaults
    BY <1>0, <2>1, SMTT(30) DEF TypeOK
  <2>4. /\ dpc' = "emitAll"
        /\ UNCHANGED <<znodes, nextNode, notify, children, leaderNode, changed, current>>
    BY <1>3, Zenon DEF notifyAllMasters
  <2> QED BY <1>0, <2>2, <2>3, <2>4, Zenon DEF DetectorInv, TypeOK, ListsWellFormed,
                                        NewestDelivered, MastersOK
<1>4. CASE EmitMasters
  <2>1. /\ changed' = <<masters>> /\ dpc' \in {"notifyAll", "watch"}
        /\ UNCHANGED <<zkVars, children, leaderNode, masters, current>>
    BY <1>4, Zenon DEF EmitMasters, emit
  <2>2. /\ changed' \in Seq(Seq(MaybeAddr)) /\ Len(changed') = 1
        /\ changed'[1] = masters /\ changed' # << >>
    BY <1>0, <2>1 DEF TypeOK
  <2> QED BY <1>0, <2>1, <2>2 DEF DetectorInv, TypeOK, ListsWellFormed,
                                  NewestDelivered, zkVars
<1>5. CASE Register
  <2>1. znodes' \in [NodeNum -> Info \cup {Nil}] /\ nextNode' \in 1..(MaxNode + 1)
    BY <1>0, <1>5 DEF Register, TypeOK, NodeNum
  <2> QED BY <1>0, <1>5, <2>1, Zenon DEF Register, DetectorInv, TypeOK, ListsWellFormed,
                                  NewestDelivered, detVars
<1>6. CASE Expire
  <2>1. znodes' \in [NodeNum -> Info \cup {Nil}]
    BY <1>0, <1>6, Zenon DEF Expire, TypeOK, Live
  <2> QED BY <1>0, <1>6, <2>1, Zenon DEF Expire, DetectorInv, TypeOK, ListsWellFormed,
                                  NewestDelivered, detVars
<1>7. CASE WatchError
  <2>1. CASE leaderNode # 0
    <3>1. MastersOK(masters')
      BY <1>0, <1>7, <2>1, OnMasterChangedOK, Zenon DEF WatchError
    <3> QED BY <1>0, <1>7, <2>1, <3>1, SMTT(30) DEF WatchError, DetectorInv, TypeOK,
                 ListsWellFormed, NewestDelivered, MastersOK
  <2>2. CASE leaderNode = 0
    BY <1>0, <1>7, <2>2 DEF WatchError, DetectorInv, TypeOK, ListsWellFormed,
                            NewestDelivered
  <2> QED BY <2>1, <2>2, Zenon
<1>8. CASE ReceiveOnly
  <2>1. changed \in Seq(Seq(MaybeAddr)) /\ Len(changed) <= 1 /\ changed # << >>
    BY <1>0, <1>8, Zenon DEF ReceiveOnly, Receive, TypeOK
  <2>2. /\ Len(changed) = 1 /\ changed[1] \in Seq(MaybeAddr)
        /\ Head(changed) = changed[1] /\ Tail(changed) = << >>
    BY <2>1, ChannelOfOne, Zenon
  <2>3. changed' = << >> /\ current' = changed[1] /\ UNCHANGED <<zkVars, detVars>>
    BY <1>8, <2>2, Zenon DEF ReceiveOnly, Receive
  <2>4. WellFormed(changed[1])
    BY <1>0, <2>2 DEF ListsWellFormed
  <2>5. TypeOK'
    BY <1>0, <2>2, <2>3 DEF TypeOK, zkVars, detVars
  <2>6. ListsWellFormed'
    BY <1>0, <2>3, <2>4 DEF ListsWellFormed, detVars
  <2>7. NewestDelivered'
    BY <1>0, <2>1, <2>2, <2>3, Zenon DEF NewestDelivered, detVars
  <2> QED BY <2>5, <2>6, <2>7, Zenon DEF DetectorInv
<1>9. CASE UNCHANGED vars
  BY <1>0, <1>9, Zenon DEF vars, zkVars, detVars, DetectorInv, TypeOK, ListsWellFormed,
                    NewestDelivered
<1> QED BY <1>1, <1>2, <1>3, <1>4, <1>5, <1>6, <1>7, <1>8, <1>9, Zenon
        DEF Next, DetectorStep, Environment

-----------------------------------------------------------------------------
\* Type correctness, for every configuration and every number of masters.
THEOREM DetectorTypeOK == Spec => []TypeOK
BY InitInv, StepInv, PTL DEF Spec, DetectorInv

\* Every list that Masters.masters, the channel or config.Masters ever holds
\* is well formed: the leader first, never again, and no empty entry behind it.
THEOREM ListsAlwaysWellFormed == Spec => []ListsWellFormed
BY InitInv, StepInv, PTL DEF Spec, DetectorInv

\* The channel of capacity one with a blocking send loses no list: the newest
\* list is always in the channel or with main.
THEOREM NewestAlwaysDelivered == Spec => []NewestDelivered
BY InitInv, StepInv, PTL DEF Spec, DetectorInv

-----------------------------------------------------------------------------
(* What the list of masters says about ZooKeeper *)

\* Mesos makes up an id for every run of a master, and a run has one address.
IdsIdentify ==
  \A a, b \in Registrants : a.id = b.id => masterAddr(a) = masterAddr(b)

Behind(ms) == {ms[i] : i \in 2..Len(ms)}
Registered(nodes) == {masterAddr(znodes[n]) : n \in nodes}

\* A znode's number is never used again, and the znodes do not change behind the
\* detector's list of them without a notification.
ZnodesInv ==
  /\ \A n \in NodeNum : /\ znodes[n] \in Registrants \cup {Nil}
                        /\ n >= nextNode => znodes[n] = Nil
  /\ leaderNode < nextNode /\ \A n \in children : n < nextNode
  /\ notify = FALSE => children = Live

\* Without faults the head of the list is the master that registered the znode
\* taken for the leader's, as long as that znode exists.
HeadInv ==
  faults = 0 =>
    /\ dpc # "emitLost"
    /\ leaderNode = 0 => masters[1] = NoAddr
    /\ leaderNode \in Live => masters[1] = masterAddr(znodes[leaderNode])

\* The first callback leaves the lowest znode of the list as the leader's.
TopInv ==
  (/\ faults = 0
   /\ \/ dpc \in {"emitMaster", "notifyAll", "emitAll"}
      \/ dpc = "watch" /\ notify = FALSE) =>
    leaderNode = TopNode(children)

\* The second callback leaves the other registered masters behind the head.
RestInv ==
  (faults = 0 /\ notify = FALSE /\ dpc \in {"emitAll", "watch"}) =>
    Behind(masters) = Registered(Live) \ {masters[1]}

ZkInv == ZnodesInv /\ HeadInv /\ TopInv /\ RestInv

\* selectTopNode picks one of the znodes.
LEMMA TopNodeIn ==
  ASSUME NEW nodes \in SUBSET NodeNum, nodes # {}
  PROVE  TopNode(nodes) \in nodes /\ TopNode(nodes) # 0
<1>1. nodes \in SUBSET Nat /\ 0 \notin nodes
  BY ConfigAssumption DEF NodeNum
<1>2. \E n \in nodes : \A m \in nodes : n <= m
  BY <1>1, NatLeast, Zenon
<1> QED BY <1>1, <1>2, Zenon DEF TopNode

\* ordered puts the leader first and every other address it is given behind it.
LEMMA orderedContents ==
  ASSUME NEW leader, NEW S, NEW ms \in Seq(S)
  PROVE  /\ ordered(leader, ms)[1] = leader
         /\ Behind(ordered(leader, ms))
              = ({ms[j] : j \in 1..Len(ms)} \cap Addr) \ {leader}
<1> DEFINE T == Addr \ {leader}
           f == Filter(ms, T)
<1> HIDE DEF T
<1>1. f \in Seq(S \cap T)
  BY FilterProperties, Zenon
<1>2. {f[k] : k \in 1..Len(f)} = {ms[j] : j \in 1..Len(ms)} \cap T
  BY FilterContents, SMTT(30)
<1>3. ordered(leader, ms) = <<leader>> \o f
  BY Zenon DEF ordered, T
<1> HIDE DEF f
<1> DEFINE U == {leader} \cup (S \cap T)
           o == <<leader>> \o f
<1>4. f \in Seq(U) /\ Len(f) \in Nat /\ <<leader>> \in Seq(U)
  BY <1>1
<1>5. Len(o) = 1 + Len(f) /\ o[1] = leader /\ \A i \in 2..Len(o) : o[i] = f[i-1]
  BY <1>4
<1> HIDE DEF o, U
<1>6. {o[i] : i \in 2..Len(o)} = {f[k] : k \in 1..Len(f)}
  <2>1. \A k \in 1..Len(f) : k+1 \in 2..Len(o) /\ o[k+1] = f[k]
    BY <1>4, <1>5
  <2>2. \A i \in 2..Len(o) : i-1 \in 1..Len(f) /\ o[i] = f[i-1]
    BY <1>4, <1>5
  <2>3. \A a : (\E i \in 2..Len(o) : a = o[i]) <=> (\E k \in 1..Len(f) : a = f[k])
    BY <2>1, <2>2, Zenon
  <2> QED BY <2>3, Zenon
<1>7. ordered(leader, ms) = o
  BY <1>3, Zenon DEF o
<1>8. Behind(o) = ({ms[j] : j \in 1..Len(ms)} \cap Addr) \ {leader}
  <2> DEFINE X == {ms[j] : j \in 1..Len(ms)}
  <2>1. X \cap (Addr \ {leader}) = (X \cap Addr) \ {leader}
    BY Zenon
  <2> QED BY <1>2, <1>6, <2>1, Zenon DEF Behind, T
<1> QED BY <1>5, <1>7, <1>8, Zenon

\* A callback for a changed leader puts its address, if any, first.
LEMMA NewHead ==
  ASSUME TypeOK, NEW info, OnMasterChanged(info)
  PROVE  masters'[1] = masterAddr(info)
<1>1. Tail(masters) \in Seq(MaybeAddr)
  BY DEF TypeOK
<1> QED BY <1>1, orderedContents, Zenon DEF OnMasterChanged

\* The list UpdatedMasters makes from what could be read: the head stays, and
\* behind it come the owners of the znodes.
LEMMA NewRest ==
  ASSUME IdsIdentify, TypeOK, ZnodesInv, NEW nodes \in SUBSET Live,
         NEW infos \in Listings(nodes), UpdatedMasters(infos)
  PROVE  /\ masters'[1] = masters[1]
         /\ Behind(masters') = Registered(nodes) \ {masters[1]}
<1> DEFINE read == {znodes[n] : n \in nodes}
           addrs == [k \in DOMAIN infos |-> masterAddr(infos[k])]
<1>1. read \subseteq Registrants /\ Nil \notin read
  BY Zenon DEF ZnodesInv, Live
<1>2. PICK k \in 0..Cardinality(nodes) : infos \in [1..k -> read]
  BY ZenonT(40) DEF Listings
<1>3. k \in Nat /\ DOMAIN infos = 1..k
  BY <1>2
<1>4. \A info \in read : \E i \in 1..k : infos[i].id = info.id
  BY <1>3, Zenon DEF Listings
<1>5. /\ \A i \in 1..k : \E n \in nodes : addrs[i] = masterAddr(znodes[n])
      /\ \A n \in nodes : \E i \in 1..k : addrs[i] = masterAddr(znodes[n])
  <2>1. \A i \in 1..k : addrs[i] = masterAddr(infos[i]) /\ infos[i] \in read
    BY <1>2, <1>3, Zenon
  <2>2. ASSUME NEW i \in 1..k PROVE \E n \in nodes : addrs[i] = masterAddr(znodes[n])
    BY <2>1, Zenon
  <2>3. ASSUME NEW n \in nodes PROVE \E i \in 1..k : addrs[i] = masterAddr(znodes[n])
    <3>1. PICK i \in 1..k : infos[i].id = znodes[n].id
      BY <1>4, Zenon
    <3>2. infos[i] \in Registrants /\ znodes[n] \in Registrants
      BY <1>1, <2>1, Zenon
    <3>3. masterAddr(infos[i]) = masterAddr(znodes[n])
      BY <3>1, <3>2, Zenon DEF IdsIdentify
    <3> QED BY <2>1, <3>3, Zenon
  <2> HIDE DEF addrs
  <2> QED BY <2>2, <2>3, Zenon
<1>6. \A n \in nodes : masterAddr(znodes[n]) \in Addr
  BY ConfigAssumption, <1>1 DEF masterAddr, Addr, Info
<1>7. addrs \in Seq(Addr) /\ Len(addrs) = k
  <2>1. addrs \in [1..k -> Addr]
    <3>1. DOMAIN addrs = 1..k /\ addrs = [i \in 1..k |-> addrs[i]]
      BY <1>3, Zenon
    <3> HIDE DEF addrs
    <3>2. \A i \in 1..k : addrs[i] \in Addr
      BY <1>5, <1>6, Zenon
    <3> QED BY <3>1, <3>2, Zenon
  <2> HIDE DEF addrs
  <2> QED BY <2>1, <1>3
<1>8. masters' = ordered(masters[1], Filter(addrs, Addr))
  BY Zenon DEF UpdatedMasters
<1> HIDE DEF addrs, read
<1>9. {addrs[i] : i \in 1..k} = Registered(nodes)
  <2>1. \A a : (\E i \in 1..k : a = addrs[i]) <=> (\E n \in nodes : a = masterAddr(znodes[n]))
    BY <1>5, ZenonT(40)
  <2> QED BY <2>1, Zenon DEF Registered
<1> DEFINE f == Filter(addrs, Addr)
<1>10. f \in Seq(Addr \cap Addr)
  BY <1>7, FilterProperties, Zenon
<1>11. {f[j] : j \in 1..Len(f)} = {addrs[i] : i \in 1..k} \cap Addr
  <2>1. {f[j] : j \in 1..Len(f)} = {addrs[i] : i \in 1..Len(addrs)} \cap Addr
    BY <1>7, FilterContents, SMTT(30)
  <2> HIDE DEF f
  <2> QED BY <1>7, <2>1, Zenon
<1> HIDE DEF f
<1>12. /\ ordered(masters[1], f)[1] = masters[1]
       /\ Behind(ordered(masters[1], f))
            = ({f[j] : j \in 1..Len(f)} \cap Addr) \ {masters[1]}
  BY <1>10, orderedContents
<1>13. Registered(nodes) \subseteq Addr
  BY <1>6, Zenon DEF Registered
<1>14. {f[j] : j \in 1..Len(f)} \cap Addr = Registered(nodes)
  BY <1>9, <1>11, <1>13, Zenon
<1>15. masters' = ordered(masters[1], f)
  BY <1>8, Zenon DEF f
<1> QED BY <1>12, <1>14, <1>15, Zenon

\* The ZooKeeper invariant holds initially.
LEMMA InitZk == Init => ZkInv
<1> SUFFICES ASSUME Init PROVE ZkInv
  OBVIOUS
<1> USE ConfigAssumption
<1>1. /\ notify = TRUE /\ children = {} /\ leaderNode = 0
      /\ nextNode = Len(InitialNodes) + 1 /\ Len(InitialNodes) \in Nat
      /\ masters = <<NoAddr>> \o Configured /\ dpc \in {"watch", "off"}
  BY DEF Init, NewMasters
<1>2. \A n \in NodeNum : /\ znodes[n] \in Registrants \cup {Nil}
                         /\ n >= nextNode => znodes[n] = Nil
  BY <1>1 DEF Init, NodeNum
<1>3. masters[1] = NoAddr
  <2>1. <<NoAddr>> \in Seq(MaybeAddr) /\ Configured \in Seq(MaybeAddr)
    BY DEF MaybeAddr
  <2> QED BY <1>1, <2>1
<1>4. 0 \notin Live
  BY DEF Live, NodeNum
<1>5. ZnodesInv
  BY <1>1, <1>2 DEF ZnodesInv
<1>6. HeadInv
  BY <1>1, <1>3, <1>4, Zenon DEF HeadInv
<1> QED BY <1>1, <1>5, <1>6, Zenon DEF ZkInv, TopInv, RestInv

\* Every step preserves it, as long as ids identify masters.
LEMMA StepZk ==
  ASSUME IdsIdentify, DetectorInv, ZkInv, [Next]_vars
  PROVE  ZkInv'
<1> USE ConfigAssumption
<1>0. TypeOK /\ ZnodesInv /\ HeadInv /\ TopInv /\ RestInv
  BY Zenon DEF DetectorInv, ZkInv
<1>1. CASE ChildrenChanged
  <2>1. /\ dpc = "watch" /\ dpc' = "notifyMaster" /\ children' = Live /\ notify' = FALSE
        /\ UNCHANGED <<znodes, nextNode, faults, leaderNode, masters>> /\ Live' = Live
    BY <1>1, Zenon DEF ChildrenChanged, Live
  <2>2. \A n \in Live : n < nextNode
    BY <1>0 DEF ZnodesInv, TypeOK, Live, NodeNum
  <2>3. ZnodesInv'
    BY <1>0, <2>1, <2>2, Zenon DEF ZnodesInv
  <2> QED BY <1>0, <2>1, <2>3, Zenon DEF ZkInv, HeadInv, TopInv, RestInv
<1>2. CASE notifyMasterChanged
  <2>0. /\ dpc = "notifyMaster" /\ Live' = Live
        /\ UNCHANGED <<znodes, nextNode, notify, children>>
    BY <1>2, Zenon DEF notifyMasterChanged, Live
  <2>1. CASE NotifySameLeader
    BY <1>0, <2>0, <2>1, Zenon DEF NotifySameLeader, ZkInv, ZnodesInv, HeadInv, TopInv, RestInv
  <2>2. CASE NotifyNewLeader
    <3>1. dpc' = "emitMaster" /\ leaderNode' = TopNode(children)
      BY <2>2, Zenon DEF NotifyNewLeader
    <3>2. ASSUME faults' = 0
          PROVE  /\ leaderNode' = 0 => masters'[1] = NoAddr
                 /\ leaderNode' \in Live => masters'[1] = masterAddr(znodes[leaderNode'])
      <4>1. CASE TopNode(children) = 0
        <5>1. masters'[1] = masterAddr(Nil)
          BY <1>0, <2>2, <4>1, NewHead, Zenon DEF NotifyNewLeader
        <5> QED BY <3>1, <4>1, <5>1 DEF masterAddr, Live, NodeNum
      <4>2. CASE TopNode(children) # 0
        <5>1. PICK info \in Info \cup {Nil} :
                ReadNode(TopNode(children), info) /\ OnMasterChanged(info)
          BY <2>2, <4>2, Zenon DEF NotifyNewLeader
        <5>2. masters'[1] = masterAddr(info)
          BY <1>0, <5>1, NewHead, Zenon
        <5>3. TopNode(children) \in Live => info = znodes[TopNode(children)]
          BY <1>0, <3>2, <5>1 DEF ReadNode, TypeOK
        <5> QED BY <3>1, <4>2, <5>2, <5>3, Zenon
      <4> QED BY <4>1, <4>2, Zenon
    <3>3. leaderNode' < nextNode
      <4>1. CASE children = {}
        BY <1>0, <3>1, <4>1 DEF TopNode, TypeOK
      <4>2. CASE children # {}
        <5>1. TopNode(children) \in children
          BY <1>0, <4>2, TopNodeIn, Zenon DEF TypeOK
        <5> QED BY <1>0, <3>1, <5>1, Zenon DEF TypeOK, ZnodesInv
      <4> QED BY <4>1, <4>2, Zenon
    <3>4. ZnodesInv'
      BY <1>0, <2>0, <3>3, Zenon DEF ZnodesInv
    <3>5. HeadInv'
      BY <2>0, <3>1, <3>2, Zenon DEF HeadInv
    <3>6. TopInv' /\ RestInv'
      BY <2>0, <3>1, Zenon DEF TopInv, RestInv
    <3> QED BY <3>4, <3>5, <3>6, Zenon DEF ZkInv
  <2> QED BY <1>2, <2>1, <2>2, Zenon DEF notifyMasterChanged
<1>3. CASE notifyAllMasters
  <2>1. PICK nodes \in SUBSET (children \cap Live) :
          /\ IF nodes = children \cap Live THEN faults' = faults
             ELSE /\ faults < MaxFaults
                  /\ faults' = faults + 1
          /\ \E infos \in Listings(nodes) : UpdatedMasters(infos)
    BY <1>3, Zenon DEF notifyAllMasters
  <2>2. /\ masters'[1] = masters[1]
        /\ Behind(masters') = Registered(nodes) \ {masters[1]}
    BY <1>0, <2>1, NewRest, Zenon
  <2>3. /\ dpc = "notifyAll" /\ dpc' = "emitAll" /\ Live' = Live
        /\ UNCHANGED <<znodes, nextNode, notify, children, leaderNode>>
    BY <1>3, Zenon DEF notifyAllMasters, Live
  <2>4. faults' = 0 => faults = 0 /\ nodes = children \cap Live
    BY <1>0, <2>1 DEF TypeOK
  <2>5. ZnodesInv' /\ HeadInv' /\ TopInv'
    BY <1>0, <2>2, <2>3, <2>4, Zenon DEF ZnodesInv, HeadInv, TopInv
  <2>6. RestInv'
    <3>1. Registered(Live)' = Registered(Live)
      BY <2>3, Zenon DEF Registered
    <3>2. notify = FALSE /\ faults' = 0 => nodes = Live
      BY <1>0, <2>4, Zenon DEF ZnodesInv
    <3> QED BY <2>2, <2>3, <3>1, <3>2, Zenon DEF RestInv, Behind
  <2> QED BY <2>5, <2>6, Zenon DEF ZkInv
<1>4. CASE EmitMasters
  <2>1. /\ UNCHANGED <<znodes, nextNode, notify, faults, children, leaderNode, masters>>
        /\ Live' = Live
        /\ \/ dpc = "emitMaster" /\ dpc' = "notifyAll"
           \/ dpc \in {"emitAll", "emitLost"} /\ dpc' = "watch"
    BY <1>4, Zenon DEF EmitMasters, zkVars, Live
  <2>2. Registered(Live)' = Registered(Live) /\ Behind(masters)' = Behind(masters)
    BY <2>1, Zenon DEF Registered, Behind
  <2>3. ZnodesInv' /\ HeadInv'
    BY <1>0, <2>1, Zenon DEF ZnodesInv, HeadInv
  <2>4. TopInv' /\ RestInv'
    BY <1>0, <2>1, <2>2, Zenon DEF HeadInv, TopInv, RestInv
  <2> QED BY <2>3, <2>4, Zenon DEF ZkInv
<1>5. CASE Register
  <2>1. PICK info \in Registrants : znodes' = [znodes EXCEPT ![nextNode] = info]
    BY <1>5, Zenon DEF Register
  <2>2. /\ nextNode \in NodeNum /\ nextNode' = nextNode + 1 /\ notify' = TRUE
        /\ UNCHANGED <<faults, dpc, children, leaderNode, masters>>
    BY <1>0, <1>5 DEF Register, detVars, TypeOK, NodeNum
  <2>3. leaderNode # nextNode
    BY <1>0 DEF ZnodesInv, TypeOK
  <2>4. leaderNode \in Live' => leaderNode \in Live /\ znodes'[leaderNode] = znodes[leaderNode]
    BY <1>0, <2>1, <2>3, Zenon DEF Live, TypeOK
  <2>5. ZnodesInv'
    <3>1. \A n \in NodeNum : /\ znodes'[n] \in Registrants \cup {Nil}
                             /\ n >= nextNode' => znodes'[n] = Nil
      BY <1>0, <2>1, <2>2 DEF ZnodesInv, TypeOK, NodeNum
    <3>2. leaderNode < nextNode' /\ \A n \in children : n < nextNode'
      BY <1>0, <2>2 DEF ZnodesInv, TypeOK
    <3> QED BY <2>2, <3>1, <3>2, Zenon DEF ZnodesInv
  <2>6. HeadInv'
    BY <1>0, <2>2, <2>4, Zenon DEF HeadInv
  <2> QED BY <1>0, <2>2, <2>5, <2>6, Zenon DEF ZkInv, TopInv, RestInv
<1>6. CASE Expire
  <2>1. PICK n \in Live : znodes' = [znodes EXCEPT ![n] = Nil]
    BY <1>6, Zenon DEF Expire
  <2>2. /\ notify' = TRUE
        /\ UNCHANGED <<nextNode, faults, dpc, children, leaderNode, masters>>
    BY <1>6, Zenon DEF Expire, detVars
  <2>3. leaderNode \in Live' => leaderNode \in Live /\ znodes'[leaderNode] = znodes[leaderNode]
    BY <1>0, <2>1, Zenon DEF Live, TypeOK
  <2>4. \A m \in NodeNum : /\ znodes'[m] \in Registrants \cup {Nil}
                           /\ m >= nextNode => znodes'[m] = Nil
    BY <1>0, <2>1, Zenon DEF ZnodesInv, TypeOK
  <2>5. ZnodesInv'
    BY <1>0, <2>2, <2>4, Zenon DEF ZnodesInv
  <2>6. HeadInv'
    BY <1>0, <2>2, <2>3, Zenon DEF HeadInv
  <2> QED BY <1>0, <2>2, <2>5, <2>6, Zenon DEF ZkInv, TopInv, RestInv
<1>7. CASE WatchError
  <2>1. /\ faults' # 0 /\ notify' = TRUE /\ Live' = Live
        /\ UNCHANGED <<znodes, nextNode, children>>
    BY <1>0, <1>7 DEF WatchError, TypeOK, Live
  <2>2. leaderNode' < nextNode
    BY <1>0, <1>7 DEF WatchError, ZnodesInv, TypeOK
  <2>3. ZnodesInv'
    BY <1>0, <2>1, <2>2, Zenon DEF ZnodesInv
  <2> QED BY <2>1, <2>3, Zenon DEF ZkInv, HeadInv, TopInv, RestInv
<1>8. CASE ReceiveOnly \/ UNCHANGED vars
  <2>1. /\ UNCHANGED <<znodes, nextNode, notify, faults, dpc, children, leaderNode, masters>>
        /\ Live' = Live
    BY <1>8, Zenon DEF ReceiveOnly, vars, zkVars, detVars, Live
  <2>2. Registered(Live)' = Registered(Live) /\ Behind(masters)' = Behind(masters)
    BY <2>1, Zenon DEF Registered, Behind
  <2>3. ZnodesInv' /\ HeadInv'
    BY <1>0, <2>1, Zenon DEF ZnodesInv, HeadInv
  <2>4. TopInv' /\ RestInv'
    BY <1>0, <2>1, <2>2, Zenon DEF HeadInv, TopInv, RestInv
  <2> QED BY <2>3, <2>4 DEF ZkInv
<1> HIDE ConfigAssumption
<1> QED BY <1>1, <1>2, <1>3, <1>4, <1>5, <1>6, <1>7, <1>8, Zenon
        DEF Next, DetectorStep, Environment

\* Undisturbed, the list of masters is ZooKeeper's: whatever came and went
\* between the list of znodes and the reads of the callbacks, once no event waits
\* the owner of the lowest znode leads and the other registered masters follow.
THEOREM ZooKeeperAlwaysDescribed == IdsIdentify => (Spec => []DescribesZooKeeper)
<1> SUFFICES ASSUME IdsIdentify PROVE Spec => []DescribesZooKeeper
  BY Zenon
<1>1. DetectorInv /\ ZkInv => DescribesZooKeeper
  <2> SUFFICES ASSUME DetectorInv, ZkInv, dpc = "watch", ~notify, faults = 0
               PROVE  /\ masters[1] = masterAddr(IF Live = {} THEN Nil
                                                 ELSE znodes[TopNode(Live)])
                      /\ Behind(masters) = Registered(Live) \ {masters[1]}
    BY Zenon DEF DescribesZooKeeper, Behind, Registered
  <2>0. notify = FALSE
    BY Zenon DEF DetectorInv, TypeOK
  <2>1. children = Live /\ leaderNode = TopNode(Live)
    BY <2>0, Zenon DEF ZkInv, ZnodesInv, TopInv
  <2>2. CASE Live = {}
    BY <2>0, <2>1, <2>2, Zenon DEF ZkInv, HeadInv, RestInv, TopNode, masterAddr
  <2>3. CASE Live # {}
    <3>1. TopNode(Live) \in Live
      BY <2>3, TopNodeIn, Zenon DEF Live
    <3> QED BY <2>0, <2>1, <2>3, <3>1 DEF ZkInv, HeadInv, RestInv
  <2> QED BY <2>2, <2>3, Zenon
<1>2. DetectorInv /\ ZkInv /\ [Next]_vars => (DetectorInv /\ ZkInv)'
  BY StepInv, StepZk, Zenon
<1> QED BY <1>1, <1>2, InitInv, InitZk, PTL DEF Spec
=============================================================================
