------------------------ MODULE MasterSearchProofs ------------------------
(* Theorems about module MasterSearch, for any masters, lists and changes of *)
(* the cluster.                                                              *)
EXTENDS MasterSearch, TLAPS

Searching == phase \in {"leader", "fallback"}

\* The lists ParseState may be called with, of any length and over any
\* addresses, and the steps of a search over one of them.
Callable ==
  {ms \in Seq(Addr \cup {NoAddr}) : \A i \in 2..Len(ms) : ms[i] # NoAddr}
Step ==
  \/ \E ms \in Callable : ParseState(ms)
  \/ loadFromMaster \/ Return \/ ClusterChange

\* A redirected request goes to a host that a reply has named, and the masters
\* left to ask, at two requests each, fit under the bound.
SearchInv ==
  /\ TypeOK
  /\ Searching /\ redirected => asking.ip \in named
  /\ Searching =>
       requests + 2 * Len(rest) + (IF redirected THEN 1 ELSE 2) <= 2 * Len(list)
  /\ phase = "idle" => requests = 0
  /\ phase = "done" => outcome # "none"
  /\ LoadedFromNamedLeader
  /\ RequestsBounded

LEMMA InitSearchInv == Init => SearchInv
<1> SUFFICES ASSUME Init PROVE SearchInv
  BY Zenon
<1>1. view \in [Addr -> Addr \cup {NoAddr, Down}]
  BY SearchAssumption, Zenon DEF Init, ClusterInit
<1>2. << >> \in Seq(Addr \cup {NoAddr}) /\ << >> \in Seq(Addr) /\ Len(list) = 0
  BY DEF Init, SearchInit
<1>3. loaded \in [from : Addr \cup {NoAddr}, leader : Addr \cup {NoAddr}]
  BY Zenon DEF Init, SearchInit, NotLoaded
<1>4. changes \in 0..MaxChanges /\ requests \in Nat
  BY SearchAssumption DEF Init, ClusterInit, SearchInit
<1>5. list \in Seq(Addr \cup {NoAddr}) /\ rest \in Seq(Addr)
  BY <1>2, Zenon DEF Init, SearchInit
<1>6. TypeOK
  BY <1>1, <1>3, <1>4, <1>5, Zenon DEF Init, SearchInit, TypeOK
<1> QED
  BY <1>2, <1>6 DEF Init, SearchInit, SearchInv, Searching, LoadedFromNamedLeader,
                    RequestsBounded

\* The reply decides between five continuations.
LEMMA HandleCases ==
  ASSUME NEW r \in Addr \cup {NoAddr, Down}, Handle(r)
  PROVE  \/ r = Down /\ LoadFailed
         \/ r = NoAddr /\ ~redirected /\ LeaderIPPanics
         \/ r = NoAddr /\ redirected /\ LoadLeaderless
         \/ r \in Addr /\ ~redirected /\ r.ip # asking.ip /\ Redirect(r)
         \/ r \in Addr /\ (redirected \/ r.ip = asking.ip) /\ LoadSucceeded(r)
BY SearchAssumption, Zenon DEF Handle

LEMMA ListsCallable ==
  ASSUME NEW ms \in Lists(MaxList)
  PROVE  ms \in Callable
<1>1. PICK k \in 0..MaxList : ms \in [1..k -> Masters \cup {NoAddr}]
  BY Zenon DEF Lists
<1>2. ms \in Seq(Addr \cup {NoAddr})
  BY <1>1, SearchAssumption
<1> QED
  BY <1>2, Zenon DEF Lists, Callable

LEMMA NextIsStep == [Next]_vars => [Step]_vars
BY ListsCallable, Zenon DEF Next, Step

\* A sequence is one over every set that has its elements.
LEMMA SeqOver ==
  ASSUME NEW T, NEW s \in Seq(T), NEW S, \A j \in 1..Len(s) : s[j] \in S
  PROVE  s \in Seq(S)
OBVIOUS

LEMMA ListTyped ==
  ASSUME NEW ms \in Callable
  PROVE  /\ ms \in Seq(Addr \cup {NoAddr}) /\ Len(ms) \in Nat
         /\ ms # << >> => Tail(ms) \in Seq(Addr) /\ Len(Tail(ms)) = Len(ms) - 1
<1>2. ms \in Seq(Addr \cup {NoAddr}) /\ Len(ms) \in Nat
  BY DEF Callable
<1>3. \A j \in 2..Len(ms) : ms[j] \in Addr
  BY <1>2 DEF Callable
<1>4. ASSUME ms # << >> PROVE Tail(ms) \in Seq(Addr) /\ Len(Tail(ms)) = Len(ms) - 1
  <2>1. Len(ms) > 0 /\ Len(Tail(ms)) = Len(ms) - 1 /\ Tail(ms) \in Seq(Addr \cup {NoAddr})
    BY <1>2, <1>4
  <2>2. \A j \in 1..Len(Tail(ms)) : Tail(ms)[j] = ms[j + 1] /\ j + 1 \in 2..Len(ms)
    BY <1>2, <2>1
  <2>3. \A j \in 1..Len(Tail(ms)) : Tail(ms)[j] \in Addr
    BY <1>3, <2>2, Zenon
  <2>4. Tail(ms) \in Seq(Addr)
    BY <2>1, <2>3, SeqOver, Zenon
  <2> QED
    BY <2>1, <2>4, Zenon
<1> QED
  BY <1>2, <1>4, Zenon

\* Where the search goes from a rest of the list: it ends, or asks the next.
LEMMA NextTried ==
  ASSUME NEW others \in Seq(Addr), TryNext(others)
  PROVE  \/ Finish("error", NotLoaded)
         \/ /\ Len(others) > 0 /\ Ask(Head(others), Tail(others), "fallback")
            /\ Head(others) \in Addr /\ Tail(others) \in Seq(Addr)
            /\ Len(Tail(others)) = Len(others) - 1
BY DEF TryNext

LEMMA StepSearchInv == SearchInv /\ [Step]_vars => SearchInv'
<1> SUFFICES ASSUME SearchInv, [Step]_vars PROVE SearchInv'
  BY Zenon
<1>0. TypeOK
  BY Zenon DEF SearchInv
<1>1. ASSUME NEW ms \in Callable, ParseState(ms) PROVE SearchInv'
  <2>0. /\ phase = "idle" /\ requests = 0 /\ list' = ms /\ findMaster(ms)
        /\ UNCHANGED <<tried, named, requests, quiet, view, changes>>
    BY <1>1, Zenon DEF ParseState, SearchInv, cluster
  <2>1. \/ Finish("error", NotLoaded)
        \/ \E m \in Addr, o \in Seq(Addr), ph \in {"leader", "fallback"} :
             Ask(m, o, ph) /\ Len(o) < Len(ms)
    <3>1. CASE ms = << >>
      BY <2>0, <3>1, Zenon DEF findMaster, TryNext
    <3>2. CASE ms # << >> /\ Head(ms) # NoAddr
      <4>1. Ask(Head(ms), Tail(ms), "leader")
        BY <2>0, <3>2, Zenon DEF findMaster
      <4>2. Head(ms) \in Addr
        BY <3>2, ListTyped
      <4>3. Tail(ms) \in Seq(Addr) /\ Len(Tail(ms)) < Len(ms)
        BY <3>2, ListTyped
      <4> QED
        BY <4>1, <4>2, <4>3, Zenon
    <3>3. CASE ms # << >> /\ Head(ms) = NoAddr
      <4>1. TryNext(Tail(ms)) /\ Tail(ms) \in Seq(Addr) /\ Len(Tail(ms)) = Len(ms) - 1
        BY <2>0, <3>3, ListTyped, Zenon DEF findMaster
      <4>2. CASE Finish("error", NotLoaded)
        BY <4>2, Zenon
      <4>3. CASE /\ Ask(Head(Tail(ms)), Tail(Tail(ms)), "fallback")
                 /\ Head(Tail(ms)) \in Addr /\ Tail(Tail(ms)) \in Seq(Addr)
                 /\ Len(Tail(Tail(ms))) = Len(Tail(ms)) - 1
        <5>1. Len(Tail(Tail(ms))) < Len(ms)
          BY <4>1, <4>3, ListTyped
        <5> QED
          BY <4>3, <5>1, Zenon
      <4> QED
        BY <4>1, <4>2, <4>3, NextTried, Zenon
    <3> QED
      BY <3>1, <3>2, <3>3, Zenon
  <2>2. CASE Finish("error", NotLoaded)
    BY <1>0, <2>0, <2>2, ListTyped
       DEF Finish, NotLoaded, SearchInv, TypeOK, Searching, LoadedFromNamedLeader,
           RequestsBounded
  <2>3. ASSUME NEW m \in Addr, NEW o \in Seq(Addr), NEW ph \in {"leader", "fallback"},
               Ask(m, o, ph), Len(o) < Len(ms)
        PROVE  SearchInv'
    <3>1. UNCHANGED <<outcome, loaded>> /\ list' \in Seq(Addr \cup {NoAddr})
          /\ Len(list') \in Nat /\ Len(o) \in Nat /\ Len(o) < Len(list')
      BY <2>0, <2>3, ListTyped DEF Ask, result
    <3>2. requests' + 2 * Len(o) + 2 <= 2 * Len(list') /\ requests' = 0
      BY <2>0, <3>1
    <3>3. TypeOK'
      BY <1>0, <2>0, <2>3, <3>1, Zenon DEF Ask, TypeOK
    <3> QED
      BY <2>0, <2>3, <3>1, <3>2, <3>3
         DEF Ask, SearchInv, Searching, LoadedFromNamedLeader, RequestsBounded
  <2> QED
    BY <2>1, <2>2, <2>3, Zenon
<1>2. CASE loadFromMaster
  <2> DEFINE r == view[asking]
  <2>0. /\ Searching /\ asking \in Addr /\ r \in Addr \cup {NoAddr, Down}
        /\ requests \in Nat /\ list \in Seq(Addr \cup {NoAddr}) /\ Len(list) \in Nat
        /\ rest \in Seq(Addr) /\ Len(rest) \in Nat /\ named \subseteq IPs
        /\ UNCHANGED <<list, view, changes, quiet>>
    BY <1>0, <1>2 DEF loadFromMaster, Searching, TypeOK, cluster
  <2>1. /\ requests' = requests + 1
        /\ requests + 2 * Len(rest) + (IF redirected THEN 1 ELSE 2) <= 2 * Len(list)
    BY <1>2, <2>0 DEF loadFromMaster, SearchInv
  <2>2. tried' \subseteq Addr /\ named \subseteq named' /\ named' \subseteq IPs
        /\ (r \in Addr => r.ip \in named')
    BY <1>0, <1>2, <2>0, Zenon DEF loadFromMaster, TypeOK, Addr
  <2>3. \/ r = Down /\ LoadFailed
        \/ r = NoAddr /\ ~redirected /\ LeaderIPPanics
        \/ r = NoAddr /\ redirected /\ LoadLeaderless
        \/ r \in Addr /\ ~redirected /\ r.ip # asking.ip /\ Redirect(r)
        \/ r \in Addr /\ (redirected \/ r.ip = asking.ip) /\ LoadSucceeded(r)
    BY <1>2, <2>0, HandleCases, Zenon DEF loadFromMaster
  <2>4. ASSUME NEW out \in {"error", "panic"}, Finish(out, NotLoaded) PROVE SearchInv'
    BY <1>0, <2>0, <2>1, <2>2, <2>4
       DEF Finish, NotLoaded, SearchInv, TypeOK, Searching, LoadedFromNamedLeader,
           RequestsBounded
  <2>5. ASSUME TryNext(rest) PROVE SearchInv'
    <3>1. CASE Finish("error", NotLoaded)
      BY <2>4, <3>1, Zenon
    <3>2. CASE /\ Len(rest) > 0 /\ Ask(Head(rest), Tail(rest), "fallback")
               /\ Head(rest) \in Addr /\ Tail(rest) \in Seq(Addr)
               /\ Len(Tail(rest)) = Len(rest) - 1
      <4>1. UNCHANGED <<outcome, loaded>> /\ Len(Tail(rest)) \in Nat
        BY <2>0, <3>2 DEF Ask, result
      <4>2. requests' + 2 * Len(Tail(rest)) + 2 <= 2 * Len(list) /\ requests' \in Nat
        BY <2>0, <2>1, <3>2, <4>1
      <4>3. TypeOK'
        BY <1>0, <2>0, <2>2, <3>2, <4>1, <4>2, Zenon DEF Ask, TypeOK
      <4> QED
        BY <2>0, <2>2, <3>2, <4>1, <4>2, <4>3, SMTT(40)
           DEF Ask, SearchInv, Searching, LoadedFromNamedLeader, RequestsBounded
    <3> QED
      BY <2>0, <2>5, <3>1, <3>2, NextTried, Zenon
  <2>6. ASSUME r \in Addr, ~redirected, Redirect(r) PROVE SearchInv'
    <3>1. asking' \in Addr /\ asking'.ip = r.ip
      BY <2>0, <2>6, Zenon DEF Redirect, Addr
    <3> QED
      BY <1>0, <2>0, <2>1, <2>2, <2>6, <3>1, SMTT(40)
         DEF Redirect, result, SearchInv, TypeOK, Searching, LoadedFromNamedLeader,
             RequestsBounded
  <2>7. ASSUME r \in Addr, redirected \/ r.ip = asking.ip, LoadSucceeded(r) PROVE SearchInv'
    <3>1. asking.ip \in named'
      BY <2>0, <2>2, <2>7, Zenon DEF SearchInv
    <3>2. /\ loaded'.from = asking /\ loaded'.leader = r
          /\ loaded' \in [from : Addr \cup {NoAddr}, leader : Addr \cup {NoAddr}]
      BY <2>0, <2>7, Zenon DEF LoadSucceeded, Finish
    <3> QED
      BY <1>0, <2>0, <2>1, <2>2, <2>7, <3>1, <3>2
         DEF LoadSucceeded, Finish, SearchInv, TypeOK, Searching, LoadedFromNamedLeader,
             RequestsBounded
  <2> QED
    BY <2>3, <2>4, <2>5, <2>6, <2>7, Zenon DEF LoadFailed, LoadLeaderless, LeaderIPPanics
<1>3. CASE Return
  <2>1. << >> \in Seq(Addr \cup {NoAddr}) /\ << >> \in Seq(Addr) /\ Len(<< >>) = 0
    OBVIOUS
  <2>2. NotLoaded \in [from : Addr \cup {NoAddr}, leader : Addr \cup {NoAddr}]
    BY Zenon DEF NotLoaded
  <2>3. /\ phase' = "idle" /\ outcome' = "none" /\ requests' = 0 /\ Len(list') = 0
        /\ list' \in Seq(Addr \cup {NoAddr}) /\ rest' \in Seq(Addr)
        /\ UNCHANGED <<view, changes>>
    BY <1>3, <2>1, Zenon DEF Return, cluster
  <2>4. TypeOK'
    <3>1. /\ loaded' \in [from : Addr \cup {NoAddr}, leader : Addr \cup {NoAddr}]
          /\ view' \in [Addr -> Addr \cup {NoAddr, Down}] /\ changes' \in 0..MaxChanges
          /\ tried' \subseteq Addr /\ named' \subseteq IPs
          /\ asking' \in Addr \cup {NoAddr} /\ redirected' \in BOOLEAN /\ quiet' \in BOOLEAN
      BY <1>0, <1>3, <2>2, <2>3, Zenon DEF Return, TypeOK
    <3> QED
      BY <2>3, <3>1, Zenon DEF TypeOK
  <2> QED
    BY <2>3, <2>4 DEF SearchInv, Searching, LoadedFromNamedLeader, RequestsBounded
<1>4. CASE ClusterChange
  <2>1. view' \in [Addr -> Addr \cup {NoAddr, Down}] /\ changes' \in 0..MaxChanges
        /\ quiet' \in BOOLEAN
    BY <1>0, <1>4, SearchAssumption DEF ClusterChange, TypeOK
  <2> QED
    BY <1>0, <1>4, <2>1
       DEF ClusterChange, search, result, SearchInv, TypeOK, Searching,
           LoadedFromNamedLeader, RequestsBounded
<1>5. CASE UNCHANGED vars
  BY <1>5 DEF vars, cluster, search, result, SearchInv, TypeOK, Searching,
              LoadedFromNamedLeader, RequestsBounded
<1> QED
  BY <1>1, <1>2, <1>3, <1>4, <1>5, Zenon DEF Step

\* The state of a search keeps its type; in particular every request goes to an
\* address, never to the empty entry that stands for an unknown leader.
THEOREM SearchTypeOK == Spec => []TypeOK
<1>1. SearchInv => TypeOK
  BY Zenon DEF SearchInv
<1> QED
  BY <1>1, InitSearchInv, NextIsStep, StepSearchInv, PTL DEF Spec

\* ParseState accepts a state only from a host that a reply of the same search
\* named as the leader, whatever the masters reply and whenever they change.
THEOREM AlwaysLoadedFromNamedLeader == Spec => []LoadedFromNamedLeader
<1>1. SearchInv => LoadedFromNamedLeader
  BY Zenon DEF SearchInv
<1> QED
  BY <1>1, InitSearchInv, NextIsStep, StepSearchInv, PTL DEF Spec

\* A search makes at most two requests per listed master, for lists of any
\* length and masters that point at each other in any way.
THEOREM RequestsAlwaysBounded == Spec => []RequestsBounded
<1>1. SearchInv => RequestsBounded
  BY Zenon DEF SearchInv
<1> QED
  BY <1>1, InitSearchInv, NextIsStep, StepSearchInv, PTL DEF Spec

-----------------------------------------------------------------------------
(* The quiet cluster.  Pos is the place in the list of the master being      *)
(* asked; Listed(k) the masters among the first k entries.                   *)
Pos == Len(list) - Len(rest)

Stops(i) == LoadOf(list[i]) \in {"ok", "panic"} \cup IF i = 1 THEN {} ELSE {"error"}

Listed(k) == {list[i] : i \in {j \in 1..k : list[j] # NoAddr}}

\* No master before the one being asked has ended the search, and those are the
\* ones tried; after a redirection the request goes to the leader it names.
FirstInv ==
  /\ phase = "idle" => tried = {} /\ quiet
  /\ quiet /\ Searching =>
       /\ Pos \in 1..Len(list) /\ list[Pos] # NoAddr
       /\ phase = "leader" <=> Pos = 1
       /\ \A i \in 1..Len(list) : i > Pos => list[i] # NoAddr /\ rest[i - Pos] = list[i]
       /\ \A i \in 1..Len(list) : i < Pos /\ list[i] # NoAddr => ~Stops(i)
       /\ ~redirected => asking = list[Pos] /\ tried = Listed(Pos - 1)
       /\ redirected =>
            /\ view[list[Pos]] \in Addr /\ view[list[Pos]].ip # list[Pos].ip
            /\ asking = [ip |-> view[list[Pos]].ip, port |-> list[Pos].port]
            /\ tried = Listed(Pos)

\* How a search in a quiet cluster ends: at a master that ends it, or with the
\* list.
EndsAt(p) ==
  /\ list[p] # NoAddr /\ Stops(p)
  /\ \A i \in 1..Len(list) : i < p /\ list[i] # NoAddr => ~Stops(i)
  /\ tried = Listed(p)
  /\ outcome = LoadOf(list[p])
  /\ outcome = "ok" => loaded.from = [ip |-> view[list[p]].ip, port |-> list[p].port]

Exhausted ==
  /\ \A i \in 1..Len(list) : list[i] # NoAddr => ~Stops(i)
  /\ tried = Listed(Len(list))
  /\ outcome = "error"

LEMMA EndedStopsAtFirst ==
  TypeOK /\ (Exhausted \/ \E p \in 1..Len(list) : EndsAt(p)) => StopsAtFirst
<1> DEFINE P == {i \in DOMAIN list : list[i] # NoAddr}
           S == {i \in P : LoadOf(list[i]) \in
                    {"ok", "panic"} \cup IF i = 1 THEN {} ELSE {"error"}}
           first(i) == \A j \in S : i <= j
<1>1. ASSUME TypeOK
      PROVE  DOMAIN list = 1..Len(list) /\ Len(list) \in Nat
  BY <1>1 DEF TypeOK
<1>2. \A i : i \in S <=> i \in DOMAIN list /\ list[i] # NoAddr /\ Stops(i)
  BY Zenon DEF Stops
<1>3. ASSUME TypeOK, Exhausted PROVE StopsAtFirst
  <2>1. S = {}
    BY <1>1, <1>2, <1>3, Zenon DEF Exhausted
  <2> HIDE DEF S
  <2>2. {j \in P : first(j)} = {j \in 1..Len(list) : list[j] # NoAddr}
    BY <1>1, <1>3, <2>1, Zenon
  <2>3. tried = {list[i] : i \in {j \in P : first(j)}}
    BY <1>3, <2>2, Zenon DEF Exhausted, Listed
  <2> QED
    BY <1>3, <2>1, <2>3, Zenon DEF StopsAtFirst, Exhausted, S
<1>4. ASSUME TypeOK, NEW p \in 1..Len(list), EndsAt(p) PROVE StopsAtFirst
  <2>1. p \in S /\ \A i \in S : i \in 1..Len(list) /\ p <= i
    <3>1. \A i \in S : i \in 1..Len(list) /\ list[i] # NoAddr /\ Stops(i)
      BY <1>1, <1>2, <1>4, Zenon
    <3> QED
      BY <1>1, <1>2, <1>4, <3>1 DEF EndsAt
  <2> HIDE DEF S
  <2>2. \A i \in S : first(i) => i = p
    BY <1>1, <1>4, <2>1
  <2>3. \A j \in 1..Len(list) : first(j) <=> j <= p
    BY <1>1, <1>4, <2>1
  <2>4. {j \in P : first(j)} = {j \in 1..p : list[j] # NoAddr}
    BY <1>1, <1>4, <2>3
  <2>5. tried = {list[i] : i \in {j \in P : first(j)}}
    BY <1>4, <2>4, Zenon DEF EndsAt, Listed
  <2>6. \A i \in S : first(i) =>
             /\ outcome = LoadOf(list[i])
             /\ outcome = "ok" =>
                  loaded.from = [ip |-> view[list[i]].ip, port |-> list[i].port]
    BY <1>4, <2>2, Zenon DEF EndsAt
  <2>7. S # {}
    BY <2>1, Zenon
  <2> QED
    BY <2>5, <2>6, <2>7, Zenon DEF StopsAtFirst, S
<1> QED
  BY <1>3, <1>4, Zenon

LEMMA EndedStopsAtFirstNext ==
  TypeOK' /\ (Exhausted \/ \E p \in 1..Len(list) : EndsAt(p))' => StopsAtFirst'
BY EndedStopsAtFirst, PTL

\* What loadWrap returns, reply by reply.
LEMMA LoadCases ==
  ASSUME TypeOK, NEW m \in Addr, NEW at, at = [ip |-> view[m].ip, port |-> m.port]
  PROVE  /\ view[m] = Down => LoadOf(m) = "error"
         /\ view[m] = NoAddr => LoadOf(m) = "panic"
         /\ view[m] \in Addr /\ view[m].ip = m.ip => LoadOf(m) = "ok" /\ at = m
         /\ view[m] \in Addr /\ view[m].ip # m.ip =>
              /\ view[at] = Down => LoadOf(m) = "error"
              /\ view[at] = NoAddr => LoadOf(m) = "leaderless"
              /\ view[at] \in Addr => LoadOf(m) = "ok"
<1>1. LoadOf(m) =
        IF view[m] = Down THEN "error"
        ELSE IF view[m] = NoAddr THEN "panic"
        ELSE IF view[m].ip = m.ip THEN "ok"
        ELSE IF view[at] = Down THEN "error"
        ELSE IF view[at] = NoAddr THEN "leaderless"
        ELSE "ok"
  BY Zenon DEF LoadOf
<1>2. m = [ip |-> m.ip, port |-> m.port]
  BY Zenon DEF Addr
<1> QED
  BY <1>1, <1>2, SearchAssumption, Zenon

LEMMA ListEntries ==
  ASSUME NEW ms \in Callable
  PROVE  /\ \A i \in 2..Len(ms) : ms[i] # NoAddr
         /\ ms # << >> => /\ Len(ms) >= 1 /\ Head(ms) = ms[1]
                          /\ \A i \in 1..Len(Tail(ms)) : Tail(ms)[i] = ms[i + 1]
BY ListTyped DEF Callable

LEMMA StepFirstInv ==
  SearchInv /\ SearchInv' /\ FirstInv /\ StopsAtFirst /\ [Step]_vars
    => FirstInv' /\ StopsAtFirst'
<1> SUFFICES ASSUME SearchInv, SearchInv', FirstInv, StopsAtFirst, [Step]_vars
             PROVE  FirstInv' /\ StopsAtFirst'
  BY Zenon
<1>0. TypeOK /\ TypeOK' /\ Len(list) \in Nat /\ Len(rest) \in Nat
  BY SMTT(40) DEF SearchInv, TypeOK
<1>1. ASSUME NEW ms \in Callable, ParseState(ms) PROVE FirstInv' /\ StopsAtFirst'
  <2>0. /\ list' = ms /\ findMaster(ms) /\ tried' = {} /\ view' = view
        /\ Len(ms) \in Nat
    BY <1>1, ListTyped, Zenon DEF ParseState, FirstInv, cluster
  <2>1. ASSUME Finish("error", NotLoaded), \A i \in 1..Len(ms) : ms[i] = NoAddr
        PROVE  FirstInv' /\ StopsAtFirst'
    <3>1. Exhausted'
      BY <2>0, <2>1, Zenon DEF Exhausted, Finish, Listed
    <3>2. FirstInv'
      BY <2>1, Zenon DEF FirstInv, Searching, Finish
    <3> QED
      BY <1>0, <3>1, <3>2, EndedStopsAtFirstNext, Zenon
  <2>2. ASSUME NEW p \in 1..Len(ms), NEW o \in Seq(Addr), NEW ph,
               Ask(ms[p], o, ph), Len(o) = Len(ms) - p, ms[p] # NoAddr,
               ph = IF p = 1 THEN "leader" ELSE "fallback",
               \A i \in 1..(p - 1) : ms[i] = NoAddr,
               \A i \in 1..Len(ms) : i > p => ms[i] # NoAddr /\ o[i - p] = ms[i]
        PROVE  FirstInv' /\ StopsAtFirst'
    <3>1. /\ phase' = ph /\ ph # "idle" /\ ph # "done" /\ (ph = "leader" <=> p = 1)
          /\ asking' = ms[p] /\ rest' = o /\ redirected' = FALSE
      BY <2>2, Zenon DEF Ask
    <3>2. Pos' = p
      BY <2>0, <2>2, <3>1 DEF Pos
    <3>3. Listed(p - 1)' = {}
      BY <2>0, <2>2, Zenon DEF Listed
    <3>4. Listed(Pos - 1)' = {}
      BY <2>0, <2>2, <3>2, Zenon DEF Listed
    <3>5. \A i \in 1..Len(ms) : i < p => ms[i] = NoAddr
      BY <2>0, <2>2, SMTT(40)
    <3>6. FirstInv'
      BY <2>0, <2>2, <3>1, <3>2, <3>4, <3>5, Zenon DEF FirstInv
    <3>7. StopsAtFirst'
      BY <3>1, Zenon DEF StopsAtFirst
    <3> QED
      BY <3>6, <3>7, Zenon
  <2>3. CASE ms = << >>
    BY <2>0, <2>1, <2>3, SMTT(40) DEF findMaster, TryNext
  <2>4. CASE ms # << >> /\ Head(ms) # NoAddr
    <3>1. Ask(ms[1], Tail(ms), "leader")
      BY <2>0, <2>4, ListEntries, Zenon DEF findMaster
    <3>2. /\ Tail(ms) \in Seq(Addr) /\ Len(Tail(ms)) = Len(ms) - 1
          /\ 1 \in 1..Len(ms) /\ ms[1] # NoAddr
      BY <2>0, <2>4, ListEntries, ListTyped
    <3>3. \A i \in 1..Len(ms) : i > 1 => ms[i] # NoAddr /\ Tail(ms)[i - 1] = ms[i]
      <4> SUFFICES ASSUME NEW i \in 1..Len(ms), i > 1
                   PROVE  ms[i] # NoAddr /\ Tail(ms)[i - 1] = ms[i]
        BY Zenon
      <4>1. i \in 2..Len(ms) /\ i - 1 \in 1..Len(Tail(ms)) /\ (i - 1) + 1 = i
        BY <2>0, <3>2
      <4>2. ms[i] # NoAddr /\ Tail(ms)[i - 1] = ms[(i - 1) + 1]
        BY <2>4, <4>1, ListEntries, Zenon
      <4> QED
        BY <4>1, <4>2, Zenon
    <3>4. \A i \in 1..(1 - 1) : ms[i] = NoAddr
      OBVIOUS
    <3> QED
      BY <2>2, <3>1, <3>2, <3>3, <3>4, Zenon
  <2>5. CASE ms # << >> /\ Head(ms) = NoAddr
    <3>1. /\ TryNext(Tail(ms)) /\ Tail(ms) \in Seq(Addr) /\ Len(Tail(ms)) = Len(ms) - 1
          /\ ms[1] = NoAddr /\ Len(ms) >= 1
      BY <2>0, <2>5, ListTyped, ListEntries, Zenon DEF findMaster
    <3>2. CASE Tail(ms) = << >>
      <4>1. Len(ms) = 1
        <5>1. Len(<< >>) = 0
          BY Zenon
        <5>2. Len(ms) - 1 = 0 /\ Len(ms) \in Nat
          BY <2>0, <3>1, <3>2, <5>1, Zenon
        <5> QED
          BY <5>2
      <4> QED
        BY <2>1, <3>1, <3>2, <4>1 DEF TryNext
    <3>3. CASE Tail(ms) # << >>
      <4> DEFINE t == Tail(ms)
      <4>1. /\ Ask(Head(t), Tail(t), "fallback") /\ Head(t) = t[1]
            /\ Tail(t) \in Seq(Addr) /\ Len(Tail(t)) = Len(t) - 1 /\ Len(t) >= 1
            /\ \A i \in 1..Len(Tail(t)) : Tail(t)[i] = t[i + 1]
        BY <3>1, <3>3, SMTT(30) DEF TryNext
      <4>2. 2 \in 1..Len(ms) /\ t[1] = ms[2] /\ ms[2] # NoAddr /\ Len(Tail(t)) = Len(ms) - 2
        <5>1. 1 \in 1..Len(t) /\ 2 \in 2..Len(ms) /\ 1 + 1 = 2
          BY <2>0, <3>1, <4>1
        <5> QED
          BY <2>0, <2>5, <3>1, <4>1, <5>1, ListEntries, SMTT(30)
      <4>3. \A i \in 1..Len(ms) : i > 2 => ms[i] # NoAddr /\ Tail(t)[i - 2] = ms[i]
        <5> SUFFICES ASSUME NEW i \in 1..Len(ms), i > 2
                     PROVE  ms[i] # NoAddr /\ Tail(t)[i - 2] = ms[i]
          BY Zenon
        <5>1. /\ i \in 2..Len(ms) /\ i - 2 \in 1..Len(Tail(t)) /\ (i - 2) + 1 = i - 1
              /\ i - 1 \in 1..Len(t) /\ (i - 1) + 1 = i
          BY <2>0, <3>1, <4>1
        <5>2. Tail(t)[i - 2] = t[i - 1] /\ t[i - 1] = ms[i]
          BY <2>5, <4>1, <5>1, ListEntries, ZenonT(40)
        <5> QED
          BY <5>1, <5>2, ListEntries, Zenon
      <4>4. \A i \in 1..(2 - 1) : ms[i] = NoAddr
        BY <3>1
      <4>5. Ask(ms[2], Tail(t), "fallback")
        BY <4>1, <4>2, Zenon
      <4>6. "fallback" = IF 2 = 1 THEN "leader" ELSE "fallback"
        OBVIOUS
      <4>7. Tail(t) \in Seq(Addr) /\ Len(Tail(t)) = Len(ms) - 2 /\ 2 \in 1..Len(ms)
            /\ ms[2] # NoAddr
        BY <4>1, <4>2, Zenon
      <4> HIDE DEF t
      <4> QED
        BY <2>2, <4>3, <4>4, <4>5, <4>6, <4>7, Zenon
    <3> QED
      BY <3>2, <3>3, Zenon
  <2> QED
    BY <2>3, <2>4, <2>5, Zenon
<1>2. ASSUME loadFromMaster PROVE FirstInv' /\ StopsAtFirst'
  <2> DEFINE r == view[asking]
             m == list[Pos]
             at == [ip |-> view[m].ip, port |-> m.port]
  <2>0. /\ Searching /\ asking \in Addr /\ r \in Addr \cup {NoAddr, Down}
        /\ list' = list /\ view' = view /\ quiet' = quiet
        /\ tried' = IF redirected THEN tried ELSE tried \cup {asking}
    BY <1>0, <1>2, Zenon DEF loadFromMaster, Searching, TypeOK, cluster
  <2>1. \/ r = Down /\ LoadFailed
        \/ r = NoAddr /\ ~redirected /\ LeaderIPPanics
        \/ r = NoAddr /\ redirected /\ LoadLeaderless
        \/ r \in Addr /\ ~redirected /\ r.ip # asking.ip /\ Redirect(r)
        \/ r \in Addr /\ (redirected \/ r.ip = asking.ip) /\ LoadSucceeded(r)
    BY <1>2, <2>0, HandleCases, Zenon DEF loadFromMaster
  <2>2. phase' # "idle"
    BY <2>0, <2>1, Zenon DEF Searching, LoadFailed, LeaderIPPanics, LoadLeaderless, Redirect,
                      LoadSucceeded, TryNext, Finish, Ask
  <2>3. CASE ~quiet
    BY <2>0, <2>2, <2>3, Zenon DEF FirstInv, StopsAtFirst
  <2>4. CASE quiet
    <3>0. /\ Pos \in 1..Len(list) /\ m # NoAddr /\ (phase = "leader" <=> Pos = 1)
          /\ \A i \in 1..Len(list) : i > Pos => list[i] # NoAddr /\ rest[i - Pos] = list[i]
          /\ \A i \in 1..Len(list) : i < Pos /\ list[i] # NoAddr => ~Stops(i)
          /\ ~redirected => asking = m /\ tried = Listed(Pos - 1)
          /\ redirected =>
               /\ view[m] \in Addr /\ view[m].ip # m.ip
               /\ asking = at /\ tried = Listed(Pos)
      BY <2>0, <2>4, Zenon DEF FirstInv
    <3>1. m \in Addr
      BY <1>0, <3>0, SMTT(30) DEF TypeOK
    <3>2. Listed(Pos) = Listed(Pos - 1) \cup {m}
      BY <1>0, <3>0, SMTT(30) DEF Listed
    <3>3. tried' = Listed(Pos)
      BY <2>0, <3>0, <3>2, Zenon
    <3>4. \A i, k : Stops(i)' = Stops(i) /\ Listed(k)' = Listed(k)
                   /\ LoadOf(list[i])' = LoadOf(list[i])
      BY <2>0 DEF Stops, Listed, LoadOf
    <3>5. ASSUME NEW out, NEW sj, Finish(out, sj), out = LoadOf(m), Stops(Pos),
                 out = "ok" => sj.from = at
          PROVE  FirstInv' /\ StopsAtFirst'
      <4>1. PICK p \in 1..Len(list) : p = Pos
        BY <3>0, Zenon
      <4>2. \A i \in 1..Len(list') : i < p /\ list'[i] # NoAddr => ~Stops(i)'
        BY <2>0, <3>0, <3>4, <4>1, Zenon
      <4>3. outcome' = LoadOf(list[p])' /\ phase' = "done"
            /\ (outcome' = "ok" =>
                  loaded'.from = [ip |-> view'[list'[p]].ip, port |-> list'[p].port])
        BY <2>0, <3>4, <3>5, <4>1, Zenon DEF Finish
      <4>4. EndsAt(p)'
        BY <2>0, <3>0, <3>3, <3>4, <3>5, <4>1, <4>2, <4>3, Zenon DEF EndsAt
      <4>5. (\E i \in 1..Len(list) : EndsAt(i))'
        BY <2>0, <4>1, <4>4, Zenon
      <4>6. FirstInv'
        BY <4>3, Zenon DEF FirstInv, Searching
      <4> QED
        BY <1>0, <4>5, <4>6, EndedStopsAtFirstNext, Zenon
    <3>6. ASSUME TryNext(rest), ~Stops(Pos)
          PROVE  FirstInv' /\ StopsAtFirst'
      <4>0. \A i \in 1..Len(list) : i <= Pos /\ list[i] # NoAddr => ~Stops(i)
        BY <1>0, <3>0, <3>6
      <4>1. CASE rest = << >>
        <5>1. Pos = Len(list)
          <6>1. Len(rest) = 0
            BY <4>1, Zenon
          <6> QED
            BY <1>0, <6>1 DEF Pos
        <5>2. phase' = "done" /\ outcome' = "error"
          BY <3>6, <4>1, Zenon DEF TryNext, Finish
        <5>3. \A i \in 1..Len(list') : list'[i] # NoAddr => ~Stops(i)'
          BY <1>0, <2>0, <3>4, <4>0, <5>1
        <5>4. Exhausted'
          <6>1. tried' = Listed(Len(list))'
            BY <2>0, <3>3, <5>1, Zenon DEF Listed
          <6> QED
            BY <5>2, <5>3, <6>1, Zenon DEF Exhausted
        <5>5. FirstInv'
          BY <5>2, Zenon DEF FirstInv, Searching
        <5> QED
          BY <1>0, <5>4, <5>5, EndedStopsAtFirstNext, Zenon
      <4>2. CASE rest # << >>
        <5>1. /\ phase' = "fallback" /\ asking' = rest[1] /\ rest' = Tail(rest)
              /\ redirected' = FALSE
          BY <1>0, <3>6, <4>2 DEF TryNext, Ask, TypeOK
        <5>2. /\ Len(rest') = Len(rest) - 1 /\ Len(rest) >= 1
              /\ \A i \in 1..Len(rest') : rest'[i] = rest[i + 1]
          BY <1>0, <4>2, <5>1, SMTT(30) DEF TypeOK
        <5>3. Pos' = Pos + 1 /\ Pos + 1 \in 1..Len(list) /\ Pos + 1 # 1
              /\ (Pos + 1) - Pos = 1
          BY <1>0, <2>0, <3>0, <5>2, SMTT(30) DEF Pos
        <5>4. list[Pos + 1] # NoAddr /\ rest[1] = list[Pos + 1]
          BY <3>0, <5>3, SMTT(40)
        <5>5. ASSUME NEW i \in 1..Len(list), i > Pos + 1
              PROVE  list[i] # NoAddr /\ rest'[i - (Pos + 1)] = list[i]
          <6>1. i > Pos /\ i - (Pos + 1) \in 1..Len(rest') /\ (i - (Pos + 1)) + 1 = i - Pos
            BY <1>0, <3>0, <5>2, <5>5, SMTT(30) DEF Pos
          <6>2. rest'[i - (Pos + 1)] = rest[(i - (Pos + 1)) + 1]
            BY <5>2, <6>1, Zenon
          <6> QED
            BY <3>0, <6>1, <6>2, Zenon
        <5>6. \A i \in 1..Len(list) : i < Pos + 1 /\ list[i] # NoAddr => ~Stops(i)'
          BY <1>0, <3>0, <3>4, <4>0
        <5>7. tried' = Listed(Pos - 1)'
          <6>1. (Pos + 1) - 1 = Pos
            BY <3>0
          <6> QED
            BY <2>0, <3>3, <5>3, <6>1, ZenonT(40) DEF Listed
        <5>8. FirstInv'
          BY <2>0, <5>1, <5>3, <5>4, <5>5, <5>6, <5>7, ZenonT(40) DEF FirstInv
        <5>9. StopsAtFirst'
          BY <5>1, Zenon DEF StopsAtFirst
        <5> QED
          BY <5>8, <5>9, Zenon
      <4> QED
        BY <4>1, <4>2, Zenon
    <3>7. ASSUME r \in Addr, ~redirected, r.ip # asking.ip, Redirect(r)
          PROVE  FirstInv' /\ StopsAtFirst'
      <4>1. /\ asking' = at /\ redirected' = TRUE /\ phase' = phase /\ rest' = rest
            /\ view[m] \in Addr /\ view[m].ip # m.ip
        BY <3>0, <3>7, Zenon DEF Redirect
      <4>2. Pos' = Pos /\ tried' = Listed(Pos)'
        BY <2>0, <3>3, <4>1, Zenon DEF Pos, Listed
      <4>3. \A i \in 1..Len(list) : i < Pos /\ list[i] # NoAddr => ~Stops(i)'
        BY <3>0, <3>4, Zenon
      <4>4. FirstInv'
        BY <2>0, <2>2, <3>0, <4>1, <4>2, <4>3, Zenon DEF FirstInv
      <4>5. StopsAtFirst'
        BY <2>0, <4>1, Zenon DEF StopsAtFirst, Searching
      <4> QED
        BY <4>4, <4>5
    <3>9. CASE r = Down /\ LoadFailed
      <4>1. LoadOf(m) = "error"
        BY <1>0, <3>0, <3>1, <3>9, LoadCases, Zenon
      <4>2. CASE phase = "leader"
        <5>1. ~Stops(Pos)
          BY <3>0, <4>1, <4>2, Zenon DEF Stops
        <5> QED
          BY <3>6, <3>9, <4>2, <5>1, Zenon DEF LoadFailed
      <4>3. CASE phase # "leader"
        <5>1. Stops(Pos)
          BY <3>0, <4>1, <4>3, Zenon DEF Stops
        <5>2. Finish("error", NotLoaded)
          BY <3>9, <4>3, Zenon DEF LoadFailed
        <5> QED
          BY <3>5, <4>1, <5>1, <5>2, Zenon
      <4> QED
        BY <4>2, <4>3, Zenon
    <3>10. CASE r = NoAddr /\ ~redirected /\ LeaderIPPanics
      <4>1. LoadOf(m) = "panic"
        BY <1>0, <3>0, <3>1, <3>10, LoadCases, Zenon
      <4>2. Stops(Pos)
        BY <4>1, Zenon DEF Stops
      <4> QED
        BY <3>5, <3>10, <4>1, <4>2, Zenon DEF LeaderIPPanics
    <3>11. CASE r = NoAddr /\ redirected /\ LoadLeaderless
      <4>1. LoadOf(m) = "leaderless"
        BY <1>0, <3>0, <3>1, <3>11, LoadCases, Zenon
      <4>2. ~Stops(Pos)
        BY <4>1, Zenon DEF Stops
      <4> QED
        BY <3>6, <3>11, <4>2, Zenon DEF LoadLeaderless
    <3>12. CASE r \in Addr /\ (redirected \/ r.ip = asking.ip) /\ LoadSucceeded(r)
      <4>1. LoadOf(m) = "ok" /\ asking = at
        BY <1>0, <3>0, <3>1, <3>12, LoadCases, ZenonT(40)
      <4>2. Stops(Pos)
        BY <4>1, Zenon DEF Stops
      <4> QED
        BY <3>5, <3>12, <4>1, <4>2, Zenon DEF LoadSucceeded
    <3> QED
      BY <2>1, <3>7, <3>9, <3>10, <3>11, <3>12, Zenon
  <2> QED
    BY <2>3, <2>4, Zenon
<1>3. CASE Return
  BY <1>3, Zenon DEF Return, FirstInv, Searching, StopsAtFirst
<1>4. CASE ClusterChange
  <2>1. UNCHANGED <<phase, tried>> /\ quiet' = (phase = "idle")
    BY <1>4, Zenon DEF ClusterChange, search
  <2> QED
    BY <2>1, Zenon DEF FirstInv, Searching, StopsAtFirst
<1>5. CASE UNCHANGED vars
  <2>1. /\ view' = view /\ phase' = phase /\ list' = list /\ rest' = rest
        /\ asking' = asking /\ redirected' = redirected /\ outcome' = outcome
        /\ loaded' = loaded /\ tried' = tried /\ quiet' = quiet
    BY <1>5, Zenon DEF vars, cluster, search, result
  <2>2. Pos' = Pos /\ Searching' = Searching
    BY <2>1, Zenon DEF Pos, Searching
  <2>3. /\ \A i : Stops(i)' = Stops(i)
        /\ Listed(Pos)' = Listed(Pos) /\ Listed(Pos - 1)' = Listed(Pos - 1)
    BY <2>1, <2>2, ZenonT(40) DEF Stops, Listed, LoadOf
  <2>4. FirstInv'
    BY <2>1, <2>2, <2>3, Zenon DEF FirstInv
  <2>5. StopsAtFirst'
    <3>1. \A i : LoadOf(list[i])' = LoadOf(list[i])
      BY <2>1, Zenon DEF LoadOf
    <3> QED
      BY <2>1, <3>1, SMTT(40) DEF StopsAtFirst
  <2> QED
    BY <2>4, <2>5
<1> QED
  BY <1>1, <1>2, <1>3, <1>4, <1>5, Zenon DEF Step

LEMMA InitFirstInv == Init => FirstInv /\ StopsAtFirst
BY Zenon DEF Init, SearchInit, FirstInv, Searching, StopsAtFirst

\* In a cluster that does not change during the search, findMaster stops at the
\* first master of the list whose load succeeds, panics or (behind the first)
\* fails, has asked exactly the masters up to there, and returns what that
\* master's load came to: for lists of any length and masters that name any
\* leader.
THEOREM AlwaysStopsAtFirst == Spec => []StopsAtFirst
BY InitSearchInv, InitFirstInv, NextIsStep, StepSearchInv, StepFirstInv, PTL DEF Spec
=============================================================================
