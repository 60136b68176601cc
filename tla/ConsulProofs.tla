------------------------- MODULE ConsulProofs --------------------------
(* The consul resolver, for all services, checks, record sets and bounds.    *)
(* The goroutine of an agent: its cache is sound while it is healthy, the    *)
(* services of others are never touched, and a set that was applied without  *)
(* an error is in place.  Dispatch: every set it sends is that of one state. *)
EXTENDS ConsulAgent, ConsulDispatch, Integers, TLAPS

AgentInv == TypeOK /\ CacheSound /\ ForeignUntouched

\* Taking one of the blocked senders leaves a sequence of record sets, shorter
\* by one.
LEMMA TakeOne ==
  ASSUME NEW S, NEW s \in Seq(S), NEW i \in 1..Len(s)
  PROVE  LET r == SubSeq(s, 1, i - 1) \o SubSeq(s, i + 1, Len(s))
         IN r \in Seq(S) /\ Len(r) = Len(s) - 1
<1>0. Len(s) \in Nat /\ i \in Nat /\ \A j \in 1..Len(s) : s[j] \in S
  OBVIOUS
<1>1. \A j \in 1..(i - 1) : s[j] \in S
  BY <1>0
<1>2. \A j \in (i + 1)..Len(s) : s[j] \in S
  BY <1>0
<1>3. SubSeq(s, 1, i - 1) \in Seq(S) /\ Len(SubSeq(s, 1, i - 1)) = i - 1
  <2>1. i - 1 \in Int /\ 1 \in Int
    BY <1>0
  <2>2. Len(SubSeq(s, 1, i - 1)) = IF 1 <= i - 1 THEN (i - 1) - 1 + 1 ELSE 0
    BY <1>1, <2>1
  <2>3. SubSeq(s, 1, i - 1) \in Seq(S)
    BY <1>1, <2>1
  <2> QED BY <2>2, <2>3, <1>0
<1>4. /\ SubSeq(s, i + 1, Len(s)) \in Seq(S)
      /\ Len(SubSeq(s, i + 1, Len(s))) = Len(s) - i
  <2>1. i + 1 \in Int /\ Len(s) \in Int
    BY <1>0
  <2>2. Len(SubSeq(s, i + 1, Len(s))) =
          IF i + 1 <= Len(s) THEN Len(s) - (i + 1) + 1 ELSE 0
    BY <1>2, <2>1
  <2>3. SubSeq(s, i + 1, Len(s)) \in Seq(S)
    BY <1>2, <2>1
  <2> QED BY <2>2, <2>3, <1>0
<1> DEFINE a == SubSeq(s, 1, i - 1)
           b == SubSeq(s, i + 1, Len(s))
<1>5. a \in Seq(S) /\ b \in Seq(S) /\ Len(a) = i - 1 /\ Len(b) = Len(s) - i
  BY <1>3, <1>4, Zenon
<1> HIDE DEF a, b
<1>6. a \o b \in Seq(S) /\ Len(a \o b) = Len(a) + Len(b)
  BY <1>5, SMTT(30)
<1>7. Len(a \o b) = Len(s) - 1
  BY <1>0, <1>5, <1>6
<1> QED BY <1>6, <1>7, Zenon DEF a, b

\* A call's effect keeps the shape of what Consul holds and touches no service
\* of others; on services it touches only the one it names.
LEMMA EffectOK ==
  ASSUME TypeOK,
         NEW op \in [action : {"add", "remove"}, id : IDs, content : Contents \cup {None}]
  PROVE  /\ Effect(op) \in [IDs \cup Foreign -> Contents \cup {None}]
         /\ \A f \in Foreign : Effect(op)[f] = consul[f]
         /\ \A s \in Services :
              Effect(op)[s] = IF s = op.id
                                THEN IF op.action = "add" THEN op.content ELSE None
                                ELSE consul[s]
  BY ConsulAssumption DEF TypeOK, Effect, IDs

\* An earlier run left record sets behind; the cache starts empty.
LEMMA InitInv == Init => AgentInv
<1> SUFFICES ASSUME Init PROVE AgentInv
  BY Zenon
<1>1. ForeignContent \in Contents
  BY ConsulAssumption, Zenon DEF ForeignContent
<1>2. PICK set \in RecordSets :
        consul = [id \in IDs \cup Foreign |->
                    IF id \in Foreign THEN ForeignContent
                    ELSE IF id \in Poison THEN None ELSE set[id]]
  BY Zenon DEF Init
<1>3. consul \in [IDs \cup Foreign -> Contents \cup {None}]
  <2>1. set \in [IDs -> Contents \cup {None}]
    BY ConsulAssumption, Zenon
  <2> QED BY <1>1, <1>2, <2>1, Zenon
<1>4. Empty \in [IDs -> Contents \cup {None}]
  BY Zenon DEF Empty
<1>5. pending \in Seq(RecordSets) /\ Len(pending) = 0
  BY DEF Init
<1>6. TypeOK
  <2>1. /\ 0 \in 0..(CacheRefresh - 1) /\ 0 <= MaxPending
        /\ 0 \in 0..MaxChanges /\ 0 \in 0..MaxFaults /\ 0 \in 0..MaxForgets
    BY ConsulAssumption
  <2>2. Len(pending) <= MaxPending
    BY <1>5, <2>1, Zenon
  <2>3. work \subseteq [action : {"add", "remove"}, id : IDs, content : Contents]
    BY Zenon DEF Init
  <2>4. healthy \in BOOLEAN /\ pc \in {"top", "refresh", "select", "apply"}
    BY Zenon DEF Init
  <2>5. cache \in [IDs -> Contents \cup {None}]
    BY <1>4, Zenon DEF Init
  <2> QED BY <1>3, <1>5, <2>1, <2>2, <2>3, <2>4, <2>5, Zenon DEF Init, TypeOK
<1>7. ForeignUntouched
  BY <1>2, Zenon DEF ForeignUntouched
<1>8. CacheSound
  BY Zenon DEF Init, CacheSound
<1> QED BY <1>6, <1>7, <1>8, Zenon DEF AgentInv

\* Mesos state changes and record sets are sent without touching the agent.
LEMMA MesosInv == AgentInv /\ (Change \/ Dispatch) => AgentInv'
<1> SUFFICES ASSUME AgentInv, Change \/ Dispatch PROVE AgentInv'
  BY Zenon
<1>1. CASE Change
  <2>1. TypeOK'
    BY <1>1, ConsulAssumption DEF AgentInv, Change, TypeOK, agentVars
  <2> QED BY <1>1, <2>1, Zenon DEF AgentInv, Change, CacheSound, ForeignUntouched, agentVars
<1>2. CASE Dispatch
  <2>1. desired \in RecordSets
    <3>1. Empty[Slave] = None
      BY ConsulAssumption, Zenon DEF Empty, IDs
    <3> QED BY <1>2, <3>1, Zenon DEF AgentInv, Dispatch, TypeOK
  <2>2. pending' \in Seq(RecordSets) /\ Len(pending') = Len(pending) + 1
    BY <1>2, <2>1 DEF AgentInv, Dispatch, TypeOK
  <2>3. TypeOK'
    BY <1>2, <2>2, ConsulAssumption DEF AgentInv, Dispatch, TypeOK, agentVars
  <2> QED BY <1>2, <2>3, Zenon DEF AgentInv, Dispatch, CacheSound, ForeignUntouched, agentVars
<1> QED BY <1>1, <1>2, Zenon

\* When Consul loses a service, the cache is no longer claimed to be sound.
LEMMA ForgetInv == AgentInv /\ Forget => AgentInv'
<1> SUFFICES ASSUME AgentInv, Forget PROVE AgentInv'
  BY Zenon
<1>1. PICK s \in Services :
        consul' = Effect([action |-> "remove", id |-> s, content |-> None])
  BY Zenon DEF Forget
<1> DEFINE op == [action |-> "remove", id |-> s, content |-> None]
<1>2. op \in [action : {"add", "remove"}, id : IDs, content : Contents \cup {None}]
  BY Zenon DEF IDs
<1>3. /\ consul' \in [IDs \cup Foreign -> Contents \cup {None}]
      /\ \A f \in Foreign : consul'[f] = consul[f]
  BY <1>1, <1>2, EffectOK, Zenon DEF AgentInv
<1>4. forgets' \in 1..MaxForgets
  BY ConsulAssumption DEF AgentInv, TypeOK, Forget
<1>5. TypeOK'
  BY <1>3, <1>4 DEF AgentInv, TypeOK, Forget, agentVars
<1> QED BY <1>3, <1>4, <1>5 DEF AgentInv, Forget, CacheSound, ForeignUntouched

\* The top of the loop: a reconnection empties the cache, a refresh copies into
\* it what Consul has.
LEMMA TopInv == AgentInv /\ (Skip \/ Reconnect \/ Refresh) => AgentInv'
<1> SUFFICES ASSUME AgentInv, Skip \/ Reconnect \/ Refresh PROVE AgentInv'
  BY Zenon
<1>0. Empty \in [IDs -> Contents \cup {None}]
  BY Zenon DEF Empty
<1>1. CASE Skip
  BY <1>1, Zenon DEF AgentInv, Skip, TypeOK, CacheSound, ForeignUntouched
<1>2. CASE Reconnect
  <2>1. faults' \in 0..MaxFaults
    BY <1>2, ConsulAssumption DEF AgentInv, TypeOK, Reconnect, Fault
  <2>2. cache' \in {cache, Empty} /\ healthy' \in BOOLEAN
        /\ pc' \in {"top", "refresh"}
    BY <1>2, Zenon DEF AgentInv, TypeOK, Reconnect, Reconnected
  <2>3. TypeOK'
    BY <1>2, <2>1, <2>2, <1>0, Zenon DEF AgentInv, TypeOK, Reconnect
  <2>4. CacheSound'
    <3>1. CASE cache' = Empty
      BY <3>1, Zenon DEF CacheSound, Empty, IDs
    <3>2. CASE cache' = cache /\ healthy' = healthy
      BY <1>2, <3>2, Zenon DEF AgentInv, CacheSound, Reconnect
    <3> QED BY <1>2, <3>1, <3>2, Zenon DEF Reconnect, Reconnected
  <2> QED BY <1>2, <2>3, <2>4, Zenon DEF AgentInv, Reconnect, ForeignUntouched
<1>3. CASE Refresh
  <2>1. faults' \in 0..MaxFaults
    BY <1>3, ConsulAssumption DEF AgentInv, TypeOK, Refresh, Fault
  <2> DEFINE merged == [id \in DOMAIN cache \cup agentServiceRecords |->
                          IF id \in agentServiceRecords THEN consul[id] ELSE cache[id]]
  <2>2. /\ merged \in [IDs -> Contents \cup {None}]
        /\ \A s \in Services : merged[s] = IF consul[s] # None THEN consul[s] ELSE cache[s]
    BY Zenon DEF AgentInv, TypeOK, agentServiceRecords, IDs
  <2>3. cache' \in {cache, Empty, merged}
    BY <1>3, Zenon DEF Refresh, DropCache
  <2>4. TypeOK'
    BY <1>3, <2>1, <2>2, <2>3, <1>0, Zenon DEF AgentInv, TypeOK, Refresh
  <2>5. CacheSound'
    <3>1. CASE cache' = Empty
      BY <3>1 DEF CacheSound, Empty, IDs
    <3>2. CASE cache' = cache
      BY <1>3, <3>2, Zenon DEF AgentInv, CacheSound, Refresh
    <3>3. CASE cache' = merged
      BY <1>3, <2>2, <3>3 DEF AgentInv, CacheSound, Refresh
    <3> QED BY <2>3, <3>1, <3>2, <3>3, Zenon
  <2> QED BY <1>3, <2>4, <2>5, Zenon DEF AgentInv, Refresh, ForeignUntouched
<1> QED BY <1>1, <1>2, <1>3, Zenon

\* A record set received is compared with the cache; every record of the delta is
\* under our prefix.
LEMMA ReceiveInv == AgentInv /\ Receive => AgentInv'
<1> SUFFICES ASSUME AgentInv, Receive PROVE AgentInv'
  OBVIOUS
<1>1. PICK i \in 1..Len(pending) :
        /\ recordSet' = pending[i]
        /\ pending' = SubSeq(pending, 1, i - 1) \o SubSeq(pending, i + 1, Len(pending))
  BY Zenon DEF Receive
<1>2. pending' \in Seq(RecordSets) /\ Len(pending') <= MaxPending
  <2>1. pending \in Seq(RecordSets) /\ Len(pending) <= MaxPending
    BY Zenon DEF AgentInv, TypeOK
  <2>2. pending' \in Seq(RecordSets) /\ Len(pending') = Len(pending) - 1
    BY <1>1, <2>1, TakeOne, Zenon
  <2>3. Len(pending) \in Nat /\ MaxPending \in Nat
    BY <2>1, ConsulAssumption
  <2> QED BY <2>1, <2>2, <2>3
<1>3. recordSet' \in RecordSets /\ recordSet' \in [IDs -> Contents \cup {None}]
  BY <1>1, ConsulAssumption DEF AgentInv, TypeOK
<1>4. cache \in [IDs -> Contents \cup {None}]
  BY Zenon DEF AgentInv, TypeOK
<1>5. ASSUME NEW old, NEW new \in [IDs -> Contents \cup {None}],
             NEW action \in {"add", "remove"}
      PROVE  getDeltaRecords(old, new, action)
               \subseteq [action : {"add", "remove"}, id : IDs, content : Contents]
  BY DEF getDeltaRecords
<1>6. work' \subseteq [action : {"add", "remove"}, id : IDs, content : Contents]
  BY <1>3, <1>4, <1>5, Zenon DEF Receive
<1>7. count' \in 0..(CacheRefresh - 1)
  BY ConsulAssumption DEF AgentInv, TypeOK, Receive
<1>8. TypeOK'
  BY <1>2, <1>3, <1>6, <1>7, Zenon DEF AgentInv, TypeOK, Receive
<1> QED BY <1>8, Zenon DEF AgentInv, Receive, CacheSound, ForeignUntouched

\* One record of the delta: the cache and Consul move together while the agent
\* stays healthy.
LEMMA ApplyInv == AgentInv /\ Apply => AgentInv'
<1> SUFFICES ASSUME AgentInv, Apply PROVE AgentInv'
  OBVIOUS
<1>1. PICK op \in work :
        /\ work' = work \ {op}
        /\ \/ consul' = Effect(op) /\ UNCHANGED <<healthy, faults>>
           \/ healthy' = FALSE /\ UNCHANGED <<consul, faults>>
           \/ Fault /\ healthy' = FALSE /\ consul' \in {consul, Effect(op)}
        /\ UpdateCache(op)
  BY Zenon DEF Apply
<1>2. op \in [action : {"add", "remove"}, id : IDs, content : Contents]
  BY Zenon DEF AgentInv, TypeOK
<1>3. op \in [action : {"add", "remove"}, id : IDs, content : Contents \cup {None}]
  BY <1>2, Zenon
<1>4. /\ Effect(op) \in [IDs \cup Foreign -> Contents \cup {None}]
      /\ \A f \in Foreign : Effect(op)[f] = consul[f]
      /\ \A s \in Services :
           Effect(op)[s] = IF s = op.id
                             THEN IF op.action = "add" THEN op.content ELSE None
                             ELSE consul[s]
  BY <1>3, EffectOK, Zenon DEF AgentInv
<1>5. consul' \in {consul, Effect(op)}
  BY <1>1, Zenon
<1>6. /\ cache' \in [IDs -> Contents \cup {None}]
      /\ \A s \in Services :
           cache'[s] = IF s = op.id
                         THEN IF op.action = "add" THEN op.content ELSE None
                         ELSE cache[s]
  BY <1>1, <1>2, Zenon DEF UpdateCache, AgentInv, TypeOK, IDs
<1>7. faults' \in 0..MaxFaults /\ healthy' \in BOOLEAN
  <2>1. faults \in 0..MaxFaults /\ healthy \in BOOLEAN
    BY Zenon DEF AgentInv, TypeOK
  <2>2. Fault => faults' \in 0..MaxFaults
    BY <2>1, ConsulAssumption DEF Fault
  <2> QED BY <1>1, <2>1, <2>2, Zenon
<1>8. TypeOK'
  <2>1. consul' \in [IDs \cup Foreign -> Contents \cup {None}]
    BY <1>4, <1>5, Zenon DEF AgentInv, TypeOK
  <2> QED BY <1>1, <1>6, <1>7, <2>1, Zenon DEF AgentInv, TypeOK, Apply
<1>9. ForeignUntouched'
  BY <1>4, <1>5, Zenon DEF AgentInv, ForeignUntouched
<1>10. CacheSound'
  <2>1. CASE healthy' = FALSE
    BY <2>1, Zenon DEF CacheSound
  <2>2. CASE consul' = Effect(op) /\ healthy' = healthy
    BY <2>2, <1>4, <1>6, Zenon DEF AgentInv, CacheSound, Apply
  <2> QED BY <1>1, <2>1, <2>2, Zenon
<1> QED BY <1>8, <1>9, <1>10, Zenon DEF AgentInv

\* Every step keeps the invariant.
LEMMA StepInv == AgentInv /\ [Next]_vars => AgentInv'
<1> SUFFICES ASSUME AgentInv, [Next]_vars PROVE AgentInv'
  BY Zenon
<1>1. CASE Change \/ Dispatch BY <1>1, MesosInv, Zenon
<1>2. CASE Forget BY <1>2, ForgetInv, Zenon
<1>3. CASE Skip \/ Reconnect \/ Refresh BY <1>3, TopInv, Zenon
<1>4. CASE Receive BY <1>4, ReceiveInv
<1>5. CASE Apply BY <1>5, ApplyInv
<1>6. CASE Applied
  <2>1. before' \in [IDs -> Contents \cup {None}]
    BY <1>6, Zenon DEF Applied, Empty
  <2>2. TypeOK'
    BY <1>6, <2>1, Zenon DEF AgentInv, Applied, TypeOK
  <2> QED BY <1>6, <2>2, Zenon DEF AgentInv, Applied, CacheSound, ForeignUntouched
<1>7. CASE UNCHANGED vars
  BY <1>7, Zenon DEF AgentInv, vars, agentVars, TypeOK, CacheSound, ForeignUntouched
<1> QED BY <1>1, <1>2, <1>3, <1>4, <1>5, <1>6, <1>7, Zenon DEF Next, Agent

\* While the agent is healthy its cache claims no service that Consul does not
\* have with that content, whichever calls fail and whether or not a failed call
\* took effect.
THEOREM CacheAlwaysSound == Spec => []CacheSound
<1>1. AgentInv => CacheSound
  BY Zenon DEF AgentInv
<1> QED BY <1>1, InitInv, StepInv, PTL DEF Spec

\* No sequence of record sets, failures and reconnections makes the goroutine
\* change a service registered by others.
THEOREM ForeignNeverTouched == Spec => []ForeignUntouched
<1>1. AgentInv => ForeignUntouched
  BY Zenon DEF AgentInv
<1> QED BY <1>1, InitInv, StepInv, PTL DEF Spec

-----------------------------------------------------------------------------
(* What a record set leaves in Consul *)

AddOf(s) == [action |-> "add", id |-> s, content |-> recordSet[s]]
RemoveOf(s) == [action |-> "remove", id |-> s, content |-> before[s]]

ToAdd(s) == recordSet[s] # None /\ before[s] # recordSet[s]
ToRemove(s) == before[s] # None /\ recordSet[s] # before[s]

\* Halfway through a delta: what is left of it for a service is its addition or
\* its removal; a removal that is done came after the addition, and left nothing.
WorkLeft ==
  \A op \in work : op.id \in Services => \/ op = AddOf(op.id) /\ ToAdd(op.id)
                                         \/ op = RemoveOf(op.id) /\ ToRemove(op.id)
Settled(s) ==
  /\ ~ToAdd(s) /\ ~ToRemove(s) /\ before[s] # None => consul[s] = before[s]
  /\ ToAdd(s) /\ ~ToRemove(s) /\ AddOf(s) \notin work => consul[s] = recordSet[s]
  /\ ToRemove(s) /\ RemoveOf(s) \notin work => AddOf(s) \notin work /\ consul[s] = None
SetInv ==
  pc = "apply" /\ healthy /\ forgets = 0 => WorkLeft /\ \A s \in Services : Settled(s)

\* The delta of a record set against a cache.
LEMMA DeltaOf ==
  ASSUME NEW old \in [IDs -> Contents \cup {None}], NEW new \in [IDs -> Contents \cup {None}],
         NEW action, NEW op
  PROVE  op \in getDeltaRecords(old, new, action) <=>
           \E id \in IDs : /\ op = [action |-> action, id |-> id, content |-> new[id]]
                           /\ new[id] # None /\ old[id] # new[id]
BY Zenon DEF getDeltaRecords

\* A set received leaves as work what it changes.
LEMMA ReceiveSetInv == AgentInv /\ Receive => SetInv'
<1> SUFFICES ASSUME AgentInv, Receive, healthy, forgets = 0
             PROVE  SetInv'
  BY Zenon DEF SetInv, Receive
<1>1. /\ cache \in [IDs -> Contents \cup {None}] /\ recordSet' \in [IDs -> Contents \cup {None}]
      /\ before' = cache /\ consul' = consul
  <2>1. AgentInv'
    BY ReceiveInv, Zenon
  <2>2. Empty \in [IDs -> Contents \cup {None}]
    BY Zenon DEF Empty
  <2> QED
    BY <2>1, <2>2, ConsulAssumption, Zenon DEF AgentInv, TypeOK, Receive
<1>2. \A op : op \in work' <=>
        \E id \in IDs :
          \/ /\ op = [action |-> "add", id |-> id, content |-> recordSet'[id]]
             /\ recordSet'[id] # None /\ before'[id] # recordSet'[id]
          \/ /\ op = [action |-> "remove", id |-> id, content |-> before'[id]]
             /\ before'[id] # None /\ recordSet'[id] # before'[id]
  <2>1. work' = getDeltaRecords(cache, recordSet', "add")
                \cup getDeltaRecords(recordSet', cache, "remove")
    BY Zenon DEF Receive
  <2> QED
    BY <1>1, <2>1, DeltaOf
<1>3. ASSUME NEW op \in work', op.id \in Services
      PROVE  \/ op = AddOf(op.id)' /\ ToAdd(op.id)'
             \/ op = RemoveOf(op.id)' /\ ToRemove(op.id)'
  BY <1>2, <1>3 DEF AddOf, RemoveOf, ToAdd, ToRemove
<1>4. ASSUME NEW s \in Services
      PROVE  /\ ToAdd(s)' => AddOf(s)' \in work'
             /\ ToRemove(s)' => RemoveOf(s)' \in work'
             /\ before'[s] # None => consul'[s] = before'[s]
  <2>1. s \in IDs
    BY Zenon DEF IDs
  <2>2. ToAdd(s)' => AddOf(s)' \in work'
    BY <1>2, <2>1, Zenon DEF AddOf, ToAdd
  <2>3. ToRemove(s)' => RemoveOf(s)' \in work'
    BY <1>2, <2>1, Zenon DEF RemoveOf, ToRemove
  <2>4. before'[s] # None => consul'[s] = before'[s]
    BY <1>1, Zenon DEF AgentInv, CacheSound
  <2> QED
    BY <2>2, <2>3, <2>4, Zenon
<1> QED
  BY <1>3, <1>4, Zenon DEF SetInv, WorkLeft, Settled

\* A record applied is work done; what is settled stays settled.
LEMMA ApplySetInv == AgentInv /\ SetInv /\ Apply => SetInv'
<1> SUFFICES ASSUME AgentInv, SetInv, Apply, healthy', forgets' = 0
             PROVE  SetInv'
  BY Zenon DEF SetInv
<1>0. pc = "apply" /\ healthy /\ forgets = 0
      /\ UNCHANGED <<recordSet, before>>
  BY Zenon DEF Apply
<1>00. WorkLeft /\ \A s \in Services : Settled(s)
  BY <1>0, Zenon DEF SetInv
<1>1. PICK op \in work :
        /\ \A o \in work : Rank(op) <= Rank(o)
        /\ work' = work \ {op}
        /\ consul' = Effect(op)
  BY Zenon DEF Apply
<1>2. op \in [action : {"add", "remove"}, id : IDs, content : Contents]
  BY Zenon DEF AgentInv, TypeOK
<1>3. \A s \in Services :
        consul'[s] = IF s = op.id THEN IF op.action = "add" THEN op.content ELSE None
                     ELSE consul[s]
  <2>1. op \in [action : {"add", "remove"}, id : IDs, content : Contents \cup {None}]
    BY <1>2, Zenon
  <2> QED
    BY <1>1, <2>1, EffectOK, Zenon DEF AgentInv
<1>4. \A s : /\ AddOf(s)' = AddOf(s) /\ RemoveOf(s)' = RemoveOf(s)
             /\ ToAdd(s)' = ToAdd(s) /\ ToRemove(s)' = ToRemove(s)
  BY <1>0, Zenon DEF AddOf, RemoveOf, ToAdd, ToRemove
<1>5. ASSUME NEW o \in work', o.id \in Services
      PROVE  \/ o = AddOf(o.id) /\ ToAdd(o.id)
             \/ o = RemoveOf(o.id) /\ ToRemove(o.id)
  BY <1>1, <1>5, <1>00, Zenon DEF WorkLeft
<1>6. ASSUME NEW s \in Services
      PROVE  /\ ~ToAdd(s) /\ ~ToRemove(s) /\ before[s] # None => consul'[s] = before[s]
             /\ ToAdd(s) /\ ~ToRemove(s) /\ AddOf(s) \notin work' => consul'[s] = recordSet[s]
             /\ ToRemove(s) /\ RemoveOf(s) \notin work'
                  => AddOf(s) \notin work' /\ consul'[s] = None
  <2>0. /\ ~ToAdd(s) /\ ~ToRemove(s) /\ before[s] # None => consul[s] = before[s]
        /\ ToAdd(s) /\ ~ToRemove(s) /\ AddOf(s) \notin work => consul[s] = recordSet[s]
        /\ ToRemove(s) /\ RemoveOf(s) \notin work => AddOf(s) \notin work /\ consul[s] = None
    BY <1>00, Zenon DEF Settled
  <2>1. CASE op.id # s
    <3>1. consul'[s] = consul[s]
      BY <1>3, <2>1, Zenon
    <3>2. AddOf(s) # op /\ RemoveOf(s) # op
      BY <2>1 DEF AddOf, RemoveOf
    <3> QED
      BY <1>1, <2>0, <3>1, <3>2, Zenon
  <2>2. CASE op.id = s
    <3>0. (op = AddOf(s) /\ ToAdd(s)) \/ (op = RemoveOf(s) /\ ToRemove(s))
      BY <1>1, <1>00, <2>2, Zenon DEF WorkLeft
    <3>1. CASE op = AddOf(s) /\ ToAdd(s)
      <4>1. consul'[s] = recordSet[s] /\ RemoveOf(s) # op
        BY <1>3, <2>2, <3>1 DEF AddOf, RemoveOf
      <4>2. ToRemove(s) => RemoveOf(s) \in work'
        BY <1>1, <2>0, <3>1, <4>1, Zenon
      <4> QED
        BY <3>1, <4>1, <4>2, Zenon
    <3>2. CASE op = RemoveOf(s) /\ ToRemove(s)
      <4>1. consul'[s] = None
        BY <1>3, <2>2, <3>2 DEF RemoveOf
      <4>2. AddOf(s) \notin work
        <5>1. s \notin Checks
          BY ConsulAssumption, Zenon
        <5>2. Rank(AddOf(s)) = 0 /\ Rank(op) = 2
          BY <3>2, <5>1 DEF Rank, AddOf, RemoveOf
        <5> QED
          BY <1>1, <5>2
      <4> QED
        BY <1>1, <3>2, <4>1, <4>2, Zenon
    <3> QED
      BY <3>0, <3>1, <3>2, Zenon
  <2> QED
    BY <2>1, <2>2, Zenon
<1> QED
  BY <1>0, <1>4, <1>5, <1>6, Zenon DEF SetInv, WorkLeft, Settled

\* Every step keeps it.
LEMMA StepSetInv == AgentInv /\ SetInv /\ [Next]_vars => SetInv'
<1> SUFFICES ASSUME AgentInv, SetInv, [Next]_vars PROVE SetInv'
  BY Zenon
<1>1. CASE Change \/ Dispatch
  BY <1>1, ZenonT(40) DEF Change, Dispatch, agentVars, SetInv, WorkLeft, Settled, AddOf, RemoveOf, ToAdd, ToRemove
<1>2. CASE Forget
  <2>1. forgets' # 0
    BY <1>2 DEF Forget, AgentInv, TypeOK
  <2> QED
    BY <2>1, Zenon DEF SetInv
<1>3. CASE Skip \/ Reconnect \/ Refresh \/ Applied
  <2>1. pc' # "apply"
    BY <1>3, Zenon DEF Skip, Reconnect, Refresh, Applied
  <2> QED
    BY <2>1, Zenon DEF SetInv
<1>4. CASE Receive
  BY <1>4, ReceiveSetInv, Zenon
<1>5. CASE Apply
  BY <1>5, ApplySetInv, Zenon
<1>6. CASE UNCHANGED vars
  BY <1>6, Zenon DEF vars, agentVars, SetInv, WorkLeft, Settled, AddOf, RemoveOf, ToAdd, ToRemove
<1> QED
  BY <1>1, <1>2, <1>3, <1>4, <1>5, <1>6, Zenon DEF Next, Agent

\* A record set that was applied without an error leaves exactly what SetApplied
\* says, for any set, cache and order of the delta: in particular a service whose
\* content changed is gone until the next set.
THEOREM SetAlwaysApplied == Spec => []SetApplied
<1>1. Init => SetInv
  BY Zenon DEF Init, SetInv
<1>2. AgentInv /\ SetInv => SetApplied
  <2> SUFFICES ASSUME AgentInv, SetInv, pc = "apply", work = {}, healthy, forgets = 0,
                      NEW s \in Services, recordSet[s] # None \/ before[s] # None
               PROVE  consul[s] = IF before[s] \in {None, recordSet[s]} THEN recordSet[s]
                                  ELSE None
    BY Zenon DEF SetApplied
  <2> QED
    BY Zenon DEF SetInv, Settled, ToAdd, ToRemove
<1> QED
  BY <1>1, <1>2, InitInv, StepInv, StepSetInv, PTL DEF Spec

\* The state of the agent keeps its type: in particular the cache and the delta
\* only ever hold IDs under our prefix, whatever else Consul has registered.
THEOREM AgentTypeOK == Spec => []TypeOK
<1>1. AgentInv => TypeOK
  BY Zenon DEF AgentInv
<1> QED BY <1>1, InitInv, StepInv, PTL DEF Spec
-----------------------------------------------------------------------------
(* The other side: Dispatch and the KV poller (module ConsulDispatch) *)

\* The records of a Mesos state: those of the slaves, and with the KV pairs given
\* also those of the tasks.
SlaveSlots(st) == {Slot(s.id, "slave", s.id) : s \in st.slaves}
SlotsOf(st, pairs) == SlaveSlots(st) \cup TaskRecords(st, pairs)
For(slots, slave) == {x.record : x \in {y \in slots : y.slave = slave}}

\* The pairs the poller offers when no listing has failed.
Listed == IF refresh = 1 THEN {} ELSE Endpoints
Offered(pairs) == pairs \subseteq Endpoints /\ (~kvFailed => pairs = Listed)

PollerInv ==
  /\ refresh \in CacheRefreshes /\ kcount \in 0..(refresh - 1)
  /\ kpc \in {"count", "list", "offer"} /\ kvs \subseteq Endpoints /\ kvFailed \in BOOLEAN
  /\ refresh = 1 => kpc # "list" /\ kvs = {}
  /\ refresh # 1 /\ ~kvFailed =>
       kvs = Endpoints \/ kpc = "list" \/ (kpc = "count" /\ kcount = 0)

\* How far a Reload is: its own state, and what it has gathered from it.
ReloadOK(r) ==
  /\ phase[r] \in {"none", "mesos", "frameworks", "tasks", "emit", "done"}
  /\ phase[r] # "none" => rg[r] \in States
  /\ phase[r] \in {"frameworks", "tasks", "emit"} =>
       consulAgent[r] = OnAgents(rg[r].slaves)
  /\ phase[r] = "frameworks" => \A l \in slaveLookup[r] : l.addr \in Agents
  /\ phase[r] \in {"frameworks", "tasks"} => records[r] = SlaveSlots(rg[r])
  /\ phase[r] = "emit" => \E pairs : Offered(pairs) /\ records[r] = SlotsOf(rg[r], pairs)

\* A set on its way to an agent is the part of one Mesos state's records that its
\* slave has.
SendOK(m) ==
  /\ m.reload \in Reloads /\ phase[m.reload] = "done"
  /\ [id |-> m.slave, addr |-> m.addr] \in OnAgents(rg[m.reload].slaves)
  /\ \E pairs : Offered(pairs) /\ m.records = For(SlotsOf(rg[m.reload], pairs), m.slave)

DispatchInv ==
  /\ PollerInv
  /\ DOMAIN phase = Reloads /\ DOMAIN rg = Reloads
  /\ DOMAIN consulAgent = Reloads /\ DOMAIN slaveLookup = Reloads
  /\ DOMAIN records = Reloads
  /\ \A r \in Reloads : ReloadOK(r)
  /\ \A m \in sends : SendOK(m)

\* The records of one slave, one by one.
LEMMA SlotsFor ==
  ASSUME NEW st, NEW pairs, NEW slave, NEW addr, NEW x,
         [id |-> slave, addr |-> addr] \in st.slaves
  PROVE  x \in For(SlotsOf(st, pairs), slave) <=>
           \/ x = [kind |-> "slave", name |-> slave]
           \/ \E t \in st.tasks :
                /\ t.slave = slave /\ Runs(t)
                /\ \/ x = [kind |-> "task", name |-> t.id]
                   \/ \E c \in createHealthChecks(t.checks, pairs) :
                        x = [kind |-> "check", name |-> c]
<1>1. \A y : y \in SlaveSlots(st) <=>
        \E s \in st.slaves : y = [slave |-> s.id, record |-> [kind |-> "slave", name |-> s.id]]
  BY Zenon DEF SlaveSlots, Slot
<1>2. \A y : y \in TaskRecords(st, pairs) <=>
        \E t \in st.tasks :
          /\ Runs(t)
          /\ \/ y = [slave |-> t.slave, record |-> [kind |-> "task", name |-> t.id]]
             \/ \E c \in createHealthChecks(t.checks, pairs) :
                  y = [slave |-> t.slave, record |-> [kind |-> "check", name |-> c]]
  BY DEF TaskRecords, Slot
<1>3. x \in For(SlotsOf(st, pairs), slave) <=>
        \E y : y \in SlotsOf(st, pairs) /\ y.slave = slave /\ x = y.record
  BY Zenon DEF For
<1>4. ASSUME x \in For(SlotsOf(st, pairs), slave)
      PROVE  \/ x = [kind |-> "slave", name |-> slave]
             \/ \E t \in st.tasks :
                  /\ t.slave = slave /\ Runs(t)
                  /\ \/ x = [kind |-> "task", name |-> t.id]
                     \/ \E c \in createHealthChecks(t.checks, pairs) :
                          x = [kind |-> "check", name |-> c]
  <2>1. PICK y : y \in SlotsOf(st, pairs) /\ y.slave = slave /\ x = y.record
    BY <1>3, <1>4, Zenon
  <2>2. CASE y \in SlaveSlots(st)
    BY <1>1, <2>1, <2>2, SMTT(40)
  <2>3. CASE y \in TaskRecords(st, pairs)
    <3>1. PICK t \in st.tasks :
            /\ Runs(t)
            /\ \/ y = [slave |-> t.slave, record |-> [kind |-> "task", name |-> t.id]]
               \/ \E c \in createHealthChecks(t.checks, pairs) :
                    y = [slave |-> t.slave, record |-> [kind |-> "check", name |-> c]]
      BY <1>2, <2>3, Zenon
    <3>2. CASE y = [slave |-> t.slave, record |-> [kind |-> "task", name |-> t.id]]
      BY <2>1, <3>1, <3>2, Zenon
    <3>3. ASSUME NEW c \in createHealthChecks(t.checks, pairs),
                 y = [slave |-> t.slave, record |-> [kind |-> "check", name |-> c]]
          PROVE  t.slave = slave /\ x = [kind |-> "check", name |-> c]
      BY <2>1, <3>3, Zenon
    <3> QED
      BY <3>1, <3>2, <3>3, Zenon
  <2> QED
    BY <2>1, <2>2, <2>3, Zenon DEF SlotsOf
<1>5. [slave |-> slave, record |-> [kind |-> "slave", name |-> slave]] \in SlotsOf(st, pairs)
  BY <1>1, Zenon DEF SlotsOf
<1>6. ASSUME NEW rec, [slave |-> slave, record |-> rec] \in SlotsOf(st, pairs)
      PROVE  rec \in For(SlotsOf(st, pairs), slave)
  BY <1>6 DEF For
<1>7. [kind |-> "slave", name |-> slave] \in For(SlotsOf(st, pairs), slave)
  BY <1>5, <1>6, Zenon
<1>8. ASSUME NEW t \in st.tasks, t.slave = slave, Runs(t)
      PROVE  /\ [kind |-> "task", name |-> t.id] \in For(SlotsOf(st, pairs), slave)
             /\ \A c \in createHealthChecks(t.checks, pairs) :
                  [kind |-> "check", name |-> c] \in For(SlotsOf(st, pairs), slave)
  <2>1. /\ [slave |-> slave, record |-> [kind |-> "task", name |-> t.id]]
             \in SlotsOf(st, pairs)
        /\ \A c \in createHealthChecks(t.checks, pairs) :
             [slave |-> slave, record |-> [kind |-> "check", name |-> c]]
               \in SlotsOf(st, pairs)
    BY <1>2, <1>8, Zenon DEF SlotsOf
  <2> QED
    BY <1>6, <2>1, Zenon
<1> QED
  BY <1>4, <1>7, <1>8, Zenon

\* At the start no Reload has begun and nothing is sent.
LEMMA InitDispatch == DispatchInit => DispatchInv
<1> SUFFICES ASSUME DispatchInit PROVE DispatchInv
  OBVIOUS
<1>1. PollerInv
  <2>1. refresh \in CacheRefreshes /\ refresh \in Nat \ {0} /\ kcount = 0
    BY DispatchAssumption, Zenon DEF DispatchInit
  <2>2. kcount \in 0..(refresh - 1)
    BY <2>1
  <2> QED
    BY <2>1, <2>2, Zenon DEF DispatchInit, PollerInv
<1>2. /\ DOMAIN phase = Reloads /\ DOMAIN rg = Reloads
      /\ DOMAIN consulAgent = Reloads /\ DOMAIN slaveLookup = Reloads
      /\ DOMAIN records = Reloads
  BY Zenon DEF DispatchInit
<1>3. \A r \in Reloads : ReloadOK(r)
  BY Zenon DEF DispatchInit, ReloadOK
<1> QED
  BY <1>1, <1>2, <1>3, Zenon DEF DispatchInit, DispatchInv

\* The poller, and the Reloads that take what it offers, keep its invariant; what
\* was once offered stays the pairs that were listed.
LEMMA PollerStep ==
  ASSUME PollerInv, [DispatchNext]_dispatchVars
  PROVE  /\ PollerInv'
         /\ \A pairs : Offered(pairs) => Offered(pairs)'
<1>0. refresh \in Nat /\ refresh # 0 /\ kcount \in Nat /\ kcount < refresh
  BY DispatchAssumption DEF PollerInv
<1>1. CASE KVTurn
  <2>1. /\ kpc = "count" /\ kcount' = (kcount + 1) % refresh
        /\ kpc' = IF kcount' = 1 THEN "list" ELSE "offer"
        /\ UNCHANGED <<refresh, kvs, kvFailed>>
    BY <1>1, Zenon DEF KVTurn
  <2>2. kcount' \in 0..(refresh - 1)
    BY <1>0, <2>1
  <2>3. refresh # 1 /\ kcount = 0 => kcount' = 1
    BY <1>0, <2>1
  <2>4. refresh = 1 => kcount' # 1
    BY <2>2
  <2> QED
    BY <2>1, <2>2, <2>3, <2>4, Zenon DEF PollerInv, Offered, Listed
<1>2. CASE KVList
  BY <1>2, Zenon DEF KVList, PollerInv, Offered, Listed
<1>3. ASSUME NEW r \in Reloads, DispatchTasks(r)
      PROVE  PollerInv' /\ \A pairs : Offered(pairs) => Offered(pairs)'
  BY <1>3, Zenon DEF DispatchTasks, PollerInv, Offered, Listed
<1>4. CASE UNCHANGED kvVars
  BY <1>4, Zenon DEF kvVars, PollerInv, Offered, Listed
<1>5. CASE Deliver
  BY <1>4, <1>5, Zenon DEF Deliver
<1>6. CASE UNCHANGED dispatchVars
  BY <1>4, <1>6, Zenon DEF dispatchVars
<1>7. ASSUME NEW r \in Reloads,
             Reload(r) \/ DispatchMesos(r) \/ DispatchFrameworks(r) \/ Emit(r)
      PROVE  UNCHANGED kvVars
  BY <1>7, Zenon DEF Reload, DispatchMesos, DispatchFrameworks, Emit
<1> QED
  BY <1>1, <1>2, <1>3, <1>4, <1>5, <1>6, <1>7, Zenon DEF DispatchNext, DispatchLoops, pollConsulKVHC

\* A step that is not of a Reload leaves it as it is, and a step that touches
\* neither phase nor state of a set's Reload the set.
LEMMA KeepReload ==
  ASSUME NEW q, ReloadOK(q), \A pairs : Offered(pairs) => Offered(pairs)',
         phase'[q] = phase[q], rg'[q] = rg[q], consulAgent'[q] = consulAgent[q],
         slaveLookup'[q] = slaveLookup[q], records'[q] = records[q]
  PROVE  ReloadOK(q)'
BY Zenon DEF ReloadOK

\* A set stays what it is while its Reload and the pairs it used do.
LEMMA KeepSend ==
  ASSUME NEW m, SendOK(m), \A pairs : Offered(pairs) => Offered(pairs)',
         phase'[m.reload] = phase[m.reload], rg'[m.reload] = rg[m.reload]
  PROVE  SendOK(m)'
BY Zenon DEF SendOK

\* A step of one Reload which leaves that Reload, and the sets it sends, in order.
LEMMA OneReload ==
  ASSUME DispatchInv, PollerInv', \A pairs : Offered(pairs) => Offered(pairs)',
         NEW r \in Reloads, phase[r] # "done",
         /\ DOMAIN phase' = Reloads /\ DOMAIN rg' = Reloads
         /\ DOMAIN consulAgent' = Reloads /\ DOMAIN slaveLookup' = Reloads
         /\ DOMAIN records' = Reloads,
         \A q \in Reloads \ {r} :
           /\ phase'[q] = phase[q] /\ rg'[q] = rg[q] /\ consulAgent'[q] = consulAgent[q]
           /\ slaveLookup'[q] = slaveLookup[q] /\ records'[q] = records[q],
         ReloadOK(r)',
         \A m \in sends' \ sends : SendOK(m)'
  PROVE  DispatchInv'
<1>1. ASSUME NEW q \in Reloads PROVE ReloadOK(q)'
  <2>1. CASE q = r
    BY <2>1, Zenon
  <2>2. CASE q # r
    <3>1. ReloadOK(q)
      BY Zenon DEF DispatchInv
    <3> QED
      BY <2>2, <3>1, KeepReload, Zenon
  <2> QED
    BY <2>1, <2>2, Zenon
<1>2. ASSUME NEW m \in sends' PROVE SendOK(m)'
  <2>1. CASE m \in sends
    <3>1. SendOK(m)
      BY <2>1, Zenon DEF DispatchInv
    <3>2. m.reload \in Reloads /\ m.reload # r
      BY <3>1, Zenon DEF SendOK
    <3> QED
      BY <3>1, <3>2, KeepSend, Zenon
  <2> QED
    BY <2>1, Zenon
<1>3. Reloads' = Reloads
  BY Zenon DEF Reloads
<1> QED
  BY <1>1, <1>2, <1>3, Zenon DEF DispatchInv

\* Every step of Dispatch, of the goroutines it starts and of the poller.
LEMMA StepDispatch ==
  DispatchInv /\ [DispatchNext]_dispatchVars => DispatchInv'
<1> SUFFICES ASSUME DispatchInv, [DispatchNext]_dispatchVars
             PROVE  DispatchInv'
  OBVIOUS
<1>0. /\ DOMAIN phase = Reloads /\ DOMAIN rg = Reloads
      /\ DOMAIN consulAgent = Reloads /\ DOMAIN slaveLookup = Reloads
      /\ DOMAIN records = Reloads
      /\ \A r \in Reloads : ReloadOK(r)
      /\ \A m \in sends : SendOK(m)
  BY Zenon DEF DispatchInv
<1>1. PollerInv' /\ \A pairs : Offered(pairs) => Offered(pairs)'
  BY PollerStep, Zenon DEF DispatchInv
<1>2. CASE UNCHANGED reloadVars /\ sends' \subseteq sends
  <2>1. /\ phase' = phase /\ rg' = rg /\ consulAgent' = consulAgent
        /\ slaveLookup' = slaveLookup /\ records' = records
    BY <1>2, Zenon DEF reloadVars
  <2>2. \A r \in Reloads : ReloadOK(r)'
    BY <1>0, <1>1, <2>1, KeepReload, Zenon
  <2>3. \A m \in sends' : SendOK(m)'
    BY <1>0, <1>1, <1>2, <2>1, KeepSend, Zenon
  <2>4. Reloads' = Reloads
    BY Zenon DEF Reloads
  <2> QED
    BY <1>0, <1>1, <2>1, <2>2, <2>3, <2>4, Zenon DEF DispatchInv
<1>3. CASE KVTurn \/ KVList \/ Deliver \/ UNCHANGED dispatchVars
  <2>1. UNCHANGED reloadVars /\ sends' \subseteq sends
    BY <1>3, Zenon DEF KVTurn, KVList, Deliver, dispatchVars
  <2> QED
    BY <1>2, <2>1, Zenon
<1>4. ASSUME NEW r \in Reloads, Reload(r) PROVE DispatchInv'
  <2>1. PICK st \in States : rg' = [rg EXCEPT ![r] = st]
    BY <1>4, Zenon DEF Reload
  <2>2. /\ phase[r] = "none" /\ phase' = [phase EXCEPT ![r] = "mesos"]
        /\ UNCHANGED <<consulAgent, slaveLookup, records, sends>>
    BY <1>4, Zenon DEF Reload
  <2>3. ReloadOK(r)'
    BY <1>0, <2>1, <2>2, Zenon DEF ReloadOK
  <2> QED
    BY <1>0, <1>1, <2>1, <2>2, <2>3, OneReload, Zenon
<1>5. ASSUME NEW r \in Reloads, DispatchMesos(r) PROVE DispatchInv'
  <2>1. /\ phase[r] = "mesos" /\ phase' = [phase EXCEPT ![r] = "frameworks"]
        /\ consulAgent' = [consulAgent EXCEPT ![r] = OnAgents(rg[r].slaves)]
        /\ records' = [records EXCEPT ![r] = SlaveSlots(rg[r])]
        /\ rg' = rg /\ sends' = sends
    BY <1>5, Zenon DEF DispatchMesos, SlaveSlots
  <2>2. PICK f \in [{s.addr : s \in OnAgents(rg[r].slaves)}
                      -> {s.id : s \in OnAgents(rg[r].slaves)}] :
          slaveLookup' = [slaveLookup EXCEPT ![r] =
                            {[addr |-> a, slave |-> f[a]] : a \in DOMAIN f}]
    BY <1>5, Zenon DEF DispatchMesos
  <2>3. \A l \in slaveLookup'[r] : l.addr \in Agents
    <3>1. DOMAIN f \subseteq Agents
      BY DEF OnAgents
    <3>2. slaveLookup'[r] = {[addr |-> a, slave |-> f[a]] : a \in DOMAIN f}
      BY <1>0, <2>2, Zenon
    <3> QED
      BY <3>1, <3>2
  <2>4. phase'[r] = "frameworks" /\ records'[r] = SlaveSlots(rg[r])
        /\ consulAgent'[r] = OnAgents(rg[r].slaves) /\ rg[r] \in States
    BY <1>0, <2>1, Zenon DEF ReloadOK
  <2>5. ReloadOK(r)'
    <3>1. /\ SlaveSlots(rg[r])' = SlaveSlots(rg[r])
          /\ OnAgents(rg[r].slaves)' = OnAgents(rg[r].slaves)
      BY <2>1, Zenon DEF SlaveSlots, Slot, OnAgents
    <3> QED
      BY <2>1, <2>3, <2>4, <3>1, Zenon DEF ReloadOK
  <2>6. DOMAIN slaveLookup' = Reloads
        /\ \A q \in Reloads \ {r} : slaveLookup'[q] = slaveLookup[q]
    BY <1>0, <2>2, Zenon
  <2> QED
    BY <1>0, <1>1, <2>1, <2>5, <2>6, OneReload, Zenon
<1>6. ASSUME NEW r \in Reloads, DispatchFrameworks(r) PROVE DispatchInv'
  <2>1. /\ phase[r] = "frameworks" /\ phase' = [phase EXCEPT ![r] = "tasks"]
        /\ UNCHANGED <<rg, consulAgent, slaveLookup, sends>>
    BY <1>6, Zenon DEF DispatchFrameworks
  <2>2. records' = [records EXCEPT ![r] = @]
    <3>1. \A p \in rg[r].frameworks \X slaveLookup[r] : p[2].addr # FrameworkAddress(p[1])
      <4>1. \A l \in slaveLookup[r] : l.addr \in Agents
        BY <1>0, <2>1, Zenon DEF ReloadOK
      <4> QED
        BY <4>1, DispatchAssumption, Zenon DEF FrameworkAddress
    <3>2. {p \in rg[r].frameworks \X slaveLookup[r] :
             /\ ~Skipped(p[1]) /\ p[1].host # NoAddr
             /\ p[2].addr = FrameworkAddress(p[1])} = {}
      BY <3>1, Zenon
    <3>3. records' = [records EXCEPT ![r] = @ \cup
            {Slot(q[2].slave, "framework", q[1].name) :
               q \in {p \in rg[r].frameworks \X slaveLookup[r] :
                        /\ ~Skipped(p[1]) /\ p[1].host # NoAddr
                        /\ p[2].addr = FrameworkAddress(p[1])}}]
      BY <1>6, Zenon DEF DispatchFrameworks
    <3> QED
      BY <3>2, <3>3, Zenon
  <2>3. phase'[r] = "tasks" /\ records'[r] = records[r]
    BY <1>0, <2>1, <2>2, Zenon
  <2>4. ReloadOK(r)'
    <3>1. SlaveSlots(rg[r])' = SlaveSlots(rg[r])
          /\ OnAgents(rg[r].slaves)' = OnAgents(rg[r].slaves)
      BY <2>1, Zenon DEF SlaveSlots, Slot, OnAgents
    <3> QED
      BY <1>0, <2>1, <2>3, <3>1, Zenon DEF ReloadOK
  <2> QED
    BY <1>0, <1>1, <2>1, <2>2, <2>4, OneReload, Zenon
<1>7. ASSUME NEW r \in Reloads, DispatchTasks(r) PROVE DispatchInv'
  <2>1. /\ phase[r] = "tasks" /\ phase' = [phase EXCEPT ![r] = "emit"] /\ kpc = "offer"
        /\ records' = [records EXCEPT ![r] = @ \cup TaskRecords(rg[r], kvs)]
        /\ UNCHANGED <<rg, consulAgent, slaveLookup, sends>>
    BY <1>7, Zenon DEF DispatchTasks
  <2>2. Offered(kvs)
    BY <2>1, Zenon DEF DispatchInv, PollerInv, Offered, Listed
  <2>3. phase'[r] = "emit" /\ records'[r] = SlotsOf(rg[r], kvs)
    BY <1>0, <2>1, Zenon DEF ReloadOK, SlotsOf
  <2>4. ReloadOK(r)'
    <3>1. PICK pairs : pairs = kvs
      BY Zenon
    <3>2. Offered(pairs)' /\ records'[r] = SlotsOf(rg[r], pairs)
      BY <1>1, <2>2, <2>3, <3>1, Zenon
    <3>3. SlotsOf(rg[r], pairs)' = SlotsOf(rg[r], pairs)
      BY <2>1, Zenon DEF SlotsOf, SlaveSlots, TaskRecords, Slot, Runs, Skipped,
                  createHealthChecks
    <3>4. consulAgent'[r] = OnAgents(rg[r].slaves) /\ rg[r] \in States
      BY <1>0, <2>1, Zenon DEF ReloadOK
    <3>5. OnAgents(rg[r].slaves)' = OnAgents(rg[r].slaves)
      BY <2>1, Zenon DEF OnAgents
    <3> QED
      BY <2>1, <2>3, <3>2, <3>3, <3>4, <3>5, Zenon DEF ReloadOK
  <2> QED
    BY <1>0, <1>1, <2>1, <2>4, OneReload, Zenon
<1>8. ASSUME NEW r \in Reloads, Emit(r) PROVE DispatchInv'
  <2>1. /\ phase[r] = "emit" /\ phase' = [phase EXCEPT ![r] = "done"]
        /\ records' = [records EXCEPT ![r] = {}]
        /\ consulAgent' = [consulAgent EXCEPT ![r] = {}]
        /\ slaveLookup' = [slaveLookup EXCEPT ![r] = {}]
        /\ rg' = rg
    BY <1>8, Zenon DEF Emit
  <2>2. sends' = sends \cup
          {[reload |-> r, slave |-> s.id, addr |-> s.addr, records |-> For(records[r], s.id)] :
             s \in consulAgent[r]}
    BY <1>8, Zenon DEF Emit, For
  <2>3. PICK pairs : Offered(pairs) /\ records[r] = SlotsOf(rg[r], pairs)
    BY <1>0, <2>1, Zenon DEF ReloadOK
  <2>4. consulAgent[r] = OnAgents(rg[r].slaves) /\ rg[r] \in States
    BY <1>0, <2>1, Zenon DEF ReloadOK
  <2>5. phase'[r] = "done"
    BY <1>0, <2>1, Zenon
  <2>6. ASSUME NEW m \in sends' \ sends PROVE SendOK(m)'
    <3>1. PICK s \in OnAgents(rg[r].slaves) :
            m = [reload |-> r, slave |-> s.id, addr |-> s.addr,
                 records |-> For(records[r], s.id)]
      BY <2>2, <2>4, Zenon
    <3>2. s = [id |-> s.id, addr |-> s.addr]
      BY <2>4, DispatchAssumption, Zenon DEF OnAgents
    <3>3. m.reload = r /\ m.slave = s.id /\ m.addr = s.addr /\ m.records = For(records[r], s.id)
      BY <3>1, Zenon
    <3>4. Offered(pairs)' /\ m.records = For(SlotsOf(rg[r], pairs), m.slave)
      BY <1>1, <2>3, <3>3, Zenon
    <3>5. /\ For(SlotsOf(rg[r], pairs), m.slave)' = For(SlotsOf(rg[r], pairs), m.slave)
          /\ OnAgents(rg[r].slaves)' = OnAgents(rg[r].slaves)
      BY <2>1, Zenon DEF For, SlotsOf, SlaveSlots, TaskRecords, Slot, Runs,
                  Skipped, createHealthChecks, OnAgents
    <3>6. Reloads' = Reloads
      BY Zenon DEF Reloads
    <3> QED
      BY <2>1, <2>5, <3>2, <3>3, <3>4, <3>5, <3>6, Zenon DEF SendOK
  <2>7. ReloadOK(r)'
    BY <2>1, <2>4, <2>5, Zenon DEF ReloadOK
  <2> QED
    BY <1>0, <1>1, <2>1, <2>6, <2>7, OneReload, Zenon
<1> QED
  BY <1>3, <1>4, <1>5, <1>6, <1>7, <1>8, Zenon DEF DispatchNext, DispatchLoops, pollConsulKVHC

\* Whatever Mesos states Reloads are given, and however they and the poller
\* interleave, every set sent is exactly its slave's part of one state; it always
\* names the slave itself, on which the agent (ConsulAgent's Dispatch) relies.
THEOREM SetsAlwaysMatchState ==
  DispatchSpec => []SetsMatchState
<1>1. ASSUME DispatchInv PROVE SetsMatchState
  <2> SUFFICES ASSUME NEW m \in sends
               PROVE  LET st == rg[m.reload]
                          named(kind) == {x.name : x \in {y \in m.records : y.kind = kind}}
                          tasks == {t \in st.tasks :
                                      /\ t.slave = m.slave /\ t.running /\ t.addr # NoAddr
                                      /\ t.framework.active \/ ~SkipInactiveFrameworks}
                      IN /\ [id |-> m.slave, addr |-> m.addr] \in st.slaves
                         /\ named("slave") = {m.slave}
                         /\ named("task") = {t.id : t \in tasks}
                         /\ named("check") \subseteq
                              {Nil} \cup UNION {t.checks \ Broken : t \in tasks}
                         /\ named("framework") = {}
    BY Zenon DEF SetsMatchState
  <2> DEFINE st == rg[m.reload]
             named(kind) == {x.name : x \in {y \in m.records : y.kind = kind}}
             tasks == {t \in st.tasks : /\ t.slave = m.slave /\ t.running /\ t.addr # NoAddr
                                        /\ t.framework.active \/ ~SkipInactiveFrameworks}
  <2>1. SendOK(m)
    BY <1>1, Zenon DEF DispatchInv
  <2>2. PICK pairs : Offered(pairs) /\ m.records = For(SlotsOf(st, pairs), m.slave)
    BY <2>1, Zenon DEF SendOK
  <2>3. [id |-> m.slave, addr |-> m.addr] \in st.slaves
    BY <2>1, Zenon DEF SendOK, OnAgents
  <2>4. \A t : t \in tasks <=> t \in st.tasks /\ t.slave = m.slave /\ Runs(t)
    BY Zenon DEF Runs, Skipped
  <2>5. \A x : x \in m.records <=>
          \/ x = [kind |-> "slave", name |-> m.slave]
          \/ \E t \in tasks :
               \/ x = [kind |-> "task", name |-> t.id]
               \/ \E c \in createHealthChecks(t.checks, pairs) :
                    x = [kind |-> "check", name |-> c]
    <3> HIDE DEF tasks, st
    <3>1. \A x : x \in For(SlotsOf(st, pairs), m.slave) <=>
            \/ x = [kind |-> "slave", name |-> m.slave]
            \/ \E t \in st.tasks :
                 /\ t.slave = m.slave /\ Runs(t)
                 /\ \/ x = [kind |-> "task", name |-> t.id]
                    \/ \E c \in createHealthChecks(t.checks, pairs) :
                         x = [kind |-> "check", name |-> c]
      BY <2>3, SlotsFor
    <3> QED
      BY <2>2, <2>4, <3>1, Zenon
  <2> HIDE DEF tasks, st
  <2>6. named("slave") = {m.slave}
    <3>1. [kind |-> "slave", name |-> m.slave] \in m.records
      BY <2>5, Zenon
    <3>2. m.slave \in named("slave")
      BY <3>1, SMTT(40)
    <3>3. \A n \in named("slave") : n = m.slave
      BY <2>5, SMTT(40)
    <3> QED
      BY <3>2, <3>3, Zenon
  <2>7. named("task") = {t.id : t \in tasks}
    <3>1. ASSUME NEW t \in tasks PROVE t.id \in named("task")
      <4>1. [kind |-> "task", name |-> t.id] \in m.records
        BY <2>5, Zenon
      <4> QED
        BY <4>1
    <3>2. \A n \in named("task") : \E t \in tasks : n = t.id
      BY <2>5
    <3> HIDE DEF named
    <3> QED
      BY <3>1, <3>2, Zenon
  <2>8. named("framework") = {}
    BY <2>5
  <2>9. named("check") \subseteq {Nil} \cup UNION {t.checks \ Broken : t \in tasks}
    <3>1. \A n \in named("check") : \E t \in tasks : n \in createHealthChecks(t.checks, pairs)
      BY <2>5
    <3>2. \A t \in tasks : createHealthChecks(t.checks, pairs) \subseteq
                             {Nil} \cup (t.checks \ Broken)
      BY Zenon DEF createHealthChecks
    <3> QED
      BY <3>1, <3>2, Zenon
  <2> QED
    BY <2>3, <2>6, <2>7, <2>8, <2>9, Zenon DEF st, tasks
<1>2. DispatchInv => SetsMatchState
  BY <1>1, Zenon
<1> QED
  BY <1>2, InitDispatch, StepDispatch, PTL DEF DispatchSpec

\* As long as no listing has failed, also the first Reload's tasks get the checks
\* of the listed KV pairs, for every CacheRefresh: all of them are empty when it
\* is 1.
THEOREM ChecksAlwaysFromPairs ==
  DispatchSpec => []ChecksFromPairs
<1>1. ASSUME DispatchInv PROVE ChecksFromPairs
  <2> SUFFICES ASSUME ~kvFailed, NEW m \in sends
               PROVE  LET checks == {x.name : x \in {y \in m.records : y.kind = "check"}}
                          asked == UNION {t.checks : t \in {u \in rg[m.reload].tasks :
                                                      u.slave = m.slave /\ Runs(u)}}
                          listed == IF refresh = 1 THEN {} ELSE Endpoints
                      IN checks = ((asked \cap listed) \ Broken) \cup {Nil : e \in asked \ listed}
    BY Zenon DEF ChecksFromPairs
  <2> DEFINE st == rg[m.reload]
             tasks == {u \in st.tasks : u.slave = m.slave /\ Runs(u)}
             checks == {x.name : x \in {y \in m.records : y.kind = "check"}}
             asked == UNION {t.checks : t \in tasks}
  <2>1. SendOK(m)
    BY <1>1, Zenon DEF DispatchInv
  <2>2. m.records = For(SlotsOf(st, Listed), m.slave)
    BY <2>1, Zenon DEF SendOK, Offered
  <2>3. [id |-> m.slave, addr |-> m.addr] \in st.slaves
    BY <2>1, Zenon DEF SendOK, OnAgents
  <2>4. \A x : x \in m.records <=>
          \/ x = [kind |-> "slave", name |-> m.slave]
          \/ \E t \in tasks :
               \/ x = [kind |-> "task", name |-> t.id]
               \/ \E c \in createHealthChecks(t.checks, Listed) :
                    x = [kind |-> "check", name |-> c]
    <3>1. \A t : t \in tasks <=> t \in st.tasks /\ t.slave = m.slave /\ Runs(t)
      BY Zenon
    <3> HIDE DEF tasks, st
    <3>2. \A x : x \in For(SlotsOf(st, Listed), m.slave) <=>
            \/ x = [kind |-> "slave", name |-> m.slave]
            \/ \E t \in st.tasks :
                 /\ t.slave = m.slave /\ Runs(t)
                 /\ \/ x = [kind |-> "task", name |-> t.id]
                    \/ \E c \in createHealthChecks(t.checks, Listed) :
                         x = [kind |-> "check", name |-> c]
      BY <2>3, SlotsFor
    <3> QED
      BY <2>2, <3>1, <3>2, Zenon
  <2> HIDE DEF tasks, st
  <2>5. \A c : c \in checks <=> \E t \in tasks : c \in createHealthChecks(t.checks, Listed)
    <3>1. ASSUME NEW c \in checks
          PROVE  \E t \in tasks : c \in createHealthChecks(t.checks, Listed)
      BY <2>4
    <3>2. ASSUME NEW t \in tasks, NEW c \in createHealthChecks(t.checks, Listed)
          PROVE  c \in checks
      <4>1. [kind |-> "check", name |-> c] \in m.records
        BY <2>4, Zenon
      <4> QED
        BY <4>1
    <3> QED
      BY <3>1, <3>2, Zenon
  <2>6. \A t \in tasks : \A c : c \in createHealthChecks(t.checks, Listed) <=>
          \E e \in t.checks : /\ e \in Listed => e \notin Broken
                              /\ c = IF e \in Listed THEN e ELSE Nil
    BY Zenon DEF createHealthChecks
  <2>7. \A c : c \in checks <=>
          \E e \in asked : /\ e \in Listed => e \notin Broken
                           /\ c = IF e \in Listed THEN e ELSE Nil
    BY <2>5, <2>6, SMTT(30)
  <2> HIDE DEF checks, asked
  <2>8. checks = ((asked \cap Listed) \ Broken) \cup {Nil : e \in asked \ Listed}
    BY <2>7
  <2> QED
    BY <2>8, Zenon DEF checks, asked, tasks, st, Listed
<1>2. DispatchInv => ChecksFromPairs
  BY <1>1
<1> QED
  BY <1>2, InitDispatch, StepDispatch, PTL DEF DispatchSpec
=============================================================================
