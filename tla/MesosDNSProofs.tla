--------------------------- MODULE MesosDNSProofs ---------------------------
(* The composed program: it implements Detector, what the components'        *)
(* invariants say of them alone they say of them inside the program, and the *)
(* resolvers and the detection timer stay consistent with what main loaded   *)
(* and received.                                                             *)
EXTENDS MesosDNS, TLAPS

-----------------------------------------------------------------------------
(* main, the resolvers and the timer *)

\* While main reloads, the resolvers it has called serve the fresh state and the
\* others still agree on the old one; at all other times all of them agree.  What
\* is installed, and what is served since a first load, names a leader.
ResolversInv ==
  /\ DOMAIN served = Range(Resolvers)
  /\ \A r \in Range(Resolvers) : served[r] = S!NotLoaded \/ served[r].leader \in S!Addr
  /\ mpc = "reload" =>
       /\ fresh.leader \in S!Addr
       /\ toReload \in Seq({"builtin", "consul"})
       /\ \A i, j \in 1..Len(toReload) : toReload[i] = toReload[j] => i = j
       /\ Range(toReload) \subseteq Range(Resolvers)
       /\ \A r \in Range(Resolvers) \ Range(toReload) : served[r] = fresh
       /\ \A r1, r2 \in Range(toReload) : served[r1] = served[r2]
  /\ ResolversAgree

\* What a search that ended has come to, and what is installed when it is "ok".
OutcomeOK ==
  phase = "done" => /\ outcome \in {"ok", "error", "panic"}
                    /\ outcome = "ok" => loaded.leader \in S!Addr

\* Without its head, a sequence without duplicates has one element less.
LEMMA TailRange ==
  ASSUME NEW T, NEW s \in Seq(T), s # << >>,
         \A i, j \in 1..Len(s) : s[i] = s[j] => i = j
  PROVE  /\ Tail(s) \in Seq(T) /\ Range(Tail(s)) = Range(s) \ {Head(s)}
         /\ Head(s) \in Range(s) /\ Head(s) \in T
         /\ \A i, j \in 1..Len(Tail(s)) : Tail(s)[i] = Tail(s)[j] => i = j
<1>1. /\ Len(s) \in Nat /\ Len(s) > 0 /\ Head(s) = s[1] /\ Tail(s) \in Seq(T)
      /\ Len(Tail(s)) = Len(s) - 1
      /\ \A i \in 1..Len(Tail(s)) : Tail(s)[i] = s[i + 1]
  OBVIOUS
<1> DEFINE t == Tail(s)
<1> HIDE DEF t
<1>2. /\ Len(t) = Len(s) - 1 /\ \A i \in 1..Len(t) : t[i] = s[i + 1] /\ i + 1 \in 1..Len(s)
  BY <1>1 DEF t
<1>3. \A i \in 1..Len(s) : i # 1 => i - 1 \in 1..Len(t) /\ t[i - 1] = s[i]
  BY <1>1, <1>2
<1>4. \A i, j \in 1..Len(t) : t[i] = t[j] => i = j
  BY <1>1, <1>2
<1>5. Range(t) \subseteq Range(s) \ {s[1]}
  BY <1>1, <1>2 DEF Range
<1>6. Range(s) \ {s[1]} \subseteq Range(t)
  BY <1>1, <1>3 DEF Range
<1>7. Head(s) \in Range(s) /\ Head(s) \in T
  BY <1>1 DEF Range
<1> QED
  BY <1>1, <1>4, <1>5, <1>6, <1>7, Zenon DEF t

LEMMA InitMain == Init => ResolversInv /\ TimerCoversLeaderless
BY Zenon DEF Init, ResolversInv, ResolversAgree, TimerCoversLeaderless

LEMMA StepResolvers ==
  ASSUME OutcomeOK, ResolversInv, [Next]_vars
  PROVE  ResolversInv'
<1>0. Range(Resolvers)' = Range(Resolvers) /\ S!Addr' = S!Addr /\ S!NotLoaded' = S!NotLoaded
  BY Zenon DEF Range, S!Addr, S!NotLoaded
<1>1. CASE UNCHANGED <<toReload, fresh, served, mpc>>
  <2>1. Range(toReload)' = Range(toReload)
    BY <1>1, Zenon DEF Range
  <2> QED
    BY <1>0, <1>1, <2>1, Zenon DEF ResolversInv, ResolversAgree
<1>2. CASE StartResolvers \/ ReloadTick \/ MastersChanged \/ ErrchReceived
  <2>1. /\ served' = served /\ mpc \notin {"reload", "crashed"}
        /\ mpc' \in {"blocked", "select", "load", "exited"}
    BY <1>2, Zenon DEF StartResolvers, ReloadTick, MastersChanged, ErrchReceived
  <2> QED
    BY <1>0, <2>1, Zenon DEF ResolversInv, ResolversAgree
<1>3. CASE LoadDone
  <2>1. phase = "done" /\ mpc = "load" /\ served' = served /\ fresh' = loaded
        /\ toReload' = (IF outcome = "ok" THEN Resolvers ELSE << >>)
    BY <1>3, Zenon DEF LoadDone, S!Return
  <2>2. outcome \in {"ok", "error", "panic"} /\ (outcome = "ok" => loaded.leader \in S!Addr)
    BY <2>1, Zenon DEF OutcomeOK
  <2>3. CASE outcome = "ok"
    <3>1. mpc' = "reload" /\ toReload' = Resolvers
      BY <1>3, <2>1, <2>3, Zenon DEF LoadDone
    <3>2. Range(toReload)' = Range(Resolvers)
      BY <3>1, Zenon DEF Range
    <3> QED
      BY <1>0, <2>1, <2>2, <2>3, <3>1, <3>2, MainAssumption DEF ResolversInv, ResolversAgree
  <2>4. CASE outcome # "ok"
    <3>1. mpc' \in {"blocked", "crashed"}
      BY <1>3, <2>2, <2>4, Zenon DEF LoadDone
    <3> QED
      BY <1>0, <2>1, <3>1, Zenon DEF ResolversInv, ResolversAgree
  <2> QED
    BY <2>3, <2>4, Zenon
<1>4. CASE ReloadResolver
  <2>1. /\ mpc = "reload" /\ toReload # << >> /\ fresh' = fresh
        /\ toReload \in Seq({"builtin", "consul"})
        /\ \A i, j \in 1..Len(toReload) : toReload[i] = toReload[j] => i = j
        /\ Range(toReload) \subseteq Range(Resolvers)
    BY <1>4, Zenon DEF ReloadResolver, ResolversInv
  <2>2. /\ Tail(toReload) \in Seq({"builtin", "consul"})
        /\ Range(Tail(toReload)) = Range(toReload) \ {Head(toReload)}
        /\ Head(toReload) \in Range(toReload)
        /\ \A i, j \in 1..Len(Tail(toReload)) : Tail(toReload)[i] = Tail(toReload)[j] => i = j
    BY <2>1, TailRange, Zenon
  <2>3. CASE mpc' = "crashed" /\ served' = served
    BY <1>0, <2>3, Zenon DEF ResolversInv, ResolversAgree
  <2>4. CASE /\ served' = [served EXCEPT ![Head(toReload)] = fresh]
             /\ toReload' = Tail(toReload) /\ mpc' = "reload"
    <3>1. \A r \in Range(Resolvers) :
            served'[r] = IF r = Head(toReload) THEN fresh ELSE served[r]
      BY <2>4, Zenon DEF ResolversInv
    <3>2. DOMAIN served' = Range(Resolvers)
      BY <2>4, Zenon DEF ResolversInv
    <3>3. Range(toReload)' = Range(toReload) \ {Head(toReload)}
      BY <2>2, <2>4, ZenonT(40) DEF Range
    <3>4. fresh.leader \in S!Addr
      BY <2>1, Zenon DEF ResolversInv
    <3>5. \A r \in Range(Resolvers) : served'[r] = S!NotLoaded \/ served'[r].leader \in S!Addr
      BY <3>1, <3>4, Zenon DEF ResolversInv
    <3>6. \A r \in Range(Resolvers) \ Range(toReload)' : served'[r] = fresh
      BY <2>1, <3>1, <3>3, Zenon DEF ResolversInv
    <3>7. \A r1, r2 \in Range(toReload)' : served'[r1] = served'[r2]
      BY <2>1, <3>1, <3>3, Zenon DEF ResolversInv
    <3> QED
      BY <1>0, <2>1, <2>2, <2>4, <3>2, <3>3, <3>4, <3>5, <3>6, <3>7, ZenonT(40)
         DEF ResolversInv, ResolversAgree
  <2> QED
    BY <1>4, <2>3, <2>4, Zenon DEF ReloadResolver
<1>5. CASE ReloadDone
  <2>1. mpc = "reload" /\ toReload = << >> /\ mpc' = "select" /\ served' = served
    BY <1>5, Zenon DEF ReloadDone
  <2>2. Range(toReload) = {}
    BY <2>1 DEF Range
  <2> QED
    BY <1>0, <2>1, <2>2, ZenonT(40) DEF ResolversInv, ResolversAgree
<1>6. ASSUME \/ Load \/ TimerFires \/ ServerStops \/ DetectorStep \/ WatchError \/ ZooKeeper
             \/ ClusterChange \/ UNCHANGED vars
      PROVE  UNCHANGED <<toReload, fresh, served, mpc>>
  BY <1>6, Zenon DEF Load, TimerFires, ServerStops, DetectorStep, WatchError, ZooKeeper, ClusterChange,
              vars, mainVars
<1> QED
  BY <1>1, <1>2, <1>3, <1>4, <1>5, <1>6, Zenon DEF Next, Main

LEMMA StepTimer ==
  ASSUME TimerCoversLeaderless, [Next]_vars
  PROVE  TimerCoversLeaderless'
<1>1. CASE UNCHANGED <<taken, current, timer>> /\ senders \subseteq senders'
  BY <1>1, Zenon DEF TimerCoversLeaderless, HasLeader
<1>2. CASE MastersChanged
  <2>1. current' = Head(changed)
        /\ timer' = (IF HasLeader(Head(changed)) THEN "off" ELSE "armed")
    BY <1>2, Zenon DEF MastersChanged, D!Receive, SetTimer
  <2>2. HasLeader(current)' = HasLeader(Head(changed))
    BY <2>1, Zenon DEF HasLeader
  <2> QED
    BY <2>1, <2>2, Zenon DEF TimerCoversLeaderless
<1>3. CASE TimerFires
  <2>1. /\ timer = "armed" /\ timer' = "off" /\ UNCHANGED <<taken, current>>
        /\ senders' = IF ZkTimeout > 0 THEN senders \cup {"timer"} ELSE senders
    BY <1>3, Zenon DEF TimerFires, mainVars
  <2>2. ZkTimeout = 0 \/ "timer" \in senders'
    BY <2>1, MainAssumption
  <2> QED
    BY <2>1, <2>2, Zenon DEF TimerCoversLeaderless, HasLeader
<1>4. ASSUME \/ DetectorStep \/ WatchError \/ ZooKeeper
      PROVE  UNCHANGED <<taken, current, timer>> /\ senders \subseteq senders'
  BY <1>4, Zenon DEF DetectorStep, WatchError, ZooKeeper, D!DetectorStep, D!ChildrenChanged,
     D!notifyMasterChanged, D!notifyAllMasters, D!EmitMasters, D!WatchError, D!Register,
     D!Expire, mainVars
<1>5. ASSUME \/ StartResolvers \/ ReloadTick \/ ErrchReceived \/ Load \/ LoadDone
             \/ ReloadResolver \/ ReloadDone \/ ServerStops \/ ClusterChange \/ UNCHANGED vars
      PROVE  UNCHANGED <<taken, current, timer>> /\ senders \subseteq senders'
  BY <1>5, Zenon DEF StartResolvers, ReloadTick, ErrchReceived, Load, LoadDone, ReloadResolver,
     ReloadDone, ServerStops, ClusterChange, vars, mainVars
<1> QED
  BY <1>1, <1>2, <1>3, <1>4, <1>5, Zenon DEF Next, Main

LEMMA StepServed ==
  ASSUME ResolversInv, [Next]_vars
  PROVE  [\A r \in Range(Resolvers) :
            served[r] # S!NotLoaded => served'[r].leader \in S!Addr]_vars
<1>2. CASE served' = served
  BY <1>2, Zenon DEF ResolversInv
<1>3. CASE ReloadResolver
  <2>1. mpc = "reload" /\ fresh.leader \in S!Addr
    BY <1>3, Zenon DEF ReloadResolver, ResolversInv
  <2>2. served' = served \/ served' = [served EXCEPT ![Head(toReload)] = fresh]
    BY <1>3, Zenon DEF ReloadResolver
  <2>3. CASE served' = [served EXCEPT ![Head(toReload)] = fresh]
    <3>1. \A r \in Range(Resolvers) : served'[r] = fresh \/ served'[r] = served[r]
      BY <2>3, Zenon DEF ResolversInv
    <3> QED
      BY <2>1, <3>1, Zenon DEF ResolversInv
  <2> QED
    BY <1>2, <2>2, <2>3, Zenon
<1>4. ASSUME ~ReloadResolver PROVE served' = served
  BY <1>4, Zenon DEF Next, Main, StartResolvers, ReloadTick, MastersChanged, ErrchReceived,
     Load, LoadDone, ReloadDone, TimerFires, ServerStops, DetectorStep, WatchError,
     ZooKeeper, ClusterChange, vars, mainVars
<1> QED
  BY <1>2, <1>3, <1>4, Zenon

-----------------------------------------------------------------------------
(* The program implements the detector *)

\* Every step of the program is, for the detector, one of its own or none.
LEMMA StepIsDetectors == [Next]_vars => [D!Next]_(D!vars)
<1>1. ASSUME UNCHANGED <<detectorVars, changed, current>> PROVE UNCHANGED D!vars
  BY <1>1, Zenon DEF detectorVars, D!vars, D!zkVars, D!detVars
<1>2. MastersChanged => D!ReceiveOnly
  BY Zenon DEF MastersChanged, D!ReceiveOnly, detectorVars, D!zkVars, D!detVars
<1>3. ASSUME \/ StartResolvers \/ ReloadTick \/ ErrchReceived \/ Load \/ LoadDone
             \/ ReloadResolver \/ ReloadDone \/ TimerFires \/ ServerStops \/ ClusterChange
      PROVE  UNCHANGED D!vars
  BY <1>1, <1>3, Zenon DEF StartResolvers, ReloadTick, ErrchReceived, Load, LoadDone,
     ReloadResolver, ReloadDone, TimerFires, ServerStops, ClusterChange
<1>4. DetectorStep \/ WatchError \/ ZooKeeper => D!Next
  BY Zenon DEF DetectorStep, WatchError, ZooKeeper, D!Next, D!Environment
<1>5. UNCHANGED vars => UNCHANGED D!vars
  BY <1>1, Zenon DEF vars
<1> QED
  BY <1>2, <1>3, <1>4, <1>5, Zenon DEF Next, Main, D!Next
\* The program implements the detector: whatever main, the timer, the servers and
\* the cluster do, the detector sees only its own steps and main's receive.
THEOREM ImplementsDetector == Spec => D!Init /\ [][D!Next]_(D!vars)
BY StepIsDetectors, PTL DEF Spec, Init

-----------------------------------------------------------------------------
(* The detector inside the program *)

DP == INSTANCE DetectorProofs

LEMMA DetectorConstants ==
  DP!ConfigAssumption /\ D!Addr = DP!Addr /\ S!Addr = DP!Addr
BY MainAssumption, Zenon DEF D!ConfigAssumption, DP!ConfigAssumption, D!Addr, DP!Addr,
   D!Info, DP!Info, S!Addr

LEMMA SameInit == D!Init => DP!Init
BY Zenon DEF D!Init, DP!Init, D!NodeNum, DP!NodeNum, D!NewMasters, DP!NewMasters

LEMMA SameDetectorStep == D!DetectorStep => DP!DetectorStep
<1>1. D!Live = DP!Live
  BY Zenon DEF D!Live, DP!Live, D!NodeNum, DP!NodeNum
<1>2. D!ChildrenChanged => DP!ChildrenChanged
  BY <1>1, Zenon DEF D!ChildrenChanged, DP!ChildrenChanged
<1>3. D!notifyMasterChanged => DP!notifyMasterChanged
  BY Zenon DEF D!notifyMasterChanged, DP!notifyMasterChanged, D!Live, DP!Live, D!NodeNum,
         DP!NodeNum, D!NotifySameLeader, DP!NotifySameLeader, D!NotifyNewLeader,
         DP!NotifyNewLeader, D!TopNode, DP!TopNode, D!ReadNode, DP!ReadNode, D!Info,
         DP!Info, D!Addr, DP!Addr, D!OnMasterChanged, DP!OnMasterChanged, D!ordered,
         DP!ordered, D!masterAddr, DP!masterAddr, D!Filter, DP!Filter
<1>4. D!notifyAllMasters => DP!notifyAllMasters
  <2>1. \A nodes : D!Listings(nodes) = DP!Listings(nodes)
    BY Zenon DEF D!Listings, DP!Listings, D!Cardinality, DP!Cardinality, D!IsFiniteSet,
           DP!IsFiniteSet
  <2>2. \A infos : D!UpdatedMasters(infos) => DP!UpdatedMasters(infos)
    BY Zenon DEF D!UpdatedMasters, DP!UpdatedMasters, D!Addr, DP!Addr, D!ordered, DP!ordered,
           D!masterAddr, DP!masterAddr, D!Filter, DP!Filter
  <2> QED
    BY <1>1, <2>1, <2>2, ZenonT(40) DEF D!notifyAllMasters, DP!notifyAllMasters
<1>5. D!EmitMasters => DP!EmitMasters
  BY Zenon DEF D!EmitMasters, DP!EmitMasters, D!emit, DP!emit, D!zkVars, DP!zkVars
<1> QED
  BY <1>2, <1>3, <1>4, <1>5, ZenonT(40) DEF D!DetectorStep, DP!DetectorStep

LEMMA SameEnvironment == D!Environment => DP!Environment
<1>1. D!Live = DP!Live
  BY DEF D!Live, DP!Live, D!NodeNum, DP!NodeNum
<1>2. \A s : D!Cardinality(s) = DP!Cardinality(s)
  BY Zenon DEF D!Cardinality, DP!Cardinality, D!IsFiniteSet, DP!IsFiniteSet
<1>3. D!Register => DP!Register
  BY Zenon DEF D!Register, DP!Register, D!detVars, DP!detVars
<1>4. D!Expire => DP!Expire
  BY <1>1, <1>2, ZenonT(40) DEF D!Expire, DP!Expire, D!detVars, DP!detVars
<1>5. D!WatchError => DP!WatchError
  BY Zenon DEF D!WatchError, DP!WatchError, D!OnMasterChanged, DP!OnMasterChanged, D!Addr,
         DP!Addr, D!ordered, DP!ordered, D!masterAddr, DP!masterAddr, D!Filter, DP!Filter
<1> QED
  BY <1>3, <1>4, <1>5, Zenon DEF D!Environment, DP!Environment


LEMMA DetectorInside ==
  /\ Init => DP!DetectorInv
  /\ DP!DetectorInv /\ [Next]_vars => DP!DetectorInv'
<1>1. Init => DP!DetectorInv
  BY SameInit, DetectorConstants, DP!InitInv, ZenonT(40) DEF Init, DP!ConfigAssumption
<1>2. D!Next => DP!Next
  BY SameDetectorStep, SameEnvironment, Zenon
     DEF D!Next, DP!Next, D!ReceiveOnly, DP!ReceiveOnly, D!Receive, DP!Receive,
         D!zkVars, DP!zkVars, D!detVars, DP!detVars
<1>3. D!vars = DP!vars /\ D!vars' = DP!vars'
  BY Zenon DEF D!vars, DP!vars, D!zkVars, DP!zkVars, D!detVars, DP!detVars
<1>4. [Next]_vars => [DP!Next]_(DP!vars)
  BY <1>2, <1>3, StepIsDetectors, ZenonT(40)
<1>5. DP!DetectorInv /\ [DP!Next]_(DP!vars) => DP!DetectorInv'
  BY DetectorConstants, DP!StepInv, ZenonT(40) DEF DP!ConfigAssumption
<1> QED
  BY <1>1, <1>4, <1>5, ZenonT(40)

-----------------------------------------------------------------------------
(* The search inside the program *)

SP == INSTANCE MasterSearchProofs

LEMMA SearchConstants ==
  SP!SearchAssumption /\ S!Addr = SP!Addr /\ DP!Addr = SP!Addr
BY MainAssumption, ZenonT(40) DEF S!SearchAssumption, SP!SearchAssumption, S!Addr, SP!Addr, DP!Addr

\* The lists main has, and the next one in the channel, are ones a search may be
\* called with.
LEMMA ListsCallable ==
  ASSUME DP!DetectorInv
  PROVE  /\ current \in SP!Callable
         /\ changed # << >> => Head(changed) \in SP!Callable
<1>1. \A ms : ms \in Seq(DP!MaybeAddr) /\ DP!WellFormed(ms) => ms \in SP!Callable
  <2> SUFFICES ASSUME NEW ms \in Seq(DP!MaybeAddr), DP!WellFormed(ms)
               PROVE  ms \in SP!Callable
    BY Zenon
  <2>1. ms \in Seq(SP!Addr \cup {NoAddr})
    BY SearchConstants, ZenonT(40) DEF DP!MaybeAddr
  <2>2. \A i \in 2..Len(ms) : ms[i] # NoAddr
    BY DetectorConstants, ZenonT(40) DEF DP!WellFormed, DP!ConfigAssumption
  <2> QED
    BY <2>1, <2>2, ZenonT(40) DEF SP!Callable
<1>2. current \in Seq(DP!MaybeAddr) /\ DP!WellFormed(current)
  BY Zenon DEF DP!DetectorInv, DP!TypeOK, DP!ListsWellFormed
<1>3. ASSUME changed # << >>
      PROVE  Head(changed) \in Seq(DP!MaybeAddr) /\ DP!WellFormed(Head(changed))
  <2>1. changed \in Seq(Seq(DP!MaybeAddr)) /\ \A i \in 1..Len(changed) : DP!WellFormed(changed[i])
    BY Zenon DEF DP!DetectorInv, DP!TypeOK, DP!ListsWellFormed
  <2>2. 1 \in 1..Len(changed) /\ Head(changed) = changed[1] /\ changed[1] \in Seq(DP!MaybeAddr)
    BY <1>3, <2>1, SMTT(40)
  <2> QED
    BY <2>1, <2>2, ZenonT(40)
<1> QED
  BY <1>1, <1>2, <1>3, ZenonT(40)

LEMMA SameTryNext ==
  ASSUME NEW others, S!TryNext(others) PROVE SP!TryNext(others)
BY ZenonT(40) DEF S!TryNext, SP!TryNext, S!Finish, SP!Finish, S!Ask, SP!Ask, S!result, SP!result,
       S!NotLoaded, SP!NotLoaded

LEMMA SameParseState ==
  ASSUME NEW ms, S!ParseState(ms) PROVE SP!ParseState(ms)
<1>1. S!findMaster(ms) => SP!findMaster(ms)
  BY SameTryNext, ZenonT(40) DEF S!findMaster, SP!findMaster, S!Ask, SP!Ask, S!result, SP!result
<1> QED
  BY <1>1, ZenonT(40) DEF S!ParseState, SP!ParseState, S!cluster, SP!cluster

LEMMA SameLoad == S!loadFromMaster => SP!loadFromMaster
<1>1. S!LoadFailed => SP!LoadFailed
  BY SameTryNext, ZenonT(40) DEF S!LoadFailed, SP!LoadFailed, S!Finish, SP!Finish, S!NotLoaded, SP!NotLoaded
<1>2. S!LoadLeaderless => SP!LoadLeaderless
  BY SameTryNext, ZenonT(40) DEF S!LoadLeaderless, SP!LoadLeaderless
<1>3. S!LeaderIPPanics => SP!LeaderIPPanics
  BY ZenonT(40) DEF S!LeaderIPPanics, SP!LeaderIPPanics, S!Finish, SP!Finish, S!NotLoaded, SP!NotLoaded
<1>4. \A r : S!LoadSucceeded(r) => SP!LoadSucceeded(r)
  BY ZenonT(40) DEF S!LoadSucceeded, SP!LoadSucceeded, S!Finish, SP!Finish
<1>5. \A r : S!Redirect(r) => SP!Redirect(r)
  BY ZenonT(40) DEF S!Redirect, SP!Redirect, S!result, SP!result
<1>6. ASSUME NEW r, S!Handle(r) PROVE SP!Handle(r)
  BY <1>1, <1>2, <1>3, <1>4, <1>5, <1>6, SearchConstants, ZenonT(40) DEF S!Handle, SP!Handle
<1>7. S!Addr = SP!Addr
  BY SearchConstants, ZenonT(40)
<1> QED
  BY <1>6, <1>7, ZenonT(40) DEF S!loadFromMaster, SP!loadFromMaster, S!cluster, SP!cluster

\* A step of the program is, for the search, one of its own steps on a list that
\* it may be called with, or none.
LEMMA StepIsSearchs == DP!DetectorInv /\ [Next]_vars => [SP!Step]_(SP!vars)
<1> SUFFICES ASSUME DP!DetectorInv, [Next]_vars PROVE [SP!Step]_(SP!vars)
  BY ZenonT(40)
<1>1. ASSUME UNCHANGED <<view, changes, searchVars>> PROVE UNCHANGED SP!vars
  BY <1>1, ZenonT(40) DEF searchVars, SP!vars, SP!cluster, SP!search, SP!result
<1>2. CASE ReloadTick
  BY <1>2, ListsCallable, SameParseState, ZenonT(40) DEF ReloadTick, SP!Step
<1>3. CASE MastersChanged
  <2>1. Head(changed) \in SP!Callable
    BY <1>3, ListsCallable, ZenonT(40) DEF MastersChanged, D!Receive
  <2> QED
    BY <1>3, <2>1, SameParseState, ZenonT(40) DEF MastersChanged, SP!Step
<1>4. CASE Load
  BY <1>4, SameLoad, ZenonT(40) DEF Load, SP!Step
<1>5. CASE LoadDone
  <2>1. SP!Return
    BY <1>5, ZenonT(40) DEF LoadDone, S!Return, SP!Return, S!NotLoaded, SP!NotLoaded, S!cluster, SP!cluster
  <2> QED
    BY <2>1, ZenonT(40) DEF SP!Step
<1>6. CASE ClusterChange
  <2>1. SP!ClusterChange
    BY <1>6, ZenonT(40) DEF ClusterChange, S!ClusterChange, SP!ClusterChange, S!search, SP!search,
                S!result, SP!result
  <2> QED
    BY <2>1, ZenonT(40) DEF SP!Step
<1>7. ASSUME \/ StartResolvers \/ ErrchReceived \/ ReloadResolver \/ ReloadDone \/ TimerFires
             \/ ServerStops \/ DetectorStep \/ WatchError \/ ZooKeeper \/ UNCHANGED vars
      PROVE  UNCHANGED SP!vars
  BY <1>1, <1>7, ZenonT(40) DEF StartResolvers, ErrchReceived, ReloadResolver, ReloadDone, TimerFires,
     ServerStops, DetectorStep, WatchError, ZooKeeper, vars
<1> QED
  BY <1>2, <1>3, <1>4, <1>5, <1>6, <1>7, ZenonT(40) DEF Next, Main

SearchInside == SP!SearchInv /\ SP!FirstInv /\ SP!StopsAtFirst

LEMMA InitSearchInside == Init => SearchInside
<1>1. S!Init => SP!Init
  BY SearchConstants, ZenonT(40) DEF S!Init, SP!Init, S!ClusterInit, SP!ClusterInit, S!SearchInit,
     SP!SearchInit, S!NotLoaded, SP!NotLoaded
<1>2. Init => SP!SearchInv
  BY <1>1, SearchConstants, SP!InitSearchInv, ZenonT(40) DEF Init, SP!SearchAssumption
<1>3. Init => SP!FirstInv /\ SP!StopsAtFirst
  BY <1>1, SearchConstants, SP!InitFirstInv, ZenonT(40) DEF Init, SP!SearchAssumption
<1> QED
  BY <1>2, <1>3, ZenonT(40) DEF SearchInside

LEMMA StepSearchInside ==
  ASSUME DP!DetectorInv, SearchInside, [Next]_vars
  PROVE  SearchInside'
<1>1. [SP!Step]_(SP!vars)
  BY StepIsSearchs, ZenonT(40)
<1>2. SP!SearchInv'
  BY <1>1, SearchConstants, SP!StepSearchInv, ZenonT(40) DEF SearchInside, SP!SearchAssumption
<1>3. SP!FirstInv' /\ SP!StopsAtFirst'
  BY <1>1, <1>2, SearchConstants, SP!StepFirstInv, ZenonT(40) DEF SearchInside, SP!SearchAssumption
<1> QED
  BY <1>2, <1>3, ZenonT(40) DEF SearchInside

-----------------------------------------------------------------------------
(* The program *)

ProgramInv == DP!DetectorInv /\ SearchInside /\ ResolversInv /\ TimerCoversLeaderless

LEMMA SearchOutcome == SearchInside => OutcomeOK
BY SearchConstants, ZenonT(40)
   DEF SearchInside, SP!SearchInv, SP!TypeOK, SP!LoadedFromNamedLeader, OutcomeOK

LEMMA InitProgram == Init => ProgramInv
BY DetectorInside, InitSearchInside, InitMain, ZenonT(40) DEF ProgramInv

LEMMA StepProgram == ProgramInv /\ [Next]_vars => ProgramInv'
BY DetectorInside, StepSearchInside, SearchOutcome, StepResolvers, StepTimer, ZenonT(40) DEF ProgramInv

-----------------------------------------------------------------------------
\* However many resolvers there are and whatever the masters answer, all of them
\* serve the same state whenever main is not inside the loop that reloads them.
THEOREM ResolversAlwaysAgree == Spec => []ResolversAgree
<1>1. ProgramInv => ResolversAgree
  BY ZenonT(40) DEF ProgramInv, ResolversInv
<1> QED
  BY <1>1, InitProgram, StepProgram, PTL DEF Spec

\* The detection timer runs exactly while the list main took last has no leader,
\* in any interleaving of the timer, the detector and main.
THEOREM TimerAlwaysCoversLeaderless == Spec => []TimerCoversLeaderless
<1>1. ProgramInv => TimerCoversLeaderless
  BY ZenonT(40) DEF ProgramInv
<1> QED
  BY <1>1, InitProgram, StepProgram, PTL DEF Spec

\* No step takes a resolver that serves a leader's state back to serving nothing:
\* the state that replaces it was loaded by a search that succeeded.
THEOREM ServedStaysServed == Spec => NeverUnserved
<1>1. ProgramInv /\ [Next]_vars =>
        [\A r \in Range(Resolvers) :
           served[r] # S!NotLoaded => served'[r].leader \in S!Addr]_vars
  BY StepServed, ZenonT(40) DEF ProgramInv
<1> QED
  BY <1>1, InitProgram, StepProgram, PTL DEF Spec, NeverUnserved

\* Every list main works with or is about to take is well formed, also while main
\* is blocked or loading and the detector waits for room in the channel.
THEOREM ProgramListsWellFormed == Spec => []D!ListsWellFormed
<1>1. DP!ListsWellFormed => D!ListsWellFormed
  BY DetectorConstants, ZenonT(40) DEF D!ListsWellFormed, DP!ListsWellFormed, D!WellFormed, DP!WellFormed
<1>2. ProgramInv => DP!ListsWellFormed
  BY ZenonT(40) DEF ProgramInv, DP!DetectorInv
<1> QED
  BY <1>1, <1>2, InitProgram, StepProgram, PTL DEF Spec

\* What MasterSearch's theorems say of a search over a well-formed list holds of
\* every reload of the program, whichever lists ZooKeeper and the configuration
\* give it.
THEOREM ProgramSearches ==
  Spec => [](S!LoadedFromNamedLeader /\ S!RequestsBounded /\ S!StopsAtFirst)
<1>1. SP!LoadedFromNamedLeader => S!LoadedFromNamedLeader
  BY SearchConstants, ZenonT(40) DEF S!LoadedFromNamedLeader, SP!LoadedFromNamedLeader
<1>2. SP!RequestsBounded => S!RequestsBounded
  BY ZenonT(40) DEF S!RequestsBounded, SP!RequestsBounded
<1>3. SP!StopsAtFirst => S!StopsAtFirst
  <2>1. \A m : S!LoadOf(m) = SP!LoadOf(m)
    BY ZenonT(40) DEF S!LoadOf, SP!LoadOf
  <2> QED
    BY <2>1, ZenonT(40) DEF S!StopsAtFirst, SP!StopsAtFirst
<1>4. ProgramInv => SP!LoadedFromNamedLeader /\ SP!RequestsBounded /\ SP!StopsAtFirst
  BY ZenonT(40) DEF ProgramInv, SearchInside, SP!SearchInv
<1> QED
  BY <1>1, <1>2, <1>3, <1>4, InitProgram, StepProgram, PTL DEF Spec
=============================================================================
