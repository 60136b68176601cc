------------------------------ MODULE Detector ------------------------------
(* How Mesos-DNS learns of the Mesos masters: the ZooKeeper detector of      *)
(* mesos-go runs one goroutine that calls the callbacks of detect.Masters,   *)
(* which send every new list of masters over the channel `changed` to the    *)
(* main loop.  The head of a list is the leader ("" when there is none), the *)
(* rest are the masters to fall back on.                                     *)
EXTENDS Naturals, Sequences, FiniteSets, SeqFilter

CONSTANTS
  IPs, Ports, IDs,   \* hosts, ports and ids of Mesos masters
  NoAddr,            \* the empty string where an address is expected
  Nil,               \* a nil *mesos.MasterInfo; an absent znode
  ZkModes,           \* the values of config.Zk # "" to start with
  Configured,        \* config.Masters as read from the configuration file
  Registrants,       \* the MasterInfo values masters register with
  InitialNodes,      \* the znodes present at start, a sequence of Registrants
  MaxNode,           \* bound: znodes ever created
  MinNodes,          \* the environment keeps at least this many znodes
  MaxFaults          \* bound: lost ZooKeeper sessions and failed reads

Addr == [ip: IPs, port: Ports]
Info == [id: IDs, ip: IPs, port: Ports]

\* validateMasters refuses a configuration that lists a master twice.
ASSUME ConfigAssumption ==
  /\ NoAddr \notin Addr
  /\ Nil \notin Info
  /\ ZkModes \subseteq BOOLEAN
  /\ Configured \in Seq(Addr)
  /\ \A i, j \in 1..Len(Configured) : Configured[i] = Configured[j] => i = j
  /\ Registrants \subseteq Info
  /\ MaxNode \in Nat /\ MinNodes \in Nat /\ MaxFaults \in Nat
  /\ InitialNodes \in Seq(Registrants) /\ Len(InitialNodes) <= MaxNode

VARIABLES
  znodes,     \* ZooKeeper: node number -> MasterInfo, Nil when absent
  nextNode,   \* the sequence number of the next znode
  notify,     \* the children watch has a list to deliver
  faults,     \* faults injected so far
  dpc,        \* where the detector goroutine is
  children,   \* the list of znodes it handles
  leaderNode, \* the znode it takes for the leader's, 0 for ""
  masters,    \* Masters.masters
  changed,    \* the channel to the main loop, capacity 1
  current     \* config.Masters: the list the main loop took last

zkVars == <<znodes, nextNode, notify, faults>>
detVars == <<dpc, children, leaderNode, masters>>
vars == <<zkVars, detVars, changed, current>>

NodeNum == 1..MaxNode
Live == {n \in NodeNum : znodes[n] # Nil}

\* selectTopNode: the znode with the lowest sequence number, 0 if none.
TopNode(nodes) ==
  IF nodes = {} THEN 0 ELSE CHOOSE n \in nodes : \A m \in nodes : n <= m

-----------------------------------------------------------------------------
(* detect/masters.go *)

NewMasters(ms) == <<NoAddr>> \o ms

masterAddr(info) ==
  IF info = Nil THEN NoAddr ELSE [ip |-> info.ip, port |-> info.port]

\* (variant: the old position of the leader is kept as well)
ordered_keepall(leader, ms) == <<leader>> \o ms

ordered(leader, ms) == <<leader>> \o Filter(ms, Addr \ {leader})

\* The callbacks, up to the send in emit.
OnMasterChanged(leader) == masters' = ordered(masterAddr(leader), Tail(masters))

\* (variant: masters are added but never removed)
UpdatedMasters_additive(infos) ==
  LET addrs == [k \in DOMAIN infos |-> masterAddr(infos[k])]
  IN  masters' = ordered(masters[1], Tail(masters) \o Filter(addrs, Addr))

UpdatedMasters(infos) ==
  LET addrs == [k \in DOMAIN infos |-> masterAddr(infos[k])]
  IN  masters' = ordered(masters[1], Filter(addrs, Addr))

\* `ch <- append(make([]string, 0, len(s)), s...)`: a copy of the list is
\* sent; the send waits while the channel is full.
\* (variants: a list that finds the channel full is dropped; a channel
\* without a bound)
emit_lossy(list) ==
  changed' = IF changed = << >> THEN <<list>> ELSE changed

emit_unbounded(list) == changed' = Append(changed, list)

emit(list) ==
  /\ changed = << >>
  /\ changed' = <<list>>

-----------------------------------------------------------------------------
(* The goroutine MasterDetector.detect of mesos-go. *)

\* The children watch delivers the list of znodes.
ChildrenChanged ==
  /\ dpc = "watch"
  /\ notify
  /\ notify' = FALSE
  /\ children' = Live
  /\ dpc' = "notifyMaster"
  /\ UNCHANGED <<znodes, nextNode, faults, leaderNode, masters, changed, current>>

\* A read of a znode: the node may be gone by now, and a read may fail.
ReadNode(n, info) ==
  \/ /\ n \in Live
     /\ info = znodes[n]
     /\ faults' = faults
  \/ /\ n \in NodeNum \ Live
     /\ info = Nil
     /\ faults' = faults
  \/ /\ n \in Live
     /\ faults < MaxFaults
     /\ faults' = faults + 1
     /\ info = Nil

NotifySameLeader ==
  /\ leaderNode = TopNode(children)
  /\ dpc' = "notifyAll"
  /\ UNCHANGED <<faults, leaderNode, masters>>

NotifyNewLeader ==
  /\ leaderNode # TopNode(children)
  /\ leaderNode' = TopNode(children)
  /\ dpc' = "emitMaster"
  /\ IF TopNode(children) = 0
     THEN OnMasterChanged(Nil) /\ UNCHANGED faults
     ELSE \E info \in Info \cup {Nil} :
            ReadNode(TopNode(children), info) /\ OnMasterChanged(info)

notifyMasterChanged ==
  /\ dpc = "notifyMaster"
  /\ NotifySameLeader \/ NotifyNewLeader
  /\ UNCHANGED <<znodes, nextNode, notify, children, changed, current>>

\* The lists `infos` that notifyAllMasters may build from the nodes it could
\* read: one entry per master id, in the order of a map iteration.
Listings(nodes) ==
  LET read == {znodes[n] : n \in nodes}
  IN  {s \in UNION {[1..k -> read] : k \in 0..Cardinality(nodes)} :
         /\ \A i, j \in DOMAIN s : s[i].id = s[j].id => i = j
         /\ \A info \in read : \E i \in DOMAIN s : s[i].id = info.id}

notifyAllMasters ==
  /\ dpc = "notifyAll"
  /\ \E nodes \in SUBSET (children \cap Live) :
       /\ IF nodes = children \cap Live THEN faults' = faults
          ELSE /\ faults < MaxFaults
               /\ faults' = faults + 1
       /\ \E infos \in Listings(nodes) : UpdatedMasters(infos)
  /\ dpc' = "emitAll"
  /\ UNCHANGED <<znodes, nextNode, notify, children, leaderNode, changed, current>>

\* The send at the end of either callback.
EmitMasters ==
  /\ dpc \in {"emitMaster", "emitAll", "emitLost"}
  /\ emit(masters)
  /\ dpc' = IF dpc = "emitMaster" THEN "notifyAll" ELSE "watch"
  /\ UNCHANGED <<zkVars, children, leaderNode, masters, current>>

\* The watch ends with an error: the leader is lost and the watch is renewed.
WatchError ==
  /\ dpc = "watch"
  /\ faults < MaxFaults
  /\ faults' = faults + 1
  /\ notify' = TRUE
  /\ IF leaderNode # 0
     THEN leaderNode' = 0 /\ OnMasterChanged(Nil) /\ dpc' = "emitLost"
     ELSE UNCHANGED <<leaderNode, masters, dpc>>
  /\ UNCHANGED <<znodes, nextNode, children, changed, current>>

-----------------------------------------------------------------------------
(* ZooKeeper and the masters: a master registers under the next sequence     *)
(* number; its znode vanishes when its session ends.                         *)

Register ==
  /\ dpc # "off"
  /\ nextNode <= MaxNode
  /\ \E info \in Registrants : znodes' = [znodes EXCEPT ![nextNode] = info]
  /\ nextNode' = nextNode + 1
  /\ notify' = TRUE
  /\ UNCHANGED <<faults, detVars, changed, current>>

Expire ==
  /\ \E n \in Live :
       /\ Cardinality(Live) > MinNodes
       /\ znodes' = [znodes EXCEPT ![n] = Nil]
  /\ notify' = TRUE
  /\ UNCHANGED <<nextNode, faults, detVars, changed, current>>

\* `case masters := <-changed` and `config.Masters = masters` in main.
Receive ==
  /\ changed # << >>
  /\ current' = Head(changed)
  /\ changed' = Tail(changed)

ReceiveOnly == Receive /\ UNCHANGED <<zkVars, detVars>>

-----------------------------------------------------------------------------
\* detectMasters: with ZooKeeper the detector is started; without, the
\* configured masters are put into the channel once.
Init ==
  /\ \E useZk \in ZkModes :
       /\ znodes = [n \in NodeNum |-> IF useZk /\ n <= Len(InitialNodes)
                                      THEN InitialNodes[n] ELSE Nil]
       /\ dpc = IF useZk THEN "watch" ELSE "off"
       /\ changed = IF useZk THEN << >> ELSE <<Configured>>
  /\ nextNode = Len(InitialNodes) + 1
  /\ notify = TRUE
  /\ faults = 0
  /\ children = {}
  /\ leaderNode = 0
  /\ masters = NewMasters(Configured)
  /\ current = Configured

DetectorStep ==
  ChildrenChanged \/ notifyMasterChanged \/ notifyAllMasters \/ EmitMasters

Environment == Register \/ Expire \/ WatchError

Next == DetectorStep \/ Environment \/ ReceiveOnly

\* The goroutine runs whenever it is not blocked; main keeps receiving.
Fairness ==
  /\ WF_vars(DetectorStep)
  /\ WF_vars(ReceiveOnly)

Spec == Init /\ [][Next]_vars /\ Fairness

-----------------------------------------------------------------------------
MaybeAddr == Addr \cup {NoAddr}

TypeOK ==
  /\ znodes \in [NodeNum -> Info \cup {Nil}]
  /\ nextNode \in 1..(MaxNode + 1)
  /\ notify \in BOOLEAN
  /\ faults \in 0..MaxFaults
  /\ dpc \in {"off", "watch", "notifyMaster", "emitMaster", "notifyAll",
              "emitAll", "emitLost"}
  /\ children \in SUBSET NodeNum
  /\ leaderNode \in 0..MaxNode
  /\ masters \in Seq(MaybeAddr) /\ masters # << >>
  /\ changed \in Seq(Seq(MaybeAddr)) /\ Len(changed) <= 1
  /\ current \in Seq(MaybeAddr)

\* A list of masters names the leader, or "", first; no other entry is "" and
\* none repeats the leader.
WellFormed(list) ==
  \A i \in 2..Len(list) : list[i] \in Addr /\ list[i] # list[1]

\* Every list the main loop ever works with (Masters.masters, the lists in
\* the channel and config.Masters) is well formed, so that findMaster asks the
\* leader exactly once and no entry after the first is empty.
ListsWellFormed ==
  /\ WellFormed(masters)
  /\ \A i \in 1..Len(changed) : WellFormed(changed[i])
  /\ WellFormed(current)

\* Nothing emitted is lost or overtaken: whenever the detector goroutine is not
\* between computing a list and sending it, the newest list is the one in the
\* channel or, when that is empty, the one main took last.  Before the first
\* callback main works with the configured masters.
NewestDelivered ==
  dpc \in {"watch", "notifyMaster", "notifyAll"} =>
    LET newest == IF changed # << >> THEN changed[Len(changed)] ELSE current
    IN  \/ newest = masters
        \/ masters = NewMasters(Configured) /\ changed = << >> /\ current = Configured

\* When no ZooKeeper event waits, the goroutine is back at its watch and no
\* fault occurred, Masters.masters describes ZooKeeper: the owner of the lowest
\* znode leads and the other entries are the other registered masters, although
\* znodes may have come and gone between the list and the reads of a callback.
DescribesZooKeeper ==
  (dpc = "watch" /\ ~notify /\ faults = 0) =>
    LET leader == masterAddr(IF Live = {} THEN Nil ELSE znodes[TopNode(Live)])
    IN  /\ masters[1] = leader
        /\ {masters[i] : i \in 2..Len(masters)}
             = {masterAddr(znodes[n]) : n \in Live} \ {leader}

\* Once ZooKeeper stops changing, the main loop ends up with the detector's
\* last list: a send that had to wait for room in the channel still happens.
EventuallyReceived ==
  <>[](dpc # "off" =>
         dpc = "watch" /\ ~notify /\ changed = << >> /\ current = masters)
=============================================================================
