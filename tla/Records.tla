------------------------------ MODULE Records ------------------------------
(* RecordGenerator.InsertState (records/generator.go, records/chains.go): a  *)
(* state.json is turned into A and SRV records, framework by framework,      *)
(* master by master and task by task.  A record's name is the sequence of    *)
(* its labels, without the domain.  What becomes of the names of frameworks, *)
(* tasks and hosts is given by tables, which module Labels computes.         *)
EXTENDS MesosState, Labels, FiniteSets

CONSTANTS
  States,        \* what a leader's state.json may hold
  MasterLists,   \* Config.Masters
  Sources,       \* Config.IPSources
  Spelling,      \* name -> its characters
  Mangled,       \* EnforceRFC952 -> name -> [label, frag], by module Labels
  slaveIDTail,   \* slave id -> its last field
  hashString,    \* task id -> 5 characters of a hash, which may collide
  hostToIP4,     \* host name -> its address, or ""
  MasterN,       \* k -> "master" + strconv.Itoa(k)
  NoAddr,        \* an entry or a leader without a ":"
  Names, MaxLens \* the names and the lengths LabelsClean is about

Elems(s) == {s[k] : k \in DOMAIN s}

ASSUME RecordsAssumption ==
  /\ DOMAIN MasterN \subseteq Nat
  /\ \A k, l \in DOMAIN MasterN : MasterN[k] = MasterN[l] => k = l
  /\ \A k \in DOMAIN MasterN : MasterN[k] \notin {"master", "leader", "slave"}
  /\ \A l \in MasterLists : l \in Seq([ip : STRING, port : Nat] \cup {NoAddr})
                           /\ 0..Len(l) \subseteq DOMAIN MasterN
  /\ \A st \in States : /\ st.Frameworks \in Seq(Elems(st.Frameworks))
                        /\ \A f \in Elems(st.Frameworks) : f.Tasks \in Seq(Elems(f.Tasks))
  /\ \A st \in States, e \in BOOLEAN : \A f \in Elems(st.Frameworks) :
       Mangled[e][f.Name].frag \in Seq(STRING) \cup {Panic}

\* getProto of an entry without a host would name it "", which is never inserted.
ASSUME AddressAssumption ==
  /\ \A l \in MasterLists : \A m \in Elems(l) \ {NoAddr} : m.ip # ""
  /\ \A st \in States : st.Leader # NoAddr => st.Leader.ip # ""

\* What is read off a task's statuses; their times are compared as numbers.
ASSUME StatusAssumption ==
  /\ "" \notin DOMAIN ParseIP /\ \A a \in DOMAIN ParseIP : ParseIP[a] # ""
  /\ \A srcs \in Sources : srcs \in Seq(Elems(srcs))
  /\ \A st \in States : \A f \in Elems(st.Frameworks) : \A t \in Elems(f.Tasks) :
       /\ t.Statuses \in Seq(Elems(t.Statuses))
       /\ \A s \in Elems(t.Statuses) :
            /\ s.Timestamp \in Nat /\ s.Labels \in Seq(Elems(s.Labels))
            /\ s.NetworkInfos \in Seq(Elems(s.NetworkInfos))
            /\ \A n \in Elems(s.NetworkInfos) : n.IPAddresses \in Seq(Elems(n.IPAddresses))

\* The names of a task that are mangled on the way.
TaskNames(t) ==
  {t.Name, t.DiscoveryInfo.Name}
    \cup IF HasDiscoveryInfo(t)
           THEN UNION {{p.Protocol, p.Name} : p \in t.DiscoveryInfo.Ports} ELSE {}

\* The table holds what module Labels makes of a name: strings, where it does
\* not panic.
ASSUME MangledAssumption ==
  /\ \A st \in States :
       /\ {s.Host : s \in Elems(st.Slaves)} \subseteq DOMAIN Spelling
       /\ \A f \in Elems(st.Frameworks) :
            /\ f.Name \in DOMAIN Spelling
            /\ \A t \in Elems(f.Tasks) : TaskNames(t) \subseteq DOMAIN Spelling
  /\ \A n \in DOMAIN Spelling, e \in BOOLEAN :
       /\ Spelling[n] \in Seq(Chars)
       /\ Mangled[e][n] = [label |-> LabelString(hostSpecOf(e, Spelling[n])),
                           frag  |-> DomainFragOf(e, Spelling[n])]
       /\ hostSpecOf(e, Spelling[n]) # Panic => Mangled[e][n].label \in STRING
       /\ (\A p \in Elems(Split(Spelling[n], ".")) : hostSpecOf(e, p) # Panic)
            => Mangled[e][n].frag \in Seq(STRING)
  /\ <<"">> # Panic
  /\ Names \subseteq Seq(Chars) /\ MaxLens \subseteq Nat \ {0}

VARIABLES
  pc,
  EnforceRFC952, hostSpec, \* the configuration, and the label function it picks
  sj, masters, ipSources,  \* what InsertState is called with
  As, SRVs,                \* sets of [name, host] and [name, target, port]
  SlaveIPs,                \* slave id -> address, or what is left of a name
  i, idx, addedLeaderMasterN,  \* the locals of masterRecord
  at,                      \* the framework and the task taskRecords has come to
  EnumData                 \* the enumerated tasks: [task, records]

inputs == <<EnforceRFC952, hostSpec, sj, masters, ipSources>>
locals == <<i, idx, addedLeaderMasterN>>
vars == <<pc, inputs, As, SRVs, SlaveIPs, locals, at, EnumData>>

ARec(name, host) == [name |-> name, host |-> host]
SRVRec(name, target, port) == [name |-> name, target |-> target, port |-> port]

\* The hosts that rrs has under a name.
Addresses(name) == {a.host : a \in {x \in As : x.name = name}}

\* rrs.add refuses an empty host.
\* (variant: it does not)
NonEmpty_all(recs) == recs

NonEmpty(recs) == {r \in recs : r.host # ""}

spec(name) == hostSpec[name].label

\* Joined, no labels still make an empty one in front of the domain.
DomainFrag(name) ==
  LET labs == hostSpec[name].frag IN IF labs = << >> THEN <<"">> ELSE labs

\* main's goroutine panics, and HandleCrash ends the process.
Crash ==
  /\ pc' = "panic"
  /\ UNCHANGED <<inputs, As, SRVs, SlaveIPs, locals, at, EnumData>>

-----------------------------------------------------------------------------
ParseState ==
  /\ pc = "ParseState"
  /\ sj' \in States /\ masters' \in MasterLists /\ ipSources' \in Sources
  /\ hostSpec' = Mangled[EnforceRFC952]
  /\ pc' = "frameworks"
  /\ UNCHANGED <<EnforceRFC952, As, SRVs, SlaveIPs, locals, at, EnumData>>

frameworkRecords ==
  /\ pc = "frameworks"
  /\ LET fs == {f \in Elems(sj.Frameworks) : hostToIP4[HostPort(f).host] # ""}
         a(f) == DomainFrag(f.Name)
     IN IF \E f \in Elems(sj.Frameworks) : a(f) = Panic THEN Crash
        ELSE /\ As' = As \cup {ARec(a(f), hostToIP4[HostPort(f).host]) : f \in fs}
             /\ SRVs' = SRVs \cup
                  {SRVRec(<<"_framework", "_tcp">> \o a(f), a(f), HostPort(f).port) :
                     f \in {g \in fs : HostPort(g).port # 0}}
             /\ pc' = "slaves"
             /\ UNCHANGED <<inputs, SlaveIPs, locals, at, EnumData>>

\* The last slave with an id decides; one whose name does not resolve leaves
\* its mangled name as its tasks' address.
slaveRecords ==
  /\ pc = "slaves"
  /\ LET ss == sj.Slaves
         ok == {s \in Elems(ss) : hostToIP4[s.Host] # ""}
         last(id) == CHOOSE k \in DOMAIN ss :
                       ss[k].ID = id /\ \A l \in DOMAIN ss : ss[l].ID = id => l <= k
         address(s) == IF s \in ok THEN hostToIP4[s.Host]
                       ELSE LET labs == DomainFrag(s.Host)
                            IN Concat([k \in DOMAIN labs |->
                                 IF k = 1 THEN labs[k] ELSE "." \o labs[k]])
     IN IF \E s \in Elems(ss) \ ok : DomainFrag(s.Host) = Panic THEN Crash
        ELSE /\ As' = As \cup {ARec(<<"slave">>, hostToIP4[s.Host]) : s \in ok}
             /\ SRVs' = SRVs \cup {SRVRec(<<"_slave", "_tcp">>, <<"slave">>, s.Port) : s \in ok}
             /\ SlaveIPs' = [id \in {s.ID : s \in Elems(ss)} |-> address(ss[last(id)])]
             /\ pc' = "leader"
             /\ UNCHANGED <<inputs, locals, at, EnumData>>

\* masterRecord, up to its loop.
leaderRecord ==
  /\ pc = "leader"
  /\ IF sj.Leader = NoAddr
       THEN pc' = "tasks" /\ UNCHANGED <<As, SRVs>>
       ELSE /\ As' = As \cup {ARec(<<"leader">>, sj.Leader.ip), ARec(<<"master">>, sj.Leader.ip)}
            /\ SRVs' = SRVs \cup {SRVRec(<<"_leader", p>>, <<"leader">>, sj.Leader.port) :
                                    p \in {"_tcp", "_udp"}}
            /\ pc' = "masters"
  /\ UNCHANGED <<inputs, SlaveIPs, locals, at, EnumData>>

\* Whether the loop of masterRecord passes an entry over.
\* (variant: a second entry for an address is not)
Skip_shared(m) ==
  \/ m = NoAddr
  \/ m = sj.Leader /\ addedLeaderMasterN

Skip(m) ==
  \/ m = NoAddr
  \/ m # sj.Leader /\ m.ip \in Addresses(<<"master">>)
  \/ m = sj.Leader /\ addedLeaderMasterN

masterRecord ==
  /\ pc = "masters" /\ i < Len(masters)
  /\ i' = i + 1
  /\ LET m == masters[i + 1]
     IN IF Skip(m) THEN UNCHANGED <<As, idx, addedLeaderMasterN>>
        ELSE /\ As' = As \cup {ARec(<<"master">>, m.ip), ARec(<<MasterN[idx]>>, m.ip)}
             /\ idx' = idx + 1
             /\ addedLeaderMasterN' = (addedLeaderMasterN \/ m = sj.Leader)
  /\ UNCHANGED <<pc, inputs, SRVs, SlaveIPs, at, EnumData>>

\* The end of masterRecord: a leader that is not listed comes last.
unlistedLeader ==
  /\ pc = "masters" /\ i = Len(masters)
  /\ As' = IF addedLeaderMasterN THEN As
           ELSE As \cup {ARec(<<MasterN[idx]>>, sj.Leader.ip)}
  /\ pc' = "tasks"
  /\ UNCHANGED <<inputs, SRVs, SlaveIPs, locals, at, EnumData>>

-----------------------------------------------------------------------------
(* The chains; a chain maps a set of names to the names it generates. *)

withProtocol(names, protocol, framework) ==
  LET ps == IF spec(protocol) # "" THEN {spec(protocol)} ELSE {"tcp", "udp"}
  IN {n \o <<"_" \o p>> \o framework : n \in names, p \in ps}

withSubdomains(names, subdomains) ==
  {IF s = "" THEN n ELSE Append(n, s) : n \in names, s \in subdomains}

withNamedPort(names, portName) ==
  names \cup IF spec(portName) = "" THEN {}
             ELSE {<<"_" \o spec(portName)>> \o n : n \in names}

canonical(f, t, taskName) ==
  <<taskName \o "-" \o hashString[t.ID] \o "-" \o slaveIDTail[t.SlaveID]>> \o DomainFrag(f.Name)

\* The A records of a task.
\* (variant: the canonical name has none under "slave")
taskAs_canonical(arec, name, taskIP, slaveIP) ==
  {ARec(arec, taskIP), ARec(name, taskIP), ARec(Append(arec, "slave"), slaveIP)}

taskAs(arec, name, taskIP, slaveIP) ==
  {ARec(arec, taskIP), ARec(name, taskIP),
   ARec(Append(arec, "slave"), slaveIP), ARec(Append(name, "slave"), slaveIP)}

taskContextRecord(f, t, taskName) ==
  LET fname == DomainFrag(f.Name)
      name  == canonical(f, t, taskName)
      arec  == <<taskName>> \o fname
      slaveIP == SlaveIPs[t.SlaveID]
      taskIP == IP(t, slaveIP, ipSources)
      subdomains == IF HasDiscoveryInfo(t) THEN {"slave"} ELSE {"slave", ""}
      plain == withSubdomains(withProtocol({<<"_" \o taskName>>}, "", fname), subdomains)
      named(p) == withNamedPort(withProtocol({<<"_" \o taskName>>}, p.Protocol, fname), p.Name)
  IN [A |-> NonEmpty(taskAs(arec, name, taskIP, slaveIP)),
      SRV |-> {SRVRec(n, Append(name, "slave"), p) : n \in plain, p \in Ports(t.Ranges)}
              \cup IF ~HasDiscoveryInfo(t) THEN {}
                   ELSE UNION {{SRVRec(n, name, p.Number) : n \in named(p)} :
                                 p \in t.DiscoveryInfo.Ports}]

\* The names a task goes by: of its discovery info, as it is and mangled.
taskNames(t) ==
  IF HasDiscoveryInfo(t) THEN {t.DiscoveryInfo.Name, spec(t.DiscoveryInfo.Name)}
                         ELSE {spec(t.Name)}

\* Only running tasks of known slaves have records.
Discoverable(t) == t.SlaveID \in DOMAIN SlaveIPs /\ t.State = "TASK_RUNNING"

\* insertTaskRR enumerates what insertRR adds.
\* (variant: it enumerates what it is given)
Enumerated_all(recs) == recs

Enumerated(recs) == [A |-> recs.A \ As, SRV |-> recs.SRV \ SRVs]

taskRecord ==
  /\ pc = "tasks" /\ at[1] <= Len(sj.Frameworks)
  /\ at[2] <= Len(sj.Frameworks[at[1]].Tasks)
  /\ LET f == sj.Frameworks[at[1]]
         t == f.Tasks[at[2]]
         ctx == {taskContextRecord(f, t, n) : n \in taskNames(t)}
         recs == [A |-> UNION {c.A : c \in ctx}, SRV |-> UNION {c.SRV : c \in ctx}]
     IN IF ~Discoverable(t)
          THEN /\ at' = <<at[1], at[2] + 1>>
               /\ UNCHANGED <<pc, inputs, As, SRVs, SlaveIPs, locals, EnumData>>
        ELSE IF \E n \in TaskNames(t) : spec(n) = Panic THEN Crash
        ELSE /\ As' = As \cup recs.A
             /\ SRVs' = SRVs \cup recs.SRV
             /\ EnumData' = Append(EnumData, [f |-> f, t |-> t, records |-> Enumerated(recs)])
             /\ at' = <<at[1], at[2] + 1>>
             /\ UNCHANGED <<pc, inputs, SlaveIPs, locals>>

\* taskRecords has dealt with a framework; after the last, InsertState returns,
\* and the next reload starts with a new generator.
taskRecords ==
  /\ pc = "tasks"
  /\ IF at[1] > Len(sj.Frameworks) THEN pc' = "done" /\ UNCHANGED at
     ELSE /\ at[2] > Len(sj.Frameworks[at[1]].Tasks)
          /\ at' = <<at[1] + 1, 1>> /\ UNCHANGED pc
  /\ UNCHANGED <<inputs, As, SRVs, SlaveIPs, locals, EnumData>>

Init ==
  /\ pc = "ParseState"
  /\ EnforceRFC952 \in BOOLEAN /\ hostSpec = << >>
  /\ sj = [Frameworks |-> << >>, Slaves |-> << >>, Leader |-> NoAddr]
  /\ masters = << >> /\ ipSources = << >>
  /\ As = {} /\ SRVs = {} /\ SlaveIPs = << >>
  /\ i = 0 /\ idx = 0 /\ addedLeaderMasterN = FALSE
  /\ at = <<1, 1>> /\ EnumData = << >>

Next ==
  \/ ParseState
  \/ frameworkRecords \/ slaveRecords
  \/ leaderRecord \/ masterRecord \/ unlistedLeader
  \/ taskRecord \/ taskRecords

Spec == Init /\ [][Next]_vars

-----------------------------------------------------------------------------
(* Properties *)

TypeOK ==
  /\ pc \in {"ParseState", "frameworks", "slaves", "leader", "masters", "tasks",
              "done", "panic"}
  /\ EnforceRFC952 \in BOOLEAN /\ addedLeaderMasterN \in BOOLEAN
  /\ i \in 0..Len(masters) /\ idx \in 0..i
  /\ \A a \in As : a.name \in Seq(STRING) /\ a.host \in STRING \ {""}
  /\ \A s \in SRVs : s.name \in Seq(STRING) /\ s.port \in Nat \ {0}

Numbered == {k \in DOMAIN MasterN : Addresses(<<MasterN[k]>>) # {}}

\* No framework has taken a name of the masters.
NoClash ==
  \A f \in Elems(sj.Frameworks) :
    DomainFrag(f.Name) \notin {<<"leader">>, <<"master">>} \cup {<<MasterN[k]>> : k \in DOMAIN MasterN}

\* "masterN.domain. // one IP address for each master", "leader.domain. // one IP
\* address for the leading master": whatever the list of masters holds (entries
\* that do not parse, one host twice, the leader twice or not at all), the
\* numbers have no gap, each has one address, no address has two numbers, and
\* the addresses are those under master, the leader's and every listed one.
MastersNumbered ==
  (pc \in {"tasks", "done"} /\ sj.Leader # NoAddr /\ NoClash) =>
    /\ Numbered = 0..(Cardinality(Numbered) - 1)
    /\ \A k \in Numbered : Cardinality(Addresses(<<MasterN[k]>>)) = 1
    /\ \A k, l \in Numbered :
         k # l => Addresses(<<MasterN[k]>>) \cap Addresses(<<MasterN[l]>>) = {}
    /\ Addresses(<<"master">>) = UNION {Addresses(<<MasterN[k]>>) : k \in Numbered}
    /\ Addresses(<<"master">>) =
         {sj.Leader.ip} \cup {m.ip : m \in Elems(masters) \ {NoAddr}}
    /\ Addresses(<<"leader">>) = {sj.Leader.ip}

\* A client that follows an SRV record finds an address, whichever mixture of
\* names, chains and discovery info it came from, unless the task has no address
\* of that kind at all (insertRR refuses "", asSRV adds the SRV record anyway).
TargetsResolve ==
  pc = "done" => \A s \in SRVs :
    \/ Addresses(s.target) # {}
    \/ \E e \in Elems(EnumData) : \E n \in taskNames(e.t) :
         LET name == canonical(e.f, e.t, n)
             slaveIP == SlaveIPs[e.t.SlaveID]
         IN \/ s.target = name /\ IP(e.t, slaveIP, ipSources) = ""
            \/ s.target = Append(name, "slave") /\ slaveIP = ""

\* "EnumerableRecord ... should map 1:1 with DNS records": /v1/enumerate lists no
\* record twice, though tasks share names, and only records that are served; what
\* it leaves out bears a name of a framework, the slaves or the masters.
EnumerationExact ==
  /\ \A k, l \in DOMAIN EnumData : k # l =>
       /\ EnumData[k].records.A \cap EnumData[l].records.A = {}
       /\ EnumData[k].records.SRV \cap EnumData[l].records.SRV = {}
  /\ LET listed == UNION {e.records.A : e \in Elems(EnumData)}
         infra == {DomainFrag(f.Name) : f \in Elems(sj.Frameworks)}
                   \cup {<<"slave">>, <<"leader">>, <<"master">>}
                   \cup {<<MasterN[k]>> : k \in DOMAIN MasterN}
     IN listed \subseteq As /\ \A a \in As \ listed : a.name \in infra

\* The newest running statuses of a task, in whatever order state.json lists
\* them: none, or several if their times are equal.
Newest(t) ==
  LET run == {s \in Elems(t.Statuses) : s.State = "TASK_RUNNING"}
  IN  {s \in run : \A r \in run : r.Timestamp <= s.Timestamp}

\* What a status says by a source.
Stated(s, src) ==
  CASE src = "docker"  -> {l.Value : l \in {x \in Elems(s.Labels) : x.Key = "docker"}}
    [] src = "mesos"   -> {l.Value : l \in {x \in Elems(s.Labels) : x.Key = "mesos"}}
    [] src = "netinfo" -> UNION {IF n.IPAddresses # << >> THEN Elems(n.IPAddresses) ELSE {n.IPAddress} :
                                   n \in Elems(s.NetworkInfos)}
    [] OTHER           -> {}

\* The addresses by a source, given the statuses that count.
AddressesBy(statuses, slaveIP, src) ==
  {ParseIP[a] : a \in DOMAIN ParseIP \cap
                        IF src = "host" THEN {slaveIP} ELSE UNION {Stated(s, src) : s \in statuses}}

\* "fallback list of IP sources for task records, sorted by priority": a task
\* with these statuses is to be found at ip.
ByPriority(ip, statuses, slaveIP) ==
  LET some == {k \in DOMAIN ipSources : AddressesBy(statuses, slaveIP, ipSources[k]) # {}}
  IN  \/ some = {} /\ ip = ""
      \/ \E k \in some : /\ \A l \in some : k <= l
                         /\ ip \in AddressesBy(statuses, slaveIP, ipSources[k])

\* Something else goes by a task's canonical name: a framework, another task
\* (of this name, slave and framework, if their hashes collide) or a slave.
Shared(name, e) ==
  \/ name \in {DomainFrag(f.Name) : f \in Elems(sj.Frameworks)}
  \/ \E d \in Elems(EnumData) : \E m \in taskNames(d.t) :
       LET arec == <<m>> \o DomainFrag(d.f.Name)
           other == canonical(d.f, d.t, m)
       IN  \/ d # e /\ name \in {arec, other}
           \/ name \in {Append(arec, "slave"), Append(other, "slave")}

\* A task's canonical name leads to that task alone, at an address of its newest
\* running status from the first source that has one, unless the name is shared.
OwnAddress ==
  \A e \in Elems(EnumData) : \A n \in taskNames(e.t) :
    LET name == canonical(e.f, e.t, n)
    IN  \/ Shared(name, e)
        \/ \E statuses \in {{s} : s \in Newest(e.t)} \cup IF Newest(e.t) = {} THEN {{}} ELSE {} :
             \E ip \in Addresses(name) \cup {""} :
               Addresses(name) = {ip} \ {""} /\ ByPriority(ip, statuses, SlaveIPs[e.t.SlaveID])

leftCutset == IF EnforceRFC952 THEN Digits \cup {"-"} ELSE {"-"}

\* A name whose cut does not fall on a dash becomes the best label there is of
\* it: the right length, trimmed at both ends and nothing left out in between,
\* whatever is dropped from the name before it is cut (RFC952, RFC1123).  And
\* wherever the cut falls, no label is too long or begins with a character of
\* the left cutset (records/labels/labels_test.go checks both at random).
LabelsClean ==
  pc = "ParseState" => \A n \in Names, k \in MaxLens : CleanLabel(n, k, leftCutset)

\* A name, or a part of a name, is longer than a label and cut on a dash.
Cut(name) ==
  CutOnDash(name, IF EnforceRFC952 THEN MaxRFC952 ELSE MaxRFC1123, leftCutset)
CutPart(n) == \E p \in Elems(Split(Spelling[n], ".")) : Cut(p)

CutSomewhere ==
  \/ \E s \in Elems(sj.Slaves) : CutPart(s.Host)
  \/ \E f \in Elems(sj.Frameworks) :
       \/ CutPart(f.Name)
       \/ \E t \in Elems(f.Tasks) : \E n \in TaskNames(t) : Cut(Spelling[n])

\* A state.json stops the program only if the name of a task or of a port of
\* one, or a part of the name of a framework or a host, is cut on a dash.
PanicsOnCutOnDash == pc = "panic" => CutSomewhere
=============================================================================
