----------------------------- MODULE ZoneServer -----------------------------
(* The builtin resolver while main refreshes it: DNS and HTTP handlers run   *)
(* in goroutines of their own (resolvers/builtin/resolver.go) against the    *)
(* RecordGenerator that Reload installs and the Config that all generators   *)
(* share, whose SOASerial InsertState overwrites (records/generator.go).     *)
EXTENDS Naturals, Sequences, FiniteSets

CONSTANTS
  Clients,       \* concurrent handlers
  Names, QNames, \* record names, and names as they are asked
  Clean,         \* QNames -> Names: strings.ToLower(cleanWild(.)), final dot
  InZone,        \* the asked names under config.Domain
  Addrs, BadAddrs, NoAddr, \* A data; those net.ParseIP refuses; ""
  Zones,         \* record sets a state.json may give
  None,
  MaxRefreshes, MaxClock, MaxQueries  \* bounds

DNSTypes == {"SRV", "A", "SOA", "NS", "ANY", "AAAA", "TXT"}
RestTypes == {"host", "service", "enumerate", "axfr"}
EmptyZone == [A |-> [nm \in Names |-> {}], SRV |-> [nm \in Names |-> {}]]
Targets == UNION {z.SRV[nm] : z \in Zones, nm \in Names}

ASSUME ZoneAssumption ==
  /\ Clean \in [QNames -> Names] /\ InZone \subseteq QNames
  /\ BadAddrs \subseteq Addrs /\ NoAddr \notin Addrs
  /\ \A z \in Zones : /\ z.A \in [Names -> SUBSET Addrs]
                      /\ DOMAIN z.SRV = Names
  /\ \A t \in Targets : t.host \in Names
  /\ None \notin Zones \cup {EmptyZone}
  /\ None \notin [type : DNSTypes \cup RestTypes, name : QNames]
  /\ IsFiniteSet(Clients)
  /\ MaxRefreshes \in Nat /\ MaxClock \in Nat /\ MaxQueries \in Nat

VARIABLES
  clock,     \* time.Now().Unix()
  serial,    \* Config.SOASerial, shared by all generators
  built,     \* the generator InsertState filled and Reload has yet to install
  rg,        \* Resolver.rg: its records, and the serial InsertState gave them
  refreshes,
  pc,        \* client -> "idle", "records" or "handle"
  query, snap, todo, msg,  \* client -> the locals of its handler
  serials,   \* client -> SOA serials loaded for its last question
  reply,     \* client -> the last message written to it
  queries,
  counters   \* logging.CurLog: MesosRequests, MesosSuccess, MesosNXDomain

refresher == <<clock, serial, built, rg, refreshes>>
handlers == <<pc, query, snap, todo, msg, serials, reply, queries, counters>>
vars == <<refresher, handlers>>

EmptyMsg == [answer |-> {}, authority |-> {}, extra |-> {},
             rcode |-> "NOERROR", tc |-> FALSE]

-----------------------------------------------------------------------------
(* The refresher: main's goroutine *)

Tick ==
  /\ clock < MaxClock
  /\ clock' = clock + 1
  /\ UNCHANGED <<serial, built, rg, refreshes, handlers>>

\* A generator is filled, and its last act is to stamp the shared Config.
\* (variant: the serial written is that of the generator being replaced)
InsertState_late ==
  /\ built = None /\ refreshes < MaxRefreshes
  /\ refreshes' = refreshes + 1
  /\ \E z \in Zones : built' = [zone |-> z, serial |-> clock]
  /\ serial' = rg.serial
  /\ UNCHANGED <<clock, rg, handlers>>

InsertState ==
  /\ built = None /\ refreshes < MaxRefreshes
  /\ refreshes' = refreshes + 1
  /\ \E z \in Zones : built' = [zone |-> z, serial |-> clock]
  /\ serial' = clock
  /\ UNCHANGED <<clock, rg, handlers>>

\* The pointer is swapped under rsLock.
Reload ==
  /\ built # None
  /\ rg' = built /\ built' = None
  /\ UNCHANGED <<clock, serial, refreshes, handlers>>

-----------------------------------------------------------------------------
(* The handlers *)

Inc(field) == counters' = [counters EXCEPT ![field] = @ + 1]

\* The handlers HandleMesos calls for a type of question, in order.
Handlers(type) ==
  CASE type = "ANY" -> <<"SRV", "A", "SOA", "NS">>
    [] type \in {"SRV", "A", "SOA", "NS"} -> <<type>>
    [] OTHER -> << >>

\* A question reaches HandleMesos, or a request a Rest handler.
Receive(c) ==
  /\ pc[c] = "idle" /\ queries < MaxQueries
  /\ queries' = queries + 1
  /\ \E t \in DNSTypes \cup RestTypes, nm \in QNames :
       /\ t \in DNSTypes => nm \in InZone
       /\ query' = [query EXCEPT ![c] = [type |-> t, name |-> nm]]
       /\ todo' = [todo EXCEPT ![c] = Handlers(t)]
       /\ IF t \in DNSTypes THEN Inc("requests") ELSE UNCHANGED counters
  /\ msg' = [msg EXCEPT ![c] = EmptyMsg]
  /\ serials' = [serials EXCEPT ![c] = {}]
  /\ pc' = [pc EXCEPT ![c] = "records"]
  /\ UNCHANGED <<refresher, snap, reply>>

\* res.records(): the pointer is read under rsLock.
records(c) ==
  /\ pc[c] = "records"
  /\ snap' = [snap EXCEPT ![c] = rg]
  /\ pc' = [pc EXCEPT ![c] = "handle"]
  /\ UNCHANGED <<refresher, query, todo, msg, serials, reply, queries, counters>>

\* The records a handler looks at.
\* (variant: it follows res.rg instead of the generator it was given)
rs_live(c) == rg.zone

rs(c) == snap[c].zone

\* formatA fails for an address that does not parse: the record is left out.
formatA(owner, as) ==
  {[type |-> "A", owner |-> owner, data |-> a] : a \in as \ BadAddrs}

\* First returns any address.  A host whose pick fails is tried again for its
\* next SRV record, so it may end up with any good address or, if it has a bad
\* one, with none.
First(z, host) ==
  {a \in Addrs \cup {NoAddr} :
     IF a = NoAddr THEN z.A[host] = {} \/ z.A[host] \cap BadAddrs # {}
                   ELSE a \in z.A[host] \ BadAddrs}

handleSRV(z, q, m) ==
  LET srvs  == z.SRV[Clean[q.name]]
      hosts == {t.host : t \in srvs}
      picks == {f \in [hosts -> Addrs \cup {NoAddr}] :
                  \A h \in hosts : f[h] \in First(z, h)}
  IN {[m EXCEPT
         !.answer = @ \cup {[type |-> "SRV", owner |-> q.name, data |-> t] : t \in srvs},
         !.extra = @ \cup UNION {formatA(h, {f[h]} \ {NoAddr}) : h \in hosts}] :
      f \in picks}

handleA(z, q, m) ==
  [m EXCEPT !.answer = @ \cup formatA(Clean[q.name], z.A[Clean[q.name]])]

\* One handler of HandleMesos.  formatSOA loads the serial of the moment.
Handle(c) ==
  /\ pc[c] = "handle" /\ todo[c] # << >>
  /\ LET h == Head(todo[c])
         m == msg[c]
     IN /\ msg' \in {[msg EXCEPT ![c] = x] : x \in
              CASE h = "SRV" -> handleSRV(rs(c), query[c], m)
                [] h = "A"   -> {handleA(rs(c), query[c], m)}
                [] OTHER     -> {[m EXCEPT !.authority = @ \cup {h}]}}
        /\ serials' = IF h = "SOA" THEN [serials EXCEPT ![c] = @ \cup {serial}]
                                   ELSE serials
  /\ todo' = [todo EXCEPT ![c] = Tail(@)]
  /\ UNCHANGED <<refresher, pc, query, snap, reply, queries, counters>>

handleEmpty(z, q, m) ==
  IF q.type \in {"SOA", "NS", "SRV"} THEN m
  ELSE [m EXCEPT !.authority = @ \cup {"SOA"},
                 !.rcode = IF \/ q.type = "AAAA"
                              \/ z.SRV[Clean[q.name]] \cup z.A[Clean[q.name]] # {}
                             THEN "NOERROR" ELSE "NXDOMAIN"]

\* What module Truncate may make of a message: all of it, or its answers
\* shuffled and cut, without the additional records.
truncate(m) ==
  {m} \cup {[m EXCEPT !.tc = TRUE, !.extra = {}, !.answer = a] : a \in SUBSET m.answer}

\* Where the outcome of a question is counted.
\* (variant: an empty answer to an SRV question is not counted)
Outcome_uncounted(q, m) ==
  IF m.answer # {} THEN "success"
  ELSE IF q.type \in {"SOA", "NS", "SRV"} THEN "none" ELSE "nxdomain"

Outcome(q, m) ==
  IF m.answer # {} \/ q.type \in {"SOA", "NS", "SRV"} THEN "success" ELSE "nxdomain"

Done(c, m) ==
  /\ reply' = [reply EXCEPT ![c] = m]
  /\ msg' = [msg EXCEPT ![c] = EmptyMsg]
  /\ pc' = [pc EXCEPT ![c] = "idle"]
  /\ UNCHANGED <<refresher, query, snap, todo, queries>>

\* The end of HandleMesos.
Reply(c) ==
  /\ pc[c] = "handle" /\ todo[c] = << >> /\ query[c].type \in DNSTypes
  /\ LET q == query[c]
         empty == msg[c].answer = {}
         m == IF empty THEN handleEmpty(rs(c), q, msg[c]) ELSE msg[c]
     IN /\ \E x \in truncate(m) : Done(c, x)
        /\ Inc(Outcome(q, m))
        /\ serials' = IF empty /\ q.type \notin {"SOA", "NS", "SRV"}
                        THEN [serials EXCEPT ![c] = @ \cup {serial}] ELSE serials

\* stats(): a Rest question under the domain is counted like a DNS one.
stats(q, found) ==
  IF q.name \in InZone
    THEN counters' = [counters EXCEPT
                        !.requests = @ + 1,
                        ![IF found THEN "success" ELSE "nxdomain"] = @ + 1]
    ELSE UNCHANGED counters

RestHost(c) ==
  /\ pc[c] = "handle" /\ query[c].type = "host"
  /\ LET as == rs(c).A[Clean[query[c].name]]
     IN Done(c, [records |-> as]) /\ stats(query[c], as # {})
  /\ UNCHANGED serials

RestService(c) ==
  /\ pc[c] = "handle" /\ query[c].type = "service"
  /\ LET z == rs(c)
         srvs == z.SRV[Clean[query[c].name]]
         ips(t) == IF z.A[t.host] = {} THEN {NoAddr} ELSE z.A[t.host]
     IN /\ \E f \in [srvs -> Addrs \cup {NoAddr}] :
             /\ \A t \in srvs : f[t] \in ips(t)
             /\ Done(c, [records |-> {[target |-> t, ip |-> f[t]] : t \in srvs}])
        /\ stats(query[c], srvs # {})
  /\ UNCHANGED serials

RestEnumerate(c) ==
  /\ pc[c] = "handle" /\ query[c].type = "enumerate"
  /\ Done(c, [records |-> rs(c)])
  /\ UNCHANGED <<serials, counters>>

\* The records are the snapshot's, the serial is the Config's.
RestAXFR(c) ==
  /\ pc[c] = "handle" /\ query[c].type = "axfr"
  /\ Done(c, [records |-> rs(c)])
  /\ serials' = [serials EXCEPT ![c] = {serial}]
  /\ UNCHANGED counters

-----------------------------------------------------------------------------
Init ==
  /\ clock = 1 /\ serial = 1 /\ built = None /\ refreshes = 0   \* NewConfig
  /\ rg = [zone |-> EmptyZone, serial |-> 1]
  /\ pc = [c \in Clients |-> "idle"]
  /\ query = [c \in Clients |-> None]
  /\ snap = [c \in Clients |-> None]
  /\ todo = [c \in Clients |-> << >>]
  /\ msg = [c \in Clients |-> EmptyMsg]
  /\ serials = [c \in Clients |-> {}]
  /\ reply = [c \in Clients |-> None]
  /\ queries = 0
  /\ counters = [requests |-> 0, success |-> 0, nxdomain |-> 0]

Next ==
  \/ Tick \/ InsertState \/ Reload
  \/ \E c \in Clients :
       \/ Receive(c) \/ records(c) \/ Handle(c) \/ Reply(c)
       \/ RestHost(c) \/ RestService(c) \/ RestEnumerate(c) \/ RestAXFR(c)

Spec == Init /\ [][Next]_vars

-----------------------------------------------------------------------------
(* Properties *)

\* Reload may run between any two steps of a handler, yet every reply is right
\* for one zone that was served between the question and the reply: the answers,
\* the additional records, the response code and the REST listings of a reply
\* all come from the generator that records() returned.
Lookup == INSTANCE ZoneLookup WITH
  zone  <- rg.zone,
  asked <- [c \in Clients |-> IF pc[c] = "idle" THEN None ELSE query[c]],
  seen  <- [c \in Clients |-> IF pc[c] = "handle" THEN snap[c].zone ELSE None],
  reply <- reply
RepliesFromOneZone == Lookup!Spec

\* A serial is never older than the records it is sent with: InsertState stamps
\* the shared Config before Reload installs the records, so a reader that keys
\* its copy on the serial is never told less than it was given.
SerialNotBehind ==
  \A c \in Clients : \A s \in serials[c] : s >= snap[c].serial

\* Every question HandleMesos has finished is counted once, as a success or as
\* NXDOMAIN, and MesosRequests exceeds their sum by the questions in progress.
CountersBalance ==
  counters.requests = counters.success + counters.nxdomain
    + Cardinality({c \in Clients : pc[c] # "idle" /\ query[c].type \in DNSTypes})
=============================================================================
