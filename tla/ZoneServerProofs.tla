-------------------------- MODULE ZoneServerProofs --------------------------
(* Theorems about module ZoneServer, for any number of handlers, zones,      *)
(* names, refreshes and questions.                                           *)
EXTENDS ZoneServer, Truncate, TLAPS

-----------------------------------------------------------------------------
(* The serial *)

\* The serial of the shared Config is that of the generator filled last: not
\* older than any generator that is installed or that a handler looks at.  A
\* handler that has yet to get its generator has loaded no serial.
SerialInv ==
  /\ clock \in Nat /\ serial \in Nat /\ serial <= clock
  /\ built # None => built.serial = serial
  /\ rg.serial \in Nat /\ rg.serial <= serial
  /\ pc \in [Clients -> {"idle", "records", "handle"}]
  /\ DOMAIN snap = Clients /\ DOMAIN serials = Clients
  /\ \A c \in Clients :
       /\ pc[c] = "handle" => snap[c].serial \in Nat /\ snap[c].serial <= serial
       /\ pc[c] = "records" => serials[c] = {}
       /\ \A s \in serials[c] : s \in Nat /\ s >= snap[c].serial

LEMMA InitSerialInv == Init => SerialInv
BY DEF Init, SerialInv

LEMMA NextSerialInv == SerialInv /\ [Next]_vars => SerialInv'
<1> SUFFICES ASSUME SerialInv, [Next]_vars PROVE SerialInv'
  BY Zenon
<1> USE DEF SerialInv
<1>1. CASE Tick
  BY <1>1 DEF Tick, handlers
<1>2. CASE InsertState
  BY <1>2 DEF InsertState, handlers
<1>3. CASE Reload
  BY <1>3 DEF Reload, handlers
<1>4. ASSUME NEW c \in Clients, Receive(c) PROVE SerialInv'
  BY <1>4, Zenon DEF Receive, refresher
<1>5. ASSUME NEW c \in Clients, records(c) PROVE SerialInv'
  BY <1>5, Zenon DEF records, refresher
<1>6. ASSUME NEW c \in Clients, Handle(c) PROVE SerialInv'
  <2>1. serials' \in {serials, [serials EXCEPT ![c] = @ \cup {serial}]}
    BY <1>6, Zenon DEF Handle
  <2> QED
    BY <1>6, <2>1, Zenon DEF Handle, refresher
<1>7. ASSUME NEW c \in Clients, NEW m, Done(c, m), pc[c] = "handle",
             \/ serials' = serials
             \/ serials' = [serials EXCEPT ![c] = @ \cup {serial}]
             \/ serials' = [serials EXCEPT ![c] = {serial}]
      PROVE  SerialInv'
  BY <1>7 DEF Done, refresher
<1>8. ASSUME NEW c \in Clients, Reply(c) PROVE SerialInv'
  <2>1. PICK m : Done(c, m)
    BY <1>8, Zenon DEF Reply
  <2>2. serials' \in {serials, [serials EXCEPT ![c] = @ \cup {serial}]}
    BY <1>8, Zenon DEF Reply
  <2> QED
    BY <1>7, <1>8, <2>1, <2>2, ZenonT(40) DEF Reply
<1>9. ASSUME NEW c \in Clients, RestHost(c) \/ RestService(c) \/ RestEnumerate(c)
      PROVE  SerialInv'
  <2>1. PICK m : Done(c, m)
    BY <1>9, Zenon DEF RestHost, RestService, RestEnumerate
  <2> QED
    BY <1>7, <1>9, <2>1, Zenon DEF RestHost, RestService, RestEnumerate
<1>10. ASSUME NEW c \in Clients, RestAXFR(c) PROVE SerialInv'
  BY <1>7, <1>10, Zenon DEF RestAXFR
<1>11. CASE UNCHANGED vars
  BY <1>11, Zenon DEF vars, refresher, handlers
<1> QED
  BY <1>1, <1>2, <1>3, <1>4, <1>5, <1>6, <1>8, <1>9, <1>10, <1>11, Zenon DEF Next

\* No reply pairs records with a serial older than the one they were generated
\* with, for any number of handlers, refreshes and seconds.
THEOREM SerialNeverBehind == Spec => []SerialNotBehind
<1>1. SerialInv => SerialNotBehind
  BY Zenon DEF SerialInv, SerialNotBehind
<1> QED
  BY <1>1, InitSerialInv, NextSerialInv, PTL DEF Spec

-----------------------------------------------------------------------------
(* The refinement: every reply is right for one zone *)

Served == Zones \cup {EmptyZone}
Questions == [type : DNSTypes \cup RestTypes, name : QNames]

IsMsg(m) == m = [answer |-> m.answer, authority |-> m.authority, extra |-> m.extra,
                 rcode |-> m.rcode, tc |-> m.tc]

\* The lists of handlers yet to run.
Lefts(type) ==
  IF type = "ANY"
    THEN {<<"SRV", "A", "SOA", "NS">>, <<"A", "SOA", "NS">>, <<"SOA", "NS">>, <<"NS">>, << >>}
  ELSE IF type \in {"SRV", "A", "SOA", "NS"} THEN {<<type>>, << >>}
  ELSE {<< >>}

RanSRV(type, rest) ==
  \/ type = "SRV" /\ rest = << >>
  \/ type = "ANY" /\ rest # <<"SRV", "A", "SOA", "NS">>
RanA(type, rest) ==
  \/ type = "A" /\ rest = << >>
  \/ type = "ANY" /\ rest \notin {<<"SRV", "A", "SOA", "NS">>, <<"A", "SOA", "NS">>}

\* What the handlers that ran have put in a message.
Partial(z, q, rest, m) ==
  /\ IsMsg(m) /\ m.rcode = "NOERROR" /\ m.tc = FALSE
  /\ rest \in Lefts(q.type)
  /\ m.answer = (IF RanSRV(q.type, rest) THEN Lookup!SRVRecords(z, q) ELSE {})
                  \cup (IF RanA(q.type, rest) THEN Lookup!ARecords(z, Clean[q.name]) ELSE {})
  /\ IF RanSRV(q.type, rest) THEN Lookup!AdditionalOK(z, q, m.extra) ELSE m.extra = {}
  /\ q.type = "SOA" /\ rest = << >> => "SOA" \in m.authority

LEMMA ServedZones ==
  ASSUME NEW z \in Served
  PROVE  /\ z.A \in [Names -> SUBSET Addrs]
         /\ \A nm \in Names : \A t \in z.SRV[nm] : t.host \in Names
<1>1. CASE z \in Zones
  <2>1. \A nm \in Names : \A t \in z.SRV[nm] : t \in Targets
    BY <1>1 DEF Targets
  <2> QED
    BY <1>1, <2>1, ZoneAssumption, Zenon
<1>2. CASE z = EmptyZone
  BY <1>2, Zenon DEF EmptyZone
<1> QED
  BY <1>1, <1>2, Zenon DEF Served

LEMMA FirstPartial ==
  ASSUME NEW z, NEW q, q.type \in DNSTypes
  PROVE  Partial(z, q, Handlers(q.type), EmptyMsg)
<1>1. IsMsg(EmptyMsg)
  BY Zenon DEF IsMsg, EmptyMsg
<1>2. Handlers(q.type) = IF q.type = "ANY" THEN <<"SRV", "A", "SOA", "NS">>
                         ELSE IF q.type \in {"SRV", "A", "SOA", "NS"} THEN <<q.type>> ELSE << >>
  BY Zenon DEF Handlers, DNSTypes
<1>3. \A t : <<t>> # << >>
  BY Zenon
<1> QED
  BY <1>1, <1>2, <1>3, Zenon DEF Partial, EmptyMsg, Lefts, RanSRV, RanA, DNSTypes

\* handleSRV adds the SRV records and an address for each target it can.
LEMMA SRVAdded ==
  ASSUME NEW z \in Served, NEW q \in Questions, q.type \in {"SRV", "ANY"},
         NEW m, IsMsg(m), m.extra = {}, NEW x \in handleSRV(z, q, m)
  PROVE  /\ IsMsg(x) /\ x.rcode = m.rcode /\ x.tc = m.tc /\ x.authority = m.authority
         /\ x.answer = m.answer \cup Lookup!SRVRecords(z, q)
         /\ Lookup!AdditionalOK(z, q, x.extra)
<1> DEFINE srvs == z.SRV[Clean[q.name]]
           hosts == {t.host : t \in srvs}
<1>1. PICK f \in [hosts -> Addrs \cup {NoAddr}] :
        /\ \A h \in hosts : f[h] \in First(z, h)
        /\ x = [m EXCEPT
                  !.answer = @ \cup {[type |-> "SRV", owner |-> q.name, data |-> t] : t \in srvs},
                  !.extra = @ \cup UNION {formatA(h, {f[h]} \ {NoAddr}) : h \in hosts}]
  BY ZenonT(40) DEF handleSRV
<1> DEFINE more == UNION {formatA(h, {f[h]} \ {NoAddr}) : h \in hosts}
<1>2. /\ x.answer = m.answer \cup Lookup!SRVRecords(z, q) /\ x.extra = more
      /\ IsMsg(x) /\ x.rcode = m.rcode /\ x.tc = m.tc /\ x.authority = m.authority
  BY <1>1, Zenon DEF IsMsg, Lookup!SRVRecords
<1>3. hosts \subseteq Names
  BY ServedZones, ZoneAssumption DEF Questions
<1>4. ASSUME NEW h \in hosts
      PROVE  /\ f[h] = NoAddr => z.A[h] = {} \/ z.A[h] \cap BadAddrs # {}
             /\ f[h] # NoAddr => f[h] \in z.A[h] \ BadAddrs
  BY <1>1, <1>4, Zenon DEF First
<1>5. \A e : e \in more <=>
        \E h \in hosts : f[h] # NoAddr /\ f[h] \notin BadAddrs
                           /\ e = [type |-> "A", owner |-> h, data |-> f[h]]
  BY DEF formatA
<1>6. Lookup!AdditionalOK(z, q, more)
  <2> HIDE DEF more, hosts
  <2> DEFINE rec(h) == [type |-> "A", owner |-> h, data |-> f[h]]
  <2>0. ASSUME NEW e \in more PROVE \E h \in hosts : f[h] # NoAddr /\ e = rec(h) /\ e.owner = h
    <3>1. PICK h \in hosts : f[h] # NoAddr /\ e = rec(h)
      BY <1>5, <2>0, Zenon
    <3> QED
      BY <3>1, Zenon
  <2>1. ASSUME NEW e \in more PROVE e.owner \in hosts /\ e \in Lookup!ARecords(z, e.owner)
    <3>1. PICK h \in hosts : f[h] # NoAddr /\ e = rec(h) /\ e.owner = h
      BY <2>0, <2>1, Zenon
    <3>2. f[h] \in z.A[h] \ BadAddrs
      BY <1>4, <3>1, Zenon
    <3> QED
      BY <3>1, <3>2, Zenon DEF Lookup!ARecords
  <2>2. ASSUME NEW e \in more, NEW g \in more, e.owner = g.owner PROVE e = g
    <3>1. PICK h \in hosts : e = rec(h) /\ e.owner = h
      BY <2>0, <2>2, Zenon
    <3>2. PICK i \in hosts : g = rec(i) /\ g.owner = i
      BY <2>0, <2>2, Zenon
    <3> QED
      BY <2>2, <3>1, <3>2, Zenon
  <2>3. ASSUME NEW h \in hosts, ~ \E e \in more : e.owner = h
        PROVE  z.A[h] = {} \/ z.A[h] \cap BadAddrs # {}
    <3>1. ASSUME f[h] # NoAddr PROVE FALSE
      <4>1. f[h] \notin BadAddrs
        BY <1>4, <3>1, Zenon
      <4>2. rec(h) \in more
        BY <1>5, <3>1, <4>1, Zenon
      <4>3. rec(h).owner = h
        BY Zenon
      <4> QED
        BY <2>3, <4>2, <4>3, Zenon
    <3> QED
      BY <1>4, <3>1, Zenon
  <2>4. hosts = {t.host : t \in z.SRV[Clean[q.name]]}
    BY Zenon DEF hosts
  <2> QED
    BY <2>1, <2>2, <2>3, <2>4, Zenon DEF Lookup!AdditionalOK
<1> QED
  BY <1>2, <1>6, Zenon

\* The rests of the list, and what remains of each behind its first handler.
LEMMA Tails ==
  /\ \A t : Head(<<t>>) = t /\ Tail(<<t>>) = << >>
  /\ Head(<<"SOA", "NS">>) = "SOA" /\ Tail(<<"SOA", "NS">>) = <<"NS">>
  /\ Head(<<"A", "SOA", "NS">>) = "A" /\ Tail(<<"A", "SOA", "NS">>) = <<"SOA", "NS">>
  /\ Head(<<"SRV", "A", "SOA", "NS">>) = "SRV"
  /\ Tail(<<"SRV", "A", "SOA", "NS">>) = <<"A", "SOA", "NS">>
OBVIOUS

\* One handler takes the message from one rest of the list to the next.
LEMMA HandlerAdds ==
  ASSUME NEW z \in Served, NEW q \in Questions, NEW rest, rest # << >>,
         NEW m, Partial(z, q, rest, m), NEW x,
         Head(rest) = "SRV" => x \in handleSRV(z, q, m),
         Head(rest) = "A" => x = handleA(z, q, m),
         Head(rest) \notin {"SRV", "A"} =>
           x = [m EXCEPT !.authority = @ \cup {Head(rest)}]
  PROVE  Partial(z, q, Tail(rest), x)
<1>1. IsMsg(m) /\ m.rcode = "NOERROR" /\ m.tc = FALSE
  BY Zenon DEF Partial
<1>2. \/ q.type \in {"SRV", "A", "SOA", "NS"} /\ rest = <<q.type>>
      \/ q.type = "ANY" /\ rest = <<"SRV", "A", "SOA", "NS">>
      \/ q.type = "ANY" /\ rest = <<"A", "SOA", "NS">>
      \/ q.type = "ANY" /\ rest = <<"SOA", "NS">>
      \/ q.type = "ANY" /\ rest = <<"NS">>
  BY Zenon DEF Partial, Lefts
<1>3. CASE Head(rest) = "SRV"
  <2>1. \/ q.type = "SRV" /\ rest = <<"SRV">> /\ Tail(rest) = << >>
        \/ /\ q.type = "ANY" /\ rest = <<"SRV", "A", "SOA", "NS">>
           /\ Tail(rest) = <<"A", "SOA", "NS">>
    BY <1>2, <1>3, Tails, ZenonT(40)
  <2>2. ~RanSRV(q.type, rest) /\ ~RanA(q.type, rest)
    BY <2>1, Zenon DEF RanSRV, RanA
  <2>3. RanSRV(q.type, Tail(rest)) /\ ~RanA(q.type, Tail(rest))
    BY <2>1 DEF RanSRV, RanA
  <2>4. Tail(rest) \in Lefts(q.type) /\ q.type # "SOA" /\ q.type \in {"SRV", "ANY"}
    BY <2>1, Zenon DEF Lefts
  <2>5. m.answer = {} /\ m.extra = {}
    BY <2>2, Zenon DEF Partial
  <2>6. /\ IsMsg(x) /\ x.rcode = m.rcode /\ x.tc = m.tc /\ x.authority = m.authority
        /\ x.answer = m.answer \cup Lookup!SRVRecords(z, q)
        /\ Lookup!AdditionalOK(z, q, x.extra)
    BY <1>1, <1>3, <2>4, <2>5, SRVAdded, Zenon
  <2> QED
    BY <1>1, <2>3, <2>4, <2>5, <2>6, Zenon DEF Partial
<1>4. CASE Head(rest) = "A"
  <2>1. \/ q.type = "A" /\ rest = <<"A">> /\ Tail(rest) = << >>
        \/ q.type = "ANY" /\ rest = <<"A", "SOA", "NS">> /\ Tail(rest) = <<"SOA", "NS">>
    BY <1>2, <1>4, Tails, ZenonT(40)
  <2>2. ~RanA(q.type, rest) /\ RanA(q.type, Tail(rest))
    BY <2>1 DEF RanA
  <2>3. RanSRV(q.type, Tail(rest)) <=> RanSRV(q.type, rest)
    BY <2>1 DEF RanSRV
  <2>4. Tail(rest) \in Lefts(q.type) /\ q.type # "SOA"
    BY <2>1, Zenon DEF Lefts
  <2>5. /\ IsMsg(x) /\ x.rcode = m.rcode /\ x.tc = m.tc /\ x.extra = m.extra
        /\ x.answer = m.answer \cup Lookup!ARecords(z, Clean[q.name])
    BY <1>1, <1>4, Zenon DEF IsMsg, handleA, formatA, Lookup!ARecords
  <2> QED
    BY <1>1, <2>2, <2>3, <2>4, <2>5, Zenon DEF Partial
<1>5. CASE Head(rest) \notin {"SRV", "A"}
  <2>1. \/ q.type = "SOA" /\ rest = <<"SOA">> /\ Tail(rest) = << >>
        \/ q.type = "NS" /\ rest = <<"NS">> /\ Tail(rest) = << >>
        \/ q.type = "ANY" /\ rest = <<"SOA", "NS">> /\ Tail(rest) = <<"NS">>
        \/ q.type = "ANY" /\ rest = <<"NS">> /\ Tail(rest) = << >>
    BY <1>2, <1>5, Tails, ZenonT(40)
  <2>2. RanA(q.type, Tail(rest)) <=> RanA(q.type, rest)
    BY <2>1, SMTT(30) DEF RanA
  <2>3. RanSRV(q.type, Tail(rest)) <=> RanSRV(q.type, rest)
    BY <2>1 DEF RanSRV
  <2>4. Tail(rest) \in Lefts(q.type) /\ (q.type = "SOA" => Head(rest) = "SOA")
    BY <2>1 DEF Lefts
  <2>5. /\ IsMsg(x) /\ x.rcode = m.rcode /\ x.tc = m.tc /\ x.extra = m.extra
        /\ x.answer = m.answer /\ x.authority = m.authority \cup {Head(rest)}
    BY <1>1, <1>5, Zenon DEF IsMsg
  <2> QED
    BY <1>1, <2>2, <2>3, <2>4, <2>5, Zenon DEF Partial
<1> QED
  BY <1>3, <1>4, <1>5, Zenon

\* When all handlers have run, what is written is right for the zone, whatever
\* truncate makes of it.
LEMMA ReplyRight ==
  ASSUME NEW z \in Served, NEW q \in Questions, q.type \in DNSTypes,
         NEW m, Partial(z, q, << >>, m),
         NEW x \in truncate(IF m.answer = {} THEN handleEmpty(z, q, m) ELSE m)
  PROVE  Lookup!IsResponse(z, q, x)
<1> DEFINE y == IF m.answer = {} THEN handleEmpty(z, q, m) ELSE m
           SRVs == Lookup!SRVRecords(z, q)
           As == Lookup!ARecords(z, Clean[q.name])
<1>1. IsMsg(m) /\ m.rcode = "NOERROR" /\ m.tc = FALSE
  BY Zenon DEF Partial
<1>2. << >> # <<"SRV", "A", "SOA", "NS">> /\ << >> # <<"A", "SOA", "NS">>
  BY Zenon
<1>3. m.answer = Lookup!Answers(z, q)
  <2>1. RanSRV(q.type, << >>) <=> q.type \in {"SRV", "ANY"}
    BY <1>2, Zenon DEF RanSRV
  <2>2. RanA(q.type, << >>) <=> q.type \in {"A", "ANY"}
    BY <1>2, Zenon DEF RanA
  <2>3. m.answer = (IF q.type \in {"SRV", "ANY"} THEN SRVs ELSE {})
                     \cup (IF q.type \in {"A", "ANY"} THEN As ELSE {})
    BY <2>1, <2>2, Zenon DEF Partial
  <2>4. Lookup!Answers(z, q) = IF q.type = "SRV" THEN SRVs ELSE IF q.type = "A" THEN As
                               ELSE IF q.type = "ANY" THEN SRVs \cup As ELSE {}
    BY Zenon DEF Lookup!Answers
  <2> HIDE DEF SRVs, As
  <2> QED
    BY <2>3, <2>4, Zenon
<1>4. Lookup!AdditionalOK(z, q, m.extra)
  <2>1. CASE q.type \in {"SRV", "ANY"}
    BY <1>2, <2>1, Zenon DEF Partial, RanSRV
  <2>2. CASE q.type \notin {"SRV", "ANY"}
    <3>1. m.extra = {}
      BY <2>2, Zenon DEF Partial, RanSRV
    <3> QED
      BY <2>2, <3>1, Zenon DEF Lookup!AdditionalOK
  <2> QED
    BY <2>1, <2>2, Zenon
<1>5. Lookup!NXDomain(z, q) => m.answer = {}
  <2>1. z.A[Clean[q.name]] = {} => As = {}
    BY Zenon DEF Lookup!ARecords
  <2>2. z.SRV[Clean[q.name]] = {} => SRVs = {}
    BY Zenon DEF Lookup!SRVRecords
  <2> QED
    BY <1>2, <2>1, <2>2, Zenon DEF Lookup!NXDomain, Partial, RanSRV, RanA
<1>6. m.answer # {} => y = m
  BY Zenon
<1>7. m.answer = {} => y = handleEmpty(z, q, m)
  BY Zenon
<1>8. \/ x = y
      \/ \E a \in SUBSET y.answer : x = [y EXCEPT !.tc = TRUE, !.extra = {}, !.answer = a]
  BY Zenon DEF truncate
<1> HIDE DEF y
<1>9. /\ IsMsg(y) /\ y.tc = FALSE /\ y.answer = m.answer /\ y.extra = m.extra
      /\ y.rcode = IF Lookup!NXDomain(z, q) THEN "NXDOMAIN" ELSE "NOERROR"
      /\ m.answer = {} /\ q.type \notin {"SRV", "NS"} => "SOA" \in y.authority
  <2>1. CASE m.answer # {}
    BY <1>1, <1>5, <1>6, <2>1, Zenon
  <2>2. CASE m.answer = {} /\ q.type \in {"SOA", "NS", "SRV"}
    <3>1. y = m
      BY <1>7, <2>2, Zenon DEF handleEmpty
    <3>2. q.type = "SOA" => "SOA" \in m.authority
      BY Zenon DEF Partial
    <3>3. ~Lookup!NXDomain(z, q)
      BY <2>2, Zenon DEF Lookup!NXDomain
    <3> QED
      BY <1>1, <2>2, <3>1, <3>2, <3>3, Zenon
  <2>3. CASE m.answer = {} /\ q.type \notin {"SOA", "NS", "SRV"}
    <3>1. y = [m EXCEPT !.authority = @ \cup {"SOA"},
                        !.rcode = IF \/ q.type = "AAAA"
                                     \/ z.SRV[Clean[q.name]] \cup z.A[Clean[q.name]] # {}
                                    THEN "NOERROR" ELSE "NXDOMAIN"]
      BY <1>7, <2>3, Zenon DEF handleEmpty
    <3>2. Lookup!NXDomain(z, q) <=> ~(\/ q.type = "AAAA"
                                      \/ z.SRV[Clean[q.name]] \cup z.A[Clean[q.name]] # {})
      BY <2>3, Zenon DEF Lookup!NXDomain
    <3> QED
      BY <1>1, <2>3, <3>1, <3>2, Zenon DEF IsMsg
  <2> QED
    BY <2>1, <2>2, <2>3, Zenon
<1>10. /\ x.rcode = y.rcode /\ x.authority = y.authority
      /\ \/ x.tc = FALSE /\ x.answer = y.answer /\ x.extra = y.extra
         \/ x.tc = TRUE /\ x.answer \subseteq y.answer /\ x.extra = {}
  BY <1>9, <1>8, Zenon DEF IsMsg
<1> QED
  BY <1>3, <1>4, <1>9, <1>10, Zenon DEF Lookup!IsResponse

\* RestService gives every SRV target once, with one of its addresses.
LEMMA ServicesRight ==
  ASSUME NEW z, NEW nm, NEW srvs, srvs = z.SRV[nm], NEW f, NEW S,
         \A t \in srvs : f[t] \in IF z.A[t.host] = {} THEN {NoAddr} ELSE z.A[t.host],
         S = {[target |-> t, ip |-> f[t]] : t \in srvs}
  PROVE  Lookup!ServicesOK(z, nm, S)
<1>1. \A s \in S : s.target \in srvs /\ s = [target |-> s.target, ip |-> f[s.target]]
  OBVIOUS
<1>2. \A t \in srvs : \E s \in S : s.target = t
  <2> TAKE t \in srvs
  <2>1. [target |-> t, ip |-> f[t]] \in S
    BY Zenon
  <2> QED
    BY <2>1, Zenon
<1>3. {s.target : s \in S} = srvs
  BY <1>1, <1>2
<1>4. \A s, t \in S : s.target = t.target => s = t
  BY <1>1
<1>5. \A s \in S : s.ip = f[s.target]
  BY <1>1
<1>6. \A s \in S : s.ip \in IF z.A[s.target.host] = {} THEN {NoAddr} ELSE z.A[s.target.host]
  BY <1>1, <1>5, Zenon
<1> QED
  BY <1>3, <1>4, <1>6, Zenon DEF Lookup!ServicesOK

\* A handler works on one question and one zone that was served, and its message
\* is what that zone and the handlers that ran make of it.
Handling(c) ==
  /\ pc[c] # "idle" => query[c] \in Questions
  /\ pc[c] = "records" => msg[c] = EmptyMsg /\ todo[c] = Handlers(query[c].type)
  /\ pc[c] = "handle" =>
       /\ snap[c].zone \in Served
       /\ query[c].type \in DNSTypes => Partial(snap[c].zone, query[c], todo[c], msg[c])

RefInv ==
  /\ rg.zone \in Served
  /\ built # None => built.zone \in Zones
  /\ pc \in [Clients -> {"idle", "records", "handle"}]
  /\ DOMAIN query = Clients /\ DOMAIN snap = Clients /\ DOMAIN todo = Clients
  /\ DOMAIN msg = Clients /\ DOMAIN reply = Clients
  /\ \A c \in Clients : Handling(c)

LEMMA InitRefInv == Init => RefInv
BY SMTT(40) DEF Init, RefInv, Handling, Served

\* A handler the step does not concern keeps what is said of it.
LEMMA HandlingKept ==
  ASSUME NEW c \in Clients, Handling(c), pc'[c] = pc[c], query'[c] = query[c],
         snap'[c] = snap[c], todo'[c] = todo[c], msg'[c] = msg[c]
  PROVE  Handling(c)'
BY Zenon DEF Handling

LEMMA NextRefInv == RefInv /\ [Next]_vars => RefInv'
<1> SUFFICES ASSUME RefInv, [Next]_vars PROVE RefInv'
  OBVIOUS
<1>0. /\ rg.zone \in Served /\ (built # None => built.zone \in Zones)
      /\ pc \in [Clients -> {"idle", "records", "handle"}]
      /\ DOMAIN query = Clients /\ DOMAIN snap = Clients /\ DOMAIN todo = Clients
      /\ DOMAIN msg = Clients /\ DOMAIN reply = Clients
      /\ \A c \in Clients : Handling(c)
  BY Zenon DEF RefInv
<1>1. CASE Tick \/ InsertState \/ Reload \/ UNCHANGED vars
  <2>1. UNCHANGED handlers
    BY <1>1, Zenon DEF Tick, InsertState, Reload, vars
  <2>2. ASSUME NEW c \in Clients PROVE Handling(c)'
    BY <1>0, <2>1, HandlingKept, Zenon DEF handlers
  <2>3. rg'.zone \in Served /\ (built' # None => built'.zone \in Zones)
    BY <1>0, <1>1, SMTT(40) DEF Tick, InsertState, Reload, vars, refresher, Served
  <2> QED
    BY <1>0, <2>1, <2>2, <2>3, Zenon DEF RefInv, handlers
<1>2. ASSUME NEW c \in Clients, Receive(c) PROVE RefInv'
  <2>1. PICK t \in DNSTypes \cup RestTypes, nm \in QNames :
          /\ query' = [query EXCEPT ![c] = [type |-> t, name |-> nm]]
          /\ todo' = [todo EXCEPT ![c] = Handlers(t)]
    BY <1>2, ZenonT(40) DEF Receive
  <2>2. /\ msg' = [msg EXCEPT ![c] = EmptyMsg] /\ pc' = [pc EXCEPT ![c] = "records"]
        /\ UNCHANGED <<snap, reply, rg, built>>
    BY <1>2, Zenon DEF Receive, refresher
  <2>3. Handling(c)'
    <3>1. /\ query'[c] = [type |-> t, name |-> nm] /\ query'[c].type = t
          /\ pc'[c] = "records" /\ msg'[c] = EmptyMsg /\ todo'[c] = Handlers(t)
      BY <1>0, <2>1, <2>2, Zenon
    <3> QED
      BY <3>1 DEF Handling, Questions
  <2>4. ASSUME NEW d \in Clients \ {c} PROVE Handling(d)'
    BY <1>0, <2>1, <2>2, HandlingKept, Zenon
  <2> QED
    BY <1>0, <2>1, <2>2, <2>3, <2>4, Zenon DEF RefInv
<1>3. ASSUME NEW c \in Clients, records(c) PROVE RefInv'
  <2>1. /\ snap' = [snap EXCEPT ![c] = rg] /\ pc' = [pc EXCEPT ![c] = "handle"]
        /\ UNCHANGED <<query, todo, msg, reply, rg, built>> /\ pc[c] = "records"
    BY <1>3, Zenon DEF records, refresher
  <2>2. Handling(c)'
    BY <1>0, <2>1, FirstPartial, Zenon DEF Handling
  <2>3. ASSUME NEW d \in Clients \ {c} PROVE Handling(d)'
    BY <1>0, <2>1, HandlingKept, Zenon
  <2> QED
    BY <1>0, <2>1, <2>2, <2>3, Zenon DEF RefInv
<1>4. ASSUME NEW c \in Clients, Handle(c) PROVE RefInv'
  <2> DEFINE h == Head(todo[c])
             z == snap[c].zone
  <2>1. /\ todo[c] # << >> /\ pc[c] = "handle"
        /\ todo' = [todo EXCEPT ![c] = Tail(@)]
        /\ UNCHANGED <<pc, query, snap, reply, rg, built>>
    BY <1>4, Zenon DEF Handle, refresher
  <2>2. PICK x : /\ msg' = [msg EXCEPT ![c] = x]
                 /\ h = "SRV" => x \in handleSRV(z, query[c], msg[c])
                 /\ h = "A" => x = handleA(z, query[c], msg[c])
                 /\ h \notin {"SRV", "A"} => x = [msg[c] EXCEPT !.authority = @ \cup {h}]
    BY <1>4, Zenon DEF Handle, rs
  <2>3. Handling(c)'
    <3>1. z \in Served /\ query[c] \in Questions
      BY <1>0, <2>1, Zenon DEF Handling
    <3>2. query[c].type \in DNSTypes => Partial(z, query[c], todo[c], msg[c])
      BY <1>0, <2>1, Zenon DEF Handling
    <3>3. query[c].type \in DNSTypes => Partial(z, query[c], Tail(todo[c]), x)
      BY <2>1, <2>2, <3>1, <3>2, HandlerAdds, Zenon
    <3>4. msg'[c] = x /\ todo'[c] = Tail(todo[c])
      BY <1>0, <2>1, <2>2, Zenon
    <3> QED
      BY <2>1, <3>1, <3>3, <3>4, Zenon DEF Handling
  <2>4. ASSUME NEW d \in Clients \ {c} PROVE Handling(d)'
    BY <1>0, <2>1, <2>2, HandlingKept, Zenon
  <2> QED
    BY <1>0, <2>1, <2>2, <2>3, <2>4, Zenon DEF RefInv
<1>5. ASSUME NEW c \in Clients, NEW m, Done(c, m) PROVE RefInv'
  <2>1. Handling(c)'
    BY <1>0, <1>5, Zenon DEF Done, Handling
  <2>2. ASSUME NEW d \in Clients \ {c} PROVE Handling(d)'
    BY <1>0, <1>5, HandlingKept, Zenon DEF Done
  <2> QED
    BY <1>0, <1>5, <2>1, <2>2, Zenon DEF RefInv, Done, refresher
<1>6. ASSUME NEW c \in Clients,
             \/ Reply(c) \/ RestHost(c) \/ RestService(c) \/ RestEnumerate(c) \/ RestAXFR(c)
      PROVE  RefInv'
  BY <1>5, <1>6, ZenonT(40) DEF Reply, RestHost, RestService, RestEnumerate, RestAXFR
<1> QED
  BY <1>1, <1>2, <1>3, <1>4, <1>6, Zenon DEF Next

\* The state of ZoneLookup that a state of ZoneServer stands for.
askedBar == [c \in Clients |-> IF pc[c] = "idle" THEN None ELSE query[c]]
seenBar == [c \in Clients |-> IF pc[c] = "handle" THEN snap[c].zone ELSE None]

\* A step that writes a right reply is a Deliver.
LEMMA DoneDelivers ==
  ASSUME RefInv, NEW c \in Clients, pc[c] = "handle", NEW m, Done(c, m),
         Lookup!IsResponse(snap[c].zone, query[c], m)
  PROVE  Lookup!Deliver(c)
<1>1. snap[c].zone \in Served /\ None \notin Served
  BY ZoneAssumption, Zenon DEF RefInv, Handling, Served
<1>2. askedBar[c] = query[c] /\ seenBar[c] = snap[c].zone
  BY Zenon DEF askedBar, seenBar
<1>3. reply'[c] = m /\ reply' = [reply EXCEPT ![c] = reply'[c]]
  BY Zenon DEF RefInv, Done
<1>4. askedBar' = [askedBar EXCEPT ![c] = None]
  BY Zenon DEF RefInv, Done, askedBar
<1>5. seenBar' = [seenBar EXCEPT ![c] = None]
  BY ZenonT(40) DEF RefInv, Done, seenBar
<1>6. UNCHANGED rg.zone
  BY Zenon DEF Done, refresher
<1> QED
  BY <1>1, <1>2, <1>3, <1>4, <1>5, <1>6, Zenon DEF Lookup!Deliver, askedBar, seenBar

LEMMA StepRefines == RefInv /\ [Next]_vars => [Lookup!Next]_(Lookup!vars)
<1> SUFFICES ASSUME RefInv, [Next]_vars
             PROVE  Lookup!Next \/ UNCHANGED <<rg.zone, askedBar, seenBar, reply>>
  BY Zenon DEF Lookup!vars, askedBar, seenBar
<1>1. CASE Tick \/ InsertState \/ UNCHANGED vars
  BY <1>1, Zenon DEF Tick, InsertState, vars, refresher, handlers, askedBar, seenBar
<1>2. CASE Reload
  <2>1. rg'.zone \in Zones /\ UNCHANGED <<askedBar, seenBar, reply>>
    BY <1>2, Zenon DEF Reload, RefInv, handlers, askedBar, seenBar
  <2> QED
    BY <2>1, Zenon DEF Lookup!Next, Lookup!Publish, askedBar, seenBar
<1>3. ASSUME NEW c \in Clients, Receive(c) PROVE Lookup!Ask(c)
  <2>1. PICK t \in DNSTypes \cup RestTypes, nm \in QNames :
          query' = [query EXCEPT ![c] = [type |-> t, name |-> nm]]
    BY <1>3, Zenon DEF Receive
  <2>2. /\ pc[c] = "idle" /\ pc' = [pc EXCEPT ![c] = "records"]
        /\ UNCHANGED <<snap, reply, rg>>
    BY <1>3, Zenon DEF Receive, refresher
  <2>3. askedBar[c] = None /\ askedBar' = [askedBar EXCEPT ![c] = [type |-> t, name |-> nm]]
    BY <2>1, <2>2, ZenonT(40) DEF RefInv, askedBar
  <2>4. UNCHANGED seenBar
    BY <2>2, Zenon DEF RefInv, seenBar
  <2> QED
    BY <2>2, <2>3, <2>4, Zenon DEF Lookup!Ask, askedBar, seenBar
<1>4. ASSUME NEW c \in Clients, records(c) PROVE Lookup!Look(c)
  <2>1. /\ pc[c] = "records" /\ pc' = [pc EXCEPT ![c] = "handle"]
        /\ snap' = [snap EXCEPT ![c] = rg] /\ UNCHANGED <<query, reply, rg>>
    BY <1>4, Zenon DEF records, refresher
  <2>2. query[c] \in Questions /\ None \notin Questions
    BY <2>1, ZoneAssumption, Zenon DEF RefInv, Handling, Questions
  <2>3. askedBar[c] # None /\ seenBar[c] = None
    BY <2>1, <2>2, Zenon DEF askedBar, seenBar
  <2>4. seenBar' = [seenBar EXCEPT ![c] = rg.zone]
    BY <2>1, ZenonT(40) DEF RefInv, seenBar
  <2>5. UNCHANGED askedBar
    BY <2>1, Zenon DEF RefInv, askedBar
  <2> QED
    BY <2>1, <2>3, <2>4, <2>5, Zenon DEF Lookup!Look, askedBar, seenBar
<1>5. ASSUME NEW c \in Clients, Handle(c) PROVE UNCHANGED <<rg.zone, askedBar, seenBar, reply>>
  <2>1. UNCHANGED <<pc, query, snap, reply, rg>>
    BY <1>5, Zenon DEF Handle, refresher
  <2> QED
    BY <2>1, Zenon DEF askedBar, seenBar
<1>6. ASSUME NEW c \in Clients, pc[c] = "handle"
      PROVE  snap[c].zone \in Served /\ query[c] \in Questions
  BY <1>6, Zenon DEF RefInv, Handling
<1>7. ASSUME NEW c \in Clients, Reply(c) PROVE Lookup!Deliver(c)
  <2> DEFINE z == snap[c].zone
  <2>1. /\ pc[c] = "handle" /\ todo[c] = << >> /\ query[c].type \in DNSTypes
    BY <1>7, Zenon DEF Reply
  <2>2. PICK x \in truncate(IF msg[c].answer = {} THEN handleEmpty(z, query[c], msg[c])
                                                  ELSE msg[c]) : Done(c, x)
    BY <1>7, Zenon DEF Reply, rs
  <2>3. Partial(z, query[c], << >>, msg[c])
    BY <2>1, Zenon DEF RefInv, Handling
  <2>4. Lookup!IsResponse(z, query[c], x)
    BY <1>6, <2>1, <2>2, <2>3, ReplyRight, Zenon
  <2> QED
    BY <2>1, <2>2, <2>4, DoneDelivers, Zenon
<1>8. ASSUME NEW c \in Clients, NEW m, Done(c, m), pc[c] = "handle",
             query[c].type \notin DNSTypes,
             \/ query[c].type = "host" /\ m.records = snap[c].zone.A[Clean[query[c].name]]
             \/ /\ query[c].type = "service"
                /\ Lookup!ServicesOK(snap[c].zone, Clean[query[c].name], m.records)
             \/ query[c].type \notin {"host", "service"} /\ m.records = snap[c].zone
      PROVE  Lookup!Deliver(c)
  <2>1. Lookup!IsResponse(snap[c].zone, query[c], m)
    BY <1>8, ZenonT(40) DEF Lookup!IsResponse
  <2> QED
    BY <1>8, <2>1, DoneDelivers, Zenon
<1>9. ASSUME NEW c \in Clients, RestHost(c) PROVE Lookup!Deliver(c)
  <2> DEFINE m == [records |-> rs(c).A[Clean[query[c].name]]]
  <2>1. Done(c, m) /\ pc[c] = "handle" /\ query[c].type = "host"
    BY <1>9, Zenon DEF RestHost
  <2>2. m.records = snap[c].zone.A[Clean[query[c].name]] /\ "host" \notin DNSTypes
    BY Zenon DEF rs, DNSTypes
  <2> QED
    BY <1>8, <2>1, <2>2, ZenonT(40)
<1>10. ASSUME NEW c \in Clients, RestService(c) PROVE Lookup!Deliver(c)
  <2> DEFINE z == snap[c].zone
             srvs == z.SRV[Clean[query[c].name]]
  <2>1. PICK f \in [srvs -> Addrs \cup {NoAddr}] :
          /\ \A t \in srvs : f[t] \in IF z.A[t.host] = {} THEN {NoAddr} ELSE z.A[t.host]
          /\ Done(c, [records |-> {[target |-> t, ip |-> f[t]] : t \in srvs}])
    BY <1>10, Zenon DEF RestService, rs
  <2>2. pc[c] = "handle" /\ query[c].type = "service" /\ "service" \notin DNSTypes
    BY <1>10, ZenonT(40) DEF RestService, DNSTypes
  <2> DEFINE m == [records |-> {[target |-> t, ip |-> f[t]] : t \in srvs}]
  <2>3. Done(c, m) /\ m.records = {[target |-> t, ip |-> f[t]] : t \in srvs}
    BY <2>1, ZenonT(40)
  <2>4. srvs = z.SRV[Clean[query[c].name]]
    BY ZenonT(40)
  <2> HIDE DEF m, srvs, z
  <2>5. Lookup!ServicesOK(z, Clean[query[c].name], m.records)
    BY <2>1, <2>3, <2>4, ServicesRight, ZenonT(40)
  <2> QED
    BY <1>8, <2>2, <2>3, <2>5, ZenonT(40) DEF z
<1>11. ASSUME NEW c \in Clients, RestEnumerate(c) \/ RestAXFR(c) PROVE Lookup!Deliver(c)
  <2> DEFINE m == [records |-> rs(c)]
  <2>1. /\ Done(c, m) /\ pc[c] = "handle" /\ query[c].type \notin DNSTypes
        /\ query[c].type \notin {"host", "service"}
    BY <1>11, Zenon DEF RestEnumerate, RestAXFR, DNSTypes
  <2>2. m.records = snap[c].zone
    BY Zenon DEF rs
  <2> QED
    BY <1>8, <2>1, <2>2, Zenon
<1> QED
  BY <1>1, <1>2, <1>3, <1>4, <1>5, <1>7, <1>9, <1>10, <1>11, Zenon DEF Next, Lookup!Next

\* ZoneServer implements ZoneLookup: however Reload and the steps of any number
\* of handlers interleave, every DNS and HTTP reply is right for one zone that
\* was served between the question and the reply, for every set of zones.
THEOREM ServerImplementsLookup == Spec => RepliesFromOneZone
<1>1. Init => Lookup!Init
  BY DEF Init, Lookup!Init
<1> QED
  BY <1>1, InitRefInv, NextRefInv, StepRefines, PTL DEF Spec, RepliesFromOneZone, Lookup!Spec

-----------------------------------------------------------------------------
(* truncate: the binary search of module Truncate is within one answer of    *)
(* the boundary, for every message and every limit, and what it makes of a   *)
(* message is what ZoneServer takes it to be.                                *)

\* The limit is a number, given what the constants are.
Limit == max \in Nat

\* What the loop maintains: the prefixes below left fit, those from right on do
\* not, and the prefix last probed is next to one of the two bounds.
LoopInv ==
  /\ left <= right
  /\ \A k \in 0..n : k < left => length[k] < max
  /\ \A k \in 0..n : k >= right => ~(length[k] < max)
  /\ kept = n \/ kept = right \/ kept + 1 = left
  /\ kept = n => left = 0 /\ right = n

TruncateInv ==
  /\ TruncateTypeOK
  /\ phase = "called" => kept = n /\ ~truncated
  /\ phase = "search" => truncated /\ LoopInv
  /\ phase # "called" => extra = ~truncated
  /\ phase = "done" => /\ KeepsAllThatFits /\ OverByAtMostOne
                       /\ ~truncated => kept = n

\* The limit of every channel is a natural number: the cases of max.
LEMMA LimitIsNat == TruncateTypeOK => Limit
  BY SizesAssumption, Zenon DEF TruncateTypeOK, Limit, max

\* A prefix never gets shorter by an answer, and every length is a number.
LEMMA LengthsGrow ==
  ASSUME TruncateTypeOK
  PROVE  /\ n \in Nat
         /\ \A k \in 0..n : length[k] \in Nat
         /\ \A i, j \in 0..n : i < j => length[i] < length[j]
  BY SizesAssumption DEF TruncateTypeOK, Lengths

\* The message arrives whole.
LEMMA InitTruncate == TruncateInit => TruncateInv
<1> SUFFICES ASSUME TruncateInit PROVE TruncateInv
  BY Zenon
<1>1. n \in Nat /\ n \in 0..n /\ length \in [0..n -> 0..MaxLength]
  BY SizesAssumption DEF TruncateInit, Lengths
<1>2. full \in 0..MaxLength
  <2>1. length[n] \in 0..MaxLength /\ full \in length[n]..MaxLength
    BY <1>1, Zenon DEF TruncateInit
  <2> QED BY <2>1, SizesAssumption
<1>3. TruncateTypeOK
  <2>1. kept \in 0..n /\ left \in 0..n /\ right \in 0..n
    BY <1>1 DEF TruncateInit
  <2> QED BY <2>1, <1>2, Zenon DEF TruncateInit, TruncateTypeOK
<1> QED BY <1>3, Zenon DEF TruncateInit, TruncateInv

\* Dropping the additional records either finishes or starts the loop on all of
\* the answers, none of whose full prefix fits.
LEMMA DropExtraInv == TruncateInv /\ DropExtra => TruncateInv'
<1> SUFFICES ASSUME TruncateInv, DropExtra
             PROVE  TruncateInv'
  BY Zenon
<1>0. TruncateTypeOK /\ max \in Nat /\ max' = max /\ n \in Nat
      /\ \A k \in 0..n : length[k] \in Nat
  BY LimitIsNat, LengthsGrow, Zenon DEF TruncateInv, Limit, DropExtra, message, max
<1>00. \A i, j \in 0..n : i < j => length[i] < length[j]
  BY LengthsGrow, Zenon DEF TruncateInv
<1>1. TruncateTypeOK'
  BY <1>0, SizesAssumption DEF TruncateInv, DropExtra, message, TruncateTypeOK
<1>2. kept' = n' /\ n' = n /\ length' = length /\ phase' # "called"
  BY Zenon DEF TruncateInv, DropExtra, message
<1>3. ASSUME phase' = "search" PROVE truncated' /\ LoopInv'
  <2>1. left' = 0 /\ right' = n /\ truncated' /\ ~(length[n] < max)
    BY <1>3, Zenon DEF DropExtra
  <2> QED BY <2>1, <1>2, <1>0 DEF LoopInv
<1>4. ASSUME phase' = "done" PROVE (KeepsAllThatFits /\ OverByAtMostOne)'
  <2>1. \A k \in 0..n : k <= kept'
    BY <1>0, <1>2
  <2>2. truncated' => length[n] < max
    BY <1>4, Zenon DEF DropExtra
  <2>3. ASSUME truncated', NEW k \in 0..n, k < kept' PROVE length[k] < max
    <3>1. length[k] < length[n]
      BY <2>3, <1>00, <1>0, <1>2
    <3>2. n \in 0..n
      BY <1>0
    <3> QED BY <3>1, <3>2, <2>2, <2>3, <1>0
  <2> QED BY <2>1, <2>3, <1>0, <1>2, Zenon DEF KeepsAllThatFits, OverByAtMostOne
<1>5. extra' = ~truncated'
  BY Zenon DEF DropExtra
<1> QED BY <1>1, <1>2, <1>3, <1>4, <1>5, Zenon DEF TruncateInv

\* A probe moves one bound to, or just past, the prefix it tried.
LEMMA ProbeInv == TruncateInv /\ Probe => TruncateInv'
<1> SUFFICES ASSUME TruncateInv, Probe
             PROVE  TruncateInv'
  OBVIOUS
<1>0. TruncateTypeOK /\ max \in Nat /\ max' = max /\ n \in Nat
      /\ \A k \in 0..n : length[k] \in Nat
  BY LimitIsNat, LengthsGrow, Zenon DEF TruncateInv, Limit, Probe, message, max
<1>00. \A i, j \in 0..n : i < j => length[i] < length[j]
  BY LengthsGrow DEF TruncateInv
<1>1. LoopInv /\ truncated /\ phase = "search" /\ left # right
  BY Zenon DEF TruncateInv, Probe
<1>2. PICK mid \in Nat : /\ mid = (left + right) \div 2
                         /\ left <= mid /\ mid < right /\ mid \in 0..n
  BY <1>0, <1>1 DEF TruncateTypeOK, LoopInv
<1>3. /\ kept' = mid
      /\ IF length[mid] < max
           THEN left' = mid + 1 /\ right' = right
           ELSE right' = mid /\ left' = left
      /\ UNCHANGED <<message, phase, truncated, extra>>
  BY <1>2, Zenon DEF Probe
<1>4. TruncateTypeOK'
  BY <1>0, <1>2, <1>3, <1>1 DEF TruncateTypeOK, message
<1>5. LoopInv'
  <2>1. CASE length[mid] < max
    <3>1. \A k \in 0..n : k < mid + 1 => length[k] < max
      BY <2>1, <1>00, <1>0, <1>2
    <3> QED BY <3>1, <2>1, <1>0, <1>1, <1>2, <1>3 DEF LoopInv, TruncateTypeOK, message
  <2>2. CASE ~(length[mid] < max)
    <3>1. \A k \in 0..n : k >= mid => ~(length[k] < max)
      BY <2>2, <1>00, <1>0, <1>2
    <3> QED BY <3>1, <2>2, <1>0, <1>1, <1>2, <1>3 DEF LoopInv, TruncateTypeOK, message
  <2> QED BY <2>1, <2>2, Zenon
<1> QED BY <1>1, <1>3, <1>4, <1>5, Zenon DEF TruncateInv

\* When the bounds have met, the prefix last probed is the last that fits or the
\* first that does not.
LEMMA ReturnInv == TruncateInv /\ Return => TruncateInv'
<1> SUFFICES ASSUME TruncateInv, Return
             PROVE  TruncateInv'
  OBVIOUS
<1>0. max \in Nat /\ max' = max /\ n \in Nat /\ TruncateTypeOK
  BY LimitIsNat, LengthsGrow, Zenon DEF TruncateInv, Limit, Return, message, max
<1>1. TruncateTypeOK'
  BY <1>0, Zenon DEF TruncateTypeOK, Return, message
<1>2. LoopInv /\ left = right
  BY Zenon DEF TruncateInv, Return
<1>3. ASSUME NEW k \in 0..n, length[k] < max PROVE k <= kept
  BY <1>0, <1>2, <1>3 DEF LoopInv, TruncateTypeOK
<1>4. ASSUME NEW k \in 0..n, k < kept PROVE length[k] < max
  BY <1>0, <1>2, <1>4 DEF LoopInv, TruncateTypeOK
<1>5. (KeepsAllThatFits /\ OverByAtMostOne)'
  BY <1>0, <1>3, <1>4, Zenon DEF KeepsAllThatFits, OverByAtMostOne, Return, message
<1> QED BY <1>1, <1>5, Zenon DEF TruncateInv, Return

\* Every step of truncate keeps its invariant.
LEMMA StepTruncate == TruncateInv /\ [TruncateNext]_truncateVars => TruncateInv'
<1> SUFFICES ASSUME TruncateInv, [TruncateNext]_truncateVars
             PROVE  TruncateInv'
  OBVIOUS
<1>1. CASE DropExtra BY <1>1, DropExtraInv, Zenon
<1>2. CASE Probe BY <1>2, ProbeInv, Zenon
<1>3. CASE Return BY <1>3, ReturnInv
<1>4. CASE UNCHANGED truncateVars
  BY <1>4, Zenon DEF truncateVars, message, TruncateInv, TruncateTypeOK, LoopInv, KeepsAllThatFits,
              OverByAtMostOne, max
<1> QED BY <1>1, <1>2, <1>3, <1>4, Zenon DEF TruncateNext

\* truncate never drops an answer whose prefix is shorter than the limit: for
\* messages of any size on any channel.
THEOREM AlwaysKeepsAllThatFits ==
  TruncateSpec => []KeepsAllThatFits
<1>1. TruncateInv => KeepsAllThatFits
  BY Zenon DEF TruncateInv, KeepsAllThatFits
<1> QED BY <1>1, InitTruncate, StepTruncate, PTL DEF TruncateSpec

\* A truncated message exceeds its limit by at most the last answer kept: for
\* messages of any size on any channel.
THEOREM AlwaysOverByAtMostOne ==
  TruncateSpec => []OverByAtMostOne
<1>1. TruncateInv => OverByAtMostOne
  BY Zenon DEF TruncateInv, OverByAtMostOne
<1> QED BY <1>1, InitTruncate, StepTruncate, PTL DEF TruncateSpec

\* A message with its answers in the order of ord, after truncate.
Cut(m, ord) ==
  [m EXCEPT !.tc = truncated, !.extra = IF extra THEN @ ELSE {},
            !.answer = {ord[k] : k \in 1..kept}]

\* The answers of a reply, in some order, are what truncate works on.
Orders(m) == {ord \in [1..n -> m.answer] : m.answer = {ord[k] : k \in 1..n}}

\* Whatever order the answers are in and wherever the search ends, the message
\* it leaves is one of those the handlers of ZoneServer may send.
CutsAreReplies ==
  phase = "done" => \A m : IsMsg(m) /\ m.tc = FALSE =>
                    \A ord \in Orders(m) : Cut(m, ord) \in truncate(m)

\* What a reply may look like in ZoneServer covers all that the search of
\* module Truncate makes of a message.
THEOREM TruncateImplementsReply == TruncateSpec => []CutsAreReplies
<1>1. TruncateInv => CutsAreReplies
  <2> SUFFICES ASSUME TruncateInv, phase = "done",
                      NEW m, IsMsg(m), m.tc = FALSE, NEW ord \in Orders(m)
               PROVE  Cut(m, ord) \in truncate(m)
    BY Zenon DEF CutsAreReplies
  <2>0. /\ n \in Nat /\ kept \in 0..n /\ truncated \in BOOLEAN
        /\ extra = ~truncated /\ (~truncated => kept = n)
    BY LengthsGrow, Zenon DEF TruncateInv, TruncateTypeOK
  <2>1. /\ ord \in [1..n -> m.answer]
        /\ m.answer = {ord[k] : k \in 1..n}
    BY Zenon DEF Orders
  <2>2. CASE truncated
    <3>1. {ord[k] : k \in 1..kept} \in SUBSET m.answer
      BY <2>0, <2>1
    <3>2. Cut(m, ord) = [m EXCEPT !.tc = TRUE, !.extra = {},
                                  !.answer = {ord[k] : k \in 1..kept}]
      BY <2>0, <2>2, Zenon DEF Cut, IsMsg
    <3> QED BY <3>1, <3>2, Zenon DEF truncate
  <2>3. CASE ~truncated
    <3>1. Cut(m, ord) = m
      BY <2>0, <2>1, <2>3, Zenon DEF Cut, IsMsg
    <3> QED BY <3>1, Zenon DEF truncate
  <2> QED BY <2>2, <2>3, Zenon
<1> QED BY <1>1, InitTruncate, StepTruncate, PTL DEF TruncateSpec

-----------------------------------------------------------------------------
(* The counters *)

INSTANCE FiniteSetTheorems

\* The DNS questions in progress.
Busy == {c \in Clients : pc[c] # "idle" /\ query[c].type \in DNSTypes}

BalanceInv ==
  /\ counters \in [{"requests", "success", "nxdomain"} -> Nat]
  /\ pc \in [Clients -> {"idle", "records", "handle"}]
  /\ DOMAIN query = Clients
  /\ counters["requests"] = counters["success"] + counters["nxdomain"] + Cardinality(Busy)

LEMMA BusyFinite ==
  /\ Busy \in SUBSET Clients
  /\ \A S \in SUBSET Clients : IsFiniteSet(S) /\ Cardinality(S) \in Nat
<1>1. \A S \in SUBSET Clients : IsFiniteSet(S)
  BY FS_Subset, ZoneAssumption, Zenon
<1>2. \A S \in SUBSET Clients : Cardinality(S) \in Nat
  BY <1>1, FS_CardinalityType, Zenon
<1> QED
  BY <1>1, <1>2, Zenon DEF Busy

LEMMA OneMore ==
  ASSUME NEW S \in SUBSET Clients, NEW c \in Clients \ S
  PROVE  Cardinality(S \cup {c}) = Cardinality(S) + 1
BY BusyFinite, FS_AddElement, Zenon

LEMMA InitBalanceInv == Init => BalanceInv
<1> SUFFICES ASSUME Init PROVE BalanceInv
  OBVIOUS
<1>1. Busy = {}
  BY Zenon DEF Init, Busy
<1>2. Cardinality(Busy) = 0
  BY <1>1, FS_EmptySet, Zenon
<1>3. /\ counters \in [{"requests", "success", "nxdomain"} -> Nat]
      /\ \A k \in {"requests", "success", "nxdomain"} : counters[k] = 0
  BY DEF Init
<1> QED
  BY <1>2, <1>3 DEF Init, BalanceInv

LEMMA NextBalanceInv == BalanceInv /\ [Next]_vars => BalanceInv'
<1> SUFFICES ASSUME BalanceInv, [Next]_vars PROVE BalanceInv'
  OBVIOUS
<1> USE DEF BalanceInv
<1>0. Cardinality(Busy) \in Nat
  BY BusyFinite, Zenon
<1>1. ASSUME UNCHANGED <<counters, query>>, Busy' = Busy,
             pc' \in [Clients -> {"idle", "records", "handle"}]
      PROVE  BalanceInv'
  BY <1>0, <1>1, Zenon
<1>2. CASE Tick \/ InsertState \/ Reload \/ UNCHANGED vars
  <2>1. UNCHANGED <<pc, query, counters>>
    BY <1>2, Zenon DEF Tick, InsertState, Reload, vars, handlers
  <2> QED
    BY <1>1, <2>1, Zenon DEF Busy
<1>3. ASSUME NEW c \in Clients, Receive(c) PROVE BalanceInv'
  <2>1. PICK t \in DNSTypes \cup RestTypes, nm \in QNames :
          /\ query' = [query EXCEPT ![c] = [type |-> t, name |-> nm]]
          /\ IF t \in DNSTypes THEN Inc("requests") ELSE UNCHANGED counters
    BY <1>3, Zenon DEF Receive
  <2>2. c \notin Busy /\ pc' = [pc EXCEPT ![c] = "records"]
    BY <1>3, Zenon DEF Receive, Busy
  <2>3. CASE t \in DNSTypes
    <3>1. Busy' = Busy \cup {c}
      BY <2>1, <2>2, <2>3, Zenon DEF Busy
    <3>2. Cardinality(Busy') = Cardinality(Busy) + 1
      BY <2>2, <3>1, BusyFinite, OneMore, Zenon
    <3>3. counters' = [counters EXCEPT !["requests"] = @ + 1]
      BY <2>1, <2>3, Zenon DEF Inc
    <3> QED
      BY <1>0, <2>1, <2>2, <3>2, <3>3, SMTT(30)
  <2>4. CASE t \notin DNSTypes
    <3>1. Busy' = Busy
      BY <2>1, <2>2, <2>4, Zenon DEF Busy
    <3> QED
      BY <1>0, <2>1, <2>2, <2>4, <3>1, Zenon
  <2> QED
    BY <2>3, <2>4, Zenon
<1>4. ASSUME NEW c \in Clients, records(c) PROVE BalanceInv'
  <2>1. Busy' = Busy
    BY <1>4, Zenon DEF records, Busy
  <2> QED
    BY <1>1, <1>4, <2>1, Zenon DEF records
<1>5. ASSUME NEW c \in Clients, Handle(c) PROVE BalanceInv'
  <2>1. UNCHANGED <<pc, query, counters>>
    BY <1>5, Zenon DEF Handle
  <2> QED
    BY <1>1, <2>1, Zenon DEF Busy
<1>6. ASSUME NEW c \in Clients, Reply(c) PROVE BalanceInv'
  <2>1. pc' = [pc EXCEPT ![c] = "idle"] /\ UNCHANGED query /\ c \in Busy
    BY <1>6, Zenon DEF Reply, Done, Busy
  <2>2. Busy' = Busy \ {c}
    BY <2>1, Zenon DEF Busy
  <2>3. Busy' \in SUBSET Clients /\ c \in Clients \ Busy' /\ Busy = Busy' \cup {c}
    BY <2>1, <2>2, ZenonT(40) DEF Busy
  <2>4. Cardinality(Busy) = Cardinality(Busy') + 1 /\ Cardinality(Busy') \in Nat
    BY <2>3, BusyFinite, OneMore, Zenon
  <2>5. \/ counters' = [counters EXCEPT !["success"] = @ + 1]
        \/ counters' = [counters EXCEPT !["nxdomain"] = @ + 1]
    BY <1>6, Zenon DEF Reply, Outcome, Inc
  <2> QED
    BY <1>0, <2>1, <2>4, <2>5, SMTT(30)
<1>7. ASSUME NEW c \in Clients, NEW m, Done(c, m), query[c].type \notin DNSTypes,
             \/ UNCHANGED counters
             \/ \E found \in BOOLEAN : stats(query[c], found)
      PROVE  BalanceInv'
  <2>1. Busy' = Busy /\ UNCHANGED query /\ pc' \in [Clients -> {"idle", "records", "handle"}]
    BY <1>7, Zenon DEF Done, Busy
  <2>2. CASE UNCHANGED counters
    BY <1>1, <2>1, <2>2, Zenon
  <2>3. ASSUME NEW k \in {"success", "nxdomain"},
               counters' = [counters EXCEPT !["requests"] = @ + 1, ![k] = @ + 1]
        PROVE  BalanceInv'
    BY <1>0, <2>1, <2>3
  <2> QED
    BY <1>7, <2>2, <2>3, Zenon DEF stats
<1>8. ASSUME NEW c \in Clients,
             RestHost(c) \/ RestService(c) \/ RestEnumerate(c) \/ RestAXFR(c)
      PROVE  BalanceInv'
  <2>1. query[c].type \notin DNSTypes
    BY <1>8, ZenonT(40) DEF RestHost, RestService, RestEnumerate, RestAXFR, DNSTypes
  <2>2. PICK m : Done(c, m)
    BY <1>8, ZenonT(40) DEF RestHost, RestService, RestEnumerate, RestAXFR
  <2>3. UNCHANGED counters \/ \E found \in BOOLEAN : stats(query[c], found)
    BY <1>8, Zenon DEF RestHost, RestService, RestEnumerate, RestAXFR
  <2> QED
    BY <1>7, <2>1, <2>2, <2>3, Zenon
<1> QED
  BY <1>2, <1>3, <1>4, <1>5, <1>6, <1>8, Zenon DEF Next

\* MesosRequests is MesosSuccess plus MesosNXDomain plus the DNS questions in
\* progress, for any number of concurrent DNS and HTTP handlers.
THEOREM CountersAlwaysBalance == Spec => []CountersBalance
<1>1. BalanceInv => CountersBalance
  BY Zenon DEF BalanceInv, CountersBalance, Busy
<1> QED
  BY <1>1, InitBalanceInv, NextBalanceInv, PTL DEF Spec
=============================================================================
