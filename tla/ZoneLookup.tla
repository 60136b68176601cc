----------------------------- MODULE ZoneLookup -----------------------------
(* What the builtin resolver promises those who ask it: a zone that is       *)
(* replaced as a whole, and replies each of which is right for one zone that *)
(* was served between the question and the reply.                            *)
CONSTANTS
  Clients, QNames, Clean, BadAddrs, Zones, EmptyZone, None, NoAddr,
  DNSTypes, RestTypes

VARIABLES
  zone,    \* the zone served
  asked,   \* client -> its question, or None
  seen,    \* client -> the zone its reply is taken from, or None
  reply    \* client -> the last reply it got, or None

vars == <<zone, asked, seen, reply>>

\* The records a question asks for, among those that can be put in a message.
SRVRecords(z, q) ==
  {[type |-> "SRV", owner |-> q.name, data |-> t] : t \in z.SRV[Clean[q.name]]}
ARecords(z, name) ==
  {[type |-> "A", owner |-> name, data |-> a] : a \in z.A[name] \ BadAddrs}

Answers(z, q) ==
  CASE q.type = "SRV" -> SRVRecords(z, q)
    [] q.type = "A"   -> ARecords(z, Clean[q.name])
    [] q.type = "ANY" -> SRVRecords(z, q) \cup ARecords(z, Clean[q.name])
    [] OTHER          -> {}

\* One address for every SRV target that has only good ones, none for a target
\* without addresses, and never two for one target.
AdditionalOK(z, q, extra) ==
  LET hosts == IF q.type \in {"SRV", "ANY"}
                 THEN {t.host : t \in z.SRV[Clean[q.name]]} ELSE {}
      of(h) == {x \in extra : x.owner = h}
  IN /\ \A x \in extra : x.owner \in hosts /\ x \in ARecords(z, x.owner)
     /\ \A h \in hosts :
          /\ \A x, y \in of(h) : x = y
          /\ of(h) = {} => z.A[h] = {} \/ z.A[h] \cap BadAddrs # {}

\* A name that exists never gets NXDOMAIN, for whatever type of record; an AAAA,
\* SOA, NS or SRV question never does.
NXDomain(z, q) ==
  /\ q.type \notin {"SOA", "NS", "SRV", "AAAA"}
  /\ z.A[Clean[q.name]] = {} /\ z.SRV[Clean[q.name]] = {}

\* The services endpoint gives every SRV target once, with one of its addresses.
ServicesOK(z, name, services) ==
  /\ {s.target : s \in services} = z.SRV[name]
  /\ \A s, t \in services : s.target = t.target => s = t
  /\ \A s \in services :
       s.ip \in IF z.A[s.target.host] = {} THEN {NoAddr} ELSE z.A[s.target.host]

IsResponse(z, q, m) ==
  IF q.type \in DNSTypes
    THEN /\ m.rcode = IF NXDomain(z, q) THEN "NXDOMAIN" ELSE "NOERROR"
         /\ IF m.tc
              THEN m.answer \subseteq Answers(z, q) /\ m.extra = {}
              ELSE m.answer = Answers(z, q) /\ AdditionalOK(z, q, m.extra)
         /\ Answers(z, q) = {} /\ q.type \notin {"SRV", "NS"}
              => "SOA" \in m.authority
    ELSE CASE q.type = "host" -> m.records = z.A[Clean[q.name]]
           [] q.type = "service" -> ServicesOK(z, Clean[q.name], m.records)
           [] OTHER -> m.records = z       \* axfr and enumerate

Init ==
  /\ zone = EmptyZone
  /\ asked = [c \in Clients |-> None]
  /\ seen = [c \in Clients |-> None]
  /\ reply = [c \in Clients |-> None]

Publish ==
  /\ zone' \in Zones
  /\ UNCHANGED <<asked, seen, reply>>

Ask(c) ==
  /\ asked[c] = None
  /\ \E t \in DNSTypes \cup RestTypes, nm \in QNames :
       asked' = [asked EXCEPT ![c] = [type |-> t, name |-> nm]]
  /\ UNCHANGED <<zone, seen, reply>>

Look(c) ==
  /\ asked[c] # None /\ seen[c] = None
  /\ seen' = [seen EXCEPT ![c] = zone]
  /\ UNCHANGED <<zone, asked, reply>>

Deliver(c) ==
  /\ seen[c] # None
  /\ asked' = [asked EXCEPT ![c] = None]
  /\ seen' = [seen EXCEPT ![c] = None]
  /\ IsResponse(seen[c], asked[c], reply'[c])
  /\ reply' = [reply EXCEPT ![c] = reply'[c]]
  /\ UNCHANGED zone

Next == Publish \/ \E c \in Clients : Ask(c) \/ Look(c) \/ Deliver(c)

Spec == Init /\ [][Next]_vars
=============================================================================
