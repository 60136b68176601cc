----------------------------- MODULE Forwarder -----------------------------
(* Questions outside the domain: the configuration that resolvers.New merges *)
(* (utils/merge.go, resolvers/builtin/config.go), HandleNonMesos and the     *)
(* exchanger package, whose counters concurrent handlers share.              *)
EXTENDS Naturals, Sequences, FiniteSets

CONSTANTS
  Clients,        \* concurrent handlers
  JSONConfigs,    \* the "builtin" objects of a configuration file
  DefaultServers, \* NewConfig's, one in the code; NewForwarder takes any number
  None,
  MaxQuestions, MaxRest  \* bounds on questions and REST requests

Servers == UNION {{c.ExternalDNS.val[k] : k \in DOMAIN c.ExternalDNS.val} :
                    c \in {d \in JSONConfigs : "ExternalDNS" \in DOMAIN d}}
             \cup {DefaultServers[k] : k \in DOMAIN DefaultServers}

\* What an exchange ends in: an error (a timeout, a refused connection, a reply
\* that does not parse or has another id), a reply with answers or one without.
Outcomes == {"error", "answers", "empty"}

ASSUME ForwarderAssumption ==
  /\ MaxQuestions \in Nat /\ MaxRest \in Nat
  /\ None \notin Outcomes
  /\ \A d \in JSONConfigs : \A f \in DOMAIN d :
       /\ d[f].kind \in {"bool", "number", "string", "list"}
       /\ d[f].kind = "bool" => d[f].val \in BOOLEAN
  /\ DefaultServers \in Seq(Servers) /\ IsFiniteSet(Clients)

VARIABLES
  file, config, \* the "builtin" object, and the builtin.Config made of it
  addrs,      \* the servers NewForwarder was given
  pc,         \* client -> "idle", "exchange", "total", "count" or "reply"
  next,       \* client -> the position of the server it is to ask
  outcome,    \* client -> how its last exchange ended
  tried,      \* client -> the exchanges of its last question (history)
  reply,      \* client -> what it was last sent
  questions,  \* how many were received
  rest,       \* REST requests outside the zone: how many were counted, and as failed
  counters,   \* logging.CurLog: NonMesos{Requests,Success,NXDomain,Failed,Forwarded}
  sent        \* how many replies of each kind were sent (history)

setup == <<file, config, addrs>>
vars == <<setup, pc, next, outcome, tried, reply, questions, rest, counters, sent>>

-----------------------------------------------------------------------------
(* Configuration *)

NewConfig ==
  [ExternalOn |-> TRUE, ExternalDNS |-> DefaultServers, Timeout |-> 5]

\* The Go type of a field and the one encoding/json gives a value.
FieldType == [ExternalOn |-> "bool", ExternalDNS |-> "[]string", Timeout |-> "int"]
JSONType(v) ==
  CASE v.kind = "bool" -> "bool" [] v.kind = "number" -> "float64"
    [] v.kind = "string" -> "string" [] v.kind = "list" -> "[]interface{}"

\* Whether SetField assigns v to the field: the types agree, or a number is
\* converted.  A list is neither []float64 nor []string and is passed over.
\* (variant: a list of strings is assigned)
Assigns_list(field, v) ==
  \/ JSONType(v) = FieldType[field]
  \/ v.kind = "list" /\ FieldType[field] = "[]string"

Assigns(field, v) ==
  \/ JSONType(v) = FieldType[field]
  \/ JSONType(v) = "float64" /\ FieldType[field] = "int"

\* Keys that are no field's name are logged and ignored.
Merge(data, conf) ==
  [f \in DOMAIN conf |->
     IF f \in DOMAIN data /\ Assigns(f, data[f]) THEN data[f].val ELSE conf[f]]

\* New: rs[:0] unless ExternalOn.
ServersOf(conf) == IF conf.ExternalOn THEN conf.ExternalDNS ELSE << >>

-----------------------------------------------------------------------------
(* HandleNonMesos *)

Inc(field) == counters' = [counters EXCEPT ![field] = @ + 1]

Reply(c, r) ==
  /\ reply' = [reply EXCEPT ![c] = r]
  /\ sent' = [sent EXCEPT ![r.rcode] = @ + 1]

\* The question is counted and handed to the forwarder.
HandleNonMesos(c) ==
  /\ pc[c] = "idle" /\ questions < MaxQuestions
  /\ questions' = questions + 1
  /\ Inc("requests")
  /\ tried' = [tried EXCEPT ![c] = << >>]
  /\ next' = [next EXCEPT ![c] = 1]
  /\ pc' = [pc EXCEPT ![c] = IF addrs = << >> THEN "reply" ELSE "exchange"]
  /\ reply' = [reply EXCEPT ![c] = None]
  /\ outcome' = [outcome EXCEPT ![c] = None]
  /\ UNCHANGED <<setup, rest, sent>>

\* dns.Client.Exchange returns, after the timeout at the latest.
Exchange(c) ==
  /\ pc[c] = "exchange"
  /\ \E o \in Outcomes :
       /\ outcome' = [outcome EXCEPT ![c] = o]
       /\ tried' = [tried EXCEPT ![c] = Append(@, [server |-> addrs[next[c]], outcome |-> o])]
  /\ pc' = [pc EXCEPT ![c] = "total"]
  /\ UNCHANGED <<setup, next, reply, questions, rest, counters, sent>>

\* Instrumentation: the deferred function increments two counters in turn.
IncTotal(c) ==
  /\ pc[c] = "total"
  /\ Inc("forwarded")
  /\ pc' = [pc EXCEPT ![c] = "count"]
  /\ UNCHANGED <<setup, next, outcome, tried, reply, questions, rest, sent>>

\* Whether the loop over the servers goes on after an exchange.
\* (variant: it also does after a reply without answers)
GoesOn_empty(c) == outcome[c] # "answers" /\ next[c] < Len(addrs)

GoesOn(c) == outcome[c] = "error" /\ next[c] < Len(addrs)

\* (variant: every exchange is counted as a success)
IncOutcome_success(c) ==
  /\ pc[c] = "count"
  /\ Inc("success")
  /\ next' = IF GoesOn(c) THEN [next EXCEPT ![c] = @ + 1] ELSE next
  /\ pc' = [pc EXCEPT ![c] = IF GoesOn(c) THEN "exchange" ELSE "reply"]
  /\ UNCHANGED <<setup, outcome, tried, reply, questions, rest, sent>>

IncOutcome(c) ==
  /\ pc[c] = "count"
  /\ Inc(IF outcome[c] = "error" THEN "failed" ELSE "success")
  /\ next' = IF GoesOn(c) THEN [next EXCEPT ![c] = @ + 1] ELSE next
  /\ pc' = [pc EXCEPT ![c] = IF GoesOn(c) THEN "exchange" ELSE "reply"]
  /\ UNCHANGED <<setup, outcome, tried, reply, questions, rest, sent>>

\* rcode(err): a ForwardError, when there was nobody to ask, is refused.
rcode(c) ==
  CASE outcome[c] = None -> "REFUSED"
    [] outcome[c] = "error" -> "SERVFAIL"
    [] OTHER -> "NOERROR"

\* The end of HandleNonMesos.
\* (variant: a question that cannot be forwarded is dropped)
SendReply_dropped(c) ==
  /\ pc[c] = "reply" /\ outcome[c] # None
  /\ Reply(c, [rcode |-> rcode(c), from |-> None])
  /\ pc' = [pc EXCEPT ![c] = "idle"]
  /\ UNCHANGED <<setup, next, outcome, tried, questions, rest, counters>>

SendReply(c) ==
  /\ pc[c] = "reply"
  /\ Reply(c, [rcode |-> rcode(c),
               from |-> IF rcode(c) = "NOERROR" THEN addrs[next[c]] ELSE None])
  /\ IF outcome[c] = "empty" THEN Inc("nxdomain") ELSE UNCHANGED counters
  /\ pc' = [pc EXCEPT ![c] = "idle"]
  /\ UNCHANGED <<setup, next, outcome, tried, questions, rest>>

\* stats(): a REST request for a name outside the zone is counted twice.
stats ==
  /\ rest.total < MaxRest
  /\ rest' = [rest EXCEPT !.total = @ + 1]
  /\ Inc("requests")
  /\ UNCHANGED <<setup, pc, next, outcome, tried, reply, questions, sent>>

statsFailed ==
  /\ rest.failed < rest.total
  /\ rest' = [rest EXCEPT !.failed = @ + 1]
  /\ Inc("failed")
  /\ UNCHANGED <<setup, pc, next, outcome, tried, reply, questions, sent>>

-----------------------------------------------------------------------------
Init ==
  /\ file \in JSONConfigs /\ config = Merge(file, NewConfig)
  /\ addrs = ServersOf(config)
  /\ pc = [c \in Clients |-> "idle"]
  /\ next = [c \in Clients |-> 1]
  /\ outcome = [c \in Clients |-> None]
  /\ tried = [c \in Clients |-> << >>]
  /\ reply = [c \in Clients |-> None]
  /\ questions = 0 /\ rest = [total |-> 0, failed |-> 0]
  /\ counters = [requests |-> 0, success |-> 0, nxdomain |-> 0, failed |-> 0, forwarded |-> 0]
  /\ sent = [REFUSED |-> 0, SERVFAIL |-> 0, NOERROR |-> 0]

Handler(c) == Exchange(c) \/ IncTotal(c) \/ IncOutcome(c) \/ SendReply(c)

Next == stats \/ statsFailed \/ \E c \in Clients : HandleNonMesos(c) \/ Handler(c)

\* An exchange ends by its timeout, and goroutines are scheduled.
Fairness == \A c \in Clients : WF_vars(Handler(c))

Spec == Init /\ [][Next]_vars /\ Fairness

-----------------------------------------------------------------------------
(* Properties *)

In(p) == {c \in Clients : pc[c] = p}

\* The counters concurrent handlers share account for every question and every
\* exchange, at every moment: NonMesosForwarded is NonMesosSuccess plus
\* NonMesosFailed but for REST requests, which fail without being forwarded, and
\* for exchanges between the two increments; NonMesosSuccess counts the replies
\* passed on (never an attempt that a later server made up for), and
\* NonMesosRequests the replies of any kind and the questions in progress.
CountersBalance ==
  /\ counters.forwarded + rest.failed
       = counters.success + counters.failed + Cardinality(In("count"))
  /\ counters.success
       = sent.NOERROR + Cardinality({c \in In("reply") : outcome[c] \in {"answers", "empty"}})
  /\ counters.requests
       = rest.total + sent.REFUSED + sent.SERVFAIL + sent.NOERROR + Cardinality(Clients \ In("idle"))

\* "Every message will be exchanged with each address until no error is
\* returned": the reply is that of the first server in order that did not fail,
\* an empty answer included; SERVFAIL means that all of them failed for this very
\* question, REFUSED that there was none to ask.
FirstAnswerWins ==
  \A c \in Clients : reply[c] # None =>
    LET t == tried[c]
        n == Len(t)
    IN /\ n <= Len(addrs) /\ \A k \in 1..n : t[k].server = addrs[k]
       /\ \A k \in 1..n : t[k].outcome = "error" <=> (k < n \/ reply[c].rcode # "NOERROR")
       /\ reply[c].rcode = "NOERROR"  => n > 0 /\ reply[c].from = addrs[n]
       /\ reply[c].rcode = "SERVFAIL" => n = Len(addrs) /\ n > 0
       /\ reply[c].rcode = "REFUSED"  => addrs = << >>

\* A file that says ExternalOn is false keeps every question inside; any other
\* has questions go to servers of NewConfig alone, whatever ExternalDNS lists.
AskedServers ==
  \A c \in Clients : \A k \in DOMAIN tried[c] :
    /\ "ExternalOn" \in DOMAIN file => file.ExternalOn # [kind |-> "bool", val |-> FALSE]
    /\ tried[c][k].server \in {DefaultServers[l] : l \in DOMAIN DefaultServers}

\* Every question gets a reply, however many servers time out on the way.
Answered == \A c \in Clients : (pc[c] # "idle") ~> (pc[c] = "idle")
=============================================================================
