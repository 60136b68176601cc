-------------------------- MODULE ForwarderProofs --------------------------
(* Theorems about module Forwarder, for any number of handlers, servers and  *)
(* questions and any configuration file.                                     *)
EXTENDS Forwarder, TLAPS

Replies == [rcode : {"REFUSED", "SERVFAIL", "NOERROR"}, from : Servers \cup {None}]

Typed ==
  /\ addrs \in Seq(Servers)
  /\ pc \in [Clients -> {"idle", "exchange", "total", "count", "reply"}]
  /\ next \in [Clients -> Nat]
  /\ outcome \in [Clients -> Outcomes \cup {None}]
  /\ tried \in [Clients -> Seq([server : Servers, outcome : Outcomes])]
  /\ reply \in [Clients -> Replies \cup {None}]

\* Where a handler is in the list of servers: all it asked before the last one
\* failed, and it has asked as many as its position in the loop says.
Position(c) ==
  LET t == tried[c]
      n == Len(tried[c])
  IN /\ n <= Len(addrs)
     /\ \A k \in 1..n : t[k].server = addrs[k]
     /\ \A k \in 1..n : k < n => t[k].outcome = "error"
     /\ pc[c] # "idle" => reply[c] = None
     /\ pc[c] = "exchange" =>
          next[c] = n + 1 /\ n < Len(addrs) /\ \A k \in 1..n : t[k].outcome = "error"
     /\ pc[c] \in {"total", "count"} =>
          next[c] = n /\ n > 0 /\ outcome[c] = t[n].outcome
     /\ pc[c] = "reply" =>
          \/ addrs = << >> /\ outcome[c] = None
          \/ /\ next[c] = n /\ n > 0 /\ outcome[c] = t[n].outcome
             /\ outcome[c] = "error" => n = Len(addrs)

Wins(c) ==
  reply[c] # None =>
    LET t == tried[c]
        n == Len(t)
    IN /\ n <= Len(addrs) /\ \A k \in 1..n : t[k].server = addrs[k]
       /\ \A k \in 1..n : t[k].outcome = "error" <=> (k < n \/ reply[c].rcode # "NOERROR")
       /\ reply[c].rcode = "NOERROR"  => n > 0 /\ reply[c].from = addrs[n]
       /\ reply[c].rcode = "SERVFAIL" => n = Len(addrs) /\ n > 0
       /\ reply[c].rcode = "REFUSED"  => addrs = << >>

WinInv == Typed /\ \A c \in Clients : Position(c) /\ Wins(c)

\* The configuration leaves the default servers or none, none if the file says so.
Configured ==
  /\ addrs \in {<< >>, DefaultServers}
  /\ ("ExternalOn" \in DOMAIN file /\ file.ExternalOn = [kind |-> "bool", val |-> FALSE])
       => addrs = << >>

\* What a sequence holds.
LEMMA ElementOfSeq ==
  ASSUME NEW S, NEW s \in Seq(S), NEW j \in 1..Len(s)
  PROVE  s[j] \in S
OBVIOUS

LEMMA LastOutcome ==
  ASSUME NEW c \in Clients, Typed, Len(tried[c]) > 0
  PROVE  tried[c][Len(tried[c])].outcome \in Outcomes
<1>1. tried[c] \in Seq([server : Servers, outcome : Outcomes])
  BY Zenon DEF Typed
<1>2. Len(tried[c]) \in 1..Len(tried[c])
  BY <1>1
<1>3. tried[c][Len(tried[c])] \in [server : Servers, outcome : Outcomes]
  BY <1>1, <1>2, ElementOfSeq, Zenon
<1> QED
  BY <1>3, Zenon

LEMMA InitConfigured == Init => Configured
<1> SUFFICES ASSUME Init PROVE Configured
  BY Zenon
<1>1. config.ExternalDNS = DefaultServers
  <2>1. "ExternalDNS" \in DOMAIN file => ~Assigns("ExternalDNS", file["ExternalDNS"])
    BY ForwarderAssumption, Zenon DEF Init, Assigns, JSONType, FieldType
  <2> QED
    BY <2>1, Zenon DEF Init, Merge, NewConfig
<1>2. ("ExternalOn" \in DOMAIN file /\ file.ExternalOn = [kind |-> "bool", val |-> FALSE])
        => config.ExternalOn = FALSE
  <2> SUFFICES ASSUME "ExternalOn" \in DOMAIN file,
                      file["ExternalOn"] = [kind |-> "bool", val |-> FALSE]
               PROVE  config.ExternalOn = FALSE
    BY Zenon
  <2>1. JSONType(file["ExternalOn"]) = "bool"
    BY DEF JSONType
  <2>2. Assigns("ExternalOn", file["ExternalOn"])
    BY <2>1, Zenon DEF Assigns, FieldType
  <2>3. config["ExternalOn"] = file["ExternalOn"].val
    BY <2>2, Zenon DEF Init, Merge, NewConfig
  <2>4. [kind |-> "bool", val |-> FALSE].val = FALSE
    BY Zenon
  <2> QED
    BY <2>3, <2>4, Zenon
<1> QED
  BY <1>1, <1>2, Zenon DEF Init, Configured, ServersOf

LEMMA InitWinInv == Init => WinInv
<1> SUFFICES ASSUME Init PROVE WinInv
  OBVIOUS
<1>1. addrs \in Seq(Servers)
  <2>1. << >> \in Seq(Servers)
    OBVIOUS
  <2>2. addrs \in {<< >>, DefaultServers}
    BY InitConfigured, Zenon DEF Configured
  <2> QED
    BY <2>1, <2>2, ForwarderAssumption, Zenon
<1>2. Typed
  BY <1>1 DEF Init, Typed
<1>3. \A c \in Clients : Position(c) /\ Wins(c)
  BY <1>1 DEF Init, Position, Wins
<1> QED
  BY <1>2, <1>3, Zenon DEF WinInv

\* A handler the step does not concern keeps what is said of it.
LEMMA OthersKept ==
  ASSUME NEW c \in Clients, Position(c), Wins(c), UNCHANGED addrs,
         pc'[c] = pc[c], next'[c] = next[c], outcome'[c] = outcome[c],
         tried'[c] = tried[c], reply'[c] = reply[c]
  PROVE  Position(c)' /\ Wins(c)'
BY ZenonT(40) DEF Position, Wins

LEMMA NextWinInv == WinInv /\ [Next]_vars => WinInv'
<1> SUFFICES ASSUME WinInv, [Next]_vars PROVE WinInv'
  BY Zenon
<1> USE DEF WinInv
<1>1. ASSUME NEW c \in Clients, HandleNonMesos(c) PROVE WinInv'
  <2>1. Typed'
    <3>1. << >> \in Seq([server : Servers, outcome : Outcomes])
      OBVIOUS
    <3>2. tried' \in [Clients -> Seq([server : Servers, outcome : Outcomes])]
      BY <1>1, <3>1, Zenon DEF HandleNonMesos, Typed
    <3> QED
      BY <1>1, <3>2, Zenon DEF HandleNonMesos, Typed, setup
  <2>2. Position(c)' /\ Wins(c)'
    BY <1>1 DEF HandleNonMesos, Typed, setup, Position, Wins
  <2>3. ASSUME NEW d \in Clients \ {c} PROVE Position(d)' /\ Wins(d)'
    BY <1>1, OthersKept, Zenon DEF HandleNonMesos, Typed, setup
  <2> QED
    BY <2>1, <2>2, <2>3, Zenon
<1>2. ASSUME NEW c \in Clients, Exchange(c) PROVE WinInv'
  <2>1. PICK o \in Outcomes :
           /\ outcome' = [outcome EXCEPT ![c] = o]
           /\ tried' = [tried EXCEPT ![c] = Append(@, [server |-> addrs[next[c]], outcome |-> o])]
    BY <1>2, Zenon DEF Exchange
  <2>2. addrs[next[c]] \in Servers
    BY <1>2 DEF Exchange, Typed, Position
  <2>3. Typed'
    <3>1. Append(tried[c], [server |-> addrs[next[c]], outcome |-> o])
            \in Seq([server : Servers, outcome : Outcomes])
      <4>1. [server |-> addrs[next[c]], outcome |-> o] \in [server : Servers, outcome : Outcomes]
        BY <2>2, Zenon
      <4>2. tried[c] \in Seq([server : Servers, outcome : Outcomes])
        BY Zenon DEF Typed
      <4> QED
        BY <4>1, <4>2
    <3>2. tried' \in [Clients -> Seq([server : Servers, outcome : Outcomes])]
      BY <2>1, <3>1, Zenon DEF Typed
    <3> QED
      BY <1>2, <2>1, <3>2, Zenon DEF Exchange, Typed, setup
  <2>4. Position(c)' /\ Wins(c)'
    BY <1>2, <2>1, <2>2 DEF Exchange, Typed, setup, Position, Wins
  <2>5. ASSUME NEW d \in Clients \ {c} PROVE Position(d)' /\ Wins(d)'
    BY <1>2, <2>1, OthersKept, Zenon DEF Exchange, Typed, setup
  <2> QED
    BY <2>3, <2>4, <2>5, Zenon
<1>3. ASSUME NEW c \in Clients, IncTotal(c) PROVE WinInv'
  <2>1. Typed'
    BY <1>3, Zenon DEF IncTotal, Typed, setup
  <2>2. Position(c)' /\ Wins(c)'
    BY <1>3 DEF IncTotal, Typed, setup, Position, Wins
  <2>3. ASSUME NEW d \in Clients \ {c} PROVE Position(d)' /\ Wins(d)'
    BY <1>3, OthersKept, Zenon DEF IncTotal, Typed, setup
  <2> QED
    BY <2>1, <2>2, <2>3
<1>4. ASSUME NEW c \in Clients, IncOutcome(c) PROVE WinInv'
  <2>1. Typed'
    <3>1. next' \in [Clients -> Nat]
      BY <1>4, SMTT(30) DEF IncOutcome, Typed
    <3>2. pc' \in [Clients -> {"idle", "exchange", "total", "count", "reply"}]
      BY <1>4, Zenon DEF IncOutcome, Typed
    <3> QED
      BY <1>4, <3>1, <3>2, Zenon DEF IncOutcome, Typed, setup
  <2>2. Position(c)' /\ Wins(c)'
    BY <1>4 DEF IncOutcome, GoesOn, Typed, setup, Position, Wins
  <2>3. ASSUME NEW d \in Clients \ {c} PROVE Position(d)' /\ Wins(d)'
    BY <1>4, OthersKept, Zenon DEF IncOutcome, Typed, setup
  <2> QED
    BY <2>1, <2>2, <2>3
<1>5. ASSUME NEW c \in Clients, SendReply(c) PROVE WinInv'
  <2> DEFINE r == [rcode |-> rcode(c),
                   from |-> IF rcode(c) = "NOERROR" THEN addrs[next[c]] ELSE None]
  <2>1. rcode(c) = IF outcome[c] = None THEN "REFUSED"
                   ELSE IF outcome[c] = "error" THEN "SERVFAIL" ELSE "NOERROR"
    BY ForwarderAssumption, Zenon DEF rcode, Outcomes
  <2>2. r \in Replies
    BY <1>5, <2>1, ForwarderAssumption DEF SendReply, Typed, Position, Replies, Outcomes
  <2>3. reply' = [reply EXCEPT ![c] = r]
    BY <1>5, Zenon DEF SendReply, Reply
  <2>4. Typed'
    BY <1>5, <2>2, <2>3, Zenon DEF SendReply, Typed, setup
  <2>5. Position(c)' /\ Wins(c)'
    <3>1. pc'[c] = "idle" /\ reply'[c] = r /\ UNCHANGED <<addrs, tried>>
      BY <1>5, <2>3, Zenon DEF SendReply, Typed, setup
    <3>2. Position(c)'
      BY <3>1, Zenon DEF Position
    <3>3. CASE outcome[c] = None
      <4>1. Len(tried[c]) > 0 => tried[c][Len(tried[c])].outcome \in Outcomes
        BY LastOutcome, Zenon
      <4>2. addrs = << >>
        BY <1>5, <3>3, <4>1, ForwarderAssumption, Zenon DEF SendReply, Position
      <4> QED
        BY <2>1, <3>1, <3>3, <4>2 DEF Wins, Typed, Position
    <3>4. CASE outcome[c] # None
      <4>1. /\ next[c] = Len(tried[c]) /\ Len(tried[c]) > 0
            /\ outcome[c] = tried[c][Len(tried[c])].outcome
            /\ outcome[c] = "error" => Len(tried[c]) = Len(addrs)
        BY <1>5, <3>4, Zenon DEF SendReply, Position
      <4> QED
        BY <2>1, <3>1, <3>4, <4>1, SMTT(40) DEF Wins, Typed, Position
    <3> QED
      BY <3>2, <3>3, <3>4, Zenon
  <2>6. ASSUME NEW d \in Clients \ {c} PROVE Position(d)' /\ Wins(d)'
    BY <1>5, <2>3, OthersKept, Zenon DEF SendReply, Typed, setup
  <2> QED
    BY <2>4, <2>5, <2>6
<1>6. CASE stats \/ statsFailed \/ UNCHANGED vars
  <2>1. Typed'
    BY <1>6, Zenon DEF stats, statsFailed, vars, Typed, setup
  <2>2. ASSUME NEW d \in Clients PROVE Position(d)' /\ Wins(d)'
    BY <1>6, OthersKept, Zenon DEF stats, statsFailed, vars, setup
  <2> QED
    BY <2>1, <2>2, Zenon
<1> QED
  BY <1>1, <1>2, <1>3, <1>4, <1>5, <1>6, Zenon DEF Next, Handler

\* The forwarder's loop passes on the reply of the first server that did not
\* fail, and fails or refuses a question only when it should, for any number of
\* servers and concurrent handlers.
THEOREM FirstAnswerAlwaysWins == Spec => []FirstAnswerWins
<1>1. WinInv => FirstAnswerWins
  BY Zenon DEF WinInv, Wins, FirstAnswerWins
<1> QED
  BY <1>1, InitWinInv, NextWinInv, PTL DEF Spec

\* Questions leave the program only if the file does not switch that off, and
\* only for servers of NewConfig, for any configuration file.
THEOREM AskedServersAlways == Spec => []AskedServers
<1> DEFINE CInv == WinInv /\ Configured
<1>1. Init => CInv
  BY InitConfigured, InitWinInv, Zenon
<1>2. CInv /\ [Next]_vars => CInv'
  <2>1. [Next]_vars => UNCHANGED <<file, addrs>>
    BY Zenon DEF Next, Handler, HandleNonMesos, Exchange, IncTotal, IncOutcome, SendReply,
           stats, statsFailed, vars, setup
  <2>2. Configured /\ UNCHANGED <<file, addrs>> => Configured'
    BY Zenon DEF Configured
  <2> QED
    BY <2>1, <2>2, NextWinInv, Zenon
<1>3. CInv => AskedServers
  <2> SUFFICES ASSUME CInv, NEW c \in Clients, NEW k \in DOMAIN tried[c]
               PROVE  /\ "ExternalOn" \in DOMAIN file =>
                           file.ExternalOn # [kind |-> "bool", val |-> FALSE]
                      /\ tried[c][k].server \in {DefaultServers[l] : l \in DOMAIN DefaultServers}
    BY Zenon DEF AskedServers
  <2>1. k \in 1..Len(tried[c])
    BY DEF WinInv, Typed
  <2>2. Len(tried[c]) <= Len(addrs) /\ tried[c][k].server = addrs[k]
    BY <2>1, Zenon DEF WinInv, Position
  <2>3. Len(tried[c]) \in Nat /\ Len(addrs) \in Nat
    BY DEF WinInv, Typed
  <2>4. addrs # << >>
    BY <2>1, <2>2, <2>3
  <2>5. addrs = DefaultServers /\ DefaultServers \in Seq(Servers)
    BY <2>4, ForwarderAssumption, Zenon DEF Configured
  <2>6. k \in DOMAIN DefaultServers
    BY <2>1, <2>2, <2>3, <2>5
  <2> QED
    BY <2>2, <2>4, <2>5, <2>6, Zenon DEF Configured
<1> QED
  BY <1>1, <1>2, <1>3, PTL DEF Spec

-----------------------------------------------------------------------------
(* The counters *)

INSTANCE FiniteSetTheorems

Busy == Clients \ In("idle")
Winners == {c \in In("reply") : outcome[c] \in {"answers", "empty"}}

CountersTyped ==
  /\ counters \in [{"requests", "success", "nxdomain", "failed", "forwarded"} -> Nat]
  /\ sent \in [{"REFUSED", "SERVFAIL", "NOERROR"} -> Nat]
  /\ rest \in [{"total", "failed"} -> Nat]

Balanced ==
  /\ counters["forwarded"] + rest["failed"]
       = counters["success"] + counters["failed"] + Cardinality(In("count"))
  /\ counters["success"] = sent["NOERROR"] + Cardinality(Winners)
  /\ counters["requests"]
       = rest["total"] + sent["REFUSED"] + sent["SERVFAIL"] + sent["NOERROR"] + Cardinality(Busy)

BalanceInv == WinInv /\ CountersTyped /\ Balanced

LEMMA OneMore ==
  ASSUME NEW S \in SUBSET Clients, NEW c \in Clients \ S
  PROVE  Cardinality(S) \in Nat /\ Cardinality(S \cup {c}) = Cardinality(S) + 1
<1>1. IsFiniteSet(S)
  BY FS_Subset, ForwarderAssumption, Zenon
<1> QED
  BY <1>1, FS_AddElement, FS_CardinalityType, Zenon

LEMMA OneLess ==
  ASSUME NEW S \in SUBSET Clients, NEW c \in S
  PROVE  Cardinality(S) \in Nat /\ Cardinality(S \ {c}) \in Nat
           /\ Cardinality(S) = Cardinality(S \ {c}) + 1
<1>1. IsFiniteSet(S)
  BY FS_Subset, ForwarderAssumption, Zenon
<1>2. c \notin S \ {c} /\ (S \ {c}) \cup {c} = S /\ S \ {c} \in SUBSET Clients /\ c \in Clients
  BY Zenon
<1>3. Cardinality((S \ {c}) \cup {c}) = Cardinality(S \ {c}) + 1 /\ Cardinality(S \ {c}) \in Nat
  BY <1>2, OneMore, Zenon
<1> QED
  BY <1>1, <1>2, <1>3, FS_CardinalityType, Zenon

LEMMA CardinalitiesTyped ==
  /\ Cardinality(In("count")) \in Nat /\ Cardinality(Winners) \in Nat /\ Cardinality(Busy) \in Nat
<1>1. IsFiniteSet(In("count")) /\ IsFiniteSet(Winners) /\ IsFiniteSet(Busy)
  BY FS_Subset, ForwarderAssumption, Zenon DEF In, Winners, Busy
<1> QED
  BY <1>1, FS_CardinalityType, Zenon

LEMMA InitBalanceInv == Init => BalanceInv
<1> SUFFICES ASSUME Init PROVE BalanceInv
  OBVIOUS
<1>1. In("count") = {} /\ Winners = {} /\ Busy = {}
  BY Zenon DEF Init, In, Winners, Busy
<1>2. CountersTyped
  BY DEF Init, CountersTyped
<1>3. Cardinality({}) = 0
  BY FS_EmptySet, Zenon
<1>4. Balanced
  <2>1. /\ \A k \in {"requests", "success", "failed", "forwarded"} : counters[k] = 0
        /\ \A k \in {"REFUSED", "SERVFAIL", "NOERROR"} : sent[k] = 0
        /\ \A k \in {"total", "failed"} : rest[k] = 0
    BY DEF Init
  <2> QED
    BY <1>1, <1>3, <2>1 DEF Balanced
<1> QED
  BY <1>2, <1>4, InitWinInv, Zenon DEF BalanceInv

LEMMA NextBalanceInv == BalanceInv /\ [Next]_vars => BalanceInv'
<1> SUFFICES ASSUME BalanceInv, [Next]_vars PROVE CountersTyped' /\ Balanced'
  BY NextWinInv, Zenon DEF BalanceInv
<1> USE CardinalitiesTyped DEF BalanceInv, CountersTyped, Balanced
<1>0. \A S \in {In("count"), Winners, Busy} : S \in SUBSET Clients
  BY Zenon DEF In, Winners, Busy
<1>1. ASSUME NEW c \in Clients, HandleNonMesos(c) PROVE CountersTyped' /\ Balanced'
  <2>1. In("count")' = In("count") /\ Winners' = Winners /\ Busy' = Busy \cup {c} /\ c \notin Busy
    BY <1>1, ForwarderAssumption, ZenonT(40) DEF HandleNonMesos, WinInv, Typed, In, Winners, Busy, Outcomes
  <2>2. Cardinality(Busy') = Cardinality(Busy) + 1
    BY <1>0, <2>1, OneMore, Zenon
  <2>3. counters' = [counters EXCEPT !["requests"] = @ + 1] /\ UNCHANGED <<sent, rest>>
    BY <1>1, Zenon DEF HandleNonMesos, Inc
  <2> QED
    BY <2>1, <2>2, <2>3, SMTT(40)
<1>2. ASSUME NEW c \in Clients, Exchange(c) PROVE CountersTyped' /\ Balanced'
  <2>1. In("count")' = In("count") /\ Winners' = Winners /\ Busy' = Busy
    BY <1>2, Zenon DEF Exchange, WinInv, Typed, In, Winners, Busy
  <2> QED
    BY <1>2, <2>1, Zenon DEF Exchange
<1>3. ASSUME NEW c \in Clients, IncTotal(c) PROVE CountersTyped' /\ Balanced'
  <2>1. /\ In("count")' = In("count") \cup {c} /\ c \notin In("count")
        /\ Winners' = Winners /\ Busy' = Busy
    BY <1>3, Zenon DEF IncTotal, WinInv, Typed, In, Winners, Busy
  <2>2. Cardinality(In("count")') = Cardinality(In("count")) + 1
    BY <1>0, <2>1, OneMore, Zenon
  <2>3. counters' = [counters EXCEPT !["forwarded"] = @ + 1] /\ UNCHANGED <<sent, rest>>
    BY <1>3, Zenon DEF IncTotal, Inc
  <2> QED
    BY <2>1, <2>2, <2>3
<1>4. ASSUME NEW c \in Clients, IncOutcome(c) PROVE CountersTyped' /\ Balanced'
  <2>1. In("count")' = In("count") \ {c} /\ c \in In("count") /\ Busy' = Busy
    BY <1>4, Zenon DEF IncOutcome, WinInv, Typed, In, Busy
  <2>2. /\ Cardinality(In("count")) = Cardinality(In("count")') + 1
        /\ Cardinality(In("count")') \in Nat
    BY <1>0, <2>1, OneLess
  <2>3. CASE outcome[c] = "error"
    <3>1. Winners' = Winners
      BY <1>4, <2>3, Zenon DEF IncOutcome, WinInv, Typed, In, Winners
    <3>2. counters' = [counters EXCEPT !["failed"] = @ + 1] /\ UNCHANGED <<sent, rest>>
      BY <1>4, <2>3, Zenon DEF IncOutcome, Inc
    <3> QED
      BY <2>1, <2>2, <3>1, <3>2, SMTT(30)
  <2>4. CASE outcome[c] # "error"
    <3>1. outcome[c] \in {"answers", "empty"}
      <4>1. Len(tried[c]) > 0 /\ outcome[c] = tried[c][Len(tried[c])].outcome
        BY <1>4, Zenon DEF IncOutcome, WinInv, Position
      <4>2. outcome[c] \in Outcomes
        BY <4>1, LastOutcome, Zenon DEF WinInv
      <4> QED
        BY <2>4, <4>2, Zenon DEF Outcomes
    <3>2. Winners' = Winners \cup {c} /\ c \notin Winners
      BY <1>4, <2>4, <3>1, Zenon DEF IncOutcome, GoesOn, WinInv, Typed, In, Winners
    <3>3. Cardinality(Winners') = Cardinality(Winners) + 1
      BY <1>0, <3>2, OneMore, Zenon
    <3>4. counters' = [counters EXCEPT !["success"] = @ + 1] /\ UNCHANGED <<sent, rest>>
      BY <1>4, <2>4, Zenon DEF IncOutcome, Inc
    <3> QED
      BY <2>1, <2>2, <3>2, <3>3, <3>4, SMTT(30)
  <2> QED
    BY <2>3, <2>4, Zenon
<1>5. ASSUME NEW c \in Clients, SendReply(c) PROVE CountersTyped' /\ Balanced'
  <2>1. In("count")' = In("count") /\ Busy' = Busy \ {c} /\ c \in Busy
    BY <1>5, Zenon DEF SendReply, WinInv, Typed, In, Busy
  <2>2. Cardinality(Busy) = Cardinality(Busy') + 1 /\ Cardinality(Busy') \in Nat
    BY <1>0, <2>1, OneLess, Zenon
  <2>3. /\ counters' \in {counters, [counters EXCEPT !["nxdomain"] = @ + 1]}
        /\ sent' = [sent EXCEPT ![rcode(c)] = @ + 1]
        /\ UNCHANGED rest
    BY <1>5, Zenon DEF SendReply, Reply, Inc
  <2>4. /\ counters' \in [{"requests", "success", "nxdomain", "failed", "forwarded"} -> Nat]
        /\ \A k \in {"requests", "success", "failed", "forwarded"} : counters'[k] = counters[k]
    BY <2>3
  <2>5. CASE outcome[c] \in {"answers", "empty"}
    <3>1. Winners' = Winners \ {c} /\ c \in Winners
      BY <1>5, <2>5, Zenon DEF SendReply, WinInv, Typed, In, Winners
    <3>2. Cardinality(Winners) = Cardinality(Winners') + 1 /\ Cardinality(Winners') \in Nat
      BY <1>0, <3>1, OneLess, Zenon
    <3>3. rcode(c) = "NOERROR"
      BY <2>5, ForwarderAssumption, ZenonT(40) DEF rcode, Outcomes
    <3> QED
      BY <2>1, <2>2, <2>3, <2>4, <3>2, <3>3, SMTT(30)
  <2>6. CASE outcome[c] \notin {"answers", "empty"}
    <3>1. Winners' = Winners
      BY <1>5, <2>6, Zenon DEF SendReply, WinInv, Typed, In, Winners
    <3>2. rcode(c) \in {"REFUSED", "SERVFAIL"}
      BY <2>6, ForwarderAssumption, Zenon DEF rcode, Outcomes, WinInv, Typed
    <3> QED
      BY <2>1, <2>2, <2>3, <2>4, <3>1, <3>2
  <2> QED
    BY <2>5, <2>6, Zenon
<1>6. CASE stats \/ statsFailed \/ UNCHANGED vars
  <2>1. In("count")' = In("count") /\ Winners' = Winners /\ Busy' = Busy
    BY <1>6, Zenon DEF stats, statsFailed, vars, In, Winners, Busy
  <2>2. CASE stats
    <3>1. /\ counters' = [counters EXCEPT !["requests"] = @ + 1]
          /\ rest' = [rest EXCEPT !["total"] = @ + 1] /\ UNCHANGED sent
      BY <2>2, Zenon DEF stats, Inc
    <3> QED
      BY <2>1, <3>1
  <2>3. CASE statsFailed
    <3>1. /\ counters' = [counters EXCEPT !["failed"] = @ + 1]
          /\ rest' = [rest EXCEPT !["failed"] = @ + 1] /\ UNCHANGED sent
      BY <2>3, Zenon DEF statsFailed, Inc
    <3> QED
      BY <2>1, <3>1
  <2>4. CASE UNCHANGED vars
    BY <2>1, <2>4, Zenon DEF vars
  <2> QED
    BY <1>6, <2>2, <2>3, <2>4, Zenon
<1> QED
  BY <1>1, <1>2, <1>3, <1>4, <1>5, <1>6, Zenon DEF Next, Handler

\* The NonMesos counters account for every question and every exchange at every
\* moment, for any number of concurrent handlers, servers and questions.
THEOREM CountersAlwaysBalance == Spec => []CountersBalance
<1>1. BalanceInv => CountersBalance
  BY Zenon DEF BalanceInv, Balanced, CountersBalance, Winners, Busy
<1> QED
  BY <1>1, InitBalanceInv, NextBalanceInv, PTL DEF Spec
=============================================================================
