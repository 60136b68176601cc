---------------------------- MODULE MasterSearch ----------------------------
(* RecordGenerator.ParseState: the search for the leading master over HTTP.  *)
(* findMaster asks the masters of a list one after the other, loadWrap       *)
(* follows one pointer to the leader, and every request is a step of its     *)
(* own, so the cluster may change between any two of them.                   *)
EXTENDS Naturals, Sequences

CONSTANTS
  IPs, Ports,
  NoAddr,        \* the empty string where an address or a leader is expected
  Down,          \* the outcome of a request that fails (any error or timeout)
  Masters,       \* the addresses at which masters run
  Replies,       \* what a request to a master may yield
  MaxChanges     \* bound: changes of the cluster

Addr == [ip: IPs, port: Ports]

ASSUME SearchAssumption ==
  /\ NoAddr \notin Addr /\ Down \notin Addr /\ NoAddr # Down
  /\ Masters \subseteq Addr
  /\ Replies \subseteq Addr \cup {NoAddr, Down}
  /\ MaxChanges \in Nat

VARIABLES
  view,        \* address -> the leader its /master/state.json names
  changes,     \* changes of the cluster so far
  phase,       \* where findMaster is
  list,        \* its argument
  rest,        \* the masters it has not tried yet
  asking,      \* the address of the request it makes
  redirected,  \* this is loadWrap's second request
  outcome,     \* what ParseState returns
  loaded,      \* the state.json it found: where from, and the leader in it
  tried,       \* history: the listed masters asked in this search
  named,       \* history: the hosts named as leader by a reply in this search
  requests,    \* history: requests made in this search, up to one too many
  quiet        \* history: the cluster has not changed since the search began

cluster == <<view, changes>>
result == <<outcome, loaded>>
search == <<phase, list, rest, asking, redirected, result, tried, named, requests>>
vars == <<cluster, search, quiet>>

NotLoaded == [from |-> NoAddr, leader |-> NoAddr]

-----------------------------------------------------------------------------
Finish(out, sj) ==
  /\ phase' = "done"
  /\ outcome' = out
  /\ loaded' = sj
  /\ rest' = << >>
  /\ UNCHANGED <<asking, redirected>>

Ask(master, others, ph) ==
  /\ phase' = ph
  /\ asking' = master
  /\ rest' = others
  /\ redirected' = FALSE
  /\ UNCHANGED result

\* The loop over the listed masters: "no master" when it is exhausted.
TryNext(others) ==
  IF others = << >> THEN Finish("error", NotLoaded)
  ELSE Ask(Head(others), Tail(others), "fallback")

\* (variant: an unknown leader is asked like any other)
findMaster_any(ms) ==
  IF ms = << >> THEN TryNext(ms) ELSE Ask(Head(ms), Tail(ms), "leader")

\* findMaster up to its first request: an unknown leader ("") is skipped.
findMaster(ms) ==
  LET leader == IF ms = << >> THEN NoAddr ELSE Head(ms)
      others == IF ms = << >> THEN << >> ELSE Tail(ms)
  IN  IF leader # NoAddr THEN Ask(leader, others, "leader") ELSE TryNext(others)

ParseState(ms) ==
  /\ phase = "idle"
  /\ list' = ms
  /\ findMaster(ms)
  /\ UNCHANGED <<tried, named, requests, quiet, cluster>>

\* loadWrap returned an error.  The leader's failure leads to the other
\* masters; the failure of another master ends the loop with the empty state
\* and a nil error, which ParseState turns into the error "empty master".
\* (variant: the failure of any master leads to the next)
LoadFailed_next == TryNext(rest)

LoadFailed ==
  IF phase = "leader" THEN TryNext(rest) ELSE Finish("error", NotLoaded)

\* loadWrap returned a state that names no leader, without an error.
LoadLeaderless == TryNext(rest)

\* leaderIP("") indexes past the end of the split: the goroutine panics.
LeaderIPPanics == Finish("panic", NotLoaded)

LoadSucceeded(leader) == Finish("ok", [from |-> asking, leader |-> leader])

Redirect(leader) ==
  /\ asking' = [ip |-> leader.ip, port |-> asking.port]
  /\ redirected' = TRUE
  /\ UNCHANGED <<phase, rest, result>>

\* What findMaster and loadWrap do with the reply to the request under way.
\* (variant: the reply of a master that is not the leader is used as it is)
Handle_norecheck(reply) ==
  CASE reply = Down -> LoadFailed
    [] reply = NoAddr -> LoadLeaderless
    [] OTHER -> LoadSucceeded(reply)

\* (variant: pointers to the leader are followed without end)
Handle_follow(reply) ==
  CASE reply = Down -> LoadFailed
    [] reply = NoAddr -> LoadLeaderless
    [] reply \in Addr /\ reply.ip # asking.ip -> Redirect(reply)
    [] OTHER -> LoadSucceeded(reply)

Handle(reply) ==
  CASE reply = Down -> LoadFailed
    [] reply = NoAddr /\ ~redirected -> LeaderIPPanics
    [] reply = NoAddr /\ redirected -> LoadLeaderless
    [] reply \in Addr /\ ~redirected /\ reply.ip # asking.ip -> Redirect(reply)
    [] OTHER -> LoadSucceeded(reply)

\* One GET of /master/state.json, answered or timed out.
loadFromMaster ==
  /\ phase \in {"leader", "fallback"}
  /\ Handle(view[asking])
  /\ requests' = IF requests > 2 * Len(list) THEN requests ELSE requests + 1
  /\ tried' = IF redirected THEN tried ELSE tried \cup {asking}
  /\ named' = IF view[asking] \in Addr THEN named \cup {view[asking].ip} ELSE named
  /\ UNCHANGED <<list, cluster, quiet>>

-----------------------------------------------------------------------------
\* A master starts, stops, or learns of another leader.
ClusterChange ==
  /\ changes < MaxChanges
  /\ changes' = changes + 1
  /\ \E m \in Masters, r \in Replies :
       /\ r # view[m]
       /\ view' = [view EXCEPT ![m] = r]
  /\ quiet' = (phase = "idle")
  /\ UNCHANGED search

ClusterInit ==
  /\ \E v \in [Masters -> Replies] :
       view = [a \in Addr |-> IF a \in Masters THEN v[a] ELSE Down]
  /\ changes = 0

\* No search is under way.
SearchInit ==
  /\ phase = "idle"
  /\ list = << >> /\ rest = << >>
  /\ asking = NoAddr /\ redirected = FALSE
  /\ outcome = "none" /\ loaded = NotLoaded
  /\ tried = {} /\ named = {} /\ requests = 0
  /\ quiet = TRUE

\* ParseState has returned and its caller goes on.
Return ==
  /\ phase = "done"
  /\ phase' = "idle"
  /\ list' = << >> /\ rest' = << >>
  /\ asking' = NoAddr /\ redirected' = FALSE
  /\ outcome' = "none" /\ loaded' = NotLoaded
  /\ tried' = {} /\ named' = {} /\ requests' = 0
  /\ quiet' = TRUE
  /\ UNCHANGED cluster

Init == ClusterInit /\ SearchInit

\* The lists findMaster is called with (see ListsWellFormed of Detector).
Lists(n) ==
  {ms \in UNION {[1..k -> Masters \cup {NoAddr}] : k \in 0..n} :
     \A i \in 2..Len(ms) : ms[i] # NoAddr /\ ms[i] # ms[1]}

CONSTANT MaxList   \* bound: the length of the lists

Next ==
  \/ \E ms \in Lists(MaxList) : ParseState(ms)
  \/ loadFromMaster
  \/ Return
  \/ ClusterChange

\* The search itself keeps going: StateTimeoutSeconds bounds every request.
Spec == Init /\ [][Next]_vars /\ WF_vars(loadFromMaster)

-----------------------------------------------------------------------------
TypeOK ==
  /\ view \in [Addr -> Addr \cup {NoAddr, Down}]
  /\ changes \in 0..MaxChanges
  /\ phase \in {"idle", "leader", "fallback", "done"}
  /\ list \in Seq(Addr \cup {NoAddr})
  /\ rest \in Seq(Addr)
  /\ asking \in Addr \cup {NoAddr}
  /\ phase \in {"leader", "fallback"} => asking \in Addr
  /\ redirected \in BOOLEAN
  /\ outcome \in {"none", "ok", "error", "panic"}
  /\ loaded \in [from: Addr \cup {NoAddr}, leader: Addr \cup {NoAddr}]
  /\ tried \subseteq Addr
  /\ named \subseteq IPs
  /\ requests \in Nat
  /\ quiet \in BOOLEAN

\* A state that ParseState accepts names a leader and was fetched from a host
\* that some reply of the same search named as the leader: never from a master
\* that merely answered, whatever the cluster does between the requests.
LoadedFromNamedLeader ==
  outcome = "ok" /\ phase = "done" =>
    /\ loaded.leader \in Addr
    /\ loaded.from.ip \in named

\* A search makes at most two requests per listed master (each is followed at
\* most once), so that a reload cannot hold up the main loop for longer than
\* 2 * len(Masters) * StateTimeoutSeconds.
RequestsBounded == requests <= 2 * Len(list)

\* What loadWrap returns for a master while the cluster stays as it is.
LoadOf(m) ==
  LET at == [ip |-> view[m].ip, port |-> m.port]
  IN  IF view[m] = Down THEN "error"
      ELSE IF view[m] = NoAddr THEN "panic"
      ELSE IF view[m].ip = m.ip THEN "ok"
      ELSE IF view[at] = Down THEN "error"
      ELSE IF view[at] = NoAddr THEN "leaderless"
      ELSE "ok"

\* "Tries each master and looks for the leader", one after the other: in a quiet
\* cluster the search stops at the first success, at a reply that names no leader
\* (which panics), and, behind the first of the list, at the first failure; the
\* masters up to there are the ones it has asked, what it returns is what that
\* master's load came to, and a state it returns is the one of the leader that
\* master names, taken on the port of that master.
StopsAtFirst ==
  (phase = "done" /\ quiet) =>
    LET P == {i \in DOMAIN list : list[i] # NoAddr}
        stops == {i \in P : LoadOf(list[i]) \in
                    {"ok", "panic"} \cup IF i = 1 THEN {} ELSE {"error"}}
        first(i) == \A j \in stops : i <= j
    IN  /\ tried = {list[i] : i \in {j \in P : first(j)}}
        /\ \A i \in stops : first(i) =>
             /\ outcome = LoadOf(list[i])
             /\ outcome = "ok" =>
                  loaded.from = [ip |-> view[list[i]].ip, port |-> list[i].port]
        /\ stops = {} => outcome = "error"

\* Every search ends, with or without a leader.
SearchEnds == (phase \in {"leader", "fallback"}) ~> (phase = "done")
=============================================================================
