------------------------------ MODULE MesosDNS ------------------------------
(* The program: main's event loop, composed with the master detector         *)
(* (Detector), the search for the leader (MasterSearch), the detection       *)
(* timer, the error channel and the resolvers.  The error channel is         *)
(* unbuffered and main is its only reader.                                   *)
EXTENDS Naturals, Sequences, FiniteSets

CONSTANTS
  IPs, Ports, IDs, NoAddr, Nil, ZkModes, Configured, Registrants, InitialNodes,
  MaxNode, MinNodes, MaxFaults,                            \* Detector
  Down, Masters, Replies, MaxChanges, MaxList,             \* MasterSearch
  Resolvers,       \* the configured resolvers, in the order New created them
  StartOutcomes,   \* how consul.New may end: subset of {"ok", "errch", "nil"}
  ZkTimeout,       \* config.ZkDetectionTimeout
  ServersFail      \* whether the DNS or HTTP server may stop serving

VARIABLES
  znodes, nextNode, notify, faults, dpc, children, leaderNode, masters, changed,
  current,
  view, changes, phase, list, rest, asking, redirected, outcome, loaded, tried,
  named, requests, quiet,
  mpc,          \* where main is
  timer,        \* the detection timer: "armed" or "off"
  senders,      \* goroutines blocked in `errch <- ...`
  taken,        \* main has taken a list from `changed`
  nilConsul,    \* the consul resolver is a nil pointer
  toReload,     \* the resolvers reloadResolvers has not called yet
  fresh,        \* the state behind the RecordGenerator being installed
  served        \* resolver -> the state behind the records it serves

D == INSTANCE Detector
S == INSTANCE MasterSearch

detectorVars == <<znodes, nextNode, notify, faults, dpc, children, leaderNode,
                  masters>>
searchVars == <<phase, list, rest, asking, redirected, outcome, loaded, tried,
                named, requests, quiet>>
mainVars == <<mpc, timer, senders, taken, nilConsul, toReload, fresh, served>>
vars == <<detectorVars, changed, current, view, changes, searchVars, mainVars>>

ASSUME MainAssumption ==
  /\ D!ConfigAssumption /\ S!SearchAssumption
  /\ Resolvers \in Seq({"builtin", "consul"})
  /\ \A i, j \in 1..Len(Resolvers) : Resolvers[i] = Resolvers[j] => i = j
  /\ StartOutcomes \subseteq {"ok", "errch", "nil"}
  /\ ZkTimeout \in Nat
  /\ ServersFail \in BOOLEAN

Range(s) == {s[i] : i \in 1..Len(s)}
HasLeader(ms) == ms # << >> /\ Head(ms) # NoAddr

-----------------------------------------------------------------------------
(* main *)

\* resolvers.New, on main's goroutine, before the loop: consul.New sends a
\* connection error to errch itself and returns nil for a malformed address.
StartResolvers ==
  /\ mpc = "start"
  /\ \E out \in IF "consul" \in Range(Resolvers) THEN StartOutcomes ELSE {"ok"} :
       /\ mpc' = IF out = "errch" THEN "blocked" ELSE "select"
       /\ nilConsul' = (out = "nil")
  /\ UNCHANGED <<detectorVars, changed, current, view, changes, searchVars,
                 timer, senders, taken, toReload, fresh, served>>

\* `case <-reload.C`
ReloadTick ==
  /\ mpc = "select"
  /\ S!ParseState(current)
  /\ mpc' = "load"
  /\ UNCHANGED <<detectorVars, changed, current, timer, senders, taken,
                 nilConsul, toReload, fresh, served>>

\* `case masters := <-changed`
\* (variant: the timer is not restarted when the leader is lost)
SetTimer_stoponly(ms) == timer' = IF HasLeader(ms) THEN "off" ELSE timer

SetTimer(ms) == timer' = IF HasLeader(ms) THEN "off" ELSE "armed"

MastersChanged ==
  /\ mpc = "select"
  /\ D!Receive
  /\ SetTimer(Head(changed))
  /\ S!ParseState(Head(changed))
  /\ mpc' = "load"
  /\ taken' = TRUE
  /\ UNCHANGED <<detectorVars, senders, nilConsul, toReload, fresh, served>>

\* `case err := <-errch`: log.Fatal.
ErrchReceived ==
  /\ mpc = "select"
  /\ senders # {}
  /\ mpc' = "exited"
  /\ UNCHANGED <<detectorVars, changed, current, view, changes, searchVars,
                 timer, senders, taken, nilConsul, toReload, fresh, served>>

\* A request of ParseState, inside reloadResolvers.
Load ==
  /\ mpc = "load"
  /\ S!loadFromMaster
  /\ UNCHANGED <<detectorVars, changed, current, mainVars>>

\* (variant: the resolvers are reloaded whatever ParseState returned)
LoadDone_always ==
  /\ mpc = "load"
  /\ S!Return
  /\ mpc' = "reload"
  /\ fresh' = loaded
  /\ toReload' = Resolvers
  /\ UNCHANGED <<detectorVars, changed, current, timer, senders, taken,
                 nilConsul, served>>

\* reloadResolvers after ParseState: an error is sent to errch from the only
\* goroutine that reads it; a panic ends the process through HandleCrash.
LoadDone ==
  /\ mpc = "load"
  /\ S!Return
  /\ mpc' = CASE outcome = "ok" -> "reload"
              [] outcome = "error" -> "blocked"
              [] outcome = "panic" -> "crashed"
  /\ fresh' = loaded
  /\ toReload' = IF outcome = "ok" THEN Resolvers ELSE << >>
  /\ UNCHANGED <<detectorVars, changed, current, timer, senders, taken,
                 nilConsul, served>>

\* (variant: the loop over the resolvers ends after the first)
ReloadResolver_first ==
  /\ mpc = "reload"
  /\ toReload # << >>
  /\ served' = [served EXCEPT ![Head(toReload)] = fresh]
  /\ toReload' = << >>
  /\ mpc' = "reload"
  /\ UNCHANGED <<detectorVars, changed, current, view, changes, searchVars,
                 timer, senders, taken, nilConsul, fresh>>

\* The loop `resolver.Reload(rg)`; Reload of a nil *Backend panics.
ReloadResolver ==
  /\ mpc = "reload"
  /\ toReload # << >>
  /\ IF Head(toReload) = "consul" /\ nilConsul
     THEN mpc' = "crashed" /\ UNCHANGED <<served, toReload>>
     ELSE /\ served' = [served EXCEPT ![Head(toReload)] = fresh]
          /\ toReload' = Tail(toReload)
          /\ mpc' = "reload"
  /\ UNCHANGED <<detectorVars, changed, current, view, changes, searchVars,
                 timer, senders, taken, nilConsul, fresh>>

ReloadDone ==
  /\ mpc = "reload"
  /\ toReload = << >>
  /\ mpc' = "select"
  /\ fresh' = S!NotLoaded
  /\ UNCHANGED <<detectorVars, changed, current, view, changes, searchVars,
                 timer, senders, taken, nilConsul, toReload, served>>

Running == mpc \notin {"exited", "crashed"}

\* time.AfterFunc: the timer's goroutine sends unless the timeout is 0.
TimerFires ==
  /\ Running
  /\ timer = "armed"
  /\ timer' = "off"
  /\ senders' = IF ZkTimeout > 0 THEN senders \cup {"timer"} ELSE senders
  /\ UNCHANGED <<detectorVars, changed, current, view, changes, searchVars, mpc,
                 taken, nilConsul, toReload, fresh, served>>

\* `go func() { errch <- <-r.LaunchDNS() }()`: the server stopped.
ServerStops ==
  /\ Running
  /\ ServersFail
  /\ "builtin" \in Range(Resolvers)
  /\ senders' = senders \cup {"server"}
  /\ UNCHANGED <<detectorVars, changed, current, view, changes, searchVars, mpc,
                 timer, taken, nilConsul, toReload, fresh, served>>

-----------------------------------------------------------------------------
DetectorStep ==
  Running /\ D!DetectorStep /\ UNCHANGED <<view, changes, searchVars, mainVars>>
WatchError ==
  Running /\ D!WatchError /\ UNCHANGED <<view, changes, searchVars, mainVars>>
ZooKeeper ==
  Running /\ (D!Register \/ D!Expire) /\ UNCHANGED <<view, changes, searchVars, mainVars>>
ClusterChange ==
  Running /\ S!ClusterChange /\ UNCHANGED <<detectorVars, changed, current, mainVars>>

Init ==
  /\ D!Init
  /\ S!Init
  /\ mpc = "start"
  /\ timer = "armed"
  /\ senders = {}
  /\ taken = FALSE
  /\ nilConsul = FALSE
  /\ toReload = << >>
  /\ fresh = S!NotLoaded
  /\ served = [r \in Range(Resolvers) |-> S!NotLoaded]

Main ==
  \/ StartResolvers \/ ReloadTick \/ MastersChanged \/ ErrchReceived
  \/ Load \/ LoadDone \/ ReloadResolver \/ ReloadDone

Next ==
  \/ Main \/ DetectorStep \/ TimerFires
  \/ WatchError \/ ServerStops \/ ZooKeeper \/ ClusterChange

\* The goroutines run when they can.  `select` chooses at random among the
\* channels that are ready, so a channel that keeps being ready is served
\* (strong fairness).  An armed timer fires.
Fairness ==
  /\ WF_vars(Main)
  /\ SF_vars(MastersChanged)
  /\ SF_vars(ErrchReceived)
  /\ WF_vars(DetectorStep)
  /\ WF_vars(TimerFires)

Spec == Init /\ [][Next]_vars /\ Fairness

-----------------------------------------------------------------------------
\* All resolvers serve the same state whenever main is not inside the loop that
\* reloads them: a resolver is never left behind by a load that failed, a lost
\* leader or an exit.
ResolversAgree ==
  mpc \notin {"reload", "crashed"} =>
    \A r1, r2 \in Range(Resolvers) : served[r1] = served[r2]

\* The detection timer covers exactly the times without a leader: it is never
\* armed when the list main took last names a leader, and when that list names
\* none it is armed or its goroutine already waits to end the program.
TimerCoversLeaderless ==
  taken =>
    /\ HasLeader(current) => timer = "off"
    /\ ~HasLeader(current) => \/ timer = "armed"
                              \/ ZkTimeout = 0
                              \/ "timer" \in senders

\* Records once served are only ever replaced by those of another successful
\* load: no failure takes a resolver back to serving nothing.
NeverUnserved ==
  [][\A r \in Range(Resolvers) :
       served[r] # S!NotLoaded => served'[r].leader \in S!Addr]_vars

\* All masters agree that L leads.
Agreed(L) == \A m \in Masters : view[m] = L

\* "Mesos-DNS will automatically find the leading master at any point in order
\* to retrieve state about running tasks"
\* (docs/docs/configuration-parameters.md:41): once all masters agree on one
\* leader, every resolver ends up serving that leader's state, unless the
\* program ended.
FindsLeadingMaster ==
  \A L \in Masters :
    <>[]Agreed(L) =>
      \/ <>~Running
      \/ <>[](\A r \in Range(Resolvers) : served[r] = [from |-> L, leader |-> L])
=============================================================================
