--------------------------- MODULE ConsulDispatch ---------------------------
(* A Reload of the consul resolver up to the agents' channels: the           *)
(* generators of slave, framework and task records, Dispatch which sorts     *)
(* them by slave, and the goroutine that polls Consul's KV store for         *)
(* healthchecks and hands its result to each Reload                          *)
(* (resolvers/consul/consul.go and parser.go).  Every Reload runs in         *)
(* goroutines of its own, so several may be under way at once.               *)
EXTENDS Naturals, FiniteSets

CONSTANTS
  States,       \* Mesos states: [slaves, frameworks, tasks], see below
  Agents,       \* addresses of the Consul members: the keys of b.Agents
  NoAddr,       \* ""
  Endpoints,    \* healthchecks the KV store has
  Broken,       \* those that do not parse, or need a port the task lacks
  Nil,
  SkipInactiveFrameworks, \* config
  CacheRefreshes, \* values of config.CacheRefresh to start with
  MaxReloads    \* bound

\* A slave is [id, addr]; a framework [name, host, active]; a task [id, slave,
\* framework, running, addr, checks] with the endpoints its label names.
ASSUME DispatchAssumption ==
  /\ \A st \in States : /\ \A s \in st.slaves : s = [id |-> s.id, addr |-> s.addr]
                         /\ \A t \in st.tasks : t.framework \in st.frameworks
  /\ NoAddr \notin Agents /\ Broken \subseteq Endpoints
  /\ SkipInactiveFrameworks \in BOOLEAN
  /\ CacheRefreshes \subseteq Nat \ {0} /\ MaxReloads \in Nat

VARIABLES
  phase,       \* Reload -> the loop its Dispatch is in
  rg,          \* Reload -> the Mesos state it was given
  consulAgent, \* Reload -> slaves with a channel, as [slave, addr] pairs
  slaveLookup, \* Reload -> [addr, slave] pairs
  records,     \* Reload -> records so far, as [slave, record] pairs
  sends,       \* goroutines blocked in `agent <- records`
  refresh,     \* config.CacheRefresh
  kpc, kcount, kvs, \* pollConsulKVHC: "count", "list" or "offer"; count; kvs
  kvFailed     \* whether a listing has failed (history)

reloadVars == <<phase, rg, consulAgent, slaveLookup, records>>
kvVars == <<refresh, kpc, kcount, kvs, kvFailed>>
dispatchVars == <<reloadVars, sends, kvVars>>

Reloads == 1..MaxReloads
Slot(slave, kind, name) == [slave |-> slave, record |-> [kind |-> kind, name |-> name]]

-----------------------------------------------------------------------------
(* The poller *)

\* A turn of the loop: the first of every `refresh` turns lists the KV pairs.
\* (variant: the last does)
KVTurn_last ==
  /\ kpc = "count"
  /\ kcount' = (kcount + 1) % refresh
  /\ kpc' = IF kcount' = 0 THEN "list" ELSE "offer"
  /\ UNCHANGED <<reloadVars, sends, refresh, kvs, kvFailed>>

KVTurn ==
  /\ kpc = "count"
  /\ kcount' = (kcount + 1) % refresh
  /\ kpc' = IF kcount' = 1 THEN "list" ELSE "offer"
  /\ UNCHANGED <<reloadVars, sends, refresh, kvs, kvFailed>>

\* A failed listing, which leaves no pairs, goes on to the next turn.
\* (variant: it is tried again before anything is offered)
KVList_retry ==
  /\ kpc = "list"
  /\ \/ kpc' = "offer" /\ kvs' = Endpoints /\ UNCHANGED <<kcount, kvFailed>>
     \/ kpc' = "count" /\ kvs' = {} /\ kcount' = 0 /\ kvFailed' = TRUE
  /\ UNCHANGED <<reloadVars, sends, refresh>>

KVList ==
  /\ kpc = "list"
  /\ \/ kpc' = "offer" /\ kvs' = Endpoints /\ UNCHANGED kvFailed
     \/ kpc' = "count" /\ kvs' = {} /\ kvFailed' = TRUE
  /\ UNCHANGED <<reloadVars, sends, refresh, kcount>>

pollConsulKVHC == KVTurn \/ KVList

-----------------------------------------------------------------------------
(* Reload and Dispatch *)

Reload(r) ==
  /\ phase[r] = "none" /\ (r > 1 => phase[r - 1] # "none")
  /\ \E st \in States : rg' = [rg EXCEPT ![r] = st]
  /\ phase' = [phase EXCEPT ![r] = "mesos"]
  /\ UNCHANGED <<consulAgent, slaveLookup, records, sends, kvVars>>

\* The slaves on a node with a Consul agent.
OnAgents(slaves) == {s \in slaves : s.addr \in Agents}

\* generateMesosRecords, and Dispatch's loop over them.  The last slave of an
\* address, in the order of Mesos state, is the one frameworks would go to.
DispatchMesos(r) ==
  /\ phase[r] = "mesos"
  /\ LET slaves == rg[r].slaves
         known == OnAgents(slaves)
     IN /\ consulAgent' = [consulAgent EXCEPT ![r] = known]
        /\ \E f \in [{s.addr : s \in known} -> {s.id : s \in known}] :
             /\ \A a \in DOMAIN f : [id |-> f[a], addr |-> a] \in known
             /\ slaveLookup' = [slaveLookup EXCEPT ![r] =
                                  {[addr |-> a, slave |-> f[a]] : a \in DOMAIN f}]
        /\ records' = [records EXCEPT ![r] = {Slot(s.id, "slave", s.id) : s \in slaves}]
  /\ phase' = [phase EXCEPT ![r] = "frameworks"]
  /\ UNCHANGED <<rg, sends, kvVars>>

Skipped(f) == SkipInactiveFrameworks /\ ~f.active

\* generateFrameworkRecords leaves the record's Address empty; Dispatch looks the
\* slave up by it and discards the record if there is none.
FrameworkAddress(f) == NoAddr

DispatchFrameworks(r) ==
  /\ phase[r] = "frameworks"
  /\ records' = [records EXCEPT ![r] = @ \cup
       {Slot(q[2].slave, "framework", q[1].name) :
          q \in {p \in rg[r].frameworks \X slaveLookup[r] :
             /\ ~Skipped(p[1]) /\ p[1].host # NoAddr
             /\ p[2].addr = FrameworkAddress(p[1])}}]
  /\ phase' = [phase EXCEPT ![r] = "tasks"]
  /\ UNCHANGED <<rg, consulAgent, slaveLookup, sends, kvVars>>

\* A task's records: its service, and a check for each endpoint of its label.
\* createHealthChecks gives an error for a pair it cannot render, and an empty
\* check, not an error, for a missing pair.
Runs(t) == t.running /\ t.addr # NoAddr /\ ~Skipped(t.framework)
createHealthChecks(checks, pairs) ==
  {IF e \in pairs THEN e ELSE Nil : e \in checks \ (Broken \cap pairs)}

\* generateTaskRecords waits for the poller's KV pairs.
\* (variant: the tasks that do not run are not left out)
TaskRecords_all(st, pairs) ==
  UNION {{Slot(t.slave, "task", t.id)}
         \cup {Slot(t.slave, "check", c) : c \in createHealthChecks(t.checks, pairs)} :
         t \in st.tasks}

TaskRecords(st, pairs) ==
  UNION {{Slot(t.slave, "task", t.id)}
         \cup {Slot(t.slave, "check", c) : c \in createHealthChecks(t.checks, pairs)} :
         t \in {u \in st.tasks : Runs(u)}}

DispatchTasks(r) ==
  /\ phase[r] = "tasks" /\ kpc = "offer"
  /\ records' = [records EXCEPT ![r] = @ \cup TaskRecords(rg[r], kvs)]
  /\ kpc' = "count"
  /\ phase' = [phase EXCEPT ![r] = "emit"]
  /\ UNCHANGED <<rg, consulAgent, slaveLookup, sends, refresh, kcount, kvs, kvFailed>>

\* `Emit list of records to each consul agent`
Emit(r) ==
  /\ phase[r] = "emit"
  /\ sends' = sends \cup
       {[reload |-> r, slave |-> s.id, addr |-> s.addr,
         records |-> {x.record : x \in {y \in records[r] : y.slave = s.id}}] :
        s \in consulAgent[r]}
  /\ phase' = [phase EXCEPT ![r] = "done"]
  /\ records' = [records EXCEPT ![r] = {}]
  /\ consulAgent' = [consulAgent EXCEPT ![r] = {}]
  /\ slaveLookup' = [slaveLookup EXCEPT ![r] = {}]
  /\ UNCHANGED <<rg, kvVars>>

\* An agent's goroutine (module ConsulAgent) takes a set, of whichever Reload.
Deliver ==
  /\ \E m \in sends : sends' = sends \ {m}
  /\ UNCHANGED <<reloadVars, kvVars>>

-----------------------------------------------------------------------------
DispatchInit ==
  /\ phase = [r \in Reloads |-> "none"]
  /\ rg = [r \in Reloads |-> Nil]
  /\ consulAgent = [r \in Reloads |-> {}]
  /\ slaveLookup = [r \in Reloads |-> {}]
  /\ records = [r \in Reloads |-> {}]
  /\ sends = {}
  /\ refresh \in CacheRefreshes
  /\ kpc = "count" /\ kcount = 0 /\ kvs = {} /\ kvFailed = FALSE

DispatchLoops(r) == DispatchMesos(r) \/ DispatchFrameworks(r) \/ DispatchTasks(r) \/ Emit(r)

DispatchNext == pollConsulKVHC \/ Deliver \/ \E r \in Reloads : Reload(r) \/ DispatchLoops(r)

\* Goroutines run; a Reload waiting for the poller is not passed over forever,
\* since receivers of a channel queue up.  Nothing makes a listing succeed or an
\* agent receive.
DispatchFairness ==
  /\ WF_dispatchVars(pollConsulKVHC)
  /\ \A r \in Reloads : SF_dispatchVars(DispatchLoops(r))

DispatchSpec == DispatchInit /\ [][DispatchNext]_dispatchVars /\ DispatchFairness

-----------------------------------------------------------------------------
(* Properties *)

\* What an agent is sent is all of its slave's records and no others, from one
\* Mesos state, however many Reloads are under way: the slave itself, exactly
\* those of its tasks that run, have an address, and are of a framework that is
\* not skipped, and checks these tasks ask for (or the empty check of an endpoint
\* without KV pair).  No framework record is among them: Dispatch looks the slave
\* up by Record.Address, which generateFrameworkRecords leaves empty.
SetsMatchState ==
  \A m \in sends :
    LET st == rg[m.reload]
        named(kind) == {x.name : x \in {y \in m.records : y.kind = kind}}
        tasks == {t \in st.tasks :
                    /\ t.slave = m.slave /\ t.running /\ t.addr # NoAddr
                    /\ t.framework.active \/ ~SkipInactiveFrameworks}
    IN /\ [id |-> m.slave, addr |-> m.addr] \in st.slaves
       /\ named("slave") = {m.slave}
       /\ named("task") = {t.id : t \in tasks}
       /\ named("check") \subseteq {Nil} \cup UNION {t.checks \ Broken : t \in tasks}
       /\ named("framework") = {}

\* Unless a listing failed, every check of a task is made of its KV pair and the
\* empty check, which makes the agent unhealthy, stands only for pairs that do not
\* exist: also the first Reload is given pairs that were listed.  With a
\* CacheRefresh of 1 no turn is the first of any, and all checks are empty.
ChecksFromPairs ==
  ~kvFailed => \A m \in sends :
    LET checks == {x.name : x \in {y \in m.records : y.kind = "check"}}
        asked == UNION {t.checks : t \in {u \in rg[m.reload].tasks : u.slave = m.slave /\ Runs(u)}}
        listed == IF refresh = 1 THEN {} ELSE Endpoints
    IN checks = ((asked \cap listed) \ Broken) \cup {Nil : e \in asked \ listed}

\* Every Reload gets as far as offering its sets to the agents, also when the KV
\* store never answers: "Always send a value through to make sure we dont make
\* tasks wait on us" (consul.go).
ReloadsDispatched == \A r \in Reloads : phase[r] = "mesos" ~> phase[r] = "done"
=============================================================================
