---------------------------- MODULE ConsulAgent -----------------------------
(* One consulAgent goroutine of the consul resolver, which makes the         *)
(* services and checks of one Consul agent match the record sets dispatched  *)
(* to it, through a cache of what it believes to be registered               *)
(* (resolvers/consul/consul.go, cache.go, utils.go).  A record set maps the  *)
(* IDs of services and checks to their content, or None.                     *)
EXTENDS Naturals, Sequences, FiniteSets

CONSTANTS
  Services, Checks,  \* IDs under config.ServicePrefix
  Slave,             \* the service of the Mesos slave on the agent's node
  Foreign,           \* services registered by others on the same agent
  ServiceOf,         \* check -> its ServiceID
  Poison,            \* checks made from a missing KV pair: Consul refuses them
  Contents, None,
  RecordSets,        \* what Mesos state may ask for
  CacheRefresh,      \* config.CacheRefresh
  CacheModes,        \* the values of config.CacheOnly to start with
  MaxPending, MaxChanges, MaxFaults, MaxForgets  \* bounds

IDs == Services \cup Checks

ASSUME ConsulAssumption ==
  /\ Slave \in Services /\ Services \cap Checks = {} /\ Foreign \cap IDs = {}
  /\ ServiceOf \in [Checks -> Services] /\ Poison \subseteq Checks
  /\ Contents # {} /\ None \notin Contents
  /\ RecordSets \subseteq [IDs -> Contents \cup {None}]
  /\ CacheRefresh \in Nat \ {0} /\ CacheModes \subseteq BOOLEAN
  /\ MaxPending \in Nat /\ MaxChanges \in Nat
  /\ MaxFaults \in Nat /\ MaxForgets \in Nat

VARIABLES
  cacheOnly,  \* config.CacheOnly
  desired,    \* the records of the last Mesos state
  pending,    \* Dispatch's goroutines blocked in `agent <- records`
  pc,         \* "top" and "refresh" (l.144-171), "select", "apply"
  count,      \* modulo CacheRefresh
  healthy,    \* agent.Healthy
  cache,      \* recordCache.Records
  recordSet,  \* the set received last
  work,       \* the part of delta not yet applied
  before,     \* history: the cache that work was computed from
  consul,     \* what is registered on the Consul agent
  changes, faults, forgets  \* spent bounds

agentVars == <<cacheOnly, pc, count, healthy, cache, recordSet, work, before>>
vars == <<desired, pending, agentVars, consul, changes, faults, forgets>>

Empty == [id \in IDs |-> None]
ForeignContent == CHOOSE c \in Contents : TRUE

-----------------------------------------------------------------------------
(* The Consul agent, and calls to it *)

\* What a registration or deregistration does: a deregistered service takes its
\* checks with it.
Effect(op) ==
  [id \in DOMAIN consul |->
     IF id = op.id THEN IF op.action = "add" THEN op.content ELSE None
     ELSE IF op.action = "remove" /\ id \in Checks /\ ServiceOf[id] = op.id THEN None
     ELSE consul[id]]

\* Consul refuses a check without a name, or for a service it does not know.
Refused(op) ==
  /\ op.action = "add" /\ op.id \in Checks
  /\ op.id \in Poison \/ consul[ServiceOf[op.id]] = None

\* A call may fail, and a call that failed may have taken effect.
Fault == faults < MaxFaults /\ faults' = faults + 1

-----------------------------------------------------------------------------
(* Around the agent *)

Change ==
  /\ changes < MaxChanges /\ changes' = changes + 1
  /\ desired' \in RecordSets \ {desired}
  /\ UNCHANGED <<pending, agentVars, consul, faults, forgets>>

\* A Reload has been dispatched: a goroutine offers the records to the agent.
\* Dispatch knows the agent by the slave's record, so no set is without it.
Dispatch ==
  /\ desired[Slave] # None
  /\ Len(pending) < MaxPending
  /\ pending' = Append(pending, desired)
  /\ UNCHANGED <<desired, agentVars, consul, changes, faults, forgets>>

\* The Consul agent loses a service of ours.
Forget ==
  /\ forgets < MaxForgets /\ forgets' = forgets + 1
  /\ \E s \in Services :
       /\ consul[s] # None
       /\ consul' = Effect([action |-> "remove", id |-> s, content |-> None])
  /\ UNCHANGED <<desired, pending, agentVars, changes, faults>>

-----------------------------------------------------------------------------
(* consulAgent *)

\* The top of the loop, when no refresh is due.
Skip ==
  /\ pc = "top" /\ count # 0
  /\ pc' = "select"
  /\ UNCHANGED <<cacheOnly, desired, pending, count, healthy, cache, recordSet,
                 work, before, consul, changes, faults, forgets>>

\* `if !agent.Healthy`: reconnect and forget the cache, or sleep and try again.
\* (variant: the cache survives a reconnection)
Reconnected_keep == UNCHANGED cache

Reconnected == cache' = Empty

Reconnect ==
  /\ pc = "top" /\ count = 0
  /\ \/ /\ healthy /\ pc' = "refresh"
        /\ UNCHANGED <<healthy, cache, faults>>
     \/ /\ ~healthy /\ healthy' = TRUE /\ pc' = "refresh"
        /\ Reconnected
        /\ UNCHANGED faults
     \/ /\ ~healthy /\ Fault
        /\ UNCHANGED <<healthy, cache, pc>>
  /\ UNCHANGED <<cacheOnly, desired, pending, count, recordSet, work, before,
                 consul, changes, forgets>>

\* agentServiceRecords: the services of ours that Consul has.
\* (variant: services without our prefix are not skipped)
agentServiceRecords_all ==
  {s \in Services \cup Foreign : consul[s] # None}

agentServiceRecords == {s \in Services : consul[s] # None}

\* `Drop cache`, under config.CacheOnly.
\* (variant: the cache is kept)
DropCache_keep == UNCHANGED cache

DropCache == cache' = Empty

\* `Pull records from consul`: they are added to the cache.
Refresh ==
  /\ pc = "refresh"
  /\ \/ /\ cacheOnly /\ DropCache
        /\ UNCHANGED faults
     \/ /\ ~cacheOnly
        /\ cache' = [id \in DOMAIN cache \cup agentServiceRecords |->
                       IF id \in agentServiceRecords THEN consul[id] ELSE cache[id]]
        /\ UNCHANGED faults
     \/ /\ ~cacheOnly /\ Fault
        /\ UNCHANGED cache
  /\ pc' = "select"
  /\ UNCHANGED <<cacheOnly, desired, pending, count, healthy, recordSet, work,
                 before, consul, changes, forgets>>

\* getDeltaRecords, called for the additions and for the removals: a record is
\* different when its content is.
\* (variant: only IDs are compared)
getDeltaRecords_ids(old, new, action) ==
  {[action |-> action, id |-> id, content |-> new[id]] :
     id \in {i \in DOMAIN new :
               new[i] # None /\ (i \in DOMAIN old => old[i] = None)}}

getDeltaRecords(old, new, action) ==
  {[action |-> action, id |-> id, content |-> new[id]] :
     id \in {i \in DOMAIN new :
               new[i] # None /\ (i \in DOMAIN old => old[i] # new[i])}}

\* `case recordSet := <-records`
Receive ==
  /\ pc = "select"
  /\ \E i \in 1..Len(pending) :
       /\ recordSet' = pending[i]
       /\ pending' = SubSeq(pending, 1, i - 1) \o SubSeq(pending, i + 1, Len(pending))
  /\ count' = (count + 1) % CacheRefresh
  /\ work' = getDeltaRecords(cache, recordSet', "add")
             \cup getDeltaRecords(recordSet', cache, "remove")
  /\ before' = cache
  /\ pc' = "apply"
  /\ UNCHANGED <<cacheOnly, desired, healthy, cache, consul, changes, faults, forgets>>

\* The order of delta: additions before removals, services before checks.
Rank(op) == (IF op.action = "add" THEN 0 ELSE 2) + (IF op.id \in Checks THEN 1 ELSE 0)

\* UpdateCache.
\* (variant: a removed record stays in the cache)
UpdateCache_keep(op) ==
  cache' = [cache EXCEPT ![op.id] = IF op.action = "add" THEN op.content ELSE @]

UpdateCache(op) ==
  cache' = [cache EXCEPT ![op.id] = IF op.action = "add" THEN op.content ELSE None]

\* One record of delta.
Apply ==
  /\ pc = "apply" /\ healthy
  /\ \E op \in work :
       /\ \A o \in work : Rank(op) <= Rank(o)
       /\ work' = work \ {op}
       /\ \/ /\ ~Refused(op)
             /\ consul' = Effect(op)
             /\ UNCHANGED <<healthy, faults>>
          \/ /\ Refused(op)
             /\ healthy' = FALSE
             /\ UNCHANGED <<consul, faults>>
          \/ /\ Fault /\ healthy' = FALSE
             /\ consul' \in {consul} \cup IF Refused(op) THEN {} ELSE {Effect(op)}
       /\ UpdateCache(op)
  /\ UNCHANGED <<cacheOnly, desired, pending, pc, count, recordSet, before, changes,
                 forgets>>

\* The loop over delta ends, or skips all that is left for an unhealthy agent.
Applied ==
  /\ pc = "apply" /\ (work = {} \/ ~healthy)
  /\ work' = {} /\ before' = Empty /\ pc' = "top"
  /\ UNCHANGED <<cacheOnly, desired, pending, count, healthy, cache, recordSet, consul,
                 changes, faults, forgets>>

-----------------------------------------------------------------------------
Init ==
  /\ cacheOnly \in CacheModes
  /\ desired = Empty /\ pending = << >>
  /\ pc = "top" /\ count = 0 /\ healthy = FALSE
  /\ cache = Empty /\ recordSet = Empty /\ work = {} /\ before = Empty
  /\ \E set \in RecordSets :   \* left by an earlier run of the program
       consul = [id \in IDs \cup Foreign |->
                   IF id \in Foreign THEN ForeignContent
                   ELSE IF id \in Poison THEN None ELSE set[id]]
  /\ changes = 0 /\ faults = 0 /\ forgets = 0

Agent == Skip \/ Reconnect \/ Refresh \/ Receive \/ Apply \/ Applied

Next == Change \/ Dispatch \/ Forget \/ Agent

Fairness == WF_vars(Dispatch) /\ WF_vars(Agent)

Spec == Init /\ [][Next]_vars /\ Fairness

-----------------------------------------------------------------------------
(* Properties *)

TypeOK ==
  /\ cacheOnly \in CacheModes
  /\ desired \in RecordSets \cup {Empty}
  /\ pending \in Seq(RecordSets) /\ Len(pending) <= MaxPending
  /\ pc \in {"top", "refresh", "select", "apply"}
  /\ count \in 0..(CacheRefresh - 1)
  /\ healthy \in BOOLEAN
  /\ cache \in [IDs -> Contents \cup {None}]
  /\ recordSet \in RecordSets \cup {Empty}
  /\ work \subseteq [action : {"add", "remove"}, id : IDs, content : Contents]
  /\ before \in [IDs -> Contents \cup {None}]
  /\ consul \in [IDs \cup Foreign -> Contents \cup {None}]
  /\ changes \in 0..MaxChanges /\ faults \in 0..MaxFaults /\ forgets \in 0..MaxForgets

\* While the agent counts as healthy, the cache never claims a service that
\* Consul does not have with that very content: failed calls, and failed calls
\* that took effect, are forgotten with the cache on reconnection.  (Unless
\* Consul lost the service by itself.)
CacheSound ==
  healthy /\ forgets = 0 =>
    \A s \in Services : cache[s] # None => consul[s] = cache[s]

\* Services registered on the same Consul agent by others are never touched:
\* agentServiceRecords keeps them out of the cache, so no removal names one.
ForeignUntouched == \A f \in Foreign : consul[f] = ForeignContent

\* What a record set applied without an error leaves in Consul: the services of
\* the set with the content the set gives them and none of the cached ones it
\* does not name, except that a service that was cached with another content is
\* gone: its addition is followed by the removal of the cached record, which
\* deregisters the same ID.
SetApplied ==
  pc = "apply" /\ work = {} /\ healthy /\ forgets = 0 =>
    \A s \in Services :
      (recordSet[s] # None \/ before[s] # None) =>
         consul[s] = IF before[s] \in {None, recordSet[s]} THEN recordSet[s] ELSE None

\* Once Mesos state stops changing and calls stop failing, the services of ours
\* in Consul become, and stay, those of Mesos state, whatever an earlier run
\* left behind and in whatever order the goroutines delivered the sets; the
\* services SetApplied says are gone come back with the next set.  Not so for an
\* agent that is sent nothing because its slave is not in Mesos state, that
\* skips its removals because of a check Consul refuses, that does not ask
\* Consul what it has (CacheOnly), or whose Consul lost a service.
Converges ==
  LET Undisturbed == /\ desired[Slave] # None
                     /\ \A k \in Poison : desired[k] = None
                     /\ ~cacheOnly
                     /\ forgets = 0
  IN  <>[](Undisturbed => \A s \in Services : consul[s] = desired[s])

\* Every service of Mesos state becomes and stays registered, checks that Consul
\* refuses or not; under CacheOnly, where the cache is dropped instead of
\* refreshed, also after Consul lost services.
Registered ==
  <>[](cacheOnly \/ forgets = 0 =>
         \A s \in Services : desired[s] # None => consul[s] = desired[s])

\* README.md of the resolver: healthchecks "will get assigned to the appropriate
\* tasks".  Every check of Mesos state becomes and stays registered.
ChecksAssigned ==
  <>[](\A k \in Checks : desired[k] # None => consul[k] = desired[k])
=============================================================================
