-------------------------- MODULE MCConsulDispatch --------------------------
EXTENDS ConsulDispatch

CONSTANTS a1, a2, a3, web, gone, bad

MCFramework(nm, h, act) == [name |-> nm, host |-> h, active |-> act]
MCTask(i, s, f, run, a, ks) ==
  [id |-> i, slave |-> s, framework |-> f, running |-> run, addr |-> a, checks |-> ks]
MCOn == MCFramework("f1", a1, TRUE)
MCOff == MCFramework("f2", NoAddr, FALSE)

\* A cluster of two nodes with tasks of every kind; the same after a task has
\* finished and a slave has come back under a new ID; a slave without agent.
MCStates == {
  [slaves |-> {[id |-> "S1", addr |-> a1], [id |-> "S2", addr |-> a2]},
   frameworks |-> {MCOn, MCOff},
   tasks |-> {MCTask("t1", "S1", MCOn, TRUE, a1, {web, gone}),
              MCTask("t2", "S2", MCOff, TRUE, a2, {web}),
              MCTask("t3", "S2", MCOn, FALSE, a2, {}),
              MCTask("t4", "S2", MCOn, TRUE, NoAddr, {})}],
  [slaves |-> {[id |-> "S1", addr |-> a1], [id |-> "S3", addr |-> a1]},
   frameworks |-> {MCOn},
   tasks |-> {MCTask("t1", "S1", MCOn, FALSE, a1, {web}),
              MCTask("t5", "S3", MCOn, TRUE, a1, {web, bad})}],
  [slaves |-> {[id |-> "S4", addr |-> a3]}, frameworks |-> {MCOn},
   tasks |-> {MCTask("t6", "S4", MCOn, TRUE, a3, {})}]}
=============================================================================
