--------------------------- MODULE MCConsulAgent ----------------------------
(* A slave, a task on it, and two checks for the task, of which Consul       *)
(* refuses the second.                                                       *)
EXTENDS ConsulAgent, TLC

CONSTANTS slave, task, check, empty, x

MCServiceOf == check :> task @@ empty :> task

\* The slave is not in Mesos state, or it is there without the task, with the
\* task, or with the task and one of the checks.  The task may change its
\* content.
MCSets == {r \in [IDs -> Contents \cup {None}] :
             /\ r[slave] \in {None, x} /\ r[check] \in {None, x} /\ r[empty] \in {None, x}
             /\ r[slave] = None => r[task] = None
             /\ r[task] = None => r[check] = None /\ r[empty] = None
             /\ r[check] = None \/ r[empty] = None}
=============================================================================
