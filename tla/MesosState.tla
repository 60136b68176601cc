----------------------------- MODULE MesosState -----------------------------
(* Package records/state: what is read off the tasks of a state.json.        *)
EXTENDS Naturals, Sequences, SeqFilter

CONSTANTS
  ParseIP      \* net.ParseIP(.).String(), on the strings it accepts

\* The ports of the ranges "[lo-hi, ...]"; the order does not matter.
Ports(ranges) == UNION {r[1]..r[2] : r \in ranges}

HasDiscoveryInfo(t) == t.DiscoveryInfo.Name # ""

\* The status StatusIPs settles for, 0 if no status is of a running task.
\* (variant: the last running one of the list)
Latest_last(st) ==
  LET J[i \in 0..Len(st)] ==
        IF i = 0 THEN 0
        ELSE IF st[i].State = "TASK_RUNNING" THEN i ELSE J[i-1]
  IN J[Len(st)]

Latest(st) ==
  LET J[i \in 0..Len(st)] ==
        IF i = 0 THEN 0
        ELSE IF /\ st[i].State = "TASK_RUNNING"
                /\ J[i-1] # 0 => st[i].Timestamp > st[J[i-1]].Timestamp
               THEN i ELSE J[i-1]
  IN J[Len(st)]

\* Labels(key)(&s): the values of the labels with that key.
Labels(s, key) ==
  LET own == Filter(s.Labels, {l \in {s.Labels[i] : i \in DOMAIN s.Labels} : l.Key = key})
  IN [i \in DOMAIN own |-> own[i].Value]

\* One empty string per interface precedes the addresses (make with a length).
networkInfoIPs(s) ==
  LET infos == s.NetworkInfos
      of(n) == IF n.IPAddresses # << >> THEN n.IPAddresses
               ELSE IF n.IPAddress # "" THEN <<n.IPAddress>> ELSE << >>
  IN [i \in DOMAIN infos |-> ""] \o Concat([i \in DOMAIN infos |-> of(infos[i])])

\* What one source says; an unknown source says nothing.
source(t, SlaveIP, src) ==
  IF src = "host" THEN <<SlaveIP>>
  ELSE IF Latest(t.Statuses) = 0 THEN << >>
  ELSE LET s == t.Statuses[Latest(t.Statuses)]
       IN CASE src = "docker"  -> Labels(s, "docker")
            [] src = "mesos"   -> Labels(s, "mesos")
            [] src = "netinfo" -> networkInfoIPs(s)
            [] OTHER           -> << >>

IPs(t, SlaveIP, srcs) ==
  Filter(Concat([i \in DOMAIN srcs |-> source(t, SlaveIP, srcs[i])]), DOMAIN ParseIP)

IP(t, SlaveIP, srcs) ==
  LET ips == IPs(t, SlaveIP, srcs) IN IF ips # << >> THEN ParseIP[ips[1]] ELSE ""

\* The scheduler's process if the framework has one, its host name if not.
HostPort(f) ==
  IF f.PID # "" THEN [host |-> f.PID, port |-> f.Port]
                ELSE [host |-> f.Hostname, port |-> 0]
=============================================================================
