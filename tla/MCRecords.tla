------------------------------ MODULE MCRecords ------------------------------
(* Labels of 3 and 6 characters at most; states with two frameworks, two or   *)
(* three slaves and up to three tasks, all lists of up to three masters.      *)
EXTENDS Records, TLC

CONSTANTS NameChars, MaxName  \* the names LabelsClean tries

MCLower == {"a", "b", "e", "m", "r", "s", "t", "w", "c", "p", "u", "d"}
MCToLower == [W |-> "w", B |-> "b", S |-> "s"]

\* The names of the instance, character by character.
Dashed == <<"a", "-", "-", "-", "-", "-", "b">>
MCSpelling ==
  (""    :> << >>)          @@ ("web" :> <<"w", "e", "b">>) @@ ("-" :> <<"-">>) @@
  ("a._" :> <<"a", ".", "_">>) @@ ("_" :> <<"_">>)          @@ ("b" :> <<"b">>) @@
  ("W1"  :> <<"W", "1">>)   @@ ("Ww"  :> <<"W", "w">>)      @@ ("w" :> <<"w">>) @@
  ("tcp" :> <<"t", "c", "p">>) @@ ("udp" :> <<"u", "d", "p">>) @@ ("dashed" :> Dashed) @@
  ("master" :> <<"m", "a", "s", "t", "e", "r">>) @@ ("s.b" :> <<"s", ".", "b">>) @@ ("a" :> <<"a">>) @@
  ("b-" :> <<"b", "-">>)
Ids == ("a-S1" :> <<"a", "-", "S", "1">>) @@ ("a-S2" :> <<"a", "-", "S", "2">>) @@ ("S3" :> <<"S", "3">>)

MCMangled == [e \in BOOLEAN |-> [n \in DOMAIN MCSpelling |->
  [label |-> LabelString(hostSpecOf(e, MCSpelling[n])), frag |-> DomainFragOf(e, MCSpelling[n])]]]
MCslaveIDTail == [id \in DOMAIN Ids |-> slaveIDTailOf(Ids[id])]
MChostToIP4 == [h \in DOMAIN MCSpelling |->
  CASE h = "a" -> "10.0.0.1" [] h = "b" -> "10.0.0.2" [] OTHER -> ""]
MCParseIP == [a \in {"10.0.0.1", "10.0.0.2", "10.0.0.7", "::ffff:10.0.0.8"} |->
  IF a = "::ffff:10.0.0.8" THEN "10.0.0.8" ELSE a]
MChash == [id \in {"t1", "t2", "t3"} |-> IF id = "t2" THEN "h2" ELSE "h1"]
MCMasterN == [k \in 0..3 |-> <<"master0", "master1", "master2", "master3">>[k + 1]]

addr(h, p) == [ip |-> h, port |-> p]
Entries == {addr("10.0.0.1", 5050), addr("10.0.0.1", 5051), addr("10.0.0.2", 5050), NoAddr}
MCMasterLists == UNION {[1..n -> Entries] : n \in 0..3}
Leaders == {addr("10.0.0.1", 5050), addr("10.0.0.3", 5050), NoAddr}
MCSources == {<<"host">>, <<"label", "netinfo", "host">>, <<"docker", "mesos">>}

label_(k, v) == [Key |-> k, Value |-> v]
net(as, a) == [IPAddresses |-> as, IPAddress |-> a]
status(s, ts, ls, ns) == [State |-> s, Timestamp |-> ts, Labels |-> ls, NetworkInfos |-> ns]
old == status("TASK_RUNNING", 1, <<label_("docker", "10.0.0.7")>>, <<net(<<"10.0.0.7">>, "")>>)
new == status("TASK_RUNNING", 2, <<label_("mesos", "x"), label_("mesos", "::ffff:10.0.0.8")>>,
              <<net(<< >>, ""), net(<< >>, "10.0.0.2")>>)
\* As new as old; IPAddresses is there, and IPAddress is not read.
tied == status("TASK_RUNNING", 1, <<label_("docker", "10.0.0.1")>>, <<net(<<"x">>, "10.0.0.2")>>)
ended == status("TASK_FAILED", 3, <<label_("docker", "10.0.0.1")>>, << >>)

port(p, n, k) == [Protocol |-> p, Name |-> n, Number |-> k]
disc(n, ps) == [Name |-> n, Ports |-> ps]
task(id, n, s, st, sts, rs, d) ==
  [ID |-> id, Name |-> n, SlaveID |-> s, State |-> st, Statuses |-> sts,
   Ranges |-> rs, DiscoveryInfo |-> d]
S1 == "a-S1"
S2 == "a-S2"
S3 == "S3"
NoDisc == disc("", {})
plain == task("t1", "web", S1, "TASK_RUNNING", <<new, old, ended>>, {<<1, 2>>, <<4, 4>>}, NoDisc)
twin == task("t2", "web", S1, "TASK_RUNNING", <<old, new>>, {<<1, 1>>}, NoDisc)
double == task("t3", "web", S1, "TASK_RUNNING", <<old, tied>>, {}, NoDisc)
found == task("t2", "web", S3, "TASK_RUNNING", <<old>>, {<<1, 1>>},
              disc("W1", {port("tcp", "w", 8), port("", "-", 9)}))
broken == [found EXCEPT !.Name = "dashed"]
lost == task("t2", "web", "S9", "TASK_RUNNING", << >>, {<<1, 1>>}, NoDisc)
dead == task("t3", "dashed", S1, "TASK_FINISHED", <<old>>, {<<1, 1>>}, NoDisc)
bare == task("t2", "b-", S3, "TASK_RUNNING", << >>, {<<3, 3>>},
             disc("Ww", {port("udp", "", 8)}))

fw(n, pid, p, h, ts) == [Name |-> n, PID |-> pid, Port |-> p, Hostname |-> h, Tasks |-> ts]
slave(id, h) == [ID |-> id, Host |-> h, Port |-> 5051]
AllSlaves == <<slave(S1, "a"), slave(S2, "b"), slave(S3, "s.b")>>

MCClusters ==
  {<<fs, ss>> :
     fs \in {<< >>,
             <<fw("a._", "a", 7, "", <<plain, twin, dead>>)>>,
             <<fw("web", "b", 7, "", <<plain, twin>>), fw("web", "", 0, "a", <<double, lost>>)>>,
             <<fw("_", "", 0, "_", <<bare, plain>>)>>,
             <<fw("master", "b", 7, "", <<double>>), fw("dashed", "b", 7, "", << >>)>>,
             <<fw("master", "b", 7, "", <<plain, double>>)>>,
             <<fw("b", "b", 7, "", <<found, plain>>)>>,
             <<fw("b", "b", 7, "", <<plain, broken>>)>>},
     ss \in {AllSlaves, <<slave(S1, "a"), slave(S1, "b"), slave(S3, "_")>>}}
  \cup {<< << >>, <<slave(S1, "dashed")>> >>}
MCStates == {[Frameworks |-> c[1], Slaves |-> c[2], Leader |-> l] : c \in MCClusters, l \in Leaders}

MCNames == UNION {[1..n -> NameChars] : n \in 0..MaxName}
=============================================================================
