----------------------------- MODULE MCMesosDNS -----------------------------
(* Two masters.  Several .cfg files use this module: the whole system with   *)
(* faults, a calm cluster for liveness, and a statement of the documentation *)
(* that does not hold.                                                       *)
EXTENDS MesosDNS

master(i) == [ip |-> i, port |-> 5050]
info(i) == [id |-> i, ip |-> i, port |-> 5050]

MCPorts == {5050}
MCMasters == {master("m1"), master("m2")}
MCTwoConfigured == <<master("m1"), master("m2")>>
MCConfigured == <<master("m2")>>
MCRegistrants == {info("m1"), info("m2")}
MCInitialNodes == <<info("m1")>>
MCReplies == MCMasters \cup {NoAddr, Down}
MCLeaderReplies == {master("m1"), NoAddr, Down}
MCBuiltin == <<"builtin">>
MCBoth == <<"builtin", "consul">>
=============================================================================
