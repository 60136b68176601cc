----------------------------- MODULE MCDetector -----------------------------
(* Three masters, one of which is configured and one restarted under a new   *)
(* znode.                                                                    *)
EXTENDS Detector

master(i) == [ip |-> i, port |-> 5050]
info(i) == [id |-> i, ip |-> i, port |-> 5050]

MCPorts == {5050}
MCConfigured == <<master("m1"), master("m3")>>
MCRegistrants == {info("m1"), info("m2")}
MCInitialNodes == <<info("m1")>>
=============================================================================
