--------------------------- MODULE MCMasterSearch ---------------------------
(* Three masters on three hosts, one of them on a port of its own.           *)
EXTENDS MasterSearch

master(i, p) == [ip |-> i, port |-> p]
MCPorts == {5050, 5051}
MCMasters == {master("m1", 5050), master("m2", 5050), master("m3", 5051)}
MCReplies == MCMasters \cup {NoAddr, Down}
=============================================================================
