---------------------------- MODULE MCForwarder ----------------------------
(* Two handlers, two servers, and files that set fields, misspell them or     *)
(* give them values of another type.                                          *)
EXTENDS Forwarder, TLC

bool(b) == [kind |-> "bool", val |-> b]
list(l) == [kind |-> "list", val |-> l]
MCDefaultServers == <<"d1", "d2">>
MCJSONConfigs ==
  {<< >>, "ExternalOn" :> bool(FALSE),
   "ExternalOn" :> bool(TRUE) @@ "ExternalDNS" :> list(<<"x1", "d2">>),
   "ExternalOn" :> bool(FALSE) @@ "ExternalDNS" :> list(<<"x1">>),
   "ExternalDNS" :> list(<< >>) @@ "Timeout" :> [kind |-> "number", val |-> 3],
   "ExternalOn" :> [kind |-> "string", val |-> "false"],
   "externalOn" :> bool(FALSE)}
=============================================================================
