---------------------------- MODULE MCZoneServer ----------------------------
(* A name asked in another form than it is recorded (a wildcard, capitals),  *)
(* and a name outside the domain.  The zones differ in every record; they    *)
(* have an address that does not parse, alone and next to a good one, and an *)
(* SRV target without address.                                               *)
EXTENDS ZoneServer, TLC

CONSTANTS web, host, WEB, other, a1, a2, bad

MCNames == {web, host, other}
MCClean == (WEB :> web) @@ (other :> other)
MCTarget(h, p) == [host |-> h, port |-> p]
MCZones == {
  [A   |-> (web :> {a1}) @@ (host :> {a1, bad}) @@ (other :> {}),
   SRV |-> (web :> {MCTarget(host, 1), MCTarget(other, 1)}) @@ (host :> {}) @@ (other :> {})],
  [A   |-> (web :> {bad}) @@ (host :> {a1, a2}) @@ (other :> {}),
   SRV |-> (web :> {MCTarget(host, 2)}) @@ (host :> {}) @@ (other :> {})]}
=============================================================================
