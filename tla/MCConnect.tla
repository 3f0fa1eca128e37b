------------------------------ MODULE MCConnect ------------------------------
(***************************************************************************)
(* Instances of Connect for TLC: a server of every kind, over three peers, *)
(* starting from no pool, a pool built under other filters, and full and   *)
(* partial pools whose remembered addresses are good, dead or missing.     *)
(***************************************************************************)
EXTENDS Connect

CONSTANTS a, b, c

MCServer(pinned, fallback, sticky, backoff, max) ==
  [pinned |-> pinned, verbatim |-> IF pinned = <<>> THEN {} ELSE {Route(b, "circuit")},
   fallback |-> fallback, sticky |-> sticky, backoff |-> backoff, max |-> max, fp |-> <<"NL">>]

MCPinned == {MCServer(<<a, b>>, fallback, TRUE, TRUE, 2) : fallback \in BOOLEAN}
MCSticky == {MCServer(<<>>, FALSE, TRUE, backoff, max) : backoff \in BOOLEAN, max \in {2, 3}}
MCServers == MCPinned \cup MCSticky \cup {MCServer(<<>>, FALSE, FALSE, TRUE, 2)}

MCEntry(p, address) == [peer |-> p, addr |-> address]
MCPools ==
  {Absent,
   [fp |-> <<"RU">>, peers |-> <<MCEntry(c, "direct")>>],
   [fp |-> <<"NL">>, peers |-> <<MCEntry(a, "stale")>>],
   [fp |-> <<"NL">>, peers |-> <<MCEntry(a, "direct"), MCEntry(b, NoAddress)>>],
   [fp |-> <<"NL">>, peers |-> <<MCEntry(b, "stale"), MCEntry(c, "direct")>>]}
MCLargePool ==
  [fp |-> <<"NL">>, peers |-> <<MCEntry(b, "direct"), MCEntry(a, NoAddress), MCEntry(c, "stale")>>]

(* Anything may happen, or nothing changes and the hub tells the truth.    *)
MCSteadyWorld == {[stable |-> TRUE, hub |-> {"answers"}]}
MCWorlds == MCSteadyWorld \cup {[stable |-> FALSE, hub |-> {"answers", "unsupported", "fails"}]}

MCRememberedAt == [s \in MCServers |-> IF s.max = 3 THEN MCPools \cup {MCLargePool} ELSE MCPools]
=============================================================================
