----------------------------- MODULE MCDiscovery -----------------------------
(***************************************************************************)
(* Instances of Discovery for TLC: one or two ports over two peers.        *)
(***************************************************************************)
EXTENDS Discovery

CONSTANTS a, b, north, south

MCServer(pinned, fallback, sticky, backoff, max) ==
  [pinned |-> pinned, fallback |-> fallback, sticky |-> sticky,
   backoff |-> backoff, max |-> max, fp |-> <<"NL">>]

MCEntry(p) == [peer |-> p, addr |-> NoAddress]
MCPool(fp, peers) == [fp |-> fp, peers |-> [i \in DOMAIN peers |-> MCEntry(peers[i])]]

(* A sticky server that keeps two exits and fights for the one that drops. *)
MCRotating == [p \in Ports |-> MCServer(<<>>, FALSE, TRUE, TRUE, 2)]
(* One that keeps a single exit and fails fast.                            *)
MCSingle == [p \in Ports |-> MCServer(<<>>, FALSE, TRUE, FALSE, 1)]
(* A hard-pinned pair on one port and a single exit on the other: no exit  *)
(* is ever rotated off a relay.                                            *)
MCSteady == [p \in Ports |-> IF p = north THEN MCServer(<<a, b>>, FALSE, TRUE, TRUE, 1)
                                          ELSE MCServer(<<>>, FALSE, TRUE, FALSE, 1)]

MCNoPool == [p \in Ports |-> {Absent}]
MCAnyPool == [p \in Ports |-> {Absent, MCPool(<<"NL">>, <<a>>), MCPool(<<"NL">>, <<b, a>>),
                               MCPool(<<"RU">>, <<b>>)}]
=============================================================================
