------------------------------ MODULE MCStartup ------------------------------
(***************************************************************************)
(* Instances of Startup for TLC: configurations with one mistake each, and *)
(* some with none.                                                         *)
(***************************************************************************)
EXTENDS Startup

MCId(p) == [form |-> "id", parts |-> <<[kind |-> "p2p", id |-> p]>>]
MCCircuit == [form |-> "multiaddr",
              parts |-> <<[kind |-> "ip4", id |-> ""], [kind |-> "p2p", id |-> "relay"],
                          [kind |-> "p2p-circuit", id |-> ""], [kind |-> "p2p", id |-> "exit"]>>]
MCBare == [form |-> "multiaddr", parts |-> <<[kind |-> "p2p", id |-> "exit"]>>]
MCPeerless == [form |-> "multiaddr", parts |-> <<[kind |-> "ip4", id |-> ""]>>]

MCCountry(spelling) == [spelling |-> spelling, code |-> IF spelling = "alpha3" THEN "NL" ELSE ""]
MCServer(port, country, listed, entries) ==
  [port |-> port, country |-> MCCountry(country), listed |-> listed, entries |-> entries]

MCFiles ==
  {<<MCServer(1080, "alpha3", FALSE, <<>>),
     MCServer(port, "absent", TRUE, <<MCId("other"), MCBare, MCCircuit>>)>> : port \in {1080, 1081}}
  \cup {<<MCServer(1080, country, TRUE, entries)>> :
          country \in {"blank", "unknown"}, entries \in {<<>>, <<MCCircuit>>, <<MCPeerless>>}}
==============================================================================
