--------------------------------- MODULE MCUi ---------------------------------
(***************************************************************************)
(* Instances of Ui for TLC: worlds busy with events and worlds busy with   *)
(* keys, over a channel of two events.                                     *)
(***************************************************************************)
EXTENDS Ui

CONSTANTS a, b, s

MCPool(ids, routed) == [ids |-> ids, routed |-> routed]

MCWorld(kinds, ports, linked, pools, keys) ==
  [kinds |-> kinds, ports |-> ports, linked |-> linked, pools |-> pools, keys |-> keys]

MCLinks == {"Connected", "PeerRoute", "Disconnected"}
MCNoPool == MCPool(<<>>, {})

(* Exits come and go and efforts show what they found; nobody types.       *)
MCExits == MCWorld(MCLinks \cup {"ActiveDestination", "ServerPool"}, {"1080"}, {a},
                   {MCNoPool, MCPool(<<b>>, {b})}, {})
(* A session runs while its exit and another peer come and go.             *)
MCSessions == MCWorld(MCLinks \cup {"New", "Bandwidth", "End"}, {}, {a}, {}, {})
(* An operator in the NETWORK tab, under whom the rows change.             *)
MCRows == MCWorld({"ActiveDestination", "StickyPool"}, {"1080"}, {},
                  {MCNoPool, MCPool(<<a, b>>, {b})}, {"Tab", "Up", "Down", "Space", "Enter"})
(* The prompt, the logs and the tabs, over one remembered exit.            *)
MCModes == MCWorld({"StickyPool", "Error"}, {"1080"}, {}, {MCPool(<<a>>, {})},
                   {"q", "e", "l", "Tab", "BackTab", "Up", "Enter", "Right", "Esc"})

MCWorlds == {MCExits, MCSessions, MCRows, MCModes}
MCServers == <<"1080", "1081">>
==============================================================================
