---------------------------------- MODULE Ui ----------------------------------
(***************************************************************************)
(* The terminal interface (p2proxy/src/tui): the bounded channel its       *)
(* events come through (adapters/channel_sink.rs), what it derives from    *)
(* them (tui/ui_state.rs), the rows of the NETWORK tab and the keys.       *)
(*                                                                         *)
(* The network and discovery actors and the sessions are the surroundings: *)
(* `links` and `dest` are what is really so, and each step of theirs emits *)
(* the events the code emits with it.  The two events of one handler are   *)
(* put in the channel together.                                            *)
(*                                                                         *)
(* Left out: amounts of traffic and the charts, the reason an exit was     *)
(* chosen, the status of pinned ranks and our own identity, which are      *)
(* replaced whole and only displayed, the text in the prompt, and layout.  *)
(***************************************************************************)
EXTENDS Integers, Sequences, FiniteSets, SequencesExt

CONSTANTS
  Servers,   \* config.servers: their listen ports, in order
  Peers, NoPeer, Sessions,
  Capacity,  \* of the events channel; main.rs makes it 200
  Worlds     \* what may happen: [kinds |-> events emitted, pools |-> the lists
             \* of peers they carry, keys |-> the keys pressed]

ASSUME PeersAreReal == NoPeer \notin Peers
ASSUME SomeServer == Len(Servers) \in Nat \ {0} /\ DOMAIN Servers = 1 .. Len(Servers)
ASSUME CapacityIsNatural == Capacity \in Nat

ASSUME WorldsAreOfThese ==
  \A w \in Worlds :
    /\ w.linked \subseteq Peers /\ w.ports \subseteq ToSet(Servers)
    /\ \A pool \in w.pools : pool.ids \in Seq(Peers)

VARIABLES
  world,
  links,                \* per peer, the kinds of connection it has
  dest,                 \* destinations: the exit of each port, or NoPeer
  serving,              \* the exit of each session while it runs, then "nobody"
  running,              \* run_ui is in its loop
  queue, lost,          \* the channel; history: what was last said and not heard
  connection_status, peers, last_error,
  session_peer, peer_bandwidth,
  server_pools, sticky_pools, active_destinations, peer_addresses,
  tab_index, show_logs, following, export_prompt,
  network_selected_idx, network_expanded, network_peer_cursor,
  network_pending_selection

outside == <<world, links, dest, serving>>
channel == <<queue, lost>>
summary == <<connection_status, peers, last_error, session_peer, peer_bandwidth>>
table == <<server_pools, sticky_pools, active_destinations, peer_addresses>>
view == <<tab_index, show_logs, following, export_prompt>>
focus == <<network_selected_idx, network_expanded, network_peer_cursor>>
vars == <<outside, running, channel, summary, table, view, focus, network_pending_selection>>

Ports == ToSet(Servers)
Tabs == <<"OVERVIEW", "NETWORK", "LOGS">>
Nowhere == <<>>
Least(m, n) == IF m < n THEN m ELSE n

(* AddrSource, from worst to best.                                         *)
AddrSource == <<"None", "Candidate", "Relayed", "Direct">>
Authority(source) == CHOOSE n \in DOMAIN AddrSource : AddrSource[n] = source

(* No list that is shown names a peer twice.                               *)
NamedOnce == \A pool \in world.pools : IsInjective(pool.ids)

TypeOK ==
  /\ world \in Worlds
  /\ links \in [Peers -> SUBSET {"Relayed", "Direct"}]
  /\ dest \in [Ports -> Peers \cup {NoPeer}]
  /\ serving \in [Sessions -> Peers \cup {NoPeer, "nobody"}]
  /\ running \in BOOLEAN
  /\ Len(queue) <= Capacity
  /\ connection_status \in {"Connecting", "Connected", "Disconnected"}
  /\ peers \subseteq Peers /\ peer_bandwidth \subseteq Peers
  /\ last_error \in BOOLEAN
  /\ session_peer \in [Sessions -> Peers \cup {NoPeer}]
  /\ {server_pools, sticky_pools} \subseteq [Ports -> Seq(Peers)]
  /\ NamedOnce => \A port \in Ports : IsInjective(server_pools[port]) /\ IsInjective(sticky_pools[port])
  /\ active_destinations \in [Ports -> Peers \cup {NoPeer}]
  /\ peer_addresses \in [Peers -> ToSet(AddrSource)]
  /\ tab_index \in DOMAIN Tabs
  /\ {show_logs, following, export_prompt} \subseteq BOOLEAN
  /\ network_selected_idx \in DOMAIN Servers
  /\ network_expanded \subseteq Ports
  /\ network_peer_cursor = Nowhere \/ network_peer_cursor \in Ports \X (Nat \ {0})
  /\ network_pending_selection = Nowhere \/ network_pending_selection \in Ports \X Peers

Init ==
  /\ world \in Worlds
  /\ links = [p \in Peers |-> {}] /\ dest = [port \in Ports |-> NoPeer]
  /\ serving = [s \in Sessions |-> NoPeer]
  /\ running = TRUE
  /\ queue = <<>> /\ lost = {}
  /\ connection_status = "Connecting" /\ peers = {} /\ last_error = FALSE
  /\ session_peer = [s \in Sessions |-> NoPeer] /\ peer_bandwidth = {}
  /\ server_pools = [port \in Ports |-> <<>>] /\ sticky_pools = [port \in Ports |-> <<>>]
  /\ active_destinations = [port \in Ports |-> NoPeer]
  /\ peer_addresses = [p \in Peers |-> "None"]
  /\ tab_index = 1 /\ show_logs = FALSE /\ following = TRUE /\ export_prompt = FALSE
  /\ network_selected_idx = 1 /\ network_expanded = {Servers[1]}
  /\ network_peer_cursor = Nowhere /\ network_pending_selection = Nowhere
-----------------------------------------------------------------------------
(***************************************************************************)
(* The channel.  An event that finds it full is dropped: try_send.         *)
(***************************************************************************)
Event(kind, of, what) == [kind |-> kind, of |-> of, what |-> what]

(* The events that take back what an earlier one said.                     *)
Telling == {"Connected", "Disconnected", "ActiveDestination", "End"}
Said(es) == {<<e.kind, e.of>> : e \in {x \in ToSet(es) : x.kind \in Telling}}

Emit(es) ==
  LET room == Capacity - Len(queue)
      heard == IF Len(es) > room THEN SubSeq(es, 1, room) ELSE es
  IN /\ running /\ \A e \in ToSet(es) : e.kind \in world.kinds
     /\ queue' = queue \o heard
     /\ lost' = (lost \cup Said(es)) \ Said(heard)

Inside == <<world, running, summary, table, view, focus, network_pending_selection>>

Established(p, kind) ==
  /\ kind \notin links[p]
  /\ links' = [links EXCEPT ![p] = @ \cup {kind}]
  /\ Emit(<<Event("Connected", p, kind), Event("PeerRoute", p, kind)>>)
  /\ UNCHANGED <<dest, serving, Inside>>

Closed(p, kind) ==
  /\ kind \in links[p]
  /\ links' = [links EXCEPT ![p] = @ \ {kind}]
  /\ Emit(<<Event("Disconnected", p, NoPeer)>>)
  /\ UNCHANGED <<dest, serving, Inside>>

(* set_destination and clear_destination.                                  *)
DestinationSet(port, p) ==
  /\ dest' = [dest EXCEPT ![port] = p]
  /\ Emit(<<Event("ActiveDestination", port, p)>>)
  /\ UNCHANGED <<links, serving, Inside>>

(* An effort shows what the hub found or what is remembered, or an error.  *)
PoolShown(kind, port) ==
  /\ \E pool \in world.pools : Emit(<<Event(kind, port, pool)>>)
  /\ UNCHANGED <<links, dest, serving, Inside>>

ErrorShown ==
  /\ Emit(<<Event("Error", NoPeer, NoPeer)>>)
  /\ UNCHANGED <<links, dest, serving, Inside>>

(* A session: New with its exit, a report per direction, End.              *)
SessionBegins(s, p) ==
  /\ serving[s] = NoPeer
  /\ serving' = [serving EXCEPT ![s] = p]
  /\ Emit(<<Event("New", s, p)>>)
  /\ UNCHANGED <<links, dest, Inside>>

SessionReports(s) ==
  /\ serving[s] \in Peers
  /\ Emit(<<Event("Bandwidth", s, NoPeer)>>)
  /\ UNCHANGED <<links, dest, serving, Inside>>

SessionEnds(s) ==
  /\ serving[s] \in Peers
  /\ serving' = [serving EXCEPT ![s] = "nobody"]
  /\ Emit(<<Event("End", s, NoPeer)>>)
  /\ UNCHANGED <<links, dest, Inside>>

Surroundings ==
  \/ \E p \in world.linked, kind \in {"Relayed", "Direct"} : Established(p, kind) \/ Closed(p, kind)
  \/ \E port \in world.ports, p \in Peers \cup {NoPeer} : DestinationSet(port, p)
  \/ \E port \in world.ports, kind \in {"ServerPool", "StickyPool"} : PoolShown(kind, port)
  \/ ErrorShown
  \/ \E s \in Sessions, p \in Peers : SessionBegins(s, p) \/ SessionReports(s) \/ SessionEnds(s)
-----------------------------------------------------------------------------
(***************************************************************************)
(* handle_swarm_events, one action per event.                              *)
(***************************************************************************)
Hears(kind) == running /\ queue # <<>> /\ Head(queue).kind = kind
               /\ queue' = Tail(queue) /\ UNCHANGED <<lost, outside, running, view, focus>>

Heard == Head(queue)

(* note_peer_address: a worse source never overwrites a better one.        *)
note_peer_address(known, source) == IF Authority(known) > Authority(source) THEN known ELSE source

NotedAll(ps, source) ==
  [p \in Peers |-> IF p \in ps THEN note_peer_address(peer_addresses[p], source) ELSE peer_addresses[p]]

(* The items of s at the places I, by their keys, under one key in order.  *)
Rank(I, key, i) == Cardinality({j \in I : key[j] < key[i] \/ (key[j] = key[i] /\ j <= i)})
Sorted(s, I, key) == [n \in 1 .. Cardinality(I) |-> s[CHOOSE i \in I : Rank(I, key, i) = n]]

Without(ids, p) ==
  LET others == {i \in DOMAIN ids : ids[i] # p} IN Sorted(ids, others, [i \in others |-> 0])

(* A slip: a peer that is listed is listed again.                          *)
WithAgain(ids, p) == IF p = NoPeer THEN ids ELSE Append(ids, p)

With(ids, p) == IF p \in ToSet(ids) \cup {NoPeer} THEN ids ELSE Append(ids, p)

HearConnected ==
  /\ Hears("Connected")
  /\ connection_status' = "Connected" /\ last_error' = FALSE
  /\ peers' = peers \cup {Heard.of}
  /\ UNCHANGED <<session_peer, peer_bandwidth, table, network_pending_selection>>

(* A slip: the routes learned for a peer outlive its connection.           *)
HearDisconnectedKeepingRoute ==
  /\ Hears("Disconnected")
  /\ peers' = peers \ {Heard.of} /\ peer_bandwidth' = peer_bandwidth \ {Heard.of}
  /\ connection_status' = IF peers' = {} THEN "Disconnected" ELSE connection_status
  /\ server_pools' = [port \in Ports |-> Without(server_pools[port], Heard.of)]
  /\ active_destinations' = [port \in Ports |->
       IF active_destinations[port] = Heard.of THEN NoPeer ELSE active_destinations[port]]
  /\ UNCHANGED <<last_error, session_peer, sticky_pools, peer_addresses, network_pending_selection>>

(* One connection of the peer is gone; the peer is taken to be.            *)
HearDisconnected ==
  /\ Hears("Disconnected")
  /\ peers' = peers \ {Heard.of} /\ peer_bandwidth' = peer_bandwidth \ {Heard.of}
  /\ connection_status' = IF peers' = {} THEN "Disconnected" ELSE connection_status
  /\ server_pools' = [port \in Ports |-> Without(server_pools[port], Heard.of)]
  /\ active_destinations' = [port \in Ports |->
       IF active_destinations[port] = Heard.of THEN NoPeer ELSE active_destinations[port]]
  /\ peer_addresses' = [peer_addresses EXCEPT ![Heard.of] = "None"]
  /\ UNCHANGED <<last_error, session_peer, sticky_pools, network_pending_selection>>

HearPeerRoute ==
  /\ Hears("PeerRoute")
  /\ peer_addresses' = NotedAll({Heard.of}, Heard.what)
  /\ UNCHANGED <<summary, server_pools, sticky_pools, active_destinations, network_pending_selection>>

HearNew ==
  /\ Hears("New")
  /\ peers' = peers \cup {Heard.what}
  /\ session_peer' = [session_peer EXCEPT ![Heard.of] = Heard.what]
  /\ UNCHANGED <<connection_status, last_error, peer_bandwidth, table, network_pending_selection>>

HearEnd ==
  /\ Hears("End")
  /\ session_peer' = [session_peer EXCEPT ![Heard.of] = NoPeer]
  /\ UNCHANGED <<connection_status, peers, last_error, peer_bandwidth, table, network_pending_selection>>

HearBandwidth ==
  /\ Hears("Bandwidth")
  /\ peer_bandwidth' = peer_bandwidth \cup ({session_peer[Heard.of]} \ {NoPeer})
  /\ UNCHANGED <<connection_status, peers, last_error, session_peer, table, network_pending_selection>>

HearError ==
  /\ Hears("Error")
  /\ last_error' = TRUE /\ network_pending_selection' = Nowhere
  /\ UNCHANGED <<connection_status, peers, session_peer, peer_bandwidth, table>>

(* A slip: the pool is replaced and the active exit is not put back.       *)
HearServerPoolOnly ==
  /\ Hears("ServerPool")
  /\ server_pools' = [server_pools EXCEPT ![Heard.of] = Heard.what.ids]
  /\ peer_addresses' = NotedAll(Heard.what.routed, "Candidate")
  /\ UNCHANGED <<summary, sticky_pools, active_destinations, network_pending_selection>>

HearServerPool ==
  /\ Hears("ServerPool")
  /\ server_pools' = [server_pools EXCEPT ![Heard.of] = With(Heard.what.ids, active_destinations[Heard.of])]
  /\ peer_addresses' = NotedAll(Heard.what.routed, "Candidate")
  /\ UNCHANGED <<summary, sticky_pools, active_destinations, network_pending_selection>>

HearStickyPool ==
  /\ Hears("StickyPool")
  /\ sticky_pools' = [sticky_pools EXCEPT ![Heard.of] = Heard.what.ids]
  /\ peer_addresses' = NotedAll(Heard.what.routed, "Candidate")
  /\ UNCHANGED <<summary, server_pools, active_destinations, network_pending_selection>>

(* A slip: that a port has no exit any more is not shown.                  *)
HearActiveDestinationKeeping ==
  /\ Hears("ActiveDestination")
  /\ active_destinations' = IF Heard.what = NoPeer THEN active_destinations
                            ELSE [active_destinations EXCEPT ![Heard.of] = Heard.what]
  /\ server_pools' = [server_pools EXCEPT ![Heard.of] = With(@, Heard.what)]
  /\ peers' = peers \cup ({Heard.what} \ {NoPeer})
  /\ UNCHANGED <<connection_status, last_error, session_peer, peer_bandwidth, sticky_pools,
                 peer_addresses, network_pending_selection>>

(* The switch of the port resolved: any exit, or none, ends "dialling".    *)
HearActiveDestination ==
  /\ Hears("ActiveDestination")
  /\ active_destinations' = [active_destinations EXCEPT ![Heard.of] = Heard.what]
  /\ server_pools' = [server_pools EXCEPT ![Heard.of] = With(@, Heard.what)]
  /\ peers' = peers \cup ({Heard.what} \ {NoPeer})
  /\ network_pending_selection' =
       IF network_pending_selection # Nowhere /\ network_pending_selection[1] = Heard.of
       THEN Nowhere ELSE network_pending_selection
  /\ UNCHANGED <<connection_status, last_error, session_peer, peer_bandwidth, sticky_pools,
                 peer_addresses>>

handle_swarm_events ==
  \/ HearConnected \/ HearDisconnected \/ HearPeerRoute \/ HearNew \/ HearEnd \/ HearBandwidth
  \/ HearError \/ HearServerPool \/ HearStickyPool \/ HearActiveDestination
-----------------------------------------------------------------------------
(***************************************************************************)
(* The rows of the NETWORK tab.                                            *)
(***************************************************************************)
pool_sort_key(p) ==
  CASE peer_addresses[p] = "Direct" -> 0 [] peer_addresses[p] = "Candidate" -> 1 [] OTHER -> 2

(* The server's pool and then the remembered exits, sorted stably.         *)
ordered_pool_for(port) ==
  LET all == server_pools[port] \o sticky_pools[port]
      rows == {i \in DOMAIN all : i <= Len(server_pools[port]) \/ \A j \in 1 .. (i - 1) : all[j] # all[i]}
  IN Sorted(all, rows, [i \in rows |-> pool_sort_key(all[i])])

Selected == Servers[network_selected_idx]

(* What a row of the table of an expanded server says of its peer.         *)
Status(port, p) ==
  CASE active_destinations[port] = p -> "active"
    [] active_destinations[port] # p /\ network_pending_selection = <<port, p>> -> "dialling"
    [] OTHER -> "standby"

(* A row that the screen shows and highlights: of the selected server's    *)
(* table, which is open.  A cursor beyond its rows highlights nothing.     *)
Highlighted(port, row) ==
  /\ port = Selected /\ port \in network_expanded
  /\ row \in DOMAIN ordered_pool_for(port)
-----------------------------------------------------------------------------
(***************************************************************************)
(* The keys, as run_ui dispatches them: the export prompt takes every key  *)
(* while it is open, then the logs take those that scroll, if they have    *)
(* the focus.  j and k do what Down and Up do, Left what Esc does outside  *)
(* the logs.                                                               *)
(***************************************************************************)
ScrollKeys == {"Up", "Down", "PageUp", "PageDown", "Esc"}
logs_focused == Tabs[tab_index] = "LOGS" \/ show_logs

Key(k) == running /\ k \in world.keys /\ UNCHANGED <<outside, channel, summary, table>>

(* Enter copies the log file and closes the prompt, Esc closes it.         *)
PromptKey(k) ==
  /\ Key(k) /\ export_prompt
  /\ export_prompt' = (k \notin {"Enter", "Esc"})
  /\ UNCHANGED <<running, tab_index, show_logs, following, focus, network_pending_selection>>

(* k and Esc for the logs; the mouse wheel scrolls them as well.           *)
scroll_logs(k) ==
  /\ Key(k) /\ ~export_prompt /\ logs_focused /\ k \in ScrollKeys
  /\ following' = (k = "Esc")
  /\ UNCHANGED <<running, tab_index, show_logs, export_prompt, focus, network_pending_selection>>

Bound(k) == Key(k) /\ ~export_prompt /\ ~(logs_focused /\ k \in ScrollKeys)

Quit ==
  /\ Bound("q") /\ running' = FALSE
  /\ UNCHANGED <<view, focus, network_pending_selection>>

OpenPrompt ==
  /\ Bound("e") /\ export_prompt' = TRUE
  /\ UNCHANGED <<running, tab_index, show_logs, following, focus, network_pending_selection>>

toggle_logs ==
  /\ Bound("l") /\ show_logs' = ~show_logs
  /\ UNCHANGED <<running, tab_index, following, export_prompt, focus, network_pending_selection>>

(* Tab and BackTab wrap around.                                            *)
SwitchTab(k) ==
  /\ Bound(k)
  /\ \/ k = "Tab" /\ tab_index' = (tab_index % Len(Tabs)) + 1
     \/ k = "BackTab" /\ tab_index' = IF tab_index = 1 THEN Len(Tabs) ELSE tab_index - 1
  /\ UNCHANGED <<running, show_logs, following, export_prompt, focus, network_pending_selection>>

OnNetwork(k) == Bound(k) /\ Tabs[tab_index] = "NETWORK" /\ UNCHANGED <<running, view>>

(* Up and Down move between servers, wrapping.                             *)
SelectServer(k) ==
  /\ OnNetwork(k) /\ network_peer_cursor = Nowhere
  /\ \/ k = "Down" /\ network_selected_idx' = (network_selected_idx % Len(Servers)) + 1
     \/ k = "Up" /\ network_selected_idx' = IF network_selected_idx = 1 THEN Len(Servers)
                                            ELSE network_selected_idx - 1
  /\ UNCHANGED <<network_expanded, network_peer_cursor, network_pending_selection>>

(* A slip: a table that emptied is taken for one with a single row.        *)
CursorStepFloored(k) ==
  /\ OnNetwork(k) /\ k \in {"Up", "Down"} /\ network_peer_cursor # Nowhere
  /\ LET port == network_peer_cursor[1]
         len  == Len(ordered_pool_for(port))
         last == IF len = 0 THEN 1 ELSE len
         row  == Least(network_peer_cursor[2], last)
         next == IF k = "Down" THEN Least(row + 1, last) ELSE IF row = 1 THEN 1 ELSE row - 1
     IN network_peer_cursor' = <<port, next>>
  /\ UNCHANGED <<network_selected_idx, network_expanded, network_pending_selection>>

(* With the cursor in a table they move it, within the rows there are now. *)
network_cursor_step(k) ==
  /\ OnNetwork(k) /\ k \in {"Up", "Down"} /\ network_peer_cursor # Nowhere
  /\ LET port == network_peer_cursor[1]
         last == Len(ordered_pool_for(port))
         row  == Least(network_peer_cursor[2], last)
         next == IF k = "Down" THEN Least(row + 1, last) ELSE IF row = 1 THEN 1 ELSE row - 1
     IN network_peer_cursor' = IF last = 0 THEN Nowhere ELSE <<port, next>>
  /\ UNCHANGED <<network_selected_idx, network_expanded, network_pending_selection>>

network_toggle_expand_selected ==
  /\ OnNetwork("Space")
  /\ IF Selected \in network_expanded
     THEN /\ network_expanded' = network_expanded \ {Selected}
          /\ network_peer_cursor' = IF network_peer_cursor # Nowhere /\ network_peer_cursor[1] = Selected
                                    THEN Nowhere ELSE network_peer_cursor
     ELSE network_expanded' = network_expanded \cup {Selected} /\ UNCHANGED network_peer_cursor
  /\ UNCHANGED <<network_selected_idx, network_pending_selection>>

(* Right, or Enter on an expanded server: step into its table.             *)
network_enter_peer_focus(k) ==
  /\ OnNetwork(k)
  /\ (k = "Right" \/ (k = "Enter" /\ network_peer_cursor = Nowhere))
  /\ Selected \in network_expanded /\ ordered_pool_for(Selected) # <<>>
  /\ network_peer_cursor' = <<Selected, 1>>
  /\ UNCHANGED <<network_selected_idx, network_expanded, network_pending_selection>>

(* Enter on a collapsed server expands it.                                 *)
Expand ==
  /\ OnNetwork("Enter") /\ network_peer_cursor = Nowhere /\ Selected \notin network_expanded
  /\ network_expanded' = network_expanded \cup {Selected}
  /\ UNCHANGED <<network_selected_idx, network_peer_cursor, network_pending_selection>>

(* Enter on a row asks for that exit: a SelectPeer is on its way.  With a  *)
(* cursor beyond a table that has shrunk it does nothing.                  *)
Pick ==
  /\ OnNetwork("Enter") /\ network_peer_cursor # Nowhere
  /\ LET port == network_peer_cursor[1] row == network_peer_cursor[2]
     IN /\ row \in DOMAIN ordered_pool_for(port)
        /\ network_pending_selection' = <<port, ordered_pool_for(port)[row]>>
  /\ UNCHANGED focus

network_exit_peer_focus(k) ==
  /\ OnNetwork(k) /\ k \in {"Esc", "Left"}
  /\ network_peer_cursor' = Nowhere
  /\ UNCHANGED <<network_selected_idx, network_expanded, network_pending_selection>>

KeyPressed(k) ==
  \/ PromptKey(k) \/ scroll_logs(k) \/ SwitchTab(k)
  \/ SelectServer(k) \/ network_cursor_step(k) \/ network_enter_peer_focus(k)
  \/ network_exit_peer_focus(k)

(* render stops showing "dialling" after SELECTION_FEEDBACK_TIMEOUT.       *)
FeedbackTimeout ==
  /\ running /\ network_pending_selection # Nowhere
  /\ network_pending_selection' = Nowhere
  /\ UNCHANGED <<outside, running, channel, summary, table, view, focus>>
-----------------------------------------------------------------------------
Next ==
  \/ Surroundings \/ handle_swarm_events \/ FeedbackTimeout
  \/ \E k \in world.keys : KeyPressed(k)
  \/ Quit \/ OpenPrompt \/ toggle_logs
  \/ network_toggle_expand_selected \/ Expand \/ Pick

Spec == Init /\ [][Next]_vars
-----------------------------------------------------------------------------
(* "The active row is always visible" (tui/mod.rs:660-664): whatever pools *)
(* the efforts show and whoever disconnects, the active exit has a row and *)
(* is counted among the connected peers.                                   *)
ActiveRowVisible ==
  \A port \in Ports : active_destinations[port] # NoPeer =>
    /\ \E p \in ToSet(ordered_pool_for(port)) : Status(port, p) = "active"
    /\ active_destinations[port] \in peers

(* With every event heard, an exit shown as active is the one that serves  *)
(* the port, unless the last change of it found the channel full.  The     *)
(* converse fails: one of two connections closing blanks the exit.         *)
ShownExitServes ==
  queue = <<>> => \A port \in Ports :
    \/ active_destinations[port] \in {NoPeer, dest[port]}
    \/ <<"ActiveDestination", port>> \in lost

(* A "remembered direct IP would otherwise outrank a fresh relayed route   *)
(* on the next reconnect and render as a stale live egress"                *)
(* (tui/mod.rs:538-540): a peer shown as directly connected is, unless the *)
(* end of its connection found the channel full.                           *)
ShownRouteLives ==
  queue = <<>> => \A p \in Peers :
    \/ peer_addresses[p] = "Direct" => "Direct" \in links[p]
    \/ <<"Disconnected", p>> \in lost

(* The cursor is "clamped to the live pool" and cleared "if the pool       *)
(* emptied" (tui/mod.rs:217-218), and collapsing "can't leave an invisible *)
(* cursor" (mod.rs:197): whatever happened to the table and to the servers *)
(* since it came to rest, a key that moves it puts it on a row that the    *)
(* screen shows, or takes it out.  Where it rests the table may shrink     *)
(* under it: then it highlights nothing and Enter does nothing, until the  *)
(* next such key.                                                          *)
CursorLandsOnRow ==
  [][network_peer_cursor' \notin {Nowhere, network_peer_cursor} =>
       Highlighted(network_peer_cursor[1], network_peer_cursor[2])']_vars
=============================================================================
