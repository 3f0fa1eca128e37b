------------------------------- MODULE UiProofs -------------------------------
(***************************************************************************)
(* Theorems about Ui, for every list of servers, every capacity of its     *)
(* channel and whatever is emitted and pressed: that the routes and the    *)
(* exits it shows are the real ones once all is heard, that the active     *)
(* exit has a row, and that a cursor that is moved lands on one.           *)
(***************************************************************************)
EXTENDS Ui, SequenceTheorems, FiniteSetTheorems, TLAPS

(* What happens around the interface and what it hears leave its keys'     *)
(* state alone, but for the pick that is shown as under way, which they    *)
(* may only take back.                                                     *)
LEMMA SurroundingsKeepView ==
  Surroundings => UNCHANGED <<view, focus, network_pending_selection>>
<1>1. ASSUME NEW p, NEW kind, Established(p, kind) \/ Closed(p, kind)
      PROVE  UNCHANGED Inside
  BY <1>1 DEF Established, Closed
<1>2. ASSUME NEW port, NEW p, DestinationSet(port, p)
      PROVE  UNCHANGED Inside
  BY <1>2 DEF DestinationSet
<1>3. ASSUME NEW kind, NEW port, PoolShown(kind, port)
      PROVE  UNCHANGED Inside
  BY <1>3 DEF PoolShown
<1>4. ASSUME NEW s, NEW p, SessionBegins(s, p) \/ SessionReports(s) \/ SessionEnds(s)
      PROVE  UNCHANGED Inside
  BY <1>4 DEF SessionBegins, SessionReports, SessionEnds, Inside
<1>5. ErrorShown => UNCHANGED Inside
  BY DEF ErrorShown
<1>6. UNCHANGED Inside => UNCHANGED <<view, focus, network_pending_selection>>
  BY DEF Inside
<1>. QED
  BY <1>1, <1>2, <1>3, <1>4, <1>5, <1>6 DEF Surroundings

LEMMA HearingKeepsView ==
  handle_swarm_events =>
    /\ UNCHANGED <<view, focus>>
    /\ network_pending_selection' \in {Nowhere, network_pending_selection}
BY DEF handle_swarm_events, HearConnected, HearDisconnected, HearPeerRoute, HearNew, HearEnd,
       HearBandwidth, HearError, HearServerPool, HearStickyPool, HearActiveDestination, Hears
-----------------------------------------------------------------------------
(* The cursor is in the table of the selected server, which is open; of    *)
(* its row this says nothing, for the table may shrink while it rests.     *)
CursorInOpenTable ==
  network_peer_cursor # Nowhere =>
    network_peer_cursor[1] = Selected /\ Selected \in network_expanded

(* A cursor is a port and a row.                                           *)
CursorIsRow ==
  network_peer_cursor # Nowhere =>
    network_peer_cursor = <<network_peer_cursor[1], network_peer_cursor[2]>>

IInv == CursorInOpenTable /\ CursorIsRow

LEMMA CursorStep == IInv /\ [Next]_vars => IInv'
<1>. SUFFICES ASSUME IInv, [Next]_vars PROVE IInv'
  OBVIOUS
<1>. USE DEF IInv, CursorIsRow
<1>0. UNCHANGED focus => IInv'
  BY DEF focus, CursorInOpenTable, Selected
<1>1. CASE Surroundings \/ handle_swarm_events \/ FeedbackTimeout \/ UNCHANGED vars
  BY <1>0, <1>1, SurroundingsKeepView, HearingKeepsView DEF FeedbackTimeout, vars
<1>2. CASE Quit \/ OpenPrompt \/ toggle_logs \/ Pick
  BY <1>0, <1>2 DEF Quit, OpenPrompt, toggle_logs, Pick
<1>3. CASE network_toggle_expand_selected
  BY <1>3 DEF network_toggle_expand_selected, CursorInOpenTable, Selected
<1>4. CASE Expand
  BY <1>4 DEF Expand, CursorInOpenTable
<1>5. ASSUME NEW k, PromptKey(k) \/ scroll_logs(k) \/ SwitchTab(k)
      PROVE  IInv'
  BY <1>0, <1>5 DEF PromptKey, scroll_logs, SwitchTab
<1>6. ASSUME NEW k, SelectServer(k)
      PROVE  IInv'
  BY <1>6 DEF SelectServer, CursorInOpenTable
<1>7. ASSUME NEW k, network_cursor_step(k)
      PROVE  IInv'
  BY <1>7 DEF network_cursor_step, CursorInOpenTable, Selected
<1>8. ASSUME NEW k, network_enter_peer_focus(k) \/ network_exit_peer_focus(k)
      PROVE  IInv'
  BY <1>8 DEF network_enter_peer_focus, network_exit_peer_focus, CursorInOpenTable, Selected
<1>. QED
  BY <1>1, <1>2, <1>3, <1>4, <1>5, <1>6, <1>7, <1>8 DEF Next, KeyPressed

LEMMA Inductive == Spec => []IInv
<1>1. Init => IInv
  BY DEF Init, IInv, CursorInOpenTable, CursorIsRow
<1>. QED
  BY <1>1, CursorStep, PTL DEF Spec
-----------------------------------------------------------------------------
(***************************************************************************)
(* What is shown and what is so.  A claim the screen makes, or an event    *)
(* still in the channel will have it make, either holds or is taken back:  *)
(* by an event behind it in the channel, or by one that found it full.     *)
(***************************************************************************)
Kinds == {"Connected", "Disconnected", "PeerRoute", "ActiveDestination", "ServerPool", "StickyPool",
          "Error", "New", "Bandwidth", "End"}
Events == [kind : Kinds,
           of   : world.linked \cup world.ports \cup Peers \cup Sessions \cup {NoPeer},
           what : {"Relayed", "Direct", NoPeer} \cup Peers \cup world.pools]

TakenBack(i, kind, of) ==
  \/ <<kind, of>> \in lost
  \/ \E j \in 1 .. Len(queue) : j > i /\ queue[j].kind = kind /\ queue[j].of = of

ChannelOK == queue \in Seq(Events) /\ Len(queue) <= Capacity

(* Two steps of the channel: events are put in, and its head is taken.     *)
LEMMA EmitKeeps ==
  ASSUME ChannelOK, NEW es \in Seq(Events), Emit(es), world' = world
  PROVE  /\ ChannelOK'
         /\ Len(queue) <= Len(queue')
         /\ \A i \in 1 .. Len(queue') :
              IF i <= Len(queue) THEN queue'[i] = queue[i] ELSE \E n \in 1 .. Len(es) : queue'[i] = es[n]
         /\ \A of : \A kind \in Telling, i \in 0 .. Len(queue) :
              TakenBack(i, kind, of) \/ <<kind, of>> \in Said(es) => TakenBack(i, kind, of)'
<1> DEFINE room  == Capacity - Len(queue)
           heard == IF Len(es) > room THEN SubSeq(es, 1, room) ELSE es
<1>1. queue \in Seq(Events) /\ Len(queue) \in Nat /\ room \in Nat /\ Len(es) \in Nat
  BY CapacityIsNatural DEF ChannelOK
<1>2. queue' = queue \o heard /\ lost' = (lost \cup Said(es)) \ Said(heard) /\ world' = world
  BY DEF Emit
<1>3. /\ heard \in Seq(Events) /\ Len(heard) \in Nat
      /\ Len(heard) <= room /\ Len(heard) <= Len(es)
      /\ \A n \in 1 .. Len(heard) : heard[n] = es[n]
  BY <1>1, SubSeqProperties
<1> HIDE DEF heard
<1>4. /\ queue' \in Seq(Events) /\ Len(queue') = Len(queue) + Len(heard)
      /\ \A i \in 1 .. Len(queue) : queue'[i] = queue[i]
      /\ \A n \in 1 .. Len(heard) : queue'[Len(queue) + n] = heard[n]
  BY <1>1, <1>2, <1>3, ConcatProperties
<1>5. ChannelOK' /\ Len(queue) <= Len(queue')
  <2>1. Events' = Events
    BY DEF Events
  <2>. QED
    BY <1>1, <1>3, <1>4, <2>1, CapacityIsNatural DEF ChannelOK
<1>6. ASSUME NEW i \in 1 .. Len(queue')
      PROVE  IF i <= Len(queue) THEN queue'[i] = queue[i] ELSE \E n \in 1 .. Len(es) : queue'[i] = es[n]
  <2>1. CASE i <= Len(queue)
    BY <1>1, <1>4, <2>1
  <2>2. CASE i > Len(queue)
    <3>1. i - Len(queue) \in 1 .. Len(heard) /\ i = Len(queue) + (i - Len(queue))
      BY <1>1, <1>3, <1>4, <2>2
    <3>2. queue'[i] = es[i - Len(queue)] /\ i - Len(queue) \in 1 .. Len(es)
      BY <1>1, <1>3, <1>4, <3>1
    <3>. QED
      BY <1>1, <2>2, <3>2
  <2>. QED
    BY <1>1, <2>1, <2>2
<1>7. ASSUME NEW kind \in Telling, NEW of, NEW i \in 0 .. Len(queue),
             TakenBack(i, kind, of) \/ <<kind, of>> \in Said(es)
      PROVE  TakenBack(i, kind, of)'
  <2>1. CASE <<kind, of>> \in Said(heard)
    <3>1. PICK n \in 1 .. Len(heard) : heard[n].kind = kind /\ heard[n].of = of
      BY <1>3, <2>1 DEF Said, ToSet
    <3>2. Len(queue) + n \in 1 .. Len(queue') /\ Len(queue) + n > i /\ queue'[Len(queue) + n] = heard[n]
      BY <1>1, <1>3, <1>4
    <3>. QED
      BY <3>1, <3>2 DEF TakenBack
  <2>2. CASE <<kind, of>> \notin Said(heard) /\ <<kind, of>> \in lost \cup Said(es)
    BY <1>2, <2>2 DEF TakenBack
  <2>3. ASSUME NEW j \in 1 .. Len(queue), j > i, queue[j].kind = kind, queue[j].of = of
        PROVE  TakenBack(i, kind, of)'
    <3>1. j \in 1 .. Len(queue') /\ queue'[j] = queue[j]
      BY <1>1, <1>3, <1>4
    <3>. QED
      BY <2>3, <3>1 DEF TakenBack
  <2>. QED
    BY <1>7, <2>1, <2>2, <2>3 DEF TakenBack
<1>. QED
  BY <1>5, <1>6, <1>7

LEMMA HearKeeps ==
  ASSUME ChannelOK, NEW k, Hears(k)
  PROVE  /\ ChannelOK' /\ Len(queue) \in Nat /\ 1 \in 1 .. Len(queue)
         /\ Heard = queue[1] /\ queue[1].kind = k
         /\ Len(queue') = Len(queue) - 1
         /\ \A i \in 1 .. Len(queue') : queue'[i] = queue[i + 1] /\ i + 1 \in 1 .. Len(queue)
         /\ \A kind, of : \A i \in 0 .. Len(queue') : TakenBack(i + 1, kind, of) => TakenBack(i, kind, of)'
         /\ \A kind, of : /\ TakenBack(0, kind, of)
                          /\ queue[1].kind # kind \/ queue[1].of # of
                          => TakenBack(0, kind, of)'
<1>1. queue \in Seq(Events) /\ Len(queue) \in Nat /\ queue # <<>>
  BY DEF ChannelOK, Hears
<1>2. queue' = Tail(queue) /\ lost' = lost /\ world' = world /\ Head(queue).kind = k
  BY DEF Hears, outside
<1>3. /\ Len(queue) >= 1 /\ Head(queue) = queue[1]
      /\ Tail(queue) \in Seq(Events) /\ Len(Tail(queue)) = Len(queue) - 1
      /\ \A i \in 1 .. Len(Tail(queue)) : Tail(queue)[i] = queue[i + 1]
  BY <1>1, HeadTailProperties
<1>4. /\ ChannelOK' /\ Len(queue') = Len(queue) - 1
      /\ \A i \in 1 .. Len(queue') : queue'[i] = queue[i + 1] /\ i + 1 \in 1 .. Len(queue)
  BY <1>1, <1>2, <1>3, CapacityIsNatural DEF ChannelOK, Events
<1>5. ASSUME NEW kind, NEW of, NEW i \in 0 .. Len(queue'),
             NEW j \in 1 .. Len(queue), j > i + 1, queue[j].kind = kind, queue[j].of = of
      PROVE  TakenBack(i, kind, of)'
  <2>1. j - 1 \in 1 .. Len(queue') /\ j - 1 > i /\ queue'[j - 1] = queue[j]
    BY <1>1, <1>4, <1>5
  <2>. QED
    BY <1>5, <2>1 DEF TakenBack
<1>6. ASSUME NEW kind, NEW of, NEW i \in 0 .. Len(queue'), TakenBack(i + 1, kind, of)
      PROVE  TakenBack(i, kind, of)'
  <2>1. CASE <<kind, of>> \in lost
    BY <1>2, <2>1 DEF TakenBack
  <2>2. ASSUME NEW j \in 1 .. Len(queue), j > i + 1, queue[j].kind = kind, queue[j].of = of
        PROVE  TakenBack(i, kind, of)'
    BY <1>5, <2>2
  <2>. QED
    BY <1>6, <2>1, <2>2 DEF TakenBack
<1>7. ASSUME NEW kind, NEW of, TakenBack(0, kind, of), queue[1].kind # kind \/ queue[1].of # of
      PROVE  TakenBack(0, kind, of)'
  <2>1. <<kind, of>> \in lost \/ \E j \in 1 .. Len(queue) : j > 1 /\ queue[j].kind = kind /\ queue[j].of = of
    BY <1>1, <1>7 DEF TakenBack
  <2>2. CASE <<kind, of>> \in lost
    BY <1>2, <2>2 DEF TakenBack
  <2>3. ASSUME NEW j \in 1 .. Len(queue), j > 1, queue[j].kind = kind, queue[j].of = of
        PROVE  TakenBack(0, kind, of)'
    <3>1. 0 \in 0 .. Len(queue') /\ j > 0 + 1
      BY <1>1, <1>3, <1>4, <2>3
    <3>. QED
      BY <1>5, <2>3, <3>1
  <2>. QED
    BY <2>1, <2>2, <2>3
<1>. QED
  BY <1>1, <1>2, <1>3, <1>4, <1>6, <1>7 DEF Heard

RouteClaim(i, p) ==
  IF i = 0 THEN peer_addresses[p] = "Direct"
  ELSE queue[i].kind = "PeerRoute" /\ queue[i].of = p /\ queue[i].what = "Direct"

ExitClaim(i, port, p) ==
  IF i = 0 THEN active_destinations[port] = p
  ELSE queue[i].kind = "ActiveDestination" /\ queue[i].of = port /\ queue[i].what = p

RoutesTold ==
  \A p \in Peers, i \in 0 .. Len(queue) :
    RouteClaim(i, p) => "Direct" \in links[p] \/ TakenBack(i, "Disconnected", p)

ExitsTold ==
  \A p : \A port \in Ports, i \in 0 .. Len(queue) :
    ExitClaim(i, port, p) => p \in {NoPeer, dest[port]} \/ TakenBack(i, "ActiveDestination", port)

OutsideOK ==
  /\ links \in [Peers -> SUBSET {"Relayed", "Direct"}]
  /\ dest \in [Ports -> Peers \cup {NoPeer}]

TableOK ==
  /\ peer_addresses = [p \in Peers |-> peer_addresses[p]]
  /\ active_destinations = [port \in Ports |-> active_destinations[port]]

Told == ChannelOK /\ OutsideOK /\ TableOK /\ RoutesTold /\ ExitsTold

(* What the events a step of the surroundings emits have to say of it.     *)
TruthfulRoutes(es) ==
  /\ \A p \in Peers : "Direct" \in links[p] => "Direct" \in links'[p] \/ <<"Disconnected", p>> \in Said(es)
  /\ \A p \in Peers, n \in 1 .. Len(es) :
       es[n].kind = "PeerRoute" /\ es[n].of = p /\ es[n].what = "Direct" => "Direct" \in links'[p]

TruthfulExits(es) ==
  /\ \A port \in Ports : dest'[port] = dest[port] \/ <<"ActiveDestination", port>> \in Said(es)
  /\ \A port \in Ports, n \in 1 .. Len(es) :
       es[n].kind = "ActiveDestination" /\ es[n].of = port => es[n].what = dest'[port]

LEMMA TruthfulStep ==
  ASSUME Told, UNCHANGED Inside, NEW es \in Seq(Events), Emit(es), OutsideOK',
         TruthfulRoutes(es), TruthfulExits(es)
  PROVE  Told'
<1>1. /\ world' = world
      /\ peer_addresses' = peer_addresses /\ active_destinations' = active_destinations
  BY DEF Inside, table
<1>2. Len(queue) \in Nat
  BY DEF Told, ChannelOK
<1>3. /\ ChannelOK'
      /\ Len(queue) <= Len(queue')
      /\ \A i \in 1 .. Len(queue') :
           IF i <= Len(queue) THEN queue'[i] = queue[i] ELSE \E n \in 1 .. Len(es) : queue'[i] = es[n]
      /\ \A of : \A kind \in Telling, i \in 0 .. Len(queue) :
           TakenBack(i, kind, of) \/ <<kind, of>> \in Said(es) => TakenBack(i, kind, of)'
  BY <1>1, EmitKeeps DEF Told
<1>4. Len(queue') \in Nat /\ "Disconnected" \in Telling /\ "ActiveDestination" \in Telling
  BY <1>3 DEF ChannelOK, Telling
<1>5. ASSUME NEW p \in Peers, NEW i \in 0 .. Len(queue'), RouteClaim(i, p)'
      PROVE  "Direct" \in links'[p] \/ TakenBack(i, "Disconnected", p)'
  <2>1. CASE i <= Len(queue)
    <3>1. i \in 0 .. Len(queue) /\ RouteClaim(i, p)
      BY <1>1, <1>2, <1>3, <1>4, <1>5, <2>1 DEF RouteClaim
    <3>2. "Direct" \in links[p] \/ TakenBack(i, "Disconnected", p)
      BY <3>1 DEF Told, RoutesTold
    <3>. QED
      BY <1>3, <1>4, <3>1, <3>2 DEF TruthfulRoutes
  <2>2. CASE i > Len(queue)
    BY <1>2, <1>3, <1>4, <1>5, <2>2 DEF RouteClaim, TruthfulRoutes
  <2>. QED
    BY <1>2, <1>4, <2>1, <2>2
<1>6. ASSUME NEW port \in Ports, NEW p, NEW i \in 0 .. Len(queue'), ExitClaim(i, port, p)'
      PROVE  p \in {NoPeer, dest'[port]} \/ TakenBack(i, "ActiveDestination", port)'
  <2>1. CASE i <= Len(queue)
    <3>1. i \in 0 .. Len(queue) /\ ExitClaim(i, port, p)
      BY <1>1, <1>2, <1>3, <1>4, <1>6, <2>1 DEF ExitClaim
    <3>2. p \in {NoPeer, dest[port]} \/ TakenBack(i, "ActiveDestination", port)
      BY <3>1 DEF Told, ExitsTold
    <3>. QED
      BY <1>3, <1>4, <3>1, <3>2 DEF TruthfulExits
  <2>2. CASE i > Len(queue)
    BY <1>2, <1>3, <1>4, <1>6, <2>2 DEF ExitClaim, TruthfulExits
  <2>. QED
    BY <1>2, <1>4, <2>1, <2>2
<1>7. TableOK'
  BY <1>1 DEF Told, TableOK
<1>. QED
  BY <1>3, <1>5, <1>6, <1>7 DEF Told, RoutesTold, ExitsTold

(* What hearing the head may make the screen show, besides what it did.    *)
HeardRoutes ==
  \A p \in Peers : peer_addresses'[p] = "Direct" =>
    \/ RouteClaim(0, p) /\ ~(Heard.kind = "Disconnected" /\ Heard.of = p)
    \/ RouteClaim(1, p)

HeardExits ==
  \A port \in Ports :
    \/ active_destinations'[port] = NoPeer
    \/ /\ active_destinations'[port] = active_destinations[port]
       /\ ~(Heard.kind = "ActiveDestination" /\ Heard.of = port)
    \/ ExitClaim(1, port, active_destinations'[port])

LEMMA HeardStep ==
  ASSUME Told, NEW k, Hears(k), TableOK', HeardRoutes, HeardExits
  PROVE  Told'
<1>1. links' = links /\ dest' = dest
  BY DEF Hears, outside
<1>2. /\ ChannelOK' /\ Len(queue) \in Nat /\ 1 \in 1 .. Len(queue)
      /\ Heard = queue[1] /\ queue[1].kind = k
      /\ Len(queue') = Len(queue) - 1
      /\ \A i \in 1 .. Len(queue') : queue'[i] = queue[i + 1] /\ i + 1 \in 1 .. Len(queue)
      /\ \A kind, of : \A i \in 0 .. Len(queue') : TakenBack(i + 1, kind, of) => TakenBack(i, kind, of)'
      /\ \A kind, of : /\ TakenBack(0, kind, of)
                       /\ queue[1].kind # kind \/ queue[1].of # of
                       => TakenBack(0, kind, of)'
  BY HearKeeps DEF Told
<1>3. 0 \in 0 .. Len(queue) /\ 1 \in 0 .. Len(queue) /\ 0 \in 0 .. Len(queue') /\ 0 + 1 = 1
  BY <1>2
<1>4. ASSUME NEW p \in Peers, NEW i \in 0 .. Len(queue'), RouteClaim(i, p)'
      PROVE  "Direct" \in links[p] \/ TakenBack(i, "Disconnected", p)'
  <2>1. CASE i = 0
    <3>1. \/ RouteClaim(0, p) /\ ~(Heard.kind = "Disconnected" /\ Heard.of = p)
          \/ RouteClaim(1, p)
      BY <1>4, <2>1 DEF HeardRoutes, RouteClaim
    <3>2. \/ "Direct" \in links[p]
          \/ TakenBack(0, "Disconnected", p) /\ ~(Heard.kind = "Disconnected" /\ Heard.of = p)
          \/ TakenBack(1, "Disconnected", p)
      BY <1>3, <3>1 DEF Told, RoutesTold
    <3>. QED
      BY <1>2, <1>3, <2>1, <3>2
  <2>2. CASE i # 0
    <3>1. i \in 1 .. Len(queue') /\ i + 1 # 0 /\ i + 1 \in 0 .. Len(queue)
      BY <1>2, <2>2
    <3>2. RouteClaim(i + 1, p)
      BY <1>2, <1>4, <2>2, <3>1 DEF RouteClaim
    <3>. QED
      BY <1>2, <3>1, <3>2 DEF Told, RoutesTold
  <2>. QED
    BY <2>1, <2>2
<1>5. ASSUME NEW port \in Ports, NEW p, NEW i \in 0 .. Len(queue'), ExitClaim(i, port, p)'
      PROVE  p \in {NoPeer, dest[port]} \/ TakenBack(i, "ActiveDestination", port)'
  <2>1. CASE i = 0
    <3>1. \/ p = NoPeer
          \/ ExitClaim(0, port, p) /\ ~(Heard.kind = "ActiveDestination" /\ Heard.of = port)
          \/ ExitClaim(1, port, p)
      BY <1>5, <2>1 DEF HeardExits, ExitClaim
    <3>2. \/ p \in {NoPeer, dest[port]}
          \/ TakenBack(0, "ActiveDestination", port) /\ ~(Heard.kind = "ActiveDestination" /\ Heard.of = port)
          \/ TakenBack(1, "ActiveDestination", port)
      BY <1>3, <3>1 DEF Told, ExitsTold
    <3>. QED
      BY <1>2, <1>3, <2>1, <3>2
  <2>2. CASE i # 0
    <3>1. i \in 1 .. Len(queue') /\ i + 1 # 0 /\ i + 1 \in 0 .. Len(queue)
      BY <1>2, <2>2
    <3>2. ExitClaim(i + 1, port, p)
      BY <1>2, <1>5, <2>2, <3>1 DEF ExitClaim
    <3>. QED
      BY <1>2, <3>1, <3>2 DEF Told, ExitsTold
  <2>. QED
    BY <2>1, <2>2
<1>. QED
  BY <1>1, <1>2, <1>4, <1>5 DEF Told, RoutesTold, ExitsTold, OutsideOK

LEMMA SaidOne ==
  ASSUME NEW e, NEW x
  PROVE  x \in Said(<<e>>) <=> e.kind \in Telling /\ x = <<e.kind, e.of>>
<1>1. ToSet(<<e>>) = {e}
  BY DEF ToSet
<1>. QED
  BY <1>1 DEF Said

LEMMA EventsAre ==
  ASSUME NEW kind \in Kinds, NEW what,
         NEW of \in world.linked \cup world.ports \cup Peers \cup Sessions \cup {NoPeer},
         what \in {"Relayed", "Direct", NoPeer} \cup Peers \cup world.pools
  PROVE  Event(kind, of, what) \in Events
BY DEF Event, Events

LEMMA SurroundingsTell == Told /\ Surroundings => Told'
<1>. SUFFICES ASSUME Told, Surroundings PROVE Told'
  OBVIOUS
<1>1. ASSUME NEW p \in world.linked, NEW kind \in {"Relayed", "Direct"}, Established(p, kind)
      PROVE  Told'
  <2> DEFINE es == <<Event("Connected", p, kind), Event("PeerRoute", p, kind)>>
  <2>0. Event("Connected", p, kind) \in Events /\ Event("PeerRoute", p, kind) \in Events
    BY EventsAre DEF Kinds
  <2>1. es \in Seq(Events) /\ Emit(es) /\ UNCHANGED Inside /\ dest' = dest
    BY <1>1, <2>0 DEF Established
  <2>2. links' = [links EXCEPT ![p] = @ \cup {kind}] /\ OutsideOK'
    BY <1>1, <2>1 DEF Established, Told, OutsideOK
  <2>3. TruthfulRoutes(es)
    BY <2>2 DEF TruthfulRoutes, Told, OutsideOK, Event
  <2>4. TruthfulExits(es)
    BY <2>1 DEF TruthfulExits, Event
  <2>. QED
    BY <2>1, <2>2, <2>3, <2>4, TruthfulStep
<1>2. ASSUME NEW p \in world.linked, NEW kind \in {"Relayed", "Direct"}, Closed(p, kind)
      PROVE  Told'
  <2> DEFINE es == <<Event("Disconnected", p, NoPeer)>>
  <2>0. Event("Disconnected", p, NoPeer) \in Events
    BY EventsAre DEF Kinds
  <2>1. es \in Seq(Events) /\ Emit(es) /\ UNCHANGED Inside /\ dest' = dest
    BY <1>2, <2>0 DEF Closed
  <2>2. links' = [links EXCEPT ![p] = @ \ {kind}] /\ OutsideOK'
    BY <1>2, <2>1 DEF Closed, Told, OutsideOK
  <2>3. <<"Disconnected", p>> \in Said(es)
    BY SaidOne DEF Telling, Event
  <2>4. TruthfulRoutes(es)
    BY <2>2, <2>3 DEF TruthfulRoutes, Told, OutsideOK, Event
  <2>5. TruthfulExits(es)
    BY <2>1 DEF TruthfulExits, Event
  <2>. QED
    BY <2>1, <2>2, <2>4, <2>5, TruthfulStep
<1>3. ASSUME NEW port \in world.ports, NEW p \in Peers \cup {NoPeer}, DestinationSet(port, p)
      PROVE  Told'
  <2> DEFINE es == <<Event("ActiveDestination", port, p)>>
  <2>0. Event("ActiveDestination", port, p) \in Events
    BY EventsAre DEF Kinds
  <2>1. es \in Seq(Events) /\ Emit(es) /\ UNCHANGED Inside /\ links' = links
    BY <1>3, <2>0 DEF DestinationSet
  <2>2. dest' = [dest EXCEPT ![port] = p] /\ OutsideOK'
    BY <1>3, <2>1 DEF DestinationSet, Told, OutsideOK
  <2>3. <<"ActiveDestination", port>> \in Said(es)
    BY SaidOne DEF Telling, Event
  <2>4. TruthfulRoutes(es)
    BY <2>1 DEF TruthfulRoutes, Event
  <2>5. TruthfulExits(es)
    BY <2>2, <2>3 DEF TruthfulExits, Told, OutsideOK, Event
  <2>. QED
    BY <2>1, <2>2, <2>4, <2>5, TruthfulStep
<1>4. ASSUME NEW e \in Events, e.kind \notin {"PeerRoute", "ActiveDestination"},
             Emit(<<e>>), UNCHANGED <<links, dest, Inside>>
      PROVE  Told'
  <2>1. <<e>> \in Seq(Events) /\ OutsideOK'
    BY <1>4 DEF Told, OutsideOK
  <2>2. TruthfulRoutes(<<e>>) /\ TruthfulExits(<<e>>)
    BY <1>4 DEF TruthfulRoutes, TruthfulExits
  <2>. QED
    BY <1>4, <2>1, <2>2, TruthfulStep
<1>5. ASSUME NEW port \in world.ports, NEW kind \in {"ServerPool", "StickyPool"}, PoolShown(kind, port)
      PROVE  Told'
  <2>1. PICK pool \in world.pools : Emit(<<Event(kind, port, pool)>>)
    BY <1>5 DEF PoolShown
  <2>2. Event(kind, port, pool) \in Events
    BY EventsAre DEF Kinds
  <2>. QED
    BY <1>4, <1>5, <2>1, <2>2 DEF PoolShown, Event
<1>6. CASE ErrorShown
  <2>1. Event("Error", NoPeer, NoPeer) \in Events
    BY EventsAre DEF Kinds
  <2>. QED
    BY <1>4, <1>6, <2>1 DEF ErrorShown, Event
<1>7. ASSUME NEW s \in Sessions, NEW p \in Peers,
             SessionBegins(s, p) \/ SessionReports(s) \/ SessionEnds(s)
      PROVE  Told'
  <2>1. UNCHANGED <<links, dest, Inside>>
    BY <1>7 DEF SessionBegins, SessionReports, SessionEnds
  <2>2. CASE SessionBegins(s, p)
    <3>1. Event("New", s, p) \in Events
      BY EventsAre DEF Kinds
    <3>. QED
      BY <1>4, <2>1, <2>2, <3>1 DEF SessionBegins, Event
  <2>3. CASE SessionReports(s)
    <3>1. Event("Bandwidth", s, NoPeer) \in Events
      BY EventsAre DEF Kinds
    <3>. QED
      BY <1>4, <2>1, <2>3, <3>1 DEF SessionReports, Event
  <2>4. CASE SessionEnds(s)
    <3>1. Event("End", s, NoPeer) \in Events
      BY EventsAre DEF Kinds
    <3>. QED
      BY <1>4, <2>1, <2>4, <3>1 DEF SessionEnds, Event
  <2>. QED
    BY <1>7, <2>2, <2>3, <2>4
<1>. QED
  BY <1>1, <1>2, <1>3, <1>5, <1>6, <1>7 DEF Surroundings

(* Learning that peers have a candidate address makes none of them direct. *)
LEMMA CandidatesAreNotDirect ==
  ASSUME NEW ps, NEW p \in Peers, NotedAll(ps, "Candidate")[p] = "Direct"
  PROVE  peer_addresses[p] = "Direct"
BY DEF NotedAll, note_peer_address

LEMMA HearingTells == Told /\ handle_swarm_events => Told'
<1>. SUFFICES ASSUME Told, handle_swarm_events PROVE Told'
  OBVIOUS
<1>0. ASSUME NEW k, Hears(k)
      PROVE  /\ Heard.kind = k /\ Heard = queue[1]
             /\ RouteClaim(1, Heard.of) = (k = "PeerRoute" /\ Heard.what = "Direct")
  BY <1>0, HearKeeps DEF Told, RouteClaim
<1>1. ASSUME NEW k, Hears(k), k \notin {"Disconnected", "ActiveDestination"},
             UNCHANGED <<peer_addresses, active_destinations>>
      PROVE  Told'
  <2>1. TableOK' /\ HeardRoutes /\ HeardExits
    BY <1>0, <1>1 DEF Told, TableOK, HeardRoutes, HeardExits, RouteClaim
  <2>. QED
    BY <1>1, <2>1, HeardStep
<1>2. CASE HearConnected \/ HearNew \/ HearEnd \/ HearBandwidth \/ HearError
  BY <1>1, <1>2 DEF HearConnected, HearNew, HearEnd, HearBandwidth, HearError, table
<1>3. CASE HearServerPool \/ HearStickyPool
  <2>1. PICK k \in {"ServerPool", "StickyPool"} : Hears(k)
    BY <1>3 DEF HearServerPool, HearStickyPool
  <2>2. /\ peer_addresses' = NotedAll(Heard.what.routed, "Candidate")
        /\ active_destinations' = active_destinations
    BY <1>3 DEF HearServerPool, HearStickyPool
  <2>3. TableOK'
    BY <2>2 DEF Told, TableOK, NotedAll
  <2>4. HeardRoutes
    BY <1>0, <2>1, <2>2, CandidatesAreNotDirect DEF HeardRoutes, RouteClaim
  <2>5. HeardExits
    BY <1>0, <2>1, <2>2 DEF HeardExits
  <2>. QED
    BY <2>1, <2>3, <2>4, <2>5, HeardStep
<1>4. CASE HearPeerRoute
  <2>1. Hears("PeerRoute") /\ peer_addresses' = NotedAll({Heard.of}, Heard.what)
        /\ active_destinations' = active_destinations
    BY <1>4 DEF HearPeerRoute
  <2>2. TableOK'
    BY <2>1 DEF Told, TableOK, NotedAll
  <2>3. HeardExits
    BY <1>0, <2>1 DEF HeardExits
  <2>4. ASSUME NEW p \in Peers, peer_addresses'[p] = "Direct"
        PROVE  peer_addresses[p] = "Direct" \/ (p = Heard.of /\ Heard.what = "Direct")
    BY <2>1, <2>4 DEF NotedAll, note_peer_address
  <2>5. HeardRoutes
    BY <1>0, <2>1, <2>4 DEF HeardRoutes, RouteClaim
  <2>. QED
    BY <2>1, <2>2, <2>3, <2>5, HeardStep
<1>5. CASE HearDisconnected
  <2>1. /\ Hears("Disconnected")
        /\ active_destinations' = [port \in Ports |->
             IF active_destinations[port] = Heard.of THEN NoPeer ELSE active_destinations[port]]
        /\ peer_addresses' = [peer_addresses EXCEPT ![Heard.of] = "None"]
    BY <1>5 DEF HearDisconnected
  <2>2. TableOK' /\ \A p \in Peers : peer_addresses'[p] = IF p = Heard.of THEN "None" ELSE peer_addresses[p]
    BY <2>1 DEF Told, TableOK
  <2>3. HeardRoutes
    BY <2>2 DEF HeardRoutes, RouteClaim
  <2>4. HeardExits
    BY <1>0, <2>1 DEF HeardExits
  <2>. QED
    BY <2>1, <2>2, <2>3, <2>4, HeardStep
<1>6. CASE HearActiveDestination
  <2>1. /\ Hears("ActiveDestination")
        /\ active_destinations' = [active_destinations EXCEPT ![Heard.of] = Heard.what]
        /\ peer_addresses' = peer_addresses
    BY <1>6 DEF HearActiveDestination
  <2>2. TableOK' /\ \A port \in Ports : active_destinations'[port] =
                      IF port = Heard.of THEN Heard.what ELSE active_destinations[port]
    BY <2>1 DEF Told, TableOK
  <2>3. HeardRoutes
    BY <1>0, <2>1 DEF HeardRoutes, RouteClaim
  <2>4. HeardExits
    BY <1>0, <2>1, <2>2 DEF HeardExits, ExitClaim
  <2>. QED
    BY <2>1, <2>2, <2>3, <2>4, HeardStep
<1>. QED
  BY <1>2, <1>3, <1>4, <1>5, <1>6 DEF handle_swarm_events

LEMMA KeysTell ==
  ASSUME Told, UNCHANGED <<outside, channel, table>>
  PROVE  Told'
<1>1. /\ world' = world /\ links' = links /\ dest' = dest /\ queue' = queue /\ lost' = lost
      /\ peer_addresses' = peer_addresses /\ active_destinations' = active_destinations
  BY DEF outside, channel, table
<1>2. ChannelOK' /\ OutsideOK' /\ TableOK'
  BY <1>1 DEF Told, ChannelOK, Events, OutsideOK, TableOK
<1>3. RoutesTold'
  BY <1>1 DEF Told, RoutesTold, RouteClaim, TakenBack
<1>4. ExitsTold'
  BY <1>1 DEF Told, ExitsTold, ExitClaim, TakenBack
<1>. QED
  BY <1>2, <1>3, <1>4 DEF Told

LEMMA ToldInductive == Spec => []Told
<1>1. Init => Told
  <2>. SUFFICES ASSUME Init PROVE Told
    OBVIOUS
  <2>1. ChannelOK /\ OutsideOK /\ TableOK
    BY CapacityIsNatural DEF Init, ChannelOK, OutsideOK, TableOK
  <2>2. Len(queue) = 0 /\ \A i \in 0 .. 0 : i = 0
    BY DEF Init
  <2>3. RoutesTold /\ ExitsTold
    BY <2>2 DEF Init, RoutesTold, ExitsTold, RouteClaim, ExitClaim
  <2>. QED
    BY <2>1, <2>3 DEF Told
<1>2. Told /\ [Next]_vars => Told'
  <2>. SUFFICES ASSUME Told, [Next]_vars PROVE Told'
    OBVIOUS
  <2>1. CASE Surroundings \/ handle_swarm_events
    BY <2>1, SurroundingsTell, HearingTells
  <2>2. CASE FeedbackTimeout \/ UNCHANGED vars
    BY <2>2, KeysTell DEF FeedbackTimeout, vars
  <2>3. CASE Quit \/ OpenPrompt \/ toggle_logs \/ network_toggle_expand_selected \/ Expand \/ Pick
    BY <2>3, KeysTell DEF Quit, OpenPrompt, toggle_logs, network_toggle_expand_selected, Expand, Pick,
       OnNetwork, Bound, Key
  <2>4. ASSUME NEW k, KeyPressed(k)
        PROVE  Told'
    BY <2>4, KeysTell DEF KeyPressed, PromptKey, scroll_logs, SwitchTab, SelectServer,
       network_cursor_step, network_enter_peer_focus, network_exit_peer_focus, OnNetwork, Bound, Key
  <2>. QED
    BY <2>1, <2>2, <2>3, <2>4 DEF Next
<1>. QED
  BY <1>1, <1>2, PTL DEF Spec

(* ui_state.rs and channel_sink.rs: whatever order events come in and      *)
(* however small the channel, a peer shown as direct when all is heard has *)
(* a direct connection, or the end of it was the event that was dropped.   *)
THEOREM RoutesShownLive == Spec => []ShownRouteLives
<1>1. Told => ShownRouteLives
  <2>. SUFFICES ASSUME Told, queue = <<>>, NEW p \in Peers, peer_addresses[p] = "Direct"
                PROVE  "Direct" \in links[p] \/ <<"Disconnected", p>> \in lost
    BY DEF ShownRouteLives
  <2>1. Len(queue) = 0 /\ 0 \in 0 .. Len(queue) /\ RouteClaim(0, p)
    BY DEF RouteClaim
  <2>2. "Direct" \in links[p] \/ TakenBack(0, "Disconnected", p)
    BY <2>1 DEF Told, RoutesTold
  <2>. QED
    BY <2>1, <2>2 DEF TakenBack
<1>. QED
  BY <1>1, ToldInductive, PTL

(* The same of the exits: with all heard, the exit shown for a port serves *)
(* it, or the last change of it found the channel full.                    *)
THEOREM ExitsShownServe == Spec => []ShownExitServes
<1>1. Told => ShownExitServes
  <2>. SUFFICES ASSUME Told, queue = <<>>, NEW port \in Ports
                PROVE  \/ active_destinations[port] \in {NoPeer, dest[port]}
                       \/ <<"ActiveDestination", port>> \in lost
    BY DEF ShownExitServes
  <2>1. Len(queue) = 0 /\ 0 \in 0 .. Len(queue) /\ ExitClaim(0, port, active_destinations[port])
    BY DEF ExitClaim
  <2>2. \/ active_destinations[port] \in {NoPeer, dest[port]}
        \/ TakenBack(0, "ActiveDestination", port)
    BY <2>1 DEF Told, ExitsTold
  <2>. QED
    BY <2>1, <2>2 DEF TakenBack
<1>. QED
  BY <1>1, ToldInductive, PTL
-----------------------------------------------------------------------------
(***************************************************************************)
(* What sorting and filtering by places leave of a list.                   *)
(***************************************************************************)
(* In the order of a stable sort a rank is taken once.                     *)
LEMMA RankOf ==
  ASSUME NEW I, IsFiniteSet(I), I \subseteq Nat, NEW key \in [I -> Nat]
  PROVE  /\ \A i \in I : Rank(I, key, i) \in 1 .. Cardinality(I)
         /\ \A i, k \in I : Rank(I, key, i) = Rank(I, key, k) => i = k
<1> DEFINE UpTo(i) == {j \in I : key[j] < key[i] \/ (key[j] = key[i] /\ j <= i)}
<1>1. ASSUME NEW i \in I
      PROVE  /\ i \in UpTo(i) /\ UpTo(i) \subseteq I /\ IsFiniteSet(UpTo(i))
             /\ Rank(I, key, i) = Cardinality(UpTo(i))
             /\ Rank(I, key, i) \in 1 .. Cardinality(I)
  <2>1. i \in UpTo(i) /\ UpTo(i) \in SUBSET I
    OBVIOUS
  <2>2. /\ IsFiniteSet(UpTo(i)) /\ Cardinality(UpTo(i)) <= Cardinality(I)
    BY <2>1, FS_Subset
  <2>3. Cardinality(UpTo(i)) \in Nat /\ Cardinality(I) \in Nat /\ Cardinality(UpTo(i)) # 0
    <3>1. Cardinality(UpTo(i)) \in Nat /\ Cardinality(I) \in Nat
      BY <2>2, FS_CardinalityType
    <3>2. Cardinality(UpTo(i)) # 0
      <4>. HIDE DEF UpTo
      <4>. QED BY <2>1, <2>2, FS_EmptySet
    <3>. QED BY <3>1, <3>2
  <2>. QED
    BY <2>1, <2>2, <2>3 DEF Rank
<1>2. ASSUME NEW i \in I, NEW k \in I, UpTo(i) \subseteq UpTo(k), Rank(I, key, i) = Rank(I, key, k)
      PROVE  i = k
  <2>1. UpTo(i) = UpTo(k)
    <3>. HIDE DEF UpTo
    <3>. QED BY <1>1, <1>2, FS_Subset
  <2>2. k \in UpTo(i) /\ i \in UpTo(k)
    BY <1>1, <2>1
  <2>. QED
    BY <2>2
<1>3. ASSUME NEW i \in I, NEW k \in I
      PROVE  UpTo(i) \subseteq UpTo(k) \/ UpTo(k) \subseteq UpTo(i)
  <2>1. /\ key[i] \in Nat /\ key[k] \in Nat /\ i \in Nat /\ k \in Nat
        /\ \A j \in I : key[j] \in Nat /\ j \in Nat
    OBVIOUS
  <2>2. CASE key[i] < key[k] \/ (key[i] = key[k] /\ i <= k)
    <3>. SUFFICES ASSUME NEW j \in UpTo(i) PROVE j \in UpTo(k)
      OBVIOUS
    <3>1. j \in I /\ (key[j] < key[i] \/ (key[j] = key[i] /\ j <= i))
      OBVIOUS
    <3>2. key[j] < key[k] \/ (key[j] = key[k] /\ j <= k)
      BY <2>1, <2>2, <3>1
    <3>. QED
      BY <3>1, <3>2
  <2>3. CASE key[k] < key[i] \/ (key[k] = key[i] /\ k <= i)
    <3>. SUFFICES ASSUME NEW j \in UpTo(k) PROVE j \in UpTo(i)
      OBVIOUS
    <3>1. j \in I /\ (key[j] < key[k] \/ (key[j] = key[k] /\ j <= k))
      OBVIOUS
    <3>2. key[j] < key[i] \/ (key[j] = key[i] /\ j <= i)
      BY <2>1, <2>3, <3>1
    <3>. QED
      BY <3>1, <3>2
  <2>. QED
    BY <2>1, <2>2, <2>3
<1>. QED
  BY <1>1, <1>2, <1>3

(* Sorting loses no item, adds none, and repeats none.                     *)
LEMMA SortedIs ==
  ASSUME NEW S, NEW s \in Seq(S), NEW I \in SUBSET DOMAIN s, NEW key \in [I -> Nat]
  PROVE  /\ Sorted(s, I, key) \in Seq(S)
         /\ \A x : x \in ToSet(Sorted(s, I, key)) <=> \E i \in I : x = s[i]
         /\ (\A i, k \in I : s[i] = s[k] => i = k) => IsInjective(Sorted(s, I, key))
<1> DEFINE n == Cardinality(I)
           rank == [i \in I |-> Rank(I, key, i)]
           place(m) == CHOOSE i \in I : Rank(I, key, i) = m
<1>1. /\ I \subseteq Nat /\ IsFiniteSet(I) /\ n \in Nat
      /\ IsFiniteSet(1 .. n) /\ Cardinality(1 .. n) = n
  <2>1. Len(s) \in Nat /\ DOMAIN s = 1 .. Len(s)
    OBVIOUS
  <2>2. IsFiniteSet(I)
    <3>1. IsFiniteSet(1 .. Len(s))
      BY <2>1, FS_Interval
    <3>. QED
      BY <2>1, <3>1, FS_Subset
  <2>3. n \in Nat
    BY <2>2, FS_CardinalityType
  <2>4. IsFiniteSet(1 .. n) /\ Cardinality(1 .. n) = n
    <3>. HIDE DEF n
    <3>1. IsFiniteSet(1 .. n) /\ Cardinality(1 .. n) = IF 1 > n THEN 0 ELSE n - 1 + 1
      BY <2>3, FS_Interval
    <3>. QED
      BY <2>3, <3>1
  <2>. QED
    BY <2>1, <2>2, <2>3, <2>4
<1>2. /\ \A i \in I : Rank(I, key, i) \in 1 .. n
      /\ \A i, k \in I : Rank(I, key, i) = Rank(I, key, k) => i = k
  BY <1>1, RankOf
<1>3. \A m \in 1 .. n : \E i \in I : Rank(I, key, i) = m
  <2>1. rank \in Injection(I, 1 .. n)
    BY <1>2 DEF Injection, IsInjective
  <2>2. rank \in Surjection(I, 1 .. n)
    <3>. HIDE DEF rank, n
    <3>. QED BY <1>1, <2>1, FS_Injection DEF n
  <2>. QED
    BY <2>2 DEF Surjection
<1>4. \A m \in 1 .. n : place(m) \in I /\ Rank(I, key, place(m)) = m
  BY <1>3
<1>5. \A i \in I : Rank(I, key, i) \in 1 .. n /\ place(Rank(I, key, i)) = i
  BY <1>2, <1>4
<1>6. Sorted(s, I, key) = [m \in 1 .. n |-> s[place(m)]]
  BY DEF Sorted
<1> HIDE DEF place, n, rank
<1>7. Sorted(s, I, key) \in Seq(S)
  <2>1. \A m \in 1 .. n : s[place(m)] \in S
    BY <1>4
  <2>. QED
    BY <1>1, <1>6, <2>1
<1>8. \A x : x \in ToSet(Sorted(s, I, key)) <=> \E i \in I : x = s[i]
  BY <1>4, <1>5, <1>6 DEF ToSet
<1>9. (\A i, k \in I : s[i] = s[k] => i = k) => IsInjective(Sorted(s, I, key))
  BY <1>4, <1>6 DEF IsInjective
<1>. QED
  BY <1>7, <1>8, <1>9

LEMMA WithoutIs ==
  ASSUME NEW ids \in Seq(Peers), NEW p
  PROVE  /\ Without(ids, p) \in Seq(Peers)
         /\ ToSet(Without(ids, p)) = ToSet(ids) \ {p}
         /\ IsInjective(ids) => IsInjective(Without(ids, p))
<1> DEFINE others == {i \in DOMAIN ids : ids[i] # p}
           key == [i \in others |-> 0]
<1>1. others \in SUBSET DOMAIN ids /\ key \in [others -> Nat]
  OBVIOUS
<1>2. Without(ids, p) = Sorted(ids, others, key)
  BY DEF Without
<1>3. \A x : x \in ToSet(ids) \ {p} <=> \E i \in others : x = ids[i]
  BY DEF ToSet
<1>4. IsInjective(ids) => \A i, k \in others : ids[i] = ids[k] => i = k
  BY DEF IsInjective
<1>. HIDE DEF others, key
<1>5. /\ Without(ids, p) \in Seq(Peers)
      /\ \A x : x \in ToSet(Without(ids, p)) <=> \E i \in others : x = ids[i]
      /\ IsInjective(ids) => IsInjective(Without(ids, p))
  <2>1. /\ Sorted(ids, others, key) \in Seq(Peers)
        /\ \A x : x \in ToSet(Sorted(ids, others, key)) <=> \E i \in others : x = ids[i]
        /\ (\A i, k \in others : ids[i] = ids[k] => i = k) => IsInjective(Sorted(ids, others, key))
    BY <1>1, SortedIs
  <2>. QED
    BY <1>2, <1>4, <2>1
<1>. QED
  BY <1>3, <1>5

LEMMA WithIs ==
  ASSUME NEW ids \in Seq(Peers), NEW p \in Peers \cup {NoPeer}
  PROVE  /\ With(ids, p) \in Seq(Peers)
         /\ ToSet(With(ids, p)) = ToSet(ids) \cup ({p} \ {NoPeer})
         /\ IsInjective(ids) => IsInjective(With(ids, p))
<1>1. CASE p \in ToSet(ids) \cup {NoPeer}
  BY <1>1 DEF With, ToSet
<1>2. CASE p \notin ToSet(ids) \cup {NoPeer}
  <2>1. With(ids, p) = Append(ids, p) /\ p \in Peers /\ p # NoPeer
    BY <1>2 DEF With
  <2>2. /\ Append(ids, p) \in Seq(Peers) /\ Len(ids) \in Nat /\ DOMAIN ids = 1 .. Len(ids)
        /\ DOMAIN Append(ids, p) = 1 .. (Len(ids) + 1)
        /\ \A i \in 1 .. Len(ids) : Append(ids, p)[i] = ids[i]
        /\ Append(ids, p)[Len(ids) + 1] = p
    BY <2>1, AppendProperties
  <2>3. \A i \in 1 .. (Len(ids) + 1) : i \in 1 .. Len(ids) \/ i = Len(ids) + 1
    BY <2>2
  <2>4. ToSet(Append(ids, p)) = ToSet(ids) \cup {p}
    BY <2>2, <2>3 DEF ToSet
  <2>5. \A i \in 1 .. Len(ids) : ids[i] # p
    BY <1>2, <2>2 DEF ToSet
  <2>6. IsInjective(ids) => IsInjective(Append(ids, p))
    BY <2>2, <2>3, <2>5 DEF IsInjective
  <2>. QED
    BY <2>1, <2>2, <2>4, <2>6
<1>. QED
  BY <1>1, <1>2

(* tui/ui_state.rs, ordered_pool_for: the rows are peers of the two lists, *)
(* and whoever the hub's list names has one.                               *)
LEMMA RowsAre ==
  ASSUME NEW port, server_pools[port] \in Seq(Peers), sticky_pools[port] \in Seq(Peers)
  PROVE  /\ ordered_pool_for(port) \in Seq(Peers)
         /\ ToSet(server_pools[port]) \subseteq ToSet(ordered_pool_for(port))
<1> DEFINE pool == server_pools[port]
           all == pool \o sticky_pools[port]
           rows == {i \in DOMAIN all : i <= Len(pool) \/ \A j \in 1 .. (i - 1) : all[j] # all[i]}
           key == [i \in rows |-> pool_sort_key(all[i])]
<1>1. /\ all \in Seq(Peers) /\ Len(pool) \in Nat /\ DOMAIN pool = 1 .. Len(pool)
      /\ \A i \in 1 .. Len(pool) : i \in DOMAIN all /\ all[i] = pool[i]
  <2>1. pool \in Seq(Peers) /\ sticky_pools[port] \in Seq(Peers)
    OBVIOUS
  <2>. HIDE DEF pool
  <2>2. /\ all \in Seq(Peers) /\ Len(all) = Len(pool) + Len(sticky_pools[port])
        /\ \A i \in 1 .. Len(pool) : all[i] = pool[i]
    BY <2>1, ConcatProperties
  <2>3. Len(pool) \in Nat /\ DOMAIN pool = 1 .. Len(pool) /\ Len(sticky_pools[port]) \in Nat
    BY <2>1
  <2>4. DOMAIN all = 1 .. Len(all)
    BY <2>2
  <2>. QED
    BY <2>2, <2>3, <2>4
<1>2. \A p : pool_sort_key(p) \in Nat
  BY DEF pool_sort_key
<1>3. rows \in SUBSET DOMAIN all /\ key \in [rows -> Nat]
  BY <1>2
<1>4. ordered_pool_for(port) = Sorted(all, rows, key)
  BY DEF ordered_pool_for
<1>5. \A i \in DOMAIN pool : i \in rows /\ all[i] = pool[i]
  <2>1. \A i \in DOMAIN pool : i <= Len(pool)
    BY <1>1
  <2>. QED
    BY <1>1, <2>1
<1>. HIDE DEF all, rows, key
<1>6. /\ ordered_pool_for(port) \in Seq(Peers)
      /\ \A x : x \in ToSet(ordered_pool_for(port)) <=> \E i \in rows : x = all[i]
  <2>1. /\ Sorted(all, rows, key) \in Seq(Peers)
        /\ \A x : x \in ToSet(Sorted(all, rows, key)) <=> \E i \in rows : x = all[i]
    BY <1>1, <1>3, SortedIs
  <2>. QED
    BY <1>4, <2>1
<1>. QED
  BY <1>5, <1>6 DEF ToSet
-----------------------------------------------------------------------------
(***************************************************************************)
(* The types, with the events in the channel, and the row of the active    *)
(* exit: it is among those the hub found, where hearing of it has put it.  *)
(***************************************************************************)
WellFormed(e) ==
  /\ e.kind \in {"Connected", "Disconnected", "PeerRoute"} => e.of \in Peers
  /\ e.kind = "PeerRoute" => e.what \in {"Relayed", "Direct"}
  /\ e.kind \in {"New", "Bandwidth", "End"} => e.of \in Sessions
  /\ e.kind = "New" => e.what \in Peers
  /\ e.kind \in {"ServerPool", "StickyPool"} => e.of \in Ports /\ e.what \in world.pools
  /\ e.kind = "ActiveDestination" => e.of \in Ports /\ e.what \in Peers \cup {NoPeer}

AllWellFormed == \A i \in 1 .. Len(queue) : WellFormed(queue[i])

WorldOK == world \in Worlds /\ OutsideOK /\ serving \in [Sessions -> Peers \cup {NoPeer, "nobody"}]

SummaryOK ==
  /\ connection_status \in {"Connecting", "Connected", "Disconnected"}
  /\ peers \subseteq Peers /\ peer_bandwidth \subseteq Peers
  /\ last_error \in BOOLEAN
  /\ session_peer \in [Sessions -> Peers \cup {NoPeer}]

PoolOK(pool) == pool \in Seq(Peers) /\ (NamedOnce => IsInjective(pool))

PoolsOK ==
  /\ server_pools = [port \in Ports |-> server_pools[port]]
  /\ sticky_pools = [port \in Ports |-> sticky_pools[port]]
  /\ \A port \in Ports : PoolOK(server_pools[port]) /\ PoolOK(sticky_pools[port])

ExitsOK ==
  /\ active_destinations \in [Ports -> Peers \cup {NoPeer}]
  /\ peer_addresses \in [Peers -> ToSet(AddrSource)]

KeysOK ==
  /\ running \in BOOLEAN
  /\ tab_index \in DOMAIN Tabs
  /\ show_logs \in BOOLEAN /\ following \in BOOLEAN /\ export_prompt \in BOOLEAN
  /\ network_selected_idx \in DOMAIN Servers
  /\ network_expanded \subseteq Ports
  /\ network_peer_cursor = Nowhere \/ network_peer_cursor \in Ports \X (Nat \ {0})

PickOK == network_pending_selection = Nowhere \/ network_pending_selection \in Ports \X Peers

ActiveListed ==
  \A port \in Ports : active_destinations[port] # NoPeer =>
    active_destinations[port] \in ToSet(server_pools[port]) \cap peers

Typed ==
  /\ WorldOK /\ ChannelOK /\ AllWellFormed
  /\ SummaryOK /\ PoolsOK /\ ExitsOK /\ ActiveListed
  /\ KeysOK /\ PickOK

LEMMA EmitTyped ==
  ASSUME Typed, UNCHANGED Inside, NEW es \in Seq(Events), Emit(es), WorldOK',
         \A n \in 1 .. Len(es) : WellFormed(es[n])
  PROVE  Typed'
<1>1. /\ world' = world /\ running' = running
      /\ UNCHANGED <<summary, table, view, focus, network_pending_selection>>
  BY DEF Inside
<1>2. /\ ChannelOK' /\ Len(queue) \in Nat /\ Len(queue') \in Nat
      /\ \A i \in 1 .. Len(queue') :
           IF i <= Len(queue) THEN queue'[i] = queue[i] ELSE \E n \in 1 .. Len(es) : queue'[i] = es[n]
  BY <1>1, EmitKeeps DEF Typed, ChannelOK
<1>3. \A e : WellFormed(e)' = WellFormed(e)
  BY <1>1 DEF WellFormed
<1>4. AllWellFormed'
  BY <1>2, <1>3 DEF Typed, AllWellFormed
<1>5. SummaryOK' /\ ExitsOK' /\ ActiveListed'
  BY <1>1 DEF Typed, SummaryOK, ExitsOK, ActiveListed, summary, table
<1>6. PoolsOK'
  BY <1>1 DEF Typed, PoolsOK, PoolOK, NamedOnce, table
<1>7. KeysOK' /\ PickOK'
  BY <1>1 DEF Typed, KeysOK, PickOK, view, focus
<1>. QED
  BY <1>2, <1>4, <1>5, <1>6, <1>7 DEF Typed

LEMMA SurroundingsTyped == Typed /\ Surroundings => Typed'
<1>. SUFFICES ASSUME Typed, Surroundings PROVE Typed'
  OBVIOUS
<1>0. /\ world \in Worlds /\ world.linked \subseteq Peers /\ world.ports \subseteq Ports
      /\ links \in [Peers -> SUBSET {"Relayed", "Direct"}]
      /\ dest \in [Ports -> Peers \cup {NoPeer}]
      /\ serving \in [Sessions -> Peers \cup {NoPeer, "nobody"}]
  BY WorldsAreOfThese DEF Typed, WorldOK, OutsideOK, Ports
<1>1. ASSUME NEW p \in world.linked, NEW kind \in {"Relayed", "Direct"}, Established(p, kind)
      PROVE  Typed'
  <2> DEFINE es == <<Event("Connected", p, kind), Event("PeerRoute", p, kind)>>
  <2>1. Event("Connected", p, kind) \in Events /\ Event("PeerRoute", p, kind) \in Events
    BY EventsAre DEF Kinds
  <2>2. UNCHANGED Inside /\ Emit(es) /\ es \in Seq(Events)
    BY <1>1, <2>1 DEF Established
  <2>3. WorldOK'
    BY <1>0, <1>1 DEF Established, WorldOK, OutsideOK, Inside
  <2>4. WellFormed(Event("Connected", p, kind)) /\ WellFormed(Event("PeerRoute", p, kind))
    BY <1>0 DEF WellFormed, Event
  <2>5. \A n \in 1 .. Len(es) : WellFormed(es[n])
    <3>1. Len(es) = 2 /\ es[1] = Event("Connected", p, kind) /\ es[2] = Event("PeerRoute", p, kind)
      OBVIOUS
    <3>2. \A n \in 1 .. 2 : n = 1 \/ n = 2
      OBVIOUS
    <3>. QED
      BY <2>4, <3>1, <3>2
  <2>. HIDE DEF es
  <2>. QED
    BY <2>2, <2>3, <2>5, EmitTyped
<1>2. ASSUME NEW e \in Events, WellFormed(e), Emit(<<e>>), UNCHANGED Inside, WorldOK'
      PROVE  Typed'
  <2>1. <<e>> \in Seq(Events)
    BY <1>2
  <2>2. \A n \in 1 .. Len(<<e>>) : WellFormed(<<e>>[n])
    <3>1. Len(<<e>>) = 1 /\ <<e>>[1] = e
      OBVIOUS
    <3>2. \A n \in 1 .. 1 : n = 1
      OBVIOUS
    <3>. QED
      BY <1>2, <3>1, <3>2
  <2>. QED
    BY <1>2, <2>1, <2>2, EmitTyped
<1>3. ASSUME NEW p \in world.linked, NEW kind \in {"Relayed", "Direct"}, Closed(p, kind)
      PROVE  Typed'
  <2>1. Event("Disconnected", p, NoPeer) \in Events /\ WellFormed(Event("Disconnected", p, NoPeer))
    BY <1>0, EventsAre DEF Kinds, WellFormed, Event
  <2>2. WorldOK'
    BY <1>0, <1>3 DEF Closed, WorldOK, OutsideOK, Inside
  <2>. QED
    BY <1>2, <1>3, <2>1, <2>2 DEF Closed
<1>4. ASSUME NEW port \in world.ports, NEW p \in Peers \cup {NoPeer}, DestinationSet(port, p)
      PROVE  Typed'
  <2>1. Event("ActiveDestination", port, p) \in Events /\ WellFormed(Event("ActiveDestination", port, p))
    BY <1>0, EventsAre DEF Kinds, WellFormed, Event
  <2>2. WorldOK'
    BY <1>0, <1>4 DEF DestinationSet, WorldOK, OutsideOK, Inside
  <2>. QED
    BY <1>2, <1>4, <2>1, <2>2 DEF DestinationSet
<1>5. ASSUME NEW port \in world.ports, NEW kind \in {"ServerPool", "StickyPool"}, PoolShown(kind, port)
      PROVE  Typed'
  <2>1. PICK pool \in world.pools : Emit(<<Event(kind, port, pool)>>)
    BY <1>5 DEF PoolShown
  <2>2. Event(kind, port, pool) \in Events /\ WellFormed(Event(kind, port, pool))
    BY <1>0, EventsAre DEF Kinds, WellFormed, Event
  <2>3. WorldOK' /\ UNCHANGED Inside
    BY <1>0, <1>5 DEF PoolShown, WorldOK, OutsideOK, Inside
  <2>. QED
    BY <1>2, <2>1, <2>2, <2>3
<1>6. CASE ErrorShown
  <2>1. Event("Error", NoPeer, NoPeer) \in Events /\ WellFormed(Event("Error", NoPeer, NoPeer))
    BY EventsAre DEF Kinds, WellFormed, Event
  <2>2. WorldOK'
    BY <1>0, <1>6 DEF ErrorShown, WorldOK, OutsideOK, Inside
  <2>. QED
    BY <1>2, <1>6, <2>1, <2>2 DEF ErrorShown
<1>7. ASSUME NEW s \in Sessions, NEW p \in Peers, SessionBegins(s, p)
      PROVE  Typed'
  <2>1. Event("New", s, p) \in Events /\ WellFormed(Event("New", s, p))
    BY EventsAre DEF Kinds, WellFormed, Event
  <2>2. WorldOK'
    BY <1>0, <1>7 DEF SessionBegins, WorldOK, OutsideOK, Inside
  <2>. QED
    BY <1>2, <1>7, <2>1, <2>2 DEF SessionBegins
<1>8. ASSUME NEW s \in Sessions, SessionReports(s) \/ SessionEnds(s)
      PROVE  Typed'
  <2>1. PICK kind \in {"Bandwidth", "End"} : Emit(<<Event(kind, s, NoPeer)>>)
    BY <1>8 DEF SessionReports, SessionEnds
  <2>2. Event(kind, s, NoPeer) \in Events /\ WellFormed(Event(kind, s, NoPeer))
    BY EventsAre DEF Kinds, WellFormed, Event
  <2>3. WorldOK' /\ UNCHANGED Inside
    BY <1>0, <1>8 DEF SessionReports, SessionEnds, WorldOK, OutsideOK, Inside
  <2>. QED
    BY <1>2, <2>1, <2>2, <2>3
<1>. QED
  BY <1>1, <1>3, <1>4, <1>5, <1>6, <1>7, <1>8 DEF Surroundings

(* What hearing the head leaves to be said: the tables it changes.         *)
LEMMA HeardTyped ==
  ASSUME Typed, NEW k, Hears(k), SummaryOK', PoolsOK', ExitsOK', ActiveListed', PickOK'
  PROVE  Typed'
<1>1. /\ world' = world /\ UNCHANGED <<outside, running, view, focus>>
      /\ ChannelOK' /\ Len(queue) \in Nat
      /\ \A i \in 1 .. Len(queue') : queue'[i] = queue[i + 1] /\ i + 1 \in 1 .. Len(queue)
  BY HearKeeps DEF Typed, Hears, outside
<1>2. \A e : WellFormed(e)' = WellFormed(e)
  BY <1>1 DEF WellFormed
<1>3. AllWellFormed'
  BY <1>1, <1>2 DEF Typed, AllWellFormed
<1>4. WorldOK' /\ KeysOK'
  BY <1>1 DEF Typed, WorldOK, OutsideOK, KeysOK, outside, view, focus
<1>. QED
  BY <1>1, <1>3, <1>4 DEF Typed

LEMMA HeadIs ==
  ASSUME Typed, NEW k, Hears(k)
  PROVE  Heard.kind = k /\ WellFormed(Heard) /\ world' = world
BY HearKeeps DEF Typed, AllWellFormed, Hears, outside

LEMMA PoolsStay ==
  ASSUME PoolsOK, world' = world, UNCHANGED <<server_pools, sticky_pools>>
  PROVE  PoolsOK'
BY DEF PoolsOK, PoolOK, NamedOnce

LEMMA NotedAllIs ==
  ASSUME NEW ps, NEW source \in ToSet(AddrSource), peer_addresses \in [Peers -> ToSet(AddrSource)]
  PROVE  NotedAll(ps, source) \in [Peers -> ToSet(AddrSource)]
BY DEF NotedAll, note_peer_address

LEMMA SourcesAre == ToSet(AddrSource) = {"None", "Candidate", "Relayed", "Direct"}
<1>1. DOMAIN AddrSource = {1, 2, 3, 4}
  BY DEF AddrSource
<1>. QED
  BY <1>1 DEF ToSet, AddrSource

LEMMA HearingTyped == Typed /\ handle_swarm_events => Typed'
<1>. SUFFICES ASSUME Typed, handle_swarm_events PROVE Typed'
  OBVIOUS
<1>0. SummaryOK /\ PoolsOK /\ ExitsOK /\ ActiveListed /\ PickOK
  BY DEF Typed
<1>1. CASE HearConnected
  <2>1. Heard.of \in Peers /\ world' = world
    BY <1>1, HeadIs DEF HearConnected, WellFormed
  <2>2. SummaryOK' /\ ExitsOK' /\ ActiveListed' /\ PickOK'
    BY <1>0, <1>1, <2>1 DEF HearConnected, table, SummaryOK, ExitsOK, ActiveListed, PickOK
  <2>3. PoolsOK'
    BY <1>0, <1>1, <2>1, PoolsStay DEF HearConnected, table
  <2>. QED
    BY <1>1, <2>2, <2>3, HeardTyped DEF HearConnected
<1>2. CASE HearDisconnected
  <2>1. Heard.of \in Peers /\ world' = world
    BY <1>2, HeadIs DEF HearDisconnected, WellFormed
  <2>2. SummaryOK'
    BY <1>0, <1>2 DEF HearDisconnected, SummaryOK
  <2>3. ExitsOK' /\ PickOK'
    BY <1>0, <1>2, SourcesAre DEF HearDisconnected, ExitsOK, PickOK
  <2>4. \A port \in Ports : /\ server_pools'[port] = Without(server_pools[port], Heard.of)
                            /\ server_pools'[port] \in Seq(Peers)
                            /\ ToSet(server_pools'[port]) = ToSet(server_pools[port]) \ {Heard.of}
                            /\ IsInjective(server_pools[port]) => IsInjective(server_pools'[port])
    BY <1>0, <1>2, WithoutIs DEF HearDisconnected, PoolsOK, PoolOK
  <2>5. PoolsOK'
    BY <1>0, <1>2, <2>1, <2>4 DEF HearDisconnected, PoolsOK, PoolOK, NamedOnce
  <2>6. ActiveListed'
    BY <1>0, <1>2, <2>4 DEF HearDisconnected, ActiveListed
  <2>. QED
    BY <1>2, <2>2, <2>3, <2>5, <2>6, HeardTyped DEF HearDisconnected
<1>3. CASE HearPeerRoute
  <2>1. /\ Heard.of \in Peers /\ Heard.what \in ToSet(AddrSource) /\ world' = world
    BY <1>3, HeadIs, SourcesAre DEF HearPeerRoute, WellFormed
  <2>2. ExitsOK'
    BY <1>0, <1>3, <2>1, NotedAllIs DEF HearPeerRoute, ExitsOK
  <2>3. SummaryOK' /\ ActiveListed' /\ PickOK'
    BY <1>0, <1>3 DEF HearPeerRoute, SummaryOK, ActiveListed, PickOK, summary
  <2>4. PoolsOK'
    BY <1>0, <1>3, <2>1, PoolsStay DEF HearPeerRoute
  <2>. QED
    BY <1>3, <2>2, <2>3, <2>4, HeardTyped DEF HearPeerRoute
<1>4. CASE HearNew
  <2>1. Heard.of \in Sessions /\ Heard.what \in Peers /\ world' = world
    BY <1>4, HeadIs DEF HearNew, WellFormed
  <2>2. SummaryOK' /\ ExitsOK' /\ ActiveListed' /\ PickOK'
    BY <1>0, <1>4, <2>1 DEF HearNew, table, SummaryOK, ExitsOK, ActiveListed, PickOK
  <2>3. PoolsOK'
    BY <1>0, <1>4, <2>1, PoolsStay DEF HearNew, table
  <2>. QED
    BY <1>4, <2>2, <2>3, HeardTyped DEF HearNew
<1>5. CASE HearEnd \/ HearBandwidth
  <2>1. PICK k \in {"End", "Bandwidth"} : Hears(k)
    BY <1>5 DEF HearEnd, HearBandwidth
  <2>2. Heard.of \in Sessions /\ world' = world
    BY <2>1, HeadIs DEF WellFormed
  <2>3. SummaryOK'
    BY <1>0, <1>5, <2>2 DEF HearEnd, HearBandwidth, SummaryOK
  <2>4. ExitsOK' /\ ActiveListed' /\ PickOK'
    BY <1>0, <1>5 DEF HearEnd, HearBandwidth, table, ExitsOK, ActiveListed, PickOK
  <2>5. PoolsOK'
    BY <1>0, <1>5, <2>2, PoolsStay DEF HearEnd, HearBandwidth, table
  <2>. QED
    BY <2>1, <2>3, <2>4, <2>5, HeardTyped
<1>6. CASE HearError
  <2>1. world' = world
    BY <1>6, HeadIs DEF HearError
  <2>2. SummaryOK' /\ ExitsOK' /\ ActiveListed' /\ PickOK'
    BY <1>0, <1>6 DEF HearError, table, SummaryOK, ExitsOK, ActiveListed, PickOK
  <2>3. PoolsOK'
    BY <1>0, <1>6, <2>1, PoolsStay DEF HearError, table
  <2>. QED
    BY <1>6, <2>2, <2>3, HeardTyped DEF HearError
<1>7. ASSUME NEW kind \in {"ServerPool", "StickyPool"}, Hears(kind)
      PROVE  Heard.of \in Ports /\ PoolOK(Heard.what.ids) /\ world' = world
  <2>1. Heard.of \in Ports /\ Heard.what \in world.pools /\ world' = world
    BY <1>7, HeadIs DEF WellFormed
  <2>2. \A pool \in world.pools : pool.ids \in Seq(Peers)
    BY WorldsAreOfThese DEF Typed, WorldOK
  <2>. QED
    BY <2>1, <2>2 DEF PoolOK, NamedOnce
<1>8. CASE HearServerPool
  <2> DEFINE of == Heard.of
             new == With(Heard.what.ids, active_destinations[Heard.of])
  <2>1. of \in Ports /\ PoolOK(Heard.what.ids) /\ world' = world
    BY <1>7, <1>8 DEF HearServerPool
  <2>2. /\ PoolOK(new)
        /\ ToSet(new) = ToSet(Heard.what.ids) \cup ({active_destinations[of]} \ {NoPeer})
    BY <1>0, <2>1, WithIs DEF PoolOK, ExitsOK
  <2>3. server_pools' = [server_pools EXCEPT ![of] = new]
    BY <1>8 DEF HearServerPool
  <2>. HIDE DEF new, of
  <2>4. \A port \in Ports : server_pools'[port] = IF port = of THEN new ELSE server_pools[port]
    BY <1>0, <2>1, <2>3 DEF PoolsOK
  <2>5. PoolsOK'
    BY <1>0, <1>8, <2>1, <2>2, <2>3, <2>4 DEF HearServerPool, PoolsOK, PoolOK, NamedOnce
  <2>6. ActiveListed'
    BY <1>0, <1>8, <2>2, <2>4 DEF HearServerPool, ActiveListed, summary
  <2>7. ExitsOK'
    BY <1>0, <1>8, NotedAllIs, SourcesAre DEF HearServerPool, ExitsOK
  <2>8. SummaryOK' /\ PickOK'
    BY <1>0, <1>8 DEF HearServerPool, summary, SummaryOK, PickOK
  <2>. QED
    BY <1>8, <2>5, <2>6, <2>7, <2>8, HeardTyped DEF HearServerPool
<1>9. CASE HearStickyPool
  <2>1. Heard.of \in Ports /\ PoolOK(Heard.what.ids) /\ world' = world
    BY <1>7, <1>9 DEF HearStickyPool
  <2>2. /\ sticky_pools' = [sticky_pools EXCEPT ![Heard.of] = Heard.what.ids]
        /\ server_pools' = server_pools
    BY <1>9 DEF HearStickyPool
  <2>3. \A port \in Ports : sticky_pools'[port] = IF port = Heard.of THEN Heard.what.ids ELSE sticky_pools[port]
    BY <1>0, <2>1, <2>2 DEF PoolsOK
  <2>4. PoolsOK'
    BY <1>0, <2>1, <2>2, <2>3 DEF PoolsOK, PoolOK, NamedOnce
  <2>5. ExitsOK'
    BY <1>0, <1>9, NotedAllIs, SourcesAre DEF HearStickyPool, ExitsOK
  <2>6. SummaryOK' /\ PickOK' /\ ActiveListed'
    BY <1>0, <1>9 DEF HearStickyPool, summary, SummaryOK, PickOK, ActiveListed
  <2>. QED
    BY <1>9, <2>4, <2>5, <2>6, HeardTyped DEF HearStickyPool
<1>10. CASE HearActiveDestination
  <2> DEFINE of == Heard.of
             new == With(server_pools[Heard.of], Heard.what)
  <2>1. of \in Ports /\ Heard.what \in Peers \cup {NoPeer} /\ world' = world
    BY <1>10, HeadIs DEF HearActiveDestination, WellFormed
  <2>2. /\ PoolOK(new)
        /\ ToSet(new) = ToSet(server_pools[of]) \cup ({Heard.what} \ {NoPeer})
    BY <1>0, <2>1, WithIs DEF PoolOK, PoolsOK
  <2>3. /\ server_pools' = [server_pools EXCEPT ![of] = new]
        /\ active_destinations' = [active_destinations EXCEPT ![of] = Heard.what]
        /\ peers' = peers \cup ({Heard.what} \ {NoPeer})
        /\ sticky_pools' = sticky_pools /\ peer_addresses' = peer_addresses
    BY <1>10 DEF HearActiveDestination
  <2>. HIDE DEF new, of
  <2>4. \A port \in Ports :
          /\ server_pools'[port] = IF port = of THEN new ELSE server_pools[port]
          /\ active_destinations'[port] = IF port = of THEN Heard.what ELSE active_destinations[port]
    BY <1>0, <2>1, <2>3 DEF PoolsOK, ExitsOK
  <2>5. PoolsOK'
    BY <1>0, <2>1, <2>2, <2>3, <2>4 DEF PoolsOK, PoolOK, NamedOnce
  <2>6. ActiveListed'
    BY <1>0, <2>2, <2>3, <2>4 DEF ActiveListed
  <2>7. ExitsOK'
    BY <1>0, <2>1, <2>3 DEF ExitsOK
  <2>8. SummaryOK'
    BY <1>0, <1>10, <2>1 DEF HearActiveDestination, SummaryOK
  <2>9. PickOK'
    BY <1>0, <1>10 DEF HearActiveDestination, PickOK
  <2>. QED
    BY <1>10, <2>5, <2>6, <2>7, <2>8, <2>9, HeardTyped DEF HearActiveDestination
<1>. QED
  BY <1>1, <1>2, <1>3, <1>4, <1>5, <1>6, <1>8, <1>9, <1>10 DEF handle_swarm_events

(* No key but those of the cursor and of the pick reads the rows, and it   *)
(* finds them in sequence.                                                 *)
LEMMA KeysTyped ==
  ASSUME Typed, UNCHANGED <<outside, channel, summary, table>>, KeysOK', PickOK'
  PROVE  Typed'
<1>1. /\ world' = world /\ links' = links /\ dest' = dest /\ serving' = serving
      /\ queue' = queue /\ lost' = lost /\ UNCHANGED <<summary, table>>
  BY DEF outside, channel
<1>2. WorldOK' /\ ChannelOK'
  BY <1>1 DEF Typed, WorldOK, OutsideOK, ChannelOK, Events
<1>3. AllWellFormed'
  BY <1>1 DEF Typed, AllWellFormed, WellFormed
<1>4. SummaryOK' /\ ExitsOK' /\ ActiveListed'
  BY <1>1 DEF Typed, SummaryOK, ExitsOK, ActiveListed, summary, table
<1>5. PoolsOK'
  BY <1>1, PoolsStay DEF Typed, table
<1>. QED
  BY <1>2, <1>3, <1>4, <1>5 DEF Typed

LEMMA Wrapped ==
  ASSUME NEW n \in Nat \ {0}, NEW i \in 1 .. n
  PROVE  (i % n) + 1 \in 1 .. n /\ (IF i = 1 THEN n ELSE i - 1) \in 1 .. n
<1>1. i % n \in 0 .. n - 1
  OBVIOUS
<1>. QED
  BY <1>1

LEMMA PressingTyped ==
  ASSUME Typed, NEW k, KeyPressed(k)
  PROVE  Typed'
<1>0. KeysOK /\ PickOK /\ Tabs[tab_index] \in {"OVERVIEW", "NETWORK", "LOGS"} /\ DOMAIN Tabs = 1 .. 3 /\ Len(Tabs) = 3
  BY DEF Typed, KeysOK, Tabs
<1>1. /\ DOMAIN Servers = 1 .. Len(Servers) /\ Len(Servers) \in Nat \ {0}
      /\ Selected \in Ports
  BY <1>0, SomeServer DEF KeysOK, Selected, Ports, ToSet
<1>2. ASSUME PromptKey(k) \/ scroll_logs(k)
      PROVE  Typed'
  <2>1. KeysOK' /\ PickOK'
    BY <1>0, <1>2 DEF PromptKey, scroll_logs, focus, KeysOK, PickOK
  <2>. QED
    BY <1>2, <2>1, KeysTyped DEF PromptKey, scroll_logs, Key
<1>3. CASE SwitchTab(k)
  <2>1. tab_index' \in 1 .. 3
    BY <1>0, <1>3, Wrapped DEF SwitchTab, KeysOK
  <2>2. KeysOK' /\ PickOK'
    BY <1>0, <1>3, <2>1 DEF SwitchTab, focus, KeysOK, PickOK
  <2>. QED
    BY <1>3, <2>2, KeysTyped DEF SwitchTab, Bound, Key
<1>4. CASE SelectServer(k)
  <2>1. network_selected_idx' \in DOMAIN Servers
    BY <1>0, <1>1, <1>4, Wrapped DEF SelectServer, KeysOK
  <2>2. KeysOK' /\ PickOK'
    BY <1>0, <1>4, <2>1 DEF SelectServer, OnNetwork, view, KeysOK, PickOK
  <2>. QED
    BY <1>4, <2>2, KeysTyped DEF SelectServer, OnNetwork, Bound, Key
<1>5. CASE network_cursor_step(k)
  <2> DEFINE port == network_peer_cursor[1]
             last == Len(ordered_pool_for(port))
             row  == Least(network_peer_cursor[2], last)
             next == IF k = "Down" THEN Least(row + 1, last) ELSE IF row = 1 THEN 1 ELSE row - 1
  <2>1. network_peer_cursor' = IF last = 0 THEN Nowhere ELSE <<port, next>>
    BY <1>5 DEF network_cursor_step
  <2>2. port \in Ports /\ network_peer_cursor[2] \in Nat \ {0}
    BY <1>0, <1>5 DEF network_cursor_step, KeysOK
  <2>3. last \in Nat
    BY <2>2, RowsAre DEF Typed, PoolsOK, PoolOK
  <2>. HIDE DEF port, last
  <2>4. last # 0 => next \in Nat \ {0}
    BY <2>2, <2>3 DEF Least
  <2>. HIDE DEF next
  <2>5. KeysOK' /\ PickOK'
    BY <1>0, <1>5, <2>1, <2>2, <2>4 DEF network_cursor_step, OnNetwork, view, KeysOK, PickOK
  <2>. QED
    BY <1>5, <2>5, KeysTyped DEF network_cursor_step, OnNetwork, Bound, Key
<1>6. CASE network_enter_peer_focus(k) \/ network_exit_peer_focus(k)
  <2>1. network_peer_cursor' \in {Nowhere, <<Selected, 1>>}
    BY <1>6 DEF network_enter_peer_focus, network_exit_peer_focus
  <2>2. KeysOK' /\ PickOK'
    BY <1>0, <1>1, <1>6, <2>1 DEF network_enter_peer_focus, network_exit_peer_focus, OnNetwork, view, KeysOK, PickOK
  <2>. QED
    BY <1>6, <2>2, KeysTyped DEF network_enter_peer_focus, network_exit_peer_focus, OnNetwork, Bound, Key
<1>. QED
  BY <1>2, <1>3, <1>4, <1>5, <1>6 DEF KeyPressed

LEMMA TypedStep == Typed /\ [Next]_vars => Typed'
<1>. SUFFICES ASSUME Typed, [Next]_vars PROVE Typed'
  OBVIOUS
<1>0. KeysOK /\ PickOK
  BY DEF Typed
<1>1. CASE Surroundings \/ handle_swarm_events
  BY <1>1, SurroundingsTyped, HearingTyped
<1>2. CASE FeedbackTimeout \/ UNCHANGED vars
  <2>1. KeysOK' /\ PickOK'
    BY <1>0, <1>2 DEF FeedbackTimeout, vars, view, focus, KeysOK, PickOK
  <2>. QED
    BY <1>2, <2>1, KeysTyped DEF FeedbackTimeout, vars
<1>3. ASSUME NEW k \in world.keys, KeyPressed(k)
      PROVE  Typed'
  BY <1>3, PressingTyped
<1>4. CASE Quit \/ OpenPrompt \/ toggle_logs
  <2>1. KeysOK' /\ PickOK'
    BY <1>0, <1>4 DEF Quit, OpenPrompt, toggle_logs, Bound, Key, view, focus, KeysOK, PickOK
  <2>. QED
    BY <1>4, <2>1, KeysTyped DEF Quit, OpenPrompt, toggle_logs, Bound, Key
<1>5. CASE network_toggle_expand_selected \/ Expand
  <2>1. Selected \in Ports
    BY <1>0, SomeServer DEF KeysOK, Selected, Ports, ToSet
  <2>2. KeysOK' /\ PickOK'
    BY <1>0, <1>5, <2>1 DEF network_toggle_expand_selected, Expand, OnNetwork, view, KeysOK, PickOK
  <2>. QED
    BY <1>5, <2>2, KeysTyped DEF network_toggle_expand_selected, Expand, OnNetwork, Bound, Key
<1>6. CASE Pick
  <2> DEFINE port == network_peer_cursor[1]
             row  == network_peer_cursor[2]
  <2>1. /\ row \in DOMAIN ordered_pool_for(port)
        /\ network_pending_selection' = <<port, ordered_pool_for(port)[row]>>
    BY <1>6 DEF Pick
  <2>2. port \in Ports
    BY <1>0, <1>6 DEF Pick, KeysOK
  <2>3. ordered_pool_for(port) \in Seq(Peers)
    BY <2>2, RowsAre DEF Typed, PoolsOK, PoolOK
  <2>4. PickOK'
    BY <2>1, <2>2, <2>3 DEF PickOK
  <2>5. KeysOK'
    BY <1>0, <1>6 DEF Pick, OnNetwork, view, focus, KeysOK
  <2>. QED
    BY <1>6, <2>4, <2>5, KeysTyped DEF Pick, OnNetwork, Bound, Key
<1>. QED
  BY <1>1, <1>2, <1>3, <1>4, <1>5, <1>6 DEF Next

LEMMA TypedInductive == Spec => []Typed
<1>1. Init => Typed
  <2>. SUFFICES ASSUME Init PROVE Typed
    OBVIOUS
  <2>1. WorldOK
    BY DEF Init, WorldOK, OutsideOK
  <2>2. ChannelOK /\ AllWellFormed
    <3>1. Len(queue) = 0 /\ queue \in Seq(Events) /\ 1 .. 0 = {}
      BY DEF Init
    <3>. QED
      BY <3>1, CapacityIsNatural DEF ChannelOK, AllWellFormed
  <2>3. SummaryOK
    BY DEF Init, SummaryOK
  <2>4. PoolsOK
    <3>1. PoolOK(<<>>)
      BY DEF PoolOK, IsInjective
    <3>. QED
      BY <3>1 DEF Init, PoolsOK
  <2>5. ExitsOK /\ ActiveListed
    BY SourcesAre DEF Init, ExitsOK, ActiveListed
  <2>6. KeysOK /\ PickOK
    <3>1. 1 \in DOMAIN Servers /\ Servers[1] \in Ports /\ 1 \in DOMAIN Tabs
      BY SomeServer DEF Ports, ToSet, Tabs
    <3>. QED
      BY <3>1 DEF Init, KeysOK, PickOK
  <2>. QED
    BY <2>1, <2>2, <2>3, <2>4, <2>5, <2>6 DEF Typed
<1>. QED
  BY <1>1, TypedStep, PTL DEF Spec

(* tui/mod.rs and tui/ui_state.rs: whatever is emitted and pressed, what   *)
(* the interface keeps has its type; no list names a peer twice, unless    *)
(* one it was shown did.                                                   *)
THEOREM UiTyped == Spec => []TypeOK
<1>1. Typed => TypeOK
  <2>. SUFFICES ASSUME Typed PROVE TypeOK
    OBVIOUS
  <2>1. {server_pools, sticky_pools} \subseteq [Ports -> Seq(Peers)]
    BY DEF Typed, PoolsOK, PoolOK
  <2>2. NamedOnce => \A port \in Ports : IsInjective(server_pools[port]) /\ IsInjective(sticky_pools[port])
    BY DEF Typed, PoolsOK, PoolOK
  <2>3. /\ {show_logs, following, export_prompt} \subseteq BOOLEAN /\ running \in BOOLEAN
        /\ tab_index \in DOMAIN Tabs /\ network_selected_idx \in DOMAIN Servers /\ network_expanded \subseteq Ports
        /\ network_peer_cursor = Nowhere \/ network_peer_cursor \in Ports \X (Nat \ {0})
    BY DEF Typed, KeysOK
  <2>. QED
    BY <2>1, <2>2, <2>3 DEF Typed, TypeOK, WorldOK, OutsideOK, ChannelOK, SummaryOK, ExitsOK, PickOK
<1>. QED
  BY <1>1, TypedInductive, PTL

(* "The active row is always visible" (tui/mod.rs:660-664): an exit that   *)
(* is shown as active is in the hub's list from the moment it is heard of, *)
(* whichever list replaces that one and whoever disconnects.               *)
THEOREM ActiveRowsAreVisible == Spec => []ActiveRowVisible
<1>1. Typed => ActiveRowVisible
  <2>. SUFFICES ASSUME Typed, NEW port \in Ports, active_destinations[port] # NoPeer
                PROVE  /\ \E p \in ToSet(ordered_pool_for(port)) : Status(port, p) = "active"
                       /\ active_destinations[port] \in peers
    BY DEF ActiveRowVisible
  <2>1. active_destinations[port] \in ToSet(server_pools[port]) /\ active_destinations[port] \in peers
    BY DEF Typed, ActiveListed
  <2>2. ToSet(server_pools[port]) \subseteq ToSet(ordered_pool_for(port))
    BY RowsAre DEF Typed, PoolsOK, PoolOK
  <2>3. Status(port, active_destinations[port]) = "active"
    BY DEF Status
  <2>. QED
    BY <2>1, <2>2, <2>3
<1>. QED
  BY <1>1, TypedInductive, PTL
-----------------------------------------------------------------------------
(* tui/mod.rs, network_cursor_step and network_enter_peer_focus: whatever  *)
(* became of the table and of its server while the cursor rested, a key    *)
(* that moves it puts it on a row of the open table of the selected server.*)
THEOREM CursorsLandOnRows == Spec => CursorLandsOnRow
<1> DEFINE Moved == network_peer_cursor' \notin {Nowhere, network_peer_cursor}
           Lands == Highlighted(network_peer_cursor[1], network_peer_cursor[2])'
<1>1. ASSUME Moved, [Next]_vars
      PROVE  \E k : network_cursor_step(k) \/ network_enter_peer_focus(k)
  <2>1. CASE Surroundings \/ handle_swarm_events \/ FeedbackTimeout \/ UNCHANGED vars
    BY <1>1, <2>1, SurroundingsKeepView, HearingKeepsView DEF FeedbackTimeout, vars, focus
  <2>2. CASE Quit \/ OpenPrompt \/ toggle_logs \/ Pick
    BY <1>1, <2>2 DEF Quit, OpenPrompt, toggle_logs, Pick, focus
  <2>3. CASE network_toggle_expand_selected \/ Expand
    BY <1>1, <2>3 DEF network_toggle_expand_selected, Expand
  <2>4. ASSUME NEW k, PromptKey(k) \/ scroll_logs(k) \/ SwitchTab(k) \/ SelectServer(k) \/ network_exit_peer_focus(k)
        PROVE  FALSE
    BY <1>1, <2>4 DEF PromptKey, scroll_logs, SwitchTab, SelectServer, network_exit_peer_focus, focus
  <2>. QED
    BY <1>1, <2>1, <2>2, <2>3, <2>4 DEF Next, KeyPressed
<1>2. ASSUME NEW k, OnNetwork(k), NEW port
      PROVE  ordered_pool_for(port)' = ordered_pool_for(port)
  BY <1>2 DEF OnNetwork, Bound, Key, table, ordered_pool_for, pool_sort_key
<1>3. ASSUME IInv, Typed, Moved, NEW k, network_cursor_step(k), NEW port, port = network_peer_cursor[1]
      PROVE  Lands
  <2> DEFINE last == Len(ordered_pool_for(port))
             row  == Least(network_peer_cursor[2], last)
             next == IF k = "Down" THEN Least(row + 1, last) ELSE IF row = 1 THEN 1 ELSE row - 1
  <2>1. network_peer_cursor' = IF last = 0 THEN Nowhere ELSE <<port, next>>
    BY <1>3 DEF network_cursor_step
  <2>2. /\ network_peer_cursor # Nowhere /\ network_peer_cursor \in Ports \X (Nat \ {0})
        /\ port = network_peer_cursor[1] /\ port = Selected /\ Selected \in network_expanded
        /\ network_selected_idx' = network_selected_idx /\ network_expanded' = network_expanded
    BY <1>3 DEF network_cursor_step, Typed, KeysOK, IInv, CursorInOpenTable
  <2>3. port \in Ports /\ network_peer_cursor[2] \in Nat \ {0}
    BY <2>2
  <2>4. ordered_pool_for(port) \in Seq(Peers)
    BY <1>3, <2>3, RowsAre DEF Typed, PoolsOK, PoolOK
  <2>5. last \in Nat /\ DOMAIN ordered_pool_for(port) = 1 .. last
    BY <2>4
  <2>6. ordered_pool_for(port)' = ordered_pool_for(port)
    BY <1>2, <1>3 DEF network_cursor_step
  <2>. HIDE DEF last
  <2>7. last # 0 => next \in 1 .. last
    BY <2>3, <2>5 DEF Least
  <2>. HIDE DEF next
  <2>8. network_peer_cursor' = <<port, next>> /\ next \in 1 .. last
    BY <1>3, <2>1, <2>7
  <2>. QED
    BY <2>2, <2>5, <2>6, <2>8 DEF Highlighted, Selected
<1>4. ASSUME Typed, NEW k, network_enter_peer_focus(k), NEW port, port = Selected
      PROVE  Lands
  <2>1. /\ network_peer_cursor' = <<port, 1>> /\ port \in network_expanded
        /\ ordered_pool_for(port) # <<>>
        /\ network_selected_idx' = network_selected_idx /\ network_expanded' = network_expanded
    BY <1>4 DEF network_enter_peer_focus
  <2>2. port \in Ports
    BY <1>4, SomeServer DEF Typed, KeysOK, Selected, Ports, ToSet
  <2>3. ordered_pool_for(port) \in Seq(Peers)
    BY <1>4, <2>2, RowsAre DEF Typed, PoolsOK, PoolOK
  <2>4. 1 \in DOMAIN ordered_pool_for(port)
    BY <2>1, <2>3
  <2>5. ordered_pool_for(port)' = ordered_pool_for(port)
    BY <1>2, <1>4 DEF network_enter_peer_focus
  <2>. QED
    BY <1>4, <2>1, <2>4, <2>5 DEF Highlighted, Selected
<1>5. IInv /\ Typed /\ [Next]_vars => [Moved => Lands]_vars
  BY <1>1, <1>3, <1>4
<1>. QED
  BY <1>5, Inductive, TypedInductive, PTL DEF Spec, CursorLandsOnRow
===============================================================================
