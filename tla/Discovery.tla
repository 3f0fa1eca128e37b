------------------------------ MODULE Discovery ------------------------------
(***************************************************************************)
(* The discovery actor (crates/p2proxy/src/runtime/discovery/actor.rs) and *)
(* what surrounds it: the swarm whose connections come and go, the tasks   *)
(* that carry its notifications, the timers of throttled rediscoveries,    *)
(* the SOCKS sessions that ask for an exit or report one as unfit, and the *)
(* operator who picks one by hand.                                         *)
(*                                                                         *)
(* Every event reaches the actor through a task of its own: the network    *)
(* actor spawns one per connection event (network/actor.rs:229, 245), a    *)
(* throttled port has one that sleeps, sessions are tasks.  On the         *)
(* multi-threaded runtime any of them may run first, so `mail`, the events *)
(* sent and not yet handled, is a bag.                                     *)
(*                                                                         *)
(* The actor handles one event at a time and awaits inside a handler only  *)
(* while `connect` makes its effort for a port; that effort ends with one  *)
(* of the outcomes that Connect implements.  The swarm listens, so a peer  *)
(* may also connect unasked.                                               *)
(*                                                                         *)
(* Bounds: MaxMail distinct events from the surroundings in the mail and   *)
(* MaxCopies equal ones, MaxTimers sleeping timers per port, MaxLinks      *)
(* connections per peer.  The surroundings hold back at a bound; a timer   *)
(* too many is not counted, so that no bound ever stops the actor.         *)
(***************************************************************************)
EXTENDS ConnectOutcome

CONSTANTS
  Ports, NoPort,
  Server,        \* Server[port]: the configuration of the port
  PoolsAtStart,  \* PoolsAtStart[port]: what the sticky store may have loaded
  Unfit,         \* the peers that do not speak the proxy protocol
  Picked,        \* the peers the operator may pick
  Asking,        \* whether sessions ask for an exit when there is none
  MaxMail, MaxCopies, MaxTimers, MaxLinks

ASSUME NoPeerIsNoPeer == NoPeer \notin Peers
ASSUME NoPortIsNoPort == NoPort \notin Ports
ASSUME ServerIsConfigured ==
  Server \in [Ports -> [pinned : Seq(Peers), fallback : BOOLEAN, sticky : BOOLEAN,
                        backoff : BOOLEAN, max : Nat, fp : Fingerprints]]
(* The store holds what this program saved.                                *)
ASSUME StoredPoolsAreWellFormed ==
  \A port \in Ports : \A pool \in PoolsAtStart[port] :
    pool \in PoolsOver(Peers, {"direct"}, Fingerprints) /\ WellFormed(pool)

ASSUME BoundsArePositive == {MaxMail, MaxCopies, MaxTimers, MaxLinks} \subseteq Nat \ {0}

Kinds == {"relayed", "direct"}

VARIABLES
  dest,      \* destinations: the active exit of each port, or NoPeer
  pools,     \* the sticky store
  cooling,   \* ports whose last_rediscovery is younger than the cooldown
  pending,   \* pending_rediscovery
  direct,    \* direct_peers
  sleeping,  \* per port, timers spawned by throttled closes that still sleep
  mail,      \* per event, how many are sent and not yet handled
  links,     \* per peer, the connections the swarm has, by kind
  handling,  \* the handler that runs, or "nothing"
  cause,     \* the peer its event is about
  todo,      \* ports whose exit that handler has yet to replace
  effort,    \* the port that connect is making its effort for, or NoPort
  reached,   \* the peer that effort's dial reported, or NoPeer
  gaveUp     \* history: ports that are dark because their last effort failed

store == <<dest, pools, gaveUp>>
throttle == <<cooling, pending, sleeping>>
handler == <<handling, cause, todo, effort, reached>>
vars == <<store, throttle, direct, mail, links, handler>>

DiscoverFor(port)      == [kind |-> "DiscoverFor", port |-> port]
RequestNewPeer(port)   == [kind |-> "RequestNewPeer", port |-> port]
PeerClosed(p)          == [kind |-> "PeerClosed", peer |-> p]
PeerUnusable(p)        == [kind |-> "PeerUnusable", peer |-> p]
PeerConnected(p, link) == [kind |-> "PeerConnected", peer |-> p, link |-> link]
SelectPeer(port, p)    == [kind |-> "SelectPeer", port |-> port, peer |-> p]

Events ==
  [kind : {"DiscoverFor", "RequestNewPeer"}, port : Ports]
    \cup [kind : {"PeerClosed", "PeerUnusable"}, peer : Peers]
    \cup [kind : {"PeerConnected"}, peer : Peers, link : Kinds]
    \cup [kind : {"SelectPeer"}, port : Ports, peer : Peers]

TypeOK ==
  /\ dest \in [Ports -> Peers \cup {NoPeer}]
  /\ pools \in [Ports -> PoolsOver(Peers, {"direct"}, Fingerprints)]
  /\ \A port \in Ports : WellFormed(pools[port])
  /\ cooling \subseteq Ports /\ pending \subseteq Ports /\ gaveUp \subseteq Ports
  /\ direct \subseteq Peers
  /\ sleeping \in [Ports -> Nat]
  /\ mail \in [Events -> Nat]
  /\ links \in [Peers -> [Kinds -> Nat]]
  /\ handling \in {"nothing", "discover", "closed", "unusable", "select"}
  /\ cause \in Peers \cup {NoPeer}
  /\ todo \subseteq Ports
  /\ effort \in Ports \cup {NoPort}
  /\ reached \in Peers \cup {NoPeer}

(* main.rs sends a DiscoverFor for every port once the actors run.         *)
Init ==
  /\ dest = [port \in Ports |-> NoPeer]
  /\ pools \in {p \in [Ports -> UNION {PoolsAtStart[port] : port \in Ports}] :
                  \A port \in Ports : p[port] \in PoolsAtStart[port]}
  /\ cooling = {} /\ pending = {} /\ gaveUp = {} /\ direct = {}
  /\ sleeping = [port \in Ports |-> 0]
  /\ mail = [e \in Events |-> IF e.kind = "DiscoverFor" THEN 1 ELSE 0]
  /\ links = [p \in Peers |-> [k \in Kinds |-> 0]]
  /\ handling = "nothing" /\ cause = NoPeer /\ todo = {}
  /\ effort = NoPort /\ reached = NoPeer

UpTo(bound, n) == IF n > bound THEN bound ELSE n
Connected(p) == \E k \in Kinds : links[p][k] > 0
Serving(p) == {port \in Ports : dest[port] = p}
Sent(e) == mail[e] > 0
HasRoom(e) == /\ Cardinality({x \in Events : Sent(x)} \cup {e}) <= MaxMail
              /\ mail[e] < MaxCopies
Sends(e) == mail' = [mail EXCEPT ![e] = @ + 1]
Receives(e) == handling = "nothing" /\ Sent(e) /\ mail' = [mail EXCEPT ![e] = @ - 1]
-----------------------------------------------------------------------------
(***************************************************************************)
(* discover: its first act drops the pending mark, then it awaits connect. *)
(***************************************************************************)
(* A slip: the pending mark outlives the effort.                           *)
BeginEffortMarked(port) ==
  /\ effort' = port /\ reached' = NoPeer /\ UNCHANGED pending

BeginEffort(port) ==
  /\ effort' = port /\ reached' = NoPeer /\ pending' = pending \ {port}

Avoided == IF handling = "closed" THEN cause ELSE NoPeer

(* What connect may return: the peer its last dial reported, or a better   *)
(* pinned rank that happens to be connected.                               *)
Better(o) ==
  \E b, r \in DOMAIN Server[effort].pinned :
     /\ b < r /\ Server[effort].pinned[r] = reached
     /\ o.peer = Server[effort].pinned[b] /\ Connected(o.peer)

EffortOutcomes ==
  {o \in Outcomes(Server[effort], pools[effort], Avoided) :
     o.peer = reached \/ (o.source = "pinned" /\ Better(o))}

(* The peers the effort in progress may be dialing.                        *)
Dialable ==
  IF effort = NoPort THEN {}
  ELSE IF handling = "select" THEN {cause}
  ELSE {o.peer : o \in Outcomes(Server[effort], pools[effort], Avoided)} \ {NoPeer}

Continue(left) ==
  /\ todo' = left
  /\ handling' = IF left = {} THEN "nothing" ELSE handling
  /\ cause' = IF left = {} THEN NoPeer ELSE cause

SetDestination(port, p) ==
  /\ dest' = [dest EXCEPT ![port] = p]
  /\ gaveUp' = gaveUp \ {port}

(* The rest of discover: set_destination, or clear_destination on Err.     *)
FinishEffort ==
  /\ effort # NoPort /\ handling # "select"
  /\ \E o \in EffortOutcomes :
       /\ pools' = [pools EXCEPT ![effort] = o.pool]
       /\ dest' = [dest EXCEPT ![effort] = o.peer]
       /\ gaveUp' = IF o.peer = NoPeer THEN gaveUp \cup {effort} ELSE gaveUp \ {effort}
  /\ effort' = NoPort /\ reached' = NoPeer
  /\ Continue(todo)
  /\ UNCHANGED <<throttle, direct, mail, links>>

HandleDiscover(e) ==
  /\ e.kind \in {"DiscoverFor", "RequestNewPeer"}
  /\ Receives(e)
  /\ handling' = "discover" /\ BeginEffort(e.port)
  /\ UNCHANGED <<store, cooling, sleeping, direct, links, cause, todo>>
-----------------------------------------------------------------------------
(***************************************************************************)
(* handle_peer_closed: for every port the peer was serving, rediscover now *)
(* or, when the last rediscovery is too recent, go dark and let one timer  *)
(* rediscover once the cooldown has lapsed.                                *)
(***************************************************************************)
HandlePeerClosed(e) ==
  /\ e.kind = "PeerClosed"
  /\ Receives(e)
  /\ direct' = direct \ {e.peer}
  /\ todo' = Serving(e.peer)
  /\ IF Serving(e.peer) = {} THEN UNCHANGED <<handling, cause>>
                             ELSE handling' = "closed" /\ cause' = e.peer
  /\ UNCHANGED <<store, throttle, links, effort, reached>>

(* A slip: the port is abandoned, with no timer.                           *)
GoDarkForGood(port) ==
  /\ handling = "closed" /\ effort = NoPort /\ port \in todo /\ port \in cooling
  /\ SetDestination(port, NoPeer)
  /\ Continue(todo \ {port})
  /\ UNCHANGED <<pools, throttle, direct, mail, links, effort, reached>>

(* A slip: the active pointer is left on the peer that is gone.            *)
GoDarkLater(port) ==
  /\ handling = "closed" /\ effort = NoPort /\ port \in todo /\ port \in cooling
  /\ pending' = pending \cup {port}
  /\ sleeping' = IF port \in pending THEN sleeping ELSE [sleeping EXCEPT ![port] = UpTo(MaxTimers, @ + 1)]
  /\ Continue(todo \ {port})
  /\ UNCHANGED <<store, cooling, direct, mail, links, effort, reached>>

GoDark(port) ==
  /\ handling = "closed" /\ effort = NoPort /\ port \in todo /\ port \in cooling
  /\ SetDestination(port, NoPeer)
  /\ pending' = pending \cup {port}
  /\ sleeping' = IF port \in pending THEN sleeping ELSE [sleeping EXCEPT ![port] = UpTo(MaxTimers, @ + 1)]
  /\ Continue(todo \ {port})
  /\ UNCHANGED <<pools, cooling, direct, mail, links, effort, reached>>

RediscoverClosed(port) ==
  /\ handling = "closed" /\ effort = NoPort /\ port \in todo /\ port \notin cooling
  /\ cooling' = cooling \cup {port}
  /\ todo' = todo \ {port}
  /\ BeginEffort(port)
  /\ UNCHANGED <<store, sleeping, direct, mail, links, handling, cause>>

(* A slip: the timers wake and send nothing.                               *)
CooldownLapsesSilently(port) ==
  /\ port \in cooling
  /\ cooling' = cooling \ {port}
  /\ sleeping' = [sleeping EXCEPT ![port] = 0]
  /\ UNCHANGED <<store, pending, direct, mail, links, handler>>

(* The cooldown of a port lapses; timers spawned during it were set to     *)
(* wake at that very moment, and each sends a DiscoverFor.                 *)
CooldownLapses(port) ==
  /\ port \in cooling
  /\ cooling' = cooling \ {port}
  /\ mail' = [mail EXCEPT ![DiscoverFor(port)] = UpTo(MaxCopies, @ + sleeping[port])]
  /\ sleeping' = [sleeping EXCEPT ![port] = 0]
  /\ UNCHANGED <<store, pending, direct, links, handler>>
-----------------------------------------------------------------------------
(***************************************************************************)
(* PeerConnected: a direct link is remembered in every pool that holds the *)
(* peer, and ports stuck on a relayed exit move to it if it is in theirs.  *)
(***************************************************************************)
HandleRelayed(e) ==
  /\ e.kind = "PeerConnected" /\ e.link = "relayed"
  /\ Receives(e)
  /\ direct' = direct \ {e.peer}
  /\ UNCHANGED <<store, throttle, links, handler>>

RelayStuck(port, candidate) ==
  dest[port] \notin {NoPeer, candidate} \cup direct

(* A slip: the address is not recorded.                                    *)
Unnoted(port, p) == pools[port]

Noted(port, p) == NoteDirect(pools[port], p, "direct")

RotatesTo(port, p) == RelayStuck(port, p) /\ Remembers(Opened(Noted(port, p), Server[port].fp), p)

(* A slip: an exit adopted by hand or by rotation is not remembered.       *)
AdoptedUnremembered(port, pool, p) == pool

AdoptedBy(port, pool, p) == Remember(pool, Server[port].fp, p, Server[port].max)

HandleDirect(e) ==
  /\ e.kind = "PeerConnected" /\ e.link = "direct"
  /\ Receives(e)
  /\ direct' = direct \cup {e.peer}
  /\ pools' = [port \in Ports |->
       IF RotatesTo(port, e.peer) THEN AdoptedBy(port, Noted(port, e.peer), e.peer)
       ELSE IF RelayStuck(port, e.peer) THEN Opened(Noted(port, e.peer), Server[port].fp)
       ELSE Noted(port, e.peer)]
  /\ dest' = [port \in Ports |-> IF RotatesTo(port, e.peer) THEN e.peer ELSE dest[port]]
  /\ UNCHANGED <<gaveUp, throttle, links, handler>>
-----------------------------------------------------------------------------
(***************************************************************************)
(* handle_peer_unusable: forget the peer everywhere, then rediscover for   *)
(* every port it was serving.                                              *)
(***************************************************************************)
HandlePeerUnusable(e) ==
  /\ e.kind = "PeerUnusable"
  /\ Receives(e)
  /\ pools' = [port \in Ports |-> Forget(pools[port], e.peer)]
  /\ todo' = Serving(e.peer)
  /\ IF Serving(e.peer) = {} THEN UNCHANGED <<handling, cause>>
                             ELSE handling' = "unusable" /\ cause' = e.peer
  /\ UNCHANGED <<dest, gaveUp, throttle, direct, links, effort, reached>>

RediscoverUnusable(port) ==
  /\ handling = "unusable" /\ effort = NoPort /\ port \in todo
  /\ todo' = todo \ {port}
  /\ BeginEffort(port)
  /\ UNCHANGED <<store, cooling, sleeping, direct, mail, links, handling, cause>>
-----------------------------------------------------------------------------
(***************************************************************************)
(* select_peer: reach the operator's choice, then adopt_specific; a choice *)
(* that cannot be reached changes nothing.                                 *)
(***************************************************************************)
HandleSelect(e) ==
  /\ e.kind = "SelectPeer"
  /\ Receives(e)
  /\ handling' = "select" /\ cause' = e.peer
  /\ effort' = e.port /\ reached' = NoPeer
  /\ UNCHANGED <<store, throttle, direct, links, todo>>

FinishSelect ==
  /\ handling = "select" /\ effort # NoPort
  /\ IF reached = NoPeer THEN UNCHANGED store
     ELSE /\ pools' = [pools EXCEPT ![effort] = AdoptedBy(effort, @, reached)]
          /\ SetDestination(effort, reached)
  /\ effort' = NoPort /\ reached' = NoPeer
  /\ Continue({})
  /\ UNCHANGED <<throttle, direct, mail, links>>
-----------------------------------------------------------------------------
(***************************************************************************)
(* The swarm, as network/actor.rs reports it: every connection that comes  *)
(* up or goes is announced, whatever other connections the peer has.  One  *)
(* that comes up answers the dial the effort awaits when the peer is among *)
(* its candidates.                                                         *)
(***************************************************************************)
Establish(p, link) ==
  /\ links[p]["relayed"] + links[p]["direct"] < MaxLinks
  /\ HasRoom(PeerConnected(p, link))
  /\ links' = [links EXCEPT ![p][link] = @ + 1]
  /\ Sends(PeerConnected(p, link))
  /\ reached' \in {reached} \cup IF reached = NoPeer /\ p \in Dialable THEN {p} ELSE {}
  /\ UNCHANGED <<store, throttle, direct, handling, cause, todo, effort>>

Close(p, link) ==
  /\ links[p][link] > 0
  /\ HasRoom(PeerClosed(p))
  /\ links' = [links EXCEPT ![p][link] = @ - 1]
  /\ Sends(PeerClosed(p))
  /\ UNCHANGED <<store, throttle, direct, handler>>
-----------------------------------------------------------------------------
(***************************************************************************)
(* The sessions and the operator (session/relay.rs, tui/mod.rs).           *)
(***************************************************************************)
SessionAsks(port) ==
  /\ Asking /\ dest[port] = NoPeer
  /\ HasRoom(RequestNewPeer(port)) /\ Sends(RequestNewPeer(port))
  /\ UNCHANGED <<store, throttle, direct, links, handler>>

(* A session may have read its exit long ago: it need not serve any more.  *)
SessionReports(p) ==
  /\ p \in Unfit
  /\ HasRoom(PeerUnusable(p)) /\ Sends(PeerUnusable(p))
  /\ UNCHANGED <<store, throttle, direct, links, handler>>

OperatorPicks(port, p) ==
  /\ p \in Picked
  /\ HasRoom(SelectPeer(port, p)) /\ Sends(SelectPeer(port, p))
  /\ UNCHANGED <<store, throttle, direct, links, handler>>
-----------------------------------------------------------------------------
Handle(e) ==
  \/ HandleDiscover(e) \/ HandlePeerClosed(e) \/ HandleRelayed(e) \/ HandleDirect(e)
  \/ HandlePeerUnusable(e) \/ HandleSelect(e)

Carry(port) == GoDark(port) \/ RediscoverClosed(port) \/ RediscoverUnusable(port)

Resume == FinishEffort \/ FinishSelect \/ \E port \in Ports : Carry(port)

Next ==
  \/ \E e \in Events : Handle(e)
  \/ Resume
  \/ \E port \in Ports : CooldownLapses(port) \/ SessionAsks(port)
  \/ \E p \in Peers, link \in Kinds : Establish(p, link) \/ Close(p, link)
  \/ \E p \in Peers : SessionReports(p)
  \/ \E port \in Ports, p \in Peers : OperatorPicks(port, p)

Spec == Init /\ [][Next]_vars

(* A handler that has begun goes on, since connect returns; time passes;   *)
(* and an event is not put off for ever: its task gets to send it and the  *)
(* channel is first in, first out.  The swarm, the sessions and the        *)
(* operator need do nothing.                                               *)
Fairness ==
  /\ WF_vars(Resume)
  /\ \A port \in Ports : WF_vars(CooldownLapses(port))
  /\ \A e \in Events : SF_vars(Handle(e))

FairSpec == Spec /\ Fairness
-----------------------------------------------------------------------------
(* What keeps a port from being forgotten: a timer that will ask for a     *)
(* discovery, a DiscoverFor under way, or a discovery being made.          *)
Scheduled(port) == sleeping[port] > 0 \/ Sent(DiscoverFor(port))
BeingServed(port) == effort = port /\ handling # "select"

(* A throttled close "doesn't abandon the port" (actor.rs:100-103): a port *)
(* that is dark, and not because its last effort failed, has a rediscovery *)
(* coming, whatever requests, picks and older timers arrive in between.    *)
ThrottledPortScheduled ==
  \A port \in Ports :
    dest[port] = NoPeer /\ port \notin gaveUp => Scheduled(port) \/ BeingServed(port)

(* What makes it so: the pending mark, which keeps handle_peer_closed from *)
(* spawning a timer, is only there while an earlier timer or its           *)
(* DiscoverFor is.                                                         *)
PendingIsScheduled == \A port \in pending : Scheduled(port)

(* A port that goes dark without an effort having failed is given an exit  *)
(* or an effort that fails, in the end.                                    *)
ThrottledPortRetried ==
  \A port \in Ports :
    (dest[port] = NoPeer /\ port \notin gaveUp) ~> (dest[port] # NoPeer \/ port \in gaveUp)

(* An exit whose last connection has gone does not stay unnoticed: the     *)
(* close is on its way or its handler is about to get to the port.  The    *)
(* effort that adopted the exit may well have run while it went.           *)
DeadExitNoticed ==
  \A port \in Ports :
    dest[port] # NoPeer /\ ~Connected(dest[port]) =>
      \/ Sent(PeerClosed(dest[port]))
      \/ port \in todo \/ BeingServed(port)

(* The exit that serves an unpinned sticky server is at the front of its   *)
(* pool, under its own filters, so a restart tries it first                *)
(* (connect.rs:249-250).  While a handler runs the two may differ.         *)
ExitHeadsPool ==
  \A port \in Ports :
    /\ handling = "nothing" /\ dest[port] # NoPeer
    /\ Server[port].sticky /\ Server[port].pinned = <<>>
    => /\ pools[port].fp = Server[port].fp /\ Bounded(pools[port], Server[port].max)
       /\ Remembers(pools[port], dest[port]) /\ PositionOf(pools[port], dest[port]) = 1

(* Once its notifications are handled, an exit believed to be reached      *)
(* directly has its address remembered, so that a later reconnect "can     *)
(* dial it straight" (actor.rs:128-129).                                   *)
DirectExitRemembered ==
  \A port \in Ports :
    /\ handling = "nothing" /\ (\A e \in Events : e.kind = "PeerConnected" => ~Sent(e))
    /\ dest[port] \in direct /\ Remembers(pools[port], dest[port])
    => DirectAddress(pools[port], dest[port]) # NoAddress

(* "The exit your traffic appears from changes only when the node actually *)
(* becomes unreachable", README.md:118: the handler of a close, which does *)
(* not ask what connections the peer has left, takes no port dark whose    *)
(* exit is connected, every connection of it announced and handled.        *)
ConnectedExitKept ==
  [][\A port \in Ports :
       /\ handling = "closed" /\ effort = NoPort /\ dest[port] = cause
       /\ Connected(cause) /\ \A k \in Kinds : ~Sent(PeerConnected(cause, k))
       => dest'[port] = cause]_vars
=============================================================================
