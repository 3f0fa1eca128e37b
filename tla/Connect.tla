------------------------------- MODULE Connect -------------------------------
(***************************************************************************)
(* One call of ConnectCtx::connect (crates/core/src/domain/connect.rs),    *)
(* step by step: the pinned passes, the fight for a dropped sticky exit,   *)
(* the pool pre-pass, the discovery attempts, and for each of them the     *)
(* dial that races direct routes before relay circuits.  A step runs from  *)
(* one dial to the next: the hub query whose answer only the following     *)
(* dial uses belongs to the step that starts that dial.                    *)
(*                                                                         *)
(* A route is a peer and the kind of address that leads to it:             *)
(*   direct   an address the peer currently listens on                     *)
(*   stale    a direct address it had, remembered but dead                 *)
(*   circuit  a relay circuit through the hub                              *)
(*                                                                         *)
(* In a stable world reachability does not change during the effort: `up`  *)
(* holds the routes that work, and a dial succeeds exactly when one of its *)
(* routes is up.  Otherwise any dial may succeed or time out.              *)
(* Sleeps change no state and are left out: they only pace the loops.      *)
(* `routes` and `resolved` are emptied where their scope ends.             *)
(***************************************************************************)
EXTENDS ConnectOutcome

CONSTANTS
  Servers, RememberedAt,  \* as in ConnectSpec
  Worlds,            \* [stable, hub]: whether reachability is fixed during the
                     \* effort, and how the hub may answer
  PinnedPasses,      \* MAX_PINNED_PASSES
  DiscoveryAttempts, \* MAX_DISCOVERY_ATTEMPTS
  ReconnectAttempts  \* STICKY_RECONNECT_ATTEMPTS

ASSUME BoundsAreCounts ==
  /\ {PinnedPasses, DiscoveryAttempts, ReconnectAttempts} \subseteq Nat \ {0}
  /\ Worlds \subseteq [stable : BOOLEAN,
                       hub : (SUBSET {"answers", "unsupported", "fails"}) \ {{}}]

ASSUME NoPeerIsNoPeer == NoPeer \notin Peers

VARIABLES
  server, avoid,     \* the arguments of the call
  pool0,             \* the port's sticky pool when the call began
  world,             \* what the effort meets: a member of Worlds
  up,                \* the routes that work, when they are fixed
  pc,                \* where the flow is
  back,              \* who awaits the dial in progress
  tries,             \* the passes or attempts of the current loop so far
  rank,              \* the pinned entry under consideration
  resolved,          \* the routes the hub gave for the pinned peers in this pass
  skip,              \* the peer the pool pre-pass passes over
  todo,              \* the pool members it has yet to try
  routes,            \* the addresses of the dial in progress
  reached,           \* the peer that dial connected, or NoPeer
  pool,              \* the port's sticky pool
  result             \* what the call returned: <<>> until it does

inputs == <<server, avoid, pool0, world, up>>
vars == <<inputs, pc, back, tries, rank, resolved, skip, todo, routes, reached, pool, result>>

Route(p, kind) == [peer |-> p, kind |-> kind]
Advertised == {"direct", "circuit"}
Routes == [peer : Peers, kind : Advertised \cup {"stale"}]
Remembered == {"direct", "stale"}
StoredPools == PoolsOver(Peers, Remembered, Fingerprints)

(* `verbatim` are the routes the pinned entries spell out.                 *)
ASSUME ServersAreConfigured ==
  Servers \subseteq [pinned : Seq(Peers), verbatim : SUBSET Routes, fallback : BOOLEAN,
                    sticky : BOOLEAN, backoff : BOOLEAN, max : Nat, fp : Fingerprints]

(* The store holds what this program saved.                                *)
ASSUME RememberedPoolsAreWellFormed ==
  \A s \in Servers : \A q \in RememberedAt[s] : q \in StoredPools /\ WellFormed(q)

ToPeer(p, kinds) == {Route(p, kind) : kind \in kinds}
IsRelayed(route) == route.kind = "circuit"
Live == {r \in routes : ~world.stable \/ r \in up}
Reachable(p) == \E r \in up : r.peer = p
PinnedPeers == ToSet(server.pinned)

Phases == {"start", "pass", "rank", "reconnect", "pool", "member", "find",
           "direct", "relay", "reached", "missed", "done"}

TypeOK ==
  /\ server \in Servers /\ world \in Worlds
  /\ {avoid, skip, reached} \subseteq Peers \cup {NoPeer}
  /\ up \subseteq Routes /\ routes \subseteq Routes /\ resolved \subseteq Routes
  /\ pc \in Phases
  /\ back \in {"none", "rank", "reconnect", "member", "find"}
  /\ tries \in Nat /\ rank \in Nat
  /\ todo \in Seq(Peers)
  /\ {pool0, pool} \subseteq StoredPools /\ WellFormed(pool0) /\ WellFormed(pool)
  /\ Bounded(pool, server.max) \/ Len(pool.peers) <= Len(pool0.peers)
  /\ result \in Seq([peer : Peers \cup {NoPeer}, source : Sources]) /\ Len(result) <= 1

Init ==
  /\ server \in Servers
  /\ avoid \in Peers \cup {NoPeer}
  /\ pool0 \in RememberedAt[server]
  /\ world \in Worlds
  /\ up \in IF world.stable THEN SUBSET {r \in Routes : r.kind # "stale"} ELSE {{}}
  /\ pc = "start" /\ back = "none" /\ tries = 0 /\ rank = 1 /\ resolved = {}
  /\ skip = avoid /\ todo = <<>> /\ routes = {} /\ reached = NoPeer
  /\ pool = pool0 /\ result = <<>>

(***************************************************************************)
(* What the hub gives when asked for the routes of some peers.  A hub that *)
(* cannot resolve leaves a circuit per peer; one that fails leaves nothing *)
(* until the next pass.                                                    *)
(***************************************************************************)
ResolveRoutes(peers) ==
  LET known   == IF world.stable THEN {up} ELSE SUBSET UNION {ToPeer(p, Advertised) : p \in peers}
      circuit == UNION {ToPeer(p, {"circuit"}) : p \in peers}
  IN  (IF "answers" \in world.hub THEN {{r \in k : r.peer \in peers} : k \in known} ELSE {})
        \cup (IF "unsupported" \in world.hub THEN {circuit} ELSE {})
        \cup (IF "fails" \in world.hub THEN {{}} ELSE {})

(* The verbatim address of a pinned entry is dialed besides what the hub   *)
(* resolved.                                                               *)
CandidateRoutes(r) ==
  {route \in resolved \cup server.verbatim : route.peer = server.pinned[r]}

(* A slip: the hub is not asked about a peer whose address is remembered.  *)
RoutesToRemembered(p) ==
  IF DirectAddress(pool, p) # NoAddress THEN {ToPeer(p, {DirectAddress(pool, p)})}
  ELSE ResolveRoutes({p})

(* try_reach_peer: the remembered direct address and the hub's routes, or  *)
(* a circuit when there are neither.                                       *)
RoutesToKnown(p) ==
  LET direct == IF DirectAddress(pool, p) = NoAddress THEN {}
                ELSE ToPeer(p, {DirectAddress(pool, p)})
      all    == {direct \cup found : found \in ResolveRoutes({p})}
  IN  {IF r = {} THEN ToPeer(p, {"circuit"}) ELSE r : r \in all}

Dial(addresses, caller) ==
  /\ pc' = "direct" /\ back' = caller /\ routes' = addresses /\ reached' = NoPeer

Return(p, source) ==
  /\ pc' = "done" /\ result' = <<[peer |-> p, source |-> source]>>

Fail == Return(NoPeer, "none")

(* A slip: `with-backoff` is not heeded.                                   *)
StartWithoutFight ==
  /\ pc = "start"
  /\ pc' = IF server.pinned # <<>> THEN "pass" ELSE "pool"
  /\ UNCHANGED <<inputs, back, tries, rank, resolved, skip, todo, routes, reached, pool, result>>

\* connect
Start ==
  /\ pc = "start"
  /\ pc' = IF server.pinned # <<>> THEN "pass"
           ELSE IF FightsFor(server, avoid) THEN "reconnect" ELSE "pool"
  /\ UNCHANGED <<inputs, back, tries, rank, resolved, skip, todo, routes, reached, pool, result>>
-----------------------------------------------------------------------------
\* connect_pinned

BeginPass ==
  /\ pc = "pass" /\ tries < PinnedPasses
  /\ resolved' \in ResolveRoutes(PinnedPeers)
  /\ pc' = "rank" /\ rank' = 1
  /\ UNCHANGED <<inputs, back, tries, skip, todo, routes, reached, pool, result>>

SkipRank ==
  /\ pc = "rank" /\ rank <= Len(server.pinned) /\ CandidateRoutes(rank) = {}
  /\ rank' = rank + 1
  /\ UNCHANGED <<inputs, pc, back, tries, resolved, skip, todo, routes, reached, pool, result>>

TryRank ==
  /\ pc = "rank" /\ rank <= Len(server.pinned) /\ CandidateRoutes(rank) # {}
  /\ Dial(CandidateRoutes(rank), "rank")
  /\ UNCHANGED <<inputs, tries, rank, resolved, skip, todo, pool, result>>

RankMissed ==
  /\ pc = "missed" /\ back = "rank"
  /\ pc' = "rank" /\ rank' = rank + 1
  /\ UNCHANGED <<inputs, back, tries, resolved, skip, todo, routes, reached, pool, result>>

(* Another server's port, or a dial that timed out, may have left a        *)
(* connection to a better rank.                                            *)
MayBeConnected(p) == ~world.stable \/ Reachable(p)

(* A slip: a better rank is adopted without asking whether it connected.   *)
AdoptAnyBetterRank ==
  /\ pc = "reached" /\ back = "rank"
  /\ \E p \in {reached} \cup {server.pinned[b] : b \in 1..(rank - 1)} : Return(p, "pinned")
  /\ UNCHANGED <<inputs, back, tries, rank, resolved, skip, todo, routes, reached, pool>>

AdoptBestPinnedRank ==
  /\ pc = "reached" /\ back = "rank"
  /\ \E p \in {reached} \cup {server.pinned[b] : b \in 1..(rank - 1)} :
       /\ p = reached \/ MayBeConnected(p)
       /\ Return(p, "pinned")
  /\ UNCHANGED <<inputs, back, tries, rank, resolved, skip, todo, routes, reached, pool>>

PassFailed ==
  /\ pc = "rank" /\ rank > Len(server.pinned) /\ ~server.fallback
  /\ pc' = "pass" /\ tries' = tries + 1 /\ resolved' = {}
  /\ UNCHANGED <<inputs, back, rank, skip, todo, routes, reached, pool, result>>

FallBack ==
  /\ pc = "rank" /\ rank > Len(server.pinned) /\ server.fallback
  /\ pc' = "pool" /\ skip' = NoPeer /\ resolved' = {}
  /\ UNCHANGED <<inputs, back, tries, rank, todo, routes, reached, pool, result>>

PinnedExhausted ==
  /\ pc = "pass" /\ tries >= PinnedPasses
  /\ Fail
  /\ UNCHANGED <<inputs, back, tries, rank, resolved, skip, todo, routes, reached, pool>>
-----------------------------------------------------------------------------
\* connect_discovered: the fight for the exit that dropped

TryReconnect ==
  /\ pc = "reconnect"
  /\ \E r \in RoutesToKnown(avoid) : Dial(r, "reconnect")
  /\ UNCHANGED <<inputs, tries, rank, resolved, skip, todo, pool, result>>

ReconnectReached ==
  /\ pc = "reached" /\ back = "reconnect"
  /\ pool' = RememberedBy(server, pool, reached)
  /\ Return(reached, "sticky")
  /\ UNCHANGED <<inputs, back, tries, rank, resolved, skip, todo, routes, reached>>

ReconnectMissed ==
  /\ pc = "missed" /\ back = "reconnect" /\ tries + 1 < ReconnectAttempts
  /\ pc' = "reconnect" /\ tries' = tries + 1
  /\ UNCHANGED <<inputs, back, rank, resolved, skip, todo, routes, reached, pool, result>>

ReconnectGivenUp ==
  /\ pc = "missed" /\ back = "reconnect" /\ tries + 1 >= ReconnectAttempts
  /\ pc' = "pool" /\ pool' = Forget(pool, avoid)
  /\ UNCHANGED <<inputs, back, tries, rank, resolved, skip, todo, routes, reached, result>>
-----------------------------------------------------------------------------
\* connect_sticky_pool

OpenPool ==
  /\ pc = "pool" /\ server.sticky
  /\ todo' = MembersFor(pool, server.fp) /\ pool' = Opened(pool, server.fp)
  /\ pc' = "member"
  /\ UNCHANGED <<inputs, back, tries, rank, resolved, skip, routes, reached, result>>

SkipPool ==
  /\ pc = "pool" /\ ~server.sticky
  /\ pc' = "find" /\ tries' = 0
  /\ UNCHANGED <<inputs, back, rank, resolved, skip, todo, routes, reached, pool, result>>

PassOverDropped ==
  /\ pc = "member" /\ todo # <<>> /\ Head(todo) = skip
  /\ todo' = Tail(todo)
  /\ UNCHANGED <<inputs, pc, back, tries, rank, resolved, skip, routes, reached, pool, result>>

TryMember ==
  /\ pc = "member" /\ todo # <<>> /\ Head(todo) # skip
  /\ \E r \in RoutesToKnown(Head(todo)) : Dial(r, "member")
  /\ UNCHANGED <<inputs, tries, rank, resolved, skip, todo, pool, result>>

MemberReached ==
  /\ pc = "reached" /\ back = "member"
  /\ pool' = RememberedBy(server, pool, reached)
  /\ Return(reached, "sticky")
  /\ UNCHANGED <<inputs, back, tries, rank, resolved, skip, todo, routes, reached>>

(* A slip: a member that is gone stays in the pool.                        *)
MemberMissedAndKept ==
  /\ pc = "missed" /\ back = "member"
  /\ todo' = Tail(todo) /\ pc' = "member"
  /\ UNCHANGED <<inputs, back, tries, rank, resolved, skip, routes, reached, pool, result>>

MemberMissed ==
  /\ pc = "missed" /\ back = "member"
  /\ pool' = Forget(pool, Head(todo)) /\ todo' = Tail(todo)
  /\ pc' = "member"
  /\ UNCHANGED <<inputs, back, tries, rank, resolved, skip, routes, reached, result>>

PoolExhausted ==
  /\ pc = "member" /\ todo = <<>>
  /\ pc' = "find" /\ tries' = 0
  /\ UNCHANGED <<inputs, back, rank, resolved, skip, todo, routes, reached, pool, result>>
-----------------------------------------------------------------------------
\* run_discovery

(* The hub failed, or no peer matched the filters.                         *)
FindNothing ==
  /\ pc = "find" /\ tries < DiscoveryAttempts
  /\ tries' = tries + 1
  /\ UNCHANGED <<inputs, pc, back, rank, resolved, skip, todo, routes, reached, pool, result>>

(* Candidates come with their addresses; one that has none is given a      *)
(* circuit, so every candidate has a route.                                *)
FindCandidates ==
  /\ pc = "find" /\ tries < DiscoveryAttempts /\ "answers" \in world.hub
  /\ \E found \in SUBSET {r \in Routes : r.kind \in Advertised} \ {{}} : Dial(found, "find")
  /\ UNCHANGED <<inputs, tries, rank, resolved, skip, todo, pool, result>>

CandidateReached ==
  /\ pc = "reached" /\ back = "find"
  /\ pool' = RememberedBy(server, pool, reached)
  /\ Return(reached, "discovered")
  /\ UNCHANGED <<inputs, back, tries, rank, resolved, skip, todo, routes, reached>>

(* A slip: an attempt whose candidates all missed is not counted.          *)
CandidatesMissedUncounted ==
  /\ pc = "missed" /\ back = "find"
  /\ pc' = "find"
  /\ UNCHANGED <<inputs, back, tries, rank, resolved, skip, todo, routes, reached, pool, result>>

CandidatesMissed ==
  /\ pc = "missed" /\ back = "find"
  /\ pc' = "find" /\ tries' = tries + 1
  /\ UNCHANGED <<inputs, back, rank, resolved, skip, todo, routes, reached, pool, result>>

DiscoveryExhausted ==
  /\ pc = "find" /\ tries >= DiscoveryAttempts
  /\ Fail
  /\ UNCHANGED <<inputs, back, tries, rank, resolved, skip, todo, routes, reached, pool>>
-----------------------------------------------------------------------------
\* dial, dial_set

DialLeg(leg, addresses, next) ==
  /\ pc = leg
  /\ \/ \E r \in addresses \cap Live : pc' = "reached" /\ reached' = r.peer
     \/ /\ ~world.stable \/ addresses \cap Live = {}
        /\ pc' = next /\ UNCHANGED reached
  /\ routes' = IF pc' = "relay" THEN routes ELSE {}
  /\ UNCHANGED <<inputs, back, tries, rank, resolved, skip, todo, pool, result>>

DialDirect == DialLeg("direct", {r \in routes : ~IsRelayed(r)}, "relay")
DialRelay  == DialLeg("relay", {r \in routes : IsRelayed(r)}, "missed")

Returned == pc = "done" /\ UNCHANGED vars

Step ==
  \/ Start
  \/ BeginPass \/ SkipRank \/ TryRank \/ RankMissed \/ AdoptBestPinnedRank
  \/ PassFailed \/ FallBack \/ PinnedExhausted
  \/ TryReconnect \/ ReconnectReached \/ ReconnectMissed \/ ReconnectGivenUp
  \/ OpenPool \/ SkipPool \/ PassOverDropped \/ TryMember \/ MemberReached
  \/ MemberMissed \/ PoolExhausted
  \/ FindNothing \/ FindCandidates \/ CandidateReached \/ CandidatesMissed
  \/ DiscoveryExhausted
  \/ DialDirect \/ DialRelay

Next == Step \/ Returned

(* The flow never waits on anything unbounded: dials and hub queries have  *)
(* their own timeouts, so a step that can be taken is.                     *)
Spec == Init /\ [][Next]_vars /\ WF_vars(Step)
-----------------------------------------------------------------------------
(* The whole flow is one step of its promise: nothing an observer of the   *)
(* pool and of the result sees happens before it concludes, and it         *)
(* concludes with one of the outcomes promised, however the hub and the    *)
(* dials behave.                                                           *)
Promise == INSTANCE ConnectSpec WITH pool <- IF result = <<>> THEN pool0 ELSE pool

Implements == Promise!Safe

Concluded == result # <<>>
Exit == result[1].peer
Source == result[1].source

(* "One bounded effort" (connect.rs:73): whatever fails, passes, attempts  *)
(* and pool members run out and the call returns.  The actor that awaits   *)
(* it handles nothing else until it does.                                  *)
Terminates == <>Concluded

(* The world in which a preference can be honoured.                        *)
Steady == world = [stable |-> TRUE, hub |-> {"answers"}]

(* While reachability does not change and the hub gives the true routes,   *)
(* connect_pinned adopts the most preferred pinned peer that can be        *)
(* reached at all, whatever the other ranks do, and a hard pin gives up    *)
(* rather than take another peer.                                          *)
PinnedPreference ==
  Steady /\ Concluded /\ server.pinned # <<>> =>
    \/ \E r \in DOMAIN server.pinned :
         /\ Exit = server.pinned[r] /\ Reachable(Exit)
         /\ \A b \in 1..(r - 1) : ~Reachable(server.pinned[b])
    \/ /\ \A p \in PinnedPeers : ~Reachable(p)
       /\ server.fallback \/ Exit = NoPeer

(* The exits a sticky server prefers to discovery: the one that dropped,   *)
(* unless it fails fast, and the others of its pool.                       *)
KnownExits ==
  {p \in Peers : IF p = avoid THEN FightsFor(server, avoid)
                ELSE p \in ToSet(MembersFor(pool0, server.fp))}

(* The order it tries them in: the one that dropped, then from the most    *)
(* recently used.                                                          *)
TriedBefore(q, p) ==
  \/ q = avoid /\ p # avoid
  \/ avoid \notin {p, q} /\ PositionOf(pool0, q) < PositionOf(pool0, p)

(* Under the same conditions, connect_discovered keeps the egress where it *)
(* was as long as it can: it returns to the first known exit that can be   *)
(* reached, and discovers one only when no known exit can.                 *)
StickyPreference ==
  Steady /\ Concluded /\ server.pinned = <<>> /\ server.sticky =>
    \/ /\ Exit \in KnownExits /\ Source = "sticky" /\ Reachable(Exit)
       /\ \A q \in KnownExits : TriedBefore(q, Exit) => ~Reachable(q)
    \/ /\ \A q \in KnownExits : ~Reachable(q)
       /\ Source \in {"discovered", "none"}

(* A member is never pruned while it can be reached: one that left the     *)
(* pool during the effort made room for the exit adopted.                  *)
Evicted(p) == Len(pool.peers) = AtLeastOne(server.max) /\ ~Remembers(pool, p)

ReachableMembersKept ==
  Steady /\ Concluded /\ pool0.fp = server.fp =>
    \A p \in Peers : Remembers(pool0, p) /\ Reachable(p) => Remembers(pool, p) \/ Evicted(p)
=============================================================================
