------------------------------- MODULE Network -------------------------------
(***************************************************************************)
(* The network actor (crates/p2proxy/src/runtime/network/actor.rs): the    *)
(* dials that its callers await, the pings that tell dead connections, and *)
(* the link to the bootstrap hub that it restores.                         *)
(*                                                                         *)
(* The swarm only moves while the actor polls it, and the actor handles an *)
(* event before it polls again: what happens in the swarm and the handler  *)
(* of its event are one action here.  A peer may have several connections, *)
(* each "alive", "silent" (nothing passes, and nobody said so) or          *)
(* "closing", once the swarm was told to disconnect the peer.              *)
(*                                                                         *)
(* The hub's link is redialed by its address.  libp2p names the peer of an *)
(* outgoing connection that failed only when the address does (HubNamed).  *)
(* The swarm dials the hub on its own account too, for a relay circuit or  *)
(* a query that finds it disconnected, and then by its name.               *)
(*                                                                         *)
(* Bounds: MaxLinks connections per peer, and MaxHubDials dials of the hub *)
(* of either kind under way.                                               *)
(***************************************************************************)
EXTENDS Naturals

CONSTANTS
  Peers, Hub,
  Callers,      \* who may dial through the NetworkHandle
  HubNamed,     \* whether the hub's address ends in its peer id
  DialTimeout,  \* DIAL_TIMEOUT, in ticks of the clock
  PingStrikes,  \* MAX_PING_STRIKES
  MaxLinks, MaxHubDials

ASSUME HubIsNoExit == Hub \notin Peers
ASSUME HubNamedIsKnown == HubNamed \in BOOLEAN
ASSUME LimitsArePositive == {DialTimeout, PingStrikes, MaxLinks, MaxHubDials} \subseteq Nat \ {0}

VARIABLES
  running,            \* FALSE once the actor has shut down
  links,              \* the connections of each peer, by condition
  pendingDials,       \* pending_dials, each with its age
  answer,             \* per caller: what its last dial returned, or "awaited"
  bootstrapConnected, bootstrapDialing,
  hubDials,           \* dials of the hub's address under way
  ownHubDials,        \* those of the swarm's own account
  strikes             \* ping_strikes; a peer without an entry has none

dials == <<pendingDials, answer>>
bootstrap == <<bootstrapConnected, bootstrapDialing, hubDials, ownHubDials>>
vars == <<running, links, dials, bootstrap, strikes>>

Everyone == Peers \cup {Hub}
Conditions == {"alive", "silent", "closing"}
LinksOf(p) == links[p]["alive"] + links[p]["silent"] + links[p]["closing"]

TypeOK ==
  /\ running \in BOOLEAN
  /\ links \in [Everyone -> [Conditions -> Nat]]
  /\ pendingDials \subseteq [caller : Callers, candidates : SUBSET Peers, age : 0..DialTimeout]
  /\ answer \in [Callers -> {"none", "awaited", "nobody", "shutdown"} \cup Peers]
  /\ bootstrapConnected \in BOOLEAN /\ bootstrapDialing \in BOOLEAN
  /\ hubDials \in Nat /\ ownHubDials \in Nat
  /\ strikes \in [Everyone -> 0..(PingStrikes - 1)]

(* bootstrap() hands over a swarm that is connected to the hub.            *)
Init ==
  /\ running = TRUE
  /\ links = [p \in Everyone |->
       [k \in Conditions |-> IF p = Hub /\ k = "alive" THEN 1 ELSE 0]]
  /\ pendingDials = {} /\ answer = [c \in Callers |-> "none"]
  /\ bootstrapConnected = TRUE /\ bootstrapDialing = FALSE
  /\ hubDials = 0 /\ ownHubDials = 0
  /\ strikes = [p \in Everyone |-> 0]
-----------------------------------------------------------------------------
(***************************************************************************)
(* Dials: answered at once when there is nobody to reach, else by the      *)
(* first candidate that connects or by the deadline.                       *)
(***************************************************************************)
Dial(c, candidates) ==
  /\ running /\ answer[c] # "awaited"
  /\ IF candidates = {}
       THEN /\ answer' = [answer EXCEPT ![c] = "nobody"]
            /\ UNCHANGED pendingDials
       ELSE /\ answer' = [answer EXCEPT ![c] = "awaited"]
            /\ pendingDials' = pendingDials \cup
                 {[caller |-> c, candidates |-> candidates, age |-> 0]}
  /\ UNCHANGED <<running, links, bootstrap, strikes>>

(* The dials in `answered` leave the table and their callers get `reply`.  *)
Answer(answered, reply) ==
  /\ pendingDials' = pendingDials \ answered
  /\ answer' = [c \in Callers |->
       IF \E d \in answered : d.caller = c THEN reply ELSE answer[c]]

CompletePendingDials(p) == Answer({d \in pendingDials : p \in d.candidates}, p)

Tick ==
  /\ running
  /\ \E d \in pendingDials : d.age < DialTimeout
  /\ pendingDials' = {[d EXCEPT !.age = IF @ < DialTimeout THEN @ + 1 ELSE @] : d \in pendingDials}
  /\ UNCHANGED <<running, links, answer, bootstrap, strikes>>

(* A slip: a dial with a candidate that is connected is left to the event  *)
(* of that connection, which is past if it was up before the dial.         *)
ExpireDialsOfUnconnected ==
  /\ running
  /\ LET expired == {d \in pendingDials : d.age = DialTimeout /\ \A p \in d.candidates : LinksOf(p) = 0}
     IN expired # {} /\ Answer(expired, "nobody")
  /\ UNCHANGED <<running, links, bootstrap, strikes>>

ExpireDials ==
  /\ running
  /\ \E d \in pendingDials : d.age = DialTimeout
  /\ Answer({d \in pendingDials : d.age = DialTimeout}, "nobody")
  /\ UNCHANGED <<running, links, bootstrap, strikes>>

(* graceful_shutdown disconnects everybody, and the replies are dropped    *)
(* with the actor.                                                         *)
Shutdown ==
  /\ running /\ running' = FALSE
  /\ Answer(pendingDials, "shutdown")
  /\ links' = [p \in Everyone |-> [k \in Conditions |-> IF k = "closing" THEN LinksOf(p) ELSE 0]]
  /\ UNCHANGED <<bootstrap, strikes>>
-----------------------------------------------------------------------------
(***************************************************************************)
(* Connections, and the flags of the hub's link.                           *)
(***************************************************************************)
Establish(p) ==
  /\ running /\ LinksOf(p) < MaxLinks
  /\ links' = [links EXCEPT ![p]["alive"] = @ + 1]
  /\ CompletePendingDials(p)
  /\ UNCHANGED <<running, strikes>>

PeerConnects(p) == Establish(p) /\ UNCHANGED bootstrap

HubConnects ==
  /\ Establish(Hub)
  /\ \/ hubDials > 0 /\ hubDials' = hubDials - 1 /\ UNCHANGED ownHubDials
     \/ ownHubDials > 0 /\ ownHubDials' = ownHubDials - 1 /\ UNCHANGED hubDials
  /\ bootstrapConnected' = TRUE /\ bootstrapDialing' = FALSE

(* A slip: the strikes outlive the connection they were given for.         *)
CloseKeepingStrikes(p, k) ==
  /\ running /\ links[p][k] > 0
  /\ links' = [links EXCEPT ![p][k] = @ - 1]
  /\ IF p = Hub THEN bootstrapConnected' = FALSE /\ bootstrapDialing' = FALSE
                ELSE UNCHANGED <<bootstrapConnected, bootstrapDialing>>
  /\ UNCHANGED <<running, dials, hubDials, ownHubDials, strikes>>

(* A slip: the hub's link is taken for alive when it closes.               *)
CloseUnnoticed(p, k) ==
  /\ running /\ links[p][k] > 0
  /\ links' = [links EXCEPT ![p][k] = @ - 1]
  /\ strikes' = [strikes EXCEPT ![p] = 0]
  /\ UNCHANGED <<running, dials, bootstrap>>

Close(p, k) ==
  /\ running /\ links[p][k] > 0
  /\ links' = [links EXCEPT ![p][k] = @ - 1]
  /\ strikes' = [strikes EXCEPT ![p] = 0]
  /\ IF p = Hub THEN bootstrapConnected' = FALSE /\ bootstrapDialing' = FALSE
                ELSE UNCHANGED <<bootstrapConnected, bootstrapDialing>>
  /\ UNCHANGED <<running, dials, hubDials, ownHubDials>>

(* A slip: the failure of a redial is not noted.                           *)
HubDialFailsUnnoticed ==
  /\ running /\ hubDials > 0
  /\ hubDials' = hubDials - 1
  /\ UNCHANGED <<running, links, dials, bootstrapConnected, bootstrapDialing, ownHubDials, strikes>>

HubDialFails ==
  /\ running /\ hubDials > 0
  /\ hubDials' = hubDials - 1
  /\ bootstrapDialing' = (bootstrapDialing /\ ~HubNamed)
  /\ UNCHANGED <<running, links, dials, bootstrapConnected, ownHubDials, strikes>>

OwnHubDial ==
  /\ running /\ LinksOf(Hub) = 0 /\ ownHubDials < MaxHubDials
  /\ ownHubDials' = ownHubDials + 1
  /\ UNCHANGED <<running, links, dials, bootstrapConnected, bootstrapDialing, hubDials, strikes>>

OwnHubDialFails ==
  /\ running /\ ownHubDials > 0
  /\ ownHubDials' = ownHubDials - 1
  /\ bootstrapDialing' = FALSE
  /\ UNCHANGED <<running, links, dials, bootstrapConnected, hubDials, strikes>>

(* try_dial_bootstrap, when the swarm takes the dial; one it refuses       *)
(* changes nothing.                                                        *)
RetryBootstrap ==
  /\ running /\ ~bootstrapConnected /\ ~bootstrapDialing /\ hubDials < MaxHubDials
  /\ bootstrapDialing' = TRUE /\ hubDials' = hubDials + 1
  /\ UNCHANGED <<running, links, dials, bootstrapConnected, ownHubDials, strikes>>
-----------------------------------------------------------------------------
(***************************************************************************)
(* Pings: each connection has its own, the strikes are the peer's.         *)
(***************************************************************************)
GoSilent(p) ==
  /\ running /\ links[p]["alive"] > 0
  /\ links' = [links EXCEPT ![p]["alive"] = @ - 1, ![p]["silent"] = @ + 1]
  /\ UNCHANGED <<running, dials, bootstrap, strikes>>

PingSucceeded(p) ==
  /\ running /\ links[p]["alive"] > 0
  /\ strikes' = [strikes EXCEPT ![p] = 0]
  /\ UNCHANGED <<running, links, dials, bootstrap>>

(* A slip: the strike that reaches the limit is only wiped.                *)
PingFailedForgiven(p) ==
  /\ running /\ links[p]["alive"] + links[p]["silent"] > 0
  /\ strikes' = [strikes EXCEPT ![p] = (@ + 1) % PingStrikes]
  /\ UNCHANGED <<running, links, dials, bootstrap>>

(* A slip: one strike too many is tolerated.                               *)
PingFailedTolerated(p) ==
  /\ running /\ links[p]["alive"] + links[p]["silent"] > 0
  /\ IF strikes[p] < PingStrikes
       THEN /\ strikes' = [strikes EXCEPT ![p] = @ + 1]
            /\ UNCHANGED links
       ELSE /\ strikes' = [strikes EXCEPT ![p] = 0]
            /\ links' = [links EXCEPT ![p] =
                 [k \in Conditions |-> IF k = "closing" THEN LinksOf(p) ELSE 0]]
  /\ UNCHANGED <<running, dials, bootstrap>>

PingFailed(p) ==
  /\ running /\ links[p]["alive"] + links[p]["silent"] > 0
  /\ IF strikes[p] + 1 < PingStrikes
       THEN /\ strikes' = [strikes EXCEPT ![p] = @ + 1]
            /\ UNCHANGED links
       ELSE /\ strikes' = [strikes EXCEPT ![p] = 0]
            /\ links' = [links EXCEPT ![p] =
                 [k \in Conditions |-> IF k = "closing" THEN LinksOf(p) ELSE 0]]
  /\ UNCHANGED <<running, dials, bootstrap>>
-----------------------------------------------------------------------------
Pinged(p) == PingSucceeded(p) \/ PingFailed(p)

Next ==
  \/ \E c \in Callers, candidates \in SUBSET Peers : Dial(c, candidates)
  \/ Tick \/ ExpireDials \/ Shutdown
  \/ \E p \in Peers : PeerConnects(p)
  \/ HubConnects \/ HubDialFails \/ OwnHubDial \/ OwnHubDialFails \/ RetryBootstrap
  \/ \E p \in Everyone : GoSilent(p) \/ Pinged(p) \/ \E k \in Conditions : Close(p, k)

Spec == Init /\ [][Next]_vars

(* The intervals of run() keep ticking, every connection is pinged, and a  *)
(* connection told to close does.                                          *)
Fairness ==
  /\ WF_vars(Tick) /\ WF_vars(ExpireDials)
  /\ \A p \in Everyone : WF_vars(Pinged(p)) /\ WF_vars(Close(p, "closing"))

FairSpec == Spec /\ Fairness
-----------------------------------------------------------------------------
(* try_dial_bootstrap does nothing while bootstrap_dialing is set, so the  *)
(* flag must not outlive the dial it stands for: as long as it is set, a   *)
(* dial of the hub's address is under way.                                 *)
RetryArmed == running /\ bootstrapDialing => hubDials > 0

(* Nor may the hub be taken for connected when its last connection is      *)
(* gone, whatever number of them came up and closed.                       *)
HubLossNoticed == running /\ bootstrapConnected => LinksOf(Hub) > 0

(* Strikes are those of a peer that is connected: a peer that comes back   *)
(* is not torn down for the pings its last connection missed.              *)
StrikesOfConnected == running => \A p \in Everyone : strikes[p] > 0 => LinksOf(p) > 0

(* Whoever awaits a dial gets an answer, be it the actor's shutdown: the   *)
(* discovery actor handles nothing else until it does.                     *)
DialAnswered == \A c \in Callers : answer[c] = "awaited" ~> answer[c] # "awaited"

(* "Without a liveness probe, dead peers linger for hours",                *)
(* behaviour.rs:14-16: a peer none of whose connections lets anything pass *)
(* is disconnected, unless one comes up that does.                         *)
Dead(p) == links[p]["alive"] = 0 /\ links[p]["silent"] > 0
DeadPeerBooted == \A p \in Everyone : Dead(p) ~> ~Dead(p) \/ ~running
=============================================================================
