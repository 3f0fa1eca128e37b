--------------------------- MODULE DiscoveryProofs ---------------------------
(***************************************************************************)
(* Invariants of the discovery actor, for every set of ports and peers,    *)
(* every configuration, and every bound on events, timers and connections. *)
(***************************************************************************)
EXTENDS Discovery, PoolProofs

(* ------------------------------------------------------------------------ *)
(* Facts about the data.                                                    *)

GoodPool(pool) == IsPool(pool, Peers, {"direct"}, Fingerprints)

LEMMA EventFacts ==
  /\ \A port \in Ports : DiscoverFor(port) \in Events /\ RequestNewPeer(port) \in Events
  /\ \A p \in Peers : PeerClosed(p) \in Events /\ PeerUnusable(p) \in Events
  /\ \A p \in Peers, link \in Kinds : PeerConnected(p, link) \in Events
  /\ \A port \in Ports, p \in Peers : SelectPeer(port, p) \in Events
  /\ \A e \in Events :
       /\ e.kind \in {"DiscoverFor", "RequestNewPeer"} => e.port \in Ports
       /\ e.kind = "DiscoverFor" => e = DiscoverFor(e.port)
       /\ e.kind \in {"PeerClosed", "PeerUnusable", "PeerConnected"} => e.peer \in Peers
       /\ e.kind = "SelectPeer" => e.port \in Ports /\ e.peer \in Peers
  BY DEF Events, Kinds, DiscoverFor, RequestNewPeer, PeerClosed, PeerUnusable, PeerConnected, SelectPeer

LEMMA ServerFacts ==
  \A port \in Ports : /\ Configured(Server[port], Fingerprints)
                      /\ Server[port].max \in Nat /\ Server[port].fp \in Fingerprints
  BY ServerIsConfigured DEF Configured

LEMMA TypedPools ==
  ASSUME TypeOK PROVE \A port \in Ports : GoodPool(pools[port])
  BY DEF TypeOK, GoodPool, IsPool

(* ------------------------------------------------------------------------ *)
(* Type correctness.  The pools are the part that takes an argument: an     *)
(* effort leaves one of the pools of OutcomesTyped, and the handlers        *)
(* remember, forget and note addresses in what was a pool.                  *)

LEMMA InitTyped == Init => TypeOK
<1> SUFFICES ASSUME Init PROVE TypeOK
  OBVIOUS
<1>1. /\ pools \in [Ports -> PoolsOver(Peers, {"direct"}, Fingerprints)]
      /\ \A port \in Ports : WellFormed(pools[port])
  <2>1. /\ pools \in [Ports -> UNION {PoolsAtStart[port] : port \in Ports}]
        /\ \A port \in Ports : pools[port] \in PoolsAtStart[port]
    BY DEF Init
  <2>2. QED BY <2>1, StoredPoolsAreWellFormed
<1>2. QED BY <1>1 DEF Init, TypeOK, Events

(* The finished effort.                                                    *)
LEMMA FinishEffortTyped ==
  ASSUME TypeOK, FinishEffort PROVE TypeOK'
<1>1. effort \in Ports
  BY DEF TypeOK, FinishEffort
<1>2. Avoided \in Peers \cup {NoPeer}
  BY DEF TypeOK, Avoided
<1>3. PICK o \in EffortOutcomes :
        /\ pools' = [pools EXCEPT ![effort] = o.pool]
        /\ dest' = [dest EXCEPT ![effort] = o.peer]
        /\ gaveUp' = IF o.peer = NoPeer THEN gaveUp \cup {effort} ELSE gaveUp \ {effort}
  BY DEF FinishEffort
<1>4. o.peer \in Peers \cup {NoPeer} /\ GoodPool(o.pool)
  <2>1. Configured(Server[effort], Fingerprints) /\ GoodPool(pools[effort])
    BY <1>1, ServerFacts, TypedPools
  <2>2. \A x \in Outcomes(Server[effort], pools[effort], Avoided) : Typed(x, {"direct"}, Fingerprints)
    BY <1>2, <2>1, OutcomesTyped DEF GoodPool
  <2>3. QED BY <2>2 DEF EffortOutcomes, Typed, GoodPool
<1>5. /\ pools' \in [Ports -> PoolsOver(Peers, {"direct"}, Fingerprints)]
      /\ \A port \in Ports : WellFormed(pools'[port])
  BY <1>1, <1>3, <1>4 DEF TypeOK, GoodPool, IsPool
<1>6. QED BY <1>1, <1>3, <1>4, <1>5 DEF TypeOK, FinishEffort, Continue, throttle

(* A direct connection: its address is noted and stuck ports move to it.   *)
LEMMA HandleDirectTyped ==
  ASSUME TypeOK, NEW e \in Events, HandleDirect(e) PROVE TypeOK'
<1>1. e.peer \in Peers
  BY EventFacts DEF HandleDirect
<1>2. \A port \in Ports : GoodPool(Noted(port, e.peer))
  BY <1>1, TypedPools, NoteDirectProperties DEF Noted, GoodPool
<1>3. \A port \in Ports : GoodPool(AdoptedBy(port, Noted(port, e.peer), e.peer))
  BY <1>1, <1>2, ServerFacts, RememberProperties DEF AdoptedBy, GoodPool
<1>4. \A port \in Ports : GoodPool(Opened(Noted(port, e.peer), Server[port].fp))
  BY <1>2, OpenedIsPool DEF GoodPool
<1>5. \A port \in Ports : GoodPool(pools'[port])
  BY <1>2, <1>3, <1>4 DEF HandleDirect
<1>6. /\ pools' \in [Ports -> PoolsOver(Peers, {"direct"}, Fingerprints)]
      /\ \A port \in Ports : WellFormed(pools'[port])
  BY <1>5 DEF HandleDirect, GoodPool, IsPool
<1>7. dest' \in [Ports -> Peers \cup {NoPeer}]
  BY <1>1 DEF TypeOK, HandleDirect
<1>8. QED
  BY <1>1, <1>6, <1>7 DEF TypeOK, HandleDirect, Receives, Sent, throttle, handler

LEMMA HandlePeerUnusableTyped ==
  ASSUME TypeOK, NEW e \in Events, HandlePeerUnusable(e) PROVE TypeOK'
<1>1. e.peer \in Peers
  BY EventFacts DEF HandlePeerUnusable
<1>2. \A port \in Ports : GoodPool(Forget(pools[port], e.peer))
  BY TypedPools, ForgetIsPool DEF GoodPool
<1>3. /\ pools' \in [Ports -> PoolsOver(Peers, {"direct"}, Fingerprints)]
      /\ \A port \in Ports : WellFormed(pools'[port])
  BY <1>2 DEF HandlePeerUnusable, GoodPool, IsPool
<1>4. Serving(e.peer) \subseteq Ports
  BY DEF Serving
<1>5. QED
  BY <1>1, <1>3, <1>4 DEF TypeOK, HandlePeerUnusable, Receives, Sent, throttle

LEMMA FinishSelectTyped ==
  ASSUME TypeOK, FinishSelect PROVE TypeOK'
<1>1. effort \in Ports
  BY DEF TypeOK, FinishSelect
<1>2. CASE reached = NoPeer
  BY <1>2 DEF TypeOK, FinishSelect, Continue, store, throttle
<1>3. CASE reached # NoPeer
  <2>1. reached \in Peers
    BY <1>3 DEF TypeOK
  <2>2. GoodPool(AdoptedBy(effort, pools[effort], reached))
    BY <1>1, <2>1, TypedPools, ServerFacts, RememberProperties DEF AdoptedBy, GoodPool
  <2>3. pools' = [pools EXCEPT ![effort] = AdoptedBy(effort, pools[effort], reached)]
    BY <1>3 DEF FinishSelect
  <2>4. /\ pools' \in [Ports -> PoolsOver(Peers, {"direct"}, Fingerprints)]
        /\ \A port \in Ports : WellFormed(pools'[port])
    BY <1>1, <2>2, <2>3 DEF TypeOK, GoodPool, IsPool
  <2>5. QED
    BY <1>1, <1>3, <2>1, <2>4 DEF TypeOK, FinishSelect, SetDestination, Continue, throttle
<1>4. QED BY <1>2, <1>3

LEMMA StepTyped == TypeOK /\ [Next]_vars => TypeOK'
<1> SUFFICES ASSUME TypeOK, [Next]_vars PROVE TypeOK'
  OBVIOUS
<1>1. ASSUME NEW e \in Events, HandleDiscover(e) PROVE TypeOK'
  <2>1. e.port \in Ports
    BY <1>1, EventFacts DEF HandleDiscover
  <2>2. QED BY <1>1, <2>1 DEF TypeOK, HandleDiscover, BeginEffort, Receives, Sent, store
<1>2. ASSUME NEW e \in Events, HandlePeerClosed(e) PROVE TypeOK'
  <2>1. e.peer \in Peers /\ Serving(e.peer) \subseteq Ports
    BY <1>2, EventFacts DEF HandlePeerClosed, Serving
  <2>2. QED BY <1>2, <2>1 DEF TypeOK, HandlePeerClosed, Receives, Sent, store, throttle
<1>3. ASSUME NEW e \in Events, HandleRelayed(e) PROVE TypeOK'
  BY <1>3 DEF TypeOK, HandleRelayed, Receives, Sent, store, throttle, handler
<1>4. ASSUME NEW e \in Events, HandleSelect(e) PROVE TypeOK'
  <2>1. e.port \in Ports /\ e.peer \in Peers
    BY <1>4, EventFacts DEF HandleSelect
  <2>2. QED BY <1>4, <2>1 DEF TypeOK, HandleSelect, Receives, Sent, store, throttle
<1>5. ASSUME NEW port \in Ports, GoDark(port) PROVE TypeOK'
  <2>1. sleeping' \in [Ports -> Nat]
    BY <1>5, BoundsArePositive DEF TypeOK, GoDark, UpTo
  <2>2. QED BY <1>5, <2>1 DEF TypeOK, GoDark, SetDestination, Continue
<1>6. ASSUME NEW port \in Ports, RediscoverClosed(port) PROVE TypeOK'
  BY <1>6 DEF TypeOK, RediscoverClosed, BeginEffort, store
<1>7. ASSUME NEW port \in Ports, RediscoverUnusable(port) PROVE TypeOK'
  BY <1>7 DEF TypeOK, RediscoverUnusable, BeginEffort, store
<1>8. ASSUME NEW port \in Ports, CooldownLapses(port) PROVE TypeOK'
  <2>1. mail' \in [Events -> Nat]
    BY <1>8, BoundsArePositive, EventFacts DEF TypeOK, CooldownLapses, UpTo
  <2>2. QED BY <1>8, <2>1 DEF TypeOK, CooldownLapses, store, handler
<1>9. ASSUME NEW p \in Peers, NEW link \in Kinds, Establish(p, link) PROVE TypeOK'
  <2>1. mail' \in [Events -> Nat] /\ links' \in [Peers -> [Kinds -> Nat]]
    BY <1>9, EventFacts DEF TypeOK, Establish, Sends
  <2>2. QED BY <1>9, <2>1 DEF TypeOK, Establish, store, throttle
<1>10. ASSUME NEW p \in Peers, NEW link \in Kinds, Close(p, link) PROVE TypeOK'
  <2>1. mail' \in [Events -> Nat] /\ links' \in [Peers -> [Kinds -> Nat]]
    BY <1>10, EventFacts DEF TypeOK, Close, Sends
  <2>2. QED BY <1>10, <2>1 DEF TypeOK, Close, store, throttle, handler
<1>11. ASSUME NEW e \in Events, Sends(e), UNCHANGED <<store, throttle, direct, links, handler>>
       PROVE  TypeOK'
  BY <1>11 DEF TypeOK, Sends, store, throttle, handler
<1>12. ASSUME NEW port \in Ports, SessionAsks(port) PROVE TypeOK'
  BY <1>11, <1>12, EventFacts DEF SessionAsks
<1>13. ASSUME NEW p \in Peers, SessionReports(p) PROVE TypeOK'
  BY <1>11, <1>13, EventFacts DEF SessionReports
<1>14. ASSUME NEW port \in Ports, NEW p \in Peers, OperatorPicks(port, p) PROVE TypeOK'
  BY <1>11, <1>14, EventFacts DEF OperatorPicks
<1>15. CASE UNCHANGED vars
  BY <1>15 DEF TypeOK, vars, store, throttle, handler
<1>16. QED
  BY <1>1, <1>2, <1>3, <1>4, <1>5, <1>6, <1>7, <1>8, <1>9, <1>10, <1>12, <1>13, <1>14, <1>15,
     FinishEffortTyped, HandleDirectTyped, HandlePeerUnusableTyped, FinishSelectTyped
  DEF Next, Handle, Resume, Carry

(* The state stays of the declared types, and no handler ever leaves a     *)
(* pool that names a peer twice or is empty: find, position and retain in  *)
(* sticky.rs agree on every pool the actor can hold.                       *)
THEOREM TypeCorrect == Spec => []TypeOK
<1>1. QED BY InitTyped, StepTyped, PTL DEF Spec

(* ------------------------------------------------------------------------ *)
(* No port is forgotten.  ThrottledPortScheduled is not inductive: a second *)
(* throttled close spawns no timer when the pending mark is there, so the   *)
(* mark must imply a timer; and a handler that began while an effort is in  *)
(* progress would lose that effort, so an idle actor must have none.        *)

Idle == handling = "nothing" => effort = NoPort

Kept == Idle /\ PendingIsScheduled /\ ThrottledPortScheduled

LEMMA InitKept == Init => Kept
<1> SUFFICES ASSUME Init PROVE Kept
  OBVIOUS
<1>1. \A port \in Ports : DiscoverFor(port).kind = "DiscoverFor"
  BY DEF DiscoverFor
<1>2. \A port \in Ports : Sent(DiscoverFor(port))
  BY <1>1, EventFacts DEF Init, Sent
<1>3. QED
  BY <1>2 DEF Init, Kept, Idle, PendingIsScheduled, ThrottledPortScheduled, Scheduled

(* What the surroundings and the other handlers do leaves the schedule     *)
(* alone: they take no DiscoverFor, no timer and no effort, mark no port   *)
(* and take none dark.                                                     *)
LEMMA KeptUndisturbed ==
  ASSUME TypeOK, Kept, Idle',
         UNCHANGED <<sleeping, pending, gaveUp>>,
         \A port \in Ports : Sent(DiscoverFor(port)) => Sent(DiscoverFor(port))',
         \A port \in Ports : dest'[port] = NoPeer => dest[port] = NoPeer,
         \A port \in Ports : BeingServed(port) => BeingServed(port)'
  PROVE  Kept'
<1>1. pending \subseteq Ports
  BY DEF TypeOK
<1>2. QED BY <1>1 DEF Kept, PendingIsScheduled, ThrottledPortScheduled, Scheduled

(* Receiving an event that is no DiscoverFor leaves every DiscoverFor.     *)
LEMMA OtherEventReceived ==
  ASSUME TypeOK, NEW e \in Events, Receives(e), e.kind # "DiscoverFor"
  PROVE  \A port \in Ports : Sent(DiscoverFor(port))' = Sent(DiscoverFor(port))
<1>1. \A port \in Ports : DiscoverFor(port).kind = "DiscoverFor"
  BY DEF DiscoverFor
<1>2. \A port \in Ports : DiscoverFor(port) \in Events /\ DiscoverFor(port) # e
  BY <1>1, EventFacts
<1>3. QED BY <1>2 DEF TypeOK, Receives, Sent

LEMMA EventSent ==
  ASSUME TypeOK, NEW e \in Events, Sends(e)
  PROVE  \A port \in Ports : Sent(DiscoverFor(port)) => Sent(DiscoverFor(port))'
BY EventFacts DEF TypeOK, Sends, Sent

LEMMA StepKept == TypeOK /\ Kept /\ [Next]_vars => Kept'
<1> SUFFICES ASSUME TypeOK, Kept, [Next]_vars PROVE Kept'
  OBVIOUS
<1>0. pending \subseteq Ports
  BY DEF TypeOK
<1>1. ASSUME NEW e \in Events, HandleDiscover(e) PROVE Kept'
  <2>1. effort = NoPort /\ handling = "nothing"
    BY <1>1 DEF HandleDiscover, Receives, Kept, Idle
  <2>2. e.port \in Ports
    BY <1>1, EventFacts DEF HandleDiscover
  <2>3. \A port \in Ports \ {e.port} : Sent(DiscoverFor(port))' = Sent(DiscoverFor(port))
    <3>1. \A port \in Ports \ {e.port} : DiscoverFor(port) \in Events /\ DiscoverFor(port) # e
      BY EventFacts DEF DiscoverFor
    <3>2. QED BY <1>1, <3>1 DEF TypeOK, HandleDiscover, Receives, Sent
  <2>4. Idle'
    BY <1>1 DEF Idle, HandleDiscover
  <2>5. PendingIsScheduled'
    BY <1>0, <1>1, <2>3 DEF Kept, PendingIsScheduled, Scheduled, HandleDiscover, BeginEffort
  <2>6. BeingServed(e.port)'
    BY <1>1 DEF BeingServed, HandleDiscover, BeginEffort
  <2>7. \A port \in Ports : ~BeingServed(port)
    BY <2>1, NoPortIsNoPort DEF BeingServed
  <2>8. ThrottledPortScheduled'
    BY <1>1, <2>3, <2>6, <2>7
    DEF Kept, ThrottledPortScheduled, Scheduled, HandleDiscover, store
  <2>9. QED BY <2>4, <2>5, <2>8 DEF Kept
<1>2. ASSUME NEW e \in Events, HandlePeerClosed(e) PROVE Kept'
  <2>1. \A port \in Ports : Sent(DiscoverFor(port))' = Sent(DiscoverFor(port))
    BY <1>2, OtherEventReceived DEF HandlePeerClosed
  <2>2. handling = "nothing" /\ effort = NoPort /\ effort' = NoPort
    BY <1>2 DEF HandlePeerClosed, Receives, Kept, Idle
  <2>3. \A port \in Ports : ~BeingServed(port)
    BY <2>2, NoPortIsNoPort DEF BeingServed
  <2>4. QED BY <1>2, <2>1, <2>2, <2>3, KeptUndisturbed DEF HandlePeerClosed, store, throttle, Idle
<1>3. ASSUME NEW e \in Events, HandleRelayed(e) PROVE Kept'
  <2>1. \A port \in Ports : Sent(DiscoverFor(port))' = Sent(DiscoverFor(port))
    BY <1>3, OtherEventReceived DEF HandleRelayed
  <2>2. QED
    BY <1>3, <2>1, KeptUndisturbed
    DEF HandleRelayed, store, throttle, handler, Kept, Idle, BeingServed
<1>4. ASSUME NEW e \in Events, HandleDirect(e) PROVE Kept'
  <2>1. \A port \in Ports : Sent(DiscoverFor(port))' = Sent(DiscoverFor(port))
    BY <1>4, OtherEventReceived DEF HandleDirect
  <2>2. e.peer # NoPeer
    BY <1>4, EventFacts, NoPeerIsNoPeer DEF HandleDirect
  <2>3. \A port \in Ports : dest'[port] = NoPeer => dest[port] = NoPeer
    BY <1>4, <2>2 DEF HandleDirect
  <2>4. QED
    BY <1>4, <2>1, <2>3, KeptUndisturbed DEF HandleDirect, throttle, handler, Kept, Idle, BeingServed
<1>5. ASSUME NEW e \in Events, HandlePeerUnusable(e) PROVE Kept'
  <2>1. \A port \in Ports : Sent(DiscoverFor(port))' = Sent(DiscoverFor(port))
    BY <1>5, OtherEventReceived DEF HandlePeerUnusable
  <2>2. handling = "nothing" /\ effort = NoPort /\ effort' = NoPort
    BY <1>5 DEF HandlePeerUnusable, Receives, Kept, Idle
  <2>3. \A port \in Ports : ~BeingServed(port)
    BY <2>2, NoPortIsNoPort DEF BeingServed
  <2>4. QED BY <1>5, <2>1, <2>2, <2>3, KeptUndisturbed DEF HandlePeerUnusable, throttle, Idle
<1>6. ASSUME NEW e \in Events, HandleSelect(e) PROVE Kept'
  <2>1. \A port \in Ports : Sent(DiscoverFor(port))' = Sent(DiscoverFor(port))
    BY <1>6, OtherEventReceived DEF HandleSelect
  <2>2. \A port \in Ports : ~BeingServed(port)
    BY <1>6, NoPortIsNoPort DEF HandleSelect, Receives, Kept, Idle, BeingServed
  <2>3. QED BY <1>6, <2>1, <2>2, KeptUndisturbed DEF HandleSelect, store, throttle, Idle
<1>7. ASSUME FinishEffort PROVE Kept'
  <2>1. \A port \in Ports \ {effort} : ~BeingServed(port)
    BY DEF BeingServed
  <2>2. \A port \in Ports : Scheduled(port)' = Scheduled(port)
    BY <1>7 DEF FinishEffort, throttle, Scheduled, Sent
  <2>3. Idle' /\ PendingIsScheduled'
    BY <1>0, <1>7, <2>2 DEF Kept, Idle, PendingIsScheduled, FinishEffort, throttle
  <2>4. PICK o \in EffortOutcomes :
          /\ dest' = [dest EXCEPT ![effort] = o.peer]
          /\ gaveUp' = IF o.peer = NoPeer THEN gaveUp \cup {effort} ELSE gaveUp \ {effort}
    BY <1>7 DEF FinishEffort
  <2>5. ThrottledPortScheduled'
    <3> SUFFICES ASSUME NEW port \in Ports, dest'[port] = NoPeer, port \notin gaveUp'
                 PROVE  Scheduled(port)'
      BY DEF ThrottledPortScheduled
    <3>1. port # effort
      BY <2>4 DEF TypeOK
    <3>2. dest[port] = NoPeer /\ port \notin gaveUp
      BY <2>4, <3>1 DEF TypeOK
    <3>3. QED BY <2>1, <2>2, <3>1, <3>2 DEF Kept, ThrottledPortScheduled
  <2>6. QED BY <2>3, <2>5 DEF Kept
<1>8. ASSUME FinishSelect PROVE Kept'
  <2>1. \A port \in Ports : ~BeingServed(port)
    BY <1>8 DEF FinishSelect, BeingServed
  <2>2. \A port \in Ports : Scheduled(port)' = Scheduled(port)
    BY <1>8 DEF FinishSelect, throttle, Scheduled, Sent
  <2>3. Idle' /\ PendingIsScheduled'
    BY <1>0, <1>8, <2>2 DEF Kept, Idle, PendingIsScheduled, FinishSelect, throttle
  <2>4. \A port \in Ports : dest'[port] = NoPeer /\ port \notin gaveUp'
                              => dest[port] = NoPeer /\ port \notin gaveUp
    BY <1>8 DEF FinishSelect, SetDestination, TypeOK, store
  <2>5. QED BY <2>1, <2>2, <2>3, <2>4 DEF Kept, ThrottledPortScheduled
<1>9. ASSUME NEW port \in Ports, GoDark(port) PROVE Kept'
  <2>1. sleeping' \in [Ports -> Nat] /\ sleeping \in [Ports -> Nat]
    BY <1>9, StepTyped DEF TypeOK
  <2>2. \A other \in Ports : Sent(DiscoverFor(other))' = Sent(DiscoverFor(other))
    BY <1>9 DEF GoDark, Sent
  <2>3. \A other \in Ports \ {port} : Scheduled(other)' = Scheduled(other)
    BY <1>9, <2>1, <2>2 DEF GoDark, Scheduled
  <2>4. Scheduled(port)'
    <3>1. CASE port \in pending
      BY <1>9, <2>2, <3>1 DEF GoDark, Kept, PendingIsScheduled, Scheduled
    <3>2. CASE port \notin pending
      <4>1. sleeping'[port] = UpTo(MaxTimers, sleeping[port] + 1)
        BY <1>9, <2>1, <3>2 DEF GoDark
      <4>2. sleeping'[port] > 0
        BY <2>1, <4>1, BoundsArePositive DEF UpTo
      <4>3. QED BY <4>2 DEF Scheduled
    <3>3. QED BY <3>1, <3>2
  <2>5. Idle'
    BY <1>9 DEF GoDark, Idle
  <2>6. PendingIsScheduled'
    BY <1>0, <1>9, <2>3, <2>4 DEF GoDark, Kept, PendingIsScheduled
  <2>7. \A other \in Ports : ~BeingServed(other)
    BY <1>9, NoPortIsNoPort DEF GoDark, BeingServed
  <2>8. \A other \in Ports \ {port} : dest'[other] = dest[other] /\ (other \in gaveUp' <=> other \in gaveUp)
    BY <1>9 DEF GoDark, SetDestination, TypeOK
  <2>9. ThrottledPortScheduled'
    BY <2>3, <2>4, <2>7, <2>8 DEF Kept, ThrottledPortScheduled
  <2>10. QED BY <2>5, <2>6, <2>9 DEF Kept
<1>10. ASSUME NEW port \in Ports, RediscoverClosed(port) \/ RediscoverUnusable(port) PROVE Kept'
  <2>1. \A other \in Ports : Scheduled(other)' = Scheduled(other)
    BY <1>10 DEF RediscoverClosed, RediscoverUnusable, Scheduled, Sent
  <2>2. Idle' /\ BeingServed(port)'
    BY <1>10 DEF RediscoverClosed, RediscoverUnusable, BeginEffort, Idle, BeingServed
  <2>3. PendingIsScheduled'
    BY <1>0, <1>10, <2>1 DEF RediscoverClosed, RediscoverUnusable, BeginEffort, Kept, PendingIsScheduled
  <2>4. \A other \in Ports : ~BeingServed(other)
    BY <1>10, NoPortIsNoPort DEF RediscoverClosed, RediscoverUnusable, BeingServed
  <2>5. UNCHANGED <<dest, gaveUp>>
    BY <1>10 DEF RediscoverClosed, RediscoverUnusable, store
  <2>6. ThrottledPortScheduled'
    BY <2>1, <2>2, <2>4, <2>5 DEF Kept, ThrottledPortScheduled
  <2>7. QED BY <2>2, <2>3, <2>6 DEF Kept
<1>11. ASSUME NEW port \in Ports, CooldownLapses(port) PROVE Kept'
  <2>1. DiscoverFor(port) \in Events
    BY EventFacts
  <2>2. \A other \in Ports : Sent(DiscoverFor(other)) => Sent(DiscoverFor(other))'
    BY <1>11, <2>1, EventFacts, BoundsArePositive DEF TypeOK, CooldownLapses, Sent, UpTo
  <2>3. sleeping[port] > 0 => Sent(DiscoverFor(port))'
    <3> SUFFICES ASSUME sleeping[port] > 0 PROVE Sent(DiscoverFor(port))'
      OBVIOUS
    <3>1. mail'[DiscoverFor(port)] = UpTo(MaxCopies, mail[DiscoverFor(port)] + sleeping[port])
      BY <1>11, <2>1 DEF TypeOK, CooldownLapses
    <3>2. mail[DiscoverFor(port)] \in Nat /\ sleeping[port] \in Nat
      BY <2>1 DEF TypeOK
    <3>3. QED BY <3>1, <3>2, BoundsArePositive DEF Sent, UpTo
  <2>4. \A other \in Ports \ {port} : sleeping'[other] = sleeping[other]
    BY <1>11 DEF TypeOK, CooldownLapses
  <2>5. \A other \in Ports : Scheduled(other) => Scheduled(other)'
    BY <2>2, <2>3, <2>4 DEF Scheduled
  <2>6. QED
    BY <1>0, <1>11, <2>5
    DEF CooldownLapses, store, handler, Kept, Idle, PendingIsScheduled, ThrottledPortScheduled, BeingServed
<1>12. ASSUME NEW e \in Events, Sends(e), UNCHANGED <<store, throttle, handling, effort>> PROVE Kept'
  <2>1. \A port \in Ports : Sent(DiscoverFor(port)) => Sent(DiscoverFor(port))'
    BY <1>12, EventSent
  <2>2. QED BY <1>12, <2>1, KeptUndisturbed DEF store, throttle, Kept, Idle, BeingServed
<1>13. ASSUME NEW p \in Peers, NEW link \in Kinds, Establish(p, link) \/ Close(p, link) PROVE Kept'
  BY <1>12, <1>13, EventFacts DEF Establish, Close, handler
<1>14. ASSUME NEW port \in Ports, SessionAsks(port) PROVE Kept'
  BY <1>12, <1>14, EventFacts DEF SessionAsks, handler
<1>15. ASSUME NEW p \in Peers, SessionReports(p) PROVE Kept'
  BY <1>12, <1>15, EventFacts DEF SessionReports, handler
<1>16. ASSUME NEW port \in Ports, NEW p \in Peers, OperatorPicks(port, p) PROVE Kept'
  BY <1>12, <1>16, EventFacts DEF OperatorPicks, handler
<1>17. CASE UNCHANGED vars
  BY <1>17 DEF vars, store, throttle, handler, Kept, Idle, PendingIsScheduled,
               ThrottledPortScheduled, Scheduled, Sent, BeingServed
<1>18. QED
  BY <1>1, <1>2, <1>3, <1>4, <1>5, <1>6, <1>7, <1>8, <1>9, <1>10, <1>11, <1>13, <1>14, <1>15,
     <1>16, <1>17
  DEF Next, Handle, Resume, Carry

LEMMA AlwaysKept == Spec => []Kept
<1>1. QED BY InitKept, StepKept, TypeCorrect, PTL DEF Spec

(* handle_peer_closed spawns no timer for a port that is marked pending;   *)
(* whatever the order of closes, requests, picks and older timers, the     *)
(* mark is only there while a timer sleeps or its DiscoverFor is under way.*)
THEOREM PendingScheduled == Spec => []PendingIsScheduled
<1>1. Kept => PendingIsScheduled
  BY DEF Kept
<1>2. QED BY <1>1, AlwaysKept, PTL

(* A port that went dark under throttling, and is not dark because its     *)
(* last effort failed, is never forgotten: a timer sleeps for it, its      *)
(* DiscoverFor is under way, or the actor is making its effort.            *)
THEOREM ThrottledPortsScheduled == Spec => []ThrottledPortScheduled
<1>1. Kept => ThrottledPortScheduled
  BY DEF Kept
<1>2. QED BY <1>1, AlwaysKept, PTL

(* ------------------------------------------------------------------------ *)
(* The exit of an unpinned sticky server is the first member of its pool.   *)
(* It is not so while the handler of an unusable peer has yet to replace    *)
(* that peer, which it has already forgotten; Settled leaves those ports    *)
(* out, and an actor that is idle has none.                                 *)

Settled(port) == handling = "unusable" => port \notin todo /\ port # effort

Rotating(port) == Server[port].sticky /\ Server[port].pinned = <<>>

ExitLeads ==
  \A port \in Ports :
    dest[port] # NoPeer /\ Rotating(port) /\ Settled(port)
      => Leads(Server[port], pools[port], dest[port])

LEMMA InitLeads == Init => ExitLeads
BY DEF Init, ExitLeads

(* What adopts an exit by hand or by rotation puts it in front.            *)
LEMMA AdoptedByLeads ==
  ASSUME NEW port \in Ports, NEW pool, GoodPool(pool), NEW p \in Peers
  PROVE  Leads(Server[port], AdoptedBy(port, pool, p), p)
<1>1. /\ GoodPool(AdoptedBy(port, pool, p))
      /\ AdoptedBy(port, pool, p).fp = Server[port].fp
      /\ Bounded(AdoptedBy(port, pool, p), Server[port].max)
      /\ Remembers(AdoptedBy(port, pool, p), p) /\ PositionOf(AdoptedBy(port, pool, p), p) = 1
  BY ServerFacts, RememberProperties DEF GoodPool, AdoptedBy
<1>2. Fronted(AdoptedBy(port, pool, p), p)
  BY <1>1, FrontedPosition DEF GoodPool
<1>3. QED BY <1>1, <1>2 DEF Leads

(* Noting an address moves nobody.                                         *)
LEMMA NotedLeads ==
  ASSUME NEW server, NEW pool, GoodPool(pool), NEW p \in Peers, NEW q, Leads(server, pool, q)
  PROVE  Leads(server, NoteDirect(pool, p, "direct"), q)
<1> DEFINE new == NoteDirect(pool, p, "direct")
<1>1. /\ GoodPool(new) /\ new.fp = pool.fp
      /\ DOMAIN new.peers = DOMAIN pool.peers
      /\ \A i \in DOMAIN pool.peers : PeerAt(new, i) = PeerAt(pool, i)
  BY NoteDirectProperties DEF GoodPool
<1> HIDE DEF new
<1>2. Len(new.peers) = Len(pool.peers)
  <2>1. /\ Len(new.peers) \in Nat /\ DOMAIN new.peers = 1..Len(new.peers)
        /\ Len(pool.peers) \in Nat /\ DOMAIN pool.peers = 1..Len(pool.peers)
    BY <1>1, PoolFacts DEF GoodPool
  <2>2. \A m, n \in Nat : 1..m = 1..n => m <= n
    <3> SUFFICES ASSUME NEW m \in Nat, NEW n \in Nat, 1..m = 1..n, n < m PROVE FALSE
      OBVIOUS
    <3>1. m \in 1..m /\ m \notin 1..n
      OBVIOUS
    <3>2. QED BY <3>1
  <2>3. Len(new.peers) <= Len(pool.peers) /\ Len(pool.peers) <= Len(new.peers)
    BY <1>1, <2>1, <2>2
  <2>4. QED BY <2>1, <2>3
<1>3. QED BY <1>1, <1>2 DEF Leads, Bounded, Fronted, new

LEMMA StepLeads == TypeOK /\ Kept /\ ExitLeads /\ [Next]_vars => ExitLeads'
<1> SUFFICES ASSUME TypeOK, Kept, ExitLeads, [Next]_vars PROVE ExitLeads'
  OBVIOUS
<1>1. ASSUME UNCHANGED <<dest, pools>>, \A port \in Ports : Settled(port)' => Settled(port)
      PROVE  ExitLeads'
  BY <1>1 DEF ExitLeads
<1>2. ASSUME NEW e \in Events,
             HandleDiscover(e) \/ HandlePeerClosed(e) \/ HandleRelayed(e) \/ HandleSelect(e)
      PROVE  ExitLeads'
  <2>1. handling = "nothing" /\ UNCHANGED <<dest, pools>>
    BY <1>2 DEF HandleDiscover, HandlePeerClosed, HandleRelayed, HandleSelect, Receives, store
  <2>2. QED BY <1>1, <2>1 DEF Settled
<1>3. ASSUME NEW e \in Events, HandleDirect(e) PROVE ExitLeads'
  <2>1. e.peer \in Peers /\ handling = "nothing"
    BY <1>3, EventFacts DEF HandleDirect, Receives
  <2> SUFFICES ASSUME NEW port \in Ports, dest'[port] # NoPeer, Rotating(port)
               PROVE  Leads(Server[port], pools'[port], dest'[port])
    BY DEF ExitLeads, Rotating
  <2>2. GoodPool(Noted(port, e.peer))
    BY <2>1, TypedPools, NoteDirectProperties DEF Noted, GoodPool
  <2>3. CASE RotatesTo(port, e.peer)
    <3>1. /\ dest'[port] = e.peer
          /\ pools'[port] = AdoptedBy(port, Noted(port, e.peer), e.peer)
      BY <1>3, <2>3 DEF HandleDirect
    <3>2. QED BY <2>1, <2>2, <3>1, AdoptedByLeads
  <2>4. CASE ~RotatesTo(port, e.peer)
    <3>1. dest'[port] = dest[port] /\ pools'[port] \in {Noted(port, e.peer), Opened(Noted(port, e.peer), Server[port].fp)}
      BY <1>3, <2>4 DEF HandleDirect
    <3>2. Leads(Server[port], pools[port], dest[port])
      BY <2>1, <3>1 DEF ExitLeads, Settled
    <3>3. Leads(Server[port], Noted(port, e.peer), dest[port])
      BY <2>1, <3>2, TypedPools, NotedLeads DEF Noted
    <3>4. Opened(Noted(port, e.peer), Server[port].fp) = Noted(port, e.peer)
      BY <3>3 DEF Leads, Opened
    <3>5. QED BY <3>1, <3>3, <3>4
  <2>5. QED BY <2>3, <2>4
<1>4. ASSUME NEW e \in Events, HandlePeerUnusable(e) PROVE ExitLeads'
  <2>1. handling = "nothing" /\ UNCHANGED dest
    BY <1>4 DEF HandlePeerUnusable, Receives
  <2> SUFFICES ASSUME NEW port \in Ports, dest[port] # NoPeer, Rotating(port), Settled(port)'
               PROVE  Leads(Server[port], pools'[port], dest[port])
    BY <2>1 DEF ExitLeads, Rotating
  <2>2. dest[port] # e.peer
    <3>1. port \notin Serving(e.peer)
      BY <1>4 DEF HandlePeerUnusable, Settled
    <3>2. QED BY <3>1 DEF Serving
  <2>3. Leads(Server[port], pools[port], dest[port])
    BY <2>1 DEF ExitLeads, Settled
  <2>4. /\ Forget(pools[port], e.peer).fp = pools[port].fp
        /\ Fronted(Forget(pools[port], e.peer), dest[port])
        /\ Len(Forget(pools[port], e.peer).peers) <= Len(pools[port].peers)
    BY <2>2, <2>3, TypedPools, ForgetKeepsFront DEF Leads, GoodPool
  <2>5. Bounded(Forget(pools[port], e.peer), Server[port].max)
    <3>1. /\ Len(pools[port].peers) \in Nat
          /\ Len(Forget(pools[port], e.peer).peers) \in Nat
      BY TypedPools, ForgetIsPool, PoolFacts DEF GoodPool
    <3>2. AtLeastOne(Server[port].max) \in Nat
      BY ServerFacts DEF AtLeastOne
    <3>3. QED BY <2>3, <2>4, <3>1, <3>2 DEF Leads, Bounded
  <2>6. pools'[port] = Forget(pools[port], e.peer)
    BY <1>4 DEF HandlePeerUnusable
  <2>7. QED BY <2>3, <2>4, <2>5, <2>6 DEF Leads
<1>5. ASSUME FinishEffort PROVE ExitLeads'
  <2>1. effort \in Ports
    BY <1>5 DEF TypeOK, FinishEffort
  <2>2. PICK o \in EffortOutcomes :
          /\ pools' = [pools EXCEPT ![effort] = o.pool]
          /\ dest' = [dest EXCEPT ![effort] = o.peer]
    BY <1>5 DEF FinishEffort
  <2> SUFFICES ASSUME NEW port \in Ports, dest'[port] # NoPeer, Rotating(port), Settled(port)'
               PROVE  Leads(Server[port], pools'[port], dest'[port])
    BY DEF ExitLeads, Rotating
  <2>3. CASE port = effort
    <3>1. Avoided \in Peers \cup {NoPeer}
      BY DEF TypeOK, Avoided
    <3>2. \A x \in Outcomes(Server[effort], pools[effort], Avoided) :
            x.peer # NoPeer => Leads(Server[effort], x.pool, x.peer)
      BY <2>1, <2>3, <3>1, ServerFacts, TypedPools, AdoptedExitLeads DEF GoodPool, Rotating
    <3>3. pools'[port] = o.pool /\ dest'[port] = o.peer
      BY <2>1, <2>2, <2>3 DEF TypeOK
    <3>4. QED BY <2>3, <3>2, <3>3 DEF EffortOutcomes
  <2>4. CASE port # effort
    <3>1. pools'[port] = pools[port] /\ dest'[port] = dest[port]
      BY <2>2, <2>4 DEF TypeOK
    <3>2. Settled(port)
      BY <1>5, <2>4 DEF Settled, FinishEffort, Continue
    <3>3. QED BY <3>1, <3>2 DEF ExitLeads
  <2>5. QED BY <2>3, <2>4
<1>6. ASSUME FinishSelect PROVE ExitLeads'
  <2>1. effort \in Ports /\ handling = "select"
    BY <1>6 DEF TypeOK, FinishSelect
  <2>2. CASE reached = NoPeer
    BY <1>1, <1>6, <2>1, <2>2 DEF FinishSelect, store, Settled
  <2>3. CASE reached # NoPeer
    <3>1. reached \in Peers
      BY <2>3 DEF TypeOK
    <3>2. /\ pools' = [pools EXCEPT ![effort] = AdoptedBy(effort, pools[effort], reached)]
          /\ dest' = [dest EXCEPT ![effort] = reached]
      BY <1>6, <2>3 DEF FinishSelect, SetDestination
    <3>3. Leads(Server[effort], AdoptedBy(effort, pools[effort], reached), reached)
      BY <2>1, <3>1, TypedPools, AdoptedByLeads
    <3>4. \A port \in Ports : Settled(port)
      BY <2>1 DEF Settled
    <3>5. /\ pools'[effort] = AdoptedBy(effort, pools[effort], reached) /\ dest'[effort] = reached
          /\ \A port \in Ports \ {effort} : pools'[port] = pools[port] /\ dest'[port] = dest[port]
      BY <2>1, <3>2 DEF TypeOK
    <3>6. QED BY <3>3, <3>4, <3>5 DEF ExitLeads, Rotating
  <2>4. QED BY <2>2, <2>3
<1>7. ASSUME NEW port \in Ports, GoDark(port) PROVE ExitLeads'
  <2>1. UNCHANGED pools /\ \A other \in Ports : dest'[other] \in {dest[other], NoPeer}
    BY <1>7 DEF GoDark, SetDestination, TypeOK
  <2>2. \A other \in Ports : Settled(other)
    BY <1>7 DEF GoDark, Settled
  <2>3. QED BY <2>1, <2>2 DEF ExitLeads, Rotating
<1>8. ASSUME NEW port \in Ports, RediscoverClosed(port) \/ RediscoverUnusable(port) PROVE ExitLeads'
  <2>1. UNCHANGED <<dest, pools>>
    BY <1>8 DEF RediscoverClosed, RediscoverUnusable, store
  <2>2. \A other \in Ports : Settled(other)' => Settled(other)
    BY <1>8, NoPortIsNoPort DEF RediscoverClosed, RediscoverUnusable, BeginEffort, Settled
  <2>3. QED BY <1>1, <2>1, <2>2
<1>9. ASSUME UNCHANGED <<dest, pools, handling, todo, effort>> PROVE ExitLeads'
  BY <1>1, <1>9 DEF Settled
<1>10. ASSUME NEW port \in Ports, CooldownLapses(port) \/ SessionAsks(port) PROVE ExitLeads'
  BY <1>9, <1>10 DEF CooldownLapses, SessionAsks, store, handler
<1>11. ASSUME NEW p \in Peers, NEW link \in Kinds, Establish(p, link) \/ Close(p, link)
       PROVE  ExitLeads'
  BY <1>9, <1>11 DEF Establish, Close, store, handler
<1>12. ASSUME NEW p \in Peers, SessionReports(p) \/ \E port \in Ports : OperatorPicks(port, p)
       PROVE  ExitLeads'
  BY <1>9, <1>12 DEF SessionReports, OperatorPicks, store, handler
<1>13. CASE UNCHANGED vars
  BY <1>9, <1>13 DEF vars, store, handler
<1>14. QED
  BY <1>2, <1>3, <1>4, <1>5, <1>6, <1>7, <1>8, <1>10, <1>11, <1>12, <1>13
  DEF Next, Handle, Resume, Carry

(* Whatever exit the actor has settled on for an unpinned sticky server,   *)
(* by an effort, by hand or by rotating off a relay, is the first one a    *)
(* restart will try, and its pool keeps its bound.                         *)
THEOREM ExitsHeadPools == Spec => []ExitHeadsPool
<1>1. TypeOK /\ ExitLeads => ExitHeadsPool
  <2> SUFFICES ASSUME TypeOK, ExitLeads, NEW port \in Ports,
                      handling = "nothing", dest[port] # NoPeer, Rotating(port)
               PROVE  /\ pools[port].fp = Server[port].fp /\ Bounded(pools[port], Server[port].max)
                      /\ Remembers(pools[port], dest[port]) /\ PositionOf(pools[port], dest[port]) = 1
    BY DEF ExitHeadsPool, Rotating
  <2>1. Leads(Server[port], pools[port], dest[port])
    BY DEF ExitLeads, Settled
  <2>2. QED BY <2>1, TypedPools, FrontedPosition DEF Leads, GoodPool
<1>2. QED BY <1>1, InitLeads, StepLeads, TypeCorrect, AlwaysKept, PTL DEF Spec
(* ------------------------------------------------------------------------ *)
(* The address of an exit that is reached directly is remembered.           *)
(* DirectExitRemembered speaks of exits once the mail is read; the          *)
(* invariant behind it speaks of every entry of every pool at every moment: *)
(* an entry without an address, of a peer believed to be direct, is of a    *)
(* peer whose next notification is still to be handled.  An entry enters a  *)
(* pool while its effort or pick is in progress, and then the notification  *)
(* of the connection that answered the dial waits behind the handler.       *)

Announced(p) == \E link \in Kinds : Sent(PeerConnected(p, link))

Addressable ==
  {x \in Entries(Peers, {"direct"}) : x.peer \in direct /\ x.addr = NoAddress => Announced(x.peer)}

ReachedAnnounced == reached # NoPeer => effort # NoPort /\ Announced(reached)

Addressed ==
  ReachedAnnounced /\ \A port \in Ports : EntriesIn(pools[port], Addressable)

LEMMA InitAddressed == Init => Addressed
<1> SUFFICES ASSUME Init PROVE Addressed
  OBVIOUS
<1>1. Addressable = Entries(Peers, {"direct"}) /\ reached = NoPeer
  BY DEF Init, Addressable
<1>2. \A port \in Ports : IsPool(pools[port], Peers, {"direct"}, Fingerprints)
  BY InitTyped, TypedPools DEF GoodPool
<1>3. \A port \in Ports : EntriesIn(pools[port], Entries(Peers, {"direct"}))
  BY <1>2 DEF EntriesIn, IsPool, PoolsOver
<1>4. QED BY <1>1, <1>3 DEF Addressed, ReachedAnnounced

(* Handling an event leaves the notifications of every other peer.         *)
LEMMA OthersStayAnnounced ==
  ASSUME TypeOK, NEW e \in Events, Receives(e), NEW p \in Peers,
         e.kind = "PeerConnected" => e.peer # p
  PROVE  Announced(p) => Announced(p)'
<1>1. \A link \in Kinds : PeerConnected(p, link) \in Events /\ PeerConnected(p, link) # e
  BY EventFacts DEF PeerConnected
<1>2. \A link \in Kinds : Sent(PeerConnected(p, link)) => Sent(PeerConnected(p, link))'
  BY <1>1 DEF TypeOK, Receives, Sent
<1>3. QED BY <1>2 DEF Announced

LEMMA SendingAnnounces ==
  ASSUME TypeOK, NEW e \in Events, Sends(e), NEW p \in Peers
  PROVE  /\ Announced(p) => Announced(p)'
         /\ \A link \in Kinds : e = PeerConnected(p, link) => Announced(p)'
<1>1. \A link \in Kinds : PeerConnected(p, link) \in Events
  BY EventFacts
<1>2. \A x \in Events : mail[x] \in Nat /\ mail'[x] = IF x = e THEN mail[x] + 1 ELSE mail[x]
  BY DEF TypeOK, Sends
<1>3. \A link \in Kinds : Sent(PeerConnected(p, link)) => Sent(PeerConnected(p, link))'
  BY <1>1, <1>2 DEF Sent
<1>4. \A link \in Kinds : e = PeerConnected(p, link) => Sent(PeerConnected(p, link))'
  BY <1>1, <1>2 DEF Sent
<1>5. QED BY <1>3, <1>4 DEF Announced

(* An entry stays as good as it was while its peer is no more direct than  *)
(* before and its notification, if one is awaited, is not taken.           *)
LEMMA AddressableStays ==
  ASSUME direct' \subseteq direct, \A p \in Peers \cap direct' : Announced(p) => Announced(p)'
  PROVE  Addressable \subseteq Addressable'
<1> SUFFICES ASSUME NEW x \in Addressable PROVE x \in Addressable'
  OBVIOUS
<1>1. x \in Entries(Peers, {"direct"}) /\ (x.peer \in direct /\ x.addr = NoAddress => Announced(x.peer))
  BY DEF Addressable
<1>2. x.peer \in Peers
  BY <1>1 DEF Entries
<1>3. x.peer \in direct' /\ x.addr = NoAddress => Announced(x.peer)'
  BY <1>1, <1>2
<1>4. QED BY <1>1, <1>3 DEF Addressable

LEMMA AddressedUndisturbed ==
  ASSUME Addressed, UNCHANGED pools, ReachedAnnounced',
         direct' \subseteq direct, \A p \in Peers \cap direct' : Announced(p) => Announced(p)'
  PROVE  Addressed'
<1>1. Addressable \subseteq Addressable'
  BY AddressableStays
<1>2. \A port \in Ports : EntriesIn(pools[port], Addressable')
  BY <1>1, EntriesInMore DEF Addressed
<1>3. QED BY <1>2 DEF Addressed, EntriesIn

LEMMA HandleDirectAddressed ==
  ASSUME TypeOK, Kept, Addressed, NEW e \in Events, HandleDirect(e)
  PROVE  Addressed'
<1> DEFINE p == e.peer
           noted == {x \in Addressable : x.peer # p} \cup {[peer |-> p, addr |-> "direct"]}
<1>1. p \in Peers /\ e.kind = "PeerConnected" /\ direct' = direct \cup {p} /\ Receives(e)
  BY EventFacts DEF HandleDirect
<1>2. noted \subseteq Addressable'
  <2>1. [peer |-> p, addr |-> "direct"] \in Addressable'
    BY <1>1 DEF Addressable, Entries, NoAddress
  <2>2. ASSUME NEW x \in Addressable, x.peer # p PROVE x \in Addressable'
    <3>1. x \in Entries(Peers, {"direct"}) /\ x.peer \in Peers
      BY DEF Addressable, Entries
    <3>2. Announced(x.peer) => Announced(x.peer)'
      BY <1>1, <2>2, <3>1, OthersStayAnnounced
    <3>3. QED BY <1>1, <2>2, <3>1, <3>2 DEF Addressable
  <2>3. QED BY <2>1, <2>2
<1>3. ReachedAnnounced'
  <2>1. reached' = NoPeer
    BY DEF HandleDirect, Receives, handler, Kept, Idle, Addressed, ReachedAnnounced
  <2>2. QED BY <2>1 DEF ReachedAnnounced
<1>4. ASSUME NEW port \in Ports PROVE EntriesIn(pools'[port], noted)
  <2> DEFINE new == Noted(port, p)
  <2>1. GoodPool(new) /\ GoodPool(pools[port]) /\ EntriesIn(pools[port], Addressable)
    BY <1>1, TypedPools, NoteDirectProperties DEF Noted, GoodPool, Addressed
  <2>2. EntriesIn(new, noted)
    <3>1. new.peers = [i \in DOMAIN pools[port].peers |->
                         IF PeerAt(pools[port], i) = p THEN [peer |-> p, addr |-> "direct"]
                         ELSE pools[port].peers[i]]
      <4>1. pools[port] = [fp |-> pools[port].fp, peers |-> pools[port].peers]
        BY <2>1 DEF GoodPool, IsPool, PoolsOver
      <4>2. QED BY <4>1 DEF Noted, NoteDirect
    <3>2. /\ Len(pools[port].peers) \in Nat
          /\ DOMAIN pools[port].peers = 1..Len(pools[port].peers)
          /\ \A i \in DOMAIN pools[port].peers : pools[port].peers[i] \in Addressable
      BY <2>1, EntriesInFacts
    <3>3. \A i \in DOMAIN pools[port].peers :
            (IF PeerAt(pools[port], i) = p THEN [peer |-> p, addr |-> "direct"]
             ELSE pools[port].peers[i]) \in noted
      BY <3>2 DEF PeerAt
    <3> HIDE DEF noted
    <3>4. new.peers \in [1..Len(pools[port].peers) -> noted]
      BY <3>1, <3>2, <3>3
    <3>5. QED BY <3>2, <3>4 DEF EntriesIn
  <2>3. EntriesIn(Opened(new, Server[port].fp), noted)
    BY <2>2, OpenedEntriesIn
  <2>4. ASSUME RotatesTo(port, p) PROVE EntriesIn(AdoptedBy(port, new, p), noted)
    <3> DEFINE kept == Opened(new, Server[port].fp)
               at   == PositionOf(kept, p)
    <3>1. Remembers(kept, p)
      BY <2>4 DEF RotatesTo
    <3>2. at \in DOMAIN kept.peers /\ PeerAt(kept, at) = p
      BY <3>1 DEF Remembers, PositionOf
    <3>3. kept.peers[at] \in noted /\ kept.peers[at].peer = p
      BY <2>3, <3>2, EntriesInFacts DEF PeerAt
    <3>4. DirectAddress(kept, p) = "direct"
      BY <3>1, <3>3 DEF DirectAddress
    <3> HIDE DEF kept, at, noted, new
    <3>5. [peer |-> p, addr |-> DirectAddress(kept, p)] \in noted
      BY <3>4 DEF noted
    <3>6. WellFormed(new) /\ Server[port].max \in Nat
      BY <2>1, ServerFacts DEF GoodPool, IsPool
    <3>7. QED BY <2>2, <3>5, <3>6, RememberEntriesIn DEF AdoptedBy, kept
  <2>5. pools'[port] = IF RotatesTo(port, p) THEN AdoptedBy(port, new, p)
                       ELSE IF RelayStuck(port, p) THEN Opened(new, Server[port].fp) ELSE new
    BY DEF HandleDirect
  <2> HIDE DEF new, noted
  <2>6. QED BY <2>2, <2>3, <2>4, <2>5
<1> HIDE DEF noted
<1>5. \A port \in Ports : EntriesIn(pools'[port], Addressable')
  BY <1>2, <1>4, EntriesInMore
<1>6. QED BY <1>3, <1>5 DEF Addressed, EntriesIn

LEMMA FinishEffortAddressed ==
  ASSUME TypeOK, Addressed, FinishEffort
  PROVE  Addressed'
<1>1. effort \in Ports /\ Avoided \in Peers \cup {NoPeer} /\ reached' = NoPeer
      /\ UNCHANGED <<direct, mail>>
  BY DEF TypeOK, FinishEffort, Avoided
<1>2. PICK o \in EffortOutcomes : pools' = [pools EXCEPT ![effort] = o.pool]
  BY DEF FinishEffort
<1>3. Addressable \subseteq Addressable'
  BY <1>1, AddressableStays DEF Announced, Sent
<1>4. Retained(o, pools[effort], Addressable, {"direct"})
  <2>1. /\ Configured(Server[effort], Fingerprints) /\ EntriesIn(pools[effort], Addressable)
        /\ IsPool(pools[effort], Peers, {"direct"}, Fingerprints)
    BY <1>1, ServerFacts, TypedPools DEF GoodPool, Addressed
  <2>2. \A x \in Outcomes(Server[effort], pools[effort], Avoided) :
          Retained(x, pools[effort], Addressable, {"direct"})
    BY <1>1, <2>1, OutcomesKeep
  <2>3. QED BY <2>2 DEF EffortOutcomes
<1>5. EntriesIn(o.pool, Addressable)
  <2>1. CASE o.source = "pinned"
    BY <1>1, <1>4, <2>1 DEF Retained, Addressed
  <2>2. CASE o.source # "pinned"
    <3>1. o.peer = reached
      BY <2>2 DEF EffortOutcomes
    <3>2. CASE reached = NoPeer
      <4>1. o.pool.peers \in Seq(Entries(Peers, {"direct"}))
        <5>1. \A x \in Outcomes(Server[effort], pools[effort], Avoided) : Typed(x, {"direct"}, Fingerprints)
          BY <1>1, ServerFacts, TypedPools, OutcomesTyped DEF GoodPool
        <5>2. Typed(o, {"direct"}, Fingerprints)
          BY <5>1 DEF EffortOutcomes
        <5>3. QED BY <5>2, PoolFacts DEF Typed
      <4>2. EntriesIn(o.pool, Entries(Peers, {"direct"})) /\ EntriesIn(o.pool, Addressable \cup EntriesOf(NoPeer, {"direct"}))
        BY <1>4, <3>1, <3>2, <4>1 DEF Retained, EntriesIn
      <4>3. \A i \in DOMAIN o.pool.peers : o.pool.peers[i] \in Addressable
        <5>1. \A i \in DOMAIN o.pool.peers :
                /\ o.pool.peers[i] \in Entries(Peers, {"direct"})
                /\ o.pool.peers[i] \in Addressable \cup EntriesOf(NoPeer, {"direct"})
          BY <4>2, EntriesInFacts
        <5>2. QED BY <5>1, NoPeerIsNoPeer DEF Entries, EntriesOf
      <4>4. Len(o.pool.peers) \in Nat /\ o.pool.peers \in [1..Len(o.pool.peers) -> Addressable]
        BY <4>2, <4>3, EntriesInFacts DEF EntriesIn
      <4>5. QED BY <4>4 DEF EntriesIn
    <3>3. CASE reached # NoPeer
      <4>1. reached \in Peers /\ Announced(reached)
        BY <3>3 DEF TypeOK, Addressed, ReachedAnnounced
      <4>2. EntriesOf(reached, {"direct"}) \subseteq Addressable
        BY <4>1 DEF EntriesOf, Addressable, Entries
      <4>3. Addressable \cup EntriesOf(reached, {"direct"}) = Addressable
        BY <4>2
      <4>4. QED BY <1>4, <3>1, <4>3 DEF Retained
    <3>4. QED BY <3>2, <3>3
  <2>3. QED BY <2>1, <2>2
<1>6. \A port \in Ports : pools'[port] = IF port = effort THEN o.pool ELSE pools[port]
  BY <1>1, <1>2 DEF TypeOK
<1>7. \A port \in Ports : EntriesIn(pools'[port], Addressable)
  BY <1>5, <1>6 DEF Addressed
<1>8. \A port \in Ports : EntriesIn(pools'[port], Addressable')
  BY <1>3, <1>7, EntriesInMore
<1>9. QED BY <1>1, <1>8 DEF Addressed, ReachedAnnounced, EntriesIn

LEMMA FinishSelectAddressed ==
  ASSUME TypeOK, Addressed, FinishSelect
  PROVE  Addressed'
<1>1. effort \in Ports /\ reached' = NoPeer /\ UNCHANGED <<direct, mail>>
  BY DEF TypeOK, FinishSelect
<1>2. Addressable \subseteq Addressable'
  BY <1>1, AddressableStays DEF Announced, Sent
<1>3. CASE reached = NoPeer
  <2>1. UNCHANGED pools
    BY <1>3 DEF FinishSelect, store
  <2>2. QED BY <1>1, <2>1, AddressedUndisturbed DEF ReachedAnnounced, Announced, Sent
<1>4. CASE reached # NoPeer
  <2>1. reached \in Peers /\ Announced(reached)
    BY <1>4 DEF TypeOK, Addressed, ReachedAnnounced
  <2>2. GoodPool(pools[effort]) /\ WellFormed(pools[effort]) /\ EntriesIn(pools[effort], Addressable)
    BY <1>1, TypedPools DEF GoodPool, IsPool, Addressed
  <2>3. DirectAddress(Opened(pools[effort], Server[effort].fp), reached) \in {"direct", NoAddress}
    <3>1. IsPool(Opened(pools[effort], Server[effort].fp), Peers, {"direct"}, Fingerprints)
      BY <2>2, OpenedIsPool DEF GoodPool
    <3>2. QED BY <3>1, DirectAddressType
  <2>4. [peer |-> reached, addr |-> DirectAddress(Opened(pools[effort], Server[effort].fp), reached)]
          \in Addressable
    BY <2>1, <2>3 DEF Addressable, Entries
  <2>5. EntriesIn(AdoptedBy(effort, pools[effort], reached), Addressable)
    BY <1>1, <2>2, <2>4, ServerFacts, RememberEntriesIn DEF AdoptedBy
  <2>6. pools' = [pools EXCEPT ![effort] = AdoptedBy(effort, pools[effort], reached)]
    BY <1>4 DEF FinishSelect
  <2>7. \A port \in Ports : EntriesIn(pools'[port], Addressable)
    BY <1>1, <2>5, <2>6 DEF TypeOK, Addressed
  <2>8. \A port \in Ports : EntriesIn(pools'[port], Addressable')
    BY <1>2, <2>7, EntriesInMore
  <2>9. QED BY <1>1, <2>8 DEF Addressed, ReachedAnnounced, EntriesIn
<1>5. QED BY <1>3, <1>4

LEMMA StepAddressed == TypeOK /\ Kept /\ Addressed /\ [Next]_vars => Addressed'
<1> SUFFICES ASSUME TypeOK, Kept, Addressed, [Next]_vars PROVE Addressed'
  OBVIOUS
<1>0. reached = NoPeer \/ reached \in Peers
  BY DEF TypeOK
<1>1. ASSUME NEW e \in Events,
             HandleDiscover(e) \/ HandlePeerClosed(e) \/ HandleRelayed(e) \/ HandleSelect(e)
      PROVE  Addressed'
  <2>1. Receives(e) /\ UNCHANGED pools /\ direct' \subseteq direct
    BY <1>1 DEF HandleDiscover, HandlePeerClosed, HandleRelayed, HandleSelect, store
  <2>2. reached' = NoPeer
    BY <1>1, <2>1 DEF HandleDiscover, HandlePeerClosed, HandleRelayed, HandleSelect, BeginEffort,
                      Receives, handler, Kept, Idle, Addressed, ReachedAnnounced
  <2>3. \A p \in Peers \cap direct' : e.kind = "PeerConnected" => e.peer # p
    BY <1>1 DEF HandleDiscover, HandlePeerClosed, HandleRelayed, HandleSelect
  <2>4. \A p \in Peers \cap direct' : Announced(p) => Announced(p)'
    BY <2>1, <2>3, OthersStayAnnounced
  <2>5. QED BY <2>1, <2>2, <2>4, AddressedUndisturbed DEF ReachedAnnounced
<1>2. ASSUME NEW e \in Events, HandleDirect(e) PROVE Addressed'
  BY <1>2, HandleDirectAddressed
<1>3. ASSUME NEW e \in Events, HandlePeerUnusable(e) PROVE Addressed'
  <2>1. Receives(e) /\ e.kind = "PeerUnusable" /\ UNCHANGED direct
    BY <1>3 DEF HandlePeerUnusable
  <2>2. reached' = NoPeer
    BY <1>3 DEF HandlePeerUnusable, Receives, Kept, Idle, Addressed, ReachedAnnounced
  <2>3. Addressable \subseteq Addressable'
    BY <2>1, OthersStayAnnounced, AddressableStays
  <2>4. ASSUME NEW port \in Ports PROVE EntriesIn(pools'[port], Addressable)
    <3>1. WellFormed(pools[port]) /\ EntriesIn(pools[port], Addressable)
      BY DEF TypeOK, Addressed
    <3>2. pools'[port] = Forget(pools[port], e.peer)
      BY <1>3 DEF HandlePeerUnusable
    <3>3. QED BY <3>1, <3>2, ForgetEntriesIn
  <2>5. \A port \in Ports : EntriesIn(pools'[port], Addressable')
    BY <2>3, <2>4, EntriesInMore
  <2>6. QED BY <2>2, <2>5 DEF Addressed, ReachedAnnounced, EntriesIn
<1>4. ASSUME NEW port \in Ports, Carry(port) PROVE Addressed'
  <2>1. UNCHANGED <<pools, direct, mail>>
    BY <1>4 DEF Carry, GoDark, RediscoverClosed, RediscoverUnusable, store
  <2>2. \A p : Announced(p)' = Announced(p)
    BY <2>1 DEF Announced, Sent
  <2>3. reached' = NoPeer \/ UNCHANGED <<reached, effort>>
    BY <1>4 DEF Carry, GoDark, RediscoverClosed, RediscoverUnusable, BeginEffort
  <2>4. ReachedAnnounced'
    BY <2>2, <2>3 DEF Addressed, ReachedAnnounced
  <2>5. QED BY <2>1, <2>2, <2>4, AddressedUndisturbed
<1>5. ASSUME NEW port \in Ports, CooldownLapses(port) PROVE Addressed'
  <2>1. UNCHANGED <<pools, direct, reached, effort>>
    BY <1>5 DEF CooldownLapses, store, handler
  <2>2. \A p \in Peers : Announced(p) => Announced(p)'
    <3>1. \A p \in Peers, link \in Kinds :
            PeerConnected(p, link) \in Events /\ PeerConnected(p, link) # DiscoverFor(port)
      BY EventFacts DEF PeerConnected, DiscoverFor
    <3>2. \A p \in Peers, link \in Kinds : mail'[PeerConnected(p, link)] = mail[PeerConnected(p, link)]
      BY <1>5, <3>1 DEF TypeOK, CooldownLapses
    <3>3. QED BY <3>2 DEF Announced, Sent
  <2>3. ReachedAnnounced'
    BY <1>0, <2>1, <2>2 DEF Addressed, ReachedAnnounced
  <2>4. QED BY <2>1, <2>2, <2>3, AddressedUndisturbed
<1>6. ASSUME NEW e \in Events, Sends(e), UNCHANGED <<pools, direct, effort>>, ReachedAnnounced'
      PROVE  Addressed'
  BY <1>6, SendingAnnounces, AddressedUndisturbed
<1>7. ASSUME NEW e \in Events, Sends(e), UNCHANGED <<pools, direct, effort, reached>>
      PROVE  Addressed'
  <2>1. ReachedAnnounced'
    BY <1>0, <1>7, SendingAnnounces DEF Addressed, ReachedAnnounced
  <2>2. QED BY <1>6, <1>7, <2>1
<1>8. ASSUME NEW p \in Peers, NEW link \in Kinds, Establish(p, link) PROVE Addressed'
  <2>1. /\ PeerConnected(p, link) \in Events /\ Sends(PeerConnected(p, link))
        /\ UNCHANGED <<pools, direct, effort>>
    BY <1>8, EventFacts DEF Establish, store
  <2>2. reached' = reached \/ (reached' = p /\ effort # NoPort)
    BY <1>8 DEF Establish, Dialable
  <2>3. Announced(p)' /\ \A q \in Peers : Announced(q) => Announced(q)'
    BY <2>1, SendingAnnounces
  <2>4. CASE reached' = reached
    <3>1. ReachedAnnounced'
      BY <1>0, <2>1, <2>3, <2>4 DEF Addressed, ReachedAnnounced
    <3>2. QED BY <1>6, <2>1, <3>1
  <2>5. CASE reached' = p /\ effort # NoPort
    <3>1. ReachedAnnounced'
      BY <2>1, <2>3, <2>5 DEF ReachedAnnounced
    <3>2. QED BY <1>6, <2>1, <3>1
  <2>6. QED BY <2>2, <2>4, <2>5
<1>9. ASSUME NEW p \in Peers, NEW link \in Kinds, Close(p, link) PROVE Addressed'
  BY <1>7, <1>9, EventFacts DEF Close, store, handler
<1>10. ASSUME NEW port \in Ports, SessionAsks(port) PROVE Addressed'
  BY <1>7, <1>10, EventFacts DEF SessionAsks, store, handler
<1>11. ASSUME NEW p \in Peers, SessionReports(p) PROVE Addressed'
  BY <1>7, <1>11, EventFacts DEF SessionReports, store, handler
<1>12. ASSUME NEW port \in Ports, NEW p \in Peers, OperatorPicks(port, p) PROVE Addressed'
  BY <1>7, <1>12, EventFacts DEF OperatorPicks, store, handler
<1>13. CASE UNCHANGED vars
  BY <1>13 DEF vars, store, handler, Addressed, ReachedAnnounced, Addressable, Announced, Sent
<1>14. QED
  BY <1>1, <1>2, <1>3, <1>4, <1>5, <1>8, <1>9, <1>10, <1>11, <1>12, <1>13,
     FinishEffortAddressed, FinishSelectAddressed
  DEF Next, Handle, Resume

(* Whoever came to a pool, and whenever it connected, an exit the actor    *)
(* believes to be reached directly has its address remembered once the     *)
(* notifications are handled: note_direct_address misses no entry that a   *)
(* later reconnect could dial.                                             *)
THEOREM DirectExitsRemembered == Spec => []DirectExitRemembered
<1>1. TypeOK /\ Addressed => DirectExitRemembered
  <2> SUFFICES ASSUME TypeOK, Addressed, NEW port \in Ports,
                      \A e \in Events : e.kind = "PeerConnected" => ~Sent(e),
                      dest[port] \in direct, Remembers(pools[port], dest[port])
               PROVE  DirectAddress(pools[port], dest[port]) # NoAddress
    BY DEF DirectExitRemembered
  <2> DEFINE at == PositionOf(pools[port], dest[port])
  <2>1. at \in DOMAIN pools[port].peers /\ PeerAt(pools[port], at) = dest[port]
    BY DEF Remembers, PositionOf
  <2>2. pools[port].peers[at] \in Addressable /\ pools[port].peers[at].peer = dest[port]
    BY <2>1, EntriesInFacts DEF Addressed, PeerAt
  <2>3. ~Announced(dest[port])
    <3>1. dest[port] \in Peers
      BY <2>2 DEF Addressable, Entries
    <3>2. \A link \in Kinds :
            PeerConnected(dest[port], link) \in Events /\ PeerConnected(dest[port], link).kind = "PeerConnected"
      BY <3>1, EventFacts DEF PeerConnected
    <3>3. QED BY <3>2 DEF Announced
  <2>4. pools[port].peers[at].addr # NoAddress
    BY <2>2, <2>3 DEF Addressable
  <2>5. QED BY <2>4 DEF DirectAddress
<1>2. QED BY <1>1, InitAddressed, StepAddressed, TypeCorrect, AlwaysKept, PTL DEF Spec
(* ------------------------------------------------------------------------ *)
(* An exit whose last connection went is noticed, unless a PeerConnected    *)
(* that came late put the port on it.  Every step but the rotation off a    *)
(* relay keeps DeadExitNoticed: an effort or a pick adopts a peer whose     *)
(* connection came up while the handler ran, so that a close, if there was  *)
(* one, still waits behind it.                                              *)

Heard(p) == Connected(p) \/ Sent(PeerClosed(p))

ReachedHeard == reached # NoPeer => effort # NoPort /\ Heard(reached)

TodoIsHandled == todo # {} => handling \in {"closed", "unusable"}

ExitHeard ==
  \A port \in Ports :
    dest[port] # NoPeer => Heard(dest[port]) \/ port \in todo \/ BeingServed(port)

Noticed == ReachedHeard /\ TodoIsHandled /\ ExitHeard

(* The rotations that find their peer connected, or its close still to be  *)
(* handled: those a PeerConnected handled in the order of the connections  *)
(* makes.                                                                  *)
RotatesInTime ==
  \A e \in Events, port \in Ports :
    HandleDirect(e) /\ dest'[port] # dest[port] => Heard(e.peer)

LEMMA InitNoticed == Init => Noticed
BY DEF Init, Noticed, ReachedHeard, TodoIsHandled, ExitHeard

(* A close is forgotten only by its own handler.                           *)
LEMMA OthersStayHeard ==
  ASSUME TypeOK, NEW e \in Events, Receives(e), UNCHANGED links, NEW p \in Peers,
         e.kind = "PeerClosed" => e.peer # p
  PROVE  Heard(p) => Heard(p)'
<1>1. PeerClosed(p) \in Events /\ PeerClosed(p) # e
  BY EventFacts DEF PeerClosed
<1>2. Sent(PeerClosed(p)) => Sent(PeerClosed(p))'
  BY <1>1 DEF TypeOK, Receives, Sent
<1>3. QED BY <1>2 DEF Heard, Connected

LEMMA NoticedUndisturbed ==
  ASSUME TypeOK, Noticed, \A p \in Peers : Heard(p) => Heard(p)',
         UNCHANGED <<dest, handling, todo, effort, reached>>
  PROVE  Noticed'
<1>1. \A port \in Ports : dest[port] = NoPeer \/ dest[port] \in Peers
  BY DEF TypeOK
<1>2. reached = NoPeer \/ reached \in Peers
  BY DEF TypeOK
<1>3. QED BY <1>1, <1>2 DEF Noticed, ReachedHeard, TodoIsHandled, ExitHeard, BeingServed

LEMMA StepNoticed == TypeOK /\ Kept /\ Noticed /\ [Next]_vars /\ [RotatesInTime]_vars => Noticed'
<1> SUFFICES ASSUME TypeOK, Kept, Noticed, [Next]_vars, [RotatesInTime]_vars PROVE Noticed'
  OBVIOUS
<1>0. /\ \A port \in Ports : dest[port] = NoPeer \/ dest[port] \in Peers
      /\ reached = NoPeer \/ reached \in Peers
  BY DEF TypeOK
<1>1. ASSUME handling = "nothing"
      PROVE  /\ reached = NoPeer /\ todo = {}
             /\ \A port \in Ports : dest[port] # NoPeer => Heard(dest[port])
  <2>1. effort = NoPort /\ reached = NoPeer /\ todo = {}
    BY <1>1 DEF Kept, Idle, Noticed, ReachedHeard, TodoIsHandled
  <2>2. \A port \in Ports : ~BeingServed(port)
    BY <2>1, NoPortIsNoPort DEF BeingServed
  <2>3. QED BY <2>1, <2>2 DEF Noticed, ExitHeard
<1>2. ASSUME NEW e \in Events, HandleDiscover(e) \/ HandleSelect(e) \/ HandleRelayed(e)
      PROVE  Noticed'
  <2>1. Receives(e) /\ e.kind # "PeerClosed" /\ handling = "nothing" /\ UNCHANGED <<dest, todo, links>>
    BY <1>2 DEF HandleDiscover, HandleSelect, HandleRelayed, Receives, store, handler
  <2>2. \A p \in Peers : Heard(p) => Heard(p)'
    BY <2>1, OthersStayHeard
  <2>3. reached' = NoPeer
    BY <1>1, <1>2, <2>1 DEF HandleDiscover, HandleSelect, HandleRelayed, BeginEffort, handler
  <2>4. QED BY <1>0, <1>1, <2>1, <2>2, <2>3 DEF Noticed, ReachedHeard, TodoIsHandled, ExitHeard
<1>3. ASSUME NEW e \in Events, HandlePeerClosed(e) PROVE Noticed'
  <2>1. /\ Receives(e) /\ handling = "nothing" /\ UNCHANGED <<dest, links, effort, reached>>
        /\ todo' = Serving(e.peer)
        /\ todo' # {} => handling' = "closed"
    BY <1>3 DEF HandlePeerClosed, Receives, store
  <2>2. ASSUME NEW port \in Ports, dest[port] # NoPeer
        PROVE  Heard(dest[port])' \/ port \in todo'
    <3>1. CASE dest[port] = e.peer
      BY <2>1, <3>1 DEF Serving
    <3>2. CASE dest[port] # e.peer
      BY <1>0, <1>1, <2>1, <2>2, <3>2, OthersStayHeard
    <3>3. QED BY <3>1, <3>2
  <2>3. QED BY <1>1, <2>1, <2>2 DEF Noticed, ReachedHeard, TodoIsHandled, ExitHeard
<1>4. ASSUME NEW e \in Events, HandlePeerUnusable(e) PROVE Noticed'
  <2>1. /\ Receives(e) /\ e.kind # "PeerClosed" /\ handling = "nothing"
        /\ UNCHANGED <<dest, links, effort, reached>>
        /\ todo' # {} => handling' = "unusable"
    BY <1>4 DEF HandlePeerUnusable, Receives
  <2>2. \A p \in Peers : Heard(p) => Heard(p)'
    BY <2>1, OthersStayHeard
  <2>3. QED BY <1>0, <1>1, <2>1, <2>2 DEF Noticed, ReachedHeard, TodoIsHandled, ExitHeard
<1>5. ASSUME NEW e \in Events, HandleDirect(e) PROVE Noticed'
  <2>1. /\ Receives(e) /\ e.kind # "PeerClosed" /\ handling = "nothing"
        /\ UNCHANGED <<links, handling, todo, effort, reached>>
    BY <1>5 DEF HandleDirect, Receives, handler
  <2>2. \A p \in Peers : Heard(p) => Heard(p)'
    BY <2>1, OthersStayHeard
  <2>3. ASSUME NEW port \in Ports, dest'[port] # NoPeer PROVE Heard(dest[port])'
    <3>1. CASE dest'[port] = dest[port]
      BY <1>0, <1>1, <2>1, <2>2, <2>3, <3>1
    <3>2. CASE dest'[port] # dest[port]
      <4>1. dest'[port] = e.peer /\ e.peer \in Peers
        BY <1>5, <3>2, EventFacts DEF HandleDirect
      <4>2. RotatesInTime
        <5>1. dest' # dest
          BY <3>2
        <5>2. QED BY <5>1 DEF vars, store
      <4>3. Heard(e.peer)
        BY <1>5, <3>2, <4>2 DEF RotatesInTime
      <4>4. QED BY <2>2, <4>1, <4>3
    <3>3. QED BY <3>1, <3>2
  <2>4. ExitHeard'
    BY <2>3 DEF ExitHeard
  <2>5. QED BY <1>1, <2>1, <2>4 DEF Noticed, ReachedHeard, TodoIsHandled
<1>6. ASSUME FinishEffort PROVE Noticed'
  <2>1. /\ effort \in Ports /\ reached' = NoPeer /\ todo' = todo /\ UNCHANGED <<mail, links>>
        /\ todo # {} => handling' = handling
    BY <1>6 DEF TypeOK, FinishEffort, Continue
  <2>2. \A p : Heard(p)' = Heard(p)
    BY <2>1 DEF Heard, Connected, Sent
  <2>3. PICK o \in EffortOutcomes : dest' = [dest EXCEPT ![effort] = o.peer]
    BY <1>6 DEF FinishEffort
  <2>4. o.peer # NoPeer => Heard(o.peer)
    BY DEF EffortOutcomes, Better, Noticed, ReachedHeard, Heard
  <2>5. ASSUME NEW port \in Ports, dest'[port] # NoPeer
        PROVE  Heard(dest'[port]) \/ port \in todo'
    <3>1. CASE port = effort
      BY <2>1, <2>3, <2>4, <2>5, <3>1 DEF TypeOK
    <3>2. CASE port # effort
      <4>1. dest'[port] = dest[port] /\ ~BeingServed(port)
        BY <2>3, <3>2 DEF TypeOK, BeingServed
      <4>2. QED BY <2>1, <2>5, <4>1 DEF Noticed, ExitHeard
    <3>3. QED BY <3>1, <3>2
  <2>6. ExitHeard'
    BY <2>2, <2>5 DEF ExitHeard, Heard, Connected, Sent
  <2>7. QED BY <2>1, <2>6 DEF Noticed, ReachedHeard, TodoIsHandled
<1>7. ASSUME FinishSelect PROVE Noticed'
  <2>1. /\ handling = "select" /\ effort \in Ports /\ reached' = NoPeer /\ todo' = {}
        /\ UNCHANGED <<mail, links>>
    BY <1>7 DEF TypeOK, FinishSelect, Continue
  <2>2. todo = {} /\ \A port \in Ports : ~BeingServed(port)
    BY <2>1 DEF Noticed, TodoIsHandled, BeingServed
  <2>3. ASSUME NEW port \in Ports, dest'[port] # NoPeer PROVE Heard(dest'[port])
    <3>1. dest'[port] = dest[port] \/ (reached # NoPeer /\ dest'[port] = reached)
      BY <1>7, <2>1 DEF TypeOK, FinishSelect, SetDestination, store
    <3>2. QED BY <2>2, <2>3, <3>1 DEF Noticed, ReachedHeard, ExitHeard
  <2>4. ExitHeard'
    BY <2>1, <2>3 DEF ExitHeard, Heard, Connected, Sent
  <2>5. QED BY <2>1, <2>4 DEF Noticed, ReachedHeard, TodoIsHandled
<1>8. ASSUME NEW port \in Ports, GoDark(port) PROVE Noticed'
  <2>1. /\ handling = "closed" /\ effort = NoPort /\ UNCHANGED <<mail, links, effort, reached>>
        /\ todo' = todo \ {port} /\ (todo' # {} => handling' = "closed")
        /\ dest' = [dest EXCEPT ![port] = NoPeer]
    BY <1>8 DEF GoDark, SetDestination, Continue
  <2>2. \A other \in Ports : ~BeingServed(other)
    BY <2>1, NoPortIsNoPort DEF BeingServed
  <2>3. ASSUME NEW other \in Ports, dest'[other] # NoPeer
        PROVE  Heard(dest'[other]) \/ other \in todo'
    <3>1. other # port /\ dest'[other] = dest[other]
      BY <2>1, <2>3 DEF TypeOK
    <3>2. QED BY <2>1, <2>2, <2>3, <3>1 DEF Noticed, ExitHeard
  <2>4. ExitHeard'
    BY <2>1, <2>3 DEF ExitHeard, Heard, Connected, Sent
  <2>5. ReachedHeard'
    BY <2>1 DEF Noticed, ReachedHeard, Heard, Connected, Sent
  <2>6. QED BY <2>1, <2>4, <2>5 DEF Noticed, TodoIsHandled
<1>9. ASSUME NEW port \in Ports, RediscoverClosed(port) \/ RediscoverUnusable(port) PROVE Noticed'
  <2>1. /\ handling \in {"closed", "unusable"} /\ effort = NoPort /\ reached' = NoPeer
        /\ UNCHANGED <<dest, mail, links, handling>>
        /\ todo' = todo \ {port} /\ effort' = port
    BY <1>9 DEF RediscoverClosed, RediscoverUnusable, BeginEffort, store
  <2>2. \A other \in Ports : ~BeingServed(other)
    BY <2>1, NoPortIsNoPort DEF BeingServed
  <2>3. BeingServed(port)'
    BY <2>1 DEF BeingServed
  <2>4. \A other \in Ports \ {port} :
          dest[other] # NoPeer => Heard(dest[other]) \/ other \in todo'
    BY <2>1, <2>2 DEF Noticed, ExitHeard
  <2>5. ExitHeard'
    BY <2>1, <2>3, <2>4 DEF ExitHeard, Heard, Connected, Sent
  <2>6. QED BY <2>1, <2>5 DEF Noticed, ReachedHeard, TodoIsHandled
<1>10. ASSUME NEW port \in Ports, CooldownLapses(port) PROVE Noticed'
  <2>1. \A p \in Peers : PeerClosed(p) \in Events /\ PeerClosed(p) # DiscoverFor(port)
    BY EventFacts DEF PeerClosed, DiscoverFor
  <2>2. \A p \in Peers : mail'[PeerClosed(p)] = mail[PeerClosed(p)]
    BY <1>10, <2>1 DEF TypeOK, CooldownLapses
  <2>3. \A p \in Peers : Heard(p) => Heard(p)'
    BY <1>10, <2>2 DEF CooldownLapses, Heard, Connected, Sent
  <2>4. QED BY <1>10, <2>3, NoticedUndisturbed DEF CooldownLapses, store, handler
<1>11. ASSUME NEW e \in Events, Sends(e) PROVE \A p \in Peers : Sent(PeerClosed(p)) => Sent(PeerClosed(p))'
  BY <1>11, EventFacts DEF TypeOK, Sends, Sent
<1>12. ASSUME NEW e \in Events, Sends(e), UNCHANGED <<store, throttle, direct, links, handler>>
       PROVE  Noticed'
  <2>1. \A p \in Peers : Heard(p) => Heard(p)'
    BY <1>11, <1>12 DEF Heard, Connected
  <2>2. QED BY <1>12, <2>1, NoticedUndisturbed DEF store, handler
<1>13. ASSUME NEW p \in Peers, NEW link \in Kinds, Establish(p, link) PROVE Noticed'
  <2>1. /\ UNCHANGED <<dest, handling, todo, effort>>
        /\ reached' = reached \/ (reached' = p /\ effort # NoPort)
        /\ links' = [links EXCEPT ![p][link] = @ + 1]
    BY <1>13 DEF Establish, Dialable, store
  <2>2. \A q \in Peers : Sent(PeerClosed(q)) => Sent(PeerClosed(q))'
    BY <1>11, <1>13, EventFacts DEF Establish
  <2>3. /\ \A q \in Peers : Connected(q) => Connected(q)'
        /\ Connected(p)'
    <3>1. \A q \in Peers, k \in Kinds :
            /\ links[q][k] \in Nat
            /\ links'[q][k] = IF q = p /\ k = link THEN links[q][k] + 1 ELSE links[q][k]
      BY <2>1 DEF TypeOK
    <3>2. QED BY <3>1 DEF Connected
  <2>4. \A q \in Peers : Heard(q) => Heard(q)'
    BY <2>2, <2>3 DEF Heard
  <2>5. ReachedHeard'
    BY <1>0, <2>1, <2>3, <2>4 DEF Noticed, ReachedHeard, Heard
  <2>6. ExitHeard' /\ TodoIsHandled'
    BY <1>0, <2>1, <2>4 DEF Noticed, ExitHeard, TodoIsHandled, BeingServed
  <2>7. QED BY <2>5, <2>6 DEF Noticed
<1>14. ASSUME NEW p \in Peers, NEW link \in Kinds, Close(p, link) PROVE Noticed'
  <2>1. PeerClosed(p) \in Events /\ Sends(PeerClosed(p))
    BY <1>14, EventFacts DEF Close
  <2>2. Sent(PeerClosed(p))'
    BY <2>1 DEF TypeOK, Sends, Sent
  <2>3. \A q \in Peers \ {p} : links'[q] = links[q]
    BY <1>14 DEF TypeOK, Close
  <2>4. \A q \in Peers : Heard(q) => Heard(q)'
    BY <1>11, <2>1, <2>2, <2>3 DEF Heard, Connected
  <2>5. QED BY <1>14, <2>4, NoticedUndisturbed DEF Close, store, handler
<1>15. ASSUME NEW port \in Ports, SessionAsks(port) PROVE Noticed'
  BY <1>12, <1>15, EventFacts DEF SessionAsks
<1>16. ASSUME NEW p \in Peers, SessionReports(p) PROVE Noticed'
  BY <1>12, <1>16, EventFacts DEF SessionReports
<1>17. ASSUME NEW port \in Ports, NEW p \in Peers, OperatorPicks(port, p) PROVE Noticed'
  BY <1>12, <1>17, EventFacts DEF OperatorPicks
<1>18. CASE UNCHANGED vars
  BY <1>18 DEF vars, store, handler, Noticed, ReachedHeard, TodoIsHandled, ExitHeard,
               BeingServed, Heard, Connected, Sent
<1>19. QED
  BY <1>2, <1>3, <1>4, <1>5, <1>6, <1>7, <1>8, <1>9, <1>10, <1>13, <1>14, <1>15, <1>16, <1>17, <1>18
  DEF Next, Handle, Resume, Carry

(* The only way an exit without a connection can stay unnoticed is the one *)
(* the run actor_reordered shows, a PeerConnected handled after the        *)
(* PeerClosed that followed it: while no rotation is late, no event, no    *)
(* effort and no pick, in any order, leaves a port on a dead exit without  *)
(* a close on its way or a handler about to replace it.                    *)
THEOREM DeadExitsNoticed == Spec /\ [][RotatesInTime]_vars => []DeadExitNoticed
<1>1. Noticed => DeadExitNoticed
  BY DEF Noticed, ExitHeard, DeadExitNoticed, Heard
<1>2. Spec => []TypeOK /\ []Kept
  BY TypeCorrect, AlwaysKept, PTL
<1>3. QED BY <1>1, <1>2, InitNoticed, StepNoticed, PTL DEF Spec

(* ------------------------------------------------------------------------ *)
(* Where no port rotates, the hypothesis is not needed.  A port that        *)
(* prefers its exits itself, or is not sticky, has no pool of its own       *)
(* filters unless the operator picks or an earlier configuration left one;  *)
(* a pool of one holds the exit and nobody to rotate to.                    *)

Strict(port) ==
  ~Server[port].sticky \/ (Server[port].pinned # <<>> /\ ~Server[port].fallback)

NoMembers(port, pool) == pool.fp = Server[port].fp => \A q : ~Remembers(pool, q)

StaysBare(port) == Strict(port) /\ \A pool \in PoolsAtStart[port] : NoMembers(port, pool)

NeverRotates ==
  \A port \in Ports :
    \/ Rotating(port) /\ Server[port].max <= 1
    \/ StaysBare(port) /\ Picked = {}

Unpicked == handling # "select" /\ \A e \in Events : e.kind = "SelectPeer" => ~Sent(e)

Untouched ==
  Picked = {} =>
    Unpicked /\ \A port \in Ports : StaysBare(port) => NoMembers(port, pools[port])

LEMMA AbsentHasNoMembers ==
  ASSUME NEW port PROVE NoMembers(port, Absent)
BY DEF NoMembers, Remembers, Absent

(* An effort of such a port leaves the pool alone.                         *)
LEMMA StrictOutcomes ==
  ASSUME NEW port \in Ports, Strict(port), NEW pool, NEW avoid
  PROVE  \A o \in Outcomes(Server[port], pool, avoid) : o.pool = pool
<1>1. CASE ~Server[port].sticky
  <2>1. \A p : RememberedBy(Server[port], pool, p) = pool
    BY <1>1 DEF RememberedBy
  <2>2. \A o \in DiscoveryOutcomes(Server[port], pool) : o.pool = pool
    BY <2>1 DEF DiscoveryOutcomes, Nothing, Adopted
  <2>3. \A a : UnpinnedOutcomes(Server[port], pool, a) = DiscoveryOutcomes(Server[port], pool)
    BY <1>1 DEF UnpinnedOutcomes, FightsFor
  <2>4. QED BY <2>2, <2>3 DEF Outcomes, PinnedOutcomes, Nothing, Adopted
<1>2. CASE Server[port].pinned # <<>> /\ ~Server[port].fallback
  BY <1>2 DEF Outcomes, PinnedOutcomes, Nothing, Adopted
<1>3. QED BY <1>1, <1>2 DEF Strict

LEMMA NotedNoMembers ==
  ASSUME TypeOK, NEW port \in Ports, NEW p \in Peers, NoMembers(port, pools[port])
  PROVE  NoMembers(port, Noted(port, p))
<1>1. /\ Noted(port, p).fp = pools[port].fp
      /\ DOMAIN Noted(port, p).peers = DOMAIN pools[port].peers
      /\ \A i \in DOMAIN pools[port].peers : PeerAt(Noted(port, p), i) = PeerAt(pools[port], i)
  BY TypedPools, NoteDirectProperties DEF Noted, GoodPool
<1>2. QED BY <1>1 DEF NoMembers, Remembers

(* A port without members rotates to nobody.                               *)
LEMMA BareStays ==
  ASSUME TypeOK, NEW port \in Ports, NEW p \in Peers, NoMembers(port, pools[port])
  PROVE  ~RotatesTo(port, p)
<1>1. NoMembers(port, Noted(port, p))
  BY NotedNoMembers
<1>2. \A q : ~Remembers(Absent, q)
  BY DEF Remembers, Absent
<1>3. ~Remembers(Opened(Noted(port, p), Server[port].fp), p)
  BY <1>1, <1>2 DEF Opened, NoMembers
<1>4. QED BY <1>3 DEF RotatesTo

(* A pool of one that the exit leads holds nobody else.                    *)
LEMMA SingleStays ==
  ASSUME TypeOK, ExitLeads, handling = "nothing", NEW port \in Ports, NEW p \in Peers,
         Rotating(port), Server[port].max <= 1
  PROVE  ~RotatesTo(port, p)
<1> SUFFICES ASSUME RotatesTo(port, p) PROVE FALSE
  OBVIOUS
<1> DEFINE noted == Noted(port, p)
<1>1. dest[port] # NoPeer /\ dest[port] # p
  BY DEF RotatesTo, RelayStuck
<1>2. Leads(Server[port], pools[port], dest[port])
  BY <1>1 DEF ExitLeads, Settled
<1>3. GoodPool(noted) /\ Leads(Server[port], noted, dest[port])
  BY <1>2, TypedPools, NotedLeads, NoteDirectProperties DEF Noted, GoodPool
<1> HIDE DEF noted
<1>4. Remembers(noted, p)
  BY <1>3 DEF RotatesTo, Opened, Leads, noted
<1>5. Len(noted.peers) \in Nat /\ DOMAIN noted.peers = 1..Len(noted.peers)
  BY <1>3, PoolFacts DEF GoodPool
<1>6. Len(noted.peers) <= 1
  BY <1>3, <1>5, ServerFacts DEF Leads, Bounded, AtLeastOne
<1>7. \A i \in DOMAIN noted.peers : i = 1
  BY <1>5, <1>6
<1>8. PeerAt(noted, 1) = dest[port]
  BY <1>3 DEF Leads, Fronted
<1>9. QED BY <1>1, <1>4, <1>7, <1>8 DEF Remembers

LEMMA InitUntouched == Init => Untouched
<1> SUFFICES ASSUME Init PROVE Untouched
  OBVIOUS
<1>1. Unpicked
  BY DEF Init, Unpicked, Sent
<1>2. \A port \in Ports : pools[port] \in PoolsAtStart[port]
  BY DEF Init
<1>3. QED BY <1>1, <1>2 DEF Untouched, StaysBare

LEMMA StepUntouched == TypeOK /\ Kept /\ Untouched /\ [Next]_vars => Untouched'
<1> SUFFICES ASSUME TypeOK, Kept, Untouched, [Next]_vars, Picked = {} PROVE Untouched'
  BY DEF Untouched
<1>0. /\ Unpicked
      /\ \A port \in Ports : StaysBare(port) => NoMembers(port, pools[port])
  BY DEF Untouched
<1>1. ASSUME Unpicked', UNCHANGED pools PROVE Untouched'
  BY <1>0, <1>1 DEF Untouched
<1>2. \A e, x \in Events : Receives(e) /\ ~Sent(x) => ~Sent(x)'
  BY DEF TypeOK, Receives, Sent
<1>3. ASSUME NEW e \in Events, HandleDiscover(e) \/ HandlePeerClosed(e) \/ HandleRelayed(e)
      PROVE  Untouched'
  <2>1. Receives(e) /\ UNCHANGED pools /\ handling' # "select"
    BY <1>0, <1>3 DEF HandleDiscover, HandlePeerClosed, HandleRelayed, Unpicked, store, handler
  <2>2. QED BY <1>0, <1>1, <1>2, <2>1 DEF Unpicked
<1>4. ASSUME NEW e \in Events, HandleDirect(e) PROVE Untouched'
  <2>1. e.peer \in Peers /\ Receives(e) /\ UNCHANGED handling
    BY <1>4, EventFacts DEF HandleDirect, handler
  <2>2. Unpicked'
    BY <1>0, <1>2, <2>1 DEF Unpicked
  <2>3. ASSUME NEW port \in Ports, StaysBare(port) PROVE NoMembers(port, pools'[port])
    <3>1. NoMembers(port, pools[port])
      BY <1>0, <2>3
    <3>2. ~RotatesTo(port, e.peer) /\ NoMembers(port, Noted(port, e.peer))
      BY <2>1, <3>1, BareStays, NotedNoMembers
    <3>3. pools'[port] \in {Noted(port, e.peer), Opened(Noted(port, e.peer), Server[port].fp)}
      BY <1>4, <3>2 DEF HandleDirect
    <3>4. NoMembers(port, Opened(Noted(port, e.peer), Server[port].fp))
      BY <3>2, AbsentHasNoMembers DEF Opened
    <3>5. QED BY <3>2, <3>3, <3>4
  <2>4. QED BY <2>2, <2>3 DEF Untouched, NoMembers
<1>5. ASSUME NEW e \in Events, HandlePeerUnusable(e) PROVE Untouched'
  <2>1. /\ Receives(e) /\ handling' # "select"
        /\ \A port \in Ports : pools'[port] = Forget(pools[port], e.peer)
    BY <1>0, <1>5 DEF HandlePeerUnusable, Unpicked
  <2>2. Unpicked'
    BY <1>0, <1>2, <2>1 DEF Unpicked
  <2>3. ASSUME NEW port \in Ports, StaysBare(port) PROVE NoMembers(port, pools'[port])
    <3>1. \A q : Remembers(Forget(pools[port], e.peer), q) =>
                   Remembers(pools[port], q) /\ Forget(pools[port], e.peer).fp = pools[port].fp
      BY TypedPools, ForgetWithin DEF GoodPool
    <3>2. QED BY <1>0, <2>1, <2>3, <3>1 DEF NoMembers
  <2>4. QED BY <2>2, <2>3 DEF Untouched, NoMembers
<1>6. ASSUME FinishEffort PROVE Untouched'
  <2>1. effort \in Ports /\ UNCHANGED mail /\ handling' # "select"
    BY <1>0, <1>6 DEF TypeOK, FinishEffort, Continue, Unpicked
  <2>2. Unpicked'
    BY <1>0, <2>1 DEF Unpicked, Sent
  <2>3. PICK o \in EffortOutcomes : pools' = [pools EXCEPT ![effort] = o.pool]
    BY <1>6 DEF FinishEffort
  <2>4. StaysBare(effort) => o.pool = pools[effort]
    BY <2>1, StrictOutcomes DEF EffortOutcomes, StaysBare
  <2>5. \A port \in Ports : StaysBare(port) => pools'[port] = pools[port]
    BY <2>1, <2>3, <2>4 DEF TypeOK
  <2>6. QED BY <1>0, <2>2, <2>5 DEF Untouched, NoMembers
<1>7. ~FinishSelect /\ \A port \in Ports, p \in Peers : ~OperatorPicks(port, p)
  BY <1>0 DEF FinishSelect, OperatorPicks, Unpicked
<1>8. ASSUME NEW e \in Events, HandleSelect(e) PROVE Untouched'
  BY <1>0, <1>8 DEF HandleSelect, Receives, Unpicked
<1>9. ASSUME NEW port \in Ports, Carry(port) PROVE Untouched'
  <2>1. UNCHANGED <<pools, mail>> /\ handling' # "select"
    BY <1>9 DEF Carry, GoDark, RediscoverClosed, RediscoverUnusable, SetDestination, Continue, store
  <2>2. QED BY <1>0, <1>1, <2>1 DEF Unpicked, Sent
<1>10. ASSUME NEW e \in Events, e.kind # "SelectPeer", UNCHANGED <<pools, handling>>, Sends(e)
       PROVE  Untouched'
  <2>1. \A x \in Events : x.kind = "SelectPeer" => mail'[x] = mail[x]
    BY <1>10 DEF Sends, TypeOK
  <2>2. QED BY <1>0, <1>1, <1>10, <2>1 DEF Unpicked, Sent
<1>11. ASSUME NEW port \in Ports, CooldownLapses(port) PROVE Untouched'
  <2>1. DiscoverFor(port) \in Events /\ DiscoverFor(port).kind # "SelectPeer"
    BY EventFacts DEF DiscoverFor
  <2>2. \A x \in Events : x.kind = "SelectPeer" => mail'[x] = mail[x]
    BY <1>11, <2>1 DEF CooldownLapses, TypeOK
  <2>3. UNCHANGED <<pools, handling>>
    BY <1>11 DEF CooldownLapses, store, handler
  <2>4. QED BY <1>0, <1>1, <2>2, <2>3 DEF Unpicked, Sent
<1>12. ASSUME NEW port \in Ports, SessionAsks(port) PROVE Untouched'
  <2>1. RequestNewPeer(port) \in Events /\ RequestNewPeer(port).kind # "SelectPeer"
    BY EventFacts DEF RequestNewPeer
  <2>2. QED BY <1>10, <1>12, <2>1 DEF SessionAsks, store, handler
<1>13. ASSUME NEW p \in Peers, NEW link \in Kinds, Establish(p, link) PROVE Untouched'
  <2>1. PeerConnected(p, link) \in Events /\ PeerConnected(p, link).kind # "SelectPeer"
    BY EventFacts DEF PeerConnected
  <2>2. QED BY <1>10, <1>13, <2>1 DEF Establish, store
<1>14. ASSUME NEW p \in Peers, NEW link \in Kinds, Close(p, link) PROVE Untouched'
  <2>1. PeerClosed(p) \in Events /\ PeerClosed(p).kind # "SelectPeer"
    BY EventFacts DEF PeerClosed
  <2>2. QED BY <1>10, <1>14, <2>1 DEF Close, store, handler
<1>15. ASSUME NEW p \in Peers, SessionReports(p) PROVE Untouched'
  <2>1. PeerUnusable(p) \in Events /\ PeerUnusable(p).kind # "SelectPeer"
    BY EventFacts DEF PeerUnusable
  <2>2. QED BY <1>10, <1>15, <2>1 DEF SessionReports, store, handler
<1>16. CASE UNCHANGED vars
  BY <1>0, <1>1, <1>16 DEF vars, store, handler, Unpicked, Sent
<1>17. QED
  BY <1>3, <1>4, <1>5, <1>6, <1>7, <1>8, <1>9, <1>11, <1>12, <1>13, <1>14, <1>15, <1>16
  DEF Next, Handle, Resume

LEMMA NeverRotatesKept ==
  NeverRotates /\ TypeOK /\ ExitLeads /\ Untouched /\ [Next]_vars => [RotatesInTime]_vars
<1> SUFFICES ASSUME NeverRotates, TypeOK, ExitLeads, Untouched,
                    NEW e \in Events, HandleDirect(e), NEW port \in Ports, dest'[port] # dest[port]
             PROVE  FALSE
  BY DEF RotatesInTime
<1>1. e.peer \in Peers /\ handling = "nothing"
  BY EventFacts DEF HandleDirect, Receives
<1>2. RotatesTo(port, e.peer)
  BY DEF HandleDirect
<1>3. CASE Rotating(port) /\ Server[port].max <= 1
  BY <1>1, <1>2, <1>3, SingleStays
<1>4. CASE StaysBare(port) /\ Picked = {}
  BY <1>1, <1>2, <1>4, BareStays DEF Untouched
<1>5. QED BY <1>3, <1>4 DEF NeverRotates

(* On ports that never rotate, strictly pinned or not sticky with nobody   *)
(* picking, or with a pool of one, no order of connections, closes,        *)
(* efforts and events leaves a dead exit unnoticed.                        *)
THEOREM SteadyExitsNoticed == NeverRotates => (Spec => []DeadExitNoticed)
<1> SUFFICES ASSUME NeverRotates PROVE Spec => []DeadExitNoticed
  OBVIOUS
<1>1. Noticed => DeadExitNoticed
  BY DEF Noticed, ExitHeard, DeadExitNoticed, Heard
<1>2. Spec => []TypeOK /\ []Kept
  BY TypeCorrect, AlwaysKept, PTL
<1>3. TypeOK /\ Kept /\ ExitLeads /\ Untouched /\ Noticed /\ [Next]_vars => Noticed'
  BY StepNoticed, NeverRotatesKept
<1>4. QED
  BY <1>1, <1>2, <1>3, InitLeads, StepLeads, InitUntouched, StepUntouched, InitNoticed, PTL DEF Spec
=============================================================================
