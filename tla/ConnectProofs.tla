---------------------------- MODULE ConnectProofs ----------------------------
(***************************************************************************)
(* The connection effort, for every set of peers and servers, every bound  *)
(* and every world: it implements its promise, and in a steady world it    *)
(* honours the preferences among exits.                                    *)
(***************************************************************************)
EXTENDS Connect, PoolProofs

(* Where the flow is, whichever part of a dial it awaits.                  *)
Dialing == {"direct", "relay", "reached", "missed"}
Stage == IF pc \in Dialing THEN back ELSE pc

(* The pool connect_sticky_pool starts from, the peer it passes over, the  *)
(* members it tries and how many there are.                                *)
Entered == IF server.pinned = <<>> /\ FightsFor(server, avoid) THEN Forget(pool0, avoid) ELSE pool0
PassedOver == IF server.pinned = <<>> THEN avoid ELSE NoPeer
Members == Opened(Entered, server.fp)
Size == Len(Members.peers)

(* The first k members were tried or passed over.                          *)
InVain(k) ==
  Steady => \A i \in 1..k : PeerAt(Members, i) # skip => ~Reachable(PeerAt(Members, i))

TriedUpTo(k) ==
  /\ Len(todo) = Size - k
  /\ \A i \in 1..(Size - k) : todo[i] = PeerAt(Members, k + i)
  /\ pool = TriedInVain(Members, k, skip)
  /\ InVain(k)

Progress ==
  /\ server.pinned = <<>> => skip = avoid
  /\ Stage = "start" => tries = 0
  /\ rank >= 1
  /\ Stage \in {"start", "pass", "rank", "reconnect"} => pool = pool0
  /\ Stage \in {"pass", "rank"} => server.pinned # <<>> /\ (server.fallback => tries = 0)
  /\ Stage = "reconnect" => server.pinned = <<>> /\ FightsFor(server, avoid)
  /\ Stage \in {"pool", "member", "find"} => skip = PassedOver /\ (server.pinned # <<>> => server.fallback)
  /\ Stage = "pool" => pool = Entered
  /\ Stage = "member" => server.sticky /\ \E k \in 0..Size : TriedUpTo(k)
  /\ Stage = "find" /\ server.sticky => pool = TriedInVain(Members, Size, skip) /\ InVain(Size)
  /\ Stage = "find" /\ ~server.sticky => pool = pool0

(* The peer a dial is for, unless it is for whichever candidate answers.   *)
Target == IF back = "rank" THEN server.pinned[rank]
          ELSE IF back = "reconnect" THEN avoid ELSE Head(todo)
Aimed == back # "find"

Aim ==
  /\ pc \in Dialing => back # "none"
  /\ pc \in Dialing /\ back = "rank" => rank \in DOMAIN server.pinned
  /\ pc \in Dialing /\ back = "member" => todo # <<>> /\ Head(todo) # skip
  /\ pc \in {"direct", "relay"} /\ Aimed => \A r \in routes : r.peer = Target
  /\ pc = "reached" => reached \in Peers /\ (Aimed => reached = Target)

(* While nothing changes, a dial tells whether its target can be reached,  *)
(* and what was tried in vain cannot.                                      *)
DialTold ==
  /\ pc \in {"direct", "relay"} /\ Aimed => \A r \in up : r.peer = Target => r \in routes
  /\ pc = "relay" => \A r \in routes \cap up : IsRelayed(r)
  /\ pc = "reached" => Reachable(reached)
  /\ pc = "missed" /\ Aimed => ~Reachable(Target)

RanksTold ==
  Stage = "rank" => /\ resolved = {r \in up : r.peer \in PinnedPeers}
                    /\ \A b \in 1..(rank - 1) : ~Reachable(server.pinned[b])

PinsTold ==
  Stage \in {"pool", "member", "find"} \/ (Stage = "pass" /\ tries > 0) =>
    \A p \in PinnedPeers : ~Reachable(p)

DroppedTold ==
  Stage \in {"pool", "member", "find"} /\ server.pinned = <<>> /\ FightsFor(server, avoid) =>
    ~Reachable(avoid)

MembersKept ==
  pc # "done" /\ pool0.fp = server.fp =>
    \A p \in Peers : Remembers(pool0, p) /\ Reachable(p) => Remembers(pool, p) /\ pool.fp = pool0.fp

Told == Steady => DialTold /\ RanksTold /\ PinsTold /\ DroppedTold /\ MembersKept

Preferences == PinnedPreference /\ StickyPreference /\ ReachableMembersKept

Returns == pc = "done" <=> result # <<>>

IInv == TypeOK /\ Returns /\ Progress /\ Aim /\ Told /\ Preferences

GoodPool(q) == IsPool(q, Peers, Remembered, Fingerprints)

LEMMA StateFacts ==
  ASSUME TypeOK
  PROVE  /\ Configured(server, Fingerprints) /\ server.verbatim \subseteq Routes
         /\ PinnedPeers \subseteq Peers
         /\ \A r \in DOMAIN server.pinned : server.pinned[r] \in PinnedPeers
         /\ DOMAIN server.pinned = 1..Len(server.pinned) /\ Len(server.pinned) \in Nat
         /\ GoodPool(pool) /\ GoodPool(pool0) /\ GoodPool(Entered) /\ GoodPool(Members)
         /\ Size \in Nat /\ DOMAIN Members.peers = 1..Size
         /\ \A i \in 1..Size : PeerAt(Members, i) \in Peers
<1>1. Configured(server, Fingerprints) /\ server.verbatim \subseteq Routes
  BY ServersAreConfigured DEF TypeOK, Configured
<1>2. server.pinned \in Seq(Peers)
  BY <1>1 DEF Configured
<1>3. /\ DOMAIN server.pinned = 1..Len(server.pinned) /\ Len(server.pinned) \in Nat
      /\ \A r \in DOMAIN server.pinned : server.pinned[r] \in Peers
  BY <1>2, LenProperties, ElementOfSeq
<1>4. PinnedPeers \subseteq Peers /\ \A r \in DOMAIN server.pinned : server.pinned[r] \in PinnedPeers
  BY <1>3 DEF PinnedPeers, ToSet
<1>5. GoodPool(pool) /\ GoodPool(pool0)
  BY DEF TypeOK, GoodPool, IsPool, StoredPools
<1>6. GoodPool(Entered)
  BY <1>5, ForgetIsPool DEF GoodPool, Entered
<1>7. GoodPool(Members)
  BY <1>6, OpenedIsPool DEF GoodPool, Members
<1>8. Size \in Nat /\ DOMAIN Members.peers = 1..Size
  BY <1>7, PoolFacts DEF GoodPool, Size
<1>9. \A i \in 1..Size : PeerAt(Members, i) \in Peers
  BY <1>7, <1>8, PoolFacts DEF GoodPool, PeerAt
<1>10. QED BY <1>1, <1>3, <1>4, <1>5, <1>6, <1>7, <1>8, <1>9

(* The arguments, and what is derived from them, stay as they are.         *)
LEMMA Fixed ==
  ASSUME UNCHANGED inputs
  PROVE  /\ UNCHANGED <<server, avoid, pool0, world, up>>
         /\ Entered' = Entered /\ PassedOver' = PassedOver /\ Members' = Members /\ Size' = Size
         /\ PinnedPeers' = PinnedPeers /\ (Steady' <=> Steady)
         /\ \A p : Reachable(p)' <=> Reachable(p)
<1>1. UNCHANGED <<server, avoid, pool0, world, up>>
  BY DEF inputs
<1>2. Entered' = Entered /\ PassedOver' = PassedOver
  BY <1>1 DEF Entered, PassedOver
<1>3. Members' = Members
  BY <1>1, <1>2 DEF Members
<1>4. Size' = Size
  BY <1>3 DEF Size
<1>5. PinnedPeers' = PinnedPeers /\ (Steady' <=> Steady) /\ \A p : Reachable(p)' <=> Reachable(p)
  BY <1>1 DEF PinnedPeers, Steady, Reachable
<1>6. QED BY <1>1, <1>2, <1>3, <1>4, <1>5

(* What the hub gives leads to whom it was asked about, and when it tells  *)
(* the truth it is every route that works.                                 *)
LEMMA ResolvedRoutes ==
  ASSUME TypeOK, NEW peers \in SUBSET Peers, NEW found \in ResolveRoutes(peers)
  PROVE  /\ found \subseteq Routes /\ \A r \in found : r.peer \in peers
         /\ Steady => found = {r \in up : r.peer \in peers}
<1>1. ASSUME NEW kinds \in SUBSET (Advertised \cup {"stale"})
      PROVE  /\ UNION {ToPeer(p, kinds) : p \in peers} \subseteq Routes
             /\ \A r \in UNION {ToPeer(p, kinds) : p \in peers} : r.peer \in peers
  BY DEF ToPeer, Route, Routes
<1>2. CASE \E k \in IF world.stable THEN {up} ELSE SUBSET UNION {ToPeer(p, Advertised) : p \in peers} :
             found = {r \in k : r.peer \in peers}
  BY <1>1, <1>2 DEF TypeOK, Steady
<1>3. CASE found = UNION {ToPeer(p, {"circuit"}) : p \in peers} /\ "unsupported" \in world.hub
  BY <1>1, <1>3 DEF Advertised, Steady
<1>4. CASE found = {} /\ "fails" \in world.hub
  BY <1>4 DEF Steady
<1>5. QED BY <1>2, <1>3, <1>4 DEF ResolveRoutes

LEMMA KnownRoutes ==
  ASSUME TypeOK, NEW p \in Peers, NEW addresses \in RoutesToKnown(p)
  PROVE  /\ addresses \subseteq Routes /\ \A r \in addresses : r.peer = p
         /\ Steady => \A r \in up : r.peer = p => r \in addresses
<1> DEFINE direct == IF DirectAddress(pool, p) = NoAddress THEN {} ELSE ToPeer(p, {DirectAddress(pool, p)})
<1>1. direct \subseteq Routes /\ \A r \in direct : r.peer = p
  <2>1. DirectAddress(pool, p) \in Remembered \cup {NoAddress}
    BY StateFacts, DirectAddressType DEF GoodPool
  <2>2. QED BY <2>1 DEF Remembered, ToPeer, Route, Routes, Advertised
<1>2. PICK found \in ResolveRoutes({p}) :
        addresses = IF direct \cup found = {} THEN ToPeer(p, {"circuit"}) ELSE direct \cup found
  BY DEF RoutesToKnown
<1>3. /\ found \subseteq Routes /\ \A r \in found : r.peer = p
      /\ Steady => found = {r \in up : r.peer = p}
  BY ResolvedRoutes
<1>4. ToPeer(p, {"circuit"}) \subseteq Routes /\ \A r \in ToPeer(p, {"circuit"}) : r.peer = p
  BY DEF ToPeer, Route, Routes, Advertised
<1> HIDE DEF direct
<1>5. QED BY <1>1, <1>2, <1>3, <1>4

(* The promise's copy of the operators is Connect's own.                   *)
LEMMA SameOutcomes == \A s, q, p : Promise!Outcomes(s, q, p) = Outcomes(s, q, p)
<1>1. /\ \A q, i : Promise!PeerAt(q, i) = PeerAt(q, i)
      /\ \A q, f : Promise!Opened(q, f) = Opened(q, f)
      /\ \A f, q : Promise!NonEmpty(f, q) = NonEmpty(f, q)
      /\ \A q, p : Promise!PositionOf(q, p) = PositionOf(q, p)
  BY DEF Promise!PeerAt, PeerAt, Promise!Opened, Opened, Promise!NonEmpty, NonEmpty,
     Promise!Absent, Absent,
         Promise!PositionOf, PositionOf
<1>2. /\ \A s, q, p : Promise!RememberedBy(s, q, p) = RememberedBy(s, q, p)
      /\ \A q, p : Promise!Forget(q, p) = Forget(q, p)
  BY DEF Promise!RememberedBy, RememberedBy, Promise!Remember, Remember, Promise!Opened, Opened,
         Promise!Absent, Absent, Promise!DirectAddress, DirectAddress, Promise!Without, Without,
         Promise!Remembers, Remembers, Promise!RemoveAt, RemoveAt, Promise!PositionOf, PositionOf,
         Promise!PeerAt, PeerAt, Promise!AtLeastOne, AtLeastOne, Promise!NoAddress, NoAddress,
         Promise!Forget, Forget, Promise!NonEmpty, NonEmpty
<1>3. \A q, k, p : Promise!TriedInVain(q, k, p) = TriedInVain(q, k, p)
  BY <1>1 DEF Promise!TriedInVain, TriedInVain
<1>4. \A s, q : Promise!DiscoveryOutcomes(s, q) = DiscoveryOutcomes(s, q)
  BY <1>2 DEF Promise!DiscoveryOutcomes, DiscoveryOutcomes, Promise!Nothing, Nothing,
     Promise!Adopted, Adopted
<1>5. \A s, q, p : Promise!PoolOutcomes(s, q, p) = PoolOutcomes(s, q, p)
  BY <1>1, <1>2, <1>3, <1>4 DEF Promise!PoolOutcomes, PoolOutcomes, Promise!Adopted, Adopted
<1>6. \A s, q, p : Promise!UnpinnedOutcomes(s, q, p) = UnpinnedOutcomes(s, q, p)
  BY <1>2, <1>4, <1>5 DEF Promise!UnpinnedOutcomes, UnpinnedOutcomes, Promise!FightsFor, FightsFor,
         Promise!Adopted, Adopted
<1>7. \A s, q : Promise!PinnedOutcomes(s, q) = PinnedOutcomes(s, q)
  BY <1>6 DEF Promise!PinnedOutcomes, PinnedOutcomes, Promise!ToSet, ToSet, Promise!Nothing,
     Nothing,
         Promise!Adopted, Adopted
<1>8. QED BY <1>6, <1>7 DEF Promise!Outcomes, Outcomes

(* ------------------------------------------------------------------------ *)
(* Type correctness.                                                        *)

InBounds(q) == GoodPool(q) /\ (Bounded(q, server.max) \/ Len(q.peers) <= Len(pool0.peers))

(* What the effort makes of the pool: remember, forget, open.              *)
LEMMA PoolsInBounds ==
  ASSUME TypeOK, NEW p
  PROVE  /\ InBounds(pool)
         /\ p \in Peers => InBounds(RememberedBy(server, pool, p))
         /\ InBounds(Forget(pool, p)) /\ InBounds(Opened(pool, server.fp))
         /\ MembersFor(pool, server.fp) \in Seq(Peers)
<1>1. Configured(server, Fingerprints) /\ GoodPool(pool)
  BY StateFacts
<1>2. InBounds(pool)
  BY <1>1 DEF TypeOK, InBounds
<1>3. server.max \in Nat /\ server.fp \in Fingerprints
  BY <1>1 DEF Configured
<1>4. ASSUME p \in Peers PROVE InBounds(RememberedBy(server, pool, p))
  <2>1. GoodPool(Remember(pool, server.fp, p, server.max)) /\ Bounded(Remember(pool, server.fp, p, server.max), server.max)
    BY <1>1, <1>3, <1>4, RememberProperties DEF GoodPool
  <2>2. QED BY <1>2, <2>1 DEF InBounds, RememberedBy
<1>5. AtLeastOne(server.max) \in Nat /\ Len(pool.peers) \in Nat /\ Len(pool0.peers) \in Nat
  BY <1>1, <1>3, StateFacts, PoolFacts DEF GoodPool, AtLeastOne
<1>6. InBounds(Forget(pool, p))
  <2>1. GoodPool(Forget(pool, p)) /\ Len(Forget(pool, p).peers) <= Len(pool.peers)
    BY <1>1, ForgetIsPool, ForgetKeeps DEF GoodPool
  <2>2. Len(Forget(pool, p).peers) \in Nat
    BY <2>1, PoolFacts DEF GoodPool
  <2>3. QED BY <1>2, <1>5, <2>1, <2>2 DEF InBounds, Bounded
<1>7. InBounds(Opened(pool, server.fp))
  <2>1. Len(<<>>) = 0 /\ Absent.peers = <<>>
    BY EmptySeq DEF Absent
  <2>2. InBounds(Absent)
    BY <1>5, <2>1, AbsentIsPool DEF InBounds, GoodPool
  <2>3. QED BY <1>2, <2>2 DEF Opened
<1>8. MembersFor(pool, server.fp) \in Seq(Peers)
  <2>1. /\ Len(pool.peers) \in Nat /\ DOMAIN pool.peers = 1..Len(pool.peers)
        /\ \A i \in DOMAIN pool.peers : PeerAt(pool, i) \in Peers
    BY <1>1, PoolFacts DEF GoodPool, PeerAt
  <2>2. [i \in DOMAIN pool.peers |-> PeerAt(pool, i)] \in Seq(Peers)
    BY <2>1
  <2>3. <<>> \in Seq(Peers)
    BY EmptySeq
  <2>4. QED BY <2>2, <2>3 DEF MembersFor
<1>9. QED BY <1>2, <1>4, <1>6, <1>7, <1>8

(* Everything but the pools and the list of members to try.                *)
ControlTyped ==
  /\ server \in Servers /\ world \in Worlds
  /\ {avoid, skip, reached} \subseteq Peers \cup {NoPeer}
  /\ up \subseteq Routes /\ routes \subseteq Routes /\ resolved \subseteq Routes
  /\ pc \in Phases
  /\ back \in {"none", "rank", "reconnect", "member", "find"}
  /\ tries \in Nat /\ rank \in Nat

ResultTyped == result \in Seq([peer : Peers \cup {NoPeer}, source : Sources]) /\ Len(result) <= 1

LEMMA TypeParts ==
  TypeOK <=> ControlTyped /\ todo \in Seq(Peers) /\ GoodPool(pool0) /\ InBounds(pool) /\ ResultTyped
BY DEF TypeOK, ControlTyped, ResultTyped, InBounds, GoodPool, IsPool, StoredPools

LEMMA ReturnTyped ==
  ASSUME NEW p \in Peers \cup {NoPeer}, NEW source \in Sources, Return(p, source)
  PROVE  ResultTyped' /\ pc' \in Phases
<1>1. [peer |-> p, source |-> source] \in [peer : Peers \cup {NoPeer}, source : Sources]
  OBVIOUS
<1>2. <<[peer |-> p, source |-> source]>> \in Seq([peer : Peers \cup {NoPeer}, source : Sources])
  BY <1>1
<1>3. Len(<<[peer |-> p, source |-> source]>>) = 1
  OBVIOUS
<1>4. QED BY <1>2, <1>3 DEF Return, ResultTyped, Phases

LEMMA InitTyped == Init => TypeOK
<1> SUFFICES ASSUME Init PROVE TypeOK
  OBVIOUS
<1>1. server \in Servers /\ pool0 \in RememberedAt[server] /\ pool = pool0
  BY DEF Init
<1>2. GoodPool(pool0)
  BY <1>1, RememberedPoolsAreWellFormed DEF GoodPool, IsPool, StoredPools
<1>3. Len(pool0.peers) \in Nat
  BY <1>2, PoolFacts DEF GoodPool
<1>4. InBounds(pool)
  BY <1>1, <1>2, <1>3 DEF InBounds
<1>5. todo \in Seq(Peers) /\ ResultTyped
  <2>1. <<>> \in Seq(Peers) /\ <<>> \in Seq([peer : Peers \cup {NoPeer}, source : Sources]) /\ Len(<<>>) = 0
    BY EmptySeq
  <2>2. QED BY <2>1 DEF Init, ResultTyped
<1>6. ControlTyped
  BY DEF Init, ControlTyped, Phases
<1>7. QED BY <1>2, <1>4, <1>5, <1>6, TypeParts

(* A step of the flow, whatever it does to the pool and the result.        *)
LEMMA ControlStep ==
  ASSUME IInv, Next PROVE ControlTyped'
<1> USE DEF Phases
<1>0. TypeOK /\ ControlTyped /\ Progress /\ Aim /\ UNCHANGED inputs
  BY TypeParts DEF IInv, Next, Step, Start, BeginPass, SkipRank, TryRank, RankMissed,
     AdoptBestPinnedRank, PassFailed, FallBack, PinnedExhausted, TryReconnect, ReconnectReached,
     ReconnectMissed, ReconnectGivenUp, OpenPool, SkipPool, PassOverDropped, TryMember,
     MemberReached, MemberMissed, PoolExhausted, FindNothing, FindCandidates, CandidateReached,
     CandidatesMissed, DiscoveryExhausted, DialDirect, DialRelay, DialLeg, Returned, vars
<1> USE <1>0 DEF ControlTyped, inputs
<1>1. CASE Start
  BY <1>1 DEF Start
<1>2. CASE BeginPass
  <2>1. \A found \in ResolveRoutes(PinnedPeers) : found \subseteq Routes
    BY StateFacts, ResolvedRoutes
  <2>2. QED BY <1>2, <2>1 DEF BeginPass
<1>3. CASE SkipRank
  BY <1>3 DEF SkipRank
<1>4. CASE TryRank
  <2>1. CandidateRoutes(rank) \subseteq Routes
    BY StateFacts DEF CandidateRoutes
  <2>2. QED BY <1>4, <2>1 DEF TryRank, Dial
<1>5. CASE RankMissed
  BY <1>5 DEF RankMissed
<1>6. CASE AdoptBestPinnedRank
  BY <1>6 DEF AdoptBestPinnedRank, Return
<1>7. CASE PassFailed
  BY <1>7 DEF PassFailed
<1>8. CASE FallBack
  BY <1>8 DEF FallBack
<1>9. CASE PinnedExhausted
  BY <1>9 DEF PinnedExhausted, Fail, Return
<1>10. CASE TryReconnect
  <2>1. avoid \in Peers
    BY <1>10 DEF TryReconnect, Progress, Stage, Dialing, FightsFor
  <2>2. \A r \in RoutesToKnown(avoid) : r \subseteq Routes
    BY <2>1, KnownRoutes
  <2>3. QED BY <1>10, <2>2 DEF TryReconnect, Dial
<1>11. CASE ReconnectReached
  BY <1>11 DEF ReconnectReached, Return
<1>12. CASE ReconnectMissed
  BY <1>12 DEF ReconnectMissed
<1>13. CASE ReconnectGivenUp
  BY <1>13 DEF ReconnectGivenUp
<1>14. CASE OpenPool
  BY <1>14 DEF OpenPool
<1>15. CASE SkipPool
  BY <1>15 DEF SkipPool
<1>16. CASE PassOverDropped
  BY <1>16 DEF PassOverDropped
<1>17. CASE TryMember
  <2>1. Head(todo) \in Peers
    BY <1>17, HeadTailProperties DEF TryMember, TypeOK
  <2>2. \A r \in RoutesToKnown(Head(todo)) : r \subseteq Routes
    BY <2>1, KnownRoutes
  <2>3. QED BY <1>17, <2>2 DEF TryMember, Dial
<1>18. CASE MemberReached
  BY <1>18 DEF MemberReached, Return
<1>19. CASE MemberMissed
  BY <1>19 DEF MemberMissed
<1>20. CASE PoolExhausted
  BY <1>20 DEF PoolExhausted
<1>21. CASE FindNothing
  BY <1>21 DEF FindNothing
<1>22. CASE FindCandidates
  BY <1>22 DEF FindCandidates, Dial
<1>23. CASE CandidateReached
  BY <1>23 DEF CandidateReached, Return
<1>24. CASE CandidatesMissed
  BY <1>24 DEF CandidatesMissed
<1>25. CASE DiscoveryExhausted
  BY <1>25 DEF DiscoveryExhausted, Fail, Return
<1>26. CASE DialDirect
  BY <1>26 DEF DialDirect, DialLeg, Routes, Live
<1>27. CASE DialRelay
  BY <1>27 DEF DialRelay, DialLeg, Routes, Live
<1>28. CASE Returned
  BY <1>28 DEF Returned, vars
<1>29. QED BY <1>1, <1>2, <1>3, <1>4, <1>5, <1>6, <1>7, <1>8, <1>9, <1>10, <1>11, <1>12, <1>13,
              <1>14, <1>15, <1>16, <1>17, <1>18, <1>19, <1>20, <1>21, <1>22, <1>23, <1>24, <1>25,
              <1>26, <1>27, <1>28 DEF Next, Step

(* Which steps touch the members to try, the pool and the result.          *)
LEMMA Untouched ==
  ASSUME Next
  PROVE  /\ UNCHANGED inputs
         /\ OpenPool \/ PassOverDropped \/ MemberMissed \/ UNCHANGED todo
         /\ \/ OpenPool \/ ReconnectReached \/ MemberReached \/ CandidateReached
            \/ ReconnectGivenUp \/ MemberMissed \/ UNCHANGED pool
         /\ \/ AdoptBestPinnedRank \/ PinnedExhausted \/ DiscoveryExhausted
            \/ ReconnectReached \/ MemberReached \/ CandidateReached \/ UNCHANGED result
BY DEF Next, Step, Start, BeginPass, SkipRank, TryRank, RankMissed, AdoptBestPinnedRank,
         PassFailed, FallBack, PinnedExhausted, TryReconnect, ReconnectReached,
         ReconnectMissed, ReconnectGivenUp, OpenPool, SkipPool, PassOverDropped,
         TryMember, MemberReached, MemberMissed, PoolExhausted, FindNothing,
         FindCandidates, CandidateReached, CandidatesMissed, DiscoveryExhausted,
         DialDirect, DialRelay, DialLeg, Returned, vars

LEMMA TypeStep ==
  ASSUME IInv, Next PROVE TypeOK'
<1>1. ControlTyped'
  BY ControlStep
<1>2. TypeOK /\ Progress /\ Aim
  BY DEF IInv
<1>3. UNCHANGED <<server, avoid, pool0>>
  BY Untouched DEF inputs
<1>4. GoodPool(pool0)'
  BY <1>2, <1>3, TypeParts DEF GoodPool
<1>5. todo' \in Seq(Peers)
  <2>1. CASE OpenPool
    BY <1>2, <2>1, PoolsInBounds DEF OpenPool
  <2>2. CASE PassOverDropped
    BY <1>2, <2>2, HeadTailProperties DEF PassOverDropped, TypeOK
  <2>3. CASE MemberMissed
    <3>1. todo # <<>>
      BY <1>2, <2>3 DEF MemberMissed, Aim, Dialing
    <3>2. QED BY <1>2, <2>3, <3>1, HeadTailProperties DEF MemberMissed, TypeOK
  <2>4. CASE UNCHANGED todo
    BY <1>2, <2>4 DEF TypeOK
  <2>5. QED BY <2>1, <2>2, <2>3, <2>4, Untouched
<1>6. InBounds(pool')
  <2>1. CASE ReconnectReached \/ MemberReached \/ CandidateReached
    <3>1. reached \in Peers /\ pool' = RememberedBy(server, pool, reached)
      BY <1>2, <2>1 DEF ReconnectReached, MemberReached, CandidateReached, Aim
    <3>2. QED BY <1>2, <3>1, PoolsInBounds
  <2>2. CASE OpenPool \/ ReconnectGivenUp \/ MemberMissed
    BY <1>2, <2>2, PoolsInBounds DEF OpenPool, ReconnectGivenUp, MemberMissed
  <2>3. CASE UNCHANGED pool
    BY <1>2, <2>3, PoolsInBounds
  <2>4. QED BY <2>1, <2>2, <2>3, Untouched
<1>7. InBounds(pool)'
  BY <1>3, <1>6 DEF InBounds, GoodPool
<1>8. ResultTyped'
  <2>1. CASE AdoptBestPinnedRank
    <3>1. PICK p \in {reached} \cup {server.pinned[b] : b \in 1..(rank - 1)} : Return(p, "pinned")
      BY <2>1 DEF AdoptBestPinnedRank
    <3>2. rank \in 1..Len(server.pinned) \/ rank = 0
      BY <1>2, <2>1, StateFacts DEF AdoptBestPinnedRank, Aim, Dialing
    <3>3. reached \in Peers /\ \A b \in 1..(rank - 1) : server.pinned[b] \in Peers
      BY <1>2, <2>1, <3>2, StateFacts DEF AdoptBestPinnedRank, Aim
    <3>4. QED BY <3>1, <3>3, ReturnTyped DEF Sources
  <2>2. CASE PinnedExhausted \/ DiscoveryExhausted
    BY <2>2, ReturnTyped DEF PinnedExhausted, DiscoveryExhausted, Fail, Sources
  <2>3. CASE ReconnectReached \/ MemberReached \/ CandidateReached
    <3>1. reached \in Peers
      BY <1>2, <2>3 DEF ReconnectReached, MemberReached, CandidateReached, Aim
    <3>2. \E source \in Sources : Return(reached, source)
      BY <2>3 DEF ReconnectReached, MemberReached, CandidateReached, Sources
    <3>3. QED BY <3>1, <3>2, ReturnTyped
  <2>4. CASE UNCHANGED result
    BY <1>2, <2>4, TypeParts DEF ResultTyped
  <2>5. QED BY <2>1, <2>2, <2>3, <2>4, Untouched
<1>9. QED
  BY <1>1, <1>4, <1>5, <1>7, <1>8
  DEF TypeOK, ControlTyped, ResultTyped, InBounds, GoodPool, IsPool, StoredPools

(* ------------------------------------------------------------------------ *)
(* The kinds of step: one starts a dial, one is a leg of it, one returns,   *)
(* and the others lead from one place of the flow to another.               *)

Quiet ==
  \/ Start \/ BeginPass \/ SkipRank \/ RankMissed \/ PassFailed \/ FallBack
  \/ ReconnectMissed \/ ReconnectGivenUp \/ OpenPool \/ SkipPool \/ PassOverDropped
  \/ MemberMissed \/ PoolExhausted \/ FindNothing \/ CandidatesMissed
Concludes ==
  \/ AdoptBestPinnedRank \/ PinnedExhausted \/ ReconnectReached \/ MemberReached
  \/ CandidateReached \/ DiscoveryExhausted
Dials == TryRank \/ TryReconnect \/ TryMember \/ FindCandidates
Legs == DialDirect \/ DialRelay

LEMMA Kinds ==
  ASSUME Next
  PROVE  /\ Quiet \/ Concludes \/ Dials \/ Legs \/ UNCHANGED vars
         /\ Quiet => pc # "done" /\ pc' \notin Dialing \cup {"done"} /\ UNCHANGED <<routes, reached, result>>
         /\ Concludes => pc # "done" /\ pc' = "done" /\ result' # <<>>
         /\ Dials => pc # "done" /\ pc' = "direct" /\ UNCHANGED <<rank, todo, skip, pool, result, resolved, tries>>
         /\ Legs => /\ pc \in {"direct", "relay"} /\ pc' \in {"relay", "reached", "missed"}
                    /\ UNCHANGED <<back, rank, todo, skip, pool, result, resolved, tries>>
<1>1. Quiet \/ Concludes \/ Dials \/ Legs \/ UNCHANGED vars
  BY DEF Next, Step, Returned, Quiet, Concludes, Dials, Legs
<1>2. Quiet => pc # "done" /\ pc' \notin Dialing \cup {"done"} /\ UNCHANGED <<routes, reached, result>>
  BY DEF Quiet, Start, BeginPass, SkipRank, RankMissed, PassFailed, FallBack, ReconnectMissed,
         ReconnectGivenUp, OpenPool, SkipPool, PassOverDropped, MemberMissed,
         PoolExhausted, FindNothing, CandidatesMissed, Dialing
<1>3. Concludes => pc # "done" /\ pc' = "done" /\ result' # <<>>
  <2>1. \A x : <<x>> # <<>>
    OBVIOUS
  <2>2. QED BY <2>1 DEF Concludes, AdoptBestPinnedRank, PinnedExhausted, ReconnectReached,
               MemberReached,
         CandidateReached, DiscoveryExhausted, Fail, Return
<1>4. Dials => pc # "done" /\ pc' = "direct" /\ UNCHANGED <<rank, todo, skip, pool, result, resolved, tries>>
  BY DEF Dials, TryRank, TryReconnect, TryMember, FindCandidates, Dial
<1>5. Legs => /\ pc \in {"direct", "relay"} /\ pc' \in {"relay", "reached", "missed"}
             /\ UNCHANGED <<back, rank, todo, skip, pool, result, resolved, tries>>
  BY DEF Legs, DialDirect, DialRelay, DialLeg
<1>6. QED BY <1>1, <1>2, <1>3, <1>4, <1>5

LEMMA ReturnsStep ==
  ASSUME Returns, Next PROVE Returns'
BY Kinds DEF Returns, Dialing, vars

(* What a leg does to the dial, whichever leg it is.                       *)
LEMMA LegProperties ==
  ASSUME TypeOK, Legs
  PROVE  /\ pc' = "reached" => \E r \in routes : reached' = r.peer /\ (world.stable => r \in up)
         /\ pc' = "relay" => pc = "direct" /\ routes' = routes
         /\ pc' \in {"relay", "missed"} /\ world.stable =>
              \A r \in routes \cap up : IF pc = "direct" THEN IsRelayed(r) ELSE ~IsRelayed(r)
         /\ pc' = "missed" => pc = "relay"
<1>1. CASE DialDirect
  BY <1>1 DEF DialDirect, DialLeg, Live
<1>2. CASE DialRelay
  BY <1>2 DEF DialRelay, DialLeg, Live
<1>3. QED BY <1>1, <1>2 DEF Legs

LEMMA AimStep ==
  ASSUME IInv, Next PROVE Aim'
<1>1. TypeOK /\ Progress /\ Aim /\ UNCHANGED server /\ UNCHANGED avoid
  BY Untouched DEF IInv, inputs
<1>2. CASE Quiet \/ Concludes
  BY <1>2, Kinds DEF Aim, Dialing
<1>3. CASE TryRank
  <2>1. \A r \in CandidateRoutes(rank) : r.peer = server.pinned[rank]
    BY DEF CandidateRoutes
  <2>2. rank \in DOMAIN server.pinned
    <3>1. rank \in Nat /\ Len(server.pinned) \in Nat /\ DOMAIN server.pinned = 1..Len(server.pinned)
      BY <1>1, StateFacts DEF TypeOK
    <3>2. rank >= 1 /\ rank <= Len(server.pinned)
      BY <1>1, <1>3 DEF TryRank, Progress, Stage, Dialing
    <3>3. QED BY <3>1, <3>2
  <2>3. QED BY <1>1, <1>3, <2>1, <2>2 DEF TryRank, Dial, Aim, Dialing, Target, Aimed
<1>4. CASE TryReconnect
  <2>1. avoid \in Peers
    BY <1>1, <1>4 DEF TryReconnect, Progress, Stage, Dialing, FightsFor, TypeOK
  <2>2. \A addresses \in RoutesToKnown(avoid) : \A r \in addresses : r.peer = avoid
    BY <1>1, <2>1, KnownRoutes
  <2>3. QED BY <1>1, <1>4, <2>2 DEF TryReconnect, Dial, Aim, Dialing, Target, Aimed
<1>5. CASE TryMember
  <2>1. Head(todo) \in Peers
    BY <1>1, <1>5, HeadTailProperties DEF TryMember, TypeOK
  <2>2. \A addresses \in RoutesToKnown(Head(todo)) : \A r \in addresses : r.peer = Head(todo)
    BY <1>1, <2>1, KnownRoutes
  <2>3. QED BY <1>1, <1>5, <2>2 DEF TryMember, Dial, Aim, Dialing, Target, Aimed
<1>6. CASE FindCandidates
  BY <1>1, <1>6 DEF FindCandidates, Dial, Aim, Dialing, Aimed
<1>7. CASE Legs
  <2>1. UNCHANGED <<back, rank, todo, skip>> /\ Target' = Target /\ (Aimed' <=> Aimed)
    BY <1>1, <1>7, Kinds DEF Target, Aimed
  <2>2. pc' = "relay" => routes' = routes
    BY <1>1, <1>7, LegProperties
  <2>3. pc' = "reached" => \E r \in routes : reached' = r.peer
    BY <1>1, <1>7, LegProperties
  <2>4. \A r \in routes : r.peer \in Peers /\ (Aimed => r.peer = Target)
    BY <1>1, <1>7, Kinds DEF Aim, TypeOK, Routes
  <2>5. pc \in {"direct", "relay"} /\ pc' \in {"relay", "reached", "missed"}
    BY <1>7, Kinds
  <2> HIDE DEF Target, Aimed
  <2>6. QED BY <1>1, <2>1, <2>2, <2>3, <2>4, <2>5 DEF Aim, Dialing
<1>8. CASE UNCHANGED vars
  BY <1>1, <1>8 DEF vars, Aim, Dialing, Target, Aimed
<1>9. QED BY <1>2, <1>3, <1>4, <1>5, <1>6, <1>7, <1>8, Kinds DEF Dials

(* ------------------------------------------------------------------------ *)
(* Progress: the members tried so far and what has become of the pool.      *)

LEMMA TriedUpToKept ==
  ASSUME UNCHANGED inputs, UNCHANGED <<skip, todo, pool>>, NEW k
  PROVE  TriedUpTo(k)' <=> TriedUpTo(k)
BY Fixed DEF TriedUpTo, InVain, Reachable

LEMMA InVainKept ==
  ASSUME UNCHANGED inputs, UNCHANGED skip, NEW k
  PROVE  InVain(k)' <=> InVain(k)
BY Fixed DEF InVain, Reachable

LEMMA ProgressKept ==
  ASSUME Progress, UNCHANGED inputs, UNCHANGED <<tries, rank, skip, todo, pool>>, Stage' = Stage
  PROVE  Progress'
BY Fixed, TriedUpToKept, InVainKept DEF Progress, FightsFor

(* The list that connect_sticky_pool walks.                                *)
LEMMA OpenedToTry ==
  ASSUME TypeOK, pool = Entered
  PROVE  /\ Opened(pool, server.fp) = Members
         /\ Len(MembersFor(pool, server.fp)) = Size
         /\ \A i \in 1..Size : MembersFor(pool, server.fp)[i] = PeerAt(Members, i)
<1>1. CASE pool.fp = server.fp
  <2>1. Members = pool /\ Size = Len(pool.peers)
    BY <1>1 DEF Members, Opened, Size
  <2>2. MembersFor(pool, server.fp) = [i \in 1..Size |-> PeerAt(pool, i)] /\ Size \in Nat
    BY <1>1, <2>1, StateFacts DEF MembersFor
  <2> HIDE DEF Members, Size
  <2>3. Len([i \in 1..Size |-> PeerAt(pool, i)]) = Size
    BY <2>2
  <2>4. QED BY <1>1, <2>1, <2>2, <2>3 DEF Opened
<1>2. CASE pool.fp # server.fp
  <2>1. Members = Absent /\ MembersFor(pool, server.fp) = <<>> /\ Size = Len(<<>>)
    BY <1>2 DEF Members, Opened, Size, Absent, MembersFor
  <2>2. Len(<<>>) = 0
    BY EmptySeq
  <2> HIDE DEF Members, Size
  <2>3. QED BY <1>2, <2>1, <2>2 DEF Opened
<1>3. QED BY <1>1, <1>2

(* One more member is done with.                                           *)
LEMMA TriedOneMore ==
  ASSUME TypeOK, UNCHANGED inputs, UNCHANGED skip, NEW k \in 0..Size, TriedUpTo(k),
         todo # <<>>, todo' = Tail(todo),
         \/ Head(todo) = skip /\ UNCHANGED pool
         \/ /\ Head(todo) # skip /\ pool' = Forget(pool, Head(todo))
            /\ Steady => ~Reachable(Head(todo))
  PROVE  k + 1 \in 0..Size /\ TriedUpTo(k + 1)'
<1>1. GoodPool(Members) /\ Size \in Nat /\ Size = Len(Members.peers)
  BY StateFacts DEF Size
<1>2. /\ todo \in Seq(Peers) /\ Len(todo) = Size - k
      /\ \A i \in 1..(Size - k) : todo[i] = PeerAt(Members, k + i)
  BY DEF TypeOK, TriedUpTo
<1>3. /\ Len(todo') = Len(todo) - 1 /\ Head(todo) = todo[1]
      /\ \A i \in 1..Len(todo') : todo'[i] = todo[i + 1]
  BY <1>2, HeadTailProperties
<1>4. k \in 0..(Size - 1)
  <2>1. Len(todo) \in Nat /\ Len(todo) # 0
    BY <1>2, EmptySeq
  <2>2. QED BY <1>1, <1>2, <2>1
<1>5. k + 1 \in 0..Size /\ Len(todo') = Size - (k + 1)
  BY <1>1, <1>2, <1>3, <1>4
<1>6. \A i \in 1..(Size - (k + 1)) : todo'[i] = PeerAt(Members, k + 1 + i)
  <2> TAKE i \in 1..(Size - (k + 1))
  <2>1. i \in 1..Len(todo') /\ i + 1 \in 1..(Size - k) /\ k + (i + 1) = k + 1 + i
    BY <1>1, <1>4, <1>5
  <2>2. QED BY <1>2, <1>3, <2>1
<1>7. Head(todo) = PeerAt(Members, k + 1)
  <2>1. 1 \in 1..(Size - k)
    BY <1>1, <1>4
  <2>2. QED BY <1>2, <1>3, <2>1
<1>8. pool = TriedInVain(Members, k, skip) /\ InVain(k)
  BY DEF TriedUpTo
<1>9. pool' = TriedInVain(Members, k + 1, skip)
  <2>1. CASE Head(todo) = skip
    <3>1. TriedInVain(Members, k + 1, skip) = TriedInVain(Members, k, skip)
      BY <1>1, <1>4, <1>7, <2>1, TriedInVainPassesOver DEF GoodPool
    <3>2. QED BY <1>8, <2>1, <3>1
  <2>2. CASE Head(todo) # skip
    <3>1. TriedInVain(Members, k + 1, skip) = Forget(TriedInVain(Members, k, skip), PeerAt(Members, k + 1))
      BY <1>1, <1>4, <1>7, <2>2, TriedInVainForgets DEF GoodPool
    <3>2. QED BY <1>7, <1>8, <2>2, <3>1
  <2>3. QED BY <2>1, <2>2
<1>10. InVain(k + 1)
  <2> SUFFICES ASSUME Steady, NEW i \in 1..(k + 1), PeerAt(Members, i) # skip
               PROVE  ~Reachable(PeerAt(Members, i))
    BY DEF InVain
  <2>1. CASE i = k + 1
    BY <1>7, <2>1
  <2>2. CASE i # k + 1
    <3>1. i \in 1..k
      BY <1>1, <1>4, <2>2
    <3>2. QED BY <1>8, <3>1 DEF InVain
  <2>3. QED BY <2>1, <2>2
<1>11. InVain(k + 1)'
  BY <1>10, InVainKept
<1>12. QED BY <1>5, <1>6, <1>9, <1>11, Fixed DEF TriedUpTo

LEMMA ProgressStep ==
  ASSUME IInv, Next PROVE Progress'
<1>1. TypeOK /\ Progress /\ Aim /\ Told /\ UNCHANGED inputs
  BY Untouched DEF IInv
<1>2. UNCHANGED <<server, avoid, pool0>> /\ Entered' = Entered /\ PassedOver' = PassedOver
  BY <1>1, Fixed
<1>3. CASE Dials \/ Legs \/ UNCHANGED vars
  <2>1. UNCHANGED <<tries, rank, skip, todo, pool>>
    BY <1>3, Kinds DEF vars
  <2>2. CASE Dials
    BY <1>1, <2>1, <2>2, ProgressKept DEF Dials, TryRank, TryReconnect, TryMember, FindCandidates,
       Dial, Stage, Dialing
  <2>3. CASE Legs
    <3>1. Stage' = Stage
      BY <2>3, Kinds DEF Stage, Dialing
    <3>2. QED BY <1>1, <2>1, <3>1, ProgressKept
  <2>4. CASE UNCHANGED vars
    BY <1>1, <2>1, <2>4, ProgressKept DEF vars, Stage
  <2>5. QED BY <1>3, <2>2, <2>3, <2>4
<1>4. CASE Concludes
  <2>1. UNCHANGED <<skip, rank>> /\ Stage' = "done"
    BY <1>4 DEF Concludes, AdoptBestPinnedRank, PinnedExhausted, ReconnectReached, MemberReached,
                CandidateReached, DiscoveryExhausted, Fail, Return, Stage, Dialing
  <2>2. QED BY <1>1, <1>2, <2>1 DEF Progress
<1>5. CASE Start
  BY <1>1, <1>2, <1>5 DEF Start, Progress, Stage, Dialing, Entered, PassedOver
<1>6. CASE BeginPass \/ SkipRank \/ RankMissed \/ PassFailed
  <2>1. Stage \in {"pass", "rank"} /\ Stage' \in {"pass", "rank"} /\ UNCHANGED <<skip, pool>>
    BY <1>6 DEF BeginPass, SkipRank, RankMissed, PassFailed, Stage, Dialing
  <2>2. (server.fallback => tries' = tries) /\ rank' >= 1
    BY <1>1, <1>6 DEF BeginPass, SkipRank, RankMissed, PassFailed, Progress, TypeOK
  <2> HIDE DEF Stage
  <2>3. QED BY <1>1, <1>2, <2>1, <2>2 DEF Progress
<1>7. CASE FallBack
  BY <1>1, <1>2, <1>7 DEF FallBack, Progress, Stage, Dialing, Entered, PassedOver
<1>8. CASE ReconnectMissed
  BY <1>1, <1>2, <1>8 DEF ReconnectMissed, Progress, Stage, Dialing
<1>9. CASE ReconnectGivenUp
  BY <1>1, <1>2, <1>9 DEF ReconnectGivenUp, Progress, Stage, Dialing, Entered, PassedOver
<1>10. CASE OpenPool
  <2>1. /\ pool = Entered /\ skip = PassedOver /\ (server.pinned # <<>> => server.fallback)
        /\ server.sticky /\ rank >= 1 /\ (server.pinned = <<>> => skip = avoid)
    BY <1>1, <1>10 DEF OpenPool, Progress, Stage, Dialing
  <2>2. /\ Stage' = "member" /\ UNCHANGED <<skip, rank>>
        /\ pool' = Opened(pool, server.fp) /\ todo' = MembersFor(pool, server.fp)
    BY <1>10 DEF OpenPool, Stage, Dialing
  <2>3. Size \in Nat /\ GoodPool(Members)
    BY <1>1, StateFacts
  <2>4. TriedUpTo(0)'
    <3>1. Len(todo') = Size - 0
      BY <1>1, <2>1, <2>2, <2>3, OpenedToTry
    <3>2. \A i \in 1..(Size - 0) : todo'[i] = PeerAt(Members, 0 + i)
      BY <1>1, <2>1, <2>2, <2>3, OpenedToTry
    <3>3. pool' = TriedInVain(Members, 0, skip')
      BY <1>1, <2>1, <2>2, <2>3, OpenedToTry, TriedInVainNone DEF GoodPool
    <3>4. InVain(0)'
      BY DEF InVain
    <3>5. QED BY <1>1, <3>1, <3>2, <3>3, <3>4, Fixed DEF TriedUpTo
  <2>5. 0 \in 0..Size'
    BY <1>1, <2>3, Fixed
  <2>6. QED BY <1>2, <2>1, <2>2, <2>4, <2>5 DEF Progress
<1>11. CASE SkipPool
  BY <1>1, <1>2, <1>11 DEF SkipPool, Progress, Stage, Dialing, Entered, FightsFor
<1>12. CASE PassOverDropped \/ MemberMissed
  <2>1. Stage = "member" /\ Stage' = "member" /\ UNCHANGED <<skip, rank>> /\ todo' = Tail(todo)
    BY <1>12 DEF PassOverDropped, MemberMissed, Stage, Dialing
  <2>2. PICK k \in 0..Size : TriedUpTo(k)
    BY <1>1, <2>1 DEF Progress
  <2>3. /\ todo # <<>>
        /\ \/ Head(todo) = skip /\ UNCHANGED pool
           \/ /\ Head(todo) # skip /\ pool' = Forget(pool, Head(todo))
              /\ Steady => ~Reachable(Head(todo))
    BY <1>1, <1>12 DEF PassOverDropped, MemberMissed, Aim, Told, DialTold, Dialing, Target, Aimed
  <2>4. k + 1 \in 0..Size /\ TriedUpTo(k + 1)'
    BY <1>1, <2>1, <2>2, <2>3, TriedOneMore
  <2>5. \E n \in 0..Size' : TriedUpTo(n)'
    BY <1>1, <2>4, Fixed
  <2> HIDE DEF Stage
  <2>6. QED BY <1>1, <1>2, <2>1, <2>5 DEF Progress
<1>13. CASE PoolExhausted
  <2>1. Stage = "member" /\ Stage' = "find" /\ UNCHANGED <<skip, rank, pool>> /\ todo = <<>>
    BY <1>13 DEF PoolExhausted, Stage, Dialing
  <2>2. PICK k \in 0..Size : TriedUpTo(k)
    BY <1>1, <2>1 DEF Progress
  <2>3. k = Size
    <3>1. Len(<<>>) = 0 /\ Size \in Nat
      BY <1>1, EmptySeq, StateFacts
    <3>2. Len(todo) = Size - k
      BY <2>2 DEF TriedUpTo
    <3>3. QED BY <2>1, <3>1, <3>2
  <2>4. pool' = TriedInVain(Members', Size', skip') /\ InVain(Size)
    BY <1>1, <2>1, <2>2, <2>3, Fixed DEF TriedUpTo
  <2>5. InVain(Size)'
    BY <1>1, <2>1, <2>4, Fixed DEF InVain, Reachable
  <2> HIDE DEF Stage
  <2>6. QED BY <1>1, <1>2, <2>1, <2>4, <2>5 DEF Progress
<1>14. CASE FindNothing \/ CandidatesMissed
  <2>1. Stage = "find" /\ Stage' = "find" /\ UNCHANGED <<skip, rank, pool>>
    BY <1>14 DEF FindNothing, CandidatesMissed, Stage, Dialing
  <2>2. Members' = Members /\ Size' = Size /\ (InVain(Size)' <=> InVain(Size))
    BY <1>1, <2>1, Fixed DEF InVain, Reachable
  <2> HIDE DEF Stage
  <2>3. QED BY <1>1, <1>2, <2>1, <2>2 DEF Progress
<1>15. QED
  BY <1>3, <1>4, <1>5, <1>6, <1>7, <1>8, <1>9, <1>10, <1>11, <1>12, <1>13, <1>14, Kinds DEF Quiet

(* ------------------------------------------------------------------------ *)
(* The refinement: the flow concludes with one of the promised outcomes.    *)

LEMMA WhatIsLeftToTry ==
  ASSUME TypeOK, Progress, Stage \in {"pool", "member", "find"}
  PROVE  /\ server.sticky => PoolOutcomes(server, Entered, skip) \subseteq Outcomes(server, pool0, avoid)
         /\ ~server.sticky => DiscoveryOutcomes(server, pool0) \subseteq Outcomes(server, pool0, avoid)
<1>1. skip = PassedOver /\ (server.pinned # <<>> => server.fallback)
  BY DEF Progress
<1>2. CASE server.pinned = <<>>
  BY <1>1, <1>2 DEF Outcomes, UnpinnedOutcomes, Entered, PassedOver, FightsFor
<1>3. CASE server.pinned # <<>>
  <2>1. UnpinnedOutcomes(server, pool0, NoPeer) \subseteq Outcomes(server, pool0, avoid)
    BY <1>1, <1>3 DEF Outcomes, PinnedOutcomes
  <2>2. Entered = pool0 /\ skip = NoPeer
    BY <1>1, <1>3 DEF Entered, PassedOver
  <2>3. QED BY <2>1, <2>2 DEF UnpinnedOutcomes, FightsFor
<1>4. QED BY <1>2, <1>3

(* The k+1-st member answered after k were tried in vain.                  *)
LEMMA MemberOutcome ==
  ASSUME TypeOK, NEW k \in 0..(Size - 1), PeerAt(Members, k + 1) # skip
  PROVE  Adopted(PeerAt(Members, k + 1), "sticky",
                 RememberedBy(server, TriedInVain(Members, k, skip), PeerAt(Members, k + 1)))
           \in PoolOutcomes(server, Entered, skip)
<1> DEFINE after(n) == RememberedBy(server, TriedInVain(Members, n - 1, skip), PeerAt(Members, n))
           reachedAt == {n \in 1..Size : PeerAt(Members, n) # skip}
<1>1. {Adopted(PeerAt(Members, n), "sticky", after(n)) : n \in reachedAt} \subseteq PoolOutcomes(server, Entered, skip)
  BY DEF PoolOutcomes, Members, Size
<1>2. k + 1 \in 1..Size /\ (k + 1) - 1 = k
  BY StateFacts
<1>3. k + 1 \in reachedAt
  BY <1>2
<1>4. Adopted(PeerAt(Members, k + 1), "sticky", after(k + 1)) \in PoolOutcomes(server, Entered, skip)
  BY <1>1, <1>3
<1>5. QED BY <1>2, <1>4

LEMMA ConcludesAsPromised ==
  ASSUME IInv, Next, Concludes
  PROVE  \E o \in Outcomes(server, pool0, avoid) :
           pool' = o.pool /\ result' = <<[peer |-> o.peer, source |-> o.source]>>
<1>1. TypeOK /\ Progress /\ Aim
  BY DEF IInv
<1>2. SUFFICES \E p, source : /\ result' = <<[peer |-> p, source |-> source]>>
                              /\ Adopted(p, source, pool') \in Outcomes(server, pool0, avoid)
  BY DEF Adopted
<1>3. CASE AdoptBestPinnedRank
  <2>1. PICK p \in {reached} \cup {server.pinned[b] : b \in 1..(rank - 1)} : Return(p, "pinned")
    BY <1>3 DEF AdoptBestPinnedRank
  <2>2. /\ rank \in DOMAIN server.pinned /\ reached = server.pinned[rank] /\ pool = pool0
        /\ server.pinned # <<>> /\ pool' = pool
    BY <1>1, <1>3 DEF AdoptBestPinnedRank, Aim, Aimed, Target, Dialing, Progress, Stage
  <2>3. p \in ToSet(server.pinned)
    <3>1. \A b \in 1..(rank - 1) : b \in DOMAIN server.pinned
      BY <1>1, <2>2, StateFacts
    <3>2. QED BY <2>1, <2>2, <3>1 DEF ToSet
  <2>4. Adopted(p, "pinned", pool') \in Outcomes(server, pool0, avoid)
    BY <2>2, <2>3 DEF Outcomes, PinnedOutcomes
  <2>5. QED BY <2>1, <2>4 DEF Return
<1>4. CASE PinnedExhausted
  <2>1. server.pinned # <<>> /\ (server.fallback => tries = 0) /\ pool = pool0 /\ pool' = pool
    BY <1>1, <1>4 DEF PinnedExhausted, Progress, Stage, Dialing
  <2>2. tries # 0
    BY <1>1, <1>4, BoundsAreCounts DEF PinnedExhausted, TypeOK
  <2>3. Adopted(NoPeer, "none", pool') \in Outcomes(server, pool0, avoid)
    BY <2>1, <2>2 DEF Outcomes, PinnedOutcomes, Nothing
  <2>4. QED BY <1>4, <2>3 DEF PinnedExhausted, Fail, Return
<1>5. CASE ReconnectReached
  <2>1. /\ server.pinned = <<>> /\ FightsFor(server, avoid) /\ pool = pool0 /\ reached = avoid
        /\ pool' = RememberedBy(server, pool, reached)
    BY <1>1, <1>5 DEF ReconnectReached, Progress, Aim, Aimed, Target, Stage, Dialing
  <2>2. Adopted(avoid, "sticky", pool') \in Outcomes(server, pool0, avoid)
    BY <2>1 DEF Outcomes, UnpinnedOutcomes
  <2>3. QED BY <1>5, <2>1, <2>2 DEF ReconnectReached, Return
<1>6. CASE MemberReached
  <2>1. /\ Stage = "member" /\ todo # <<>> /\ Head(todo) # skip /\ reached = Head(todo)
        /\ pool' = RememberedBy(server, pool, reached)
    BY <1>1, <1>6 DEF MemberReached, Aim, Aimed, Target, Stage, Dialing
  <2>2. server.sticky /\ \E k \in 0..Size : TriedUpTo(k)
    BY <1>1, <2>1 DEF Progress
  <2>3. PICK k \in 0..Size : TriedUpTo(k)
    BY <2>2
  <2>4. Size \in Nat /\ Len(todo) \in Nat /\ Len(todo) # 0 /\ Head(todo) = todo[1]
    <3>1. todo \in Seq(Peers)
      BY <1>1 DEF TypeOK
    <3>2. QED BY <1>1, <2>1, <3>1, StateFacts, EmptySeq
  <2>5. k \in 0..(Size - 1) /\ Head(todo) = PeerAt(Members, k + 1) /\ pool = TriedInVain(Members, k, skip)
    BY <2>3, <2>4 DEF TriedUpTo
  <2>6. Adopted(reached, "sticky", pool') \in PoolOutcomes(server, Entered, skip)
    BY <1>1, <2>1, <2>5, MemberOutcome
  <2>7. Adopted(reached, "sticky", pool') \in Outcomes(server, pool0, avoid)
    BY <1>1, <2>1, <2>2, <2>6, WhatIsLeftToTry
  <2>8. QED BY <1>6, <2>7 DEF MemberReached, Return
<1>7. ASSUME Stage = "find", NEW o \in DiscoveryOutcomes(server, pool) PROVE o \in Outcomes(server, pool0, avoid)
  <2>1. CASE server.sticky
    <3>1. pool = TriedInVain(Members, Size, skip)
      BY <1>1, <1>7, <2>1 DEF Progress
    <3>2. DiscoveryOutcomes(server, TriedInVain(Members, Size, skip)) \subseteq PoolOutcomes(server, Entered, skip)
      BY DEF PoolOutcomes, Members, Size
    <3>3. QED BY <1>1, <1>7, <2>1, <3>1, <3>2, WhatIsLeftToTry
  <2>2. CASE ~server.sticky
    BY <1>1, <1>7, <2>2, WhatIsLeftToTry DEF Progress
  <2>3. QED BY <2>1, <2>2
<1>8. CASE CandidateReached
  <2>1. Stage = "find" /\ reached \in Peers /\ pool' = RememberedBy(server, pool, reached)
    BY <1>1, <1>8 DEF CandidateReached, Aim, Stage, Dialing
  <2>2. Adopted(reached, "discovered", pool') \in DiscoveryOutcomes(server, pool)
    BY <2>1 DEF DiscoveryOutcomes
  <2>3. QED BY <1>7, <1>8, <2>1, <2>2 DEF CandidateReached, Return
<1>9. CASE DiscoveryExhausted
  <2>1. Stage = "find" /\ pool' = pool
    BY <1>9 DEF DiscoveryExhausted, Stage, Dialing
  <2>2. Adopted(NoPeer, "none", pool') \in DiscoveryOutcomes(server, pool)
    BY <2>1 DEF DiscoveryOutcomes, Nothing
  <2>3. QED BY <1>7, <1>9, <2>1, <2>2 DEF DiscoveryExhausted, Fail, Return
<1>10. QED BY <1>3, <1>4, <1>5, <1>6, <1>8, <1>9 DEF Concludes

LEMMA InitPromised == Init => Promise!Init
BY DEF Init, Promise!Init

LEMMA StepPromised ==
  ASSUME IInv, [Next]_vars PROVE [Promise!Conclude]_(Promise!vars)
<1>1. CASE UNCHANGED vars
  BY <1>1 DEF vars, inputs, Promise!vars
<1>2. CASE Next /\ ~Concludes /\ ~UNCHANGED vars
  <2>1. pc # "done" /\ UNCHANGED result
    BY <1>2, Kinds
  <2>2. result = <<>> /\ UNCHANGED <<server, avoid, pool0>>
    BY <1>2, <2>1, Untouched DEF IInv, Returns, inputs
  <2>3. QED BY <2>1, <2>2 DEF Promise!vars
<1>3. CASE Next /\ Concludes
  <2>1. pc # "done" /\ result' # <<>>
    BY <1>3, Kinds
  <2>2. result = <<>> /\ UNCHANGED <<server, avoid, pool0>>
    BY <1>3, <2>1, Untouched DEF IInv, Returns, inputs
  <2>3. PICK o \in Outcomes(server, pool0, avoid) :
          pool' = o.pool /\ result' = <<[peer |-> o.peer, source |-> o.source]>>
    BY <1>3, ConcludesAsPromised
  <2>4. o \in Promise!Outcomes(server, pool0, avoid)
    BY SameOutcomes
  <2>5. Promise!Conclude
    BY <2>1, <2>2, <2>3, <2>4 DEF Promise!Conclude
  <2>6. QED BY <2>5
<1>4. QED BY <1>1, <1>2, <1>3

(* ------------------------------------------------------------------------ *)
(* What the flow has learnt in a steady world.                              *)

LEMMA DialToldStep ==
  ASSUME IInv, Next, Steady PROVE DialTold'
<1>1. /\ TypeOK /\ Progress /\ Aim /\ DialTold /\ RanksTold /\ UNCHANGED inputs /\ world.stable
  BY Untouched DEF IInv, Told, Steady
<1>2. UNCHANGED <<server, avoid, up>>
  BY <1>1, Fixed
<1>3. CASE Quiet \/ Concludes
  BY <1>3, Kinds DEF DialTold, Dialing
<1>4. CASE TryRank
  <2>1. /\ pc = "rank" /\ rank \in 1..Len(server.pinned) /\ pc' = "direct" /\ back' = "rank"
        /\ routes' = CandidateRoutes(rank) /\ UNCHANGED rank
    BY <1>1, <1>4, StateFacts DEF TryRank, Dial, Progress, TypeOK
  <2>2. server.pinned[rank] \in PinnedPeers
    BY <1>1, <2>1, StateFacts
  <2>3. resolved = {r \in up : r.peer \in PinnedPeers}
    BY <1>1, <2>1 DEF RanksTold, Stage, Dialing
  <2>4. \A r \in up : r.peer = server.pinned[rank] => r \in CandidateRoutes(rank)
    BY <2>2, <2>3 DEF CandidateRoutes
  <2>5. QED BY <1>2, <2>1, <2>4 DEF DialTold, Target
<1>5. CASE TryReconnect
  <2>1. avoid \in Peers
    BY <1>1, <1>5 DEF TryReconnect, Progress, Stage, Dialing, FightsFor, TypeOK
  <2>2. \A addresses \in RoutesToKnown(avoid) : \A r \in up : r.peer = avoid => r \in addresses
    BY <1>1, <2>1, KnownRoutes
  <2>3. QED BY <1>2, <1>5, <2>2 DEF TryReconnect, Dial, DialTold, Target
<1>6. CASE TryMember
  <2>1. Head(todo) \in Peers
    BY <1>1, <1>6, HeadTailProperties DEF TryMember, TypeOK
  <2>2. \A addresses \in RoutesToKnown(Head(todo)) : \A r \in up : r.peer = Head(todo) => r \in addresses
    BY <1>1, <2>1, KnownRoutes
  <2>3. QED BY <1>2, <1>6, <2>2 DEF TryMember, Dial, DialTold, Target
<1>7. CASE FindCandidates
  BY <1>7 DEF FindCandidates, Dial, DialTold, Aimed
<1>8. CASE Legs
  <2>1. Target' = Target /\ (Aimed' <=> Aimed)
    BY <1>2, <1>8, Kinds DEF Target, Aimed
  <2>2. pc \in {"direct", "relay"} /\ pc' \in {"relay", "reached", "missed"}
    BY <1>8, Kinds
  <2>3. CASE pc' = "reached"
    <3>1. \E r \in up : r.peer = reached'
      BY <1>1, <1>8, <2>3, LegProperties
    <3>2. QED BY <1>2, <2>3, <3>1 DEF DialTold, Reachable
  <2>4. CASE pc' = "relay"
    <3>1. pc = "direct" /\ routes' = routes /\ \A r \in routes \cap up : IsRelayed(r)
      BY <1>1, <1>8, <2>4, LegProperties
    <3> HIDE DEF Target, Aimed
    <3>2. QED BY <1>1, <1>2, <2>1, <2>4, <3>1 DEF DialTold, IsRelayed
  <2>5. CASE pc' = "missed"
    <3>1. pc = "relay" /\ \A r \in routes \cap up : ~IsRelayed(r)
      BY <1>1, <1>8, <2>5, LegProperties
    <3>2. Aimed => ~ \E r \in up : r.peer = Target
      BY <1>1, <3>1 DEF DialTold
    <3> HIDE DEF Target, Aimed
    <3>3. QED BY <1>2, <2>1, <2>5, <3>2 DEF DialTold, Reachable
  <2>6. QED BY <2>2, <2>3, <2>4, <2>5
<1>9. CASE UNCHANGED vars
  BY <1>1, <1>2, <1>9 DEF vars, DialTold, Target, Aimed, Reachable
<1>10. QED BY <1>3, <1>4, <1>5, <1>6, <1>7, <1>8, <1>9, Kinds DEF Dials

LEMMA RanksToldStep ==
  ASSUME IInv, Next, Steady PROVE RanksTold'
<1>1. TypeOK /\ Progress /\ Aim /\ DialTold /\ RanksTold /\ UNCHANGED inputs
  BY Untouched DEF IInv, Told
<1>2. UNCHANGED <<server, up>> /\ PinnedPeers' = PinnedPeers
  BY <1>1, Fixed
<1>3. CASE BeginPass
  <2>1. resolved' = {r \in up : r.peer \in PinnedPeers}
    BY <1>1, <1>3, StateFacts, ResolvedRoutes DEF BeginPass
  <2>2. QED BY <1>2, <1>3, <2>1 DEF BeginPass, RanksTold
<1>4. CASE SkipRank \/ RankMissed
  <2>1. /\ Stage = "rank" /\ rank \in Nat /\ rank' = rank + 1 /\ UNCHANGED resolved
    BY <1>1, <1>4 DEF SkipRank, RankMissed, Stage, Dialing, TypeOK
  <2>2. ~ \E r \in up : r.peer = server.pinned[rank]
    <3>1. CASE SkipRank
      <4>1. rank \in 1..Len(server.pinned) /\ CandidateRoutes(rank) = {}
        BY <1>1, <2>1, <3>1, StateFacts DEF SkipRank, Progress
      <4>2. server.pinned[rank] \in PinnedPeers
        BY <1>1, <4>1, StateFacts
      <4>3. QED BY <1>1, <2>1, <4>1, <4>2 DEF RanksTold, CandidateRoutes
    <3>2. CASE RankMissed
      BY <1>1, <3>2 DEF RankMissed, DialTold, Aimed, Target, Reachable
    <3>3. QED BY <1>4, <3>1, <3>2
  <2>3. \A b \in 1..(rank' - 1) : ~ \E r \in up : r.peer = server.pinned[b]
    <3> TAKE b \in 1..(rank' - 1)
    <3>1. b \in 1..(rank - 1) \/ b = rank
      BY <2>1
    <3>2. QED BY <1>1, <2>1, <2>2, <3>1 DEF RanksTold, Reachable
  <2> HIDE DEF Stage
  <2>4. QED BY <1>1, <1>2, <2>1, <2>3 DEF RanksTold, Reachable
<1>5. CASE TryRank \/ Legs \/ UNCHANGED vars
  <2>1. UNCHANGED <<rank, resolved>> /\ Stage' = Stage
    BY <1>5, Kinds DEF TryRank, Dial, Stage, Dialing, vars
  <2> HIDE DEF Stage
  <2>2. QED BY <1>1, <1>2, <2>1 DEF RanksTold, Reachable
<1>6. CASE Concludes \/ TryReconnect \/ TryMember \/ FindCandidates
  <2>1. Stage' # "rank"
    BY <1>6, Kinds DEF TryReconnect, TryMember, FindCandidates, Dial, Stage, Dialing
  <2>2. QED BY <2>1 DEF RanksTold
<1>7. CASE Quiet /\ ~BeginPass /\ ~SkipRank /\ ~RankMissed
  <2>1. Stage' # "rank"
    BY <1>7 DEF Quiet, Start, PassFailed, FallBack, ReconnectMissed, ReconnectGivenUp, OpenPool,
       SkipPool,
                PassOverDropped, MemberMissed, PoolExhausted, FindNothing, CandidatesMissed, Stage, Dialing
  <2>2. QED BY <2>1 DEF RanksTold
<1>8. QED BY <1>3, <1>4, <1>5, <1>6, <1>7, Kinds DEF Dials

(* Which steps lead past the pinned peers, and past the fight.             *)
LEMMA StageKept ==
  ASSUME Next, Stage' \in {"pool", "member", "find"}
  PROVE  \/ Start \/ FallBack \/ ReconnectGivenUp
         \/ Stage \in {"pool", "member", "find"}
<1>1. CASE Quiet /\ ~Start /\ ~FallBack /\ ~ReconnectGivenUp
  BY <1>1 DEF Quiet, BeginPass, SkipRank, RankMissed, PassFailed, ReconnectMissed, OpenPool,
     SkipPool,
              PassOverDropped, MemberMissed, PoolExhausted, FindNothing, CandidatesMissed, Stage, Dialing
<1>2. CASE Concludes
  BY <1>2, Kinds DEF Stage, Dialing
<1>3. CASE Dials
  BY <1>3 DEF Dials, TryRank, TryReconnect, TryMember, FindCandidates, Dial, Stage, Dialing
<1>4. CASE Legs \/ UNCHANGED vars
  BY <1>4, Kinds DEF Stage, Dialing, vars
<1>5. QED BY <1>1, <1>2, <1>3, <1>4, Kinds

LEMMA PinsToldStep ==
  ASSUME IInv, Next, Steady PROVE PinsTold'
<1>1. TypeOK /\ Progress /\ RanksTold /\ PinsTold /\ UNCHANGED inputs
  BY Untouched DEF IInv, Told
<1>2. UNCHANGED <<server, up>> /\ PinnedPeers' = PinnedPeers
  BY <1>1, Fixed
<1>3. ASSUME server.pinned = <<>> PROVE PinnedPeers = {}
  BY <1>3 DEF PinnedPeers, ToSet
<1>4. ASSUME pc = "rank", rank > Len(server.pinned) PROVE \A p \in PinnedPeers : ~ \E r \in up : r.peer = p
  <2>1. \A b \in DOMAIN server.pinned : b \in 1..(rank - 1)
    BY <1>1, <1>4, StateFacts DEF TypeOK
  <2>2. \A b \in 1..(rank - 1) : ~ \E r \in up : r.peer = server.pinned[b]
    BY <1>1, <1>4 DEF RanksTold, Reachable, Stage, Dialing
  <2>3. QED BY <2>1, <2>2 DEF PinnedPeers, ToSet
<1>5. ASSUME Stage' \in {"pool", "member", "find"} \/ (Stage' = "pass" /\ tries' > 0)
      PROVE  \A p \in PinnedPeers : ~ \E r \in up : r.peer = p
  <2>1. CASE Start
    BY <1>1, <1>3, <1>5, <2>1 DEF Start, Progress, Stage, Dialing
  <2>2. CASE PassFailed \/ FallBack
    BY <1>4, <2>2 DEF PassFailed, FallBack
  <2>3. CASE ReconnectGivenUp
    BY <1>1, <1>3, <2>3 DEF ReconnectGivenUp, Progress, Stage, Dialing
  <2>4. CASE Stage \in {"pool", "member", "find"}
    BY <1>1, <2>4 DEF PinsTold, Reachable
  <2>5. CASE Stage' = "pass" /\ tries' > 0 /\ ~Start /\ ~PassFailed
    <3>1. UNCHANGED vars
      <4>1. ~Quiet
        BY <2>5 DEF Quiet, BeginPass, SkipRank, RankMissed, FallBack, ReconnectMissed,
           ReconnectGivenUp, OpenPool,
                    SkipPool, PassOverDropped, MemberMissed, PoolExhausted, FindNothing, CandidatesMissed, Stage, Dialing
      <4>2. ~Concludes /\ ~Legs
        BY <1>1, <2>5, Kinds DEF Stage, Dialing, TypeOK
      <4>3. ~Dials
        BY <2>5 DEF Dials, TryRank, TryReconnect, TryMember, FindCandidates, Dial, Stage, Dialing
      <4>4. QED BY <4>1, <4>2, <4>3, Kinds
    <3>2. Stage = "pass" /\ tries > 0
      BY <2>5, <3>1 DEF vars, Stage
    <3>3. QED BY <1>1, <3>2 DEF PinsTold, Reachable
  <2>6. QED BY <1>5, <2>1, <2>2, <2>3, <2>4, <2>5, StageKept
<1> HIDE DEF Stage
<1>6. QED BY <1>2, <1>5 DEF PinsTold, Reachable

LEMMA DroppedToldStep ==
  ASSUME IInv, Next, Steady PROVE DroppedTold'
<1>1. TypeOK /\ Progress /\ DialTold /\ DroppedTold /\ UNCHANGED inputs
  BY Untouched DEF IInv, Told
<1>2. UNCHANGED <<server, avoid, up>>
  BY <1>1, Fixed
<1>3. ASSUME Stage' \in {"pool", "member", "find"}, server.pinned = <<>>, FightsFor(server, avoid)
      PROVE  ~ \E r \in up : r.peer = avoid
  <2>1. CASE Start
    BY <1>3, <2>1 DEF Start, Stage, Dialing
  <2>2. CASE FallBack
    BY <1>1, <1>3, <2>2 DEF FallBack, Progress, Stage, Dialing
  <2>3. CASE ReconnectGivenUp
    BY <1>1, <2>3 DEF ReconnectGivenUp, DialTold, Aimed, Target, Reachable
  <2>4. CASE Stage \in {"pool", "member", "find"}
    BY <1>1, <1>3, <2>4 DEF DroppedTold, Reachable
  <2>5. QED BY <1>3, <2>1, <2>2, <2>3, <2>4, StageKept
<1> HIDE DEF Stage
<1>4. QED BY <1>2, <1>3 DEF DroppedTold, Reachable, FightsFor

LEMMA MembersKeptStep ==
  ASSUME IInv, Next, Steady PROVE MembersKept'
<1>1. TypeOK /\ Progress /\ Aim /\ DialTold /\ MembersKept /\ UNCHANGED inputs
  BY Untouched DEF IInv, Told
<1>2. UNCHANGED <<server, avoid, pool0, up>>
  BY <1>1, Fixed
<1> SUFFICES ASSUME pc' # "done", pool0.fp = server.fp, NEW p \in Peers,
                    Remembers(pool0, p), \E r \in up : r.peer = p
             PROVE  Remembers(pool', p) /\ pool'.fp = pool0.fp
  BY <1>2 DEF MembersKept, Reachable
<1>3. pc # "done" => Remembers(pool, p) /\ pool.fp = pool0.fp
  BY <1>1 DEF MembersKept, Reachable
<1>4. pc # "done"
  BY Kinds DEF vars
<1>5. ASSUME NEW q, ~ \E r \in up : r.peer = q, pool' = Forget(pool, q)
      PROVE  Remembers(pool', p) /\ pool'.fp = pool0.fp
  <2>1. GoodPool(pool) /\ p # q
    BY <1>1, <1>5, StateFacts
  <2>2. Remembers(Forget(pool, q), p)
    BY <1>3, <1>4, <2>1, ForgetKeeps DEF GoodPool
  <2>3. Forget(pool, q).fp = pool.fp
    BY <2>1, <2>2, ForgetWithin DEF GoodPool
  <2>4. QED BY <1>3, <1>4, <1>5, <2>2, <2>3
<1>6. CASE ReconnectGivenUp
  BY <1>1, <1>5, <1>6 DEF ReconnectGivenUp, DialTold, Aimed, Target, Reachable
<1>7. CASE MemberMissed
  BY <1>1, <1>5, <1>7 DEF MemberMissed, DialTold, Aimed, Target, Reachable
<1>8. CASE OpenPool
  BY <1>3, <1>4, <1>8 DEF OpenPool, Opened
<1>9. CASE UNCHANGED pool
  BY <1>3, <1>4, <1>9
<1>10. ~(ReconnectReached \/ MemberReached \/ CandidateReached)
  BY DEF ReconnectReached, MemberReached, CandidateReached, Return
<1>11. QED BY <1>6, <1>7, <1>8, <1>9, <1>10, Untouched

LEMMA ToldStep ==
  ASSUME IInv, Next PROVE Told'
<1>1. Steady' <=> Steady
  BY Untouched, Fixed
<1>2. QED
  BY <1>1, DialToldStep, RanksToldStep, PinsToldStep, DroppedToldStep, MembersKeptStep DEF Told

(* ------------------------------------------------------------------------ *)
(* The preferences.                                                         *)

LEMMA ReturnedExit ==
  ASSUME NEW p, NEW source, Return(p, source)
  PROVE  Exit' = p /\ Source' = source
BY DEF Return, Exit, Source

LEMMA NoExitYet ==
  ASSUME IInv, Next, ~Concludes, ~UNCHANGED vars PROVE ~Concluded'
<1>1. pc # "done" /\ UNCHANGED result
  BY Kinds
<1>2. QED BY <1>1 DEF IInv, Returns, Concluded

LEMMA PinnedPreferenceStep ==
  ASSUME IInv, Next, Concludes PROVE PinnedPreference'
<1>1. TypeOK /\ Progress /\ Aim /\ Told /\ UNCHANGED inputs
  BY Untouched DEF IInv
<1>2. UNCHANGED <<server, avoid, pool0, up>> /\ PinnedPeers' = PinnedPeers /\ (Steady' <=> Steady)
  BY <1>1, Fixed
<1> SUFFICES ASSUME Steady, server.pinned # <<>>
             PROVE  \/ \E r \in DOMAIN server.pinned :
                         /\ Exit' = server.pinned[r] /\ \E x \in up : x.peer = server.pinned[r]
                         /\ \A b \in 1..(r - 1) : ~ \E x \in up : x.peer = server.pinned[b]
                    \/ /\ \A p \in PinnedPeers : ~ \E x \in up : x.peer = p
                       /\ server.fallback \/ Exit' = NoPeer
  BY <1>2 DEF PinnedPreference, Reachable
<1>3. CASE AdoptBestPinnedRank
  <2>1. /\ rank \in DOMAIN server.pinned /\ reached = server.pinned[rank]
        /\ \A b \in 1..(rank - 1) : ~ \E x \in up : x.peer = server.pinned[b]
        /\ \E x \in up : x.peer = reached
    BY <1>1, <1>3 DEF AdoptBestPinnedRank, Aim, Aimed, Target, Told, RanksTold, DialTold, Stage,
       Dialing, Reachable
  <2>2. PICK p \in {reached} \cup {server.pinned[b] : b \in 1..(rank - 1)} :
          (p = reached \/ MayBeConnected(p)) /\ Return(p, "pinned")
    BY <1>3 DEF AdoptBestPinnedRank
  <2>3. p = reached
    BY <2>1, <2>2 DEF MayBeConnected, Steady, Reachable
  <2>4. Exit' = server.pinned[rank]
    BY <2>1, <2>2, <2>3, ReturnedExit
  <2>5. QED BY <2>1, <2>4
<1>4. CASE PinnedExhausted
  <2>1. Stage = "pass" /\ tries > 0
    BY <1>1, <1>4, BoundsAreCounts DEF PinnedExhausted, TypeOK, Stage, Dialing
  <2>2. Exit' = NoPeer
    BY <1>4, ReturnedExit DEF PinnedExhausted, Fail
  <2>3. QED BY <1>1, <2>1, <2>2 DEF Told, PinsTold, Reachable
<1>5. CASE ReconnectReached
  BY <1>1, <1>5 DEF ReconnectReached, Progress, Stage, Dialing
<1>6. CASE MemberReached \/ CandidateReached \/ DiscoveryExhausted
  <2>1. Stage \in {"member", "find"}
    BY <1>6 DEF MemberReached, CandidateReached, DiscoveryExhausted, Stage, Dialing
  <2>2. QED BY <1>1, <2>1 DEF Told, PinsTold, Reachable, Progress
<1>7. QED BY <1>3, <1>4, <1>5, <1>6 DEF Concludes

LEMMA ReachableMembersKeptStep ==
  ASSUME IInv, Next, Concludes PROVE ReachableMembersKept'
<1>1. TypeOK /\ Progress /\ Aim /\ Told /\ UNCHANGED inputs
  BY Untouched DEF IInv
<1>2. UNCHANGED <<server, avoid, pool0, up>> /\ (Steady' <=> Steady)
  BY <1>1, Fixed
<1> SUFFICES ASSUME Steady, pool0.fp = server.fp, NEW p \in Peers,
                    Remembers(pool0, p), \E x \in up : x.peer = p
             PROVE  Remembers(pool', p) \/ Len(pool'.peers) = AtLeastOne(server.max)
  BY <1>2 DEF ReachableMembersKept, Evicted, Reachable
<1>3. pc # "done"
  BY Kinds
<1>4. Remembers(pool, p) /\ pool.fp = server.fp
  BY <1>1, <1>3 DEF Told, MembersKept, Reachable
<1>5. CASE ReconnectReached \/ MemberReached \/ CandidateReached
  <2>1. reached \in Peers /\ pool' = RememberedBy(server, pool, reached)
    BY <1>1, <1>5 DEF ReconnectReached, MemberReached, CandidateReached, Aim
  <2>2. GoodPool(pool) /\ server.max \in Nat /\ server.fp \in Fingerprints
    BY <1>1, StateFacts DEF Configured
  <2>3. \/ Remembers(Remember(pool, server.fp, reached, server.max), p)
        \/ Len(Remember(pool, server.fp, reached, server.max).peers) = AtLeastOne(server.max)
    BY <1>4, <2>1, <2>2, RememberKeeps DEF GoodPool
  <2>4. QED BY <1>4, <2>1, <2>3 DEF RememberedBy
<1>6. CASE AdoptBestPinnedRank \/ PinnedExhausted \/ DiscoveryExhausted
  BY <1>4, <1>6 DEF AdoptBestPinnedRank, PinnedExhausted, DiscoveryExhausted
<1>7. QED BY <1>5, <1>6 DEF Concludes

(* The members the pre-pass walks are those of the pool in its order, the  *)
(* one that dropped aside.                                                 *)
LEMMA MembersInOrder ==
  ASSUME TypeOK, server.pinned = <<>>
  PROVE  /\ \A i \in 1..Size : PeerAt(Members, i) \in ToSet(MembersFor(pool0, server.fp))
         /\ \A q \in ToSet(MembersFor(pool0, server.fp)) \ {avoid} :
              \E i \in 1..Size : PeerAt(Members, i) = q
         /\ \A i \in 1..Size : \A j \in 1..Size :
              PositionOf(pool0, PeerAt(Members, j)) < PositionOf(pool0, PeerAt(Members, i)) => j < i
<1> DEFINE s == pool0.peers
           E == Entries(Peers, Remembered)
           members == ToSet(MembersFor(pool0, server.fp))
<1>1. /\ GoodPool(pool0) /\ Size \in Nat /\ DOMAIN Members.peers = 1..Size
      /\ s \in Seq(E) /\ Len(s) \in Nat /\ DOMAIN s = 1..Len(s) /\ Distinct(s)
  BY StateFacts, PoolFacts DEF GoodPool
<1>2. \A i \in DOMAIN s : PositionOf(pool0, s[i].peer) = i
  <2> TAKE i \in DOMAIN s
  <2>1. /\ PositionOf(pool0, s[i].peer) \in DOMAIN s
        /\ s[PositionOf(pool0, s[i].peer)].peer = s[i].peer
    BY DEF PositionOf, PeerAt
  <2>2. QED BY <1>1, <2>1 DEF Distinct
<1>3. CASE pool0.fp # server.fp
  <2>1. Members.peers = <<>> /\ MembersFor(pool0, server.fp) = <<>>
    BY <1>3 DEF Members, Opened, Entered, Forget, NonEmpty, Absent, MembersFor
  <2>2. members = {} /\ Size = 0
    <3>1. Len(<<>>) = 0 /\ DOMAIN <<>> = {}
      BY EmptySeq
    <3>2. QED BY <2>1, <3>1 DEF ToSet, Size
  <2> HIDE DEF members
  <2>3. QED BY <2>2 DEF members
<1>4. CASE pool0.fp = server.fp
  <2>1. members = {s[i].peer : i \in DOMAIN s}
    BY <1>4 DEF MembersFor, PeerAt, ToSet
  <2>2. Members.peers = Entered.peers
    BY <1>4 DEF Members, Opened, Entered, Forget, NonEmpty, Absent
  <2> DEFINE t == Members.peers
  <2> HIDE DEF members, s, t
  <2>3. ASSUME t = s
        PROVE  /\ \A i \in 1..Size : t[i].peer \in members
               /\ \A q \in members \ {avoid} : \E i \in 1..Size : t[i].peer = q
               /\ \A i \in 1..Size : \A j \in 1..Size :
                    PositionOf(pool0, t[j].peer) < PositionOf(pool0, t[i].peer) => j < i
    <3>1. DOMAIN s = 1..Size
      BY <1>1, <2>3 DEF t
    <3>2. QED BY <1>2, <2>1, <2>3, <3>1
  <2>4. ASSUME Remembers(pool0, avoid), t = RemoveAt(s, PositionOf(pool0, avoid))
        PROVE  /\ \A i \in 1..Size : t[i].peer \in members
               /\ \A q \in members \ {avoid} : \E i \in 1..Size : t[i].peer = q
               /\ \A i \in 1..Size : \A j \in 1..Size :
                    PositionOf(pool0, t[j].peer) < PositionOf(pool0, t[i].peer) => j < i
    <3> DEFINE k == PositionOf(pool0, avoid)
    <3>1. k \in 1..Len(s) /\ s[k].peer = avoid
      BY <1>1, <2>4 DEF Remembers, PositionOf, PeerAt, s
    <3> HIDE DEF k
    <3>2. Len(t) = Len(s) - 1 /\ \A i \in 1..(Len(s) - 1) : t[i] = IF i < k THEN s[i] ELSE s[i + 1]
      BY <1>1, <2>4, <3>1, RemoveAtProperties DEF k
    <3>3. Size = Len(s) - 1
      BY <3>2 DEF Size, t
    <3>4. \A i \in 1..Size : \E n \in DOMAIN s : t[i] = s[n] /\ n = IF i < k THEN i ELSE i + 1
      BY <1>1, <3>1, <3>2, <3>3
    <3>5. \A i \in 1..Size : t[i].peer \in members
      BY <2>1, <3>4
    <3>6. ASSUME NEW q \in members \ {avoid} PROVE \E i \in 1..Size : t[i].peer = q
      <4>1. PICK n \in DOMAIN s : s[n].peer = q
        BY <2>1
      <4>2. n # k
        BY <3>1, <4>1
      <4>3. CASE n < k
        <5>1. n \in 1..(Len(s) - 1)
          BY <1>1, <3>1, <4>3
        <5>2. QED BY <3>2, <3>3, <4>1, <4>3, <5>1
      <4>4. CASE ~(n < k)
        <5>1. n - 1 \in 1..(Len(s) - 1) /\ ~(n - 1 < k) /\ (n - 1) + 1 = n
          BY <1>1, <3>1, <4>2, <4>4
        <5>2. t[n - 1] = s[n]
          BY <3>2, <5>1
        <5>3. QED BY <3>3, <4>1, <5>1, <5>2
      <4>5. QED BY <4>3, <4>4
    <3>7. ASSUME NEW i \in 1..Size, NEW j \in 1..Size,
                 PositionOf(pool0, t[j].peer) < PositionOf(pool0, t[i].peer)
          PROVE  j < i
      <4>1. PICK m \in DOMAIN s : t[i] = s[m] /\ m = IF i < k THEN i ELSE i + 1
        BY <3>4
      <4>2. PICK n \in DOMAIN s : t[j] = s[n] /\ n = IF j < k THEN j ELSE j + 1
        BY <3>4
      <4>3. n < m
        BY <1>2, <3>7, <4>1, <4>2
      <4>4. QED BY <1>1, <3>1, <3>3, <4>1, <4>2, <4>3
    <3>8. QED BY <3>5, <3>6, <3>7
  <2>5. t = s \/ (Remembers(pool0, avoid) /\ t = RemoveAt(s, PositionOf(pool0, avoid)))
    <3>1. Forget(pool0, avoid).peers = Without(pool0, avoid)
      BY DEF Forget, NonEmpty, Absent
    <3>2. QED BY <2>2, <3>1 DEF Entered, Without, s, t
  <2>6. QED BY <2>3, <2>4, <2>5 DEF PeerAt, members, t
<1>5. QED BY <1>3, <1>4

LEMMA StickyPreferenceStep ==
  ASSUME IInv, Next, Concludes PROVE StickyPreference'
<1>1. TypeOK /\ Progress /\ Aim /\ Told /\ UNCHANGED inputs
  BY Untouched DEF IInv
<1>2. UNCHANGED <<server, avoid, pool0, up>> /\ (Steady' <=> Steady) /\ KnownExits' = KnownExits
  <2>1. UNCHANGED <<server, avoid, pool0, up>> /\ (Steady' <=> Steady)
    BY <1>1, Fixed
  <2>2. QED BY <2>1 DEF KnownExits
<1> DEFINE Up(p) == \E x \in up : x.peer = p
           Sooner(q, p) == \/ q = avoid /\ p # avoid
                           \/ avoid \notin {p, q} /\ PositionOf(pool0, q) < PositionOf(pool0, p)
<1> SUFFICES ASSUME Steady, server.pinned = <<>>, server.sticky
             PROVE  \/ /\ Exit' \in KnownExits /\ Source' = "sticky" /\ Up(Exit')
                       /\ \A q \in KnownExits : Sooner(q, Exit') => ~Up(q)
                    \/ /\ \A q \in KnownExits : ~Up(q)
                       /\ Source' \in {"discovered", "none"}
  BY <1>2 DEF StickyPreference, Reachable, TriedBefore
<1>3. skip = avoid /\ Size \in Nat /\ \A i \in 1..Size : PeerAt(Members, i) \in Peers
  BY <1>1, StateFacts DEF Progress
<1>4. CASE AdoptBestPinnedRank \/ PinnedExhausted
  BY <1>1, <1>4 DEF AdoptBestPinnedRank, PinnedExhausted, Progress, Stage, Dialing
<1>5. CASE ReconnectReached
  <2>1. reached = avoid /\ avoid \in Peers /\ FightsFor(server, avoid) /\ Up(avoid)
    BY <1>1, <1>5 DEF ReconnectReached, Aim, Aimed, Target, Progress, Told, DialTold, Stage,
       Dialing, Reachable
  <2>2. Exit' = avoid /\ Source' = "sticky"
    BY <1>5, <2>1, ReturnedExit DEF ReconnectReached
  <2>3. avoid \in KnownExits
    BY <2>1 DEF KnownExits
  <2>4. QED BY <2>1, <2>2, <2>3
<1>6. ASSUME Stage \in {"member", "find"}, avoid \in KnownExits PROVE ~Up(avoid)
  BY <1>1, <1>6 DEF Told, DroppedTold, Reachable, KnownExits
<1>7. ASSUME NEW k \in 0..Size, InVain(k), NEW i \in 1..k, PeerAt(Members, i) # avoid
      PROVE  ~Up(PeerAt(Members, i))
  BY <1>3, <1>7 DEF InVain, Reachable
<1>8. ASSUME NEW q \in KnownExits, q # avoid PROVE \E i \in 1..Size : PeerAt(Members, i) = q
  BY <1>1, <1>8, MembersInOrder DEF KnownExits
<1>9. CASE MemberReached
  <2>1. /\ Stage = "member" /\ todo # <<>> /\ Head(todo) # avoid /\ reached = Head(todo)
        /\ Up(reached)
    BY <1>1, <1>3, <1>9 DEF MemberReached, Aim, Aimed, Target, Told, DialTold, Stage, Dialing,
       Reachable
  <2>2. PICK k \in 0..Size : TriedUpTo(k)
    BY <1>1, <2>1 DEF Progress
  <2>3. Len(todo) \in Nat /\ Len(todo) # 0 /\ Head(todo) = todo[1]
    <3>1. todo \in Seq(Peers)
      BY <1>1 DEF TypeOK
    <3>2. QED BY <2>1, <3>1, EmptySeq
  <2>4. k + 1 \in 1..Size /\ reached = PeerAt(Members, k + 1) /\ InVain(k)
    BY <1>3, <2>1, <2>2, <2>3 DEF TriedUpTo
  <2>5. Exit' = reached /\ Source' = "sticky"
    BY <1>9, ReturnedExit DEF MemberReached
  <2>6. reached \in KnownExits
    BY <1>1, <1>3, <2>1, <2>4, MembersInOrder DEF KnownExits
  <2>7. ASSUME NEW q \in KnownExits, Sooner(q, reached) PROVE ~Up(q)
    <3>1. CASE q = avoid
      BY <1>6, <2>1, <3>1
    <3>2. CASE q # avoid
      <4>1. PICK i \in 1..Size : PeerAt(Members, i) = q
        BY <1>8, <3>2
      <4>2. i < k + 1
        BY <1>1, <2>4, <2>7, <3>2, <4>1, MembersInOrder
      <4>3. i \in 1..k
        BY <1>3, <4>2
      <4>4. QED BY <1>7, <2>4, <3>2, <4>1, <4>3
    <3>3. QED BY <3>1, <3>2
  <2>8. QED BY <2>1, <2>5, <2>6, <2>7
<1>10. CASE CandidateReached \/ DiscoveryExhausted
  <2>1. Stage = "find"
    BY <1>10 DEF CandidateReached, DiscoveryExhausted, Stage, Dialing
  <2>2. Source' \in {"discovered", "none"}
    BY <1>10, ReturnedExit DEF CandidateReached, DiscoveryExhausted, Fail
  <2>3. InVain(Size) /\ Size \in 0..Size
    BY <1>1, <1>3, <2>1 DEF Progress
  <2>4. ASSUME NEW q \in KnownExits PROVE ~Up(q)
    <3>1. CASE q = avoid
      BY <1>6, <2>1, <3>1
    <3>2. CASE q # avoid
      <4>1. PICK i \in 1..Size : PeerAt(Members, i) = q
        BY <1>8, <3>2
      <4>2. QED BY <1>7, <2>3, <3>2, <4>1
    <3>3. QED BY <3>1, <3>2
  <2>5. QED BY <2>2, <2>4
<1>11. QED BY <1>4, <1>5, <1>9, <1>10 DEF Concludes

LEMMA PreferencesStep ==
  ASSUME IInv, Next PROVE Preferences'
<1>1. CASE Concludes
  BY <1>1, PinnedPreferenceStep, StickyPreferenceStep, ReachableMembersKeptStep DEF Preferences
<1>2. CASE ~Concludes /\ ~UNCHANGED vars
  BY <1>2, NoExitYet DEF Preferences, PinnedPreference, StickyPreference, ReachableMembersKept
<1>3. CASE UNCHANGED vars
  BY <1>3 DEF IInv, vars, inputs, Preferences, PinnedPreference, StickyPreference,
     ReachableMembersKept,
              Steady, Concluded, Exit, Source, Reachable, PinnedPeers, KnownExits, TriedBefore, Evicted
<1>4. QED BY <1>1, <1>2, <1>3

(* ------------------------------------------------------------------------ *)
(* The theorems.                                                            *)

LEMMA InitIInv == Init => IInv
<1> SUFFICES ASSUME Init PROVE IInv
  OBVIOUS
<1>1. TypeOK
  BY InitTyped
<1>2. Stage = "start" /\ pc = "start" /\ result = <<>>
  BY DEF Init, Stage, Dialing
<1>3. Returns /\ Preferences
  BY <1>2 DEF Returns, Preferences, PinnedPreference, StickyPreference, ReachableMembersKept,
     Concluded
<1>4. Progress /\ Aim
  BY <1>2 DEF Init, Progress, Aim, Dialing
<1>5. Told
  BY <1>2 DEF Init, Told, DialTold, RanksTold, PinsTold, DroppedTold, MembersKept
<1>6. QED BY <1>1, <1>3, <1>4, <1>5 DEF IInv

LEMMA StepIInv == IInv /\ [Next]_vars => IInv'
<1> SUFFICES ASSUME IInv, [Next]_vars PROVE IInv'
  OBVIOUS
<1>1. CASE Next
  BY <1>1, TypeStep, ReturnsStep, ProgressStep, AimStep, ToldStep, PreferencesStep DEF IInv
<1>2. CASE UNCHANGED vars
  <2>1. TypeOK'
    BY <1>2 DEF vars, inputs, IInv, TypeOK
  <2>2. Progress'
    BY <1>2, ProgressKept DEF vars, IInv, Stage
  <2>3. Returns' /\ Aim' /\ DialTold' = DialTold /\ RanksTold' = RanksTold
    BY <1>2 DEF vars, inputs, IInv, Returns, Aim, Aimed, Target, Dialing, DialTold, RanksTold,
       Stage, Reachable, PinnedPeers
  <2>4. Preferences'
    BY <1>2 DEF IInv, vars, inputs, Preferences, PinnedPreference, StickyPreference,
       ReachableMembersKept,
                Steady, Concluded, Exit, Source, Reachable, PinnedPeers, KnownExits, TriedBefore, Evicted
  <2>5. Told'
    BY <1>2 DEF IInv, vars, inputs, Told, DialTold, RanksTold, PinsTold, DroppedTold, MembersKept,
       Aimed,
                Target, Dialing, Stage, Reachable, PinnedPeers, Steady
  <2>6. QED BY <2>1, <2>2, <2>3, <2>4, <2>5 DEF IInv
<1>3. QED BY <1>1, <1>2

LEMMA Invariance == Spec => []IInv
BY InitIInv, StepIInv, PTL DEF Spec

(* Every state of the effort is one the program can be in: the pool is a   *)
(* pool, no longer than it was or than its bound, and a dial leads to      *)
(* peers.                                                                  *)
THEOREM TypeInvariant == Spec => []TypeOK
<1>1. IInv => TypeOK
  BY DEF IInv
<1>2. QED BY <1>1, Invariance, PTL

(* connect implements its promise: whatever the hub answers and the dials  *)
(* do, it concludes in one of the outcomes of ConnectOutcome, pool         *)
(* included, and shows nothing of its pool before.                         *)
THEOREM Implementation == Spec => Implements
<1>1. Init => Promise!Init
  BY InitPromised
<1>2. IInv /\ [Next]_vars => [Promise!Conclude]_(Promise!vars)
  BY StepPromised
<1>3. Spec => Promise!Init /\ [][Promise!Conclude]_(Promise!vars)
  BY <1>1, <1>2, Invariance, PTL DEF Spec
<1>4. QED BY <1>3 DEF Implements, Promise!Safe

(* In a steady world connect_pinned adopts the first pinned peer that can  *)
(* be reached, and a hard pin gives up rather than take another.           *)
THEOREM PinnedFirst == Spec => []PinnedPreference
<1>1. IInv => PinnedPreference
  BY DEF IInv, Preferences
<1>2. QED BY <1>1, Invariance, PTL

(* In a steady world connect_discovered returns to the first known exit    *)
(* that can be reached, and discovers one only when none can.              *)
THEOREM StickyFirst == Spec => []StickyPreference
<1>1. IInv => StickyPreference
  BY DEF IInv, Preferences
<1>2. QED BY <1>1, Invariance, PTL

(* In a steady world connect_sticky_pool forgets no member that can be     *)
(* reached, unless to make room for the exit adopted.                      *)
THEOREM NothingPrunedInVain == Spec => []ReachableMembersKept
<1>1. IInv => ReachableMembersKept
  BY DEF IInv, Preferences
<1>2. QED BY <1>1, Invariance, PTL
=============================================================================
