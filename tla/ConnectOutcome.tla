--------------------------- MODULE ConnectOutcome ---------------------------
(***************************************************************************)
(* What one bounded effort of ConnectCtx::connect                          *)
(* (crates/core/src/domain/connect.rs) may leave behind, whatever the hub  *)
(* answers and whichever peers can be reached: the exit it adopts, if any, *)
(* and what became of the port's sticky pool.  Connect is the step-by-step *)
(* flow that implements this; Discovery uses it for the effort the         *)
(* discovery actor awaits.                                                 *)
(*                                                                         *)
(* A server is its listen port's configuration:                            *)
(*   pinned    the peers of `destination_peers`, most preferred first      *)
(*   fallback  `fallback_to_discovery`                                     *)
(*   sticky    `sticky`                                                    *)
(*   backoff   `sticky_reconnect` is `with-backoff`                        *)
(*   max       `pool.max_total`                                            *)
(*   fp        the fingerprint of its filters                              *)
(***************************************************************************)
EXTENDS StickyPool

CONSTANTS Peers, NoPeer

Sources == {"pinned", "sticky", "discovered", "none"}

Adopted(p, source, pool) == [peer |-> p, source |-> source, pool |-> pool]

Nothing(pool) == Adopted(NoPeer, "none", pool)

RememberedBy(server, pool, p) ==
  IF server.sticky THEN Remember(pool, server.fp, p, server.max) ELSE pool

(* The first k members were tried in vain and forgotten; the peer that     *)
(* just dropped was passed over and stays.                                 *)
TriedInVain(pool, k, skip) ==
  LET spared == IF \E i \in 1..k : PeerAt(pool, i) = skip
                THEN <<pool.peers[PositionOf(pool, skip)]>> ELSE <<>>
  IN  NonEmpty(pool.fp, spared \o SubSeq(pool.peers, k + 1, Len(pool.peers)))

DiscoveryOutcomes(server, pool) ==
  {Nothing(pool)}
    \cup {Adopted(p, "discovered", RememberedBy(server, pool, p)) : p \in Peers}

(* Members are tried in order; the k-th answers, or none does.             *)
PoolOutcomes(server, pool, skip) ==
  LET opened    == Opened(pool, server.fp)
      size      == Len(opened.peers)
      reachedAt == {k \in 1..size : PeerAt(opened, k) # skip}
      after(k)  == RememberedBy(server, TriedInVain(opened, k - 1, skip), PeerAt(opened, k))
  IN  {Adopted(PeerAt(opened, k), "sticky", after(k)) : k \in reachedAt}
        \cup DiscoveryOutcomes(server, TriedInVain(opened, size, skip))

(* A dropped exit is fought for first when the server is sticky and does   *)
(* not fail fast.                                                          *)
FightsFor(server, avoid) == avoid # NoPeer /\ server.sticky /\ server.backoff

UnpinnedOutcomes(server, pool, avoid) ==
  IF FightsFor(server, avoid)
  THEN {Adopted(avoid, "sticky", RememberedBy(server, pool, avoid))}
         \cup PoolOutcomes(server, Forget(pool, avoid), avoid)
  ELSE IF server.sticky THEN PoolOutcomes(server, pool, avoid)
  ELSE DiscoveryOutcomes(server, pool)

PinnedOutcomes(server, pool) ==
  {Adopted(p, "pinned", pool) : p \in ToSet(server.pinned)}
    \cup (IF server.fallback THEN UnpinnedOutcomes(server, pool, NoPeer) ELSE {Nothing(pool)})

Outcomes(server, pool, avoid) ==
  IF server.pinned = <<>> THEN UnpinnedOutcomes(server, pool, avoid)
                          ELSE PinnedOutcomes(server, pool)
=============================================================================
