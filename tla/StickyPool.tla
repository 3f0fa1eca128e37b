----------------------------- MODULE StickyPool -----------------------------
(***************************************************************************)
(* The remembered exits of one listen port: the operations of StickyState  *)
(* (crates/core/src/domain/sticky.rs) as operators on the port's pool.     *)
(*                                                                         *)
(* A pool is the fingerprint of the filters it was built under and its     *)
(* entries, most recently used first.  An entry is a peer and its          *)
(* remembered direct address.  A port that has no pool holds the pool      *)
(* Absent.  Time stamps are left out: nothing reads them.                  *)
(*                                                                         *)
(* The code searches a pool with `find`, `position` and `retain`; all of   *)
(* them select the same entry when no peer occurs twice, which             *)
(* WellFormed states and the operators preserve.                           *)
(***************************************************************************)
EXTENDS SequencesExt

NoAddress == "no address"

(* The fields of a fingerprint, see Filters.                               *)
Fingerprints == Seq(STRING)

Absent == [fp |-> <<"absent">>, peers |-> <<>>]

Entries(Peer, Address) == [peer : Peer, addr : Address \cup {NoAddress}]

PoolsOver(Peer, Address, Fingerprint) ==
  [fp : Fingerprint \cup {Absent.fp}, peers : Seq(Entries(Peer, Address))]

PeerAt(pool, i) == pool.peers[i].peer

Remembers(pool, p) == \E i \in DOMAIN pool.peers : PeerAt(pool, i) = p

PositionOf(pool, p) == CHOOSE i \in DOMAIN pool.peers : PeerAt(pool, i) = p

(* `pool`, `snapshot`: the members as another filter sees them, none when  *)
(* the pool was built under different filters.                             *)
MembersFor(pool, fp) ==
  IF pool.fp = fp THEN [i \in DOMAIN pool.peers |-> PeerAt(pool, i)] ELSE <<>>

(* `pool` also drops a pool that was built under different filters.        *)
Opened(pool, fp) == IF pool.fp = fp THEN pool ELSE Absent

DirectAddress(pool, p) ==
  IF Remembers(pool, p) THEN pool.peers[PositionOf(pool, p)].addr ELSE NoAddress

Without(pool, p) ==
  IF Remembers(pool, p) THEN RemoveAt(pool.peers, PositionOf(pool, p)) ELSE pool.peers

(* A pool whose last peer goes is removed from the map.                    *)
NonEmpty(fp, peers) == IF peers = <<>> THEN Absent ELSE [fp |-> fp, peers |-> peers]

Forget(pool, p) == NonEmpty(pool.fp, Without(pool, p))

AtLeastOne(max) == IF max < 1 THEN 1 ELSE max

(* A slip: the entry p had is left where it was.                           *)
RememberTwice(pool, fp, p, max) ==
  LET kept == Opened(pool, fp)
  IN  [fp |-> fp, peers |-> <<[peer |-> p, addr |-> DirectAddress(kept, p)]>> \o kept.peers]

(* `remember`: p moves or enters to the front and keeps its address; a     *)
(* pool built under other filters is emptied first; the oldest entry past  *)
(* the bound is dropped.                                                   *)
Remember(pool, fp, p, max) ==
  LET kept   == Opened(pool, fp)
      ranked == <<[peer |-> p, addr |-> DirectAddress(kept, p)]>> \o Without(kept, p)
  IN  [fp    |-> fp,
       peers |-> SubSeq(ranked, 1, IF Len(ranked) > AtLeastOne(max)
                                   THEN AtLeastOne(max) ELSE Len(ranked))]

(* `note_direct_address`: existing entries only.                           *)
NoteDirect(pool, p, a) ==
  [pool EXCEPT !.peers = [i \in DOMAIN pool.peers |->
     IF PeerAt(pool, i) = p THEN [peer |-> p, addr |-> a] ELSE pool.peers[i]]]

(* No peer twice; no pool without peers.                                   *)
WellFormed(pool) ==
  /\ \A i, j \in DOMAIN pool.peers : PeerAt(pool, i) = PeerAt(pool, j) => i = j
  /\ pool.peers = <<>> => pool = Absent

(* A pool loaded under a larger bound keeps its size until a peer enters.  *)
Bounded(pool, max) == Len(pool.peers) <= AtLeastOne(max)
=============================================================================
