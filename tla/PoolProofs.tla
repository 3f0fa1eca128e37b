----------------------------- MODULE PoolProofs -----------------------------
(***************************************************************************)
(* What the operations on a sticky pool preserve, for every set of peers,  *)
(* addresses and fingerprints and every bound: a pool stays a pool, no     *)
(* peer enters it twice, and a pool is never left empty.  Then every       *)
(* outcome of a connection effort, for every server and pool: the exit is  *)
(* a peer or none, and what is left of the sticky pool is a pool.          *)
(***************************************************************************)
EXTENDS ConnectOutcome, SequenceTheorems, TLAPS


Distinct(s) == \A i, j \in DOMAIN s : s[i].peer = s[j].peer => i = j

Lacks(s, p) == \A i \in DOMAIN s : s[i].peer # p

(* RemoveAt shifts what follows the removed element down by one: what      *)
(* Vec::remove does in remember and forget_peer.                           *)
LEMMA RemoveAtProperties ==
  ASSUME NEW S, NEW s \in Seq(S), NEW k \in 1..Len(s)
  PROVE  /\ RemoveAt(s, k) \in Seq(S)
         /\ Len(RemoveAt(s, k)) = Len(s) - 1
         /\ \A i \in 1..(Len(s) - 1) : RemoveAt(s, k)[i] = IF i < k THEN s[i] ELSE s[i + 1]
<1> DEFINE left == SubSeq(s, 1, k - 1)
           right == SubSeq(s, k + 1, Len(s))
<1>1. Len(s) \in Nat /\ \A i \in 1..Len(s) : s[i] \in S
  BY LenProperties, ElementOfSeq
<1>2. /\ left \in Seq(S)
      /\ Len(left) = k - 1
      /\ \A i \in 1..(k - 1) : left[i] = s[i]
  <2>1. \A i \in 1..(k - 1) : s[i] \in S
    BY <1>1
  <2> HIDE DEF left
  <2>2. QED BY <2>1, <1>1, SubSeqProperties, SMT DEF left
<1>3. /\ right \in Seq(S)
      /\ Len(right) = Len(s) - k
      /\ \A i \in 1..(Len(s) - k) : right[i] = s[k + i]
  <2>1. \A i \in (k + 1)..Len(s) : s[i] \in S
    BY <1>1
  <2> HIDE DEF right
  <2>2. QED BY <2>1, <1>1, SubSeqProperties, SMT DEF right
<1> HIDE DEF left, right
<1>4. RemoveAt(s, k) = left \o right
  BY DEF RemoveAt, left, right
<1>5. /\ left \o right \in Seq(S)
      /\ Len(left \o right) = Len(left) + Len(right)
      /\ \A i \in 1..(Len(left) + Len(right)) :
           (left \o right)[i] = IF i <= Len(left) THEN left[i] ELSE right[i - Len(left)]
  BY <1>2, <1>3, ConcatProperties
<1>6. QED
  BY <1>1, <1>2, <1>3, <1>4, <1>5

(* What Without is for: one entry goes, the rest keep their order, and the *)
(* peer it named is no longer there.                                       *)
LEMMA WithoutProperties ==
  ASSUME NEW E, NEW pool, pool.peers \in Seq(E), Distinct(pool.peers), NEW p
  PROVE  /\ Without(pool, p) \in Seq(E)
         /\ Distinct(Without(pool, p))
         /\ Lacks(Without(pool, p), p)
<1> DEFINE s == pool.peers
<1>1. s \in Seq(E) /\ Len(s) \in Nat /\ DOMAIN s = 1..Len(s)
  BY LenProperties
<1>2. CASE ~Remembers(pool, p)
  BY <1>1, <1>2 DEF Without, Remembers, PeerAt, Distinct, Lacks
<1>3. CASE Remembers(pool, p)
  <2> DEFINE k == PositionOf(pool, p)
             t == RemoveAt(s, k)
  <2>1. k \in DOMAIN s /\ s[k].peer = p
    BY <1>3 DEF PositionOf, Remembers, PeerAt
  <2>2. k \in 1..Len(s)
    BY <1>1, <2>1
  <2> HIDE DEF k, s
  <2>3. /\ t \in Seq(E)
        /\ Len(t) = Len(s) - 1
        /\ \A i \in 1..(Len(s) - 1) : t[i] = IF i < k THEN s[i] ELSE s[i + 1]
    BY <1>1, <2>2, RemoveAtProperties
  <2> HIDE DEF t
  <2>4. DOMAIN t = 1..(Len(s) - 1)
    BY <1>1, <2>3, LenProperties
  <2>5. \A i \in DOMAIN t : \E n \in DOMAIN s : t[i] = s[n] /\ n # k /\ n = IF i < k THEN i ELSE i + 1
    BY <1>1, <2>2, <2>3, <2>4
  <2>6. Distinct(s)
    BY DEF s
  <2>7. Lacks(t, p)
    BY <2>1, <2>5, <2>6 DEF Lacks, Distinct
  <2>8. Distinct(t)
    <3> SUFFICES ASSUME NEW i \in DOMAIN t, NEW j \in DOMAIN t, t[i].peer = t[j].peer
                 PROVE  i = j
      BY DEF Distinct
    <3>1. PICK m \in DOMAIN s : t[i] = s[m] /\ m = IF i < k THEN i ELSE i + 1
      BY <2>5
    <3>2. PICK n \in DOMAIN s : t[j] = s[n] /\ n = IF j < k THEN j ELSE j + 1
      BY <2>5
    <3>3. m = n
      BY <2>6, <3>1, <3>2 DEF Distinct
    <3>4. QED BY <1>1, <2>2, <2>4, <3>1, <3>2, <3>3
  <2>9. Without(pool, p) = t
    BY <1>3 DEF Without, t, s, k
  <2>10. QED BY <2>3, <2>7, <2>8, <2>9
<1>4. QED BY <1>2, <1>3

(* A peer that is not in the list may enter it at the front.               *)
LEMMA FrontProperties ==
  ASSUME NEW E, NEW s \in Seq(E), Distinct(s), NEW e \in E, Lacks(s, e.peer)
  PROVE  /\ <<e>> \o s \in Seq(E)
         /\ Distinct(<<e>> \o s)
         /\ Len(<<e>> \o s) = Len(s) + 1
<1> DEFINE t == <<e>> \o s
<1>1. Len(s) \in Nat /\ DOMAIN s = 1..Len(s)
  BY LenProperties
<1>2. <<e>> \in Seq(E) /\ Len(<<e>>) = 1 /\ <<e>>[1] = e
  OBVIOUS
<1>3. /\ t \in Seq(E)
      /\ Len(t) = Len(s) + 1
      /\ \A i \in 1..(Len(s) + 1) : t[i] = IF i = 1 THEN e ELSE s[i - 1]
  <2>1. /\ t \in Seq(E)
        /\ Len(t) = Len(<<e>>) + Len(s)
        /\ \A i \in 1..(Len(<<e>>) + Len(s)) :
             t[i] = IF i <= Len(<<e>>) THEN <<e>>[i] ELSE s[i - Len(<<e>>)]
    BY <1>2, ConcatProperties
  <2> HIDE DEF t
  <2>2. QED BY <1>1, <1>2, <2>1
<1> HIDE DEF t
<1>4. DOMAIN t = 1..(Len(s) + 1)
  BY <1>1, <1>3, LenProperties
<1>5. Distinct(t)
  <2> SUFFICES ASSUME NEW i \in 1..(Len(s) + 1), NEW j \in 1..(Len(s) + 1), t[i].peer = t[j].peer
               PROVE  i = j
    BY <1>4 DEF Distinct
  <2>1. \A n \in 2..(Len(s) + 1) : n - 1 \in DOMAIN s /\ t[n] = s[n - 1]
    BY <1>1, <1>3
  <2>2. t[1] = e
    BY <1>1, <1>3
  <2>3. CASE i = 1 \/ j = 1
    BY <1>1, <2>1, <2>2, <2>3 DEF Lacks
  <2>4. CASE i # 1 /\ j # 1
    <3>1. i \in 2..(Len(s) + 1) /\ j \in 2..(Len(s) + 1)
      BY <1>1, <2>4
    <3> DEFINE m == i - 1
               n == j - 1
    <3>2. m \in DOMAIN s /\ n \in DOMAIN s /\ t[i] = s[m] /\ t[j] = s[n]
      BY <2>1, <3>1
    <3> HIDE DEF m, n
    <3>3. m = n
      BY <3>2 DEF Distinct
    <3>4. QED BY <1>1, <3>1, <3>3 DEF m, n
  <2>5. QED BY <2>3, <2>4
<1>6. QED BY <1>3, <1>5 DEF t

(* A stretch of the list is such a list, and holds nobody from before it.  *)
LEMMA StretchProperties ==
  ASSUME NEW E, NEW s \in Seq(E), Distinct(s),
         NEW m \in 1..(Len(s) + 1), NEW n \in (m - 1)..Len(s)
  PROVE  /\ SubSeq(s, m, n) \in Seq(E)
         /\ Len(SubSeq(s, m, n)) = n - m + 1
         /\ Distinct(SubSeq(s, m, n))
         /\ \A i \in 1..(m - 1) : Lacks(SubSeq(s, m, n), s[i].peer)
<1> DEFINE t == SubSeq(s, m, n)
<1>1. Len(s) \in Nat /\ DOMAIN s = 1..Len(s) /\ \A i \in 1..Len(s) : s[i] \in E
  BY LenProperties, ElementOfSeq
<1>2. /\ t \in Seq(E)
      /\ Len(t) = n - m + 1
      /\ \A i \in 1..(n - m + 1) : t[i] = s[m + i - 1]
  <2>1. \A i \in m..n : s[i] \in E
    BY <1>1
  <2>2. m \in Int /\ n \in Int /\ m <= n + 1
    BY <1>1
  <2> HIDE DEF t
  <2>3. QED BY <1>1, <2>1, <2>2, SubSeqProperties, SMT DEF t
<1> HIDE DEF t
<1>3. DOMAIN t = 1..(n - m + 1)
  BY <1>1, <1>2, LenProperties
<1>4. \A i \in DOMAIN t : m + i - 1 \in DOMAIN s /\ t[i] = s[m + i - 1]
  BY <1>1, <1>2, <1>3
<1>5. Distinct(t)
  <2> SUFFICES ASSUME NEW i \in DOMAIN t, NEW j \in DOMAIN t, t[i].peer = t[j].peer
               PROVE  i = j
    BY DEF Distinct
  <2>1. m + i - 1 = m + j - 1
    BY <1>4 DEF Distinct
  <2>2. QED BY <1>1, <1>3, <2>1
<1>6. \A i \in 1..(m - 1) : Lacks(t, s[i].peer)
  <2> SUFFICES ASSUME NEW i \in 1..(m - 1), NEW j \in DOMAIN t, t[j].peer = s[i].peer
               PROVE  FALSE
    BY DEF Lacks
  <2>1. i \in DOMAIN s /\ m + j - 1 \in DOMAIN s /\ i # m + j - 1
    BY <1>1, <1>3, <1>4
  <2>2. QED BY <1>4, <2>1 DEF Distinct
<1>7. QED BY <1>2, <1>5, <1>6 DEF t

(* The pools the program may hold.                                         *)
IsPool(pool, Peer, Address, Fingerprint) ==
  pool \in PoolsOver(Peer, Address, Fingerprint) /\ WellFormed(pool)

LEMMA PoolFacts ==
  ASSUME NEW Peer, NEW Address, NEW Fingerprint, NEW pool,
         IsPool(pool, Peer, Address, Fingerprint)
  PROVE  /\ pool.peers \in Seq(Entries(Peer, Address))
         /\ Len(pool.peers) \in Nat
         /\ DOMAIN pool.peers = 1..Len(pool.peers)
         /\ \A i \in DOMAIN pool.peers :
              /\ pool.peers[i] \in Entries(Peer, Address)
              /\ pool.peers[i].peer \in Peer
              /\ pool.peers[i].addr \in Address \cup {NoAddress}
         /\ Distinct(pool.peers)
         /\ pool.fp \in Fingerprint \cup {Absent.fp}
         /\ pool.peers = <<>> => pool = Absent
<1>1. pool.peers \in Seq(Entries(Peer, Address)) /\ pool.fp \in Fingerprint \cup {Absent.fp}
  BY DEF IsPool, PoolsOver
<1>2. /\ Len(pool.peers) \in Nat
      /\ DOMAIN pool.peers = 1..Len(pool.peers)
      /\ \A i \in 1..Len(pool.peers) : pool.peers[i] \in Entries(Peer, Address)
  BY <1>1, LenProperties, ElementOfSeq
<1>3. \A e \in Entries(Peer, Address) : e.peer \in Peer /\ e.addr \in Address \cup {NoAddress}
  BY DEF Entries
<1>4. Distinct(pool.peers) /\ (pool.peers = <<>> => pool = Absent)
  BY DEF IsPool, WellFormed, Distinct, PeerAt
<1>5. QED BY <1>1, <1>2, <1>3, <1>4

LEMMA AbsentIsPool ==
  ASSUME NEW Peer, NEW Address, NEW Fingerprint
  PROVE  IsPool(Absent, Peer, Address, Fingerprint)
<1>1. <<>> \in Seq(Entries(Peer, Address))
  BY EmptySeq
<1>2. QED BY <1>1 DEF IsPool, PoolsOver, WellFormed, Absent

(* A filter that holds no peer twice is a pool, or is dropped from the map.*)
LEMMA NonEmptyIsPool ==
  ASSUME NEW Peer, NEW Address, NEW Fingerprint,
         NEW fp \in Fingerprint \cup {Absent.fp},
         NEW peers \in Seq(Entries(Peer, Address)), Distinct(peers)
  PROVE  IsPool(NonEmpty(fp, peers), Peer, Address, Fingerprint)
<1>1. CASE peers = <<>>
  BY <1>1, AbsentIsPool DEF NonEmpty
<1>2. CASE peers # <<>>
  BY <1>2 DEF NonEmpty, IsPool, PoolsOver, WellFormed, Distinct, PeerAt
<1>3. QED BY <1>1, <1>2

(* `pool`: it stays, or it goes with the filters it was built under.       *)
LEMMA OpenedIsPool ==
  ASSUME NEW Peer, NEW Address, NEW Fingerprint, NEW pool,
         IsPool(pool, Peer, Address, Fingerprint), NEW fp
  PROVE  IsPool(Opened(pool, fp), Peer, Address, Fingerprint)
BY AbsentIsPool DEF Opened

(* `forget_peer` keeps a pool a pool.                                      *)
LEMMA ForgetIsPool ==
  ASSUME NEW Peer, NEW Address, NEW Fingerprint, NEW pool,
         IsPool(pool, Peer, Address, Fingerprint), NEW p
  PROVE  IsPool(Forget(pool, p), Peer, Address, Fingerprint)
<1>1. Without(pool, p) \in Seq(Entries(Peer, Address)) /\ Distinct(Without(pool, p))
  BY PoolFacts, WithoutProperties
<1>2. pool.fp \in Fingerprint \cup {Absent.fp}
  BY PoolFacts
<1>3. QED BY <1>1, <1>2, NonEmptyIsPool DEF Forget

LEMMA DirectAddressType ==
  ASSUME NEW Peer, NEW Address, NEW Fingerprint, NEW pool,
         IsPool(pool, Peer, Address, Fingerprint), NEW p
  PROVE  DirectAddress(pool, p) \in Address \cup {NoAddress}
<1>1. CASE ~Remembers(pool, p)
  BY <1>1 DEF DirectAddress
<1>2. CASE Remembers(pool, p)
  <2>1. PositionOf(pool, p) \in DOMAIN pool.peers
    BY <1>2 DEF PositionOf, Remembers
  <2>2. pool.peers[PositionOf(pool, p)].addr \in Address \cup {NoAddress}
    BY <2>1, PoolFacts
  <2>3. QED BY <1>2, <2>2 DEF DirectAddress
<1>3. QED BY <1>1, <1>2

(* `remember`, for any bound: still a pool, with p in front, under the     *)
(* fingerprint asked for and no longer than the bound.                     *)
LEMMA RememberProperties ==
  ASSUME NEW Peer, NEW Address, NEW Fingerprint, NEW pool,
         IsPool(pool, Peer, Address, Fingerprint),
         NEW fp \in Fingerprint, NEW p \in Peer, NEW max \in Nat
  PROVE  /\ IsPool(Remember(pool, fp, p, max), Peer, Address, Fingerprint)
         /\ Remember(pool, fp, p, max).fp = fp
         /\ Bounded(Remember(pool, fp, p, max), max)
         /\ Remembers(Remember(pool, fp, p, max), p)
         /\ PositionOf(Remember(pool, fp, p, max), p) = 1
<1> DEFINE E      == Entries(Peer, Address)
           kept   == Opened(pool, fp)
           entry  == [peer |-> p, addr |-> DirectAddress(kept, p)]
           rest   == Without(kept, p)
           ranked == <<entry>> \o rest
           size   == IF Len(ranked) > AtLeastOne(max) THEN AtLeastOne(max) ELSE Len(ranked)
           cut    == SubSeq(ranked, 1, size)
           new    == [fp |-> fp, peers |-> cut]
<1>1. IsPool(kept, Peer, Address, Fingerprint)
  BY OpenedIsPool
<1>2. entry \in E /\ entry.peer = p
  BY <1>1, DirectAddressType DEF Entries
<1>3. rest \in Seq(E) /\ Distinct(rest) /\ Lacks(rest, p)
  BY <1>1, PoolFacts, WithoutProperties
<1> HIDE DEF kept, entry, rest, E
<1>4. /\ ranked \in Seq(E) /\ Distinct(ranked)
      /\ Len(ranked) = Len(rest) + 1
  BY <1>2, <1>3, FrontProperties
<1>5. Len(rest) \in Nat
  BY <1>3, LenProperties
<1>6. ranked[1] = entry
  <2>1. <<entry>> \in Seq(E) /\ Len(<<entry>>) = 1 /\ <<entry>>[1] = entry
    BY <1>2
  <2>2. QED BY <1>3, <1>5, <2>1, ConcatProperties
<1> HIDE DEF ranked
<1>7. AtLeastOne(max) \in Nat /\ 1 <= AtLeastOne(max)
  BY DEF AtLeastOne
<1>8. size \in 1..Len(ranked) /\ size <= AtLeastOne(max)
  BY <1>4, <1>5, <1>7
<1> HIDE DEF size
<1>9. 1 \in 1..(Len(ranked) + 1) /\ size \in (1 - 1)..Len(ranked)
  BY <1>4, <1>5, <1>8
<1>10. cut \in Seq(E) /\ Len(cut) = size - 1 + 1 /\ Distinct(cut)
  BY <1>4, <1>9, StretchProperties
<1>11. Len(cut) = size
  BY <1>5, <1>4, <1>8, <1>10
<1>12. cut[1] = entry
  <2>1. \A i \in 1..size : ranked[i] \in E
    BY <1>4, <1>5, <1>8, ElementOfSeq
  <2>2. size \in Int /\ 1 \in 1..(size - 1 + 1)
    BY <1>4, <1>5, <1>8
  <2>3. \A i \in 1..(size - 1 + 1) : cut[i] = ranked[1 + i - 1]
    BY <2>1, <2>2, SubSeqProperties
  <2> HIDE DEF cut
  <2>4. cut[1] = ranked[1]
    BY <2>2, <2>3
  <2>5. QED BY <1>6, <2>4
<1> HIDE DEF cut
<1>13. DOMAIN cut = 1..size /\ 1 \in DOMAIN cut
  BY <1>4, <1>5, <1>8, <1>10, <1>11, LenProperties
<1>14. cut # <<>>
  <2>1. Len(<<>>) = 0
    BY EmptySeq
  <2>2. Len(cut) # 0
    BY <1>8, <1>11
  <2>3. QED BY <2>1, <2>2
<1>15. Remember(pool, fp, p, max) = new
  BY DEF Remember, cut, size, ranked, rest, entry, kept
<1>16. IsPool(new, Peer, Address, Fingerprint)
  BY <1>10, <1>14 DEF IsPool, PoolsOver, WellFormed, Distinct, PeerAt, E
<1>17. Bounded(new, max)
  BY <1>8, <1>11 DEF Bounded
<1>18. Remembers(new, p)
  BY <1>2, <1>12, <1>13 DEF Remembers, PeerAt
<1>19. PositionOf(new, p) = 1
  <2>1. \A i \in DOMAIN cut : cut[i].peer = p => i = 1
    BY <1>2, <1>10, <1>12, <1>13 DEF Distinct
  <2>2. PositionOf(new, p) \in DOMAIN cut /\ cut[PositionOf(new, p)].peer = p
    BY <1>18 DEF PositionOf, Remembers, PeerAt
  <2>3. QED BY <2>1, <2>2
<1>20. QED BY <1>15, <1>16, <1>17, <1>18, <1>19

(* `note_direct_address` changes addresses only: same peers, same places.  *)
LEMMA NoteDirectProperties ==
  ASSUME NEW Peer, NEW Address, NEW Fingerprint, NEW pool,
         IsPool(pool, Peer, Address, Fingerprint), NEW p \in Peer, NEW a \in Address
  PROVE  /\ IsPool(NoteDirect(pool, p, a), Peer, Address, Fingerprint)
         /\ NoteDirect(pool, p, a).fp = pool.fp
         /\ DOMAIN NoteDirect(pool, p, a).peers = DOMAIN pool.peers
         /\ \A i \in DOMAIN pool.peers : PeerAt(NoteDirect(pool, p, a), i) = PeerAt(pool, i)
<1> DEFINE E     == Entries(Peer, Address)
           noted == [i \in DOMAIN pool.peers |->
                       IF PeerAt(pool, i) = p THEN [peer |-> p, addr |-> a] ELSE pool.peers[i]]
           new   == NoteDirect(pool, p, a)
<1>1. /\ Len(pool.peers) \in Nat /\ DOMAIN pool.peers = 1..Len(pool.peers)
      /\ \A i \in DOMAIN pool.peers : pool.peers[i] \in E
      /\ Distinct(pool.peers) /\ (pool.peers = <<>> => pool = Absent)
  BY PoolFacts
<1>2. [peer |-> p, addr |-> a] \in E
  BY DEF Entries
<1>3. /\ DOMAIN noted = DOMAIN pool.peers
      /\ \A i \in DOMAIN pool.peers : noted[i] \in E /\ noted[i].peer = pool.peers[i].peer
  BY <1>1, <1>2 DEF PeerAt
<1>4. noted \in Seq(E)
  <2>1. noted \in [1..Len(pool.peers) -> E]
    BY <1>1, <1>2
  <2>2. QED BY <1>1, <2>1
<1>5. new = [fp |-> pool.fp, peers |-> noted]
  <2>1. pool = [fp |-> pool.fp, peers |-> pool.peers]
    BY DEF IsPool, PoolsOver
  <2>2. QED BY <2>1 DEF NoteDirect
<1> HIDE DEF noted
<1>6. noted = <<>> => new = Absent
  <2>1. ASSUME noted = <<>> PROVE pool.peers = <<>>
    <3>1. DOMAIN pool.peers = {}
      BY <1>3, <2>1
    <3>2. Len(pool.peers) = 0
      BY <1>1, <3>1
    <3>3. QED BY <3>2, EmptySeq, PoolFacts
  <2>2. QED BY <1>1, <1>5, <2>1 DEF Absent
<1>7. WellFormed(new)
  BY <1>1, <1>3, <1>5, <1>6 DEF WellFormed, PeerAt, Distinct
<1>8. new \in PoolsOver(Peer, Address, Fingerprint)
  BY <1>4, <1>5, PoolFacts DEF PoolsOver
<1>9. QED BY <1>3, <1>5, <1>7, <1>8 DEF IsPool, PeerAt

(* The peer a pool tries first.                                            *)
Fronted(pool, p) == 1 \in DOMAIN pool.peers /\ PeerAt(pool, 1) = p

LEMMA FrontedPosition ==
  ASSUME NEW Peer, NEW Address, NEW Fingerprint, NEW pool,
         IsPool(pool, Peer, Address, Fingerprint), NEW p
  PROVE  Fronted(pool, p) <=> Remembers(pool, p) /\ PositionOf(pool, p) = 1
<1>1. ASSUME Fronted(pool, p) PROVE Remembers(pool, p) /\ PositionOf(pool, p) = 1
  <2>1. PositionOf(pool, p) \in DOMAIN pool.peers /\ PeerAt(pool, PositionOf(pool, p)) = p
    BY <1>1 DEF Fronted, PositionOf
  <2>2. QED BY <1>1, <2>1, PoolFacts DEF Fronted, Remembers, Distinct, PeerAt
<1>2. ASSUME Remembers(pool, p), PositionOf(pool, p) = 1 PROVE Fronted(pool, p)
  <2>1. PositionOf(pool, p) \in DOMAIN pool.peers /\ PeerAt(pool, PositionOf(pool, p)) = p
    BY <1>2 DEF Remembers, PositionOf
  <2>2. QED BY <1>2, <2>1 DEF Fronted
<1>3. QED BY <1>1, <1>2

(* Forgetting another peer leaves the front of the pool as it is.          *)
LEMMA ForgetKeepsFront ==
  ASSUME NEW Peer, NEW Address, NEW Fingerprint, NEW pool,
         IsPool(pool, Peer, Address, Fingerprint), NEW p, Fronted(pool, p), NEW q, q # p
  PROVE  /\ Forget(pool, q).fp = pool.fp
         /\ Fronted(Forget(pool, q), p)
         /\ Len(Forget(pool, q).peers) <= Len(pool.peers)
<1> DEFINE E == Entries(Peer, Address)
           s == pool.peers
           t == Without(pool, q)
<1>1. s \in Seq(E) /\ Len(s) \in Nat /\ DOMAIN s = 1..Len(s)
  BY PoolFacts
<1>2. 1 \in DOMAIN s /\ s[1].peer = p
  BY DEF Fronted, PeerAt
<1>3. 1 \in DOMAIN t /\ t[1] = s[1] /\ Len(t) <= Len(s)
  <2>1. CASE ~Remembers(pool, q)
    BY <1>1, <1>2, <2>1 DEF Without
  <2>2. CASE Remembers(pool, q)
    <3> DEFINE k == PositionOf(pool, q)
    <3>1. k \in DOMAIN s /\ s[k].peer = q
      BY <2>2 DEF PositionOf, Remembers, PeerAt
    <3>2. k \in 2..Len(s)
      BY <1>1, <1>2, <3>1
    <3> HIDE DEF k, s
    <3>3. /\ RemoveAt(s, k) \in Seq(E)
          /\ Len(RemoveAt(s, k)) = Len(s) - 1
          /\ RemoveAt(s, k)[1] = s[1]
      <4>1. k \in 1..Len(s) /\ 1 \in 1..(Len(s) - 1) /\ 1 < k
        BY <1>1, <3>2
      <4>2. QED BY <1>1, <4>1, RemoveAtProperties
    <3>4. DOMAIN RemoveAt(s, k) = 1..(Len(s) - 1)
      BY <3>3, LenProperties
    <3>5. t = RemoveAt(s, k)
      BY <2>2 DEF Without, k, s
    <3> HIDE DEF t
    <3>6. QED BY <1>1, <3>2, <3>3, <3>4, <3>5
  <2>3. QED BY <2>1, <2>2
<1>4. t # <<>>
  BY <1>3, EmptySeq
<1>5. Forget(pool, q) = [fp |-> pool.fp, peers |-> t]
  BY <1>4 DEF Forget, NonEmpty
<1>6. QED BY <1>2, <1>3, <1>5 DEF Fronted, PeerAt
-----------------------------------------------------------------------------
(* Taking a peer out of a pool brings none in.                             *)
LEMMA WithoutWithin ==
  ASSUME NEW Peer, NEW Address, NEW Fingerprint, NEW pool,
         IsPool(pool, Peer, Address, Fingerprint), NEW p, NEW q
  PROVE  (\E i \in DOMAIN Without(pool, p) : Without(pool, p)[i].peer = q) => Remembers(pool, q)
<1> DEFINE s == pool.peers
           k == PositionOf(pool, p)
<1>1. /\ s \in Seq(Entries(Peer, Address)) /\ Len(s) \in Nat
      /\ DOMAIN s = 1..Len(s)
  BY PoolFacts
<1>2. CASE ~Remembers(pool, p)
  BY <1>2 DEF Without, Remembers, PeerAt
<1>3. CASE Remembers(pool, p)
  <2>1. k \in 1..Len(s)
    BY <1>1, <1>3 DEF PositionOf, Remembers
  <2>2. Without(pool, p) = RemoveAt(s, k)
    BY <1>3 DEF Without
  <2> HIDE DEF k, s
  <2>3. /\ RemoveAt(s, k) \in Seq(Entries(Peer, Address))
        /\ Len(RemoveAt(s, k)) = Len(s) - 1
        /\ \A i \in 1..(Len(s) - 1) : RemoveAt(s, k)[i] = IF i < k THEN s[i] ELSE s[i + 1]
    BY <1>1, <2>1, RemoveAtProperties
  <2>4. DOMAIN RemoveAt(s, k) = 1..(Len(s) - 1)
    BY <2>3, LenProperties
  <2>5. ASSUME NEW i \in 1..(Len(s) - 1)
        PROVE  \E j \in DOMAIN s : RemoveAt(s, k)[i] = s[j]
    <3>1. i \in DOMAIN s /\ i + 1 \in DOMAIN s
      BY <1>1, <2>5
    <3> QED BY <2>3, <2>5, <3>1
  <2> QED BY <2>2, <2>4, <2>5 DEF Remembers, PeerAt, s
<1> QED BY <1>2, <1>3

LEMMA ForgetWithin ==
  ASSUME NEW Peer, NEW Address, NEW Fingerprint, NEW pool,
         IsPool(pool, Peer, Address, Fingerprint), NEW p, NEW q, Remembers(Forget(pool, p), q)
  PROVE  Remembers(pool, q) /\ Forget(pool, p).fp = pool.fp
<1>1. CASE Without(pool, p) = <<>>
  <2>1. Forget(pool, p).peers = <<>>
    BY <1>1 DEF Forget, NonEmpty, Absent
  <2> QED BY <2>1 DEF Remembers
<1>2. CASE Without(pool, p) # <<>>
  <2>1. Forget(pool, p) = [fp |-> pool.fp, peers |-> Without(pool, p)]
    BY <1>2 DEF Forget, NonEmpty
  <2> QED BY <2>1, WithoutWithin DEF Remembers, PeerAt
<1> QED BY <1>1, <1>2

(* Only the peer remembered enters, and the others stay under the same     *)
(* fingerprint or go.                                                      *)
LEMMA RememberWithin ==
  ASSUME NEW Peer, NEW Address, NEW Fingerprint, NEW pool,
         IsPool(pool, Peer, Address, Fingerprint),
         NEW fp \in Fingerprint, NEW p \in Peer, NEW max \in Nat,
         NEW q, q # p, Remembers(Remember(pool, fp, p, max), q)
  PROVE  Remembers(pool, q) /\ pool.fp = fp
<1> DEFINE E      == Entries(Peer, Address)
           kept   == Opened(pool, fp)
           entry  == [peer |-> p, addr |-> DirectAddress(kept, p)]
           rest   == Without(kept, p)
           ranked == <<entry>> \o rest
           size   == IF Len(ranked) > AtLeastOne(max) THEN AtLeastOne(max) ELSE Len(ranked)
           cut    == SubSeq(ranked, 1, size)
<1>1. IsPool(kept, Peer, Address, Fingerprint)
  BY OpenedIsPool
<1>2. entry \in E /\ entry.peer = p
  BY <1>1, DirectAddressType DEF Entries
<1>3. rest \in Seq(E) /\ Distinct(rest) /\ Lacks(rest, p)
  BY <1>1, PoolFacts, WithoutProperties
<1>4. \E i \in DOMAIN cut : cut[i].peer = q
  BY DEF Remember, Remembers, PeerAt
<1>5. (\E i \in DOMAIN rest : rest[i].peer = q) => Remembers(kept, q)
  BY <1>1, WithoutWithin
<1>6. Remembers(kept, q) => Remembers(pool, q) /\ pool.fp = fp
  BY DEF Opened, Absent, Remembers
<1> HIDE DEF kept, entry, rest, E
<1>7. ranked \in Seq(E) /\ Len(ranked) = Len(rest) + 1
  BY <1>2, <1>3, FrontProperties
<1>8. Len(rest) \in Nat /\ DOMAIN rest = 1..Len(rest)
  BY <1>3, LenProperties
<1>9. \A i \in 1..Len(ranked) : ranked[i] = IF i = 1 THEN entry ELSE rest[i - 1]
  <2>1. <<entry>> \in Seq(E) /\ Len(<<entry>>) = 1 /\ <<entry>>[1] = entry
    BY <1>2
  <2>2. \A i \in 1..(1 + Len(rest)) : ranked[i] = IF i <= 1 THEN <<entry>>[i] ELSE rest[i - 1]
    BY <1>3, <2>1, ConcatProperties
  <2> QED BY <1>7, <1>8, <2>1, <2>2
<1> HIDE DEF ranked
<1>10. AtLeastOne(max) \in Nat /\ 1 <= AtLeastOne(max)
  BY DEF AtLeastOne
<1>11. size \in 1..Len(ranked)
  BY <1>7, <1>8, <1>10
<1> HIDE DEF size
<1>12. /\ DOMAIN cut = 1..size
       /\ \A i \in 1..size : cut[i] = ranked[i]
  <2>1. \A i \in 1..size : ranked[i] \in E
    BY <1>7, <1>8, <1>11, ElementOfSeq
  <2>2. size \in Int /\ Len(cut) = size
    BY <1>7, <1>8, <1>11, SubSeqProperties
  <2>3. cut \in Seq(E) /\ \A i \in 1..(size - 1 + 1) : cut[i] = ranked[1 + i - 1]
    BY <1>8, <1>7, <1>11, <2>1, <2>2, SubSeqProperties
  <2> HIDE DEF cut
  <2>4. DOMAIN cut = 1..size
    BY <2>2, <2>3, LenProperties
  <2> QED BY <1>7, <1>8, <1>11, <2>3, <2>4
<1> HIDE DEF cut
<1>13. PICK i \in 1..size : cut[i].peer = q
  BY <1>4, <1>12
<1>14. i # 1 /\ cut[i] = rest[i - 1] /\ i - 1 \in DOMAIN rest
  BY <1>2, <1>7, <1>8, <1>9, <1>11, <1>12, <1>13
<1> QED BY <1>5, <1>6, <1>13, <1>14

(* `forget_peer` takes no other peer with it, and no pool grows by it.     *)
LEMMA ForgetKeeps ==
  ASSUME NEW Peer, NEW Address, NEW Fingerprint, NEW pool,
         IsPool(pool, Peer, Address, Fingerprint), NEW p
  PROVE  /\ \A q : q # p /\ Remembers(pool, q) => Remembers(Forget(pool, p), q)
         /\ Len(Forget(pool, p).peers) <= Len(pool.peers)
<1> DEFINE E == Entries(Peer, Address)
           s == pool.peers
           t == Without(pool, p)
<1>1. s \in Seq(E) /\ Len(s) \in Nat /\ DOMAIN s = 1..Len(s)
  BY PoolFacts
<1>2. /\ t \in Seq(E) /\ Len(t) <= Len(s)
      /\ \A i \in DOMAIN s : s[i].peer # p => \E j \in DOMAIN t : t[j] = s[i]
  <2>1. CASE ~Remembers(pool, p)
    <3>1. t = s
      BY <2>1 DEF Without
    <3>2. QED BY <1>1, <3>1
  <2>2. CASE Remembers(pool, p)
    <3> DEFINE k == PositionOf(pool, p)
    <3>1. k \in 1..Len(s) /\ s[k].peer = p /\ t = RemoveAt(s, k)
      BY <1>1, <2>2 DEF PositionOf, Remembers, PeerAt, Without
    <3> HIDE DEF k, s, t, E
    <3>2. /\ t \in Seq(E) /\ Len(t) = Len(s) - 1
          /\ \A i \in 1..(Len(s) - 1) : t[i] = IF i < k THEN s[i] ELSE s[i + 1]
      BY <1>1, <3>1, RemoveAtProperties
    <3>3. DOMAIN t = 1..(Len(s) - 1)
      BY <1>1, <3>2, LenProperties
    <3>4. ASSUME NEW i \in DOMAIN s, s[i].peer # p PROVE \E j \in DOMAIN t : t[j] = s[i]
      <4>1. i \in 1..Len(s) /\ i # k
        BY <1>1, <3>1, <3>4
      <4>2. CASE i < k
        <5>1. i \in 1..(Len(s) - 1)
          BY <1>1, <3>1, <4>1, <4>2
        <5>2. QED BY <3>2, <3>3, <4>2, <5>1
      <4>3. CASE ~(i < k)
        <5>1. i - 1 \in 1..(Len(s) - 1) /\ ~(i - 1 < k) /\ (i - 1) + 1 = i
          BY <1>1, <3>1, <4>1, <4>3
        <5>2. t[i - 1] = s[i]
          BY <3>2, <5>1
        <5>3. QED BY <3>3, <5>1, <5>2
      <4>4. QED BY <4>2, <4>3
    <3>5. Len(t) <= Len(s)
      BY <1>1, <3>2
    <3>6. QED BY <3>2, <3>4, <3>5
  <2>3. QED BY <2>1, <2>2
<1>3. CASE t = <<>>
  <2>1. Forget(pool, p) = Absent /\ Absent.peers = <<>> /\ Len(<<>>) = 0
    BY <1>3, EmptySeq DEF Forget, NonEmpty, Absent
  <2>2. DOMAIN t = {}
    BY <1>3
  <2>3. \A q : q # p => ~Remembers(pool, q)
    BY <1>2, <2>2 DEF Remembers, PeerAt
  <2>4. QED BY <1>1, <2>1, <2>3
<1>4. CASE t # <<>>
  <2>1. Forget(pool, p).peers = t
    BY <1>4 DEF Forget, NonEmpty
  <2>2. ASSUME NEW q, q # p, Remembers(pool, q) PROVE Remembers(Forget(pool, p), q)
    <3>1. PICK i \in DOMAIN s : s[i].peer = q
      BY <2>2 DEF Remembers, PeerAt
    <3>2. PICK j \in DOMAIN t : t[j] = s[i]
      BY <1>2, <2>2, <3>1
    <3> HIDE DEF s, t
    <3>3. QED BY <2>1, <3>1, <3>2 DEF Remembers, PeerAt
  <2>3. QED BY <1>2, <2>1, <2>2
<1>5. QED BY <1>3, <1>4

(* Whoever leaves a pool when another peer is remembered made room in a    *)
(* full one.                                                               *)
LEMMA RememberKeeps ==
  ASSUME NEW Peer, NEW Address, NEW Fingerprint, NEW pool,
         IsPool(pool, Peer, Address, Fingerprint), NEW p \in Peer, NEW max \in Nat,
         pool.fp \in Fingerprint, NEW q, Remembers(pool, q)
  PROVE  \/ Remembers(Remember(pool, pool.fp, p, max), q)
         \/ Len(Remember(pool, pool.fp, p, max).peers) = AtLeastOne(max)
<1> DEFINE E      == Entries(Peer, Address)
           entry  == [peer |-> p, addr |-> DirectAddress(pool, p)]
           rest   == Without(pool, p)
           ranked == <<entry>> \o rest
           size   == IF Len(ranked) > AtLeastOne(max) THEN AtLeastOne(max) ELSE Len(ranked)
           cut    == SubSeq(ranked, 1, size)
<1>1. entry \in E /\ entry.peer = p
  BY DirectAddressType DEF Entries
<1>2. rest \in Seq(E) /\ Distinct(rest) /\ Lacks(rest, p)
  BY PoolFacts, WithoutProperties
<1>3. Remember(pool, pool.fp, p, max) = [fp |-> pool.fp, peers |-> cut]
  BY DEF Remember, Opened
<1>4. q = p \/ \E i \in DOMAIN rest : rest[i].peer = q
  <2>1. CASE q # p
    <3>1. Remembers(Forget(pool, p), q)
      BY <2>1, ForgetKeeps
    <3>2. Forget(pool, p).peers = IF rest = <<>> THEN <<>> ELSE rest
      BY DEF Forget, NonEmpty, Absent
    <3> HIDE DEF rest
    <3>3. QED BY <3>1, <3>2 DEF Remembers, PeerAt
  <2>2. QED BY <2>1
<1> HIDE DEF entry, rest, E
<1>5. ranked \in Seq(E) /\ Len(ranked) = Len(rest) + 1
  BY <1>1, <1>2, FrontProperties
<1>6. Len(rest) \in Nat /\ DOMAIN rest = 1..Len(rest)
  BY <1>2, LenProperties
<1>7. \A i \in 1..Len(ranked) : ranked[i] = IF i = 1 THEN entry ELSE rest[i - 1]
  <2>1. <<entry>> \in Seq(E) /\ Len(<<entry>>) = 1 /\ <<entry>>[1] = entry
    BY <1>1
  <2>2. \A i \in 1..(1 + Len(rest)) : ranked[i] = IF i <= 1 THEN <<entry>>[i] ELSE rest[i - 1]
    BY <1>2, <2>1, ConcatProperties
  <2>3. QED BY <1>5, <1>6, <2>1, <2>2
<1>8. \E i \in 1..Len(ranked) : ranked[i].peer = q
  <2>1. CASE q = p
    <3>1. 1 \in 1..Len(ranked)
      BY <1>5, <1>6
    <3> HIDE DEF ranked
    <3>2. QED BY <1>1, <1>7, <2>1, <3>1
  <2>2. CASE q # p
    <3>1. PICK i \in DOMAIN rest : rest[i].peer = q
      BY <1>4, <2>2
    <3>2. i + 1 \in 1..Len(ranked) /\ i + 1 # 1 /\ (i + 1) - 1 = i
      BY <1>5, <1>6, <3>1
    <3> HIDE DEF ranked
    <3>3. ranked[i + 1] = rest[i]
      BY <1>7, <3>2
    <3>4. QED BY <3>1, <3>2, <3>3
  <2>3. QED BY <2>1, <2>2
<1> HIDE DEF ranked
<1>9. AtLeastOne(max) \in Nat /\ 1 <= AtLeastOne(max)
  BY DEF AtLeastOne
<1>10. size \in 1..Len(ranked) /\ (size = Len(ranked) \/ size = AtLeastOne(max))
  BY <1>5, <1>6, <1>9
<1> HIDE DEF size
<1>11. Len(cut) = size /\ DOMAIN cut = 1..size /\ \A i \in 1..size : cut[i] = ranked[i]
  <2>1. \A i \in 1..size : ranked[i] \in E
    BY <1>5, <1>6, <1>10, ElementOfSeq
  <2>2. size \in Int /\ Len(cut) = size
    BY <1>5, <1>6, <1>10, <2>1, SubSeqProperties
  <2>3. cut \in Seq(E) /\ \A i \in 1..(size - 1 + 1) : cut[i] = ranked[1 + i - 1]
    BY <1>5, <1>6, <1>10, <2>1, <2>2, SubSeqProperties
  <2> HIDE DEF cut
  <2>4. DOMAIN cut = 1..size
    BY <2>2, <2>3, LenProperties
  <2>5. QED BY <1>5, <1>6, <1>10, <2>2, <2>3, <2>4
<1> HIDE DEF cut
<1>12. CASE size = AtLeastOne(max)
  BY <1>3, <1>11, <1>12
<1>13. CASE size = Len(ranked)
  BY <1>3, <1>8, <1>11, <1>13 DEF Remembers, PeerAt
<1>14. QED BY <1>10, <1>12, <1>13
-----------------------------------------------------------------------------

Configured(server, Fingerprint) ==
  /\ server.pinned \in Seq(Peers) /\ server.max \in Nat /\ server.fp \in Fingerprint
  /\ {server.fallback, server.sticky, server.backoff} \subseteq BOOLEAN

(* connect_sticky_pool forgets the members it tried in vain, one by one;   *)
(* the peer that just dropped keeps its entry.                             *)
LEMMA TriedInVainIsPool ==
  ASSUME NEW Address, NEW Fingerprint, NEW pool,
         IsPool(pool, Peers, Address, Fingerprint),
         NEW k \in 0..Len(pool.peers), NEW skip
  PROVE  IsPool(TriedInVain(pool, k, skip), Peers, Address, Fingerprint)
<1> DEFINE E == Entries(Peers, Address)
           s == pool.peers
           tail == SubSeq(s, k + 1, Len(s))
           q == PositionOf(pool, skip)
           spared == IF \E i \in 1..k : PeerAt(pool, i) = skip THEN <<s[q]>> ELSE <<>>
<1>1. /\ s \in Seq(E) /\ Len(s) \in Nat /\ DOMAIN s = 1..Len(s) /\ Distinct(s)
      /\ \A i \in DOMAIN s : s[i] \in E
      /\ pool.fp \in Fingerprint \cup {Absent.fp}
  BY PoolFacts
<1> HIDE DEF s
<1>2. /\ tail \in Seq(E) /\ Distinct(tail)
      /\ \A i \in 1..k : Lacks(tail, s[i].peer)
  <2>1. k + 1 \in 1..(Len(s) + 1) /\ Len(s) \in (k + 1 - 1)..Len(s) /\ k + 1 - 1 = k
    BY <1>1 DEF s
  <2>2. QED BY <1>1, <2>1, StretchProperties
<1> HIDE DEF tail
<1>3. spared \o tail \in Seq(E) /\ Distinct(spared \o tail)
  <2>1. CASE \E i \in 1..k : PeerAt(pool, i) = skip
    <3>1. PICK i \in 1..k : s[i].peer = skip
      BY <2>1 DEF PeerAt, s
    <3>2. i \in DOMAIN s
      BY <1>1 DEF s
    <3>3. q \in DOMAIN s /\ s[q].peer = skip
      BY <3>1, <3>2 DEF PositionOf, PeerAt, s
    <3>4. q = i
      BY <1>1, <3>1, <3>2, <3>3 DEF Distinct
    <3>5. s[q] \in E /\ Lacks(tail, s[q].peer)
      BY <1>1, <1>2, <3>1, <3>3, <3>4
    <3> HIDE DEF q, E
    <3>6. <<s[q]>> \o tail \in Seq(E) /\ Distinct(<<s[q]>> \o tail)
      BY <1>2, <3>5, FrontProperties
    <3>7. QED BY <2>1, <3>6
  <2>2. CASE ~ \E i \in 1..k : PeerAt(pool, i) = skip
    <3>1. <<>> \o tail = tail
      BY <1>2, ConcatEmptySeq
    <3>2. QED BY <1>2, <2>2, <3>1
  <2>3. QED BY <2>1, <2>2
<1> HIDE DEF spared, E
<1>4. IsPool(NonEmpty(pool.fp, spared \o tail), Peers, Address, Fingerprint)
  BY <1>1, <1>3, NonEmptyIsPool DEF E
<1>5. QED BY <1>4 DEF TriedInVain, spared, tail, q, s

(* What TriedInVain leaves of the entries, before a pool is made of it.    *)
SparedBy(pool, k, skip) ==
  IF \E i \in 1..k : PeerAt(pool, i) = skip THEN <<pool.peers[PositionOf(pool, skip)]>> ELSE <<>>

LeftBy(pool, k, skip) == SparedBy(pool, k, skip) \o SubSeq(pool.peers, k + 1, Len(pool.peers))

(* Those spared come first, then the members past the k-th.                *)
SparedThenRest(left, spared, s, k) ==
  /\ Len(spared) \in Nat
  /\ Len(left) = Len(spared) + (Len(s) - k)
  /\ \A i \in 1..Len(spared) : left[i] = spared[i]
  /\ \A i \in 1..(Len(s) - k) : left[Len(spared) + i] = s[k + i]

LEMMA LeftProperties ==
  ASSUME NEW Address, NEW Fingerprint, NEW pool,
         IsPool(pool, Peers, Address, Fingerprint),
         NEW k \in 0..Len(pool.peers), NEW skip
  PROVE  /\ SparedBy(pool, k, skip) \in Seq(Entries(Peers, Address))
         /\ LeftBy(pool, k, skip) \in Seq(Entries(Peers, Address))
         /\ SparedThenRest(LeftBy(pool, k, skip), SparedBy(pool, k, skip), pool.peers, k)
<1> DEFINE E == Entries(Peers, Address)
           s == pool.peers
           spared == SparedBy(pool, k, skip)
           tail == SubSeq(s, k + 1, Len(s))
           left == LeftBy(pool, k, skip)
<1>1. /\ s \in Seq(E) /\ Len(s) \in Nat /\ DOMAIN s = 1..Len(s)
      /\ \A i \in 1..Len(s) : s[i] \in E
  BY PoolFacts
<1>2. spared \in Seq(E)
  <2>1. CASE \E i \in 1..k : PeerAt(pool, i) = skip
    <3>1. PICK i \in 1..k : PeerAt(pool, i) = skip
      BY <2>1
    <3>2. i \in DOMAIN s
      BY <1>1
    <3>3. PositionOf(pool, skip) \in DOMAIN s
      BY <3>1, <3>2 DEF PositionOf
    <3>4. s[PositionOf(pool, skip)] \in E
      BY <1>1, <3>3
    <3> HIDE DEF E, s
    <3>5. <<s[PositionOf(pool, skip)]>> \in Seq(E)
      BY <3>4
    <3>6. QED BY <2>1, <3>5 DEF SparedBy, s
  <2>2. CASE ~ \E i \in 1..k : PeerAt(pool, i) = skip
    BY <2>2, EmptySeq DEF SparedBy
  <2>3. QED BY <2>1, <2>2
<1> HIDE DEF s, spared, E
<1>3. Len(spared) \in Nat
  BY <1>2, LenProperties
<1>4. /\ tail \in Seq(E) /\ Len(tail) = Len(s) - k
      /\ \A i \in 1..(Len(s) - k) : tail[i] = s[k + i]
  <2>1. k \in 0..Len(s)
    BY DEF s
  <2>2. k + 1 \in Int /\ Len(s) \in Int /\ \A i \in (k + 1)..Len(s) : s[i] \in E
    BY <1>1, <2>1
  <2>3. tail \in Seq(E) /\ Len(tail) = IF k + 1 <= Len(s) THEN Len(s) - (k + 1) + 1 ELSE 0
    BY <2>2, SubSeqProperties
  <2>4. \A i \in 1..(Len(s) - (k + 1) + 1) : tail[i] = s[k + 1 + i - 1]
    BY <2>2, SubSeqProperties
  <2> HIDE DEF tail
  <2>5. Len(tail) = Len(s) - k
    <3>1. Len(s) \in Nat /\ k \in 0..Len(s)
      BY <1>1, <2>1
    <3>2. Len(tail) = IF k + 1 <= Len(s) THEN Len(s) - (k + 1) + 1 ELSE 0
      BY <2>3
    <3>3. QED BY <3>1, <3>2
  <2>6. ASSUME NEW i \in 1..(Len(s) - k) PROVE tail[i] = s[k + i]
    <3>1. i \in 1..(Len(s) - (k + 1) + 1) /\ k + 1 + i - 1 = k + i
      BY <1>1, <2>1
    <3>2. QED BY <2>4, <3>1
  <2>7. QED BY <2>3, <2>5, <2>6
<1> HIDE DEF tail
<1>5. /\ spared \o tail \in Seq(E)
      /\ Len(spared \o tail) = Len(spared) + Len(tail)
      /\ \A i \in 1..(Len(spared) + Len(tail)) :
           (spared \o tail)[i] = IF i <= Len(spared) THEN spared[i] ELSE tail[i - Len(spared)]
  BY <1>2, <1>4, ConcatProperties
<1>6. left = spared \o tail
  BY DEF LeftBy, spared, tail, s
<1> HIDE DEF left
<1>7. k \in 0..Len(s)
  BY DEF s
<1>8. /\ left \in Seq(E) /\ Len(left) = Len(spared) + (Len(s) - k)
      /\ \A i \in 1..Len(spared) : left[i] = spared[i]
  BY <1>1, <1>3, <1>4, <1>5, <1>6, <1>7
<1>9. \A i \in 1..(Len(s) - k) : left[Len(spared) + i] = s[k + i]
  <2> TAKE i \in 1..(Len(s) - k)
  <2>1. /\ Len(spared) + i \in 1..(Len(spared) + Len(tail))
        /\ ~(Len(spared) + i <= Len(spared)) /\ Len(spared) + i - Len(spared) = i
    BY <1>1, <1>3, <1>4, <1>7
  <2>2. QED BY <1>4, <1>5, <1>6, <2>1
<1>10. SparedThenRest(left, spared, s, k)
  BY <1>3, <1>8, <1>9 DEF SparedThenRest
<1>11. QED BY <1>2, <1>8, <1>10 DEF spared, left, s, E

(* A pool none of whose members was tried is as it was.                    *)
LEMMA TriedInVainNone ==
  ASSUME NEW Address, NEW Fingerprint, NEW pool,
         IsPool(pool, Peers, Address, Fingerprint), NEW skip
  PROVE  TriedInVain(pool, 0, skip) = pool
<1> DEFINE E == Entries(Peers, Address)
           s == pool.peers
           left == LeftBy(pool, 0, skip)
<1>1. s \in Seq(E) /\ Len(s) \in Nat /\ (s = <<>> => pool = Absent)
  BY PoolFacts
<1>2. SparedBy(pool, 0, skip) = <<>> /\ Len(<<>>) = 0
  <2>1. ~ \E i \in 1..0 : PeerAt(pool, i) = skip
    OBVIOUS
  <2>2. QED BY <2>1, EmptySeq DEF SparedBy
<1>3. left \in Seq(E) /\ Len(left) = Len(s) /\ \A i \in 1..Len(s) : left[i] = s[i]
  <2>1. 0 \in 0..Len(s)
    BY <1>1
  <2>2. left \in Seq(E) /\ SparedThenRest(left, <<>>, s, 0)
    BY <1>2, <2>1, LeftProperties
  <2> HIDE DEF left, s
  <2>3. Len(left) = 0 + (Len(s) - 0) /\ \A i \in 1..(Len(s) - 0) : left[0 + i] = s[0 + i]
    BY <1>2, <2>2 DEF SparedThenRest
  <2>4. QED BY <1>1, <2>2, <2>3
<1> HIDE DEF left
<1>4. left = s
  BY <1>1, <1>3, SeqEqual
<1>5. NonEmpty(pool.fp, s) = pool
  <2>1. pool = [fp |-> pool.fp, peers |-> pool.peers]
    BY DEF IsPool, PoolsOver
  <2>2. QED BY <1>1, <2>1 DEF NonEmpty
<1>6. TriedInVain(pool, 0, skip) = NonEmpty(pool.fp, left)
  BY DEF TriedInVain, left, LeftBy, SparedBy
<1>7. QED BY <1>4, <1>5, <1>6

(* The peer that just dropped is passed over and stays.                    *)
LEMMA TriedInVainPassesOver ==
  ASSUME NEW Address, NEW Fingerprint, NEW pool,
         IsPool(pool, Peers, Address, Fingerprint),
         NEW k \in 0..(Len(pool.peers) - 1), NEW skip, PeerAt(pool, k + 1) = skip
  PROVE  TriedInVain(pool, k + 1, skip) = TriedInVain(pool, k, skip)
<1> DEFINE E == Entries(Peers, Address)
           s == pool.peers
           before == LeftBy(pool, k, skip)
           after  == LeftBy(pool, k + 1, skip)
<1>1. /\ s \in Seq(E) /\ Len(s) \in Nat /\ DOMAIN s = 1..Len(s)
      /\ Distinct(s)
  BY PoolFacts
<1>2. k \in 0..Len(s) /\ k + 1 \in 0..Len(s) /\ k + 1 \in DOMAIN s /\ s[k + 1].peer = skip
  BY <1>1 DEF PeerAt
<1>3. PositionOf(pool, skip) = k + 1
  <2>1. PositionOf(pool, skip) \in DOMAIN s /\ s[PositionOf(pool, skip)].peer = skip
    BY <1>2 DEF PositionOf, PeerAt
  <2>2. QED BY <1>1, <1>2, <2>1 DEF Distinct
<1>4. SparedBy(pool, k, skip) = <<>>
  <2>1. ASSUME NEW i \in 1..k, PeerAt(pool, i) = skip PROVE FALSE
    <3>1. i \in DOMAIN s /\ i # k + 1 /\ s[i].peer = skip
      BY <1>1, <1>2, <2>1 DEF PeerAt
    <3>2. QED BY <1>1, <1>2, <3>1 DEF Distinct
  <2>2. QED BY <2>1 DEF SparedBy
<1>5. SparedBy(pool, k + 1, skip) = <<s[k + 1]>>
  <2>1. k + 1 \in 1..(k + 1)
    BY <1>1, <1>2
  <2>2. QED BY <1>3, <2>1 DEF SparedBy
<1>6. Len(<<>>) = 0 /\ Len(<<s[k + 1]>>) = 1 /\ <<s[k + 1]>>[1] = s[k + 1]
  BY EmptySeq
<1>7. before \in Seq(E) /\ SparedThenRest(before, <<>>, s, k)
  BY <1>2, <1>4, LeftProperties
<1>8. after \in Seq(E) /\ SparedThenRest(after, <<s[k + 1]>>, s, k + 1)
  BY <1>2, <1>5, LeftProperties
<1> HIDE DEF before, after, s, E
<1>9. /\ Len(before) = 0 + (Len(s) - k)
      /\ \A i \in 1..(Len(s) - k) : before[0 + i] = s[k + i]
  BY <1>6, <1>7 DEF SparedThenRest
<1>10. /\ Len(after) = 1 + (Len(s) - (k + 1))
       /\ \A i \in 1..1 : after[i] = <<s[k + 1]>>[i]
       /\ \A i \in 1..(Len(s) - (k + 1)) : after[1 + i] = s[k + 1 + i]
  BY <1>6, <1>8 DEF SparedThenRest
<1>11. Len(after) = Len(before)
  BY <1>1, <1>2, <1>9, <1>10
<1>12. \A i \in 1..Len(after) : after[i] = before[i]
  <2> TAKE i \in 1..Len(after)
  <2>1. i \in 1..(Len(s) - k)
    BY <1>1, <1>2, <1>11, <1>9
  <2>2. before[i] = s[k + i]
    <3>1. 0 + i = i
      BY <1>1, <1>2, <2>1
    <3>2. QED BY <1>9, <2>1, <3>1
  <2>3. CASE i = 1
    BY <1>6, <1>10, <2>2, <2>3
  <2>4. CASE i # 1
    <3>1. i - 1 \in 1..(Len(s) - (k + 1)) /\ 1 + (i - 1) = i /\ k + 1 + (i - 1) = k + i
      BY <1>1, <1>2, <2>1, <2>4
    <3>2. QED BY <1>10, <2>2, <3>1
  <2>5. QED BY <2>3, <2>4
<1>13. after = before
  BY <1>7, <1>8, <1>11, <1>12, SeqEqual
<1>14. /\ TriedInVain(pool, k + 1, skip) = NonEmpty(pool.fp, after)
       /\ TriedInVain(pool, k, skip) = NonEmpty(pool.fp, before)
  BY DEF TriedInVain, LeftBy, SparedBy, before, after
<1>15. QED BY <1>13, <1>14

(* Any other member that was tried in vain is forgotten.                   *)
LEMMA TriedInVainForgets ==
  ASSUME NEW Address, NEW Fingerprint, NEW pool,
         IsPool(pool, Peers, Address, Fingerprint),
         NEW k \in 0..(Len(pool.peers) - 1), NEW skip, PeerAt(pool, k + 1) # skip
  PROVE  TriedInVain(pool, k + 1, skip) = Forget(TriedInVain(pool, k, skip), PeerAt(pool, k + 1))
<1> DEFINE E == Entries(Peers, Address)
           s == pool.peers
           p == PeerAt(pool, k + 1)
           spared == SparedBy(pool, k, skip)
           before == LeftBy(pool, k, skip)
           after  == LeftBy(pool, k + 1, skip)
           tried  == TriedInVain(pool, k, skip)
           at     == Len(spared) + 1
<1>1. s \in Seq(E) /\ Len(s) \in Nat
  BY PoolFacts
<1>2. k \in 0..Len(s) /\ k + 1 \in 0..Len(s) /\ s[k + 1].peer = p
  BY <1>1 DEF PeerAt
<1>3. SparedBy(pool, k + 1, skip) = spared
  <2>1. (\E i \in 1..(k + 1) : PeerAt(pool, i) = skip) <=> (\E i \in 1..k : PeerAt(pool, i) = skip)
    BY <1>1, <1>2
  <2>2. QED BY <2>1 DEF SparedBy
<1>4. spared \in Seq(E) /\ before \in Seq(E) /\ SparedThenRest(before, spared, s, k)
  BY <1>2, LeftProperties
<1>5. after \in Seq(E) /\ SparedThenRest(after, spared, s, k + 1)
  BY <1>2, <1>3, LeftProperties
<1>6. tried = NonEmpty(pool.fp, before) /\ TriedInVain(pool, k + 1, skip) = NonEmpty(pool.fp, after)
  BY DEF TriedInVain, LeftBy, SparedBy
<1>7. IsPool(tried, Peers, Address, Fingerprint)
  BY <1>2, TriedInVainIsPool
<1> HIDE DEF s, p, spared, before, after, tried, E
<1>8. /\ Len(spared) \in Nat
      /\ Len(before) = Len(spared) + (Len(s) - k)
      /\ \A i \in 1..Len(spared) : before[i] = spared[i]
      /\ \A i \in 1..(Len(s) - k) : before[Len(spared) + i] = s[k + i]
  BY <1>4 DEF SparedThenRest
<1>9. /\ Len(after) = Len(spared) + (Len(s) - (k + 1))
      /\ \A i \in 1..Len(spared) : after[i] = spared[i]
      /\ \A i \in 1..(Len(s) - (k + 1)) : after[Len(spared) + i] = s[k + 1 + i]
  BY <1>5 DEF SparedThenRest
<1>10. at \in 1..Len(before) /\ before[at] = s[k + 1]
  <2>1. 1 \in 1..(Len(s) - k) /\ at \in 1..Len(before)
    BY <1>1, <1>2, <1>4, <1>8
  <2>2. QED BY <1>4, <1>8, <2>1
<1>11. before # <<>>
  <2>1. Len(<<>>) = 0
    BY EmptySeq
  <2>2. Len(before) # 0
    BY <1>1, <1>4, <1>8, <1>10
  <2>3. QED BY <2>1, <2>2
<1>12. tried.peers = before /\ tried.fp = pool.fp
  BY <1>6, <1>11 DEF NonEmpty
<1>13. Distinct(before) /\ DOMAIN before = 1..Len(before)
  BY <1>7, <1>12, PoolFacts
<1>14. Remembers(tried, p) /\ PositionOf(tried, p) = at
  <2>1. at \in DOMAIN tried.peers /\ PeerAt(tried, at) = p
    BY <1>2, <1>10, <1>12, <1>13 DEF PeerAt
  <2>2. PositionOf(tried, p) \in DOMAIN tried.peers /\ PeerAt(tried, PositionOf(tried, p)) = p
    BY <2>1 DEF PositionOf
  <2>3. QED BY <1>12, <1>13, <2>1, <2>2 DEF Remembers, Distinct, PeerAt
<1>15. Without(tried, p) = RemoveAt(before, at)
  BY <1>12, <1>14 DEF Without
<1> HIDE DEF at
<1>16. /\ RemoveAt(before, at) \in Seq(E)
       /\ Len(RemoveAt(before, at)) = Len(before) - 1
       /\ \A i \in 1..(Len(before) - 1) :
            RemoveAt(before, at)[i] = IF i < at THEN before[i] ELSE before[i + 1]
  BY <1>4, <1>8, <1>10, RemoveAtProperties
<1>17. Len(RemoveAt(before, at)) = Len(after)
  BY <1>1, <1>2, <1>4, <1>8, <1>5, <1>9, <1>16
<1>18. \A i \in 1..Len(after) : after[i] = RemoveAt(before, at)[i]
  <2> TAKE i \in 1..Len(after)
  <2>1. i \in 1..(Len(before) - 1)
    BY <1>1, <1>2, <1>4, <1>8, <1>5, <1>9
  <2>2. CASE i <= Len(spared)
    <3>1. i \in 1..Len(spared) /\ i < at
      BY <1>4, <1>8, <2>1, <2>2 DEF at
    <3>2. QED BY <1>4, <1>8, <1>5, <1>9, <1>16, <2>1, <3>1
  <2>3. CASE ~(i <= Len(spared))
    <3> DEFINE j == i - Len(spared)
    <3>1. /\ j \in 1..(Len(s) - (k + 1)) /\ Len(spared) + j = i /\ ~(i < at)
          /\ j + 1 \in 1..(Len(s) - k) /\ Len(spared) + (j + 1) = i + 1
          /\ k + 1 + j = k + (j + 1)
      BY <1>1, <1>2, <1>4, <1>8, <1>5, <1>9, <2>1, <2>3 DEF at
    <3> HIDE DEF j
    <3>2. after[i] = s[k + 1 + j]
      BY <1>5, <1>9, <3>1
    <3>3. before[i + 1] = s[k + (j + 1)]
      BY <1>4, <1>8, <3>1
    <3>4. QED BY <1>16, <2>1, <3>1, <3>2, <3>3
  <2>4. QED BY <2>2, <2>3
<1>19. after = RemoveAt(before, at)
  BY <1>5, <1>9, <1>16, <1>17, <1>18, SeqEqual
<1>20. Forget(tried, p) = NonEmpty(pool.fp, after)
  BY <1>12, <1>15, <1>19 DEF Forget
<1>21. QED BY <1>6, <1>20 DEF tried, p
-----------------------------------------------------------------------------
(* Which entries a pool may come to hold.  The set S is any property of    *)
(* entries: forgetting and passing over keep to it, and remembering keeps  *)
(* to it if the entry that enters is in it.                                *)
EntriesIn(pool, S) == pool.peers \in Seq(S)

LEMMA EntriesInFacts ==
  ASSUME NEW S, NEW pool, EntriesIn(pool, S)
  PROVE  /\ Len(pool.peers) \in Nat /\ DOMAIN pool.peers = 1..Len(pool.peers)
         /\ \A i \in DOMAIN pool.peers : pool.peers[i] \in S
<1>1. Len(pool.peers) \in Nat /\ DOMAIN pool.peers = 1..Len(pool.peers)
  BY LenProperties DEF EntriesIn
<1>2. QED BY <1>1, ElementOfSeq DEF EntriesIn

LEMMA EntriesInMore ==
  ASSUME NEW S, NEW T, S \subseteq T, NEW pool, EntriesIn(pool, S)
  PROVE  EntriesIn(pool, T)
<1>1. pool.peers \in [1..Len(pool.peers) -> T] /\ Len(pool.peers) \in Nat
  BY EntriesInFacts DEF EntriesIn
<1>2. QED BY <1>1 DEF EntriesIn

LEMMA AbsentEntriesIn ==
  ASSUME NEW S PROVE EntriesIn(Absent, S)
BY EmptySeq DEF EntriesIn, Absent

LEMMA OpenedEntriesIn ==
  ASSUME NEW S, NEW pool, EntriesIn(pool, S), NEW fp
  PROVE  EntriesIn(Opened(pool, fp), S)
BY AbsentEntriesIn DEF Opened

LEMMA ForgetEntriesIn ==
  ASSUME NEW S, NEW pool, EntriesIn(pool, S), WellFormed(pool), NEW p
  PROVE  EntriesIn(Forget(pool, p), S)
<1>1. Without(pool, p) \in Seq(S)
  BY WithoutProperties DEF EntriesIn, WellFormed, Distinct, PeerAt
<1>2. QED BY <1>1, AbsentEntriesIn DEF Forget, NonEmpty, EntriesIn

LEMMA RememberEntriesIn ==
  ASSUME NEW S, NEW pool, EntriesIn(pool, S), WellFormed(pool), NEW fp, NEW p, NEW max \in Nat,
         [peer |-> p, addr |-> DirectAddress(Opened(pool, fp), p)] \in S
  PROVE  EntriesIn(Remember(pool, fp, p, max), S)
<1> DEFINE kept   == Opened(pool, fp)
           entry  == [peer |-> p, addr |-> DirectAddress(kept, p)]
           rest   == Without(kept, p)
           ranked == <<entry>> \o rest
           size   == IF Len(ranked) > AtLeastOne(max) THEN AtLeastOne(max) ELSE Len(ranked)
<1>1. kept.peers \in Seq(S) /\ Distinct(kept.peers)
  <2>1. Distinct(Absent.peers)
    BY EmptySeq DEF Distinct, Absent
  <2>2. QED BY <2>1, OpenedEntriesIn DEF Opened, EntriesIn, WellFormed, Distinct, PeerAt
<1>2. rest \in Seq(S) /\ Distinct(rest) /\ Lacks(rest, p)
  BY <1>1, WithoutProperties
<1>3. entry \in S /\ entry.peer = p
  OBVIOUS
<1>4. Remember(pool, fp, p, max).peers = SubSeq(ranked, 1, size)
  BY DEF Remember
<1> HIDE DEF kept, entry, rest
<1>5. ranked \in Seq(S) /\ Distinct(ranked) /\ Len(ranked) \in Nat
  BY <1>2, <1>3, FrontProperties, LenProperties
<1> HIDE DEF ranked
<1>6. 1 \in 1..(Len(ranked) + 1) /\ size \in (1 - 1)..Len(ranked)
  BY <1>5 DEF AtLeastOne
<1> HIDE DEF size
<1>7. SubSeq(ranked, 1, size) \in Seq(S)
  BY <1>5, <1>6, StretchProperties
<1>8. QED BY <1>4, <1>7 DEF EntriesIn

LEMMA TriedInVainEntriesIn ==
  ASSUME NEW S, NEW pool, EntriesIn(pool, S), WellFormed(pool), NEW k \in 0..Len(pool.peers), NEW skip
  PROVE  EntriesIn(TriedInVain(pool, k, skip), S)
<1> DEFINE spared == SparedBy(pool, k, skip)
           tail   == SubSeq(pool.peers, k + 1, Len(pool.peers))
<1>1. /\ Len(pool.peers) \in Nat /\ DOMAIN pool.peers = 1..Len(pool.peers)
      /\ \A i \in DOMAIN pool.peers : pool.peers[i] \in S
  BY EntriesInFacts
<1>2. spared \in Seq(S)
  <2>1. CASE \E i \in 1..k : PeerAt(pool, i) = skip
    <3>1. PositionOf(pool, skip) \in DOMAIN pool.peers
      BY <1>1, <2>1 DEF PositionOf
    <3>2. pool.peers[PositionOf(pool, skip)] \in S
      BY <1>1, <3>1
    <3>3. QED BY <2>1, <3>2 DEF SparedBy
  <2>2. CASE ~ \E i \in 1..k : PeerAt(pool, i) = skip
    BY <2>2, EmptySeq DEF SparedBy
  <2>3. QED BY <2>1, <2>2
<1>3. tail \in Seq(S)
  <2>1. pool.peers \in Seq(S) /\ Distinct(pool.peers)
    BY DEF EntriesIn, WellFormed, Distinct, PeerAt
  <2>2. k + 1 \in 1..(Len(pool.peers) + 1) /\ Len(pool.peers) \in (k + 1 - 1)..Len(pool.peers)
    BY <1>1
  <2>3. QED BY <2>1, <2>2, StretchProperties
<1> HIDE DEF spared, tail
<1>4. spared \o tail \in Seq(S)
  BY <1>2, <1>3, ConcatProperties
<1>5. EntriesIn(NonEmpty(pool.fp, spared \o tail), S)
  BY <1>4, AbsentEntriesIn DEF NonEmpty, EntriesIn
<1>6. QED BY <1>5 DEF TriedInVain, SparedBy, spared, tail

LEMMA RememberedByIsPool ==
  ASSUME NEW Address, NEW Fingerprint, NEW server, Configured(server, Fingerprint),
         NEW pool, IsPool(pool, Peers, Address, Fingerprint), NEW p \in Peers
  PROVE  IsPool(RememberedBy(server, pool, p), Peers, Address, Fingerprint)
<1>1. server.max \in Nat /\ server.fp \in Fingerprint
  BY DEF Configured
<1>2. IsPool(Remember(pool, server.fp, p, server.max), Peers, Address, Fingerprint)
  BY <1>1, RememberProperties
<1>3. QED BY <1>2 DEF RememberedBy

(* What an effort may conclude with.                                       *)
Typed(o, Address, Fingerprint) ==
  /\ o.peer \in Peers \cup {NoPeer}
  /\ IsPool(o.pool, Peers, Address, Fingerprint)

LEMMA DiscoveryOutcomesTyped ==
  ASSUME NEW Address, NEW Fingerprint, NEW server, Configured(server, Fingerprint),
         NEW pool, IsPool(pool, Peers, Address, Fingerprint)
  PROVE  \A o \in DiscoveryOutcomes(server, pool) : Typed(o, Address, Fingerprint)
BY RememberedByIsPool DEF DiscoveryOutcomes, Nothing, Adopted, Typed

LEMMA PoolOutcomesTyped ==
  ASSUME NEW Address, NEW Fingerprint, NEW server, Configured(server, Fingerprint),
         NEW pool, IsPool(pool, Peers, Address, Fingerprint), NEW skip
  PROVE  \A o \in PoolOutcomes(server, pool, skip) : Typed(o, Address, Fingerprint)
<1> DEFINE opened   == Opened(pool, server.fp)
           size     == Len(opened.peers)
           after(k) == RememberedBy(server, TriedInVain(opened, k - 1, skip), PeerAt(opened, k))
<1>1. IsPool(opened, Peers, Address, Fingerprint)
  BY OpenedIsPool
<1>2. size \in Nat /\ \A k \in 1..size : PeerAt(opened, k) \in Peers
  BY <1>1, PoolFacts DEF PeerAt
<1> HIDE DEF opened
<1>3. \A k \in 1..size : Typed(Adopted(PeerAt(opened, k), "sticky", after(k)), Address, Fingerprint)
  <2> TAKE k \in 1..size
  <2>1. k - 1 \in 0..Len(opened.peers)
    BY <1>2
  <2>2. IsPool(TriedInVain(opened, k - 1, skip), Peers, Address, Fingerprint)
    BY <1>1, <2>1, TriedInVainIsPool
  <2>3. IsPool(after(k), Peers, Address, Fingerprint)
    BY <1>2, <2>2, RememberedByIsPool
  <2>4. QED BY <1>2, <2>3 DEF Typed, Adopted
<1>4. \A o \in DiscoveryOutcomes(server, TriedInVain(opened, size, skip)) : Typed(o, Address, Fingerprint)
  <2>1. size \in 0..Len(opened.peers)
    BY <1>2
  <2>2. IsPool(TriedInVain(opened, size, skip), Peers, Address, Fingerprint)
    BY <1>1, <2>1, TriedInVainIsPool
  <2>3. QED BY <2>2, DiscoveryOutcomesTyped
<1> HIDE DEF after, size
<1>5. PoolOutcomes(server, pool, skip) =
        {Adopted(PeerAt(opened, k), "sticky", after(k)) : k \in {k \in 1..size : PeerAt(opened, k) # skip}}
          \cup DiscoveryOutcomes(server, TriedInVain(opened, size, skip))
  BY DEF PoolOutcomes, opened, size, after
<1>6. QED BY <1>3, <1>4, <1>5

LEMMA UnpinnedOutcomesTyped ==
  ASSUME NEW Address, NEW Fingerprint, NEW server, Configured(server, Fingerprint),
         NEW pool, IsPool(pool, Peers, Address, Fingerprint), NEW avoid \in Peers \cup {NoPeer}
  PROVE  \A o \in UnpinnedOutcomes(server, pool, avoid) : Typed(o, Address, Fingerprint)
<1>1. CASE FightsFor(server, avoid)
  <2>1. avoid \in Peers
    BY <1>1 DEF FightsFor
  <2>2. Typed(Adopted(avoid, "sticky", RememberedBy(server, pool, avoid)), Address, Fingerprint)
    BY <2>1, RememberedByIsPool DEF Typed, Adopted
  <2>3. \A o \in PoolOutcomes(server, Forget(pool, avoid), avoid) : Typed(o, Address, Fingerprint)
    BY ForgetIsPool, PoolOutcomesTyped
  <2>4. QED BY <1>1, <2>2, <2>3 DEF UnpinnedOutcomes
<1>2. CASE ~FightsFor(server, avoid)
  BY <1>2, PoolOutcomesTyped, DiscoveryOutcomesTyped DEF UnpinnedOutcomes
<1>3. QED BY <1>1, <1>2

(* Whatever happens during an effort, connect returns a configured or      *)
(* found peer or an error, and leaves a pool.                              *)
THEOREM OutcomesTyped ==
  ASSUME NEW Address, NEW Fingerprint, NEW server, Configured(server, Fingerprint),
         NEW pool, IsPool(pool, Peers, Address, Fingerprint), NEW avoid \in Peers \cup {NoPeer}
  PROVE  \A o \in Outcomes(server, pool, avoid) : Typed(o, Address, Fingerprint)
<1>1. CASE server.pinned = <<>>
  BY <1>1, UnpinnedOutcomesTyped DEF Outcomes
<1>2. CASE server.pinned # <<>>
  <2>1. ToSet(server.pinned) \subseteq Peers
    <3>1. server.pinned \in Seq(Peers)
      BY DEF Configured
    <3>2. QED BY <3>1, LenProperties, ElementOfSeq DEF ToSet
  <2>2. \A p \in ToSet(server.pinned) : Typed(Adopted(p, "pinned", pool), Address, Fingerprint)
    BY <2>1 DEF Typed, Adopted
  <2>3. \A o \in UnpinnedOutcomes(server, pool, NoPeer) \cup {Nothing(pool)} : Typed(o, Address, Fingerprint)
    BY UnpinnedOutcomesTyped DEF Typed, Adopted, Nothing
  <2>4. \A o \in PinnedOutcomes(server, pool) : Typed(o, Address, Fingerprint)
    BY <2>2, <2>3 DEF PinnedOutcomes
  <2>5. QED BY <1>2, <2>4 DEF Outcomes
<1>3. QED BY <1>1, <1>2

(* A sticky server's exit is in front of its pool, under its own filters   *)
(* and bound.                                                              *)
Leads(server, pool, p) ==
  pool.fp = server.fp /\ Bounded(pool, server.max) /\ Fronted(pool, p)

LEMMA RememberedByLeads ==
  ASSUME NEW Address, NEW Fingerprint, NEW server, Configured(server, Fingerprint), server.sticky,
         NEW pool, IsPool(pool, Peers, Address, Fingerprint), NEW p \in Peers
  PROVE  Leads(server, RememberedBy(server, pool, p), p)
<1> DEFINE new == Remember(pool, server.fp, p, server.max)
<1>1. server.max \in Nat /\ server.fp \in Fingerprint
  BY DEF Configured
<1>2. /\ IsPool(new, Peers, Address, Fingerprint)
      /\ new.fp = server.fp /\ Bounded(new, server.max)
      /\ Remembers(new, p) /\ PositionOf(new, p) = 1
  BY <1>1, RememberProperties
<1> HIDE DEF new
<1>3. Fronted(new, p)
  BY <1>2, FrontedPosition
<1>4. QED BY <1>2, <1>3 DEF Leads, RememberedBy, new

(* Every effort for an unpinned sticky server remembers the exit it adopts *)
(* as the first to try next time.                                          *)
THEOREM AdoptedExitLeads ==
  ASSUME NEW Address, NEW Fingerprint, NEW server, Configured(server, Fingerprint),
         server.sticky, server.pinned = <<>>,
         NEW pool, IsPool(pool, Peers, Address, Fingerprint), NEW avoid \in Peers \cup {NoPeer}
  PROVE  \A o \in Outcomes(server, pool, avoid) :
           o.peer # NoPeer => Leads(server, o.pool, o.peer)
<1> DEFINE Led(S) == \A o \in S : o.peer # NoPeer => Leads(server, o.pool, o.peer)
<1>1. ASSUME NEW q, IsPool(q, Peers, Address, Fingerprint) PROVE Led(DiscoveryOutcomes(server, q))
  BY <1>1, RememberedByLeads DEF DiscoveryOutcomes, Nothing, Adopted
<1>2. ASSUME NEW q, IsPool(q, Peers, Address, Fingerprint), NEW skip
      PROVE  Led(PoolOutcomes(server, q, skip))
  <2> DEFINE opened   == Opened(q, server.fp)
             size     == Len(opened.peers)
             after(k) == RememberedBy(server, TriedInVain(opened, k - 1, skip), PeerAt(opened, k))
  <2>1. IsPool(opened, Peers, Address, Fingerprint)
    BY <1>2, OpenedIsPool
  <2>2. size \in Nat /\ \A k \in 1..size : PeerAt(opened, k) \in Peers
    BY <2>1, PoolFacts DEF PeerAt
  <2> HIDE DEF opened
  <2>3. \A k \in 1..size : Leads(server, after(k), PeerAt(opened, k))
    <3> TAKE k \in 1..size
    <3>1. k - 1 \in 0..Len(opened.peers)
      BY <2>2
    <3>2. IsPool(TriedInVain(opened, k - 1, skip), Peers, Address, Fingerprint)
      BY <2>1, <3>1, TriedInVainIsPool
    <3>3. QED BY <2>2, <3>2, RememberedByLeads
  <2>4. Led(DiscoveryOutcomes(server, TriedInVain(opened, size, skip)))
    <3>1. size \in 0..Len(opened.peers)
      BY <2>2
    <3>2. IsPool(TriedInVain(opened, size, skip), Peers, Address, Fingerprint)
      BY <2>1, <3>1, TriedInVainIsPool
    <3>3. QED BY <1>1, <3>2
  <2> HIDE DEF after, size
  <2>5. PoolOutcomes(server, q, skip) =
          {Adopted(PeerAt(opened, k), "sticky", after(k)) : k \in {k \in 1..size : PeerAt(opened, k) # skip}}
            \cup DiscoveryOutcomes(server, TriedInVain(opened, size, skip))
    BY DEF PoolOutcomes, opened, size, after
  <2>6. QED BY <2>3, <2>4, <2>5 DEF Adopted
<1>3. CASE FightsFor(server, avoid)
  <2>1. avoid \in Peers
    BY <1>3 DEF FightsFor
  <2>2. Led({Adopted(avoid, "sticky", RememberedBy(server, pool, avoid))})
    BY <2>1, RememberedByLeads DEF Adopted
  <2>3. Led(PoolOutcomes(server, Forget(pool, avoid), avoid))
    BY <1>2, ForgetIsPool
  <2>4. QED BY <1>3, <2>2, <2>3 DEF Outcomes, UnpinnedOutcomes
<1>4. CASE ~FightsFor(server, avoid)
  BY <1>2, <1>4 DEF Outcomes, UnpinnedOutcomes
<1>5. QED BY <1>3, <1>4
(* What an effort leaves in the pool: entries that were there, or one of   *)
(* the peer it adopts.  A pinned exit is not remembered.                   *)
EntriesOf(p, Address) == [peer : {p}, addr : Address \cup {NoAddress}]

Retained(o, pool, S, Address) ==
  /\ EntriesIn(o.pool, S \cup EntriesOf(o.peer, Address))
  /\ o.source = "pinned" => o.pool = pool

LEMMA RememberedByEntriesIn ==
  ASSUME NEW S, NEW Address, NEW Fingerprint, NEW server, Configured(server, Fingerprint),
         NEW pool, IsPool(pool, Peers, Address, Fingerprint), EntriesIn(pool, S), NEW p \in Peers
  PROVE  EntriesIn(RememberedBy(server, pool, p), S \cup EntriesOf(p, Address))
<1>1. EntriesIn(pool, S \cup EntriesOf(p, Address))
  BY EntriesInMore
<1>2. DirectAddress(Opened(pool, server.fp), p) \in Address \cup {NoAddress}
  BY OpenedIsPool, DirectAddressType
<1>3. [peer |-> p, addr |-> DirectAddress(Opened(pool, server.fp), p)] \in S \cup EntriesOf(p, Address)
  BY <1>2 DEF EntriesOf
<1>4. QED BY <1>1, <1>3, RememberEntriesIn DEF RememberedBy, Configured, IsPool

LEMMA DiscoveryOutcomesKeep ==
  ASSUME NEW S, NEW Address, NEW Fingerprint, NEW server, Configured(server, Fingerprint),
         NEW pool, IsPool(pool, Peers, Address, Fingerprint), EntriesIn(pool, S), NEW before
  PROVE  \A o \in DiscoveryOutcomes(server, pool) : Retained(o, before, S, Address)
<1>1. Retained(Nothing(pool), before, S, Address)
  BY EntriesInMore DEF Retained, Nothing, Adopted
<1>2. \A p \in Peers : Retained(Adopted(p, "discovered", RememberedBy(server, pool, p)), before, S, Address)
  BY RememberedByEntriesIn DEF Retained, Adopted
<1>3. QED BY <1>1, <1>2 DEF DiscoveryOutcomes

LEMMA PoolOutcomesKeep ==
  ASSUME NEW S, NEW Address, NEW Fingerprint, NEW server, Configured(server, Fingerprint),
         NEW pool, IsPool(pool, Peers, Address, Fingerprint), EntriesIn(pool, S),
         NEW skip, NEW before
  PROVE  \A o \in PoolOutcomes(server, pool, skip) : Retained(o, before, S, Address)
<1> DEFINE opened   == Opened(pool, server.fp)
           size     == Len(opened.peers)
           after(k) == RememberedBy(server, TriedInVain(opened, k - 1, skip), PeerAt(opened, k))
<1>1. IsPool(opened, Peers, Address, Fingerprint) /\ EntriesIn(opened, S) /\ WellFormed(opened)
  BY OpenedIsPool, OpenedEntriesIn DEF IsPool
<1>2. size \in Nat /\ \A k \in 1..size : PeerAt(opened, k) \in Peers
  BY <1>1, PoolFacts DEF PeerAt
<1> HIDE DEF opened
<1>3. \A k \in 1..size : Retained(Adopted(PeerAt(opened, k), "sticky", after(k)), before, S, Address)
  <2> TAKE k \in 1..size
  <2>1. k - 1 \in 0..Len(opened.peers)
    BY <1>2
  <2>2. /\ IsPool(TriedInVain(opened, k - 1, skip), Peers, Address, Fingerprint)
        /\ EntriesIn(TriedInVain(opened, k - 1, skip), S)
    BY <1>1, <2>1, TriedInVainIsPool, TriedInVainEntriesIn
  <2>3. EntriesIn(after(k), S \cup EntriesOf(PeerAt(opened, k), Address))
    BY <1>2, <2>2, RememberedByEntriesIn
  <2>4. QED BY <2>3 DEF Retained, Adopted
<1>4. \A o \in DiscoveryOutcomes(server, TriedInVain(opened, size, skip)) : Retained(o, before, S, Address)
  <2>1. size \in 0..Len(opened.peers)
    BY <1>2
  <2>2. /\ IsPool(TriedInVain(opened, size, skip), Peers, Address, Fingerprint)
        /\ EntriesIn(TriedInVain(opened, size, skip), S)
    BY <1>1, <2>1, TriedInVainIsPool, TriedInVainEntriesIn
  <2>3. QED BY <2>2, DiscoveryOutcomesKeep
<1> HIDE DEF after, size
<1>5. PoolOutcomes(server, pool, skip) =
        {Adopted(PeerAt(opened, k), "sticky", after(k)) : k \in {k \in 1..size : PeerAt(opened, k) # skip}}
          \cup DiscoveryOutcomes(server, TriedInVain(opened, size, skip))
  BY DEF PoolOutcomes, opened, size, after
<1>6. QED BY <1>3, <1>4, <1>5

LEMMA UnpinnedOutcomesKeep ==
  ASSUME NEW S, NEW Address, NEW Fingerprint, NEW server, Configured(server, Fingerprint),
         NEW pool, IsPool(pool, Peers, Address, Fingerprint), EntriesIn(pool, S),
         NEW avoid \in Peers \cup {NoPeer}
  PROVE  \A o \in UnpinnedOutcomes(server, pool, avoid) : Retained(o, pool, S, Address)
<1>1. CASE FightsFor(server, avoid)
  <2>1. avoid \in Peers
    BY <1>1 DEF FightsFor
  <2>2. Retained(Adopted(avoid, "sticky", RememberedBy(server, pool, avoid)), pool, S, Address)
    BY <2>1, RememberedByEntriesIn DEF Retained, Adopted
  <2>3. /\ IsPool(Forget(pool, avoid), Peers, Address, Fingerprint)
        /\ EntriesIn(Forget(pool, avoid), S)
    BY ForgetIsPool, ForgetEntriesIn DEF IsPool
  <2>4. \A o \in PoolOutcomes(server, Forget(pool, avoid), avoid) : Retained(o, pool, S, Address)
    BY <2>3, PoolOutcomesKeep
  <2>5. QED BY <1>1, <2>2, <2>4 DEF UnpinnedOutcomes
<1>2. CASE ~FightsFor(server, avoid)
  BY <1>2, PoolOutcomesKeep, DiscoveryOutcomesKeep DEF UnpinnedOutcomes
<1>3. QED BY <1>1, <1>2

LEMMA OutcomesKeep ==
  ASSUME NEW S, NEW Address, NEW Fingerprint, NEW server, Configured(server, Fingerprint),
         NEW pool, IsPool(pool, Peers, Address, Fingerprint), EntriesIn(pool, S),
         NEW avoid \in Peers \cup {NoPeer}
  PROVE  \A o \in Outcomes(server, pool, avoid) : Retained(o, pool, S, Address)
<1>1. CASE server.pinned = <<>>
  BY <1>1, UnpinnedOutcomesKeep DEF Outcomes
<1>2. CASE server.pinned # <<>>
  <2>1. EntriesIn(pool, S \cup EntriesOf(NoPeer, Address))
    BY EntriesInMore
  <2>2. \A p : Retained(Adopted(p, "pinned", pool), pool, S, Address)
    BY EntriesInMore DEF Retained, Adopted
  <2>3. Retained(Nothing(pool), pool, S, Address)
    BY <2>1 DEF Retained, Adopted, Nothing
  <2>4. \A o \in UnpinnedOutcomes(server, pool, NoPeer) : Retained(o, pool, S, Address)
    BY UnpinnedOutcomesKeep
  <2>5. \A o \in PinnedOutcomes(server, pool) : Retained(o, pool, S, Address)
    BY <2>2, <2>3, <2>4 DEF PinnedOutcomes
  <2>6. QED BY <1>2, <2>5 DEF Outcomes
<1>3. QED BY <1>1, <1>2
=============================================================================
