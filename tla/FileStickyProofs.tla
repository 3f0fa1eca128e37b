--------------------------- MODULE FileStickyProofs ---------------------------
(***************************************************************************)
(* FileSticky's properties, for any ports, peers, filters, bound and file  *)
(* at the start.                                                           *)
(***************************************************************************)
EXTENDS FileSticky, PoolProofs

(* The pools of this store.                                                *)
IsStored(kept) == IsPool(kept, Exits, {"direct"}, Fingerprints)
AllStored(servers) == servers \in StoredPools /\ \A port \in Ports : WellFormed(servers[port])

LEMMA StoredPoolsArePools ==
  ASSUME NEW servers
  PROVE  AllStored(servers)
           <=> /\ servers = [port \in Ports |-> servers[port]]
               /\ \A port \in Ports : IsStored(servers[port])
BY DEF AllStored, StoredPools, IsStored, IsPool

LEMMA TuplesAreSequences ==
  ASSUME NEW S, NEW a \in S, NEW b \in S, NEW c \in S, NEW d \in S
  PROVE  <<a>> \in Seq(S) /\ <<a, b>> \in Seq(S) /\ <<a, b, c, d>> \in Seq(S)
OBVIOUS

LEMMA JoinedFields ==
  ASSUME NEW S, NEW a \in Seq(S), NEW b \in Seq(S), NEW c \in Seq(S), NEW d \in Seq(S),
         NEW e \in Seq(S), NEW f \in Seq(S)
  PROVE  a \o b \o c \o d \o e \o f \in Seq(S)
OBVIOUS

LEMMA FingerprintIsTyped ==
  ASSUME NEW port \in Ports, NEW f \in Wanted
  PROVE  filter_fingerprint(port, f) \in Fingerprints
<1>1. f \in NodeFilters /\ port \in STRING
  BY WantedAreFilters, PortsAreNamed
<1>2. "v2" \in STRING /\ "" \in STRING /\ Policies \subseteq STRING
  BY TextsAreStrings
<1>3. ASSUME NEW option \in Seq(STRING) PROVE Field(option) \in Seq(STRING)
  BY <1>2, TuplesAreSequences DEF Field
<1>4. /\ Field(f.country) \in Seq(STRING) /\ Field(f.city) \in Seq(STRING)
      /\ Field(f.isp) \in Seq(STRING) /\ Field(f.asn) \in Seq(STRING)
  BY <1>1, <1>3 DEF NodeFilters
<1>5. <<"v2", port>> \in Seq(STRING)
  BY <1>1, <1>2, TuplesAreSequences
<1>6. <<f.bandwidth, f.proxy, f.mobile, f.hosting>> \in Seq(STRING)
  BY <1>1, <1>2, TuplesAreSequences DEF NodeFilters
<1> QED BY <1>4, <1>5, <1>6, JoinedFields DEF filter_fingerprint, Fingerprints

LEMMA NoPoolsStored == AllStored(NoPools)
BY AbsentIsPool, StoredPoolsArePools DEF NoPools, IsStored

(* What a start makes of the file it finds.                                *)
LEMMA ParseStored ==
  ASSUME NEW f \in Files, Sound(f)
  PROVE  AllStored(parse(f))
<1>1. AllStored(f.servers)
  BY DEF Files, Sound, AllStored
<1>2. AllStored(migrate_v1(f.servers))
  <2> SUFFICES ASSUME NEW port \in Ports PROVE IsStored(migrate_v1(f.servers)[port])
    BY StoredPoolsArePools DEF migrate_v1
  <2> DEFINE kept == f.servers[port]
             new == migrate_v1(f.servers)[port]
  <2>1. IsStored(kept)
    BY <1>1, StoredPoolsArePools
  <2>2. kept.peers \in Seq(Entries(Exits, {"direct"})) /\ DOMAIN kept.peers = 1..Len(kept.peers)
        /\ Len(kept.peers) \in Nat /\ \A i \in DOMAIN kept.peers : kept.peers[i].peer \in Exits
    BY <2>1, PoolFacts DEF IsStored
  <2>3. kept \in [fp : Fingerprints \cup {Absent.fp}, peers : Seq(Entries(Exits, {"direct"}))]
    BY <2>1 DEF IsStored, IsPool, PoolsOver
  <2>4. /\ new.fp = kept.fp
        /\ new.peers = [i \in DOMAIN kept.peers |-> [peer |-> kept.peers[i].peer, addr |-> NoAddress]]
        /\ new = [fp |-> new.fp, peers |-> new.peers]
    BY <2>3 DEF migrate_v1
  <2>5. new.peers \in Seq(Entries(Exits, {"direct"}))
    <3>1. \A i \in DOMAIN kept.peers :
            [peer |-> kept.peers[i].peer, addr |-> NoAddress] \in Entries(Exits, {"direct"})
      BY <2>2 DEF Entries
    <3> HIDE DEF kept, new
    <3>2. new.peers \in [1..Len(kept.peers) -> Entries(Exits, {"direct"})]
      BY <2>2, <2>4, <3>1
    <3>3. QED BY <2>2, <3>2
  <2>6. WellFormed(new)
    <3>1. \A i \in DOMAIN new.peers : PeerAt(new, i) = PeerAt(kept, i)
      BY <2>4 DEF PeerAt
    <3>2. DOMAIN new.peers = DOMAIN kept.peers
      BY <2>4
    <3>3. ASSUME new.peers = <<>> PROVE new = Absent
      <4>1. kept.peers = <<>>
        BY <2>2, <3>2, <3>3
      <4>2. kept = Absent
        BY <2>1, <4>1 DEF IsStored, IsPool, WellFormed
      <4> QED BY <2>4, <3>3, <4>2 DEF Absent
    <3> QED BY <2>1, <3>1, <3>2, <3>3 DEF IsStored, IsPool, WellFormed
  <2> QED BY <2>3, <2>4, <2>5, <2>6 DEF IsStored, IsPool, PoolsOver
<1> QED BY <1>1, <1>2, NoPoolsStored DEF parse
-----------------------------------------------------------------------------
Histories == [Ports -> [Exits -> SUBSET {FindNodes(f) : f \in Wanted}]]

LEMMA TypedFacts ==
  TypeOK <=> /\ running \in BOOLEAN /\ config \in [Ports -> Wanted]
             /\ AllStored(pools) /\ saving \in {"no", "writing", "renaming"}
             /\ file \in Files /\ Sound(file) /\ tmp \in Files /\ Sound(tmp)
             /\ found \in Histories
BY DEF TypeOK, AllStored, Histories

LEMMA SpecialFiles ==
  NoFile \in Files /\ Sound(NoFile) /\ Torn \in Files /\ Sound(Torn)
<1>1. NoPools \in StoredPools /\ \A port \in Ports : WellFormed(NoPools[port])
  BY NoPoolsStored DEF AllStored
<1> QED BY <1>1 DEF NoFile, Torn, Files, Versions, Sound

LEMMA TypedInit == Init => TypeOK
<1> SUFFICES ASSUME Init PROVE TypeOK
  OBVIOUS
<1>1. file \in Files /\ Sound(file)
  BY FilesAreSound DEF Init
<1>2. tmp \in Files /\ Sound(tmp)
  BY SpecialFiles DEF Init
<1>3. AllStored(pools)
  BY NoPoolsStored DEF Init
<1>4. found \in Histories
  <2>1. ASSUME NEW port \in Ports, NEW p \in Exits
        PROVE  {FindNodes(f) : f \in {g \in Wanted :
                  /\ file.servers[port].fp = filter_fingerprint(port, g)
                  /\ Remembers(file.servers[port], p)}} \in SUBSET {FindNodes(f) : f \in Wanted}
    OBVIOUS
  <2> QED BY <2>1 DEF Init, Histories
<1> QED BY <1>1, <1>2, <1>3, <1>4, TypedFacts DEF Init

(* The pool of each port after an operation is one the port can have.      *)
LEMMA OperationsStored ==
  ASSUME TypeOK, NEW port \in Ports
  PROVE  /\ IsStored(Opened(pools[port], fingerprint(port)))
         /\ \A p \in Exits :
              /\ IsStored(Remember(pools[port], fingerprint(port), p, MaxTotal))
              /\ IsStored(NoteDirect(pools[port], p, "direct"))
              /\ IsStored(Forget(pools[port], p))
<1>1. IsStored(pools[port])
  BY TypedFacts, StoredPoolsArePools
<1>2. fingerprint(port) \in Fingerprints
  BY FingerprintIsTyped DEF fingerprint, TypeOK
<1> QED
  BY <1>1, <1>2, MaxTotalIsNatural, OpenedIsPool, RememberProperties, NoteDirectProperties,
     ForgetIsPool DEF IsStored

LEMMA OneChanged ==
  ASSUME TypeOK, NEW port \in Ports, NEW new, IsStored(new),
         pools' = [pools EXCEPT ![port] = new]
  PROVE  AllStored(pools')
<1>1. AllStored(pools)
  BY TypedFacts
<1>2. pools' = [l \in Ports |-> IF l = port THEN new ELSE pools[l]]
  BY <1>1 DEF AllStored, StoredPools
<1> QED BY <1>1, <1>2, StoredPoolsArePools

LEMMA TypedStep == TypeOK /\ [Next]_vars => TypeOK'
<1> SUFFICES ASSUME TypeOK, [Next]_vars PROVE TypeOK'
  OBVIOUS
<1>t. /\ running \in BOOLEAN /\ config \in [Ports -> Wanted]
      /\ AllStored(pools) /\ saving \in {"no", "writing", "renaming"}
      /\ file \in Files /\ Sound(file) /\ tmp \in Files /\ Sound(tmp)
      /\ found \in Histories
  BY TypedFacts
<1>h. TypeOK' <=> /\ running' \in BOOLEAN /\ config' \in [Ports -> Wanted]
                  /\ AllStored(pools') /\ saving' \in {"no", "writing", "renaming"}
                  /\ file' \in Files /\ Sound(file') /\ tmp' \in Files /\ Sound(tmp')
                  /\ found' \in Histories
  BY DEF TypeOK, AllStored, Histories
<1>1. CASE Load
  <2>1. AllStored(pools')
    BY <1>t, <1>1, ParseStored, NoPoolsStored DEF Load
  <2> QED BY <1>t, <1>h, <1>1, <2>1 DEF Load
<1>2. ASSUME NEW port \in Ports, pool(port)
      PROVE  TypeOK'
  <2>1. AllStored(pools')
    BY <1>2, OneChanged, OperationsStored DEF pool, Changes
  <2> QED BY <1>t, <1>h, <1>2, <2>1 DEF pool, Changes
<1>3. ASSUME NEW port \in Ports, NEW p \in Exits, remember(port, p)
      PROVE  TypeOK'
  <2>1. AllStored(pools')
    BY <1>3, OneChanged, OperationsStored DEF remember, Changes
  <2>2. found' \in Histories
    <3>1. FindNodes(config[port]) \in {FindNodes(f) : f \in Wanted}
      BY <1>t
    <3> QED BY <1>t, <1>3, <3>1 DEF remember, Histories
  <2> QED BY <1>t, <1>h, <1>3, <2>1, <2>2 DEF remember, Changes
<1>4. ASSUME NEW p \in Exits, note_direct_address(p)
      PROVE  TypeOK'
  <2>1. AllStored(pools')
    BY <1>4, OperationsStored, StoredPoolsArePools DEF note_direct_address, Changes
  <2> QED BY <1>t, <1>h, <1>4, <2>1 DEF note_direct_address, Changes
<1>5. ASSUME NEW port \in Ports, NEW p \in Exits, forget_peer(port, p)
      PROVE  TypeOK'
  <2>1. AllStored(pools')
    BY <1>5, OneChanged, OperationsStored DEF forget_peer, Changes
  <2> QED BY <1>t, <1>h, <1>5, <2>1 DEF forget_peer, Changes
<1>6. CASE WriteTmp
  <2>1. tmp' \in Files /\ Sound(tmp')
    BY <1>t, <1>6 DEF WriteTmp, Files, Versions, Sound, AllStored
  <2> QED BY <1>t, <1>h, <1>6, <2>1 DEF WriteTmp
<1>7. CASE WriteFails \/ RenameFails
  BY <1>t, <1>h, <1>7, SpecialFiles DEF WriteFails, RenameFails
<1>8. CASE Rename
  BY <1>t, <1>h, <1>8, SpecialFiles DEF Rename
<1>9. CASE Stop
  <2>1. tmp' \in {tmp, Torn}
    BY <1>9 DEF Stop
  <2> QED BY <1>t, <1>h, <1>9, <2>1, SpecialFiles, NoPoolsStored DEF Stop
<1>10. CASE UNCHANGED vars
  BY <1>t, <1>h, <1>10 DEF vars
<1> QED
  BY <1>1, <1>2, <1>3, <1>4, <1>5, <1>6, <1>7, <1>8, <1>9, <1>10 DEF Next, Operation, Save

(* Whatever file the program finds, and however often it stops or fails to *)
(* save, the pools in memory and in every file it can load are pools: no   *)
(* peer twice, and none without peers.                                     *)
THEOREM StoreTyped == Spec => []TypeOK
BY TypedInit, TypedStep, PTL DEF Spec
-----------------------------------------------------------------------------
(* A temporary file about to be renamed holds what is in memory; no save   *)
(* outlives the program.                                                   *)
TmpIsWhole ==
  /\ saving = "renaming" => tmp = [version |-> "2", servers |-> pools]
  /\ saving # "no" => running

LEMMA TmpIsWholeStep == TmpIsWhole /\ [Next]_vars => TmpIsWhole'
<1> SUFFICES ASSUME TmpIsWhole, [Next]_vars PROVE TmpIsWhole'
  OBVIOUS
<1>1. CASE Operation
  BY <1>1 DEF Operation, pool, remember, note_direct_address, forget_peer, Changes, TmpIsWhole
<1>2. CASE Save
  BY <1>2 DEF Save, WriteTmp, WriteFails, Rename, RenameFails, TmpIsWhole
<1>3. CASE Load \/ Stop \/ UNCHANGED vars
  BY <1>3 DEF Load, Stop, vars, TmpIsWhole
<1> QED BY <1>1, <1>2, <1>3 DEF Next

(* What the next start loads is changed by the completion of a save and by *)
(* nothing else, and then to all that is in memory.                        *)
THEOREM SavesAreWhole == Spec => SavedWhole
<1> DEFINE Whole == parse(file') # parse(file) => parse(file') = pools
<1>1. ASSUME TmpIsWhole, [Next]_vars
      PROVE  Whole
  <2>1. CASE Rename
    BY <1>1, <2>1 DEF Rename, TmpIsWhole, parse
  <2>2. CASE ~Rename
    <3>1. file' = file
      BY <1>1, <2>2
         DEF Next, Load, Operation, pool, remember, note_direct_address, forget_peer, Save, WriteTmp,
             WriteFails, RenameFails, Stop, vars
    <3> QED BY <3>1
  <2> QED BY <2>1, <2>2
<1>2. Init => TmpIsWhole
  BY DEF Init, TmpIsWhole
<1>3. TmpIsWhole /\ [Next]_vars => [Whole]_vars
  BY <1>1
<1> QED BY <1>2, <1>3, TmpIsWholeStep, PTL DEF Spec, SavedWhole
-----------------------------------------------------------------------------
(* Filters that share a fingerprint ask the hub for the same nodes.        *)
Unambiguous ==
  \A port \in Ports : \A f, g \in Wanted :
    filter_fingerprint(port, f) = filter_fingerprint(port, g) => FindNodes(f) = FindNodes(g)

(* Wherever a pool is kept, its members were found for its fingerprint.    *)
Affine(kept, port) ==
  \A f \in Wanted, p \in Exits :
    kept.fp = filter_fingerprint(port, f) /\ Remembers(kept, p) => FindNodes(f) \in found[port][p]

AllAffine(servers) == \A port \in Ports : Affine(servers[port], port)

Affinity == AllAffine(pools) /\ AllAffine(file.servers) /\ AllAffine(tmp.servers)

LEMMA NoPoolsAffine == AllAffine(NoPools)
BY DEF AllAffine, Affine, NoPools, Absent, Remembers

LEMMA ParsedAffine ==
  ASSUME NEW f \in Files, AllAffine(f.servers)
  PROVE  AllAffine(parse(f))
<1>1. AllAffine(migrate_v1(f.servers))
  <2> SUFFICES ASSUME NEW port \in Ports PROVE Affine(migrate_v1(f.servers)[port], port)
    BY DEF AllAffine
  <2> DEFINE kept == f.servers[port]
             new == migrate_v1(f.servers)[port]
  <2>1. kept \in [fp : Fingerprints \cup {Absent.fp}, peers : Seq(Entries(Exits, {"direct"}))]
    BY DEF Files, StoredPools, PoolsOver
  <2>2. /\ new.fp = kept.fp
        /\ new.peers = [i \in DOMAIN kept.peers |-> [peer |-> kept.peers[i].peer, addr |-> NoAddress]]
    BY <2>1 DEF migrate_v1
  <2>3. \A p : Remembers(new, p) => Remembers(kept, p)
    BY <2>2 DEF Remembers, PeerAt
  <2> QED BY <2>2, <2>3 DEF AllAffine, Affine
<1> QED BY <1>1, NoPoolsAffine DEF parse

(* Histories only grow, so what was affine stays so.                       *)
LEMMA HistoryGrows ==
  ASSUME TypeOK, [Next]_vars
  PROVE  \A port \in Ports, p \in Exits : found[port][p] \subseteq found'[port][p]
<1>1. CASE UNCHANGED found
  BY <1>1
<1>2. ASSUME NEW l \in Ports, NEW q \in Exits, remember(l, q)
      PROVE  \A port \in Ports, p \in Exits : found[port][p] \subseteq found'[port][p]
  BY <1>2 DEF remember, TypeOK
<1> QED
  BY <1>1, <1>2 DEF Next, Load, Operation, pool, note_direct_address, forget_peer, Save, WriteTmp,
                    WriteFails, Rename, RenameFails, Stop, vars

LEMMA OperationAffine ==
  ASSUME Unambiguous, TypeOK, AllAffine(pools), Operation
  PROVE  AllAffine(pools)'
<1>1. \A port \in Ports : IsStored(pools[port])
  BY TypedFacts, StoredPoolsArePools
<1>2. \A port \in Ports : fingerprint(port) \in Fingerprints /\ config[port] \in Wanted
  BY FingerprintIsTyped DEF fingerprint, TypeOK
<1>3. \A port \in Ports, p \in Exits : found[port][p] \subseteq found'[port][p]
  BY HistoryGrows DEF Next
<1>4. pools \in [Ports -> PoolsOver(Exits, {"direct"}, Fingerprints)]
  BY DEF TypeOK, StoredPools
<1> SUFFICES ASSUME NEW l \in Ports, NEW f \in Wanted, NEW q \in Exits,
                    pools'[l].fp = filter_fingerprint(l, f), Remembers(pools'[l], q)
             PROVE  FindNodes(f) \in found'[l][q]
  BY DEF AllAffine, Affine
<1>5. ASSUME Remembers(pools[l], q), pools'[l].fp = pools[l].fp
      PROVE  FindNodes(f) \in found'[l][q]
  BY <1>3, <1>5 DEF AllAffine, Affine
<1>6. ASSUME NEW port \in Ports, pool(port)
      PROVE  FindNodes(f) \in found'[l][q]
  <2>1. pools'[l] = pools[l] \/ pools'[l] = Absent
    BY <1>4, <1>6 DEF pool, Changes, Opened
  <2>2. pools'[l] # Absent
    BY DEF Absent, Remembers
  <2> QED BY <1>5, <2>1, <2>2
<1>7. ASSUME NEW port \in Ports, NEW p \in Exits, remember(port, p)
      PROVE  FindNodes(f) \in found'[l][q]
  <2>1. CASE l # port
    BY <1>4, <1>5, <1>7, <2>1 DEF remember, Changes
  <2>2. CASE l = port
    <3>1. pools'[l] = Remember(pools[l], fingerprint(l), p, MaxTotal)
      BY <1>4, <1>7, <2>2 DEF remember, Changes
    <3>2. pools'[l].fp = fingerprint(l)
      BY <3>1 DEF Remember
    <3>3. CASE q = p
      <4>1. FindNodes(config[l]) \in found'[l][q]
        BY <1>7, <2>2, <3>3 DEF remember, TypeOK
      <4>2. FindNodes(f) = FindNodes(config[l])
        BY <1>2, <3>2 DEF fingerprint, Unambiguous
      <4> QED BY <4>1, <4>2
    <3>4. CASE q # p
      <4>1. Remembers(pools[l], q) /\ pools[l].fp = fingerprint(l)
        BY <1>1, <1>2, <3>1, <3>4, MaxTotalIsNatural, RememberWithin DEF IsStored
      <4> QED BY <1>5, <3>2, <4>1
    <3> QED BY <3>3, <3>4
  <2> QED BY <2>1, <2>2
<1>8. ASSUME NEW p \in Exits, note_direct_address(p)
      PROVE  FindNodes(f) \in found'[l][q]
  <2>1. pools'[l] = NoteDirect(pools[l], p, "direct")
    BY <1>8 DEF note_direct_address, Changes
  <2>2. /\ pools'[l].fp = pools[l].fp
        /\ DOMAIN pools'[l].peers = DOMAIN pools[l].peers
        /\ \A i \in DOMAIN pools[l].peers : PeerAt(pools'[l], i) = PeerAt(pools[l], i)
    BY <1>1, <2>1, NoteDirectProperties DEF IsStored
  <2> QED BY <1>5, <2>2 DEF Remembers
<1>9. ASSUME NEW port \in Ports, NEW p \in Exits, forget_peer(port, p)
      PROVE  FindNodes(f) \in found'[l][q]
  <2>1. CASE l # port
    BY <1>4, <1>5, <1>9, <2>1 DEF forget_peer, Changes
  <2>2. CASE l = port
    <3>1. pools'[l] = Forget(pools[l], p)
      BY <1>4, <1>9, <2>2 DEF forget_peer, Changes
    <3> QED BY <1>1, <1>5, <3>1, ForgetWithin DEF IsStored
  <2> QED BY <2>1, <2>2
<1> QED BY <1>6, <1>7, <1>8, <1>9 DEF Operation

LEMMA AffinityStep ==
  ASSUME Unambiguous, TypeOK, Affinity, [Next]_vars
  PROVE  Affinity'
<1>1. \A port \in Ports, p \in Exits : found[port][p] \subseteq found'[port][p]
  BY HistoryGrows
<1>2. /\ AllAffine(pools) /\ AllAffine(file.servers) /\ AllAffine(tmp.servers)
  BY DEF Affinity
<1>3. ASSUME NEW port \in Ports, NEW P, Affine(P, port)
      PROVE  \A f \in Wanted, p \in Exits :
               P.fp = filter_fingerprint(port, f) /\ Remembers(P, p) => FindNodes(f) \in found'[port][p]
  BY <1>1, <1>3 DEF Affine
<1> DEFINE Later(servers) ==
      \A port \in Ports : \A f \in Wanted, p \in Exits :
        servers[port].fp = filter_fingerprint(port, f) /\ Remembers(servers[port], p)
          => FindNodes(f) \in found'[port][p]
<1>4. ASSUME NEW servers, AllAffine(servers) PROVE Later(servers)
  BY <1>3, <1>4 DEF AllAffine
<1>5. Later(pools) /\ Later(file.servers) /\ Later(tmp.servers) /\ Later(NoPools)
  <2> HIDE DEF Later
  <2> QED BY <1>2, <1>4, NoPoolsAffine
<1>6. Later(pools') /\ Later(file'.servers) /\ Later(tmp'.servers) => Affinity'
  BY DEF Affinity, AllAffine, Affine
<1>7. NoFile.servers = NoPools /\ Torn.servers = NoPools
  BY DEF NoFile, Torn
<1>8. CASE Load
  <2>1. Later(parse(file))
    <3>1. AllAffine(parse(file))
      BY <1>2, ParsedAffine DEF TypeOK
    <3> HIDE DEF Later
    <3> QED BY <1>4, <3>1
  <2> HIDE DEF Later
  <2> QED BY <1>5, <1>6, <1>8, <2>1 DEF Load
<1>9. CASE Operation
  <2>1. Later(pools')
    BY <1>2, <1>9, OperationAffine DEF AllAffine, Affine
  <2>2. UNCHANGED <<file, tmp>>
    BY <1>9 DEF Operation, pool, remember, note_direct_address, forget_peer
  <2> HIDE DEF Later
  <2> QED BY <1>5, <1>6, <2>1, <2>2
<1>10. CASE Save
  <2>1. UNCHANGED pools /\ file' \in {file, tmp}
        /\ tmp'.servers \in {pools, tmp.servers, NoPools}
    BY <1>7, <1>10 DEF Save, WriteTmp, WriteFails, Rename, RenameFails
  <2> HIDE DEF Later
  <2> QED BY <1>5, <1>6, <2>1
<1>11. CASE Stop
  <2>1. pools' = NoPools /\ file' = file /\ tmp'.servers \in {tmp.servers, NoPools}
    BY <1>7, <1>11 DEF Stop
  <2> HIDE DEF Later
  <2> QED BY <1>5, <1>6, <2>1
<1>12. CASE UNCHANGED vars
  BY <1>5, <1>6, <1>12 DEF vars
<1> QED BY <1>8, <1>9, <1>10, <1>11, <1>12 DEF Next

(* Unless two filters a port may have share a fingerprint while they ask   *)
(* for different nodes, an exit that is served from a pool was found for   *)
(* filters like the present ones, through any edits of Config.yaml,        *)
(* crashes and lost saves.                                                 *)
THEOREM AffinityKept == Unambiguous => (Spec => []AffinityMatchesFilters)
<1> SUFFICES ASSUME Unambiguous PROVE Spec => []AffinityMatchesFilters
  OBVIOUS
<1>1. Init => Affinity
  <2> SUFFICES ASSUME Init PROVE Affinity
    OBVIOUS
  <2>1. AllAffine(file.servers)
    BY DEF Init, AllAffine, Affine
  <2>2. pools = NoPools /\ tmp.servers = NoPools
    BY DEF Init, NoFile
  <2> QED BY <2>1, <2>2, NoPoolsAffine DEF Affinity
<1>2. TypeOK /\ Affinity /\ [Next]_vars => Affinity'
  BY AffinityStep
<1>3. TypeOK /\ Affinity => AffinityMatchesFilters
  <2> SUFFICES ASSUME TypeOK, Affinity, NEW port \in Ports, NEW p \in Exits,
                      p \in ToSet(MembersFor(pools[port], fingerprint(port)))
               PROVE  FindNodes(config[port]) \in found[port][p]
    BY DEF AffinityMatchesFilters
  <2>1. pools[port].fp = fingerprint(port) /\ Remembers(pools[port], p)
    <3>1. PICK i \in DOMAIN MembersFor(pools[port], fingerprint(port)) :
            p = MembersFor(pools[port], fingerprint(port))[i]
      BY DEF ToSet
    <3>2. pools[port].fp = fingerprint(port)
      <4>1. DOMAIN <<>> = {}
        BY EmptySeq, LenProperties
      <4> QED BY <3>1, <4>1 DEF MembersFor
    <3> QED BY <3>1, <3>2 DEF MembersFor, Remembers
  <2>2. config[port] \in Wanted
    BY DEF TypeOK
  <2> QED BY <2>1, <2>2 DEF Affinity, AllAffine, Affine, fingerprint
<1> QED BY <1>1, <1>2, <1>3, StoreTyped, PTL DEF Spec
-----------------------------------------------------------------------------
(* Texts without a bar that are not blank are one piece each.              *)
PlainFilters ==
  {f \in NodeFilters :
     \A option \in {f.country, f.city, f.isp, f.asn} :
       option = None \/ \E text \in STRING \ {""} : option = <<text>>}

FieldsJoined(s, w, x, y, z, a, b, c, d) ==
  s \o <<w>> \o <<x>> \o <<y>> \o <<z>> \o <<a, b, c, d>>

ReadsBack(t, w, x, y, z, a, b, c, d) ==
  /\ t[3] = w /\ t[4] = x /\ t[5] = y /\ t[6] = z
  /\ t[7] = a /\ t[8] = b /\ t[9] = c /\ t[10] = d

(* Four pieces between a head of two and a tail of four are read back where*)
(* they were written.                                                      *)
LEMMA ReadBack ==
  ASSUME NEW S, NEW s \in Seq(S), Len(s) = 2, NEW w \in S, NEW x \in S, NEW y \in S, NEW z \in S,
         NEW a \in S, NEW b \in S, NEW c \in S, NEW d \in S
  PROVE  ReadsBack(FieldsJoined(s, w, x, y, z, a, b, c, d), w, x, y, z, a, b, c, d)
<1> DEFINE One(e) == <<e>>
           Cat(e, f) == e \o f
           r == <<a, b, c, d>>
           s3 == Cat(s, One(w))
           s4 == Cat(s3, One(x))
           s5 == Cat(s4, One(y))
           s6 == Cat(s5, One(z))
           t == Cat(s6, r)
<1>1. t = FieldsJoined(s, w, x, y, z, a, b, c, d)
  BY DEF FieldsJoined
<1>r. r \in Seq(S) /\ Len(r) = 4 /\ r[1] = a /\ r[2] = b /\ r[3] = c /\ r[4] = d
  OBVIOUS
<1> HIDE DEF r
<1>2. \A e \in S : One(e) \in Seq(S) /\ Len(One(e)) = 1 /\ One(e)[1] = e
  OBVIOUS
<1>3. \A e, f \in Seq(S) :
        /\ Cat(e, f) \in Seq(S) /\ Len(Cat(e, f)) = Len(e) + Len(f)
        /\ \A i \in 1..(Len(e) + Len(f)) : Cat(e, f)[i] = IF i <= Len(e) THEN e[i] ELSE f[i - Len(e)]
  BY ConcatProperties
<1> HIDE DEF One, Cat
<1>4. /\ s3 \in Seq(S) /\ Len(s3) = Len(s) + Len(One(w))
      /\ \A i \in 1..(Len(s) + Len(One(w))) :
           s3[i] = IF i <= Len(s) THEN s[i] ELSE One(w)[i - Len(s)]
  BY <1>2, <1>3
<1> HIDE DEF s3
<1>5. s3 \in Seq(S) /\ Len(s3) = 3 /\ s3[3] = w
  <2>1. Len(One(w)) = 1 /\ One(w)[1] = w
    BY <1>2
  <2> QED BY <2>1, <1>4
<1>6. /\ s4 \in Seq(S) /\ Len(s4) = Len(s3) + Len(One(x))
      /\ \A i \in 1..(Len(s3) + Len(One(x))) :
           s4[i] = IF i <= Len(s3) THEN s3[i] ELSE One(x)[i - Len(s3)]
  BY <1>2, <1>3, <1>5
<1> HIDE DEF s4
<1>7. s4 \in Seq(S) /\ Len(s4) = 4 /\ s4[3] = w /\ s4[4] = x
  <2>1. Len(One(x)) = 1 /\ One(x)[1] = x
    BY <1>2
  <2> QED BY <2>1, <1>6, <1>5
<1>8. /\ s5 \in Seq(S) /\ Len(s5) = Len(s4) + Len(One(y))
      /\ \A i \in 1..(Len(s4) + Len(One(y))) :
           s5[i] = IF i <= Len(s4) THEN s4[i] ELSE One(y)[i - Len(s4)]
  BY <1>2, <1>3, <1>7
<1> HIDE DEF s5
<1>9. s5 \in Seq(S) /\ Len(s5) = 5 /\ s5[3] = w /\ s5[4] = x /\ s5[5] = y
  <2>1. Len(One(y)) = 1 /\ One(y)[1] = y
    BY <1>2
  <2> QED BY <2>1, <1>8, <1>7
<1>10. /\ s6 \in Seq(S) /\ Len(s6) = Len(s5) + Len(One(z))
      /\ \A i \in 1..(Len(s5) + Len(One(z))) :
           s6[i] = IF i <= Len(s5) THEN s5[i] ELSE One(z)[i - Len(s5)]
  BY <1>2, <1>3, <1>9
<1> HIDE DEF s6
<1>11. s6 \in Seq(S) /\ Len(s6) = 6 /\ s6[3] = w /\ s6[4] = x /\ s6[5] = y /\ s6[6] = z
  <2>1. Len(One(z)) = 1 /\ One(z)[1] = z
    BY <1>2
  <2> QED BY <2>1, <1>10, <1>9
<1>12. \A i \in 1..(Len(s6) + Len(r)) : t[i] = IF i <= Len(s6) THEN s6[i] ELSE r[i - Len(s6)]
  BY <1>3, <1>11, <1>r
<1> HIDE DEF t
<1>13. ReadsBack(t, w, x, y, z, a, b, c, d)
  BY <1>11, <1>12, <1>r DEF ReadsBack
<1> QED BY <1>1, <1>13

(* Where no country, city, ISP or AS text is blank or has a bar in it, a   *)
(* changed filter that asks the hub for other nodes changes the            *)
(* fingerprint: the joined fields cannot be taken for other fields.        *)
THEOREM PlainFiltersAreTold == Wanted \subseteq PlainFilters => Unambiguous
<1> SUFFICES ASSUME Wanted \subseteq PlainFilters,
                    NEW port \in Ports, NEW f \in Wanted, NEW g \in Wanted,
                    filter_fingerprint(port, f) = filter_fingerprint(port, g)
             PROVE  FindNodes(f) = FindNodes(g)
  BY DEF Unambiguous
<1> DEFINE Written(option) == IF option = None THEN "" ELSE option[1]
<1>1. "v2" \in STRING /\ "" \in STRING /\ Policies \subseteq STRING /\ port \in STRING
  BY TextsAreStrings, PortsAreNamed
<1>2. ASSUME NEW h \in Wanted, NEW option \in {h.country, h.city, h.isp, h.asn}
      PROVE  /\ Written(option) \in STRING /\ Field(option) = <<Written(option)>>
             /\ option = IF Written(option) = "" THEN None ELSE <<Written(option)>>
  <2>1. option = None \/ \E text \in STRING \ {""} : option = <<text>>
    BY <1>2 DEF PlainFilters
  <2>2. CASE option = None
    BY <1>1, <2>2 DEF Field
  <2>3. CASE option # None
    <3>1. PICK text \in STRING \ {""} : option = <<text>>
      BY <2>1, <2>3
    <3>2. Written(option) = text
      BY <2>3, <3>1
    <3> QED BY <2>3, <3>1, <3>2 DEF Field
  <2> QED BY <2>2, <2>3
<1> HIDE DEF Written
<1>3. ASSUME NEW h \in Wanted
      PROVE  LET t == filter_fingerprint(port, h)
             IN  /\ t[3] = Written(h.country) /\ t[4] = Written(h.city)
                 /\ t[5] = Written(h.isp) /\ t[6] = Written(h.asn)
                 /\ t[7] = h.bandwidth /\ t[8] = h.proxy /\ t[9] = h.mobile /\ t[10] = h.hosting
  <2>1. /\ h.bandwidth \in STRING /\ h.proxy \in STRING
        /\ h.mobile \in STRING /\ h.hosting \in STRING
    BY <1>1, WantedAreFilters DEF NodeFilters
  <2>2. filter_fingerprint(port, h) =
          <<"v2", port>> \o <<Written(h.country)>> \o <<Written(h.city)>> \o <<Written(h.isp)>>
            \o <<Written(h.asn)>> \o <<h.bandwidth, h.proxy, h.mobile, h.hosting>>
    BY <1>2 DEF filter_fingerprint
  <2> DEFINE head == <<"v2", port>>
             Texts == STRING
             w == Written(h.country)
             x == Written(h.city)
             y == Written(h.isp)
             z == Written(h.asn)
             a == h.bandwidth
             b == h.proxy
             c == h.mobile
             d == h.hosting
             t == filter_fingerprint(port, h)
             j == FieldsJoined(head, w, x, y, z, a, b, c, d)
  <2>3. head \in Seq(Texts) /\ Len(head) = 2
    BY <1>1, TuplesAreSequences
  <2>4. w \in Texts /\ x \in Texts /\ y \in Texts /\ z \in Texts
    BY <1>2
  <2>5. a \in Texts /\ b \in Texts /\ c \in Texts /\ d \in Texts
    BY <2>1
  <2>6. t = j
    BY <2>2 DEF FieldsJoined
  <2> HIDE DEF head, Texts, w, x, y, z, a, b, c, d, t
  <2>7. ReadsBack(j, w, x, y, z, a, b, c, d)
    BY <2>3, <2>4, <2>5, ReadBack
  <2> HIDE DEF j
  <2> QED BY <2>6, <2>7 DEF ReadsBack, t, w, x, y, z, a, b, c, d
<1>4. /\ Written(f.country) = Written(g.country) /\ Written(f.city) = Written(g.city)
      /\ Written(f.isp) = Written(g.isp) /\ Written(f.asn) = Written(g.asn)
      /\ f.bandwidth = g.bandwidth /\ f.proxy = g.proxy /\ f.mobile = g.mobile
      /\ f.hosting = g.hosting
  BY <1>3
<1>5. f.country = g.country /\ f.city = g.city /\ f.isp = g.isp /\ f.asn = g.asn
  BY <1>2, <1>4
<1> QED BY <1>4, <1>5 DEF FindNodes, requirements_from_filters
=============================================================================
