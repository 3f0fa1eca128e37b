------------------------------ MODULE FileSticky ------------------------------
(***************************************************************************)
(* The sticky store on disk (adapters/file_sticky.rs): pools in memory,    *)
(* saved after every operation by writing a temporary file and renaming    *)
(* it, best effort; loaded when the program starts, possibly with other    *)
(* filters in Config.yaml than the pools were built under.                 *)
(*                                                                         *)
(* The discovery actor owns the store and its calls are synchronous, so    *)
(* only the end of the program comes between the steps of a save.  A file  *)
(* is a version and the pools in it; a "torn" one is cut short.  The file  *)
(* system is external: a rename replaces the file in one step.  What is    *)
(* lost when the machine itself goes down, since nothing is flushed, is    *)
(* left out.                                                               *)
(***************************************************************************)
EXTENDS StickyPool, Filters

CONSTANTS
  Ports, Exits,
  Wanted,       \* the node filters Config.yaml may hold for a port
  MaxTotal,     \* pool.max_total
  FilesAtStart  \* what may be on disk before the first start

Versions == {"none", "torn", "1", "2", "other"}

StoredPools == [Ports -> PoolsOver(Exits, {"direct"}, Fingerprints)]
Files == [version : Versions, servers : StoredPools]

NoPools == [port \in Ports |-> Absent]
Torn == [version |-> "torn", servers |-> NoPools]
NoFile == [version |-> "none", servers |-> NoPools]

Sound(file) == \A port \in Ports : WellFormed(file.servers[port])

ASSUME WantedAreFilters == Wanted \subseteq NodeFilters
ASSUME PortsAreNamed == Ports \subseteq STRING
ASSUME MaxTotalIsNatural == MaxTotal \in Nat
ASSUME FilesAreSound == FilesAtStart \subseteq Files /\ \A file \in FilesAtStart : Sound(file)

VARIABLES
  running,  \* whether the program runs
  config,   \* the filters of each port, read when it started
  pools,    \* state
  saving,   \* how far the save of the operation in progress has come
  file,     \* sticky_peers.json
  tmp,      \* sticky_peers.json.tmp
  found     \* history: the requests under which a peer was ever remembered

vars == <<running, config, pools, saving, file, tmp, found>>

TypeOK ==
  /\ running \in BOOLEAN
  /\ config \in [Ports -> Wanted]
  /\ pools \in StoredPools /\ \A port \in Ports : WellFormed(pools[port])
  /\ saving \in {"no", "writing", "renaming"}
  /\ file \in Files /\ Sound(file) /\ tmp \in Files /\ Sound(tmp)
  /\ found \in [Ports -> [Exits -> SUBSET {FindNodes(f) : f \in Wanted}]]

fingerprint(port) == filter_fingerprint(port, config[port])

(* migrate_v1: one exit per port, without an address.                      *)
migrate_v1(servers) ==
  [port \in Ports |-> [servers[port] EXCEPT !.peers =
     [i \in DOMAIN @ |-> [peer |-> @[i].peer, addr |-> NoAddress]]]]

parse(f) ==
  CASE f.version = "2" -> f.servers
    [] f.version = "1" -> migrate_v1(f.servers)
    [] OTHER           -> NoPools

Init ==
  /\ running = FALSE
  /\ config \in [Ports -> Wanted]
  /\ pools = NoPools /\ saving = "no"
  /\ file \in FilesAtStart /\ tmp = NoFile
  /\ found = [port \in Ports |-> [p \in Exits |->
       {FindNodes(f) : f \in {g \in Wanted :
          /\ file.servers[port].fp = filter_fingerprint(port, g)
          /\ Remembers(file.servers[port], p)}}]]
-----------------------------------------------------------------------------
(***************************************************************************)
(* load: a file that is missing, cannot be read or makes no sense is no    *)
(* reason not to start.                                                    *)
(***************************************************************************)
Load ==
  /\ ~running /\ running' = TRUE
  /\ config' \in [Ports -> Wanted]
  /\ pools' \in {parse(file), NoPools}
  /\ UNCHANGED <<saving, file, tmp, found>>
-----------------------------------------------------------------------------
(***************************************************************************)
(* The operations: each changes the pools and saves.                       *)
(***************************************************************************)
Changes(new) == running /\ saving = "no" /\ pools' = new /\ saving' = "writing"

pool(port) ==
  /\ Changes([pools EXCEPT ![port] = Opened(@, fingerprint(port))])
  /\ UNCHANGED <<running, config, file, tmp, found>>

remember(port, p) ==
  /\ Changes([pools EXCEPT ![port] = Remember(@, fingerprint(port), p, MaxTotal)])
  /\ found' = [found EXCEPT ![port][p] = @ \cup {FindNodes(config[port])}]
  /\ UNCHANGED <<running, config, file, tmp>>

note_direct_address(p) ==
  /\ Changes([port \in Ports |-> NoteDirect(pools[port], p, "direct")])
  /\ UNCHANGED <<running, config, file, tmp, found>>

forget_peer(port, p) ==
  /\ Changes([pools EXCEPT ![port] = Forget(@, p)])
  /\ UNCHANGED <<running, config, file, tmp, found>>

Operation ==
  \E port \in Ports :
    \/ pool(port)
    \/ \E p \in Exits : remember(port, p) \/ note_direct_address(p) \/ forget_peer(port, p)
-----------------------------------------------------------------------------
(***************************************************************************)
(* save and save_best_effort.                                              *)
(***************************************************************************)
WriteTmp ==
  /\ saving = "writing" /\ saving' = "renaming"
  /\ tmp' = [version |-> "2", servers |-> pools]
  /\ UNCHANGED <<running, config, pools, file, found>>

(* A slip: the file is renamed whether or not it could be written.         *)
WriteFailsUnnoticed ==
  /\ saving = "writing" /\ saving' = "renaming"
  /\ tmp' \in {tmp, Torn}
  /\ UNCHANGED <<running, config, pools, file, found>>

(* A failed save is logged; the next operation saves everything again.     *)
WriteFails ==
  /\ saving = "writing" /\ saving' = "no"
  /\ tmp' \in {tmp, Torn}
  /\ UNCHANGED <<running, config, pools, file, found>>

Rename ==
  /\ saving = "renaming" /\ saving' = "no"
  /\ file' = tmp /\ tmp' = NoFile
  /\ UNCHANGED <<running, config, pools, found>>

RenameFails ==
  /\ saving = "renaming" /\ saving' = "no"
  /\ UNCHANGED <<running, config, pools, file, tmp, found>>

(* The program ends, in the middle of a save or not.                       *)
Stop ==
  /\ running /\ running' = FALSE
  /\ pools' = NoPools /\ saving' = "no"
  /\ tmp' \in {tmp} \cup IF saving = "writing" THEN {Torn} ELSE {}
  /\ UNCHANGED <<config, file, found>>

Save == WriteTmp \/ WriteFails \/ Rename \/ RenameFails

Next == Load \/ Operation \/ Save \/ Stop

Spec == Init /\ [][Next]_vars
-----------------------------------------------------------------------------
(* "Versioned, atomically-written JSON persistence" (file_sticky.rs:16-17):*)
(* what the next start would load is changed only by the completion of a   *)
(* save, and then to all that is in memory.  Failed saves, a stop between  *)
(* writing and renaming and what they leave in the temporary file change   *)
(* nothing.                                                                *)
SavedWhole == [][parse(file') # parse(file) => parse(file') = pools]_vars

(* "A config change invalidates the stale affinity instead of silently     *)
(* exiting through a peer that no longer matches" (config.rs:354-357): a   *)
(* peer of the pool that is served was remembered when the hub was asked   *)
(* for nodes of the same kind, in this run of the program or an earlier    *)
(* one, through crashes and lost saves.                                    *)
AffinityMatchesFilters ==
  running => \A port \in Ports, p \in Exits :
    p \in ToSet(MembersFor(pools[port], fingerprint(port)))
      => FindNodes(config[port]) \in found[port][p]
=============================================================================
