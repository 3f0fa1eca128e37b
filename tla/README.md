# p2proxy in TLA+

p2proxy is a SOCKS5 proxy daemon that sends its traffic through exit peers of a
libp2p network. Each configured *server* is a local port with rules for its exit:
an ordered list of pinned peers, or discovery by filters with a *sticky* pool of
remembered exits. This directory specifies how the program decides which exit a
port uses and keeps it supplied with one when connections come and go, how a
client's session uses that exit, what survives on disk, what the operator is shown,
and how the program starts and stops.

Source paths below leave out `src/crates/`. `PROJECT.json` gives, for every
definition that models code, the lines it stands for.

## The system

| component | state | operations | interacts with |
|---|---|---|---|
| sticky pool rules, `core/src/domain/sticky.rs` | per port: fingerprint, entries most recently used first, each with a direct address or none | `pool`, `remember`, `note_direct_address`, `forget_peer`, `direct_address`, `snapshot` | called by the effort and the actor |
| connection effort, `core/src/domain/connect.rs`, `selection.rs`, `circuit.rs` | local to one call: pass, rank, attempt, members left | `connect`: pinned passes, fight for the dropped exit, pool, discovery, dial races | hub queries, dials, sticky store |
| discovery actor, `p2proxy/src/runtime/discovery/` | active exit per port, throttle, pending timers, direct peers, sticky store | one handler per `DiscoveryEvent` | inbox fed by network, sessions, operator, its own timers; awaits efforts |
| network actor, `p2proxy/src/runtime/network/actor.rs` | swarm, pending dials, hub-link flags, ping strikes | commands, swarm events, ticks, shutdown | spawns a task per connection event towards discovery |
| SOCKS session, supervisor, stream manager, `runtime/session/`, `stream_manager.rs` | listeners; per session: the exit it read, what its client was told, a permit | ask for an exit, handshake, open a stream, relay, report an unfit exit, bill | discovery, network, interface |
| sticky file, `adapters/file_sticky.rs` | file, temporary file, pools in memory | load, migrate, save after each change | sticky pool rules |
| configuration and filters, `core/src/config.rs`, `filters.rs`, `network/requirements.rs` | immutable | parse, validate, fingerprint, hub request | everything |
| terminal interface, `p2proxy/src/tui/`, `adapters/channel_sink.rs` | screen state folded from events that may be dropped | reduce, move, pick an exit | event sink, discovery |
| start and stop, `main.rs`, `network/bootstrap.rs`, `driver.rs`, `adapters/keypair_identity.rs` | stage of `main`, its tasks, the token, the keypair file, the terminal | start, dial the hub, bind, drain, exit | starts and stops all of the above |
| rest: gRPC, backoff, test support | none that outlives a call | | |

What makes it hard: the discovery actor handles one event at a time but awaits a
whole effort inside a handler while connections come and go; every notification
is sent by a task of its own, so notifications may overtake each other; timers,
sessions and the operator ask for the same port independently; a peer may have
several connections, and each is announced by itself; the hub may fail or
misinform; dials race direct routes and relay circuits under timeouts; the sticky
pool is changed in the middle of flows that may end in several ways, and saved
while the program may stop; a session acts on an exit it read long ago; the
interface loses events and its rows move under the operator; tasks end, break and
are drained in any order. `PROJECT.json` lists these one by one, at their lines, with the property
that would notice, or the reason why none does.

What being correct means, per component:

- *sticky pool*: no peer twice, no empty pool left behind, bounded, the exit in
  use in front, nobody pruned who can be reached;
- *effort*: it returns; with the most preferred exit that can be reached; and
  leaves the pool that goes with its result;
- *discovery actor*: no port is forgotten while throttled; an exit that is gone is
  noticed; the pool agrees with the exit;
- *network actor*: dials are answered; dead peers are disconnected; a lost hub is
  noticed and redialed;
- *sessions*: permits are returned, only the exit that refused is reported, a client
  told of success too early is told of the failure, nobody waits for ever;
- *sticky file*: it changes only to all that is in memory, and no exit is served
  under filters it was not found under;
- *interface*: it shows no exit or route that is gone, its active exit has a row, and a
  key that moves the cursor lands on one;
- *start and stop*: mistakes fail loudly, the identity is kept, the terminal is put
  back, a shutdown ends, and a task that broke reaches the exit code, save where the cap
  cuts the drain of a shutdown that the interface or Ctrl-C asked for.

## Modules

```
StickyPool          operators on one pool               sticky.rs
  ConnectOutcome    what an effort may leave behind      connect.rs, as a promise
    ConnectSpec     ... as a one-step specification
    Connect         the effort, dial by dial             connect.rs   implements ConnectSpec
    Discovery       the actor and its surroundings       discovery/actor.rs, event.rs
    FileSticky        the store on disk                    file_sticky.rs
Filters               fingerprint and hub request          config.rs, requirements.rs
Network               dials, pings, hub link               network/actor.rs
Session               listeners, clients, permits          session/, stream_manager.rs
Ui                    events, rows, keys                   tui/, channel_sink.rs
Config                entries, country, validation         config.rs
  Startup             from the start to the exit code      main.rs, bootstrap.rs, driver.rs
PoolProofs <- ConnectProofs, DiscoveryProofs, FileStickyProofs
NetworkProofs, SessionProofs, UiProofs, StartupProofs
MCConnect, MCDiscovery, MCFileSticky, MCNetwork, MCSession, MCUi, MCStartup: instances for TLC
```

**StickyPool.** A pool is `[fp, peers]`; `Absent` is a port without one. The code
searches with `find`, `position` and `retain`, which agree because no peer occurs
twice (`WellFormed`); that this is preserved is checked and proved. Time stamps
are left out since nothing reads them.

**ConnectOutcome** describes, as a set of records `[peer, source, pool]`, all an
effort may return and the pool it may leave, as a function of server, pool and the
peer to avoid. **ConnectSpec** makes that a one-step specification, **Connect** is
the code: a variable `pc` for the flow, `back` for who awaits the current dial,
`tries`, `rank` and `todo` for the loops. `Connect` implements `ConnectSpec` with
the pool seen only once the call has returned (`Implements`). `Discovery` then uses
the outcome set for the effort it awaits, so the two fit together without being
explored in one state space.

A step of `Connect` runs from one dial to the next. A hub query belongs to the step
whose dial uses its answer. A dial is two steps, direct leg and relay leg, as
`dial` awaits the first before it starts the second. A route is a peer and a kind:
`direct`, `stale` (remembered and dead) or `circuit`. Pauses and status messages
are left out.

**Discovery.** `dest`, `pools`, `cooling` (`last_rediscovery` younger than the
cooldown), `pending`, `direct` are the actor's fields; `mail` is a bag of events,
since each is sent by its own task; `links` are the swarm's connections;
`handling`, `cause`, `todo`, `effort`, `reached` are the handler that runs, with
what it has left. One action per handler up to the point where it awaits an
effort, one for the end of the effort, and one per port for the loops of
`handle_peer_closed` and `handle_peer_unusable`. An effort's dial is reported by
`Establish`, so the peer adopted may lose its connection before the adoption.
`gaveUp` is a history variable: the ports whose last effort failed.

**Network.** Swarm events and their handlers are one action, because the swarm
moves only while the actor polls it. A connection is alive, silent or closing.
What libp2p does by itself is external: it dials the hub for circuits and queries,
and names the peer of a failed dial only if the address did (`HubNamed`).

**Session.** A session is its client. `stage` is where its task is between two
awaits, `exit` the peer it read once and keeps, `told` what its client was
answered, `free` the semaphores of the stream manager, `listed` and `billed` what
was sent to the interface and the network actor. The discovery actor appears
through `dest`, which changes at any time, and through what sessions send it
(`asked`, `unfit`); `Discovery` is the other side. A panic is a step of any
session.

**Filters.** A text is the sequence of its pieces between bars, as the bar is what
`filter_fingerprint` joins with and does not escape. So two requests that differ
may have one fingerprint here exactly if they may in the code: a blank city and no
city, or an ISP expression with a bar that moves into the next field.

**FileSticky.** The store's calls are synchronous and the actor owns it, so only the
end of the program comes between the steps of a save. `config` is read anew at each
start. `found` is a history variable: the hub requests under which a peer was ever
remembered. A file of version 1 has no addresses, whatever a record of it holds.

**Ui.** `queue` is the channel of the sink, `outside` what is really so; each step of
the surroundings emits what the code emits with it, and what finds no room is lost.
`lost` is a history variable: the last word on an exit or a connection that went
lost and was not followed by another. The fold of each event, the order of rows and
every key follow the code; positions count from 1.

**Config, Startup.** Parsing is what it does to a few kinds of text; a rejected text
yields the empty set. `main` is the stage of `main`, and each of its awaits ends a
step; `task` is its JoinSet; `broke` is a history variable. A kill at any point
leaves the disk as it is, and the next start reads it.

Definitions introduced by `A slip:` are not part of a specification. Each is a
plausible mistake in the definition that follows it, used to see that the property
aimed at it fails.

## Runs

| run | instance | shows |
|---|---|---|
| `effort` | 3 peers; pinned with and without fallback, sticky with either reconnect mode and two bounds, neither; six pools; a world where anything happens and one where nothing changes | `Implements`, `Terminates`: every end of an effort is one of `Outcomes`, and there is an end. `PinnedPreference`, `StickyPreference`, `ReachableMembersKept`: with reachability fixed and a truthful hub it adopts the best exit there is and prunes nobody who is reachable |
| `actor_rotating` | 1 port, 2 peers, sticky pool of 2; picks, requests, unfit reports, upgrades; four pools on disk | `ThrottledPortScheduled`, `PendingIsScheduled`, `ExitHeadsPool`, `DirectExitRemembered` |
| `actor_noticed` | 2 ports, one pinned and one with a pool of 1 | `DeadExitNoticed`: no exit without connection goes unnoticed on servers that never rotate |
| `actor_retried` | 1 port, 1 peer, fair | `ThrottledPortRetried`: a throttled port is given an exit or a failed effort |
| `session` | 2 clients of 1 port, an exit and a peer that refuses the protocol, cap configured as 0 (so 1), fair | `PermitsConserved`, `OnlyIncompatibleEvicted`, `ListedWhileServed`, `FailureTold`, `NobodyWaitsForEver` |
| `store` | 1 port, 2 peers, 3 sets of filters, pool of 2, five files at the first start | `SavedWhole`: failed saves and stops lose at most what was not saved; `AffinityMatchesFilters`: exits do not cross filters |
| `ui` | 2 servers, 2 peers, 1 session, a channel of 2, four worlds (exits, sessions, rows, modes) | `ActiveRowVisible`, `ShownExitServes`, `ShownRouteLives`, `CursorLandsOnRow` |
| `startup` | six configurations with and without mistakes, 2 starts, fair | `FiltersAsWritten`, `IdentityKept`, `TerminalRestored`, `FailureReported`, `StopsInTheEnd` |
| `network` | hub, 1 exit, 2 connections each, 1 caller, fair | `RetryArmed`, `HubLossNoticed`, `StrikesOfConnected`, `DialAnswered`, `DeadPeerBooted` |

Three runs end in a violation: the code does something else than a comment or the
documentation says. `PROJECT.json` quotes the statements.

| run | what happens |
|---|---|
| `actor_upgraded` | one of two connections closes and the port goes dark although its exit is connected |
| `actor_reordered` | `PeerConnected` arrives after the `PeerClosed` that followed it; the port rotates to a peer without a connection and nobody will tell |
| `network_stuck` | the default hub address names no peer, so the first failed redial leaves `bootstrap_dialing` set and the retry off |

### Seen while modelling, without a run

What follows is what the code does and the models contain. No property is stated
against it.

- *Effort and actor.* Discovery may adopt the peer that just dropped; only the pool
  skips it (`connect.rs:71-72` says discovery does). When the hub fails and a
  remembered address is stale, a member whose circuit works is pruned untried
  (against `connect.rs:304-305`). An unusable exit is forgotten and may be discovered
  by the effort that replaces it (against `actor.rs:166`). A hard pin does not always
  hold: a pool from before `destination_peers` was written keeps its fingerprint, and
  when one of its members connects directly a hard-pinned port on a relayed exit is
  rotated onto it (against `config.rs:178-179`). `discover` removes the pending mark
  while its timer sleeps, so timers of one port add up, harmlessly. After a failed
  effort nothing is scheduled; the port waits for a session to ask.
- *Sessions.* The handshake and `client_init` have no timeout, so a silent client or
  peer holds its session (and no permit). Each session of a dark port asks, and its
  request runs an effort even after it gave up. A panic between New and End leaves
  the session listed.
- *Store and filters.* Two filters share a fingerprint if a city is blank or a text
  has a bar in it. A pinned list is not part of it. The file is not flushed before
  the rename.
- *Interface.* Rows reorder when a port changes to an exit it only remembered: its first
  event enters it into the hub's list, and it moves up past the remembered ones
  (against `ui_state.rs:135-138`). Enter picks from the row as it is when the key is
  handled; if the rows changed after they were drawn, that is not the peer the operator
  saw. When the table has shrunk above the cursor no row is highlighted, and Enter does
  nothing, until a key moves the cursor. `active_destinations` is not
  "lock-step" with the destination (`ui_state.rs:86-87`) once an event is dropped or one of two connections closes;
  then "Disconnected" may show for a peer that is connected (`tui/mod.rs:554-557`).
  An error, or any effort's exit for the port, ends the "dialling" mark.
- *Start and stop.* A port that cannot be bound, or an interface that breaks, leaves
  the terminal raw. Nobody looks at the shutdown token during the start, and the
  reservation is awaited without a bound, so q may have no effect and only a second
  Ctrl-C ends the program. Whoever sends the first Identify is taken for the hub.
  `MAX_BOOTSTRAP_RETRIES` is announced as attempts and one more is made. An entry that
  "must end with /p2p" may have it anywhere. Two servers may be given one port, which
  fails at the second bind. An error met while draining is forgotten when the cap
  cuts the drain, and unless another ended the wait the program exits with 0 (against
  `tui/mod.rs:491-493`). The keypair is written in place, and a file that cannot be read is
  replaced. The listeners stay open while the program drains.

### Bounds

- *Loops of the effort.* `PinnedPasses` and `DiscoveryAttempts` are 2 where the code
  has 20, `ReconnectAttempts` is 3 as in the code. A pass reads nothing of the
  pass before but the counter, so two show first, next and last.
- *Peers.* Three in `Connect`: the one that dropped, another member, a stranger. Two
  in `Discovery`: the exit and its rival.
- *`MaxMail`* distinct events from the surroundings in the mail (2, and 3 for
  `actor_reordered`), *`MaxCopies`* equal ones (1). The bound holds back those who
  send, never the actor, and never its timers. Two events suffice for every
  overtaking of one by another while the handler of a third runs.
- *`MaxTimers`* 2 sleeping timers per port in `actor_rotating`: one more than intended.
  A third is not counted.
- *`MaxLinks`* 2 connections per peer where upgrades matter (circuit and direct).
- *Session*: two clients on one port compete for one permit and see each other's
  changes of the exit; ports share nothing but that. The cap of 0 shows the clamp.
- *Store*: three filters that differ in one field each, one with a bar in a text; two
  peers exceed no pool but reorder it; restarts are not bounded.
- *`Capacity`* 2 where `main.rs` has 200: both events of a handler fit, or one, or none.
  `Worlds` split what may happen, since an event or a key acts on few of the variables;
  exits and pools share one, as do pools and keys.
- *`MaxBootstrapRetries`* 2 where the code has 10; *`MaxStarts`* 2, the fresh start and one
  that meets what the first left.
- *`DialTimeout`* 2 ticks, *`PingStrikes`* 3 as in the code, *`MaxHubDials`* 2.

### Fairness

- *Connect*: `WF(Step)`. It is one task; each of its awaits (dial, hub query, sleep)
  has a timeout of its own.
- *Discovery*: `WF(Resume)`, a handler goes on since efforts return, which is
  `Terminates`; `WF(CooldownLapses)`, time passes; `SF(Handle(e))` per event, since
  the inbox is first in, first out and a task that wants to send gets to: an event
  of the bag is not overtaken for ever. Strong, because handling is disabled each
  time another handler runs. Swarm, sessions and operator owe nothing.
- *Network*: `WF` of the dial clock and its expiry (interval ticks), of pings on
  every connected peer, and of the close of a connection that was told to close.
  Connections, losses and commands owe nothing.
- *Session*: `WF` of the three timeouts of a session, of its report (the actor's inbox
  is drained) and of the end of an upload whose download has ended (`stop` wakes it).
  Clients, peers, discovery and sockets owe nothing, and a semaphore need not be fair.
- *Startup*: `WF(Main)`, `main` goes on where nothing outside holds it up and its sleeps
  and caps end; `WF(Ui)`, the interface looks at the token each time round its loop;
  `WF(DialAgain \/ Identified)`, a dial is answered or times out. The reservation, the
  actors and the operator owe nothing.

In `network`, `ui` and `startup` the system may stop (`Shutdown`, `Quit`, the last exit),
so deadlock is not an error there.

## Proofs

All for arbitrary constants. Assumed of them: `NoPeer` is no peer, `NoPort` no
port, the servers have the configuration's types (`ServersAreConfigured`,
`ServerIsConfigured`), the stored pools are ones this program could have saved
(`RememberedPoolsAreWellFormed`, `StoredPoolsAreWellFormed`, `FilesAreSound`), the bounds are
naturals or positive, the hub is no exit, clients are finitely many, configuration
files are sequences whose texts are what they say (a country that is known has a code, a
peer id is one part: `TextsAreWhatTheySay`), there is a server to show, and what the
interface's surroundings emit is of the configured ports and peers (`WorldsAreOfThese`).

- **PoolProofs** establishes what each pool operator preserves: a pool stays a
  pool (no peer twice, typed, never empty), `Remember` puts the peer in front within
  the bound, `NoteDirect` keeps the order, and `Forget` of another peer keeps the
  front. It lifts that to efforts: `OutcomesTyped`; `AdoptedExitLeads`, every branch that
  adopts an exit for an unpinned sticky server leaves it in front; and `OutcomesKeep`,
  an effort brings no entry into a pool but the adopted peer's. The effort tries members
  one at a time, its promise says what is left after k of them, and
  `TriedInVainForgets` and `TriedInVainPassesOver` tie the two together.
- **ConnectProofs**: `TypeInvariant`, `Implementation`, `PinnedFirst`, `StickyFirst`,
  `NothingPrunedInVain`, from one invariant,
  `IInv == TypeOK /\ Returns /\ Progress /\ Aim /\ Told /\ Preferences`.
  - `Progress` says for each stage what the pool is: untouched before the fight for the
    dropped exit, without that exit after it, and in the loop over members the outcome
    of k vain attempts for the same k at which `todo` goes on. With it each way to
    conclude is one of `Outcomes`, which is `Implementation`; no other step shows
    anything, since the promise sees the pool only once the call has returned.
  - `Aim`: a dial on behalf of a known peer has routes to that peer only, so whoever
    answers is that peer.
  - `Told` is what a steady world adds. A dial missed says that its target cannot be
    reached (`DialTold`, which needs that relay circuits are still ahead when the direct
    leg has failed); then so do the ranks, the dropped exit and the members passed
    (`RanksTold`, `PinsTold`, `DroppedTold`, `TriedUpTo`), and only the
    unreachable were forgotten (`MembersKept`).
- **DiscoveryProofs**
  - `TypeCorrect`: `Spec => []TypeOK`; the pools by the lemmas above.
  - `PendingScheduled`, `ThrottledPortsScheduled`. The latter is not inductive: a
    second throttled close spawns no timer if the pending mark is there, so the
    mark must imply a timer or its event; and a handler must not begin while an
    effort runs. The invariant is `Kept == Idle /\ PendingIsScheduled /\
    ThrottledPortScheduled`. The event that is received is the only one that
    leaves, and if it was the `DiscoverFor` the port is being served from then on.
  - `ExitsHeadPools`. Within the handler of an unusable peer the exit is already
    out of the pool; `ExitLeads` therefore exempts ports that handler has yet to
    serve (`Settled`), and holds in every other state, not only between handlers.
  - `DirectExitsRemembered`. The property is about exits once the mail is read; the
    invariant (`Addressed`) about every entry of every pool at every moment: one without
    an address, of a peer believed to be direct, is of a peer whose `PeerConnected` is still
    to be handled. Who an effort reached has such an event waiting (`ReachedAnnounced`).
  - `SteadyExitsNoticed`, `DeadExitsNoticed`. The invariant (`Noticed`) says of every exit,
    and of the peer an effort has reached but not adopted, that it is connected, its
    `PeerClosed` is in the mail, or a handler has the port before it. Every step keeps it
    except a rotation caused by a `PeerConnected` that was overtaken by its
    `PeerClosed`; that this one breaks it is what `actor_reordered` shows. So the
    theorem comes twice: under `NeverRotates`, a condition on the configuration alone
    (each port has a pool of one, or is strictly pinned or not sticky with an empty pool
    and an operator who does not pick), which `actor_noticed` meets; and for all
    configurations under `[][RotatesInTime]_vars`, which forbids that rotation and no
    other step.
- **NetworkProofs**: `NetworkTyped`, `RetryStaysArmed` (given `HubNamed`; without it
  `network_stuck` is the counterexample), `HubLossIsNoticed`, `StrikesAreOfConnected`.
  The last two need that going silent and being told to close keep the number of
  connections.
- **SessionProofs**
  - `PermitsAreConserved`, `SessionTypes`. Conservation needs no more than types, and
    the upper bound of `free` in `TypeOK` follows from it; so the induction runs over
    `Typed`, which has no bound, and conservation. A step moves at most one client in
    or out of the set of openers.
  - `ReportsAreTrue`: a session in `evicting` has an exit that refuses (`Refused`), and
    the exit it read never changes after.
  - `ListingIsTrue`, `FailuresAreTold`: what a client was told and whether it is listed
    are functions of its stage (`ToldByStage`, `ListedByStage`).
- **FileStickyProofs**
  - `StoreTyped`, by the lemmas on pools; `SavesAreWhole`: while `saving` is
    `"renaming"`, the temporary file holds all that is in memory (`TmpIsWhole`).
  - `AffinityKept`, under `Unambiguous`: filters with one fingerprint make one request.
    The invariant says of the memory and of both files that whoever is in a pool was
    found under every request of the pool's fingerprint. `PlainFiltersAreTold` proves
    the assumption for filters whose texts have no bar and are not blank.
- **StartupProofs**: `StartTyped`, `TerminalsAreRestored`, `FailuresAreReported`,
  `IdentitiesAreKept`. The invariant: no task outlives the process, none but the
  interface runs before the wiring; a raw terminal belongs to an interface that runs
  or broke (`RawIsUi`); what broke is still unjoined or among the errors
  (`BreaksKnown`); without an interface and a Ctrl-C, only a failed start or the task that
  broke first cancels the token (`StopsUnasked`), so that even the cap reports it; a keypair
  is saved only if none could be read (`NewWhenUnread`).
  - `ConfigAsWritten` goes through the parser: `FromMultiaddr` and `FromStr` say what an
    entry's text yields, `ServerAsWritten` that a server none of whose texts is refused
    reads as written. The invariant is that the configuration in use is one its file
    yields (`ConfigRead`).
- **UiProofs**: `CursorsLandOnRows`. The cursor that rests is nowhere or in the open table
  of the selected server (`CursorInOpenTable`), at a row the table may have lost since; a
  key that moves it clamps it to the rows there are.
  `RoutesShownLive` and `ExitsShownServe`, for a channel of any capacity: the invariant
  (`Told`) says that what the screen shows, and what each event still queued will have it
  show, is so or is taken back by an event behind it or by one that was dropped.
  - `UiTyped` and `ActiveRowsAreVisible` share the invariant `Typed`. Each event in the
    channel carries what its kind does (`AllWellFormed`), and the active exit of a port is
    in the list the hub gave for it (`ActiveListed`), never only among the remembered
    ones: a remembered list replaced would take the row away. That it then has a row is
    the lemma `SortedIs`: sorting by places loses no item, adds none and repeats none,
    since no two places have one rank.

Only model-checked:

- Every invariant and every action property of the passing runs is stated by a theorem,
  some under the conditions named above (`HubNamed`, `Unambiguous`, `NeverRotates`).
  What needs fairness is out of the prover's reach: `Terminates`,
  `ThrottledPortRetried`, `DialAnswered`, `DeadPeerBooted`, `NobodyWaitsForEver`,
  `StopsInTheEnd`.

No module that is proved about has a recursive operator; where the code filters or sorts a
list the model does so by its indices, since the provers cannot see into `SelectSeq`.

## Not modelled

- Rendering, traffic charts, animations, logs and their export, metrics, wording, the
  bytes of sessions, signatures.
- Configuration beyond pinned entries, country and validation: the other fields are
  taken as parsed.
- Time stamps of pool entries; back-off delays (any time may pass).
- What a failing machine, rather than a stopped program, leaves of a file.
- libp2p and the file system, from whose use the external definitions are taken.

## Plan

1. `Network`: connections with strikes of their own, for a peer that is silent on one
   of two.
2. The composition of `Session` with `Discovery`: a request that outlives its session is
   an effort of its own.
3. `Config`: units of bandwidth, the defaults and the pool's bounds; `Backoff` with its
   saturation.
