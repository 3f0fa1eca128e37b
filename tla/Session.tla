------------------------------- MODULE Session -------------------------------
(***************************************************************************)
(* The SOCKS sessions: the listener of each port and its supervisor        *)
(* (runtime/session/supervisor.rs), one task per accepted client           *)
(* (runtime/session/relay.rs) and the cap on concurrent opens per peer     *)
(* (runtime/stream_manager.rs).                                            *)
(*                                                                         *)
(* A session is identified by its client, who connects once.  The client,  *)
(* the peer at the other end, the discovery actor and the listening socket *)
(* are the surroundings.  The discovery actor is seen through the port's   *)
(* destination, which it may change at any time, and through the requests  *)
(* and reports it is sent; Discovery models what it does with them.        *)
(*                                                                         *)
(* Left out: session ids, targets, byte counts and hashes.  The step that  *)
(* ends with a reply includes the reply; one the client no longer reads    *)
(* is written all the same.                                                *)
(***************************************************************************)
EXTENDS Integers, Sequences, FiniteSets

CONSTANTS
  Clients, Ports, Peers, NoPeer,
  MaxConcurrent,  \* pool.max_total, the largest of all servers
  Incompatible    \* the peers that do not speak the proxy protocol

ASSUME PeersAreReal == NoPeer \notin Peers
ASSUME ClientsAreFinite == IsFiniteSet(Clients)
ASSUME MaxConcurrentIsNatural == MaxConcurrent \in Nat

VARIABLES
  dest,      \* destination: the exit of each port, or NoPeer
  listener,  \* per port: "accepting", "resting" for 1 s, or "lost"
  stage,     \* where the session of a client is
  port,      \* the port its client connected to
  exit,      \* `peer`: the exit it read or was given, once
  told,      \* what its client has been answered
  asked,     \* clients whose RequestNewPeer the discovery actor still has
  unfit,     \* peers reported with PeerUnusable and not yet dropped
  free,      \* per peer, the permits its semaphore has left
  up, down,  \* whether the upload and the download of a relay still run
  listed,    \* sessions announced by New and not yet by End
  billed     \* sessions whose bandwidth report was sent

discovery == <<dest, asked, unfit>>
relaying == <<up, down, listed, billed>>
session == <<stage, port, exit, told>>
vars == <<discovery, listener, session, free, relaying>>

Serving == {"asking", "greeting", "requesting", "queueing", "opening", "evicting",
            "initiating", "relaying", "reporting"}
Stages == Serving \cup {"absent", "over", "panicked"}
Answers == {"NoAcceptableMethods", "Succeeded", "GeneralFailure"}

Permits == IF MaxConcurrent < 1 THEN 1 ELSE MaxConcurrent

TypeOK ==
  /\ dest \in [Ports -> Peers \cup {NoPeer}]
  /\ listener \in [Ports -> {"accepting", "resting", "lost"}]
  /\ stage \in [Clients -> Stages]
  /\ port \in [Clients -> Ports]
  /\ exit \in [Clients -> Peers \cup {NoPeer}]
  /\ \A c \in Clients :
       stage[c] \in {"queueing", "opening", "evicting", "initiating"} => exit[c] \in Peers
  /\ told \in [Clients -> Seq(Answers)]
  /\ asked \subseteq Clients /\ unfit \subseteq Peers
  /\ free \in [Peers -> 0..Permits]
  /\ up \subseteq Clients /\ down \subseteq Clients
  /\ listed \subseteq Clients /\ billed \subseteq Clients

(* main.rs binds each port before it asks for the port's first discovery;  *)
(* a semaphore is made when its peer is first wanted.                      *)
Init ==
  /\ dest = [l \in Ports |-> NoPeer]
  /\ listener = [l \in Ports |-> "accepting"]
  /\ stage = [c \in Clients |-> "absent"]
  /\ port \in [Clients -> Ports]
  /\ exit = [c \in Clients |-> NoPeer]
  /\ told = [c \in Clients |-> <<>>]
  /\ asked = {} /\ unfit = {}
  /\ free = [p \in Peers |-> Permits]
  /\ up = {} /\ down = {} /\ listed = {} /\ billed = {}

Moves(c, to) == stage' = [stage EXCEPT ![c] = to]
Tells(c, answer) == told' = [told EXCEPT ![c] = Append(@, answer)]
Reads(c, p) == exit' = [exit EXCEPT ![c] = p]
-----------------------------------------------------------------------------
(***************************************************************************)
(* supervise and accept_loop.  A loop that returns on an accept error, or  *)
(* panics, keeps its socket for one more second; then the port is bound    *)
(* anew, and bound again every 5 s until that succeeds.                    *)
(***************************************************************************)
Accept(c) ==
  /\ listener[port[c]] = "accepting" /\ stage[c] = "absent"
  /\ IF dest[port[c]] = NoPeer
     THEN Moves(c, "asking") /\ asked' = asked \cup {c} /\ UNCHANGED exit
     ELSE Moves(c, "greeting") /\ Reads(c, dest[port[c]]) /\ UNCHANGED asked
  /\ UNCHANGED <<dest, unfit, listener, port, told, free, relaying>>

AcceptFails(l) ==
  /\ listener[l] = "accepting"
  /\ listener' = [listener EXCEPT ![l] = "resting"]
  /\ UNCHANGED <<discovery, session, free, relaying>>

Rebind(l) ==
  /\ listener[l] \in {"resting", "lost"}
  /\ listener' = [listener EXCEPT ![l] = "accepting"]
  /\ UNCHANGED <<discovery, session, free, relaying>>

RebindFails(l) ==
  /\ listener[l] \in {"resting", "lost"}
  /\ listener' = [listener EXCEPT ![l] = "lost"]
  /\ UNCHANGED <<discovery, session, free, relaying>>
-----------------------------------------------------------------------------
(***************************************************************************)
(* run_session: a port without an exit has the session ask for one.  After *)
(* 30 s the session gives up; its request stays with the actor, whose      *)
(* answer then finds nobody.                                               *)
(***************************************************************************)
(* A slip: an answer is taken for an exit, whatever it says.               *)
AnswerUnchecked(c) ==
  /\ c \in asked /\ asked' = asked \ {c}
  /\ \E p \in Peers \cup {NoPeer} :
       /\ dest' = [dest EXCEPT ![port[c]] = p]
       /\ IF stage[c] # "asking" THEN UNCHANGED <<stage, exit>>
          ELSE Moves(c, "greeting") /\ Reads(c, p)
  /\ UNCHANGED <<unfit, listener, port, told, free, relaying>>

Answer(c) ==
  /\ c \in asked /\ asked' = asked \ {c}
  /\ \E p \in Peers \cup {NoPeer} :
       /\ dest' = [dest EXCEPT ![port[c]] = p]
       /\ IF stage[c] # "asking" THEN UNCHANGED <<stage, exit, told>>
          ELSE IF p = NoPeer
               THEN Moves(c, "over") /\ Tells(c, "GeneralFailure") /\ UNCHANGED exit
               ELSE Moves(c, "greeting") /\ Reads(c, p) /\ UNCHANGED told
  /\ UNCHANGED <<unfit, listener, port, free, relaying>>

(* A slip: only the sending of the request is timed, not its answer.       *)
GiveUpSending(c) ==
  /\ stage[c] = "asking" /\ c \notin asked
  /\ Moves(c, "over") /\ Tells(c, "GeneralFailure")
  /\ UNCHANGED <<discovery, listener, port, exit, free, relaying>>

GiveUpAsking(c) ==
  /\ stage[c] = "asking"
  /\ Moves(c, "over") /\ Tells(c, "GeneralFailure")
  /\ UNCHANGED <<discovery, listener, port, exit, free, relaying>>

(* The exit of a port changes for reasons of its own, or because the actor *)
(* has come to a report and rediscovers for the ports that peer serves.    *)
Redirect(l) ==
  /\ \E p \in Peers \cup {NoPeer} : dest' = [dest EXCEPT ![l] = p]
  /\ UNCHANGED <<asked, unfit, listener, session, free, relaying>>

DropUnfit(p) ==
  /\ p \in unfit /\ unfit' = unfit \ {p}
  /\ \E q \in Peers \cup {NoPeer} :
       dest' = [l \in Ports |-> IF dest[l] = p THEN q ELSE dest[l]]
  /\ UNCHANGED <<asked, listener, session, free, relaying>>
-----------------------------------------------------------------------------
(***************************************************************************)
(* The first half of handle_socks_connection: the client greets and makes  *)
(* its request, and is told of success before any stream to the exit.      *)
(***************************************************************************)
ClientFails(c) ==
  /\ stage[c] \in {"greeting", "requesting"}
  /\ Moves(c, "over")
  /\ UNCHANGED <<discovery, listener, port, exit, told, free, relaying>>

Greet(c) ==
  /\ stage[c] = "greeting" /\ Moves(c, "requesting")
  /\ UNCHANGED <<discovery, listener, port, exit, told, free, relaying>>

RefuseMethods(c) ==
  /\ stage[c] = "greeting" /\ Moves(c, "over") /\ Tells(c, "NoAcceptableMethods")
  /\ UNCHANGED <<discovery, listener, port, exit, free, relaying>>

Request(c) ==
  /\ stage[c] = "requesting" /\ Moves(c, "queueing") /\ Tells(c, "Succeeded")
  /\ UNCHANGED <<discovery, listener, port, exit, free, relaying>>
-----------------------------------------------------------------------------
(***************************************************************************)
(* PeerStreamManager::open: one timeout to get a permit, the same again to *)
(* open the stream.  The permit is returned however that ends.             *)
(***************************************************************************)
Acquire(c) ==
  /\ stage[c] = "queueing" /\ free[exit[c]] > 0
  /\ Moves(c, "opening") /\ free' = [free EXCEPT ![exit[c]] = @ - 1]
  /\ UNCHANGED <<discovery, listener, port, exit, told, relaying>>

AcquireTimesOut(c) ==
  /\ stage[c] = "queueing"
  /\ Moves(c, "over") /\ Tells(c, "GeneralFailure")
  /\ UNCHANGED <<discovery, listener, port, exit, free, relaying>>

Release(c) == free' = [free EXCEPT ![exit[c]] = @ + 1]

Opened(c) ==
  /\ stage[c] = "opening" /\ exit[c] \notin Incompatible
  /\ Moves(c, "initiating") /\ Release(c)
  /\ UNCHANGED <<discovery, listener, port, exit, told, relaying>>

(* map_open_error: the one error that is terminal for the peer.            *)
Unsupported(c) ==
  /\ stage[c] = "opening" /\ exit[c] \in Incompatible
  /\ Moves(c, "evicting") /\ Release(c)
  /\ UNCHANGED <<discovery, listener, port, exit, told, relaying>>

(* A slip: the permit goes with the time-out.                              *)
OpenFailsHolding(c) ==
  /\ stage[c] = "opening"
  /\ Moves(c, "over") /\ Tells(c, "GeneralFailure")
  /\ UNCHANGED <<discovery, listener, port, exit, free, relaying>>

(* A slip: the client is left with the success it was told.                *)
OpenFailsQuietly(c) ==
  /\ stage[c] = "opening"
  /\ Moves(c, "over") /\ Release(c)
  /\ UNCHANGED <<discovery, listener, port, exit, told, relaying>>

(* An error of the connection, or the time-out: not the peer's for good.   *)
OpenFails(c) ==
  /\ stage[c] = "opening"
  /\ Moves(c, "over") /\ Tells(c, "GeneralFailure") /\ Release(c)
  /\ UNCHANGED <<discovery, listener, port, exit, relaying>>

(* A slip: the exit the port has by now is reported.                       *)
EvictCurrent(c) ==
  /\ stage[c] = "evicting"
  /\ unfit' = unfit \cup ({dest[port[c]]} \ {NoPeer})
  /\ Moves(c, "over") /\ Tells(c, "GeneralFailure")
  /\ UNCHANGED <<dest, asked, listener, port, exit, free, relaying>>

(* The peer is reported before the client is answered: the report waits    *)
(* for room in the actor's inbox.                                          *)
Evict(c) ==
  /\ stage[c] = "evicting"
  /\ unfit' = unfit \cup {exit[c]}
  /\ Moves(c, "over") /\ Tells(c, "GeneralFailure")
  /\ UNCHANGED <<dest, asked, listener, port, exit, free, relaying>>
-----------------------------------------------------------------------------
(***************************************************************************)
(* The second half: client_init, relay and report_bandwidth.  The peer's   *)
(* end of the download is authoritative and stops the upload; an upload    *)
(* that ends leaves the download alone.                                    *)
(***************************************************************************)
Initiate(c) ==
  /\ stage[c] = "initiating"
  /\ Moves(c, "relaying")
  /\ listed' = listed \cup {c}
  /\ \E split \in BOOLEAN :
       IF split THEN up' = up \cup {c} /\ down' = down \cup {c} ELSE UNCHANGED <<up, down>>
  /\ UNCHANGED <<discovery, listener, port, exit, told, free, billed>>

InitiateFails(c) ==
  /\ stage[c] = "initiating" /\ Moves(c, "over")
  /\ UNCHANGED <<discovery, listener, port, exit, told, free, relaying>>

EndUpload(c) ==
  /\ c \in up /\ stage[c] = "relaying" /\ up' = up \ {c}
  /\ UNCHANGED <<discovery, listener, session, free, down, listed, billed>>

EndDownload(c) ==
  /\ c \in down /\ stage[c] = "relaying" /\ down' = down \ {c}
  /\ UNCHANGED <<discovery, listener, session, free, up, listed, billed>>

(* A slip: the session goes when its download does.                        *)
EndRelayEarly(c) ==
  /\ stage[c] = "relaying" /\ c \notin down
  /\ Moves(c, "over")
  /\ UNCHANGED <<discovery, listener, port, exit, told, free, relaying>>

EndRelay(c) ==
  /\ stage[c] = "relaying" /\ c \notin up \cup down
  /\ Moves(c, "reporting") /\ listed' = listed \ {c}
  /\ UNCHANGED <<discovery, listener, port, exit, told, free, up, down, billed>>

(* A report that cannot be built or signed is not sent.                    *)
ReportBandwidth(c) ==
  /\ stage[c] = "reporting" /\ Moves(c, "over")
  /\ billed' \in {billed, billed \cup {c}}
  /\ UNCHANGED <<discovery, listener, port, exit, told, free, up, down, listed>>

(* A panic is caught around the session's task; dropping the task returns  *)
(* what it holds.                                                          *)
Panic(c) ==
  /\ stage[c] \in Serving /\ Moves(c, "panicked")
  /\ IF stage[c] = "opening" THEN Release(c) ELSE UNCHANGED free
  /\ UNCHANGED <<discovery, listener, port, exit, told, relaying>>
-----------------------------------------------------------------------------
TimeOut(c) == GiveUpAsking(c) \/ AcquireTimesOut(c) \/ OpenFails(c)

Progress(c) ==
  \/ Accept(c) \/ ClientFails(c) \/ Greet(c) \/ RefuseMethods(c) \/ Request(c)
  \/ Acquire(c) \/ Opened(c) \/ Unsupported(c) \/ Evict(c)
  \/ Initiate(c) \/ InitiateFails(c) \/ EndUpload(c) \/ EndDownload(c)
  \/ EndRelay(c) \/ ReportBandwidth(c)

Listen(l) == AcceptFails(l) \/ Rebind(l) \/ RebindFails(l)

Next ==
  \/ \E c \in Clients : Progress(c) \/ TimeOut(c) \/ Answer(c) \/ Panic(c)
  \/ \E l \in Ports : Listen(l) \/ Redirect(l)
  \/ \E p \in Peers : DropUnfit(p)

Spec == Init /\ [][Next]_vars

(* The three time-outs fire; a report finds room in the actor's inbox; an  *)
(* upload that the download's end has stopped ends.  Clients, peers, the   *)
(* actor and the listening sockets owe nothing.                            *)
Fairness ==
  \A c \in Clients :
    /\ WF_vars(TimeOut(c)) /\ WF_vars(Evict(c))
    /\ WF_vars(c \notin down /\ EndUpload(c))
    /\ WF_vars(EndRelay(c)) /\ WF_vars(ReportBandwidth(c))

FairSpec == Spec /\ Fairness
-----------------------------------------------------------------------------
Opening(p) == {c \in Clients : stage[c] = "opening" /\ exit[c] = p}

(* "The cap just prevents a single peer from being hammered",              *)
(* stream_manager.rs:14-17: no way an open can end, by success, error,     *)
(* time-out or panic, loses a permit or returns one twice.                 *)
PermitsConserved == \A p \in Peers : free[p] + Cardinality(Opening(p)) = Permits

(* A report of an unfit peer makes discovery forget it everywhere.  It is  *)
(* made long after the session read its exit, and the port may have moved  *)
(* on: the peer reported is the one that refused, never one that timed out *)
(* or one that took its place.                                             *)
OnlyIncompatibleEvicted == unfit \subseteq Incompatible

(* Success is told before the stream exists (relay.rs:87-91): a client for *)
(* which none could be opened is told of the failure before it is let go.  *)
FailureTold ==
  [][\A c \in Clients :
       stage[c] \in {"queueing", "opening", "evicting"} /\ stage'[c] = "over"
         => told'[c] = <<"Succeeded", "GeneralFailure">>]_vars

(* The interface lists a session from New to End (relay.rs:115-135): one   *)
(* that is gone is not listed, nor is it still copying, unless it          *)
(* panicked; and only one that relayed, and is no longer, has been billed. *)
ListedWhileServed ==
  \A c \in Clients :
    /\ stage[c] = "over" => c \notin listed \cup up \cup down
    /\ c \in billed => stage[c] = "over" /\ told[c] = <<"Succeeded">>

(* An accepted client waits neither for an exit nor for a stream for ever, *)
(* whatever discovery, the exit and the other sessions do, and a session   *)
(* whose download has ended goes, half-closed or not.                      *)
NobodyWaitsForEver ==
  \A c \in Clients :
    /\ stage[c] \in {"asking", "queueing", "opening", "evicting"}
         ~> stage[c] \in {"greeting", "initiating", "over", "panicked"}
    /\ stage[c] = "relaying" /\ c \notin down ~> stage[c] \in {"over", "panicked"}
=============================================================================
