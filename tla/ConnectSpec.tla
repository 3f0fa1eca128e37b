----------------------------- MODULE ConnectSpec -----------------------------
(***************************************************************************)
(* The promise of ConnectCtx::connect, as a specification: one bounded     *)
(* effort concludes, in a single step, with one of the outcomes that       *)
(* ConnectOutcome lists.  Connect implements it.                           *)
(***************************************************************************)
EXTENDS ConnectOutcome

CONSTANTS
  Servers,       \* the server configurations the effort may be made for
  RememberedAt   \* RememberedAt[server]: the sticky pools it may start from

VARIABLES
  server,        \* the configuration of the listen port
  avoid,         \* the peer that just dropped, or NoPeer
  pool,          \* the port's sticky pool
  result         \* what the effort returned: <<>> until it concludes

vars == <<server, avoid, pool, result>>

Init ==
  /\ server \in Servers
  /\ avoid \in Peers \cup {NoPeer}
  /\ pool \in RememberedAt[server]
  /\ result = <<>>

Conclude ==
  /\ result = <<>>
  /\ \E o \in Outcomes(server, pool, avoid) :
       /\ pool' = o.pool
       /\ result' = <<[peer |-> o.peer, source |-> o.source]>>
  /\ UNCHANGED <<server, avoid>>

Safe == Init /\ [][Conclude]_vars

Spec == Safe /\ WF_vars(Conclude)
=============================================================================
