------------------------------ MODULE MCNetwork ------------------------------
(***************************************************************************)
(* Instances of Network for TLC: the discovery actor, which is the only    *)
(* one to dial, and an exit besides the hub.                               *)
(***************************************************************************)
EXTENDS Network

CONSTANTS a, hub, discovery
=============================================================================
