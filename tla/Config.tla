-------------------------------- MODULE Config --------------------------------
(***************************************************************************)
(* What becomes of the servers of Config.yaml (core/src/config.rs): the    *)
(* entries of destination_peers, the country filter, and the mistakes that *)
(* fail the load.  What the environment overrides is part of the text.     *)
(*                                                                         *)
(* Text is seen by its kind.  An entry is [form |-> "id", parts |-> <<p>>],*)
(* [form |-> "multiaddr", parts |-> ...] or [form |-> "garbage", ...]; a   *)
(* part is [kind |-> "p2p", id |-> ...] or another kind with no id.  A     *)
(* country is [spelling |-> ..., code |-> ...], the spelling "absent",     *)
(* "blank", "unknown", or one that keshvar knows.  `listed` says whether   *)
(* the key destination_peers is there at all.  What parsing yields is a    *)
(* set: empty when the text is rejected.                                   *)
(***************************************************************************)
EXTENDS Integers, Sequences, SequencesExt

IsP2p(part) == part.kind = "p2p"

Entry(parts, i) ==
  [peer_id |-> parts[i].id, address |-> IF Len(parts) = 1 THEN <<>> ELSE parts]

(* A slip: the first /p2p/ component, the relay's, is taken for the peer.  *)
from_multiaddr_first(parts) ==
  LET ids == {i \in DOMAIN parts : IsP2p(parts[i])}
  IN {Entry(parts, i) : i \in {i \in ids : \A j \in ids : i <= j}}

(* The last /p2p/ component is the destination, wherever it stands; an     *)
(* address that is nothing else pins an identity only.                     *)
from_multiaddr(parts) ==
  LET ids == {i \in DOMAIN parts : IsP2p(parts[i])}
  IN {Entry(parts, i) : i \in {i \in ids : \A j \in ids : j <= i}}

from_str(text) ==
  CASE text.form = "id" -> {[peer_id |-> text.parts[1].id, address |-> <<>>]}
    [] text.form = "multiaddr" -> from_multiaddr(text.parts)
    [] OTHER -> {}

Displayed(entry) ==
  IF entry.address = <<>> THEN [form |-> "id", parts |-> <<[kind |-> "p2p", id |-> entry.peer_id]>>]
  ELSE [form |-> "multiaddr", parts |-> entry.address]

(* deserialize_country_alpha2 and parse_country_alpha2; "" is no filter.   *)
deserialize_country(text) ==
  IF text.spelling = "unknown" THEN {}
  ELSE {IF text.spelling \in {"absent", "blank"} THEN "" ELSE text.code}

deserialize_pinned(texts) ==
  IF \E i \in DOMAIN texts : from_str(texts[i]) = {} THEN {}
  ELSE {[i \in DOMAIN texts |-> CHOOSE entry \in from_str(texts[i]) : TRUE]}

Parsed(text) ==
  {[port |-> text.port, country |-> code, listed |-> text.listed, pinned |-> entries] :
     code \in deserialize_country(text.country), entries \in deserialize_pinned(text.entries)}

(* A list of pinned peers that is there but empty is a mistake.            *)
validate(server) == server.listed => server.pinned # <<>>

(* Every server is read before any is validated.  Nothing compares the     *)
(* ports of two servers.                                                   *)
from_path(file) ==
  IF \E i \in DOMAIN file : \A server \in Parsed(file[i]) : ~validate(server) THEN {}
  ELSE {[i \in DOMAIN file |-> CHOOSE server \in Parsed(file[i]) : TRUE]}
==============================================================================
