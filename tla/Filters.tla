------------------------------- MODULE Filters -------------------------------
(***************************************************************************)
(* What a server demands of its exits (crates/core/src/filters.rs), the    *)
(* identity under which the sticky store keeps the exits found for it      *)
(* (ServerPeerOptions::filter_fingerprint in config.rs) and the request    *)
(* the hub is sent (runtime/network/requirements.rs).                      *)
(*                                                                         *)
(* A text is the sequence of its pieces between bars, since the bar is     *)
(* what the fingerprint joins its fields with and it is not escaped; an    *)
(* option is a text or the empty sequence.  A fingerprint is then the      *)
(* concatenation of the pieces of its fields.                              *)
(***************************************************************************)
EXTENDS Sequences

None == <<>>

Policies == {"Allow", "Deny", "Require"}

ASSUME TextsAreStrings == {"v2", ""} \cup Policies \subseteq STRING

NodeFilters ==
  [country : Seq(STRING), city : Seq(STRING), isp : Seq(STRING), asn : Seq(STRING),
   bandwidth : STRING, proxy : Policies, mobile : Policies, hosting : Policies]

(* `unwrap_or("")`: an option that is not set reads like an empty text.    *)
Field(option) == IF option = None THEN <<"">> ELSE option

(* A slip: the hosting policy, the last one added, is not part of it.      *)
FingerprintUnhosted(port, f) ==
  <<"v2", port>> \o Field(f.country) \o Field(f.city) \o Field(f.isp) \o Field(f.asn)
    \o <<f.bandwidth, f.proxy, f.mobile>>

filter_fingerprint(port, f) ==
  <<"v2", port>> \o Field(f.country) \o Field(f.city) \o Field(f.isp) \o Field(f.asn)
    \o <<f.bandwidth, f.proxy, f.mobile, f.hosting>>

(* One element for a filter that is set, none for one that is not.         *)
AsList(option) == IF option = None THEN <<>> ELSE <<option>>

proxy_restriction(policy) ==
  CASE policy = "Allow" -> "Allow" [] policy = "Deny" -> "Disallow" [] OTHER -> "Only"

network_policy(policy) ==
  CASE policy = "Allow" -> "Allowed" [] policy = "Deny" -> "Denied" [] OTHER -> "Required"

(* The hub knows residential nodes; hosting is the complement.             *)
residential_policy(hosting) ==
  CASE hosting = "Allow" -> "Allowed" [] hosting = "Require" -> "Denied" [] OTHER -> "Required"

requirements_from_filters(f) ==
  [countries |-> AsList(f.country), cities |-> AsList(f.city), isps |-> AsList(f.isp),
   asns |-> AsList(f.asn), proxy |-> proxy_restriction(f.proxy),
   mobile |-> network_policy(f.mobile), residential |-> residential_policy(f.hosting)]

(* FindNodes: the requirements and the floor on bandwidth.                 *)
FindNodes(f) == [requirements |-> requirements_from_filters(f), bandwidth |-> f.bandwidth]
=============================================================================
