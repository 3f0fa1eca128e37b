---------------------------- MODULE MCFileSticky ----------------------------
(***************************************************************************)
(* An instance of FileSticky for TLC: filters that differ in one field     *)
(* each, one of them an ISP expression with a bar in it.                   *)
(***************************************************************************)
EXTENDS FileSticky

CONSTANTS a, b

MCAnywhere ==
  [country |-> None, city |-> None, isp |-> None, asn |-> None,
   bandwidth |-> "50", proxy |-> "Allow", mobile |-> "Allow", hosting |-> "Allow"]

MCWanted ==
  {MCAnywhere,
   [MCAnywhere EXCEPT !.isp = <<"KPN", "Ziggo">>],
   [MCAnywhere EXCEPT !.hosting = "Deny"]}

MCPool(f, addr) ==
  [port \in Ports |-> [fp |-> filter_fingerprint(port, f), peers |-> <<[peer |-> a, addr |-> addr]>>]]

MCFiles ==
  {NoFile, Torn,
   [version |-> "1", servers |-> MCPool(MCAnywhere, NoAddress)],
   [version |-> "2", servers |-> MCPool(MCAnywhere, "direct")],
   [version |-> "other", servers |-> MCPool(MCAnywhere, NoAddress)]}
=============================================================================
