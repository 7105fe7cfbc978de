----------------------------- MODULE MCRenewal -----------------------------
(* Instances of Renewal for TLC. *)
EXTENDS Renewal

CONSTANTS i1, i2, r

MCPairIds == 1..3
=============================================================================
