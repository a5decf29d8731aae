---------------------------- MODULE MCLifecycle ----------------------------
(***************************************************************************)
(* The life of one proposal for TLC, and the rounding of its quorums.      *)
(***************************************************************************)
EXTENDS MCVeriGov, QuorumRounding
=============================================================================
