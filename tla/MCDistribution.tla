--------------------------- MODULE MCDistribution ---------------------------
(***************************************************************************)
(* Instances of Distribution for TLC.                                      *)
(***************************************************************************)
EXTENDS MCBuildService, Distribution

NowhereCid == {Sha256([kind |-> "nothing"])}
=============================================================================
