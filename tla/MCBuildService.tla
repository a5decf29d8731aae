--------------------------- MODULE MCBuildService ---------------------------
(***************************************************************************)
(* Instances of BuildService for TLC: the two builds of the demo, the      *)
(* second one with a payload injected.                                     *)
(***************************************************************************)
EXTENDS BuildService

TreeOf(text) == [kind |-> "tree", text |-> text]
OneTree == {TreeOf("main.sh")}
TwoTrees == OneTree \cup {TreeOf("main.sh, edited")}
TheTree == TreeOf("main.sh")

Honest == [version |-> "1.2.3", commit |-> "c0ff33d", inject |-> FALSE, builder |-> "bs"]
HonestJobs == {Honest}
DemoJobs == {Honest, [version |-> "1.2.4", commit |-> "d00d1e5", inject |-> TRUE,
                      builder |-> "bs"]}
=============================================================================
