----------------------------- MODULE MCNetwork -----------------------------
(***************************************************************************)
(* Instances of the nodes and the chain glue for TLC: Alice and Bob with   *)
(* the tools on Alice, and Charlie, a full node, where finality is at      *)
(* stake.  The amounts let Bob pay for two extrinsics, stake and bond      *)
(* included, but not for a third.                                          *)
(***************************************************************************)
EXTENDS ChainGlue

Send(signer, call) == [signer |-> signer, call |-> call]
Faucet == Send("Alice", "forceSetBalance")
Genesis == Send("Alice", "projectGenesis")
Release == Send("Bob", "newRelease")
Vote == Send("Bob", "vote")
Counter == Send("Bob", "submitCounterAttestation")

CallPriority == [call \in Call |-> IF call = "projectGenesis" THEN 1 ELSE 2]

Budget(nodes, chain, slots, rounds, stops, cmds, script) ==
    [nodes |-> nodes, chain |-> chain, slots |-> slots, rounds |-> rounds, stops |-> stops,
     commands |-> cmds, script |-> script]

\* The development chain: an era that runs out; the setup of the demo; its genesis
\* without the faucet, among stops and commands; one call too many for Bob.
DevBudgets ==
    {Budget(Authority, "dev", 4, 0, 0, 0, <<Release>>),
     Budget(Authority, "dev", 2, 0, 0, 0, <<Faucet, Genesis, Release>>),
     Budget(Authority, "dev", 2, 0, 0, 0, <<Release, Release, Release>>),
     Budget(Authority, "dev", 2, 0, 1, 1, <<Genesis>>),
     Budget(Authority, "dev", 2, 0, 2, 1, <<>>)}

\* The local chain: forks with one, two and three calls, finality, a purge or revert.
LocalBudgets ==
    {Budget(Authority, "local", 4, 0, 0, 0, <<Genesis>>),
     Budget(Authority, "local", 3, 0, 0, 0, <<Genesis, Release>>),
     Budget(Authority, "local", 2, 0, 0, 0, <<Genesis, Release, Counter>>),
     Budget(Authority, "local", 3, 1, 0, 0, <<Vote>>),
     Budget(Authority, "", 3, 0, 1, 1, <<Release>>)}

\* Votes for finality over a fork: two rounds with a full node to watch; two rounds
\* with a stop; one round with the full node, a stop and a command.
FinalityBudgets ==
    {Budget(Nodes, "local", 2, 2, 0, 0, <<>>),
     Budget(Authority, "local", 2, 2, 1, 0, <<>>),
     Budget(Nodes, "local", 2, 1, 1, 1, <<>>)}

NetworkBudgets == DevBudgets \cup LocalBudgets \cup FinalityBudgets
=============================================================================
