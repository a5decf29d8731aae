----------------------------- MODULE MCVeriGov -----------------------------
(***************************************************************************)
(* Instances of VeriGov for TLC.  The cast is the one of the pallet's mock *)
(* and of the demo, cut down: Core Developers, a Security Auditor and      *)
(* Build Services.  Fractions are in tenths (ACCURACY = 10).               *)
(***************************************************************************)
EXTENDS VeriGovLedger, TLC

\* Digests are only compared for equality.
HashSymmetry == Permutations(Hash)

Stake(account, role, stake) == [account |-> account, role |-> role, stake |-> stake]
Quorum(role, quorum) == [role |-> role, quorum |-> quorum]

GenesisOf(stakes, required, voting_period, enactment_delay, sigma_neg, bond) ==
    [stakeholders |-> stakes,
     policy |-> [required_roles |-> required, voting_period |-> voting_period,
                 enactment_delay |-> enactment_delay],
     sigma_neg |-> sigma_neg, proposal_bond |-> bond]

Alice == Stake("alice", "CoreDeveloper", 3)
Bob == Stake("bob", "CoreDeveloper", 2)
Foo == Stake("foo", "SecurityAuditor", 2)
Builder == Stake("bs", "BuildService", 5)

DevAndAudit == {Quorum("CoreDeveloper", 6), Quorum("SecurityAuditor", 5)}

\* A well-formed project, and four calls that project_genesis refuses: no
\* required role, an account twice, a stake nobody can escrow, a required role
\* without stake.
Lifecycle == GenesisOf({Alice, Bob, Foo, Builder}, DevAndAudit, 2, 2, 5, 2)
LifecycleGenesis ==
    {Lifecycle,
     [Lifecycle EXCEPT !.policy.required_roles = {}],
     [Lifecycle EXCEPT !.stakeholders = @ \cup {Stake("foo", "BuildService", 1)}],
     [Lifecycle EXCEPT !.stakeholders = (@ \ {Foo}) \cup {Stake("foo", "SecurityAuditor", 12)}],
     [Lifecycle EXCEPT !.policy.required_roles = @ \cup {Quorum("CommunityTrustee", 0)}]}

\* Two proposals of one developer in flight, enacted one block after approval.
PairGenesis == {GenesisOf({Alice, Foo, Builder}, DevAndAudit, 1, 1, 5, 2)}

\* One developer and one Build Service in two projects with different terms:
\* their holds are shared, their stakes are not.
TwoProjectsGenesis ==
    {GenesisOf({Alice, Builder}, {Quorum("CoreDeveloper", 6)}, 1, 1, 5, 2),
     GenesisOf({Stake("alice", "CoreDeveloper", 1), Stake("bs", "BuildService", 3)},
               {Quorum("CoreDeveloper", 10)}, 0, 2, 10, 1)}

\* A Build Service that is the whole of a required role and loses all of its
\* stake when slashed.
BuilderQuorumGenesis ==
    {GenesisOf({Alice, Builder},
               {Quorum("BuildService", 6)}, 1, 1, 10, 2)}

\* Two Build Services of equal weight; half of the role's stake is a quorum.
StaleWeightGenesis ==
    {GenesisOf({Alice, Stake("bs", "BuildService", 4), Stake("foo", "BuildService", 4)},
               {Quorum("BuildService", 5)}, 0, 1, 5, 2)}

\* Any of the three.
SlashGenesis == PairGenesis \cup BuilderQuorumGenesis \cup StaleWeightGenesis

ZeroDelayGenesis == {GenesisOf({Alice, Foo, Builder}, DevAndAudit, 1, 0, 5, 2)}
=============================================================================
