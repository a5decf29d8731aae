------------------------------ MODULE VeriGov ------------------------------
(***************************************************************************)
(* pallet-verigov: the on-chain release-governance state machine.          *)
(*                                                                         *)
(* Storage items are variables; a StorageMap that starts empty is a        *)
(* function whose DOMAIN is the set of keys present, a ValueQuery map is a *)
(* total function that starts at its default.  Each extrinsic is one       *)
(* action: FRAME rolls back a call that returns an error, so a failing     *)
(* `ensure!` is a guard.  A block starts with on_initialize, which takes   *)
(* the block's PendingEnactments and enacts them one by one; extrinsics    *)
(* run after it (`enacting` holds the ids the loop has still to visit).    *)
(* Events, weights and `submitted_at` (never read) are left out.           *)
(***************************************************************************)
EXTENDS Currency, Sequences, FiniteSets, Functions

CONSTANTS
    Source,                 \* the source digests of an attestation (commit, tree, environment)
    Hash,                   \* output_binary_hash values
    Version,                \* release version strings
    Cid,                    \* content addresses in the artifact store
    Genesis,                \* the arguments project_genesis may be called with
    MaxEnactmentsPerBlock,  \* capacity of PendingEnactments[b]
    MaxBlock,               \* BlockNumber::MAX, where saturating_add stops
    Horizon,                \* bound: the last block the model produces
    MaxProjects,            \* bound: number of projects created
    MaxProposals            \* bound: number of proposals created

Role == {"CoreDeveloper", "SecurityAuditor", "CommunityTrustee", "BuildService"}
Block == 0..MaxBlock
ProjectId == 0..(MaxProjects - 1)
ProposalId == 0..(MaxProposals - 1)

RoleQuorum == [role : Role, quorum : PerbillParts]
ReleasePolicy == [required_roles : SUBSET RoleQuorum,
                  voting_period : Block, enactment_delay : Block]
StakeholderInit == [account : Account, role : Role, stake : Balance]
GenesisArgs == [stakeholders : SUBSET StakeholderInit, policy : ReleasePolicy,
                sigma_neg : PerbillParts, proposal_bond : Balance]

ProjectInfo == [policy : ReleasePolicy, sigma_neg : PerbillParts, proposal_bond : Balance]
Stakeholder == [role : Role \cup {"NoRole"}, stake : Balance]
BuildAttestation == [source_commit_hash : Source, output_binary_hash : Hash, builder : Account]
ProposalStatus == [tag : {"Voting", "Approved", "Enacted", "Rejected", "Expired"},
                   enact_at : Block]
Proposal == [project_id : ProjectId, proposer : Account, version : Version,
             attestation : BuildAttestation, attestation_cid : Cid, bond : Balance,
             voting_ends : Block, status : ProposalStatus]
RoleTally == [ayes : Balance, nays : Balance]
ReleaseEntry == [proposal_id : ProposalId, version : Version, source_commit_hash : Source,
                 output_binary_hash : Hash, attestation_cid : Cid, enacted_at : Block]
CounterAttestation == [challenger : Account, attested_binary_hash : Hash,
                       rebuilt_binary_hash : Hash]

\* A signature is the key that made it and the payload it covers.
Payload == [source_commit_hash : Source, output_binary_hash : Hash]
Signature == [key : Account, payload : Payload]

Voting == [tag |-> "Voting", enact_at |-> 0]
Approved(block) == [tag |-> "Approved", enact_at |-> block]
Enacted == [tag |-> "Enacted", enact_at |-> 0]
Rejected == [tag |-> "Rejected", enact_at |-> 0]
Expired == [tag |-> "Expired", enact_at |-> 0]

NotStakeholder == [role |-> "NoRole", stake |-> 0]

\* Total genesis stake of a role: what the saturating_add loop accumulates.
GenesisRoleStake(g, r) ==
    LET ofRole == {s \in g.stakeholders : s.role = r}
    IN  SumFunction([s \in ofRole |-> s.stake])

\* An account id is 32 bytes.
ASSUME AccountAssumption == IsFiniteSet(Account)

ASSUME VeriGovAssumption ==
    /\ MaxEnactmentsPerBlock \in Nat
    /\ MaxBlock \in Nat
    /\ Horizon \in Block /\ 0 < Horizon /\ Horizon < MaxBlock
    /\ MaxProjects \in Nat /\ MaxProposals \in Nat

\* The stakeholders of a call are a BoundedVec.  Stake is held when a project is
\* created, so the stake of a role never exceeds the total issuance, which fits
\* a Balance.
ASSUME GenesisAssumption ==
    /\ Genesis \subseteq GenesisArgs
    /\ \A g \in Genesis : IsFiniteSet(g.stakeholders)
    /\ \A g \in Genesis, r \in Role : GenesisRoleStake(g, r) \in Balance

VARIABLES
    now,                    \* frame_system block number
    nextProjectId,          \* NextProjectId
    nextProposalId,         \* NextProposalId
    projects,               \* Projects
    stakeholders,           \* Stakeholders, NotStakeholder where absent
    roleStake,              \* RoleStake
    proposals,              \* Proposals
    votes,                  \* Votes, "none" where absent
    tallies,                \* Tallies
    releaseLog,             \* ReleaseLog and ReleaseCount (its length)
    counterAttestations,    \* CounterAttestations
    pendingEnactments,      \* PendingEnactments
    enacting                \* the ids on_initialize has still to visit

vars == <<now, nextProjectId, nextProposalId, projects, stakeholders, roleStake, proposals,
          votes, tallies, releaseLog, counterAttestations, pendingEnactments, enacting,
          free, held>>

TypeOK ==
    /\ now \in 1..Horizon
    /\ nextProjectId \in 0..MaxProjects
    /\ nextProposalId \in 0..MaxProposals
    /\ projects \in [0..(nextProjectId - 1) -> ProjectInfo]
    /\ stakeholders \in [ProjectId -> [Account -> Stakeholder]]
    /\ roleStake \in [ProjectId -> [Role -> Balance]]
    /\ proposals \in [0..(nextProposalId - 1) -> Proposal]
    /\ \A id \in DOMAIN proposals : proposals[id].project_id \in DOMAIN projects
    /\ votes \in [ProposalId -> [Account -> {"none", "aye", "nay"}]]
    /\ tallies \in [ProposalId -> [Role -> RoleTally]]
    /\ releaseLog \in [ProjectId -> Seq(ReleaseEntry)]
    /\ DOMAIN counterAttestations \subseteq ProposalId
    /\ counterAttestations \in [DOMAIN counterAttestations -> CounterAttestation]
    /\ pendingEnactments \in [Block -> Seq(ProposalId)]
    /\ enacting \in Seq(ProposalId)
    /\ free \in [Account -> Nat]
    /\ held \in [HoldReason -> [Account -> Nat]]

Init ==
    /\ now = 1
    /\ nextProjectId = 0
    /\ nextProposalId = 0
    /\ projects = [id \in {} |-> <<>>]
    /\ stakeholders = [id \in ProjectId |-> [a \in Account |-> NotStakeholder]]
    /\ roleStake = [id \in ProjectId |-> [r \in Role |-> 0]]
    /\ proposals = [id \in {} |-> <<>>]
    /\ votes = [id \in ProposalId |-> [a \in Account |-> "none"]]
    /\ tallies = [id \in ProposalId |-> [r \in Role |-> [ayes |-> 0, nays |-> 0]]]
    /\ releaseLog = [id \in ProjectId |-> <<>>]
    /\ counterAttestations = [id \in {} |-> <<>>]
    /\ pendingEnactments = [b \in Block |-> <<>>]
    /\ enacting = <<>>
    /\ CurrencyInit

-----------------------------------------------------------------------------
\* StorageMap::insert
Insert(map, key, value) == [k \in DOMAIN map \cup {key} |-> IF k = key THEN value ELSE map[k]]

IsStakeholder(project_id, a) == stakeholders[project_id][a].role # "NoRole"

\* Mutant: the slot of a revoked or rejected proposal is kept.
KeepingRetain(ids, proposal_id) == ids

\* Mutant: everything queued behind the removed id is dropped with it.
TruncatingRetain(ids, proposal_id) ==
    IF \E i \in 1..Len(ids) : ids[i] = proposal_id
    THEN SubSeq(ids, 1, (CHOOSE i \in 1..Len(ids) : ids[i] = proposal_id) - 1)
    ELSE ids

\* BoundedVec::retain(|id| *id != proposal_id).  No block lists an id twice
\* (PendingExact), so the kept ids are those around its one position.
Retain(ids, proposal_id) ==
    IF \E i \in 1..Len(ids) : ids[i] = proposal_id
    THEN LET k == CHOOSE i \in 1..Len(ids) : ids[i] = proposal_id
         IN  [i \in 1..(Len(ids) - 1) |-> IF i < k THEN ids[i] ELSE ids[i + 1]]
    ELSE ids

MeetsQuorums(project_id, tally) ==
    \A rq \in projects[project_id].policy.required_roles :
        RoleQuorumMet(tally[rq.role].ayes, roleStake[project_id][rq.role], rq.quorum)

-----------------------------------------------------------------------------
(* project_genesis *)

GenesisRegistry(g) ==
    [a \in Account |->
        IF \E s \in g.stakeholders : s.account = a
        THEN LET s == CHOOSE s \in g.stakeholders : s.account = a
             IN  [role |-> s.role, stake |-> s.stake]
        ELSE NotStakeholder]

ProjectGenesis(g) ==
    /\ enacting = <<>>
    /\ nextProjectId < MaxProjects
    /\ g.policy.required_roles # {}
    /\ \A s, t \in g.stakeholders : s.account = t.account => s = t
    /\ \A s \in g.stakeholders : CanHold(s.account, s.stake)
    /\ \A rq \in g.policy.required_roles : GenesisRoleStake(g, rq.role) # 0
    /\ LET registry == GenesisRegistry(g)
       IN  /\ stakeholders' = [stakeholders EXCEPT ![nextProjectId] = registry]
           /\ free' = [a \in Account |-> free[a] - registry[a].stake]
           /\ held' = [held EXCEPT !["Stake"] = [a \in Account |-> @[a] + registry[a].stake]]
    /\ roleStake' = [roleStake EXCEPT ![nextProjectId] = [r \in Role |-> GenesisRoleStake(g, r)]]
    /\ projects' = Insert(projects, nextProjectId,
                          [policy |-> g.policy, sigma_neg |-> g.sigma_neg,
                           proposal_bond |-> g.proposal_bond])
    /\ nextProjectId' = nextProjectId + 1
    /\ UNCHANGED <<now, nextProposalId, proposals, votes, tallies, releaseLog,
                   counterAttestations, pendingEnactments, enacting>>

-----------------------------------------------------------------------------
(* do_vote: record the vote, replace the voter's weight in the role tally,  *)
(* and let the new tally approve or revoke.  `props` is Proposals as the    *)
(* call sees it (new_release has already inserted its proposal).            *)

\* Mutant: a changed vote is added without taking the previous one back.
AddingRecordVote(tally, prev, choice, stake) ==
    [ayes |-> IF choice = "aye" THEN SatAdd(tally.ayes, stake, MaxU128) ELSE tally.ayes,
     nays |-> IF choice = "nay" THEN SatAdd(tally.nays, stake, MaxU128) ELSE tally.nays]

\* Mutant: the previous vote is taken from the other side, unsaturated.
SwappedRecordVote(tally, prev, choice, stake) ==
    LET ayes == IF prev = "nay" THEN tally.ayes - stake ELSE tally.ayes
        nays == IF prev = "aye" THEN tally.nays - stake ELSE tally.nays
    IN  [ayes |-> IF choice = "aye" THEN SatAdd(ayes, stake, MaxU128) ELSE ayes,
         nays |-> IF choice = "nay" THEN SatAdd(nays, stake, MaxU128) ELSE nays]

\* Mutant: a changed vote resets the whole side of the tally.
ResettingRecordVote(tally, prev, choice, stake) ==
    LET ayes == IF prev = "aye" THEN 0 ELSE tally.ayes
        nays == IF prev = "nay" THEN 0 ELSE tally.nays
    IN  [ayes |-> IF choice = "aye" THEN SatAdd(ayes, stake, MaxU128) ELSE ayes,
         nays |-> IF choice = "nay" THEN SatAdd(nays, stake, MaxU128) ELSE nays]

RecordVote(tally, prev, choice, stake) ==
    LET ayes == IF prev = "aye" THEN SatSub(tally.ayes, stake) ELSE tally.ayes
        nays == IF prev = "nay" THEN SatSub(tally.nays, stake) ELSE tally.nays
    IN  [ayes |-> IF choice = "aye" THEN SatAdd(ayes, stake, MaxU128) ELSE ayes,
         nays |-> IF choice = "nay" THEN SatAdd(nays, stake, MaxU128) ELSE nays]

\* Where an approval given now is scheduled.
EnactAt(project_id) == SatAdd(now, projects[project_id].policy.enactment_delay, MaxBlock)

\* Mutant: the enactment delay is forgotten.
ApproveAtOnce(props, id) ==
    /\ Len(pendingEnactments[now]) < MaxEnactmentsPerBlock
    /\ pendingEnactments' = [pendingEnactments EXCEPT ![now] = Append(@, id)]
    /\ proposals' = [props EXCEPT ![id].status = Approved(now)]

\* Mutant: a full block is skipped silently and the vote stands.
ApproveUnlessFull(props, id) ==
    LET enact_at == EnactAt(props[id].project_id)
    IN  IF Len(pendingEnactments[enact_at]) < MaxEnactmentsPerBlock
        THEN /\ pendingEnactments' = [pendingEnactments EXCEPT ![enact_at] = Append(@, id)]
             /\ proposals' = [props EXCEPT ![id].status = Approved(enact_at)]
        ELSE proposals' = props /\ UNCHANGED pendingEnactments

\* Mutant: the result of try_push is ignored.
ApproveIgnoringFull(props, id) ==
    LET enact_at == EnactAt(props[id].project_id)
    IN  /\ pendingEnactments' = [pendingEnactments EXCEPT ![enact_at] =
                                   IF Len(@) < MaxEnactmentsPerBlock THEN Append(@, id) ELSE @]
        /\ proposals' = [props EXCEPT ![id].status = Approved(enact_at)]

Approve(props, id) ==
    LET enact_at == EnactAt(props[id].project_id)
    IN  /\ Len(pendingEnactments[enact_at]) < MaxEnactmentsPerBlock
        /\ pendingEnactments' = [pendingEnactments EXCEPT ![enact_at] = Append(@, id)]
        /\ proposals' = [props EXCEPT ![id].status = Approved(enact_at)]

\* Mutant: an approval is never taken back.
RevokeIgnored(props, id) == proposals' = props /\ UNCHANGED pendingEnactments

\* A changed vote broke a quorum before enactment.
Revoke(props, id) ==
    /\ pendingEnactments' = [pendingEnactments EXCEPT ![props[id].status.enact_at] = Retain(@, id)]
    /\ proposals' = [props EXCEPT ![id].status = Voting]

DoVote(props, id, who, choice) ==
    LET project_id == props[id].project_id
        voter == stakeholders[project_id][who]
        tally == [tallies[id] EXCEPT
                    ![voter.role] = RecordVote(@, votes[id][who], choice, voter.stake)]
        met == MeetsQuorums(project_id, tally)
        tag == props[id].status.tag
    IN  /\ tallies' = [tallies EXCEPT ![id] = tally]
        /\ votes' = [votes EXCEPT ![id][who] = choice]
        /\ \/ tag = "Voting" /\ met /\ Approve(props, id)
           \/ tag = "Approved" /\ ~met /\ Revoke(props, id)
           \/ /\ (tag = "Voting" /\ ~met) \/ (tag = "Approved" /\ met)
              /\ proposals' = props
              /\ UNCHANGED pendingEnactments

-----------------------------------------------------------------------------
(* The extrinsics of stakeholders *)

SigningPayload(attestation) ==
    [source_commit_hash |-> attestation.source_commit_hash,
     output_binary_hash |-> attestation.output_binary_hash]

Verify(signature, payload, signer) == signature = [key |-> signer, payload |-> payload]

NewRelease(who, project_id, version, attestation, cid, signature) ==
    /\ enacting = <<>>
    /\ nextProposalId < MaxProposals
    /\ project_id \in DOMAIN projects
    /\ stakeholders[project_id][who].role = "CoreDeveloper"
    /\ stakeholders[project_id][attestation.builder].role = "BuildService"
    /\ Verify(signature, SigningPayload(attestation), attestation.builder)
    /\ Hold("ProposalBond", who, projects[project_id].proposal_bond)
    /\ nextProposalId' = nextProposalId + 1
    /\ LET proposal == [project_id |-> project_id, proposer |-> who, version |-> version,
                        attestation |-> attestation, attestation_cid |-> cid,
                        bond |-> projects[project_id].proposal_bond,
                        voting_ends |-> SatAdd(now, projects[project_id].policy.voting_period,
                                               MaxBlock),
                        status |-> Voting]
       IN  DoVote(Insert(proposals, nextProposalId, proposal), nextProposalId, who, "aye")
    /\ UNCHANGED <<now, nextProjectId, projects, stakeholders, roleStake, releaseLog,
                   counterAttestations, enacting>>

Vote(who, id, choice) ==
    /\ enacting = <<>>
    /\ id \in DOMAIN proposals
    /\ proposals[id].status.tag \in {"Voting", "Approved"}
    /\ now <= proposals[id].voting_ends
    /\ IsStakeholder(proposals[id].project_id, who)
    /\ DoVote(proposals, id, who, choice)
    /\ UNCHANGED <<now, nextProjectId, nextProposalId, projects, stakeholders, roleStake,
                   releaseLog, counterAttestations, enacting, free, held>>

\* Mutant: the fraction is taken of everything the Build Service has on hold.
SlashOfHeld(project_id, builder) ==
    MulFloor(projects[project_id].sigma_neg, held["Stake"][builder])

\* The negligence slash of a Build Service.
ToSlash(project_id, builder) ==
    MulFloor(projects[project_id].sigma_neg, stakeholders[project_id][builder].stake)

SubmitCounterAttestation(who, id, rebuilt_binary_hash) ==
    /\ enacting = <<>>
    /\ id \in DOMAIN proposals
    /\ LET proposal == proposals[id]
           project_id == proposal.project_id
           builder == proposal.attestation.builder
           slashed == TakenOffHold("Stake", builder, ToSlash(project_id, builder))
           returned == TakenOffHold("ProposalBond", proposal.proposer, proposal.bond)
       IN  /\ IsStakeholder(project_id, who)
           /\ who # builder
           /\ rebuilt_binary_hash # proposal.attestation.output_binary_hash
           /\ \/ /\ proposal.status.tag = "Voting"
                 /\ UNCHANGED pendingEnactments
              \/ /\ proposal.status.tag = "Approved"
                 /\ pendingEnactments' = [pendingEnactments EXCEPT
                                            ![proposal.status.enact_at] = Retain(@, id)]
           /\ stakeholders' = [stakeholders EXCEPT
                                 ![project_id][builder].stake = SatSub(@, slashed)]
           /\ roleStake' = [roleStake EXCEPT ![project_id]["BuildService"] = SatSub(@, slashed)]
           /\ held' = [held EXCEPT !["Stake"][builder] = @ - slashed,
                                   !["ProposalBond"][proposal.proposer] = @ - returned]
           /\ free' = [free EXCEPT ![proposal.proposer] = @ + returned]
           /\ proposals' = [proposals EXCEPT ![id].status = Rejected]
           /\ counterAttestations' =
                Insert(counterAttestations, id,
                       [challenger |-> who,
                        attested_binary_hash |-> proposal.attestation.output_binary_hash,
                        rebuilt_binary_hash |-> rebuilt_binary_hash])
    /\ UNCHANGED <<now, nextProjectId, nextProposalId, projects, votes, tallies, releaseLog,
                   enacting>>

CloseExpired(id) ==
    /\ enacting = <<>>
    /\ id \in DOMAIN proposals
    /\ proposals[id].status.tag = "Voting"
    /\ now > proposals[id].voting_ends
    /\ Release("ProposalBond", proposals[id].proposer, proposals[id].bond)
    /\ proposals' = [proposals EXCEPT ![id].status = Expired]
    /\ UNCHANGED <<now, nextProjectId, nextProposalId, projects, stakeholders, roleStake, votes,
                   tallies, releaseLog, counterAttestations, pendingEnactments, enacting>>

-----------------------------------------------------------------------------
(* on_initialize: a new block takes its enactments, then visits each id. *)

OnInitialize ==
    /\ enacting = <<>>
    /\ now < Horizon
    /\ now' = now + 1
    /\ enacting' = pendingEnactments[now + 1]
    /\ pendingEnactments' = [pendingEnactments EXCEPT ![now + 1] = <<>>]
    /\ UNCHANGED <<nextProjectId, nextProposalId, projects, stakeholders, roleStake, proposals,
                   votes, tallies, releaseLog, counterAttestations, free, held>>

\* Mutant: the loop just goes on when Eq. 1 no longer holds.
EnactDropped(id) == UNCHANGED <<proposals, releaseLog, free, held>>

\* Eq. 1 no longer holds at the enactment block.
EnactReverted(id) ==
    /\ proposals' = [proposals EXCEPT ![id].status = Voting]
    /\ UNCHANGED <<releaseLog, free, held>>

ReleaseEntryOf(id) ==
    [proposal_id |-> id,
     version |-> proposals[id].version,
     source_commit_hash |-> proposals[id].attestation.source_commit_hash,
     output_binary_hash |-> proposals[id].attestation.output_binary_hash,
     attestation_cid |-> proposals[id].attestation_cid,
     enacted_at |-> now]

\* Mutant: the proposal stays open after it was appended.
EnactAppendedOnly(id) ==
    /\ releaseLog' = [releaseLog EXCEPT
                        ![proposals[id].project_id] = Append(@, ReleaseEntryOf(id))]
    /\ Release("ProposalBond", proposals[id].proposer, proposals[id].bond)
    /\ proposals' = [proposals EXCEPT ![id].status = Voting]

EnactAppended(id) ==
    /\ releaseLog' = [releaseLog EXCEPT
                        ![proposals[id].project_id] = Append(@, ReleaseEntryOf(id))]
    /\ Release("ProposalBond", proposals[id].proposer, proposals[id].bond)
    /\ proposals' = [proposals EXCEPT ![id].status = Enacted]

Enact ==
    LET id == Head(enacting)
    IN  /\ enacting # <<>>
        /\ enacting' = Tail(enacting)
        /\ IF id \in DOMAIN proposals /\ proposals[id].status.tag = "Approved"
           THEN IF MeetsQuorums(proposals[id].project_id, tallies[id])
                THEN EnactAppended(id)
                ELSE EnactReverted(id)
           ELSE UNCHANGED <<proposals, releaseLog, free, held>>
        /\ UNCHANGED <<now, nextProjectId, nextProposalId, projects, stakeholders, roleStake,
                       votes, tallies, counterAttestations, pendingEnactments>>

-----------------------------------------------------------------------------
Next ==
    \/ \E g \in Genesis : ProjectGenesis(g)
    \/ \E who \in Account, project_id \in ProjectId, version \in Version,
          attestation \in BuildAttestation, cid \in Cid, signature \in Signature :
          NewRelease(who, project_id, version, attestation, cid, signature)
    \/ \E who \in Account, id \in ProposalId, choice \in {"aye", "nay"} : Vote(who, id, choice)
    \/ \E who \in Account, id \in ProposalId, rebuilt_binary_hash \in Hash :
          SubmitCounterAttestation(who, id, rebuilt_binary_hash)
    \/ \E id \in ProposalId : CloseExpired(id)
    \/ OnInitialize
    \/ Enact

Spec == Init /\ [][Next]_vars

\* Aura authors a block in every slot and FRAME runs on_initialize to the end
\* before the block's extrinsics; nobody is obliged to submit an extrinsic.
FairSpec == Spec /\ WF_vars(OnInitialize) /\ WF_vars(Enact)

-----------------------------------------------------------------------------
(* Correctness *)

Occurs(id, ids) == \E i \in 1..Len(ids) : ids[i] = id
NoRepeat(ids) == \A i, j \in 1..Len(ids) : ids[i] = ids[j] => i = j

ScheduledAt(id, block) == id \in DOMAIN proposals /\ proposals[id].status = Approved(block)
IsOpen(id) == proposals[id].status.tag \in {"Voting", "Approved"}

\* PendingEnactments and the proposals' statuses agree after every sequence of
\* approvals, revocations, re-approvals, challenges and enactments: a block's
\* vector lists exactly the proposals approved for that block, each once, and
\* the ids on_initialize has still to visit are approved for the current block.
PendingExact ==
    /\ \A b \in Block : NoRepeat(pendingEnactments[b])
    /\ NoRepeat(enacting)
    /\ enacting # <<>> => pendingEnactments[now] = <<>>
    /\ \A id \in ProposalId, b \in Block :
          ScheduledAt(id, b) <=> \/ Occurs(id, pendingEnactments[b])
                                 \/ b = now /\ Occurs(id, enacting)

\* on_initialize never runs past an approved proposal: with a delay of at least
\* one block, `enact_at` is a block still to come, or the current block while
\* the loop is on its way to the proposal.
NoMissedEnactment ==
    \A id \in DOMAIN proposals :
        /\ proposals[id].status.tag = "Approved"
        /\ projects[proposals[id].project_id].policy.enactment_delay > 0
        => \/ now < proposals[id].status.enact_at
           \/ now = proposals[id].status.enact_at /\ Occurs(id, enacting)

\* The status follows the running tallies: where no Build Service vote is
\* required, an approved or enacted proposal meets its quorums and one that is
\* still voting, or has expired, does not; no challenge, slash, expiry or new
\* project in between disturbs that.
StatusTracksQuorums ==
    \A id \in DOMAIN proposals :
        LET project_id == proposals[id].project_id
            met == MeetsQuorums(project_id, tallies[id])
        IN  (\A rq \in projects[project_id].policy.required_roles : rq.role # "BuildService") =>
            /\ proposals[id].status.tag \in {"Approved", "Enacted"} => met
            /\ proposals[id].status.tag \in {"Voting", "Expired"} => ~met

StakeOfRole(project_id, r) ==
    SumFunction([a \in Account |-> IF stakeholders[project_id][a].role = r
                                   THEN stakeholders[project_id][a].stake ELSE 0])

StakeVoting(id, r, choice) ==
    LET registry == stakeholders[proposals[id].project_id]
    IN  SumFunction([a \in Account |-> IF registry[a].role = r /\ votes[id][a] = choice
                                       THEN registry[a].stake ELSE 0])

\* Eq. 1 of the pallet's documentation, over the votes and the registry, with
\* none of the pallet's running totals and no saturation.
EqOne(id) ==
    LET project_id == proposals[id].project_id
    IN  \A rq \in projects[project_id].policy.required_roles :
            /\ StakeOfRole(project_id, rq.role) > 0
            /\ StakeVoting(id, rq.role, "aye") * ACCURACY
                 >= rq.quorum * StakeOfRole(project_id, rq.role)

\* "A proposal is accepted iff" Eq. 1 holds (pallet header): at every moment an
\* approved or enacted proposal satisfies Eq. 1 and one still voting, or
\* expired, does not, whatever votes were cast, changed and taken back.
AcceptedIffEqOne ==
    \A id \in DOMAIN proposals :
        /\ proposals[id].status.tag \in {"Approved", "Enacted"} => EqOne(id)
        /\ proposals[id].status.tag \in {"Voting", "Expired"} => ~EqOne(id)

\* The incremental tallies equal a recount.  A Build Service may be slashed
\* after it voted, so its role is the one the recount leaves out.
TalliesRecount ==
    \A id \in DOMAIN proposals : \A r \in Role \ {"BuildService"} :
        tallies[id][r] = [ayes |-> StakeVoting(id, r, "aye"), nays |-> StakeVoting(id, r, "nay")]

\* Holds are aggregated per account and reason, and every release or burn is
\* best effort; the escrow still matches the books: an account's stake hold is
\* the sum of its stakes over all projects, its bond hold the sum of the bonds
\* of its open proposals, and RoleStake the sum of the registry.
EscrowMatchesBooks ==
    /\ \A a \in Account :
        /\ held["Stake"][a] = SumFunction([j \in ProjectId |-> stakeholders[j][a].stake])
        /\ held["ProposalBond"][a] =
             SumFunction([id \in DOMAIN proposals |->
                            IF proposals[id].proposer = a /\ IsOpen(id)
                            THEN proposals[id].bond ELSE 0])
    /\ \A j \in ProjectId, r \in Role : roleStake[j][r] = StakeOfRole(j, r)

\* The Official Release Log holds each enacted proposal of the project exactly
\* once, with the artifact that was voted on, in block order; a proposal is
\* rejected exactly when a counter-attestation is on record, so none of the
\* log's entries was ever successfully challenged.
LogMatchesProposals ==
    /\ \A j \in ProjectId : \A i \in 1..Len(releaseLog[j]) :
        LET entry == releaseLog[j][i]
        IN  /\ entry.proposal_id \in DOMAIN proposals
            /\ LET p == proposals[entry.proposal_id]
               IN  /\ p.status = Enacted
                   /\ p.project_id = j
                   /\ <<p.version, p.attestation.source_commit_hash,
                        p.attestation.output_binary_hash, p.attestation_cid>>
                      = <<entry.version, entry.source_commit_hash,
                          entry.output_binary_hash, entry.attestation_cid>>
            /\ entry.enacted_at <= now
            /\ i > 1 => releaseLog[j][i - 1].enacted_at <= entry.enacted_at
    /\ \A id \in DOMAIN proposals :
        /\ proposals[id].status = Enacted =>
             LET log == releaseLog[proposals[id].project_id]
             IN  Cardinality({i \in 1..Len(log) : log[i].proposal_id = id}) = 1
        /\ proposals[id].status = Rejected <=> id \in DOMAIN counterAttestations

\* `enact` does not look at `enact_at`; a release is still appended only in the
\* very block the approval announced, so the delay is always given in full.
EnactedOnTime ==
    [][\A id \in DOMAIN proposals :
          proposals[id].status # Enacted /\ proposals'[id].status = Enacted
          => proposals[id].status = Approved(now)]_vars

\* A stakeholder of an existing project loses stake only as the Build Service
\* of an open proposal that the same step rejects, by exactly sigma_neg of the
\* stake it had (rounded down), and nobody else's escrowed stake is touched.
SlashOnlyOnRejection ==
    [][\A j \in DOMAIN projects, a \in Account :
          stakeholders'[j][a] # stakeholders[j][a] =>
            LET lost == stakeholders[j][a].stake - stakeholders'[j][a].stake
                due == projects[j].sigma_neg * stakeholders[j][a].stake
            IN  /\ \E id \in DOMAIN proposals :
                     /\ proposals[id].project_id = j /\ proposals[id].attestation.builder = a
                     /\ IsOpen(id) /\ proposals'[id].status = Rejected
                /\ lost * ACCURACY <= due /\ due < (lost + 1) * ACCURACY
                /\ held'["Stake"] = [held["Stake"] EXCEPT ![a] = @ - lost]]_vars

Owned(a) == free[a] + held["Stake"][a] + held["ProposalBond"][a]

\* A proposal that closes gives its proposer the whole bond back.
BondsBack ==
    \A id \in DOMAIN proposals :
        IsOpen(id) /\ ~IsOpen(id)' =>
            free' = [free EXCEPT ![proposals[id].proposer] = @ + proposals[id].bond]

\* An account keeps what it owns, or loses what its stake in a project falls by.
OnlySlashed ==
    \A a \in Account :
        \/ /\ Owned(a)' = Owned(a)
           /\ \A j \in DOMAIN projects : stakeholders'[j][a] = stakeholders[j][a]
        \/ \E j \in DOMAIN projects :
             /\ stakeholders'[j][a].stake < stakeholders[j][a].stake
             /\ Owned(a) - Owned(a)' = stakeholders[j][a].stake - stakeholders'[j][a].stake

\* Releases and burns are best effort, and `enact` drops even their errors; no
\* money gets lost or made: a proposal that closes gives its proposer the whole
\* bond back in the same step, whatever else of the proposer is on hold, and what
\* an account owns, free and on hold, never changes but by a slash, which burns
\* exactly what the account's stake in one project falls by.
FundsConserved == [][BondsBack /\ OnlySlashed]_vars

\* An approval announced for a block does not stay pending once block production
\* has passed that block: the proposal is enacted, revoked or rejected.
ApprovalResolves ==
    \A id \in ProposalId, b \in 1..(Horizon - 1) : ScheduledAt(id, b) ~> ~ScheduledAt(id, b)

OpenBonds(a) == SumFunction([id \in DOMAIN proposals |->
                    IF proposals[id].proposer = a /\ IsOpen(id) THEN proposals[id].bond ELSE 0])

\* Nobody has to call close_expired, but it must be enough that someone keeps
\* calling it: every proposal then ends, by enactment, rejection or expiry, and
\* no more of its proposer's money is on hold than the bonds of proposals still
\* open.  That includes an approval taken off the queue by a changed vote and one
\* that `enact` puts back to Voting, perhaps past voting_ends, because the Build
\* Service it needs was slashed.  (Proposals whose last possible block is simulated.)
ProposalsEnd ==
    (\A id \in ProposalId : WF_vars(CloseExpired(id))) =>
        \A id \in ProposalId :
            (/\ id \in DOMAIN proposals
             /\ proposals[id].voting_ends
                + projects[proposals[id].project_id].policy.enactment_delay <= Horizon)
            ~> (/\ id \in DOMAIN proposals /\ ~IsOpen(id)
                /\ held["ProposalBond"][proposals[id].proposer] = OpenBonds(proposals[id].proposer))

QuorumsMet(id) == MeetsQuorums(proposals[id].project_id, tallies[id])

\* A slash shrinks the denominator of Eq. 1 and re-evaluates no proposal, so a
\* status can be stale, but not past the next step that touches the proposal:
\* whenever a vote changes its tally, or its status moves between Voting and
\* Approved, the new status is the one the current stakes call for.
StaleUntilTouched ==
    [][\A id \in DOMAIN proposals :
          /\ proposals'[id].status.tag \in {"Voting", "Approved"}
          /\ tallies'[id] # tallies[id] \/ proposals'[id].status # proposals[id].status
          => (proposals'[id].status.tag = "Approved" <=> QuorumsMet(id)')]_vars

\* A slash does not touch the tallies, so a Build Service's recorded weight can
\* be stale, but only upwards: no role's tally is ever below a recount, and a
\* slashed voter can not erase other voters' weight by voting again.
TalliesCoverVotes ==
    \A id \in DOMAIN proposals, r \in Role :
        /\ tallies[id][r].ayes >= StakeVoting(id, r, "aye")
        /\ tallies[id][r].nays >= StakeVoting(id, r, "nay")

-----------------------------------------------------------------------------
(* What the documentation says and the code does not keep *)

\* "sum(stake of aye voters in r) / sum(stake in r) >= tau_r" for every
\* required role of an approved proposal, when the Build Service is required.
ApprovalBackedByStake ==
    \A id \in DOMAIN proposals : proposals[id].status.tag = "Approved" => EqOne(id)

\* "Votes stay open until enactment": whenever extrinsics are taken (on_initialize
\* is through) a proposal that is approved and not yet enacted can be voted on.
VotesOpenUntilEnactment ==
    \A id \in DOMAIN proposals :
        enacting = <<>> /\ proposals[id].status.tag = "Approved"
        => now <= proposals[id].voting_ends
=============================================================================
