---------------------------- MODULE VeriGovProofs ----------------------------
(***************************************************************************)
(* Proofs about VeriGov for every value of its constants.  Types and       *)
(* PendingEnactments first; then the status of a proposal.  The time lock: *)
(* on_initialize never runs past an approved proposal, and a release is    *)
(* appended only in the block its approval announced.  The quorums of      *)
(* Eq. 1: the status follows the running tallies, and where a slash can    *)
(* make it stale, it is right again after the next step that touches the   *)
(* proposal.                                                               *)
(***************************************************************************)
EXTENDS VeriGov, TLAPS

-----------------------------------------------------------------------------
(* Arithmetic *)

\* Ids in use and the clock are within their bounds.
LEMMA StoredIds ==
    ASSUME TypeOK
    PROVE  /\ DOMAIN proposals \subseteq ProposalId /\ DOMAIN projects \subseteq ProjectId
           /\ now \in Block /\ now \in 0..MaxBlock
<1>1. /\ now \in 1..Horizon /\ nextProjectId \in 0..MaxProjects /\ nextProposalId \in 0..MaxProposals
      /\ DOMAIN projects = 0..(nextProjectId - 1) /\ DOMAIN proposals = 0..(nextProposalId - 1)
  BY DEF TypeOK
<1>2. DOMAIN proposals \subseteq ProposalId
  BY <1>1, VeriGovAssumption DEF ProposalId
<1>3. DOMAIN projects \subseteq ProjectId
  BY <1>1, VeriGovAssumption DEF ProjectId
<1>4. now \in Block /\ now \in 0..MaxBlock
  BY <1>1, VeriGovAssumption DEF Block
<1> QED
  BY <1>2, <1>3, <1>4

\* A Perbill fraction of a balance, rounded down, is a natural number that
\* exceeds neither bound of the exact product.
LEMMA MulFloorType ==
    ASSUME NEW parts \in PerbillParts, NEW x \in Balance
    PROVE  MulFloor(parts, x) \in Nat
<1>1. parts * x \in Nat
  BY PerbillAssumption DEF PerbillParts, Balance
<1>2. \A m \in Nat : m \div ACCURACY \in Nat
  BY PerbillAssumption
<1> QED
  BY <1>1, <1>2 DEF MulFloor

\* Saturating subtraction stays in the balance type.
LEMMA SatSubType ==
    ASSUME NEW x \in Balance, NEW y \in Nat
    PROVE  SatSub(x, y) \in Balance
  BY PerbillAssumption DEF SatSub, Balance

\* Saturating addition stays below its limit.
LEMMA SatAddType ==
    ASSUME NEW limit \in Nat, NEW x \in 0..limit, NEW y \in 0..limit
    PROVE  SatAdd(x, y, limit) \in 0..limit
  BY DEF SatAdd, AtMost

-----------------------------------------------------------------------------
(* Helpers *)

\* Recording a vote keeps a tally a tally.
LEMMA RecordVoteType ==
    ASSUME NEW tally \in RoleTally, NEW prev, NEW choice, NEW stake \in Balance
    PROVE  RecordVote(tally, prev, choice, stake) \in RoleTally
  BY PerbillAssumption DEF RecordVote, RoleTally, Balance, SatSub, SatAdd, AtMost

\* Dropping an id from a block's vector leaves a vector of proposal ids.
LEMMA RetainType ==
    ASSUME NEW ids \in Seq(ProposalId), NEW id
    PROVE  Retain(ids, id) \in Seq(ProposalId)
<1>1. CASE \E i \in 1..Len(ids) : ids[i] = id
  <2> DEFINE k == CHOOSE i \in 1..Len(ids) : ids[i] = id
  <2>1. k \in 1..Len(ids)
    BY <1>1
  <2>2. Retain(ids, id) = [i \in 1..(Len(ids) - 1) |-> IF i < k THEN ids[i] ELSE ids[i + 1]]
    BY <1>1 DEF Retain
  <2> HIDE DEF k
  <2> QED
    BY <2>1, <2>2
<1>2. CASE ~ \E i \in 1..Len(ids) : ids[i] = id
  BY <1>2 DEF Retain
<1> QED
  BY <1>1, <1>2

\* What do_vote leaves in storage has the right types, and only a status changes
\* in the proposals it was given.
LEMMA DoVoteType ==
    ASSUME TypeOK,
           NEW STATE n, n \in 0..MaxProposals, NEW STATE props, props \in [0..(n - 1) -> Proposal],
           NEW id \in ProposalId, id \in 0..(n - 1), NEW who \in Account, NEW choice \in {"aye", "nay"},
           props[id].project_id \in DOMAIN projects,
           stakeholders[props[id].project_id][who].role \in Role,
           DoVote(props, id, who, choice)
    PROVE  /\ tallies' \in [ProposalId -> [Role -> RoleTally]]
           /\ votes' \in [ProposalId -> [Account -> {"none", "aye", "nay"}]]
           /\ pendingEnactments' \in [Block -> Seq(ProposalId)]
           /\ proposals' \in [0..(n - 1) -> Proposal]
           /\ \A q \in 0..(n - 1) : proposals'[q].project_id = props[q].project_id
<1> DEFINE project_id == props[id].project_id
           voter == stakeholders[project_id][who]
           recorded == RecordVote(tallies[id][voter.role], votes[id][who], choice, voter.stake)
           tally == [tallies[id] EXCEPT ![voter.role] = recorded]
<1>1. /\ id \in ProposalId
      /\ project_id \in ProjectId /\ projects[project_id] \in ProjectInfo
      /\ voter.role \in Role /\ voter.stake \in Balance
  <2>1. id \in ProposalId
    OBVIOUS
  <2>2. project_id \in ProjectId /\ projects[project_id] \in ProjectInfo
    BY StoredIds DEF TypeOK
  <2>3. voter \in Stakeholder
    BY <2>2 DEF TypeOK
  <2> QED
    BY <2>1, <2>2, <2>3 DEF Stakeholder
<1>2. tally \in [Role -> RoleTally]
  <2>1. recorded \in RoleTally
    BY <1>1, RecordVoteType DEF TypeOK
  <2> QED
    BY <1>1, <2>1 DEF TypeOK
<1>3. /\ tallies' = [tallies EXCEPT ![id] = tally]
      /\ votes' = [votes EXCEPT ![id][who] = choice]
      /\ \/ Approve(props, id)
         \/ props[id].status.tag = "Approved" /\ Revoke(props, id)
         \/ proposals' = props /\ UNCHANGED pendingEnactments
  BY DEF DoVote
<1> HIDE DEF recorded, tally
<1>4. tallies' \in [ProposalId -> [Role -> RoleTally]]
  BY <1>1, <1>2, <1>3 DEF TypeOK
<1>5. votes' \in [ProposalId -> [Account -> {"none", "aye", "nay"}]]
  BY <1>1, <1>3 DEF TypeOK
<1>6. /\ pendingEnactments' \in [Block -> Seq(ProposalId)]
      /\ proposals' \in [0..(n - 1) -> Proposal]
      /\ \A q \in 0..(n - 1) : proposals'[q].project_id = props[q].project_id
  <2>1. CASE Approve(props, id)
    <3> DEFINE enact_at == EnactAt(project_id)
    <3>1. enact_at \in Block
      <4>1. now \in 0..MaxBlock
        BY StoredIds
      <4>2. projects[project_id].policy.enactment_delay \in 0..MaxBlock
        BY <1>1 DEF Block, ProjectInfo, ReleasePolicy
      <4> QED
        BY <4>1, <4>2, SatAddType, VeriGovAssumption DEF EnactAt, Block
    <3>2. /\ pendingEnactments' = [pendingEnactments EXCEPT ![enact_at] = Append(@, id)]
          /\ proposals' = [props EXCEPT ![id].status = Approved(enact_at)]
      BY <2>1 DEF Approve
    <3>3. Approved(enact_at) \in ProposalStatus
      BY <3>1 DEF Approved, ProposalStatus
    <3> HIDE DEF enact_at
    <3>4. pendingEnactments' \in [Block -> Seq(ProposalId)]
      BY <1>1, <3>1, <3>2 DEF TypeOK
    <3>5. /\ proposals' \in [0..(n - 1) -> Proposal]
          /\ \A q \in 0..(n - 1) : proposals'[q].project_id = props[q].project_id
      BY <3>2, <3>3 DEF Proposal
    <3> QED
      BY <3>4, <3>5
  <2>2. CASE props[id].status.tag = "Approved" /\ Revoke(props, id)
    <3>1. props[id].status.enact_at \in Block
      BY DEF Proposal, ProposalStatus
    <3>2. pendingEnactments' \in [Block -> Seq(ProposalId)]
      BY <2>2, <3>1, RetainType DEF TypeOK, Revoke
    <3>3. Voting \in ProposalStatus
      BY VeriGovAssumption DEF Voting, ProposalStatus, Block
    <3>4. /\ proposals' \in [0..(n - 1) -> Proposal]
          /\ \A q \in 0..(n - 1) : proposals'[q].project_id = props[q].project_id
      BY <2>2, <3>3 DEF Proposal, Revoke
    <3> QED
      BY <3>2, <3>4
  <2>3. CASE proposals' = props /\ UNCHANGED pendingEnactments
    BY <2>3 DEF TypeOK
  <2> QED
    BY <1>3, <2>1, <2>2, <2>3
<1> QED
  BY <1>4, <1>5, <1>6

\* The statuses are well-typed.
LEMMA StatusTypes ==
    /\ Voting \in ProposalStatus /\ Enacted \in ProposalStatus
    /\ Rejected \in ProposalStatus /\ Expired \in ProposalStatus
  BY VeriGovAssumption DEF Voting, Enacted, Rejected, Expired, ProposalStatus, Block

\* The id new_release takes is the next one.
LEMMA NextId ==
    ASSUME TypeOK, NEW who \in Account, NEW project_id \in ProjectId, NEW version \in Version,
           NEW attestation \in BuildAttestation, NEW cid \in Cid, NEW signature \in Signature,
           NewRelease(who, project_id, version, attestation, cid, signature)
    PROVE  /\ nextProposalId \in ProposalId /\ nextProposalId \notin DOMAIN proposals
           /\ nextProposalId' = nextProposalId + 1 /\ nextProposalId + 1 \in 0..MaxProposals
           /\ nextProposalId \in 0..nextProposalId /\ (nextProposalId + 1) - 1 = nextProposalId
<1>1. /\ nextProposalId \in Nat /\ nextProposalId < MaxProposals
      /\ nextProposalId' = nextProposalId + 1
  BY DEF NewRelease, TypeOK
<1>2. DOMAIN proposals = 0..(nextProposalId - 1)
  BY DEF TypeOK
<1> QED
  BY <1>1, <1>2, VeriGovAssumption DEF ProposalId

\* The proposals new_release hands to do_vote: the stored ones and a new one.
Inserted(props, project_id, who, attestation) ==
    /\ DOMAIN props = DOMAIN proposals \cup {nextProposalId}
    /\ \A q \in DOMAIN proposals : props[q] = proposals[q]
    /\ props[nextProposalId].project_id = project_id
    /\ props[nextProposalId].status = Voting
    /\ props[nextProposalId].proposer = who
    /\ props[nextProposalId].attestation = attestation
    /\ props[nextProposalId].bond = projects[project_id].proposal_bond

\* new_release hands do_vote the stored proposals and a new one that is voting.
LEMMA NewReleaseVotes ==
    ASSUME TypeOK, NEW who \in Account, NEW project_id \in ProjectId, NEW version \in Version,
           NEW attestation \in BuildAttestation, NEW cid \in Cid, NEW signature \in Signature,
           NewRelease(who, project_id, version, attestation, cid, signature)
    PROVE  \E props \in [0..nextProposalId -> Proposal] :
              /\ Inserted(props, project_id, who, attestation)
              /\ DoVote(props, nextProposalId, who, "aye")
<1> DEFINE proposal == [project_id |-> project_id, proposer |-> who, version |-> version,
                        attestation |-> attestation, attestation_cid |-> cid,
                        bond |-> projects[project_id].proposal_bond,
                        voting_ends |-> SatAdd(now, projects[project_id].policy.voting_period,
                                               MaxBlock),
                        status |-> Voting]
           props == Insert(proposals, nextProposalId, proposal)
<1>1. projects[project_id] \in ProjectInfo
  BY DEF NewRelease, TypeOK
<1>2. proposal \in Proposal
  <2>1. now \in 0..MaxBlock
    BY StoredIds
  <2>2. projects[project_id].policy.voting_period \in 0..MaxBlock
    BY <1>1 DEF ProjectInfo, ReleasePolicy, Block
  <2>3. proposal.voting_ends \in Block
    BY <2>1, <2>2, SatAddType, VeriGovAssumption DEF Block
  <2>4. proposal.bond \in Balance
    BY <1>1 DEF ProjectInfo
  <2> QED
    BY <2>3, <2>4, StatusTypes DEF Proposal
<1>3. /\ proposal.project_id = project_id /\ proposal.status = Voting
      /\ proposal.proposer = who /\ proposal.attestation = attestation
      /\ proposal.bond = projects[project_id].proposal_bond
  OBVIOUS
<1>4. DoVote(props, nextProposalId, who, "aye")
  BY DEF NewRelease
<1> HIDE DEF proposal
<1>5. /\ DOMAIN props = DOMAIN proposals \cup {nextProposalId}
      /\ DOMAIN props = 0..nextProposalId
      /\ nextProposalId \notin DOMAIN proposals
  BY VeriGovAssumption DEF TypeOK, Insert
<1>6. /\ \A q \in DOMAIN proposals : props[q] = proposals[q]
      /\ props[nextProposalId] = proposal
  BY <1>5 DEF Insert
<1>7. props \in [0..nextProposalId -> Proposal]
  BY <1>2, <1>5, <1>6 DEF TypeOK, Insert
<1> HIDE DEF props
<1>8. Inserted(props, project_id, who, attestation)
  BY <1>3, <1>5, <1>6 DEF Inserted
<1> QED
  BY <1>4, <1>7, <1>8

-----------------------------------------------------------------------------
(* Type correctness *)

\* Changing the status of one proposal keeps the proposals well-typed.
LEMMA SetStatusType ==
    ASSUME TypeOK, NEW id \in DOMAIN proposals, NEW status \in ProposalStatus,
           proposals' = [proposals EXCEPT ![id].status = status]
    PROVE  /\ proposals' \in [0..(nextProposalId - 1) -> Proposal]
           /\ \A q \in DOMAIN proposals' : proposals'[q].project_id \in DOMAIN projects
<1>1. /\ proposals \in [0..(nextProposalId - 1) -> Proposal]
      /\ \A q \in DOMAIN proposals : proposals[q].project_id \in DOMAIN projects
  BY DEF TypeOK
<1>2. proposals' \in [0..(nextProposalId - 1) -> Proposal]
  BY <1>1 DEF Proposal
<1>3. \A q \in DOMAIN proposals : proposals'[q].project_id = proposals[q].project_id
  BY <1>1 DEF Proposal
<1> QED
  BY <1>1, <1>2, <1>3

\* A best-effort release keeps the balances natural numbers.
LEMMA ReleaseType ==
    ASSUME TypeOK, NEW reason \in HoldReason, NEW a \in Account, NEW amount \in Nat,
           Release(reason, a, amount)
    PROVE  /\ free' \in [Account -> Nat]
           /\ held' \in [HoldReason -> [Account -> Nat]]
<1> DEFINE taken == TakenOffHold(reason, a, amount)
<1>1. /\ free \in [Account -> Nat] /\ held \in [HoldReason -> [Account -> Nat]]
      /\ held[reason] \in [Account -> Nat] /\ held[reason][a] \in Nat
  BY DEF TypeOK
<1>2. taken \in Nat /\ held[reason][a] - taken \in Nat
  BY <1>1 DEF TakenOffHold, AtMost
<1>3. /\ free' = [free EXCEPT ![a] = @ + taken]
      /\ held' = [held EXCEPT ![reason][a] = @ - taken]
  BY DEF Release
<1> HIDE DEF taken
<1>4. free' \in [Account -> Nat]
  BY <1>1, <1>2, <1>3
<1>5. held' \in [HoldReason -> [Account -> Nat]]
  BY <1>1, <1>2, <1>3
<1> QED
  BY <1>4, <1>5

\* The registry a genesis call creates.
LEMMA GenesisRegistryType ==
    ASSUME NEW g \in Genesis
    PROVE  GenesisRegistry(g) \in [Account -> Stakeholder]
<1> SUFFICES ASSUME NEW a \in Account PROVE GenesisRegistry(g)[a] \in Stakeholder
  BY DEF GenesisRegistry
<1>1. CASE \E s \in g.stakeholders : s.account = a
  <2> DEFINE entry == CHOOSE s \in g.stakeholders : s.account = a
  <2>1. entry \in g.stakeholders
    BY <1>1
  <2>2. g.stakeholders \subseteq StakeholderInit
    BY GenesisAssumption DEF GenesisArgs
  <2>3. GenesisRegistry(g)[a] = [role |-> entry.role, stake |-> entry.stake]
    BY <1>1 DEF GenesisRegistry
  <2> HIDE DEF entry
  <2> QED
    BY <2>1, <2>2, <2>3 DEF StakeholderInit, Stakeholder
<1>2. CASE ~ \E s \in g.stakeholders : s.account = a
  BY <1>2, PerbillAssumption DEF GenesisRegistry, NotStakeholder, Stakeholder, Balance
<1> QED
  BY <1>1, <1>2

\* Every step of the pallet keeps its storage well-typed.
LEMMA TypeStep == TypeOK /\ [Next]_vars => TypeOK'
<1> SUFFICES ASSUME TypeOK, [Next]_vars PROVE TypeOK'
  OBVIOUS
<1>1. ASSUME NEW g \in Genesis, ProjectGenesis(g) PROVE TypeOK'
  <2> DEFINE registry == GenesisRegistry(g)
  <2>1. registry \in [Account -> Stakeholder]
    BY GenesisRegistryType
  <2>2. nextProjectId \in ProjectId /\ nextProjectId' \in 0..MaxProjects
    BY <1>1, VeriGovAssumption DEF ProjectGenesis, TypeOK, ProjectId
  <2>3. stakeholders' \in [ProjectId -> [Account -> Stakeholder]]
    BY <1>1, <2>1, <2>2 DEF ProjectGenesis, TypeOK
  <2>4. roleStake' \in [ProjectId -> [Role -> Balance]]
    <3>1. [r \in Role |-> GenesisRoleStake(g, r)] \in [Role -> Balance]
      BY GenesisAssumption
    <3> QED
      BY <1>1, <2>2, <3>1 DEF ProjectGenesis, TypeOK
  <2>5. projects' \in [0..(nextProjectId' - 1) -> ProjectInfo]
        /\ \A id \in DOMAIN projects : id \in DOMAIN projects'
    <3>1. g \in GenesisArgs
      BY GenesisAssumption
    <3>2. [policy |-> g.policy, sigma_neg |-> g.sigma_neg, proposal_bond |-> g.proposal_bond]
            \in ProjectInfo
      BY <3>1 DEF GenesisArgs, ProjectInfo
    <3>3. DOMAIN projects \cup {nextProjectId} = 0..(nextProjectId' - 1)
      BY <1>1, VeriGovAssumption DEF ProjectGenesis, TypeOK
    <3> QED
      BY <1>1, <3>2, <3>3 DEF ProjectGenesis, TypeOK, Insert
  <2>6. free' \in [Account -> Nat]
    <3> SUFFICES ASSUME NEW a \in Account PROVE free[a] - registry[a].stake \in Nat
      BY <1>1 DEF ProjectGenesis
    <3>1. free[a] \in Nat
      BY DEF TypeOK
    <3>2. CASE \E s \in g.stakeholders : s.account = a
      <4> DEFINE entry == CHOOSE s \in g.stakeholders : s.account = a
      <4>1. entry \in g.stakeholders /\ entry.account = a
        BY <3>2
      <4>2. registry[a].stake = entry.stake
        BY <3>2 DEF GenesisRegistry
      <4>3. CanHold(entry.account, entry.stake)
        BY <1>1, <4>1 DEF ProjectGenesis
      <4>4. registry[a].stake \in Nat
        BY <2>1 DEF Stakeholder, Balance
      <4> HIDE DEF entry, registry
      <4> QED
        BY <3>1, <4>1, <4>2, <4>3, <4>4, CurrencyAssumption DEF CanHold, SatSub
    <3>3. CASE ~ \E s \in g.stakeholders : s.account = a
      BY <3>1, <3>3 DEF GenesisRegistry, NotStakeholder
    <3> QED
      BY <3>2, <3>3
  <2>7. held' \in [HoldReason -> [Account -> Nat]]
    <3>1. \A a \in Account : registry[a].stake \in Nat
      BY <2>1 DEF Stakeholder, Balance
    <3>2. held' = [held EXCEPT !["Stake"] = [a \in Account |-> @[a] + registry[a].stake]]
      BY <1>1 DEF ProjectGenesis
    <3> HIDE DEF registry
    <3> QED
      BY <3>1, <3>2 DEF TypeOK, HoldReason
  <2>8. UNCHANGED <<now, nextProposalId, proposals, votes, tallies, releaseLog,
                    counterAttestations, pendingEnactments, enacting>>
    BY <1>1 DEF ProjectGenesis
  <2> HIDE DEF registry
  <2> QED
    BY <2>2, <2>3, <2>4, <2>5, <2>6, <2>7, <2>8 DEF TypeOK
<1>2. ASSUME NEW who \in Account, NEW project_id \in ProjectId, NEW version \in Version,
             NEW attestation \in BuildAttestation, NEW cid \in Cid, NEW signature \in Signature,
             NewRelease(who, project_id, version, attestation, cid, signature)
      PROVE  TypeOK'
  <2> DEFINE bond == projects[project_id].proposal_bond
  <2>1. /\ project_id \in DOMAIN projects /\ projects[project_id] \in ProjectInfo
        /\ bond \in Nat
    BY <1>2 DEF NewRelease, TypeOK, ProjectInfo, Balance
  <2>0. PICK props \in [0..nextProposalId -> Proposal] :
           /\ Inserted(props, project_id, who, attestation)
           /\ DoVote(props, nextProposalId, who, "aye")
    BY <1>2, NewReleaseVotes
  <2>2. /\ DOMAIN props = DOMAIN proposals \cup {nextProposalId}
        /\ \A q \in DOMAIN proposals : props[q] = proposals[q]
        /\ props[nextProposalId].project_id = project_id
        /\ props[nextProposalId].status = Voting
        /\ DoVote(props, nextProposalId, who, "aye")
    BY <2>0 DEF Inserted
  <2>3. /\ nextProposalId' \in 0..MaxProposals /\ nextProposalId \in 0..(nextProposalId' - 1)
        /\ 0..(nextProposalId' - 1) = 0..nextProposalId
    BY <1>2, NextId
  <2>4. \A q \in DOMAIN props : props[q].project_id \in DOMAIN projects
    BY <2>1, <2>2 DEF TypeOK
  <2>5. PICK id \in ProposalId : id = nextProposalId
    BY <1>2, NextId
  <2>6. stakeholders[props[nextProposalId].project_id][who].role \in Role
    BY <1>2, <2>2 DEF NewRelease, Role
  <2>7. /\ tallies' \in [ProposalId -> [Role -> RoleTally]]
        /\ votes' \in [ProposalId -> [Account -> {"none", "aye", "nay"}]]
        /\ pendingEnactments' \in [Block -> Seq(ProposalId)]
        /\ proposals' \in [0..nextProposalId -> Proposal]
        /\ \A q \in 0..nextProposalId : proposals'[q].project_id = props[q].project_id
    <3>1. /\ nextProposalId + 1 \in 0..MaxProposals
          /\ 0..((nextProposalId + 1) - 1) = 0..nextProposalId
          /\ id \in 0..nextProposalId
      BY <1>2, <2>5, NextId
    <3> QED
      BY <2>2, <2>4, <2>5, <2>6, <3>1, DoVoteType
  <2>8. free' \in [Account -> Nat] /\ held' \in [HoldReason -> [Account -> Nat]]
    <3>1. /\ CanHold(who, bond)
          /\ free' = [free EXCEPT ![who] = @ - bond]
          /\ held' = [held EXCEPT !["ProposalBond"][who] = @ + bond]
      BY <1>2 DEF NewRelease, Hold
    <3>2. free[who] - bond \in Nat
      BY <2>1, <3>1, CurrencyAssumption DEF CanHold, SatSub, TypeOK
    <3> HIDE DEF bond
    <3>3. free' \in [Account -> Nat]
      BY <3>1, <3>2 DEF TypeOK
    <3>4. held' \in [HoldReason -> [Account -> Nat]]
      BY <2>1, <3>1 DEF TypeOK, HoldReason
    <3> QED
      BY <3>3, <3>4
  <2>9. UNCHANGED <<now, nextProjectId, projects, stakeholders, roleStake, releaseLog,
                    counterAttestations, enacting>>
    BY <1>2 DEF NewRelease
  <2> QED
    BY <2>2, <2>3, <2>4, <2>7, <2>8, <2>9 DEF TypeOK
<1>3. ASSUME NEW who \in Account, NEW id \in ProposalId, NEW choice \in {"aye", "nay"},
             Vote(who, id, choice)
      PROVE  TypeOK'
  <2>1. /\ nextProposalId \in 0..MaxProposals /\ proposals \in [0..(nextProposalId - 1) -> Proposal]
        /\ id \in 0..(nextProposalId - 1) /\ proposals[id].project_id \in DOMAIN projects
    BY <1>3 DEF Vote, TypeOK
  <2>2. stakeholders[proposals[id].project_id][who].role \in Role
    <3>1. stakeholders[proposals[id].project_id][who] \in Stakeholder
      BY <2>1 DEF TypeOK, Proposal
    <3> QED
      BY <1>3, <3>1 DEF Vote, IsStakeholder, Stakeholder
  <2>3. DoVote(proposals, id, who, choice)
    BY <1>3 DEF Vote
  <2>4. /\ tallies' \in [ProposalId -> [Role -> RoleTally]]
        /\ votes' \in [ProposalId -> [Account -> {"none", "aye", "nay"}]]
        /\ pendingEnactments' \in [Block -> Seq(ProposalId)]
        /\ proposals' \in [0..(nextProposalId - 1) -> Proposal]
        /\ \A q \in 0..(nextProposalId - 1) : proposals'[q].project_id = proposals[q].project_id
    <3>1. PICK last \in 0..MaxProposals : last = nextProposalId
      BY <2>1
    <3>2. PICK props \in [0..(last - 1) -> Proposal] :
             props = proposals /\ DoVote(props, id, who, choice)
      BY <2>1, <2>3, <3>1
    <3>3. /\ id \in 0..(last - 1) /\ props[id].project_id \in DOMAIN projects
          /\ stakeholders[props[id].project_id][who].role \in Role
          /\ DoVote(props, id, who, choice)
      BY <2>1, <2>2, <3>1, <3>2
    <3>4. tallies' \in [ProposalId -> [Role -> RoleTally]]
      BY <3>3, DoVoteType
    <3>5. votes' \in [ProposalId -> [Account -> {"none", "aye", "nay"}]]
      BY <3>3, DoVoteType
    <3>6. pendingEnactments' \in [Block -> Seq(ProposalId)]
      BY <3>3, DoVoteType
    <3>7. proposals' \in [0..(last - 1) -> Proposal]
      <4>1. DOMAIN proposals' = 0..(last - 1)
        BY <3>3, DoVoteType
      <4>2. proposals' = [q \in DOMAIN proposals' |-> proposals'[q]]
        BY <3>3, DoVoteType
      <4>3. \A q \in 0..(last - 1) : proposals'[q] \in Proposal
        BY <3>3, DoVoteType, SMTT(90)
      <4> QED
        BY <4>1, <4>2, <4>3
    <3>8. \A q \in 0..(last - 1) : proposals'[q].project_id = props[q].project_id
      BY <3>3, DoVoteType
    <3> QED
      BY <3>1, <3>2, <3>4, <3>5, <3>6, <3>7, <3>8
  <2>5. UNCHANGED <<now, nextProjectId, nextProposalId, projects, stakeholders, roleStake,
                    releaseLog, counterAttestations, enacting, free, held>>
    BY <1>3 DEF Vote
  <2> QED
    BY <2>4, <2>5 DEF TypeOK
<1>4. ASSUME NEW who \in Account, NEW id \in ProposalId, NEW rebuilt \in Hash,
             SubmitCounterAttestation(who, id, rebuilt)
      PROVE  TypeOK'
  <2> DEFINE proposal == proposals[id]
             project_id == proposal.project_id
             builder == proposal.attestation.builder
             slashed == TakenOffHold("Stake", builder, ToSlash(project_id, builder))
             returned == TakenOffHold("ProposalBond", proposal.proposer, proposal.bond)
  <2>1. /\ id \in DOMAIN proposals /\ proposal \in Proposal
        /\ project_id \in DOMAIN projects /\ project_id \in ProjectId
        /\ projects[project_id] \in ProjectInfo
    <3>1. id \in DOMAIN proposals
      BY <1>4 DEF SubmitCounterAttestation
    <3>2. proposal \in Proposal /\ project_id \in DOMAIN projects
      BY <3>1 DEF TypeOK
    <3>3. projects[project_id] \in ProjectInfo
      BY <3>2 DEF TypeOK
    <3> QED
      BY <3>1, <3>2, <3>3 DEF Proposal
  <2>2. /\ builder \in Account /\ proposal.proposer \in Account /\ proposal.bond \in Nat
        /\ proposal.status.enact_at \in Block
        /\ proposal.attestation.output_binary_hash \in Hash
    BY <2>1 DEF Proposal, BuildAttestation, ProposalStatus, Balance
  <2>3. stakeholders[project_id][builder] \in Stakeholder
    BY <2>1, <2>2 DEF TypeOK
  <2>4. ToSlash(project_id, builder) \in Nat
    <3>1. /\ projects[project_id].sigma_neg \in PerbillParts
          /\ stakeholders[project_id][builder].stake \in Balance
      BY <2>1, <2>3 DEF ProjectInfo, Stakeholder
    <3> QED
      BY <3>1, MulFloorType DEF ToSlash
  <2>5. /\ slashed \in Nat /\ held["Stake"][builder] - slashed \in Nat
        /\ returned \in Nat /\ held["ProposalBond"][proposal.proposer] - returned \in Nat
    <3>1. held["Stake"][builder] \in Nat /\ held["ProposalBond"][proposal.proposer] \in Nat
      BY <2>2 DEF TypeOK, HoldReason
    <3> QED
      BY <2>2, <2>4, <3>1 DEF TakenOffHold, AtMost
  <2>6. /\ stakeholders' = [stakeholders EXCEPT
                              ![project_id][builder].stake = SatSub(@, slashed)]
        /\ roleStake' = [roleStake EXCEPT ![project_id]["BuildService"] = SatSub(@, slashed)]
        /\ held' = [held EXCEPT !["Stake"][builder] = @ - slashed,
                                !["ProposalBond"][proposal.proposer] = @ - returned]
        /\ free' = [free EXCEPT ![proposal.proposer] = @ + returned]
        /\ proposals' = [proposals EXCEPT ![id].status = Rejected]
        /\ counterAttestations' =
             Insert(counterAttestations, id,
                    [challenger |-> who,
                     attested_binary_hash |-> proposal.attestation.output_binary_hash,
                     rebuilt_binary_hash |-> rebuilt])
        /\ \/ UNCHANGED pendingEnactments
           \/ pendingEnactments' = [pendingEnactments EXCEPT
                                      ![proposal.status.enact_at] = Retain(@, id)]
        /\ UNCHANGED <<now, nextProjectId, nextProposalId, projects, votes, tallies, releaseLog,
                       enacting>>
    BY <1>4 DEF SubmitCounterAttestation
  <2> HIDE DEF slashed, returned
  <2>7. stakeholders' \in [ProjectId -> [Account -> Stakeholder]]
    <3>1. SatSub(stakeholders[project_id][builder].stake, slashed) \in Balance
      BY <2>3, <2>5, SatSubType DEF Stakeholder
    <3>2. [stakeholders[project_id][builder] EXCEPT
             !.stake = SatSub(stakeholders[project_id][builder].stake, slashed)] \in Stakeholder
      BY <2>3, <3>1 DEF Stakeholder
    <3> QED
      BY <2>1, <2>2, <2>6, <3>2 DEF TypeOK
  <2>8. roleStake' \in [ProjectId -> [Role -> Balance]]
    <3>1. roleStake[project_id]["BuildService"] \in Balance
      BY <2>1 DEF TypeOK, Role
    <3>2. SatSub(roleStake[project_id]["BuildService"], slashed) \in Balance
      BY <2>5, <3>1, SatSubType
    <3> QED
      BY <2>1, <2>6, <3>2 DEF TypeOK, Role
  <2>9. held' \in [HoldReason -> [Account -> Nat]]
    BY <2>2, <2>5, <2>6 DEF TypeOK, HoldReason
  <2>10. free' \in [Account -> Nat]
    <3>1. free \in [Account -> Nat] /\ free' = [free EXCEPT ![proposal.proposer] = @ + returned]
      BY <2>6 DEF TypeOK
    <3> QED
      BY <2>2, <2>5, <3>1
  <2>11. /\ DOMAIN counterAttestations' \subseteq ProposalId
         /\ counterAttestations' \in [DOMAIN counterAttestations' -> CounterAttestation]
    BY <2>2, <2>6 DEF TypeOK, Insert, CounterAttestation
  <2>12. pendingEnactments' \in [Block -> Seq(ProposalId)]
    <3>1. pendingEnactments \in [Block -> Seq(ProposalId)]
      BY DEF TypeOK
    <3>2. \/ UNCHANGED pendingEnactments
          \/ pendingEnactments' = [pendingEnactments EXCEPT
                                     ![proposal.status.enact_at] = Retain(@, id)]
      BY <2>6
    <3>3. Retain(pendingEnactments[proposal.status.enact_at], id) \in Seq(ProposalId)
      BY <2>2, <3>1, RetainType
    <3> QED
      BY <2>2, <3>1, <3>2, <3>3
  <2>13. /\ proposals' \in [0..(nextProposalId - 1) -> Proposal]
         /\ \A q \in DOMAIN proposals' : proposals'[q].project_id \in DOMAIN projects
    BY <2>1, <2>6, StatusTypes, SetStatusType
  <2> QED
    BY <2>6, <2>7, <2>8, <2>9, <2>10, <2>11, <2>12, <2>13 DEF TypeOK
<1>5. ASSUME NEW id \in ProposalId, CloseExpired(id) PROVE TypeOK'
  <2>1. /\ id \in DOMAIN proposals /\ proposals[id].proposer \in Account
        /\ proposals[id].bond \in Nat
    BY <1>5 DEF CloseExpired, TypeOK, Proposal, Balance
  <2>2. free' \in [Account -> Nat] /\ held' \in [HoldReason -> [Account -> Nat]]
    BY <1>5, <2>1, ReleaseType DEF CloseExpired, HoldReason
  <2>3. /\ proposals' \in [0..(nextProposalId - 1) -> Proposal]
        /\ \A q \in DOMAIN proposals' : proposals'[q].project_id \in DOMAIN projects
    BY <1>5, <2>1, StatusTypes, SetStatusType DEF CloseExpired
  <2>4. UNCHANGED <<now, nextProjectId, nextProposalId, projects, stakeholders, roleStake, votes,
                    tallies, releaseLog, counterAttestations, pendingEnactments, enacting>>
    BY <1>5 DEF CloseExpired
  <2> QED
    BY <2>2, <2>3, <2>4 DEF TypeOK
<1>6. CASE OnInitialize
  <2>1. now + 1 \in Block /\ now' \in 1..Horizon
    BY <1>6, VeriGovAssumption DEF OnInitialize, TypeOK, Block
  <2>2. enacting' \in Seq(ProposalId) /\ pendingEnactments' \in [Block -> Seq(ProposalId)]
    BY <1>6, <2>1 DEF OnInitialize, TypeOK
  <2>3. UNCHANGED <<nextProjectId, nextProposalId, projects, stakeholders, roleStake, proposals,
                    votes, tallies, releaseLog, counterAttestations, free, held>>
    BY <1>6 DEF OnInitialize
  <2> QED
    BY <2>1, <2>2, <2>3 DEF TypeOK
<1>7. CASE Enact
  <2> DEFINE id == Head(enacting)
  <2>1. enacting' \in Seq(ProposalId)
    BY <1>7 DEF Enact, TypeOK
  <2>2. UNCHANGED <<now, nextProjectId, nextProposalId, projects, stakeholders, roleStake,
                    votes, tallies, counterAttestations, pendingEnactments>>
    BY <1>7 DEF Enact
  <2>3. CASE UNCHANGED <<proposals, releaseLog, free, held>>
    BY <2>1, <2>2, <2>3 DEF TypeOK
  <2>4. CASE id \in DOMAIN proposals /\ EnactReverted(id)
    <3>1. UNCHANGED <<releaseLog, free, held>>
      BY <2>4 DEF EnactReverted
    <3>2. /\ proposals' \in [0..(nextProposalId - 1) -> Proposal]
          /\ \A q \in DOMAIN proposals' : proposals'[q].project_id \in DOMAIN projects
      BY <2>4, StatusTypes, SetStatusType DEF EnactReverted
    <3> QED
      BY <2>1, <2>2, <3>1, <3>2 DEF TypeOK
  <2>5. CASE id \in DOMAIN proposals /\ EnactAppended(id)
    <3>1. /\ proposals[id] \in Proposal /\ proposals[id].project_id \in ProjectId
          /\ proposals[id].proposer \in Account /\ proposals[id].bond \in Nat
      <4>1. proposals[id] \in Proposal
        BY <2>5 DEF TypeOK
      <4> HIDE DEF id
      <4> QED
        BY <4>1 DEF Proposal, Balance
    <3>2. /\ proposals' \in [0..(nextProposalId - 1) -> Proposal]
          /\ \A q \in DOMAIN proposals' : proposals'[q].project_id \in DOMAIN projects
      BY <2>5, StatusTypes, SetStatusType DEF EnactAppended
    <3>3. free' \in [Account -> Nat] /\ held' \in [HoldReason -> [Account -> Nat]]
      BY <2>5, <3>1, ReleaseType DEF EnactAppended, HoldReason
    <3>4. ReleaseEntryOf(id) \in ReleaseEntry
      <4>1. now \in Block
        BY StoredIds
      <4>2. id \in ProposalId
        BY <2>5, StoredIds
      <4> QED
        BY <3>1, <4>1, <4>2 DEF ReleaseEntryOf, ReleaseEntry, Proposal, BuildAttestation
    <3>5. releaseLog' \in [ProjectId -> Seq(ReleaseEntry)]
      BY <2>5, <3>1, <3>4 DEF EnactAppended, TypeOK
    <3> QED
      BY <2>1, <2>2, <3>2, <3>3, <3>5 DEF TypeOK
  <2> QED
    BY <1>7, <2>3, <2>4, <2>5 DEF Enact
<1>8. CASE UNCHANGED vars
  BY <1>8 DEF vars, TypeOK
<1> QED
  BY <1>1, <1>2, <1>3, <1>4, <1>5, <1>6, <1>7, <1>8 DEF Next

\* The initial storage is well-typed.
LEMMA TypeInit == Init => TypeOK
<1> SUFFICES ASSUME Init PROVE TypeOK
  OBVIOUS
<1>1. /\ now \in 1..Horizon /\ nextProjectId \in 0..MaxProjects
      /\ nextProposalId \in 0..MaxProposals
  BY VeriGovAssumption DEF Init, Block
<1>2. /\ projects \in [0..(nextProjectId - 1) -> ProjectInfo]
      /\ proposals \in [0..(nextProposalId - 1) -> Proposal]
      /\ \A id \in DOMAIN proposals : proposals[id].project_id \in DOMAIN projects
      /\ DOMAIN counterAttestations \subseteq ProposalId
      /\ counterAttestations \in [DOMAIN counterAttestations -> CounterAttestation]
  BY DEF Init
<1>3. /\ stakeholders \in [ProjectId -> [Account -> Stakeholder]]
      /\ roleStake \in [ProjectId -> [Role -> Balance]]
      /\ tallies \in [ProposalId -> [Role -> RoleTally]]
  BY PerbillAssumption DEF Init, NotStakeholder, Stakeholder, RoleTally, Balance
<1>4. /\ votes \in [ProposalId -> [Account -> {"none", "aye", "nay"}]]
      /\ releaseLog \in [ProjectId -> Seq(ReleaseEntry)]
      /\ pendingEnactments \in [Block -> Seq(ProposalId)]
      /\ enacting \in Seq(ProposalId)
  BY DEF Init
<1>5. free \in [Account -> Nat] /\ held \in [HoldReason -> [Account -> Nat]]
  BY CurrencyAssumption, PerbillAssumption DEF Init, CurrencyInit, Balance
<1> QED
  BY <1>1, <1>2, <1>3, <1>4, <1>5 DEF TypeOK

\* In every reachable state the pallet's storage is well-typed: balances and
\* tallies never leave the u128 range, best-effort releases and burns never
\* take more than is on hold, and every proposal belongs to a known project.
THEOREM TypeCorrect == Spec => []TypeOK
<1> QED
  BY TypeInit, TypeStep, PTL DEF Spec

-----------------------------------------------------------------------------
(* Vectors of proposal ids *)

\* Appending an id that is not listed.
LEMMA AppendIds ==
    ASSUME NEW ids \in Seq(ProposalId), NEW id \in ProposalId, NoRepeat(ids), ~Occurs(id, ids)
    PROVE  /\ NoRepeat(Append(ids, id))
           /\ \A q : Occurs(q, Append(ids, id)) <=> Occurs(q, ids) \/ q = id
<1> DEFINE new == Append(ids, id)
<1>1. /\ Len(new) = Len(ids) + 1 /\ Len(ids) \in Nat
      /\ \A i \in 1..Len(ids) : new[i] = ids[i]
      /\ new[Len(ids) + 1] = id
  OBVIOUS
<1> HIDE DEF new
<1>2. NoRepeat(new)
  BY <1>1 DEF NoRepeat, Occurs
<1>3. ASSUME NEW q PROVE Occurs(q, new) <=> Occurs(q, ids) \/ q = id
  <2>1. Occurs(q, new) => Occurs(q, ids) \/ q = id
    BY <1>1 DEF Occurs
  <2>2. Occurs(q, ids) => Occurs(q, new)
    BY <1>1 DEF Occurs
  <2>3. q = id => Occurs(q, new)
    BY <1>1 DEF Occurs
  <2> QED
    BY <2>1, <2>2, <2>3
<1> QED
  BY <1>2, <1>3 DEF new

\* `retain` drops the id and nothing else.
LEMMA RetainIds ==
    ASSUME NEW ids \in Seq(ProposalId), NEW id, NoRepeat(ids)
    PROVE  /\ NoRepeat(Retain(ids, id))
           /\ \A q : Occurs(q, Retain(ids, id)) <=> Occurs(q, ids) /\ q # id
<1>1. CASE ~ Occurs(id, ids)
  BY <1>1 DEF Retain, Occurs
<1>2. CASE Occurs(id, ids)
  <2> DEFINE k == CHOOSE i \in 1..Len(ids) : ids[i] = id
             kept == Retain(ids, id)
  <2>1. k \in 1..Len(ids) /\ ids[k] = id
    BY <1>2 DEF Occurs
  <2>2. kept = [i \in 1..(Len(ids) - 1) |-> IF i < k THEN ids[i] ELSE ids[i + 1]]
    BY <1>2 DEF Retain, Occurs
  <2> HIDE DEF k, kept
  <2>3. Len(kept) = Len(ids) - 1 /\ Len(ids) \in Nat
    BY <2>1, <2>2
  <2>4. \A i \in 1..Len(kept) : kept[i] = IF i < k THEN ids[i] ELSE ids[i + 1]
    BY <2>2, <2>3
  <2>5. NoRepeat(kept)
    BY <2>1, <2>3, <2>4 DEF NoRepeat
  <2>6. ASSUME NEW q, Occurs(q, kept) PROVE Occurs(q, ids) /\ q # id
    <3>1. PICK i \in 1..Len(kept) : kept[i] = q
      BY <2>6 DEF Occurs
    <3> QED
      BY <2>1, <2>3, <2>4, <3>1 DEF Occurs, NoRepeat
  <2>7. ASSUME NEW q, Occurs(q, ids), q # id PROVE Occurs(q, kept)
    <3>1. PICK i \in 1..Len(ids) : ids[i] = q
      BY <2>7 DEF Occurs
    <3>2. i # k
      BY <2>1, <2>7, <3>1
    <3>3. CASE i < k
      <4>1. i \in 1..Len(kept) /\ kept[i] = q
        BY <2>1, <2>3, <2>4, <3>1, <3>3
      <4> QED
        BY <4>1 DEF Occurs
    <3>4. CASE i > k
      <4>1. i - 1 \in 1..Len(kept) /\ kept[i - 1] = q
        BY <2>1, <2>3, <2>4, <3>1, <3>4
      <4> QED
        BY <4>1 DEF Occurs
    <3> QED
      BY <2>1, <3>2, <3>3, <3>4
  <2> QED
    BY <2>5, <2>6, <2>7 DEF kept
<1> QED
  BY <1>1, <1>2

\* Taking the first id off.
LEMMA TailIds ==
    ASSUME NEW ids \in Seq(ProposalId), ids # <<>>, NoRepeat(ids)
    PROVE  /\ NoRepeat(Tail(ids))
           /\ \A q : Occurs(q, Tail(ids)) <=> Occurs(q, ids) /\ q # Head(ids)
           /\ Occurs(Head(ids), ids)
<1> DEFINE rest == Tail(ids)
<1>1. /\ Len(ids) \in Nat /\ Len(ids) > 0 /\ Len(rest) = Len(ids) - 1
      /\ \A i \in 1..Len(rest) : rest[i] = ids[i + 1]
      /\ Head(ids) = ids[1]
  OBVIOUS
<1> HIDE DEF rest
<1>2. NoRepeat(rest)
  BY <1>1 DEF NoRepeat
<1>3. ASSUME NEW q, Occurs(q, rest) PROVE Occurs(q, ids) /\ q # Head(ids)
  <2>1. PICK i \in 1..Len(rest) : rest[i] = q
    BY <1>3 DEF Occurs
  <2> QED
    BY <1>1, <2>1 DEF Occurs, NoRepeat
<1>4. ASSUME NEW q, Occurs(q, ids), q # Head(ids) PROVE Occurs(q, rest)
  <2>1. PICK i \in 1..Len(ids) : ids[i] = q
    BY <1>4 DEF Occurs
  <2>2. i - 1 \in 1..Len(rest) /\ rest[i - 1] = q
    BY <1>1, <1>4, <2>1
  <2> QED
    BY <2>2 DEF Occurs
<1>5. Occurs(Head(ids), ids)
  BY <1>1 DEF Occurs
<1> QED
  BY <1>2, <1>3, <1>4, <1>5 DEF rest

-----------------------------------------------------------------------------
(* PendingEnactments and the statuses agree *)

\* A tag says whether and for when a proposal is scheduled.
LEMMA ScheduledByTag ==
    ASSUME TypeOK, NEW id \in DOMAIN proposals
    PROVE  /\ proposals[id].status.tag = "Approved" =>
                \A b : ScheduledAt(id, b) <=> b = proposals[id].status.enact_at
           /\ proposals[id].status.tag # "Approved" => \A b : ~ScheduledAt(id, b)
<1>1. proposals[id].status \in ProposalStatus
  BY DEF TypeOK, Proposal
<1> QED
  BY <1>1 DEF ScheduledAt, Approved, ProposalStatus

\* Setting the status of one proposal affects the schedule of that one only.
LEMMA StatusChange ==
    ASSUME TypeOK, NEW id \in ProposalId, id \in DOMAIN proposals, NEW status,
           \A b : status # Approved(b),
           proposals' = [proposals EXCEPT ![id].status = status]
    PROVE  /\ \A q \in ProposalId, b \in Block :
                  q # id => (ScheduledAt(q, b)' <=> ScheduledAt(q, b))
           /\ \A b \in Block : ~ScheduledAt(id, b)'
<1>1. DOMAIN proposals' = DOMAIN proposals
  OBVIOUS
<1>2. proposals'[id].status = status
  BY DEF TypeOK, Proposal
<1>3. \A q \in DOMAIN proposals : q # id => proposals'[q] = proposals[q]
  OBVIOUS
<1> QED
  BY <1>1, <1>2, <1>3 DEF ScheduledAt

\* A step of an extrinsic that schedules the unscheduled proposal `id`.
LEMMA PendingSchedules ==
    ASSUME TypeOK, PendingExact, enacting = <<>>, UNCHANGED <<now, enacting>>,
           NEW id \in ProposalId, NEW STATE at, at \in Block,
           \A b \in Block : ~ScheduledAt(id, b),
           \A b \in Block : ScheduledAt(id, b)' <=> b = at,
           \A q \in ProposalId, b \in Block :
               q # id => (ScheduledAt(q, b)' <=> ScheduledAt(q, b)),
           pendingEnactments' = [pendingEnactments EXCEPT ![at] = Append(@, id)]
    PROVE  PendingExact'
<1>1. pendingEnactments \in [Block -> Seq(ProposalId)]
  BY DEF TypeOK
<1>2. \A q : ~Occurs(q, enacting)
  BY DEF Occurs
<1>3. /\ \A b \in Block : NoRepeat(pendingEnactments[b]) /\ ~Occurs(id, pendingEnactments[b])
      /\ \A q \in ProposalId, b \in Block :
            ScheduledAt(q, b) <=> Occurs(q, pendingEnactments[b])
  BY <1>2 DEF PendingExact
<1>4. /\ NoRepeat(pendingEnactments'[at])
      /\ \A q : Occurs(q, pendingEnactments'[at]) <=> Occurs(q, pendingEnactments[at]) \/ q = id
      /\ \A b \in Block : b # at => pendingEnactments'[b] = pendingEnactments[b]
  <2>1. pendingEnactments[at] \in Seq(ProposalId)
    BY <1>1
  <2>2. pendingEnactments'[at] = Append(pendingEnactments[at], id)
    BY <1>1
  <2>3. \A b \in Block : b # at => pendingEnactments'[b] = pendingEnactments[b]
    BY <1>1
  <2> QED
    BY <1>3, <2>1, <2>2, <2>3, AppendIds
<1>5. \A b \in Block : NoRepeat(pendingEnactments'[b])
  BY <1>3, <1>4
<1>6. ASSUME NEW q \in ProposalId, NEW b \in Block
      PROVE  ScheduledAt(q, b)' <=> Occurs(q, pendingEnactments'[b])
  BY <1>3, <1>4
<1>7. NoRepeat(enacting)' /\ enacting' = <<>> /\ \A q : ~Occurs(q, enacting')
  BY <1>2 DEF PendingExact
<1> QED
  BY <1>5, <1>6, <1>7 DEF PendingExact

\* A step of an extrinsic that takes `id` off its block's vector.
LEMMA PendingUnschedules ==
    ASSUME TypeOK, PendingExact, enacting = <<>>, UNCHANGED <<now, enacting>>,
           NEW id \in ProposalId, NEW STATE at, at \in Block,
           \A b \in Block : ScheduledAt(id, b) <=> b = at,
           \A b \in Block : ~ScheduledAt(id, b)',
           \A q \in ProposalId, b \in Block :
               q # id => (ScheduledAt(q, b)' <=> ScheduledAt(q, b)),
           pendingEnactments' = [pendingEnactments EXCEPT ![at] = Retain(@, id)]
    PROVE  PendingExact'
<1>1. pendingEnactments \in [Block -> Seq(ProposalId)]
  BY DEF TypeOK
<1>2. \A q : ~Occurs(q, enacting)
  BY DEF Occurs
<1>3. /\ \A b \in Block : NoRepeat(pendingEnactments[b])
      /\ \A q \in ProposalId, b \in Block :
            ScheduledAt(q, b) <=> Occurs(q, pendingEnactments[b])
  BY <1>2 DEF PendingExact
<1>4. /\ NoRepeat(pendingEnactments'[at])
      /\ \A q : Occurs(q, pendingEnactments'[at]) <=> Occurs(q, pendingEnactments[at]) /\ q # id
      /\ \A b \in Block : b # at => pendingEnactments'[b] = pendingEnactments[b]
  <2>1. pendingEnactments[at] \in Seq(ProposalId)
    BY <1>1
  <2>2. pendingEnactments'[at] = Retain(pendingEnactments[at], id)
    BY <1>1
  <2>3. \A b \in Block : b # at => pendingEnactments'[b] = pendingEnactments[b]
    BY <1>1
  <2> QED
    BY <1>3, <2>1, <2>2, <2>3, RetainIds
<1>5. \A b \in Block : NoRepeat(pendingEnactments'[b])
  BY <1>3, <1>4
<1>6. ASSUME NEW q \in ProposalId, NEW b \in Block
      PROVE  ScheduledAt(q, b)' <=> Occurs(q, pendingEnactments'[b])
  BY <1>3, <1>4
<1>7. NoRepeat(enacting)' /\ enacting' = <<>> /\ \A q : ~Occurs(q, enacting')
  BY <1>2 DEF PendingExact
<1> QED
  BY <1>5, <1>6, <1>7 DEF PendingExact

\* A step that moves no proposal in or out of the schedule.
LEMMA PendingKept ==
    ASSUME PendingExact, UNCHANGED <<now, enacting, pendingEnactments>>,
           \A q \in ProposalId, b \in Block : ScheduledAt(q, b)' <=> ScheduledAt(q, b)
    PROVE  PendingExact'
  BY DEF PendingExact

\* do_vote keeps the vectors and the statuses in step.  `props` are the stored
\* proposals, or those and one new proposal that is still voting.
LEMMA DoVotePending ==
    ASSUME TypeOK, PendingExact, enacting = <<>>, UNCHANGED <<now, enacting>>,
           NEW STATE n, n \in 0..MaxProposals, NEW STATE props, props \in [0..(n - 1) -> Proposal],
           NEW id \in ProposalId, id \in 0..(n - 1), NEW who \in Account, NEW choice \in {"aye", "nay"},
           props[id].project_id \in DOMAIN projects,
           DOMAIN props = DOMAIN proposals \cup {id},
           \A q \in DOMAIN proposals : props[q] = proposals[q],
           id \notin DOMAIN proposals => props[id].status.tag = "Voting",
           DoVote(props, id, who, choice)
    PROVE  PendingExact'
<1>2. props[id].status \in ProposalStatus
  BY DEF Proposal
<1>3. /\ props[id].status.tag # "Approved" => \A b \in Block : ~ScheduledAt(id, b)
      /\ props[id].status.tag = "Approved" =>
            \A b \in Block : ScheduledAt(id, b) <=> b = props[id].status.enact_at
  <2>1. CASE id \in DOMAIN proposals
    BY <2>1, ScheduledByTag
  <2>2. CASE id \notin DOMAIN proposals
    BY <2>2 DEF ScheduledAt
  <2> QED
    BY <2>1, <2>2
<1>4. ASSUME NEW STATE status, proposals' = [props EXCEPT ![id].status = status]
      PROVE  /\ \A q \in ProposalId, b \in Block :
                    q # id => (ScheduledAt(q, b)' <=> ScheduledAt(q, b))
             /\ \A b \in Block : ScheduledAt(id, b)' <=> status = Approved(b)
  <2>1. DOMAIN proposals' = DOMAIN proposals \cup {id}
    BY <1>4
  <2>2. proposals'[id].status = status
    BY <1>4 DEF Proposal
  <2>3. \A q \in DOMAIN proposals : q # id => proposals'[q] = proposals[q]
    BY <1>4
  <2> QED
    BY <2>1, <2>2, <2>3 DEF ScheduledAt, Approved
<1>5. CASE props[id].status.tag = "Voting" /\ Approve(props, id)
  <2> DEFINE at == EnactAt(props[id].project_id)
  <2>1. at \in Block
    <3>1. now \in 0..MaxBlock
      BY StoredIds
    <3>2. projects[props[id].project_id] \in ProjectInfo
      BY DEF TypeOK
    <3>3. projects[props[id].project_id].policy.enactment_delay \in 0..MaxBlock
      BY <3>2 DEF Block, ProjectInfo, ReleasePolicy
    <3> QED
      BY <3>1, <3>3, SatAddType, VeriGovAssumption DEF EnactAt, Block
  <2>2. /\ pendingEnactments' = [pendingEnactments EXCEPT ![at] = Append(@, id)]
        /\ proposals' = [props EXCEPT ![id].status = Approved(at)]
    BY <1>5 DEF Approve
  <2> HIDE DEF at
  <2>3. \A b \in Block : ScheduledAt(id, b)' <=> b = at
    <3>1. \A b \in Block : ScheduledAt(id, b)' <=> Approved(at) = Approved(b)
      BY <1>4, <2>2
    <3> QED
      BY <3>1 DEF Approved
  <2>4. \A q \in ProposalId, b \in Block :
           q # id => (ScheduledAt(q, b)' <=> ScheduledAt(q, b))
    BY <1>4, <2>2
  <2>5. \A b \in Block : ~ScheduledAt(id, b)
    BY <1>3, <1>5
  <2> QED
    BY <2>1, <2>2, <2>3, <2>4, <2>5, PendingSchedules
<1>6. CASE props[id].status.tag = "Approved" /\ Revoke(props, id)
  <2> DEFINE at == props[id].status.enact_at
  <2>1. at \in Block
    BY <1>2 DEF ProposalStatus
  <2>2. /\ pendingEnactments' = [pendingEnactments EXCEPT ![at] = Retain(@, id)]
        /\ proposals' = [props EXCEPT ![id].status = Voting]
    BY <1>6 DEF Revoke
  <2>3. \A b \in Block : ScheduledAt(id, b) <=> b = at
    BY <1>3, <1>6
  <2> HIDE DEF at
  <2>4. \A b \in Block : ~ScheduledAt(id, b)'
    <3>1. \A b \in Block : ScheduledAt(id, b)' <=> Voting = Approved(b)
      BY <1>4, <2>2
    <3> QED
      BY <3>1 DEF Approved, Voting
  <2>5. \A q \in ProposalId, b \in Block :
           q # id => (ScheduledAt(q, b)' <=> ScheduledAt(q, b))
    BY <1>4, <2>2
  <2> QED
    BY <2>1, <2>2, <2>3, <2>4, <2>5, PendingUnschedules
<1>7. CASE proposals' = props /\ UNCHANGED pendingEnactments
  <2>1. \A q \in ProposalId, b \in Block : ScheduledAt(q, b)' <=> ScheduledAt(q, b)
    <3>1. ASSUME NEW q \in ProposalId, NEW b \in Block, q # id
          PROVE  ScheduledAt(q, b)' <=> ScheduledAt(q, b)
      BY <1>7, <3>1 DEF ScheduledAt
    <3>2. ASSUME NEW b \in Block PROVE ScheduledAt(id, b)' <=> ScheduledAt(id, b)
      BY <1>7 DEF ScheduledAt, Approved
    <3> QED
      BY <3>1, <3>2
  <2> QED
    BY <1>7, <2>1, PendingKept
<1> QED
  BY <1>5, <1>6, <1>7 DEF DoVote

\* Every step keeps the vectors and the statuses in step.
LEMMA PendingStep == TypeOK /\ PendingExact /\ [Next]_vars => PendingExact'
<1> SUFFICES ASSUME TypeOK, PendingExact, [Next]_vars PROVE PendingExact'
  OBVIOUS
<1>1. ASSUME NEW g \in Genesis, ProjectGenesis(g) PROVE PendingExact'
  BY <1>1, PendingKept DEF ProjectGenesis, ScheduledAt
<1>2. ASSUME NEW who \in Account, NEW project_id \in ProjectId, NEW version \in Version,
             NEW attestation \in BuildAttestation, NEW cid \in Cid, NEW signature \in Signature,
             NewRelease(who, project_id, version, attestation, cid, signature)
      PROVE  PendingExact'
  <2>1. PICK id \in ProposalId : id = nextProposalId
    BY <1>2, NextId
  <2>0. PICK props \in [0..nextProposalId -> Proposal] :
           /\ Inserted(props, project_id, who, attestation)
           /\ DoVote(props, nextProposalId, who, "aye")
    BY <1>2, NewReleaseVotes
  <2>2. /\ DOMAIN props = DOMAIN proposals \cup {nextProposalId}
        /\ \A q \in DOMAIN proposals : props[q] = proposals[q]
        /\ props[nextProposalId].project_id = project_id
        /\ props[nextProposalId].status = Voting
        /\ DoVote(props, nextProposalId, who, "aye")
    BY <2>0 DEF Inserted
  <2>3. /\ enacting = <<>> /\ UNCHANGED <<now, enacting>> /\ project_id \in DOMAIN projects
        /\ nextProposalId + 1 \in 0..MaxProposals
        /\ id \in 0..((nextProposalId + 1) - 1)
        /\ 0..((nextProposalId + 1) - 1) = 0..nextProposalId
    <3>1. enacting = <<>> /\ UNCHANGED <<now, enacting>> /\ project_id \in DOMAIN projects
      BY <1>2 DEF NewRelease
    <3> QED
      BY <1>2, <2>1, <3>1, NextId
  <2>4. /\ props \in [0..((nextProposalId + 1) - 1) -> Proposal]
        /\ DOMAIN props = DOMAIN proposals \cup {id}
        /\ \A q \in DOMAIN proposals : props[q] = proposals[q]
        /\ props[id].project_id \in DOMAIN projects
        /\ props[id].status.tag = "Voting"
        /\ DoVote(props, id, who, "aye")
    BY <2>1, <2>2, <2>3 DEF Voting
  <2> QED
    BY <2>3, <2>4, DoVotePending
<1>3. ASSUME NEW who \in Account, NEW id \in ProposalId, NEW choice \in {"aye", "nay"},
             Vote(who, id, choice)
      PROVE  PendingExact'
  <2>1. /\ nextProposalId \in 0..MaxProposals /\ proposals \in [0..(nextProposalId - 1) -> Proposal]
        /\ id \in 0..(nextProposalId - 1) /\ proposals[id].project_id \in DOMAIN projects
        /\ DOMAIN proposals = DOMAIN proposals \cup {id}
    BY <1>3 DEF Vote, TypeOK
  <2>2. /\ enacting = <<>> /\ UNCHANGED <<now, enacting>> /\ id \in DOMAIN proposals
        /\ DoVote(proposals, id, who, choice)
    BY <1>3 DEF Vote
  <2> QED
    BY <2>1, <2>2, DoVotePending
<1>4. ASSUME NEW who \in Account, NEW id \in ProposalId, NEW rebuilt \in Hash,
             SubmitCounterAttestation(who, id, rebuilt)
      PROVE  PendingExact'
  <2>1. /\ enacting = <<>> /\ UNCHANGED <<now, enacting>> /\ id \in DOMAIN proposals
        /\ proposals' = [proposals EXCEPT ![id].status = Rejected]
        /\ \/ proposals[id].status.tag = "Voting" /\ UNCHANGED pendingEnactments
           \/ /\ proposals[id].status.tag = "Approved"
              /\ pendingEnactments' = [pendingEnactments EXCEPT
                                         ![proposals[id].status.enact_at] = Retain(@, id)]
    BY <1>4 DEF SubmitCounterAttestation
  <2>2. /\ \A q \in ProposalId, b \in Block :
              q # id => (ScheduledAt(q, b)' <=> ScheduledAt(q, b))
        /\ \A b \in Block : ~ScheduledAt(id, b)'
    BY <2>1, StatusChange DEF Rejected, Approved
  <2>3. CASE proposals[id].status.tag = "Voting" /\ UNCHANGED pendingEnactments
    <3>1. \A b \in Block : ~ScheduledAt(id, b)
      BY <2>1, <2>3, ScheduledByTag
    <3> QED
      BY <2>1, <2>2, <2>3, <3>1, PendingKept
  <2>4. CASE /\ proposals[id].status.tag = "Approved"
             /\ pendingEnactments' = [pendingEnactments EXCEPT
                                        ![proposals[id].status.enact_at] = Retain(@, id)]
    <3>1. proposals[id].status.enact_at \in Block
      BY <2>1 DEF TypeOK, Proposal, ProposalStatus
    <3>2. \A b \in Block : ScheduledAt(id, b) <=> b = proposals[id].status.enact_at
      BY <2>1, <2>4, ScheduledByTag
    <3> QED
      BY <2>1, <2>2, <2>4, <3>1, <3>2, PendingUnschedules
  <2> QED
    BY <2>1, <2>3, <2>4
<1>5. ASSUME NEW id \in ProposalId, CloseExpired(id) PROVE PendingExact'
  <2>1. /\ UNCHANGED <<now, enacting, pendingEnactments>> /\ id \in DOMAIN proposals
        /\ proposals[id].status.tag = "Voting"
        /\ proposals' = [proposals EXCEPT ![id].status = Expired]
    BY <1>5 DEF CloseExpired
  <2>2. /\ \A q \in ProposalId, b \in Block :
              q # id => (ScheduledAt(q, b)' <=> ScheduledAt(q, b))
        /\ \A b \in Block : ~ScheduledAt(id, b)'
    BY <2>1, StatusChange DEF Expired, Approved
  <2>3. \A b \in Block : ~ScheduledAt(id, b)
    BY <2>1, ScheduledByTag
  <2> QED
    BY <2>1, <2>2, <2>3, PendingKept
<1>6. CASE OnInitialize
  <2> DEFINE next == now + 1
  <2>1. /\ enacting = <<>> /\ next \in Block /\ now' = next /\ next # now
        /\ enacting' = pendingEnactments[next]
        /\ pendingEnactments' = [pendingEnactments EXCEPT ![next] = <<>>]
        /\ pendingEnactments \in [Block -> Seq(ProposalId)]
        /\ UNCHANGED proposals
    BY <1>6, VeriGovAssumption DEF OnInitialize, TypeOK, Block
  <2> HIDE DEF next
  <2>2. /\ pendingEnactments'[next] = <<>>
        /\ \A b \in Block : b # next => pendingEnactments'[b] = pendingEnactments[b]
    BY <2>1
  <2>3. NoRepeat(<<>>) /\ \A q : ~Occurs(q, <<>>)
    BY DEF NoRepeat, Occurs
  <2>4. \A q \in ProposalId, b \in Block :
           /\ ScheduledAt(q, b)' <=> ScheduledAt(q, b)
           /\ ScheduledAt(q, b) <=> Occurs(q, pendingEnactments[b])
    BY <2>1, <2>3 DEF PendingExact, ScheduledAt
  <2>5. \A b \in Block : NoRepeat(pendingEnactments'[b])
    BY <2>1, <2>2, <2>3 DEF PendingExact
  <2>6. NoRepeat(enacting')
    BY <2>1 DEF PendingExact
  <2>7. ASSUME NEW q \in ProposalId, NEW b \in Block
        PROVE  ScheduledAt(q, b)' <=> \/ Occurs(q, pendingEnactments'[b])
                                      \/ b = now' /\ Occurs(q, enacting')
    BY <2>1, <2>2, <2>3, <2>4
  <2> QED
    BY <2>1, <2>2, <2>5, <2>6, <2>7 DEF PendingExact
<1>7. CASE Enact
  <2>1. PICK id : id = Head(enacting)
    OBVIOUS
  <2>2. /\ enacting # <<>> /\ enacting \in Seq(ProposalId) /\ enacting' = Tail(enacting)
        /\ UNCHANGED <<now, pendingEnactments>> /\ now \in Block
        /\ pendingEnactments[now] = <<>>
    <3>1. /\ enacting # <<>> /\ enacting' = Tail(enacting)
          /\ UNCHANGED <<now, pendingEnactments>>
      BY <1>7 DEF Enact
    <3>2. enacting \in Seq(ProposalId) /\ now \in Block
      BY StoredIds DEF TypeOK
    <3>3. pendingEnactments[now] = <<>>
      BY <3>1 DEF PendingExact
    <3> QED
      BY <3>1, <3>2, <3>3
  <2>3. /\ NoRepeat(enacting') /\ Occurs(id, enacting)
        /\ \A q : Occurs(q, enacting') <=> Occurs(q, enacting) /\ q # id
    BY <2>1, <2>2, TailIds DEF PendingExact
  <2>4. id \in ProposalId
    BY <2>1, <2>2
  <2>5. ScheduledAt(id, now)
    BY <2>2, <2>3, <2>4 DEF PendingExact
  <2>6. /\ id \in DOMAIN proposals /\ proposals[id].status.tag = "Approved"
        /\ proposals[id].status.enact_at = now
    BY <2>5 DEF ScheduledAt, Approved
  <2>7. \/ proposals' = [proposals EXCEPT ![id].status = Enacted]
        \/ proposals' = [proposals EXCEPT ![id].status = Voting]
    BY <1>7, <2>1, <2>6 DEF Enact, EnactAppended, EnactReverted
  <2>8. /\ \A q \in ProposalId, b \in Block :
              q # id => (ScheduledAt(q, b)' <=> ScheduledAt(q, b))
        /\ \A b \in Block : ~ScheduledAt(id, b)'
    BY <2>4, <2>6, <2>7, StatusChange DEF Enacted, Voting, Approved
  <2>9. \A b \in Block : ScheduledAt(id, b) => b = now
    BY <2>6, ScheduledByTag
  <2>10. ASSUME NEW q \in ProposalId, NEW b \in Block
         PROVE  ScheduledAt(q, b)' <=> \/ Occurs(q, pendingEnactments'[b])
                                       \/ b = now' /\ Occurs(q, enacting')
    <3>1. ~Occurs(q, <<>>)
      BY DEF Occurs
    <3>2. ScheduledAt(q, b) <=> \/ Occurs(q, pendingEnactments[b])
                                \/ b = now /\ Occurs(q, enacting)
      BY DEF PendingExact
    <3> QED
      BY <2>2, <2>3, <2>8, <2>9, <3>1, <3>2
  <2>11. \A b \in Block : NoRepeat(pendingEnactments'[b])
    BY <2>2 DEF PendingExact
  <2> QED
    BY <2>2, <2>3, <2>10, <2>11 DEF PendingExact
<1>8. CASE UNCHANGED vars
  BY <1>8, PendingKept DEF vars, ScheduledAt
<1> QED
  BY <1>1, <1>2, <1>3, <1>4, <1>5, <1>6, <1>7, <1>8 DEF Next

\* Together with the types, the agreement is inductive: approvals that are
\* revoked, given again, challenged or enacted never leave an id behind in a
\* vector, list one twice, or lose one.
THEOREM PendingAlwaysExact == Spec => []PendingExact
<1>1. Init => PendingExact
  BY DEF Init, PendingExact, NoRepeat, Occurs, ScheduledAt
<1> QED
  BY <1>1, TypeInit, TypeStep, PendingStep, PTL DEF Spec

-----------------------------------------------------------------------------
(* What a vote does to the status *)

\* do_vote touches the status of one proposal: it stays, goes back to Voting,
\* or becomes approved for the end of the enactment delay.
LEMMA DoVoteStatus ==
    ASSUME NEW STATE props, NEW id \in DOMAIN props, props[id] \in Proposal,
           NEW who, NEW choice, DoVote(props, id, who, choice)
    PROVE  /\ DOMAIN proposals' = DOMAIN props
           /\ \A q \in DOMAIN props : q # id => proposals'[q] = props[q]
           /\ \/ proposals'[id] = props[id]
              \/ /\ proposals'[id].project_id = props[id].project_id
                 /\ proposals'[id].status \in {Voting, Approved(EnactAt(props[id].project_id))}
<1>1. CASE Approve(props, id)
  <2>1. PICK at : /\ at = EnactAt(props[id].project_id)
                  /\ proposals' = [props EXCEPT ![id].status = Approved(at)]
    BY <1>1 DEF Approve
  <2> QED
    BY <2>1 DEF Proposal
<1>2. CASE Revoke(props, id)
  <2>1. proposals' = [props EXCEPT ![id].status = Voting]
    BY <1>2 DEF Revoke
  <2> QED
    BY <2>1 DEF Proposal
<1>3. CASE proposals' = props
  BY <1>3
<1> QED
  BY <1>1, <1>2, <1>3 DEF DoVote

\* What a vote, or the vote a new release carries, leaves of the proposals:
\* the others as they were, and one that is as it was, open, or newly approved.
VoteEffect(id) ==
    /\ enacting = <<>> /\ UNCHANGED <<now, enacting, projects>>
    /\ \A q \in DOMAIN proposals' : q # id => q \in DOMAIN proposals /\ proposals'[q] = proposals[q]
    /\ \A q \in DOMAIN proposals : q \in DOMAIN proposals'
    /\ id \in DOMAIN proposals'
    /\ proposals'[id].project_id \in DOMAIN projects
    /\ \/ id \in DOMAIN proposals /\ proposals'[id] = proposals[id]
       \/ proposals'[id].status \in {Voting, Approved(EnactAt(proposals'[id].project_id))}

\* The extrinsic `vote` has that effect on the proposal voted on.
LEMMA VoteHasEffect ==
    ASSUME TypeOK, NEW who \in Account, NEW id \in ProposalId, NEW choice \in {"aye", "nay"},
           Vote(who, id, choice)
    PROVE  VoteEffect(id)
<1>1. /\ id \in DOMAIN proposals /\ proposals[id] \in Proposal
      /\ proposals[id].project_id \in DOMAIN projects
      /\ enacting = <<>> /\ UNCHANGED <<now, enacting, projects>>
      /\ DoVote(proposals, id, who, choice)
  BY DEF Vote, TypeOK
<1>2. /\ DOMAIN proposals' = DOMAIN proposals
      /\ \A q \in DOMAIN proposals : q # id => proposals'[q] = proposals[q]
      /\ \/ proposals'[id] = proposals[id]
         \/ /\ proposals'[id].project_id = proposals[id].project_id
            /\ proposals'[id].status \in {Voting, Approved(EnactAt(proposals[id].project_id))}
  BY <1>1, DoVoteStatus
<1> QED
  BY <1>1, <1>2 DEF VoteEffect

\* `new_release` has it on the proposal it inserts.
LEMMA NewReleaseHasEffect ==
    ASSUME TypeOK, NEW who \in Account, NEW project_id \in ProjectId, NEW version \in Version,
           NEW attestation \in BuildAttestation, NEW cid \in Cid, NEW signature \in Signature,
           NewRelease(who, project_id, version, attestation, cid, signature)
    PROVE  VoteEffect(nextProposalId)
<1>0. PICK props \in [0..nextProposalId -> Proposal] :
           /\ Inserted(props, project_id, who, attestation)
           /\ DoVote(props, nextProposalId, who, "aye")
  BY NewReleaseVotes
<1>1. /\ DOMAIN props = DOMAIN proposals \cup {nextProposalId}
      /\ \A q \in DOMAIN proposals : props[q] = proposals[q]
      /\ props[nextProposalId].project_id = project_id
      /\ props[nextProposalId].status = Voting
      /\ DoVote(props, nextProposalId, who, "aye")
  BY <1>0 DEF Inserted
<1>2. PICK id : id = nextProposalId
  OBVIOUS
<1>3. /\ id \in DOMAIN props /\ props[id] \in Proposal /\ id \notin DOMAIN proposals
      /\ DoVote(props, id, who, "aye")
  BY <1>1, <1>2 DEF TypeOK
<1>4. /\ enacting = <<>> /\ UNCHANGED <<now, enacting, projects>>
      /\ project_id \in DOMAIN projects
  BY DEF NewRelease
<1>5. /\ DOMAIN proposals' = DOMAIN props
      /\ \A q \in DOMAIN props : q # id => proposals'[q] = props[q]
      /\ \/ proposals'[id] = props[id]
         \/ /\ proposals'[id].project_id = props[id].project_id
            /\ proposals'[id].status \in {Voting, Approved(EnactAt(props[id].project_id))}
  BY <1>3, DoVoteStatus
<1> QED
  BY <1>1, <1>2, <1>3, <1>4, <1>5 DEF VoteEffect

\* Enact visits a proposal that is approved for the current block, and leaves
\* it enacted or back in Voting.
LEMMA EnactVisits ==
    ASSUME TypeOK, PendingExact, Enact
    PROVE  \E id \in DOMAIN proposals :
             /\ proposals[id].status = Approved(now)
             /\ DOMAIN proposals' = DOMAIN proposals
             /\ proposals'[id].status \in {Voting, Enacted}
             /\ \A q \in DOMAIN proposals : q # id => proposals'[q] = proposals[q]
             /\ \A q : Occurs(q, enacting) /\ q # id => Occurs(q, enacting')
             /\ UNCHANGED <<now, projects>>
<1>1. PICK id : id = Head(enacting)
  OBVIOUS
<1>2. /\ enacting # <<>> /\ enacting \in Seq(ProposalId) /\ enacting' = Tail(enacting)
      /\ now \in Block /\ NoRepeat(enacting) /\ UNCHANGED <<now, projects>>
  BY VeriGovAssumption DEF Enact, TypeOK, PendingExact, Block
<1>3. /\ id \in ProposalId /\ Occurs(id, enacting)
      /\ \A q : Occurs(q, enacting) /\ q # id => Occurs(q, enacting')
  BY <1>1, <1>2, TailIds
<1>4. id \in DOMAIN proposals /\ proposals[id].status = Approved(now)
  BY <1>2, <1>3 DEF PendingExact, ScheduledAt
<1>5. proposals[id].status.tag = "Approved" /\ proposals[id] \in Proposal
  BY <1>4 DEF Approved, TypeOK
<1>6. \/ proposals' = [proposals EXCEPT ![id].status = Enacted]
      \/ proposals' = [proposals EXCEPT ![id].status = Voting]
  BY <1>1, <1>4, <1>5 DEF Enact, EnactAppended, EnactReverted
<1>7. /\ DOMAIN proposals' = DOMAIN proposals
      /\ proposals'[id].status \in {Voting, Enacted}
      /\ \A q \in DOMAIN proposals : q # id => proposals'[q] = proposals[q]
  BY <1>4, <1>5, <1>6 DEF Proposal
<1> QED
  BY <1>2, <1>3, <1>4, <1>7

-----------------------------------------------------------------------------
(* A release is appended when it was announced *)

\* Only Enact makes a proposal Enacted, and it finds it approved for now.
LEMMA EnactsOnTime ==
    ASSUME TypeOK, PendingExact, [Next]_vars,
           NEW id \in DOMAIN proposals, proposals[id].status # Enacted,
           proposals'[id].status = Enacted
    PROVE  proposals[id].status = Approved(now)
<1>0. /\ proposals[id] \in Proposal
      /\ Enacted # Voting /\ Enacted # Rejected /\ Enacted # Expired
      /\ \A b : Enacted # Approved(b)
  BY DEF TypeOK, Enacted, Voting, Rejected, Expired, Approved
<1>1. ASSUME NEW g \in Genesis, ProjectGenesis(g) PROVE FALSE
  BY <1>1 DEF ProjectGenesis
<1>2. ASSUME NEW who \in Account, NEW project_id \in ProjectId, NEW version \in Version,
             NEW attestation \in BuildAttestation, NEW cid \in Cid, NEW signature \in Signature,
             NewRelease(who, project_id, version, attestation, cid, signature)
      PROVE  FALSE
  <2>1. VoteEffect(nextProposalId)
    BY <1>2, NewReleaseHasEffect
  <2> QED
    BY <1>0, <2>1 DEF VoteEffect
<1>3. ASSUME NEW who \in Account, NEW voted \in ProposalId, NEW choice \in {"aye", "nay"},
             Vote(who, voted, choice)
      PROVE  FALSE
  <2>1. VoteEffect(voted)
    BY <1>3, VoteHasEffect
  <2> QED
    BY <1>0, <2>1 DEF VoteEffect
<1>4. ASSUME NEW who \in Account, NEW other \in ProposalId, NEW rebuilt \in Hash,
             SubmitCounterAttestation(who, other, rebuilt)
      PROVE  FALSE
  <2>1. /\ other \in DOMAIN proposals
        /\ proposals' = [proposals EXCEPT ![other].status = Rejected]
    BY <1>4 DEF SubmitCounterAttestation
  <2> QED
    BY <1>0, <2>1 DEF Proposal
<1>5. ASSUME NEW other \in ProposalId, CloseExpired(other) PROVE FALSE
  <2>1. /\ other \in DOMAIN proposals
        /\ proposals' = [proposals EXCEPT ![other].status = Expired]
    BY <1>5 DEF CloseExpired
  <2> QED
    BY <1>0, <2>1 DEF Proposal
<1>6. CASE OnInitialize
  BY <1>6 DEF OnInitialize
<1>7. CASE Enact
  BY <1>7, EnactVisits
<1>8. CASE UNCHANGED vars
  BY <1>8 DEF vars
<1> QED
  BY <1>1, <1>2, <1>3, <1>4, <1>5, <1>6, <1>7, <1>8 DEF Next

\* The delay is always given in full: `enact` does not compare the block with
\* `enact_at`, and is still only reached with the two equal.
THEOREM EnactmentOnTime == Spec => EnactedOnTime
<1>1. TypeOK /\ PendingExact /\ [Next]_vars =>
        [\A id \in DOMAIN proposals :
            proposals[id].status # Enacted /\ proposals'[id].status = Enacted
            => proposals[id].status = Approved(now)]_vars
  BY EnactsOnTime
<1> QED
  BY <1>1, TypeCorrect, PendingAlwaysExact, PTL DEF Spec, EnactedOnTime

-----------------------------------------------------------------------------
(* No approved proposal is passed by *)

\* One proposal's part of NoMissedEnactment.
NotMissed(id) ==
    /\ proposals[id].status.tag = "Approved"
    /\ projects[proposals[id].project_id].policy.enactment_delay > 0
    => \/ now < proposals[id].status.enact_at
       \/ now = proposals[id].status.enact_at /\ Occurs(id, enacting)

\* An approval lies in the future: the clock is below MaxBlock, so the
\* saturating addition of a positive delay moves it.
LEMMA EnactAtIsLater ==
    ASSUME TypeOK, NEW project_id \in DOMAIN projects,
           projects[project_id].policy.enactment_delay > 0
    PROVE  now < EnactAt(project_id)
<1>1. projects[project_id].policy.enactment_delay \in Nat
  BY VeriGovAssumption DEF TypeOK, ProjectInfo, ReleasePolicy, Block
<1>2. now \in Nat /\ now < MaxBlock /\ MaxBlock \in Nat
  BY VeriGovAssumption DEF TypeOK, Block
<1> QED
  BY <1>1, <1>2 DEF EnactAt, SatAdd, AtMost

\* A step that keeps the clock, the loop and every project keeps a proposal
\* that it does not change.
LEMMA NotMissedKept ==
    ASSUME TypeOK, NEW id \in DOMAIN proposals, NotMissed(id),
           UNCHANGED <<now, enacting>>, proposals'[id] = proposals[id],
           \A j \in DOMAIN projects : projects'[j] = projects[j]
    PROVE  NotMissed(id)'
<1>1. projects'[proposals[id].project_id] = projects[proposals[id].project_id]
  BY DEF TypeOK
<1> QED
  BY <1>1 DEF NotMissed, Occurs

\* A vote approves for a later block.
LEMMA VoteEffectNotMissed ==
    ASSUME TypeOK, NoMissedEnactment, NEW id, VoteEffect(id), NEW q \in DOMAIN proposals'
    PROVE  NotMissed(q)'
<1>1. /\ UNCHANGED <<now, enacting, projects>>
      /\ q # id => q \in DOMAIN proposals /\ proposals'[q] = proposals[q]
      /\ proposals'[id].project_id \in DOMAIN projects
      /\ \/ id \in DOMAIN proposals /\ proposals'[id] = proposals[id]
         \/ proposals'[id].status \in {Voting, Approved(EnactAt(proposals'[id].project_id))}
  BY DEF VoteEffect
<1>2. CASE q \in DOMAIN proposals /\ proposals'[q] = proposals[q]
  <2>1. NotMissed(q)
    BY <1>2 DEF NoMissedEnactment, NotMissed
  <2> QED
    BY <1>1, <1>2, <2>1, NotMissedKept
<1>3. CASE q = id /\ proposals'[id].status = Voting
  BY <1>3 DEF NotMissed, Voting
<1>4. CASE q = id /\ proposals'[id].status = Approved(EnactAt(proposals'[id].project_id))
  <2>1. PICK j \in DOMAIN projects : j = proposals'[id].project_id
    BY <1>1
  <2>2. proposals'[id].status.enact_at = EnactAt(j)
    BY <1>4, <2>1 DEF Approved
  <2>3. projects[j].policy.enactment_delay > 0 => now < EnactAt(j)
    BY EnactAtIsLater
  <2> QED
    BY <1>1, <1>4, <2>1, <2>2, <2>3 DEF NotMissed
<1> QED
  BY <1>1, <1>2, <1>3, <1>4

\* Every step leaves each approved proposal ahead of the clock, or ahead of
\* the loop.
LEMMA NotMissedStep ==
    ASSUME TypeOK, PendingExact, NoMissedEnactment, [Next]_vars, NEW q \in DOMAIN proposals'
    PROVE  NotMissed(q)'
<1>0. \A id \in DOMAIN proposals : NotMissed(id) /\ proposals[id] \in Proposal
  BY DEF NoMissedEnactment, NotMissed, TypeOK
<1>1. ASSUME NEW g \in Genesis, ProjectGenesis(g) PROVE NotMissed(q)'
  <2>1. UNCHANGED <<now, enacting, proposals>>
    BY <1>1 DEF ProjectGenesis
  <2>2. \A j \in DOMAIN projects : projects'[j] = projects[j]
    BY <1>1 DEF ProjectGenesis, Insert, TypeOK
  <2> QED
    BY <1>0, <2>1, <2>2, NotMissedKept
<1>2. ASSUME NEW who \in Account, NEW project_id \in ProjectId, NEW version \in Version,
             NEW attestation \in BuildAttestation, NEW cid \in Cid, NEW signature \in Signature,
             NewRelease(who, project_id, version, attestation, cid, signature)
      PROVE  NotMissed(q)'
  <2>1. VoteEffect(nextProposalId)
    BY <1>2, NewReleaseHasEffect
  <2> QED
    BY <2>1, VoteEffectNotMissed
<1>3. ASSUME NEW who \in Account, NEW voted \in ProposalId, NEW choice \in {"aye", "nay"},
             Vote(who, voted, choice)
      PROVE  NotMissed(q)'
  <2>1. VoteEffect(voted)
    BY <1>3, VoteHasEffect
  <2> QED
    BY <2>1, VoteEffectNotMissed
<1>4. ASSUME NEW id \in DOMAIN proposals, NEW status \in {Rejected, Expired},
             UNCHANGED <<now, enacting, projects>>,
             proposals' = [proposals EXCEPT ![id].status = status]
      PROVE  NotMissed(q)'
  <2>1. CASE q = id
    <3>1. proposals'[q].status.tag # "Approved"
      BY <1>0, <1>4, <2>1 DEF Proposal, Rejected, Expired
    <3> QED
      BY <3>1 DEF NotMissed
  <2>2. CASE q # id
    <3>1. q \in DOMAIN proposals /\ proposals'[q] = proposals[q]
      BY <1>4, <2>2
    <3> QED
      BY <1>0, <1>4, <3>1, NotMissedKept
  <2> QED
    BY <2>1, <2>2
<1>5. ASSUME NEW who \in Account, NEW id \in ProposalId, NEW rebuilt \in Hash,
             SubmitCounterAttestation(who, id, rebuilt)
      PROVE  NotMissed(q)'
  <2>1. /\ id \in DOMAIN proposals /\ UNCHANGED <<now, enacting, projects>>
        /\ proposals' = [proposals EXCEPT ![id].status = Rejected]
    BY <1>5 DEF SubmitCounterAttestation
  <2> QED
    BY <1>4, <2>1
<1>6. ASSUME NEW id \in ProposalId, CloseExpired(id) PROVE NotMissed(q)'
  <2>1. /\ id \in DOMAIN proposals /\ UNCHANGED <<now, enacting, projects>>
        /\ proposals' = [proposals EXCEPT ![id].status = Expired]
    BY <1>6 DEF CloseExpired
  <2> QED
    BY <1>4, <2>1
<1>7. CASE OnInitialize
  <2>1. /\ enacting = <<>> /\ now' = now + 1 /\ enacting' = pendingEnactments[now + 1]
        /\ now \in Nat /\ now + 1 # now
        /\ UNCHANGED <<proposals, projects>>
    BY <1>7 DEF OnInitialize, TypeOK
  <2>2. ~Occurs(q, <<>>)
    BY DEF Occurs
  <2>3. /\ q \in ProposalId /\ proposals[q].status.enact_at \in Block
        /\ proposals[q].status.enact_at \in Nat
    <3>1. q \in ProposalId
      BY <2>1, VeriGovAssumption DEF TypeOK, ProposalId
    <3>2. proposals[q].status.enact_at \in Block
      BY <1>0, <2>1 DEF Proposal, ProposalStatus
    <3> QED
      BY <3>1, <3>2, VeriGovAssumption DEF Block
  <2>4. CASE /\ proposals[q].status.tag = "Approved"
             /\ projects[proposals[q].project_id].policy.enactment_delay > 0
    <3>1. now < proposals[q].status.enact_at
      BY <1>0, <2>1, <2>2, <2>4 DEF NotMissed
    <3>2. CASE proposals[q].status.enact_at = now + 1
      <4>1. ScheduledAt(q, now + 1)
        BY <2>1, <2>4, <3>2, ScheduledByTag
      <4>2. Occurs(q, pendingEnactments[now + 1])
        BY <2>1, <2>3, <3>2, <4>1 DEF PendingExact
      <4> QED
        BY <2>1, <3>2, <4>2 DEF NotMissed
    <3>3. CASE proposals[q].status.enact_at # now + 1
      <4>1. now + 1 < proposals[q].status.enact_at
        BY <2>1, <2>3, <3>1, <3>3
      <4> QED
        BY <2>1, <4>1 DEF NotMissed
    <3> QED
      BY <3>2, <3>3
  <2> QED
    BY <2>1, <2>4 DEF NotMissed
<1>8. CASE Enact
  <2>1. PICK id \in DOMAIN proposals :
           /\ DOMAIN proposals' = DOMAIN proposals
           /\ proposals'[id].status \in {Voting, Enacted}
           /\ \A p \in DOMAIN proposals : p # id => proposals'[p] = proposals[p]
           /\ \A p : Occurs(p, enacting) /\ p # id => Occurs(p, enacting')
           /\ UNCHANGED <<now, projects>>
    BY <1>8, EnactVisits
  <2>2. CASE q = id
    BY <2>1, <2>2 DEF NotMissed, Voting, Enacted
  <2>3. CASE q # id
    BY <1>0, <2>1, <2>3 DEF NotMissed
  <2> QED
    BY <2>2, <2>3
<1>9. CASE UNCHANGED vars
  BY <1>0, <1>9, NotMissedKept DEF vars
<1> QED
  BY <1>1, <1>2, <1>3, <1>5, <1>6, <1>7, <1>8, <1>9 DEF Next

\* With a delay of at least one block no approval is ever left behind by the
\* clock: PendingExact is what finds the proposal in the new block's vector.
THEOREM NothingMissed == Spec => []NoMissedEnactment
<1>1. Init => NoMissedEnactment
  BY DEF Init, NoMissedEnactment
<1>2. TypeOK /\ PendingExact /\ NoMissedEnactment /\ [Next]_vars => NoMissedEnactment'
  BY NotMissedStep DEF NoMissedEnactment, NotMissed
<1> QED
  BY <1>1, <1>2, TypeCorrect, PendingAlwaysExact, PTL DEF Spec

-----------------------------------------------------------------------------
(* What the steps do, in the form the proofs use *)

\* One vote of `who` on proposal `id`, cast by `vote` or carried by
\* `new_release`: what do_vote leaves in the votes, the tally and the status.
Voted(id, who, choice) ==
    LET project_id == proposals'[id].project_id
        voter == stakeholders[project_id][who]
    IN  /\ id \in ProposalId /\ who \in Account /\ choice \in {"aye", "nay"}
        /\ DOMAIN proposals' = DOMAIN proposals \cup {id}
        /\ \A q \in DOMAIN proposals : q # id => proposals'[q] = proposals[q]
        /\ id \in DOMAIN proposals =>
             /\ proposals[id].status.tag \in {"Voting", "Approved"}
             /\ proposals' = [proposals EXCEPT ![id].status = proposals'[id].status]
        /\ project_id \in DOMAIN projects
        /\ voter.role \in Role
        /\ votes' = [votes EXCEPT ![id][who] = choice]
        /\ tallies' = [tallies EXCEPT ![id] = [tallies[id] EXCEPT ![voter.role] =
                         RecordVote(tallies[id][voter.role], votes[id][who], choice, voter.stake)]]
        /\ proposals'[id].status.tag \in {"Voting", "Approved"}
        /\ proposals'[id].status.tag = "Approved" <=> MeetsQuorums(project_id, tallies'[id])
        /\ UNCHANGED <<now, projects, stakeholders, roleStake, releaseLog, counterAttestations>>

\* do_vote approves exactly when the new tally meets the quorums.
LEMMA DoVoteDecides ==
    ASSUME TypeOK, NEW STATE props, NEW id \in ProposalId, id \in DOMAIN props,
           props \in [DOMAIN props -> Proposal], NEW who, NEW choice, DoVote(props, id, who, choice)
    PROVE  LET voter == stakeholders[props[id].project_id][who]
           IN  /\ DOMAIN proposals' = DOMAIN props
               /\ proposals' = [props EXCEPT ![id].status = proposals'[id].status]
               /\ votes' = [votes EXCEPT ![id][who] = choice]
               /\ tallies' = [tallies EXCEPT ![id] = [tallies[id] EXCEPT ![voter.role] =
                    RecordVote(tallies[id][voter.role], votes[id][who], choice, voter.stake)]]
               /\ proposals'[id].status.tag \in {"Voting", "Approved"}
               /\ proposals'[id].status.tag = "Approved" <=>
                    MeetsQuorums(props[id].project_id, tallies'[id])
<1> DEFINE voter == stakeholders[props[id].project_id][who]
           tally == [tallies[id] EXCEPT ![voter.role] =
                       RecordVote(tallies[id][voter.role], votes[id][who], choice, voter.stake)]
           tag == props[id].status.tag
           met == MeetsQuorums(props[id].project_id, tally)
<1>1. /\ votes' = [votes EXCEPT ![id][who] = choice]
      /\ tallies' = [tallies EXCEPT ![id] = tally]
      /\ \/ tag = "Voting" /\ met /\ Approve(props, id)
         \/ tag = "Approved" /\ ~met /\ Revoke(props, id)
         \/ /\ (tag = "Voting" /\ ~met) \/ (tag = "Approved" /\ met)
            /\ proposals' = props
  BY DEF DoVote
<1> HIDE DEF tally, met
<1>2. tallies'[id] = tally
  BY <1>1 DEF TypeOK
<1>3. /\ DOMAIN proposals' = DOMAIN props
      /\ proposals' = [props EXCEPT ![id].status = proposals'[id].status]
      /\ proposals'[id].status.tag \in {"Voting", "Approved"}
      /\ proposals'[id].status.tag = "Approved" <=> met
  <2>1. CASE met /\ Approve(props, id)
    <3>1. PICK at : proposals' = [props EXCEPT ![id].status = Approved(at)]
      BY <2>1 DEF Approve
    <3> QED
      BY <2>1, <3>1 DEF Proposal, Approved
  <2>2. CASE ~met /\ Revoke(props, id)
    <3>1. proposals' = [props EXCEPT ![id].status = Voting]
      BY <2>2 DEF Revoke
    <3> QED
      BY <2>2, <3>1 DEF Proposal, Voting
  <2>3. CASE /\ (tag = "Voting" /\ ~met) \/ (tag = "Approved" /\ met)
             /\ proposals' = props
    <3>1. props[id] = [props[id] EXCEPT !.status = props[id].status]
      BY DEF Proposal
    <3>2. props = [props EXCEPT ![id].status = props[id].status]
      BY <3>1
    <3> QED
      BY <2>3, <3>2
  <2> QED
    BY <1>1, <2>1, <2>2, <2>3
<1> QED
  BY <1>1, <1>2, <1>3 DEF tally, met

\* The extrinsic `vote` casts one vote on a stored proposal.
LEMMA VoteIsVoted ==
    ASSUME TypeOK, NEW who \in Account, NEW id \in ProposalId, NEW choice \in {"aye", "nay"},
           Vote(who, id, choice)
    PROVE  /\ Voted(id, who, choice)
           /\ id \in DOMAIN proposals
           /\ proposals'[id].project_id = proposals[id].project_id
           /\ UNCHANGED <<nextProjectId, nextProposalId, enacting, free, held>>
<1>1. /\ id \in DOMAIN proposals /\ proposals \in [DOMAIN proposals -> Proposal]
      /\ proposals[id].project_id \in DOMAIN projects
      /\ proposals[id].status.tag \in {"Voting", "Approved"}
      /\ DoVote(proposals, id, who, choice)
      /\ UNCHANGED <<now, projects, stakeholders, roleStake, releaseLog, counterAttestations>>
      /\ UNCHANGED <<nextProjectId, nextProposalId, enacting, free, held>>
  BY DEF Vote, TypeOK
<1> DEFINE voter == stakeholders[proposals[id].project_id][who]
<1>2. voter.role \in Role
  <2>1. voter \in Stakeholder
    BY <1>1 DEF TypeOK, Proposal
  <2> QED
    BY <2>1 DEF Vote, IsStakeholder, Stakeholder
<1>3. /\ DOMAIN proposals' = DOMAIN proposals
      /\ proposals' = [proposals EXCEPT ![id].status = proposals'[id].status]
      /\ votes' = [votes EXCEPT ![id][who] = choice]
      /\ tallies' = [tallies EXCEPT ![id] = [tallies[id] EXCEPT ![voter.role] =
           RecordVote(tallies[id][voter.role], votes[id][who], choice, voter.stake)]]
      /\ proposals'[id].status.tag \in {"Voting", "Approved"}
      /\ proposals'[id].status.tag = "Approved" <=>
           MeetsQuorums(proposals[id].project_id, tallies'[id])
  BY <1>1, DoVoteDecides
<1>4. /\ proposals'[id].project_id = proposals[id].project_id
      /\ \A q \in DOMAIN proposals : q # id => proposals'[q] = proposals[q]
      /\ DOMAIN proposals = DOMAIN proposals \cup {id}
  BY <1>1, <1>3 DEF Proposal
<1> QED
  BY <1>1, <1>2, <1>3, <1>4 DEF Voted

\* The extrinsic `new_release` stores a proposal and casts its proposer's vote.
LEMMA NewReleaseIsVoted ==
    ASSUME TypeOK, NEW who \in Account, NEW project_id \in ProjectId, NEW version \in Version,
           NEW attestation \in BuildAttestation, NEW cid \in Cid, NEW signature \in Signature,
           NewRelease(who, project_id, version, attestation, cid, signature)
    PROVE  \E id \in ProposalId :
              /\ id = nextProposalId /\ id \notin DOMAIN proposals
              /\ Voted(id, who, "aye")
              /\ proposals'[id] \in Proposal
              /\ proposals'[id].project_id = project_id
              /\ proposals'[id].proposer = who
              /\ proposals'[id].attestation = attestation
              /\ proposals'[id].bond = projects[project_id].proposal_bond
              /\ UNCHANGED <<nextProjectId, enacting>>
<1>1. PICK id \in ProposalId : id = nextProposalId
  BY NextId
<1>0. PICK props \in [0..nextProposalId -> Proposal] :
           /\ Inserted(props, project_id, who, attestation)
           /\ DoVote(props, nextProposalId, who, "aye")
  BY NewReleaseVotes
<1>2. /\ DOMAIN props = DOMAIN proposals \cup {nextProposalId}
      /\ \A q \in DOMAIN proposals : props[q] = proposals[q]
      /\ props[nextProposalId].project_id = project_id
      /\ props[nextProposalId].status = Voting
      /\ props[nextProposalId].proposer = who
      /\ props[nextProposalId].attestation = attestation
      /\ props[nextProposalId].bond = projects[project_id].proposal_bond
      /\ DoVote(props, nextProposalId, who, "aye")
  BY <1>0 DEF Inserted
<1>3. /\ id \notin DOMAIN proposals /\ id \in DOMAIN props
      /\ props \in [DOMAIN props -> Proposal]
      /\ DoVote(props, id, who, "aye")
      /\ project_id \in DOMAIN projects
      /\ stakeholders[project_id][who].role = "CoreDeveloper"
      /\ UNCHANGED <<now, projects, stakeholders, roleStake, releaseLog, counterAttestations>>
      /\ UNCHANGED <<nextProjectId, enacting>>
  BY <1>1, <1>2 DEF NewRelease, TypeOK
<1> DEFINE voter == stakeholders[props[id].project_id][who]
<1>4. /\ DOMAIN proposals' = DOMAIN props
      /\ proposals' = [props EXCEPT ![id].status = proposals'[id].status]
      /\ votes' = [votes EXCEPT ![id][who] = "aye"]
      /\ tallies' = [tallies EXCEPT ![id] = [tallies[id] EXCEPT ![voter.role] =
           RecordVote(tallies[id][voter.role], votes[id][who], "aye", voter.stake)]]
      /\ proposals'[id].status.tag \in {"Voting", "Approved"}
      /\ proposals'[id].status.tag = "Approved" <=>
           MeetsQuorums(props[id].project_id, tallies'[id])
  BY <1>3, DoVoteDecides
<1>5. /\ props[id] \in Proposal
      /\ props[id].project_id = project_id /\ props[id].proposer = who
      /\ props[id].attestation = attestation
      /\ props[id].bond = projects[project_id].proposal_bond
  BY <1>1, <1>2
<1>6. /\ proposals'[id].project_id = project_id
      /\ proposals'[id].proposer = who
      /\ proposals'[id].attestation = attestation
      /\ proposals'[id].bond = projects[project_id].proposal_bond
      /\ \A q \in DOMAIN props : q # id => proposals'[q] = props[q]
  BY <1>3, <1>4, <1>5 DEF Proposal
<1>7. voter.role \in Role
  BY <1>3, <1>5 DEF Role
<1>8. Voted(id, who, "aye")
  <2>1. /\ DOMAIN proposals' = DOMAIN proposals \cup {id}
        /\ \A q \in DOMAIN proposals : q # id => proposals'[q] = proposals[q]
    BY <1>1, <1>2, <1>4, <1>6
  <2> QED
    BY <1>3, <1>4, <1>5, <1>6, <1>7, <2>1 DEF Voted
<1>9. proposals'[id] \in Proposal
  <2>1. TypeOK'
    BY TypeStep DEF Next
  <2> QED
    BY <1>4, <1>3, <2>1 DEF TypeOK
<1> QED
  BY <1>1, <1>3, <1>6, <1>8, <1>9

\* One pass of the loop of on_initialize visits a proposal approved for this
\* block and enacts it exactly when its quorums still hold.
LEMMA EnactDecides ==
    ASSUME TypeOK, PendingExact, Enact
    PROVE  \E id \in DOMAIN proposals :
             /\ id \in ProposalId
             /\ proposals[id].status = Approved(now)
             /\ \/ QuorumsMet(id) /\ EnactAppended(id)
                \/ ~QuorumsMet(id) /\ EnactReverted(id)
             /\ UNCHANGED <<now, nextProjectId, nextProposalId, projects, stakeholders, roleStake,
                            votes, tallies, counterAttestations, pendingEnactments>>
<1>1. PICK id : id = Head(enacting)
  OBVIOUS
<1>2. /\ enacting # <<>> /\ enacting \in Seq(ProposalId)
      /\ now \in Block /\ NoRepeat(enacting)
  BY VeriGovAssumption DEF Enact, TypeOK, PendingExact, Block
<1>3. id \in ProposalId /\ Occurs(id, enacting)
  BY <1>1, <1>2, TailIds
<1>4. id \in DOMAIN proposals /\ proposals[id].status = Approved(now)
  BY <1>2, <1>3 DEF PendingExact, ScheduledAt
<1>5. proposals[id].status.tag = "Approved"
  BY <1>4 DEF Approved
<1>6. \/ QuorumsMet(id) /\ EnactAppended(id)
      \/ ~QuorumsMet(id) /\ EnactReverted(id)
  BY <1>1, <1>4, <1>5 DEF Enact, QuorumsMet
<1> QED
  BY <1>3, <1>4, <1>6 DEF Enact

-----------------------------------------------------------------------------
(* The status follows the tallies *)

\* One project's policy requires no Build Service vote.
NoBuilderVote(project_id) ==
    \A rq \in projects[project_id].policy.required_roles : rq.role # "BuildService"

\* One proposal's part of StatusTracksQuorums.
Tracks(id) ==
    NoBuilderVote(proposals[id].project_id) =>
        /\ proposals[id].status.tag \in {"Approved", "Enacted"} => QuorumsMet(id)
        /\ proposals[id].status.tag \in {"Voting", "Expired"} => ~QuorumsMet(id)

\* Quorums of roles other than the Build Service are not disturbed by a step
\* that leaves the proposal's tally, project and those roles' stake alone.
LEMMA QuorumsKept ==
    ASSUME TypeOK, NEW id \in DOMAIN proposals,
           proposals'[id].project_id = proposals[id].project_id,
           projects'[proposals[id].project_id] = projects[proposals[id].project_id],
           tallies'[id] = tallies[id],
           \A r \in Role \ {"BuildService"} :
              roleStake'[proposals[id].project_id][r] = roleStake[proposals[id].project_id][r]
    PROVE  /\ NoBuilderVote(proposals[id].project_id)' <=> NoBuilderVote(proposals[id].project_id)
           /\ NoBuilderVote(proposals[id].project_id) => (QuorumsMet(id)' <=> QuorumsMet(id))
<1>1. PICK j : j = proposals[id].project_id /\ j \in DOMAIN projects
  BY DEF TypeOK
<1>2. projects[j].policy.required_roles \subseteq RoleQuorum
  BY <1>1 DEF TypeOK, ProjectInfo, ReleasePolicy
<1>3. \A rq \in projects[j].policy.required_roles : rq.role \in Role
  BY <1>2 DEF RoleQuorum
<1>4. NoBuilderVote(proposals[id].project_id)' <=> NoBuilderVote(proposals[id].project_id)
  BY <1>1 DEF NoBuilderVote
<1>5. ASSUME NoBuilderVote(j) PROVE QuorumsMet(id)' <=> QuorumsMet(id)
  <2>1. \A rq \in projects[j].policy.required_roles : roleStake'[j][rq.role] = roleStake[j][rq.role]
    BY <1>1, <1>3, <1>5 DEF NoBuilderVote
  <2> QED
    BY <1>1, <2>1 DEF QuorumsMet, MeetsQuorums
<1> QED
  BY <1>1, <1>4, <1>5

\* Under the same conditions a status that stays, or goes from Voting to
\* Expired, still tracks the quorums.
LEMMA TracksKept ==
    ASSUME TypeOK, NEW id \in DOMAIN proposals, Tracks(id),
           proposals'[id].project_id = proposals[id].project_id,
           projects'[proposals[id].project_id] = projects[proposals[id].project_id],
           tallies'[id] = tallies[id],
           \A r \in Role \ {"BuildService"} :
              roleStake'[proposals[id].project_id][r] = roleStake[proposals[id].project_id][r],
           \/ proposals'[id].status = proposals[id].status
           \/ proposals[id].status.tag = "Voting" /\ proposals'[id].status.tag = "Expired"
    PROVE  Tracks(id)'
<1>1. /\ NoBuilderVote(proposals[id].project_id)' <=> NoBuilderVote(proposals[id].project_id)
      /\ NoBuilderVote(proposals[id].project_id) => (QuorumsMet(id)' <=> QuorumsMet(id))
  BY QuorumsKept
<1> QED
  BY <1>1 DEF Tracks

\* Every step keeps the statuses in step with the tallies.
LEMMA TracksStep ==
    ASSUME TypeOK, PendingExact, StatusTracksQuorums, [Next]_vars, NEW q \in DOMAIN proposals'
    PROVE  Tracks(q)'
<1>0. \A id \in DOMAIN proposals : /\ Tracks(id) /\ proposals[id] \in Proposal
                                   /\ proposals[id].project_id \in DOMAIN projects
  BY DEF StatusTracksQuorums, Tracks, QuorumsMet, NoBuilderVote, TypeOK
<1>1. ASSUME NEW g \in Genesis, ProjectGenesis(g) PROVE Tracks(q)'
  <2>1. UNCHANGED <<proposals, tallies>>
    BY <1>1 DEF ProjectGenesis
  <2>2. \A j \in DOMAIN projects : projects'[j] = projects[j] /\ roleStake'[j] = roleStake[j]
    <3>1. \A j \in DOMAIN projects : j # nextProjectId
      BY VeriGovAssumption DEF TypeOK
    <3> QED
      BY <1>1, <3>1 DEF ProjectGenesis, Insert, TypeOK
  <2> QED
    BY <1>0, <2>1, <2>2, TracksKept
<1>2. ASSUME NEW id, NEW who, NEW choice, Voted(id, who, choice) PROVE Tracks(q)'
  <2>1. UNCHANGED <<projects, roleStake>>
    BY <1>2 DEF Voted
  <2>2. CASE q = id
    <3>1. /\ proposals'[id].status.tag \in {"Voting", "Approved"}
          /\ proposals'[id].status.tag = "Approved" <=>
               MeetsQuorums(proposals'[id].project_id, tallies'[id])
      BY <1>2 DEF Voted
    <3>2. QuorumsMet(id)' <=> MeetsQuorums(proposals'[id].project_id, tallies'[id])
      BY <2>1 DEF QuorumsMet, MeetsQuorums
    <3> QED
      BY <2>2, <3>1, <3>2 DEF Tracks
  <2>3. CASE q # id
    <3>1. /\ q \in DOMAIN proposals /\ proposals'[q] = proposals[q]
          /\ tallies'[q] = tallies[q]
      <4>1. tallies' = [tallies EXCEPT ![id] = tallies'[id]]
        BY <1>2 DEF Voted, TypeOK
      <4>2. q \in DOMAIN proposals /\ proposals'[q] = proposals[q]
        BY <1>2, <2>3 DEF Voted
      <4>3. q \in ProposalId
        BY <4>2, VeriGovAssumption DEF TypeOK, ProposalId
      <4> QED
        BY <2>3, <4>1, <4>2, <4>3 DEF TypeOK
    <3> QED
      BY <1>0, <2>1, <3>1, TracksKept
  <2> QED
    BY <2>2, <2>3
<1>3. ASSUME NEW who \in Account, NEW project_id \in ProjectId, NEW version \in Version,
             NEW attestation \in BuildAttestation, NEW cid \in Cid, NEW signature \in Signature,
             NewRelease(who, project_id, version, attestation, cid, signature)
      PROVE  Tracks(q)'
  BY <1>2, <1>3, NewReleaseIsVoted
<1>4. ASSUME NEW who \in Account, NEW id \in ProposalId, NEW choice \in {"aye", "nay"},
             Vote(who, id, choice)
      PROVE  Tracks(q)'
  BY <1>2, <1>4, VoteIsVoted
<1>5. ASSUME NEW who \in Account, NEW id \in ProposalId, NEW rebuilt \in Hash,
             SubmitCounterAttestation(who, id, rebuilt)
      PROVE  Tracks(q)'
  <2>1. /\ id \in DOMAIN proposals /\ UNCHANGED <<projects, tallies>>
        /\ proposals' = [proposals EXCEPT ![id].status = Rejected]
    BY <1>5 DEF SubmitCounterAttestation
  <2>2. \A j \in ProjectId, r \in Role \ {"BuildService"} : roleStake'[j][r] = roleStake[j][r]
    <3>1. PICK j, left : j \in ProjectId /\ roleStake' = [roleStake EXCEPT ![j]["BuildService"] = left]
      BY <1>5, StoredIds DEF SubmitCounterAttestation, TypeOK
    <3>2. roleStake \in [ProjectId -> [Role -> Balance]]
      BY DEF TypeOK
    <3> QED
      BY <3>1, <3>2
  <2>3. CASE q = id
    <3>1. proposals'[q].status = Rejected
      BY <1>0, <2>1, <2>3 DEF Proposal
    <3> QED
      BY <3>1 DEF Tracks, Rejected
  <2>4. CASE q # id
    <3>1. q \in DOMAIN proposals /\ proposals'[q] = proposals[q]
          /\ proposals[q].project_id \in ProjectId
      BY <1>0, <2>1, <2>4 DEF Proposal
    <3> QED
      BY <1>0, <2>1, <2>2, <3>1, TracksKept
  <2> QED
    BY <2>3, <2>4
<1>6. ASSUME NEW id \in ProposalId, CloseExpired(id) PROVE Tracks(q)'
  <2>1. /\ id \in DOMAIN proposals /\ UNCHANGED <<projects, tallies, roleStake>>
        /\ proposals[id].status.tag = "Voting"
        /\ proposals' = [proposals EXCEPT ![id].status = Expired]
    BY <1>6 DEF CloseExpired
  <2>2. /\ q \in DOMAIN proposals
        /\ proposals'[q].project_id = proposals[q].project_id
        /\ \/ proposals'[q].status = proposals[q].status
           \/ proposals[q].status.tag = "Voting" /\ proposals'[q].status.tag = "Expired"
    BY <1>0, <2>1 DEF Proposal, Expired
  <2> QED
    BY <1>0, <2>1, <2>2, TracksKept
<1>7. CASE OnInitialize
  <2>1. UNCHANGED <<proposals, projects, tallies, roleStake>>
    BY <1>7 DEF OnInitialize
  <2> QED
    BY <1>0, <2>1, TracksKept
<1>8. CASE Enact
  <2>1. PICK id \in DOMAIN proposals :
           /\ \/ QuorumsMet(id) /\ EnactAppended(id)
              \/ ~QuorumsMet(id) /\ EnactReverted(id)
           /\ UNCHANGED <<projects, roleStake, tallies>>
    BY <1>8, EnactDecides
  <2>2. \/ QuorumsMet(id) /\ proposals' = [proposals EXCEPT ![id].status = Enacted]
        \/ ~QuorumsMet(id) /\ proposals' = [proposals EXCEPT ![id].status = Voting]
    BY <2>1 DEF EnactAppended, EnactReverted
  <2>3. CASE q = id
    <3>1. /\ proposals'[id].project_id = proposals[id].project_id
          /\ \/ QuorumsMet(id) /\ proposals'[id].status = Enacted
             \/ ~QuorumsMet(id) /\ proposals'[id].status = Voting
      BY <1>0, <2>2 DEF Proposal
    <3>2. /\ NoBuilderVote(proposals[id].project_id)' <=> NoBuilderVote(proposals[id].project_id)
          /\ NoBuilderVote(proposals[id].project_id) => (QuorumsMet(id)' <=> QuorumsMet(id))
      BY <2>1, <3>1, QuorumsKept
    <3> QED
      BY <2>3, <3>1, <3>2 DEF Tracks, Enacted, Voting
  <2>4. CASE q # id
    <3>1. q \in DOMAIN proposals /\ proposals'[q] = proposals[q]
      BY <2>2, <2>4
    <3> QED
      BY <1>0, <2>1, <3>1, TracksKept
  <2> QED
    BY <2>3, <2>4
<1>9. CASE UNCHANGED vars
  BY <1>0, <1>9, TracksKept DEF vars
<1> QED
  BY <1>1, <1>3, <1>4, <1>5, <1>6, <1>7, <1>8, <1>9 DEF Next

\* Where no Build Service vote is required, the status of every proposal is the
\* one its running tallies call for, at every moment: no challenge, slash, new
\* project, expiry or enactment comes between the two.
THEOREM StatusAlwaysTracks == Spec => []StatusTracksQuorums
<1>1. Init => StatusTracksQuorums
  BY DEF Init, StatusTracksQuorums
<1>2. TypeOK /\ PendingExact /\ StatusTracksQuorums /\ [Next]_vars => StatusTracksQuorums'
  BY TracksStep DEF StatusTracksQuorums, Tracks, QuorumsMet, NoBuilderVote
<1> QED
  BY <1>1, <1>2, TypeCorrect, PendingAlwaysExact, PTL DEF Spec

-----------------------------------------------------------------------------
(* A stale status is put right when the proposal is touched *)

\* Only a vote and the enactment loop touch a proposal that stays open, and
\* both decide by the stakes of the moment.
LEMMA TouchedIsRight ==
    ASSUME TypeOK, PendingExact, [Next]_vars, NEW q \in DOMAIN proposals,
           proposals'[q].status.tag \in {"Voting", "Approved"},
           tallies'[q] # tallies[q] \/ proposals'[q].status # proposals[q].status
    PROVE  proposals'[q].status.tag = "Approved" <=> QuorumsMet(q)'
<1>0. /\ \A id \in DOMAIN proposals : proposals[id] \in Proposal
      /\ q \in ProposalId
  BY VeriGovAssumption DEF TypeOK, ProposalId
<1>1. ASSUME NEW g \in Genesis, ProjectGenesis(g) PROVE FALSE
  BY <1>1 DEF ProjectGenesis
<1>2. ASSUME NEW id, NEW who, NEW choice, Voted(id, who, choice)
      PROVE  proposals'[q].status.tag = "Approved" <=> QuorumsMet(q)'
  <2>1. q = id
    <3> SUFFICES ASSUME q # id PROVE FALSE
      OBVIOUS
    <3>1. /\ proposals'[q] = proposals[q]
          /\ tallies' = [tallies EXCEPT ![id] = tallies'[id]]
      BY <1>2 DEF Voted, TypeOK
    <3> QED
      BY <1>0, <3>1 DEF TypeOK
  <2>2. /\ proposals'[id].status.tag = "Approved" <=>
             MeetsQuorums(proposals'[id].project_id, tallies'[id])
        /\ UNCHANGED <<projects, roleStake>>
    BY <1>2 DEF Voted
  <2> QED
    BY <2>1, <2>2 DEF QuorumsMet, MeetsQuorums
<1>3. ASSUME NEW who \in Account, NEW project_id \in ProjectId, NEW version \in Version,
             NEW attestation \in BuildAttestation, NEW cid \in Cid, NEW signature \in Signature,
             NewRelease(who, project_id, version, attestation, cid, signature)
      PROVE  proposals'[q].status.tag = "Approved" <=> QuorumsMet(q)'
  BY <1>2, <1>3, NewReleaseIsVoted
<1>4. ASSUME NEW who \in Account, NEW id \in ProposalId, NEW choice \in {"aye", "nay"},
             Vote(who, id, choice)
      PROVE  proposals'[q].status.tag = "Approved" <=> QuorumsMet(q)'
  BY <1>2, <1>4, VoteIsVoted
<1>5. ASSUME NEW id \in DOMAIN proposals, NEW status \in {Rejected, Expired},
             UNCHANGED tallies, proposals' = [proposals EXCEPT ![id].status = status]
      PROVE  FALSE
  BY <1>0, <1>5 DEF Proposal, Rejected, Expired
<1>6. ASSUME NEW who \in Account, NEW id \in ProposalId, NEW rebuilt \in Hash,
             SubmitCounterAttestation(who, id, rebuilt)
      PROVE  FALSE
  BY <1>5, <1>6 DEF SubmitCounterAttestation
<1>7. ASSUME NEW id \in ProposalId, CloseExpired(id) PROVE FALSE
  BY <1>5, <1>7 DEF CloseExpired
<1>8. CASE OnInitialize
  BY <1>8 DEF OnInitialize
<1>9. CASE Enact
  <2>1. PICK id \in DOMAIN proposals :
           /\ \/ QuorumsMet(id) /\ EnactAppended(id)
              \/ ~QuorumsMet(id) /\ EnactReverted(id)
           /\ UNCHANGED <<projects, roleStake, tallies>>
    BY <1>9, EnactDecides
  <2>2. \/ QuorumsMet(id) /\ proposals' = [proposals EXCEPT ![id].status = Enacted]
        \/ ~QuorumsMet(id) /\ proposals' = [proposals EXCEPT ![id].status = Voting]
    BY <2>1 DEF EnactAppended, EnactReverted
  <2>3. /\ q = id /\ ~QuorumsMet(id)
        /\ proposals'[id].status = Voting /\ proposals'[id].project_id = proposals[id].project_id
    BY <1>0, <2>1, <2>2 DEF Proposal, Enacted
  <2>4. /\ proposals'[id].project_id = proposals[id].project_id
        /\ projects' = projects /\ roleStake' = roleStake /\ tallies' = tallies
    BY <2>1, <2>3
  <2>5. QuorumsMet(id)' <=> QuorumsMet(id)
    BY <2>4 DEF QuorumsMet, MeetsQuorums
  <2>6. proposals'[id].status.tag # "Approved"
    BY <2>3 DEF Voting
  <2> QED
    BY <2>3, <2>5, <2>6
<1>10. CASE UNCHANGED vars
  BY <1>10 DEF vars
<1> QED
  BY <1>1, <1>3, <1>4, <1>6, <1>7, <1>8, <1>9, <1>10 DEF Next

\* A slash re-evaluates no proposal, so a status can be stale; the next step
\* that changes the proposal's tally or moves it between Voting and Approved
\* sets the status the current stakes call for, for every policy.
THEOREM StaleOnlyUntilTouched == Spec => StaleUntilTouched
<1>1. TypeOK /\ PendingExact /\ [Next]_vars =>
        [\A id \in DOMAIN proposals :
            /\ proposals'[id].status.tag \in {"Voting", "Approved"}
            /\ tallies'[id] # tallies[id] \/ proposals'[id].status # proposals[id].status
            => (proposals'[id].status.tag = "Approved" <=> QuorumsMet(id)')]_vars
  BY TouchedIsRight
<1> QED
  BY <1>1, TypeCorrect, PendingAlwaysExact, PTL DEF Spec, StaleUntilTouched
=============================================================================
