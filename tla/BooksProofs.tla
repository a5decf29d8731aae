---------------------------- MODULE BooksProofs -----------------------------
(***************************************************************************)
(* The pallet's books: the amounts on hold against the stakes and bonds    *)
(* they were taken for, and the running totals against recounts of the     *)
(* registry and of the votes.  With it Eq. 1 of the documentation:         *)
(* acceptance over the votes and the registry, with none of the pallet's   *)
(* running totals and no saturation.                                       *)
(***************************************************************************)
EXTENDS VeriGovProofs, FiniteSums

-----------------------------------------------------------------------------
(* The terms of the sums *)

StakeTerms(a) == [j \in ProjectId |-> stakeholders[j][a].stake]

BondTerms(a) ==
    [id \in DOMAIN proposals |->
        IF proposals[id].proposer = a /\ IsOpen(id) THEN proposals[id].bond ELSE 0]

RoleTerms(project_id, r) ==
    [a \in Account |-> IF stakeholders[project_id][a].role = r
                       THEN stakeholders[project_id][a].stake ELSE 0]

StakeBook == \A a \in Account : held["Stake"][a] = SumFunction(StakeTerms(a))
BondBook == \A a \in Account : held["ProposalBond"][a] = SumFunction(BondTerms(a))
RoleBook == \A j \in ProjectId, r \in Role : roleStake[j][r] = SumFunction(RoleTerms(j, r))

\* The escrow invariant is the three books.
LEMMA EscrowIsBooks == EscrowMatchesBooks <=> StakeBook /\ BondBook /\ RoleBook
  BY DEF EscrowMatchesBooks, StakeBook, BondBook, RoleBook, StakeTerms, BondTerms, RoleTerms,
         StakeOfRole

\* Nobody has a stake in a project that does not exist yet.
UnusedEmpty ==
    \A j \in ProjectId : j \notin DOMAIN projects =>
        \A a \in Account : stakeholders[j][a] = NotStakeholder

\* The builder of a proposal is a Build Service of the project: only its stake
\* is ever slashed, so only that role's stake has to follow.
BuildersServe ==
    \A id \in DOMAIN proposals :
        stakeholders[proposals[id].project_id][proposals[id].attestation.builder].role
          = "BuildService"

\* A change of one proposal's status changes nothing else of any proposal.
LEMMA StatusOnly ==
    ASSUME TypeOK, NEW id \in DOMAIN proposals, NEW status,
           proposals' = [proposals EXCEPT ![id].status = status]
    PROVE  /\ DOMAIN proposals' = DOMAIN proposals
           /\ proposals'[id].status = status
           /\ \A q \in DOMAIN proposals :
                /\ q # id => proposals'[q] = proposals[q]
                /\ proposals'[q].proposer = proposals[q].proposer
                /\ proposals'[q].bond = proposals[q].bond
                /\ proposals'[q].project_id = proposals[q].project_id
                /\ proposals'[q].attestation = proposals[q].attestation
<1>1. proposals[id] \in Proposal
  BY DEF TypeOK
<1>2. proposals'[id] = [proposals[id] EXCEPT !.status = status]
  OBVIOUS
<1>3. /\ proposals'[id].status = status
      /\ proposals'[id].proposer = proposals[id].proposer
      /\ proposals'[id].bond = proposals[id].bond
      /\ proposals'[id].project_id = proposals[id].project_id
      /\ proposals'[id].attestation = proposals[id].attestation
  BY <1>1, <1>2 DEF Proposal
<1>4. \A q \in DOMAIN proposals : q # id => proposals'[q] = proposals[q]
  OBVIOUS
<1> QED
  BY <1>3, <1>4

\* The terms are naturals over finite sets of indices.
LEMMA TermTypes ==
    ASSUME TypeOK, NEW a \in Account
    PROVE  /\ IsFiniteSet(ProjectId) /\ StakeTerms(a) \in [ProjectId -> Nat]
           /\ IsFiniteSet(DOMAIN proposals) /\ BondTerms(a) \in [DOMAIN proposals -> Nat]
<1>1. IsFiniteSet(ProjectId)
  BY FS_Interval, VeriGovAssumption DEF ProjectId
<1>2. IsFiniteSet(DOMAIN proposals)
  <2>1. DOMAIN proposals = 0..(nextProposalId - 1) /\ nextProposalId - 1 \in Int
    BY VeriGovAssumption DEF TypeOK
  <2> QED
    BY <2>1, FS_Interval
<1>3. StakeTerms(a) \in [ProjectId -> Nat]
  BY DEF StakeTerms, TypeOK, Stakeholder, Balance
<1>4. BondTerms(a) \in [DOMAIN proposals -> Nat]
  BY DEF BondTerms, TypeOK, Proposal, Balance
<1> QED
  BY <1>1, <1>2, <1>3, <1>4

\* The stakes of one role are balances of finitely many accounts.
LEMMA RoleTermTypes ==
    ASSUME TypeOK, NEW j \in ProjectId, NEW r
    PROVE  IsFiniteSet(Account) /\ RoleTerms(j, r) \in [Account -> Nat]
  BY AccountAssumption DEF RoleTerms, TypeOK, Stakeholder, Balance

-----------------------------------------------------------------------------
(* Bonds *)

\* An open proposal's bond is on hold in full, so a best-effort release takes
\* all of it.
LEMMA BondIsHeld ==
    ASSUME TypeOK, BondBook, NEW id \in DOMAIN proposals, IsOpen(id)
    PROVE  /\ proposals[id].proposer \in Account /\ proposals[id].bond \in Nat
           /\ proposals[id].bond <= held["ProposalBond"][proposals[id].proposer]
           /\ TakenOffHold("ProposalBond", proposals[id].proposer, proposals[id].bond)
                = proposals[id].bond
<1>1. PICK a \in Account : a = proposals[id].proposer
  BY DEF TypeOK, Proposal
<1>2. proposals[id].bond \in Nat /\ BondTerms(a)[id] = proposals[id].bond
  BY <1>1 DEF TypeOK, Proposal, Balance, BondTerms
<1>3. BondTerms(a)[id] <= SumFunction(BondTerms(a))
  BY TermTypes, SumNat
<1>4. held["ProposalBond"][a] = SumFunction(BondTerms(a))
  BY DEF BondBook
<1> QED
  BY <1>1, <1>2, <1>3, <1>4 DEF TakenOffHold, AtMost

\* A proposal that is closed gives its bond back.
LEMMA BondReleased ==
    ASSUME TypeOK, TypeOK', BondBook, NEW id \in DOMAIN proposals, IsOpen(id),
           NEW status \in {Enacted, Rejected, Expired},
           proposals' = [proposals EXCEPT ![id].status = status],
           held'["ProposalBond"] = [held["ProposalBond"] EXCEPT ![proposals[id].proposer] =
                @ - TakenOffHold("ProposalBond", proposals[id].proposer, proposals[id].bond)]
    PROVE  BondBook'
<1> SUFFICES ASSUME NEW a \in Account
             PROVE  held'["ProposalBond"][a] = SumFunction(BondTerms(a)')
  BY DEF BondBook
<1>1. /\ DOMAIN proposals' = DOMAIN proposals
      /\ \A q \in DOMAIN proposals : q # id => proposals'[q] = proposals[q]
      /\ proposals'[id].status = status
  BY DEF TypeOK, Proposal
<1>2. /\ BondTerms(a)'[id] = 0
      /\ \A q \in DOMAIN proposals : q # id => BondTerms(a)'[q] = BondTerms(a)[q]
  BY <1>1 DEF BondTerms, IsOpen, Enacted, Rejected, Expired
<1>3. /\ IsFiniteSet(DOMAIN proposals)
      /\ BondTerms(a) \in [DOMAIN proposals -> Nat]
      /\ BondTerms(a)' \in [DOMAIN proposals -> Nat]
  <2>1. BondTerms(a)' \in [DOMAIN proposals' -> Nat]
    BY <1>1 DEF BondTerms, TypeOK, Proposal, Balance
  <2> QED
    BY <1>1, <2>1, TermTypes
<1>4. SumFunction(BondTerms(a)') = (SumFunction(BondTerms(a)) - BondTerms(a)[id]) + 0
  BY <1>2, <1>3, SumChange
<1>5. /\ held["ProposalBond"][a] = SumFunction(BondTerms(a))
      /\ SumFunction(BondTerms(a)) \in Nat
      /\ held["ProposalBond"] \in [Account -> Nat]
  BY <1>3, SumNat DEF BondBook, TypeOK, HoldReason
<1>6. CASE a = proposals[id].proposer
  <2>1. held'["ProposalBond"][a] = held["ProposalBond"][a] - proposals[id].bond
    BY <1>5, <1>6, BondIsHeld
  <2>2. BondTerms(a)[id] = proposals[id].bond /\ proposals[id].bond \in Nat
    BY <1>6, BondIsHeld DEF BondTerms
  <2> QED
    BY <1>4, <1>5, <2>1, <2>2
<1>7. CASE a # proposals[id].proposer
  <2>1. held'["ProposalBond"][a] = held["ProposalBond"][a]
    BY <1>5, <1>7
  <2>2. BondTerms(a)[id] = 0
    BY <1>7 DEF BondTerms
  <2> QED
    BY <1>4, <1>5, <2>1, <2>2
<1> QED
  BY <1>6, <1>7

\* A step that opens and closes no proposal leaves the bonds as they are.
LEMMA BondKept ==
    ASSUME BondBook, DOMAIN proposals' = DOMAIN proposals,
           \A q \in DOMAIN proposals : /\ proposals'[q].proposer = proposals[q].proposer
                                       /\ proposals'[q].bond = proposals[q].bond
                                       /\ IsOpen(q)' <=> IsOpen(q),
           held'["ProposalBond"] = held["ProposalBond"]
    PROVE  BondBook'
<1>1. ASSUME NEW a \in Account PROVE BondTerms(a)' = BondTerms(a)
  BY DEF BondTerms
<1> QED
  BY <1>1 DEF BondBook

\* A new proposal puts its bond on hold.
LEMMA BondTaken ==
    ASSUME TypeOK, TypeOK', BondBook, NEW id, id \notin DOMAIN proposals,
           DOMAIN proposals' = DOMAIN proposals \cup {id},
           \A q \in DOMAIN proposals : proposals'[q] = proposals[q],
           IsOpen(id)',
           held'["ProposalBond"] = [held["ProposalBond"] EXCEPT ![proposals'[id].proposer] =
                                      @ + proposals'[id].bond]
    PROVE  BondBook'
<1> SUFFICES ASSUME NEW a \in Account
             PROVE  held'["ProposalBond"][a] = SumFunction(BondTerms(a)')
  BY DEF BondBook
<1>1. /\ IsFiniteSet(DOMAIN proposals)
      /\ BondTerms(a) \in [DOMAIN proposals -> Nat]
      /\ BondTerms(a)' \in [DOMAIN proposals \cup {id} -> Nat]
  <2>1. \A q \in DOMAIN proposals' : proposals'[q].bond \in Nat
    <3>1. \A q \in DOMAIN proposals' : proposals'[q] \in Proposal
      BY DEF TypeOK
    <3> QED
      BY <3>1 DEF Proposal, Balance
  <2>2. BondTerms(a)' \in [DOMAIN proposals' -> Nat]
    BY <2>1 DEF BondTerms
  <2> QED
    BY <2>2, TermTypes
<1>2. \A q \in DOMAIN proposals : BondTerms(a)'[q] = BondTerms(a)[q]
  BY DEF BondTerms, IsOpen
<1>3. SumFunction(BondTerms(a)') = SumFunction(BondTerms(a)) + BondTerms(a)'[id]
  BY <1>1, <1>2, SumExtend
<1>4. /\ held["ProposalBond"][a] = SumFunction(BondTerms(a))
      /\ SumFunction(BondTerms(a)) \in Nat
      /\ held["ProposalBond"] \in [Account -> Nat]
  BY <1>1, SumNat DEF BondBook, TypeOK, HoldReason
<1>5. BondTerms(a)'[id] = IF proposals'[id].proposer = a THEN proposals'[id].bond ELSE 0
  BY DEF BondTerms
<1> QED
  BY <1>3, <1>4, <1>5

-----------------------------------------------------------------------------
(* Stakes *)

\* A fraction of at most one, rounded down, is at most the whole, and is within
\* one of the exact product.
LEMMA MulFloorBounds ==
    ASSUME NEW parts \in PerbillParts, NEW x \in Balance
    PROVE  /\ MulFloor(parts, x) \in Nat /\ MulFloor(parts, x) <= x
           /\ MulFloor(parts, x) * ACCURACY <= parts * x
           /\ parts * x < (MulFloor(parts, x) + 1) * ACCURACY
<1>1. parts \in 0..ACCURACY /\ x \in Nat /\ ACCURACY \in Nat \ {0} /\ parts * x \in Nat
  BY PerbillAssumption DEF PerbillParts, Balance
<1>2. \A m \in Nat : (m \div ACCURACY) * ACCURACY <= m /\ m < ((m \div ACCURACY) + 1) * ACCURACY
  BY <1>1
<1>3. (parts * x) \div ACCURACY <= x
  BY <1>1
<1> QED
  BY <1>1, <1>2, <1>3, MulFloorType DEF MulFloor

\* A Build Service's stake in a project is on hold in full: the slash burns
\* exactly the fraction of it that is due.
LEMMA SlashIsExact ==
    ASSUME TypeOK, StakeBook, NEW j \in DOMAIN projects, NEW a \in Account
    PROVE  /\ j \in ProjectId /\ stakeholders[j][a].stake \in Balance
           /\ ToSlash(j, a) \in Nat /\ ToSlash(j, a) <= stakeholders[j][a].stake
           /\ TakenOffHold("Stake", a, ToSlash(j, a)) = ToSlash(j, a)
           /\ SatSub(stakeholders[j][a].stake, ToSlash(j, a))
                = stakeholders[j][a].stake - ToSlash(j, a)
<1>1. /\ j \in ProjectId /\ stakeholders[j][a].stake \in Balance
      /\ projects[j].sigma_neg \in PerbillParts
  BY VeriGovAssumption DEF TypeOK, ProjectId, Stakeholder, ProjectInfo
<1>2. ToSlash(j, a) \in Nat /\ ToSlash(j, a) <= stakeholders[j][a].stake
  BY <1>1, MulFloorBounds DEF ToSlash
<1>3. stakeholders[j][a].stake <= held["Stake"][a] /\ held["Stake"][a] \in Nat
  <2>1. StakeTerms(a)[j] <= SumFunction(StakeTerms(a))
    BY <1>1, TermTypes, SumNat
  <2> QED
    BY <1>1, <2>1 DEF StakeBook, StakeTerms, TypeOK, HoldReason
<1> QED
  BY <1>1, <1>2, <1>3 DEF TakenOffHold, AtMost, SatSub, Balance

\* One account's stake in one project moves, and its hold by as much.
LEMMA StakeMoved ==
    ASSUME TypeOK, TypeOK', StakeBook, NEW a \in Account, NEW j \in ProjectId,
           \A i \in ProjectId : i # j => stakeholders'[i][a] = stakeholders[i][a],
           held'["Stake"][a] - stakeholders'[j][a].stake = held["Stake"][a] - stakeholders[j][a].stake
    PROVE  held'["Stake"][a] = SumFunction(StakeTerms(a)')
<1>1. /\ IsFiniteSet(ProjectId) /\ StakeTerms(a) \in [ProjectId -> Nat]
      /\ StakeTerms(a)' \in [ProjectId -> Nat]
  <2>1. StakeTerms(a)' \in [ProjectId -> Nat]
    BY DEF StakeTerms, TypeOK, Stakeholder, Balance
  <2> QED
    BY <2>1, TermTypes
<1>2. /\ StakeTerms(a)[j] = stakeholders[j][a].stake
      /\ StakeTerms(a)'[j] = stakeholders'[j][a].stake
      /\ \A i \in ProjectId : i # j => StakeTerms(a)'[i] = StakeTerms(a)[i]
  BY DEF StakeTerms
<1>3. SumFunction(StakeTerms(a)') = (SumFunction(StakeTerms(a)) - StakeTerms(a)[j]) + StakeTerms(a)'[j]
  BY <1>1, <1>2, SumChange
<1>4. /\ held["Stake"][a] = SumFunction(StakeTerms(a)) /\ held["Stake"][a] \in Nat
      /\ held'["Stake"][a] \in Nat
      /\ StakeTerms(a)[j] \in Nat /\ StakeTerms(a)'[j] \in Nat
  BY <1>1 DEF StakeBook, TypeOK, HoldReason
<1> QED
  BY <1>2, <1>3, <1>4

\* Stakes and holds that nothing moves stay in agreement.
LEMMA StakeKept ==
    ASSUME StakeBook, RoleBook, UNCHANGED <<stakeholders, roleStake>>,
           held'["Stake"] = held["Stake"]
    PROVE  StakeBook' /\ RoleBook'
<1>1. \A a \in Account : StakeTerms(a)' = StakeTerms(a)
  BY DEF StakeTerms
<1>2. \A j \in ProjectId, r \in Role : RoleTerms(j, r)' = RoleTerms(j, r)
  BY DEF RoleTerms
<1> QED
  BY <1>1, <1>2 DEF StakeBook, RoleBook

\* The role totals that project_genesis accumulates over its arguments are the
\* sums over the registry it stores.
LEMMA GenesisRoleTotals ==
    ASSUME NEW g \in Genesis, NEW r \in Role,
           \A s, t \in g.stakeholders : s.account = t.account => s = t
    PROVE  GenesisRoleStake(g, r)
             = SumFunction([a \in Account |-> IF GenesisRegistry(g)[a].role = r
                                              THEN GenesisRegistry(g)[a].stake ELSE 0])
<1> DEFINE R == {s \in g.stakeholders : s.role = r}
           h == [s \in R |-> s.stake]
           key == [s \in R |-> s.account]
           f == [a \in Account |-> IF GenesisRegistry(g)[a].role = r
                                   THEN GenesisRegistry(g)[a].stake ELSE 0]
<1>1. g.stakeholders \subseteq StakeholderInit /\ IsFiniteSet(g.stakeholders)
  BY GenesisAssumption DEF GenesisArgs
<1>2. IsFiniteSet(R) /\ IsFiniteSet(Account)
  BY <1>1, FS_Subset, AccountAssumption
<1>3. /\ h \in [R -> Nat] /\ key \in [R -> Account]
      /\ \A s, t \in R : key[s] = key[t] => s = t
  BY <1>1 DEF StakeholderInit, Balance
<1>4. f \in [Account -> Nat]
  BY GenesisRegistryType DEF Stakeholder, Balance
<1>5. ASSUME NEW s \in g.stakeholders
      PROVE  /\ GenesisRegistry(g)[s.account].role = s.role
             /\ GenesisRegistry(g)[s.account].stake = s.stake
  <2>1. s.account \in Account
    BY <1>1 DEF StakeholderInit
  <2>2. \E t \in g.stakeholders : t.account = s.account
    OBVIOUS
  <2> DEFINE t == CHOOSE t \in g.stakeholders : t.account = s.account
  <2>3. t \in g.stakeholders /\ t.account = s.account
    BY <2>2
  <2>4. t = s
    BY <2>3
  <2>5. GenesisRegistry(g)[s.account] = [role |-> t.role, stake |-> t.stake]
    BY <2>1, <2>2 DEF GenesisRegistry
  <2> HIDE DEF t
  <2> QED
    BY <2>4, <2>5
<1>6. ASSUME NEW s \in R PROVE f[key[s]] = h[s]
  <2>1. /\ s \in g.stakeholders /\ s.role = r /\ key[s] = s.account /\ h[s] = s.stake
        /\ s.account \in Account
    BY <1>1 DEF StakeholderInit
  <2>2. /\ GenesisRegistry(g)[s.account].role = s.role
        /\ GenesisRegistry(g)[s.account].stake = s.stake
    BY <1>5, <2>1
  <2> QED
    BY <2>1, <2>2
<1>7. ASSUME NEW a \in Account, \A s \in R : key[s] # a PROVE f[a] = 0
  <2>1. CASE \E s \in g.stakeholders : s.account = a
    <3>1. PICK s \in g.stakeholders : s.account = a
      BY <2>1
    <3>2. s.role # r
      BY <1>7, <3>1
    <3>3. GenesisRegistry(g)[a].role = s.role
      BY <1>5, <3>1
    <3> QED
      BY <3>2, <3>3
  <2>2. CASE ~ \E s \in g.stakeholders : s.account = a
    <3>1. GenesisRegistry(g)[a] = NotStakeholder
      BY <2>2 DEF GenesisRegistry
    <3> QED
      BY <3>1 DEF NotStakeholder
  <2> QED
    BY <2>1, <2>2
<1>8. GenesisRoleStake(g, r) = SumFunction(h)
  BY DEF GenesisRoleStake
<1> HIDE DEF R, h, key, f
<1>9. SumFunction(f) = SumFunction(h)
  BY <1>2, <1>3, <1>4, <1>6, <1>7, SumReindex
<1> QED
  BY <1>8, <1>9 DEF f

-----------------------------------------------------------------------------
(* The books balance *)

\* The inductive invariant.
Books == StakeBook /\ BondBook /\ RoleBook /\ UnusedEmpty /\ BuildersServe

\* Statuses may change without disturbing the registry's facts.
LEMMA ServeKept ==
    ASSUME UnusedEmpty, BuildersServe, UNCHANGED <<projects, stakeholders>>,
           DOMAIN proposals' = DOMAIN proposals,
           \A q \in DOMAIN proposals : /\ proposals'[q].project_id = proposals[q].project_id
                                       /\ proposals'[q].attestation = proposals[q].attestation
    PROVE  UnusedEmpty' /\ BuildersServe'
  BY DEF UnusedEmpty, BuildersServe

\* project_genesis opens the books of a new project.
LEMMA GenesisBooks ==
    ASSUME TypeOK, TypeOK', Books, NEW g \in Genesis, ProjectGenesis(g)
    PROVE  Books'
<1>1. PICK n \in ProjectId : /\ n = nextProjectId /\ n \notin DOMAIN projects
                             /\ DOMAIN projects' = DOMAIN projects \cup {n}
  BY VeriGovAssumption DEF ProjectGenesis, TypeOK, ProjectId, Insert
<1>2. PICK registry \in [Account -> Stakeholder] : registry = GenesisRegistry(g)
  BY GenesisRegistryType
<1>3. /\ stakeholders' = [stakeholders EXCEPT ![n] = registry]
      /\ held' = [held EXCEPT !["Stake"] = [a \in Account |-> @[a] + registry[a].stake]]
      /\ roleStake' = [roleStake EXCEPT ![n] = [r \in Role |-> GenesisRoleStake(g, r)]]
      /\ UNCHANGED proposals
  BY <1>1, <1>2 DEF ProjectGenesis
<1>4. /\ stakeholders'[n] = registry
      /\ \A j \in ProjectId : j # n => /\ stakeholders'[j] = stakeholders[j]
                                       /\ roleStake'[j] = roleStake[j]
      /\ \A a \in Account : held'["Stake"][a] = held["Stake"][a] + registry[a].stake
      /\ held'["ProposalBond"] = held["ProposalBond"]
  BY <1>3 DEF TypeOK, HoldReason
<1>5. StakeBook'
  <2> SUFFICES ASSUME NEW a \in Account PROVE held'["Stake"][a] = SumFunction(StakeTerms(a)')
    BY DEF StakeBook
  <2>1. stakeholders[n][a].stake = 0
    BY <1>1 DEF Books, UnusedEmpty, NotStakeholder
  <2>2. held["Stake"][a] \in Nat /\ registry[a].stake \in Nat
    BY DEF TypeOK, HoldReason, Stakeholder, Balance
  <2>3. held'["Stake"][a] - stakeholders'[n][a].stake = held["Stake"][a] - stakeholders[n][a].stake
    BY <1>4, <2>1, <2>2
  <2> QED
    BY <1>4, <2>3, StakeMoved DEF Books
<1>6. RoleBook'
  <2> SUFFICES ASSUME NEW j \in ProjectId, NEW r \in Role
               PROVE  roleStake'[j][r] = SumFunction(RoleTerms(j, r)')
    BY DEF RoleBook
  <2>1. CASE j = n
    <3>1. roleStake'[n][r] = GenesisRoleStake(g, r)
      BY <1>3 DEF TypeOK
    <3>2. RoleTerms(n, r)' = [a \in Account |-> IF registry[a].role = r
                                                THEN registry[a].stake ELSE 0]
      BY <1>4 DEF RoleTerms
    <3>3. \A s, t \in g.stakeholders : s.account = t.account => s = t
      BY DEF ProjectGenesis
    <3> QED
      BY <1>2, <2>1, <3>1, <3>2, <3>3, GenesisRoleTotals
  <2>2. CASE j # n
    <3>1. RoleTerms(j, r)' = RoleTerms(j, r)
      BY <1>4, <2>2 DEF RoleTerms
    <3> QED
      BY <1>4, <2>2, <3>1 DEF Books, RoleBook
  <2> QED
    BY <2>1, <2>2
<1>7. BondBook'
  BY <1>3, <1>4, BondKept DEF Books, IsOpen
<1>8. UnusedEmpty'
  BY <1>1, <1>4 DEF Books, UnusedEmpty
<1>9. BuildersServe'
  <2>1. \A id \in DOMAIN proposals : /\ proposals[id].project_id \in ProjectId
                                     /\ proposals[id].project_id # n
    BY <1>1 DEF TypeOK, Proposal
  <2> QED
    BY <1>3, <1>4, <2>1 DEF Books, BuildersServe
<1> QED
  BY <1>5, <1>6, <1>7, <1>8, <1>9 DEF Books

\* new_release takes a bond for a proposal that is open.
LEMMA NewReleaseBooks ==
    ASSUME TypeOK, TypeOK', Books,
           NEW who \in Account, NEW project_id \in ProjectId, NEW version \in Version,
           NEW attestation \in BuildAttestation, NEW cid \in Cid, NEW signature \in Signature,
           NewRelease(who, project_id, version, attestation, cid, signature)
    PROVE  Books'
<1>1. PICK id \in ProposalId :
              /\ id \notin DOMAIN proposals
              /\ Voted(id, who, "aye")
              /\ proposals'[id] \in Proposal
              /\ proposals'[id].project_id = project_id
              /\ proposals'[id].proposer = who
              /\ proposals'[id].attestation = attestation
              /\ proposals'[id].bond = projects[project_id].proposal_bond
  BY NewReleaseIsVoted
<1>2. /\ DOMAIN proposals' = DOMAIN proposals \cup {id}
      /\ \A q \in DOMAIN proposals : proposals'[q] = proposals[q]
      /\ IsOpen(id)'
      /\ UNCHANGED <<projects, stakeholders, roleStake>>
  BY <1>1 DEF Voted, IsOpen
<1>3. /\ held' = [held EXCEPT !["ProposalBond"][who] = @ + projects[project_id].proposal_bond]
      /\ stakeholders[project_id][attestation.builder].role = "BuildService"
  BY DEF NewRelease, Hold
<1>4. /\ held'["Stake"] = held["Stake"]
      /\ held'["ProposalBond"] = [held["ProposalBond"] EXCEPT ![proposals'[id].proposer] =
                                    @ + proposals'[id].bond]
  BY <1>1, <1>3 DEF TypeOK, HoldReason
<1>5. BondBook'
  BY <1>1, <1>2, <1>4, BondTaken DEF Books
<1>6. StakeBook' /\ RoleBook'
  BY <1>2, <1>4, StakeKept DEF Books
<1>7. UnusedEmpty'
  BY <1>2 DEF Books, UnusedEmpty
<1>8. BuildersServe'
  BY <1>1, <1>2, <1>3 DEF Books, BuildersServe
<1> QED
  BY <1>5, <1>6, <1>7, <1>8 DEF Books

\* vote moves no money.
LEMMA VoteBooks ==
    ASSUME TypeOK, TypeOK', Books,
           NEW who \in Account, NEW id \in ProposalId, NEW choice \in {"aye", "nay"},
           Vote(who, id, choice)
    PROVE  Books'
<1>1. /\ Voted(id, who, choice) /\ id \in DOMAIN proposals /\ UNCHANGED held
  BY VoteIsVoted
<1>2. /\ proposals' = [proposals EXCEPT ![id].status = proposals'[id].status]
      /\ DOMAIN proposals' = DOMAIN proposals
      /\ proposals[id].status.tag \in {"Voting", "Approved"}
      /\ proposals'[id].status.tag \in {"Voting", "Approved"}
      /\ UNCHANGED <<projects, stakeholders, roleStake>>
  BY <1>1 DEF Voted
<1>3. \A q \in DOMAIN proposals : /\ proposals'[q].proposer = proposals[q].proposer
                                  /\ proposals'[q].bond = proposals[q].bond
                                  /\ proposals'[q].project_id = proposals[q].project_id
                                  /\ proposals'[q].attestation = proposals[q].attestation
                                  /\ q # id => proposals'[q] = proposals[q]
  <2>1. PICK status : status = proposals'[id].status
    OBVIOUS
  <2>2. proposals' = [proposals EXCEPT ![id].status = status]
    BY <1>2, <2>1
  <2> QED
    BY <1>1, <2>2, StatusOnly
<1>4. \A q \in DOMAIN proposals : IsOpen(q)' <=> IsOpen(q)
  BY <1>2, <1>3 DEF IsOpen
<1>5. BondBook'
  BY <1>1, <1>2, <1>3, <1>4, BondKept DEF Books
<1>6. StakeBook' /\ RoleBook'
  BY <1>1, <1>2, StakeKept DEF Books
<1>7. UnusedEmpty' /\ BuildersServe'
  BY <1>2, <1>3, ServeKept DEF Books
<1> QED
  BY <1>5, <1>6, <1>7 DEF Books

\* What an accepted counter-attestation does to the books: the builder loses
\* exactly the slash that is due, in its stake, its role's stake and its hold.
Slashes(id, j, b, lost) ==
    /\ id \in DOMAIN proposals /\ IsOpen(id)
    /\ j = proposals[id].project_id /\ b = proposals[id].attestation.builder
    /\ lost = ToSlash(j, b) /\ lost <= stakeholders[j][b].stake
    /\ stakeholders' = [stakeholders EXCEPT ![j][b].stake = @ - lost]
    /\ roleStake' = [roleStake EXCEPT ![j]["BuildService"] = SatSub(@, lost)]
    /\ held'["Stake"] = [held["Stake"] EXCEPT ![b] = @ - lost]
    /\ held'["ProposalBond"] =
         [held["ProposalBond"] EXCEPT ![proposals[id].proposer] =
            @ - TakenOffHold("ProposalBond", proposals[id].proposer, proposals[id].bond)]
    /\ proposals' = [proposals EXCEPT ![id].status = Rejected]
    /\ UNCHANGED <<projects, votes, tallies>>

\* So does submit_counter_attestation.
LEMMA SlashEffect ==
    ASSUME TypeOK, StakeBook, NEW who \in Account, NEW id \in ProposalId, NEW rebuilt \in Hash,
           SubmitCounterAttestation(who, id, rebuilt)
    PROVE  \E j \in DOMAIN projects, b \in Account, lost \in Nat : Slashes(id, j, b, lost)
<1>1. PICK j \in DOMAIN projects, b \in Account :
              /\ id \in DOMAIN proposals
              /\ j = proposals[id].project_id /\ b = proposals[id].attestation.builder
  BY DEF SubmitCounterAttestation, TypeOK, Proposal, BuildAttestation
<1>2. PICK lost \in Nat : lost = ToSlash(j, b)
  BY SlashIsExact
<1>3. /\ lost <= stakeholders[j][b].stake
      /\ TakenOffHold("Stake", b, ToSlash(j, b)) = lost
      /\ SatSub(stakeholders[j][b].stake, lost) = stakeholders[j][b].stake - lost
      /\ j \in ProjectId
  BY <1>2, SlashIsExact
<1> DEFINE returned == TakenOffHold("ProposalBond", proposals[id].proposer, proposals[id].bond)
<1>4. /\ proposals[id].status.tag \in {"Voting", "Approved"}
      /\ stakeholders' = [stakeholders EXCEPT ![j][b].stake = SatSub(@, lost)]
      /\ roleStake' = [roleStake EXCEPT ![j]["BuildService"] = SatSub(@, lost)]
      /\ held' = [held EXCEPT !["Stake"][b] = @ - lost,
                              !["ProposalBond"][proposals[id].proposer] = @ - returned]
      /\ proposals' = [proposals EXCEPT ![id].status = Rejected]
      /\ UNCHANGED <<projects, votes, tallies>>
  BY <1>1, <1>3 DEF SubmitCounterAttestation
<1> HIDE DEF returned
<1>5. stakeholders' = [stakeholders EXCEPT ![j][b].stake = @ - lost]
  BY <1>3, <1>4 DEF TypeOK
<1>6. /\ held'["Stake"] = [held["Stake"] EXCEPT ![b] = @ - lost]
      /\ held'["ProposalBond"] =
           [held["ProposalBond"] EXCEPT ![proposals[id].proposer] = @ - returned]
  BY <1>4 DEF TypeOK, HoldReason
<1>7. Slashes(id, j, b, lost)
  BY <1>1, <1>2, <1>3, <1>4, <1>5, <1>6 DEF Slashes, IsOpen, returned
<1> QED
  BY <1>7

\* submit_counter_attestation slashes the stake, the role's stake and the hold
\* by the same amount, and gives the bond back.
LEMMA SlashBooks ==
    ASSUME TypeOK, TypeOK', Books,
           NEW who \in Account, NEW id \in ProposalId, NEW rebuilt \in Hash,
           SubmitCounterAttestation(who, id, rebuilt)
    PROVE  Books'
<1>0. PICK j \in DOMAIN projects, b \in Account, lost \in Nat : Slashes(id, j, b, lost)
  BY SlashEffect DEF Books
<1>1. /\ id \in DOMAIN proposals /\ IsOpen(id)
      /\ j = proposals[id].project_id /\ b = proposals[id].attestation.builder
      /\ lost = ToSlash(j, b) /\ lost <= stakeholders[j][b].stake
      /\ stakeholders' = [stakeholders EXCEPT ![j][b].stake = @ - lost]
      /\ roleStake' = [roleStake EXCEPT ![j]["BuildService"] = SatSub(@, lost)]
      /\ held'["Stake"] = [held["Stake"] EXCEPT ![b] = @ - lost]
      /\ held'["ProposalBond"] =
           [held["ProposalBond"] EXCEPT ![proposals[id].proposer] =
              @ - TakenOffHold("ProposalBond", proposals[id].proposer, proposals[id].bond)]
      /\ proposals' = [proposals EXCEPT ![id].status = Rejected]
      /\ UNCHANGED <<projects, votes, tallies>>
  BY <1>0 DEF Slashes
<1>2. /\ j \in ProjectId /\ stakeholders \in [ProjectId -> [Account -> Stakeholder]]
      /\ \A i \in ProjectId, a \in Account : stakeholders[i][a].stake \in Nat
  <2>1. j \in ProjectId
    BY SlashIsExact DEF Books
  <2>2. stakeholders \in [ProjectId -> [Account -> Stakeholder]]
    BY DEF TypeOK
  <2> QED
    BY <2>1, <2>2 DEF Stakeholder, Balance
<1>3. /\ stakeholders'[j][b].stake = stakeholders[j][b].stake - lost
      /\ stakeholders'[j][b].role = stakeholders[j][b].role
      /\ \A i \in ProjectId, a \in Account :
            ~(i = j /\ a = b) => stakeholders'[i][a] = stakeholders[i][a]
  <2>1. stakeholders'[j][b] = [stakeholders[j][b] EXCEPT !.stake = @ - lost]
    <3>1. stakeholders' = [stakeholders EXCEPT ![j][b].stake = @ - lost]
      BY <1>1
    <3> QED
      BY <1>2, <3>1
  <2>2. stakeholders[j][b] \in Stakeholder
    BY <1>2
  <2>3. \A i \in ProjectId, a \in Account :
            ~(i = j /\ a = b) => stakeholders'[i][a] = stakeholders[i][a]
    <3>1. stakeholders' = [stakeholders EXCEPT ![j][b].stake = @ - lost]
      BY <1>1
    <3> QED
      BY <1>2, <3>1
  <2> QED
    BY <2>1, <2>2, <2>3 DEF Stakeholder
<1>4. \A i \in ProjectId, a \in Account : stakeholders'[i][a].role = stakeholders[i][a].role
  BY <1>3
<1>5. stakeholders[j][b].role = "BuildService"
  BY <1>1 DEF Books, BuildersServe
<1>6. StakeBook'
  <2> SUFFICES ASSUME NEW a \in Account PROVE held'["Stake"][a] = SumFunction(StakeTerms(a)')
    BY DEF StakeBook
  <2>1. held["Stake"] \in [Account -> Nat] /\ held["Stake"][a] \in Nat
        /\ stakeholders[j][a].stake \in Nat
    BY <1>2 DEF TypeOK, HoldReason
  <2>2. held'["Stake"][a] - stakeholders'[j][a].stake = held["Stake"][a] - stakeholders[j][a].stake
    <3>1. CASE a = b
      <4>1. held'["Stake"][a] = held["Stake"][a] - lost
        BY <1>1, <2>1, <3>1
      <4> QED
        BY <1>3, <2>1, <3>1, <4>1
    <3>2. CASE a # b
      <4>1. held'["Stake"] = [held["Stake"] EXCEPT ![b] = @ - lost]
        BY <1>1
      <4>2. held'["Stake"][a] = held["Stake"][a]
        BY <2>1, <3>2, <4>1
      <4>3. stakeholders'[j][a] = stakeholders[j][a]
        BY <1>2, <1>3, <3>2
      <4> QED
        BY <4>2, <4>3
    <3> QED
      BY <3>1, <3>2
  <2>3. \A i \in ProjectId : i # j => stakeholders'[i][a] = stakeholders[i][a]
    BY <1>3
  <2> QED
    BY <1>2, <2>2, <2>3, StakeMoved DEF Books
<1>7. RoleBook'
  <2> SUFFICES ASSUME NEW i \in ProjectId, NEW r \in Role
               PROVE  roleStake'[i][r] = SumFunction(RoleTerms(i, r)')
    BY DEF RoleBook
  <2>1. roleStake[i][r] = SumFunction(RoleTerms(i, r))
    BY DEF Books, RoleBook
  <2>2. CASE i = j /\ r = "BuildService"
    <3>1. /\ IsFiniteSet(Account) /\ RoleTerms(j, r) \in [Account -> Nat]
          /\ RoleTerms(j, r)' \in [Account -> Nat]
      <4>1. RoleTerms(j, r)' \in [Account -> Nat]
        BY <1>2 DEF RoleTerms, TypeOK, Stakeholder, Balance
      <4> QED
        BY <1>2, <4>1, RoleTermTypes
    <3>2. /\ RoleTerms(j, r)[b] = stakeholders[j][b].stake
          /\ RoleTerms(j, r)'[b] = stakeholders[j][b].stake - lost
          /\ \A a \in Account : a # b => RoleTerms(j, r)'[a] = RoleTerms(j, r)[a]
      BY <1>2, <1>3, <1>5, <2>2 DEF RoleTerms
    <3>3. /\ SumFunction(RoleTerms(j, r)') =
               (SumFunction(RoleTerms(j, r)) - stakeholders[j][b].stake)
                 + (stakeholders[j][b].stake - lost)
      BY <3>1, <3>2, SumChange
    <3>4. /\ SumFunction(RoleTerms(j, r)) \in Nat
          /\ stakeholders[j][b].stake <= SumFunction(RoleTerms(j, r))
      BY <3>1, <3>2, SumNat
    <3>5. roleStake'[j][r] = SatSub(roleStake[j][r], lost)
      <4>1. roleStake' = [roleStake EXCEPT ![j]["BuildService"] = SatSub(@, lost)]
        BY <1>1
      <4>2. roleStake \in [ProjectId -> [Role -> Balance]]
        BY DEF TypeOK
      <4> QED
        BY <1>2, <2>2, <4>1, <4>2
    <3>6. PICK sum \in Nat, s \in Nat :
             /\ sum = SumFunction(RoleTerms(j, r)) /\ s = stakeholders[j][b].stake
             /\ s <= sum /\ lost <= s
      BY <1>1, <1>2, <3>4
    <3>7. SatSub(sum, lost) = (sum - s) + (s - lost)
      BY <3>6 DEF SatSub
    <3>8. roleStake[j][r] = sum
      BY <2>1, <2>2, <3>6
    <3>9. roleStake'[j][r] = SumFunction(RoleTerms(j, r)')
      BY <3>3, <3>5, <3>6, <3>7, <3>8
    <3> QED
      BY <2>2, <3>9
  <2>3. CASE ~(i = j /\ r = "BuildService")
    <3>1. RoleTerms(i, r)' = RoleTerms(i, r)
      <4>1. \A a \in Account :
              (IF stakeholders'[i][a].role = r THEN stakeholders'[i][a].stake ELSE 0)
                = (IF stakeholders[i][a].role = r THEN stakeholders[i][a].stake ELSE 0)
        BY <1>3, <1>4, <1>5, <2>3
      <4> QED
        BY <4>1 DEF RoleTerms
    <3>2. roleStake'[i][r] = roleStake[i][r]
      <4>1. roleStake \in [ProjectId -> [Role -> Balance]]
        BY DEF TypeOK
      <4> QED
        BY <1>1, <1>2, <2>3, <4>1
    <3> QED
      BY <2>1, <3>1, <3>2
  <2> QED
    BY <2>2, <2>3
<1>8. BondBook'
  BY <1>1, BondReleased DEF Books
<1>9. UnusedEmpty'
  <2>1. \A i \in ProjectId : i \notin DOMAIN projects => i # j
    OBVIOUS
  <2>2. UnusedEmpty /\ UNCHANGED projects
    BY <1>1 DEF Books
  <2> QED
    BY <1>3, <2>1, <2>2 DEF UnusedEmpty
<1>10. BuildersServe'
  <2>1. \A q \in DOMAIN proposals : /\ proposals'[q].project_id = proposals[q].project_id
                                    /\ proposals'[q].attestation = proposals[q].attestation
                                    /\ proposals[q].project_id \in ProjectId
                                    /\ proposals[q].attestation.builder \in Account
    <3>1. \A q \in DOMAIN proposals : proposals[q] \in Proposal
      BY DEF TypeOK
    <3> QED
      BY <1>1, <3>1, StatusOnly DEF Proposal, BuildAttestation
  <2>2. DOMAIN proposals' = DOMAIN proposals
    BY <1>1
  <2> QED
    BY <1>4, <2>1, <2>2 DEF Books, BuildersServe
<1> QED
  BY <1>6, <1>7, <1>8, <1>9, <1>10 DEF Books

\* A step of the enactment loop gives back the bond of what it enacts.
LEMMA EnactBooks ==
    ASSUME TypeOK, TypeOK', PendingExact, Books, Enact
    PROVE  Books'
<1>1. PICK id \in DOMAIN proposals :
             /\ proposals[id].status = Approved(now)
             /\ EnactAppended(id) \/ EnactReverted(id)
             /\ UNCHANGED <<projects, stakeholders, roleStake>>
  BY EnactDecides
<1>2. IsOpen(id) /\ proposals[id].proposer \in Account
  BY <1>1 DEF IsOpen, Approved, TypeOK, Proposal
<1>3. PICK status \in {Enacted, Voting} : proposals' = [proposals EXCEPT ![id].status = status]
  BY <1>1 DEF EnactAppended, EnactReverted
<1>4. /\ DOMAIN proposals' = DOMAIN proposals /\ proposals'[id].status = status
      /\ \A q \in DOMAIN proposals : /\ proposals'[q].proposer = proposals[q].proposer
                                     /\ proposals'[q].bond = proposals[q].bond
                                     /\ proposals'[q].project_id = proposals[q].project_id
                                     /\ proposals'[q].attestation = proposals[q].attestation
                                     /\ q # id => proposals'[q] = proposals[q]
  BY <1>3, StatusOnly
<1>5. UnusedEmpty' /\ BuildersServe'
  BY <1>1, <1>4, ServeKept DEF Books
<1>6. held'["Stake"] = held["Stake"]
  BY <1>1, <1>2 DEF EnactAppended, EnactReverted, Release, TypeOK, HoldReason
<1>7. StakeBook' /\ RoleBook'
  BY <1>1, <1>6, StakeKept DEF Books
<1>8. CASE EnactAppended(id)
  <2>1. /\ proposals' = [proposals EXCEPT ![id].status = Enacted]
        /\ held'["ProposalBond"] =
             [held["ProposalBond"] EXCEPT ![proposals[id].proposer] =
                @ - TakenOffHold("ProposalBond", proposals[id].proposer, proposals[id].bond)]
    BY <1>2, <1>8 DEF EnactAppended, Release, TypeOK, HoldReason
  <2>2. BondBook'
    BY <1>2, <2>1, BondReleased DEF Books
  <2> QED
    BY <1>5, <1>7, <2>2 DEF Books
<1>9. CASE EnactReverted(id)
  <2>1. proposals' = [proposals EXCEPT ![id].status = Voting] /\ UNCHANGED held
    BY <1>9 DEF EnactReverted
  <2>2. \A q \in DOMAIN proposals : IsOpen(q)' <=> IsOpen(q)
    <3>1. proposals'[id].status = Voting
      BY <2>1, StatusOnly
    <3> QED
      BY <1>2, <1>4, <3>1 DEF IsOpen, Voting
  <2>3. BondBook'
    BY <1>4, <2>1, <2>2, BondKept DEF Books
  <2> QED
    BY <1>5, <1>7, <2>3 DEF Books
<1> QED
  BY <1>1, <1>8, <1>9

\* Every step keeps the books balanced.
LEMMA BooksStep == TypeOK /\ PendingExact /\ Books /\ [Next]_vars => Books'
<1> SUFFICES ASSUME TypeOK, PendingExact, Books, [Next]_vars PROVE Books'
  OBVIOUS
<1>0. TypeOK'
  BY TypeStep
<1>1. ASSUME NEW g \in Genesis, ProjectGenesis(g) PROVE Books'
  BY <1>0, <1>1, GenesisBooks
<1>2. ASSUME NEW who \in Account, NEW project_id \in ProjectId, NEW version \in Version,
             NEW attestation \in BuildAttestation, NEW cid \in Cid, NEW signature \in Signature,
             NewRelease(who, project_id, version, attestation, cid, signature)
      PROVE  Books'
  BY <1>0, <1>2, NewReleaseBooks
<1>3. ASSUME NEW who \in Account, NEW id \in ProposalId, NEW choice \in {"aye", "nay"},
             Vote(who, id, choice)
      PROVE  Books'
  BY <1>0, <1>3, VoteBooks
<1>4. ASSUME NEW who \in Account, NEW id \in ProposalId, NEW rebuilt \in Hash,
             SubmitCounterAttestation(who, id, rebuilt)
      PROVE  Books'
  BY <1>0, <1>4, SlashBooks
<1>5. ASSUME NEW id \in ProposalId, CloseExpired(id) PROVE Books'
  <2>1. /\ id \in DOMAIN proposals /\ IsOpen(id)
        /\ proposals' = [proposals EXCEPT ![id].status = Expired]
        /\ UNCHANGED <<projects, stakeholders, roleStake>>
        /\ Release("ProposalBond", proposals[id].proposer, proposals[id].bond)
    BY <1>5 DEF CloseExpired, IsOpen
  <2>2. proposals[id].proposer \in Account
    BY <2>1 DEF TypeOK, Proposal
  <2>3. /\ held'["Stake"] = held["Stake"]
        /\ held'["ProposalBond"] =
             [held["ProposalBond"] EXCEPT ![proposals[id].proposer] =
                @ - TakenOffHold("ProposalBond", proposals[id].proposer, proposals[id].bond)]
    BY <2>1, <2>2 DEF Release, TypeOK, HoldReason
  <2>4. BondBook'
    BY <1>0, <2>1, <2>3, BondReleased DEF Books
  <2>5. StakeBook' /\ RoleBook'
    BY <2>1, <2>3, StakeKept DEF Books
  <2>6. UnusedEmpty' /\ BuildersServe'
    BY <2>1, StatusOnly, ServeKept DEF Books
  <2> QED
    BY <2>4, <2>5, <2>6 DEF Books
<1>6. ASSUME UNCHANGED <<projects, stakeholders, roleStake, proposals, held>> PROVE Books'
  <2>1. BondBook'
    BY <1>6, BondKept DEF Books, IsOpen
  <2>2. StakeBook' /\ RoleBook'
    BY <1>6, StakeKept DEF Books
  <2>3. UnusedEmpty' /\ BuildersServe'
    BY <1>6, ServeKept DEF Books
  <2> QED
    BY <2>1, <2>2, <2>3 DEF Books
<1>7. CASE OnInitialize
  BY <1>6, <1>7 DEF OnInitialize
<1>8. CASE Enact
  BY <1>0, <1>8, EnactBooks
<1>9. CASE UNCHANGED vars
  BY <1>6, <1>9 DEF vars
<1> QED
  BY <1>1, <1>2, <1>3, <1>4, <1>5, <1>7, <1>8, <1>9 DEF Next

\* The books of genesis balance.
LEMMA BooksInit == Init => Books
<1> SUFFICES ASSUME Init PROVE Books
  OBVIOUS
<1>0. TypeOK
  BY TypeInit
<1>1. StakeBook
  <2> SUFFICES ASSUME NEW a \in Account PROVE held["Stake"][a] = SumFunction(StakeTerms(a))
    BY DEF StakeBook
  <2>1. \A j \in ProjectId : StakeTerms(a)[j] = 0
    BY DEF Init, StakeTerms, NotStakeholder
  <2>2. SumFunction(StakeTerms(a)) = 0
    BY <1>0, <2>1, TermTypes, SumZero
  <2> QED
    BY <2>2 DEF Init, CurrencyInit, HoldReason
<1>2. BondBook
  <2> SUFFICES ASSUME NEW a \in Account PROVE held["ProposalBond"][a] = SumFunction(BondTerms(a))
    BY DEF BondBook
  <2>1. \A id \in DOMAIN proposals : BondTerms(a)[id] = 0
    BY DEF Init
  <2>2. SumFunction(BondTerms(a)) = 0
    BY <1>0, <2>1, TermTypes, SumZero
  <2> QED
    BY <2>2 DEF Init, CurrencyInit, HoldReason
<1>3. RoleBook
  <2> SUFFICES ASSUME NEW j \in ProjectId, NEW r \in Role
               PROVE  roleStake[j][r] = SumFunction(RoleTerms(j, r))
    BY DEF RoleBook
  <2>1. \A a \in Account : RoleTerms(j, r)[a] = 0
    BY DEF Init, RoleTerms, NotStakeholder
  <2>2. SumFunction(RoleTerms(j, r)) = 0
    BY <1>0, <2>1, RoleTermTypes, SumZero
  <2> QED
    BY <2>2 DEF Init
<1>4. UnusedEmpty /\ BuildersServe
  BY DEF Init, UnusedEmpty, BuildersServe
<1> QED
  BY <1>1, <1>2, <1>3, <1>4 DEF Books

\* The escrow matches the books for any number of accounts, projects and
\* proposals: although holds are added up per account and every release or burn
\* is best effort, an account's stake hold is the sum of its stakes, its bond
\* hold the sum of its open bonds, and RoleStake the sum of the registry.
THEOREM EscrowAlwaysMatches == Spec => []EscrowMatchesBooks
<1>1. Books => EscrowMatchesBooks
  BY EscrowIsBooks DEF Books
<1> QED
  BY <1>1, BooksInit, BooksStep, TypeCorrect, PendingAlwaysExact, PTL DEF Spec

-----------------------------------------------------------------------------
(* Stake is lost only to a slash *)

\* The step in which a stakeholder's entry changes rejects a proposal it built.
LEMMA LossIsSlash ==
    ASSUME TypeOK, PendingExact, Books, [Next]_vars, NEW j \in DOMAIN projects, NEW a \in Account,
           stakeholders'[j][a] # stakeholders[j][a]
    PROVE  LET lost == stakeholders[j][a].stake - stakeholders'[j][a].stake
               due == projects[j].sigma_neg * stakeholders[j][a].stake
           IN  /\ \E id \in DOMAIN proposals :
                    /\ proposals[id].project_id = j /\ proposals[id].attestation.builder = a
                    /\ IsOpen(id) /\ proposals'[id].status = Rejected
               /\ lost * ACCURACY <= due /\ due < (lost + 1) * ACCURACY
               /\ held'["Stake"] = [held["Stake"] EXCEPT ![a] = @ - lost]
<1>1. ASSUME NEW g \in Genesis, ProjectGenesis(g) PROVE FALSE
  <2>1. nextProjectId # j
    BY VeriGovAssumption DEF TypeOK
  <2> QED
    BY <1>1, <2>1 DEF ProjectGenesis, TypeOK
<1>2. ASSUME NEW who \in Account, NEW project_id \in ProjectId, NEW version \in Version,
             NEW attestation \in BuildAttestation, NEW cid \in Cid, NEW signature \in Signature,
             NewRelease(who, project_id, version, attestation, cid, signature)
      PROVE  FALSE
  BY <1>2 DEF NewRelease
<1>3. ASSUME NEW who \in Account, NEW id \in ProposalId, NEW choice \in {"aye", "nay"},
             Vote(who, id, choice)
      PROVE  FALSE
  BY <1>3 DEF Vote
<1>4. ASSUME NEW who \in Account, NEW id \in ProposalId, NEW rebuilt \in Hash,
             SubmitCounterAttestation(who, id, rebuilt)
      PROVE  LET lost == stakeholders[j][a].stake - stakeholders'[j][a].stake
                 due == projects[j].sigma_neg * stakeholders[j][a].stake
             IN  /\ \E q \in DOMAIN proposals :
                      /\ proposals[q].project_id = j /\ proposals[q].attestation.builder = a
                      /\ IsOpen(q) /\ proposals'[q].status = Rejected
                 /\ lost * ACCURACY <= due /\ due < (lost + 1) * ACCURACY
                 /\ held'["Stake"] = [held["Stake"] EXCEPT ![a] = @ - lost]
  <2>0. PICK i \in DOMAIN projects, b \in Account, lost \in Nat : Slashes(id, i, b, lost)
    BY <1>4, SlashEffect DEF Books
  <2>1. /\ id \in DOMAIN proposals /\ IsOpen(id)
        /\ i = proposals[id].project_id /\ b = proposals[id].attestation.builder
        /\ lost = ToSlash(i, b) /\ lost <= stakeholders[i][b].stake
        /\ stakeholders' = [stakeholders EXCEPT ![i][b].stake = @ - lost]
        /\ held'["Stake"] = [held["Stake"] EXCEPT ![b] = @ - lost]
        /\ proposals' = [proposals EXCEPT ![id].status = Rejected]
    BY <2>0 DEF Slashes
  <2>2. /\ stakeholders \in [ProjectId -> [Account -> Stakeholder]]
        /\ i \in ProjectId /\ j \in ProjectId
        /\ projects[j].sigma_neg \in PerbillParts
    <3>1. stakeholders \in [ProjectId -> [Account -> Stakeholder]]
      BY DEF TypeOK
    <3>2. i \in ProjectId /\ j \in ProjectId
      BY StoredIds
    <3>3. projects[j].sigma_neg \in PerbillParts
      BY DEF TypeOK, ProjectInfo
    <3> QED
      BY <3>1, <3>2, <3>3
  <2>3. i = j /\ b = a
    <3>1. stakeholders' = [stakeholders EXCEPT ![i][b].stake = @ - lost]
      BY <2>1
    <3> QED
      BY <2>2, <3>1
  <2>4. stakeholders[j][a] \in Stakeholder /\ stakeholders[j][a].stake \in Balance
    BY <2>2 DEF Stakeholder
  <2>5. stakeholders'[j][a] = [stakeholders[j][a] EXCEPT !.stake = @ - lost]
    BY <2>1, <2>2, <2>3
  <2>6. stakeholders[j][a].stake - stakeholders'[j][a].stake = lost
    BY <2>4, <2>5 DEF Stakeholder, Balance
  <2>7. /\ lost * ACCURACY <= projects[j].sigma_neg * stakeholders[j][a].stake
        /\ projects[j].sigma_neg * stakeholders[j][a].stake < (lost + 1) * ACCURACY
    BY <2>1, <2>2, <2>3, <2>4, MulFloorBounds DEF ToSlash
  <2>8. proposals'[id].status = Rejected
    <3>1. id \in DOMAIN proposals /\ proposals' = [proposals EXCEPT ![id].status = Rejected]
      BY <2>1
    <3> QED
      BY <3>1, StatusOnly
  <2> QED
    BY <2>1, <2>3, <2>6, <2>7, <2>8
<1>5. ASSUME NEW id \in ProposalId, CloseExpired(id) PROVE FALSE
  BY <1>5 DEF CloseExpired
<1>6. CASE OnInitialize
  BY <1>6 DEF OnInitialize
<1>7. CASE Enact
  BY <1>7 DEF Enact
<1>8. CASE UNCHANGED vars
  BY <1>8 DEF vars
<1> QED
  BY <1>1, <1>2, <1>3, <1>4, <1>5, <1>6, <1>7, <1>8 DEF Next

\* A stakeholder of an existing project loses stake only as the Build Service of
\* an open proposal that the same step rejects, by exactly the rounded-down
\* fraction of its stake in that project; that the best-effort burn finds the
\* whole of it on hold is the stake book.
THEOREM LossOnlyOnRejection == Spec => SlashOnlyOnRejection
<1>1. TypeOK /\ PendingExact /\ Books /\ [Next]_vars =>
        [\A j \in DOMAIN projects, a \in Account :
          stakeholders'[j][a] # stakeholders[j][a] =>
            LET lost == stakeholders[j][a].stake - stakeholders'[j][a].stake
                due == projects[j].sigma_neg * stakeholders[j][a].stake
            IN  /\ \E id \in DOMAIN proposals :
                     /\ proposals[id].project_id = j /\ proposals[id].attestation.builder = a
                     /\ IsOpen(id) /\ proposals'[id].status = Rejected
                /\ lost * ACCURACY <= due /\ due < (lost + 1) * ACCURACY
                /\ held'["Stake"] = [held["Stake"] EXCEPT ![a] = @ - lost]]_vars
  BY LossIsSlash
<1> QED
  BY <1>1, BooksInit, BooksStep, TypeCorrect, PendingAlwaysExact, PTL
     DEF Spec, SlashOnlyOnRejection

-----------------------------------------------------------------------------
(* No money is lost or made *)

\* What an account owns is a sum of naturals.
LEMMA OwnedTypes ==
    ASSUME TypeOK, NEW a \in Account
    PROVE  /\ free \in [Account -> Nat] /\ free[a] \in Nat
           /\ held["Stake"] \in [Account -> Nat] /\ held["Stake"][a] \in Nat
           /\ held["ProposalBond"] \in [Account -> Nat] /\ held["ProposalBond"][a] \in Nat
  BY DEF TypeOK, HoldReason

\* What closing a proposal does to its proposer's balances.
Returned(id) ==
    LET taken == TakenOffHold("ProposalBond", proposals[id].proposer, proposals[id].bond)
    IN  /\ free' = [free EXCEPT ![proposals[id].proposer] = @ + taken]
        /\ held'["ProposalBond"] =
             [held["ProposalBond"] EXCEPT ![proposals[id].proposer] = @ - taken]

\* The proposal that is closed gets its whole bond back, and no other is closed.
LEMMA ClosedReturns ==
    ASSUME TypeOK, BondBook, NEW id \in DOMAIN proposals, IsOpen(id), Returned(id), NEW status,
           proposals' = [proposals EXCEPT ![id].status = status]
    PROVE  /\ BondsBack
           /\ \A a \in Account :
                free'[a] + held'["ProposalBond"][a] = free[a] + held["ProposalBond"][a]
<1>1. PICK p, bond : p = proposals[id].proposer /\ bond = proposals[id].bond
  OBVIOUS
<1>2. p \in Account /\ bond \in Nat /\ TakenOffHold("ProposalBond", p, bond) = bond
  BY <1>1, BondIsHeld
<1>3. /\ free' = [free EXCEPT ![p] = @ + bond]
      /\ held'["ProposalBond"] = [held["ProposalBond"] EXCEPT ![p] = @ - bond]
  BY <1>1, <1>2 DEF Returned
<1>4. \A q \in DOMAIN proposals : q # id => proposals'[q] = proposals[q]
  OBVIOUS
<1>5. BondsBack
  BY <1>1, <1>3, <1>4 DEF BondsBack, IsOpen
<1>6. ASSUME NEW a \in Account
      PROVE  free'[a] + held'["ProposalBond"][a] = free[a] + held["ProposalBond"][a]
  BY <1>2, <1>3, OwnedTypes
<1> QED
  BY <1>5, <1>6

\* A step that moves money only between an account's own balances.
LEMMA NothingBurnt ==
    ASSUME TypeOK, TypeOK', UNCHANGED stakeholders, held'["Stake"] = held["Stake"],
           \A a \in Account :
              free'[a] + held'["ProposalBond"][a] = free[a] + held["ProposalBond"][a]
    PROVE  OnlySlashed
<1>1. ASSUME NEW a \in Account PROVE Owned(a)' = Owned(a)
  <2>1. /\ free[a] \in Nat /\ held["Stake"][a] \in Nat /\ held["ProposalBond"][a] \in Nat
        /\ free'[a] \in Nat /\ held'["ProposalBond"][a] \in Nat
    BY OwnedTypes DEF TypeOK, HoldReason
  <2> QED
    BY <2>1 DEF Owned
<1> QED
  BY <1>1 DEF OnlySlashed

\* project_genesis puts stakes on hold and leaves the other projects alone.
LEMMA GenesisConserves ==
    ASSUME TypeOK, TypeOK', NEW g \in Genesis, ProjectGenesis(g)
    PROVE  BondsBack /\ OnlySlashed
<1>1. nextProjectId \notin DOMAIN projects
  BY VeriGovAssumption DEF TypeOK
<1>2. PICK registry \in [Account -> Stakeholder] : registry = GenesisRegistry(g)
  BY GenesisRegistryType
<1>3. /\ stakeholders' = [stakeholders EXCEPT ![nextProjectId] = registry]
      /\ free' = [a \in Account |-> free[a] - registry[a].stake]
      /\ held' = [held EXCEPT !["Stake"] = [a \in Account |-> @[a] + registry[a].stake]]
      /\ UNCHANGED proposals
  BY <1>2 DEF ProjectGenesis
<1>4. ASSUME NEW a \in Account, NEW j \in DOMAIN projects
      PROVE  stakeholders'[j][a] = stakeholders[j][a]
  <2>1. j \in ProjectId /\ j # nextProjectId
    BY <1>1, StoredIds
  <2>2. stakeholders \in [ProjectId -> [Account -> Stakeholder]]
    BY DEF TypeOK
  <2> QED
    BY <1>3, <2>1, <2>2
<1>5. ASSUME NEW a \in Account PROVE Owned(a)' = Owned(a)
  <2>1. PICK s \in Nat : s = registry[a].stake
    BY DEF Stakeholder, Balance
  <2>2. /\ free'[a] = free[a] - s
        /\ held'["Stake"][a] = held["Stake"][a] + s
        /\ held'["ProposalBond"][a] = held["ProposalBond"][a]
    BY <1>3, <2>1 DEF TypeOK, HoldReason
  <2> QED
    BY <2>1, <2>2, OwnedTypes DEF Owned
<1>6. BondsBack
  BY <1>3 DEF BondsBack, IsOpen
<1> QED
  BY <1>4, <1>5, <1>6 DEF OnlySlashed

\* new_release puts the bond on hold and closes nothing.
LEMMA NewReleaseConserves ==
    ASSUME TypeOK, TypeOK',
           NEW who \in Account, NEW project_id \in ProjectId, NEW version \in Version,
           NEW attestation \in BuildAttestation, NEW cid \in Cid, NEW signature \in Signature,
           NewRelease(who, project_id, version, attestation, cid, signature)
    PROVE  BondsBack /\ OnlySlashed
<1>1. \A q \in DOMAIN proposals : proposals'[q] = proposals[q]
  <2>1. PICK id \in ProposalId : id \notin DOMAIN proposals /\ Voted(id, who, "aye")
    BY NewReleaseIsVoted
  <2> QED
    BY <2>1 DEF Voted
<1>2. BondsBack
  BY <1>1 DEF BondsBack, IsOpen
<1>3. PICK bond : bond = projects[project_id].proposal_bond
  OBVIOUS
<1>4. /\ Hold("ProposalBond", who, bond) /\ UNCHANGED stakeholders
      /\ project_id \in DOMAIN projects
  BY <1>3 DEF NewRelease
<1>5. bond \in Nat
  BY <1>3, <1>4 DEF TypeOK, ProjectInfo, Balance
<1>6. /\ free' = [free EXCEPT ![who] = @ - bond]
      /\ held'["Stake"] = held["Stake"]
      /\ held'["ProposalBond"] = [held["ProposalBond"] EXCEPT ![who] = @ + bond]
  BY <1>4 DEF Hold, TypeOK, HoldReason
<1>7. ASSUME NEW a \in Account
      PROVE  free'[a] + held'["ProposalBond"][a] = free[a] + held["ProposalBond"][a]
  BY <1>5, <1>6, OwnedTypes
<1> QED
  BY <1>2, <1>4, <1>6, <1>7, NothingBurnt

\* submit_counter_attestation gives the bond back and burns what is slashed.
LEMMA SlashConserves ==
    ASSUME TypeOK, TypeOK', Books,
           NEW who \in Account, NEW id \in ProposalId, NEW rebuilt \in Hash,
           SubmitCounterAttestation(who, id, rebuilt)
    PROVE  BondsBack /\ OnlySlashed
<1>1. PICK j \in DOMAIN projects, b \in Account, lost \in Nat : Slashes(id, j, b, lost)
  BY SlashEffect DEF Books
<1>2. /\ id \in DOMAIN proposals /\ IsOpen(id) /\ lost <= stakeholders[j][b].stake
      /\ stakeholders' = [stakeholders EXCEPT ![j][b].stake = @ - lost]
      /\ held'["Stake"] = [held["Stake"] EXCEPT ![b] = @ - lost]
      /\ held'["ProposalBond"] =
           [held["ProposalBond"] EXCEPT ![proposals[id].proposer] =
              @ - TakenOffHold("ProposalBond", proposals[id].proposer, proposals[id].bond)]
      /\ proposals' = [proposals EXCEPT ![id].status = Rejected]
  BY <1>1, Zenon DEF Slashes
<1>3. free' = [free EXCEPT ![proposals[id].proposer] =
                 @ + TakenOffHold("ProposalBond", proposals[id].proposer, proposals[id].bond)]
  BY DEF SubmitCounterAttestation
<1>4. Returned(id)
  BY <1>2, <1>3 DEF Returned
<1>5. /\ BondsBack
      /\ \A a \in Account :
           free'[a] + held'["ProposalBond"][a] = free[a] + held["ProposalBond"][a]
  BY <1>2, <1>4, ClosedReturns DEF Books
<1>6. /\ stakeholders \in [ProjectId -> [Account -> Stakeholder]]
      /\ \A i \in DOMAIN projects : i \in ProjectId
  BY StoredIds DEF TypeOK
<1>7. PICK s \in Nat : s = stakeholders[j][b].stake
  BY <1>6 DEF Stakeholder, Balance
<1>8. stakeholders'[j][b] = [stakeholders[j][b] EXCEPT !.stake = s - lost]
  BY <1>2, <1>6, <1>7
<1>9. ASSUME NEW a \in Account, NEW i \in DOMAIN projects, a # b \/ i # j \/ lost = 0
      PROVE  stakeholders'[i][a] = stakeholders[i][a]
  <2>1. CASE a # b \/ i # j
    BY <1>2, <1>6, <2>1
  <2>2. CASE a = b /\ i = j /\ lost = 0
    <3>1. stakeholders[j][b] \in Stakeholder
      BY <1>6
    <3>2. stakeholders'[j][b] = [stakeholders[j][b] EXCEPT !.stake = s]
      BY <1>7, <1>8, <2>2
    <3> QED
      BY <1>7, <2>2, <3>1, <3>2 DEF Stakeholder
  <2> QED
    BY <1>9, <2>1, <2>2
<1>10. stakeholders[j][b].stake = s /\ stakeholders'[j][b].stake = s - lost
  <2>1. stakeholders[j][b] \in Stakeholder
    BY <1>6
  <2> QED
    BY <1>7, <1>8, <2>1 DEF Stakeholder
<1>11. ASSUME NEW a \in Account, a # b PROVE Owned(a)' = Owned(a)
  <2>1. held'["Stake"][a] = held["Stake"][a]
    BY <1>2, <1>11, OwnedTypes
  <2>2. /\ free[a] \in Nat /\ held["Stake"][a] \in Nat /\ held["ProposalBond"][a] \in Nat
        /\ free'[a] \in Nat /\ held'["ProposalBond"][a] \in Nat
    BY OwnedTypes DEF TypeOK, HoldReason
  <2> QED
    BY <1>5, <2>1, <2>2 DEF Owned
<1>12. Owned(b) - Owned(b)' = lost /\ (lost = 0 => Owned(b)' = Owned(b))
  <2>1. held'["Stake"][b] = held["Stake"][b] - lost
    BY <1>2, OwnedTypes
  <2>2. /\ free[b] \in Nat /\ held["Stake"][b] \in Nat /\ held["ProposalBond"][b] \in Nat
        /\ free'[b] \in Nat /\ held'["ProposalBond"][b] \in Nat
    BY OwnedTypes DEF TypeOK, HoldReason
  <2> QED
    BY <1>5, <2>1, <2>2 DEF Owned
<1>13. OnlySlashed
  <2> SUFFICES ASSUME NEW a \in Account
               PROVE  \/ /\ Owned(a)' = Owned(a)
                         /\ \A i \in DOMAIN projects : stakeholders'[i][a] = stakeholders[i][a]
                      \/ \E i \in DOMAIN projects :
                           /\ stakeholders'[i][a].stake < stakeholders[i][a].stake
                           /\ Owned(a) - Owned(a)'
                                = stakeholders[i][a].stake - stakeholders'[i][a].stake
    BY DEF OnlySlashed
  <2>1. CASE a # b
    BY <1>9, <1>11, <2>1
  <2>2. CASE a = b /\ lost = 0
    BY <1>9, <1>12, <2>2
  <2>3. CASE a = b /\ lost # 0
    <3>1. /\ stakeholders'[j][b].stake < stakeholders[j][b].stake
          /\ Owned(b) - Owned(b)' = stakeholders[j][b].stake - stakeholders'[j][b].stake
      BY <1>10, <1>12, <2>3
    <3> QED
      BY <2>3, <3>1
  <2> QED
    BY <2>1, <2>2, <2>3
<1> QED
  BY <1>5, <1>13

\* A step of the enactment loop gives back the bond of what it enacts.
LEMMA EnactConserves ==
    ASSUME TypeOK, TypeOK', PendingExact, Books, Enact
    PROVE  BondsBack /\ OnlySlashed
<1>1. PICK id \in DOMAIN proposals :
             /\ proposals[id].status = Approved(now)
             /\ EnactAppended(id) \/ EnactReverted(id)
             /\ UNCHANGED stakeholders
  BY EnactDecides
<1>2. IsOpen(id) /\ proposals[id].proposer \in Account
  BY <1>1 DEF IsOpen, Approved, TypeOK, Proposal
<1>3. CASE EnactAppended(id)
  <2>1. /\ proposals' = [proposals EXCEPT ![id].status = Enacted]
        /\ Returned(id) /\ held'["Stake"] = held["Stake"]
    BY <1>2, <1>3 DEF EnactAppended, Release, Returned, TypeOK, HoldReason
  <2> QED
    BY <1>1, <1>2, <2>1, ClosedReturns, NothingBurnt DEF Books
<1>4. CASE EnactReverted(id)
  <2>1. proposals' = [proposals EXCEPT ![id].status = Voting] /\ UNCHANGED <<free, held>>
    BY <1>4 DEF EnactReverted
  <2>2. \A q \in DOMAIN proposals : IsOpen(q) => IsOpen(q)'
    <3>1. /\ proposals'[id].status = Voting
          /\ \A q \in DOMAIN proposals : q # id => proposals'[q] = proposals[q]
      BY <2>1, StatusOnly
    <3> QED
      BY <3>1 DEF IsOpen, Voting
  <2> QED
    BY <1>1, <2>1, <2>2, NothingBurnt DEF BondsBack
<1> QED
  BY <1>1, <1>3, <1>4

\* Every step conserves what the accounts own, but for a slash.
LEMMA FundsStep ==
    ASSUME TypeOK, PendingExact, Books, [Next]_vars
    PROVE  BondsBack /\ OnlySlashed
<1>0. TypeOK'
  BY TypeStep
<1>1. ASSUME NEW g \in Genesis, ProjectGenesis(g) PROVE BondsBack /\ OnlySlashed
  BY <1>0, <1>1, GenesisConserves
<1>2. ASSUME NEW who \in Account, NEW project_id \in ProjectId, NEW version \in Version,
             NEW attestation \in BuildAttestation, NEW cid \in Cid, NEW signature \in Signature,
             NewRelease(who, project_id, version, attestation, cid, signature)
      PROVE  BondsBack /\ OnlySlashed
  BY <1>0, <1>2, NewReleaseConserves
<1>3. ASSUME NEW who \in Account, NEW id \in ProposalId, NEW choice \in {"aye", "nay"},
             Vote(who, id, choice)
      PROVE  BondsBack /\ OnlySlashed
  <2>1. Voted(id, who, choice) /\ UNCHANGED <<free, held>>
    BY <1>3, VoteIsVoted
  <2>2. \A q \in DOMAIN proposals : IsOpen(q) => IsOpen(q)'
    BY <2>1 DEF Voted, IsOpen
  <2>3. UNCHANGED stakeholders
    BY <2>1 DEF Voted
  <2> QED
    BY <1>0, <2>1, <2>2, <2>3, NothingBurnt DEF BondsBack
<1>4. ASSUME NEW who \in Account, NEW id \in ProposalId, NEW rebuilt \in Hash,
             SubmitCounterAttestation(who, id, rebuilt)
      PROVE  BondsBack /\ OnlySlashed
  BY <1>0, <1>4, SlashConserves
<1>5. ASSUME NEW id \in ProposalId, CloseExpired(id) PROVE BondsBack /\ OnlySlashed
  <2>1. /\ id \in DOMAIN proposals /\ IsOpen(id)
        /\ proposals' = [proposals EXCEPT ![id].status = Expired]
        /\ UNCHANGED stakeholders
        /\ Release("ProposalBond", proposals[id].proposer, proposals[id].bond)
    BY <1>5 DEF CloseExpired, IsOpen
  <2>2. proposals[id].proposer \in Account
    BY <2>1 DEF TypeOK, Proposal
  <2>3. Returned(id) /\ held'["Stake"] = held["Stake"]
    BY <2>1, <2>2 DEF Release, Returned, TypeOK, HoldReason
  <2> QED
    BY <1>0, <2>1, <2>3, ClosedReturns, NothingBurnt DEF Books
<1>6. ASSUME UNCHANGED <<stakeholders, proposals, free, held>> PROVE BondsBack /\ OnlySlashed
  BY <1>0, <1>6, NothingBurnt DEF BondsBack, IsOpen
<1>7. CASE OnInitialize
  BY <1>6, <1>7 DEF OnInitialize
<1>8. CASE Enact
  BY <1>0, <1>8, EnactConserves
<1>9. CASE UNCHANGED vars
  BY <1>6, <1>9 DEF vars
<1> QED
  BY <1>1, <1>2, <1>3, <1>4, <1>5, <1>7, <1>8, <1>9 DEF Next

\* Although releases and burns are best effort, a closed proposal's whole bond
\* goes back to its proposer in the same step, and what an account owns changes
\* only by a slash, which burns exactly what its stake falls by: the books hold
\* enough for both whenever they happen.
THEOREM FundsAlwaysConserved == Spec => FundsConserved
<1>1. TypeOK /\ PendingExact /\ Books /\ [Next]_vars => [BondsBack /\ OnlySlashed]_vars
  BY FundsStep
<1> QED
  BY <1>1, BooksInit, BooksStep, TypeCorrect, PendingAlwaysExact, PTL DEF Spec, FundsConserved

-----------------------------------------------------------------------------
(* The running tallies against a recount *)

\* What each account adds to one side of the tally of role r.
VoteTerms(j, id, r, choice) ==
    [a \in Account |-> IF stakeholders[j][a].role = r /\ votes[id][a] = choice
                       THEN stakeholders[j][a].stake ELSE 0]

Recount(j, id, r, choice) == SumFunction(VoteTerms(j, id, r, choice))

\* The tally of a proposal of project j is never below the recount, and equal
\* to it for every role but the Build Services, which may be slashed.
Counted(j, id) ==
    \A r \in Role :
        /\ Recount(j, id, r, "aye") <= tallies[id][r].ayes
        /\ Recount(j, id, r, "nay") <= tallies[id][r].nays
        /\ r # "BuildService" => /\ tallies[id][r].ayes = Recount(j, id, r, "aye")
                                 /\ tallies[id][r].nays = Recount(j, id, r, "nay")

\* Nobody has voted on a proposal that does not exist yet.
FreshUnvoted ==
    \A id \in ProposalId : id \notin DOMAIN proposals =>
        /\ \A a \in Account : votes[id][a] = "none"
        /\ \A r \in Role : tallies[id][r] = [ayes |-> 0, nays |-> 0]

\* The inductive invariant of the tallies.
Counts ==
    /\ FreshUnvoted
    /\ \A id \in DOMAIN proposals, j \in ProjectId :
          proposals[id].project_id = j => Counted(j, id)

\* The terms of a recount are natural numbers over the finitely many accounts.
LEMMA VoteTermTypes ==
    ASSUME TypeOK, NEW j \in ProjectId, NEW id \in ProposalId, NEW r, NEW choice
    PROVE  /\ IsFiniteSet(Account)
           /\ VoteTerms(j, id, r, choice) \in [Account -> Nat]
           /\ Recount(j, id, r, choice) \in Nat
<1>1. VoteTerms(j, id, r, choice) \in [Account -> Nat]
  BY DEF VoteTerms, TypeOK, Stakeholder, Balance
<1> QED
  BY <1>1, AccountAssumption, SumNat DEF Recount

\* No recount exceeds the stake of its role, so none overflows.
LEMMA RecountBounded ==
    ASSUME TypeOK, RoleBook, NEW j \in ProjectId, NEW id \in ProposalId, NEW r \in Role, NEW choice
    PROVE  Recount(j, id, r, choice) <= roleStake[j][r] /\ roleStake[j][r] \in Balance
<1>1. \A a \in Account : VoteTerms(j, id, r, choice)[a] <= RoleTerms(j, r)[a]
  <2>1. \A a \in Account : stakeholders[j][a].stake \in Nat
    BY DEF TypeOK, Stakeholder, Balance
  <2> QED
    BY <2>1 DEF VoteTerms, RoleTerms
<1>2. SumFunction(VoteTerms(j, id, r, choice)) <= SumFunction(RoleTerms(j, r))
  BY <1>1, VoteTermTypes, RoleTermTypes, SumMonotone
<1> QED
  BY <1>2 DEF Recount, RoleBook, TypeOK

\* Recording a vote keeps the tally of the voter's role in step.
LEMMA VoteCounted ==
    ASSUME TypeOK, TypeOK', Books, NEW j \in ProjectId, NEW id \in ProposalId, NEW who \in Account,
           NEW choice \in {"aye", "nay"}, Counted(j, id), stakeholders[j][who].role \in Role,
           UNCHANGED stakeholders, votes' = [votes EXCEPT ![id][who] = choice],
           tallies' = [tallies EXCEPT ![id] = [tallies[id] EXCEPT ![stakeholders[j][who].role] =
                         RecordVote(tallies[id][stakeholders[j][who].role], votes[id][who], choice,
                                    stakeholders[j][who].stake)]]
    PROVE  Counted(j, id)'
<1>1. PICK role \in Role, s \in Balance, prev \in {"none", "aye", "nay"} :
         role = stakeholders[j][who].role /\ s = stakeholders[j][who].stake /\ prev = votes[id][who]
  BY DEF TypeOK, Stakeholder
<1>2. /\ votes'[id][who] = choice
      /\ \A a \in Account : a # who => votes'[id][a] = votes[id][a]
  BY DEF TypeOK
<1>3. /\ tallies'[id][role] = RecordVote(tallies[id][role], prev, choice, s)
      /\ \A r \in Role : r # role => tallies'[id][r] = tallies[id][r]
      /\ tallies[id][role].ayes \in Balance /\ tallies[id][role].nays \in Balance
  BY <1>1 DEF TypeOK, RoleTally
<1>4. ASSUME NEW side \in {"aye", "nay"}, NEW r \in Role, r # role
      PROVE  Recount(j, id, r, side)' = Recount(j, id, r, side)
  <2>1. VoteTerms(j, id, r, side)' = VoteTerms(j, id, r, side)
    BY <1>1, <1>2, <1>4 DEF VoteTerms
  <2> QED
    BY <2>1 DEF Recount
<1>5. ASSUME NEW side \in {"aye", "nay"}
      PROVE  /\ Recount(j, id, role, side) \in Nat /\ Recount(j, id, role, side)' \in Nat
             /\ prev = side => s <= Recount(j, id, role, side)
             /\ Recount(j, id, role, side)' <= MaxU128
             /\ Recount(j, id, role, side)'
                  = (Recount(j, id, role, side) - (IF prev = side THEN s ELSE 0))
                      + (IF choice = side THEN s ELSE 0)
  <2>1. /\ IsFiniteSet(Account)
        /\ VoteTerms(j, id, role, side) \in [Account -> Nat]
        /\ VoteTerms(j, id, role, side)' \in [Account -> Nat]
    <3>1. VoteTerms(j, id, role, side)' \in [Account -> Nat]
      BY DEF VoteTerms, TypeOK, Stakeholder, Balance
    <3> QED
      BY <3>1, VoteTermTypes
  <2>2. /\ VoteTerms(j, id, role, side)[who] = IF prev = side THEN s ELSE 0
        /\ VoteTerms(j, id, role, side)'[who] = IF choice = side THEN s ELSE 0
        /\ \A a \in Account : a # who =>
              VoteTerms(j, id, role, side)'[a] = VoteTerms(j, id, role, side)[a]
    BY <1>1, <1>2 DEF VoteTerms
  <2>3. SumFunction(VoteTerms(j, id, role, side)')
          = (SumFunction(VoteTerms(j, id, role, side)) - VoteTerms(j, id, role, side)[who])
              + VoteTerms(j, id, role, side)'[who]
    BY <2>1, <2>2, SumChange
  <2>4. /\ SumFunction(VoteTerms(j, id, role, side)) \in Nat
        /\ SumFunction(VoteTerms(j, id, role, side)') \in Nat
        /\ VoteTerms(j, id, role, side)[who] <= SumFunction(VoteTerms(j, id, role, side))
    BY <2>1, SumNat
  <2>5. SumFunction(VoteTerms(j, id, role, side)') <= MaxU128
    <3>1. \A a \in Account : VoteTerms(j, id, role, side)'[a] <= RoleTerms(j, role)[a]
      <4>1. \A a \in Account : stakeholders[j][a].stake \in Nat
        BY DEF TypeOK, Stakeholder, Balance
      <4> QED
        BY <4>1 DEF VoteTerms, RoleTerms
    <3>2. SumFunction(VoteTerms(j, id, role, side)') <= SumFunction(RoleTerms(j, role))
      BY <2>1, <3>1, RoleTermTypes, SumMonotone
    <3>3. SumFunction(RoleTerms(j, role)) \in Balance
      BY DEF Books, RoleBook, TypeOK
    <3> QED
      BY <2>4, <3>2, <3>3, PerbillAssumption DEF Balance
  <2> QED
    BY <2>2, <2>3, <2>4, <2>5 DEF Recount
<1>6. PICK ayes \in Balance, nays \in Balance :
         ayes = tallies[id][role].ayes /\ nays = tallies[id][role].nays
  BY <1>3
<1>7. /\ Recount(j, id, role, "aye")' <= tallies'[id][role].ayes
      /\ ayes = Recount(j, id, role, "aye") =>
            tallies'[id][role].ayes = Recount(j, id, role, "aye")'
  <2>1. PICK sum \in Nat, new \in Nat :
           sum = Recount(j, id, role, "aye") /\ new = Recount(j, id, role, "aye")'
    BY <1>5
  <2>2. /\ prev = "aye" => s <= sum
        /\ new <= MaxU128
        /\ new = (sum - (IF prev = "aye" THEN s ELSE 0)) + (IF choice = "aye" THEN s ELSE 0)
    BY <1>5, <2>1
  <2>3. sum <= ayes
    BY <1>6, <2>1 DEF Counted
  <2>4. PICK kept, result :
           /\ kept = IF prev = "aye" THEN SatSub(ayes, s) ELSE ayes
           /\ result = IF choice = "aye" THEN SatAdd(kept, s, MaxU128) ELSE kept
    OBVIOUS
  <2>5. new <= result /\ (ayes = sum => result = new)
    BY <2>2, <2>3, <2>4, PerbillAssumption DEF SatSub, SatAdd, AtMost, Balance
  <2>6. tallies'[id][role].ayes = result
    <3>1. tallies'[id][role].ayes = RecordVote(tallies[id][role], prev, choice, s).ayes
      BY <1>3
    <3> QED
      BY <1>6, <2>4, <3>1 DEF RecordVote
  <2> QED
    BY <2>1, <2>5, <2>6
<1>8. /\ Recount(j, id, role, "nay")' <= tallies'[id][role].nays
      /\ nays = Recount(j, id, role, "nay") =>
            tallies'[id][role].nays = Recount(j, id, role, "nay")'
  <2>1. PICK sum \in Nat, new \in Nat :
           sum = Recount(j, id, role, "nay") /\ new = Recount(j, id, role, "nay")'
    BY <1>5
  <2>2. /\ prev = "nay" => s <= sum
        /\ new <= MaxU128
        /\ new = (sum - (IF prev = "nay" THEN s ELSE 0)) + (IF choice = "nay" THEN s ELSE 0)
    BY <1>5, <2>1
  <2>3. sum <= nays
    BY <1>6, <2>1 DEF Counted
  <2>4. PICK kept, result :
           /\ kept = IF prev = "nay" THEN SatSub(nays, s) ELSE nays
           /\ result = IF choice = "nay" THEN SatAdd(kept, s, MaxU128) ELSE kept
    OBVIOUS
  <2>5. new <= result /\ (nays = sum => result = new)
    BY <2>2, <2>3, <2>4, PerbillAssumption DEF SatSub, SatAdd, AtMost, Balance
  <2>6. tallies'[id][role].nays = result
    <3>1. tallies'[id][role].nays = RecordVote(tallies[id][role], prev, choice, s).nays
      BY <1>3
    <3> QED
      BY <1>6, <2>4, <3>1 DEF RecordVote
  <2> QED
    BY <2>1, <2>5, <2>6
<1> QED
  BY <1>3, <1>4, <1>6, <1>7, <1>8 DEF Counted

\* A step that changes neither the votes and the tally of a proposal nor the
\* registry of its project.
LEMMA CountedKept ==
    ASSUME NEW j, NEW id, Counted(j, id), stakeholders'[j] = stakeholders[j],
           votes'[id] = votes[id], tallies'[id] = tallies[id]
    PROVE  Counted(j, id)'
<1>1. \A r \in Role, choice \in {"aye", "nay"} :
         Recount(j, id, r, choice)' = Recount(j, id, r, choice)
  BY DEF Recount, VoteTerms
<1> QED
  BY <1>1 DEF Counted

\* A proposal nobody has voted on is counted: every recount is zero.
LEMMA FreshCounted ==
    ASSUME TypeOK, NEW j \in ProjectId, NEW id \in ProposalId,
           \A a \in Account : votes[id][a] = "none",
           \A r \in Role : tallies[id][r] = [ayes |-> 0, nays |-> 0]
    PROVE  Counted(j, id)
<1>1. ASSUME NEW r \in Role, NEW choice \in {"aye", "nay"} PROVE Recount(j, id, r, choice) = 0
  <2>1. \A a \in Account : VoteTerms(j, id, r, choice)[a] = 0
    BY DEF VoteTerms
  <2> QED
    BY <2>1, VoteTermTypes, SumZero DEF Recount
<1> QED
  BY <1>1 DEF Counted

\* A vote keeps every proposal counted, whether it is cast on a stored proposal
\* or comes with a new one.
LEMMA VotedCounts ==
    ASSUME TypeOK, TypeOK', Books, Counts,
           NEW id \in ProposalId, NEW who \in Account, NEW choice \in {"aye", "nay"},
           Voted(id, who, choice)
    PROVE  Counts'
<1>1. PICK j \in ProjectId : j = proposals'[id].project_id
  BY StoredIds DEF Voted
<1>2. /\ votes' = [votes EXCEPT ![id][who] = choice]
      /\ tallies' = [tallies EXCEPT ![id] = [tallies[id] EXCEPT ![stakeholders[j][who].role] =
           RecordVote(tallies[id][stakeholders[j][who].role], votes[id][who], choice,
                      stakeholders[j][who].stake)]]
      /\ stakeholders[j][who].role \in Role
      /\ stakeholders' = stakeholders
      /\ DOMAIN proposals' = DOMAIN proposals \cup {id}
      /\ \A q \in DOMAIN proposals : q # id => proposals'[q] = proposals[q]
  BY <1>1 DEF Voted
<1>3. \A q \in ProposalId : q # id => votes'[q] = votes[q] /\ tallies'[q] = tallies[q]
  BY <1>2 DEF TypeOK
<1>4. Counted(j, id)
  <2>1. CASE id \in DOMAIN proposals
    <3>1. proposals'[id].project_id = proposals[id].project_id
      BY <2>1, StatusOnly DEF Voted
    <3> QED
      BY <1>1, <2>1, <3>1 DEF Counts
  <2>2. CASE id \notin DOMAIN proposals
    BY <2>2, FreshCounted DEF Counts, FreshUnvoted
  <2> QED
    BY <2>1, <2>2
<1>5. Counted(j, id)'
  BY <1>2, <1>4, VoteCounted
<1>6. ASSUME NEW q \in DOMAIN proposals, q # id, NEW i \in ProjectId,
             proposals'[q].project_id = i
      PROVE  Counted(i, q)'
  <2>1. Counted(i, q)
    BY <1>2, <1>6 DEF Counts
  <2> QED
    BY <1>2, <1>3, <1>6, <2>1, StoredIds, CountedKept
<1>7. FreshUnvoted'
  BY <1>2, <1>3 DEF Counts, FreshUnvoted
<1>8. \A q \in DOMAIN proposals', i \in ProjectId :
         proposals'[q].project_id = i => Counted(i, q)'
  BY <1>1, <1>2, <1>5, <1>6
<1> QED
  BY <1>7, <1>8 DEF Counts

\* A step that leaves the votes, the tallies and the registries of the existing
\* projects alone keeps every proposal counted.
LEMMA CountsKept ==
    ASSUME TypeOK, Counts, UNCHANGED <<votes, tallies>>,
           DOMAIN proposals' = DOMAIN proposals,
           \A q \in DOMAIN proposals : proposals'[q].project_id = proposals[q].project_id,
           \A j \in DOMAIN projects : stakeholders'[j] = stakeholders[j]
    PROVE  Counts'
<1>1. ASSUME NEW q \in DOMAIN proposals, NEW i \in ProjectId, proposals'[q].project_id = i
      PROVE  Counted(i, q)'
  <2>1. Counted(i, q) /\ i \in DOMAIN projects
    BY <1>1 DEF Counts, TypeOK
  <2> QED
    BY <2>1, CountedKept
<1>2. FreshUnvoted'
  BY DEF Counts, FreshUnvoted
<1> QED
  BY <1>1, <1>2 DEF Counts

\* A slash only lowers the recount of the Build Services.
LEMMA SlashCounts ==
    ASSUME TypeOK, TypeOK', Books, Counts,
           NEW who \in Account, NEW id \in ProposalId, NEW rebuilt \in Hash,
           SubmitCounterAttestation(who, id, rebuilt)
    PROVE  Counts'
<1>0. PICK j \in DOMAIN projects, b \in Account, lost \in Nat : Slashes(id, j, b, lost)
  BY SlashEffect DEF Books
<1>1. /\ id \in DOMAIN proposals
      /\ j = proposals[id].project_id /\ b = proposals[id].attestation.builder
      /\ lost <= stakeholders[j][b].stake
      /\ stakeholders' = [stakeholders EXCEPT ![j][b].stake = @ - lost]
      /\ proposals' = [proposals EXCEPT ![id].status = Rejected]
  BY <1>0 DEF Slashes
<1>2. UNCHANGED <<votes, tallies>>
  BY DEF SubmitCounterAttestation
<1>3. stakeholders[j][b].role = "BuildService"
  BY <1>1 DEF Books, BuildersServe
<1>4. /\ \A i \in ProjectId, a \in Account :
            /\ stakeholders'[i][a].role = stakeholders[i][a].role
            /\ stakeholders'[i][a].stake <= stakeholders[i][a].stake
            /\ stakeholders[i][a].role # "BuildService" =>
                 stakeholders'[i][a].stake = stakeholders[i][a].stake
  <2>1. j \in ProjectId
    BY StoredIds
  <2>2. \A i \in ProjectId, a \in Account : stakeholders[i][a].stake \in Nat
    BY DEF TypeOK, Stakeholder, Balance
  <2>3. stakeholders[j][b] \in Stakeholder
    BY <2>1 DEF TypeOK
  <2>4. stakeholders'[j][b] = [stakeholders[j][b] EXCEPT !.stake = @ - lost]
    BY <1>1, <2>1 DEF TypeOK
  <2>5. /\ stakeholders'[j][b].role = stakeholders[j][b].role
        /\ stakeholders'[j][b].stake = stakeholders[j][b].stake - lost
    BY <2>3, <2>4 DEF Stakeholder
  <2>6. /\ \A i \in ProjectId : i # j => stakeholders'[i] = stakeholders[i]
        /\ \A a \in Account : a # b => stakeholders'[j][a] = stakeholders[j][a]
    <3>1. /\ DOMAIN stakeholders = ProjectId /\ DOMAIN stakeholders[j] = Account
      BY <2>1 DEF TypeOK
    <3>2. stakeholders' = [stakeholders EXCEPT ![j] = [stakeholders[j] EXCEPT ![b] =
                             [stakeholders[j][b] EXCEPT !.stake = @ - lost]]]
      BY <1>1
    <3> QED
      BY <2>1, <3>1, <3>2
  <2> QED
    BY <1>3, <2>1, <2>2, <2>5, <2>6
<1>5. ASSUME NEW i \in ProjectId, NEW q \in ProposalId, NEW r \in Role,
             NEW choice \in {"aye", "nay"}
      PROVE  /\ Recount(i, q, r, choice)' <= Recount(i, q, r, choice)
             /\ Recount(i, q, r, choice)' \in Nat /\ Recount(i, q, r, choice) \in Nat
             /\ r # "BuildService" => Recount(i, q, r, choice)' = Recount(i, q, r, choice)
  <2>1. /\ IsFiniteSet(Account)
        /\ VoteTerms(i, q, r, choice) \in [Account -> Nat]
        /\ VoteTerms(i, q, r, choice)' \in [Account -> Nat]
    <3>1. VoteTerms(i, q, r, choice)' \in [Account -> Nat]
      BY DEF VoteTerms, TypeOK, Stakeholder, Balance
    <3> QED
      BY <3>1, VoteTermTypes
  <2>2. \A a \in Account : VoteTerms(i, q, r, choice)'[a] <= VoteTerms(i, q, r, choice)[a]
    BY <1>2, <1>4 DEF VoteTerms
  <2>3. r # "BuildService" => VoteTerms(i, q, r, choice)' = VoteTerms(i, q, r, choice)
    BY <1>2, <1>4 DEF VoteTerms
  <2>4. SumFunction(VoteTerms(i, q, r, choice)') <= SumFunction(VoteTerms(i, q, r, choice))
    BY <2>1, <2>2, SumMonotone
  <2>5. /\ SumFunction(VoteTerms(i, q, r, choice)') \in Nat
        /\ SumFunction(VoteTerms(i, q, r, choice)) \in Nat
    BY <2>1, SumNat
  <2> QED
    BY <2>3, <2>4, <2>5 DEF Recount
<1>6. ASSUME NEW q \in DOMAIN proposals, NEW i \in ProjectId, proposals'[q].project_id = i
      PROVE  Counted(i, q)'
  <2>1. proposals'[q].project_id = proposals[q].project_id
    BY <1>1, StatusOnly
  <2>2. Counted(i, q) /\ q \in ProposalId
    BY <1>6, <2>1, StoredIds DEF Counts
  <2>3. \A r \in Role : tallies[q][r] \in RoleTally
    BY <2>2 DEF TypeOK
  <2>4. \A r \in Role : tallies[q][r].ayes \in Nat /\ tallies[q][r].nays \in Nat
    BY <2>3, PerbillAssumption DEF RoleTally, Balance
  <2> QED
    BY <1>2, <1>5, <2>2, <2>4 DEF Counted
<1>7. FreshUnvoted' /\ DOMAIN proposals' = DOMAIN proposals
  BY <1>1, <1>2 DEF Counts, FreshUnvoted
<1> QED
  BY <1>6, <1>7 DEF Counts

\* Every step keeps every proposal counted.
LEMMA CountsStep == TypeOK /\ PendingExact /\ Books /\ Counts /\ [Next]_vars => Counts'
<1> SUFFICES ASSUME TypeOK, PendingExact, Books, Counts, [Next]_vars PROVE Counts'
  OBVIOUS
<1>0. TypeOK'
  BY TypeStep
<1>1. ASSUME NEW g \in Genesis, ProjectGenesis(g) PROVE Counts'
  <2>1. /\ UNCHANGED <<votes, tallies, proposals>>
        /\ stakeholders' = [stakeholders EXCEPT ![nextProjectId] = GenesisRegistry(g)]
    BY <1>1 DEF ProjectGenesis
  <2>2. \A j \in DOMAIN projects : stakeholders'[j] = stakeholders[j]
    BY <2>1, StoredIds DEF TypeOK
  <2> QED
    BY <2>1, <2>2, CountsKept
<1>2. ASSUME NEW who \in Account, NEW project_id \in ProjectId, NEW version \in Version,
             NEW attestation \in BuildAttestation, NEW cid \in Cid, NEW signature \in Signature,
             NewRelease(who, project_id, version, attestation, cid, signature)
      PROVE  Counts'
  BY <1>0, <1>2, NewReleaseIsVoted, VotedCounts
<1>3. ASSUME NEW who \in Account, NEW id \in ProposalId, NEW choice \in {"aye", "nay"},
             Vote(who, id, choice)
      PROVE  Counts'
  BY <1>0, <1>3, VoteIsVoted, VotedCounts
<1>4. ASSUME NEW who \in Account, NEW id \in ProposalId, NEW rebuilt \in Hash,
             SubmitCounterAttestation(who, id, rebuilt)
      PROVE  Counts'
  BY <1>0, <1>4, SlashCounts
<1>5. ASSUME NEW id \in ProposalId, CloseExpired(id) PROVE Counts'
  <2>1. /\ id \in DOMAIN proposals
        /\ proposals' = [proposals EXCEPT ![id].status = Expired]
        /\ UNCHANGED <<votes, tallies, stakeholders>>
    BY <1>5 DEF CloseExpired
  <2> QED
    BY <2>1, StatusOnly, CountsKept
<1>6. ASSUME UNCHANGED <<stakeholders, proposals, votes, tallies>> PROVE Counts'
  BY <1>6, CountsKept
<1>7. CASE OnInitialize
  BY <1>6, <1>7 DEF OnInitialize
<1>8. CASE Enact
  <2>1. PICK id \in DOMAIN proposals :
             /\ EnactAppended(id) \/ EnactReverted(id)
             /\ UNCHANGED <<stakeholders, votes, tallies>>
    BY <1>8, EnactDecides
  <2>2. PICK status : proposals' = [proposals EXCEPT ![id].status = status]
    BY <2>1 DEF EnactAppended, EnactReverted
  <2> QED
    BY <2>1, <2>2, StatusOnly, CountsKept
<1>9. CASE UNCHANGED vars
  BY <1>6, <1>9 DEF vars
<1> QED
  BY <1>1, <1>2, <1>3, <1>4, <1>5, <1>7, <1>8, <1>9 DEF Next

\* The tallies start at zero.
LEMMA CountsInit == Init => Counts
  BY DEF Init, Counts, FreshUnvoted

\* The invariants of the pallet that the tallies rest on and add.
LEMMA CountsAlways == Spec => [](TypeOK /\ Books /\ Counts)
  BY CountsInit, CountsStep, BooksInit, BooksStep, TypeCorrect, PendingAlwaysExact, PTL DEF Spec

\* do_vote keeps incremental tallies with saturating arithmetic; for every role
\* that cannot be slashed they equal a recount of the votes over the registry.
THEOREM TalliesAlwaysRecount == Spec => []TalliesRecount
<1>1. TypeOK /\ Counts => TalliesRecount
  <2> SUFFICES ASSUME TypeOK, Counts, NEW id \in DOMAIN proposals,
                      NEW r \in Role \ {"BuildService"}
               PROVE  tallies[id][r] = [ayes |-> StakeVoting(id, r, "aye"),
                                        nays |-> StakeVoting(id, r, "nay")]
    BY DEF TalliesRecount
  <2>1. tallies[id][r] \in RoleTally
    BY StoredIds DEF TypeOK
  <2>2. /\ StakeVoting(id, r, "aye") = Recount(proposals[id].project_id, id, r, "aye")
        /\ StakeVoting(id, r, "nay") = Recount(proposals[id].project_id, id, r, "nay")
    BY DEF StakeVoting, Recount, VoteTerms
  <2>3. /\ tallies[id][r].ayes = StakeVoting(id, r, "aye")
        /\ tallies[id][r].nays = StakeVoting(id, r, "nay")
    BY <2>2, StoredIds DEF Counts, Counted, TypeOK
  <2> QED
    BY <2>1, <2>3 DEF RoleTally
<1> QED
  BY <1>1, CountsAlways, PTL

\* A slash leaves the tallies alone, so they may overstate a Build Service's
\* weight, but no role's tally is ever below a recount.
THEOREM TalliesAlwaysCover == Spec => []TalliesCoverVotes
<1>1. TypeOK /\ Counts => TalliesCoverVotes
  <2> SUFFICES ASSUME TypeOK, Counts, NEW id \in DOMAIN proposals, NEW r \in Role
               PROVE  /\ tallies[id][r].ayes >= StakeVoting(id, r, "aye")
                      /\ tallies[id][r].nays >= StakeVoting(id, r, "nay")
    BY DEF TalliesCoverVotes
  <2>1. PICK j \in ProjectId : j = proposals[id].project_id
    BY StoredIds DEF TypeOK
  <2>2. /\ StakeVoting(id, r, "aye") = Recount(j, id, r, "aye")
        /\ StakeVoting(id, r, "nay") = Recount(j, id, r, "nay")
    BY <2>1 DEF StakeVoting, Recount, VoteTerms
  <2>3. /\ Recount(j, id, r, "aye") <= tallies[id][r].ayes
        /\ Recount(j, id, r, "nay") <= tallies[id][r].nays
    BY <2>1 DEF Counts, Counted
  <2>4. tallies[id][r].ayes \in Nat /\ tallies[id][r].nays \in Nat
    BY StoredIds DEF TypeOK, RoleTally, Balance
  <2>5. Recount(j, id, r, "aye") \in Nat /\ Recount(j, id, r, "nay") \in Nat
    BY <2>1, StoredIds, VoteTermTypes
  <2> QED
    BY <2>2, <2>3, <2>4, <2>5
<1> QED
  BY <1>1, CountsAlways, PTL

-----------------------------------------------------------------------------
(* Eq. 1 *)

\* What the genesis calls must respect for Eq. 1 to be decided exactly: no
\* policy requires the role that can be slashed, and the stake of a role leaves
\* u128 room for the cross-multiplication.
PlainPolicies ==
    \A g \in Genesis : \A rq \in g.policy.required_roles : rq.role # "BuildService"
StakeLeavesRoom ==
    \A g \in Genesis, r \in Role : GenesisRoleStake(g, r) * ACCURACY <= MaxU128

\* The stored projects respect it too.
Exact ==
    \A j \in DOMAIN projects :
        NoBuilderVote(j) /\ \A r \in Role : roleStake[j][r] * ACCURACY <= MaxU128

\* With that room the saturating comparison is the comparison of the ratios.
LEMMA RoleQuorumExact ==
    ASSUME NEW ayes \in Nat, NEW total \in Nat, NEW quorum \in PerbillParts,
           ayes <= total, total * ACCURACY <= MaxU128
    PROVE  RoleQuorumMet(ayes, total, quorum)
             <=> total > 0 /\ ayes * ACCURACY >= quorum * total
<1>1. ACCURACY \in Nat /\ MaxU128 \in Nat /\ quorum \in Nat /\ quorum <= ACCURACY
  BY PerbillAssumption DEF PerbillParts
<1>2. ayes * ACCURACY <= total * ACCURACY /\ ayes * ACCURACY \in Nat
  BY <1>1
<1>3. quorum * total <= ACCURACY * total /\ quorum * total \in Nat /\ ACCURACY * total = total * ACCURACY
  BY <1>1
<1>4. PICK x \in Nat, y \in Nat, z \in Nat :
         x = ayes * ACCURACY /\ y = quorum * total /\ z = total * ACCURACY
  BY <1>1, <1>2, <1>3
<1>5. x <= MaxU128 /\ y <= MaxU128
  BY <1>1, <1>2, <1>3, <1>4
<1>6. SatMul(ayes, ACCURACY) = ayes * ACCURACY /\ SatMul(quorum, total) = quorum * total
  BY <1>4, <1>5 DEF SatMul, AtMost
<1> QED
  BY <1>6 DEF RoleQuorumMet

\* Every step keeps the stored projects within the hypotheses: a policy never
\* changes, and the stake of a role only shrinks after genesis.
LEMMA ExactStep ==
    ASSUME PlainPolicies, StakeLeavesRoom
    PROVE  TypeOK /\ Books /\ Exact /\ [Next]_vars => Exact'
<1> SUFFICES ASSUME TypeOK, Books, Exact, [Next]_vars PROVE Exact'
  OBVIOUS
<1>0. TypeOK'
  BY TypeStep
<1>1. ASSUME NEW g \in Genesis, ProjectGenesis(g) PROVE Exact'
  <2>1. PICK n \in ProjectId : /\ n = nextProjectId /\ n \notin DOMAIN projects
                               /\ DOMAIN projects' = DOMAIN projects \cup {n}
    BY <1>1, VeriGovAssumption DEF ProjectGenesis, TypeOK, ProjectId, Insert
  <2>2. /\ projects'[n].policy = g.policy
        /\ \A j \in DOMAIN projects : projects'[j] = projects[j]
    BY <1>1, <2>1 DEF ProjectGenesis, Insert
  <2>3. /\ \A r \in Role : roleStake'[n][r] = GenesisRoleStake(g, r)
        /\ \A j \in DOMAIN projects : roleStake'[j] = roleStake[j]
    BY <1>1, <2>1, StoredIds DEF ProjectGenesis, TypeOK
  <2> QED
    BY <2>1, <2>2, <2>3 DEF Exact, NoBuilderVote, PlainPolicies, StakeLeavesRoom
<1>2. ASSUME NEW who \in Account, NEW id \in ProposalId, NEW rebuilt \in Hash,
             SubmitCounterAttestation(who, id, rebuilt)
      PROVE  Exact'
  <2>0. StakeBook
    BY DEF Books
  <2>6. PICK j \in DOMAIN projects, b \in Account, lost \in Nat : Slashes(id, j, b, lost)
    BY <1>2, <2>0, SlashEffect
  <2>1. roleStake' = [roleStake EXCEPT ![j]["BuildService"] = SatSub(@, lost)]
    BY <2>6 DEF Slashes
  <2>2. UNCHANGED projects
    BY <1>2 DEF SubmitCounterAttestation
  <2>3. \A i \in ProjectId, r \in Role : roleStake[i][r] \in Nat /\ roleStake'[i][r] \in Nat
    BY <1>0 DEF TypeOK, Balance
  <2>4. ASSUME NEW i \in DOMAIN projects, NEW r \in Role
        PROVE  roleStake'[i][r] <= roleStake[i][r]
    <3>1. i \in ProjectId /\ j \in ProjectId /\ "BuildService" \in Role
      BY StoredIds DEF Role
    <3>2. DOMAIN roleStake = ProjectId /\ DOMAIN roleStake[j] = Role
      BY <3>1 DEF TypeOK
    <3>3. roleStake' = [roleStake EXCEPT ![j] = [roleStake[j] EXCEPT !["BuildService"] =
                          SatSub(roleStake[j]["BuildService"], lost)]]
      BY <2>1
    <3>4. \/ roleStake'[i][r] = roleStake[i][r]
          \/ roleStake'[i][r] = SatSub(roleStake[i][r], lost)
      BY <3>1, <3>2, <3>3
    <3> QED
      BY <2>3, <3>1, <3>4 DEF SatSub
  <2>5. ASSUME NEW i \in DOMAIN projects, NEW r \in Role
        PROVE  roleStake'[i][r] * ACCURACY <= MaxU128
    <3>1. PICK x \in Nat, y \in Nat : x = roleStake'[i][r] /\ y = roleStake[i][r] /\ x <= y
      BY <2>3, <2>4, StoredIds
    <3>2. y * ACCURACY <= MaxU128
      BY <3>1 DEF Exact
    <3>3. x * ACCURACY <= y * ACCURACY
      BY <3>1, PerbillAssumption
    <3>4. x * ACCURACY \in Nat /\ y * ACCURACY \in Nat
      BY PerbillAssumption
    <3> QED
      BY <3>1, <3>2, <3>3, <3>4, PerbillAssumption
  <2> QED
    BY <2>2, <2>5 DEF Exact, NoBuilderVote
<1>3. ASSUME UNCHANGED <<projects, roleStake>> PROVE Exact'
  BY <1>3 DEF Exact, NoBuilderVote
<1>4. \/ \E g \in Genesis : ProjectGenesis(g)
      \/ \E who \in Account, id \in ProposalId, rebuilt \in Hash :
            SubmitCounterAttestation(who, id, rebuilt)
      \/ UNCHANGED <<projects, roleStake>>
  <2>1. ASSUME NEW who, NEW project_id, NEW version, NEW attestation, NEW cid, NEW signature,
               NewRelease(who, project_id, version, attestation, cid, signature)
        PROVE  UNCHANGED <<projects, roleStake>>
    BY <2>1 DEF NewRelease
  <2>2. ASSUME NEW who, NEW id, NEW choice, Vote(who, id, choice)
        PROVE  UNCHANGED <<projects, roleStake>>
    BY <2>2 DEF Vote
  <2>3. ASSUME NEW id, CloseExpired(id) PROVE UNCHANGED <<projects, roleStake>>
    BY <2>3 DEF CloseExpired
  <2>4. OnInitialize \/ Enact \/ UNCHANGED vars => UNCHANGED <<projects, roleStake>>
    BY DEF OnInitialize, Enact, vars
  <2> QED
    BY <2>1, <2>2, <2>3, <2>4 DEF Next
<1> QED
  BY <1>1, <1>2, <1>3, <1>4

\* Then the pallet's quorum test is Eq. 1.
LEMMA QuorumsAreEqOne ==
    ASSUME TypeOK, Books, Counts, Exact, NEW id \in DOMAIN proposals
    PROVE  QuorumsMet(id) <=> EqOne(id)
<1>1. PICK j \in DOMAIN projects : j = proposals[id].project_id
  BY DEF TypeOK
<1>2. j \in ProjectId /\ id \in ProposalId
  BY StoredIds
<1>3. \A rq \in projects[j].policy.required_roles :
         rq.role \in Role /\ rq.role # "BuildService" /\ rq.quorum \in PerbillParts
  <2>1. projects[j] \in ProjectInfo
    BY DEF TypeOK
  <2>2. projects[j].policy.required_roles \in SUBSET RoleQuorum
    BY <2>1 DEF ProjectInfo, ReleasePolicy
  <2> QED
    BY <2>2 DEF RoleQuorum, Exact, NoBuilderVote
<1>4. ASSUME NEW r \in Role, r # "BuildService", NEW quorum \in PerbillParts
      PROVE  RoleQuorumMet(tallies[id][r].ayes, roleStake[j][r], quorum) <=>
               /\ StakeOfRole(j, r) > 0
               /\ StakeVoting(id, r, "aye") * ACCURACY >= quorum * StakeOfRole(j, r)
  <2>1. PICK total \in Nat : total = StakeOfRole(j, r) /\ total = roleStake[j][r]
    <3>1. roleStake[j][r] = StakeOfRole(j, r)
      BY <1>2 DEF Books, RoleBook, RoleTerms, StakeOfRole
    <3> QED
      BY <1>2, <3>1 DEF TypeOK, Balance
  <2>2. PICK ayes \in Nat : ayes = StakeVoting(id, r, "aye") /\ ayes = tallies[id][r].ayes
                            /\ ayes <= total
    <3>1. StakeVoting(id, r, "aye") = Recount(j, id, r, "aye")
      BY <1>1 DEF StakeVoting, Recount, VoteTerms
    <3>2. tallies[id][r].ayes = Recount(j, id, r, "aye")
      BY <1>1, <1>2, <1>4 DEF Counts, Counted
    <3>3. Recount(j, id, r, "aye") \in Nat /\ Recount(j, id, r, "aye") <= roleStake[j][r]
      BY <1>2, VoteTermTypes, RecountBounded DEF Books
    <3> QED
      BY <2>1, <3>1, <3>2, <3>3
  <2>3. total * ACCURACY <= MaxU128
    BY <2>1 DEF Exact
  <2> QED
    BY <2>1, <2>2, <2>3, RoleQuorumExact
<1> QED
  BY <1>1, <1>3, <1>4 DEF QuorumsMet, MeetsQuorums, EqOne

\* "A proposal is accepted iff" Eq. 1 holds, for projects whose policy requires
\* no Build Service vote and whose stakes leave room for the multiplication.
THEOREM AcceptedExactly ==
    ASSUME PlainPolicies, StakeLeavesRoom
    PROVE  Spec => []AcceptedIffEqOne
<1>1. Init => Exact
  BY DEF Init, Exact
<1>2. TypeOK /\ Books /\ Counts /\ Exact /\ StatusTracksQuorums => AcceptedIffEqOne
  <2> SUFFICES ASSUME TypeOK, Books, Counts, Exact, StatusTracksQuorums,
                      NEW id \in DOMAIN proposals
               PROVE  /\ proposals[id].status.tag \in {"Approved", "Enacted"} => EqOne(id)
                      /\ proposals[id].status.tag \in {"Voting", "Expired"} => ~EqOne(id)
    BY DEF AcceptedIffEqOne
  <2>1. NoBuilderVote(proposals[id].project_id)
    BY DEF Exact, TypeOK
  <2>2. /\ proposals[id].status.tag \in {"Approved", "Enacted"} => QuorumsMet(id)
        /\ proposals[id].status.tag \in {"Voting", "Expired"} => ~QuorumsMet(id)
    BY <2>1 DEF StatusTracksQuorums, QuorumsMet, NoBuilderVote
  <2> QED
    BY <2>2, QuorumsAreEqOne
<1>3. TypeOK /\ Books /\ Exact /\ [Next]_vars => Exact'
  BY ExactStep
<1> QED
  BY <1>1, <1>2, <1>3, CountsAlways, StatusAlwaysTracks, PTL DEF Spec
=============================================================================
