---------------------------- MODULE LedgerProofs ----------------------------
(***************************************************************************)
(* The pallet implements the abstract release ledger, and the Official     *)
(* Release Log agrees with the proposals it was built from.                *)
(***************************************************************************)
EXTENDS BooksProofs, VeriGovLedger

-----------------------------------------------------------------------------
(* The steps of the pallet as steps of the ledger *)

\* The genesis calls ask for an enactment delay of at least one block.
PositiveDelays == \A g \in Genesis : g.policy.enactment_delay > 0

\* So the delay of every stored project is positive.
Delayed == \A j \in DOMAIN projects : projects[j].policy.enactment_delay > 0

\* Outside the enactment loop an approved proposal is due at a later block.
LEMMA DueLater ==
    ASSUME TypeOK, NoMissedEnactment, Delayed, enacting = <<>>,
           NEW id \in DOMAIN proposals, proposals[id].status.tag = "Approved"
    PROVE  now < proposals[id].status.enact_at
<1>1. projects[proposals[id].project_id].policy.enactment_delay > 0
  BY DEF Delayed, TypeOK
<1>2. ~ Occurs(id, enacting)
  BY DEF Occurs
<1> QED
  BY <1>1, <1>2 DEF NoMissedEnactment

\* So it is after a vote or a new proposal.
LEMMA ScheduledLater ==
    ASSUME TypeOK', NoMissedEnactment', Delayed', enacting' = <<>>,
           NEW id \in DOMAIN proposals', proposals'[id].status.tag = "Approved"
    PROVE  now' < proposals'[id].status.enact_at
<1>1. projects'[proposals'[id].project_id].policy.enactment_delay > 0
  BY DEF Delayed, TypeOK
<1>2. ~ Occurs(id, enacting)'
  BY DEF Occurs
<1> QED
  BY <1>1, <1>2 DEF NoMissedEnactment

\* A change of a proposal's status is a change of phase and due time.
LEMMA StatusInLedger ==
    ASSUME TypeOK, NEW id \in DOMAIN proposals, NEW status \in ProposalStatus,
           proposals' = [proposals EXCEPT ![id].status = status]
    PROVE  /\ id \in DOMAIN ledgerBar
           /\ Ledger!SetPhase(id, status.tag, status.enact_at)
           /\ Ledger!Phase(id) = proposals[id].status.tag
           /\ ledgerBar[id].due = proposals[id].status.enact_at
<1>1. /\ DOMAIN ledgerBar = DOMAIN proposals
      /\ ledgerBar[id].phase = proposals[id].status.tag
      /\ ledgerBar[id].due = proposals[id].status.enact_at
  BY DEF ledgerBar
<1>2. proposals[id] \in Proposal /\ DOMAIN proposals' = DOMAIN proposals
  BY DEF TypeOK
<1>3. /\ proposals'[id].project_id = proposals[id].project_id
      /\ ProposedArtifact(proposals'[id]) = ProposedArtifact(proposals[id])
      /\ proposals'[id].status = status
      /\ \A q \in DOMAIN proposals : q # id => proposals'[q] = proposals[q]
  BY <1>2 DEF Proposal, ProposedArtifact
<1>4. /\ DOMAIN ledgerBar' = DOMAIN proposals
      /\ \A q \in DOMAIN proposals : q # id => ledgerBar'[q] = ledgerBar[q]
      /\ ledgerBar'[id] = [project |-> proposals[id].project_id,
                           artifact |-> ProposedArtifact(proposals[id]),
                           phase |-> status.tag, due |-> status.enact_at]
      /\ ledgerBar' = [q \in DOMAIN proposals |-> ledgerBar'[q]]
  BY <1>2, <1>3 DEF ledgerBar
<1>5. PICK L : L = [ledgerBar EXCEPT ![id].phase = status.tag, ![id].due = status.enact_at]
  OBVIOUS
<1>6. /\ DOMAIN L = DOMAIN proposals
      /\ \A q \in DOMAIN proposals : q # id => L[q] = ledgerBar[q]
      /\ L = [q \in DOMAIN proposals |-> L[q]]
  BY <1>1, <1>5
<1>7. L[id] = [project |-> proposals[id].project_id, artifact |-> ProposedArtifact(proposals[id]),
               phase |-> status.tag, due |-> status.enact_at]
  <2>1. ledgerBar[id] = [project |-> proposals[id].project_id,
                         artifact |-> ProposedArtifact(proposals[id]),
                         phase |-> proposals[id].status.tag, due |-> proposals[id].status.enact_at]
    BY DEF ledgerBar
  <2>2. PICK M : M = [ledgerBar[id] EXCEPT !.phase = status.tag]
    OBVIOUS
  <2>3. L[id] = [M EXCEPT !.due = status.enact_at]
    BY <1>1, <1>5, <2>2
  <2>4. M = [project |-> proposals[id].project_id, artifact |-> ProposedArtifact(proposals[id]),
             phase |-> status.tag, due |-> proposals[id].status.enact_at]
    BY <2>1, <2>2
  <2> QED
    BY <2>3, <2>4
<1>8. ledgerBar' = L
  BY <1>4, <1>6, <1>7
<1> QED
  BY <1>1, <1>5, <1>8 DEF Ledger!SetPhase, Ledger!Phase

\* The log does not change where ReleaseLog does not.
LEMMA LogInLedger ==
    ASSUME UNCHANGED releaseLog
    PROVE  logBar' = logBar
  BY DEF logBar

\* What do_vote may do to the status: nothing, approve a proposal that is
\* voting, or take an approval back.
LEMMA DoVoteMoves ==
    ASSUME TypeOK, NEW id \in DOMAIN proposals, NEW who, NEW choice,
           DoVote(proposals, id, who, choice)
    PROVE  \/ UNCHANGED proposals
           \/ /\ proposals[id].status.tag = "Voting"
              /\ \E b \in Block : proposals' = [proposals EXCEPT ![id].status = Approved(b)]
           \/ /\ proposals[id].status.tag = "Approved"
              /\ proposals' = [proposals EXCEPT ![id].status = Voting]
<1>1. \/ proposals[id].status.tag = "Voting" /\ Approve(proposals, id)
      \/ proposals[id].status.tag = "Approved" /\ Revoke(proposals, id)
      \/ UNCHANGED proposals
  BY DEF DoVote
<1>2. ASSUME Approve(proposals, id)
      PROVE  \E b \in Block : proposals' = [proposals EXCEPT ![id].status = Approved(b)]
  <2>1. PICK b : /\ b = EnactAt(proposals[id].project_id)
                 /\ proposals' = [proposals EXCEPT ![id].status = Approved(b)]
    BY <1>2 DEF Approve
  <2>2. proposals[id].project_id \in DOMAIN projects
    BY DEF TypeOK
  <2>3. b \in Block
    <3>1. now \in 0..MaxBlock
      BY StoredIds
    <3>2. projects[proposals[id].project_id] \in ProjectInfo
      BY <2>2 DEF TypeOK
    <3>3. projects[proposals[id].project_id].policy.enactment_delay \in 0..MaxBlock
      BY <3>2 DEF Block, ProjectInfo, ReleasePolicy
    <3> QED
      BY <2>1, <3>1, <3>3, SatAddType, VeriGovAssumption DEF EnactAt, Block
  <2> QED
    BY <2>1, <2>3
<1>3. ASSUME Revoke(proposals, id)
      PROVE  proposals' = [proposals EXCEPT ![id].status = Voting]
  BY <1>3 DEF Revoke
<1> QED
  BY <1>1, <1>2, <1>3

\* The statuses are what their tags say.
LEMMA ApprovedStatus ==
    ASSUME NEW b \in Block
    PROVE  \E s \in ProposalStatus : s = Approved(b) /\ s.tag = "Approved" /\ s.enact_at = b
<1>1. Approved(b) \in ProposalStatus
  BY DEF ProposalStatus, Approved
<1>2. Approved(b).tag = "Approved" /\ Approved(b).enact_at = b
  BY DEF Approved
<1> QED
  BY <1>1, <1>2

\* The other statuses carry no block.
LEMMA PlainStatus ==
    ASSUME NEW tag \in {"Voting", "Enacted", "Rejected", "Expired"}
    PROVE  \E s \in ProposalStatus :
              s = [tag |-> tag, enact_at |-> 0] /\ s.tag = tag /\ s.enact_at = 0
<1>1. [tag |-> tag, enact_at |-> 0] \in ProposalStatus
  BY VeriGovAssumption DEF ProposalStatus, Block
<1> QED
  BY <1>1

\* The extrinsic `vote` schedules a proposal, reopens it, or is no step of the ledger.
LEMMA VoteRefines ==
    ASSUME TypeOK, TypeOK', NoMissedEnactment', Delayed',
           NEW who \in Account, NEW id \in ProposalId, NEW choice \in {"aye", "nay"},
           Vote(who, id, choice)
    PROVE  Ledger!LedgerNext \/ UNCHANGED Ledger!ledgerVars
<1>1. /\ id \in DOMAIN proposals /\ DoVote(proposals, id, who, choice)
      /\ UNCHANGED now /\ logBar' = logBar
  BY LogInLedger DEF Vote
<1>2. CASE UNCHANGED proposals
  <2>1. ledgerBar' = ledgerBar
    BY <1>2 DEF ledgerBar
  <2> QED
    BY <1>1, <2>1 DEF Ledger!ledgerVars
<1>3. ASSUME proposals[id].status.tag = "Voting", NEW b \in Block,
             proposals' = [proposals EXCEPT ![id].status = Approved(b)]
      PROVE  Ledger!LedgerNext
  <2>1. /\ id \in DOMAIN ledgerBar /\ Ledger!SetPhase(id, "Approved", b)
        /\ Ledger!Phase(id) = "Voting"
    <3>1. PICK s \in ProposalStatus : s = Approved(b) /\ s.tag = "Approved" /\ s.enact_at = b
      BY ApprovedStatus
    <3>2. proposals' = [proposals EXCEPT ![id].status = s]
      BY <1>3, <3>1
    <3>3. /\ id \in DOMAIN ledgerBar /\ Ledger!SetPhase(id, s.tag, s.enact_at)
          /\ Ledger!Phase(id) = "Voting"
      BY <1>1, <1>3, <3>2, StatusInLedger
    <3> QED
      BY <3>1, <3>3 DEF Ledger!SetPhase
  <2>2. now < b
    <3>1. /\ id \in DOMAIN proposals' /\ proposals'[id].status = Approved(b)
          /\ now' = now /\ enacting' = <<>>
      BY <1>1, <1>3, StatusOnly DEF Vote
    <3>2. proposals'[id].status.tag = "Approved" /\ proposals'[id].status.enact_at = b
      BY <3>1 DEF Approved
    <3> QED
      BY <3>1, <3>2, ScheduledLater
  <2> QED
    BY <1>1, <2>1, <2>2 DEF Ledger!LedgerNext, Ledger!Schedule
<1>4. ASSUME proposals[id].status.tag = "Approved",
             proposals' = [proposals EXCEPT ![id].status = Voting]
      PROVE  Ledger!LedgerNext
  <2>1. /\ id \in DOMAIN ledgerBar /\ Ledger!SetPhase(id, "Voting", 0)
        /\ Ledger!Phase(id) = "Approved"
    <3>1. PICK s \in ProposalStatus : s = Voting /\ s.tag = "Voting" /\ s.enact_at = 0
      BY PlainStatus DEF Voting
    <3>2. proposals' = [proposals EXCEPT ![id].status = s]
      BY <1>4, <3>1
    <3>3. /\ id \in DOMAIN ledgerBar /\ Ledger!SetPhase(id, s.tag, s.enact_at)
          /\ Ledger!Phase(id) = "Approved"
      BY <1>1, <1>4, <3>2, StatusInLedger
    <3> QED
      BY <3>1, <3>3 DEF Ledger!SetPhase
  <2> QED
    BY <1>1, <2>1 DEF Ledger!LedgerNext, Ledger!Reopen
<1> QED
  BY <1>1, <1>2, <1>3, <1>4, DoVoteMoves

\* `new_release` puts a proposal on the ledger, open or already scheduled.
LEMMA NewReleaseRefines ==
    ASSUME TypeOK, TypeOK', NoMissedEnactment', Delayed',
           NEW who \in Account, NEW project_id \in ProjectId, NEW version \in Version,
           NEW attestation \in BuildAttestation, NEW cid \in Cid, NEW signature \in Signature,
           NewRelease(who, project_id, version, attestation, cid, signature)
    PROVE  Ledger!LedgerNext
<1>1. PICK id \in ProposalId :
              /\ id = nextProposalId /\ id \notin DOMAIN proposals
              /\ Voted(id, who, "aye")
              /\ proposals'[id] \in Proposal
              /\ proposals'[id].project_id = project_id
              /\ proposals'[id].proposer = who
              /\ proposals'[id].attestation = attestation
              /\ proposals'[id].bond = projects[project_id].proposal_bond
              /\ UNCHANGED <<nextProjectId, enacting>>
  BY NewReleaseIsVoted
<1>2. /\ DOMAIN proposals' = DOMAIN proposals \cup {id}
      /\ \A q \in DOMAIN proposals : proposals'[q] = proposals[q]
      /\ proposals'[id].status.tag \in {"Voting", "Approved"}
      /\ UNCHANGED now /\ logBar' = logBar
  BY <1>1, LogInLedger DEF Voted
<1>3. PICK entry : entry = [project |-> proposals'[id].project_id,
                            artifact |-> ProposedArtifact(proposals'[id]),
                            phase |-> proposals'[id].status.tag,
                            due |-> proposals'[id].status.enact_at]
  OBVIOUS
<1>4. entry \in Ledger!Entry /\ entry.phase \in {"Voting", "Approved"}
  <2>1. ProposedArtifact(proposals'[id]) \in ArtifactType
    BY <1>1 DEF ProposedArtifact, ArtifactType, Proposal, BuildAttestation
  <2>2. /\ proposals'[id].project_id \in ProjectId
        /\ proposals'[id].status.enact_at \in Block
    BY <1>1 DEF Proposal, ProposalStatus
  <2> QED
    BY <1>2, <1>3, <2>1, <2>2 DEF Ledger!Entry
<1>5. /\ DOMAIN ledgerBar = DOMAIN proposals
      /\ \A q \in DOMAIN proposals : ledgerBar'[q] = ledgerBar[q]
      /\ ledgerBar'[id] = entry
      /\ DOMAIN ledgerBar' = DOMAIN proposals \cup {id}
      /\ ledgerBar' = [q \in DOMAIN ledgerBar' |-> ledgerBar'[q]]
  BY <1>1, <1>2, <1>3 DEF ledgerBar
<1>6. ledgerBar' = [q \in DOMAIN ledgerBar \cup {id} |-> IF q = id THEN entry ELSE ledgerBar[q]]
  BY <1>1, <1>5
<1>7. entry.phase = "Approved" => now < entry.due
  <2>1. enacting' = <<>> /\ id \in DOMAIN proposals'
    BY <1>2 DEF NewRelease
  <2>2. proposals'[id].status.tag = "Approved" => now < proposals'[id].status.enact_at
    BY <1>2, <2>1, ScheduledLater
  <2> QED
    BY <1>3, <2>2
<1>8. Ledger!Propose(id, entry)
  BY <1>1, <1>2, <1>4, <1>5, <1>6, <1>7 DEF Ledger!Propose
<1> QED
  BY <1>4, <1>8 DEF Ledger!LedgerNext

\* Appending an entry to ReleaseLog appends it to the log of the ledger.
LEMMA AppendInLedger ==
    ASSUME TypeOK, NEW j \in ProjectId, NEW e \in ReleaseEntry,
           releaseLog' = [releaseLog EXCEPT ![j] = Append(@, e)]
    PROVE  logBar' = [logBar EXCEPT ![j] = Append(@, [proposal |-> e.proposal_id,
                                                      artifact |-> LoggedArtifact(e)])]
<1> DEFINE View(entry) == [proposal |-> entry.proposal_id, artifact |-> LoggedArtifact(entry)]
<1>0. releaseLog[j] \in Seq(ReleaseEntry)
  BY DEF TypeOK
<1>1. PICK s \in Seq(ReleaseEntry), n \in Nat : s = releaseLog[j] /\ n = Len(s)
  BY <1>0
<1>2. /\ DOMAIN releaseLog = ProjectId
      /\ releaseLog'[j] = Append(s, e)
      /\ \A i \in ProjectId : i # j => releaseLog'[i] = releaseLog[i]
  BY <1>1 DEF TypeOK
<1>3. /\ Len(Append(s, e)) = n + 1
      /\ \A i \in 1..n : Append(s, e)[i] = s[i]
      /\ Append(s, e)[n + 1] = e
  BY <1>1
<1> HIDE DEF View
<1>4. logBar = [i \in ProjectId |-> [k \in 1..Len(releaseLog[i]) |-> View(releaseLog[i][k])]]
  BY DEF logBar, View
<1>5. logBar' = [i \in ProjectId |-> [k \in 1..Len(releaseLog'[i]) |-> View(releaseLog'[i][k])]]
  BY DEF logBar, View
<1>6. PICK t : t = [k \in 1..n |-> View(s[k])]
  OBVIOUS
<1>7. t = logBar[j] /\ DOMAIN logBar = ProjectId
  BY <1>1, <1>4, <1>6
<1>8. [k \in 1..(n + 1) |-> View(Append(s, e)[k])] = Append(t, View(e))
  <2>0. PICK S : S = {View(s[k]) : k \in 1..n} \cup {View(e)}
    OBVIOUS
  <2>1. t \in Seq(S) /\ Len(t) = n /\ View(e) \in S
    <3>1. t \in [1..n -> S]
      BY <1>6, <2>0
    <3> QED
      BY <1>1, <2>0, <3>1
  <2>2. /\ Append(t, View(e)) = [k \in 1..(n + 1) |-> Append(t, View(e))[k]]
        /\ \A k \in 1..n : Append(t, View(e))[k] = t[k]
        /\ Append(t, View(e))[n + 1] = View(e)
    <3>0. PICK x \in S : x = View(e)
      BY <2>1
    <3>1. PICK u : u = Append(t, x)
      OBVIOUS
    <3>4. u \in Seq(S) /\ Len(u) = Len(t) + 1
      BY <2>1, <3>1
    <3>2. Len(u) = n + 1 /\ u[n + 1] = x /\ \A k \in 1..n : u[k] = t[k]
      BY <2>1, <3>1, <3>4
    <3>3. u = [k \in 1..(n + 1) |-> u[k]]
      BY <3>2, <3>4
    <3> QED
      BY <3>0, <3>1, <3>2, <3>3
  <2>3. \A k \in 1..(n + 1) : View(Append(s, e)[k]) = Append(t, View(e))[k]
    <3>1. \A k \in 1..n : View(Append(s, e)[k]) = Append(t, View(e))[k]
      BY <1>3, <1>6, <2>2
    <3>2. View(Append(s, e)[n + 1]) = Append(t, View(e))[n + 1]
      BY <1>3, <2>2
    <3>3. \A k \in 1..(n + 1) : k \in 1..n \/ k = n + 1
      BY <1>1
    <3> QED
      BY <3>1, <3>2, <3>3
  <2> QED
    BY <2>2, <2>3
<1>9. /\ logBar'[j] = Append(t, View(e))
      /\ \A i \in ProjectId : i # j => logBar'[i] = logBar[i]
      /\ DOMAIN logBar' = ProjectId
      /\ logBar' = [i \in ProjectId |-> logBar'[i]]
  BY <1>2, <1>3, <1>4, <1>5, <1>8
<1>10. logBar' = [logBar EXCEPT ![j] = Append(@, View(e))]
  BY <1>7, <1>9, <1>4
<1> QED
  BY <1>10 DEF View

\* One pass of the enactment loop publishes the proposal at the very time it was
\* scheduled for, or reopens it.
LEMMA EnactRefines ==
    ASSUME TypeOK, PendingExact, Enact
    PROVE  Ledger!LedgerNext
<1>1. PICK id \in DOMAIN proposals :
             /\ id \in ProposalId
             /\ proposals[id].status = Approved(now)
             /\ EnactAppended(id) \/ EnactReverted(id)
             /\ UNCHANGED <<now, nextProjectId, nextProposalId, projects>>
  BY EnactDecides
<1>2. /\ proposals[id].status.tag = "Approved" /\ proposals[id].status.enact_at = now
      /\ proposals[id] \in Proposal /\ now \in Block
  BY <1>1, VeriGovAssumption DEF TypeOK, Approved, Block
<1>3. CASE EnactReverted(id)
  <2>1. PICK s \in ProposalStatus : s = Voting /\ s.tag = "Voting" /\ s.enact_at = 0
    BY PlainStatus DEF Voting
  <2>2. proposals' = [proposals EXCEPT ![id].status = s] /\ logBar' = logBar
    BY <1>3, <2>1, LogInLedger DEF EnactReverted
  <2>3. /\ id \in DOMAIN ledgerBar /\ Ledger!SetPhase(id, s.tag, s.enact_at)
        /\ Ledger!Phase(id) = "Approved"
    BY <1>2, <2>2, StatusInLedger
  <2>4. Ledger!Reopen(id)
    BY <1>1, <2>1, <2>2, <2>3 DEF Ledger!Reopen, Ledger!SetPhase
  <2> QED
    BY <2>3, <2>4 DEF Ledger!LedgerNext
<1>4. CASE EnactAppended(id)
  <2>1. PICK s \in ProposalStatus : s = Enacted /\ s.tag = "Enacted" /\ s.enact_at = 0
    BY PlainStatus DEF Enacted
  <2>2. proposals' = [proposals EXCEPT ![id].status = s]
    BY <1>4, <2>1 DEF EnactAppended
  <2>3. /\ id \in DOMAIN ledgerBar /\ Ledger!SetPhase(id, s.tag, s.enact_at)
        /\ Ledger!Phase(id) = "Approved" /\ ledgerBar[id].due = now
    BY <1>2, <2>2, StatusInLedger
  <2>4. PICK j \in ProjectId, e \in ReleaseEntry :
           /\ j = proposals[id].project_id
           /\ e = ReleaseEntryOf(id)
           /\ releaseLog' = [releaseLog EXCEPT ![j] = Append(@, e)]
    <3>1. proposals[id].project_id \in ProjectId
      BY <1>2 DEF Proposal
    <3>2. ReleaseEntryOf(id) \in ReleaseEntry
      BY <1>1, <1>2 DEF ReleaseEntryOf, ReleaseEntry, Proposal, BuildAttestation
    <3> QED
      BY <1>4, <3>1, <3>2 DEF EnactAppended
  <2>5. /\ e.proposal_id = id
        /\ LoggedArtifact(e) = ledgerBar[id].artifact
        /\ ledgerBar[id].project = j
    BY <2>4 DEF ReleaseEntryOf, LoggedArtifact, ledgerBar, ProposedArtifact
  <2>6. logBar' = [logBar EXCEPT ![j] = Append(@, [proposal |-> id,
                                                   artifact |-> ledgerBar[id].artifact])]
    BY <2>4, <2>5, AppendInLedger
  <2>7. Ledger!Publish(id)
    BY <1>1, <2>1, <2>3, <2>5, <2>6 DEF Ledger!Publish, Ledger!SetPhase
  <2> QED
    BY <2>3, <2>7 DEF Ledger!LedgerNext
<1> QED
  BY <1>1, <1>3, <1>4

\* A counter-attestation rejects an open proposal on the ledger.
LEMMA RejectRefines ==
    ASSUME TypeOK, NEW who \in Account, NEW id \in ProposalId, NEW rebuilt \in Hash,
           SubmitCounterAttestation(who, id, rebuilt)
    PROVE  Ledger!LedgerNext
<1>1. /\ id \in DOMAIN proposals
      /\ proposals[id].status.tag \in {"Voting", "Approved"}
      /\ proposals' = [proposals EXCEPT ![id].status = Rejected]
      /\ UNCHANGED now /\ UNCHANGED releaseLog
  BY DEF SubmitCounterAttestation
<1>2. PICK s \in ProposalStatus : s = Rejected /\ s.tag = "Rejected" /\ s.enact_at = 0
  BY PlainStatus DEF Rejected
<1>3. proposals' = [proposals EXCEPT ![id].status = s] /\ logBar' = logBar
  BY <1>1, <1>2, LogInLedger
<1>4. /\ id \in DOMAIN ledgerBar /\ Ledger!SetPhase(id, s.tag, s.enact_at)
      /\ Ledger!Phase(id) \in {"Voting", "Approved"}
  BY <1>1, <1>3, StatusInLedger
<1>5. Ledger!Reject(id)
  BY <1>1, <1>2, <1>3, <1>4 DEF Ledger!Reject, Ledger!SetPhase
<1> QED
  BY <1>4, <1>5 DEF Ledger!LedgerNext

\* close_expired expires a proposal on the ledger.
LEMMA ExpireRefines ==
    ASSUME TypeOK, NEW id \in ProposalId, CloseExpired(id)
    PROVE  Ledger!LedgerNext
<1>1. /\ id \in DOMAIN proposals
      /\ proposals[id].status.tag = "Voting"
      /\ proposals' = [proposals EXCEPT ![id].status = Expired]
      /\ UNCHANGED now /\ UNCHANGED releaseLog
  BY DEF CloseExpired
<1>2. PICK s \in ProposalStatus : s = Expired /\ s.tag = "Expired" /\ s.enact_at = 0
  BY PlainStatus DEF Expired
<1>3. proposals' = [proposals EXCEPT ![id].status = s] /\ logBar' = logBar
  BY <1>1, <1>2, LogInLedger
<1>4. /\ id \in DOMAIN ledgerBar /\ Ledger!SetPhase(id, s.tag, s.enact_at)
      /\ Ledger!Phase(id) = "Voting"
  BY <1>1, <1>3, StatusInLedger
<1>5. Ledger!Expire(id)
  BY <1>1, <1>2, <1>3, <1>4 DEF Ledger!Expire, Ledger!SetPhase
<1> QED
  BY <1>4, <1>5 DEF Ledger!LedgerNext

-----------------------------------------------------------------------------
(* The refinement *)

\* A policy never changes once the project exists.
LEMMA DelayedStep ==
    ASSUME PositiveDelays
    PROVE  TypeOK /\ Delayed /\ [Next]_vars => Delayed'
<1> SUFFICES ASSUME TypeOK, Delayed, [Next]_vars PROVE Delayed'
  OBVIOUS
<1>1. ASSUME NEW g \in Genesis, ProjectGenesis(g) PROVE Delayed'
  <2>1. PICK n : /\ n = nextProjectId
                 /\ DOMAIN projects' = DOMAIN projects \cup {n}
                 /\ projects'[n].policy = g.policy
                 /\ \A j \in DOMAIN projects : j # n => projects'[j] = projects[j]
    BY <1>1 DEF ProjectGenesis, Insert
  <2> QED
    BY <2>1 DEF Delayed, PositiveDelays
<1>2. ASSUME UNCHANGED projects PROVE Delayed'
  BY <1>2 DEF Delayed
<1>3. ASSUME NEW who \in Account, NEW project_id \in ProjectId, NEW version \in Version,
             NEW attestation \in BuildAttestation, NEW cid \in Cid, NEW signature \in Signature,
             NewRelease(who, project_id, version, attestation, cid, signature)
      PROVE  UNCHANGED projects
  BY <1>3 DEF NewRelease
<1>4. ASSUME NEW who \in Account, NEW id \in ProposalId, NEW choice \in {"aye", "nay"},
             Vote(who, id, choice)
      PROVE  UNCHANGED projects
  BY <1>4 DEF Vote
<1>5. ASSUME NEW who \in Account, NEW id \in ProposalId, NEW rebuilt \in Hash,
             SubmitCounterAttestation(who, id, rebuilt)
      PROVE  UNCHANGED projects
  BY <1>5 DEF SubmitCounterAttestation
<1>6. ASSUME NEW id \in ProposalId, CloseExpired(id) PROVE UNCHANGED projects
  BY <1>6 DEF CloseExpired
<1>7. OnInitialize \/ Enact \/ UNCHANGED vars => UNCHANGED projects
  BY DEF OnInitialize, Enact, vars
<1> QED
  BY <1>1, <1>2, <1>3, <1>4, <1>5, <1>6, <1>7 DEF Next

\* A new block is a tick: no approved proposal is due by now.
LEMMA TickRefines ==
    ASSUME TypeOK, NoMissedEnactment, Delayed, OnInitialize
    PROVE  Ledger!LedgerNext
<1>1. /\ enacting = <<>> /\ now' = now + 1 /\ UNCHANGED proposals /\ UNCHANGED releaseLog
  BY DEF OnInitialize
<1>2. ledgerBar' = ledgerBar /\ logBar' = logBar
  BY <1>1, LogInLedger DEF ledgerBar
<1>3. ASSUME NEW id \in DOMAIN proposals, proposals[id].status.tag = "Approved"
      PROVE  now < proposals[id].status.enact_at
  BY <1>1, <1>3, DueLater
<1>4. \A p \in DOMAIN ledgerBar : Ledger!Phase(p) = "Approved" => now < ledgerBar[p].due
  BY <1>3 DEF ledgerBar, Ledger!Phase
<1> QED
  BY <1>1, <1>2, <1>4 DEF Ledger!LedgerNext, Ledger!Tick

\* Every step of the pallet is a step of the ledger or leaves it alone.
LEMMA StepRefines ==
    ASSUME TypeOK, PendingExact, NoMissedEnactment, Delayed, [Next]_vars
    PROVE  [Ledger!LedgerNext]_(Ledger!ledgerVars)
<1>0. TypeOK' /\ NoMissedEnactment'
  BY TypeStep, NotMissedStep DEF NoMissedEnactment, NotMissed
<1>1. ASSUME UNCHANGED <<now, proposals, releaseLog>> PROVE UNCHANGED Ledger!ledgerVars
  <2>1. ledgerBar' = ledgerBar /\ logBar' = logBar
    BY <1>1, LogInLedger DEF ledgerBar
  <2> QED
    BY <1>1, <2>1 DEF Ledger!ledgerVars
<1>2. ASSUME NEW g \in Genesis, ProjectGenesis(g) PROVE UNCHANGED Ledger!ledgerVars
  BY <1>1, <1>2 DEF ProjectGenesis
<1>3. ASSUME NEW who \in Account, NEW project_id \in ProjectId, NEW version \in Version,
             NEW attestation \in BuildAttestation, NEW cid \in Cid, NEW signature \in Signature,
             NewRelease(who, project_id, version, attestation, cid, signature)
      PROVE  Ledger!LedgerNext
  <2>1. Delayed'
    BY <1>3 DEF NewRelease, Delayed
  <2> QED
    BY <1>0, <1>3, <2>1, NewReleaseRefines
<1>4. ASSUME NEW who \in Account, NEW id \in ProposalId, NEW choice \in {"aye", "nay"},
             Vote(who, id, choice)
      PROVE  Ledger!LedgerNext \/ UNCHANGED Ledger!ledgerVars
  <2>1. Delayed'
    BY <1>4 DEF Vote, Delayed
  <2> QED
    BY <1>0, <1>4, <2>1, VoteRefines
<1>5. ASSUME NEW who \in Account, NEW id \in ProposalId, NEW rebuilt \in Hash,
             SubmitCounterAttestation(who, id, rebuilt)
      PROVE  Ledger!LedgerNext
  BY <1>5, RejectRefines
<1>6. ASSUME NEW id \in ProposalId, CloseExpired(id) PROVE Ledger!LedgerNext
  BY <1>6, ExpireRefines
<1>7. CASE OnInitialize
  BY <1>7, TickRefines
<1>8. CASE Enact
  BY <1>8, EnactRefines
<1>9. CASE UNCHANGED vars
  BY <1>1, <1>9 DEF vars
<1> QED
  BY <1>2, <1>3, <1>4, <1>5, <1>6, <1>7, <1>8, <1>9 DEF Next

\* With every enactment delay at least one block, the pallet implements the
\* abstract release ledger: it publishes only what is scheduled, exactly at its
\* time, and lets time pass no scheduled proposal by.
THEOREM PalletImplementsLedger ==
    ASSUME PositiveDelays
    PROVE  Spec => ImplementsLedger
<1>1. Init => Ledger!LedgerInit
  BY DEF Init, Ledger!LedgerInit, ledgerBar, logBar
<1>2. Init => Delayed
  BY DEF Init, Delayed
<1>3. TypeOK /\ Delayed /\ [Next]_vars => Delayed'
  BY DelayedStep
<1>4. TypeOK /\ PendingExact /\ NoMissedEnactment /\ Delayed /\ [Next]_vars =>
        [Ledger!LedgerNext]_(Ledger!ledgerVars)
  BY StepRefines
<1> QED
  BY <1>1, <1>2, <1>3, <1>4, TypeCorrect, PendingAlwaysExact, NothingMissed, PTL
     DEF Spec, ImplementsLedger, Ledger!LedgerSpec

-----------------------------------------------------------------------------
(* The promises of the ledger hold of the pallet *)

Promises == INSTANCE ReleaseLedgerProofs
              WITH Project <- ProjectId, Proposal <- ProposalId, Artifact <- ArtifactType,
                   Time <- Block, clock <- now, ledger <- ledgerBar, log <- logBar

\* What the abstract ledger promises holds of the pallet's storage: a project's
\* ReleaseLog holds exactly its enacted proposals with what was proposed, an
\* approval is never overdue, and what is logged or closed stays as it is.
THEOREM PalletKeepsPromises ==
    ASSUME PositiveDelays
    PROVE  Spec => /\ []Promises!LogExact
                   /\ []Promises!NotOverdue
                   /\ Promises!HistoryStands
<1>1. Promises!TimesAreNumbers
  BY VeriGovAssumption DEF Promises!TimesAreNumbers, Block
<1>2. Ledger!LedgerInit => Promises!LedgerInit
  BY DEF Ledger!LedgerInit, Promises!LedgerInit
<1>3. [Ledger!LedgerNext]_(Ledger!ledgerVars) => [Promises!LedgerNext]_(Promises!ledgerVars)
  <2>1. UNCHANGED Ledger!ledgerVars => UNCHANGED Promises!ledgerVars
    BY DEF Ledger!ledgerVars, Promises!ledgerVars
  <2>2. Ledger!LedgerNext => Promises!LedgerNext
    BY Zenon DEF Ledger!LedgerNext, Ledger!Propose, Ledger!Schedule, Ledger!Reopen, Ledger!Publish,
           Ledger!Reject, Ledger!Expire, Ledger!Tick, Ledger!Entry, Ledger!Phase, Ledger!SetPhase,
           Promises!LedgerNext, Promises!Propose, Promises!Schedule, Promises!Reopen,
           Promises!Publish, Promises!Reject, Promises!Expire, Promises!Tick, Promises!Entry,
           Promises!Phase, Promises!SetPhase
  <2> QED
    BY <2>1, <2>2
<1>4. Promises!LedgerSpec => []Promises!LogExact
  BY <1>1, Promises!LedgerLogExact
<1>5. Promises!LedgerSpec => []Promises!NotOverdue
  BY <1>1, Promises!LedgerNotOverdue
<1>6. Promises!LedgerSpec => Promises!HistoryStands
  BY <1>1, Promises!LedgerHistoryStands
<1> QED
  BY <1>2, <1>3, <1>4, <1>5, <1>6, PalletImplementsLedger, PTL
     DEF ImplementsLedger, Ledger!LedgerSpec, Promises!LedgerSpec
-----------------------------------------------------------------------------
(* The log agrees with the proposals *)

\* The three parts of LogMatchesProposals: what an entry says, that an enacted
\* proposal has exactly one, and that exactly the rejected proposals carry a
\* counter-attestation.
EntryTrue(j, i) ==
    LET entry == releaseLog[j][i]
        p == proposals[entry.proposal_id]
    IN  /\ entry.proposal_id \in DOMAIN proposals
        /\ p.status = Enacted
        /\ p.project_id = j
        /\ p.version = entry.version
        /\ p.attestation.source_commit_hash = entry.source_commit_hash
        /\ p.attestation.output_binary_hash = entry.output_binary_hash
        /\ p.attestation_cid = entry.attestation_cid
        /\ entry.enacted_at <= now
        /\ i > 1 => releaseLog[j][i - 1].enacted_at <= entry.enacted_at

EntriesTrue == \A j \in ProjectId : \A i \in 1..Len(releaseLog[j]) : EntryTrue(j, i)

Mentions(j, id) == {i \in 1..Len(releaseLog[j]) : releaseLog[j][i].proposal_id = id}

LoggedOnce ==
    \A id \in DOMAIN proposals, j \in ProjectId :
        proposals[id].status = Enacted /\ proposals[id].project_id = j =>
            Cardinality(Mentions(j, id)) = 1

Challenged ==
    /\ DOMAIN counterAttestations \subseteq DOMAIN proposals
    /\ \A id \in DOMAIN proposals :
          proposals[id].status = Rejected <=> id \in DOMAIN counterAttestations

LogTrue == EntriesTrue /\ LoggedOnce /\ Challenged

\* The parts make the whole.
LEMMA LogParts == TypeOK /\ LogTrue => LogMatchesProposals
<1> SUFFICES ASSUME TypeOK, LogTrue PROVE LogMatchesProposals
  OBVIOUS
<1>1. ASSUME NEW j \in ProjectId, NEW i \in 1..Len(releaseLog[j])
      PROVE  LET entry == releaseLog[j][i]
             IN  /\ entry.proposal_id \in DOMAIN proposals
                 /\ LET p == proposals[entry.proposal_id]
                    IN  /\ p.status = Enacted
                        /\ p.project_id = j
                        /\ <<p.version, p.attestation.source_commit_hash,
                             p.attestation.output_binary_hash, p.attestation_cid>>
                           = <<entry.version, entry.source_commit_hash,
                               entry.output_binary_hash, entry.attestation_cid>>
                 /\ entry.enacted_at <= now
                 /\ i > 1 => releaseLog[j][i - 1].enacted_at <= entry.enacted_at
  BY DEF LogTrue, EntriesTrue, EntryTrue
<1>2. ASSUME NEW id \in DOMAIN proposals, proposals[id].status = Enacted
      PROVE  LET log == releaseLog[proposals[id].project_id]
             IN  Cardinality({i \in 1..Len(log) : log[i].proposal_id = id}) = 1
  <2>1. PICK j \in ProjectId : j = proposals[id].project_id
    BY StoredIds DEF TypeOK
  <2>2. Cardinality({i \in 1..Len(releaseLog[j]) : releaseLog[j][i].proposal_id = id}) = 1
    BY <1>2, <2>1 DEF LogTrue, LoggedOnce, Mentions
  <2> QED
    BY <2>1, <2>2
<1>3. \A id \in DOMAIN proposals :
         proposals[id].status = Rejected <=> id \in DOMAIN counterAttestations
  BY DEF LogTrue, Challenged
<1> QED
  BY <1>1, <1>2, <1>3 DEF LogMatchesProposals

\* A step that leaves the log and every enacted proposal alone, and enacts none.
LEMMA LogKept ==
    ASSUME TypeOK, TypeOK', EntriesTrue, LoggedOnce, UNCHANGED releaseLog, now <= now',
           \A q \in DOMAIN proposals : q \in DOMAIN proposals' /\
              (proposals[q].status = Enacted => proposals'[q] = proposals[q]),
           \A q \in DOMAIN proposals' : proposals'[q].status = Enacted =>
              q \in DOMAIN proposals /\ proposals[q].status = Enacted
    PROVE  EntriesTrue' /\ LoggedOnce'
<1>1. ASSUME NEW j \in ProjectId, NEW i \in 1..Len(releaseLog[j]) PROVE EntryTrue(j, i)'
  <2>1. EntryTrue(j, i)
    BY DEF EntriesTrue
  <2>2. releaseLog[j][i] \in ReleaseEntry
    BY DEF TypeOK
  <2>3. releaseLog[j][i].enacted_at \in Int /\ now \in Int /\ now' \in Int
    <3>1. releaseLog[j][i].enacted_at \in Int
      BY <2>2 DEF ReleaseEntry, Block
    <3>2. now \in Int /\ now' \in Int
      BY DEF TypeOK
    <3> QED
      BY <3>1, <3>2
  <2>4. releaseLog[j][i].enacted_at <= now'
    BY <2>1, <2>3 DEF EntryTrue
  <2> QED
    BY <2>1, <2>4 DEF EntryTrue
<1>2. EntriesTrue'
  BY <1>1 DEF EntriesTrue
<1>3. \A j \in ProjectId, id \in DOMAIN proposals' : Mentions(j, id)' = Mentions(j, id)
  BY DEF Mentions
<1>4. LoggedOnce'
  BY <1>3 DEF LoggedOnce
<1> QED
  BY <1>2, <1>4

\* The two ways the record of challenges is kept: no proposal moves into or out
\* of Rejected, or the one that does is recorded in the same step.
LEMMA ChallengesKept ==
    ASSUME Challenged, UNCHANGED counterAttestations,
           \A q \in DOMAIN proposals : q \in DOMAIN proposals' /\
              (proposals'[q].status = Rejected <=> proposals[q].status = Rejected),
           \A q \in DOMAIN proposals' : q \notin DOMAIN proposals => proposals'[q].status # Rejected
    PROVE  Challenged'
  BY DEF Challenged

\* An open status is neither Enacted nor Rejected.
LEMMA OpenStatus ==
    ASSUME NEW s, s.tag \in {"Voting", "Approved", "Expired"}
    PROVE  s # Enacted /\ s # Rejected
  BY DEF Enacted, Rejected

\* A vote opens or reopens a proposal that was open or new.
LEMMA VotedLog ==
    ASSUME TypeOK, TypeOK', LogTrue,
           NEW id \in ProposalId, NEW who \in Account, NEW choice \in {"aye", "nay"},
           Voted(id, who, choice)
    PROVE  LogTrue'
<1>1. /\ DOMAIN proposals' = DOMAIN proposals \cup {id}
      /\ \A q \in DOMAIN proposals : q # id => proposals'[q] = proposals[q]
      /\ id \in DOMAIN proposals => proposals[id].status.tag \in {"Voting", "Approved"}
      /\ proposals'[id].status.tag \in {"Voting", "Approved"}
      /\ UNCHANGED <<now, releaseLog, counterAttestations>>
  BY DEF Voted
<1>2. /\ proposals'[id].status # Enacted /\ proposals'[id].status # Rejected
      /\ id \in DOMAIN proposals => proposals[id].status # Enacted /\ proposals[id].status # Rejected
  BY <1>1, OpenStatus
<1>3. now <= now'
  BY <1>1 DEF TypeOK
<1>4. EntriesTrue' /\ LoggedOnce'
  BY <1>1, <1>2, <1>3, LogKept DEF LogTrue
<1>5. Challenged'
  BY <1>1, <1>2, ChallengesKept DEF LogTrue
<1> QED
  BY <1>4, <1>5 DEF LogTrue

\* A counter-attestation rejects an open proposal and is recorded with it.
LEMMA RejectLog ==
    ASSUME TypeOK, TypeOK', LogTrue,
           NEW who \in Account, NEW id \in ProposalId, NEW rebuilt \in Hash,
           SubmitCounterAttestation(who, id, rebuilt)
    PROVE  LogTrue'
<1>1. /\ id \in DOMAIN proposals
      /\ proposals[id].status.tag \in {"Voting", "Approved"}
      /\ proposals' = [proposals EXCEPT ![id].status = Rejected]
      /\ UNCHANGED now /\ UNCHANGED releaseLog
      /\ DOMAIN counterAttestations' = DOMAIN counterAttestations \cup {id}
  BY DEF SubmitCounterAttestation, Insert
<1>2. /\ DOMAIN proposals' = DOMAIN proposals
      /\ proposals'[id].status = Rejected
      /\ \A q \in DOMAIN proposals : q # id => proposals'[q] = proposals[q]
  BY <1>1, StatusOnly
<1>3. /\ proposals[id].status # Enacted /\ Rejected # Enacted
  BY <1>1, OpenStatus DEF Rejected, Enacted
<1>4. now <= now'
  BY <1>1 DEF TypeOK
<1>5. EntriesTrue' /\ LoggedOnce'
  BY <1>1, <1>2, <1>3, <1>4, LogKept DEF LogTrue
<1>6. Challenged'
  BY <1>1, <1>2 DEF LogTrue, Challenged
<1> QED
  BY <1>5, <1>6 DEF LogTrue

\* A proposal that goes from one open or expired status to another.
LEMMA ReopenLog ==
    ASSUME TypeOK, TypeOK', LogTrue, NEW id \in DOMAIN proposals,
           proposals[id].status.tag \in {"Voting", "Approved"},
           proposals'[id].status.tag \in {"Voting", "Approved", "Expired"},
           DOMAIN proposals' = DOMAIN proposals,
           \A q \in DOMAIN proposals : q # id => proposals'[q] = proposals[q],
           now' = now, releaseLog' = releaseLog, counterAttestations' = counterAttestations
    PROVE  LogTrue'
<1>1. /\ proposals[id].status # Enacted /\ proposals[id].status # Rejected
      /\ proposals'[id].status # Enacted /\ proposals'[id].status # Rejected
  BY OpenStatus
<1>2. now <= now'
  BY DEF TypeOK
<1>3. EntriesTrue' /\ LoggedOnce'
  BY <1>1, <1>2, LogKept DEF LogTrue
<1>4. Challenged'
  BY <1>1, ChallengesKept DEF LogTrue
<1> QED
  BY <1>3, <1>4 DEF LogTrue

\* An enactment appends the one entry of a proposal that had none.
LEMMA AppendLog ==
    ASSUME TypeOK, TypeOK', LogTrue, NEW id \in DOMAIN proposals,
           proposals[id].status = Approved(now), EnactAppended(id),
           UNCHANGED <<now, counterAttestations>>
    PROVE  LogTrue'
<1>1. PICK j \in ProjectId, e \in ReleaseEntry :
         /\ j = proposals[id].project_id
         /\ e = ReleaseEntryOf(id)
         /\ releaseLog' = [releaseLog EXCEPT ![j] = Append(@, e)]
  <2>1. proposals[id] \in Proposal /\ now \in Block /\ id \in ProposalId
    <3>1. proposals[id] \in Proposal /\ id \in ProposalId
      BY StoredIds DEF TypeOK
    <3>2. now \in Block
      BY StoredIds
    <3> QED
      BY <3>1, <3>2
  <2>2. proposals[id].project_id \in ProjectId
    BY <2>1 DEF Proposal
  <2>3. ReleaseEntryOf(id) \in ReleaseEntry
    BY <2>1 DEF ReleaseEntryOf, ReleaseEntry, Proposal, BuildAttestation
  <2> QED
    BY <2>2, <2>3 DEF EnactAppended
<1>2. /\ DOMAIN proposals' = DOMAIN proposals
      /\ proposals'[id].status = Enacted
      /\ \A q \in DOMAIN proposals : q # id => proposals'[q] = proposals[q]
      /\ proposals'[id].project_id = j
      /\ proposals'[id].attestation = proposals[id].attestation
      /\ proposals'[id].version = proposals[id].version
      /\ proposals'[id].attestation_cid = proposals[id].attestation_cid
  <2>1. proposals' = [proposals EXCEPT ![id].status = Enacted] /\ proposals[id] \in Proposal
    BY DEF EnactAppended, TypeOK
  <2> QED
    BY <1>1, <2>1 DEF Proposal
<1>3. proposals[id].status # Enacted /\ proposals[id].status # Rejected
  BY DEF Approved, Enacted, Rejected
<1>4. PICK s \in Seq(ReleaseEntry), n \in Nat : s = releaseLog[j] /\ n = Len(s)
  <2>1. releaseLog[j] \in Seq(ReleaseEntry)
    BY DEF TypeOK
  <2> QED
    BY <2>1
<1>5. /\ releaseLog'[j] = Append(s, e)
      /\ \A i \in ProjectId : i # j => releaseLog'[i] = releaseLog[i]
  BY <1>1, <1>4 DEF TypeOK
<1>6. /\ Len(releaseLog'[j]) = n + 1
      /\ \A i \in 1..n : releaseLog'[j][i] = releaseLog[j][i]
      /\ releaseLog'[j][n + 1] = e
      /\ \A i \in 1..(n + 1) : i \in 1..n \/ i = n + 1
  BY <1>4, <1>5
<1>7. ASSUME NEW k \in ProjectId, NEW i \in 1..Len(releaseLog[k])
      PROVE  releaseLog[k][i].proposal_id # id
  BY <1>3 DEF LogTrue, EntriesTrue, EntryTrue
<1>8. ASSUME NEW k \in ProjectId, NEW i \in 1..Len(releaseLog[k]),
             releaseLog'[k][i] = releaseLog[k][i],
             i > 1 => releaseLog'[k][i - 1] = releaseLog[k][i - 1]
      PROVE  EntryTrue(k, i)'
  <2>1. EntryTrue(k, i) /\ releaseLog[k][i].proposal_id # id
    BY <1>7 DEF LogTrue, EntriesTrue
  <2> QED
    BY <1>2, <1>8, <2>1 DEF EntryTrue
<1>9. EntryTrue(j, n + 1)'
  <2>1. /\ e.proposal_id = id /\ e.version = proposals[id].version
        /\ e.source_commit_hash = proposals[id].attestation.source_commit_hash
        /\ e.output_binary_hash = proposals[id].attestation.output_binary_hash
        /\ e.attestation_cid = proposals[id].attestation_cid
        /\ e.enacted_at = now
    BY <1>1 DEF ReleaseEntryOf
  <2>2. n + 1 > 1 => releaseLog'[j][n].enacted_at <= now
    <3>1. n + 1 > 1 => n \in 1..n
      BY <1>4
    <3>2. n \in 1..n => releaseLog[j][n].enacted_at <= now
      BY <1>4 DEF LogTrue, EntriesTrue, EntryTrue
    <3> QED
      BY <1>6, <3>1, <3>2
  <2>3. n + 1 - 1 = n /\ now <= now
    BY <1>4 DEF TypeOK
  <2> QED
    BY <1>2, <1>6, <2>1, <2>2, <2>3 DEF EntryTrue
<1>10. EntriesTrue'
  <2>1. ASSUME NEW k \in ProjectId, NEW i \in 1..Len(releaseLog'[k]) PROVE EntryTrue(k, i)'
    <3>1. CASE k # j
      BY <1>5, <1>8, <3>1
    <3>2. CASE k = j /\ i \in 1..n
      <4>1. i > 1 => i - 1 \in 1..n
        BY <1>4, <3>2
      <4>2. i \in 1..Len(releaseLog[j])
        BY <1>4, <3>2
      <4>3. EntryTrue(j, i)'
        BY <1>6, <1>8, <3>2, <4>1, <4>2
      <4> QED
        BY <3>2, <4>3
    <3>3. CASE k = j /\ i = n + 1
      BY <1>9, <3>3
    <3> QED
      BY <1>6, <3>1, <3>2, <3>3
  <2> QED
    BY <2>1 DEF EntriesTrue
<1>11. LoggedOnce'
  <2> SUFFICES ASSUME NEW q \in DOMAIN proposals', NEW k \in ProjectId,
                      proposals'[q].status = Enacted, proposals'[q].project_id = k
               PROVE  Cardinality(Mentions(k, q)') = 1
    BY DEF LoggedOnce
  <2>1. CASE q = id
    <3>1. k = j
      BY <1>2, <2>1
    <3>2. e.proposal_id = id
      BY <1>1 DEF ReleaseEntryOf
    <3>3. \A i \in 1..n : releaseLog'[j][i].proposal_id # id
      BY <1>4, <1>6, <1>7
    <3>4. n + 1 \in 1..(n + 1)
      BY <1>4
    <3>5. {i \in 1..(n + 1) : releaseLog'[j][i].proposal_id = id} = {n + 1}
      BY <1>6, <3>2, <3>3, <3>4
    <3>6. Mentions(k, q)' = {n + 1}
      BY <1>6, <2>1, <3>1, <3>5 DEF Mentions
    <3> QED
      BY <3>6, FS_Singleton
  <2>2. CASE q # id
    <3>1. q \in DOMAIN proposals /\ proposals[q].status = Enacted /\ proposals[q].project_id = k
      BY <1>2, <2>2
    <3>2. Cardinality(Mentions(k, q)) = 1
      BY <3>1 DEF LogTrue, LoggedOnce
    <3>3. e.proposal_id # q
      BY <1>1, <2>2 DEF ReleaseEntryOf
    <3>4. Mentions(k, q)' = Mentions(k, q)
      <4>1. CASE k # j
        BY <1>5, <4>1 DEF Mentions
      <4>2. CASE k = j
        <5>1. {i \in 1..(n + 1) : releaseLog'[j][i].proposal_id = q}
                = {i \in 1..n : releaseLog[j][i].proposal_id = q}
          <6>1. \A i \in 1..n : i \in 1..(n + 1)
            BY <1>4
          <6> QED
            BY <1>6, <3>3, <6>1
        <5> QED
          BY <1>4, <1>6, <4>2, <5>1 DEF Mentions
      <4> QED
        BY <4>1, <4>2
    <3> QED
      BY <3>2, <3>4
  <2> QED
    BY <2>1, <2>2
<1>12. Challenged'
  <2>1. Enacted # Rejected
    BY DEF Enacted, Rejected
  <2> QED
    BY <1>2, <1>3, <2>1, ChallengesKept DEF LogTrue
<1> QED
  BY <1>10, <1>11, <1>12 DEF LogTrue

\* Every step keeps the log true.
LEMMA LogStep == TypeOK /\ PendingExact /\ LogTrue /\ [Next]_vars => LogTrue'
<1> SUFFICES ASSUME TypeOK, PendingExact, LogTrue, [Next]_vars PROVE LogTrue'
  OBVIOUS
<1>0. TypeOK'
  BY TypeStep
<1>1. ASSUME UNCHANGED <<proposals, releaseLog, counterAttestations>>, now' \in {now, now + 1}
      PROVE  LogTrue'
  <2>1. now <= now'
    BY <1>1 DEF TypeOK
  <2>2. EntriesTrue' /\ LoggedOnce'
    BY <1>0, <1>1, <2>1, LogKept DEF LogTrue
  <2>3. Challenged'
    BY <1>1, ChallengesKept DEF LogTrue
  <2> QED
    BY <2>2, <2>3 DEF LogTrue
<1>2. ASSUME NEW g \in Genesis, ProjectGenesis(g) PROVE LogTrue'
  BY <1>1, <1>2 DEF ProjectGenesis
<1>3. ASSUME NEW who \in Account, NEW project_id \in ProjectId, NEW version \in Version,
             NEW attestation \in BuildAttestation, NEW cid \in Cid, NEW signature \in Signature,
             NewRelease(who, project_id, version, attestation, cid, signature)
      PROVE  LogTrue'
  BY <1>0, <1>3, NewReleaseIsVoted, VotedLog
<1>4. ASSUME NEW who \in Account, NEW id \in ProposalId, NEW choice \in {"aye", "nay"},
             Vote(who, id, choice)
      PROVE  LogTrue'
  BY <1>0, <1>4, VoteIsVoted, VotedLog
<1>5. ASSUME NEW who \in Account, NEW id \in ProposalId, NEW rebuilt \in Hash,
             SubmitCounterAttestation(who, id, rebuilt)
      PROVE  LogTrue'
  BY <1>0, <1>5, RejectLog
<1>6. ASSUME NEW id \in ProposalId, CloseExpired(id) PROVE LogTrue'
  <2>1. /\ id \in DOMAIN proposals /\ proposals[id].status.tag \in {"Voting", "Approved"}
        /\ proposals' = [proposals EXCEPT ![id].status = Expired]
        /\ UNCHANGED <<now, releaseLog, counterAttestations>>
    BY <1>6 DEF CloseExpired
  <2>2. /\ DOMAIN proposals' = DOMAIN proposals
        /\ proposals'[id].status = Expired
        /\ \A q \in DOMAIN proposals : q # id => proposals'[q] = proposals[q]
    BY <2>1, StatusOnly
  <2>3. proposals'[id].status.tag = "Expired"
    BY <2>2 DEF Expired
  <2> QED
    BY <1>0, <2>1, <2>2, <2>3, ReopenLog
<1>7. CASE OnInitialize
  BY <1>1, <1>7 DEF OnInitialize
<1>8. CASE Enact
  <2>1. PICK id \in DOMAIN proposals :
             /\ proposals[id].status = Approved(now)
             /\ EnactAppended(id) \/ EnactReverted(id)
             /\ UNCHANGED <<now, counterAttestations>>
    BY <1>8, EnactDecides
  <2>2. CASE EnactAppended(id)
    BY <1>0, <2>1, <2>2, AppendLog
  <2>3. CASE EnactReverted(id)
    <3>1. /\ proposals[id].status.tag \in {"Voting", "Approved"}
          /\ proposals' = [proposals EXCEPT ![id].status = Voting]
          /\ UNCHANGED releaseLog
      BY <2>1, <2>3 DEF EnactReverted, Approved
    <3>2. /\ DOMAIN proposals' = DOMAIN proposals
          /\ proposals'[id].status = Voting
          /\ \A q \in DOMAIN proposals : q # id => proposals'[q] = proposals[q]
      BY <3>1, StatusOnly
    <3>3. proposals'[id].status.tag = "Voting"
      BY <3>2 DEF Voting
    <3> QED
      BY <1>0, <2>1, <3>1, <3>2, <3>3, ReopenLog
  <2> QED
    BY <2>1, <2>2, <2>3
<1>9. CASE UNCHANGED vars
  BY <1>1, <1>9 DEF vars
<1> QED
  BY <1>2, <1>3, <1>4, <1>5, <1>6, <1>7, <1>8, <1>9 DEF Next

\* The Official Release Log holds each enacted proposal exactly once, with the
\* artifact that was voted on and in block order, and a proposal is rejected
\* exactly when a counter-attestation is on record.
THEOREM LogAlwaysMatches == Spec => []LogMatchesProposals
<1>1. Init => LogTrue
  BY DEF Init, LogTrue, EntriesTrue, LoggedOnce, Challenged
<1> QED
  BY <1>1, LogStep, LogParts, TypeCorrect, PendingAlwaysExact, PTL DEF Spec
=============================================================================
