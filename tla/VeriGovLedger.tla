---------------------------- MODULE VeriGovLedger ----------------------------
(***************************************************************************)
(* The pallet implements ReleaseLedger: the refinement mapping.            *)
(***************************************************************************)
EXTENDS VeriGov

ArtifactType == [version : Version, source_commit_hash : Source,
                 output_binary_hash : Hash, attestation_cid : Cid]

ProposedArtifact(p) ==
    [version |-> p.version,
     source_commit_hash |-> p.attestation.source_commit_hash,
     output_binary_hash |-> p.attestation.output_binary_hash,
     attestation_cid |-> p.attestation_cid]

LoggedArtifact(entry) ==
    [version |-> entry.version,
     source_commit_hash |-> entry.source_commit_hash,
     output_binary_hash |-> entry.output_binary_hash,
     attestation_cid |-> entry.attestation_cid]

ledgerBar ==
    [id \in DOMAIN proposals |->
        [project |-> proposals[id].project_id,
         artifact |-> ProposedArtifact(proposals[id]),
         phase |-> proposals[id].status.tag,
         due |-> proposals[id].status.enact_at]]

logBar ==
    [j \in ProjectId |->
        [i \in 1..Len(releaseLog[j]) |->
            [proposal |-> releaseLog[j][i].proposal_id,
             artifact |-> LoggedArtifact(releaseLog[j][i])]]]

Ledger == INSTANCE ReleaseLedger
            WITH Project <- ProjectId, Proposal <- ProposalId, Artifact <- ArtifactType,
                 Time <- Block, clock <- now, ledger <- ledgerBar, log <- logBar

\* The pallet implements the abstract release ledger when every enactment delay
\* is at least one block: whatever is voted, challenged and enacted, each step
\* of the pallet is a step of the ledger or leaves it alone.
ImplementsLedger == Ledger!LedgerSpec
=============================================================================
