---------------------------- MODULE Distribution ----------------------------
(***************************************************************************)
(* The way of a release from the source tree to an installed target:       *)
(* builder processes pin to the store, the chain blesses attested binaries *)
(* and the client syncs, all at the same time.  Of the chain only the      *)
(* append-only log is left (ReleaseLedger): new_release has checked the    *)
(* Build Service's signature, but neither the version string nor           *)
(* attestation_cid, which are what the proposer says they are.             *)
(***************************************************************************)
EXTENDS BuildService, ReleaseClient

CONSTANTS
    ReleaseVersion,     \* version strings proposed
    StrayCid,           \* content addresses under which nothing was ever pinned
    MaxLog              \* bound: entries of the log

ASSUME DistributionAssumption == MaxLog \in Nat

distributionVars == <<buildVars, store, log, clientVars>>

DistributionInit == BuildInit /\ StoreInit /\ ClientInit

\* A proposal carrying a finished build is enacted.
Bless(att, version, cid) ==
    /\ Len(log) < MaxLog
    /\ att.builder \in Registered
    /\ log' = Append(log, [version |-> version,
                           source_commit_hash |-> att.source_commit_hash,
                           output_binary_hash |-> att.output_binary_hash,
                           attestation_cid |-> cid])
    /\ UNCHANGED <<buildVars, store, clientVars>>

Client == ClientStep /\ UNCHANGED <<buildVars, store, log>>

DistributionNext ==
    \/ BuildNext /\ UNCHANGED <<log, clientVars>>
    \/ \E att \in built, version \in ReleaseVersion,
          cid \in {Sha256(a) : a \in built} \cup StrayCid : Bless(att, version, cid)
    \/ Client
    \/ Crash /\ UNCHANGED <<buildVars, store, log>>

DistributionSpec == DistributionInit /\ [][DistributionNext]_distributionVars

\* A running process goes on, and a client that has ended is started again.
\* Builders need not start, releases need not be blessed, nothing need crash.
FairDistribution ==
    /\ DistributionSpec
    /\ WF_distributionVars(Client)
    /\ \A p \in Process :
          WF_distributionVars((PutOpen(p) \/ PutWrite(p)) /\ UNCHANGED <<log, clientVars>>)

-----------------------------------------------------------------------------
Newest(i, count) == \A j \in (i + 1)..count : log[j].version # log[i].version

\* The target on disk is the blessed binary.
TargetIsBlessed(entry) == Sha256(Target(entry.version).binary) = entry.output_binary_hash

\* What syncProject reports is so: when it returns, the target of every version
\* among the entries it counted is the binary of the newest such entry, whatever
\* was blessed, pinned, torn or interrupted since the client first ran.
SyncReportTrue ==
    ClientAt("returned") =>
        \A i \in 1..client.count : Newest(i, client.count) => TargetIsBlessed(log[i])

\* An installation that completes leaves a target and an .attestation.json that
\* belong together, signed by a Build Service of the project, for an entry of
\* the log; a concurrent builder or an earlier crash can not mix them up.
InstalledPairBinds ==
    [][ClientAt("writeAttestation") /\ client'.at = "entry" =>
          LET pair == installed'[client.entry.version]
          IN  /\ pair.attestation.kind = "A_build"
              /\ pair.attestation.output_binary_hash = Sha256(pair.binary)
              /\ pair.attestation.builder \in Registered
              /\ SignatureOk(pair.attestation)
              /\ \E i \in 1..Len(log) :
                    /\ log[i].version = client.entry.version
                    /\ log[i].output_binary_hash = Sha256(pair.binary)]_distributionVars

\* Both artifacts of an entry are in the store and the checks will accept them.
Verifiable(entry) ==
    /\ StoreReadable(entry.output_binary_hash)
    /\ StoreReadable(entry.attestation_cid)
    /\ BindsEntry(store[entry.attestation_cid], entry)
    /\ store[entry.attestation_cid].builder \in Registered
    /\ SignatureOk(store[entry.attestation_cid])

AllVerifiable == \A i \in 1..Len(log) : Verifiable(log[i])
InstallComplete == \A i \in 1..Len(log) : Newest(i, Len(log)) => TargetIsBlessed(log[i])

\* When all the blessed entries are, in the end, verifiable, the client gets
\* every version installed, again and again, in spite of crashes in the middle
\* of a write and of errors on artifacts it found half written.
EventuallyInstalled == <>[]AllVerifiable => []<>InstallComplete

\* "For every blessed entry it fetches the attestation and binary ... and then
\* installs the binary": an entry that is and stays verifiable is installed.
EveryBlessedEntryInstalled ==
    \A i \in 1..MaxLog :
        <>[](i <= Len(log) /\ Verifiable(log[i])) => <>(i <= Len(log) /\ TargetIsBlessed(log[i]))
=============================================================================
