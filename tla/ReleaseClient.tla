---------------------------- MODULE ReleaseClient ----------------------------
(***************************************************************************)
(* tools/client: syncProject in its watch loop, and verifyAndInstall.  The *)
(* client awaits the chain between its steps, so that the Official Release *)
(* Log grows meanwhile; it shares the store with the builders; and it can  *)
(* be killed between any two system calls.  An error ends the process;     *)
(* whoever runs the client starts it again.  The project's name never      *)
(* changes, so an install target is named by the version alone.            *)
(***************************************************************************)
EXTENDS ArtifactStore, Sequences

CONSTANTS
    Registered,     \* accounts the registry lists as Build Service of the project
    MaxCrashes      \* bound: the client killed

ASSUME ReleaseClientAssumption == MaxCrashes \in Nat

VARIABLES
    log,            \* the project's ReleaseLog on the chain
    client,         \* the client process: where it is and what it has read
    installed,      \* ./install: per version, the target and its .attestation.json
    crashes         \* used up of the bound

clientVars == <<client, installed, crashes>>

Down == [at |-> "down"]
NoTarget == [binary |-> [kind |-> "none"], attestation |-> [kind |-> "none"]]

ClientInit ==
    /\ log = <<>>
    /\ client = Down
    /\ installed = [v \in {} |-> NoTarget]
    /\ crashes = 0

ClientAt(stage) == client.at = stage

Target(v) == IF v \in DOMAIN installed THEN installed[v] ELSE NoTarget

\* writeFileSync of one of the two files of version v
WriteTarget(v, file, bytes) ==
    installed' = [w \in DOMAIN installed \cup {v} |->
                    IF w = v THEN [Target(v) EXCEPT ![file] = bytes] ELSE installed[w]]

\* An error thrown by a verification ends syncProject and the process.
Throw == client' = Down /\ UNCHANGED installed

StartClient ==
    /\ ClientAt("down")
    /\ client' = [at |-> "count"]
    /\ UNCHANGED <<installed, crashes>>

ReadCount ==
    /\ ClientAt("count")
    /\ client' = [at |-> "entry", count |-> Len(log), i |-> 1]
    /\ UNCHANGED <<installed, crashes>>

NextEntry == [at |-> "entry", count |-> client.count, i |-> client.i + 1]

\* Mutant: a target that is there is taken for installed.
TargetExists(entry) == entry.version \in DOMAIN installed

\* The target exists and has the blessed content.
AlreadyInstalled(entry) ==
    entry.version \in DOMAIN installed /\ Sha256(Target(entry.version).binary)
                                            = entry.output_binary_hash

ReadEntry ==
    /\ ClientAt("entry")
    /\ client.i <= client.count
    /\ LET entry == log[client.i]
       IN  client' = IF AlreadyInstalled(entry)
                     THEN NextEntry
                     ELSE [at |-> "fetch", count |-> client.count, i |-> client.i,
                           entry |-> entry]
    /\ UNCHANGED <<installed, crashes>>

\* Mutant: the attestation need not be the one the vote was about.
AnyAttestation(att, entry) == TRUE

\* A_build is the one the vote was about.
BindsEntry(att, entry) ==
    /\ att.kind = "A_build"
    /\ att.output_binary_hash = entry.output_binary_hash
    /\ att.source_commit_hash = entry.source_commit_hash

FetchAttestation ==
    /\ ClientAt("fetch")
    /\ LET cid == client.entry.attestation_cid
       IN  IF StoreReadable(cid) /\ BindsEntry(store[cid], client.entry)
           THEN /\ client' = [at |-> "verify", count |-> client.count, i |-> client.i,
                              entry |-> client.entry, att |-> store[cid]]
                /\ UNCHANGED installed
           ELSE Throw
    /\ UNCHANGED crashes

\* sr25519Verify over signingPayload(att)
SignatureOk(att) ==
    /\ att.builder_signature.key = att.builder
    /\ att.builder_signature.payload =
         [source_commit_hash |-> att.source_commit_hash,
          source_tree_hash |-> att.source_tree_hash,
          output_binary_hash |-> att.output_binary_hash]

VerifyBuilder ==
    /\ ClientAt("verify")
    /\ LET cid == client.entry.output_binary_hash
       IN  IF client.att.builder \in Registered /\ SignatureOk(client.att) /\ StoreReadable(cid)
           THEN /\ client' = [at |-> "openBinary", count |-> client.count, i |-> client.i,
                              entry |-> client.entry, att |-> client.att, binary |-> store[cid]]
                /\ UNCHANGED installed
           ELSE Throw
    /\ UNCHANGED crashes

OpenFile(stage, file, next) ==
    /\ ClientAt(stage)
    /\ WriteTarget(client.entry.version, file, Torn)
    /\ client' = [client EXCEPT !.at = next]
    /\ UNCHANGED crashes

WriteBinary ==
    /\ ClientAt("writeBinary")
    /\ WriteTarget(client.entry.version, "binary", client.binary)
    /\ client' = [client EXCEPT !.at = "openAttestation"]
    /\ UNCHANGED crashes

WriteAttestation ==
    /\ ClientAt("writeAttestation")
    /\ WriteTarget(client.entry.version, "attestation", client.att)
    /\ client' = NextEntry
    /\ UNCHANGED crashes

\* All entries are visited: syncProject returns, and the watch loop begins anew.
SyncReturns ==
    /\ ClientAt("entry")
    /\ client.i > client.count
    /\ client' = [at |-> "returned", count |-> client.count]
    /\ UNCHANGED <<installed, crashes>>

WatchAgain ==
    /\ ClientAt("returned")
    /\ client' = [at |-> "count"]
    /\ UNCHANGED <<installed, crashes>>

Crash ==
    /\ ~ClientAt("down")
    /\ crashes < MaxCrashes
    /\ crashes' = crashes + 1
    /\ client' = Down
    /\ UNCHANGED installed

ClientStep ==
    \/ StartClient
    \/ ReadCount
    \/ ReadEntry
    \/ FetchAttestation
    \/ VerifyBuilder
    \/ OpenFile("openBinary", "binary", "writeBinary")
    \/ WriteBinary
    \/ OpenFile("openAttestation", "attestation", "writeAttestation")
    \/ WriteAttestation
    \/ SyncReturns
    \/ WatchAgain
=============================================================================
