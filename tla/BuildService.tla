---------------------------- MODULE BuildService ----------------------------
(***************************************************************************)
(* tools/builder: processes that run buildAndAttest on one source tree and *)
(* pin binary and attestation to the store they share.  A process reads    *)
(* the tree twice (compile, sourceTreeHash), signs what it read, and can   *)
(* be killed between any two system calls.  build_environment_hash is the  *)
(* digest of the builder's own file, the same for every process, and is    *)
(* left out.                                                               *)
(***************************************************************************)
EXTENDS ArtifactStore

CONSTANTS
    Process,        \* builder processes
    Job,            \* command lines: [version, commit, inject, builder]
    Tree,           \* contents the source tree may have
    FirstTree,      \* the content it starts with
    MaxBuilds,      \* bound: calls of buildAndAttest
    MaxEdits,       \* bound: edits of the source tree
    MaxKills        \* bound: builder processes killed

ASSUME BuildServiceAssumption ==
    /\ FirstTree \in Tree
    /\ MaxBuilds \in Nat /\ MaxEdits \in Nat /\ MaxKills \in Nat

VARIABLES
    tree,           \* the source tree in fixtures/
    building,       \* per process: the stage of buildAndAttest and what it has computed
    built,          \* the attestations of the calls that have returned
    builds,         \* calls so far; also numbers the signatures
    edits, kills    \* used up of the bounds

buildVars == <<tree, building, built, builds, edits, kills>>

\* compile is deterministic: a binary is determined by what went into it.
Compile(content, version, commit, inject) ==
    [kind |-> "binary", tree |-> content, version |-> version, commit |-> commit,
     inject |-> inject]

\* The bytes a Build Service signs.
BuildPayload(att) ==
    [source_commit_hash |-> att.source_commit_hash,
     source_tree_hash |-> att.source_tree_hash,
     output_binary_hash |-> att.output_binary_hash]

\* An sr25519 signature is randomised: signing the same bytes again gives another
\* valid signature, and so another attestation file.
SignedBy(builder, att, nonce) ==
    [key |-> builder, payload |-> BuildPayload(att), nonce |-> nonce]

Idle == [at |-> "idle"]

BuildInit ==
    /\ tree = FirstTree
    /\ building = [p \in Process |-> Idle]
    /\ built = {}
    /\ builds = 0
    /\ edits = 0
    /\ kills = 0

At(p, stage) == building[p].at = stage

StartBuild(p, job) ==
    /\ At(p, "idle")
    /\ builds < MaxBuilds
    /\ builds' = builds + 1
    /\ building' = [building EXCEPT ![p] =
                      [at |-> "attest", job |-> job, nonce |-> builds,
                       binary |-> Compile(tree, job.version, job.commit, job.inject)]]
    /\ UNCHANGED <<tree, built, edits, kills, store>>

AttestationOf(job, binary, content, nonce) ==
    LET fields == [source_commit_hash |-> job.commit,
                   source_tree_hash |-> Sha256(content),
                   output_binary_hash |-> Sha256(binary)]
    IN  [kind |-> "A_build", version |-> job.version,
         source_commit_hash |-> fields.source_commit_hash,
         source_tree_hash |-> fields.source_tree_hash,
         output_binary_hash |-> fields.output_binary_hash,
         builder |-> job.builder,
         builder_signature |-> SignedBy(job.builder, fields, nonce)]

Attest(p) ==
    /\ At(p, "attest")
    /\ LET b == building[p]
           att == AttestationOf(b.job, b.binary, tree, b.nonce)
       IN  building' = [building EXCEPT ![p] =
                          [at |-> "exists", todo |-> <<b.binary, att>>, att |-> att]]
    /\ UNCHANGED <<tree, builds, built, edits, kills, store>>

\* What storePut is about to pin: first the binary, then the attestation.
Item(p) == building[p].todo[1]

Pinned(p) ==
    IF Item(p) = building[p].att
    THEN /\ building' = [building EXCEPT ![p] = Idle]
         /\ built' = built \cup {building[p].att}
    ELSE /\ building' = [building EXCEPT ![p] = [@ EXCEPT !.at = "exists",
                                                          !.todo = <<building[p].att>>]]
         /\ UNCHANGED built

\* Mutant: the negation is lost.
PutExistsNegated(p) ==
    /\ At(p, "exists")
    /\ IF ~StoreExists(Sha256(Item(p)))
       THEN Pinned(p)
       ELSE building' = [building EXCEPT ![p].at = "open"] /\ UNCHANGED built
    /\ UNCHANGED <<tree, builds, edits, kills, store>>

PutExists(p) ==
    /\ At(p, "exists")
    /\ IF StoreExists(Sha256(Item(p)))
       THEN Pinned(p)
       ELSE building' = [building EXCEPT ![p].at = "open"] /\ UNCHANGED built
    /\ UNCHANGED <<tree, builds, edits, kills, store>>

PutOpen(p) ==
    /\ At(p, "open")
    /\ StoreWrite(Sha256(Item(p)), Torn)
    /\ building' = [building EXCEPT ![p].at = "write"]
    /\ UNCHANGED <<tree, builds, built, edits, kills>>

PutWrite(p) ==
    /\ At(p, "write")
    /\ StoreWrite(Sha256(Item(p)), Item(p))
    /\ Pinned(p)
    /\ UNCHANGED <<tree, builds, edits, kills>>

Kill(p) ==
    /\ ~At(p, "idle")
    /\ kills < MaxKills
    /\ kills' = kills + 1
    /\ building' = [building EXCEPT ![p] = Idle]
    /\ UNCHANGED <<tree, builds, built, edits, store>>

EditTree(content) ==
    /\ content # tree
    /\ edits < MaxEdits
    /\ edits' = edits + 1
    /\ tree' = content
    /\ UNCHANGED <<building, built, builds, kills, store>>

BuildStep(p) ==
    \/ \E job \in Job : StartBuild(p, job)
    \/ Attest(p)
    \/ PutExists(p)
    \/ PutOpen(p)
    \/ PutWrite(p)

BuildNext ==
    \/ \E p \in Process : BuildStep(p) \/ Kill(p)
    \/ \E content \in Tree : EditTree(content)

BuildSpec == BuildInit /\ StoreInit /\ [][BuildNext]_<<buildVars, store>>

-----------------------------------------------------------------------------
\* As long as no process was killed, the binary and the attestation of every finished
\* build can be read back, except while another process that found the file
\* missing, too, has truncated it and is about to write the same bytes again.
PinnedUnlessRewritten ==
    kills = 0 => \A att \in built : \A cid \in {Sha256(att), att.output_binary_hash} :
        \/ StoreReadable(cid)
        \/ \E p \in Process : At(p, "write") /\ Sha256(Item(p)) = cid

\* "pins both binary and attestation to the local content-addressed store": when
\* a build has returned and no process is at work, both can be read back.
PinnedIsReadable ==
    (\A p \in Process : At(p, "idle")) =>
        \A att \in built : StoreReadable(Sha256(att)) /\ StoreReadable(att.output_binary_hash)

\* "Anyone can re-run the build in the named environment and check that their
\* H(B') equals the attested output_binary_hash": building the tree that an
\* honest attestation names gives the binary that it names.
HonestBuildReproducible ==
    \A att \in built : \A content \in Tree :
        Sha256(content) = att.source_tree_hash =>
            Sha256(Compile(content, att.version, att.source_commit_hash, FALSE))
              = att.output_binary_hash
=============================================================================
