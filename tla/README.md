# VeriGov in TLA+

TLA+ models of VeriGov: the governance pallet (`src/pallets/verigov`), the currency holds it relies
on, the quorum arithmetic, the off-chain tools (`src/tools`) that build, pin, verify and install
releases, the nodes (`src/node`) with the runtime they execute (`src/runtime`), and the glue between
tools and node. TLC checks them on small instances; TLAPS proves the safety invariants and action
properties of the passing runs (all but `ResolvedStands`), and the refinement, for all values of the
constants (section 4).

## 1. The system

| Part | State | Operations | Talks to |
|---|---|---|---|
| **pallet-verigov** (`pallets/verigov/src/lib.rs`) | projects, stakeholder registry, role stake, proposals, votes, tallies, release log, counter-attestations, pending enactments | `project_genesis`, `new_release`, `vote`, `submit_counter_attestation`, `close_expired`, `on_initialize` | currency (holds), block production |
| **VGOV currency** (pallet-balances, external) | free balance; one held amount per account and reason | `hold`, `release` and `burn_held` (best effort) | called by the pallet |
| **Eq. 1 arithmetic** (`meets_quorums`, `perbill` of the tools) | none | cross-multiplied comparison, Perbill rounding, saturation | pallet, tools |
| **Official Release Log** | the append-only log, read by clients | appended by enactment | pallet writes, client reads |
| **Artifact store** (`tools/lib/common.js`) | files named by their digest | `storePut`, `storeGet` | builders write, client reads |
| **Build Service tool** (`tools/builder/build.js`) | processes in `buildAndAttest`, the source tree | compile, hash, sign, pin | store |
| **Client** (`tools/client/client.js`) | a sync in progress, `./install` | `syncProject`, `verifyAndInstall`, watch loop | chain, store |
| **Runtime** (`runtime/src`) | nonces and balances, derived from a chain | genesis presets, `validate_transaction`, `apply_extrinsic`, `execute_block` | called by the node |
| **Node** (`node/src`) | database (blocks, best, finalized, GRANDPA voter), transaction pool, Aura worker | author, import, gossip, vote, complete a round, finalize, justification import, start, stop, `purge-chain`, `revert`, `import-blocks` | peers, runtime, RPC |
| **Chain glue** (`signAndSend`, `waitFor`) | one promise and one subscription per call, one polling loop | sign, submit, settle; poll with a deadline | node |
| **Demo and scripts** | test drivers | the calls sent through the glue | chain glue |

What is hard here:

* *Sequences of legal calls.* A proposal can be approved, revoked, approved again, challenged or
  expire; its place in `PendingEnactments`, its status, its bond and the tallies are four records of
  the same fact, updated by different calls.
* *Shared holds.* An account has one hold per reason for all its projects and proposals, and release
  and burn are best effort: taking the wrong amount fails silently and hits someone else's money.
* *Stale values.* Tallies are incremental and remember weights; a slash changes stakes afterwards.
* *Blocks and boundaries.* `on_initialize` runs before the block's extrinsics; delays may be 0, quorums
  may be met exactly, the queue of a block may be full when a vote wants to approve.
* *Concurrent, killable processes.* Builders and client share files without locks or atomic renames,
  and the client reads the chain one await at a time while it grows.
* *Forks and restarts.* An extrinsic is signed against one branch and may be included on another, come
  back from a retracted block, or be overtaken by a second call that read the same nonce; nodes stop in
  the middle of a slot or between a vote and its effect, and their databases are purged (even under
  a node that runs), reverted and filled from files.

The hazards, each at its line and with the properties that watch it, are listed in `PROJECT.json`.

## 2. Modules

| Module | What it is |
|---|---|
| `Perbill` | saturating arithmetic, `MulFloor`, `RoleQuorumMet` (one role of `meets_quorums`) |
| `Currency` | free and held balances as the pallet uses them (external crate) |
| `VeriGov` | the pallet: one variable per storage item, one action per extrinsic, `OnInitialize` and `Enact` |
| `ReleaseLedger` | abstract: what the pallet promises to the readers of the release log |
| `VeriGovLedger` | the refinement mapping from `VeriGov` to `ReleaseLedger` |
| `ReleaseLedgerProofs` | proofs of what the abstract ledger promises |
| `VeriGovProofs` | types and the agreement of vectors and statuses; from those two the time lock and the status against the tallies |
| `FiniteSums` | lemmas on `SumFunction` and `SumFunctionOnSet` over finite sets, and induction by least counterexample (used by `BooksProofs` and `NodeProofs`) |
| `BooksProofs` | holds, bonds, role stakes, slashes and tallies against the registry, and the conservation of money: the theorems with sums |
| `LedgerProofs` | the refinement, what follows from it for the pallet, and the release log |
| `QuorumRounding` | the policy fraction, rounded by the tools, against the comparison of the pallet (`EXTENDS VeriGov`) |
| `RoundingProofs` | proofs about `QuorumRounding` |
| `ArtifactStore` | the store directory: torn files, content check on reading |
| `BuildService` | builder processes on the store (`EXTENDS ArtifactStore`) |
| `ReleaseClient` | the client process (`EXTENDS ArtifactStore`) |
| `Distribution` | builders, store, log and client together |
| `ToolProofs` | proofs about `Distribution` |
| `Runtime` | genesis presets, the demo's calls as signed extrinsics with their eras, what a block does to nonces and balances (operators only) |
| `Node` | a network of nodes and the commands on their databases (`EXTENDS Runtime`) |
| `ChainGlue` | `signAndSend` calls and a `waitFor` loop on one of the nodes (`EXTENDS Node`) |
| `NodeProofs` | proofs about `ChainGlue` and the nodes under it |
| `MCVeriGov`, `MCLifecycle`, `MCBuildService`, `MCDistribution`, `MCNetwork` | instances for TLC |

### State and actions of the pallet

A storage map that starts empty is a function whose domain is the set of keys present (`projects`,
`proposals`, `counterAttestations`); a `ValueQuery` map is a total function at its default
(`roleStake`, `tallies`, `pendingEnactments`). `Stakeholders` and `Votes` use a marker for an absent
key. `ReleaseLog` and `ReleaseCount` are one sequence per project.

FRAME runs a call in a storage transaction: every `ensure!` and every `?` that fails rolls the call
back. So an error is a step that changes nothing, and its condition is a guard of the action, also
when it comes late: `Approve` has the guard `Len(...) < MaxEnactmentsPerBlock` although `do_vote` has
written the tally by then.

`on_initialize` takes the block's vector and enacts one id after the other. `OnInitialize` takes it
into `enacting`, `Enact` handles its head, and no extrinsic runs until it is empty, as in a block.

Mutants of definitions (`KeepingRetain`, `ApproveAtOnce`, ...) stand before the definition they vary;
nothing else uses them. `PROJECT.json` says which property each one breaks.

Abstractions: hashes and versions are small sets; the three source digests of an attestation are one
value (they are only compared and signed together); a signature is its key and what it covers;
required roles and genesis stakeholders are sets (their order is only visible in events). The
compared `required_roles` list may name a role twice with different quorums, and so may the set.
`retain` is written for a vector without repetition, which `PendingExact` establishes.

### State and actions of the tools

A digest is an injective constructor on contents, a compile is a constructor on its inputs (it is
deterministic), and a signature carries a number because sr25519 signing is randomised: two builds
of one commit share the binary, never the attestation. `writeFileSync` is two steps, opening with
truncation (the file is `Torn`) and writing; `existsSync` is one before them. A process can be killed
between any two. A thrown error ends the client, which someone starts again. The role of a builder
never changes on chain, so the `stakeholders` query of the client is the constant set `Registered`.

### State and actions of the nodes and the glue

A block is its slot and its extrinsics, a chain is the sequence of its blocks, and a chain stands for
the hash of its last block, because a header commits to its parent. State is recomputed from a chain
with `StateOf`; a database is the set of chains a node has, its best and its finalized one.

`service.rs` chooses and connects crates that are not in the repository (client, pool, Aura, GRANDPA,
network), so what they do is modelled from the parameters it passes: `LongestChain` is `Chosen`; the
import queue with its GRANDPA block import is `Import` and `ImportJustification`; `start_aura` with its
slot from the clock, `force_authoring` and no back-off is `Author`; the default voting rules are
`VotingDepth`; both tasks are essential, so their failure is a `Stop` of the node. The worker of a
started node waits for the next slot (`Start`), which is what keeps it from signing twice. Imports
arrive in any order and at any time, so an author building on an old parent is an author that has not
imported yet.

GRANDPA (external) is modelled vote by vote. `Precommit` puts a vote on disk and sends it; `NextRound`
is one voter that has a vote of everyone and goes on from the last block the votes share;
`FinalizeCommit` is one node, voter or not, that has seen a supermajority of a round. The votes are a
set that only grows, from which each node takes what has reached it, so votes are delayed, reordered or
lost at will, and between any two of these steps a node may stop, be reverted or purged. Prevotes are
left out: they restrict what may be voted for, so the model allows more votes than the protocol.
`NextRound` waits for all authorities, which is what a supermajority of up to three is; the presets
have one or two. A finalized block off the best chain becomes the best block itself (`BestAbove`), as
in the client.

`purge-chain` gets only the database's path (`command.rs:90`), opens nothing and takes no lock. Under
a running node the files go and the node works on with what it has open (`unlinked`), until it stops
and loses it; on a stopped node they are lost at once. The other commands call `new_partial`, which
the lock of a running node keeps out.

The pool holds at most `PoolLimit` extrinsics (`config.transaction_pool`, `service.rs:73`) and drops
those of the lowest priority; an extrinsic with the tag of a waiting one replaces it if its priority
is higher and is refused otherwise. `Priority` is a constant, since length and weight, which it
depends on, are not modelled.

Extrinsics are the ones the demo sends (`demo.js:79-106`, `146-231`): the faucet's
`sudo(forceSetBalance)`, `sudo(projectGenesis)`, `newRelease`, `vote` and `submitCounterAttestation`,
each by what it does to balances and with the checks that make it fail here; the pallet behind them is
`VeriGov`. The sudo key gets its fee back, a sudo call that fails inside succeeds as an extrinsic, and
a failed call leaves fee and nonce spent. The cast is cut down to Bob (Core Developer, endowed by both
presets) and Charlie (Build Service, endowed by the local one only). Fees are one amount.

polkadot-js (external) signs: an extrinsic carries the phase of its mortal era and, in its signature,
the block it was signed at. `CheckEra` compares that block with the one the verifying chain has at the
birth it computes from the phase. `MortalPeriod` is polkadot-js's, a constant here. In the pool a nonce
may lie ahead; in a block it must be the next. A call's nonce is what the node answers or, as in the
demo's faucet, one counted on by hand (`Nonces`).

`signAndSend` is four steps: `Sign` (nonce and anchor are read), `Submit`, the pool's reports that
come with the steps of the nodes (`Watched`), and `Callback`. Between any two of them nodes and other
calls go on. A stopped node ends the subscription for good, and a status the callback ignores leaves
the promise pending, as in the code. `waitFor` is the query, its answer, the test after the await, and
the timer; between the answer and the test the deadline may pass.

## 3. Runs

Fractions are in tenths (`ACCURACY = 10`), balances small; the proofs have no such bounds. All bounds
are constants with "bound" in their declaration. Deadlock checking is off where the horizon or the
number of builds ends a behaviour.

| Run | Shows |
|---|---|
| `lifecycle` | one proposal, four stakeholders, six blocks (period 2, delay 2: approve, revoke, re-approve at another block, expire): `TypeOK`, `NoMissedEnactment`, `StatusTracksQuorums`, `AcceptedIffEqOne`, `TalliesRecount`, `EnactedOnTime`, and `ApprovalResolves` under `FairSpec`; malformed geneses are refused; for the stakes of its roles, slashed or not, every aye stake and all fractions up to denominator 7, the rounding of a policy: `NoRatioRefused`, `ShortfallBelowOnePart` |
| `expiry` | policies that require the Build Service, which is slashed to nothing while proposals are approved: `ProposalsEnd` under `FairSpec`. If blocks are produced and someone keeps calling `close_expired`, no proposal stays open and no bond stays held, also of a proposal that falls back to voting at its enactment block, after its voting period |
| `pair` | two proposals in flight, under three geneses: shared holds and slots of one proposer; the Build Service as a required role that loses everything before enactment; two Build Services slashed while they vote: `PendingExact`, `EscrowMatchesBooks`, `LogMatchesProposals`, `SlashOnlyOnRejection`, `FundsConserved` (bonds come back whole, only a slash burns money), `NoMissedEnactment`, `TalliesCoverVotes` (recorded weights go stale upwards only), `StaleUntilTouched` (a status left behind by a slash is right again as soon as a vote changes the tally or the status moves) |
| `two_projects` | the same people in two projects with different terms, one enactment slot per block: shared holds never mix (`EscrowMatchesBooks`, `SlashOnlyOnRejection`), a vote that finds the block full fails as a whole (`AcceptedIffEqOne`, `PendingExact`); `VeriGov` implements `ReleaseLedger` (`ImplementsLedger`) |
| `install` | two builders racing on one binary, an edited tree, the chain and a client, one kill of each kind, stray addresses, equal versions: `PinnedUnlessRewritten`, `SyncReportTrue`, `InstalledPairBinds`, and `EventuallyInstalled` under `FairDistribution` |
| `network` | two nodes with authority role on the development or the local preset, the tools on one of them: no replay: a nonce is the number of its account's earlier extrinsics (`NonceOrder`), eras hold across forks (`EraRespected`), no account that signed or has money on hold falls below the existential deposit (`SignersStayAlive`: a reaped one would start again at nonce 0, so `NonceOrder` rests on it), nobody signs twice for a slot (`NoEquivocation`); a sole authority never reorganises (`SoleAuthorityNoReorg`), and there what a resolved promise stands for is on the chain and stays, the project of a `projectGenesis` included (`ResolvedStands`); promises settle on a report (`ReportSettles`); `waitFor` ends (`WaitEnds`). With a full node too, votes and finalizations step by step: databases stay trees with the finalized block on the best chain (`NodeTypeOK`); no two nodes finalize contradicting chains unless an authority was purged (`FinalityAgreement`); only `purge-chain` takes finality back (`FinalityKept`) |

Why the bounds are enough: two proposals are the least that share a hold, a proposer, a builder and
an enactment slot, and two projects the least that share an account; no action relates more than two
of either. The horizons let an approval be given, taken back, given again for another block and
enacted. Two log entries give a duplicate version and an entry behind a bad one; two builders give
every race on a file; one kill suffices to tear a file, and what follows is the unbounded rest of the
behaviour. In `network` every behaviour starts some nodes on one chain with a budget of slots, rounds,
stops and commands and with a script of calls (`NetworkBudgets`, thirteen of them): four slots are enough
for a fork, a reorganisation and an era that runs out (`MortalPeriod = 4`, `BlockHashCount = 5`); two
calls are enough for a nonce that is read twice, three for a pool that is full (`PoolLimit = 2`) and for an
account that runs out of money; one stop and one command put every command between two runs of a node.
`VotingDepth` is 0, where the default voting rule of GRANDPA is 2, so that finality happens within these
slots; the proofs are for every depth. The budgets with a full node (`FinalityBudgets`) have no
extrinsics: finality does not look at them. Two slots give two authors and a fork, two rounds a vote
after a round that others have not seen completed.

That *no* authority may have been purged is needed in `FinalityAgreement`. With two rounds, one stop and
one command TLC finds this when the premise only asks that *some* authority was not: Alice votes for
genesis in round 1, is purged while she runs, stops, starts again and votes a second time in the same
round, now for a new block. One node finalizes that block with her second vote; the other counts her
first vote, completes the round below the block, and goes on to vote in round 2 for the other branch,
which is then finalized as well.

Fairness: `FairSpec` asks that blocks are produced (Aura authors one in every slot) and that
`on_initialize` runs to its end; nobody is obliged to send an extrinsic. `FairDistribution` asks that
a client keeps running or is restarted and that a builder which has opened a file goes on; nothing
forces builds or blessings. The premise of `EventuallyInstalled` is that all blessed entries are
verifiable in the end. `GlueSpec` asks that the clock goes on, that the event loop of the tools runs
its callbacks and timers, and that a connection answers a query or breaks; no node has to author,
import, finalize or start again, and no call has to be made.

### Where the code departs from its documentation

| Run | Property | What happens |
|---|---|---|
| `stale_weight` | `ApprovalBackedByStake` | a slash leaves the tallies alone: with a required Build Service role, a proposal is approved although the ayes' stake is below the quorum ("accepted iff", `lib.rs:12`) |
| `late_objection` | `VotesOpenUntilEnactment` | voting ends at `voting_ends` even if enactment is later ("Votes stay open until enactment", `lib.rs:559`) |
| `zero_delay` | `ApprovalResolves` | with `enactment_delay = 0` the proposal waits for a block that has begun ("will be appended ... at `enact_at`", `lib.rs:169`) |
| `torn_pin` | `PinnedIsReadable` | a torn file counts as pinned for ever ("pins both binary and attestation", `build.js:4`) |
| `edited_tree` | `HonestBuildReproducible` | compile and tree hash read the tree at different times ("Anyone can re-run the build", `README.md:85`) |
| `blocked_entry` | `EveryBlessedEntryInstalled` | one entry that cannot be verified stops the client before all later ones ("For every blessed entry", `client.js:2`) |

`StatusTracksQuorums`, `TalliesRecount` and `AcceptedIffEqOne` are stated, or run, for policies in
which the Build Service's vote is not required, because of the first finding; `NoMissedEnactment`
has a delay of at least one block as its premise, because of the third.

## 4. Proofs

Every theorem is about the specification a run checks (`Spec`, `DistributionSpec`,
`GlueSpec`; fairness is not used), without the bounds of the instances: any number of accounts,
projects, proposals, builders, log entries, full nodes, slots, stops and commands.

Assumptions. The pallet's theorems use `PerbillAssumption`, `CurrencyAssumption`,
`VeriGovAssumption`, `GenesisAssumption` (the stakeholders of a call are finitely many and a role's
stake fits a `Balance`) and `AccountAssumption` (finitely many account ids); the rounding uses
`QuorumRoundingAssumption`, the tools `BuildServiceAssumption`, `ReleaseClientAssumption` and
`DistributionAssumption`, the nodes `RuntimeAssumption`, `NodeAssumption` and `GlueAssumption`.
`RuntimeAssumption` has the genesis balance and the faucet's amount at or above the existential
deposit (pallet-balances asserts the first when it builds the genesis state) and a mortal period of at
least 4 blocks and at most `BlockHashCount`. TLC evaluates all of them in the runs. Some theorems have
hypotheses of their own, which are there because of what the runs of section 3 find: `PalletImplementsLedger` and `PalletKeepsPromises`
assume `PositiveDelays` (`zero_delay`), `AcceptedExactly` assumes `PlainPolicies` (`stale_weight`) and
`StakeLeavesRoom` (a role's stake times 10^9 fits u128; beyond it `saturating_mul` makes two
different products equal).

Induction over data is not available to the provers as a rule, so it is done by least counterexample:
`LeastNatural` (proved from the library's well-foundedness of `<` on the naturals) gives the smallest
number at which a claim fails. `FiniteSums` uses it to show that a fold over a finite set can be
unfolded at any element, and from there what a sum does when one term changes (`SumChange`), when a
key is added (`SumExtend`) or when terms are renamed (`SumReindex`). `NodeProofs` uses it for what
`FlattenSeq` and the recursive function behind `ApplyAll` return.

The leaves of the proofs are small on purpose: every module is also proved with a fifth of the default
time limits (`tlapm --stretch 0.2`), so a slower machine does not lose an obligation.

### The pallet

* `TypeCorrect`: `Spec => []TypeOK`. `TypeOK` is inductive as it stands. The lemmas show that the
  arithmetic stays in its range (`MulFloorType` bounds a slash by the stake it is taken from,
  `RecordVoteType` keeps a tally a Balance), that `Retain` returns a sequence, and that `do_vote`,
  `Release` and genesis keep the shape of the state; `TypeStep` has one case per action.
* `PendingAlwaysExact`: `Spec => []PendingExact`. The invariant relates every block's vector, the rest
  of the on_initialize loop and all statuses in both directions, and is inductive together with
  `TypeOK`. It needs its "each once" part: without it `retain` could leave a second copy behind.
* `EnactmentOnTime`: `Spec => EnactedOnTime`. Only `Enact` sets `Enacted`, and `EnactVisits` shows from
  `PendingExact` that the id at the head of the loop is approved for the current block, although
  `enact` itself never compares the two.
* `NothingMissed`: `Spec => []NoMissedEnactment`, inductive relative to the first two. `EnactAtIsLater`
  is where a positive delay is needed: the clock stays below `MaxBlock`, so the saturating addition
  moves `enact_at` past it.
* `StatusAlwaysTracks` and `StaleOnlyUntilTouched`: `DoVoteDecides` says which status `do_vote` leaves
  for the tally it has just written. What remains are the steps that move one of the two alone:
  enactment and expiry end the proposal, and a slash changes only the Build Service's stake, which the
  first theorem's policies do not ask for. The second is an action property and needs no such premise.
* `EscrowAlwaysMatches` and `LossOnlyOnRejection`. The inductive invariant `Books` adds two facts to
  the three books: nobody has stake in a project that does not exist (`UnusedEmpty`, so genesis adds
  instead of overwriting) and the builder of a proposal is a Build Service of its project
  (`BuildersServe`, so a slash moves the stake of exactly that role). `BondIsHeld` and `SlashIsExact`
  are the point of it: because the books match, the best-effort release and burn find all they ask for.
* `FundsAlwaysConserved`: `Spec => FundsConserved`, an action property that needs the same books: a
  best-effort release pays the whole bond because `BondIsHeld`, a burn takes the whole slash because
  `SlashIsExact`, and every other step only moves money between one account's balances.
* `TalliesAlwaysRecount` and `TalliesAlwaysCover`, from `Counts`: tallies equal a recount where no
  slash can reach the role and are at least a recount elsewhere, and ids not handed out have no
  votes. `RecountBounded` keeps a recount at or below the role's stake, so the saturating
  operations do not saturate where the role cannot be slashed. `AcceptedExactly` combines this with
  `StatusAlwaysTracks`.
* `PalletImplementsLedger`: `Spec => ImplementsLedger`. One lemma per action shows its step to be a step
  of the abstract ledger or a stutter; `OnInitialize` is the clock's tick and needs `NothingMissed`, and
  so do `vote` and `new_release`, since the ledger schedules only for a time still to come.
* `LedgerLogExact`, `LedgerNotOverdue` and `LedgerHistoryStands` are about `ReleaseLedger` alone, for any
  sets of projects, proposals and artifacts (times are numbers, `TimesAreNumbers`): they say that the
  abstract specification means what its header promises. `LedgerSteps` reduces its actions to four kinds of
  step. `PalletKeepsPromises` instantiates them with the refinement mapping and carries them over to
  the pallet; a reader of the log can rely on `ReleaseLedger` without reading `VeriGov`.
* `LogAlwaysMatches`, from `LogTrue`: every entry is true of its proposal and in block order, every
  enacted proposal has exactly one entry (a cardinality, moved by `AppendLog`), and rejections are
  the counter-attestations on record.

### Quorum arithmetic

* `NeverRefused` and `AlwaysShortByLess`: `Spec => []NoRatioRefused` and `Spec => []ShortfallBelowOnePart`.
  From the state they need `TypeCorrect` only, that a role's stake is a number; the content is nonlinear
  arithmetic, for every accuracy, width and stake (`RatioAccepted`, `Shortfall`). `RoundedDown`
  characterises the division, `TimesMonotone` and `Factors` give Z3 the products it cannot find.

### The tools

* `PinsAlwaysReadable`, from `Pins`: until the first kill every file present is readable or has a
  builder that will write it, an attestation is only pinned after its binary, and a finished build
  has both files.
* `SyncReportAlwaysTrue` and `InstalledAlwaysBinds`, from `Syncs`: for each point of `syncProject`, what
  the client holds and which entries are installed. `Covered(n, m)` says that those of the first `n`
  entries which no entry up to `m` supersedes are in place; the loop moves it one entry at a time, and a
  rewrite of a version disturbs only entries that the new one supersedes.

### The nodes and the glue

* `NodeTypes` and `FinalityAlwaysKept`, from `Forest` (every database is a tree with the finalized
  block on the best chain) and `Service` (slots, pools and workers). `DbStep` sums up the ways in which a
  step may change a database, and the theorems below use it instead of the actions.
* `FinalityAlwaysAgrees`. As long as no authority was purged, a voter's votes are on its disk: it votes
  once in a round and never in an old one (`VotesOnce`). `AllVote` is the quorum argument: both presets
  have at most two authorities, whose supermajority is all of them, so what is committed in a round
  was voted for by everyone. A voter leaves a round only when all have voted in it (`RoundsComplete`), and
  from then on stands and votes above all that was agreed on (`BasesAbove`, `VotesAbove`), so blocks
  agreed on in two rounds, or in one, are on one chain; whatever is final was agreed on (`FinalAgreed`).
  Which node finalizes when, and what it forgets as a full node, does not matter.
* `NeverEquivocates`, from `Claimed`: the worker of a slot's author has passed every slot it signed.
  It survives a purge, which the databases do not.
* `SoleAuthorityNeverReorgs`, from `OneChain`: without revert and purge every block is on the sole
  authority's best chain.
* `ErasAlwaysRespected`, from `Carried`: extrinsics in pools and calls are well signed, those in blocks
  are timely. `CheckEra` sees only a phase; the arithmetic of `EraBirth` shows that the block it computes
  is the one signed at.
* `NoncesAlwaysInOrder` and `SignersAlwaysAlive`, from `Executed`: the extrinsics of every chain lead from
  genesis through a sequence of states in which each one was valid and was applied rightly. `AcceptedCall`
  has one case per call. That an account which signed or has money on hold keeps its deposit is inductive
  (`Alive`), because fee and holds leave the deposit behind, the faucet sets more than it, and a slash
  never starts a hold. What nonces are after the first `k` extrinsics follows by induction over `k`.

The proof of `FinalityKept` failed for its earlier form, which excused a node only in the step that
records its first purge: a second `purge-chain` of the same node adds nothing to `commands`. The
budgets of the run allow one command, so TLC could not see it; the property now names the action.

### Only model-checked

Liveness under fairness is out of the prover's reach: `ApprovalResolves`, `ProposalsEnd`,
`EventuallyInstalled`, `ReportSettles` and `WaitEnds` are checked on the instances only. So are
`ResolvedStands`, which counts calls against projects of a recomputed state, and the properties of the
runs in which TLC finds a violation.

## 5. Not modelled

* Events, weights, account reaping (`SignersStayAlive` says that nobody who takes part is reaped).
  `sigma_mal` and `delta_max` are stored and never read; the dispute
  track and meta-governance do not exist in the code.
* The pallet's full state under the extrinsics of `Runtime`: there its calls act on balances and on the
  numbers of projects and open proposals, and the two models are joined by what a storage
  transaction guarantees (section 2). `on_initialize` and `close_expired`, which give bonds back, and
  the amounts of a slash with several projects are in `VeriGov` only. A client that reads the best block
  could see a log entry that a reorganisation removes; `SoleAuthorityNoReorg` says when it cannot.
* Prevotes, catch-up and equivocation reports of GRANDPA; four or more authorities, whose supermajority
  is not all of them (no preset has them); authority changes (the runtime has no session pallet, the
  authorities are the genesis ones for ever); warp sync, telemetry, offchain workers; clocks that disagree; a chain spec
  from a file. Commands that only read the database: key, build-spec, check-block, export, benchmark
  (and `benchmarking.rs`, which only the last one uses).
* Block weight and length limits, tips, the ban of recently dropped extrinsics. What a pool keeps is not
  promised anywhere: a dropped, usurped or invalid extrinsic leaves its promise pending, in the model too.
* Saturation of the u32 ids; balances near `u128::MAX` (the total issuance keeps products below it;
  `ShortfallBelowOnePart` has it as a premise, `NeverRefused` covers saturation).
* The order of the demo's scenarios, its output and `run-demo.sh`: the calls it sends are modelled, in
  the scripts of `MCNetwork`, and its scenarios are behaviours of the modelled parts.
* Quotients beyond 2^53 in `perbill` of the tools, which divides doubles: below, rounding down is exact.

## 6. Plan

1. *Done:* `Perbill`, `Currency`, `VeriGov`, the ledger refinement, `QuorumRounding`, the tools'
   `ArtifactStore`, `BuildService`, `ReleaseClient`, `Distribution`; `Runtime`, `Node`, `ChainGlue`;
   proofs of their safety invariants and action properties, of the refinement, and of the promises of
   the abstract ledger.
2. *Prove later:* `ResolvedStands`; `FinalityAgreement` for four and more authorities, which needs
   GRANDPA's estimate and prevotes.
3. *Model later:* a counter-attester driven by the builds of `BuildService` (an honest rebuild never
   slashes an honest builder when the tree is still); two clients on one install directory.
