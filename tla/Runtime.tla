------------------------------ MODULE Runtime ------------------------------
(***************************************************************************)
(* The runtime as the node calls it: genesis presets, signed extrinsics,   *)
(* and what executing a block does to nonces and balances.                 *)
(*                                                                         *)
(* A block is its slot and its extrinsics.  A chain is the sequence of its *)
(* blocks after genesis and stands for the hash of its last one: a header  *)
(* commits to its parent, so equal hashes are equal chains, and the number *)
(* of a block is the length of the chain that ends in it.  State is        *)
(* recomputed from a chain, never stored.  FRAME's Executive and           *)
(* extensions are external; the runtime chooses and configures them.       *)
(***************************************************************************)
EXTENDS Integers, FiniteSets, FiniteSetsExt, Sequences, SequencesExt

CONSTANTS
    BlockHashCount,         \* hashes of this many past blocks are kept
    MortalPeriod,           \* period of the mortal eras polkadot-js signs with
    EXISTENTIAL_DEPOSIT,
    Fee,                    \* inclusion fee: one amount for all calls
    GenesisBalance,         \* 1 << 60 in the code
    FUND, STAKE, BOND       \* amounts of the demo; BUILD_STAKE is STAKE, too

ASSUME RuntimeAssumption ==
    /\ BlockHashCount \in Nat
    /\ MortalPeriod \in Nat /\ 4 <= MortalPeriod /\ MortalPeriod <= BlockHashCount
    /\ EXISTENTIAL_DEPOSIT \in Nat /\ Fee \in Nat
    /\ GenesisBalance \in Nat /\ GenesisBalance >= EXISTENTIAL_DEPOSIT
    /\ FUND \in Nat /\ FUND >= EXISTENTIAL_DEPOSIT
    /\ STAKE \in Nat /\ BOND \in Nat

-----------------------------------------------------------------------------
(* Genesis *)

\* Sr25519Keyring, without the names nothing distinguishes from Charlie.
Keyring == {"Alice", "Bob", "Charlie", "AliceStash", "BobStash", "One", "Two"}

\* The same names give the Aura and the GRANDPA keys; every GRANDPA weight is 1.
testnet_genesis(initial_authorities, endowed_accounts, root) ==
    [authorities |-> initial_authorities,
     sudo |-> root,
     free |-> [a \in Keyring |-> IF a \in endowed_accounts THEN GenesisBalance ELSE 0],
     held |-> [a \in Keyring |-> 0],
     nonce |-> [a \in Keyring |-> 0],
     projects |-> 0, open |-> 0]

development_config_genesis ==
    testnet_genesis(<<"Alice">>, {"Alice", "Bob", "AliceStash", "BobStash"}, "Alice")

local_config_genesis == testnet_genesis(<<"Alice", "Bob">>, Keyring \ {"One", "Two"}, "Alice")

get_preset(id) == CASE id = "development" -> development_config_genesis
                    [] id = "local_testnet" -> local_config_genesis

development_chain_spec == get_preset("development")
local_chain_spec == get_preset("local_testnet")

\* The --chain values that are not a file name.
ChainId == {"dev", "", "local"}
load_spec(id) == CASE id = "dev" -> development_chain_spec
                   [] id \in {"", "local"} -> local_chain_spec

-----------------------------------------------------------------------------
(* Signed extrinsics *)

\* What the demo sends.  The first two are wrapped in sudo.sudo.
SudoCall == {"forceSetBalance", "projectGenesis"}
Call == SudoCall \cup {"newRelease", "vote", "submitCounterAttestation"}

\* The cast of the demo, cut down: a Core Developer whom every preset endows, and a
\* Build Service whom only the local preset does.
Developer == "Bob"
Builder == "Charlie"
Cast == {Developer, Builder}

\* Era::mortal and Era::birth: an era is a period and a phase in it, so only
\* the phase of the block it was signed at is sent.
EraMortal(current) == [period |-> MortalPeriod, phase |-> current % MortalPeriod]
EraBirth(era, current) ==
    LET from == Max({current, era.phase})
    IN  ((from - era.phase) \div era.period) * era.period + era.phase

\* The hash of the block `anchor` is signed, not sent: the verifier supplies it.
SignedExtrinsic(anchor, signer, call, nonce) ==
    [signer |-> signer, call |-> call, nonce |-> nonce,
     era |-> EraMortal(Len(anchor)), checkpoint |-> anchor]

-----------------------------------------------------------------------------
(* TxExtension: what makes an extrinsic valid on top of a chain *)

\* Mutant: the window is checked, the signed block is not.
CheckEraWindow(chain, tx) == EraBirth(tx.era, Len(chain) + 1) <= Len(chain)

\* CheckEra: the signature covers the chain's own block at the era's birth, which
\* must be a past one whose hash is still kept.
CheckEra(chain, tx) ==
    LET birth == EraBirth(tx.era, Len(chain) + 1)
    IN  /\ birth <= Len(chain) /\ Len(chain) < birth + BlockHashCount
        /\ SubSeq(chain, 1, birth) = tx.checkpoint

\* Mutant: the fee may take the last of it.
CanPayWithAll(st, who) == st.free[who] >= Fee

\* ChargeTransactionPayment withdraws with Preservation::Preserve.
CanPay(st, who) == st.free[who] >= Fee + EXISTENTIAL_DEPOSIT

\* validate_transaction: a nonce of the future may wait in the pool.
validate_transaction(st, chain, tx) ==
    CheckEra(chain, tx) /\ tx.nonce >= st.nonce[tx.signer] /\ CanPay(st, tx.signer)

\* Mutant: the pool's weaker condition decides at inclusion, too.
AppliesInAnyOrder(st, chain, tx) == validate_transaction(st, chain, tx)

\* In a block CheckNonce wants the next nonce exactly.
Applies(st, chain, tx) ==
    CheckEra(chain, tx) /\ tx.nonce = st.nonce[tx.signer] /\ CanPay(st, tx.signer)

-----------------------------------------------------------------------------
(* Execution *)

\* A hold leaves the existential deposit behind.
CanHold(st, a, amount) == st.free[a] >= amount + EXISTENTIAL_DEPOSIT

\* The calls by what they do to balances.  Of the pallet only the numbers of
\* projects and open proposals count here; VeriGov has its state in full.  What
\* on_initialize and close_expired do, which is to give a bond back, is left out.
Accepted(st, tx) ==
    CASE tx.call = "forceSetBalance" -> TRUE
      [] tx.call = "projectGenesis" -> \A a \in Cast : CanHold(st, a, STAKE)
      [] tx.call = "newRelease" -> /\ st.projects > 0 /\ tx.signer = Developer
                                   /\ CanHold(st, tx.signer, BOND)
      [] tx.call = "vote" -> st.open > 0 /\ tx.signer \in Cast
      [] tx.call = "submitCounterAttestation" -> st.open > 0 /\ tx.signer = Developer

\* A counter-attestation burns half of the stake (SIGMA_NEG; of one project, as in
\* the demo) and gives the bond back.
Effect(st, tx) ==
    CASE tx.call = "forceSetBalance" -> [st EXCEPT !.free[Builder] = FUND]
      [] tx.call = "projectGenesis" ->
            [st EXCEPT !.projects = @ + 1,
                       !.free = [a \in Keyring |-> @[a] - (IF a \in Cast THEN STAKE ELSE 0)],
                       !.held = [a \in Keyring |-> @[a] + (IF a \in Cast THEN STAKE ELSE 0)]]
      [] tx.call = "newRelease" ->
            [st EXCEPT !.open = @ + 1, !.free[Developer] = @ - BOND, !.held[Developer] = @ + BOND]
      [] tx.call = "vote" -> st
      [] tx.call = "submitCounterAttestation" ->
            [st EXCEPT !.open = @ - 1,
                       !.free[Developer] = @ + BOND,
                       !.held = [a \in Keyring |-> @[a] - CASE a = Developer -> BOND
                                                            [] a = Builder -> @[a] \div 2
                                                            [] OTHER -> 0]]

\* "SudoErr": the extrinsic succeeds, and its Sudid event has the inner call's error.
DispatchResult(st, tx) ==
    IF tx.call \in SudoCall /\ tx.signer # st.sudo THEN "DispatchError"
    ELSE IF Accepted(st, tx) THEN "Ok"
    ELSE IF tx.call \in SudoCall THEN "SudoErr" ELSE "DispatchError"

\* A call that fails leaves nothing behind.
Dispatched(st, tx) == IF DispatchResult(st, tx) = "Ok" THEN Effect(st, tx) ELSE st

\* pallet-sudo returns Pays::No to its key, which refunds the fee.
Refund(st, tx) == IF tx.call \in SudoCall /\ tx.signer = st.sudo THEN Fee ELSE 0

\* Nonce and fee are taken before the call and stay spent when it fails.
Charged(st, tx) == [st EXCEPT !.nonce[tx.signer] = @ + 1, !.free[tx.signer] = @ - Fee]

apply_extrinsic(st, tx) ==
    [Dispatched(Charged(st, tx), tx) EXCEPT !.free[tx.signer] = @ + Refund(st, tx)]

\* after[i]: the state after the first i extrinsics.
ApplyAll(st, txs) ==
    LET after[i \in 0..Len(txs)] == IF i = 0 THEN st ELSE apply_extrinsic(after[i - 1], txs[i])
    IN  after[Len(txs)]

Extrinsics(chain) == FlattenSeq([i \in DOMAIN chain |-> chain[i].extrinsics])
StateOf(genesis, chain) == ApplyAll(genesis, Extrinsics(chain))

\* Every extrinsic of a block must apply after the ones before it.
AllApply(st, chain, txs) ==
    \A i \in DOMAIN txs : Applies(ApplyAll(st, SubSeq(txs, 1, i - 1)), chain, txs[i])

SlotOf(chain) == IF chain = <<>> THEN 0 ELSE Last(chain).slot

\* Mutant: slots go round the keys of the local preset, whatever the genesis says.
SlotAuthorFixed(genesis, slot) == <<"Alice", "Bob">>[(slot % 2) + 1]

\* Aura: slots go round the authorities.
SlotAuthor(genesis, slot) == genesis.authorities[(slot % Len(genesis.authorities)) + 1]

\* initialize_block and execute_block, FALSE where they panic: pallet-aura
\* asserts that the slot increases (AllowMultipleBlocksPerSlot is false).
execute_block(genesis, chain, block) ==
    /\ SlotOf(chain) < block.slot
    /\ AllApply(StateOf(genesis, chain), chain, block.extrinsics)
=============================================================================
