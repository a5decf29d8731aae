-------------------------------- MODULE Node --------------------------------
(***************************************************************************)
(* Nodes of one network: what service.rs assembles (client and database,   *)
(* transaction pool, Aura worker and import queue, GRANDPA voter, RPC) and *)
(* what command.rs does to the database of a node that is not running.     *)
(*                                                                         *)
(* The assembled parts come from external crates and are modelled by what  *)
(* the parameters in service.rs make them do.  The database, which holds    *)
(* the GRANDPA voter's state, survives a stop, pool and tasks do not.      *)
(* Voters vote, change rounds and finalize each in steps of their own, on  *)
(* votes that arrive at any time or never.  Of a round only the precommits *)
(* are modelled: prevotes narrow down what a voter may precommit to.       *)
(* Clocks agree: all nodes see one slot.                                   *)
(***************************************************************************)
EXTENDS Runtime

CONSTANTS
    Authority,              \* nodes with role.is_authority(), named by their keys
    FullNode,               \* the other nodes
    DisableGrandpa,         \* nodes started with --disable-grandpa
    ForceAuthoring,         \* nodes started with --force-authoring
    VotingDepth,            \* BeforeBestBlockBy of the default voting rules
    PoolLimit,              \* the most extrinsics config.transaction_pool lets wait
    Priority,               \* [Call -> priority]: lighter and shorter calls have more
    Budgets                 \* bounds: a behaviour runs some nodes on one chain and spends one
                            \* budget of slots, rounds of GRANDPA, stops of nodes and
                            \* commands; script is what the tools send in it

Nodes == Authority \cup FullNode
BudgetType == [nodes : SUBSET Nodes, chain : ChainId, slots : Nat, rounds : Nat, stops : Nat,
               commands : Nat, script : Seq([signer : Keyring, call : Call])]

ASSUME NodeAssumption ==
    /\ Authority \subseteq Keyring /\ IsFiniteSet(FullNode)
    /\ DisableGrandpa \subseteq Nodes /\ ForceAuthoring \subseteq Nodes
    /\ VotingDepth \in Nat /\ PoolLimit \in Nat /\ Priority \in [Call -> Nat]
    /\ Budgets \subseteq BudgetType

VARIABLES
    genesis,                \* the preset all nodes were started with
    slot,                   \* the current Aura slot
    db,                     \* [Nodes -> [blocks, best, finalized]], on disk
    voter,                  \* [Nodes -> [round, voted, base]], on disk
    unlinked,               \* nodes that run on a database purge-chain has removed
    precommits,             \* votes sent to the network: records [voter, round, block]
    running,                \* nodes whose task manager is alive
    pool,                   \* [Nodes -> extrinsics waiting], in memory
    worked,                 \* [Nodes -> last slot the Aura worker handled], in memory
    budget,                 \* what is left of the budget
    commands                \* <<command, node>> pairs run so far

grandpaVars == <<voter, unlinked, precommits>>
nodeVars == <<genesis, slot, db, grandpaVars, running, pool, worked, budget, commands>>

EmptyDb == [blocks |-> {<<>>}, best |-> <<>>, finalized |-> <<>>]

\* In its first round a voter builds on genesis.  base: the block below which the
\* round before has settled everything.
FirstRound == [round |-> 1, voted |-> FALSE, base |-> <<>>]

NodeInit ==
    /\ budget \in Budgets
    /\ genesis = load_spec(budget.chain)
    /\ slot = 0
    /\ db = [n \in Nodes |-> EmptyDb] /\ voter = [n \in Nodes |-> FirstRound]
    /\ unlinked = {} /\ precommits = {}
    /\ running = budget.nodes
    /\ pool = [n \in Nodes |-> {}]
    /\ worked = [n \in Nodes |-> 0]
    /\ commands = {}

Best(n) == db[n].best
Finalized(n) == db[n].finalized
BestState(n) == StateOf(genesis, Best(n))
OnChain(chain) == ToSet(Extrinsics(chain))
Comparable(c, d) == IsPrefix(c, d) \/ IsPrefix(d, c)

\* The tasks new_full spawns; both are essential.
Tasks(n) == (IF n \in Authority THEN {"aura"} ELSE {})
            \cup (IF n \notin DisableGrandpa THEN {"grandpa-voter"} ELSE {})

-----------------------------------------------------------------------------
(* The transaction pool *)

Valid(best, tx) == validate_transaction(StateOf(genesis, best), best, tx)

\* Two extrinsics that provide the same tag: one account, one nonce.
SameTag(tx, other) == tx.signer = other.signer /\ tx.nonce = other.nonce

\* What a pool may keep of the extrinsics txs: as many as fit, and none before one
\* of higher priority.
Limited(txs) ==
    {kept \in SUBSET txs :
        /\ Cardinality(kept) = Min({Cardinality(txs), PoolLimit})
        /\ \A tx \in kept, other \in txs \ kept : Priority[other.call] <= Priority[tx.call]}

\* Pool maintenance when the best block becomes `best`: what waits is validated
\* again, and extrinsics of retracted blocks are submitted again.
Maintained(n, best) ==
    LET waiting == {tx \in pool[n] : Valid(best, tx)}
    IN  Limited(waiting \cup {tx \in OnChain(Best(n)) :
                                Valid(best, tx) /\ \A other \in waiting : ~SameTag(tx, other)})

\* A tag is provided once: the extrinsic of higher priority takes the place of the
\* one that waits, any other is refused.
PoolAccepts(n, tx) ==
    /\ Valid(Best(n), tx)
    /\ \A other \in pool[n] : SameTag(tx, other) => Priority[other.call] < Priority[tx.call]

\* The pools that may result; in a full one even tx may be what is dropped.
Added(n, tx) == Limited({other \in pool[n] : ~SameTag(tx, other)} \cup {tx})

\* system_accountNextIndex: the nonce at the best block, past the waiting ones.
accountNextIndex(n, who) ==
    LET taken == {tx.nonce : tx \in {t \in pool[n] : t.signer = who}}
    IN  Min({k \in BestState(n).nonce[who]..(BestState(n).nonce[who] + Cardinality(taken)) :
                k \notin taken})

Gossip(m, n, tx) ==
    /\ m \in running /\ n \in running
    /\ tx \in pool[m] \ pool[n]
    /\ PoolAccepts(n, tx)
    /\ \E kept \in Added(n, tx) : pool' = [pool EXCEPT ![n] = kept]
    /\ UNCHANGED <<genesis, slot, db, grandpaVars, running, worked, budget, commands>>

-----------------------------------------------------------------------------
(* Block authoring and import *)

\* LongestChain: only a longer chain replaces the best one.
Chosen(best, c) == IF Len(c) > Len(best) THEN c ELSE best

\* client.import_block of the block that ends c, and the pool's reaction.
ImportBlock(n, c) ==
    LET best == Chosen(Best(n), c)
    IN  /\ db' = [db EXCEPT ![n].blocks = @ \cup {c}, ![n].best = best]
        /\ \E kept \in Maintained(n, best) : pool' = [pool EXCEPT ![n] = kept]

\* Aura does not claim a slot without peers, unless it is the only authority.
MayAuthor(n) == running # {n} \/ n \in ForceAuthoring \/ Len(genesis.authorities) = 1

\* The proposer takes what applies, one after the other, until nothing is left.
Proposals(n) ==
    {txs \in UNION {SetToSeqs(s) : s \in SUBSET pool[n]} :
        /\ AllApply(BestState(n), Best(n), txs)
        /\ \A tx \in pool[n] \ ToSet(txs) : ~Applies(ApplyAll(BestState(n), txs), Best(n), tx)}

Author(n) ==
    /\ n \in running /\ "aura" \in Tasks(n)
    /\ worked[n] < slot /\ SlotAuthor(genesis, slot) = n
    /\ MayAuthor(n)
    /\ \E txs \in Proposals(n) :
        LET block == [slot |-> slot, extrinsics |-> txs]
        IN  /\ execute_block(genesis, Best(n), block)
            /\ ImportBlock(n, Append(Best(n), block))
    /\ worked' = [worked EXCEPT ![n] = slot]
    /\ UNCHANGED <<genesis, slot, grandpaVars, running, budget, commands>>

\* The import queue: n fetches a block from a peer, parents first, never a block
\* that contradicts what n has finalized.
Import(m, n, c) ==
    /\ m \in running /\ n \in running
    /\ c \in db[m].blocks \ db[n].blocks
    /\ Front(c) \in db[n].blocks
    /\ IsPrefix(Finalized(n), c)
    /\ execute_block(genesis, Front(c), Last(c))
    /\ ImportBlock(n, c)
    /\ UNCHANGED <<genesis, slot, grandpaVars, running, worked, budget, commands>>

NextSlot ==
    /\ slot < budget.slots
    /\ slot' = slot + 1
    /\ UNCHANGED <<genesis, db, grandpaVars, running, pool, worked, budget, commands>>

-----------------------------------------------------------------------------
(* Finality *)

\* Mutant: two thirds, rounded down, instead of more than two thirds.
TwoThirds(total) == (2 * total) \div 3

\* GRANDPA's supermajority of `total` voters.
Threshold(total) == total - (total - 1) \div 3

Pruned(blocks, b) == {c \in blocks : Comparable(b, c)}

\* Keys of GRANDPA authorities whose node runs the voter with its keystore.
Voters == {n \in ToSet(genesis.authorities) \cap running \cap Authority :
            "grandpa-voter" \in Tasks(n)}

\* What n may vote for: its base, or a block above it that the voting rule lets
\* through, VotingDepth below the end of a chain (the best one at its prevote).
Targets(n) ==
    {b \in db[n].blocks :
        /\ IsPrefix(voter[n].base, b) /\ IsPrefix(Finalized(n), b)
        /\ \/ b = voter[n].base
           \/ \E c \in db[n].blocks : IsPrefix(b, c) /\ Len(b) + VotingDepth <= Len(c)}

\* A voter votes once in a round: the vote is on disk before it is sent.
Precommit(n, b) ==
    /\ n \in Voters /\ ~voter[n].voted /\ voter[n].round <= budget.rounds
    /\ b \in Targets(n)
    /\ voter' = [voter EXCEPT ![n].voted = TRUE]
    /\ precommits' = precommits \cup {[voter |-> n, round |-> voter[n].round, block |-> b]}
    /\ UNCHANGED <<genesis, slot, db, unlinked, running, pool, worked, budget, commands>>

\* The votes of v in a round: more than one if v has forgotten the first.
VotesOf(v, round) == {p.block : p \in {q \in precommits : q.voter = v /\ q.round = round}}

\* n goes on when it has a vote of every authority for blocks it knows (up to three
\* authorities are a supermajority only together), from the last block they share.
NextRound(n, votes, base) ==
    /\ n \in Voters
    /\ \A v \in DOMAIN votes : votes[v] \in VotesOf(v, voter[n].round) \cap db[n].blocks
    /\ \A v \in DOMAIN votes : IsPrefix(base, votes[v])
    /\ \A b \in db[n].blocks : (\A v \in DOMAIN votes : IsPrefix(b, votes[v])) => IsPrefix(b, base)
    /\ voter' = [voter EXCEPT ![n] = [round |-> @.round + 1, voted |-> FALSE, base |-> base]]
    /\ UNCHANGED <<genesis, slot, db, unlinked, precommits, running, pool, worked, budget,
                   commands>>

\* A supermajority voted in the round for b or for blocks above it.
Committed(round, b) ==
    Cardinality({v \in ToSet(genesis.authorities) : \E c \in VotesOf(v, round) : IsPrefix(b, c)})
        >= Threshold(Len(genesis.authorities))

\* Mutant: a node keeps its best chain whatever is finalized.
BestAboveKept(n, b) == Best(n)

\* The best chain of n when b is finalized: b itself if the best was on another fork.
BestAbove(n, b) == IF IsPrefix(b, Best(n)) THEN Best(n) ELSE b

\* client.finalize_block.
FinalizeBlock(n, b) ==
    LET best == BestAbove(n, b)
    IN  /\ n \in running
        /\ b \in db[n].blocks /\ IsStrictPrefix(Finalized(n), b)
        /\ db' = [db EXCEPT ![n] = [blocks |-> Pruned(@.blocks, b), best |-> best,
                                    finalized |-> b]]
        /\ \E kept \in Maintained(n, best) : pool' = [pool EXCEPT ![n] = kept]
        /\ UNCHANGED <<genesis, slot, grandpaVars, running, worked, budget, commands>>

\* The voter task of n, a full node's too, has the votes or a peer's commit message.
FinalizeCommit(n, round, b) ==
    "grandpa-voter" \in Tasks(n) /\ Committed(round, b) /\ FinalizeBlock(n, b)

\* n imports a justification for what m has finalized.
ImportJustification(m, n) == m \in running /\ FinalizeBlock(n, Finalized(m))

-----------------------------------------------------------------------------
(* Stopping, starting, and commands *)

\* The process ends, or an essential task fails and takes the service down.  A
\* database whose files were removed ends with it.
Stop(n) ==
    /\ n \in running /\ budget.stops > 0
    /\ running' = running \ {n}
    /\ pool' = [pool EXCEPT ![n] = {}]
    /\ db' = IF n \in unlinked THEN [db EXCEPT ![n] = EmptyDb] ELSE db
    /\ voter' = IF n \in unlinked THEN [voter EXCEPT ![n] = FirstRound] ELSE voter
    /\ unlinked' = unlinked \ {n}
    /\ budget' = [budget EXCEPT !.stops = @ - 1]
    /\ UNCHANGED <<genesis, slot, precommits, worked, commands>>

\* Mutant: the worker takes up the slot it was started in.
StartAtOnce(n) ==
    /\ n \in budget.nodes \ running
    /\ running' = running \cup {n}
    /\ worked' = [worked EXCEPT ![n] = 0]
    /\ UNCHANGED <<genesis, slot, db, grandpaVars, pool, budget, commands>>

\* run_node_until_exit.  The Aura worker of a started node waits for the next slot.
Start(n) ==
    /\ n \in budget.nodes \ running
    /\ running' = running \cup {n}
    /\ worked' = [worked EXCEPT ![n] = slot]
    /\ UNCHANGED <<genesis, slot, db, grandpaVars, pool, budget, commands>>

Command(name, n) ==
    /\ n \in budget.nodes /\ budget.commands > 0
    /\ budget' = [budget EXCEPT !.commands = @ - 1]
    /\ commands' = commands \cup {<<name, n>>}
    /\ UNCHANGED <<genesis, slot, precommits, running, pool, worked>>

\* purge-chain removes the files and does not open the database, so nothing keeps
\* it off a node that runs: that node goes on with what it has open.
PurgeChain(n) ==
    /\ Command("purge-chain", n)
    /\ \/ /\ n \in running
          /\ unlinked' = unlinked \cup {n}
          /\ UNCHANGED <<db, voter>>
       \/ /\ n \notin running
          /\ db' = [db EXCEPT ![n] = EmptyDb]
          /\ voter' = [voter EXCEPT ![n] = FirstRound]
          /\ UNCHANGED unlinked

\* The other commands open the database, which a running node keeps locked.
OpenCommand(name, n) == n \notin running /\ Command(name, n) /\ UNCHANGED <<voter, unlinked>>

\* Mutant: finalized blocks go, too.
RevertBelowFinalized(n, number) ==
    /\ OpenCommand("revert", n)
    /\ db' = [db EXCEPT ![n] = [blocks |-> {c \in @.blocks : Len(c) <= number},
                                best |-> SubSeq(@.best, 1, number),
                                finalized |-> SubSeq(@.best, 1, Min({number, Len(@.finalized)}))]]

\* Back to block `number` of the best chain, but not below the finalized one.  The
\* voter keeps its votes: grandpa::revert undoes changes of the authority set.
Revert(n, number) ==
    /\ OpenCommand("revert", n)
    /\ Len(Finalized(n)) <= number
    /\ db' = [db EXCEPT ![n].blocks = {c \in @ : Len(c) <= number},
                        ![n].best = SubSeq(@, 1, number)]

\* import-blocks from a file that export-blocks wrote on m.
ImportBlocks(m, n) ==
    /\ OpenCommand("import-blocks", n) /\ m \notin running /\ m # n
    /\ IsPrefix(Finalized(n), Best(m))
    /\ \A i \in DOMAIN Best(m) : execute_block(genesis, SubSeq(Best(m), 1, i - 1), Best(m)[i])
    /\ db' = [db EXCEPT ![n].blocks = @ \cup Prefixes(Best(m)),
                        ![n].best = Chosen(@, Best(m))]

NodeNext ==
    \/ NextSlot
    \/ \E n \in Nodes :
        \/ Author(n) \/ Stop(n) \/ Start(n) \/ PurgeChain(n)
        \/ \E number \in 0..(Len(Best(n)) - 1) : Revert(n, number)
        \/ \E b \in db[n].blocks : \/ Precommit(n, b)
                                   \/ \E r \in 1..budget.rounds : FinalizeCommit(n, r, b)
        \/ \E votes \in [ToSet(genesis.authorities) -> db[n].blocks] : \E base \in db[n].blocks :
              NextRound(n, votes, base)
    \/ \E m, n \in Nodes :
        \/ \E tx \in pool[m] : Gossip(m, n, tx)
        \/ \E c \in db[m].blocks : Import(m, n, c)
        \/ ImportJustification(m, n)
        \/ ImportBlocks(m, n)

NodeSpec == NodeInit /\ [][NodeNext]_nodeVars

-----------------------------------------------------------------------------
(* Correctness *)

Blocks == UNION {db[n].blocks : n \in Nodes}

\* Every database is a tree of blocks with the finalized block on the best chain;
\* a stopped node has no pool.
NodeTypeOK ==
    /\ slot \in 0..budget.slots /\ running \subseteq Nodes
    /\ worked \in [Nodes -> 0..slot]
    /\ \A n \in Nodes :
        /\ Best(n) \in db[n].blocks /\ IsPrefix(Finalized(n), Best(n))
        /\ \A c \in db[n].blocks : Prefixes(c) \subseteq db[n].blocks
        /\ n \notin running => pool[n] = {}

\* No replay: on every branch, through forks, retractions and resubmissions, the
\* extrinsics of an account appear once each and in the order of their nonces: a
\* nonce is the number of the account's extrinsics before.
NonceOrder ==
    \A c \in Blocks :
        LET txs == Extrinsics(c)
        IN  \A i \in DOMAIN txs :
                txs[i].nonce = Cardinality({j \in 1..(i - 1) : txs[j].signer = txs[i].signer})

\* A mortal extrinsic is only ever applied on a branch that contains the block it
\* was signed at, and within MortalPeriod blocks of it, although only the phase
\* of its era is sent.
EraRespected ==
    \A c \in Blocks : \A i \in DOMAIN c : \A tx \in ToSet(c[i].extrinsics) :
        /\ IsPrefix(tx.checkpoint, SubSeq(c, 1, i - 1))
        /\ i < Len(tx.checkpoint) + MortalPeriod

\* On every branch an account that has signed something, or has money on hold, keeps
\* the existential deposit, whatever fees, bonds and stakes are taken from it: it
\* is never reaped, which would set its nonce back to 0 and let its extrinsics
\* apply again.
SignersStayAlive ==
    \A c \in Blocks : \A a \in Keyring :
        LET st == StateOf(genesis, c)
        IN  st.nonce[a] > 0 \/ st.held[a] > 0 => st.free[a] >= EXISTENTIAL_DEPOSIT

\* No authority signs two blocks for one slot, whatever stops, restarts, reverts
\* and purges happen in that slot.
NoEquivocation ==
    \A c, d \in Blocks \ {<<>>} : Last(c).slot = Last(d).slot => c = d

\* As long as no authority was purged, no two nodes finalize contradicting chains,
\* although each votes, changes rounds and finalizes on its own, is stopped in
\* between or reverted, and full nodes are purged: the vote of every authority
\* for a finalized block is in its database before anyone can act on it.
FinalityAgreement ==
    (\A n \in ToSet(genesis.authorities) : <<"purge-chain", n>> \notin commands)
    => \A m, n \in Nodes : Comparable(Finalized(m), Finalized(n))

\* The step in which the database of n is lost.
Forgets(n) == (n \notin running /\ PurgeChain(n)) \/ (n \in unlinked /\ Stop(n))

\* A finalized block stays finalized and on the best chain, through reorganisations,
\* reverts and restarts; only purge-chain forgets it, at the next stop if the
\* node was running.
FinalityKept ==
    [][\A n \in Nodes : \/ /\ IsPrefix(Finalized(n), db'[n].finalized)
                           /\ IsPrefix(Finalized(n), db'[n].best)
                        \/ Forgets(n)]_nodeVars

\* With the development preset and no revert or purge, a best chain only grows:
\* what a client saw in a block stays there, restarts included.
SoleAuthorityNoReorg ==
    [][Len(genesis.authorities) = 1 /\ (\A x \in commands' : x[1] = "import-blocks")
       => \A n \in Nodes : IsPrefix(Best(n), db'[n].best)]_nodeVars
=============================================================================
