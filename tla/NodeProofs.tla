----------------------------- MODULE NodeProofs -----------------------------
(***************************************************************************)
(* What the nodes of one network and the chain glue of the tools keep: the *)
(* block trees, finality, one block per slot, the best chain of a sole     *)
(* authority, the extrinsics on chains, in pools and in calls, and what    *)
(* they do to nonces and to the accounts that must stay alive.             *)
(***************************************************************************)
EXTENDS ChainGlue, FiniteSums

-----------------------------------------------------------------------------
(* Sequences and their prefixes *)

\* A chain is a sequence of blocks of some set.
IsChain(c) == \E S : c \in Seq(S)

\* A chain is given by its blocks.
LEMMA ChainFacts ==
    ASSUME NEW c, IsChain(c)
    PROVE  /\ Len(c) \in Nat /\ DOMAIN c = 1..Len(c)
           /\ c = [i \in 1..Len(c) |-> c[i]]
  BY DEF IsChain

\* Two chains with the same blocks are the same.
LEMMA ChainEqual ==
    ASSUME NEW c, NEW d, IsChain(c), IsChain(d), Len(c) = Len(d),
           \A i \in 1..Len(c) : c[i] = d[i]
    PROVE  c = d
  BY ChainFacts

\* The first blocks of a chain.
LEMMA FirstBlocks ==
    ASSUME NEW c, IsChain(c), NEW k \in 0..Len(c)
    PROVE  /\ IsChain(SubSeq(c, 1, k)) /\ Len(SubSeq(c, 1, k)) = k
           /\ \A i \in 1..k : SubSeq(c, 1, k)[i] = c[i]
<1>1. PICK S : c \in Seq(S)
  BY DEF IsChain
<1>2. SubSeq(c, 1, k) \in Seq(S) /\ Len(SubSeq(c, 1, k)) = k
  BY <1>1
<1>3. \A i \in 1..k : SubSeq(c, 1, k)[i] = c[i]
  BY <1>1
<1> QED
  BY <1>2, <1>3 DEF IsChain

\* A prefix, block by block.
LEMMA PrefixBlocks ==
    ASSUME NEW c, NEW d, IsChain(c), IsChain(d)
    PROVE  IsPrefix(c, d) <=> Len(c) <= Len(d) /\ \A i \in 1..Len(c) : c[i] = d[i]
<1>1. Len(c) \in Nat /\ Len(d) \in Nat
  BY ChainFacts
<1>2. CASE Len(c) <= Len(d)
  <2>1. PICK n \in 0..Len(c) : n = Len(c) /\ n \in 0..Len(d)
    BY <1>1, <1>2
  <2>2. /\ IsChain(SubSeq(c, 1, n)) /\ Len(SubSeq(c, 1, n)) = n
        /\ \A i \in 1..n : SubSeq(c, 1, n)[i] = c[i]
    BY <2>1, FirstBlocks
  <2>3. /\ IsChain(SubSeq(d, 1, n)) /\ Len(SubSeq(d, 1, n)) = n
        /\ \A i \in 1..n : SubSeq(d, 1, n)[i] = d[i]
    BY <2>1, FirstBlocks
  <2>4. SubSeq(c, 1, n) = SubSeq(d, 1, n) <=> \A i \in 1..n : c[i] = d[i]
    BY <2>2, <2>3, ChainEqual
  <2> QED
    BY <1>2, <2>1, <2>4 DEF IsPrefix
<1>3. CASE ~(Len(c) <= Len(d))
  BY <1>3 DEF IsPrefix
<1> QED
  BY <1>2, <1>3

\* Prefixes are ordered.
LEMMA PrefixOrder ==
    /\ \A c : IsChain(c) => IsPrefix(c, c)
    /\ \A c, d, e : IsChain(c) /\ IsChain(d) /\ IsChain(e) /\ IsPrefix(c, d) /\ IsPrefix(d, e)
         => IsPrefix(c, e)
    /\ \A c, d : IsChain(c) /\ IsChain(d) /\ IsPrefix(c, d) /\ IsPrefix(d, c) => c = d
<1>1. ASSUME NEW c, IsChain(c) PROVE IsPrefix(c, c)
  BY <1>1, PrefixBlocks, ChainFacts
<1>2. ASSUME NEW c, NEW d, NEW e, IsChain(c), IsChain(d), IsChain(e),
             IsPrefix(c, d), IsPrefix(d, e)
      PROVE  IsPrefix(c, e)
  <2>1. Len(c) \in Nat /\ Len(d) \in Nat /\ Len(e) \in Nat
    BY <1>2, ChainFacts
  <2>2. /\ Len(c) <= Len(d) /\ \A i \in 1..Len(c) : c[i] = d[i]
        /\ Len(d) <= Len(e) /\ \A i \in 1..Len(d) : d[i] = e[i]
    BY <1>2, PrefixBlocks
  <2>3. Len(c) <= Len(e) /\ \A i \in 1..Len(c) : c[i] = e[i]
    BY <2>1, <2>2
  <2> QED
    BY <1>2, <2>3, PrefixBlocks
<1>3. ASSUME NEW c, NEW d, IsChain(c), IsChain(d), IsPrefix(c, d), IsPrefix(d, c)
      PROVE  c = d
  <2>1. Len(c) \in Nat /\ Len(d) \in Nat
    BY <1>3, ChainFacts
  <2>2. Len(c) = Len(d) /\ \A i \in 1..Len(c) : c[i] = d[i]
    BY <1>3, <2>1, PrefixBlocks
  <2> QED
    BY <1>3, <2>2, ChainEqual
<1> QED
  BY <1>1, <1>2, <1>3

\* Two prefixes of one chain do not contradict each other; the shorter is a
\* prefix of the longer.
LEMMA PrefixesOfOne ==
    ASSUME NEW c, NEW d, NEW e, IsChain(c), IsChain(d), IsChain(e),
           IsPrefix(c, e), IsPrefix(d, e)
    PROVE  Comparable(c, d) /\ (Len(c) <= Len(d) => IsPrefix(c, d))
<1>1. Len(c) \in Nat /\ Len(d) \in Nat /\ Len(e) \in Nat
  BY ChainFacts
<1>2. /\ \A i \in 1..Len(c) : c[i] = e[i]
      /\ \A i \in 1..Len(d) : d[i] = e[i]
  BY PrefixBlocks
<1>3. Len(c) <= Len(d) => IsPrefix(c, d)
  BY <1>1, <1>2, PrefixBlocks
<1>4. Len(d) <= Len(c) => IsPrefix(d, c)
  BY <1>1, <1>2, PrefixBlocks
<1> QED
  BY <1>1, <1>3, <1>4 DEF Comparable

\* The empty chain, genesis, is a prefix of every chain.
LEMMA EmptyChain ==
    /\ IsChain(<<>>) /\ Len(<<>>) = 0
    /\ \A c : IsChain(c) => IsPrefix(<<>>, c) /\ (Len(c) = 0 => c = <<>>)
    /\ \A c : IsChain(c) /\ c # <<>> => Len(c) \in Nat \ {0}
<1>1. <<>> \in Seq({}) /\ Len(<<>>) = 0
  OBVIOUS
<1>2. IsChain(<<>>)
  BY <1>1 DEF IsChain
<1>3. ASSUME NEW c, IsChain(c) PROVE IsPrefix(<<>>, c) /\ (Len(c) = 0 => c = <<>>)
  BY <1>1, <1>2, <1>3, PrefixBlocks, ChainFacts, ChainEqual
<1> QED
  BY <1>1, <1>2, <1>3, ChainFacts

\* Prefixes(c) are the prefixes of c.
LEMMA PrefixSet ==
    ASSUME NEW c, IsChain(c)
    PROVE  /\ \A p \in Prefixes(c) : IsChain(p) /\ IsPrefix(p, c)
           /\ \A p : IsChain(p) /\ IsPrefix(p, c) => p \in Prefixes(c)
<1>1. Len(c) \in Nat
  BY ChainFacts
<1>2. ASSUME NEW p \in Prefixes(c) PROVE IsChain(p) /\ IsPrefix(p, c)
  <2>1. PICK k \in 0..Len(c) : p = SubSeq(c, 1, k)
    BY DEF Prefixes
  <2>2. IsChain(p) /\ Len(p) = k /\ \A i \in 1..k : p[i] = c[i]
    BY <2>1, FirstBlocks
  <2> QED
    BY <1>1, <2>2, PrefixBlocks
<1>3. ASSUME NEW p, IsChain(p), IsPrefix(p, c) PROVE p \in Prefixes(c)
  <2>1. Len(p) \in 0..Len(c) /\ \A i \in 1..Len(p) : p[i] = c[i]
    BY <1>1, <1>3, PrefixBlocks, ChainFacts
  <2>2. p = SubSeq(c, 1, Len(p))
    <3>1. PICK k \in 0..Len(c) : k = Len(p)
      BY <2>1
    <3>4. PICK q : q = SubSeq(c, 1, k)
      OBVIOUS
    <3>2. IsChain(q) /\ Len(q) = Len(p) /\ \A i \in 1..Len(p) : p[i] = q[i]
      BY <2>1, <3>1, <3>4, FirstBlocks
    <3>3. p = q
      BY <1>3, <3>2, ChainEqual
    <3> QED
      BY <3>1, <3>3, <3>4
  <2> QED
    BY <2>1, <2>2 DEF Prefixes
<1> QED
  BY <1>2, <1>3

\* One more block on a chain.
LEMMA OneMoreBlock ==
    ASSUME NEW c, NEW block, IsChain(c)
    PROVE  LET d == Append(c, block)
           IN  /\ IsChain(d) /\ Len(d) = Len(c) + 1 /\ IsPrefix(c, d)
               /\ d[Len(c) + 1] = block /\ Last(d) = block /\ d # <<>>
               /\ \A i \in 1..Len(c) : d[i] = c[i]
               /\ \A p : IsChain(p) /\ IsPrefix(p, d) => p = d \/ IsPrefix(p, c)
<1>1. PICK S : c \in Seq(S)
  BY DEF IsChain
<1>2. PICK T : T = S \cup {block}
  OBVIOUS
<1>3. c \in Seq(T) /\ block \in T
  BY <1>1, <1>2
<1>4. PICK d : d = Append(c, block)
  OBVIOUS
<1>5. /\ d \in Seq(T) /\ Len(d) = Len(c) + 1 /\ Len(c) \in Nat
      /\ d[Len(c) + 1] = block
      /\ \A i \in 1..Len(c) : d[i] = c[i]
  BY <1>3, <1>4
<1>6. IsChain(d)
  BY <1>5 DEF IsChain
<1>7. IsPrefix(c, d) /\ Last(d) = block /\ d # <<>>
  BY <1>5, <1>6, PrefixBlocks, EmptyChain DEF Last
<1>8. ASSUME NEW p, IsChain(p), IsPrefix(p, d) PROVE p = d \/ IsPrefix(p, c)
  <2>1. Len(p) \in Nat /\ Len(p) <= Len(d) /\ \A i \in 1..Len(p) : p[i] = d[i]
    BY <1>6, <1>8, PrefixBlocks, ChainFacts
  <2>2. CASE Len(p) = Len(d)
    BY <1>6, <1>8, <2>1, <2>2, ChainEqual
  <2>3. CASE Len(p) # Len(d)
    <3>1. Len(p) <= Len(c)
      BY <1>5, <2>1, <2>3
    <3>2. \A i \in 1..Len(p) : p[i] = c[i]
      BY <1>5, <2>1, <3>1
    <3> QED
      BY <1>8, <3>1, <3>2, PrefixBlocks
  <2> QED
    BY <2>2, <2>3
<1> QED
  BY <1>4, <1>5, <1>6, <1>7, <1>8

\* A chain but for its last block.
LEMMA OneBlockLess ==
    ASSUME NEW c, IsChain(c), c # <<>>
    PROVE  /\ IsChain(Front(c)) /\ IsPrefix(Front(c), c) /\ Len(Front(c)) = Len(c) - 1
           /\ Len(c) \in Nat \ {0}
           /\ \A p : IsChain(p) /\ IsPrefix(p, c) => p = c \/ IsPrefix(p, Front(c))
<1>1. Len(c) \in Nat \ {0} /\ Len(c) - 1 \in 0..Len(c)
  BY EmptyChain
<1>2. PICK k, f : k \in 0..Len(c) /\ k = Len(c) - 1 /\ f = Front(c) /\ f = SubSeq(c, 1, k)
  BY <1>1 DEF Front
<1>3. IsChain(f) /\ Len(f) = k /\ \A i \in 1..k : f[i] = c[i]
  BY <1>2, FirstBlocks
<1>4. IsPrefix(f, c)
  <2>1. Len(f) <= Len(c) /\ \A i \in 1..Len(f) : f[i] = c[i]
    BY <1>1, <1>2, <1>3
  <2> QED
    BY <1>3, <2>1, PrefixBlocks
<1>5. ASSUME NEW p, IsChain(p), IsPrefix(p, c) PROVE p = c \/ IsPrefix(p, f)
  <2>1. Len(p) \in Nat /\ Len(p) <= Len(c) /\ \A i \in 1..Len(p) : p[i] = c[i]
    BY <1>5, PrefixBlocks, ChainFacts
  <2>2. CASE Len(p) = Len(c)
    BY <1>5, <2>1, <2>2, ChainEqual
  <2>3. CASE Len(p) # Len(c)
    <3>1. Len(p) <= k /\ \A i \in 1..Len(p) : p[i] = f[i]
      BY <1>1, <1>2, <1>3, <2>1, <2>3
    <3> QED
      BY <1>3, <1>5, <3>1, PrefixBlocks
  <2> QED
    BY <2>2, <2>3
<1> QED
  BY <1>1, <1>2, <1>3, <1>4, <1>5

-----------------------------------------------------------------------------
(* The database of one node *)

\* A database is a tree of chains with the finalized one on the best one.
Tree(d) ==
    /\ d = [blocks |-> d.blocks, best |-> d.best, finalized |-> d.finalized]
    /\ d.best \in d.blocks
    /\ \A c \in d.blocks : IsChain(c) /\ Prefixes(c) \subseteq d.blocks
    /\ IsChain(d.finalized) /\ IsPrefix(d.finalized, d.best)

\* What a tree holds.
LEMMA TreeChains ==
    ASSUME NEW d, Tree(d)
    PROVE  /\ IsChain(d.best) /\ IsChain(d.finalized) /\ Len(d.best) \in Nat
           /\ IsPrefix(d.finalized, d.best) /\ d.best \in d.blocks
           /\ \A c \in d.blocks : IsChain(c)
           /\ \A c \in d.blocks : \A p : IsChain(p) /\ IsPrefix(p, c) => p \in d.blocks
<1>1. /\ IsChain(d.best) /\ IsChain(d.finalized) /\ d.best \in d.blocks
      /\ IsPrefix(d.finalized, d.best)
      /\ \A c \in d.blocks : IsChain(c) /\ Prefixes(c) \subseteq d.blocks
  BY DEF Tree
<1>2. \A c \in d.blocks : \A p : IsChain(p) /\ IsPrefix(p, c) => p \in d.blocks
  BY <1>1, PrefixSet
<1> QED
  BY <1>1, <1>2, ChainFacts

\* A set of chains is closed when the prefixes of its members are members.
LEMMA TreeFrom ==
    ASSUME NEW B, NEW best \in B, NEW final, IsChain(final), IsPrefix(final, best),
           \A c \in B : IsChain(c),
           \A c \in B : \A p : IsChain(p) /\ IsPrefix(p, c) => p \in B
    PROVE  Tree([blocks |-> B, best |-> best, finalized |-> final])
<1>1. PICK d : d = [blocks |-> B, best |-> best, finalized |-> final]
  OBVIOUS
<1>2. d.blocks = B /\ d.best = best /\ d.finalized = final
  BY <1>1
<1>3. \A c \in B : Prefixes(c) \subseteq B
  BY PrefixSet
<1>4. Tree(d)
  BY <1>1, <1>2, <1>3 DEF Tree
<1> QED
  BY <1>1, <1>4

\* An empty database.
LEMMA EmptyTree == Tree(EmptyDb) /\ EmptyDb.finalized = <<>> /\ EmptyDb.best = <<>>
                   /\ EmptyDb.blocks = {<<>>}
<1>1. \A p : IsChain(p) /\ IsPrefix(p, <<>>) => p \in {<<>>}
  BY EmptyChain, PrefixOrder
<1>2. \A c \in {<<>>} : \A p : IsChain(p) /\ IsPrefix(p, c) => p \in {<<>>}
  BY <1>1
<1>3. Tree([blocks |-> {<<>>}, best |-> <<>>, finalized |-> <<>>])
  BY <1>2, EmptyChain, TreeFrom
<1> QED
  BY <1>3 DEF EmptyDb

\* Importing the chain c with its ancestors `new`.
LEMMA TreeGrows ==
    ASSUME NEW d, Tree(d), NEW new, NEW c \in new,
           \A x \in new : IsChain(x),
           \A x \in new : \A p : IsChain(p) /\ IsPrefix(p, x) => p \in d.blocks \cup new,
           IsPrefix(d.finalized, c)
    PROVE  /\ Tree([blocks |-> d.blocks \cup new, best |-> Chosen(d.best, c),
                    finalized |-> d.finalized])
           /\ IsPrefix(d.finalized, Chosen(d.best, c))
           /\ Chosen(d.best, c) \in {d.best, c}
<1>1. Chosen(d.best, c) \in {d.best, c}
  BY DEF Chosen
<1>2. Chosen(d.best, c) \in d.blocks \cup new /\ IsPrefix(d.finalized, Chosen(d.best, c))
  BY <1>1, TreeChains
<1>3. /\ \A x \in d.blocks \cup new : IsChain(x)
      /\ \A x \in d.blocks \cup new : \A p : IsChain(p) /\ IsPrefix(p, x) => p \in d.blocks \cup new
  BY TreeChains
<1>4. IsChain(d.finalized)
  BY TreeChains
<1>5. Tree([blocks |-> d.blocks \cup new, best |-> Chosen(d.best, c), finalized |-> d.finalized])
  BY <1>2, <1>3, <1>4, TreeFrom
<1> QED
  BY <1>1, <1>2, <1>5

\* Finalizing b prunes the forks that contradict it.
LEMMA TreeFinalizes ==
    ASSUME NEW d, Tree(d), NEW b, IsChain(b), IsPrefix(d.finalized, b),
           NEW best \in d.blocks, IsPrefix(b, best)
    PROVE  /\ Tree([blocks |-> Pruned(d.blocks, b), best |-> best, finalized |-> b])
           /\ IsPrefix(d.finalized, best)
<1>1. IsChain(best) /\ IsChain(d.finalized)
  BY TreeChains
<1>2. best \in Pruned(d.blocks, b)
  BY DEF Pruned, Comparable
<1>3. \A x \in Pruned(d.blocks, b) : IsChain(x) /\ x \in d.blocks /\ Comparable(b, x)
  BY TreeChains DEF Pruned
<1>4. ASSUME NEW x \in Pruned(d.blocks, b), NEW p, IsChain(p), IsPrefix(p, x)
      PROVE  p \in Pruned(d.blocks, b)
  <2>1. p \in d.blocks
    BY <1>3, <1>4, TreeChains
  <2>2. CASE IsPrefix(b, x)
    <3>1. Comparable(b, p)
      BY <1>3, <1>4, <2>2, PrefixesOfOne
    <3> QED
      BY <2>1, <3>1 DEF Pruned
  <2>3. CASE IsPrefix(x, b)
    <3>1. IsPrefix(p, b)
      BY <1>3, <1>4, <2>3, PrefixOrder
    <3> QED
      BY <2>1, <3>1 DEF Pruned, Comparable
  <2> QED
    BY <1>3, <2>2, <2>3 DEF Comparable
<1>5. IsPrefix(d.finalized, best)
  BY <1>1, PrefixOrder
<1>6. Tree([blocks |-> Pruned(d.blocks, b), best |-> best, finalized |-> b])
  BY <1>2, <1>3, <1>4, TreeFrom
<1> QED
  BY <1>5, <1>6

\* Reverting to a block that is not below the finalized one.
LEMMA TreeReverts ==
    ASSUME NEW d, Tree(d), NEW number \in 0..Len(d.best), Len(d.finalized) <= number
    PROVE  /\ Tree([blocks |-> {c \in d.blocks : Len(c) <= number},
                    best |-> SubSeq(d.best, 1, number), finalized |-> d.finalized])
           /\ IsPrefix(d.finalized, SubSeq(d.best, 1, number))
           /\ IsPrefix(SubSeq(d.best, 1, number), d.best)
<1>1. PICK best : best = SubSeq(d.best, 1, number)
  OBVIOUS
<1>2. IsChain(best) /\ Len(best) = number /\ \A i \in 1..number : best[i] = d.best[i]
  BY <1>1, TreeChains, FirstBlocks
<1>3. IsPrefix(best, d.best)
  <2>1. Len(best) <= Len(d.best) /\ \A i \in 1..Len(best) : best[i] = d.best[i]
    BY <1>2, TreeChains
  <2> QED
    BY <1>2, <2>1, TreeChains, PrefixBlocks
<1>4. best \in {c \in d.blocks : Len(c) <= number}
  BY <1>2, <1>3, TreeChains
<1>5. IsPrefix(d.finalized, best)
  BY <1>2, <1>3, TreeChains, PrefixesOfOne
<1>6. ASSUME NEW x \in {c \in d.blocks : Len(c) <= number}, NEW p, IsChain(p), IsPrefix(p, x)
      PROVE  p \in {c \in d.blocks : Len(c) <= number}
  <2>1. p \in d.blocks /\ IsChain(x)
    BY <1>6, TreeChains
  <2>2. Len(p) <= Len(x) /\ Len(p) \in Nat /\ Len(x) \in Nat
    BY <1>6, <2>1, PrefixBlocks, ChainFacts
  <2> QED
    BY <2>1, <2>2
<1>7. Tree([blocks |-> {c \in d.blocks : Len(c) <= number}, best |-> best,
            finalized |-> d.finalized])
  <2>1. \A c \in {x \in d.blocks : Len(x) <= number} : IsChain(c)
    BY TreeChains
  <2>2. IsChain(d.finalized)
    BY TreeChains
  <2> QED
    BY <1>4, <1>5, <1>6, <2>1, <2>2, TreeFrom
<1> QED
  BY <1>1, <1>3, <1>5, <1>7

-----------------------------------------------------------------------------
(* What a step does to the databases *)

\* The database of every node is a tree.
Forest == db = [n \in Nodes |-> db[n]] /\ \A n \in Nodes : Tree(db[n])

\* The database of n becomes the given one, the others stay.
Changed(n, blocks, best, final) ==
    /\ db' = [k \in Nodes |-> db'[k]]
    /\ \A k \in Nodes \ {n} : db'[k] = db[k]
    /\ db'[n] = [blocks |-> blocks, best |-> best, finalized |-> final]

\* n gets the chain c with its ancestors `new`.
Grows(n, new, c) ==
    /\ c \in new /\ \A x \in new : IsChain(x)
    /\ \A x \in new : \A p : IsChain(p) /\ IsPrefix(p, x) => p \in db[n].blocks \cup new
    /\ IsPrefix(Finalized(n), c)
    /\ Changed(n, db[n].blocks \cup new, Chosen(Best(n), c), Finalized(n))

\* The pool of n is maintained for a new best chain.
Refills(n, best) == \E kept \in Maintained(n, best) : pool' = [pool EXCEPT ![n] = kept]

\* What may be finalized: what voters agreed on, or what some node has finalized.
Justified(b) ==
    \/ \E r \in 1..budget.rounds : Committed(r, b)
    \/ \E m \in Nodes : b = Finalized(m)

\* The kinds of change: a new block, blocks of another node, a finalized block, the
\* loss of the database, and a revert.
AuthorsBlock(n, block) ==
    /\ n \in Authority /\ worked[n] < slot /\ SlotAuthor(genesis, slot) = n
    /\ block.slot = slot /\ block.extrinsics \in Proposals(n)
    /\ worked' = [worked EXCEPT ![n] = slot]
    /\ Grows(n, {Append(Best(n), block)}, Append(Best(n), block))
FetchesBlocks(n, m, new, c) == new \subseteq db[m].blocks /\ Grows(n, new, c)
Finalizes(n, b, best) ==
    /\ Justified(b) /\ b \in db[n].blocks /\ best \in db[n].blocks
    /\ IsPrefix(Finalized(n), b) /\ IsPrefix(b, best)
    /\ best = Best(n) \/ (best = b /\ ~IsPrefix(b, Best(n)))
    /\ Changed(n, Pruned(db[n].blocks, b), best, b)
Loses(n) ==
    /\ Forgets(n) /\ (<<"purge-chain", n>> \in commands' \/ n \in unlinked)
    /\ Changed(n, {<<>>}, <<>>, <<>>)
Reverts(n, number) ==
    /\ commands' = commands \cup {<<"revert", n>>}
    /\ number \in 0..Len(Best(n)) /\ Len(Finalized(n)) <= number
    /\ Changed(n, {c \in db[n].blocks : Len(c) <= number}, SubSeq(Best(n), 1, number),
               Finalized(n))

\* An update of one node's database.
LEMMA UpdateDb ==
    ASSUME Forest, NEW n \in Nodes, NEW d, db' = [db EXCEPT ![n] = d]
    PROVE  /\ db' = [k \in Nodes |-> db'[k]] /\ db'[n] = d
           /\ \A k \in Nodes \ {n} : db'[k] = db[k]
  BY DEF Forest

\* An update that leaves the finalized chain alone.
LEMMA UpdateBlocks ==
    ASSUME Forest, NEW n \in Nodes, NEW B, NEW best,
           db' = [db EXCEPT ![n].blocks = B, ![n].best = best]
    PROVE  Changed(n, B, best, Finalized(n))
<1>1. db[n] = [blocks |-> db[n].blocks, best |-> db[n].best, finalized |-> db[n].finalized]
  BY DEF Forest, Tree
<1>2. DOMAIN db = Nodes
  BY DEF Forest
<1>3. /\ db' = [k \in Nodes |-> db'[k]]
      /\ \A k \in Nodes \ {n} : db'[k] = db[k]
  BY <1>2
<1>4. db'[n] = [[db[n] EXCEPT !.blocks = B] EXCEPT !.best = best]
  BY <1>2
<1>5. db'[n] = [blocks |-> B, best |-> best, finalized |-> db[n].finalized]
  BY <1>1, <1>4
<1> QED
  BY <1>3, <1>5 DEF Changed, Finalized

\* Importing a chain with its ancestors.
LEMMA ImportGrows ==
    ASSUME Forest, NEW n \in Nodes, NEW new, NEW c \in new, \A x \in new : IsChain(x),
           \A x \in new : \A p : IsChain(p) /\ IsPrefix(p, x) => p \in db[n].blocks \cup new,
           IsPrefix(Finalized(n), c),
           db' = [db EXCEPT ![n].blocks = @ \cup new, ![n].best = Chosen(Best(n), c)]
    PROVE  Grows(n, new, c)
<1>1. PICK B : B = db[n].blocks \cup new
  OBVIOUS
<1>2. db' = [db EXCEPT ![n].blocks = B, ![n].best = Chosen(Best(n), c)]
  BY <1>1
<1>3. Changed(n, B, Chosen(Best(n), c), Finalized(n))
  BY <1>2, UpdateBlocks
<1> QED
  BY <1>1, <1>3 DEF Grows

\* Authoring adds one block to the best chain.
LEMMA AuthorEffect ==
    ASSUME Forest, NEW n \in Nodes, Author(n)
    PROVE  \E block : /\ AuthorsBlock(n, block)
                      /\ Refills(n, Chosen(Best(n), Append(Best(n), block)))
<1>1. PICK txs \in Proposals(n) :
        /\ execute_block(genesis, Best(n), [slot |-> slot, extrinsics |-> txs])
        /\ ImportBlock(n, Append(Best(n), [slot |-> slot, extrinsics |-> txs]))
  BY DEF Author
<1>2. PICK block, c : block = [slot |-> slot, extrinsics |-> txs] /\ c = Append(Best(n), block)
  OBVIOUS
<1>3. Tree(db[n])
  BY DEF Forest
<1>4. /\ IsChain(Best(n)) /\ IsPrefix(Finalized(n), Best(n)) /\ IsChain(Finalized(n))
      /\ Best(n) \in db[n].blocks
      /\ \A p : IsChain(p) /\ IsPrefix(p, Best(n)) => p \in db[n].blocks
  BY <1>3, TreeChains DEF Best, Finalized
<1>5. /\ IsChain(c) /\ IsPrefix(Best(n), c)
      /\ \A p : IsChain(p) /\ IsPrefix(p, c) => p = c \/ IsPrefix(p, Best(n))
  BY <1>2, <1>4, OneMoreBlock
<1>6. IsPrefix(Finalized(n), c)
  BY <1>4, <1>5, PrefixOrder
<1>7. \A x \in {c} : \A p : IsChain(p) /\ IsPrefix(p, x) => p \in db[n].blocks \cup {c}
  BY <1>4, <1>5
<1>8. /\ db' = [db EXCEPT ![n].blocks = @ \cup {c}, ![n].best = Chosen(Best(n), c)]
      /\ Refills(n, Chosen(Best(n), c))
  BY <1>1, <1>2 DEF ImportBlock, Refills
<1>9. Grows(n, {c}, c)
  BY <1>5, <1>6, <1>7, <1>8, ImportGrows
<1>10. n \in Authority /\ worked[n] < slot /\ SlotAuthor(genesis, slot) = n
       /\ worked' = [worked EXCEPT ![n] = slot]
  BY DEF Author, Tasks
<1>11. block.slot = slot /\ block.extrinsics \in Proposals(n)
  BY <1>2
<1>12. AuthorsBlock(n, block)
  BY <1>2, <1>9, <1>10, <1>11 DEF AuthorsBlock
<1> QED
  BY <1>2, <1>8, <1>12

\* The import queue takes one block of a peer.
LEMMA ImportEffect ==
    ASSUME Forest, NEW m \in Nodes, NEW n \in Nodes, NEW c \in db[m].blocks, Import(m, n, c)
    PROVE  /\ FetchesBlocks(n, m, {c}, c)
           /\ Refills(n, Chosen(Best(n), c))
           /\ c # <<>> /\ Front(c) \in db[n].blocks
<1>1. Tree(db[n]) /\ Tree(db[m])
  BY DEF Forest
<1>2. /\ IsChain(c) /\ Front(c) \in db[n].blocks /\ c \notin db[n].blocks
      /\ IsPrefix(Finalized(n), c)
  BY <1>1, TreeChains DEF Import
<1>3. c # <<>>
  <2>1. IsPrefix(<<>>, Best(n)) /\ IsChain(<<>>)
    BY <1>1, TreeChains, EmptyChain DEF Best
  <2>2. <<>> \in db[n].blocks
    BY <1>1, <2>1, TreeChains DEF Best
  <2> QED
    BY <1>2, <2>2
<1>4. \A p : IsChain(p) /\ IsPrefix(p, c) => p = c \/ IsPrefix(p, Front(c))
  BY <1>2, <1>3, OneBlockLess
<1>5. \A x \in {c} : \A p : IsChain(p) /\ IsPrefix(p, x) => p \in db[n].blocks \cup {c}
  BY <1>1, <1>2, <1>4, TreeChains
<1>6. /\ db' = [db EXCEPT ![n].blocks = @ \cup {c}, ![n].best = Chosen(Best(n), c)]
      /\ Refills(n, Chosen(Best(n), c))
  BY DEF Import, ImportBlock, Refills
<1>7. Grows(n, {c}, c)
  BY <1>2, <1>5, <1>6, ImportGrows
<1> QED
  BY <1>2, <1>3, <1>6, <1>7 DEF FetchesBlocks

\* import-blocks takes the best chain of another node.
LEMMA ImportBlocksEffect ==
    ASSUME Forest, NEW m \in Nodes, NEW n \in Nodes, ImportBlocks(m, n)
    PROVE  FetchesBlocks(n, m, Prefixes(Best(m)), Best(m))
<1>1. Tree(db[n]) /\ Tree(db[m])
  BY DEF Forest
<1>2. PICK c, new : c = Best(m) /\ new = Prefixes(c)
  OBVIOUS
<1>3. IsChain(c) /\ c \in db[m].blocks /\ IsPrefix(c, c)
  BY <1>1, <1>2, TreeChains, PrefixOrder DEF Best
<1>4. /\ \A x \in new : IsChain(x) /\ IsPrefix(x, c)
      /\ \A p : IsChain(p) /\ IsPrefix(p, c) => p \in new
  BY <1>2, <1>3, PrefixSet
<1>5. c \in new
  BY <1>3, <1>4
<1>6. new \subseteq db[m].blocks
  BY <1>1, <1>3, <1>4, TreeChains
<1>7. \A x \in new : \A p : IsChain(p) /\ IsPrefix(p, x) => p \in db[n].blocks \cup new
  BY <1>3, <1>4, PrefixOrder
<1>8. /\ db' = [db EXCEPT ![n].blocks = @ \cup new, ![n].best = Chosen(@, c)]
      /\ IsPrefix(Finalized(n), c)
  BY <1>2 DEF ImportBlocks
<1>9. db' = [db EXCEPT ![n].blocks = @ \cup new, ![n].best = Chosen(Best(n), c)]
  <2>1. db[n] = [blocks |-> db[n].blocks, best |-> db[n].best, finalized |-> db[n].finalized]
    BY <1>1 DEF Tree
  <2>2. [db[n] EXCEPT !.blocks = @ \cup new].best = Best(n)
    BY <2>1 DEF Best
  <2> QED
    BY <1>8, <2>2 DEF Best
<1>10. Grows(n, new, c)
  BY <1>4, <1>5, <1>7, <1>8, <1>9, ImportGrows
<1> QED
  BY <1>2, <1>6, <1>10 DEF FetchesBlocks

\* Finalizing moves the finalized chain forward and, from another fork, the best one.
LEMMA FinalizeEffect ==
    ASSUME Forest, NEW n \in Nodes, NEW b, FinalizeBlock(n, b), Justified(b)
    PROVE  Finalizes(n, b, BestAbove(n, b)) /\ Refills(n, BestAbove(n, b))
<1>1. PICK best : best = BestAbove(n, b)
  OBVIOUS
<1>2. /\ db' = [db EXCEPT ![n] = [blocks |-> Pruned(@.blocks, b), best |-> best,
                                  finalized |-> b]]
      /\ b \in db[n].blocks /\ IsPrefix(Finalized(n), b)
      /\ Refills(n, best)
  BY <1>1 DEF FinalizeBlock, IsStrictPrefix, Refills
<1>3. Tree(db[n])
  BY DEF Forest
<1>4. Best(n) \in db[n].blocks /\ IsChain(b) /\ IsPrefix(b, b)
  BY <1>2, <1>3, TreeChains, PrefixOrder DEF Best
<1>5. /\ best \in db[n].blocks /\ IsPrefix(b, best)
      /\ best = Best(n) \/ (best = b /\ ~IsPrefix(b, Best(n)))
  BY <1>1, <1>2, <1>4 DEF BestAbove
<1>6. PICK d : d = [blocks |-> Pruned(db[n].blocks, b), best |-> best, finalized |-> b]
  OBVIOUS
<1>7. db' = [db EXCEPT ![n] = d]
  BY <1>2, <1>6
<1>8. Changed(n, Pruned(db[n].blocks, b), best, b)
  BY <1>6, <1>7, UpdateDb DEF Changed
<1> QED
  BY <1>1, <1>2, <1>5, <1>8 DEF Finalizes

\* A database that is lost leaves genesis.
LEMMA LossEffect ==
    ASSUME Forest, NEW n \in Nodes, Forgets(n), db' = [db EXCEPT ![n] = EmptyDb]
    PROVE  Loses(n)
<1>1. PICK d : d = EmptyDb
  OBVIOUS
<1>2. Changed(n, {<<>>}, <<>>, <<>>)
  BY <1>1, UpdateDb DEF Changed, EmptyDb
<1>3. <<"purge-chain", n>> \in commands' \/ n \in unlinked
  BY DEF Forgets, PurgeChain, Command
<1> QED
  BY <1>2, <1>3 DEF Loses

\* purge-chain takes the database of a stopped node, and that of a running one when
\* it stops.
LEMMA PurgeEffect ==
    ASSUME Forest, NEW n \in Nodes, PurgeChain(n) \/ Stop(n)
    PROVE  db' = db \/ Loses(n)
<1>1. CASE PurgeChain(n) /\ n \in running
  BY <1>1 DEF PurgeChain
<1>2. CASE PurgeChain(n) /\ n \notin running
  <2>1. Forgets(n) /\ db' = [db EXCEPT ![n] = EmptyDb]
    BY <1>2 DEF Forgets, PurgeChain
  <2> QED
    BY <2>1, LossEffect
<1>3. CASE Stop(n) /\ n \notin unlinked
  BY <1>3 DEF Stop
<1>4. CASE Stop(n) /\ n \in unlinked
  <2>1. Forgets(n) /\ db' = [db EXCEPT ![n] = EmptyDb]
    BY <1>4 DEF Forgets, Stop
  <2> QED
    BY <2>1, LossEffect
<1> QED
  BY <1>1, <1>2, <1>3, <1>4

\* revert goes back on the best chain.
LEMMA RevertEffect ==
    ASSUME Forest, NEW n \in Nodes, NEW number \in 0..(Len(Best(n)) - 1), Revert(n, number)
    PROVE  Reverts(n, number)
<1>1. Tree(db[n])
  BY DEF Forest
<1>2. Len(Best(n)) \in Nat
  BY <1>1, TreeChains DEF Best
<1>3. /\ commands' = commands \cup {<<"revert", n>>} /\ Len(Finalized(n)) <= number
      /\ db' = [db EXCEPT ![n].blocks = {c \in @ : Len(c) <= number},
                          ![n].best = SubSeq(@, 1, number)]
  BY DEF Revert, OpenCommand, Command
<1>4. db[n] = [blocks |-> db[n].blocks, best |-> db[n].best, finalized |-> db[n].finalized]
  BY <1>1 DEF Tree
<1>5. PICK B, best : B = {c \in db[n].blocks : Len(c) <= number} /\ best = SubSeq(Best(n), 1, number)
  OBVIOUS
<1>6. [db[n] EXCEPT !.blocks = B].best = Best(n)
  BY <1>4 DEF Best
<1>7. db' = [db EXCEPT ![n].blocks = B, ![n].best = best]
  BY <1>3, <1>5, <1>6
<1>8. Changed(n, B, best, Finalized(n))
  BY <1>7, UpdateBlocks
<1> QED
  BY <1>2, <1>3, <1>5, <1>8 DEF Reverts

\* What a step may do to the databases.
DbStep ==
    \/ db' = db
    \/ \E n \in Nodes : \E block : AuthorsBlock(n, block)
    \/ \E n, m \in Nodes : \E new : \E c : FetchesBlocks(n, m, new, c)
    \/ \E n \in Nodes : \E b, best : Finalizes(n, b, best)
    \/ \E n \in Nodes : Loses(n)
    \/ \E n \in Nodes : \E number : Reverts(n, number)

\* Every step of the nodes does one of these, and commands are remembered.
LEMMA NodeSteps ==
    ASSUME Forest, NodeNext
    PROVE  DbStep /\ commands \subseteq commands' /\ genesis' = genesis
<1>1. CASE NextSlot
  BY <1>1 DEF NextSlot, DbStep
<1>2. ASSUME NEW n \in Nodes, Author(n)
      PROVE  DbStep /\ commands \subseteq commands' /\ genesis' = genesis
  <2>1. PICK block : AuthorsBlock(n, block)
    BY <1>2, AuthorEffect
  <2> QED
    BY <1>2, <2>1 DEF DbStep, Author
<1>3. ASSUME NEW n \in Nodes, Start(n)
      PROVE  DbStep /\ commands \subseteq commands' /\ genesis' = genesis
  BY <1>3 DEF Start, DbStep
<1>4. ASSUME NEW n \in Nodes, PurgeChain(n) \/ Stop(n)
      PROVE  DbStep /\ commands \subseteq commands' /\ genesis' = genesis
  <2>1. db' = db \/ Loses(n)
    BY <1>4, PurgeEffect
  <2>2. genesis' = genesis /\ commands \subseteq commands'
    BY <1>4 DEF PurgeChain, Command, Stop
  <2> QED
    BY <2>1, <2>2 DEF DbStep
<1>5. ASSUME NEW n \in Nodes, NEW number \in 0..(Len(Best(n)) - 1), Revert(n, number)
      PROVE  DbStep /\ commands \subseteq commands' /\ genesis' = genesis
  <2>1. Reverts(n, number)
    BY <1>5, RevertEffect
  <2>2. genesis' = genesis /\ commands \subseteq commands'
    BY <1>5 DEF Revert, OpenCommand, Command
  <2> QED
    BY <2>1, <2>2 DEF DbStep
<1>6. ASSUME NEW m \in Nodes, NEW n \in Nodes, NEW tx, Gossip(m, n, tx)
      PROVE  DbStep /\ commands \subseteq commands' /\ genesis' = genesis
  BY <1>6 DEF Gossip, DbStep
<1>7. ASSUME NEW m \in Nodes, NEW n \in Nodes, NEW c \in db[m].blocks, Import(m, n, c)
      PROVE  DbStep /\ commands \subseteq commands' /\ genesis' = genesis
  <2>1. FetchesBlocks(n, m, {c}, c)
    BY <1>7, ImportEffect
  <2>2. genesis' = genesis /\ commands \subseteq commands'
    BY <1>7 DEF Import
  <2> QED
    BY <2>1, <2>2 DEF DbStep
<1>8. ASSUME NEW n \in Nodes, NEW b, FinalizeBlock(n, b), Justified(b)
      PROVE  DbStep /\ commands \subseteq commands' /\ genesis' = genesis
  <2>1. Finalizes(n, b, BestAbove(n, b))
    BY <1>8, FinalizeEffect
  <2>2. genesis' = genesis /\ commands \subseteq commands'
    BY <1>8 DEF FinalizeBlock
  <2> QED
    BY <2>1, <2>2 DEF DbStep
<1>9. ASSUME NEW m \in Nodes, NEW n \in Nodes, ImportBlocks(m, n)
      PROVE  DbStep /\ commands \subseteq commands' /\ genesis' = genesis
  <2>1. FetchesBlocks(n, m, Prefixes(Best(m)), Best(m))
    BY <1>9, ImportBlocksEffect
  <2>2. genesis' = genesis /\ commands \subseteq commands'
    BY <1>9 DEF ImportBlocks, OpenCommand, Command
  <2> QED
    BY <2>1, <2>2 DEF DbStep
<1>10. ASSUME NEW m \in Nodes, NEW n \in Nodes, ImportJustification(m, n)
       PROVE  DbStep /\ commands \subseteq commands' /\ genesis' = genesis
  BY <1>8, <1>10 DEF ImportJustification, Justified
<1>11. ASSUME NEW n \in Nodes, NEW b, NEW r \in 1..budget.rounds, FinalizeCommit(n, r, b)
       PROVE  DbStep /\ commands \subseteq commands' /\ genesis' = genesis
  BY <1>8, <1>11 DEF FinalizeCommit, Justified
<1>12. ASSUME NEW n \in Nodes, NEW b, NEW votes, Precommit(n, b) \/ NextRound(n, votes, b)
       PROVE  DbStep /\ commands \subseteq commands' /\ genesis' = genesis
  BY <1>12 DEF Precommit, NextRound, DbStep
<1> QED
  BY <1>1, <1>2, <1>3, <1>4, <1>5, <1>6, <1>7, <1>9, <1>10, <1>11, <1>12 DEF NodeNext

\* The pool of Rpc is all of the nodes that may change.
NodesStay == UNCHANGED <<genesis, slot, db, grandpaVars, running, worked, budget, commands>>

\* The tools change nothing of the nodes but the pool of Rpc.
LEMMA ToolSteps ==
    ASSUME [GlueNext]_glueVars
    PROVE  \/ NodesStep
           \/ NodesStay /\ pool' = pool
           \/ /\ NodesStay /\ Rpc \in running
              /\ \E c \in Caller : /\ calls[c].phase = "signed"
                                   /\ \E kept \in Added(Rpc, calls[c].tx) :
                                        pool' = [pool EXCEPT ![Rpc] = kept]
<1>1. ASSUME NEW c \in Caller, Sign(c) PROVE UNCHANGED nodeVars
  BY <1>1 DEF Sign
<1>2. ASSUME NEW c \in Caller, Callback(c) PROVE UNCHANGED nodeVars
  BY <1>2 DEF Callback
<1>3. CASE WaitStart \/ WaitAnswer \/ WaitResume \/ WaitWake
  BY <1>3 DEF WaitStart, WaitAnswer, WaitResume, WaitWake, nodeVars, NodesStay
<1>4. ASSUME NEW c \in Caller, Submit(c)
      PROVE  /\ NodesStay
             /\ \/ pool' = pool
                \/ /\ Rpc \in running
                   /\ calls[c].phase = "signed"
                   /\ \E kept \in Added(Rpc, calls[c].tx) : pool' = [pool EXCEPT ![Rpc] = kept]
  BY <1>4 DEF Submit, nodeVars, NodesStay
<1>5. CASE UNCHANGED glueVars
  BY <1>5 DEF glueVars, nodeVars, NodesStay
<1> QED
  BY <1>1, <1>2, <1>3, <1>4, <1>5 DEF GlueNext, nodeVars, NodesStay

\* Every step does one of the changes.
LEMMA EveryDbStep ==
    ASSUME Forest, [GlueNext]_glueVars
    PROVE  DbStep /\ commands \subseteq commands' /\ genesis' = genesis
<1>1. CASE NodesStep
  BY <1>1, NodeSteps DEF NodesStep
<1> QED
  BY <1>1, ToolSteps DEF DbStep, NodesStay

\* The changes keep the trees, and finality but for a purge.
LEMMA ForestKept ==
    ASSUME Forest, DbStep
    PROVE  /\ Forest'
           /\ \A n \in Nodes : \/ /\ IsPrefix(Finalized(n), db'[n].finalized)
                                  /\ IsPrefix(Finalized(n), db'[n].best)
                               \/ Forgets(n)
<1> DEFINE Kept(n) == /\ IsPrefix(Finalized(n), db'[n].finalized)
                      /\ IsPrefix(Finalized(n), db'[n].best)
<1>0. ASSUME NEW n \in Nodes PROVE Tree(db[n]) /\ (db'[n] = db[n] => Kept(n))
  <2>1. Tree(db[n])
    BY <1>0 DEF Forest
  <2>2. IsPrefix(Finalized(n), Best(n)) /\ IsPrefix(Finalized(n), Finalized(n))
    BY <2>1, TreeChains, PrefixOrder DEF Best, Finalized
  <2> QED
    BY <2>1, <2>2 DEF Best, Finalized
<1>1. ASSUME db' = [k \in Nodes |-> db'[k]],
             \A n \in Nodes : db'[n] = db[n] \/ (Tree(db'[n]) /\ Kept(n))
      PROVE  Forest' /\ \A n \in Nodes : Kept(n)
  BY <1>0, <1>1 DEF Forest
<1>2. CASE db' = db
  BY <1>0, <1>1, <1>2 DEF Forest
<1>3. ASSUME NEW n \in Nodes, NEW new, NEW c, Grows(n, new, c)
      PROVE  Forest' /\ \A k \in Nodes : Kept(k)
  <2>1. PICK d : d = [blocks |-> db[n].blocks \cup new, best |-> Chosen(db[n].best, c),
                      finalized |-> db[n].finalized]
    OBVIOUS
  <2>2. db'[n] = d
    BY <1>3, <2>1 DEF Grows, Changed, Best, Finalized
  <2>3. Tree(d) /\ IsPrefix(db[n].finalized, Chosen(db[n].best, c))
    BY <1>0, <1>3, <2>1, TreeGrows DEF Grows, Finalized
  <2>4. IsPrefix(db[n].finalized, db[n].finalized)
    BY <1>0, TreeChains, PrefixOrder
  <2>5. d.best = Chosen(db[n].best, c) /\ d.finalized = db[n].finalized
    BY <2>1
  <2>6. Tree(db'[n]) /\ Kept(n)
    BY <2>2, <2>3, <2>4, <2>5 DEF Finalized
  <2>7. \A k \in Nodes \ {n} : db'[k] = db[k]
    BY <1>3 DEF Grows, Changed
  <2>8. db' = [k \in Nodes |-> db'[k]]
    BY <1>3 DEF Grows, Changed
  <2> QED
    BY <1>1, <2>6, <2>7, <2>8
<1>5. ASSUME NEW n \in Nodes, NEW b, NEW best, Finalizes(n, b, best)
      PROVE  Forest' /\ \A k \in Nodes : Kept(k)
  <2>1. PICK d : d = [blocks |-> Pruned(db[n].blocks, b), best |-> best, finalized |-> b]
    OBVIOUS
  <2>2. db'[n] = d
    BY <1>5, <2>1 DEF Finalizes, Changed
  <2>3. /\ IsChain(b) /\ IsPrefix(db[n].finalized, b) /\ IsPrefix(b, best)
        /\ best \in db[n].blocks
    BY <1>0, <1>5, TreeChains DEF Finalizes, Finalized
  <2>4. Tree(d) /\ IsPrefix(db[n].finalized, best)
    BY <1>0, <2>1, <2>3, TreeFinalizes
  <2>5. Tree(db'[n]) /\ Kept(n)
    BY <2>1, <2>2, <2>3, <2>4 DEF Finalized
  <2>6. db' = [k \in Nodes |-> db'[k]] /\ \A k \in Nodes \ {n} : db'[k] = db[k]
    BY <1>5 DEF Finalizes, Changed
  <2> QED
    BY <1>1, <2>5, <2>6
<1>6. ASSUME NEW n \in Nodes, Loses(n)
      PROVE  Forest' /\ \A k \in Nodes : Kept(k) \/ Forgets(k)
  <2>1. Tree(db'[n]) /\ Forgets(n)
    BY <1>6, EmptyTree DEF Loses, Changed, EmptyDb
  <2>2. db' = [k \in Nodes |-> db'[k]] /\ \A k \in Nodes \ {n} : db'[k] = db[k]
    BY <1>6 DEF Loses, Changed
  <2>3. \A k \in Nodes : Tree(db'[k])
    BY <1>0, <2>1, <2>2
  <2>4. \A k \in Nodes : Kept(k) \/ Forgets(k)
    BY <1>0, <2>1, <2>2
  <2> QED
    BY <2>2, <2>3, <2>4 DEF Forest
<1>7. ASSUME NEW n \in Nodes, NEW number, Reverts(n, number)
      PROVE  Forest' /\ \A k \in Nodes : Kept(k)
  <2>1. PICK d : d = [blocks |-> {c \in db[n].blocks : Len(c) <= number},
                      best |-> SubSeq(db[n].best, 1, number), finalized |-> db[n].finalized]
    OBVIOUS
  <2>2. db'[n] = d
    BY <1>7, <2>1 DEF Reverts, Changed, Finalized, Best
  <2>3. number \in 0..Len(db[n].best) /\ Len(db[n].finalized) <= number
    BY <1>7 DEF Reverts, Best, Finalized
  <2>4. Tree(d) /\ IsPrefix(db[n].finalized, SubSeq(db[n].best, 1, number))
    BY <1>0, <2>1, <2>3, TreeReverts
  <2>5. IsPrefix(db[n].finalized, db[n].finalized)
    BY <1>0, TreeChains, PrefixOrder
  <2>6. Tree(db'[n]) /\ Kept(n)
    BY <2>1, <2>2, <2>4, <2>5 DEF Finalized
  <2>7. db' = [k \in Nodes |-> db'[k]] /\ \A k \in Nodes \ {n} : db'[k] = db[k]
    BY <1>7 DEF Reverts, Changed
  <2> QED
    BY <1>1, <2>6, <2>7
<1>8. ASSUME NEW n \in Nodes, NEW block, AuthorsBlock(n, block)
      PROVE  Forest' /\ \A k \in Nodes : Kept(k)
  BY <1>3, <1>8 DEF AuthorsBlock
<1>9. ASSUME NEW n \in Nodes, NEW m \in Nodes, NEW new, NEW c, FetchesBlocks(n, m, new, c)
      PROVE  Forest' /\ \A k \in Nodes : Kept(k)
  BY <1>3, <1>9 DEF FetchesBlocks
<1> QED
  BY <1>0, <1>2, <1>5, <1>6, <1>7, <1>8, <1>9 DEF DbStep, Forest

\* The forest at the start.
LEMMA ForestInit == GlueInit => Forest
  BY EmptyTree DEF GlueInit, NodeInit, Forest

\* A finalized block stays finalized and on the best chain: no reorganisation,
\* revert, restart or step of the tools takes it back; only purge-chain does, of a
\* running node when it stops.
THEOREM FinalityAlwaysKept == GlueSpec => FinalityKept
<1>1. GlueInit => Forest
  BY ForestInit
<1>2. Forest /\ [GlueNext]_glueVars => Forest'
  BY EveryDbStep, ForestKept
<1>3. Forest /\ [GlueNext]_glueVars
      => [\A n \in Nodes : \/ /\ IsPrefix(Finalized(n), db'[n].finalized)
                              /\ IsPrefix(Finalized(n), db'[n].best)
                           \/ Forgets(n)]_nodeVars
  BY EveryDbStep, ForestKept
<1> QED
  BY <1>1, <1>2, <1>3, PTL DEF GlueSpec, FinalityKept

-----------------------------------------------------------------------------
(* Types *)

\* The bookkeeping around the databases: the clock, who runs, the pools, and which
\* databases were removed under a running node.
Service ==
    /\ budget \in BudgetType /\ genesis = load_spec(budget.chain)
    /\ slot \in 0..budget.slots /\ running \subseteq Nodes
    /\ worked \in [Nodes -> 0..slot]
    /\ pool = [n \in Nodes |-> pool[n]]
    /\ \A n \in Nodes \ running : pool[n] = {}
    /\ \A n \in unlinked : <<"purge-chain", n>> \in commands

\* What is left of a budget that is spent.
LEMMA BudgetSpent ==
    ASSUME budget \in BudgetType,
           \/ budget.stops > 0 /\ budget' = [budget EXCEPT !.stops = @ - 1]
           \/ budget.commands > 0 /\ budget' = [budget EXCEPT !.commands = @ - 1]
    PROVE  /\ budget' \in BudgetType
           /\ budget'.slots = budget.slots /\ budget'.chain = budget.chain
           /\ budget'.rounds = budget.rounds /\ budget'.script = budget.script
<1>1. PICK N, S : BudgetType = [nodes : N, chain : ChainId, slots : Nat, rounds : Nat,
                                stops : Nat, commands : Nat, script : S]
  BY DEF BudgetType
<1>2. budget \in [nodes : N, chain : ChainId, slots : Nat, rounds : Nat, stops : Nat,
                  commands : Nat, script : S]
  BY <1>1
<1>3. CASE budget.stops > 0 /\ budget' = [budget EXCEPT !.stops = @ - 1]
  BY <1>1, <1>2, <1>3
<1>4. CASE budget.commands > 0 /\ budget' = [budget EXCEPT !.commands = @ - 1]
  BY <1>1, <1>2, <1>4
<1> QED
  BY <1>3, <1>4

\* A pool of a running node changes.
LEMMA PoolChanges ==
    ASSUME Service, NEW n \in running, NEW new, pool' = [pool EXCEPT ![n] = new]
    PROVE  pool' = [k \in Nodes |-> pool'[k]] /\ \A k \in Nodes \ running : pool'[k] = {}
  BY DEF Service

\* A step of the nodes keeps the bookkeeping.
LEMMA ServiceByNodes ==
    ASSUME Service, Forest, NodeNext
    PROVE  Service'
<1>0. slot \in Nat /\ budget.slots \in Nat /\ slot <= budget.slots
  BY DEF Service, BudgetType
<1>1. ASSUME UNCHANGED <<genesis, slot, running, worked, budget, unlinked, commands>>,
             pool' = pool
      PROVE  Service'
  BY <1>1 DEF Service
<1>2. ASSUME UNCHANGED <<genesis, slot, running, worked, budget, unlinked, commands>>,
             NEW n \in running, NEW new, pool' = [pool EXCEPT ![n] = new]
      PROVE  Service'
  BY <1>2, PoolChanges DEF Service
<1>3. CASE NextSlot
  <2>1. UNCHANGED <<genesis, running, pool, worked, budget, unlinked, commands>>
        /\ slot' = slot + 1 /\ slot < budget.slots
    BY <1>3 DEF NextSlot, grandpaVars
  <2>2. slot' \in 0..budget.slots
    BY <1>0, <2>1
  <2>3. worked \in [Nodes -> 0..slot']
    <3>1. 0..slot \subseteq 0..slot'
      BY <1>0, <2>1
    <3> QED
      BY <3>1 DEF Service
  <2> QED
    BY <2>1, <2>2, <2>3 DEF Service
<1>4. ASSUME NEW n \in Nodes, Author(n) PROVE Service'
  <2>1. n \in running /\ UNCHANGED <<genesis, slot, running, budget, unlinked, commands>>
        /\ worked' = [worked EXCEPT ![n] = slot]
    BY <1>4 DEF Author, grandpaVars
  <2>2. PICK new : pool' = [pool EXCEPT ![n] = new]
    BY <1>4, AuthorEffect DEF Refills
  <2>3. worked' \in [Nodes -> 0..slot]
    BY <1>0, <2>1 DEF Service
  <2>4. pool' = [k \in Nodes |-> pool'[k]] /\ \A k \in Nodes \ running : pool'[k] = {}
    BY <2>1, <2>2, PoolChanges
  <2> QED
    BY <2>1, <2>3, <2>4 DEF Service
<1>5. ASSUME NEW n \in Nodes, Stop(n) PROVE Service'
  <2>1. /\ running' = running \ {n} /\ UNCHANGED <<genesis, slot, worked>>
        /\ budget' = [budget EXCEPT !.stops = @ - 1] /\ budget.stops > 0
        /\ pool' = [pool EXCEPT ![n] = {}]
        /\ unlinked' = unlinked \ {n} /\ commands' = commands
    BY <1>5 DEF Stop
  <2>2. budget' \in BudgetType /\ budget'.slots = budget.slots /\ budget'.chain = budget.chain
    BY <2>1, BudgetSpent DEF Service
  <2>3. pool' = [k \in Nodes |-> pool'[k]] /\ \A k \in Nodes \ running' : pool'[k] = {}
    BY <2>1 DEF Service
  <2> QED
    BY <2>1, <2>2, <2>3 DEF Service
<1>6. ASSUME NEW n \in Nodes, Start(n) PROVE Service'
  <2>1. /\ running' = running \cup {n}
        /\ UNCHANGED <<genesis, slot, pool, budget, unlinked, commands>>
        /\ worked' = [worked EXCEPT ![n] = slot]
    BY <1>6 DEF Start, grandpaVars
  <2>2. worked' \in [Nodes -> 0..slot]
    BY <1>0, <2>1 DEF Service
  <2> QED
    BY <1>6, <2>1, <2>2 DEF Service
<1>7. ASSUME NEW name, NEW n \in Nodes, Command(name, n),
             unlinked' = unlinked \/ (name = "purge-chain" /\ unlinked' = unlinked \cup {n})
      PROVE  Service'
  <2>1. /\ UNCHANGED <<genesis, slot, running, pool, worked>>
        /\ budget' = [budget EXCEPT !.commands = @ - 1] /\ budget.commands > 0
        /\ commands' = commands \cup {<<name, n>>}
    BY <1>7 DEF Command
  <2>2. budget' \in BudgetType /\ budget'.slots = budget.slots /\ budget'.chain = budget.chain
    BY <2>1, BudgetSpent DEF Service
  <2>3. \A k \in unlinked' : <<"purge-chain", k>> \in commands'
    BY <1>7, <2>1 DEF Service
  <2> QED
    BY <2>1, <2>2, <2>3 DEF Service
<1>8. ASSUME NEW n \in Nodes, PurgeChain(n) \/ \E number : Revert(n, number) PROVE Service'
  BY <1>7, <1>8 DEF PurgeChain, Revert, OpenCommand
<1>9. ASSUME NEW m \in Nodes, NEW n \in Nodes, NEW tx, Gossip(m, n, tx) PROVE Service'
  <2>1. PICK kept : pool' = [pool EXCEPT ![n] = kept]
    BY <1>9 DEF Gossip
  <2> QED
    BY <1>2, <1>9, <2>1 DEF Gossip, grandpaVars
<1>10. ASSUME NEW m \in Nodes, NEW n \in Nodes, NEW c, Import(m, n, c) PROVE Service'
  <2>1. PICK kept : pool' = [pool EXCEPT ![n] = kept]
    BY <1>10 DEF Import, ImportBlock
  <2> QED
    BY <1>2, <1>10, <2>1 DEF Import, grandpaVars
<1>11. ASSUME NEW n \in Nodes, NEW b, FinalizeBlock(n, b) PROVE Service'
  <2>1. PICK kept : pool' = [pool EXCEPT ![n] = kept]
    BY <1>11 DEF FinalizeBlock
  <2> QED
    BY <1>2, <1>11, <2>1 DEF FinalizeBlock, grandpaVars
<1>12. ASSUME NEW m \in Nodes, NEW n \in Nodes, ImportBlocks(m, n) PROVE Service'
  BY <1>7, <1>12 DEF ImportBlocks, OpenCommand
<1>13. ASSUME NEW m \in Nodes, NEW n \in Nodes, NEW r, NEW b,
              ImportJustification(m, n) \/ FinalizeCommit(n, r, b)
       PROVE  Service'
  BY <1>11, <1>13 DEF ImportJustification, FinalizeCommit
<1>14. ASSUME NEW n \in Nodes, NEW b, NEW votes, Precommit(n, b) \/ NextRound(n, votes, b)
       PROVE  Service'
  BY <1>1, <1>14 DEF Precommit, NextRound
<1> QED
  BY <1>3, <1>4, <1>5, <1>6, <1>8, <1>9, <1>10, <1>12, <1>13, <1>14 DEF NodeNext

\* So does every step of the tools.
LEMMA ServiceKept ==
    ASSUME Service, Forest, [GlueNext]_glueVars
    PROVE  Service'
<1>1. CASE NodesStep
  BY <1>1, ServiceByNodes DEF NodesStep
<1>2. CASE NodesStay /\ pool' = pool
  BY <1>2 DEF Service, NodesStay, grandpaVars
<1>3. ASSUME NodesStay, Rpc \in running, NEW kept, pool' = [pool EXCEPT ![Rpc] = kept]
      PROVE  Service'
  <2>1. pool' = [k \in Nodes |-> pool'[k]] /\ \A k \in Nodes \ running : pool'[k] = {}
    BY <1>3, PoolChanges
  <2> QED
    BY <1>3, <2>1 DEF Service, NodesStay, grandpaVars
<1> QED
  BY <1>1, <1>2, <1>3, ToolSteps

\* The bookkeeping at the start.
LEMMA ServiceInit == GlueInit => Service
<1> SUFFICES ASSUME GlueInit PROVE Service
  OBVIOUS
<1>1. budget \in BudgetType
  BY NodeAssumption DEF GlueInit, NodeInit
<1>2. budget.slots \in Nat /\ budget.nodes \subseteq Nodes
  BY <1>1 DEF BudgetType
<1>3. 0 \in 0..budget.slots
  BY <1>2
<1>4. \A n \in Nodes : pool[n] = {}
  BY DEF GlueInit, NodeInit
<1> QED
  BY <1>1, <1>2, <1>3, <1>4 DEF GlueInit, NodeInit, Service

\* What the inductive invariant says of the state NodeTypeOK describes.
LEMMA ServiceTypes == Forest /\ Service => NodeTypeOK
<1> SUFFICES ASSUME Forest, Service PROVE NodeTypeOK
  OBVIOUS
<1>1. ASSUME NEW n \in Nodes
      PROVE  /\ Best(n) \in db[n].blocks /\ IsPrefix(Finalized(n), Best(n))
             /\ \A c \in db[n].blocks : Prefixes(c) \subseteq db[n].blocks
             /\ n \notin running => pool[n] = {}
  <2>1. Tree(db[n])
    BY <1>1 DEF Forest
  <2> QED
    BY <1>1, <2>1 DEF Tree, Best, Finalized, Service
<1>2. slot \in 0..budget.slots /\ running \subseteq Nodes /\ worked \in [Nodes -> 0..slot]
  BY DEF Service
<1> QED
  BY <1>1, <1>2 DEF NodeTypeOK

\* Type correctness: every database is always a tree of blocks with the finalized
\* chain on the best one, and a stopped node has no pool.
THEOREM NodeTypes == GlueSpec => []NodeTypeOK
<1>1. GlueInit => Forest /\ Service
  BY ForestInit, ServiceInit
<1>2. Forest /\ Service /\ [GlueNext]_glueVars => Forest' /\ Service'
  BY EveryDbStep, ForestKept, ServiceKept
<1>3. Forest /\ Service => NodeTypeOK
  BY ServiceTypes
<1> QED
  BY <1>1, <1>2, <1>3, PTL DEF GlueSpec

-----------------------------------------------------------------------------
(* Agreement on what is final *)

Presets == {<<"Alice">>, <<"Alice", "Bob">>}

\* Both presets have at most two authorities.
LEMMA Authorities == Service => genesis.authorities \in Presets
<1> SUFFICES ASSUME Service PROVE genesis.authorities \in Presets
  OBVIOUS
<1>1. budget.chain \in {"dev", "", "local"} /\ genesis = load_spec(budget.chain)
  BY DEF Service, BudgetType, ChainId
<1>2. CASE budget.chain = "dev"
  <2>1. load_spec(budget.chain) = development_config_genesis
    BY <1>2 DEF load_spec, development_chain_spec, get_preset
  <2>2. development_config_genesis.authorities = <<"Alice">>
    BY DEF development_config_genesis, testnet_genesis
  <2> QED
    BY <1>1, <2>1, <2>2, Zenon DEF Presets
<1>3. CASE budget.chain \in {"", "local"}
  <2>1. load_spec(budget.chain) = local_chain_spec
    BY <1>3 DEF load_spec
  <2>2. local_chain_spec = local_config_genesis
    BY DEF local_chain_spec, get_preset
  <2>3. local_config_genesis.authorities = <<"Alice", "Bob">>
    BY DEF local_config_genesis, testnet_genesis
  <2> QED
    BY <1>1, <2>1, <2>2, <2>3, Zenon DEF Presets
<1> QED
  BY <1>1, <1>2, <1>3

\* A supermajority of one or two voters is all of them.
LEMMA AllVote ==
    ASSUME genesis.authorities \in Presets, NEW Q, Q \subseteq ToSet(genesis.authorities),
           Cardinality(Q) >= Threshold(Len(genesis.authorities))
    PROVE  Q = ToSet(genesis.authorities)
<1>0. (Q = {} => Cardinality(Q) = 0) /\ (\A x : Q = {x} => Cardinality(Q) = 1)
  BY FS_EmptySet, FS_Singleton, Zenon
<1>1. Q \subseteq ToSet(genesis.authorities)
  OBVIOUS
<1>2. CASE genesis.authorities = <<"Alice">>
  <2>1. ToSet(genesis.authorities) = {"Alice"} /\ Len(genesis.authorities) = 1
    BY <1>2 DEF ToSet
  <2>2. Cardinality(Q) >= 1
    BY <2>1 DEF Threshold
  <2>3. Q # {}
    BY <1>0, <2>2
  <2> QED
    BY <1>1, <2>1, <2>3
<1>3. CASE genesis.authorities = <<"Alice", "Bob">>
  <2>1. ToSet(genesis.authorities) = {"Alice", "Bob"} /\ Len(genesis.authorities) = 2
    BY <1>3 DEF ToSet
  <2>2. Cardinality(Q) >= 2
    BY <2>1 DEF Threshold
  <2>3. ASSUME Q # {"Alice", "Bob"} PROVE FALSE
    <3>1. Q = {} \/ Q = {"Alice"} \/ Q = {"Bob"}
      BY <1>1, <2>1, <2>3
    <3>2. Cardinality(Q) = 0 \/ Cardinality(Q) = 1
      BY <1>0, <3>1, Zenon
    <3> QED
      BY <2>2, <3>2
  <2> QED
    BY <2>1, <2>3
<1> QED
  BY <1>2, <1>3 DEF Presets

\* Alice is an authority of both presets.
LEMMA OneAuthority ==
    ASSUME genesis.authorities \in Presets
    PROVE  "Alice" \in ToSet(genesis.authorities)
<1>1. CASE genesis.authorities = <<"Alice">>
  BY <1>1 DEF ToSet
<1>2. CASE genesis.authorities = <<"Alice", "Bob">>
  BY <1>2 DEF ToSet
<1> QED
  BY <1>1, <1>2 DEF Presets

\* Every authority voted in the round for b or for blocks above it.
AgreedBy(votes, round, b) ==
    \A a \in ToSet(genesis.authorities) :
        \E p \in votes : p.voter = a /\ p.round = round /\ IsPrefix(b, p.block)
Agreed(round, b) == AgreedBy(precommits, round, b)

\* What is committed is agreed on by all.
LEMMA CommittedAgreed ==
    ASSUME genesis.authorities \in Presets, NEW round, NEW b, Committed(round, b)
    PROVE  Agreed(round, b)
<1>1. PICK Q : Q = {v \in ToSet(genesis.authorities) : \E c \in VotesOf(v, round) : IsPrefix(b, c)}
  OBVIOUS
<1>2. Q \subseteq ToSet(genesis.authorities)
      /\ Cardinality(Q) >= Threshold(Len(genesis.authorities))
  BY <1>1 DEF Committed
<1>3. Q = ToSet(genesis.authorities)
  BY <1>2, AllVote
<1>4. ASSUME NEW a \in ToSet(genesis.authorities)
      PROVE  \E p \in precommits : p.voter = a /\ p.round = round /\ IsPrefix(b, p.block)
  <2>1. PICK c \in VotesOf(a, round) : IsPrefix(b, c)
    BY <1>1, <1>3, <1>4
  <2> QED
    BY <2>1 DEF VotesOf
<1> QED
  BY <1>4 DEF Agreed, AgreedBy

\* No authority's database was removed.
Unpurged == \A a \in ToSet(genesis.authorities) : <<"purge-chain", a>> \notin commands

Round == Nat \ {0}

\* The state of one voter.
VoterOk(v) ==
    /\ v = [round |-> v.round, voted |-> v.voted, base |-> v.base]
    /\ v.round \in Round /\ v.voted \in {TRUE, FALSE} /\ IsChain(v.base)

LEMMA VoterRecord ==
    ASSUME NEW round \in Round, NEW voted \in {TRUE, FALSE}, NEW base, IsChain(base)
    PROVE  VoterOk([round |-> round, voted |-> voted, base |-> base])
<1>1. PICK v : v = [round |-> round, voted |-> voted, base |-> base]
  OBVIOUS
<1>2. v.round = round /\ v.voted = voted /\ v.base = base
  BY <1>1
<1>3. v = [round |-> v.round, voted |-> v.voted, base |-> v.base]
  BY <1>1, <1>2
<1>4. v.round \in Round /\ v.voted \in {TRUE, FALSE} /\ IsChain(v.base)
  BY <1>2, Zenon
<1>5. VoterOk(v)
  BY <1>3, <1>4 DEF VoterOk
<1> QED
  BY <1>1, <1>5, Zenon

LEMMA FirstRoundOk == /\ VoterOk(FirstRound) /\ FirstRound.round = 1
                      /\ FirstRound.base = <<>> /\ FirstRound.voted = FALSE
<1>1. VoterOk([round |-> 1, voted |-> FALSE, base |-> <<>>])
  BY EmptyChain, VoterRecord DEF Round
<1> QED
  BY <1>1 DEF FirstRound

\* What voters have on disk, and what they have sent.
VoterTypes ==
    /\ voter = [n \in Nodes |-> voter[n]]
    /\ \A n \in Nodes : VoterOk(voter[n])
    /\ \A p \in precommits : /\ p.voter \in ToSet(genesis.authorities) \cap Nodes
                             /\ p.round \in Round /\ IsChain(p.block)

\* A voter that keeps its database votes once in a round and never in an old one.
VotesOnce ==
    /\ \A p \in precommits : /\ p.round <= voter[p.voter].round
                             /\ p.round = voter[p.voter].round => voter[p.voter].voted = TRUE
    /\ \A p, q \in precommits : p.voter = q.voter /\ p.round = q.round => p.block = q.block

\* A voter leaves a round when all have voted in it,
RoundsComplete ==
    \A n \in Nodes : \A r \in Round : r < voter[n].round =>
        \A a \in ToSet(genesis.authorities) : \E p \in precommits : p.voter = a /\ p.round = r

\* and then stands, and votes, above all that was agreed on.
BasesAbove ==
    \A n \in Nodes : \A r \in Round : \A b :
        r < voter[n].round /\ IsChain(b) /\ Agreed(r, b) => IsPrefix(b, voter[n].base)
VotesAbove ==
    \A p \in precommits : \A r \in Round : \A b :
        r < p.round /\ IsChain(b) /\ Agreed(r, b) => IsPrefix(b, p.block)

\* Whatever is final was agreed on.
FinalAgreed ==
    \A n \in Nodes : Finalized(n) = <<>> \/ \E r \in Round : Agreed(r, Finalized(n))

Voting == VotesOnce /\ RoundsComplete /\ BasesAbove /\ VotesAbove

\* A voter votes.
LEMMA PrecommitVoting ==
    ASSUME Forest, VoterTypes, NEW n \in Nodes, NEW b \in db[n].blocks, Precommit(n, b)
    PROVE  VoterTypes' /\ (Voting => Voting')
<1> DEFINE r0 == voter[n].round
           p0 == [voter |-> n, round |-> voter[n].round, block |-> b]
<1>1. /\ n \in ToSet(genesis.authorities) /\ voter[n].voted = FALSE
      /\ IsPrefix(voter[n].base, b) /\ genesis' = genesis
      /\ precommits' = precommits \cup {p0}
  <2>1. voter[n].voted = FALSE
    <3>1. voter[n].voted \in {TRUE, FALSE} /\ ~voter[n].voted
      BY DEF VoterTypes, VoterOk, Precommit
    <3> QED
      BY <3>1, Zenon
  <2> QED
    BY <2>1 DEF Precommit, Voters, Targets
<1>2. /\ voter' = [k \in Nodes |-> voter'[k]]
      /\ \A k \in Nodes : voter'[k].round = voter[k].round /\ voter'[k].base = voter[k].base
      /\ \A k \in Nodes : voter'[k].voted = voter[k].voted \/ voter'[k].voted = TRUE
      /\ voter'[n].voted = TRUE
      /\ \A k \in Nodes : VoterOk(voter'[k])
  <2>1. voter' = [voter EXCEPT ![n].voted = TRUE] /\ DOMAIN voter = Nodes
    BY DEF Precommit, VoterTypes
  <2>2. voter'[n] = [voter[n] EXCEPT !.voted = TRUE] /\ \A k \in Nodes \ {n} : voter'[k] = voter[k]
    BY <2>1
  <2>3. voter[n] = [round |-> voter[n].round, voted |-> voter[n].voted, base |-> voter[n].base]
    BY DEF VoterTypes, VoterOk
  <2> QED
    <3>1. voter'[n] = [round |-> voter[n].round, voted |-> TRUE, base |-> voter[n].base]
      BY <2>2, <2>3
    <3>2. /\ voter'[n].round = voter[n].round /\ voter'[n].voted = TRUE
          /\ voter'[n].base = voter[n].base
      BY <3>1
    <3>3. VoterOk(voter'[n])
      <4>1. voter[n].round \in Round /\ IsChain(voter[n].base)
        BY DEF VoterTypes, VoterOk
      <4>2. VoterOk([round |-> voter[n].round, voted |-> TRUE, base |-> voter[n].base])
        BY <4>1, VoterRecord
      <4> QED
        BY <3>1, <4>2
    <3>4. \A k \in Nodes : VoterOk(voter'[k])
      BY <2>2, <3>3 DEF VoterTypes
    <3> QED
      BY <2>1, <2>2, <3>2, <3>4
<1>3. r0 \in Round /\ IsChain(b) /\ IsChain(voter[n].base)
  BY TreeChains DEF VoterTypes, VoterOk, Forest
<1>4. p0.voter = n /\ p0.round = r0 /\ p0.block = b
  OBVIOUS
<1> HIDE DEF r0, p0
<1>5. VoterTypes'
  BY <1>1, <1>2, <1>3, <1>4 DEF VoterTypes
<1> SUFFICES ASSUME Voting PROVE Voting'
  BY <1>5
<1>6. \A p \in precommits : p.voter = n => p.round # r0
  BY <1>1 DEF Voting, VotesOnce, r0
<1>7. VotesOnce'
  <2>1. ASSUME NEW p \in precommits'
        PROVE  /\ p.round <= voter'[p.voter].round
               /\ p.round = voter'[p.voter].round => voter'[p.voter].voted = TRUE
    <3>1. CASE p = p0
      <4>1. voter'[n].round = r0 /\ voter'[n].voted = TRUE /\ r0 <= r0
        BY <1>2, <1>3 DEF r0, Round
      <4> QED
        BY <1>4, <3>1, <4>1
    <3>2. CASE p \in precommits
      <4>1. /\ p.round <= voter[p.voter].round /\ p.voter \in Nodes
            /\ p.round = voter[p.voter].round => voter[p.voter].voted = TRUE
        BY <3>2 DEF Voting, VotesOnce, VoterTypes
      <4>2. voter'[p.voter].round = voter[p.voter].round
        BY <1>2, <4>1
      <4>3. voter'[p.voter].voted = voter[p.voter].voted \/ voter'[p.voter].voted = TRUE
        BY <1>2, <4>1
      <4>4. p.round = voter'[p.voter].round => voter'[p.voter].voted = TRUE
        BY <4>1, <4>2, <4>3
      <4> QED
        BY <4>1, <4>2, <4>4
    <3> QED
      BY <1>1, <2>1, <3>1, <3>2
  <2>2. ASSUME NEW p \in precommits', NEW q \in precommits', p.voter = q.voter, p.round = q.round
        PROVE  p.block = q.block
    BY <1>1, <1>4, <1>6, <2>2 DEF Voting, VotesOnce
  <2> QED
    BY <2>1, <2>2 DEF VotesOnce
<1>8. \A k \in Nodes : ~(r0 < voter[k].round)
  BY <1>1, <1>3, <1>6 DEF Voting, RoundsComplete
<1>9. ASSUME NEW r \in Round, NEW c, r # r0, Agreed(r, c)'
      PROVE  Agreed(r, c)
  BY <1>1, <1>4, <1>9 DEF Agreed, AgreedBy
<1>10. RoundsComplete'
  <2>1. ASSUME NEW k \in Nodes, NEW r \in Round, r < voter'[k].round,
               NEW a \in ToSet(genesis.authorities)
        PROVE  \E p \in precommits' : p.voter = a /\ p.round = r
    <3>1. r < voter[k].round
      BY <1>2, <2>1
    <3>2. PICK p \in precommits : p.voter = a /\ p.round = r
      BY <2>1, <3>1 DEF Voting, RoundsComplete
    <3> QED
      BY <1>1, <3>2
  <2> QED
    BY <1>1, <2>1 DEF RoundsComplete
<1>11. BasesAbove'
  BY <1>2, <1>8, <1>9 DEF Voting, BasesAbove
<1>12. ASSUME NEW p \in precommits', NEW r \in Round, NEW c, r < p.round, IsChain(c), Agreed(r, c)'
       PROVE  IsPrefix(c, p.block)
  <2>1. CASE p = p0
    <3>1. r < r0 /\ r # r0 /\ Agreed(r, c)
      BY <1>3, <1>4, <1>9, <1>12, <2>1 DEF Round
    <3>2. IsPrefix(c, voter[n].base)
      BY <1>12, <3>1 DEF Voting, BasesAbove, r0
    <3>3. IsPrefix(c, b)
      BY <1>1, <1>3, <1>12, <3>2, PrefixOrder
    <3> QED
      BY <1>4, <2>1, <3>3
  <2>2. CASE p \in precommits
    <3>1. p.round <= voter[p.voter].round /\ p.voter \in Nodes /\ p.round \in Round
          /\ voter[p.voter].round \in Round
      BY <2>2 DEF Voting, VotesOnce, VoterTypes, VoterOk
    <3>2. r # r0
      BY <1>3, <1>8, <1>12, <3>1 DEF Round
    <3> QED
      BY <1>9, <1>12, <2>2, <3>2 DEF Voting, VotesAbove
  <2> QED
    BY <1>1, <1>12, <2>1, <2>2
<1>13. VotesAbove'
  BY <1>12 DEF VotesAbove
<1> QED
  BY <1>7, <1>10, <1>11, <1>13 DEF Voting

\* A voter goes on to the next round.
LEMMA NextRoundVoting ==
    ASSUME Forest, genesis.authorities \in Presets, VoterTypes, NEW n \in Nodes,
           NEW votes \in [ToSet(genesis.authorities) -> db[n].blocks], NEW base \in db[n].blocks,
           NextRound(n, votes, base)
    PROVE  VoterTypes' /\ (Voting => Voting')
<1> DEFINE r0 == voter[n].round
<1>1. /\ precommits' = precommits /\ genesis' = genesis
      /\ \A a \in ToSet(genesis.authorities) : votes[a] \in VotesOf(a, r0)
      /\ \A c \in db[n].blocks :
            (\A a \in ToSet(genesis.authorities) : IsPrefix(c, votes[a])) => IsPrefix(c, base)
  BY DEF NextRound
<1>2. /\ voter' = [k \in Nodes |-> voter'[k]]
      /\ voter'[n].round = r0 + 1 /\ voter'[n].base = base /\ voter'[n].voted = FALSE
      /\ VoterOk(voter'[n])
      /\ \A k \in Nodes \ {n} : voter'[k] = voter[k]
  <2>1. /\ voter' = [voter EXCEPT ![n] = [round |-> @.round + 1, voted |-> FALSE, base |-> base]]
        /\ DOMAIN voter = Nodes
    BY DEF NextRound, VoterTypes
  <2>2. /\ voter'[n] = [round |-> r0 + 1, voted |-> FALSE, base |-> base]
        /\ \A k \in Nodes \ {n} : voter'[k] = voter[k]
    BY <2>1
  <2>3. r0 + 1 \in Round /\ IsChain(base)
    <3>1. r0 \in Round
      BY DEF VoterTypes, VoterOk
    <3>2. r0 + 1 \in Round
      BY <3>1 DEF Round
    <3>3. IsChain(base)
      BY TreeChains DEF Forest
    <3> QED
      BY <3>2, <3>3
  <2>4. VoterOk([round |-> r0 + 1, voted |-> FALSE, base |-> base])
    BY <2>3, VoterRecord
  <2>5. VoterOk(voter'[n])
    BY <2>2, <2>4
  <2>6. voter'[n].round = r0 + 1 /\ voter'[n].base = base /\ voter'[n].voted = FALSE
    BY <2>2
  <2> QED
    BY <2>1, <2>2, <2>5, <2>6
<1>3. r0 \in Round /\ IsChain(base)
  BY TreeChains DEF VoterTypes, VoterOk, Forest
<1> HIDE DEF r0
<1>4. ASSUME NEW a \in ToSet(genesis.authorities)
      PROVE  \E p \in precommits : p.voter = a /\ p.round = r0 /\ p.block = votes[a]
  BY <1>1, <1>4 DEF VotesOf
<1>5. VoterTypes'
  BY <1>1, <1>2, <1>3 DEF VoterTypes, Round
<1> SUFFICES ASSUME Voting PROVE Voting'
  BY <1>5
<1>6. VotesOnce'
  <2>1. ASSUME NEW p \in precommits
        PROVE  /\ p.round <= voter'[p.voter].round
               /\ p.round = voter'[p.voter].round => voter'[p.voter].voted = TRUE
    <3>1. p.round <= voter[p.voter].round /\ p.voter \in Nodes /\ p.round \in Nat
      BY <2>1 DEF Voting, VotesOnce, VoterTypes, Round
    <3>2. CASE p.voter = n
      <4>1. p.round <= r0
        BY <3>1, <3>2 DEF r0
      <4> QED
        BY <1>2, <1>3, <3>1, <3>2, <4>1 DEF Round
    <3>3. CASE p.voter # n
      BY <1>2, <2>1, <3>1, <3>3 DEF Voting, VotesOnce
    <3> QED
      BY <3>2, <3>3
  <2> QED
    BY <1>1, <2>1 DEF Voting, VotesOnce
<1>7. RoundsComplete'
  <2>1. ASSUME NEW r \in Round, r < r0 + 1, NEW a \in ToSet(genesis.authorities)
        PROVE  \E p \in precommits : p.voter = a /\ p.round = r
    <3>1. r < r0 \/ r = r0
      BY <1>3, <2>1 DEF Round
    <3>2. CASE r < r0
      BY <2>1, <3>2 DEF Voting, RoundsComplete, r0
    <3> QED
      BY <1>4, <2>1, <3>1, <3>2
  <2> QED
    BY <1>1, <1>2, <2>1 DEF Voting, RoundsComplete
<1>8. ASSUME NEW r \in Round, NEW c, r < r0 + 1, IsChain(c), Agreed(r, c)
      PROVE  IsPrefix(c, base)
  <2>1. ASSUME NEW a \in ToSet(genesis.authorities) PROVE IsPrefix(c, votes[a])
    <3>1. PICK p \in precommits : p.voter = a /\ p.round = r0 /\ p.block = votes[a]
      BY <1>4, <2>1
    <3>2. CASE r = r0
      <4>1. PICK q \in precommits : q.voter = a /\ q.round = r0 /\ IsPrefix(c, q.block)
        BY <1>8, <2>1, <3>2 DEF Agreed, AgreedBy
      <4>2. p.block = q.block
        BY <3>1, <4>1 DEF Voting, VotesOnce
      <4> QED
        BY <3>1, <4>1, <4>2
    <3>3. CASE r < r0
      BY <1>8, <3>1, <3>3 DEF Voting, VotesAbove
    <3> QED
      BY <1>3, <1>8, <3>2, <3>3 DEF Round
  <2>2. "Alice" \in ToSet(genesis.authorities)
    BY OneAuthority
  <2>3. c \in db[n].blocks
    <3>1. votes["Alice"] \in db[n].blocks /\ IsPrefix(c, votes["Alice"]) /\ Tree(db[n])
      BY <2>1, <2>2 DEF Forest
    <3> QED
      BY <1>8, <3>1, TreeChains
  <2> QED
    BY <1>1, <2>1, <2>3
<1>9. \A r \in Round : \A c : Agreed(r, c)' <=> Agreed(r, c)
  BY <1>1 DEF Agreed, AgreedBy
<1>10. BasesAbove'
  BY <1>2, <1>8, <1>9 DEF Voting, BasesAbove
<1>11. VotesAbove'
  BY <1>1, <1>9 DEF Voting, VotesAbove
<1> QED
  BY <1>6, <1>7, <1>10, <1>11 DEF Voting

\* The voter's state on disk is lost with the database.
VoterLost(n) ==
    /\ voter' = [voter EXCEPT ![n] = FirstRound] /\ precommits' = precommits
    /\ <<"purge-chain", n>> \in commands'

\* A loss concerns no authority, as long as none was purged.
LEMMA LossVoting ==
    ASSUME VoterTypes, NEW n \in Nodes, VoterLost(n), genesis' = genesis
    PROVE  VoterTypes' /\ (Voting /\ Unpurged' => Voting')
<1>1. /\ voter' = [k \in Nodes |-> voter'[k]]
      /\ voter'[n].round = 1 /\ voter'[n].base = <<>> /\ voter'[n].voted = FALSE
      /\ VoterOk(voter'[n])
      /\ \A k \in Nodes \ {n} : voter'[k] = voter[k]
      /\ precommits' = precommits
  <2>1. /\ voter' = [k \in Nodes |-> voter'[k]] /\ voter'[n] = FirstRound
        /\ \A k \in Nodes \ {n} : voter'[k] = voter[k]
    BY DEF VoterTypes, VoterLost
  <2> QED
    BY <2>1, FirstRoundOk DEF VoterLost
<1>2. VoterTypes'
  BY <1>1 DEF VoterTypes
<1>3. ASSUME Voting, Unpurged' PROVE Voting'
  <2>1. n \notin ToSet(genesis.authorities)
    BY <1>3 DEF Unpurged, VoterLost
  <2>2. \A p \in precommits : p.voter # n /\ p.voter \in Nodes
    BY <2>1 DEF VoterTypes
  <2>3. VotesOnce'
    BY <1>1, <1>3, <2>2 DEF Voting, VotesOnce
  <2>4. \A r \in Round : ~(r < 1)
    BY DEF Round
  <2>5. RoundsComplete'
    BY <1>1, <1>3, <2>4 DEF Voting, RoundsComplete
  <2>6. \A r \in Round : \A c : Agreed(r, c)' <=> Agreed(r, c)
    BY <1>1 DEF Agreed, AgreedBy
  <2>7. BasesAbove'
    BY <1>1, <1>3, <2>4, <2>6 DEF Voting, BasesAbove
  <2>8. VotesAbove'
    BY <1>1, <1>3, <2>6 DEF Voting, VotesAbove
  <2> QED
    BY <2>3, <2>5, <2>7, <2>8 DEF Voting
<1> QED
  BY <1>2, <1>3

\* What a step may do to the votes.
VoteStep ==
    \/ voter' = voter /\ precommits' = precommits
    \/ \E n \in Nodes : \E b \in db[n].blocks : Precommit(n, b)
    \/ \E n \in Nodes : \E votes \in [ToSet(genesis.authorities) -> db[n].blocks] :
            \E base \in db[n].blocks : NextRound(n, votes, base)
    \/ \E n \in Nodes : VoterLost(n)

LEMMA EveryVoteStep ==
    ASSUME Service, [GlueNext]_glueVars
    PROVE  VoteStep /\ precommits \subseteq precommits'
<1>1. CASE UNCHANGED grandpaVars
  BY <1>1 DEF grandpaVars, VoteStep
<1>2. ASSUME NEW n \in Nodes, Stop(n) PROVE VoteStep /\ precommits \subseteq precommits'
  <2>1. CASE n \in unlinked
    <3>1. <<"purge-chain", n>> \in commands'
      BY <1>2, <2>1 DEF Service, Stop
    <3>2. voter' = [voter EXCEPT ![n] = FirstRound] /\ precommits' = precommits
      BY <1>2, <2>1 DEF Stop
    <3> QED
      BY <3>1, <3>2 DEF VoteStep, VoterLost
  <2>2. CASE n \notin unlinked
    BY <1>2, <2>2 DEF Stop, VoteStep
  <2> QED
    BY <2>1, <2>2
<1>3. ASSUME NEW n \in Nodes, PurgeChain(n) PROVE VoteStep /\ precommits \subseteq precommits'
  <2>1. <<"purge-chain", n>> \in commands' /\ precommits' = precommits
    BY <1>3 DEF PurgeChain, Command
  <2>2. voter' = voter \/ voter' = [voter EXCEPT ![n] = FirstRound]
    BY <1>3 DEF PurgeChain
  <2> QED
    BY <2>1, <2>2 DEF VoteStep, VoterLost
<1>4. ASSUME NEW n \in Nodes, NEW number, Author(n) \/ Start(n)
      PROVE  UNCHANGED grandpaVars
  BY <1>4 DEF Author, Start
<1>5. ASSUME NEW m \in Nodes, NEW n \in Nodes, NEW number,
             Revert(n, number) \/ ImportBlocks(m, n)
      PROVE  voter' = voter /\ precommits' = precommits
  BY <1>5 DEF Revert, ImportBlocks, OpenCommand, Command
<1>6. ASSUME NEW n \in Nodes, NEW b \in db[n].blocks, Precommit(n, b)
      PROVE  VoteStep /\ precommits \subseteq precommits'
  BY <1>6 DEF VoteStep, Precommit
<1>7. ASSUME NEW n \in Nodes, NEW votes \in [ToSet(genesis.authorities) -> db[n].blocks],
             NEW base \in db[n].blocks, NextRound(n, votes, base)
      PROVE  VoteStep /\ precommits \subseteq precommits'
  BY <1>7 DEF VoteStep, NextRound
<1>8. ASSUME NEW m \in Nodes, NEW n \in Nodes, NEW tx, NEW c, NEW r,
             \/ Gossip(m, n, tx) \/ Import(m, n, c)
             \/ ImportJustification(m, n) \/ FinalizeCommit(n, r, c)
      PROVE  UNCHANGED grandpaVars
  BY <1>8 DEF Gossip, Import, ImportJustification, FinalizeCommit, FinalizeBlock
<1>9. CASE NextSlot
  BY <1>1, <1>9 DEF NextSlot
<1>10. CASE NodesStep
  <2>1. NodeNext
    BY <1>10 DEF NodesStep
  <2> QED
    BY <1>1, <1>2, <1>3, <1>4, <1>5, <1>6, <1>7, <1>8, <1>9, <2>1 DEF NodeNext, VoteStep
<1>11. NodesStep \/ UNCHANGED grandpaVars
  BY ToolSteps DEF NodesStay
<1> QED
  BY <1>1, <1>10, <1>11

\* Every step keeps the discipline of the voters.
LEMMA VotingKept ==
    ASSUME Forest, Service, VoterTypes, Unpurged => Voting, [GlueNext]_glueVars
    PROVE  VoterTypes' /\ (Unpurged' => Voting')
<1>1. /\ VoteStep /\ commands \subseteq commands' /\ genesis' = genesis
      /\ genesis.authorities \in Presets
  BY EveryVoteStep, EveryDbStep, Authorities
<1>2. Unpurged' => Unpurged
  BY <1>1 DEF Unpurged
<1>3. CASE voter' = voter /\ precommits' = precommits
  <2>1. VoterTypes'
    BY <1>1, <1>3 DEF VoterTypes
  <2>2. Voting => Voting'
    BY <1>1, <1>3 DEF Voting, VotesOnce, RoundsComplete, BasesAbove, VotesAbove, Agreed, AgreedBy
  <2> QED
    BY <1>2, <2>1, <2>2
<1>4. ASSUME NEW n \in Nodes, NEW b \in db[n].blocks, Precommit(n, b)
      PROVE  VoterTypes' /\ (Unpurged' => Voting')
  BY <1>2, <1>4, PrecommitVoting
<1>5. ASSUME NEW n \in Nodes, NEW votes \in [ToSet(genesis.authorities) -> db[n].blocks],
             NEW base \in db[n].blocks, NextRound(n, votes, base)
      PROVE  VoterTypes' /\ (Unpurged' => Voting')
  BY <1>1, <1>2, <1>5, NextRoundVoting
<1>6. ASSUME NEW n \in Nodes, VoterLost(n)
      PROVE  VoterTypes' /\ (Unpurged' => Voting')
  BY <1>1, <1>2, <1>6, LossVoting
<1> QED
  BY <1>1, <1>3, <1>4, <1>5, <1>6 DEF VoteStep

\* Nothing is finalized that was not agreed on.
LEMMA FinalAgreedKept ==
    ASSUME Forest, Service, FinalAgreed, [GlueNext]_glueVars
    PROVE  FinalAgreed'
<1>1. /\ DbStep /\ precommits \subseteq precommits' /\ genesis' = genesis
      /\ genesis.authorities \in Presets
  BY EveryVoteStep, EveryDbStep, Authorities
<1>2. ASSUME NEW r \in Round, NEW b, Agreed(r, b) PROVE AgreedBy(precommits', r, b)
  BY <1>1, <1>2 DEF Agreed, AgreedBy
<1> DEFINE Final(b) == b = <<>> \/ \E r \in Round : AgreedBy(precommits', r, b)
<1>3. \A k \in Nodes : Final(db[k].finalized)
  BY <1>2 DEF FinalAgreed, Finalized
<1> SUFFICES \A k \in Nodes : Final(db'[k].finalized)
  BY <1>1 DEF FinalAgreed, Finalized, Agreed, AgreedBy
<1> HIDE DEF Final
<1>4. ASSUME NEW n \in Nodes, NEW B, NEW best, NEW final, Changed(n, B, best, final), Final(final)
      PROVE  \A k \in Nodes : Final(db'[k].finalized)
  <2>1. db'[n].finalized = final /\ \A k \in Nodes \ {n} : db'[k] = db[k]
    BY <1>4 DEF Changed
  <2> QED
    BY <1>3, <1>4, <2>1
<1>5. CASE db' = db
  BY <1>3, <1>5
<1>6. ASSUME NEW n \in Nodes, NEW new, NEW c, Grows(n, new, c)
      PROVE  \A k \in Nodes : Final(db'[k].finalized)
  BY <1>3, <1>4, <1>6 DEF Grows, Finalized
<1>7. ASSUME NEW n \in Nodes, NEW b, NEW best, Finalizes(n, b, best)
      PROVE  \A k \in Nodes : Final(db'[k].finalized)
  <2>1. budget.rounds \in Nat
    BY DEF Service, BudgetType
  <2>2. ASSUME NEW r \in 1..budget.rounds, Committed(r, b) PROVE Final(b)
    BY <1>1, <1>2, <2>1, <2>2, CommittedAgreed DEF Round, Final
  <2>3. Final(b)
    BY <1>3, <1>7, <2>2 DEF Finalizes, Justified, Finalized
  <2> QED
    BY <1>4, <1>7, <2>3 DEF Finalizes
<1>8. ASSUME NEW n \in Nodes, Loses(n) PROVE \A k \in Nodes : Final(db'[k].finalized)
  BY <1>4, <1>8 DEF Loses, Final
<1>9. ASSUME NEW n \in Nodes, NEW number, Reverts(n, number)
      PROVE  \A k \in Nodes : Final(db'[k].finalized)
  BY <1>3, <1>4, <1>9 DEF Reverts, Finalized
<1> QED
  BY <1>1, <1>5, <1>6, <1>7, <1>8, <1>9 DEF DbStep, AuthorsBlock, FetchesBlocks

\* What was agreed on in two rounds is on one chain.
LEMMA AgreedCompare ==
    ASSUME genesis.authorities \in Presets, VoterTypes, Voting,
           NEW r \in Round, NEW q \in Round, r <= q, NEW b, NEW c, IsChain(b), IsChain(c),
           Agreed(r, b), Agreed(q, c)
    PROVE  Comparable(b, c)
<1>1. PICK x \in precommits : x.voter = "Alice" /\ x.round = r /\ IsPrefix(b, x.block)
  BY OneAuthority DEF Agreed, AgreedBy
<1>2. PICK y \in precommits : y.voter = "Alice" /\ y.round = q /\ IsPrefix(c, y.block)
  BY OneAuthority DEF Agreed, AgreedBy
<1>3. IsPrefix(b, y.block)
  <2>1. CASE r = q
    <3>1. x.block = y.block
      BY <1>1, <1>2, <2>1 DEF Voting, VotesOnce
    <3> QED
      BY <1>1, <3>1
  <2>2. CASE r < q
    BY <1>2, <2>2 DEF Voting, VotesAbove
  <2> QED
    BY <2>1, <2>2 DEF Round
<1>4. IsChain(y.block)
  BY <1>2 DEF VoterTypes
<1> QED
  BY <1>2, <1>3, <1>4, PrefixesOfOne

\* While no authority loses its database, no two nodes have finalized chains that
\* contradict each other, although voters vote, change rounds and finalize each on
\* its own, for every set of nodes, any number of rounds and every voting depth.
THEOREM FinalityAlwaysAgrees == GlueSpec => []FinalityAgreement
<1> DEFINE Inv == Forest /\ Service /\ VoterTypes /\ (Unpurged => Voting) /\ FinalAgreed
<1>1. GlueInit => Inv
  <2> SUFFICES ASSUME GlueInit PROVE VoterTypes /\ Voting /\ FinalAgreed
    BY ForestInit, ServiceInit
  <2>1. /\ voter = [n \in Nodes |-> FirstRound] /\ precommits = {}
        /\ \A n \in Nodes : Finalized(n) = <<>>
    BY EmptyTree DEF GlueInit, NodeInit, Finalized
  <2>2. \A n \in Nodes : VoterOk(voter[n]) /\ voter[n].round = 1
    BY <2>1, FirstRoundOk
  <2>3. \A r \in Round : ~(r < 1)
    BY DEF Round
  <2>4. VoterTypes
    BY <2>1, <2>2 DEF VoterTypes
  <2>5. Voting
    BY <2>1, <2>2, <2>3 DEF Voting, VotesOnce, RoundsComplete, BasesAbove, VotesAbove
  <2> QED
    BY <2>1, <2>4, <2>5 DEF FinalAgreed
<1>2. Inv /\ [GlueNext]_glueVars => Inv'
  BY EveryDbStep, ForestKept, ServiceKept, VotingKept, FinalAgreedKept
<1>3. Inv => FinalityAgreement
  <2> SUFFICES ASSUME Inv, Unpurged, NEW m \in Nodes, NEW n \in Nodes
               PROVE  Comparable(Finalized(m), Finalized(n))
    BY DEF FinalityAgreement, Unpurged
  <2>1. IsChain(Finalized(m)) /\ IsChain(Finalized(n)) /\ genesis.authorities \in Presets
    BY TreeChains, Authorities DEF Forest, Finalized
  <2>2. CASE Finalized(m) = <<>> \/ Finalized(n) = <<>>
    BY <2>1, <2>2, EmptyChain DEF Comparable
  <2>3. CASE Finalized(m) # <<>> /\ Finalized(n) # <<>>
    <3>1. PICK r \in Round : Agreed(r, Finalized(m))
      BY <2>3 DEF FinalAgreed
    <3>2. PICK q \in Round : Agreed(q, Finalized(n))
      BY <2>3 DEF FinalAgreed
    <3>3. r <= q \/ q <= r
      BY DEF Round
    <3>4. Comparable(Finalized(m), Finalized(n)) \/ Comparable(Finalized(n), Finalized(m))
      BY <2>1, <3>1, <3>2, <3>3, AgreedCompare
    <3> QED
      BY <3>4 DEF Comparable
  <2> QED
    BY <2>2, <2>3
<1> QED
  BY <1>1, <1>2, <1>3, PTL DEF GlueSpec

-----------------------------------------------------------------------------
(* One block per slot *)

\* Blocks come from nowhere but from authoring.
LEMMA BlocksOrigin ==
    ASSUME Forest, DbStep
    PROVE  \/ Blocks' \subseteq Blocks
           \/ \E n \in Nodes : \E block : /\ AuthorsBlock(n, block)
                                          /\ Blocks' \subseteq Blocks \cup {Append(Best(n), block)}
<1>1. ASSUME NEW X, \A n \in Nodes : db'[n].blocks \subseteq X PROVE Blocks' \subseteq X
  BY <1>1 DEF Blocks
<1>2. \A n \in Nodes : db[n].blocks \subseteq Blocks
  BY DEF Blocks
<1>3. CASE db' = db
  BY <1>1, <1>2, <1>3
<1>4. ASSUME NEW n \in Nodes, NEW new, NEW c, Grows(n, new, c)
      PROVE  Blocks' \subseteq Blocks \cup new
  <2>1. db'[n].blocks = db[n].blocks \cup new /\ \A k \in Nodes \ {n} : db'[k] = db[k]
    BY <1>4 DEF Grows, Changed
  <2>2. \A k \in Nodes : db'[k].blocks \subseteq Blocks \cup new
    BY <1>2, <2>1
  <2> QED
    BY <1>1, <2>2
<1>5. ASSUME NEW n \in Nodes, NEW B, NEW best, NEW final, Changed(n, B, best, final),
             B \subseteq Blocks
      PROVE  Blocks' \subseteq Blocks
  <2>1. db'[n].blocks = B /\ \A k \in Nodes \ {n} : db'[k] = db[k]
    BY <1>5 DEF Changed
  <2> QED
    BY <1>1, <1>2, <1>5, <2>1
<1>6. ASSUME NEW n \in Nodes, NEW block, AuthorsBlock(n, block)
      PROVE  Blocks' \subseteq Blocks \cup {Append(Best(n), block)}
  BY <1>4, <1>6 DEF AuthorsBlock
<1>7. ASSUME NEW n \in Nodes, NEW m \in Nodes, NEW new, NEW c, FetchesBlocks(n, m, new, c)
      PROVE  Blocks' \subseteq Blocks
  <2>1. new \subseteq Blocks /\ Grows(n, new, c)
    BY <1>2, <1>7 DEF FetchesBlocks
  <2> QED
    BY <1>4, <2>1
<1>9. ASSUME NEW n \in Nodes, NEW b, NEW best, Finalizes(n, b, best)
      PROVE  Blocks' \subseteq Blocks
  <2>1. Pruned(db[n].blocks, b) \subseteq Blocks
    BY <1>2 DEF Pruned
  <2> QED
    BY <1>5, <1>9, <2>1 DEF Finalizes
<1>10. ASSUME NEW n \in Nodes, Loses(n) PROVE Blocks' \subseteq Blocks
  <2>1. IsChain(db[n].best) /\ db[n].best \in db[n].blocks /\ Tree(db[n])
    BY TreeChains DEF Forest
  <2>2. <<>> \in db[n].blocks
    BY <2>1, TreeChains, EmptyChain
  <2>3. {<<>>} \subseteq Blocks
    BY <1>2, <2>2
  <2> QED
    BY <1>5, <1>10, <2>3 DEF Loses
<1>11. ASSUME NEW n \in Nodes, NEW number, Reverts(n, number) PROVE Blocks' \subseteq Blocks
  <2>1. {c \in db[n].blocks : Len(c) <= number} \subseteq Blocks
    BY <1>2
  <2> QED
    BY <1>5, <1>11, <2>1 DEF Reverts
<1> QED
  BY <1>3, <1>6, <1>7, <1>9, <1>10, <1>11 DEF DbStep

\* The clock and the slots the Aura workers have handled never go back: a started
\* node takes up the clock.
LEMMA ClockForward ==
    ASSUME Service, [GlueNext]_glueVars
    PROVE  slot <= slot' /\ \A n \in Nodes : worked[n] <= worked'[n]
<1>1. slot \in Nat /\ worked \in [Nodes -> 0..slot]
  BY DEF Service, BudgetType
<1>2. \A n \in Nodes : worked[n] \in Nat /\ worked[n] <= slot /\ worked[n] <= worked[n]
  BY <1>1
<1>3. CASE UNCHANGED <<slot, worked>>
  BY <1>1, <1>2, <1>3
<1>4. CASE NextSlot
  BY <1>1, <1>2, <1>4 DEF NextSlot
<1>5. ASSUME NEW n \in Nodes, Author(n) \/ Start(n)
      PROVE  slot <= slot' /\ \A k \in Nodes : worked[k] <= worked'[k]
  <2>1. slot' = slot /\ worked' = [worked EXCEPT ![n] = slot]
    BY <1>5 DEF Author, Start
  <2> QED
    BY <1>1, <1>2, <2>1
<1>6. ASSUME NodeNext
      PROVE  \/ NextSlot \/ \E n \in Nodes : Author(n) \/ Start(n)
             \/ UNCHANGED <<slot, worked>>
  <2>1. ASSUME NEW n \in Nodes, NEW number, Stop(n) \/ PurgeChain(n) \/ Revert(n, number)
        PROVE  UNCHANGED <<slot, worked>>
    BY <2>1 DEF Stop, PurgeChain, Revert, OpenCommand, Command
  <2>2. ASSUME NEW m \in Nodes, NEW n \in Nodes, NEW tx, NEW c, NEW r,
               \/ Gossip(m, n, tx) \/ Import(m, n, c) \/ ImportBlocks(m, n)
               \/ ImportJustification(m, n) \/ FinalizeCommit(n, r, c)
        PROVE  UNCHANGED <<slot, worked>>
    BY <2>2 DEF Gossip, Import, ImportJustification, FinalizeCommit, FinalizeBlock,
                ImportBlocks, OpenCommand, Command
  <2>3. ASSUME NEW n \in Nodes, NEW b, NEW votes, Precommit(n, b) \/ NextRound(n, votes, b)
        PROVE  UNCHANGED <<slot, worked>>
    BY <2>3 DEF Precommit, NextRound
  <2> QED
    BY <1>6, <2>1, <2>2, <2>3 DEF NodeNext
<1>7. NodesStep \/ UNCHANGED <<slot, worked>>
  BY ToolSteps DEF NodesStay
<1> QED
  BY <1>3, <1>4, <1>5, <1>6, <1>7 DEF NodesStep

\* Every block was authored in a past slot by the node of the authority whose turn
\* it was, which remembers having handled the slot.
Claimed ==
    \A c \in Blocks \ {<<>>} :
        /\ Last(c).slot \in 1..slot /\ SlotAuthor(genesis, Last(c).slot) \in Nodes
        /\ Last(c).slot <= worked[SlotAuthor(genesis, Last(c).slot)]

\* Every step keeps the claims and adds at most one block for its slot.
LEMMA ClaimedKept ==
    ASSUME Forest, Service, Claimed, NoEquivocation, [GlueNext]_glueVars
    PROVE  Claimed' /\ NoEquivocation'
<1>1. DbStep /\ genesis' = genesis
  BY EveryDbStep
<1>2. /\ slot <= slot' /\ \A n \in Nodes : worked[n] <= worked'[n]
      /\ slot \in Nat /\ slot' \in Nat
      /\ \A n \in Nodes : worked[n] \in Nat /\ worked'[n] \in Nat
  <2>1. Service'
    BY ServiceKept
  <2>2. slot \in Nat /\ worked \in [Nodes -> 0..slot]
    BY DEF Service, BudgetType
  <2>3. slot' \in Nat /\ worked' \in [Nodes -> 0..slot']
    BY <2>1 DEF Service, BudgetType
  <2> QED
    BY <2>2, <2>3, ClockForward
<1>3. ASSUME NEW c \in Blocks, c # <<>>
      PROVE  /\ Last(c).slot \in 1..slot' /\ SlotAuthor(genesis, Last(c).slot) \in Nodes
             /\ Last(c).slot <= worked'[SlotAuthor(genesis, Last(c).slot)]
  <2>1. PICK t, a : t = Last(c).slot /\ a = SlotAuthor(genesis, t)
    OBVIOUS
  <2>2. t \in 1..slot /\ a \in Nodes /\ t <= worked[a]
    BY <1>3, <2>1 DEF Claimed
  <2>3. t \in 1..slot' /\ t <= worked'[a]
    BY <1>2, <2>2
  <2> QED
    BY <2>1, <2>2, <2>3
<1>4. CASE Blocks' \subseteq Blocks
  <2>1. Claimed'
    BY <1>1, <1>3, <1>4 DEF Claimed
  <2>2. NoEquivocation'
    BY <1>4 DEF NoEquivocation
  <2> QED
    BY <2>1, <2>2
<1>5. ASSUME NEW n \in Nodes, NEW block, AuthorsBlock(n, block),
             Blocks' \subseteq Blocks \cup {Append(Best(n), block)}
      PROVE  Claimed' /\ NoEquivocation'
  <2>1. PICK c : c = Append(Best(n), block)
    OBVIOUS
  <2>2. Last(c) = block
    <3>1. IsChain(Best(n))
      BY TreeChains DEF Forest, Best
    <3> QED
      BY <2>1, <3>1, OneMoreBlock
  <2>3. /\ Last(c).slot = slot /\ SlotAuthor(genesis, slot) = n /\ worked[n] < slot
        /\ worked' = [worked EXCEPT ![n] = slot]
    BY <1>5, <2>2 DEF AuthorsBlock
  <2>4. worked'[n] = slot
    BY <2>3 DEF Service
  <2>5. Claimed'
    <3>1. ASSUME NEW d \in Blocks', d # <<>>
          PROVE  /\ Last(d).slot \in 1..slot' /\ SlotAuthor(genesis, Last(d).slot) \in Nodes
                 /\ Last(d).slot <= worked'[SlotAuthor(genesis, Last(d).slot)]
      <4>1. CASE d \in Blocks
        BY <1>3, <3>1, <4>1
      <4>2. CASE d = c
        BY <1>2, <2>3, <2>4, <4>2
      <4> QED
        BY <1>5, <2>1, <3>1, <4>1, <4>2
    <3> QED
      BY <1>1, <3>1 DEF Claimed
  <2>6. ASSUME NEW d \in Blocks, d # <<>> PROVE Last(d).slot # slot
    <3>1. Last(d).slot <= worked[SlotAuthor(genesis, Last(d).slot)]
      BY <2>6 DEF Claimed
    <3> QED
      BY <1>2, <2>3, <3>1
  <2>7. ASSUME NEW d \in Blocks', NEW e \in Blocks', d # <<>>, e # <<>>, Last(d).slot = Last(e).slot
        PROVE  d = e
    <3>1. d \in Blocks \/ d = c
      BY <1>5, <2>1, <2>7
    <3>2. e \in Blocks \/ e = c
      BY <1>5, <2>1, <2>7
    <3>3. CASE d \in Blocks /\ e \in Blocks
      BY <2>7, <3>3 DEF NoEquivocation
    <3> QED
      BY <2>3, <2>6, <2>7, <3>1, <3>2, <3>3
  <2> QED
    BY <2>5, <2>7 DEF NoEquivocation
<1> QED
  BY <1>1, <1>4, <1>5, BlocksOrigin

\* No authority signs two blocks for one slot, whatever stops, restarts, reverts
\* and purges happen, for every set of nodes and any number of slots.
THEOREM NeverEquivocates == GlueSpec => []NoEquivocation
<1>1. GlueInit => Forest /\ Service /\ Claimed /\ NoEquivocation
  <2> SUFFICES ASSUME GlueInit PROVE Claimed /\ NoEquivocation
    BY ForestInit, ServiceInit
  <2>1. \A n \in Nodes : db[n].blocks = {<<>>}
    BY EmptyTree DEF GlueInit, NodeInit
  <2>2. Blocks \subseteq {<<>>}
    BY <2>1 DEF Blocks
  <2> QED
    BY <2>2 DEF Claimed, NoEquivocation
<1>2. Forest /\ Service /\ Claimed /\ NoEquivocation /\ [GlueNext]_glueVars
      => Forest' /\ Service' /\ Claimed' /\ NoEquivocation'
  BY EveryDbStep, ForestKept, ServiceKept, ClaimedKept
<1> QED
  BY <1>1, <1>2, PTL DEF GlueSpec

-----------------------------------------------------------------------------
(* The sole authority of the development preset *)

\* Nothing but imports was run on a stopped node of the development chain.
OnlyImports(cmds) == Len(genesis.authorities) = 1 /\ \A x \in cmds : x[1] = "import-blocks"

\* Then there is one chain, the authority's best one, and the others hold parts of it.
OneChain == IF "Alice" \in Nodes THEN \A c \in Blocks : IsPrefix(c, Best("Alice"))
                                 ELSE Blocks \subseteq {<<>>}

\* One authority has every slot.
LEMMA SlotOfOne ==
    ASSUME NEW t \in Nat, genesis.authorities = <<"Alice">>
    PROVE  SlotAuthor(genesis, t) = "Alice"
  BY DEF SlotAuthor

\* With one chain, a step makes every best chain longer or leaves it.
LEMMA OneChainKept ==
    ASSUME Forest, Forest', Service, genesis.authorities \in Presets, DbStep,
           commands \subseteq commands', OnlyImports(commands'), OneChain
    PROVE  OneChain' /\ \A n \in Nodes : IsPrefix(Best(n), db'[n].best)
<1>1. \A n \in Nodes : /\ IsChain(Best(n)) /\ Len(Best(n)) \in Nat /\ IsPrefix(Best(n), Best(n))
                       /\ Best(n) \in Blocks /\ db[n].blocks \subseteq Blocks
                       /\ IsChain(db'[n].best) /\ db'[n].best \in Blocks'
                       /\ IsChain(Finalized(n))
  BY TreeChains, PrefixOrder DEF Forest, Best, Blocks, Finalized
<1>2. \A c \in Blocks : IsChain(c)
  BY TreeChains DEF Forest, Blocks
<1>3. \A c \in Blocks' : IsChain(c)
  BY TreeChains DEF Forest, Blocks
<1>4. ASSUME NEW n \in Nodes, NEW c \in Blocks, Len(Best(n)) <= Len(c)
      PROVE  IsPrefix(Best(n), c)
  <2>1. CASE "Alice" \in Nodes
    <3>1. /\ IsPrefix(Best(n), Best("Alice")) /\ IsPrefix(c, Best("Alice"))
          /\ IsChain(Best("Alice")) /\ IsChain(c) /\ IsChain(Best(n))
      BY <1>1, <1>2, <2>1 DEF OneChain
    <3> QED
      BY <1>4, <3>1, PrefixesOfOne
  <2>2. CASE "Alice" \notin Nodes
    <3>1. c = <<>> /\ Best(n) = <<>>
      BY <1>1, <2>2 DEF OneChain
    <3> QED
      BY <3>1, EmptyChain
  <2> QED
    BY <2>1, <2>2
<1>5. ASSUME Blocks' \subseteq Blocks, \A n \in Nodes : IsPrefix(Best(n), db'[n].best)
      PROVE  OneChain'
  <2>1. CASE "Alice" \in Nodes
    <3>1. ASSUME NEW c \in Blocks' PROVE IsPrefix(c, db'["Alice"].best)
      <4>1. IsPrefix(c, Best("Alice")) /\ IsPrefix(Best("Alice"), db'["Alice"].best)
        BY <1>5, <2>1, <3>1 DEF OneChain
      <4>2. IsChain(c) /\ IsChain(Best("Alice")) /\ IsChain(db'["Alice"].best)
        BY <1>1, <1>3, <2>1, <3>1
      <4> QED
        BY <4>1, <4>2, PrefixOrder
    <3> QED
      BY <2>1, <3>1 DEF OneChain, Best
  <2>2. CASE "Alice" \notin Nodes
    BY <1>5, <2>2 DEF OneChain
  <2> QED
    BY <2>1, <2>2
<1>6. CASE db' = db
  <2>1. \A n \in Nodes : IsPrefix(Best(n), db'[n].best)
    BY <1>1, <1>6 DEF Best
  <2>2. Blocks' = Blocks
    BY <1>6 DEF Blocks
  <2> QED
    BY <1>5, <2>1, <2>2
<1>7. ASSUME NEW n \in Nodes, NEW block, AuthorsBlock(n, block),
             Blocks' \subseteq Blocks \cup {Append(Best(n), block)}
      PROVE  OneChain' /\ \A k \in Nodes : IsPrefix(Best(k), db'[k].best)
  <2>1. n = "Alice"
    <3>1. genesis.authorities = <<"Alice">>
      BY DEF OnlyImports, Presets
    <3>2. slot \in Nat
      BY DEF Service, BudgetType
    <3> QED
      BY <1>7, <3>1, <3>2, SlotOfOne DEF AuthorsBlock
  <2>2. PICK c : c = Append(Best(n), block)
    OBVIOUS
  <2>3. IsChain(c) /\ IsPrefix(Best(n), c) /\ Len(c) = Len(Best(n)) + 1 /\ IsPrefix(c, c)
    BY <1>1, <2>2, OneMoreBlock, PrefixOrder
  <2>4. Chosen(Best(n), c) = c
    BY <1>1, <2>3 DEF Chosen
  <2>5. db'[n].best = c /\ \A k \in Nodes \ {n} : db'[k] = db[k]
    BY <1>7, <2>2, <2>4 DEF AuthorsBlock, Grows, Changed
  <2>6. \A k \in Nodes : IsPrefix(Best(k), db'[k].best)
    BY <1>1, <2>3, <2>5 DEF Best
  <2>7. ASSUME NEW d \in Blocks PROVE IsPrefix(d, c)
    BY <1>1, <1>2, <2>1, <2>3, PrefixOrder DEF OneChain
  <2>8. OneChain'
    BY <1>7, <2>1, <2>2, <2>3, <2>5, <2>7 DEF OneChain, Best
  <2> QED
    BY <2>6, <2>8
<1>8. ASSUME NEW n \in Nodes, NEW m \in Nodes, NEW new, NEW c, FetchesBlocks(n, m, new, c)
      PROVE  \A k \in Nodes : IsPrefix(Best(k), db'[k].best)
  <2>1. c \in Blocks /\ Len(c) \in Nat
    BY <1>1, <1>2, <1>8, ChainFacts DEF FetchesBlocks, Grows
  <2>2. IsPrefix(Best(n), Chosen(Best(n), c))
    BY <1>1, <1>4, <2>1 DEF Chosen
  <2>3. db'[n].best = Chosen(Best(n), c) /\ \A k \in Nodes \ {n} : db'[k] = db[k]
    BY <1>8 DEF FetchesBlocks, Grows, Changed
  <2> QED
    BY <1>1, <2>2, <2>3 DEF Best
<1>10. ASSUME NEW n \in Nodes, NEW b, NEW best, Finalizes(n, b, best)
       PROVE  \A k \in Nodes : IsPrefix(Best(k), db'[k].best)
  <2>1. /\ db'[n].best = best /\ \A k \in Nodes \ {n} : db'[k] = db[k]
        /\ b \in Blocks /\ (best = Best(n) \/ (best = b /\ ~IsPrefix(b, Best(n))))
    BY <1>1, <1>10 DEF Finalizes, Changed
  <2>2. CASE best = Best(n)
    BY <1>1, <2>1, <2>2 DEF Best
  <2>3. CASE best = b /\ ~IsPrefix(b, Best(n))
    <3>1. Len(b) \in Nat /\ IsChain(b)
      BY <1>2, <2>1, ChainFacts
    <3>2. "Alice" \in Nodes => IsPrefix(b, Best("Alice")) /\ IsPrefix(Best(n), Best("Alice"))
      BY <1>1, <2>1 DEF OneChain
    <3>3. "Alice" \notin Nodes => b = Best(n)
      BY <1>1, <2>1 DEF OneChain
    <3>4. Len(b) <= Len(Best(n)) => IsPrefix(b, Best(n))
      BY <1>1, <3>1, <3>2, <3>3, PrefixesOfOne
    <3>5. Len(Best(n)) <= Len(b)
      BY <1>1, <2>3, <3>1, <3>4
    <3>6. IsPrefix(Best(n), b)
      BY <1>4, <2>1, <3>5
    <3> QED
      BY <1>1, <2>1, <2>3, <3>6 DEF Best
  <2> QED
    BY <2>1, <2>2, <2>3
<1>11. ASSUME NEW n \in Nodes, Loses(n) PROVE FALSE
  <2>1. PICK x : x = <<"purge-chain", n>>
    OBVIOUS
  <2>2. x \in commands' /\ x[1] = "purge-chain"
    BY <1>11, <2>1 DEF Loses, Service
  <2>3. x[1] = "import-blocks"
    BY <2>2 DEF OnlyImports
  <2> QED
    BY <2>2, <2>3
<1>12. ASSUME NEW n \in Nodes, NEW number, Reverts(n, number) PROVE FALSE
  <2>1. PICK x : x = <<"revert", n>>
    OBVIOUS
  <2>2. x \in commands' /\ x[1] = "revert"
    BY <1>12, <2>1 DEF Reverts
  <2>3. x[1] = "import-blocks"
    BY <2>2 DEF OnlyImports
  <2> QED
    BY <2>2, <2>3
<1>13. CASE Blocks' \subseteq Blocks /\ \A n \in Nodes : \A block : ~AuthorsBlock(n, block)
  <2>1. \A k \in Nodes : IsPrefix(Best(k), db'[k].best)
    BY <1>6, <1>8, <1>10, <1>11, <1>12, <1>13 DEF DbStep
  <2> QED
    BY <1>5, <1>13, <2>1
<1>14. ASSUME NEW n \in Nodes, NEW block, AuthorsBlock(n, block)
       PROVE  Blocks' \subseteq Blocks \cup {Append(Best(n), block)}
  <2>1. /\ db'[n].blocks = db[n].blocks \cup {Append(Best(n), block)}
        /\ \A k \in Nodes \ {n} : db'[k] = db[k]
    BY <1>14 DEF AuthorsBlock, Grows, Changed
  <2> QED
    BY <2>1 DEF Blocks
<1> QED
  BY <1>7, <1>13, <1>14, BlocksOrigin

\* On the development chain, with no revert and no purge, a best chain only grows,
\* on the authority and on every other node, through restarts and imports.
THEOREM SoleAuthorityNeverReorgs == GlueSpec => SoleAuthorityNoReorg
<1> DEFINE Sole == OnlyImports(commands) => OneChain
<1>1. GlueInit => Forest /\ Service /\ Sole
  <2> SUFFICES ASSUME GlueInit PROVE OneChain
    BY ForestInit, ServiceInit
  <2>1. \A n \in Nodes : db[n].blocks = {<<>>} /\ Best(n) = <<>>
    BY EmptyTree DEF GlueInit, NodeInit, Best
  <2>2. Blocks \subseteq {<<>>} /\ IsPrefix(<<>>, <<>>)
    BY <2>1, EmptyChain DEF Blocks
  <2> QED
    BY <2>1, <2>2 DEF OneChain
<1>2. Forest /\ Service /\ Sole /\ [GlueNext]_glueVars
      => /\ Forest' /\ Service' /\ Sole'
         /\ OnlyImports(commands') => \A n \in Nodes : IsPrefix(Best(n), db'[n].best)
  <2> SUFFICES ASSUME Forest, Service, Sole, [GlueNext]_glueVars
               PROVE  /\ Forest' /\ Service'
                      /\ OnlyImports(commands)'
                         => OneChain' /\ \A n \in Nodes : IsPrefix(Best(n), db'[n].best)
                      /\ OnlyImports(commands') <=> OnlyImports(commands)'
    BY DEF OnlyImports
  <2>1. DbStep /\ commands \subseteq commands' /\ genesis' = genesis
    BY EveryDbStep
  <2>2. Forest' /\ Service' /\ genesis.authorities \in Presets
    BY <2>1, ForestKept, ServiceKept, Authorities
  <2>3. OnlyImports(commands') <=> OnlyImports(commands)'
    BY <2>1 DEF OnlyImports
  <2>4. OnlyImports(commands') => OnlyImports(commands)
    BY <2>1 DEF OnlyImports
  <2> QED
    BY <2>1, <2>2, <2>3, <2>4, OneChainKept
<1>3. Forest /\ Service /\ Sole /\ [GlueNext]_glueVars
      => [Len(genesis.authorities) = 1 /\ (\A x \in commands' : x[1] = "import-blocks")
          => \A n \in Nodes : IsPrefix(Best(n), db'[n].best)]_nodeVars
  BY <1>2 DEF OnlyImports
<1> QED
  BY <1>1, <1>2, <1>3, PTL DEF GlueSpec, SoleAuthorityNoReorg

-----------------------------------------------------------------------------
(* The extrinsics of a chain *)

\* Induction on the naturals up to n, from least counterexamples.
LEMMA UpTo ==
    ASSUME NEW n \in Nat, NEW T, 0 \in T, \A i \in 0..(n - 1) : i \in T => i + 1 \in T
    PROVE  \A i \in 0..n : i \in T
<1> SUFFICES ASSUME NEW k \in 0..n, k \notin T PROVE FALSE
  OBVIOUS
<1>1. PICK B : B = {i \in 0..n : i \notin T}
  OBVIOUS
<1>2. B \in SUBSET Nat /\ B # {}
  BY <1>1
<1>3. PICK i \in B : \A j \in B : i <= j
  BY <1>2, LeastNatural
<1>4. i # 0 /\ i \in 0..n /\ i \notin T
  BY <1>1, <1>3
<1>5. i - 1 \in 0..(n - 1) /\ (i - 1) + 1 = i
  BY <1>4
<1>6. i - 1 \notin T
  BY <1>4, <1>5
<1>7. i - 1 \in B
  BY <1>1, <1>5, <1>6
<1> QED
  BY <1>3, <1>4, <1>7

\* The partial results of FlattenSeq.
Flattens(f, seqs) ==
    f = [i \in 1..Len(seqs) |-> IF i = 1 THEN seqs[i] ELSE f[i - 1] \o seqs[i]]

\* FlattenSeq is the last of them.
LEMMA FlattenByParts ==
    ASSUME NEW seqs
    PROVE  FlattenSeq(seqs) = IF Len(seqs) = 0 THEN seqs
                              ELSE (CHOOSE f : Flattens(f, seqs))[Len(seqs)]
  BY DEF FlattenSeq, Flattens

\* They exist, one after the other.
LEMMA FlattenParts ==
    ASSUME NEW S, NEW seqs \in Seq(Seq(S))
    PROVE  /\ \E f : Flattens(f, seqs)
           /\ \A f : Flattens(f, seqs) => \A i \in 1..Len(seqs) : f[i] \in Seq(S)
<1>1. PICK n \in Nat : n = Len(seqs)
  OBVIOUS
<1>2. \A i \in 1..n : seqs[i] \in Seq(S)
  BY <1>1
<1> DEFINE Part(f, k) == /\ f \in [1..k -> Seq(S)]
                         /\ \A i \in 1..k : f[i] = IF i = 1 THEN seqs[i] ELSE f[i - 1] \o seqs[i]
           T == {k \in 0..n : \E f : Part(f, k)}
<1>3. 0 \in T
  <2>1. PICK f : f = [i \in 1..0 |-> <<>>]
    OBVIOUS
  <2>2. Part(f, 0)
    <3>1. 1..0 = {}
      OBVIOUS
    <3>2. f \in [1..0 -> Seq(S)]
      BY <2>1, <3>1
    <3> QED
      BY <3>1, <3>2
  <2> HIDE DEF Part
  <2>3. 0 \in 0..n /\ \E g : Part(g, 0)
    BY <2>2
  <2> QED
    BY <2>3
<1>4. ASSUME NEW k \in 0..(n - 1), k \in T PROVE k + 1 \in T
  <2>1. PICK f : Part(f, k)
    BY <1>4
  <2>2. k + 1 \in 0..n /\ k + 1 \in 1..n /\ k \in Nat
    BY <1>4
  <2>3. PICK x : x = IF k + 1 = 1 THEN seqs[k + 1] ELSE f[k] \o seqs[k + 1]
    OBVIOUS
  <2>4. x \in Seq(S)
    <3>1. seqs[k + 1] \in Seq(S)
      BY <1>2, <2>2
    <3>2. CASE k = 0
      BY <2>3, <3>1, <3>2
    <3>3. CASE k # 0
      <4>1. k \in 1..k /\ k + 1 # 1
        BY <2>2, <3>3
      <4>2. f[k] \in Seq(S)
        BY <2>1, <4>1
      <4> QED
        BY <2>3, <3>1, <4>1, <4>2
    <3> QED
      BY <3>2, <3>3
  <2>5. PICK g : g = [i \in 1..(k + 1) |-> IF i = k + 1 THEN x ELSE f[i]]
    OBVIOUS
  <2>6. g \in [1..(k + 1) -> Seq(S)]
    <3>1. ASSUME NEW i \in 1..(k + 1) PROVE g[i] \in Seq(S)
      <4>1. i = k + 1 \/ i \in 1..k
        BY <2>2
      <4> QED
        BY <2>1, <2>4, <2>5, <4>1
    <3> QED
      BY <2>5, <3>1
  <2>7. ASSUME NEW i \in 1..(k + 1)
        PROVE  g[i] = IF i = 1 THEN seqs[i] ELSE g[i - 1] \o seqs[i]
    <3>1. CASE i = k + 1
      <4>1. g[i] = x
        BY <2>5, <3>1
      <4>2. i # 1 => i - 1 \in 1..(k + 1) /\ i - 1 # k + 1 /\ i - 1 = k
        BY <2>2, <3>1
      <4>3. i # 1 => g[i - 1] = f[k]
        BY <2>5, <4>2
      <4> QED
        BY <2>3, <3>1, <4>1, <4>3
    <3>2. CASE i # k + 1
      <4>1. i \in 1..k
        BY <2>2, <3>2
      <4>2. g[i] = f[i]
        BY <2>5, <3>2
      <4>3. f[i] = IF i = 1 THEN seqs[i] ELSE f[i - 1] \o seqs[i]
        BY <2>1, <4>1
      <4>4. i # 1 => i - 1 \in 1..(k + 1) /\ i - 1 # k + 1
        BY <2>2, <4>1
      <4>5. i # 1 => g[i - 1] = f[i - 1]
        BY <2>5, <4>4
      <4> QED
        BY <4>2, <4>3, <4>5
    <3> QED
      BY <3>1, <3>2
  <2>8. Part(g, k + 1)
    BY <2>6, <2>7
  <2> QED
    BY <2>2, <2>8
<1>5. n \in T
  <2> HIDE DEF T
  <2>1. \A i \in 0..n : i \in T
    BY <1>3, <1>4, UpTo
  <2> QED
    BY <2>1
<1>6. \E f : Flattens(f, seqs)
  <2>1. PICK f : Part(f, n)
    BY <1>5
  <2>2. f = [i \in 1..n |-> IF i = 1 THEN seqs[i] ELSE f[i - 1] \o seqs[i]]
    <3>1. f = [i \in 1..n |-> f[i]]
      BY <2>1
    <3> QED
      BY <2>1, <3>1
  <2> QED
    BY <1>1, <2>2 DEF Flattens
<1>7. ASSUME NEW f, Flattens(f, seqs) PROVE \A i \in 1..n : f[i] \in Seq(S)
  <2>1. \A i \in 1..n : f[i] = IF i = 1 THEN seqs[i] ELSE f[i - 1] \o seqs[i]
    BY <1>1, <1>7 DEF Flattens
  <2> DEFINE G == {k \in 0..n : k # 0 => f[k] \in Seq(S)}
  <2>2. 0 \in G
    OBVIOUS
  <2>3. ASSUME NEW k \in 0..(n - 1), k \in G PROVE k + 1 \in G
    <3>1. k + 1 \in 1..n /\ k + 1 \in 0..n /\ (k + 1) - 1 = k /\ (k + 1 = 1 <=> k = 0)
      BY <2>3
    <3>2. seqs[k + 1] \in Seq(S)
      BY <1>2, <3>1
    <3>3. f[k + 1] = IF k + 1 = 1 THEN seqs[k + 1] ELSE f[k] \o seqs[k + 1]
      BY <2>1, <3>1
    <3>4. k # 0 => f[k] \in Seq(S)
      BY <2>3
    <3>5. f[k + 1] \in Seq(S)
      BY <3>1, <3>2, <3>3, <3>4
    <3> QED
      BY <3>1, <3>5
  <2>4. \A i \in 0..n : i \in G
    <3> HIDE DEF G
    <3> QED
      BY <2>2, <2>3, UpTo
  <2> QED
    BY <2>4
<1> QED
  BY <1>1, <1>6, <1>7

\* FlattenSeq of a sequence of sequences is a sequence, and one more of them is
\* appended as a whole.
LEMMA FlattenMore ==
    ASSUME NEW S, NEW seqs \in Seq(Seq(S)), NEW x \in Seq(S)
    PROVE  /\ FlattenSeq(seqs) \in Seq(S)
           /\ FlattenSeq(Append(seqs, x)) = FlattenSeq(seqs) \o x
<1>1. PICK n \in Nat : n = Len(seqs)
  OBVIOUS
<1>2. PICK more : more = Append(seqs, x)
  OBVIOUS
<1>3. more \in Seq(Seq(S)) /\ Len(more) = n + 1 /\ n + 1 # 0
  BY <1>1, <1>2
<1>4. (\A i \in 1..n : more[i] = seqs[i]) /\ more[n + 1] = x
  BY <1>1, <1>2
<1>5. PICK g : Flattens(g, more) /\ FlattenSeq(more) = g[n + 1]
  <2>1. PICK g : g = CHOOSE f : Flattens(f, more)
    OBVIOUS
  <2>2. Flattens(g, more)
    BY <1>3, <2>1, FlattenParts
  <2>3. FlattenSeq(more) = g[Len(more)]
    BY <1>3, <2>1, FlattenByParts
  <2> QED
    BY <1>3, <2>2, <2>3
<1>6. \A i \in 1..(n + 1) : g[i] = IF i = 1 THEN more[i] ELSE g[i - 1] \o more[i]
  BY <1>3, <1>5 DEF Flattens
<1>7. n + 1 \in 1..(n + 1) /\ (n + 1) - 1 = n
  BY <1>1
<1>8. CASE n = 0
  <2>0. seqs = <<>> /\ Len(seqs) = 0
    BY <1>1, <1>8, EmptyChain DEF IsChain
  <2>1. FlattenSeq(seqs) = <<>> /\ <<>> \in Seq(S)
    BY <2>0, FlattenByParts
  <2>2. g[n + 1] = x
    BY <1>4, <1>6, <1>7, <1>8
  <2>3. <<>> \o x = x
    OBVIOUS
  <2> QED
    BY <1>2, <1>5, <2>1, <2>2, <2>3, Zenon
<1>9. CASE n # 0
  <2>1. PICK f : Flattens(f, seqs) /\ FlattenSeq(seqs) = f[n]
    <3>1. PICK f : f = CHOOSE h : Flattens(h, seqs)
      OBVIOUS
    <3>2. Flattens(f, seqs)
      BY <3>1, FlattenParts
    <3>3. FlattenSeq(seqs) = f[Len(seqs)]
      BY <1>1, <1>9, <3>1, FlattenByParts
    <3> QED
      BY <1>1, <3>2, <3>3
  <2>2. \A i \in 1..n : f[i] = IF i = 1 THEN seqs[i] ELSE f[i - 1] \o seqs[i]
    BY <1>1, <2>1 DEF Flattens
  <2>3. f[n] \in Seq(S)
    BY <1>1, <1>9, <2>1, FlattenParts
  <2> DEFINE T == {k \in 0..n : k # 0 => f[k] = g[k]}
  <2>4. 0 \in T
    OBVIOUS
  <2>5. ASSUME NEW k \in 0..(n - 1), k \in T PROVE k + 1 \in T
    <3>1. /\ k + 1 \in 1..n /\ k + 1 \in 0..n /\ k + 1 \in 1..(n + 1) /\ (k + 1) - 1 = k
          /\ (k + 1 = 1 <=> k = 0)
      BY <2>5
    <3>2. f[k + 1] = IF k + 1 = 1 THEN seqs[k + 1] ELSE f[k] \o seqs[k + 1]
      BY <2>2, <3>1
    <3>3. g[k + 1] = IF k + 1 = 1 THEN more[k + 1] ELSE g[k] \o more[k + 1]
      BY <1>6, <3>1
    <3>4. more[k + 1] = seqs[k + 1]
      BY <1>4, <3>1
    <3>5. k # 0 => f[k] = g[k]
      BY <2>5
    <3>6. f[k + 1] = g[k + 1]
      BY <3>1, <3>2, <3>3, <3>4, <3>5
    <3> QED
      BY <3>1, <3>6
  <2>6. n \in T
    <3>1. \A i \in 0..n : i \in T
      <4> HIDE DEF T
      <4> QED
        BY <2>4, <2>5, UpTo
    <3> QED
      BY <3>1
  <2>7. f[n] = g[n]
    BY <1>9, <2>6
  <2>8. g[n + 1] = g[n] \o x
    <3>1. g[n + 1] = IF n + 1 = 1 THEN more[n + 1] ELSE g[n] \o more[n + 1]
      BY <1>6, <1>7
    <3>2. n + 1 # 1
      BY <1>9
    <3> QED
      BY <1>4, <3>1, <3>2, Zenon
  <2> QED
    BY <1>2, <1>5, <2>1, <2>3, <2>7, <2>8, Zenon
<1> QED
  BY <1>8, <1>9

\* The blocks of a chain hold sequences of extrinsics.
BlocksHold(c) == \A i \in 1..Len(c) : IsChain(c[i].extrinsics)

\* A sequence with its elements in S is a sequence over S.
LEMMA ChainOver ==
    ASSUME NEW x, IsChain(x), NEW S, \A j \in 1..Len(x) : x[j] \in S
    PROVE  x \in Seq(S)
<1>1. Len(x) \in Nat /\ x = [i \in 1..Len(x) |-> x[i]]
  BY ChainFacts
<1>2. x \in [1..Len(x) -> S]
  BY <1>1
<1> QED
  BY <1>1, <1>2

\* Two sequences in a row.
LEMMA JoinedChains ==
    ASSUME NEW p, NEW q, IsChain(p), IsChain(q)
    PROVE  /\ IsChain(p \o q) /\ Len(p \o q) = Len(p) + Len(q)
           /\ \A i \in 1..Len(p) : (p \o q)[i] = p[i]
           /\ \A i \in 1..Len(q) : (p \o q)[Len(p) + i] = q[i]
           /\ \A x \in ToSet(p \o q) : x \in ToSet(p) \/ x \in ToSet(q)
<1>1. PICK S : S = ToSet(p) \cup ToSet(q)
  OBVIOUS
<1>2. /\ Len(p) \in Nat /\ DOMAIN p = 1..Len(p)
      /\ Len(q) \in Nat /\ DOMAIN q = 1..Len(q)
  BY ChainFacts
<1>3. p \in Seq(S) /\ q \in Seq(S)
  <2>1. \A j \in 1..Len(p) : p[j] \in S
    BY <1>1, <1>2 DEF ToSet
  <2>2. \A j \in 1..Len(q) : q[j] \in S
    BY <1>1, <1>2 DEF ToSet
  <2> QED
    BY <2>1, <2>2, ChainOver
<1>4. PICK r : r = p \o q
  OBVIOUS
<1>5. /\ r \in Seq(S) /\ Len(r) = Len(p) + Len(q)
      /\ \A i \in 1..Len(p) : r[i] = p[i]
      /\ \A i \in 1..Len(q) : r[Len(p) + i] = q[i]
  BY <1>2, <1>3, <1>4
<1>6. IsChain(r)
  BY <1>5 DEF IsChain
<1>7. \A x \in ToSet(r) : x \in S
  BY <1>5 DEF ToSet
<1> QED
  BY <1>1, <1>4, <1>5, <1>6, <1>7

\* A sequence has finitely many elements.
LEMMA FiniteElements ==
    ASSUME NEW s, IsChain(s)
    PROVE  IsFiniteSet(ToSet(s))
<1>1. PICK n \in Nat : n = Len(s) /\ DOMAIN s = 1..n
  BY ChainFacts
<1>2. IsFiniteSet(1..n)
  BY <1>1, FS_Interval
<1> DEFINE f == [i \in 1..n |-> s[i]]
<1>3. f \in Surjection(1..n, ToSet(s))
  BY <1>1 DEF Surjection, ToSet
<1> QED
  BY <1>2, <1>3, FS_Surjection

\* All the blocks of a chain.
LEMMA WholeChain ==
    ASSUME NEW c, IsChain(c)
    PROVE  SubSeq(c, 1, Len(c)) = c
<1>1. PICK n, a : n \in 0..Len(c) /\ n = Len(c) /\ a = SubSeq(c, 1, n)
  BY ChainFacts
<1>2. IsChain(a) /\ Len(a) = n /\ \A i \in 1..n : a[i] = c[i]
  BY <1>1, FirstBlocks
<1>3. a = c
  BY <1>1, <1>2, ChainEqual
<1> QED
  BY <1>1, <1>3

\* The first k blocks and the next one.
LEMMA NextBlock ==
    ASSUME NEW c, IsChain(c), NEW k \in Nat, k < Len(c)
    PROVE  SubSeq(c, 1, k + 1) = Append(SubSeq(c, 1, k), c[k + 1])
<1>1. Len(c) \in Nat
  BY ChainFacts
<1>2. PICK n \in 0..Len(c) : n = k + 1
  BY <1>1
<1>3. PICK a, b : a = SubSeq(c, 1, n) /\ b = SubSeq(c, 1, k)
  OBVIOUS
<1>4. IsChain(a) /\ Len(a) = n /\ \A i \in 1..n : a[i] = c[i]
  BY <1>3, FirstBlocks
<1>5. k \in 0..Len(c)
  BY <1>1
<1>6. IsChain(b) /\ Len(b) = k /\ \A i \in 1..k : b[i] = c[i]
  BY <1>3, <1>5, FirstBlocks
<1>7. PICK d : d = Append(b, c[k + 1])
  OBVIOUS
<1>8. IsChain(d) /\ Len(d) = k + 1 /\ d[k + 1] = c[k + 1] /\ \A i \in 1..k : d[i] = b[i]
  BY <1>6, <1>7, OneMoreBlock
<1>9. ASSUME NEW i \in 1..n PROVE a[i] = d[i]
  <2>1. i = k + 1 \/ i \in 1..k
    BY <1>2
  <2> QED
    BY <1>4, <1>6, <1>8, <2>1
<1>10. a = d
  BY <1>2, <1>4, <1>8, <1>9, ChainEqual
<1> QED
  BY <1>2, <1>3, <1>7, <1>10

\* One more block appends its extrinsics.
LEMMA MoreExtrinsics ==
    ASSUME NEW c, IsChain(c), BlocksHold(c), NEW block, IsChain(block.extrinsics)
    PROVE  /\ IsChain(Extrinsics(c)) /\ BlocksHold(Append(c, block))
           /\ Extrinsics(Append(c, block)) = Extrinsics(c) \o block.extrinsics
<1>1. PICK n \in Nat : n = Len(c) /\ DOMAIN c = 1..n
  BY ChainFacts
<1>2. PICK x, d : x = block.extrinsics /\ d = Append(c, block)
  OBVIOUS
<1>3. /\ IsChain(d) /\ Len(d) = n + 1 /\ d[n + 1] = block
      /\ \A i \in 1..n : d[i] = c[i]
  BY <1>1, <1>2, OneMoreBlock
<1>4. DOMAIN d = 1..(n + 1)
  BY <1>3, ChainFacts
<1>5. \A i \in 1..(n + 1) : i = n + 1 \/ i \in 1..n
  BY <1>1
<1>6. BlocksHold(d)
  BY <1>1, <1>2, <1>3, <1>5 DEF BlocksHold
<1>7. PICK S : S = UNION {ToSet(d[i].extrinsics) : i \in 1..(n + 1)}
  OBVIOUS
<1>8. ASSUME NEW i \in 1..(n + 1) PROVE d[i].extrinsics \in Seq(S)
  <2>1. IsChain(d[i].extrinsics)
    BY <1>3, <1>6 DEF BlocksHold
  <2>2. DOMAIN d[i].extrinsics = 1..Len(d[i].extrinsics)
    BY <2>1, ChainFacts
  <2>3. \A j \in 1..Len(d[i].extrinsics) : d[i].extrinsics[j] \in S
    BY <1>7, <2>2 DEF ToSet
  <2> QED
    BY <2>1, <2>3, ChainOver
<1>9. PICK seqs, more : /\ seqs = [i \in 1..n |-> c[i].extrinsics]
                        /\ more = [i \in 1..(n + 1) |-> d[i].extrinsics]
  OBVIOUS
<1>10. x \in Seq(S)
  <2>1. n + 1 \in 1..(n + 1)
    BY <1>1
  <2> QED
    BY <1>2, <1>3, <1>8, <2>1
<1>11. seqs \in Seq(Seq(S)) /\ Len(seqs) = n
  <2>1. \A i \in 1..n : c[i].extrinsics \in Seq(S)
    <3>1. \A i \in 1..n : i \in 1..(n + 1)
      BY <1>1
    <3> QED
      BY <1>3, <1>8, <3>1
  <2>2. seqs \in [1..n -> Seq(S)]
    BY <1>9, <2>1
  <2> QED
    BY <1>1, <2>2
<1>12. more = Append(seqs, x)
  <2>1. PICK e : e = Append(seqs, x)
    OBVIOUS
  <2>2. IsChain(seqs)
    BY <1>11 DEF IsChain
  <2>3. IsChain(e) /\ Len(e) = n + 1 /\ e[n + 1] = x /\ \A i \in 1..n : e[i] = seqs[i]
    BY <1>11, <2>1, <2>2, OneMoreBlock
  <2>4. e = [i \in 1..(n + 1) |-> e[i]]
    BY <2>3, ChainFacts
  <2>5. ASSUME NEW i \in 1..(n + 1) PROVE e[i] = d[i].extrinsics
    <3>1. CASE i = n + 1
      BY <1>2, <1>3, <2>3, <3>1
    <3>2. CASE i \in 1..n
      BY <1>3, <1>9, <2>3, <3>2
    <3> QED
      BY <1>5, <3>1, <3>2
  <2> QED
    BY <1>9, <2>1, <2>4, <2>5
<1>13. Extrinsics(c) = FlattenSeq(seqs) /\ Extrinsics(d) = FlattenSeq(more)
  BY <1>1, <1>4, <1>9 DEF Extrinsics
<1>14. FlattenSeq(seqs) \in Seq(S) /\ FlattenSeq(Append(seqs, x)) = FlattenSeq(seqs) \o x
  BY <1>10, <1>11, FlattenMore
<1>15. IsChain(Extrinsics(c))
  BY <1>13, <1>14 DEF IsChain
<1> QED
  BY <1>2, <1>6, <1>12, <1>13, <1>14, <1>15

\* Genesis has none.
LEMMA NoExtrinsics == Extrinsics(<<>>) = <<>>
<1>1. PICK e : e = [i \in DOMAIN <<>> |-> <<>>[i].extrinsics]
  OBVIOUS
<1>2. DOMAIN <<>> = 1..0
  OBVIOUS
<1>3. e \in Seq({}) /\ Len(e) = 0
  <2>1. e \in [1..0 -> {}]
    <3>1. 1..0 = {}
      OBVIOUS
    <3> QED
      BY <1>1, <1>2, <3>1
  <2> QED
    BY <2>1
<1>4. e = <<>>
  BY <1>3, EmptyChain DEF IsChain
<1>5. FlattenSeq(e) = e
  BY <1>3, FlattenByParts
<1> QED
  BY <1>1, <1>4, <1>5 DEF Extrinsics

\* An extrinsic on a chain is in one of its blocks, and there are finitely many.
LEMMA ExtrinsicInBlock ==
    ASSUME NEW c, IsChain(c), BlocksHold(c)
    PROVE  /\ IsFiniteSet(OnChain(c))
           /\ \A tx \in OnChain(c) : \E i \in 1..Len(c) : tx \in ToSet(c[i].extrinsics)
<1>1. PICK n \in Nat : n = Len(c)
  BY ChainFacts
<1> DEFINE Found(k) == \A tx \in OnChain(SubSeq(c, 1, k)) :
                          \E i \in 1..k : tx \in ToSet(c[i].extrinsics)
           Sound(k) == /\ IsChain(SubSeq(c, 1, k)) /\ BlocksHold(SubSeq(c, 1, k))
                       /\ IsChain(Extrinsics(SubSeq(c, 1, k))) /\ Found(k)
           T == {k \in 0..n : Sound(k)}
<1>2. 0 \in T
  <2>1. SubSeq(c, 1, 0) = <<>>
    <3>1. 0 \in 0..Len(c)
      BY <1>1
    <3>2. IsChain(SubSeq(c, 1, 0)) /\ Len(SubSeq(c, 1, 0)) = 0
      BY <3>1, FirstBlocks
    <3> QED
      BY <3>2, EmptyChain
  <2>2. OnChain(<<>>) = {}
    BY NoExtrinsics DEF OnChain, ToSet
  <2>3. IsChain(<<>>) /\ BlocksHold(<<>>) /\ IsChain(Extrinsics(<<>>))
    BY NoExtrinsics, EmptyChain DEF BlocksHold
  <2>4. OnChain(SubSeq(c, 1, 0)) = {}
    BY <2>1, <2>2, Zenon
  <2>5. Found(0)
    BY <2>4
  <2>6. Sound(0)
    BY <2>1, <2>3, <2>5, Zenon
  <2>7. 0 \in 0..n
    BY <1>1
  <2> HIDE DEF Sound
  <2> QED
    BY <2>6, <2>7
<1>3. ASSUME NEW k \in 0..(n - 1), k \in T PROVE k + 1 \in T
  <2>1. k \in Nat /\ k < Len(c) /\ k + 1 \in 1..n /\ k + 1 \in 0..n /\ k + 1 \in 1..(k + 1)
        /\ 1..k \subseteq 1..(k + 1)
    BY <1>1, <1>3
  <2>2. PICK a, block : a = SubSeq(c, 1, k) /\ block = c[k + 1]
    OBVIOUS
  <2>3. SubSeq(c, 1, k + 1) = Append(a, block)
    BY <2>1, <2>2, NextBlock
  <2>4. /\ IsChain(a) /\ BlocksHold(a) /\ IsChain(Extrinsics(a))
        /\ \A tx \in OnChain(a) : \E i \in 1..k : tx \in ToSet(c[i].extrinsics)
    BY <1>3, <2>2
  <2>5. IsChain(block.extrinsics)
    BY <1>1, <2>1, <2>2 DEF BlocksHold
  <2>6. /\ BlocksHold(Append(a, block)) /\ IsChain(Append(a, block))
        /\ Extrinsics(Append(a, block)) = Extrinsics(a) \o block.extrinsics
    BY <2>4, <2>5, MoreExtrinsics, OneMoreBlock
  <2>7. PICK p, q, r : p = Extrinsics(a) /\ q = block.extrinsics /\ r = p \o q
    OBVIOUS
  <2>8. IsChain(r) /\ \A tx \in ToSet(r) : tx \in ToSet(p) \/ tx \in ToSet(q)
    BY <2>4, <2>5, <2>7, JoinedChains
  <2>9. ASSUME NEW tx \in OnChain(Append(a, block))
        PROVE  \E i \in 1..(k + 1) : tx \in ToSet(c[i].extrinsics)
    <3>1. tx \in OnChain(a) \/ tx \in ToSet(c[k + 1].extrinsics)
      BY <2>2, <2>6, <2>7, <2>8 DEF OnChain
    <3> QED
      BY <2>1, <2>4, <3>1
  <2>10. Sound(k + 1)
    BY <2>3, <2>6, <2>7, <2>8, <2>9
  <2> HIDE DEF Sound
  <2> QED
    BY <2>1, <2>10
<1>4. Sound(n)
  <2>1. \A i \in 0..n : i \in T
    <3> HIDE DEF T
    <3> QED
      BY <1>2, <1>3, UpTo
  <2>2. n \in 0..n
    BY <1>1
  <2> HIDE DEF Sound
  <2> QED
    BY <2>1, <2>2
<1>5. SubSeq(c, 1, n) = c
  BY <1>1, WholeChain
<1>6. \A tx \in OnChain(c) : \E i \in 1..Len(c) : tx \in ToSet(c[i].extrinsics)
  BY <1>1, <1>4, <1>5
<1>7. IsFiniteSet(OnChain(c))
  <2>1. IsChain(Extrinsics(c))
    BY <1>4, <1>5
  <2> QED
    BY <2>1, FiniteElements DEF OnChain
<1> QED
  BY <1>6, <1>7

-----------------------------------------------------------------------------
(* Eras *)

\* Division and remainder.
LEMMA Division ==
    ASSUME NEW x \in Nat, NEW p \in Nat, p > 0
    PROVE  /\ x \div p \in Nat /\ (x \div p) * p <= x /\ x < (x \div p) * p + p
           /\ x % p \in 0..(p - 1)
<1>1. x \div p \in Int
  OBVIOUS
<1>2. (x \div p) * p <= x /\ x < (x \div p) * p + p
  OBVIOUS
<1>3. x % p \in 0..(p - 1)
  OBVIOUS
<1>4. PICK q \in Int : q = x \div p /\ q * p <= x /\ x < q * p + p
  BY <1>1, <1>2
<1>5. q >= 0
  <2>1. q < 0 => q * p <= -p
    OBVIOUS
  <2> QED
    BY <1>4, <2>1
<1> QED
  BY <1>2, <1>3, <1>4, <1>5

\* The greater of two numbers.
LEMMA MaxOfTwo ==
    ASSUME NEW a \in Int, NEW b \in Int
    PROVE  Max({a, b}) = IF a >= b THEN a ELSE b
<1>1. PICK m : m = Max({a, b})
  OBVIOUS
<1>2. \E x \in {a, b} : \A y \in {a, b} : x >= y
  OBVIOUS
<1>3. m \in {a, b} /\ \A y \in {a, b} : m >= y
  BY <1>1, <1>2 DEF Max
<1> QED
  BY <1>1, <1>3

\* What the tools sign: an era of the chain's period, an account and a call.
Signed(tx) ==
    /\ tx.era.period = MortalPeriod /\ tx.era.phase \in 0..(MortalPeriod - 1)
    /\ tx.signer \in Keyring /\ tx.call \in Call

\* The era of an extrinsic that applies on a chain was born on that chain, less
\* than a period ago.
LEMMA EraWindow ==
    ASSUME NEW chain, IsChain(chain), NEW tx, Signed(tx), CheckEra(chain, tx)
    PROVE  /\ IsChain(tx.checkpoint) /\ IsPrefix(tx.checkpoint, chain)
           /\ Len(chain) + 1 < Len(tx.checkpoint) + MortalPeriod
<1>1. PICK n \in Nat : n = Len(chain)
  BY ChainFacts
<1>2. PICK p \in Nat, ph \in Nat : /\ p = MortalPeriod /\ p >= 4 /\ tx.era.period = p
                                   /\ ph = tx.era.phase /\ ph < p
  BY RuntimeAssumption DEF Signed
<1>3. PICK birth : birth = EraBirth(tx.era, n + 1) /\ birth <= n
                   /\ SubSeq(chain, 1, birth) = tx.checkpoint
  BY <1>1 DEF CheckEra
<1>4. PICK from \in Nat : from = Max({n + 1, ph}) /\ from >= ph /\ from >= n + 1
                          /\ (from = n + 1 \/ from = ph)
  <2>1. PICK m \in Nat : m = IF n + 1 >= ph THEN n + 1 ELSE ph
    BY <1>1, <1>2
  <2>2. Max({n + 1, ph}) = m
    BY <1>1, <1>2, <2>1, MaxOfTwo
  <2> QED
    BY <1>1, <1>2, <2>1, <2>2
<1>5. PICK x \in Nat : x = from - ph
  BY <1>2, <1>4
<1>6. birth = (x \div p) * p + ph
  BY <1>2, <1>3, <1>4, <1>5 DEF EraBirth
<1>7. PICK q \in Nat : q = x \div p /\ q * p <= x /\ x < q * p + p
  BY <1>2, <1>5, Division
<1>8. PICK w \in Nat : w = q * p
  BY <1>2, <1>7
<1>9. birth = w + ph /\ w <= x /\ x < w + p
  BY <1>6, <1>7, <1>8
<1>10. birth \in 0..n /\ n + 1 < birth + p
  <2>1. w + ph <= n /\ w <= from - ph /\ from - ph < w + p
    BY <1>3, <1>5, <1>9
  <2>3. w + ph \in 0..n
    BY <1>1, <1>2, <1>8, <2>1
  <2>4. from < w + ph + p /\ n + 1 <= from
    BY <1>2, <1>4, <1>8, <2>1
  <2>2. w + ph \in 0..n /\ n + 1 < w + ph + p
    BY <1>1, <1>2, <1>4, <1>8, <2>3, <2>4
  <2> QED
    BY <1>9, <2>2
<1>11. PICK k, a : k \in 0..Len(chain) /\ k = birth /\ a = SubSeq(chain, 1, k)
  BY <1>1, <1>10
<1>12. IsChain(a) /\ Len(a) = k /\ \A i \in 1..k : a[i] = chain[i]
  BY <1>11, FirstBlocks
<1>13. IsPrefix(a, chain)
  <2>1. Len(a) <= Len(chain)
    BY <1>1, <1>11, <1>12
  <2> QED
    BY <1>12, <2>1, PrefixBlocks
<1>14. a = tx.checkpoint
  BY <1>3, <1>11
<1> QED
  BY <1>1, <1>2, <1>10, <1>11, <1>12, <1>13, <1>14

\* The blocks of a chain hold sequences of signed extrinsics, each on the branch it
\* was signed for and within its period.
Timely(c) ==
    \A i \in 1..Len(c) :
        /\ IsChain(c[i].extrinsics)
        /\ \A tx \in ToSet(c[i].extrinsics) :
            /\ Signed(tx) /\ IsPrefix(tx.checkpoint, SubSeq(c, 1, i - 1))
            /\ i < Len(tx.checkpoint) + MortalPeriod

\* A block of extrinsics that pass CheckEra.
LEMMA TimelyMore ==
    ASSUME NEW c, IsChain(c), Timely(c), NEW block, IsChain(block.extrinsics),
           \A tx \in ToSet(block.extrinsics) : Signed(tx) /\ CheckEra(c, tx)
    PROVE  Timely(Append(c, block))
<1>1. PICK n \in Nat : n = Len(c)
  BY ChainFacts
<1>2. PICK d : d = Append(c, block)
  OBVIOUS
<1>3. /\ IsChain(d) /\ Len(d) = n + 1 /\ d[n + 1] = block
      /\ \A i \in 1..n : d[i] = c[i]
  BY <1>1, <1>2, OneMoreBlock
<1>4. ASSUME NEW k \in 0..n PROVE SubSeq(d, 1, k) = SubSeq(c, 1, k)
  <2>1. k \in 0..Len(c) /\ k \in 0..Len(d) /\ \A i \in 1..k : i \in 1..n
    BY <1>1, <1>3
  <2>2. PICK a, b : a = SubSeq(d, 1, k) /\ b = SubSeq(c, 1, k)
    OBVIOUS
  <2>3. IsChain(a) /\ Len(a) = k /\ \A i \in 1..k : a[i] = d[i]
    BY <1>3, <2>1, <2>2, FirstBlocks
  <2>4. IsChain(b) /\ Len(b) = k /\ \A i \in 1..k : b[i] = c[i]
    BY <2>1, <2>2, FirstBlocks
  <2>5. \A i \in 1..k : a[i] = b[i]
    BY <1>3, <2>1, <2>3, <2>4
  <2>6. a = b
    BY <2>3, <2>4, <2>5, ChainEqual
  <2> QED
    BY <2>2, <2>6
<1>5. SubSeq(c, 1, n) = c
  BY <1>1, WholeChain
<1>6. ASSUME NEW i \in 1..(n + 1)
      PROVE  /\ IsChain(d[i].extrinsics)
             /\ \A tx \in ToSet(d[i].extrinsics) :
                  /\ Signed(tx) /\ IsPrefix(tx.checkpoint, SubSeq(d, 1, i - 1))
                  /\ i < Len(tx.checkpoint) + MortalPeriod
  <2>1. i - 1 \in 0..n
    BY <1>1
  <2>2. SubSeq(d, 1, i - 1) = SubSeq(c, 1, i - 1)
    BY <1>4, <2>1
  <2>3. CASE i = n + 1
    <3>1. SubSeq(d, 1, i - 1) = c
      <4>1. i - 1 = n
        BY <1>1, <2>3
      <4> QED
        BY <1>5, <2>2, <4>1
    <3>2. ASSUME NEW tx \in ToSet(block.extrinsics)
          PROVE  /\ Signed(tx) /\ IsPrefix(tx.checkpoint, c)
                 /\ n + 1 < Len(tx.checkpoint) + MortalPeriod
      BY <1>1, <3>2, EraWindow
    <3> QED
      BY <1>3, <2>3, <3>1, <3>2
  <2>4. CASE i # n + 1
    <3>1. i \in 1..n
      BY <1>1, <2>4
    <3> QED
      BY <1>1, <1>3, <2>2, <3>1 DEF Timely
  <2> QED
    BY <2>3, <2>4
<1> QED
  BY <1>2, <1>3, <1>6 DEF Timely

-----------------------------------------------------------------------------
(* Blocks, pools and calls *)

AllTimely == \A c \in Blocks : Timely(c)
PoolsSigned == \A n \in Nodes : IsFiniteSet(pool[n]) /\ \A tx \in pool[n] : Signed(tx)

\* What is known of a call of signAndSend.
CallOk(x) ==
    /\ x = [phase |-> x.phase, tx |-> x.tx, watch |-> x.watch, report |-> x.report]
    /\ x.phase = "signed" => Signed(x.tx)
CallsOk == calls = [k \in Caller |-> calls[k]] /\ \A k \in Caller : CallOk(calls[k])

\* Chains of timely blocks hold sequences of extrinsics.
LEMMA TimelyHolds ==
    ASSUME NEW c, Timely(c)
    PROVE  BlocksHold(c)
  BY DEF Timely, BlocksHold

\* The extrinsics of a chain are signed and finitely many.
LEMMA OnChainSigned ==
    ASSUME NEW c, IsChain(c), Timely(c)
    PROVE  IsFiniteSet(OnChain(c)) /\ \A tx \in OnChain(c) : Signed(tx)
<1>1. /\ IsFiniteSet(OnChain(c))
      /\ \A tx \in OnChain(c) : \E i \in 1..Len(c) : tx \in ToSet(c[i].extrinsics)
  BY TimelyHolds, ExtrinsicInBlock
<1>2. \A i \in 1..Len(c) : \A tx \in ToSet(c[i].extrinsics) : Signed(tx)
  BY DEF Timely
<1> QED
  BY <1>1, <1>2

\* A proposal is a sequence of extrinsics of the pool that apply one after the other.
LEMMA ProposalFacts ==
    ASSUME NEW n \in Nodes, PoolsSigned, NEW txs \in Proposals(n)
    PROVE  /\ IsChain(txs) /\ ToSet(txs) \subseteq pool[n]
           /\ AllApply(BestState(n), Best(n), txs)
<1>1. PICK s \in SUBSET pool[n] : txs \in SetToSeqs(s)
  BY DEF Proposals
<1>2. IsFiniteSet(s)
  BY <1>1, FS_Subset DEF PoolsSigned
<1>3. PICK k \in Nat : k = Cardinality(s)
  BY <1>2, FS_CardinalityType
<1>4. txs \in [1..k -> s]
  BY <1>1, <1>3 DEF SetToSeqs
<1>5. txs \in Seq(s)
  BY <1>3, <1>4
<1>6. ToSet(txs) \subseteq s
  BY <1>4 DEF ToSet
<1>7. AllApply(BestState(n), Best(n), txs)
  BY DEF Proposals
<1> QED
  BY <1>1, <1>5, <1>6, <1>7 DEF IsChain

\* Every extrinsic of an authored block passes CheckEra on its parent.
LEMMA AuthoredTimely ==
    ASSUME Forest, AllTimely, PoolsSigned, NEW n \in Nodes, NEW block,
           block.extrinsics \in Proposals(n)
    PROVE  Timely(Append(Best(n), block)) /\ IsChain(block.extrinsics)
<1>1. PICK txs : txs = block.extrinsics
  OBVIOUS
<1>2. IsChain(txs) /\ ToSet(txs) \subseteq pool[n] /\ AllApply(BestState(n), Best(n), txs)
  BY <1>1, ProposalFacts
<1>3. IsChain(Best(n)) /\ Best(n) \in Blocks
  BY TreeChains DEF Forest, Best, Blocks
<1>4. ASSUME NEW tx \in ToSet(txs) PROVE Signed(tx) /\ CheckEra(Best(n), tx)
  <2>1. PICK i \in DOMAIN txs : tx = txs[i]
    BY DEF ToSet
  <2>2. CheckEra(Best(n), txs[i])
    BY <1>2, <2>1 DEF AllApply, Applies
  <2> QED
    BY <1>2, <2>1, <2>2 DEF PoolsSigned
<1>5. Timely(Append(Best(n), block))
  BY <1>1, <1>2, <1>3, <1>4, TimelyMore DEF AllTimely
<1> QED
  BY <1>1, <1>2, <1>5

\* Every block that appears is timely.
LEMMA BlocksTimely ==
    ASSUME Forest, AllTimely, PoolsSigned, [GlueNext]_glueVars
    PROVE  AllTimely'
<1>1. DbStep
  BY EveryDbStep
<1>2. \A c \in Blocks' : Timely(c)
  <2>1. CASE Blocks' \subseteq Blocks
    BY <2>1 DEF AllTimely
  <2>2. ASSUME NEW n \in Nodes, NEW block, AuthorsBlock(n, block),
               Blocks' \subseteq Blocks \cup {Append(Best(n), block)}
        PROVE  \A c \in Blocks' : Timely(c)
    <3>1. Timely(Append(Best(n), block))
      BY <2>2, AuthoredTimely DEF AuthorsBlock
    <3> QED
      BY <2>2, <3>1 DEF AllTimely
  <2> QED
    BY <1>1, <2>1, <2>2, BlocksOrigin
<1> QED
  BY <1>2 DEF AllTimely

\* What a pool may keep.
LEMMA KeptBefore ==
    ASSUME NEW n, NEW best, NEW tx, NEW kept
    PROVE  /\ kept \in Maintained(n, best) => kept \subseteq pool[n] \cup OnChain(Best(n))
           /\ kept \in Added(n, tx) => kept \subseteq pool[n] \cup {tx}
  BY DEF Maintained, Added, Limited

\* The pool of n comes to hold only what waited, was on its best chain, or is tx.
Keeps(n) ==
    \E kept : kept \subseteq pool[n] \cup OnChain(Best(n)) /\ pool' = [pool EXCEPT ![n] = kept]
Receives(n, tx) ==
    \E kept : kept \subseteq pool[n] \cup {tx} /\ pool' = [pool EXCEPT ![n] = kept]

\* What a step of the nodes does to the pools.
LEMMA PoolSteps ==
    ASSUME NodeNext
    PROVE  \/ pool' = pool
           \/ \E m, n \in Nodes : \E tx \in pool[m] : Receives(n, tx)
           \/ \E n \in Nodes : Keeps(n)
<1>0. ASSUME NEW n \in Nodes, NEW best, NEW kept \in Maintained(n, best),
             pool' = [pool EXCEPT ![n] = kept]
      PROVE  Keeps(n)
  BY <1>0, KeptBefore DEF Keeps
<1>1. ASSUME NEW n \in Nodes, Author(n) PROVE Keeps(n)
  BY <1>0, <1>1 DEF Author, ImportBlock
<1>2. ASSUME NEW n \in Nodes, NEW m, NEW c, Import(m, n, c) PROVE Keeps(n)
  BY <1>0, <1>2 DEF Import, ImportBlock
<1>3. ASSUME NEW n \in Nodes, NEW m, NEW r, NEW b,
             ImportJustification(m, n) \/ FinalizeCommit(n, r, b)
      PROVE  Keeps(n)
  BY <1>0, <1>3 DEF ImportJustification, FinalizeCommit, FinalizeBlock
<1>4. ASSUME NEW n \in Nodes, NEW m \in Nodes, NEW tx, Gossip(m, n, tx)
      PROVE  tx \in pool[m] /\ Receives(n, tx)
  <2>1. PICK kept \in Added(n, tx) : pool' = [pool EXCEPT ![n] = kept]
    BY <1>4 DEF Gossip
  <2> QED
    BY <1>4, <2>1, KeptBefore DEF Gossip, Receives
<1>5. ASSUME NEW n \in Nodes, Stop(n) PROVE Keeps(n)
  BY <1>5 DEF Stop, Keeps
<1>6. ASSUME NEW n \in Nodes,
             Start(n) \/ PurgeChain(n) \/ (\E k : Revert(n, k)) \/ (\E m : ImportBlocks(m, n))
      PROVE  pool' = pool
  BY <1>6 DEF Start, PurgeChain, Revert, ImportBlocks, OpenCommand, Command
<1>7. ASSUME NEW n \in Nodes, NEW b, NEW votes,
             NextSlot \/ Precommit(n, b) \/ NextRound(n, votes, b)
      PROVE  pool' = pool
  BY <1>7 DEF NextSlot, Precommit, NextRound
<1>8. NextSlot => pool' = pool
  BY DEF NextSlot
<1> QED
  BY <1>1, <1>2, <1>3, <1>4, <1>5, <1>6, <1>7, <1>8 DEF NodeNext

\* Whatever enters a pool is signed.
LEMMA PoolsStaySigned ==
    ASSUME Forest, Service, AllTimely, PoolsSigned, CallsOk, [GlueNext]_glueVars
    PROVE  PoolsSigned'
<1>1. ASSUME NEW n \in Nodes, NEW new, pool' = [pool EXCEPT ![n] = new],
             IsFiniteSet(new), \A tx \in new : Signed(tx)
      PROVE  PoolsSigned'
  <2>1. pool'[n] = new /\ \A k \in Nodes \ {n} : pool'[k] = pool[k]
    BY <1>1 DEF Service
  <2> QED
    BY <1>1, <2>1 DEF PoolsSigned
<1>2. CASE pool' = pool
  BY <1>2 DEF PoolsSigned
<1>3. ASSUME NEW n \in Nodes, NEW tx, Signed(tx), Receives(n, tx)
      PROVE  PoolsSigned'
  <2>1. PICK kept : kept \subseteq pool[n] \cup {tx} /\ pool' = [pool EXCEPT ![n] = kept]
    BY <1>3 DEF Receives
  <2>2. IsFiniteSet(pool[n] \cup {tx}) /\ \A t \in pool[n] \cup {tx} : Signed(t)
    BY <1>3, FS_AddElement DEF PoolsSigned
  <2>3. IsFiniteSet(kept)
    BY <2>1, <2>2, FS_Subset
  <2> QED
    BY <1>1, <2>1, <2>2, <2>3
<1>4. ASSUME NEW n \in Nodes, Keeps(n) PROVE PoolsSigned'
  <2>1. IsChain(Best(n)) /\ Best(n) \in Blocks
    BY TreeChains DEF Forest, Best, Blocks
  <2>2. IsFiniteSet(OnChain(Best(n))) /\ \A tx \in OnChain(Best(n)) : Signed(tx)
    BY <2>1, OnChainSigned DEF AllTimely
  <2>3. PICK kept : kept \subseteq pool[n] \cup OnChain(Best(n)) /\ pool' = [pool EXCEPT ![n] = kept]
    BY <1>4 DEF Keeps
  <2>4. IsFiniteSet(pool[n]) /\ \A tx \in pool[n] : Signed(tx)
    BY DEF PoolsSigned
  <2>5. IsFiniteSet(pool[n] \cup OnChain(Best(n)))
    BY <2>2, <2>4, FS_Union
  <2>6. IsFiniteSet(kept)
    BY <2>3, <2>5, FS_Subset
  <2> QED
    BY <1>1, <2>2, <2>3, <2>4, <2>6
<1>5. CASE NodesStep
  <2>1. ASSUME NEW m \in Nodes, NEW n \in Nodes, NEW tx \in pool[m], Receives(n, tx)
        PROVE  PoolsSigned'
    <3>1. Signed(tx)
      BY <2>1 DEF PoolsSigned
    <3> QED
      BY <1>3, <2>1, <3>1
  <2> QED
    BY <1>2, <1>4, <1>5, <2>1, PoolSteps DEF NodesStep
<1>6. ASSUME NEW c \in Caller, calls[c].phase = "signed",
             NEW kept \in Added(Rpc, calls[c].tx), pool' = [pool EXCEPT ![Rpc] = kept]
      PROVE  PoolsSigned'
  <2>1. Signed(calls[c].tx) /\ Rpc \in Nodes
    BY <1>6, GlueAssumption DEF CallsOk, CallOk
  <2>2. Receives(Rpc, calls[c].tx)
    BY <1>6, KeptBefore DEF Receives
  <2> QED
    BY <1>3, <2>1, <2>2
<1> QED
  BY <1>2, <1>5, <1>6, ToolSteps

\* The pool's report leaves the extrinsic and the phase of a call alone.
LEMMA WatchedOk ==
    ASSUME NEW x, CallOk(x)
    PROVE  CallOk(Watched(x))
<1>1. PICK ph, tx, w, rep : x = [phase |-> ph, tx |-> tx, watch |-> w, report |-> rep]
  BY DEF CallOk
<1>2. x.phase = ph /\ x.tx = tx /\ (ph = "signed" => Signed(tx))
  BY <1>1 DEF CallOk
<1>3. PICK y : y = Watched(x)
  OBVIOUS
<1>4. \E v, r : y = [phase |-> ph, tx |-> tx, watch |-> v, report |-> r]
  <2>1. \/ y = x \/ y = [x EXCEPT !.watch = FALSE, !.report = <<>>]
        \/ y = [x EXCEPT !.report = BlockOf(x.tx, db'[Rpc].best)]
        \/ y = [x EXCEPT !.watch = FALSE]
    BY <1>3 DEF Watched
  <2> QED
    BY <1>1, <2>1
<1>5. PICK v, r : y = [phase |-> ph, tx |-> tx, watch |-> v, report |-> r]
  BY <1>4
<1>6. y.phase = ph /\ y.tx = tx /\ y.watch = v /\ y.report = r
  BY <1>5
<1>7. CallOk(y)
  BY <1>2, <1>5, <1>6 DEF CallOk
<1> QED
  BY <1>3, <1>7

\* A call with a new phase, when it is not signed again.
LEMMA PhaseOk ==
    ASSUME NEW x, CallOk(x), NEW phase, phase # "signed", NEW y,
           \/ y = [x EXCEPT !.phase = phase] \/ y = [x EXCEPT !.phase = phase, !.watch = TRUE]
           \/ y = [x EXCEPT !.phase = phase, !.watch = FALSE]
    PROVE  CallOk(y)
<1>1. PICK ph, tx, w, rep : x = [phase |-> ph, tx |-> tx, watch |-> w, report |-> rep]
  BY DEF CallOk
<1>2. PICK v : y = [phase |-> phase, tx |-> tx, watch |-> v, report |-> rep]
  BY <1>1
<1>3. y.phase = phase /\ y.tx = tx /\ y.watch = v /\ y.report = rep
  BY <1>2
<1> QED
  BY <1>2, <1>3 DEF CallOk

\* polkadot-js signs what the script says, at a block of Rpc.
LEMMA SignedOk ==
    ASSUME Forest, Service, NEW c \in Caller, c \in Started, NEW nonce,
           NEW anchor \in {Finalized(Rpc), Best(Rpc)}, NEW tx,
           tx = SignedExtrinsic(anchor, budget.script[c].signer, budget.script[c].call, nonce)
    PROVE  Signed(tx)
<1>1. Len(anchor) \in Nat
  BY GlueAssumption, TreeChains, ChainFacts DEF Forest, Best, Finalized
<1>2. Len(anchor) % MortalPeriod \in 0..(MortalPeriod - 1)
  <2>1. MortalPeriod \in Nat /\ MortalPeriod > 0
    BY RuntimeAssumption
  <2> QED
    BY <1>1, <2>1, Division
<1>3. PICK era : era = EraMortal(Len(anchor)) /\ era.period = MortalPeriod
                 /\ era.phase = Len(anchor) % MortalPeriod
  <2>1. PICK len : len = Len(anchor) % MortalPeriod
    OBVIOUS
  <2>2. PICK era : era = [period |-> MortalPeriod, phase |-> len]
    OBVIOUS
  <2>3. era.period = MortalPeriod /\ era.phase = len
    BY <2>2
  <2> QED
    BY <2>1, <2>2, <2>3 DEF EraMortal
<1>4. PICK r : r = budget.script[c] /\ r \in [signer : Keyring, call : Call]
  <2>1. PICK S, script : S = [signer : Keyring, call : Call] /\ script = budget.script
    OBVIOUS
  <2>2. script \in Seq(S)
    BY <2>1 DEF Service, BudgetType
  <2>3. c \in 1..Len(script)
    BY <2>1 DEF Started
  <2>4. script[c] \in S
    BY <2>2, <2>3
  <2> QED
    BY <2>1, <2>4
<1>5. tx.era = era /\ tx.signer = r.signer /\ tx.call = r.call
  BY <1>3, <1>4 DEF SignedExtrinsic
<1>6. r.signer \in Keyring /\ r.call \in Call
  BY <1>4
<1> QED
  BY <1>2, <1>3, <1>5, <1>6 DEF Signed

\* Every step of nodes and tools keeps what is known of the calls.
LEMMA CallsKept ==
    ASSUME Forest, Service, CallsOk, [GlueNext]_glueVars
    PROVE  CallsOk'
<1>0. DOMAIN calls = Caller /\ \A k \in Caller : CallOk(calls[k])
  BY DEF CallsOk
<1>1. ASSUME calls' = [k \in Caller |-> calls'[k]],
             \A k \in Caller : calls'[k] = calls[k] \/ CallOk(calls'[k])
      PROVE  CallsOk'
  <2>1. \A k \in Caller : CallOk(calls'[k])
    BY <1>0, <1>1
  <2>2. \A k \in Caller : CallOk(calls[k])'
    BY <2>1 DEF CallOk
  <2> QED
    BY <1>1, <2>2 DEF CallsOk
<1>2. CASE NodesStep
  <2>1. calls' = [k \in Caller |-> Watched(calls[k])]
    BY <1>2 DEF NodesStep
  <2>2. \A k \in Caller : CallOk(calls'[k])
    BY <1>0, <2>1, WatchedOk
  <2> QED
    BY <1>1, <2>1, <2>2
<1>3. ASSUME NEW c \in Caller, Sign(c) PROVE CallsOk'
  <2>1. PICK anchor \in {Finalized(Rpc), Best(Rpc)}, nonce \in Nonces(c, budget.script[c].signer) :
          calls' = [calls EXCEPT ![c].phase = "signed",
                      ![c].tx = SignedExtrinsic(anchor, budget.script[c].signer,
                                                budget.script[c].call, nonce)]
    BY <1>3 DEF Sign
  <2>2. PICK tx :
          tx = SignedExtrinsic(anchor, budget.script[c].signer, budget.script[c].call, nonce)
    OBVIOUS
  <2>3. Signed(tx)
    BY <1>3, <2>1, <2>2, SignedOk DEF Sign
  <2>4. calls' = [calls EXCEPT ![c].phase = "signed", ![c].tx = tx]
    BY <2>1, <2>2
  <2>5. /\ calls' = [k \in Caller |-> calls'[k]]
        /\ \A k \in Caller \ {c} : calls'[k] = calls[k]
        /\ calls'[c] = [calls[c] EXCEPT !.phase = "signed", !.tx = tx]
    BY <1>0, <2>4
  <2>6. PICK w, rep : calls'[c] = [phase |-> "signed", tx |-> tx, watch |-> w, report |-> rep]
    <3>1. PICK x : x = calls[c]
      OBVIOUS
    <3>2. x = [phase |-> x.phase, tx |-> x.tx, watch |-> x.watch, report |-> x.report]
      BY <1>0, <3>1 DEF CallOk
    <3> QED
      BY <2>5, <3>1, <3>2
  <2>7. CallOk(calls'[c])
    <3>1. PICK y : y = calls'[c]
      OBVIOUS
    <3>2. y.phase = "signed" /\ y.tx = tx /\ y.watch = w /\ y.report = rep
      BY <2>6, <3>1
    <3>3. CallOk(y)
      BY <2>3, <2>6, <3>1, <3>2 DEF CallOk
    <3> QED
      BY <3>1, <3>3
  <2> QED
    BY <1>1, <2>5, <2>7
<1>4. ASSUME NEW c \in Caller, Submit(c) PROVE CallsOk'
  <2>1. CASE calls' = [d \in Caller |->
                         IF d = c THEN [calls[c] EXCEPT !.phase = "sent", !.watch = TRUE]
                         ELSE Watched(calls[d])]
    <3>1. calls'[c] = [calls[c] EXCEPT !.phase = "sent", !.watch = TRUE]
      BY <2>1
    <3>2. CallOk(calls'[c])
      BY <1>0, <3>1, PhaseOk
    <3>3. \A k \in Caller \ {c} : CallOk(calls'[k])
      BY <1>0, <2>1, WatchedOk
    <3>4. calls' = [k \in Caller |-> calls'[k]]
      BY <2>1
    <3> QED
      BY <1>1, <3>2, <3>3, <3>4
  <2>2. CASE calls' = [calls EXCEPT ![c].phase = "rejected"]
    <3>1. /\ calls' = [k \in Caller |-> calls'[k]]
          /\ \A k \in Caller \ {c} : calls'[k] = calls[k]
          /\ calls'[c] = [calls[c] EXCEPT !.phase = "rejected"]
      BY <1>0, <2>2
    <3>2. PICK x, y : x = calls[c] /\ y = calls'[c]
      OBVIOUS
    <3>3. CallOk(x) /\ y = [x EXCEPT !.phase = "rejected"]
      BY <1>0, <3>1, <3>2
    <3>4. CallOk(y)
      BY <3>3, PhaseOk
    <3> QED
      BY <1>1, <3>1, <3>2, <3>4
  <2> QED
    BY <1>4, <2>1, <2>2 DEF Submit
<1>5. ASSUME NEW c \in Caller, Callback(c) PROVE CallsOk'
  <2>1. PICK out : out = Outcome(calls[c].report, calls[c].tx)
    OBVIOUS
  <2>2. out # "signed"
    BY <2>1 DEF Outcome
  <2>3. calls' = [calls EXCEPT ![c].phase = out, ![c].watch = FALSE]
    BY <1>5, <2>1 DEF Callback
  <2>4. /\ calls' = [k \in Caller |-> calls'[k]]
        /\ \A k \in Caller \ {c} : calls'[k] = calls[k]
        /\ calls'[c] = [calls[c] EXCEPT !.phase = out, !.watch = FALSE]
    BY <1>0, <2>3
  <2>5. CallOk(calls'[c])
    BY <1>0, <2>2, <2>4, PhaseOk
  <2> QED
    BY <1>1, <2>4, <2>5
<1>6. CASE UNCHANGED calls
  BY <1>6 DEF CallsOk, CallOk
<1>7. WaitStart \/ WaitAnswer \/ WaitResume \/ WaitWake \/ UNCHANGED glueVars => UNCHANGED calls
  BY DEF WaitStart, WaitAnswer, WaitResume, WaitWake, glueVars
<1> QED
  BY <1>2, <1>3, <1>4, <1>5, <1>6, <1>7 DEF GlueNext

\* Extrinsics in blocks, in pools and in calls at the start.
LEMMA TimelyInit == GlueInit => AllTimely /\ PoolsSigned /\ CallsOk
<1> SUFFICES ASSUME GlueInit PROVE AllTimely /\ PoolsSigned /\ CallsOk
  OBVIOUS
<1>1. Blocks \subseteq {<<>>}
  <2>1. \A n \in Nodes : db[n].blocks = {<<>>}
    BY EmptyTree DEF GlueInit, NodeInit
  <2> QED
    BY <2>1 DEF Blocks
<1>2. Timely(<<>>)
  BY EmptyChain DEF Timely
<1>3. PoolsSigned
  BY FS_EmptySet DEF GlueInit, NodeInit, PoolsSigned
<1>4. CallOk(NoCall)
  <2>1. NoCall.phase = "idle" /\ NoCall.tx = None /\ NoCall.watch = FALSE /\ NoCall.report = <<>>
    BY DEF NoCall
  <2>2. NoCall = [phase |-> NoCall.phase, tx |-> NoCall.tx, watch |-> NoCall.watch,
                  report |-> NoCall.report]
    BY DEF NoCall
  <2> QED
    BY <2>1, <2>2 DEF CallOk
<1>5. CallsOk
  BY <1>4 DEF GlueInit, CallsOk
<1> QED
  BY <1>1, <1>2, <1>3, <1>5 DEF AllTimely

\* The inductive invariant about extrinsics.
Carried == Forest /\ Service /\ AllTimely /\ PoolsSigned /\ CallsOk

\* It holds at the start and is kept.
LEMMA CarriedAlways == (GlueInit => Carried) /\ (Carried /\ [GlueNext]_glueVars => Carried')
<1>1. GlueInit => Carried
  BY ForestInit, ServiceInit, TimelyInit DEF Carried
<1>2. ASSUME Carried, [GlueNext]_glueVars PROVE Carried'
  <2>1. Forest /\ Service /\ AllTimely /\ PoolsSigned /\ CallsOk
    BY <1>2 DEF Carried
  <2>2. DbStep /\ genesis' = genesis
    BY <1>2, <2>1, EveryDbStep
  <2>3. Forest' /\ Service'
    BY <1>2, <2>1, <2>2, ForestKept, ServiceKept
  <2>4. AllTimely'
    BY <1>2, <2>1, BlocksTimely
  <2>5. PoolsSigned'
    BY <1>2, <2>1, PoolsStaySigned
  <2>6. CallsOk'
    BY <1>2, <2>1, CallsKept
  <2> QED
    BY <2>3, <2>4, <2>5, <2>6 DEF Carried
<1> QED
  BY <1>1, <1>2

\* A mortal extrinsic is applied only on a branch with the block it was signed at
\* and within its period of it, on every branch of every node.
THEOREM ErasAlwaysRespected == GlueSpec => []EraRespected
<1>1. Carried => EraRespected
  <2> SUFFICES ASSUME Carried, NEW c \in Blocks, NEW i \in DOMAIN c,
                      NEW tx \in ToSet(c[i].extrinsics)
               PROVE  /\ IsPrefix(tx.checkpoint, SubSeq(c, 1, i - 1))
                      /\ i < Len(tx.checkpoint) + MortalPeriod
    BY DEF EraRespected
  <2>1. Timely(c) /\ IsChain(c)
    BY TreeChains DEF Carried, AllTimely, Forest, Blocks
  <2>2. i \in 1..Len(c)
    BY <2>1, ChainFacts
  <2> QED
    BY <2>1, <2>2 DEF Timely
<1> QED
  BY <1>1, CarriedAlways, PTL DEF GlueSpec

-----------------------------------------------------------------------------
(* Nonces and balances *)

\* The state an extrinsic is applied to, as a record.
Book(au, su, fr, he, no, pr, op) ==
    [authorities |-> au, sudo |-> su, free |-> fr, held |-> he, nonce |-> no,
     projects |-> pr, open |-> op]
IsBook(st, au, su, fr, he, no, pr, op) ==
    /\ st = Book(au, su, fr, he, no, pr, op)
    /\ fr \in [Keyring -> Int] /\ he \in [Keyring -> Int] /\ no \in [Keyring -> Nat]
Accounts(st) == IsBook(st, st.authorities, st.sudo, st.free, st.held, st.nonce, st.projects, st.open)

\* Nobody who signed something, or has money on hold, is below the deposit.
Alive(st) == \A a \in Keyring : st.nonce[a] > 0 \/ st.held[a] > 0
                                => st.free[a] >= EXISTENTIAL_DEPOSIT

\* The fields of a record.
LEMMA BookFields ==
    ASSUME NEW st, NEW au, NEW su, NEW fr, NEW he, NEW no, NEW pr, NEW op,
           IsBook(st, au, su, fr, he, no, pr, op)
    PROVE  /\ st.authorities = au /\ st.sudo = su /\ st.free = fr /\ st.held = he
           /\ st.nonce = no /\ st.projects = pr /\ st.open = op
           /\ Accounts(st)
  BY DEF IsBook, Book, Accounts

\* The fee is taken and the nonce counted.
LEMMA ChargedAccount ==
    ASSUME NEW st, Accounts(st), Alive(st), NEW s \in Keyring, NEW tx, tx.signer = s,
           CanPay(st, s), NEW y, y = Charged(st, tx)
    PROVE  /\ Accounts(y) /\ Alive(y)
           /\ y.nonce = [st.nonce EXCEPT ![s] = @ + 1]
           /\ y.free[s] >= EXISTENTIAL_DEPOSIT
<1>1. PICK au, su, fr, he, no, pr, op : IsBook(st, au, su, fr, he, no, pr, op)
  BY DEF Accounts
<1>2. st.free = fr /\ st.held = he /\ st.nonce = no
  BY <1>1, BookFields
<1>3. fr \in [Keyring -> Int] /\ he \in [Keyring -> Int] /\ no \in [Keyring -> Nat]
  BY <1>1 DEF IsBook
<1>4. PICK fr2, no2 : fr2 = [fr EXCEPT ![s] = @ - Fee] /\ no2 = [no EXCEPT ![s] = @ + 1]
  OBVIOUS
<1>5. Fee \in Nat /\ EXISTENTIAL_DEPOSIT \in Nat /\ fr[s] \in Int /\ fr[s] >= Fee + EXISTENTIAL_DEPOSIT
  BY <1>2, <1>3, RuntimeAssumption DEF CanPay
<1>6. PICK z : z = [st EXCEPT !.nonce[s] = @ + 1]
  OBVIOUS
<1>7. z = Book(au, su, fr, he, no2, pr, op)
  BY <1>1, <1>4, <1>6 DEF Book, IsBook
<1>8. y = [z EXCEPT !.free[s] = @ - Fee]
  BY <1>6 DEF Charged
<1>9. y = Book(au, su, fr2, he, no2, pr, op)
  BY <1>4, <1>7, <1>8 DEF Book
<1>10. fr2 \in [Keyring -> Int] /\ no2 \in [Keyring -> Nat]
  BY <1>3, <1>4, <1>5
<1>11. IsBook(y, au, su, fr2, he, no2, pr, op)
  BY <1>3, <1>9, <1>10 DEF IsBook
<1>12. y.free = fr2 /\ y.held = he /\ y.nonce = no2 /\ Accounts(y)
  BY <1>11, BookFields
<1>13. fr2[s] >= EXISTENTIAL_DEPOSIT
  BY <1>3, <1>4, <1>5
<1>14. \A a \in Keyring : a # s => fr2[a] = fr[a] /\ no2[a] = no[a]
  BY <1>3, <1>4
<1>15. Alive(y)
  BY <1>2, <1>12, <1>13, <1>14 DEF Alive
<1> QED
  BY <1>2, <1>4, <1>12, <1>13, <1>15

\* A refund only adds.
LEMMA RefundedAccount ==
    ASSUME NEW y, Accounts(y), Alive(y), NEW s \in Keyring, NEW r \in Nat,
           NEW x, x = [y EXCEPT !.free[s] = @ + r]
    PROVE  Accounts(x) /\ Alive(x) /\ x.nonce = y.nonce
<1>1. PICK au, su, fr, he, no, pr, op : IsBook(y, au, su, fr, he, no, pr, op)
  BY DEF Accounts
<1>2. y.free = fr /\ y.held = he /\ y.nonce = no
  BY <1>1, BookFields
<1>3. fr \in [Keyring -> Int] /\ he \in [Keyring -> Int] /\ no \in [Keyring -> Nat]
  BY <1>1 DEF IsBook
<1>4. PICK fr2 : fr2 = [fr EXCEPT ![s] = @ + r]
  OBVIOUS
<1>5. x = Book(au, su, fr2, he, no, pr, op)
  BY <1>1, <1>4 DEF Book, IsBook
<1>6. fr2 \in [Keyring -> Int]
  BY <1>3, <1>4
<1>7. IsBook(x, au, su, fr2, he, no, pr, op)
  BY <1>3, <1>5, <1>6 DEF IsBook
<1>8. x.free = fr2 /\ x.held = he /\ x.nonce = no /\ Accounts(x)
  BY <1>7, BookFields
<1>9. \A a \in Keyring : fr[a] \in Int /\ fr2[a] \in Int /\ fr2[a] >= fr[a]
  BY <1>3, <1>4
<1>10. EXISTENTIAL_DEPOSIT \in Nat
  BY RuntimeAssumption
<1>11. Alive(x)
  BY <1>2, <1>8, <1>9, <1>10 DEF Alive
<1> QED
  BY <1>2, <1>8, <1>11

\* Taking from a hold, half of it included, never starts one.
LEMMA HeldLess ==
    ASSUME NEW h \in Int
    PROVE  /\ h - BOND \in Int /\ (h - BOND > 0 => h > 0)
           /\ h - h \div 2 \in Int /\ (h - h \div 2 > 0 => h > 0)
  BY RuntimeAssumption

\* What a call that is accepted does: it spends no nonce and takes nobody's deposit.
LEMMA AcceptedCall ==
    ASSUME NEW y, Accounts(y), Alive(y), NEW tx, tx.signer \in Keyring, tx.call \in Call,
           Accepted(y, tx), NEW x, x = Effect(y, tx)
    PROVE  Accounts(x) /\ Alive(x) /\ x.nonce = y.nonce
<1>1. PICK au, su, fr, he, no, pr, op : IsBook(y, au, su, fr, he, no, pr, op)
  BY DEF Accounts
<1>2. /\ y.free = fr /\ y.held = he /\ y.nonce = no /\ y.projects = pr /\ y.open = op
  BY <1>1, BookFields
<1>3. fr \in [Keyring -> Int] /\ he \in [Keyring -> Int] /\ no \in [Keyring -> Nat]
  BY <1>1 DEF IsBook
<1>4. y = Book(au, su, fr, he, no, pr, op)
  BY <1>1 DEF IsBook
<1>5. /\ EXISTENTIAL_DEPOSIT \in Nat /\ STAKE \in Nat /\ BOND \in Nat
      /\ FUND \in Nat /\ FUND >= EXISTENTIAL_DEPOSIT
  BY RuntimeAssumption
<1>6. PICK dev \in Keyring, bld \in Keyring :
        dev = Developer /\ bld = Builder /\ dev # bld /\ Cast = {dev, bld}
  BY DEF Developer, Builder, Cast, Keyring
<1>7. ASSUME NEW fr2, NEW he2, NEW pr2, NEW op2, x = Book(au, su, fr2, he2, no, pr2, op2),
             fr2 \in [Keyring -> Int], he2 \in [Keyring -> Int],
             \A a \in Keyring : \/ fr2[a] >= EXISTENTIAL_DEPOSIT
                                \/ fr2[a] = fr[a] /\ he2[a] = he[a]
      PROVE  Accounts(x) /\ Alive(x) /\ x.nonce = y.nonce
  <2>1. IsBook(x, au, su, fr2, he2, no, pr2, op2)
    BY <1>3, <1>7 DEF IsBook
  <2>2. x.free = fr2 /\ x.held = he2 /\ x.nonce = no /\ Accounts(x)
    BY <2>1, BookFields
  <2>3. Alive(x)
    BY <1>2, <1>7, <2>2 DEF Alive
  <2> QED
    BY <1>2, <2>2, <2>3
<1>8. CASE tx.call = "forceSetBalance"
  <2>1. PICK fr2 : fr2 = [fr EXCEPT ![bld] = FUND]
    OBVIOUS
  <2>2. x = [y EXCEPT !.free[bld] = FUND]
    BY <1>6, <1>8 DEF Effect
  <2>3. x = Book(au, su, fr2, he, no, pr, op)
    BY <1>4, <2>1, <2>2 DEF Book
  <2>4. fr2 \in [Keyring -> Int]
    BY <1>3, <1>5, <1>6, <2>1
  <2>5. \A a \in Keyring : fr2[a] >= EXISTENTIAL_DEPOSIT \/ fr2[a] = fr[a]
    BY <1>3, <1>5, <1>6, <2>1
  <2> QED
    BY <1>3, <1>7, <2>3, <2>4, <2>5
<1>9. CASE tx.call = "projectGenesis"
  <2>1. PICK fr2, he2 :
          /\ fr2 = [a \in Keyring |-> fr[a] - (IF a \in Cast THEN STAKE ELSE 0)]
          /\ he2 = [a \in Keyring |-> he[a] + (IF a \in Cast THEN STAKE ELSE 0)]
    OBVIOUS
  <2>2. x = [[[y EXCEPT !.projects = @ + 1] EXCEPT !.free = fr2] EXCEPT !.held = he2]
    BY <1>4, <1>9, <2>1 DEF Effect, Book
  <2>3. x = Book(au, su, fr2, he2, no, pr + 1, op)
    BY <1>4, <2>2 DEF Book
  <2>4. fr2 \in [Keyring -> Int] /\ he2 \in [Keyring -> Int]
    BY <1>3, <1>5, <1>6, <2>1
  <2>5. \A a \in Cast : fr[a] >= STAKE + EXISTENTIAL_DEPOSIT
    BY <1>2, <1>9 DEF Accepted, CanHold
  <2>6. ASSUME NEW a \in Keyring
        PROVE  \/ fr2[a] >= EXISTENTIAL_DEPOSIT
               \/ fr2[a] = fr[a] /\ he2[a] = he[a]
    <3>1. fr[a] \in Int /\ he[a] \in Int
      BY <1>3
    <3>2. CASE a \in Cast
      <4>1. fr2[a] = fr[a] - STAKE /\ fr[a] >= STAKE + EXISTENTIAL_DEPOSIT
        BY <2>1, <2>5, <3>2
      <4> QED
        BY <1>5, <3>1, <4>1
    <3>3. CASE a \notin Cast
      BY <2>1, <3>1, <3>3
    <3> QED
      BY <3>2, <3>3
  <2> QED
    BY <1>7, <2>3, <2>4, <2>6
<1>10. CASE tx.call = "newRelease"
  <2>1. PICK fr2, he2 : /\ fr2 = [fr EXCEPT ![dev] = @ - BOND]
                        /\ he2 = [he EXCEPT ![dev] = @ + BOND]
    OBVIOUS
  <2>2. x = [[[y EXCEPT !.open = @ + 1] EXCEPT !.free[dev] = @ - BOND]
                EXCEPT !.held[dev] = @ + BOND]
    BY <1>6, <1>10 DEF Effect
  <2>3. PICK y1, y2 : /\ y1 = [y EXCEPT !.open = @ + 1]
                      /\ y2 = [y1 EXCEPT !.free[dev] = @ - BOND]
    OBVIOUS
  <2>4. y1 = Book(au, su, fr, he, no, pr, op + 1)
    BY <1>4, <2>3 DEF Book
  <2>5. y2 = Book(au, su, fr2, he, no, pr, op + 1)
    <3>1. y2 = [y1 EXCEPT !.free[dev] = @ - BOND] /\ fr2 = [fr EXCEPT ![dev] = @ - BOND]
      BY <2>1, <2>3
    <3> QED
      BY <2>4, <3>1 DEF Book
  <2>6. x = Book(au, su, fr2, he2, no, pr, op + 1)
    <3>1. x = [y2 EXCEPT !.held[dev] = @ + BOND]
      BY <2>2, <2>3
    <3> QED
      BY <2>1, <2>5, <3>1 DEF Book
  <2>7. fr2 \in [Keyring -> Int] /\ he2 \in [Keyring -> Int]
    BY <1>3, <1>5, <1>6, <2>1
  <2>8. fr[dev] >= BOND + EXISTENTIAL_DEPOSIT
    BY <1>2, <1>6, <1>10 DEF Accepted, CanHold
  <2>9. fr2[dev] >= EXISTENTIAL_DEPOSIT
    BY <1>3, <1>5, <1>6, <2>1, <2>8
  <2>10. \A a \in Keyring : a # dev => fr2[a] = fr[a] /\ he2[a] = he[a]
    BY <1>3, <2>1
  <2> QED
    BY <1>7, <2>6, <2>7, <2>9, <2>10
<1>11. CASE tx.call = "vote"
  <2>1. x = y
    BY <1>11 DEF Effect
  <2> QED
    BY <2>1
<1>12. CASE tx.call = "submitCounterAttestation"
  <2>1. PICK fr2, he2 :
          /\ fr2 = [fr EXCEPT ![dev] = @ + BOND]
          /\ he2 = [a \in Keyring |-> he[a] - CASE a = dev -> BOND
                                               [] a = bld -> he[a] \div 2
                                               [] OTHER -> 0]
    OBVIOUS
  <2>2. PICK y1, y2 : /\ y1 = [y EXCEPT !.open = @ - 1]
                      /\ y2 = [y1 EXCEPT !.free[dev] = @ + BOND]
    OBVIOUS
  <2>3. x = [y2 EXCEPT !.held = he2]
    <3>1. dev = Developer /\ bld = Builder
      BY <1>6
    <3>2. x = [y EXCEPT !.open = @ - 1, !.free[Developer] = @ + BOND,
                        !.held = [a \in Keyring |-> y.held[a] - CASE a = Developer -> BOND
                                                       [] a = Builder -> y.held[a] \div 2
                                                       [] OTHER -> 0]]
      BY <1>12 DEF Effect
    <3>3. he2 = [a \in Keyring |-> y.held[a] - CASE a = Developer -> BOND
                                                [] a = Builder -> y.held[a] \div 2
                                                [] OTHER -> 0]
      BY <1>2, <2>1, <3>1
    <3>4. x = [y EXCEPT !.open = @ - 1, !.free[dev] = @ + BOND, !.held = he2]
      BY <3>1, <3>2, <3>3
    <3> QED
      BY <2>2, <3>4
  <2>4. y1 = Book(au, su, fr, he, no, pr, op - 1)
    BY <1>4, <2>2 DEF Book
  <2>5. y2 = Book(au, su, fr2, he, no, pr, op - 1)
    <3>1. y2 = [y1 EXCEPT !.free[dev] = @ + BOND] /\ fr2 = [fr EXCEPT ![dev] = @ + BOND]
      BY <2>1, <2>2
    <3> QED
      BY <2>4, <3>1 DEF Book
  <2>6. x = Book(au, su, fr2, he2, no, pr, op - 1)
    BY <2>3, <2>5 DEF Book
  <2>7. \A a \in Keyring : he[a] \in Int /\ fr[a] \in Int /\ no[a] \in Nat
    BY <1>3
  <2>8. /\ he2[dev] = he[dev] - BOND /\ he2[bld] = he[bld] - he[bld] \div 2
         /\ \A a \in Keyring \ {dev, bld} : he2[a] = he[a]
    BY <1>6, <2>1, <2>7
  <2>9. \A a \in Keyring : he2[a] \in Int
    BY <2>7, <2>8, HeldLess
  <2>10. he2 \in [Keyring -> Int]
    BY <2>1, <2>9
  <2>11. fr2 \in [Keyring -> Int] /\ fr2[dev] = fr[dev] + BOND
         /\ \A a \in Keyring : a # dev => fr2[a] = fr[a]
    BY <1>3, <1>5, <1>6, <2>1
  <2>12. IsBook(x, au, su, fr2, he2, no, pr, op - 1)
    BY <1>3, <2>6, <2>10, <2>11 DEF IsBook
  <2>13. x.free = fr2 /\ x.held = he2 /\ x.nonce = no /\ Accounts(x)
    BY <2>12, BookFields
  <2>14. ASSUME NEW a \in Keyring PROVE (he2[a] > 0 => he[a] > 0) /\ fr2[a] >= fr[a]
    <3>1. CASE a = dev
      BY <1>5, <1>6, <2>7, <2>8, <2>11, <3>1, HeldLess
    <3>2. CASE a = bld
      BY <1>6, <2>7, <2>8, <2>11, <3>2, HeldLess
    <3>3. CASE a # dev /\ a # bld
      BY <2>7, <2>8, <2>11, <3>3
    <3> QED
      BY <3>1, <3>2, <3>3
  <2>15. ASSUME NEW a \in Keyring, no[a] > 0 \/ he2[a] > 0
         PROVE  fr2[a] >= EXISTENTIAL_DEPOSIT
    <3>1. fr[a] >= EXISTENTIAL_DEPOSIT
      BY <1>2, <2>14, <2>15 DEF Alive
    <3>2. fr[a] \in Int /\ fr2[a] \in Int /\ fr2[a] >= fr[a]
      BY <2>7, <2>11, <2>14
    <3> QED
      BY <1>5, <3>1, <3>2
  <2>16. Alive(x)
    BY <2>13, <2>15 DEF Alive
  <2> QED
    BY <1>2, <2>13, <2>16
<1> QED
  BY <1>8, <1>9, <1>10, <1>11, <1>12 DEF Call, SudoCall

\* What one extrinsic does: the nonce of its signer grows by one, and nobody loses
\* the deposit.
LEMMA OneExtrinsic ==
    ASSUME NEW st, Accounts(st), Alive(st), NEW s \in Keyring, NEW tx, tx.signer = s,
           tx.call \in Call, CanPay(st, s), NEW x, x = apply_extrinsic(st, tx)
    PROVE  /\ Accounts(x) /\ Alive(x)
           /\ x.nonce = [st.nonce EXCEPT ![s] = @ + 1]
<1>1. PICK y, z, r : y = Charged(st, tx) /\ z = Dispatched(y, tx) /\ r = Refund(st, tx)
  OBVIOUS
<1>2. Accounts(y) /\ Alive(y) /\ y.nonce = [st.nonce EXCEPT ![s] = @ + 1]
  BY <1>1, ChargedAccount
<1>3. Accounts(z) /\ Alive(z) /\ z.nonce = y.nonce
  <2>1. CASE DispatchResult(y, tx) = "Ok"
    <3>1. Accepted(y, tx)
      BY <2>1 DEF DispatchResult
    <3>2. z = Effect(y, tx)
      BY <1>1, <2>1 DEF Dispatched
    <3> QED
      BY <1>2, <3>1, <3>2, AcceptedCall
  <2>2. CASE DispatchResult(y, tx) # "Ok"
    BY <1>1, <1>2, <2>2 DEF Dispatched
  <2> QED
    BY <2>1, <2>2
<1>4. r \in Nat
  BY <1>1, RuntimeAssumption DEF Refund
<1>5. x = [z EXCEPT !.free[s] = @ + r]
  BY <1>1 DEF apply_extrinsic
<1>6. Accounts(x) /\ Alive(x) /\ x.nonce = z.nonce
  BY <1>3, <1>4, <1>5, RefundedAccount
<1> QED
  BY <1>2, <1>3, <1>6

\* The states a sequence of extrinsics leads through, as ApplyAll defines them.
Unrolls(f, st, txs) ==
    f = [i \in 0..Len(txs) |-> IF i = 0 THEN st ELSE apply_extrinsic(f[i - 1], txs[i])]

\* The same, for functions with a larger domain.
LeadsThrough(f, st, txs, k) ==
    f[0] = st /\ \A i \in 1..k : f[i] = apply_extrinsic(f[i - 1], txs[i])

\* ApplyAll is the last of these states.
LEMMA ApplyByStates ==
    ASSUME NEW st, NEW txs
    PROVE  ApplyAll(st, txs) = (CHOOSE f : Unrolls(f, st, txs))[Len(txs)]
  BY DEF ApplyAll, Unrolls

\* They exist.
HasStates(st, txs, n) == \E f : LeadsThrough(f, st, txs, n) /\ f = [i \in 0..n |-> f[i]]

LEMMA StatesExist ==
    ASSUME NEW st, NEW txs, NEW n \in Nat
    PROVE  HasStates(st, txs, n)
<1> DEFINE T == {k \in 0..n : \E f : LeadsThrough(f, st, txs, k)}
<1>1. 0 \in T
  <2>1. PICK f : f = [i \in {0} |-> st]
    OBVIOUS
  <2>2. f[0] = st
    BY <2>1
  <2>3. LeadsThrough(f, st, txs, 0)
    BY <2>2 DEF LeadsThrough
  <2> QED
    BY <2>3
<1>2. ASSUME NEW k \in 0..(n - 1), k \in T PROVE k + 1 \in T
  <2>1. PICK f : LeadsThrough(f, st, txs, k)
    BY <1>2
  <2>2. PICK g : g = [i \in 0..(k + 1) |-> IF i <= k THEN f[i]
                                           ELSE apply_extrinsic(f[k], txs[k + 1])]
    OBVIOUS
  <2>3. (\A i \in 0..k : g[i] = f[i]) /\ g[k + 1] = apply_extrinsic(f[k], txs[k + 1])
    BY <2>2
  <2>4. ASSUME NEW i \in 1..(k + 1) PROVE g[i] = apply_extrinsic(g[i - 1], txs[i])
    <3>1. CASE i \in 1..k
      <4>1. i \in 0..k /\ i - 1 \in 0..k
        BY <3>1
      <4> QED
        BY <2>1, <2>3, <3>1, <4>1 DEF LeadsThrough
    <3>2. CASE i = k + 1
      <4>1. i - 1 = k /\ k \in 0..k
        BY <3>2
      <4> QED
        BY <2>3, <3>2, <4>1
    <3> QED
      BY <3>1, <3>2
  <2>5. g[0] = st
    BY <2>1, <2>3 DEF LeadsThrough
  <2>6. LeadsThrough(g, st, txs, k + 1)
    BY <2>4, <2>5 DEF LeadsThrough
  <2>7. k + 1 \in 0..n
    OBVIOUS
  <2> QED
    BY <2>6, <2>7
<1>3. \A i \in 0..n : i \in T
  <2> HIDE DEF T
  <2> QED
    BY <1>1, <1>2, UpTo
<1>4. PICK f : LeadsThrough(f, st, txs, n)
  BY <1>3
<1>5. PICK g : g = [i \in 0..n |-> f[i]]
  OBVIOUS
<1>6. \A i \in 0..n : g[i] = f[i]
  BY <1>5
<1>7. ASSUME NEW i \in 1..n PROVE g[i] = apply_extrinsic(g[i - 1], txs[i])
  <2>1. i \in 0..n /\ i - 1 \in 0..n
    OBVIOUS
  <2> QED
    BY <1>4, <1>6, <2>1 DEF LeadsThrough
<1>8. g[0] = st
  BY <1>4, <1>6 DEF LeadsThrough
<1>9. g = [i \in 0..n |-> g[i]]
  BY <1>5, <1>6
<1> QED
  BY <1>7, <1>8, <1>9 DEF LeadsThrough, HasStates

\* And they are the only ones.
LEMMA StatesUnique ==
    ASSUME NEW st, NEW txs, NEW n \in Nat, NEW f, NEW g,
           LeadsThrough(f, st, txs, n), LeadsThrough(g, st, txs, n)
    PROVE  \A i \in 0..n : f[i] = g[i]
<1> DEFINE T == {k \in 0..n : f[k] = g[k]}
<1>1. 0 \in T
  BY DEF LeadsThrough
<1>2. ASSUME NEW k \in 0..(n - 1), k \in T PROVE k + 1 \in T
  <2>1. k + 1 \in 1..n /\ (k + 1) - 1 = k /\ k + 1 \in 0..n
    OBVIOUS
  <2>2. f[k + 1] = apply_extrinsic(f[k], txs[k + 1])
    BY <2>1 DEF LeadsThrough
  <2>3. g[k + 1] = apply_extrinsic(g[k], txs[k + 1])
    BY <2>1 DEF LeadsThrough
  <2>4. f[k] = g[k]
    BY <1>2
  <2> QED
    BY <2>1, <2>2, <2>3, <2>4
<1>3. \A i \in 0..n : i \in T
  <2> HIDE DEF T
  <2> QED
    BY <1>1, <1>2, UpTo
<1> QED
  BY <1>3

\* So ApplyAll is found from any of them.
LEMMA ApplyAllIs ==
    ASSUME NEW st, NEW txs, IsChain(txs), NEW f, LeadsThrough(f, st, txs, Len(txs))
    PROVE  ApplyAll(st, txs) = f[Len(txs)]
<1>1. PICK n \in Nat : n = Len(txs)
  BY ChainFacts
<1>0. HasStates(st, txs, n)
  BY StatesExist
<1>2. PICK g : LeadsThrough(g, st, txs, n) /\ g = [i \in 0..n |-> g[i]]
  BY <1>0 DEF HasStates
<1>3. ASSUME NEW i \in 0..n
      PROVE  g[i] = IF i = 0 THEN st ELSE apply_extrinsic(g[i - 1], txs[i])
  <2>1. i # 0 => i \in 1..n
    OBVIOUS
  <2> QED
    BY <1>2, <2>1 DEF LeadsThrough
<1>4. g = [i \in 0..n |-> IF i = 0 THEN st ELSE apply_extrinsic(g[i - 1], txs[i])]
  BY <1>2, <1>3, Zenon
<1>5. Unrolls(g, st, txs)
  BY <1>1, <1>4 DEF Unrolls
<1>6. PICK h : h = CHOOSE x : Unrolls(x, st, txs)
  OBVIOUS
<1>7. Unrolls(h, st, txs)
  BY <1>5, <1>6
<1>8. \A i \in 0..n : h[i] = IF i = 0 THEN st ELSE apply_extrinsic(h[i - 1], txs[i])
  BY <1>1, <1>7 DEF Unrolls
<1>9. LeadsThrough(h, st, txs, n)
  <2>1. h[0] = st
    BY <1>8
  <2>2. ASSUME NEW i \in 1..n PROVE h[i] = apply_extrinsic(h[i - 1], txs[i])
    <3>1. i \in 0..n /\ i # 0
      OBVIOUS
    <3> QED
      BY <1>8, <3>1
  <2> QED
    BY <2>1, <2>2 DEF LeadsThrough
<1>10. LeadsThrough(f, st, txs, n)
  BY <1>1
<1>11. h[n] = f[n]
  BY <1>9, <1>10, StatesUnique
<1> QED
  BY <1>1, <1>6, <1>11, ApplyByStates

\* Also for the first extrinsics only.
LEMMA ApplyFirst ==
    ASSUME NEW st, NEW txs, IsChain(txs), NEW f, LeadsThrough(f, st, txs, Len(txs)),
           NEW k \in 0..Len(txs)
    PROVE  ApplyAll(st, SubSeq(txs, 1, k)) = f[k]
<1>1. PICK p : p = SubSeq(txs, 1, k)
  OBVIOUS
<1>2. IsChain(p) /\ Len(p) = k /\ \A j \in 1..k : p[j] = txs[j]
  BY <1>1, FirstBlocks
<1>3. Len(txs) \in Nat /\ k \in Nat
  BY ChainFacts
<1>4. ASSUME NEW i \in 1..k PROVE f[i] = apply_extrinsic(f[i - 1], p[i])
  <2>1. i \in 1..Len(txs)
    BY <1>3
  <2> QED
    BY <1>2, <2>1 DEF LeadsThrough
<1>5. LeadsThrough(f, st, p, Len(p))
  BY <1>2, <1>4 DEF LeadsThrough
<1> QED
  BY <1>1, <1>2, <1>5, ApplyAllIs

\* An extrinsic of an account that could pay and whose turn it was.
Rightly(st, tx) == /\ tx.signer \in Keyring /\ tx.call \in Call
                   /\ tx.nonce = st.nonce[tx.signer]
                   /\ CanPay(st, tx.signer)

\* States through which extrinsics lead, each of them applied rightly.
Ran(f, st, txs) ==
    /\ LeadsThrough(f, st, txs, Len(txs))
    /\ \A i \in 1..Len(txs) : Rightly(f[i - 1], txs[i])

\* What AllApply checks in a block, put after what ran before.
LEMMA RanOn ==
    ASSUME NEW st, NEW xs, IsChain(xs), NEW ys, IsChain(ys), NEW f, Ran(f, st, xs),
           NEW c, AllApply(f[Len(xs)], c, ys), \A i \in 1..Len(ys) : Signed(ys[i])
    PROVE  \E g : Ran(g, st, xs \o ys)
<1>1. PICK m \in Nat : m = Len(xs)
  BY ChainFacts
<1>2. PICK n \in Nat : n = Len(ys) /\ DOMAIN ys = 1..n
  BY ChainFacts
<1>3. PICK zs : zs = xs \o ys
  OBVIOUS
<1>4. /\ IsChain(zs) /\ Len(zs) = m + n
      /\ \A i \in 1..m : zs[i] = xs[i]
      /\ \A i \in 1..n : zs[m + i] = ys[i]
  BY <1>1, <1>2, <1>3, JoinedChains
<1>0. HasStates(f[m], ys, n)
  BY StatesExist
<1>5. PICK h : LeadsThrough(h, f[m], ys, n)
  BY <1>0 DEF HasStates
<1>6. ASSUME NEW i \in 1..n PROVE Rightly(h[i - 1], ys[i])
  <2>1. i - 1 \in 0..n
    OBVIOUS
  <2>2. ApplyAll(f[m], SubSeq(ys, 1, i - 1)) = h[i - 1]
    BY <1>2, <1>5, <2>1, ApplyFirst
  <2>3. Applies(ApplyAll(f[m], SubSeq(ys, 1, i - 1)), c, ys[i])
    BY <1>1, <1>2 DEF AllApply
  <2>4. Signed(ys[i])
    BY <1>2
  <2> QED
    BY <2>2, <2>3, <2>4 DEF Applies, Rightly, Signed
<1>7. PICK g : g = [i \in 0..(m + n) |-> IF i <= m THEN f[i] ELSE h[i - m]]
  OBVIOUS
<1>8. \A i \in 0..m : g[i] = f[i]
  BY <1>7
<1>9. ASSUME NEW i \in 0..n PROVE g[m + i] = h[i]
  <2>1. m + i \in 0..(m + n) /\ (m + i) - m = i
    OBVIOUS
  <2>2. CASE i = 0
    BY <1>5, <1>8, <2>2 DEF LeadsThrough
  <2>3. CASE i # 0
    <3>1. ~(m + i <= m)
      BY <2>3
    <3> QED
      BY <1>7, <2>1, <3>1
  <2> QED
    BY <2>2, <2>3
<1>10. ASSUME NEW i \in 1..(m + n)
       PROVE  g[i] = apply_extrinsic(g[i - 1], zs[i]) /\ Rightly(g[i - 1], zs[i])
  <2>1. CASE i <= m
    <3>1. i \in 1..m /\ i \in 0..m /\ i - 1 \in 0..m
      BY <2>1
    <3>2. f[i] = apply_extrinsic(f[i - 1], xs[i]) /\ Rightly(f[i - 1], xs[i])
      BY <1>1, <3>1 DEF Ran, LeadsThrough
    <3>3. g[i] = f[i] /\ g[i - 1] = f[i - 1] /\ zs[i] = xs[i]
      BY <1>4, <1>8, <3>1
    <3> QED
      BY <3>2, <3>3
  <2>2. CASE ~(i <= m)
    <3>1. PICK j \in 1..n : i = m + j
      <4>1. i - m \in 1..n /\ i = m + (i - m)
        BY <2>2
      <4> QED
        BY <4>1
    <3>2. j \in 0..n /\ j - 1 \in 0..n /\ i - 1 = m + (j - 1)
      BY <3>1
    <3>3. h[j] = apply_extrinsic(h[j - 1], ys[j]) /\ Rightly(h[j - 1], ys[j])
      BY <1>5, <1>6 DEF LeadsThrough
    <3>4. g[i] = h[j] /\ g[i - 1] = h[j - 1] /\ zs[i] = ys[j]
      BY <1>4, <1>9, <3>1, <3>2
    <3> QED
      BY <3>3, <3>4
  <2> QED
    BY <2>1, <2>2
<1>11. g[0] = st
  BY <1>8 DEF Ran, LeadsThrough
<1>12. Ran(g, st, zs)
  BY <1>4, <1>10, <1>11 DEF Ran, LeadsThrough
<1> QED
  BY <1>3, <1>12

\* The extrinsics of an account among the first k.
Signing(txs, k, who) == {j \in 1..k : txs[j].signer = who}

\* Counting the members of a set up to k + 1.
LEMMA OneMore ==
    ASSUME NEW k \in Nat, NEW B \in SUBSET (1..(k + 1))
    PROVE  /\ Cardinality(B \cap (1..k)) \in Nat
           /\ Cardinality(B) = Cardinality(B \cap (1..k)) + (IF k + 1 \in B THEN 1 ELSE 0)
<1> DEFINE A == B \cap (1..k)
<1>0. IsFiniteSet(1..k)
  BY FS_Interval
<1>1. IsFiniteSet(A)
  BY <1>0, FS_Subset
<1>2. Cardinality(A) \in Nat
  BY <1>1, FS_CardinalityType
<1>3. k + 1 \notin A
  OBVIOUS
<1>4. \A x \in 1..(k + 1) : x \in 1..k \/ x = k + 1
  OBVIOUS
<1>5. CASE k + 1 \in B
  <2>1. B = A \cup {k + 1}
    BY <1>4, <1>5
  <2>2. Cardinality(A \cup {k + 1}) = Cardinality(A) + 1
    BY <1>1, <1>3, FS_AddElement
  <2> QED
    BY <1>2, <1>5, <2>1, <2>2
<1>6. CASE k + 1 \notin B
  <2>1. B = A
    BY <1>4, <1>6
  <2> QED
    BY <1>2, <1>6, <2>1
<1> QED
  BY <1>2, <1>5, <1>6

\* What the first k extrinsics of a run did to the accounts.
Booked(f, txs, k) ==
    /\ Accounts(f[k]) /\ Alive(f[k])
    /\ \A a \in Keyring : f[k].nonce[a] = Cardinality(Signing(txs, k, a))

\* A genesis block: nothing signed or held yet.
Endowed(st) == Accounts(st) /\ Alive(st) /\ \A a \in Keyring : st.nonce[a] = 0

\* Before the first one.
LEMMA BookedNone ==
    ASSUME NEW st, Endowed(st), NEW txs, NEW f, f[0] = st
    PROVE  Booked(f, txs, 0)
<1>1. \A a : Signing(txs, 0, a) = {}
  BY DEF Signing
<1>2. Cardinality({}) = 0
  BY FS_EmptySet
<1>3. \A a \in Keyring : f[0].nonce[a] = Cardinality(Signing(txs, 0, a))
  BY <1>1, <1>2 DEF Endowed
<1> QED
  BY <1>3 DEF Booked, Endowed

\* One more.
LEMMA BookedMore ==
    ASSUME NEW txs, NEW f, NEW k \in Nat, Booked(f, txs, k),
           Rightly(f[k], txs[k + 1]), f[k + 1] = apply_extrinsic(f[k], txs[k + 1])
    PROVE  Booked(f, txs, k + 1)
<1>1. PICK x, y, tx : x = f[k] /\ y = f[k + 1] /\ tx = txs[k + 1]
  OBVIOUS
<1>2. PICK s \in Keyring : s = tx.signer
  BY <1>1 DEF Rightly
<1>3. /\ Accounts(x) /\ Alive(x) /\ tx.call \in Call /\ CanPay(x, s)
      /\ y = apply_extrinsic(x, tx)
  BY <1>1, <1>2 DEF Booked, Rightly
<1>4. Accounts(y) /\ Alive(y) /\ y.nonce = [x.nonce EXCEPT ![s] = @ + 1]
  BY <1>2, <1>3, OneExtrinsic
<1>5. k + 1 \in 1..(k + 1) /\ 1..k \subseteq 1..(k + 1)
  OBVIOUS
<1>6. ASSUME NEW a \in Keyring PROVE y.nonce[a] = Cardinality(Signing(txs, k + 1, a))
  <2>1. PICK A, B : A = Signing(txs, k, a) /\ B = Signing(txs, k + 1, a)
    OBVIOUS
  <2>2. /\ A \subseteq 1..k /\ B \cap (1..k) = A /\ B \subseteq 1..(k + 1)
        /\ (k + 1 \in B <=> s = a)
    BY <1>1, <1>2, <1>5, <2>1 DEF Signing
  <2>3. /\ Cardinality(A) \in Nat
        /\ Cardinality(B) = Cardinality(A) + (IF k + 1 \in B THEN 1 ELSE 0)
    <3>1. A \subseteq 1..k /\ B \cap (1..k) = A /\ B \subseteq 1..(k + 1)
      BY <2>2
    <3> QED
      BY <3>1, OneMore
  <2>4. x.nonce[a] = Cardinality(A)
    BY <1>1, <2>1 DEF Booked
  <2>5. x.nonce \in [Keyring -> Nat]
    BY <1>3 DEF Accounts, IsBook
  <2>6. y.nonce[a] = IF s = a THEN x.nonce[a] + 1 ELSE x.nonce[a]
    BY <1>4, <2>5
  <2> QED
    BY <2>1, <2>2, <2>3, <2>4, <2>6
<1> QED
  BY <1>1, <1>4, <1>6 DEF Booked

\* All of them.
LEMMA BookedAll ==
    ASSUME NEW st, Endowed(st), NEW txs, IsChain(txs), NEW f, Ran(f, st, txs)
    PROVE  \A k \in 0..Len(txs) : Booked(f, txs, k)
<1>1. PICK n \in Nat : n = Len(txs)
  BY ChainFacts
<1> DEFINE T == {k \in 0..n : Booked(f, txs, k)}
<1>2. 0 \in T
  <2>1. Booked(f, txs, 0)
    BY BookedNone DEF Ran, LeadsThrough
  <2> QED
    BY <2>1
<1>3. ASSUME NEW k \in 0..(n - 1), k \in T PROVE k + 1 \in T
  <2>1. k \in Nat /\ k + 1 \in 1..n /\ (k + 1) - 1 = k /\ k + 1 \in 0..n
    OBVIOUS
  <2>2. Rightly(f[k], txs[k + 1]) /\ f[k + 1] = apply_extrinsic(f[k], txs[k + 1])
    BY <1>1, <2>1 DEF Ran, LeadsThrough
  <2>3. Booked(f, txs, k)
    BY <1>3
  <2>4. Booked(f, txs, k + 1)
    BY <2>1, <2>2, <2>3, BookedMore
  <2> QED
    BY <2>1, <2>4
<1>4. \A k \in 0..n : k \in T
  <2> HIDE DEF T
  <2> QED
    BY <1>2, <1>3, UpTo
<1> QED
  BY <1>1, <1>4

\* Both presets leave every nonce at 0 and nothing on hold.
LEMMA GenesisEndowed == Service => Endowed(genesis)
<1> SUFFICES ASSUME Service PROVE Endowed(genesis)
  OBVIOUS
<1>1. ASSUME NEW au, NEW en, NEW su, NEW g, g = testnet_genesis(au, en, su) PROVE Endowed(g)
  <2>1. PICK fr, no : /\ fr = [a \in Keyring |-> IF a \in en THEN GenesisBalance ELSE 0]
                      /\ no = [a \in Keyring |-> 0]
    OBVIOUS
  <2>2. g = Book(au, su, fr, no, no, 0, 0)
    BY <1>1, <2>1 DEF testnet_genesis, Book
  <2>3. fr \in [Keyring -> Int] /\ no \in [Keyring -> Int] /\ no \in [Keyring -> Nat]
    BY <2>1, RuntimeAssumption
  <2>4. IsBook(g, au, su, fr, no, no, 0, 0)
    BY <2>2, <2>3 DEF IsBook
  <2>5. Accounts(g) /\ g.nonce = no /\ g.held = no
    BY <2>4, BookFields
  <2>6. \A a \in Keyring : no[a] = 0
    BY <2>1
  <2> QED
    BY <2>5, <2>6 DEF Endowed, Alive
<1>2. budget.chain \in {"dev", "", "local"} /\ genesis = load_spec(budget.chain)
  BY DEF Service, BudgetType, ChainId
<1>3. CASE budget.chain = "dev"
  <2>1. load_spec(budget.chain) = development_config_genesis
    BY <1>3 DEF load_spec, development_chain_spec, get_preset
  <2> QED
    BY <1>1, <1>2, <2>1 DEF development_config_genesis
<1>4. CASE budget.chain \in {"", "local"}
  <2>1. load_spec(budget.chain) = local_chain_spec
    BY <1>4 DEF load_spec
  <2>2. local_chain_spec = local_config_genesis
    BY DEF local_chain_spec, get_preset
  <2> QED
    BY <1>1, <1>2, <2>1, <2>2 DEF local_config_genesis
<1> QED
  BY <1>2, <1>3, <1>4

\* Every chain of every node ran rightly.
AllRan == \A c \in Blocks : \E f : Ran(f, genesis, Extrinsics(c))

\* So do the blocks that appear.
LEMMA BlocksRan ==
    ASSUME Carried, AllRan, [GlueNext]_glueVars
    PROVE  AllRan'
<1>1. DbStep /\ genesis' = genesis
  BY EveryDbStep DEF Carried
<1>2. \A c \in Blocks' : \E f : Ran(f, genesis, Extrinsics(c))
  <2>1. CASE Blocks' \subseteq Blocks
    BY <2>1 DEF AllRan
  <2>2. ASSUME NEW n \in Nodes, NEW block, AuthorsBlock(n, block),
               Blocks' \subseteq Blocks \cup {Append(Best(n), block)}
        PROVE  \A c \in Blocks' : \E f : Ran(f, genesis, Extrinsics(c))
    <3>1. PICK best, xs, ys : best = Best(n) /\ xs = Extrinsics(best) /\ ys = block.extrinsics
      OBVIOUS
    <3>2. IsChain(best) /\ best \in Blocks
      BY <3>1, TreeChains DEF Carried, Forest, Best, Blocks
    <3>3. Timely(best)
      BY <3>2 DEF Carried, AllTimely
    <3>4. BlocksHold(best)
      BY <3>3, TimelyHolds
    <3>5. ys \in Proposals(n)
      BY <2>2, <3>1 DEF AuthorsBlock
    <3>6. /\ IsChain(ys) /\ ToSet(ys) \subseteq pool[n]
          /\ AllApply(BestState(n), Best(n), ys)
      BY <3>5, ProposalFacts DEF Carried
    <3>7. IsChain(xs) /\ Extrinsics(Append(best, block)) = xs \o ys
      BY <3>1, <3>2, <3>4, <3>6, MoreExtrinsics
    <3>8. PICK f : Ran(f, genesis, xs)
      BY <3>1, <3>2 DEF AllRan
    <3>9. BestState(n) = f[Len(xs)]
      <4>1. BestState(n) = ApplyAll(genesis, xs)
        BY <3>1 DEF BestState, StateOf
      <4> QED
        BY <3>7, <3>8, <4>1, ApplyAllIs DEF Ran
    <3>10. \A i \in 1..Len(ys) : Signed(ys[i])
      <4>1. ASSUME NEW i \in 1..Len(ys) PROVE Signed(ys[i])
        <5>1. ys[i] \in ToSet(ys)
          BY <3>6, ChainFacts DEF ToSet
        <5> QED
          BY <3>6, <5>1 DEF Carried, PoolsSigned
      <4> QED
        BY <4>1
    <3>11. \E g : Ran(g, genesis, xs \o ys)
      BY <3>6, <3>7, <3>8, <3>9, <3>10, RanOn
    <3>12. \E g : Ran(g, genesis, Extrinsics(Append(Best(n), block)))
      BY <3>1, <3>7, <3>11
    <3> QED
      BY <2>2, <3>12 DEF AllRan
  <2> QED
    BY <1>1, <2>1, <2>2, BlocksOrigin DEF Carried
<1> QED
  BY <1>1, <1>2 DEF AllRan

\* The chain of genesis alone.
LEMMA RanInit == GlueInit => AllRan
<1> SUFFICES ASSUME GlueInit PROVE AllRan
  OBVIOUS
<1>1. Blocks \subseteq {<<>>}
  <2>1. \A n \in Nodes : db[n].blocks = {<<>>}
    BY EmptyTree DEF GlueInit, NodeInit
  <2> QED
    BY <2>1 DEF Blocks
<1>2. Extrinsics(<<>>) = <<>> /\ Len(<<>>) = 0
  BY NoExtrinsics, EmptyChain
<1>3. PICK f : f = [i \in {0} |-> genesis]
  OBVIOUS
<1>4. f[0] = genesis
  BY <1>3
<1>5. Ran(f, genesis, <<>>)
  BY <1>2, <1>4 DEF Ran, LeadsThrough
<1> QED
  BY <1>1, <1>2, <1>5 DEF AllRan

\* The invariant about extrinsics together with their effects.
Executed == Carried /\ AllRan

\* It holds at the start and is kept.
LEMMA ExecutedAlways == (GlueInit => Executed) /\ (Executed /\ [GlueNext]_glueVars => Executed')
  BY CarriedAlways, RanInit, BlocksRan DEF Executed

\* What is known of a chain and its accounts.
LEMMA ChainBooked ==
    ASSUME Executed, NEW c \in Blocks
    PROVE  /\ IsChain(Extrinsics(c)) /\ Endowed(genesis)
           /\ \E f : Ran(f, genesis, Extrinsics(c))
                     /\ \A k \in 0..Len(Extrinsics(c)) : Booked(f, Extrinsics(c), k)
<1>1. IsChain(c) /\ Timely(c)
  BY TreeChains DEF Executed, Carried, AllTimely, Forest, Blocks
<1>2. BlocksHold(c)
  BY <1>1, TimelyHolds
<1>3. PICK b : b = [extrinsics |-> <<>>]
  OBVIOUS
<1>4. IsChain(b.extrinsics)
  BY <1>3, EmptyChain
<1>5. IsChain(Extrinsics(c))
  BY <1>1, <1>2, <1>4, MoreExtrinsics
<1>6. Endowed(genesis)
  BY GenesisEndowed DEF Executed, Carried
<1>7. PICK f : Ran(f, genesis, Extrinsics(c))
  BY DEF Executed, AllRan
<1> QED
  BY <1>5, <1>6, <1>7, BookedAll

\* No replay: on every branch of every node an extrinsic's nonce is the number of
\* its account's extrinsics before it, through forks, retractions, resubmissions,
\* restarts and every use of the tools.
THEOREM NoncesAlwaysInOrder == GlueSpec => []NonceOrder
<1>1. Executed => NonceOrder
  <2> SUFFICES ASSUME Executed, NEW c \in Blocks, NEW txs, txs = Extrinsics(c),
                      NEW i \in DOMAIN txs
               PROVE  txs[i].nonce
                        = Cardinality({j \in 1..(i - 1) : txs[j].signer = txs[i].signer})
    BY DEF NonceOrder
  <2>1. PICK f : IsChain(txs) /\ Ran(f, genesis, txs)
                 /\ \A k \in 0..Len(txs) : Booked(f, txs, k)
    BY ChainBooked
  <2>2. Len(txs) \in Nat /\ i \in 1..Len(txs)
    BY <2>1, ChainFacts
  <2>3. i - 1 \in 0..Len(txs)
    BY <2>2
  <2>4. txs[i].signer \in Keyring /\ txs[i].nonce = f[i - 1].nonce[txs[i].signer]
    BY <2>1, <2>2 DEF Ran, Rightly
  <2>5. f[i - 1].nonce[txs[i].signer] = Cardinality(Signing(txs, i - 1, txs[i].signer))
    BY <2>1, <2>3, <2>4 DEF Booked
  <2> QED
    BY <2>4, <2>5 DEF Signing
<1> QED
  BY <1>1, ExecutedAlways, PTL DEF GlueSpec

\* Nobody is reaped: on every branch an account that has signed something, or has
\* money on hold, keeps the existential deposit through fees, bonds, stakes, slashes
\* and refunds, and through what sudo sets.
THEOREM SignersAlwaysAlive == GlueSpec => []SignersStayAlive
<1>1. Executed => SignersStayAlive
  <2> SUFFICES ASSUME Executed, NEW c \in Blocks PROVE Alive(StateOf(genesis, c))
    BY DEF SignersStayAlive, Alive
  <2>1. PICK txs : txs = Extrinsics(c)
    OBVIOUS
  <2>2. PICK f : IsChain(txs) /\ Ran(f, genesis, txs)
                 /\ \A k \in 0..Len(txs) : Booked(f, txs, k)
    BY <2>1, ChainBooked
  <2>3. Len(txs) \in 0..Len(txs)
    BY <2>2, ChainFacts
  <2>4. StateOf(genesis, c) = f[Len(txs)]
    BY <2>1, <2>2, ApplyAllIs DEF StateOf, Ran
  <2> QED
    BY <2>2, <2>3, <2>4 DEF Booked
<1> QED
  BY <1>1, ExecutedAlways, PTL DEF GlueSpec

=============================================================================
