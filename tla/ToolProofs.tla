----------------------------- MODULE ToolProofs -----------------------------
(***************************************************************************)
(* The tools around the chain: what builders pin can be read back unless   *)
(* it is being written again, and what the client reports is installed.    *)
(***************************************************************************)
EXTENDS Distribution, TLAPS

-----------------------------------------------------------------------------
(* Builders and the store *)

\* A builder between two system calls: the attestation names the binary it pins,
\* and is pinned after it.
BuilderOk(b, files) ==
    \/ b = Idle
    \/ b.at = "attest" /\ b.binary.kind = "binary"
    \/ /\ b = [at |-> b.at, todo |-> b.todo, att |-> b.att]
       /\ b.at \in {"exists", "open", "write"}
       /\ \/ b.todo[1] # b.att /\ b.att.output_binary_hash = Sha256(b.todo[1])
          \/ b.todo[1] = b.att /\ b.att.output_binary_hash \in files

\* The attestations of finished builds are there, and so are their binaries.
BothPinned(atts, files) ==
    \A att \in atts : Sha256(att) \in files /\ att.output_binary_hash \in files

\* A content that can be read, or that a builder is writing.
Safe(cid) ==
    StoreReadable(cid) \/ \E p \in Process : At(p, "write") /\ Sha256(Item(p)) = cid

\* The inductive invariant of the builders.
Pins ==
    /\ kills \in Nat
    /\ building = [p \in Process |-> building[p]]
    /\ \A p \in Process : BuilderOk(building[p], DOMAIN store)
    /\ BothPinned(built, DOMAIN store)
    /\ kills = 0 => \A cid \in DOMAIN store : Safe(cid)

\* It holds before the first build.
LEMMA PinsInit == BuildInit /\ StoreInit => Pins
<1> SUFFICES ASSUME BuildInit, StoreInit PROVE Pins
  OBVIOUS
<1>1. DOMAIN store = {}
  BY DEF StoreInit
<1>2. building = [p \in Process |-> building[p]] /\ \A p \in Process : building[p] = Idle
  BY DEF BuildInit
<1>3. \A p \in Process : BuilderOk(building[p], DOMAIN store)
  BY <1>2 DEF BuilderOk
<1> QED
  BY <1>1, <1>2, <1>3 DEF Pins, BuildInit, BothPinned

\* More files do not hurt a builder.
LEMMA MoreFiles ==
    ASSUME NEW b, NEW files, BuilderOk(b, files), NEW more, files \subseteq more
    PROVE  BuilderOk(b, more)
  BY DEF BuilderOk

\* A step of one builder.
LEMMA BuilderMoves ==
    ASSUME Pins, NEW p \in Process, NEW b, building' = [building EXCEPT ![p] = b],
           DOMAIN store \subseteq DOMAIN store', BuilderOk(b, DOMAIN store'),
           BothPinned(built', DOMAIN store'), kills' = kills,
           kills = 0 => \A cid \in DOMAIN store' : Safe(cid)'
    PROVE  Pins'
<1>1. building' = [q \in Process |-> IF q = p THEN b ELSE building[q]]
  BY DEF Pins
<1>2. ASSUME NEW q \in Process PROVE BuilderOk(building'[q], DOMAIN store')
  <2>1. CASE q = p
    BY <1>1, <2>1
  <2>2. CASE q # p
    BY <1>1, <2>2, MoreFiles DEF Pins
  <2> QED
    BY <2>1, <2>2
<1>3. building' = [q \in Process |-> building'[q]]
  BY <1>1
<1> QED
  BY <1>2, <1>3 DEF Pins

\* A content stays safe when another one is written.
LEMMA StaysSafe ==
    ASSUME Pins, NEW p \in Process, NEW b, building' = [building EXCEPT ![p] = b],
           NEW cid, Safe(cid), At(p, "write") => Sha256(Item(p)) # cid,
           cid \in DOMAIN store => cid \in DOMAIN store' /\ store'[cid] = store[cid]
    PROVE  Safe(cid)'
<1>1. \A q \in Process : q # p => building'[q] = building[q]
  BY DEF Pins
<1>2. CASE StoreReadable(cid)
  BY <1>2 DEF StoreReadable, Safe
<1>3. ASSUME NEW q \in Process, At(q, "write"), Sha256(Item(q)) = cid PROVE Safe(cid)'
  <2>1. q # p
    BY <1>3
  <2>2. building'[q] = building[q]
    BY <1>1, <2>1
  <2>3. At(q, "write")' /\ Sha256(Item(q))' = cid
    BY <1>3, <2>2 DEF At, Item
  <2> QED
    BY <2>3 DEF Safe
<1> QED
  BY <1>2, <1>3 DEF Safe

\* A builder at storePut, as its record says.
LEMMA AtPut ==
    ASSUME Pins, NEW p \in Process, NEW stage \in {"exists", "open", "write"}, At(p, stage)
    PROVE  \E todo, att :
              /\ building[p] = [at |-> stage, todo |-> todo, att |-> att]
              /\ building[p].att = att /\ Item(p) = todo[1]
              /\ \/ todo[1] # att /\ att.output_binary_hash = Sha256(todo[1])
                 \/ todo[1] = att /\ att.output_binary_hash \in DOMAIN store
<1>1. PICK b : b = building[p] /\ BuilderOk(b, DOMAIN store) /\ b.at = stage
  BY DEF Pins, At
<1>2. b # Idle
  <2>1. b = Idle => b.at = "idle"
    BY DEF Idle
  <2> QED
    BY <1>1, <2>1
<1>3. /\ b = [at |-> stage, todo |-> b.todo, att |-> b.att]
      /\ \/ b.todo[1] # b.att /\ b.att.output_binary_hash = Sha256(b.todo[1])
         \/ b.todo[1] = b.att /\ b.att.output_binary_hash \in DOMAIN store
  BY <1>1, <1>2 DEF BuilderOk
<1> QED
  BY <1>1, <1>3 DEF Item

\* The end of a storePut, when the file is there.
LEMMA PinnedMoves ==
    ASSUME Pins, NEW p \in Process, NEW stage \in {"exists", "write"}, At(p, stage), Pinned(p),
           DOMAIN store \subseteq DOMAIN store', Sha256(Item(p)) \in DOMAIN store'
    PROVE  /\ \E b : building' = [building EXCEPT ![p] = b] /\ BuilderOk(b, DOMAIN store')
           /\ BothPinned(built', DOMAIN store')
<1>0. stage \in {"exists", "open", "write"}
  OBVIOUS
<1>1. PICK todo, att :
        /\ building[p] = [at |-> stage, todo |-> todo, att |-> att]
        /\ building[p].att = att /\ Item(p) = todo[1]
        /\ \/ todo[1] # att /\ att.output_binary_hash = Sha256(todo[1])
           \/ todo[1] = att /\ att.output_binary_hash \in DOMAIN store
  BY <1>0, AtPut
<1>2. CASE todo[1] = att
  <2>1. building' = [building EXCEPT ![p] = Idle] /\ built' = built \cup {att}
    BY <1>1, <1>2 DEF Pinned
  <2>2. Sha256(att) \in DOMAIN store' /\ att.output_binary_hash \in DOMAIN store'
    BY <1>1, <1>2
  <2>3. BothPinned(built', DOMAIN store')
    BY <2>1, <2>2 DEF Pins, BothPinned
  <2>4. BuilderOk(Idle, DOMAIN store')
    BY DEF BuilderOk
  <2> QED
    BY <2>1, <2>3, <2>4
<1>3. CASE todo[1] # att
  <2>1. /\ building' = [building EXCEPT ![p] = [building[p] EXCEPT !.at = "exists",
                                                                   !.todo = <<att>>]]
        /\ built' = built
    BY <1>1, <1>3 DEF Pinned
  <2>2. PICK x : x = building[p]
    OBVIOUS
  <2>11. x = [at |-> stage, todo |-> todo, att |-> att]
    BY <1>1, <2>2
  <2>12. PICK one : one = <<att>>
    OBVIOUS
  <2>3. one = <<att>> /\ one[1] = att
    BY <2>12
  <2>4. PICK y : y = [x EXCEPT !.at = "exists", !.todo = one]
    OBVIOUS
  <2>5. y = [at |-> "exists", todo |-> one, att |-> att]
    BY <2>11, <2>4
  <2>6. y.at = "exists" /\ y.todo = one /\ y.att = att
    BY <2>5
  <2>7. att.output_binary_hash \in DOMAIN store'
    BY <1>1, <1>3
  <2>8. BuilderOk(y, DOMAIN store')
    BY <2>3, <2>5, <2>6, <2>7 DEF BuilderOk
  <2>9. building' = [building EXCEPT ![p] = y]
    BY <2>1, <2>2, <2>3, <2>4
  <2>10. BothPinned(built', DOMAIN store')
    BY <2>1 DEF Pins, BothPinned
  <2> QED
    BY <2>8, <2>9, <2>10
<1> QED
  BY <1>2, <1>3

\* Every step of the builders keeps it.
LEMMA PinsKept ==
    ASSUME Pins, BuildNext
    PROVE  Pins'
<1>1. ASSUME NEW p \in Process, NEW b, building' = [building EXCEPT ![p] = b],
             BuilderOk(b, DOMAIN store), ~At(p, "write"), UNCHANGED <<store, kills>>,
             BothPinned(built', DOMAIN store)
      PROVE  Pins'
  <2>1. ASSUME kills = 0, NEW cid \in DOMAIN store PROVE Safe(cid)'
    BY <1>1, <2>1, StaysSafe DEF Pins
  <2> QED
    BY <1>1, <2>1, BuilderMoves
<1>2. ASSUME NEW p \in Process, NEW job \in Job, StartBuild(p, job) PROVE Pins'
  <2>1. PICK b : /\ b = [at |-> "attest", job |-> job, nonce |-> builds,
                         binary |-> Compile(tree, job.version, job.commit, job.inject)]
                 /\ building' = [building EXCEPT ![p] = b]
    BY <1>2 DEF StartBuild
  <2>2. b.at = "attest" /\ b.binary.kind = "binary"
    BY <2>1 DEF Compile
  <2>3. BuilderOk(b, DOMAIN store)
    BY <2>2 DEF BuilderOk
  <2>4. ~At(p, "write") /\ UNCHANGED <<store, kills, built>>
    BY <1>2 DEF StartBuild, At
  <2> QED
    BY <1>1, <2>1, <2>3, <2>4 DEF Pins
<1>3. ASSUME NEW p \in Process, Attest(p) PROVE Pins'
  <2>1. PICK bin, att : /\ bin = building[p].binary
                        /\ att = AttestationOf(building[p].job, bin, tree, building[p].nonce)
    OBVIOUS
  <2>2. building' = [building EXCEPT ![p] = [at |-> "exists", todo |-> <<bin, att>>, att |-> att]]
    BY <1>3, <2>1 DEF Attest
  <2>3. bin.kind = "binary"
    <3>1. building[p].at = "attest" /\ BuilderOk(building[p], DOMAIN store)
      BY <1>3 DEF Attest, At, Pins
    <3>2. building[p] # Idle
      BY <3>1 DEF Idle
    <3> QED
      BY <2>1, <3>1, <3>2 DEF BuilderOk
  <2>4. att.kind = "A_build" /\ att.output_binary_hash = Sha256(bin)
    BY <2>1 DEF AttestationOf
  <2>5. bin # att
    BY <2>3, <2>4
  <2>6. PICK todo : todo = <<bin, att>>
    OBVIOUS
  <2>7. todo[1] = bin
    BY <2>6
  <2>8. PICK b : b = [at |-> "exists", todo |-> todo, att |-> att]
    OBVIOUS
  <2>9. b.at = "exists" /\ b.todo = todo /\ b.att = att
    BY <2>8
  <2>10. BuilderOk(b, DOMAIN store)
    BY <2>4, <2>5, <2>7, <2>8, <2>9 DEF BuilderOk
  <2>11. ~At(p, "write") /\ UNCHANGED <<store, kills, built>>
    BY <1>3 DEF Attest, At
  <2>12. building' = [building EXCEPT ![p] = b]
    BY <2>2, <2>6, <2>8
  <2> QED
    BY <1>1, <2>10, <2>11, <2>12 DEF Pins
<1>4. ASSUME NEW p \in Process, NEW stage \in {"exists", "open", "write"}, At(p, stage),
             NEW next \in {"open", "write"}, building' = [building EXCEPT ![p].at = next]
      PROVE  \E b : /\ building' = [building EXCEPT ![p] = b] /\ BuilderOk(b, DOMAIN store)
                    /\ b.at = next /\ b.todo[1] = Item(p)
  <2>1. PICK todo, att :
          /\ building[p] = [at |-> stage, todo |-> todo, att |-> att]
          /\ building[p].att = att /\ Item(p) = todo[1]
          /\ \/ todo[1] # att /\ att.output_binary_hash = Sha256(todo[1])
             \/ todo[1] = att /\ att.output_binary_hash \in DOMAIN store
    BY <1>4, AtPut
  <2>2. PICK x : x = building[p]
    OBVIOUS
  <2>3. x = [at |-> stage, todo |-> todo, att |-> att]
    BY <2>1, <2>2
  <2>4. PICK y : y = [x EXCEPT !.at = next]
    OBVIOUS
  <2>5. y = [at |-> next, todo |-> todo, att |-> att]
    BY <2>3, <2>4
  <2>6. y.at = next /\ y.todo = todo /\ y.att = att
    BY <2>5
  <2>7. BuilderOk(y, DOMAIN store)
    BY <2>1, <2>5, <2>6 DEF BuilderOk
  <2>8. building' = [building EXCEPT ![p] = y]
    BY <1>4, <2>2, <2>4 DEF Pins
  <2> QED
    BY <2>1, <2>6, <2>7, <2>8
<1>5. ASSUME NEW p \in Process, PutExists(p) PROVE Pins'
  <2>1. At(p, "exists") /\ ~At(p, "write") /\ UNCHANGED <<store, kills>>
    BY <1>5 DEF PutExists, At
  <2>2. CASE StoreExists(Sha256(Item(p))) /\ Pinned(p)
    <3>1. /\ \E b : building' = [building EXCEPT ![p] = b] /\ BuilderOk(b, DOMAIN store')
          /\ BothPinned(built', DOMAIN store')
      BY <2>1, <2>2, PinnedMoves DEF StoreExists
    <3> QED
      BY <1>1, <2>1, <3>1
  <2>3. CASE building' = [building EXCEPT ![p].at = "open"] /\ UNCHANGED built
    <3>1. \E b : building' = [building EXCEPT ![p] = b] /\ BuilderOk(b, DOMAIN store)
      BY <1>4, <2>1, <2>3
    <3> QED
      BY <1>1, <2>1, <2>3, <3>1 DEF Pins
  <2> QED
    BY <1>5, <2>2, <2>3 DEF PutExists
<1>6. ASSUME NEW p \in Process, PutOpen(p) PROVE Pins'
  <2>1. PICK cid : cid = Sha256(Item(p))
    OBVIOUS
  <2>2. /\ At(p, "open") /\ building' = [building EXCEPT ![p].at = "write"]
        /\ store' = [c \in DOMAIN store \cup {cid} |-> IF c = cid THEN Torn ELSE store[c]]
        /\ UNCHANGED <<kills, built>>
    BY <1>6, <2>1 DEF PutOpen, StoreWrite
  <2>3. PICK b : /\ building' = [building EXCEPT ![p] = b] /\ BuilderOk(b, DOMAIN store)
                 /\ b.at = "write" /\ b.todo[1] = Item(p)
    BY <1>4, <2>2
  <2>4. DOMAIN store \subseteq DOMAIN store'
    BY <2>2
  <2>5. BuilderOk(b, DOMAIN store')
    BY <2>3, <2>4, MoreFiles
  <2>6. BothPinned(built', DOMAIN store')
    BY <2>2, <2>4 DEF Pins, BothPinned
  <2>7. Safe(cid)'
    <3>1. building'[p] = b
      BY <2>3 DEF Pins
    <3>2. At(p, "write")' /\ Sha256(Item(p))' = cid
      BY <2>1, <2>3, <3>1 DEF At, Item, Sha256
    <3> QED
      BY <3>2 DEF Safe
  <2>8. ASSUME kills = 0, NEW c \in DOMAIN store' PROVE Safe(c)'
    <3>1. CASE c = cid
      BY <2>7, <3>1
    <3>2. CASE c # cid
      <4>1. c \in DOMAIN store /\ store'[c] = store[c]
        BY <2>2, <2>8, <3>2
      <4>2. Safe(c)
        BY <2>8, <4>1 DEF Pins
      <4>3. ~At(p, "write")
        BY <2>2 DEF At
      <4> QED
        BY <2>3, <2>8, <4>1, <4>2, <4>3, StaysSafe
    <3> QED
      BY <3>1, <3>2
  <2> QED
    BY <2>2, <2>3, <2>4, <2>5, <2>6, <2>8, BuilderMoves
<1>7. ASSUME NEW p \in Process, PutWrite(p) PROVE Pins'
  <2>1. PICK cid, item : cid = Sha256(item) /\ item = Item(p)
    OBVIOUS
  <2>2. /\ At(p, "write") /\ Pinned(p) /\ UNCHANGED kills
        /\ store' = [c \in DOMAIN store \cup {cid} |-> IF c = cid THEN item ELSE store[c]]
    BY <1>7, <2>1 DEF PutWrite, StoreWrite
  <2>3. DOMAIN store \subseteq DOMAIN store' /\ cid \in DOMAIN store' /\ store'[cid] = item
    BY <2>2
  <2>4. /\ \E b : building' = [building EXCEPT ![p] = b] /\ BuilderOk(b, DOMAIN store')
        /\ BothPinned(built', DOMAIN store')
    BY <2>1, <2>2, <2>3, PinnedMoves
  <2>5. Safe(cid)'
    BY <2>1, <2>3 DEF Safe, StoreReadable, Sha256
  <2>6. PICK b : building' = [building EXCEPT ![p] = b] /\ BuilderOk(b, DOMAIN store')
    BY <2>4
  <2>7. ASSUME kills = 0, NEW c \in DOMAIN store' PROVE Safe(c)'
    <3>1. CASE c = cid
      BY <2>5, <3>1
    <3>2. CASE c # cid
      <4>1. c \in DOMAIN store /\ store'[c] = store[c]
        BY <2>2, <2>7, <3>2
      <4>2. Safe(c)
        BY <2>7, <4>1 DEF Pins
      <4>3. Sha256(Item(p)) # c
        BY <2>1, <3>2
      <4> QED
        BY <2>3, <2>6, <4>1, <4>2, <4>3, StaysSafe
    <3> QED
      BY <3>1, <3>2
  <2> QED
    BY <2>2, <2>3, <2>4, <2>6, <2>7, BuilderMoves
<1>8. ASSUME NEW p \in Process, Kill(p) PROVE Pins'
  <2>1. /\ kills' = kills + 1 /\ building' = [building EXCEPT ![p] = Idle]
        /\ UNCHANGED <<built, store>>
    BY <1>8 DEF Kill
  <2>2. building' = [q \in Process |-> IF q = p THEN Idle ELSE building[q]]
    BY <2>1 DEF Pins
  <2>3. \A q \in Process : BuilderOk(building'[q], DOMAIN store)
    BY <2>2 DEF Pins, BuilderOk
  <2>4. building' = [q \in Process |-> building'[q]]
    BY <2>2
  <2>5. kills' \in Nat /\ kills' # 0
    BY <2>1 DEF Pins
  <2> QED
    BY <2>1, <2>3, <2>4, <2>5 DEF Pins
<1>9. ASSUME NEW content \in Tree, EditTree(content) PROVE Pins'
  <2>1. UNCHANGED <<building, built, kills, store>>
    BY <1>9 DEF EditTree
  <2>2. \A cid : Safe(cid)' <=> Safe(cid)
    BY <2>1 DEF Safe, StoreReadable, At, Item
  <2> QED
    BY <2>1, <2>2 DEF Pins
<1> QED
  BY <1>2, <1>3, <1>5, <1>6, <1>7, <1>8, <1>9 DEF BuildNext, BuildStep

\* The chain and the client leave the builders and the store alone.
LEMMA PinsUntouched ==
    ASSUME Pins, UNCHANGED <<buildVars, store>>
    PROVE  Pins'
<1>1. UNCHANGED <<building, built, kills, store>>
  BY DEF buildVars
<1>2. \A cid : Safe(cid)' <=> Safe(cid)
  BY <1>1 DEF Safe, StoreReadable, At, Item
<1> QED
  BY <1>1, <1>2 DEF Pins

\* As long as no builder was killed, the binary and the attestation of every
\* finished build can be read back, but for the moment in which another builder
\* that found the file missing writes the same bytes again.
THEOREM PinsAlwaysReadable == DistributionSpec => []PinnedUnlessRewritten
<1>1. DistributionInit => Pins
  BY PinsInit DEF DistributionInit
<1>2. ASSUME Pins, [DistributionNext]_distributionVars PROVE Pins'
  <2>1. CASE BuildNext
    BY <1>2, <2>1, PinsKept
  <2>2. CASE UNCHANGED <<buildVars, store>>
    BY <1>2, <2>2, PinsUntouched
  <2> QED
    BY <1>2, <2>1, <2>2 DEF DistributionNext, Bless, Client, distributionVars
<1>3. Pins => PinnedUnlessRewritten
  BY DEF Pins, PinnedUnlessRewritten, BothPinned, Safe
<1> QED
  BY <1>1, <1>2, <1>3, PTL DEF DistributionSpec

-----------------------------------------------------------------------------
(* The client *)

IsLog(l) == \E S : l \in Seq(S)

\* Both files of a version, either of which may be missing.
InstalledOk ==
    /\ installed = [v \in DOMAIN installed |-> installed[v]]
    /\ \A v \in DOMAIN installed :
          \E b, a : installed[v] = [binary |-> b, attestation |-> a]

\* Of the first n entries the ones that none up to the m-th supersedes are installed.
Covered(n, m) ==
    \A j \in 1..n : (\A k \in (j + 1)..m : log[k].version # log[j].version)
                    => TargetIsBlessed(log[j])

\* The client in its loop, before it looks at entry i.
AtEntry(count, i) ==
    /\ client = [at |-> "entry", count |-> count, i |-> i]
    /\ count \in 0..Len(log) /\ i \in 1..(count + 1) /\ Covered(i - 1, i - 1)

\* It works on entry i.
WorksOn(count, i, entry) ==
    count \in 0..Len(log) /\ i \in 1..count /\ entry = log[i] /\ Covered(i - 1, i)

AtFetch(count, i, entry) ==
    /\ client = [at |-> "fetch", count |-> count, i |-> i, entry |-> entry]
    /\ WorksOn(count, i, entry)

AtVerify(count, i, entry, att) ==
    /\ client = [at |-> "verify", count |-> count, i |-> i, entry |-> entry, att |-> att]
    /\ WorksOn(count, i, entry) /\ BindsEntry(att, entry)

Writing == {"openBinary", "writeBinary", "openAttestation", "writeAttestation"}

AtWriting(stage, count, i, entry, att, binary) ==
    /\ client = [at |-> stage, count |-> count, i |-> i, entry |-> entry, att |-> att,
                 binary |-> binary]
    /\ stage \in Writing
    /\ WorksOn(count, i, entry) /\ BindsEntry(att, entry)
    /\ att.builder \in Registered /\ SignatureOk(att)
    /\ Sha256(binary) = entry.output_binary_hash
    /\ stage \in {"openAttestation", "writeAttestation"} => TargetIsBlessed(entry)

AtReturned(count) ==
    client = [at |-> "returned", count |-> count] /\ count \in 0..Len(log)
    /\ Covered(count, count)

\* Where the client can be.
Somewhere ==
    \/ client = Down
    \/ client = [at |-> "count"]
    \/ \E count, i : AtEntry(count, i)
    \/ \E count, i, entry : AtFetch(count, i, entry)
    \/ \E count, i, entry, att : AtVerify(count, i, entry, att)
    \/ \E stage, count, i, entry, att, binary : AtWriting(stage, count, i, entry, att, binary)
    \/ \E count : AtReturned(count)

\* The inductive invariant of the client.
Syncs == IsLog(log) /\ InstalledOk /\ Somewhere

\* What the stage of the client says about it.
LEMMA StageOf ==
    ASSUME Somewhere
    PROVE  /\ ClientAt("entry") => \E count, i : AtEntry(count, i)
           /\ ClientAt("fetch") => \E count, i, entry : AtFetch(count, i, entry)
           /\ ClientAt("verify") => \E count, i, entry, att : AtVerify(count, i, entry, att)
           /\ \A st \in Writing : ClientAt(st) =>
                \E count, i, entry, att, binary : AtWriting(st, count, i, entry, att, binary)
           /\ ClientAt("returned") => \E count : AtReturned(count)
<1>1. (client = Down => client.at = "down") /\ (client = [at |-> "count"] => client.at = "count")
  BY DEF Down
<1>2. \A count, i : AtEntry(count, i) => client.at = "entry"
  BY DEF AtEntry
<1>3. \A count, i, entry : AtFetch(count, i, entry) => client.at = "fetch"
  BY DEF AtFetch
<1>4. \A count, i, entry, att : AtVerify(count, i, entry, att) => client.at = "verify"
  BY DEF AtVerify
<1>5. \A stage, count, i, entry, att, binary :
        AtWriting(stage, count, i, entry, att, binary) => client.at = stage /\ stage \in Writing
  BY DEF AtWriting
<1>6. \A count : AtReturned(count) => client.at = "returned"
  BY DEF AtReturned
<1>7. \A st \in Writing : st \notin {"down", "count", "entry", "fetch", "verify", "returned"}
  BY DEF Writing
<1>8. CASE client = Down \/ client = [at |-> "count"]
  BY <1>1, <1>7, <1>8 DEF ClientAt
<1>9. CASE \E count, i : AtEntry(count, i)
  BY <1>2, <1>7, <1>9 DEF ClientAt
<1>10. CASE \E count, i, entry : AtFetch(count, i, entry)
  BY <1>3, <1>7, <1>10 DEF ClientAt
<1>11. CASE \E count, i, entry, att : AtVerify(count, i, entry, att)
  BY <1>4, <1>7, <1>11 DEF ClientAt
<1>12. ASSUME NEW stage, NEW count, NEW i, NEW entry, NEW att, NEW binary,
              AtWriting(stage, count, i, entry, att, binary)
       PROVE  /\ ~ClientAt("entry") /\ ~ClientAt("fetch") /\ ~ClientAt("verify")
              /\ ~ClientAt("returned")
              /\ \A st \in Writing : ClientAt(st) => st = stage
  BY <1>5, <1>7, <1>12 DEF ClientAt
<1>13. CASE \E count : AtReturned(count)
  BY <1>6, <1>7, <1>13 DEF ClientAt
<1> QED
  BY <1>8, <1>9, <1>10, <1>11, <1>12, <1>13 DEF Somewhere

\* Writing one file of a version.
LEMMA TargetWritten ==
    ASSUME InstalledOk, NEW v, NEW file \in {"binary", "attestation"}, NEW bytes,
           WriteTarget(v, file, bytes)
    PROVE  /\ InstalledOk'
           /\ \A w : w # v => Target(w)' = Target(w)
           /\ Target(v)' = installed'[v]
           /\ file = "binary" => Target(v)'.binary = bytes
           /\ file = "attestation" => /\ Target(v)'.binary = Target(v).binary
                                      /\ Target(v)'.attestation = bytes
<1>1. PICK b, a : Target(v) = [binary |-> b, attestation |-> a]
  BY DEF Target, NoTarget, InstalledOk
<1>2. PICK old, new : old = Target(v) /\ new = [old EXCEPT ![file] = bytes]
  OBVIOUS
<1>3. old = [binary |-> b, attestation |-> a]
  BY <1>1, <1>2
<1>4. /\ file = "binary" => new = [binary |-> bytes, attestation |-> a]
      /\ file = "attestation" => new = [binary |-> b, attestation |-> bytes]
  <2>1. new = [old EXCEPT ![file] = bytes]
    BY <1>2
  <2>2. CASE file = "binary"
    <3>1. new = [old EXCEPT !.binary = bytes]
      BY <2>1, <2>2
    <3>2. new = [binary |-> bytes, attestation |-> a]
      BY <1>3, <3>1
    <3> QED
      BY <2>2, <3>2
  <2>3. CASE file = "attestation"
    <3>1. new = [old EXCEPT !.attestation = bytes]
      BY <2>1, <2>3
    <3>2. new = [binary |-> b, attestation |-> bytes]
      BY <1>3, <3>1
    <3> QED
      BY <2>3, <3>2
  <2> QED
    BY <2>2, <2>3
<1>5. installed' = [w \in DOMAIN installed \cup {v} |-> IF w = v THEN new ELSE installed[w]]
  BY <1>2 DEF WriteTarget
<1>6. /\ DOMAIN installed' = DOMAIN installed \cup {v} /\ installed'[v] = new
      /\ \A w \in DOMAIN installed : w # v => installed'[w] = installed[w]
      /\ installed' = [w \in DOMAIN installed' |-> installed'[w]]
  BY <1>5
<1>7. Target(v)' = new /\ Target(v)' = installed'[v]
  BY <1>6 DEF Target
<1>8. \A w : w # v => Target(w)' = Target(w)
  BY <1>6 DEF Target
<1>9. \E x, y : new = [binary |-> x, attestation |-> y]
  BY <1>4
<1>10. ASSUME NEW w \in DOMAIN installed'
       PROVE  \E x, y : installed'[w] = [binary |-> x, attestation |-> y]
  <2>1. CASE w = v
    BY <1>6, <1>9, <2>1
  <2>2. CASE w # v
    <3>1. w \in DOMAIN installed /\ installed'[w] = installed[w]
      BY <1>6, <1>10, <2>2
    <3> QED
      BY <3>1 DEF InstalledOk
  <2> QED
    BY <2>1, <2>2
<1>11. InstalledOk'
  BY <1>6, <1>10 DEF InstalledOk
<1>12. /\ file = "binary" => new.binary = bytes
       /\ file = "attestation" => new.binary = old.binary /\ new.attestation = bytes
  BY <1>3, <1>4
<1> QED
  BY <1>2, <1>7, <1>8, <1>11, <1>12

\* What is covered stays covered when nothing of it is written.
LEMMA StaysCovered ==
    ASSUME NEW n \in Nat, NEW m \in Nat, n <= m, Covered(n, m),
           \A k \in 1..m : log'[k] = log[k],
           \A j \in 1..n : (\A k \in (j + 1)..m : log[k].version # log[j].version)
                           => Target(log[j].version)'.binary = Target(log[j].version).binary
    PROVE  Covered(n, m)'
<1> SUFFICES ASSUME NEW j \in 1..n,
                    \A k \in (j + 1)..m : log'[k].version # log'[j].version
             PROVE  TargetIsBlessed(log[j])'
  BY DEF Covered
<1>1. j \in 1..m /\ \A k \in (j + 1)..m : k \in 1..m
  OBVIOUS
<1>2. log'[j] = log[j] /\ \A k \in (j + 1)..m : log[k].version # log[j].version
  BY <1>1
<1>3. TargetIsBlessed(log[j])
      /\ Target(log[j].version)'.binary = Target(log[j].version).binary
  BY <1>2 DEF Covered
<1>4. Sha256(Target(log[j].version)'.binary) = log[j].output_binary_hash
  BY <1>3 DEF TargetIsBlessed
<1> QED
  BY <1>2, <1>4 DEF TargetIsBlessed, Sha256, Target

\* The client goes on without a write, or the log grows behind it.
LEMMA CoveredStays ==
    ASSUME NEW n \in Nat, NEW m \in Nat, n <= m, Covered(n, m), installed' = installed,
           \A k \in 1..m : log'[k] = log[k]
    PROVE  Covered(n, m)'
<1>1. \A v : Target(v)' = Target(v)
  BY DEF Target
<1> QED
  BY <1>1, StaysCovered

\* A file of the entry the client works on is written.
LEMMA CoveredBeside ==
    ASSUME InstalledOk, NEW count, NEW i, NEW entry, WorksOn(count, i, entry), IsLog(log),
           NEW file \in {"binary", "attestation"}, NEW bytes,
           WriteTarget(entry.version, file, bytes), log' = log
    PROVE  WorksOn(count, i, entry)'
<1>1. /\ count \in 0..Len(log) /\ i \in 1..count /\ entry = log[i] /\ Covered(i - 1, i)
      /\ Len(log) \in Nat
  BY DEF WorksOn, IsLog
<1>2. \A w : w # entry.version => Target(w)' = Target(w)
  BY TargetWritten
<1>3. i \in Nat /\ i - 1 \in Nat /\ i - 1 <= i
  BY <1>1
<1>4. ASSUME NEW j \in 1..(i - 1), \A k \in (j + 1)..i : log[k].version # log[j].version
      PROVE  Target(log[j].version)'.binary = Target(log[j].version).binary
  <2>1. i \in (j + 1)..i
    BY <1>3
  <2> QED
    BY <1>1, <1>2, <1>4, <2>1
<1>5. Covered(i - 1, i)'
  BY <1>1, <1>3, <1>4, StaysCovered
<1> QED
  BY <1>1, <1>5 DEF WorksOn

\* Once entry i is installed, one more is covered.
LEMMA OneMoreCovered ==
    ASSUME NEW count, NEW i, NEW entry, WorksOn(count, i, entry), IsLog(log),
           TargetIsBlessed(entry)
    PROVE  Covered(i, i)
<1>1. /\ i \in 1..count /\ count \in 0..Len(log) /\ Len(log) \in Nat
      /\ entry = log[i] /\ Covered(i - 1, i)
  BY DEF WorksOn, IsLog
<1>2. ASSUME NEW j \in 1..i, \A k \in (j + 1)..i : log[k].version # log[j].version
      PROVE  TargetIsBlessed(log[j])
  <2>1. CASE j = i
    BY <1>1, <2>1
  <2>2. CASE j # i
    <3>1. j \in 1..(i - 1)
      BY <1>1, <2>2
    <3> QED
      BY <1>1, <1>2, <3>1 DEF Covered
  <2> QED
    BY <2>1, <2>2
<1> QED
  BY <1>2 DEF Covered

\* What was covered up to i - 1 is covered but for the version of entry i.
LEMMA CoveredLess ==
    ASSUME NEW i \in Nat, i >= 1, Covered(i - 1, i - 1)
    PROVE  Covered(i - 1, i)
<1>1. ASSUME NEW j \in 1..(i - 1), \A k \in (j + 1)..i : log[k].version # log[j].version
      PROVE  TargetIsBlessed(log[j])
  <2>1. \A k \in (j + 1)..(i - 1) : k \in (j + 1)..i
    OBVIOUS
  <2> QED
    BY <1>1, <2>1 DEF Covered
<1> QED
  BY <1>1 DEF Covered

\* The client does not look back: what it knows stays so while the log grows.
LEMMA SomewhereStays ==
    ASSUME Syncs, UNCHANGED clientVars, IsLog(log'), Len(log) <= Len(log'),
           \A k \in 1..Len(log) : log'[k] = log[k]
    PROVE  Syncs'
<1>1. client' = client /\ installed' = installed
  BY DEF clientVars
<1>2. Len(log) \in Nat /\ Len(log') \in Nat
  BY DEF Syncs, IsLog
<1>3. InstalledOk'
  BY <1>1 DEF Syncs, InstalledOk
<1>4. \A e : TargetIsBlessed(e)' <=> TargetIsBlessed(e)
  BY <1>1 DEF TargetIsBlessed, Target, Sha256
<1>5. ASSUME NEW n \in Nat, NEW m \in Nat, n <= m, m <= Len(log), Covered(n, m)
      PROVE  Covered(n, m)'
  <2>1. \A k \in 1..m : log'[k] = log[k]
    BY <1>2, <1>5
  <2> QED
    BY <1>1, <1>5, <2>1, CoveredStays
<1>6. ASSUME NEW count, NEW i, AtEntry(count, i) PROVE AtEntry(count, i)'
  <2>1. count \in 0..Len(log) /\ i \in 1..(count + 1) /\ Covered(i - 1, i - 1)
    BY <1>6 DEF AtEntry
  <2>2. count \in 0..Len(log') /\ i - 1 \in Nat /\ i - 1 <= Len(log)
    BY <1>2, <2>1
  <2>3. Covered(i - 1, i - 1)'
    BY <1>5, <2>1, <2>2
  <2> QED
    BY <1>1, <1>6, <2>1, <2>2, <2>3 DEF AtEntry
<1>7. ASSUME NEW count, NEW i, NEW entry, WorksOn(count, i, entry)
      PROVE  WorksOn(count, i, entry)'
  <2>1. count \in 0..Len(log) /\ i \in 1..count /\ entry = log[i] /\ Covered(i - 1, i)
    BY <1>7 DEF WorksOn
  <2>2. count \in 0..Len(log') /\ i - 1 \in Nat /\ i \in Nat /\ i - 1 <= i /\ i <= Len(log)
        /\ i \in 1..Len(log)
    BY <1>2, <2>1
  <2>3. Covered(i - 1, i)'
    BY <1>5, <2>1, <2>2
  <2> QED
    BY <2>1, <2>2, <2>3 DEF WorksOn
<1>8. ASSUME NEW count, NEW i, NEW entry, AtFetch(count, i, entry)
      PROVE  AtFetch(count, i, entry)'
  BY <1>1, <1>7, <1>8 DEF AtFetch
<1>9. ASSUME NEW count, NEW i, NEW entry, NEW att, AtVerify(count, i, entry, att)
      PROVE  AtVerify(count, i, entry, att)'
  BY <1>1, <1>7, <1>9 DEF AtVerify, BindsEntry
<1>10. ASSUME NEW stage, NEW count, NEW i, NEW entry, NEW att, NEW binary,
              AtWriting(stage, count, i, entry, att, binary)
       PROVE  AtWriting(stage, count, i, entry, att, binary)'
  BY <1>1, <1>4, <1>7, <1>10 DEF AtWriting, BindsEntry, SignatureOk, Sha256
<1>11. ASSUME NEW count, AtReturned(count) PROVE AtReturned(count)'
  <2>1. count \in 0..Len(log) /\ Covered(count, count)
    BY <1>11 DEF AtReturned
  <2>2. count \in 0..Len(log') /\ count \in Nat /\ count <= Len(log)
    BY <1>2, <2>1
  <2>3. Covered(count, count)'
    BY <1>5, <2>1, <2>2
  <2> QED
    BY <1>1, <1>11, <2>2, <2>3 DEF AtReturned
<1>12. Somewhere'
  <2>1. CASE client = Down \/ client = [at |-> "count"]
    BY <1>1, <2>1 DEF Somewhere
  <2>2. CASE \E count, i : AtEntry(count, i)
    BY <1>6, <2>2 DEF Somewhere
  <2>3. CASE \E count, i, entry : AtFetch(count, i, entry)
    BY <1>8, <2>3 DEF Somewhere
  <2>4. CASE \E count, i, entry, att : AtVerify(count, i, entry, att)
    BY <1>9, <2>4 DEF Somewhere
  <2>5. CASE \E stage, count, i, entry, att, binary :
               AtWriting(stage, count, i, entry, att, binary)
    BY <1>10, <2>5 DEF Somewhere
  <2>6. CASE \E count : AtReturned(count)
    BY <1>11, <2>6 DEF Somewhere
  <2> QED
    BY <2>1, <2>2, <2>3, <2>4, <2>5, <2>6 DEF Syncs, Somewhere
<1> QED
  BY <1>3, <1>12 DEF Syncs

\* It holds before the client runs.
LEMMA SyncsInit == ClientInit => Syncs
<1> SUFFICES ASSUME ClientInit PROVE Syncs
  OBVIOUS
<1>1. IsLog(log)
  <2>1. <<>> \in Seq({})
    OBVIOUS
  <2> QED
    BY <2>1 DEF ClientInit, IsLog
<1>2. InstalledOk
  BY DEF ClientInit, InstalledOk
<1>3. Somewhere
  BY DEF ClientInit, Somewhere
<1> QED
  BY <1>1, <1>2, <1>3 DEF Syncs

\* An entry is read: it is installed already, or the client starts to work on it.
LEMMA EntryRead ==
    ASSUME Syncs, ReadEntry, log' = log
    PROVE  Syncs'
<1>1. PICK count, i : AtEntry(count, i)
  BY StageOf DEF Syncs, ReadEntry
<1>2. /\ client.count = count /\ client.i = i
      /\ count \in 0..Len(log) /\ i \in 1..(count + 1) /\ Covered(i - 1, i - 1)
      /\ Len(log) \in Nat /\ i <= count /\ installed' = installed
  <2>1. client.count = count /\ client.i = i
    BY <1>1 DEF AtEntry
  <2>2. Len(log) \in Nat
    BY DEF Syncs, IsLog
  <2> QED
    BY <1>1, <2>1, <2>2 DEF AtEntry, ReadEntry
<1>3. PICK entry : entry = log[i]
  OBVIOUS
<1>4. i \in Nat /\ i >= 1 /\ i \in 1..count /\ i - 1 \in Nat /\ i - 1 <= i /\ i + 1 \in 1..(count + 1)
      /\ (i + 1) - 1 = i
  BY <1>2
<1>5. WorksOn(count, i, entry)
  BY <1>2, <1>3, <1>4, CoveredLess DEF WorksOn
<1>6. InstalledOk' /\ IsLog(log')
  BY <1>2 DEF Syncs, InstalledOk
<1>7. CASE AlreadyInstalled(entry)
  <2>1. client' = [at |-> "entry", count |-> count, i |-> i + 1]
    BY <1>2, <1>3, <1>7 DEF ReadEntry, NextEntry
  <2>2. TargetIsBlessed(entry)
    BY <1>7 DEF AlreadyInstalled, TargetIsBlessed
  <2>3. Covered(i, i)
    BY <1>5, <2>2, OneMoreCovered DEF Syncs
  <2>4. Covered(i, i)'
    BY <1>2, <1>4, <2>3, CoveredStays
  <2>5. AtEntry(count, i + 1)'
    BY <1>2, <1>4, <2>1, <2>4 DEF AtEntry
  <2> QED
    BY <1>6, <2>5 DEF Syncs, Somewhere
<1>8. CASE ~AlreadyInstalled(entry)
  <2>1. client' = [at |-> "fetch", count |-> count, i |-> i, entry |-> entry]
    BY <1>2, <1>3, <1>8 DEF ReadEntry
  <2>2. Covered(i - 1, i)'
    BY <1>2, <1>4, <1>5, CoveredStays DEF WorksOn
  <2>3. WorksOn(count, i, entry)'
    BY <1>5, <2>2 DEF WorksOn
  <2>4. AtFetch(count, i, entry)'
    BY <2>1, <2>3 DEF AtFetch
  <2> QED
    BY <1>6, <2>4 DEF Syncs, Somewhere
<1> QED
  BY <1>7, <1>8

\* Without a write, the client goes on with its entry.
LEMMA WorksOnStays ==
    ASSUME NEW count, NEW i, NEW entry, WorksOn(count, i, entry), IsLog(log),
           log' = log, installed' = installed
    PROVE  WorksOn(count, i, entry)'
<1>1. count \in 0..Len(log) /\ i \in 1..count /\ Covered(i - 1, i) /\ Len(log) \in Nat
  BY DEF WorksOn, IsLog
<1>2. i \in Nat /\ i - 1 \in Nat /\ i - 1 <= i
  BY <1>1
<1>3. Covered(i - 1, i)'
  BY <1>1, <1>2, CoveredStays
<1> QED
  BY <1>3 DEF WorksOn

\* The attestation is fetched, or the process ends.
LEMMA AttestationFetched ==
    ASSUME Syncs, FetchAttestation, log' = log
    PROVE  Syncs'
<1>1. PICK count, i, entry : AtFetch(count, i, entry)
  BY StageOf DEF Syncs, FetchAttestation
<1>2. client.count = count /\ client.i = i /\ client.entry = entry /\ WorksOn(count, i, entry)
  BY <1>1 DEF AtFetch
<1>3. PICK cid : cid = entry.attestation_cid
  OBVIOUS
<1>4. installed' = installed
  BY DEF FetchAttestation, Throw
<1>5. InstalledOk' /\ IsLog(log') /\ WorksOn(count, i, entry)'
  BY <1>2, <1>4, WorksOnStays DEF Syncs, InstalledOk
<1>6. CASE client' = Down
  BY <1>5, <1>6 DEF Syncs, Somewhere
<1>7. CASE client' # Down
  <2>1. PICK att : att = store[cid] /\ BindsEntry(att, entry)
                   /\ client' = [at |-> "verify", count |-> count, i |-> i, entry |-> entry,
                                 att |-> att]
    BY <1>2, <1>3, <1>7 DEF FetchAttestation, Throw
  <2>2. AtVerify(count, i, entry, att)'
    BY <1>5, <2>1 DEF AtVerify, BindsEntry
  <2> QED
    BY <1>5, <2>2 DEF Syncs, Somewhere
<1> QED
  BY <1>6, <1>7

\* Signature and registry are checked and the binary is fetched, or the process ends.
LEMMA BuilderVerified ==
    ASSUME Syncs, VerifyBuilder, log' = log
    PROVE  Syncs'
<1>1. PICK count, i, entry, att : AtVerify(count, i, entry, att)
  BY StageOf DEF Syncs, VerifyBuilder
<1>2. /\ client.count = count /\ client.i = i /\ client.entry = entry /\ client.att = att
      /\ WorksOn(count, i, entry) /\ BindsEntry(att, entry)
  BY <1>1 DEF AtVerify
<1>3. PICK cid : cid = entry.output_binary_hash
  OBVIOUS
<1>4. installed' = installed
  BY DEF VerifyBuilder, Throw
<1>5. InstalledOk' /\ IsLog(log') /\ WorksOn(count, i, entry)'
  BY <1>2, <1>4, WorksOnStays DEF Syncs, InstalledOk
<1>6. CASE client' = Down
  BY <1>5, <1>6 DEF Syncs, Somewhere
<1>7. CASE client' # Down
  <2>1. /\ att.builder \in Registered /\ SignatureOk(att) /\ StoreReadable(cid)
        /\ client' = [at |-> "openBinary", count |-> count, i |-> i, entry |-> entry,
                      att |-> att, binary |-> store[cid]]
    BY <1>2, <1>3, <1>7 DEF VerifyBuilder, Throw
  <2>2. PICK binary : binary = store[cid] /\ Sha256(binary) = cid
    BY <2>1 DEF StoreReadable
  <2>3. "openBinary" \in Writing /\ "openBinary" \notin {"openAttestation", "writeAttestation"}
    BY DEF Writing
  <2>4. AtWriting("openBinary", count, i, entry, att, binary)'
    BY <1>2, <1>3, <1>5, <2>1, <2>2, <2>3 DEF AtWriting, BindsEntry, SignatureOk, Sha256
  <2> QED
    BY <1>5, <2>4 DEF Syncs, Somewhere
<1> QED
  BY <1>6, <1>7

\* A file is opened or the binary written, and the client goes to the next call.
LEMMA FileWritten ==
    ASSUME Syncs, log' = log, NEW stage \in Writing, ClientAt(stage), NEW next \in Writing,
           NEW file \in {"binary", "attestation"}, NEW bytes,
           WriteTarget(client.entry.version, file, bytes),
           client' = [client EXCEPT !.at = next],
           \/ next = "writeBinary"
           \/ next = "openAttestation" /\ file = "binary" /\ bytes = client.binary
           \/ next = "writeAttestation" /\ file = "attestation" /\ stage = "openAttestation"
    PROVE  Syncs'
<1>1. PICK count, i, entry, att, binary : AtWriting(stage, count, i, entry, att, binary)
  BY StageOf DEF Syncs
<1>2. /\ client.entry = entry /\ client.binary = binary
      /\ WorksOn(count, i, entry) /\ BindsEntry(att, entry)
      /\ att.builder \in Registered /\ SignatureOk(att)
      /\ Sha256(binary) = entry.output_binary_hash
      /\ stage \in {"openAttestation", "writeAttestation"} => TargetIsBlessed(entry)
  BY <1>1 DEF AtWriting
<1>3. WriteTarget(entry.version, file, bytes) /\ InstalledOk /\ IsLog(log)
  BY <1>2 DEF Syncs
<1>4. /\ InstalledOk'
      /\ file = "binary" => Target(entry.version)'.binary = bytes
      /\ file = "attestation" => Target(entry.version)'.binary = Target(entry.version).binary
  BY <1>3, TargetWritten
<1>5. WorksOn(count, i, entry)'
  BY <1>2, <1>3, CoveredBeside
<1>6. PICK x : x = client
  OBVIOUS
<1>7. x = [at |-> stage, count |-> count, i |-> i, entry |-> entry, att |-> att,
           binary |-> binary]
  BY <1>1, <1>6 DEF AtWriting
<1>8. PICK y : y = [x EXCEPT !.at = next]
  OBVIOUS
<1>9. y = [at |-> next, count |-> count, i |-> i, entry |-> entry, att |-> att,
           binary |-> binary]
  BY <1>7, <1>8
<1>10. client' = y
  BY <1>6, <1>8
<1>11. ASSUME next \in {"openAttestation", "writeAttestation"}
       PROVE  Sha256(Target(entry.version)'.binary) = entry.output_binary_hash
  <2>1. CASE next = "openAttestation"
    BY <1>2, <1>4, <2>1
  <2>2. CASE next = "writeAttestation"
    <3>1. file = "attestation" /\ stage = "openAttestation"
      BY <2>2
    <3> QED
      BY <1>2, <1>4, <3>1 DEF TargetIsBlessed
  <2> QED
    BY <1>11, <2>1, <2>2
<1>12. next \in {"openAttestation", "writeAttestation"} => TargetIsBlessed(entry)'
  BY <1>11 DEF TargetIsBlessed, Sha256
<1>13. AtWriting(next, count, i, entry, att, binary)'
  BY <1>2, <1>5, <1>9, <1>10, <1>12 DEF AtWriting, BindsEntry, SignatureOk, Sha256
<1> QED
  BY <1>3, <1>4, <1>13 DEF Syncs, Somewhere

\* The attestation is written beside the binary it names: the pair is complete, and
\* one more entry is covered.
LEMMA AttestationWritten ==
    ASSUME Syncs, WriteAttestation, log' = log
    PROVE  /\ Syncs'
           /\ LET pair == installed'[client.entry.version]
              IN  /\ pair.attestation.kind = "A_build"
                  /\ pair.attestation.output_binary_hash = Sha256(pair.binary)
                  /\ pair.attestation.builder \in Registered
                  /\ SignatureOk(pair.attestation)
                  /\ \E i \in 1..Len(log) : /\ log[i].version = client.entry.version
                                            /\ log[i].output_binary_hash = Sha256(pair.binary)
<1>0. "writeAttestation" \in Writing
  BY DEF Writing
<1>1. PICK count, i, entry, att, binary :
        AtWriting("writeAttestation", count, i, entry, att, binary)
  BY <1>0, StageOf DEF Syncs, WriteAttestation
<1>2. /\ client.entry = entry /\ client.att = att /\ client.count = count /\ client.i = i
      /\ WorksOn(count, i, entry) /\ BindsEntry(att, entry)
      /\ att.builder \in Registered /\ SignatureOk(att) /\ TargetIsBlessed(entry)
  BY <1>1 DEF AtWriting
<1>3. /\ WriteTarget(entry.version, "attestation", att) /\ InstalledOk /\ IsLog(log)
      /\ client' = [at |-> "entry", count |-> count, i |-> i + 1]
  BY <1>2 DEF Syncs, WriteAttestation, NextEntry
<1>4. /\ InstalledOk' /\ Target(entry.version)' = installed'[entry.version]
      /\ Target(entry.version)'.binary = Target(entry.version).binary
      /\ Target(entry.version)'.attestation = att
  BY <1>3, TargetWritten
<1>5. WorksOn(count, i, entry)'
  BY <1>2, <1>3, CoveredBeside
<1>6. PICK pair : pair = installed'[entry.version] /\ pair.attestation = att
                  /\ Sha256(pair.binary) = entry.output_binary_hash
  BY <1>2, <1>4 DEF TargetIsBlessed
<1>8. Covered(i, i)'
  <2>1. Covered(i, i)
    BY <1>2, <1>3, OneMoreCovered
  <2>2. \A w : Target(w)'.binary = Target(w).binary
    BY <1>3, <1>4, TargetWritten
  <2>3. i \in Nat
    BY <1>2, <1>3 DEF WorksOn, IsLog
  <2> QED
    BY <2>1, <2>2, <2>3, StaysCovered
<1>9. /\ count \in 0..Len(log) /\ i \in 1..count /\ entry = log[i] /\ Len(log) \in Nat
  BY <1>2, <1>3 DEF WorksOn, IsLog
<1>10. i + 1 \in 1..(count + 1) /\ (i + 1) - 1 = i /\ i \in 1..Len(log)
  BY <1>9
<1>11. AtEntry(count, i + 1)'
  BY <1>3, <1>8, <1>9, <1>10 DEF AtEntry
<1>12. Syncs'
  BY <1>3, <1>4, <1>11 DEF Syncs, Somewhere
<1>13. att.kind = "A_build" /\ att.output_binary_hash = entry.output_binary_hash
  BY <1>2 DEF BindsEntry
<1> QED
  BY <1>2, <1>6, <1>9, <1>10, <1>12, <1>13

\* Every step of the client keeps it.
LEMMA SyncsKept ==
    ASSUME Syncs, ClientStep, log' = log
    PROVE  Syncs'
<1>1. Len(log) \in Nat /\ IsLog(log')
  BY DEF Syncs, IsLog
<1>2. CASE StartClient \/ WatchAgain
  <2>1. client' = [at |-> "count"] /\ installed' = installed
    BY <1>2 DEF StartClient, WatchAgain
  <2> QED
    BY <1>1, <2>1 DEF Syncs, Somewhere, InstalledOk
<1>3. CASE ReadCount
  <2>1. client' = [at |-> "entry", count |-> Len(log), i |-> 1] /\ installed' = installed
    BY <1>3 DEF ReadCount
  <2>2. Covered(0, 0)'
    BY DEF Covered
  <2>3. Len(log) \in 0..Len(log') /\ 1 \in 1..(Len(log) + 1) /\ 1 - 1 = 0
    BY <1>1
  <2>4. AtEntry(Len(log), 1)'
    BY <2>1, <2>2, <2>3 DEF AtEntry
  <2>5. InstalledOk'
    BY <2>1 DEF Syncs, InstalledOk
  <2> QED
    BY <1>1, <2>4, <2>5 DEF Syncs, Somewhere
<1>4. CASE ReadEntry
  BY <1>4, EntryRead
<1>5. CASE FetchAttestation
  BY <1>5, AttestationFetched
<1>6. CASE VerifyBuilder
  BY <1>6, BuilderVerified
<1>7. CASE OpenFile("openBinary", "binary", "writeBinary")
  BY <1>7, FileWritten DEF OpenFile, Writing
<1>8. CASE WriteBinary
  BY <1>8, FileWritten DEF WriteBinary, Writing
<1>9. CASE OpenFile("openAttestation", "attestation", "writeAttestation")
  BY <1>9, FileWritten DEF OpenFile, Writing
<1>10. CASE WriteAttestation
  BY <1>10, AttestationWritten
<1>11. CASE SyncReturns
  <2>1. PICK count, i : AtEntry(count, i)
    BY <1>11, StageOf DEF Syncs, SyncReturns
  <2>2. /\ client.count = count /\ client.i = i /\ count \in 0..Len(log)
        /\ i \in 1..(count + 1) /\ Covered(i - 1, i - 1)
    BY <2>1 DEF AtEntry
  <2>3. /\ client' = [at |-> "returned", count |-> count] /\ installed' = installed
        /\ i > count
    BY <1>11, <2>2 DEF SyncReturns
  <2>4. i - 1 = count /\ count \in Nat
    BY <1>1, <2>2, <2>3
  <2>5. Covered(count, count)
    BY <2>2, <2>4
  <2>6. Covered(count, count)'
    BY <2>3, <2>4, <2>5, CoveredStays
  <2>7. AtReturned(count)'
    BY <2>2, <2>3, <2>6 DEF AtReturned
  <2>8. InstalledOk'
    BY <2>3 DEF Syncs, InstalledOk
  <2> QED
    BY <1>1, <2>7, <2>8 DEF Syncs, Somewhere
<1> QED
  BY <1>2, <1>3, <1>4, <1>5, <1>6, <1>7, <1>8, <1>9, <1>10, <1>11 DEF ClientStep

\* And so does every step of the others.
LEMMA SyncsAlways ==
    ASSUME Syncs, [DistributionNext]_distributionVars
    PROVE  Syncs'
<1>1. CASE UNCHANGED <<log, clientVars>>
  <2>1. Len(log) \in Nat
    BY DEF Syncs, IsLog
  <2> QED
    BY <1>1, <2>1, SomewhereStays DEF Syncs
<1>2. ASSUME NEW att, NEW version, NEW cid, Bless(att, version, cid) PROVE Syncs'
  <2>1. PICK e : log' = Append(log, e)
    BY <1>2 DEF Bless
  <2>2. PICK S : log \in Seq(S)
    BY DEF Syncs, IsLog
  <2>3. PICK R : R = S \cup {e}
    OBVIOUS
  <2>4. log \in Seq(R) /\ e \in R
    BY <2>2, <2>3
  <2>5. /\ log' \in Seq(R) /\ Len(log) \in Nat /\ Len(log') = Len(log) + 1
        /\ \A k \in 1..Len(log) : log'[k] = log[k]
    BY <2>1, <2>4
  <2>6. IsLog(log') /\ Len(log) <= Len(log')
    BY <2>5 DEF IsLog
  <2>7. UNCHANGED clientVars
    BY <1>2 DEF Bless
  <2> QED
    BY <2>5, <2>6, <2>7, SomewhereStays
<1>3. CASE Client
  BY <1>3, SyncsKept DEF Client
<1>4. CASE Crash /\ UNCHANGED log
  BY <1>4 DEF Crash, Syncs, Somewhere, InstalledOk
<1> QED
  BY <1>1, <1>2, <1>3, <1>4 DEF DistributionNext, distributionVars

\* What syncProject reports is so: when it returns, the target of every version
\* among the entries it counted is the binary of the newest such entry, whatever
\* was blessed, pinned, torn or interrupted since the client first ran.
THEOREM SyncReportAlwaysTrue == DistributionSpec => []SyncReportTrue
<1>1. DistributionInit => Syncs
  BY SyncsInit DEF DistributionInit
<1>2. Syncs /\ [DistributionNext]_distributionVars => Syncs'
  BY SyncsAlways
<1>3. Syncs => SyncReportTrue
  <2> SUFFICES ASSUME Syncs, ClientAt("returned"), NEW i \in 1..client.count,
                      Newest(i, client.count)
               PROVE  TargetIsBlessed(log[i])
    BY DEF SyncReportTrue
  <2>1. PICK count : AtReturned(count)
    BY StageOf DEF Syncs
  <2>2. client.count = count /\ Covered(count, count)
    BY <2>1 DEF AtReturned
  <2> QED
    BY <2>2 DEF Covered, Newest
<1> QED
  BY <1>1, <1>2, <1>3, PTL DEF DistributionSpec

\* An installation that completes leaves a target and an .attestation.json that
\* belong together, signed by a Build Service of the project, for an entry of the log.
THEOREM InstalledAlwaysBinds == DistributionSpec => InstalledPairBinds
<1>1. DistributionInit => Syncs
  BY SyncsInit DEF DistributionInit
<1>2. Syncs /\ [DistributionNext]_distributionVars => Syncs'
  BY SyncsAlways
<1> DEFINE Binds ==
      ClientAt("writeAttestation") /\ client'.at = "entry" =>
          LET pair == installed'[client.entry.version]
          IN  /\ pair.attestation.kind = "A_build"
              /\ pair.attestation.output_binary_hash = Sha256(pair.binary)
              /\ pair.attestation.builder \in Registered
              /\ SignatureOk(pair.attestation)
              /\ \E i \in 1..Len(log) :
                    /\ log[i].version = client.entry.version
                    /\ log[i].output_binary_hash = Sha256(pair.binary)
<1>3. ASSUME Syncs, [DistributionNext]_distributionVars PROVE Binds
  <2>1. CASE client' = client
    BY <2>1 DEF ClientAt
  <2>2. CASE Client
    <3>1. ClientAt("writeAttestation") => WriteAttestation \/ client' = Down
      BY <2>2 DEF Client, ClientStep, ClientAt, StartClient, ReadCount, ReadEntry,
            FetchAttestation, VerifyBuilder, OpenFile, WriteBinary, SyncReturns, WatchAgain
    <3>2. client' = Down => client'.at # "entry"
      BY DEF Down
    <3>3. WriteAttestation /\ log' = log => Binds
      BY <1>3, AttestationWritten
    <3>4. log' = log
      BY <2>2 DEF Client
    <3> QED
      BY <3>1, <3>2, <3>3, <3>4
  <2>3. CASE Crash
    BY <2>3 DEF Crash, Down
  <2> QED
    BY <1>3, <2>1, <2>2, <2>3
       DEF DistributionNext, Bless, distributionVars, clientVars
<1>4. Syncs /\ [DistributionNext]_distributionVars => [Binds]_distributionVars
  BY <1>3
<1> QED
  BY <1>1, <1>2, <1>4, PTL DEF DistributionSpec, InstalledPairBinds
=============================================================================
