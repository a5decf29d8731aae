---------------------------- MODULE ArtifactStore ----------------------------
(***************************************************************************)
(* The content-addressed store data/store/<sha256-hex> of the tools: a     *)
(* directory that builder and client processes share.  `bytes` are records *)
(* with a `kind`; a file whose write has begun and not ended holds Torn.   *)
(* storePut is three system calls (existsSync, open with truncation,       *)
(* write), so the modules that put take one step for each.                 *)
(***************************************************************************)
EXTENDS Naturals

VARIABLE store      \* file name (a digest) -> bytes, for the files that exist

\* Injective: no two contents have one digest.
Sha256(bytes) == [sha256 |-> bytes]

Torn == [kind |-> "torn"]

StoreInit == store = [cid \in {} |-> Torn]

StoreExists(cid) == cid \in DOMAIN store

StoreWrite(cid, bytes) ==
    store' = [c \in DOMAIN store \cup {cid} |-> IF c = cid THEN bytes ELSE store[c]]

\* Mutant: the content hash is not compared with the address.
StoreExistsOnly(cid) == cid \in DOMAIN store

\* storeGet returns store[cid] and does not throw.
StoreReadable(cid) == cid \in DOMAIN store /\ Sha256(store[cid]) = cid
=============================================================================
