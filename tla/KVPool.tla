------------------------------- MODULE KVPool -------------------------------
(***************************************************************************)
(* What the KV-cache manager promises the scheduler, without orders and    *)
(* token counts: requests hold sets of blocks, blocks are shared through   *)
(* prefix-cache hits and counted, a block that nobody holds is free and,   *)
(* as long as it keeps its hash, may be hit again.  Any free blocks may be *)
(* handed out and any block stored under a hash may serve a hit.           *)
(* KVCacheManager's sequences (eviction order, block tables) implement     *)
(* this; the null block is not part of it.                                 *)
(***************************************************************************)
EXTENDS Naturals, FiniteSets

CONSTANTS PoolRequests, PoolBlocks, PoolHashes, None

\* What the proofs need to know of the constants.
PoolAssumption == IsFiniteSet(PoolRequests) /\ None \notin PoolHashes

VARIABLES
    held,    \* [PoolRequests -> SUBSET PoolBlocks]: req_to_blocks
    ref,     \* ref_cnt
    idle,    \* the blocks of the free queue
    hash,    \* block_hash
    cache    \* cached_block_hash_to_block

poolVars == <<held, ref, idle, hash, cache>>

PoolInit ==
    /\ held = [r \in PoolRequests |-> {}]
    /\ ref = [b \in PoolBlocks |-> 0]
    /\ idle = PoolBlocks
    /\ hash = [b \in PoolBlocks |-> None]
    /\ cache = [h \in PoolHashes |-> {}]

\* allocate_slots: r takes the blocks it hits and new ones from the free ones,
\* which lose their hash; then some of its blocks that have no hash are full
\* and get one.
PoolAllocate(r, hits, new) ==
    LET kept == [b \in PoolBlocks |-> IF b \in new THEN None ELSE hash[b]]
        mayFill == {b \in held[r] \cup hits \cup new : kept[b] = None}
    IN /\ held' = [held EXCEPT ![r] = @ \cup hits \cup new]
       /\ ref' = [b \in PoolBlocks |-> IF b \in hits \cup new THEN ref[b] + 1 ELSE ref[b]]
       /\ idle' = (idle \ hits) \ new
       /\ hash' \in [PoolBlocks -> PoolHashes \cup {None}]
       /\ \A b \in PoolBlocks \ mayFill : hash'[b] = kept[b]
       /\ cache' = [h \in PoolHashes |->
            (cache[h] \ new) \cup {b \in mayFill : hash'[b] = h}]

\* free: the blocks that r was the last to hold become free; hashes stay.
PoolFree(r) ==
    /\ ref' = [b \in PoolBlocks |-> IF b \in held[r] THEN ref[b] - 1 ELSE ref[b]]
    /\ idle' = idle \cup {b \in held[r] : ref[b] = 1}
    /\ held' = [held EXCEPT ![r] = {}]
    /\ UNCHANGED <<hash, cache>>

\* reset_prefix_cache of the scheduler, when it succeeds: all requests have
\* been freed and the map is emptied.
PoolReset ==
    /\ held' = [r \in PoolRequests |-> {}]
    /\ ref' = [b \in PoolBlocks |-> 0]
    /\ idle' = PoolBlocks
    /\ hash' = [b \in PoolBlocks |-> None]
    /\ cache' = [h \in PoolHashes |-> {}]

\* The blocks that r may hit
Hittable(r) == {b \in PoolBlocks : hash[b] # None /\ b \notin held[r]}

PoolNext ==
    \/ \E r \in PoolRequests : \E hits \in SUBSET Hittable(r) :
         \E new \in SUBSET (idle \ hits) : PoolAllocate(r, hits, new)
    \/ \E r \in PoolRequests : PoolFree(r)
    \/ PoolReset

PoolSpec == PoolInit /\ [][PoolNext]_poolVars

-----------------------------------------------------------------------------
PoolTypeOK ==
    /\ held \in [PoolRequests -> SUBSET PoolBlocks]
    /\ ref \in [PoolBlocks -> Nat]
    /\ idle \in SUBSET PoolBlocks
    /\ hash \in [PoolBlocks -> PoolHashes \cup {None}]
    /\ cache \in [PoolHashes -> SUBSET PoolBlocks]

\* The requests that hold a block
Holders(b) == {r \in PoolRequests : b \in held[r]}

\* A reference count is the number of holders, and exactly the blocks without
\* a holder are free: no block in use is handed out again, none is lost.
CountsAreHolders ==
    /\ \A b \in PoolBlocks : ref[b] = Cardinality(Holders(b))
    /\ idle = {b \in PoolBlocks : Holders(b) = {}}

\* The map lists a block under a hash exactly when that is the block's hash.
MapIsHash == \A h \in PoolHashes : cache[h] = {b \in PoolBlocks : hash[b] = h}

PoolInv == PoolTypeOK /\ CountsAreHolders /\ MapIsHash

\* As long as a request holds a block, the block's hash does not change once it
\* has one: what a block is shared for cannot be rewritten under its holders.
HeldHashStable ==
    [][\A b \in PoolBlocks :
         (\E r \in PoolRequests : b \in held[r] /\ b \in held'[r]) /\ hash[b] # None
            => hash'[b] = hash[b]]_poolVars
=============================================================================
