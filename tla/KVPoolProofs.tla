---------------------------- MODULE KVPoolProofs ----------------------------
(***************************************************************************)
(* Proofs about the block pool for any number of requests, blocks and      *)
(* hashes.                                                                 *)
(***************************************************************************)
EXTENDS KVPool, FiniteSetTheorems, TLAPS

\* The holders of a block are finitely many, so their number is a number.
LEMMA HoldersFinite ==
    ASSUME PoolAssumption, NEW b \in PoolBlocks
    PROVE  /\ IsFiniteSet(Holders(b))
           /\ Cardinality(Holders(b)) \in Nat
           /\ Cardinality(Holders(b)) = 0 <=> Holders(b) = {}
<1>1. Holders(b) \subseteq PoolRequests
  BY DEF Holders
<1>2. IsFiniteSet(Holders(b))
  BY <1>1, FS_Subset DEF PoolAssumption
<1> QED
  BY <1>2, FS_CardinalityType, FS_EmptySet

\* Initially nobody holds a block and no block has a hash.
LEMMA PoolInitInv == ASSUME PoolAssumption PROVE PoolInit => PoolInv
<1> SUFFICES ASSUME PoolInit PROVE PoolInv
  OBVIOUS
<1>1. PoolTypeOK
  BY DEF PoolInit, PoolTypeOK
<1>2. \A b \in PoolBlocks : Holders(b) = {}
  BY DEF PoolInit, Holders
<1>3. CountsAreHolders
  BY <1>2, FS_EmptySet DEF PoolInit, CountsAreHolders
<1>4. MapIsHash
  BY DEF PoolAssumption, PoolInit, MapIsHash
<1> QED
  BY <1>1, <1>3, <1>4 DEF PoolInv

\* allocate_slots keeps counts, free blocks and hash map in agreement.
LEMMA PoolAllocateInv ==
    ASSUME PoolAssumption, PoolInv, NEW r \in PoolRequests,
           NEW hits \in SUBSET Hittable(r), NEW new \in SUBSET (idle \ hits),
           PoolAllocate(r, hits, new)
    PROVE  PoolInv'
<1> DEFINE kept == [b \in PoolBlocks |-> IF b \in new THEN None ELSE hash[b]]
           mayFill == {b \in held[r] \cup hits \cup new : kept[b] = None}
<1>0. /\ hits \subseteq {b \in PoolBlocks : hash[b] # None /\ b \notin held[r]}
      /\ new \subseteq idle \ hits
      /\ new \subseteq PoolBlocks
  BY DEF Hittable, PoolInv, PoolTypeOK
<1>1. /\ held' = [held EXCEPT ![r] = @ \cup hits \cup new]
      /\ ref' = [b \in PoolBlocks |-> IF b \in hits \cup new THEN ref[b] + 1 ELSE ref[b]]
      /\ idle' = (idle \ hits) \ new
      /\ hash' \in [PoolBlocks -> PoolHashes \cup {None}]
      /\ \A b \in PoolBlocks \ mayFill : hash'[b] = kept[b]
      /\ cache' = [h \in PoolHashes |-> (cache[h] \ new) \cup {b \in mayFill : hash'[b] = h}]
  BY DEF PoolAllocate
<1>2. PoolTypeOK'
  BY <1>0, <1>1 DEF PoolInv, PoolTypeOK
<1>3. \A b \in new : r \notin Holders(b)
  BY <1>0, <1>1 DEF PoolInv, CountsAreHolders
<1>4. \A b \in hits : r \notin Holders(b)
  BY <1>0, <1>1 DEF Holders
<1>5. \A b \in PoolBlocks :
        Holders(b)' = IF b \in hits \cup new THEN Holders(b) \cup {r} ELSE Holders(b)
  BY <1>0, <1>1 DEF PoolInv, PoolTypeOK, Holders
<1>6. CountsAreHolders'
  <2>1. ASSUME NEW b \in PoolBlocks PROVE ref'[b] = Cardinality(Holders(b)')
    <3>1. ref[b] = Cardinality(Holders(b))
      BY DEF PoolInv, CountsAreHolders
    <3>2. CASE b \in hits \cup new
      <4>1. Cardinality(Holders(b) \cup {r}) = Cardinality(Holders(b)) + 1
        BY <1>3, <1>4, <3>2, HoldersFinite, FS_AddElement
      <4> QED
        BY <1>0, <1>1, <1>5, <3>1, <3>2, <4>1
    <3>3. CASE b \notin hits \cup new
      BY <1>0, <1>1, <1>5, <3>1, <3>3
    <3> QED
      BY <3>2, <3>3
  <2>2. idle' = {b \in PoolBlocks : Holders(b)' = {}}
    BY <1>0, <1>1, <1>5 DEF PoolInv, CountsAreHolders
  <2> QED
    BY <2>1, <2>2 DEF CountsAreHolders, Holders
<1>7. MapIsHash'
  <2>1. ASSUME NEW h \in PoolHashes
        PROVE  cache'[h] = {b \in PoolBlocks : hash'[b] = h}
    <3>1. cache[h] = {b \in PoolBlocks : hash[b] = h}
      BY DEF PoolInv, MapIsHash
    <3>2. mayFill \subseteq PoolBlocks /\ \A b \in mayFill : b \in new \/ hash[b] = None
      BY <1>0 DEF PoolInv, PoolTypeOK
    <3>3. h # None
      BY DEF PoolAssumption
    <3> QED
      BY <1>0, <1>1, <3>1, <3>2, <3>3
  <2> QED
    BY <2>1 DEF MapIsHash
<1> QED
  BY <1>2, <1>6, <1>7 DEF PoolInv

\* free keeps them in agreement.
LEMMA PoolFreeInv ==
    ASSUME PoolAssumption, PoolInv, NEW r \in PoolRequests, PoolFree(r)
    PROVE  PoolInv'
<1>1. \A b \in PoolBlocks : ref[b] = Cardinality(Holders(b))
  BY DEF PoolInv, CountsAreHolders
<1>2. \A b \in PoolBlocks : Holders(b)' = Holders(b) \ {r}
  BY DEF PoolFree, PoolInv, PoolTypeOK, Holders
<1>3. ASSUME NEW b \in PoolBlocks, b \in held[r]
      PROVE  /\ r \in Holders(b)
             /\ Cardinality(Holders(b)') = Cardinality(Holders(b)) - 1
             /\ Cardinality(Holders(b)) \in Nat \ {0}
  <2>1. r \in Holders(b)
    BY <1>3 DEF Holders
  <2>2. Cardinality(Holders(b) \ {r}) = Cardinality(Holders(b)) - 1
    BY <2>1, HoldersFinite, FS_RemoveElement
  <2> QED
    BY <1>2, <2>1, <2>2, HoldersFinite
<1>4. ASSUME NEW b \in PoolBlocks, b \notin held[r]
      PROVE  Holders(b)' = Holders(b)
  BY <1>2, <1>4 DEF Holders
<1>5. PoolTypeOK'
  BY <1>1, <1>3 DEF PoolInv, PoolTypeOK, PoolFree
<1>6. CountsAreHolders'
  <2>1. \A b \in PoolBlocks : ref'[b] = Cardinality(Holders(b)')
    BY <1>1, <1>3, <1>4 DEF PoolFree
  <2>2. ASSUME NEW b \in PoolBlocks, b \in held[r]
        PROVE  ref[b] = 1 <=> Holders(b)' = {}
    <3>1. IsFiniteSet(Holders(b)')
      BY <1>2, HoldersFinite, FS_Subset
    <3>2. Cardinality(Holders(b)') = 0 <=> Holders(b)' = {}
      BY <3>1, FS_EmptySet
    <3> QED
      BY <1>1, <1>3, <2>2, <3>2
  <2>3. \A b \in PoolBlocks : b \in held[r] => b \notin idle
    BY <1>3 DEF PoolInv, CountsAreHolders
  <2>4. idle' = {b \in PoolBlocks : Holders(b)' = {}}
    BY <1>4, <2>2, <2>3 DEF PoolFree, PoolInv, PoolTypeOK, CountsAreHolders
  <2> QED
    BY <2>1, <2>4 DEF CountsAreHolders, Holders
<1>7. MapIsHash'
  BY DEF PoolFree, PoolInv, MapIsHash
<1> QED
  BY <1>5, <1>6, <1>7 DEF PoolInv

\* Every step preserves the invariant.
LEMMA PoolNextInv == ASSUME PoolAssumption PROVE PoolInv /\ [PoolNext]_poolVars => PoolInv'
<1> SUFFICES ASSUME PoolInv, [PoolNext]_poolVars PROVE PoolInv'
  OBVIOUS
<1>1. ASSUME NEW r \in PoolRequests, NEW hits \in SUBSET Hittable(r),
             NEW new \in SUBSET (idle \ hits), PoolAllocate(r, hits, new)
      PROVE  PoolInv'
  BY <1>1, PoolAllocateInv
<1>2. ASSUME NEW r \in PoolRequests, PoolFree(r) PROVE PoolInv'
  BY <1>2, PoolFreeInv
<1>3. CASE PoolReset
  <2>1. PoolTypeOK'
    BY <1>3 DEF PoolReset, PoolTypeOK
  <2>2. \A b \in PoolBlocks : Holders(b)' = {}
    BY <1>3 DEF PoolReset, Holders
  <2>3. CountsAreHolders'
    BY <1>3, <2>2, FS_EmptySet DEF PoolReset, CountsAreHolders, Holders
  <2>4. MapIsHash'
    BY <1>3 DEF PoolAssumption, PoolReset, MapIsHash
  <2> QED
    BY <2>1, <2>3, <2>4 DEF PoolInv
<1>4. CASE UNCHANGED poolVars
  BY <1>4 DEF poolVars, PoolInv, PoolTypeOK, CountsAreHolders, Holders, MapIsHash
<1> QED
  BY <1>1, <1>2, <1>3, <1>4 DEF PoolNext

\* Type correctness, exact reference counts and an exact hash map in every
\* reachable state of the pool, for any number of requests and blocks.
THEOREM PoolSafety ==
    ASSUME PoolAssumption
    PROVE  PoolSpec => [](PoolTypeOK /\ CountsAreHolders /\ MapIsHash)
<1>1. PoolInv => PoolTypeOK /\ CountsAreHolders /\ MapIsHash
  BY DEF PoolInv
<1> QED
  BY <1>1, PoolInitInv, PoolNextInv, PTL DEF PoolSpec

\* A block that stays held keeps its hash (allocate_slots, free and
\* reset_prefix_cache never rename a block in use).
THEOREM PoolHashStable == ASSUME PoolAssumption PROVE PoolSpec => HeldHashStable
<1> DEFINE Stable == \A b \in PoolBlocks :
         (\E r \in PoolRequests : b \in held[r] /\ b \in held'[r]) /\ hash[b] # None
            => hash'[b] = hash[b]
<1>1. PoolInv /\ [PoolNext]_poolVars => [Stable]_poolVars
  <2> SUFFICES ASSUME PoolInv, PoolNext,
                      NEW b \in PoolBlocks, NEW r \in PoolRequests,
                      b \in held[r], b \in held'[r], hash[b] # None
               PROVE  hash'[b] = hash[b]
    BY DEF poolVars
  <2>1. ASSUME NEW s \in PoolRequests, NEW hits \in SUBSET Hittable(s),
               NEW new \in SUBSET (idle \ hits), PoolAllocate(s, hits, new)
        PROVE  hash'[b] = hash[b]
    <3>1. b \notin new
      BY <2>1 DEF PoolInv, CountsAreHolders, Holders
    <3> QED
      BY <2>1, <3>1 DEF PoolAllocate
  <2>2. ASSUME NEW s \in PoolRequests, PoolFree(s) PROVE hash'[b] = hash[b]
    BY <2>2 DEF PoolFree
  <2>3. CASE PoolReset
    BY <2>3 DEF PoolReset
  <2> QED
    BY <2>1, <2>2, <2>3 DEF PoolNext
<1>2. PoolSpec => []PoolInv
  BY PoolInitInv, PoolNextInv, PTL DEF PoolSpec
<1> QED
  BY <1>1, <1>2, PTL DEF PoolSpec, HeldHashStable
=============================================================================
