--------------------------- MODULE KVCacheManager ---------------------------
(***************************************************************************)
(* The KV-cache manager of the V1 engine with one full-attention group and *)
(* prefix caching enabled: KVCacheManager, the unitary coordinator,        *)
(* FullAttentionManager and BlockPool.  The scheduler calls it as ordinary *)
(* methods on one object, so it is written as operators from a value kv of *)
(* that object (and arguments) to the value after the call:                *)
(*   free              the free block queue, in eviction order             *)
(*   ref_cnt           KVCacheBlock.ref_cnt                                *)
(*   block_hash        KVCacheBlock.block_hash, NoHash for None            *)
(*   cached            BlockPool.cached_block_hash_to_block: the blocks    *)
(*                     stored under a hash in insertion order              *)
(*   req_to_blocks     the block table of each request                     *)
(*   num_cached_block  how many of them are cached, -1: no entry           *)
(* The free queue is the sequence that FreeBlockQueue's linked list        *)
(* implements.                                                             *)
(***************************************************************************)
EXTENDS Integers, Sequences, FiniteSets, SequencesExt

CONSTANTS
    Requests,       \* request ids
    Tokens,         \* [Requests -> Seq(token)]: prompt, then what is sampled
    NumBlocks,      \* num_gpu_blocks, the null block included
    BlockSize,      \* tokens per block
    MaxModelLen,    \* max_model_len
    UseEagle        \* use_eagle

ASSUME KVAssumption ==
    /\ NumBlocks \in Nat \ {0} /\ BlockSize \in Nat \ {0}
    /\ MaxModelLen \in Nat \ {0} /\ UseEagle \in BOOLEAN
    /\ \A r \in Requests : Len(Tokens[r]) = MaxModelLen

Blocks == 0 .. NumBlocks - 1
NullBlock == 0
Smaller(a, b) == IF a < b THEN a ELSE b
Larger(a, b) == IF a > b THEN a ELSE b
Ceil(a, b) == (a + b - 1) \div b

\* Python's blocks[a:b], which stops at the end of the list.
Slice(s, a, b) == SubSeq(s, a + 1, Smaller(b, Len(s)))
Occurrences(s, x) == Cardinality({i \in DOMAIN s : s[i] = x})

\* A block's hash chains its parent's hash and its own tokens: it stands for
\* the whole prefix that ends with the block (collisions excluded).
BlockHash(r, i) == SubSeq(Tokens[r], 1, i * BlockSize)
NoHash == <<>>
Hashes == UNION {{BlockHash(r, i) : i \in 1 .. Len(Tokens[r]) \div BlockSize}
                    : r \in Requests}

InitKV ==
    [free |-> [i \in 1 .. NumBlocks - 1 |-> i],
     ref_cnt |-> [b \in Blocks |-> 0],
     block_hash |-> [b \in Blocks |-> NoHash],
     cached |-> [h \in Hashes |-> <<>>],
     req_to_blocks |-> [r \in Requests |-> <<>>],
     num_cached_block |-> [r \in Requests |-> -1]]

-----------------------------------------------------------------------------
(* BlockPool *)

get_one_block(kv, h) == Head(kv.cached[h])

\* A block leaves the map, and loses its hash, only if the map lists it
\* under that hash.
maybe_evict_cached_blocks(kv, S) ==
    LET found == {b \in S : /\ kv.block_hash[b] # NoHash
                            /\ b \in ToSet(kv.cached[kv.block_hash[b]])}
    IN [kv EXCEPT
          !.cached = [h \in Hashes |->
              SelectSeq(@[h], LAMBDA b : b \notin found)],
          !.block_hash = [b \in Blocks |-> IF b \in found THEN NoHash ELSE @[b]]]

\* Mutant: the blocks handed out keep their hash and stay in the map.
get_new_blocks_no_evict(kv, n) ==
    [kv EXCEPT !.free = SubSeq(@, n + 1, Len(@)),
               !.ref_cnt = [b \in Blocks |->
                    IF b \in ToSet(SubSeq(kv.free, 1, n)) THEN @[b] + 1 ELSE @[b]]]
get_new_blocks(kv, n) ==
    LET ret == ToSet(SubSeq(kv.free, 1, n))
    IN [maybe_evict_cached_blocks(kv, ret) EXCEPT
          !.free = SubSeq(@, n + 1, Len(@)),
          !.ref_cnt = [b \in Blocks |-> IF b \in ret THEN @[b] + 1 ELSE @[b]]]

\* Mutant: a hit on a block that nobody holds leaves it in the free queue.
touch_stays_free(kv, blocks) ==
    [kv EXCEPT !.ref_cnt = [b \in Blocks |-> @[b] + Occurrences(blocks, b)]]
touch(kv, blocks) ==
    [kv EXCEPT
       !.free = SelectSeq(@, LAMBDA b :
            ~(b \in ToSet(blocks) /\ kv.ref_cnt[b] = 0 /\ b # NullBlock)),
       !.ref_cnt = [b \in Blocks |-> @[b] + Occurrences(blocks, b)]]

\* Mutant: a block goes back to the queue even if another request holds it.
free_blocks_shared(kv, ordered_blocks) ==
    [kv EXCEPT
       !.ref_cnt = [b \in Blocks |-> @[b] - Occurrences(ordered_blocks, b)],
       !.free = @ \o SelectSeq(ordered_blocks, LAMBDA b : b # NullBlock)]
free_blocks(kv, ordered_blocks) ==
    LET cnt == [b \in Blocks |-> kv.ref_cnt[b] - Occurrences(ordered_blocks, b)]
    IN [kv EXCEPT
          !.ref_cnt = cnt,
          !.free = @ \o SelectSeq(ordered_blocks,
                                  LAMBDA b : cnt[b] = 0 /\ b # NullBlock)]

\* Blocks num_cached+1 .. num_full of r, null blocks excepted, get their hash
\* and join the map.  A hash of i blocks is given to at most the i-th of them.
cache_full_blocks(kv, r, num_cached, num_full) ==
    LET index(b) == CHOOSE i \in 1 .. num_full : kv.req_to_blocks[r][i] = b
        new == ToSet(Slice(kv.req_to_blocks[r], num_cached, num_full)) \ {NullBlock}
        hash == [b \in new |-> BlockHash(r, index(b))]
    IN [kv EXCEPT
          !.block_hash = [b \in Blocks |-> IF b \in new THEN hash[b] ELSE @[b]],
          !.cached = [h \in Hashes |->
              @[h] \o SetToSeq({b \in new : hash[b] = h})]]

reset_prefix_cache_ok(kv) == NumBlocks - Len(kv.free) = 1
reset_prefix_cache(kv) ==
    IF reset_prefix_cache_ok(kv)
    THEN [kv EXCEPT !.cached = [h \in Hashes |-> <<>>],
                    !.block_hash = [b \in Blocks |-> NoHash]]
    ELSE kv

-----------------------------------------------------------------------------
(* SingleTypeKVCacheManager / FullAttentionManager *)

\* The cached blocks of the longest prefix, of at most max_length tokens, all
\* of whose blocks are in the map; eagle recomputes the last of them.
find_longest_cache_hit(kv, r, max_length) ==
    LET hit(n) == \A i \in 1 .. n : kv.cached[BlockHash(r, i)] # <<>>
        longest == CHOOSE n \in 0 .. max_length \div BlockSize :
                     /\ hit(n)
                     /\ n = max_length \div BlockSize \/ ~hit(n + 1)
        kept == IF UseEagle /\ longest > 0 THEN longest - 1 ELSE longest
    IN [i \in 1 .. kept |-> get_one_block(kv, BlockHash(r, i))]

get_num_blocks_to_allocate(kv, r, num_tokens, new_computed_blocks) ==
    LET required == Ceil(num_tokens, BlockSize)
        held == Len(kv.req_to_blocks[r])
    IN IF kv.num_cached_block[r] # -1
       THEN Larger(required - held, 0)
       ELSE Larger(required - (Len(new_computed_blocks) + held), 0)
            + Len(SelectSeq(new_computed_blocks,
                            LAMBDA b : kv.ref_cnt[b] = 0 /\ b # NullBlock))

allocate_new_computed_blocks(kv, r, new_computed_blocks) ==
    IF kv.num_cached_block[r] # -1 THEN kv
    ELSE [touch(kv, new_computed_blocks) EXCEPT
            !.req_to_blocks[r] = @ \o new_computed_blocks,
            !.num_cached_block[r] = Len(kv.req_to_blocks[r] \o new_computed_blocks)]

allocate_new_blocks(kv, r, num_tokens) ==
    LET num_new == Ceil(num_tokens, BlockSize) - Len(kv.req_to_blocks[r])
    IN IF num_new <= 0 THEN kv
       ELSE [get_new_blocks(kv, num_new) EXCEPT
               !.req_to_blocks[r] = @ \o SubSeq(kv.free, 1, num_new)]

cache_blocks(kv, r, num_tokens) ==
    LET num_cached == Larger(kv.num_cached_block[r], 0)
        num_full == num_tokens \div BlockSize
    IN IF num_cached >= num_full THEN kv
       ELSE [cache_full_blocks(kv, r, num_cached, num_full) EXCEPT
               !.num_cached_block[r] = num_full]

\* KVCacheManager.free: tail blocks first, so that they are evicted first.
free(kv, r) ==
    [free_blocks(kv, Reverse(kv.req_to_blocks[r])) EXCEPT
       !.req_to_blocks[r] = <<>>, !.num_cached_block[r] = -1]

-----------------------------------------------------------------------------
(* KVCacheManager *)

\* The last token is always recomputed, to have its logits.
get_computed_blocks(kv, r, num_tokens) ==
    find_longest_cache_hit(kv, r, num_tokens - 1)

\* What allocate_slots works out first, from the request's computed tokens,
\* the blocks just hit, the new tokens and the lookahead tokens.
total_computed_tokens(num_computed, hits) ==
    Smaller(num_computed + Len(hits) * BlockSize, MaxModelLen)
num_tokens_need_slot(num_computed, hits, num_new, lookahead) ==
    Smaller(total_computed_tokens(num_computed, hits) + num_new + lookahead,
            MaxModelLen)

\* allocate_slots returns None unless this holds.
has_slots(kv, r, num_computed, hits, num_new, lookahead) ==
    get_num_blocks_to_allocate(kv, r,
        num_tokens_need_slot(num_computed, hits, num_new, lookahead), hits)
      <= Len(kv.free)

\* Mutant: draft tokens that may still be rejected are cached too.
allocate_slots_drafts(kv, r, num_tokens, num_computed, hits, num_new, lookahead) ==
    LET need == num_tokens_need_slot(num_computed, hits, num_new, lookahead)
        kv1 == IF hits = <<>> THEN kv ELSE allocate_new_computed_blocks(kv, r, hits)
    IN cache_blocks(allocate_new_blocks(kv1, r, need), r,
            total_computed_tokens(num_computed, hits) + num_new)
allocate_slots(kv, r, num_tokens, num_computed, hits, num_new, lookahead) ==
    LET need == num_tokens_need_slot(num_computed, hits, num_new, lookahead)
        kv1 == IF hits = <<>> THEN kv ELSE allocate_new_computed_blocks(kv, r, hits)
        kv2 == allocate_new_blocks(kv1, r, need)
    IN cache_blocks(kv2, r, Smaller(
            total_computed_tokens(num_computed, hits) + num_new, num_tokens))

can_fit_full_sequence(kv, r, num_tokens, hits) ==
    get_num_blocks_to_allocate(kv, r, Smaller(num_tokens, MaxModelLen), hits)
      <= Len(kv.free)
=============================================================================
