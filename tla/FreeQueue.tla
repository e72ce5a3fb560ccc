------------------------------ MODULE FreeQueue ------------------------------
(***************************************************************************)
(* What FreeKVCacheBlockQueue (vllm/v1/core/kv_cache_utils.py) promises to *)
(* the block pool: an ordered queue of free blocks from which the first n  *)
(* are popped in order, any one can be taken out of the middle, and blocks *)
(* are put back at the end.  FreeBlockQueue.tla is the doubly linked list  *)
(* that implements it.                                                     *)
(***************************************************************************)
EXTENDS Integers, Sequences

CONSTANT NumBlocks    \* len(blocks), the blocks the queue is built from

ASSUME NumBlocksAssumption == NumBlocks \in Nat \ {0}

VARIABLES
    queue,    \* the free blocks, next one to be allocated first
    out       \* what the last completed call handed to its caller

absVars == <<queue, out>>

Blocks == 0 .. (NumBlocks - 1)

InQueue(b) == \E i \in 1 .. Len(queue) : queue[i] = b

(* s without its k-th element, the others keeping their order.             *)
Without(s, k) == [i \in 1 .. (Len(s) - 1) |-> IF i < k THEN s[i] ELSE s[i + 1]]

AbsInit ==
    /\ queue = [i \in 1 .. NumBlocks |-> i - 1]
    /\ out = << >>

AbsPopLeft ==
    /\ queue # << >>
    /\ out' = <<queue[1]>>
    /\ queue' = Tail(queue)

AbsPopLeftN(n) ==
    /\ n \in 1 .. Len(queue)
    /\ out' = SubSeq(queue, 1, n)
    /\ queue' = SubSeq(queue, n + 1, Len(queue))

AbsRemove(k) ==
    /\ k \in 1 .. Len(queue)
    /\ out' = <<queue[k]>>
    /\ queue' = Without(queue, k)

AbsAppendN(s) ==
    /\ \A i \in 1 .. Len(s) : ~ InQueue(s[i])
    /\ \A i, j \in 1 .. Len(s) : s[i] = s[j] => i = j
    /\ out' = << >>
    /\ queue' = queue \o s

(* Sequences of n blocks, for the calls that take or return a list.        *)
Lists(n) == [1 .. n -> Blocks]

AbsNext ==
    \/ AbsPopLeft
    \/ \E n \in 1 .. Len(queue) : AbsPopLeftN(n)
    \/ \E k \in 1 .. Len(queue) : AbsRemove(k)
    \/ \E n \in 1 .. NumBlocks : \E s \in Lists(n) : AbsAppendN(s)

AbsSpec == AbsInit /\ [][AbsNext]_absVars
==============================================================================
