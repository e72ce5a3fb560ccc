---------------------------- MODULE FreeBlockQueue ----------------------------
(***************************************************************************)
(* FreeKVCacheBlockQueue of vllm/v1/core/kv_cache_utils.py: the doubly     *)
(* linked list of free KV-cache blocks, threaded through the blocks' own   *)
(* prev_free_block and next_free_block fields, with a fake head and a fake *)
(* tail.  The two loops, in popleft_n and append_n, are one action per     *)
(* iteration.  "queue" and "out" are history: the order the list stands    *)
(* for and the result of the last call, through which the module is shown  *)
(* to implement FreeQueue.                                                 *)
(***************************************************************************)
EXTENDS FreeQueue

VARIABLES
    next_free_block,    \* block -> its successor in the list
    prev_free_block,    \* block -> its predecessor in the list
    num_free_blocks,    \* the counter the pool reads instead of the list
    call,               \* the call whose loop is running, "none" outside one
    cursor,             \* curr_block of popleft_n, last_block of append_n
    todo,               \* popleft_n: iterations left; append_n: next index
    ret                 \* popleft_n: blocks popped so far; append_n: argument

links == <<next_free_block, prev_free_block, num_free_blocks>>
loop  == <<call, cursor, todo, ret>>
vars  == <<queue, out, next_free_block, prev_free_block, num_free_blocks,
           call, cursor, todo, ret>>

None                == -1
fake_free_list_head == NumBlocks
fake_free_list_tail == NumBlocks + 1
Nodes               == 0 .. (NumBlocks + 1)

LoopIdle == call = "none" /\ cursor = None /\ todo = 0 /\ ret = << >>
LoopDone == call' = "none" /\ cursor' = None /\ todo' = 0 /\ ret' = << >>

Init ==
    /\ AbsInit
    /\ next_free_block =
         [x \in Nodes |-> CASE x = fake_free_list_head -> 0
                            [] x = NumBlocks - 1       -> fake_free_list_tail
                            [] x = fake_free_list_tail -> None
                            [] OTHER                   -> x + 1]
    /\ prev_free_block =
         [x \in Nodes |-> CASE x = fake_free_list_head -> None
                            [] x = 0                   -> fake_free_list_head
                            [] x = fake_free_list_tail -> NumBlocks - 1
                            [] OTHER                   -> x - 1]
    /\ num_free_blocks = NumBlocks
    /\ LoopIdle

-------------------------------------------------------------------------------

(* popleft raises "No free blocks available" on an empty list: no change.  *)
popleft ==
    LET first  == next_free_block[fake_free_list_head]
        second == next_free_block[first]
    IN  /\ call = "none"
        /\ first \notin {fake_free_list_tail, None}
        /\ second # None
        /\ next_free_block' = [next_free_block EXCEPT
                                 ![fake_free_list_head] = second, ![first] = None]
        /\ prev_free_block' = [prev_free_block EXCEPT
                                 ![second] = fake_free_list_head, ![first] = None]
        /\ num_free_blocks' = num_free_blocks - 1
        /\ out' = <<first>>
        /\ queue' = Tail(queue)
        /\ UNCHANGED loop

(* n = 0 returns at once and changes nothing; the assertion is the guard.  *)
popleft_n(n) ==
    /\ call = "none"
    /\ n > 0 /\ num_free_blocks >= n
    /\ num_free_blocks' = num_free_blocks - n
    /\ call' = "popleft_n"
    /\ cursor' = next_free_block[fake_free_list_head]
    /\ todo' = n
    /\ UNCHANGED <<queue, out, next_free_block, prev_free_block, ret>>

popleft_n_iter ==
    /\ call = "popleft_n" /\ todo > 0
    /\ cursor # None
    /\ ret' = Append(ret, cursor)
    /\ cursor' = next_free_block[cursor]
    /\ next_free_block' = [next_free_block EXCEPT ![cursor] = None]
    /\ prev_free_block' = [prev_free_block EXCEPT ![cursor] = None]
    /\ todo' = todo - 1
    /\ UNCHANGED <<queue, out, num_free_blocks, call>>

(* Mutant: the new first block is not linked back to the fake head.        *)
popleft_n_return_no_back_link ==
    /\ call = "popleft_n" /\ todo = 0
    /\ next_free_block' = [next_free_block EXCEPT ![fake_free_list_head] = cursor]
    /\ out' = ret
    /\ queue' = SubSeq(queue, Len(ret) + 1, Len(queue))
    /\ LoopDone
    /\ UNCHANGED <<num_free_blocks, prev_free_block>>

popleft_n_return ==
    /\ call = "popleft_n" /\ todo = 0
    /\ IF cursor # None
       THEN /\ next_free_block' = [next_free_block EXCEPT
                                     ![fake_free_list_head] = cursor]
            /\ prev_free_block' = [prev_free_block EXCEPT
                                     ![cursor] = fake_free_list_head]
       ELSE UNCHANGED <<next_free_block, prev_free_block>>
    /\ out' = ret
    /\ queue' = SubSeq(queue, Len(ret) + 1, Len(queue))
    /\ LoopDone
    /\ UNCHANGED num_free_blocks

(* remove raises RuntimeError on a block that is not linked: no change.    *)
remove(b) ==
    LET before == prev_free_block[b]
        after  == next_free_block[b]
    IN  /\ call = "none"
        /\ before # None /\ after # None
        /\ next_free_block' = [next_free_block EXCEPT ![before] = after, ![b] = None]
        /\ prev_free_block' = [prev_free_block EXCEPT ![after] = before, ![b] = None]
        /\ num_free_blocks' = num_free_blocks - 1
        /\ out' = <<b>>
        /\ \E k \in 1 .. Len(queue) : queue[k] = b /\ queue' = Without(queue, k)
        /\ UNCHANGED loop

(* The caller appends blocks it holds, each once: BlockPool.free_blocks    *)
(* appends the blocks whose reference count just became 0.                 *)
append(b) ==
    LET last == prev_free_block[fake_free_list_tail]
    IN  /\ call = "none"
        /\ ~ InQueue(b)
        /\ last # None
        /\ next_free_block' = [next_free_block EXCEPT
                                 ![last] = b, ![b] = fake_free_list_tail]
        /\ prev_free_block' = [prev_free_block EXCEPT
                                 ![b] = last, ![fake_free_list_tail] = b]
        /\ num_free_blocks' = num_free_blocks + 1
        /\ out' = << >>
        /\ queue' = Append(queue, b)
        /\ UNCHANGED loop

append_n(blocks) ==
    /\ call = "none"
    /\ blocks # << >>
    /\ \A i \in 1 .. Len(blocks) : ~ InQueue(blocks[i])
    /\ \A i, j \in 1 .. Len(blocks) : blocks[i] = blocks[j] => i = j
    /\ prev_free_block[fake_free_list_tail] # None
    /\ call' = "append_n"
    /\ cursor' = prev_free_block[fake_free_list_tail]
    /\ todo' = 1
    /\ ret' = blocks
    /\ UNCHANGED <<queue, out, next_free_block, prev_free_block, num_free_blocks>>

append_n_iter ==
    /\ call = "append_n" /\ todo <= Len(ret)
    /\ prev_free_block' = [prev_free_block EXCEPT ![ret[todo]] = cursor]
    /\ next_free_block' = [next_free_block EXCEPT ![cursor] = ret[todo]]
    /\ cursor' = ret[todo]
    /\ todo' = todo + 1
    /\ UNCHANGED <<queue, out, num_free_blocks, call, ret>>

append_n_return ==
    /\ call = "append_n" /\ todo > Len(ret)
    /\ next_free_block' = [next_free_block EXCEPT ![cursor] = fake_free_list_tail]
    /\ prev_free_block' = [prev_free_block EXCEPT ![fake_free_list_tail] = cursor]
    /\ num_free_blocks' = num_free_blocks + Len(ret)
    /\ out' = << >>
    /\ queue' = queue \o ret
    /\ LoopDone

Next ==
    \/ popleft
    \/ \E n \in 1 .. NumBlocks : popleft_n(n)
    \/ popleft_n_iter
    \/ popleft_n_return
    \/ \E b \in Blocks : remove(b)
    \/ \E b \in Blocks : append(b)
    \/ \E n \in 1 .. NumBlocks : \E s \in Lists(n) : append_n(s)
    \/ append_n_iter
    \/ append_n_return

Spec == Init /\ [][Next]_vars

-------------------------------------------------------------------------------

(* The i-th node of the list, the fake head being the 0-th and the fake    *)
(* tail the one after the last free block.                                 *)
Node(i) == IF i = 0 THEN fake_free_list_head
           ELSE IF i = Len(queue) + 1 THEN fake_free_list_tail
           ELSE queue[i]

(* The variables keep the types the code gives them.                       *)
TypeOK ==
    /\ queue \in Seq(Blocks)
    /\ out \in Seq(Blocks)
    /\ next_free_block \in [Nodes -> Nodes \cup {None}]
    /\ prev_free_block \in [Nodes -> Nodes \cup {None}]
    /\ num_free_blocks \in Nat
    /\ call \in {"none", "popleft_n", "append_n"}
    /\ cursor \in Nodes \cup {None}
    /\ todo \in Nat
    /\ ret \in Seq(Blocks)

(* The list from its i-th node on is linked, in both directions.           *)
LinkedFrom(k) ==
    \A i \in k .. Len(queue) : /\ next_free_block[Node(i)] = Node(i + 1)
                              /\ prev_free_block[Node(i + 1)] = Node(i)

Unlinked(b) == next_free_block[b] = None /\ prev_free_block[b] = None

(* Between two calls the forward and the backward links both describe the  *)
(* same order, the one the calls so far must have produced, the counter    *)
(* equals its length, and a block outside the list has no links left: what *)
(* remove() relies on to recognise a block that is not free.               *)
Linked ==
    call = "none" =>
      /\ num_free_blocks = Len(queue)
      /\ LinkedFrom(0)
      /\ \A b \in Blocks : ~ InQueue(b) => Unlinked(b)

(* Where append_n's last_block stands after i of its blocks were linked.   *)
Placed(i) == IF i = 0 THEN Node(Len(queue)) ELSE ret[i]

(* popleft_n in its loop: the popped prefix is unlinked, the rest is still *)
(* a list, and curr_block is its first node.                               *)
PopInv ==
    call = "popleft_n" =>
      /\ Len(ret) + todo \in 1 .. Len(queue)
      /\ num_free_blocks = Len(queue) - (Len(ret) + todo)
      /\ \A i \in 1 .. Len(ret) : ret[i] = queue[i]
      /\ \A i \in 1 .. Len(ret) : Unlinked(queue[i])
      /\ cursor = Node(Len(ret) + 1)
      /\ LinkedFrom(Len(ret) + 1)
      /\ \A b \in Blocks : ~ InQueue(b) => Unlinked(b)

(* append_n in its loop: the old list is intact up to its last block, the  *)
(* first todo - 1 new blocks hang behind it, the others are unlinked.      *)
AppendInv ==
    call = "append_n" =>
      /\ todo \in 1 .. (Len(ret) + 1)
      /\ num_free_blocks = Len(queue)
      /\ Len(ret) \in 1 .. NumBlocks
      /\ \A i \in 1 .. Len(ret) : ~ InQueue(ret[i])
      /\ \A i, j \in 1 .. Len(ret) : ret[i] = ret[j] => i = j
      /\ cursor = Placed(todo - 1)
      /\ \A i \in 0 .. (Len(queue) - 1) :
            /\ next_free_block[Node(i)] = Node(i + 1)
            /\ prev_free_block[Node(i + 1)] = Node(i)
      /\ \A i \in 1 .. (todo - 1) :
            /\ next_free_block[Placed(i - 1)] = ret[i]
            /\ prev_free_block[ret[i]] = Placed(i - 1)
      /\ \A b \in Blocks :
            ~ InQueue(b) /\ (\A i \in 1 .. (todo - 1) : ret[i] # b) => Unlinked(b)

(* No block is in the queue twice.                                         *)
NoDuplicates ==
    \A i, j \in 1 .. Len(queue) : queue[i] = queue[j] => i = j

(* The inductive invariant behind Linked: what holds at every iteration of *)
(* the two loops, and that no block is in the queue twice.                 *)
IInv ==
    /\ TypeOK /\ NoDuplicates
    /\ Linked /\ PopInv /\ AppendInv
    /\ call = "none" => LoopIdle
    /\ next_free_block[fake_free_list_tail] = None
    /\ prev_free_block[fake_free_list_head] = None

(* The linked list implements the queue: every completed call returns what *)
(* the sequence-level operation returns and leaves the order it leaves.    *)
Refinement == AbsSpec
===============================================================================
