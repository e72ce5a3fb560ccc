------------------------- MODULE FreeBlockQueueProofs -------------------------
(***************************************************************************)
(* Proofs about FreeBlockQueue: the inductive invariant IInv, hence Linked *)
(* for every pool size, and the refinement of FreeQueue.                   *)
(***************************************************************************)
EXTENDS FreeBlockQueue, TLAPS

(* Removing one element of a sequence of blocks leaves a sequence of       *)
(* blocks that is one shorter.                                             *)
LEMMA WithoutType ==
    ASSUME NEW s \in Seq(Blocks), NEW k \in 1 .. Len(s)
    PROVE  /\ Without(s, k) \in Seq(Blocks)
           /\ Len(Without(s, k)) = Len(s) - 1
           /\ \A i \in 1 .. (Len(s) - 1) :
                Without(s, k)[i] = IF i < k THEN s[i] ELSE s[i + 1]
  <1>1. \A i \in 1 .. (Len(s) - 1) : (IF i < k THEN s[i] ELSE s[i + 1]) \in Blocks
    BY NumBlocksAssumption DEF Blocks
  <1>2. Len(s) - 1 \in Nat
    OBVIOUS
  <1> QED
    BY <1>1, <1>2 DEF Without

LEMMA InitInv == Init => IInv
  <1> SUFFICES ASSUME Init PROVE IInv
    OBVIOUS
  <1> USE NumBlocksAssumption DEF Init, AbsInit, LoopIdle
  <1>1. queue \in Seq(Blocks) /\ Len(queue) = NumBlocks
    BY DEF Blocks
  <1>2. \A b \in Blocks : InQueue(b)
    <2> TAKE b \in Blocks
    <2>1. b + 1 \in 1 .. Len(queue) /\ queue[b + 1] = b
      BY <1>1 DEF Blocks
    <2> QED
      BY <2>1 DEF InQueue
  <1>3. TypeOK
    BY <1>1 DEF TypeOK, Nodes, None, fake_free_list_head, fake_free_list_tail
  <1>4. Linked
    <2>1. ASSUME NEW i \in 0 .. Len(queue)
          PROVE  /\ next_free_block[Node(i)] = Node(i + 1)
                 /\ prev_free_block[Node(i + 1)] = Node(i)
      <3>1. Node(i) = (IF i = 0 THEN NumBlocks ELSE i - 1)
        BY <1>1 DEF Node, fake_free_list_head
      <3>2. Node(i + 1) = (IF i = NumBlocks THEN NumBlocks + 1 ELSE i)
        BY <1>1 DEF Node, fake_free_list_tail
      <3> QED
        BY <1>1, <3>1, <3>2 DEF Nodes, None, fake_free_list_head, fake_free_list_tail
    <2> QED
      BY <1>1, <1>2, <2>1 DEF Linked, LinkedFrom
  <1>5. NoDuplicates
    BY <1>1 DEF NoDuplicates
  <1> QED
    BY <1>3, <1>4, <1>5 DEF IInv, PopInv, AppendInv, Nodes, None, fake_free_list_head, fake_free_list_tail

-------------------------------------------------------------------------------

(* The nodes of the list are nodes, and no node occurs in it twice.        *)
LEMMA NodeFacts ==
    ASSUME TypeOK, NoDuplicates
    PROVE  /\ Len(queue) \in Nat
           /\ \A i \in 0 .. (Len(queue) + 1) : Node(i) \in Nodes
           /\ \A i \in 1 .. Len(queue) : Node(i) = queue[i] /\ Node(i) \in Blocks
           /\ Node(0) = fake_free_list_head
           /\ Node(Len(queue) + 1) = fake_free_list_tail
           /\ \A i, j \in 0 .. (Len(queue) + 1) : Node(i) = Node(j) => i = j
           /\ fake_free_list_head \in Nodes \ Blocks
           /\ fake_free_list_tail \in Nodes \ Blocks
           /\ Blocks \subseteq Nodes
           /\ None \notin Nodes
  <1> USE NumBlocksAssumption
  <1>1. Len(queue) \in Nat /\ \A i \in 1 .. Len(queue) : queue[i] \in Blocks
    BY DEF TypeOK
  <1> QED
    BY <1>1 DEF Node, Nodes, Blocks, None, NoDuplicates,
                fake_free_list_head, fake_free_list_tail

(* A popped or removed first block: what is left is linked from the head.  *)
LEMMA PopLeftInv == IInv /\ popleft => IInv'
  <1> SUFFICES ASSUME IInv, popleft PROVE IInv'
    OBVIOUS
  <1> DEFINE first  == next_free_block[fake_free_list_head]
             second == next_free_block[first]
  <1>1. TypeOK /\ NoDuplicates /\ LinkedFrom(0) /\ num_free_blocks = Len(queue)
        /\ LoopIdle /\ \A b \in Blocks : ~ InQueue(b) => Unlinked(b)
    BY DEF IInv, popleft, Linked
  <1>2. Len(queue) > 0 /\ first = Node(1) /\ second = Node(2)
    BY <1>1, NodeFacts DEF popleft, LinkedFrom
  <1>3. /\ queue' \in Seq(Blocks) /\ Len(queue') = Len(queue) - 1
        /\ \A i \in 1 .. (Len(queue) - 1) : queue'[i] = queue[i + 1]
    BY <1>1, <1>2 DEF popleft, TypeOK
  <1>4. NoDuplicates'
    BY <1>1, <1>3, NodeFacts DEF NoDuplicates
  <1>5. TypeOK'
    <2>1. first \in Blocks /\ second \in Nodes /\ fake_free_list_head \in Nodes
      BY <1>1, <1>2, NodeFacts
    <2>2. out' \in Seq(Blocks)
      BY <2>1 DEF popleft
    <2>3. next_free_block' \in [Nodes -> Nodes \cup {None}]
      BY <1>1, <2>1 DEF popleft, TypeOK
    <2>4. prev_free_block' \in [Nodes -> Nodes \cup {None}]
      BY <1>1, <2>1 DEF popleft, TypeOK
    <2>5. num_free_blocks' \in Nat
      BY <1>1, <1>2, NodeFacts DEF popleft
    <2> QED
      BY <1>1, <1>3, <2>2, <2>3, <2>4, <2>5 DEF popleft, TypeOK, loop
  <1>6. \A i \in 1 .. Len(queue) : Node(i)' = Node(i + 1)
    BY <1>3, NodeFacts, <1>1 DEF Node
  <1>7. LinkedFrom(0)'
    <2> SUFFICES ASSUME NEW i \in 0 .. Len(queue')
                 PROVE  /\ next_free_block'[Node(i)'] = Node(i + 1)'
                        /\ prev_free_block'[Node(i + 1)'] = Node(i)'
      BY DEF LinkedFrom
    <2>1. CASE i = 0
      <3>1. Node(0)' = fake_free_list_head /\ Node(1)' = second
        BY <1>2, <1>6 DEF Node
      <3>2. /\ first # fake_free_list_head /\ second # first
            /\ first \in Nodes /\ second \in Nodes /\ fake_free_list_head \in Nodes
        BY <1>1, <1>2, NodeFacts
      <3> QED
        BY <1>1, <2>1, <3>1, <3>2 DEF popleft, TypeOK
    <2>2. CASE i > 0
      <3>1. /\ Node(i)' = Node(i + 1) /\ Node(i + 1)' = Node(i + 2)
        BY <1>3, <1>6, <2>2
      <3>2. /\ Node(i + 1) \in Nodes \ {first, fake_free_list_head}
            /\ Node(i + 2) \in Nodes \ {first, second}
        BY <1>1, <1>2, <1>3, <2>2, NodeFacts
      <3>3. /\ next_free_block[Node(i + 1)] = Node(i + 2)
            /\ prev_free_block[Node(i + 2)] = Node(i + 1)
        BY <1>1, <1>3, <2>2 DEF LinkedFrom
      <3> QED
        BY <1>1, <3>1, <3>2, <3>3 DEF popleft, TypeOK
    <2> QED
      BY <1>3, <2>1, <2>2
  <1>8. ASSUME NEW b \in Blocks, ~ InQueue(b)'
        PROVE  Unlinked(b)'
    <2>1. ASSUME NEW k \in 1 .. Len(queue), queue[k] = b
          PROVE  k = 1
      <3>1. ASSUME k # 1 PROVE FALSE
        <4>1. k - 1 \in 1 .. Len(queue') /\ queue'[k - 1] = b
          BY <1>3, <2>1, <3>1, <1>2
        <4> QED
          BY <1>8, <4>1 DEF InQueue
      <3> QED
        BY <3>1
    <2>2. b # second
      BY <1>1, <1>2, <2>1, NodeFacts
    <2>3. b = first \/ ~ InQueue(b)
      BY <1>1, <1>2, <2>1, NodeFacts DEF InQueue
    <2>4. b # fake_free_list_head /\ {b, first, second, fake_free_list_head} \subseteq Nodes
      BY <1>1, <1>2, NodeFacts
    <2> QED
      BY <1>1, <2>2, <2>3, <2>4 DEF Unlinked, popleft, TypeOK
  <1>9. fake_free_list_tail # first /\ fake_free_list_head # second
        /\ {first, second, fake_free_list_head, fake_free_list_tail} \subseteq Nodes
        /\ fake_free_list_tail # fake_free_list_head /\ fake_free_list_head # first
    BY <1>1, <1>2, NodeFacts
  <1>10. next_free_block'[fake_free_list_tail] = None /\ prev_free_block'[fake_free_list_head] = None
    BY <1>1, <1>9 DEF IInv, popleft, TypeOK
  <1>11. num_free_blocks' = Len(queue') /\ LoopIdle' /\ call' = "none"
    BY <1>1, <1>3 DEF popleft, LoopIdle, loop
  <1> QED
    BY <1>4, <1>5, <1>7, <1>8, <1>10, <1>11 DEF IInv, Linked, PopInv, AppendInv

LEMMA PopLeftNInv == ASSUME NEW n \in 1 .. NumBlocks, IInv, popleft_n(n) PROVE IInv'
  <1>1. TypeOK /\ NoDuplicates /\ LinkedFrom(0) /\ num_free_blocks = Len(queue)
        /\ LoopIdle /\ \A b \in Blocks : ~ InQueue(b) => Unlinked(b)
    BY DEF IInv, popleft_n, Linked
  <1>2. cursor' = Node(1) /\ cursor' \in Nodes
    BY <1>1, NodeFacts DEF popleft_n, LinkedFrom
  <1>3. TypeOK' /\ NoDuplicates'
    BY <1>1, <1>2, NumBlocksAssumption DEF popleft_n, TypeOK, NoDuplicates
  <1>4. \A i \in 0 .. (Len(queue) + 1) : Node(i)' = Node(i)
    BY DEF Node, popleft_n
  <1>5. LinkedFrom(1)'
    BY <1>1, <1>4, NodeFacts DEF LinkedFrom, popleft_n
  <1>6. \A b \in Blocks : ~ InQueue(b)' => Unlinked(b)'
    BY <1>1 DEF popleft_n, InQueue, Unlinked
  <1>7. PopInv'
    <2>1. ret' = << >> /\ Len(ret') = 0
      BY <1>1 DEF popleft_n, LoopIdle
    <2>2. cursor' = Node(1)'
      BY <1>1, <1>2, <1>4, NodeFacts
    <2>3. todo' = n /\ queue' = queue /\ n <= Len(queue) /\ num_free_blocks' = Len(queue) - n
          /\ n \in Nat /\ n > 0 /\ Len(queue) \in Nat
      BY <1>1, NodeFacts, NumBlocksAssumption DEF popleft_n
    <2> QED
      BY <1>5, <1>6, <2>1, <2>2, <2>3 DEF PopInv
  <1> QED
    BY <1>3, <1>7 DEF IInv, popleft_n, Linked, AppendInv

LEMMA PopLeftNIterInv == IInv /\ popleft_n_iter => IInv'
  <1> SUFFICES ASSUME IInv, popleft_n_iter PROVE IInv'
    OBVIOUS
  <1> DEFINE k == Len(ret)
  <1>1. /\ TypeOK /\ NoDuplicates /\ k \in Nat /\ todo \in Nat
        /\ k + todo \in 1 .. Len(queue)
        /\ num_free_blocks = Len(queue) - (k + todo)
        /\ \A i \in 1 .. k : ret[i] = queue[i] /\ Unlinked(queue[i])
        /\ cursor = Node(k + 1)
        /\ LinkedFrom(k + 1)
        /\ \A b \in Blocks : ~ InQueue(b) => Unlinked(b)
    BY DEF IInv, popleft_n_iter, PopInv, TypeOK
  <1>2. /\ k + 1 \in 1 .. Len(queue) /\ cursor = queue[k + 1] /\ cursor \in Blocks
        /\ cursor \in Nodes /\ Len(queue) \in Nat
    BY <1>1, NodeFacts DEF popleft_n_iter
  <1>3. cursor' = Node(k + 2) /\ cursor' \in Nodes
    BY <1>1, <1>2, NodeFacts DEF popleft_n_iter, LinkedFrom
  <1>4. /\ ret' \in Seq(Blocks) /\ Len(ret') = k + 1
        /\ \A i \in 1 .. (k + 1) : ret'[i] = queue[i]
    <2>1. ret \in Seq(Blocks) /\ ret' = Append(ret, cursor)
      BY <1>1 DEF popleft_n_iter, TypeOK
    <2>2. \A i \in 1 .. (k + 1) : ret'[i] = IF i = k + 1 THEN cursor ELSE ret[i]
      BY <2>1
    <2> QED
      BY <1>1, <1>2, <2>1, <2>2
  <1>5. TypeOK' /\ NoDuplicates'
    <2>1. todo' \in Nat
      BY <1>1 DEF popleft_n_iter
    <2> QED
      BY <1>1, <1>2, <1>3, <1>4, <2>1 DEF popleft_n_iter, TypeOK, NoDuplicates
  <1>6. \A i \in 0 .. (Len(queue) + 1) : Node(i)' = Node(i)
    BY DEF Node, popleft_n_iter
  <1>7. \A i \in (k + 2) .. Len(queue) :
          /\ next_free_block'[Node(i)'] = Node(i + 1)'
          /\ prev_free_block'[Node(i + 1)'] = Node(i)'
    <2> SUFFICES ASSUME NEW i \in (k + 2) .. Len(queue)
                 PROVE  /\ next_free_block'[Node(i)'] = Node(i + 1)'
                        /\ prev_free_block'[Node(i + 1)'] = Node(i)'
      OBVIOUS
    <2>1. Node(i)' = Node(i) /\ Node(i + 1)' = Node(i + 1)
      BY <1>1, <1>2, <1>6
    <2>2. Node(i) \in Nodes \ {cursor} /\ Node(i + 1) \in Nodes \ {cursor}
      BY <1>1, <1>2, NodeFacts
    <2>3. next_free_block[Node(i)] = Node(i + 1) /\ prev_free_block[Node(i + 1)] = Node(i)
      BY <1>1 DEF LinkedFrom
    <2> QED
      BY <1>1, <2>1, <2>2, <2>3 DEF popleft_n_iter, TypeOK
  <1>8. \A b \in Blocks : Unlinked(b) \/ b = cursor => Unlinked(b)'
    BY <1>1, <1>2, NodeFacts DEF Unlinked, popleft_n_iter, TypeOK
  <1>9. \A i \in 1 .. (k + 1) : Unlinked(queue[i])'
    BY <1>1, <1>2, <1>8, NodeFacts DEF popleft_n_iter
  <1>10. \A b \in Blocks : ~ InQueue(b)' => Unlinked(b)'
    BY <1>1, <1>8 DEF InQueue, popleft_n_iter
  <1>11. PopInv'
    <2>1. queue' = queue /\ todo' = todo - 1 /\ num_free_blocks' = num_free_blocks
      BY DEF popleft_n_iter
    <2>2. LinkedFrom(Len(ret) + 1)'
      BY <1>1, <1>4, <1>7, <2>1 DEF LinkedFrom
    <2>3. cursor' = Node(Len(ret) + 1)'
      BY <1>1, <1>2, <1>3, <1>4, <1>6
    <2> QED
      BY <1>1, <1>4, <1>9, <1>10, <2>1, <2>2, <2>3 DEF PopInv
  <1>12. next_free_block'[fake_free_list_tail] = None /\ prev_free_block'[fake_free_list_head] = None
    BY <1>1, <1>2, NodeFacts DEF IInv, popleft_n_iter, TypeOK
  <1> QED
    BY <1>5, <1>11, <1>12 DEF IInv, popleft_n_iter, Linked, AppendInv

LEMMA PopLeftNReturnInv == IInv /\ popleft_n_return => IInv'
  <1> SUFFICES ASSUME IInv, popleft_n_return PROVE IInv'
    OBVIOUS
  <1> DEFINE k == Len(ret)
  <1>1. /\ TypeOK /\ NoDuplicates /\ k \in 1 .. Len(queue) /\ k \in Nat
        /\ num_free_blocks = Len(queue) - k
        /\ \A i \in 1 .. k : Unlinked(queue[i])
        /\ cursor = Node(k + 1) /\ cursor # None /\ cursor \in Nodes
        /\ LinkedFrom(k + 1)
        /\ \A b \in Blocks : ~ InQueue(b) => Unlinked(b)
    <2>1. TypeOK /\ NoDuplicates /\ k \in Nat /\ PopInv /\ call = "popleft_n" /\ todo = 0
      BY DEF IInv, popleft_n_return, TypeOK
    <2> QED
      BY <2>1, NodeFacts DEF PopInv
  <1>2. /\ queue' \in Seq(Blocks) /\ Len(queue') = Len(queue) - k
        /\ \A i \in 1 .. (Len(queue) - k) : queue'[i] = queue[i + k]
    BY <1>1 DEF popleft_n_return, TypeOK
  <1>3. NoDuplicates'
    BY <1>1, <1>2, NodeFacts DEF NoDuplicates
  <1>4. /\ next_free_block' = [next_free_block EXCEPT ![fake_free_list_head] = cursor]
        /\ prev_free_block' = [prev_free_block EXCEPT ![cursor] = fake_free_list_head]
        /\ num_free_blocks' = num_free_blocks
        /\ LoopIdle' /\ call' = "none" /\ out' = ret
    BY <1>1 DEF popleft_n_return, LoopDone, LoopIdle
  <1>5. TypeOK'
    BY <1>1, <1>2, <1>4, NodeFacts DEF TypeOK, LoopIdle
  <1>6. ASSUME NEW i \in 1 .. (Len(queue') + 1)
        PROVE  Node(i)' = Node(i + k)
    <2>1. Len(queue) \in Nat /\ i + k \in 1 .. (Len(queue) + 1)
      BY <1>1, <1>2, NodeFacts
    <2>2. CASE i = Len(queue') + 1
      <3>1. i + k = Len(queue) + 1 /\ i # 0
        BY <1>1, <1>2, <2>1, <2>2
      <3> QED
        BY <1>1, <2>2, <3>1 DEF Node
    <2>3. CASE i # Len(queue') + 1
      <3>1. i + k # Len(queue) + 1 /\ i # 0 /\ i + k # 0 /\ queue'[i] = queue[i + k]
        BY <1>1, <1>2, <2>1, <2>3
      <3> QED
        BY <2>3, <3>1 DEF Node
    <2> QED
      BY <2>2, <2>3
  <1>7. LinkedFrom(0)'
    <2> SUFFICES ASSUME NEW i \in 0 .. Len(queue')
                 PROVE  /\ next_free_block'[Node(i)'] = Node(i + 1)'
                        /\ prev_free_block'[Node(i + 1)'] = Node(i)'
      BY DEF LinkedFrom
    <2>1. CASE i = 0
      <3>1. Node(0)' = fake_free_list_head /\ Node(1)' = cursor
        BY <1>1, <1>2, <1>6 DEF Node
      <3>2. fake_free_list_head \in Nodes
        BY <1>1, NodeFacts
      <3> QED
        BY <1>1, <1>4, <2>1, <3>1, <3>2 DEF TypeOK
    <2>2. CASE i > 0
      <3>1. Node(i)' = Node(i + k) /\ Node(i + 1)' = Node(i + k + 1)
        BY <1>1, <1>2, <1>6, <2>2
      <3>2. /\ Node(i + k) \in Nodes \ {fake_free_list_head}
            /\ Node(i + k + 1) \in Nodes \ {cursor}
        BY <1>1, <1>2, <2>2, NodeFacts
      <3>3. /\ next_free_block[Node(i + k)] = Node(i + k + 1)
            /\ prev_free_block[Node(i + k + 1)] = Node(i + k)
        BY <1>1, <1>2, <2>2 DEF LinkedFrom
      <3> QED
        BY <1>1, <1>4, <3>1, <3>2, <3>3 DEF TypeOK
    <2> QED
      BY <1>1, <1>2, <2>1, <2>2
  <1>8. ASSUME NEW b \in Blocks, ~ InQueue(b)'
        PROVE  Unlinked(b)'
    <2>1. ASSUME NEW j \in 1 .. Len(queue), queue[j] = b
          PROVE  j <= k
      <3>1. ASSUME j > k PROVE FALSE
        <4>1. j - k \in 1 .. Len(queue') /\ queue'[j - k] = b
          BY <1>1, <1>2, <2>1, <3>1
        <4> QED
          BY <1>8, <4>1 DEF InQueue
      <3> QED
        BY <1>1, <3>1
    <2>2. b # cursor
      BY <1>1, <2>1, NodeFacts
    <2>3. Unlinked(b)
      BY <1>1, <2>1 DEF InQueue
    <2>4. b # fake_free_list_head /\ {b, cursor, fake_free_list_head} \subseteq Nodes
      BY <1>1, NodeFacts
    <2> QED
      BY <1>1, <1>4, <2>2, <2>3, <2>4 DEF Unlinked, TypeOK
  <1>9. next_free_block'[fake_free_list_tail] = None /\ prev_free_block'[fake_free_list_head] = None
    <2>1. /\ {cursor, fake_free_list_head, fake_free_list_tail} \subseteq Nodes
          /\ fake_free_list_head # fake_free_list_tail /\ cursor # fake_free_list_head
      BY <1>1, NodeFacts
    <2> QED
      BY <1>1, <1>4, <2>1 DEF IInv, TypeOK
  <1> QED
    BY <1>1, <1>2, <1>3, <1>4, <1>5, <1>7, <1>8, <1>9 DEF IInv, Linked, PopInv, AppendInv

LEMMA RemoveInv == ASSUME NEW b \in Blocks, IInv, remove(b) PROVE IInv'
  <1> DEFINE before == prev_free_block[b]
             after  == next_free_block[b]
  <1>1. /\ TypeOK /\ NoDuplicates /\ LinkedFrom(0) /\ num_free_blocks = Len(queue)
        /\ LoopIdle /\ \A c \in Blocks : ~ InQueue(c) => Unlinked(c)
    BY DEF IInv, remove, Linked
  <1>2. PICK k \in 1 .. Len(queue) : queue[k] = b /\ queue' = Without(queue, k)
    BY DEF remove
  <1>3. before = Node(k - 1) /\ after = Node(k + 1) /\ b = Node(k) /\ k \in Nat /\ Len(queue) \in Nat
    BY <1>1, <1>2, NodeFacts DEF LinkedFrom
  <1>4. /\ queue' \in Seq(Blocks) /\ Len(queue') = Len(queue) - 1
        /\ \A i \in 1 .. (Len(queue) - 1) :
             queue'[i] = IF i < k THEN queue[i] ELSE queue[i + 1]
    BY <1>1, <1>2, WithoutType DEF TypeOK
  <1>5. /\ {b, before, after, fake_free_list_head, fake_free_list_tail} \subseteq Nodes
        /\ b # before /\ b # after /\ before # after
        /\ b # fake_free_list_head /\ b # fake_free_list_tail
        /\ before # fake_free_list_tail /\ after # fake_free_list_head
    BY <1>1, <1>2, <1>3, NodeFacts
  <1>6. NoDuplicates'
    BY <1>1, <1>2, <1>3, <1>4 DEF NoDuplicates
  <1>7. TypeOK'
    <2>1. out' \in Seq(Blocks)
      BY DEF remove
    <2>2. next_free_block' \in [Nodes -> Nodes \cup {None}]
      BY <1>1, <1>5 DEF remove, TypeOK
    <2>3. prev_free_block' \in [Nodes -> Nodes \cup {None}]
      BY <1>1, <1>5 DEF remove, TypeOK
    <2>4. num_free_blocks' \in Nat
      BY <1>1, <1>2, <1>3 DEF remove
    <2> QED
      BY <1>1, <1>4, <2>1, <2>2, <2>3, <2>4 DEF remove, TypeOK, loop
  <1>8. \A i \in 0 .. Len(queue) : Node(i)' = IF i < k THEN Node(i) ELSE Node(i + 1)
    BY <1>2, <1>3, <1>4 DEF Node
  <1>9. LinkedFrom(0)'
    <2> SUFFICES ASSUME NEW i \in 0 .. (Len(queue) - 1)
                 PROVE  /\ next_free_block'[Node(i)'] = Node(i + 1)'
                        /\ prev_free_block'[Node(i + 1)'] = Node(i)'
      BY <1>4 DEF LinkedFrom
    <2> DEFINE x == IF i < k THEN i ELSE i + 1
               y == IF i + 1 < k THEN i + 1 ELSE i + 2
    <2>1. Node(i)' = Node(x) /\ Node(i + 1)' = Node(y)
      BY <1>3, <1>8
    <2>2. CASE i = k - 1
      <3>1. Node(x) = before /\ Node(y) = after
        BY <1>3, <2>2
      <3> QED
        BY <1>1, <1>5, <2>1, <3>1 DEF remove, TypeOK
    <2>3. CASE i # k - 1
      <3>0. /\ x \in 0 .. Len(queue) /\ y = x + 1
            /\ {x, y, k - 1, k, k + 1} \subseteq 0 .. (Len(queue) + 1)
            /\ x # k /\ x # k - 1 /\ y # k /\ y # k + 1
        BY <1>2, <1>3, <2>3
      <3> HIDE DEF x, y
      <3>1. Node(x) \in Nodes \ {b, before} /\ Node(y) \in Nodes \ {b, after}
        BY <1>1, <1>3, <3>0, NodeFacts
      <3>2. next_free_block[Node(x)] = Node(y) /\ prev_free_block[Node(y)] = Node(x)
        BY <1>1, <3>0 DEF LinkedFrom
      <3> QED
        BY <1>1, <2>1, <3>1, <3>2 DEF remove, TypeOK
    <2> QED
      BY <2>2, <2>3
  <1>10. ASSUME NEW c \in Blocks, ~ InQueue(c)'
         PROVE  Unlinked(c)'
    <2>1. ASSUME NEW j \in 1 .. Len(queue), queue[j] = c
          PROVE  j = k
      <3>1. ASSUME j # k PROVE FALSE
        <4>1. CASE j < k
          BY <1>2, <1>3, <1>4, <1>10, <2>1, <4>1 DEF InQueue
        <4>2. CASE j > k
          <5>1. j - 1 \in 1 .. Len(queue') /\ queue'[j - 1] = c
            BY <1>2, <1>3, <1>4, <2>1, <4>2
          <5> QED
            BY <1>10, <5>1 DEF InQueue
        <4> QED
          BY <1>3, <3>1, <4>1, <4>2
      <3> QED
        BY <3>1
    <2>2. c # before /\ c # after
      BY <1>1, <1>2, <1>3, <2>1, NodeFacts
    <2>3. c = b \/ Unlinked(c)
      BY <1>1, <1>2, <2>1 DEF InQueue
    <2>4. c \in Nodes
      BY <1>1, NodeFacts
    <2> QED
      BY <1>1, <1>5, <2>2, <2>3, <2>4 DEF Unlinked, remove, TypeOK
  <1>11. next_free_block'[fake_free_list_tail] = None /\ prev_free_block'[fake_free_list_head] = None
    BY <1>1, <1>5 DEF IInv, remove, TypeOK
  <1>12. num_free_blocks' = Len(queue') /\ LoopIdle' /\ call' = "none"
    BY <1>1, <1>4 DEF remove, LoopIdle, loop
  <1> QED
    BY <1>6, <1>7, <1>9, <1>10, <1>11, <1>12 DEF IInv, Linked, PopInv, AppendInv

LEMMA AppendBlockInv == ASSUME NEW b \in Blocks, IInv, append(b) PROVE IInv'
  <1> DEFINE last == prev_free_block[fake_free_list_tail]
             n    == Len(queue)
  <1>1. /\ TypeOK /\ NoDuplicates /\ LinkedFrom(0) /\ num_free_blocks = n
        /\ LoopIdle /\ \A c \in Blocks : ~ InQueue(c) => Unlinked(c)
        /\ ~ InQueue(b)
    BY DEF IInv, append, Linked
  <1>2. last = Node(n) /\ n \in Nat
    BY <1>1, NodeFacts DEF LinkedFrom
  <1>3. /\ queue' \in Seq(Blocks) /\ Len(queue') = n + 1
        /\ \A i \in 1 .. n : queue'[i] = queue[i]
        /\ queue'[n + 1] = b
    BY <1>1 DEF append, TypeOK
  <1>4. \A i \in 1 .. n : queue[i] # b
    BY <1>1 DEF InQueue
  <1>5. /\ {b, last, fake_free_list_head, fake_free_list_tail} \subseteq Nodes
        /\ \A i \in 0 .. (n + 1) : Node(i) # b
        /\ last # fake_free_list_tail /\ b # last
    BY <1>1, <1>2, <1>4, NodeFacts
  <1>6. NoDuplicates'
    BY <1>1, <1>2, <1>3, <1>4 DEF NoDuplicates
  <1>7. TypeOK'
    <2>1. next_free_block' \in [Nodes -> Nodes \cup {None}]
      BY <1>1, <1>5 DEF append, TypeOK
    <2>2. prev_free_block' \in [Nodes -> Nodes \cup {None}]
      BY <1>1, <1>5 DEF append, TypeOK
    <2>3. num_free_blocks' \in Nat /\ out' \in Seq(Blocks)
      BY <1>1, <1>2 DEF append
    <2> QED
      BY <1>1, <1>3, <2>1, <2>2, <2>3 DEF append, TypeOK, loop
  <1>8. \A i \in 0 .. n : Node(i)' = Node(i)
    BY <1>2, <1>3 DEF Node
  <1>9. \A i \in Nat : /\ i = n + 1 => Node(i)' = b
                       /\ i = n + 2 => Node(i)' = fake_free_list_tail
    BY <1>2, <1>3 DEF Node
  <1>10. LinkedFrom(0)'
    <2> SUFFICES ASSUME NEW i \in 0 .. (n + 1)
                 PROVE  /\ next_free_block'[Node(i)'] = Node(i + 1)'
                        /\ prev_free_block'[Node(i + 1)'] = Node(i)'
      BY <1>3 DEF LinkedFrom
    <2>1. CASE i = n + 1
      <3>1. Node(i)' = b /\ Node(i + 1)' = fake_free_list_tail
        BY <1>2, <1>9, <2>1
      <3> QED
        BY <1>1, <1>5, <3>1 DEF append, TypeOK
    <2>2. CASE i = n
      <3>1. Node(i)' = last /\ Node(i + 1)' = b
        BY <1>2, <1>8, <1>9, <2>2
      <3> QED
        BY <1>1, <1>5, <3>1 DEF append, TypeOK
    <2>3. CASE i < n
      <3>1. /\ Node(i)' = Node(i) /\ Node(i + 1)' = Node(i + 1)
            /\ Node(i) \in Nodes \ {b, last} /\ Node(i + 1) \in Nodes \ {b, fake_free_list_tail}
        BY <1>1, <1>2, <1>5, <1>8, <2>3, NodeFacts
      <3>2. next_free_block[Node(i)] = Node(i + 1) /\ prev_free_block[Node(i + 1)] = Node(i)
        BY <1>1, <1>2, <2>3 DEF LinkedFrom
      <3> QED
        BY <1>1, <3>1, <3>2 DEF append, TypeOK
    <2> QED
      BY <1>2, <2>1, <2>2, <2>3
  <1>11. ASSUME NEW c \in Blocks, ~ InQueue(c)'
         PROVE  Unlinked(c)'
    <2>1. c # b
      BY <1>2, <1>3, <1>11 DEF InQueue
    <2>2. ~ InQueue(c)
      BY <1>2, <1>3, <1>11 DEF InQueue
    <2>3. c # last /\ c \in Nodes /\ c # fake_free_list_tail
      BY <1>1, <1>2, <2>2, NodeFacts DEF InQueue
    <2> QED
      BY <1>1, <1>5, <2>1, <2>2, <2>3 DEF Unlinked, append, TypeOK
  <1>12. next_free_block'[fake_free_list_tail] = None /\ prev_free_block'[fake_free_list_head] = None
    <2>1. b # fake_free_list_tail /\ b # fake_free_list_head /\ fake_free_list_head # fake_free_list_tail
      BY <1>1, NodeFacts
    <2> QED
      BY <1>1, <1>5, <2>1 DEF IInv, append, TypeOK
  <1>13. num_free_blocks' = Len(queue') /\ LoopIdle' /\ call' = "none"
    BY <1>1, <1>3 DEF append, LoopIdle, loop
  <1> QED
    BY <1>6, <1>7, <1>10, <1>11, <1>12, <1>13 DEF IInv, Linked, PopInv, AppendInv

LEMMA AppendNInv ==
    ASSUME NEW m \in 1 .. NumBlocks, NEW s \in Lists(m), IInv, append_n(s)
    PROVE  IInv'
  <1>1. /\ TypeOK /\ NoDuplicates /\ LinkedFrom(0) /\ num_free_blocks = Len(queue)
        /\ LoopIdle /\ \A c \in Blocks : ~ InQueue(c) => Unlinked(c)
    BY DEF IInv, append_n, Linked
  <1>2. s \in Seq(Blocks) /\ Len(s) = m /\ m \in Nat
    BY NumBlocksAssumption DEF Lists
  <1>3. cursor' = Node(Len(queue)) /\ cursor' \in Nodes /\ Len(queue) \in Nat
    BY <1>1, NodeFacts DEF append_n, LinkedFrom
  <1>4. TypeOK' /\ NoDuplicates'
    BY <1>1, <1>2, <1>3 DEF append_n, TypeOK, NoDuplicates
  <1>5. \A i \in 0 .. (Len(queue) + 1) : Node(i)' = Node(i)
    BY DEF Node, append_n
  <1>6. AppendInv'
    <2>1. cursor' = Placed(todo - 1)'
      BY <1>3, <1>5 DEF Placed, append_n
    <2>2. \A i \in 0 .. (Len(queue') - 1) :
            /\ next_free_block'[Node(i)'] = Node(i + 1)'
            /\ prev_free_block'[Node(i + 1)'] = Node(i)'
      <3> SUFFICES ASSUME NEW i \in 0 .. (Len(queue) - 1)
                   PROVE  /\ next_free_block[Node(i)] = Node(i + 1)
                          /\ prev_free_block[Node(i + 1)] = Node(i)
        <4>1. queue' = queue /\ next_free_block' = next_free_block
              /\ prev_free_block' = prev_free_block
          BY DEF append_n
        <4>2. \A i \in 0 .. (Len(queue) - 1) : Node(i)' = Node(i) /\ Node(i + 1)' = Node(i + 1)
          BY <1>3, <1>5
        <4> QED
          BY <4>1, <4>2
      <3> QED
        BY <1>1, <1>3 DEF LinkedFrom
    <2>3. \A c \in Blocks : ~ InQueue(c)' => Unlinked(c)'
      BY <1>1 DEF append_n, InQueue, Unlinked
    <2>4. /\ \A i \in 1 .. Len(ret') : ~ InQueue(ret[i])'
          /\ \A i, j \in 1 .. Len(ret') : ret'[i] = ret'[j] => i = j
      BY DEF append_n, InQueue
    <2>5. todo' = 1 /\ Len(ret') = m /\ num_free_blocks' = Len(queue')
      BY <1>1, <1>2 DEF append_n
    <2> QED
      BY <1>2, <2>1, <2>2, <2>3, <2>4, <2>5 DEF AppendInv
  <1> QED
    BY <1>4, <1>6 DEF IInv, append_n, Linked, PopInv

(* The blocks append_n links, after the old last block, are new nodes.     *)
LEMMA PlacedFacts ==
    ASSUME TypeOK, NoDuplicates, AppendInv, call = "append_n"
    PROVE  /\ Len(ret) \in Nat
           /\ \A i \in 1 .. Len(ret) : ret[i] \in Blocks /\ ret[i] \in Nodes /\ Placed(i) = ret[i]
           /\ \A i \in 0 .. Len(ret) : Placed(i) \in Nodes
           /\ Placed(0) = Node(Len(queue))
           /\ \A i, j \in 0 .. Len(ret) : Placed(i) = Placed(j) => i = j
           /\ \A i \in 1 .. Len(ret), j \in 0 .. (Len(queue) + 1) : ret[i] # Node(j)
           /\ \A i \in 0 .. Len(ret) : Placed(i) # fake_free_list_tail
  <1>1. Len(ret) \in Nat /\ \A i \in 1 .. Len(ret) : ret[i] \in Blocks
    BY DEF TypeOK
  <1>2. \A i \in 1 .. Len(ret) : ~ InQueue(ret[i])
    BY DEF AppendInv
  <1>3. \A i \in 1 .. Len(ret), j \in 1 .. Len(queue) : ret[i] # queue[j]
    BY <1>2 DEF InQueue
  <1>4. \A i \in 1 .. Len(ret), j \in 0 .. (Len(queue) + 1) : ret[i] # Node(j)
    BY <1>1, <1>3, NodeFacts
  <1>5. \A i, j \in 1 .. Len(ret) : ret[i] = ret[j] => i = j
    BY DEF AppendInv
  <1> QED
    BY <1>1, <1>4, <1>5, NodeFacts DEF Placed

LEMMA AppendNIterInv == IInv /\ append_n_iter => IInv'
  <1> SUFFICES ASSUME IInv, append_n_iter PROVE IInv'
    OBVIOUS
  <1> DEFINE b == ret[todo]
  <1>1. /\ TypeOK /\ NoDuplicates /\ AppendInv /\ call = "append_n"
        /\ todo \in 1 .. Len(ret) /\ todo \in Nat /\ Len(queue) \in Nat /\ Len(ret) \in Nat
    BY DEF IInv, append_n_iter, AppendInv, TypeOK
  <1>2. cursor = Placed(todo - 1) /\ cursor \in Nodes /\ b \in Blocks /\ b \in Nodes
    BY <1>1, PlacedFacts DEF AppendInv
  <1>3. TypeOK' /\ NoDuplicates'
    <2>1. next_free_block' \in [Nodes -> Nodes \cup {None}]
      BY <1>1, <1>2 DEF append_n_iter, TypeOK
    <2>2. prev_free_block' \in [Nodes -> Nodes \cup {None}]
      BY <1>1, <1>2 DEF append_n_iter, TypeOK
    <2> QED
      BY <1>1, <1>2, <2>1, <2>2 DEF append_n_iter, TypeOK, NoDuplicates
  <1>4. \A i \in 0 .. (Len(queue) + 1) : Node(i)' = Node(i)
    BY DEF Node, append_n_iter
  <1>5. \A i \in 0 .. Len(ret) : Placed(i)' = Placed(i)
    <2>1. \A i \in 1 .. Len(ret) : Placed(i)' = Placed(i)
      BY DEF Placed, append_n_iter
    <2>2. Placed(0)' = Placed(0)
      BY <1>1, <1>4 DEF Placed, append_n_iter
    <2> QED
      BY <1>1, <2>1, <2>2
  <1>6. ASSUME NEW i \in 0 .. (Len(queue) - 1)
        PROVE  /\ next_free_block'[Node(i)'] = Node(i + 1)'
               /\ prev_free_block'[Node(i + 1)'] = Node(i)'
    <2>1. Node(i)' = Node(i) /\ Node(i + 1)' = Node(i + 1)
      BY <1>1, <1>4
    <2>2. Node(i) \in Nodes /\ Node(i + 1) \in Nodes /\ Node(i) # Node(Len(queue))
      BY <1>1, NodeFacts
    <2>3. Node(i) # cursor
      BY <1>1, <1>2, <2>2, PlacedFacts
    <2>4. Node(i + 1) # b
      BY <1>1, PlacedFacts
    <2>5. next_free_block[Node(i)] = Node(i + 1) /\ prev_free_block[Node(i + 1)] = Node(i)
      BY <1>1 DEF AppendInv
    <2> QED
      BY <1>1, <2>1, <2>2, <2>3, <2>4, <2>5 DEF append_n_iter, TypeOK
  <1>7. ASSUME NEW i \in 1 .. todo
        PROVE  /\ next_free_block'[Placed(i - 1)'] = ret'[i]
               /\ prev_free_block'[ret'[i]] = Placed(i - 1)'
    <2>1. Placed(i - 1)' = Placed(i - 1) /\ ret' = ret /\ Placed(i - 1) \in Nodes /\ ret[i] \in Nodes
      BY <1>1, <1>5, PlacedFacts DEF append_n_iter
    <2>2. CASE i = todo
      BY <1>1, <1>2, <2>1, <2>2 DEF append_n_iter, TypeOK
    <2>3. CASE i < todo
      <3>1. Placed(i - 1) # cursor
        BY <1>1, <1>2, <2>3, PlacedFacts
      <3>2. ret[i] # b
        BY <1>1, <2>3 DEF AppendInv
      <3>3. next_free_block[Placed(i - 1)] = ret[i] /\ prev_free_block[ret[i]] = Placed(i - 1)
        BY <1>1, <2>3 DEF AppendInv
      <3> QED
        BY <1>1, <1>2, <2>1, <3>1, <3>2, <3>3 DEF append_n_iter, TypeOK
    <2> QED
      BY <1>1, <2>2, <2>3
  <1>8. ASSUME NEW c \in Blocks, ~ InQueue(c), \A i \in 1 .. todo : ret[i] # c
        PROVE  Unlinked(c)'
    <2>1. Unlinked(c)
      BY <1>1, <1>8 DEF AppendInv
    <2>2. c # b /\ c \in Nodes
      BY <1>1, <1>8, NodeFacts
    <2>3. c # cursor
      <3>1. CASE todo = 1
        BY <1>1, <1>2, <1>8, <3>1, NodeFacts, PlacedFacts DEF InQueue
      <3>2. CASE todo > 1
        BY <1>1, <1>2, <1>8, <3>2, PlacedFacts
      <3> QED
        BY <1>1, <3>1, <3>2
    <2> QED
      BY <1>1, <1>2, <2>1, <2>2, <2>3 DEF append_n_iter, Unlinked, TypeOK
  <1>9. AppendInv'
    <2>1. /\ queue' = queue /\ ret' = ret /\ todo' = todo + 1 /\ cursor' = b
          /\ num_free_blocks' = num_free_blocks
      BY DEF append_n_iter
    <2>2. cursor' = Placed(todo - 1)'
      BY <1>1, <2>1 DEF Placed
    <2>3. /\ \A i \in 1 .. Len(ret') : ~ InQueue(ret[i])'
          /\ \A i, j \in 1 .. Len(ret') : ret'[i] = ret'[j] => i = j
          /\ num_free_blocks' = Len(queue') /\ Len(ret') \in 1 .. NumBlocks
      BY <1>1, <2>1 DEF AppendInv, InQueue
    <2>4. todo' \in 1 .. (Len(ret') + 1) /\ todo' - 1 = todo
      BY <1>1, <2>1
    <2>5. \A c \in Blocks : ~ InQueue(c)' /\ (\A i \in 1 .. (todo' - 1) : ret'[i] # c) => Unlinked(c)'
      BY <1>8, <2>1, <2>4 DEF InQueue
    <2> QED
      BY <1>6, <1>7, <2>1, <2>2, <2>3, <2>4, <2>5 DEF AppendInv
  <1>10. next_free_block'[fake_free_list_tail] = None /\ prev_free_block'[fake_free_list_head] = None
    <2>1. /\ cursor # fake_free_list_tail /\ b # fake_free_list_head
          /\ fake_free_list_tail \in Nodes /\ fake_free_list_head \in Nodes
      BY <1>1, <1>2, NodeFacts, PlacedFacts
    <2> QED
      BY <1>1, <1>2, <2>1 DEF append_n_iter, IInv, TypeOK
  <1> QED
    BY <1>1, <1>3, <1>9, <1>10 DEF IInv, append_n_iter, Linked, PopInv

LEMMA AppendNReturnInv == IInv /\ append_n_return => IInv'
  <1> SUFFICES ASSUME IInv, append_n_return PROVE IInv'
    OBVIOUS
  <1> DEFINE n == Len(queue)
             m == Len(ret)
  <1>1. /\ TypeOK /\ NoDuplicates /\ AppendInv /\ call = "append_n"
        /\ todo = m + 1 /\ n \in Nat /\ m \in Nat /\ m >= 1 /\ num_free_blocks = n
    BY DEF IInv, append_n_return, AppendInv, TypeOK
  <1>2. cursor = Placed(m) /\ cursor \in Nodes
    BY <1>1, PlacedFacts DEF AppendInv
  <1>3. /\ queue' \in Seq(Blocks) /\ Len(queue') = n + m
        /\ \A i \in 1 .. n : queue'[i] = queue[i]
        /\ \A i \in 1 .. m : queue'[n + i] = ret[i]
    BY <1>1 DEF append_n_return, TypeOK
  <1>4. \A i \in (n + 1) .. (n + m) : queue'[i] = ret[i - n]
    BY <1>1, <1>3
  <1>5. \A i \in 0 .. n : Node(i)' = Node(i)
    BY <1>1, <1>3 DEF Node
  <1>6. \A i \in n .. (n + m) : Node(i)' = Placed(i - n)
    <2> TAKE i \in n .. (n + m)
    <2>1. CASE i = n
      BY <1>1, <1>5, <2>1 DEF Placed
    <2>2. CASE i > n
      BY <1>1, <1>3, <1>4, <2>2 DEF Placed, Node
    <2> QED
      BY <1>1, <2>1, <2>2
  <1>7. \A i \in Nat : i = n + m + 1 => Node(i)' = fake_free_list_tail
    BY <1>1, <1>3 DEF Node
  <1>8. NoDuplicates'
    <2> SUFFICES ASSUME NEW i \in 1 .. (n + m), NEW j \in 1 .. (n + m), queue'[i] = queue'[j]
                 PROVE  i = j
      BY <1>3 DEF NoDuplicates
    <2>1. CASE i <= n /\ j <= n
      BY <1>1, <1>3, <2>1 DEF NoDuplicates
    <2>2. CASE i > n /\ j > n
      <3>1. ret[i - n] = ret[j - n] /\ i - n \in 1 .. m /\ j - n \in 1 .. m
        BY <1>1, <1>4, <2>2
      <3>2. i - n = j - n
        BY <1>1, <3>1 DEF AppendInv
      <3> QED
        BY <1>1, <3>2
    <2>3. CASE i <= n /\ j > n
      <3>1. i \in 1 .. n /\ j - n \in 1 .. m /\ j \in (n + 1) .. (n + m)
        BY <1>1, <2>3
      <3>2. queue[i] = ret[j - n]
        BY <1>3, <1>4, <3>1
      <3> QED
        BY <1>1, <3>1, <3>2, NodeFacts, PlacedFacts
    <2>4. CASE i > n /\ j <= n
      <3>1. queue[j] = ret[i - n] /\ j \in 1 .. n /\ i - n \in 1 .. m
        BY <1>1, <1>3, <1>4, <2>4
      <3> QED
        BY <1>1, <3>1, NodeFacts, PlacedFacts
    <2> QED
      BY <1>1, <2>1, <2>2, <2>3, <2>4
  <1>9. /\ LoopIdle' /\ call' = "none" /\ num_free_blocks' = Len(queue') /\ out' = << >>
    BY <1>1, <1>3 DEF append_n_return, LoopDone, LoopIdle
  <1>10. TypeOK'
    <2>1. fake_free_list_tail \in Nodes
      BY <1>1, NodeFacts
    <2>2. next_free_block' \in [Nodes -> Nodes \cup {None}]
      BY <1>1, <1>2, <2>1 DEF append_n_return, TypeOK
    <2>3. prev_free_block' \in [Nodes -> Nodes \cup {None}]
      BY <1>1, <1>2, <2>1 DEF append_n_return, TypeOK
    <2>4. num_free_blocks' \in Nat /\ out' \in Seq(Blocks)
      BY <1>1, <1>3, <1>9
    <2> QED
      BY <1>3, <1>9, <2>2, <2>3, <2>4 DEF TypeOK, LoopIdle
  <1>11. LinkedFrom(0)'
    <2> SUFFICES ASSUME NEW i \in 0 .. (n + m)
                 PROVE  /\ next_free_block'[Node(i)'] = Node(i + 1)'
                        /\ prev_free_block'[Node(i + 1)'] = Node(i)'
      BY <1>3 DEF LinkedFrom
    <2>0. fake_free_list_tail \in Nodes
      BY <1>1, NodeFacts
    <2>1. CASE i < n
      <3>1. Node(i)' = Node(i) /\ Node(i + 1)' = Node(i + 1)
        BY <1>1, <1>5, <2>1
      <3>2. /\ Node(i) \in Nodes /\ Node(i) # Node(n)
            /\ Node(i + 1) \in Nodes /\ Node(i + 1) # fake_free_list_tail
        BY <1>1, <2>1, NodeFacts
      <3>3. Node(i) # cursor
        BY <1>1, <1>2, <2>1, PlacedFacts
      <3>4. next_free_block[Node(i)] = Node(i + 1) /\ prev_free_block[Node(i + 1)] = Node(i)
        BY <1>1, <2>1 DEF AppendInv
      <3> QED
        BY <1>1, <1>2, <2>0, <3>1, <3>2, <3>3, <3>4 DEF append_n_return, TypeOK
    <2>2. CASE i >= n /\ i < n + m
      <3> DEFINE j == i - n
      <3>1. /\ Node(i)' = Placed(j) /\ Node(i + 1)' = Placed(j + 1) /\ j \in 0 .. (m - 1)
            /\ i + 1 - n = j + 1
        <4>1. i \in n .. (n + m) /\ i + 1 \in n .. (n + m) /\ (i + 1) - n = j + 1 /\ j \in 0 .. (m - 1)
          BY <1>1, <2>2
        <4> QED
          BY <1>6, <4>1
      <3>2. /\ Placed(j + 1) = ret[j + 1] /\ ret[j + 1] \in Nodes /\ ret[j + 1] # fake_free_list_tail
            /\ Placed(j) \in Nodes /\ Placed(j) # cursor
        BY <1>1, <1>2, <3>1, PlacedFacts
      <3>3. /\ next_free_block[Placed(j)] = ret[j + 1] /\ prev_free_block[ret[j + 1]] = Placed(j)
        <4>1. j + 1 \in 1 .. (todo - 1) /\ (j + 1) - 1 = j
          BY <1>1, <3>1
        <4> QED
          BY <1>1, <4>1 DEF AppendInv
      <3> QED
        BY <1>1, <1>2, <2>0, <3>1, <3>2, <3>3 DEF append_n_return, TypeOK
    <2>3. CASE i = n + m
      <3>1. Node(i)' = cursor /\ Node(i + 1)' = fake_free_list_tail
        BY <1>1, <1>2, <1>6, <1>7, <2>3
      <3> QED
        BY <1>1, <1>2, <2>0, <3>1 DEF append_n_return, TypeOK
    <2> QED
      BY <1>1, <2>1, <2>2, <2>3
  <1>12. ASSUME NEW c \in Blocks, ~ InQueue(c)'
         PROVE  Unlinked(c)'
    <2>1. \A i \in 1 .. n : queue[i] # c
      BY <1>1, <1>3, <1>12 DEF InQueue
    <2>2. \A i \in 1 .. m : ret[i] # c
      <3> TAKE i \in 1 .. m
      <3>1. n + i \in 1 .. Len(queue') /\ queue'[n + i] = ret[i]
        BY <1>1, <1>3
      <3> QED
        BY <3>1, <1>12 DEF InQueue
    <2>3. Unlinked(c)
      <3>1. ~ InQueue(c) /\ todo - 1 = m
        BY <1>1, <2>1 DEF InQueue
      <3> QED
        BY <1>1, <2>2, <3>1 DEF AppendInv
    <2>4. c # cursor /\ c \in Nodes /\ c # fake_free_list_tail /\ fake_free_list_tail \in Nodes
      BY <1>1, <1>2, <2>2, PlacedFacts, NodeFacts
    <2> QED
      BY <1>1, <1>2, <2>3, <2>4 DEF append_n_return, Unlinked, TypeOK
  <1>13. next_free_block'[fake_free_list_tail] = None /\ prev_free_block'[fake_free_list_head] = None
    <2>1. /\ cursor # fake_free_list_tail /\ fake_free_list_head # fake_free_list_tail
          /\ fake_free_list_tail \in Nodes /\ fake_free_list_head \in Nodes
      BY <1>1, <1>2, NodeFacts, PlacedFacts
    <2> QED
      BY <1>1, <1>2, <2>1 DEF append_n_return, IInv, TypeOK
  <1> QED
    BY <1>8, <1>9, <1>10, <1>11, <1>12, <1>13 DEF IInv, Linked, PopInv, AppendInv

-------------------------------------------------------------------------------

(* IInv is inductive: one case per method of the queue.                    *)
LEMMA NextInv == IInv /\ [Next]_vars => IInv'
  <1> SUFFICES ASSUME IInv, [Next]_vars PROVE IInv'
    OBVIOUS
  <1>1. CASE UNCHANGED vars
    BY <1>1 DEF IInv, vars, TypeOK, NoDuplicates, Linked, LinkedFrom, Unlinked, InQueue,
                PopInv, AppendInv, Placed, Node, LoopIdle
  <1>2. CASE Next
    BY <1>2, PopLeftInv, PopLeftNInv, PopLeftNIterInv, PopLeftNReturnInv, RemoveInv,
       AppendBlockInv, AppendNInv, AppendNIterInv, AppendNReturnInv DEF Next
  <1> QED
    BY <1>1, <1>2

(* For every pool size: between two calls the forward and the backward     *)
(* links describe one and the same order of distinct blocks, num_free_     *)
(* blocks is its length, and a block outside the list carries no links.    *)
THEOREM LinkedInvariant == Spec => []Linked
  <1>1. Init => IInv
    BY InitInv
  <1>2. IInv /\ [Next]_vars => IInv'
    BY NextInv
  <1>3. IInv => Linked
    BY DEF IInv
  <1> QED
    BY <1>1, <1>2, <1>3, PTL DEF Spec

(* The variables keep their types for every pool size.                     *)
THEOREM TypeCorrect == Spec => []TypeOK
  <1>1. IInv => TypeOK
    BY DEF IInv
  <1> QED
    BY InitInv, NextInv, <1>1, PTL DEF Spec

(* Every step of the linked list is a step of the queue it implements.     *)
LEMMA StepRefines == IInv /\ [Next]_vars => [AbsNext]_absVars
  <1> SUFFICES ASSUME IInv, [Next]_vars PROVE AbsNext \/ UNCHANGED absVars
    OBVIOUS
  <1>1. TypeOK /\ NoDuplicates
    BY DEF IInv
  <1>2. CASE popleft
    <2>1. LinkedFrom(0)
      BY <1>2 DEF IInv, popleft, Linked
    <2>2. Len(queue) > 0 /\ next_free_block[fake_free_list_head] = queue[1]
      BY <1>1, <1>2, <2>1, NodeFacts DEF popleft, LinkedFrom
    <2>3. queue # << >>
      BY <2>2
    <2> QED
      BY <1>2, <2>2, <2>3 DEF popleft, AbsPopLeft, AbsNext
  <1>3. CASE popleft_n_return
    <2>1. /\ Len(ret) \in 1 .. Len(queue) /\ \A i \in 1 .. Len(ret) : ret[i] = queue[i]
          /\ ret \in Seq(Blocks) /\ queue \in Seq(Blocks)
      BY <1>1, <1>3 DEF IInv, PopInv, popleft_n_return, TypeOK
    <2>2. ret = SubSeq(queue, 1, Len(ret))
      BY <2>1
    <2>3. AbsPopLeftN(Len(ret))
      BY <1>3, <2>1, <2>2 DEF AbsPopLeftN, popleft_n_return
    <2> QED
      BY <2>1, <2>3 DEF AbsNext
  <1>4. ASSUME NEW b \in Blocks, remove(b) PROVE AbsNext
    BY <1>4 DEF remove, AbsRemove, AbsNext
  <1>5. ASSUME NEW b \in Blocks, append(b) PROVE AbsNext
    <2>1. <<b>> \in Lists(1) /\ Len(<<b>>) = 1 /\ <<b>>[1] = b
      BY DEF Lists
    <2>2. queue' = queue \o <<b>>
      BY <1>1, <1>5 DEF append, TypeOK
    <2>3. AbsAppendN(<<b>>)
      BY <1>5, <2>1, <2>2 DEF append, AbsAppendN
    <2>4. 1 \in 1 .. NumBlocks
      BY NumBlocksAssumption
    <2> QED
      BY <2>1, <2>3, <2>4 DEF AbsNext
  <1>6. CASE append_n_return
    <2>1. AppendInv /\ call = "append_n" /\ ret \in Seq(Blocks)
      BY <1>6 DEF IInv, append_n_return, TypeOK
    <2>2. Len(ret) \in 1 .. NumBlocks /\ ret \in Lists(Len(ret))
      BY <2>1 DEF AppendInv, Lists
    <2>3. AbsAppendN(ret)
      BY <1>6, <2>1 DEF AppendInv, AbsAppendN, append_n_return
    <2> QED
      BY <2>2, <2>3 DEF AbsNext
  <1>7. CASE popleft_n_iter \/ append_n_iter \/ UNCHANGED vars
    BY <1>7 DEF popleft_n_iter, append_n_iter, vars, absVars
  <1>8. CASE \E n \in 1 .. NumBlocks : popleft_n(n)
    BY <1>8 DEF popleft_n, absVars
  <1>9. CASE \E n \in 1 .. NumBlocks : \E s \in Lists(n) : append_n(s)
    BY <1>9 DEF append_n, absVars
  <1> QED
    BY <1>2, <1>3, <1>4, <1>5, <1>6, <1>7, <1>8, <1>9 DEF Next

(* The linked list implements the sequence-level queue: whatever the order *)
(* of the calls, popleft_n returns the first n free blocks in order and    *)
(* remove and append_n leave the order the block pool relies on.           *)
THEOREM ListImplementsQueue == Spec => Refinement
  <1>1. Init => AbsInit
    BY DEF Init
  <1> QED
    BY <1>1, InitInv, NextInv, StepRefines, PTL DEF Spec, AbsSpec, Refinement
===============================================================================
