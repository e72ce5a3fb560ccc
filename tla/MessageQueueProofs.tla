------------------------- MODULE MessageQueueProofs -------------------------
(***************************************************************************)
(* Proofs about enqueue and dequeue on top of the ring buffer, for any     *)
(* number of readers and of chunks: the socket for large messages stays in *)
(* step with the ring, and no wake-up is lost.                             *)
(***************************************************************************)
EXTENDS MessageQueue, ShmRingBufferProofs

\* Every step of enqueue and dequeue is a step of the ring buffer or leaves it alone.
LEMMA MqStepsRing == [MqNext]_mqVars => [RingNext]_ringVars
<1> USE DEF RingNext, Write, Read
<1>1. ASSUME NEW large \in BOOLEAN, enqueue(large) PROVE RingNext
  BY <1>1 DEF enqueue
<1>2. CASE enqueue_rest
  BY <1>2 DEF enqueue_rest, write_chunk, send_multipart, notify
<1>3. ASSUME NEW r \in Readers, Reader(r) PROVE RingNext \/ UNCHANGED ringVars
  BY <1>3 DEF Reader, dequeue, use, try_read, check_ready, wake, read_buf, finish_read, recv
<1>4. CASE UNCHANGED mqVars
  BY <1>4 DEF mqVars
<1> QED BY <1>1, <1>2, <1>3, <1>4 DEF MqNext

\* Nothing is written, on its way or received.
LEMMA MqInitInv == MqInit => MqInv
<1> SUFFICES ASSUME MqInit PROVE MqInv
  OBVIOUS
<1>1. RingInv
  BY RingInitInv DEF MqInit
<1>2. MqTypeOK
  BY DEF MqInit, MqTypeOK
<1>3. EnqueueInv
  BY DEF MqInit, RingInit, EnqueueInv, inside
<1>4. ASSUME NEW r \in Readers PROVE SocketInv(r) /\ DequeueInv(r)
  BY DEF MqInit, RingInit, SocketInv, on_the_way, DequeueInv
<1> QED BY <1>1, <1>2, <1>3, <1>4 DEF MqInv

\* The types of the queue's own variables.
LEMMA MqTypeStep == MqInv /\ [MqNext]_mqVars => MqTypeOK'
<1> SUFFICES ASSUME MqInv, [MqNext]_mqVars PROVE MqTypeOK'
  OBVIOUS
<1> USE DEF MqTypeOK
<1>t. MqTypeOK /\ RingTypeOK
  BY DEF MqInv, RingInv
<1>1. ASSUME NEW large \in BOOLEAN, enqueue(large) PROVE MqTypeOK'
  BY <1>t, <1>1 DEF enqueue, RingTypeOK
<1>2. CASE write_chunk
  BY <1>t, <1>2 DEF write_chunk, socketVars
<1>3. CASE send_multipart
  BY <1>t, <1>3 DEF send_multipart, RingTypeOK
<1>4. CASE notify
  BY <1>t, <1>4 DEF notify
<1>5. ASSUME NEW r \in Readers, try_read(r) \/ read_buf(r) PROVE MqTypeOK'
  BY <1>t, <1>5 DEF try_read, read_buf, socketVars
<1>6. ASSUME NEW r \in Readers, check_ready(r) PROVE MqTypeOK'
  BY <1>t, <1>6 DEF check_ready
<1>7. ASSUME NEW r \in Readers, wake(r) PROVE MqTypeOK'
  BY <1>t, <1>7 DEF wake
<1>8. ASSUME NEW r \in Readers, finish_read(r) PROVE MqTypeOK'
  <2>1. r_msg[r] \in Nat
    BY <1>t DEF RingTypeOK
  <2>2. UNCHANGED <<mq_pc, overflow, local_socket, notification, polling>>
    BY <1>8 DEF finish_read
  <2>3. receiving' \in [Readers -> BOOLEAN]
    <3>1. receiving' = [receiving EXCEPT ![r] = TRUE] \/ receiving' = receiving
      BY <1>8 DEF finish_read
    <3> QED BY <1>t, <3>1
  <2>4. obj' \in [Readers -> Nat]
    <3>1. obj' = [obj EXCEPT ![r] = r_msg[r]] \/ obj' = obj
      BY <1>8 DEF finish_read
    <3> QED BY <1>t, <2>1, <3>1
  <2> QED BY <1>t, <2>2, <2>3, <2>4
<1>9. ASSUME NEW r \in Readers, recv(r) PROVE MqTypeOK'
  BY <1>t, <1>9 DEF recv
<1>10. ASSUME NEW r \in Readers, use(r) PROVE MqTypeOK'
  BY <1>t, <1>10 DEF use
<1>11. CASE UNCHANGED mqVars
  BY <1>t, <1>11 DEF mqVars, socketVars
<1> QED BY <1>1, <1>2, <1>3, <1>4, <1>5, <1>6, <1>7, <1>8, <1>9, <1>10, <1>11
        DEF MqNext, enqueue_rest, Reader, dequeue

\* Readers leave the writer's variables alone.
LEMMA ReaderKeepsWriter ==
    ASSUME NEW r \in Readers, Reader(r)
    PROVE  UNCHANGED <<mq_pc, overflow, w_pc, sent>>
<1> USE DEF writerVars, socketVars, ringVars
<1>1. CASE try_read(r) \/ read_buf(r)
  BY <1>1 DEF try_read, read_buf, load_read_flag, read_chunk
<1>2. CASE check_ready(r)
  BY <1>2 DEF check_ready, load_written_flag
<1>3. CASE finish_read(r)
  BY <1>3 DEF finish_read, mark_read
<1>4. CASE wake(r) \/ recv(r) \/ use(r)
  BY <1>4 DEF wake, recv, use
<1> QED BY <1>1, <1>2, <1>3, <1>4 DEF Reader, dequeue

\* What enqueue knows about the message it is writing or has published.
LEMMA EnqueueStep == MqInv /\ [MqNext]_mqVars => EnqueueInv'
<1> SUFFICES ASSUME MqInv, [MqNext]_mqVars PROVE EnqueueInv'
  OBVIOUS
<1>t. MqTypeOK /\ RingTypeOK /\ EnqueueInv
  BY DEF MqInv, RingInv
<1>u. sent \in Nat /\ overflow \subseteq Nat
  BY <1>t DEF MqTypeOK, RingTypeOK
<1> USE DEF EnqueueInv, inside
<1>1. ASSUME NEW large \in BOOLEAN, enqueue(large) PROVE EnqueueInv'
  BY <1>t, <1>u, <1>1 DEF enqueue, acquire_write
<1>2. CASE write_chunk
  <2>1. CASE fill_chunk \/ reset_read_flag
    BY <1>t, <1>2, <2>1 DEF write_chunk, socketVars, fill_chunk, reset_read_flag, publish
  <2>2. CASE publish
    BY <1>t, <1>u, <1>2, <2>2 DEF write_chunk, socketVars, fill_chunk, reset_read_flag, publish
  <2> QED BY <1>2, <2>1, <2>2 DEF write_chunk
<1>3. CASE send_multipart \/ notify
  BY <1>t, <1>3 DEF send_multipart, notify, ringVars, writerVars
<1>4. ASSUME NEW r \in Readers, Reader(r) PROVE EnqueueInv'
  BY <1>t, <1>4, ReaderKeepsWriter
<1>5. CASE UNCHANGED mqVars
  BY <1>t, <1>5 DEF mqVars, ringVars, writerVars, socketVars
<1> QED BY <1>1, <1>2, <1>3, <1>4, <1>5 DEF MqNext, enqueue_rest

\* The first message of the socket is the one whose chunk has just been read.
LEMMA SocketHead ==
    ASSUME MqInv, NEW r \in Readers, receiving[r], local_socket[r] # <<>>
    PROVE  Head(local_socket[r]) = taken[r] /\ taken[r] <= given
<1> DEFINE s == local_socket[r]
<1>1. /\ s \in Seq(Nat) /\ taken[r] \in Nat /\ sent \in Nat /\ overflow \subseteq Nat
      /\ taken[r] \in overflow /\ SocketInv(r)
  BY DEF MqInv, MqTypeOK, RingInv, RingTypeOK, DequeueInv
<1>2. Len(s) \in Nat \ {0} /\ Head(s) = s[1]
  BY <1>1
<1>3. s[1] \in on_the_way(r)
  BY <1>1, <1>2 DEF SocketInv
<1>4. taken[r] <= s[1] /\ s[1] <= given /\ s[1] \in Nat /\ given \in Int
  BY <1>1, <1>3 DEF on_the_way, received, given
<1>5. taken[r] \in on_the_way(r)
  BY <1>1, <1>4 DEF on_the_way, received
<1>6. PICK i \in 1 .. Len(s) : s[i] = taken[r]
  BY <1>1, <1>5 DEF SocketInv
<1>7. i = 1
  <2>1. 1 < i => s[1] < s[i]
    BY <1>1, <1>2 DEF SocketInv
  <2> QED BY <1>1, <1>2, <1>4, <1>6, <2>1
<1> QED BY <1>2, <1>4, <1>6, <1>7

\* What a reader knows about its flags and about wake-ups: the flags it loads tell
\* the truth about whether a message waits, except one that was loaded before the
\* writer came by, and then the notification is still to be taken.
LEMMA DequeueStep ==
    ASSUME MqInv, [MqNext]_mqVars, NEW q \in Readers
    PROVE  DequeueInv(q)'
<1>t. /\ MqTypeOK /\ RingTypeOK /\ EnqueueInv /\ DequeueInv(q)
      /\ RingInv /\ WriterInv /\ ReaderInv(q)
  BY DEF MqInv, RingInv
<1>u. sent \in Nat /\ taken[q] \in Nat /\ r_idx[q] \in Chunks /\ lag(q) \in Nat
  BY <1>t DEF RingTypeOK, ReaderInv
<1>f. taken[q] # sent => written_flag[r_idx[q]] = 1 /\ read_flag[r_idx[q]][q] = 0
  <2>1. taken[q] # sent => lag(q) > 0
    BY <1>u DEF lag
  <2>2. dist(q, r_idx[q]) = 0
    BY <1>t, <1>u, DistFacts
  <2> QED BY <1>t, <1>u, <2>1, <2>2 DEF ReaderInv, unread
<1> USE DEF DequeueInv
<1>1. ASSUME NEW large \in BOOLEAN, enqueue(large) PROVE DequeueInv(q)'
  BY <1>t, <1>1 DEF enqueue, acquire_write, readerVars
<1>2. CASE write_chunk
  <2>1. taken[q] <= sent
    BY <1>t, <1>u DEF ReaderInv, lag
  <2> QED BY <1>t, <1>u, <1>2, <2>1
          DEF write_chunk, socketVars, fill_chunk, reset_read_flag, publish, readerVars
<1>3. CASE send_multipart
  BY <1>t, <1>3 DEF send_multipart, ringVars, readerVars
<1>4. CASE notify
  BY <1>t, <1>4 DEF notify, ringVars, readerVars
<1>5. ASSUME NEW r \in Readers, try_read(r) PROVE DequeueInv(q)'
  <2>1. CASE r = q
    BY <1>t, <1>u, <1>f, <1>5, <2>1
       DEF try_read, load_read_flag, writerVars, socketVars, RingTypeOK
  <2>2. CASE r # q
    BY <1>t, <1>5, <2>2 DEF try_read, load_read_flag, writerVars, socketVars, RingTypeOK
  <2> QED BY <2>1, <2>2
<1>6. ASSUME NEW r \in Readers, check_ready(r) PROVE DequeueInv(q)'
  <2>1. CASE r = q
    BY <1>t, <1>u, <1>f, <1>6, <2>1
       DEF check_ready, load_written_flag, ready, writerVars, RingTypeOK, MqTypeOK
  <2>2. CASE r # q
    BY <1>t, <1>6, <2>2 DEF check_ready, load_written_flag, writerVars, RingTypeOK, MqTypeOK
  <2> QED BY <2>1, <2>2
<1>7. ASSUME NEW r \in Readers, wake(r) PROVE DequeueInv(q)'
  BY <1>t, <1>7 DEF wake, ringVars, writerVars, readerVars, MqTypeOK
<1>8. ASSUME NEW r \in Readers, read_buf(r) PROVE DequeueInv(q)'
  BY <1>t, <1>8 DEF read_buf, read_chunk, writerVars, socketVars, RingTypeOK
<1>9. ASSUME NEW r \in Readers, finish_read(r) PROVE DequeueInv(q)'
  <2>1. CASE r = q
    <3>1. /\ r_pc[q] = "mark" /\ r_pc'[q] = "load_read" /\ taken'[q] = taken[q] + 1
          /\ r_msg[q] = taken[q] + 1
          /\ UNCHANGED <<mq_pc, overflow, sent, polling>>
      BY <1>t, <1>9, <2>1 DEF finish_read, mark_read, writerVars, RingTypeOK, ReaderInv
    <3>2. ~polling[q] /\ ~receiving[q] /\ obj[q] = 0
      BY <1>t, <3>1
    <3>3. CASE taken[q] + 1 \in overflow
      <4>1. receiving'[q] /\ obj'[q] = 0
        BY <1>t, <1>9, <2>1, <3>1, <3>2, <3>3 DEF finish_read, MqTypeOK
      <4> QED BY <1>u, <3>1, <3>2, <3>3, <4>1
    <3>4. CASE taken[q] + 1 \notin overflow
      <4>1. ~receiving'[q] /\ obj'[q] = taken[q] + 1
        BY <1>t, <1>9, <2>1, <3>1, <3>2, <3>4 DEF finish_read, MqTypeOK
      <4>2. mq_pc = "send" => sent \in overflow
        BY <1>t DEF EnqueueInv
      <4> QED BY <1>u, <3>1, <3>2, <3>4, <4>1, <4>2
    <3> QED BY <3>3, <3>4
  <2>2. CASE r # q
    BY <1>t, <1>9, <2>2 DEF finish_read, mark_read, writerVars, RingTypeOK, MqTypeOK
  <2> QED BY <2>1, <2>2
<1>10. ASSUME NEW r \in Readers, recv(r) PROVE DequeueInv(q)'
  <2>1. CASE r = q
    <3>1. Head(local_socket[q]) = taken[q] /\ taken[q] <= given
      BY <1>10, <2>1, SocketHead DEF recv
    <3>2. ~(mq_pc = "send" /\ taken[q] = sent)
      BY <1>u, <3>1 DEF given
    <3> QED BY <1>t, <1>10, <2>1, <3>1, <3>2 DEF recv, ringVars, writerVars, readerVars, MqTypeOK
  <2>2. CASE r # q
    BY <1>t, <1>10, <2>2 DEF recv, ringVars, writerVars, readerVars, MqTypeOK
  <2> QED BY <2>1, <2>2
<1>11. ASSUME NEW r \in Readers, use(r) PROVE DequeueInv(q)'
  BY <1>t, <1>11 DEF use, ringVars, writerVars, readerVars, MqTypeOK
<1>12. CASE UNCHANGED mqVars
  BY <1>t, <1>12 DEF mqVars, ringVars, writerVars, readerVars, socketVars
<1> QED BY <1>1, <1>2, <1>3, <1>4, <1>5, <1>6, <1>7, <1>8, <1>9, <1>10, <1>11, <1>12
        DEF MqNext, enqueue_rest, Reader, dequeue

\* The socket holds the large messages a reader has not received, in order.
LEMMA SocketStep ==
    ASSUME MqInv, [MqNext]_mqVars, NEW q \in Readers
    PROVE  SocketInv(q)'
<1>t. MqTypeOK /\ RingTypeOK /\ EnqueueInv /\ SocketInv(q) /\ DequeueInv(q) /\ ReaderInv(q)
  BY DEF MqInv, RingInv
<1>u. /\ sent \in Nat /\ taken[q] \in Nat /\ overflow \subseteq Nat
      /\ local_socket[q] \in Seq(Nat) /\ taken[q] <= sent
  BY <1>t DEF MqTypeOK, RingTypeOK, ReaderInv, lag
<1>v. \A m \in overflow : m \in Nat
  BY <1>u
<1>s. ASSUME local_socket'[q] = local_socket[q], on_the_way(q)' = on_the_way(q)
      PROVE  SocketInv(q)'
  BY <1>t, <1>s DEF SocketInv
<1>1. ASSUME NEW large \in BOOLEAN, enqueue(large) PROVE SocketInv(q)'
  <2>1. UNCHANGED <<sent, taken, receiving, local_socket>>
    BY <1>1 DEF enqueue, acquire_write, readerVars
  <2>2. mq_pc = "idle" /\ mq_pc' = "write" /\ (overflow' = overflow \/ overflow' = overflow \union {sent + 1})
    BY <1>1 DEF enqueue
  <2>3. on_the_way(q)' = on_the_way(q)
    BY <1>u, <2>1, <2>2 DEF on_the_way, received, given
  <2> QED BY <1>s, <2>1, <2>3
<1>2. CASE write_chunk
  <2>1. UNCHANGED <<taken, receiving, local_socket, overflow>> /\ mq_pc = "write"
    BY <1>2 DEF write_chunk, socketVars, fill_chunk, reset_read_flag, publish, readerVars
  <2>2. CASE fill_chunk \/ reset_read_flag
    <3>1. sent' = sent /\ mq_pc' = mq_pc
      BY <1>2, <2>2 DEF write_chunk, fill_chunk, reset_read_flag, publish
    <3> QED BY <1>s, <2>1, <3>1 DEF on_the_way, received, given
  <2>3. CASE publish
    <3>1. sent' = sent + 1 /\ mq_pc' = IF sent + 1 \in overflow THEN "send" ELSE "notify"
      BY <1>2, <2>3 DEF write_chunk, fill_chunk, reset_read_flag, publish
    <3>2. received(q)' = received(q)
      BY <2>1 DEF received
    <3>3. \A m \in overflow : m <= given' <=> m <= given
      BY <1>u, <2>1, <3>1 DEF given
    <3>4. on_the_way(q)' = on_the_way(q)
      BY <2>1, <3>2, <3>3 DEF on_the_way
    <3> QED BY <1>s, <2>1, <3>4
  <2> QED BY <1>2, <2>2, <2>3 DEF write_chunk
<1>3. CASE send_multipart
  <2> DEFINE s == local_socket[q]
  <2>1. /\ local_socket'[q] = Append(s, sent) /\ mq_pc = "send" /\ mq_pc' = "notify"
        /\ UNCHANGED <<sent, taken, receiving, overflow>>
    BY <1>t, <1>3 DEF send_multipart, ringVars, writerVars, readerVars, MqTypeOK
  <2>2. given = sent - 1 /\ given' = sent /\ received(q)' = received(q) /\ received(q) \in Int
    BY <1>u, <2>1 DEF given, received
  <2>3. received(q) < sent /\ sent \in overflow
    <3>1. sent \in overflow
      BY <1>t, <2>1 DEF EnqueueInv
    <3> QED BY <1>t, <1>u, <2>1, <3>1 DEF received, DequeueInv
  <2>4. on_the_way(q)' = on_the_way(q) \union {sent}
    <3>1. ASSUME NEW m \in overflow
          PROVE  m \in on_the_way(q)' <=> m \in on_the_way(q) \/ m = sent
      BY <1>u, <1>v, <2>1, <2>2, <2>3 DEF on_the_way
    <3> QED BY <2>1, <2>3, <3>1 DEF on_the_way
  <2>5. \A m \in on_the_way(q) : m < sent
    <3>1. ASSUME NEW m \in overflow, m <= given PROVE m < sent
      <4>1. m \in Nat /\ sent \in Nat
        BY <1>u, <1>v
      <4> QED BY <2>2, <3>1, <4>1
    <3> QED BY <3>1 DEF on_the_way
  <2>6. /\ Len(Append(s, sent)) = Len(s) + 1 /\ Len(s) \in Nat
        /\ \A i \in 1 .. Len(s) : Append(s, sent)[i] = s[i]
        /\ Append(s, sent)[Len(s) + 1] = sent
    BY <1>u
  <2> QED BY <1>t, <1>u, <2>1, <2>4, <2>5, <2>6 DEF SocketInv
<1>4. CASE notify
  BY <1>s, <1>4 DEF notify, ringVars, writerVars, readerVars, on_the_way, received, given
<1>5. ASSUME NEW r \in Readers,
             try_read(r) \/ check_ready(r) \/ wake(r) \/ read_buf(r) \/ use(r)
      PROVE  SocketInv(q)'
  <2>1. UNCHANGED <<mq_pc, overflow, sent>>
    BY <1>5, ReaderKeepsWriter DEF Reader, dequeue
  <2>2. UNCHANGED <<local_socket, receiving, taken>>
    BY <1>5 DEF try_read, load_read_flag, check_ready, load_written_flag, wake, read_buf,
                read_chunk, use, socketVars, ringVars, readerVars
  <2> QED BY <1>s, <2>1, <2>2 DEF on_the_way, received, given
<1>6. ASSUME NEW r \in Readers, finish_read(r) PROVE SocketInv(q)'
  <2>1. UNCHANGED <<mq_pc, overflow, sent, local_socket>>
    BY <1>6, ReaderKeepsWriter DEF Reader, dequeue, finish_read
  <2>2. CASE r = q
    <3>1. taken'[q] = taken[q] + 1 /\ r_msg[q] = taken[q] + 1 /\ r_pc[q] = "mark"
      BY <1>t, <1>6, <2>2 DEF finish_read, mark_read, RingTypeOK, ReaderInv
    <3>2. received(q) = taken[q]
      BY <1>t, <3>1 DEF DequeueInv, received
    <3>3. received(q)' = IF taken[q] + 1 \in overflow THEN taken[q] ELSE taken[q] + 1
      <4>1. CASE taken[q] + 1 \in overflow
        <5>1. receiving'[q]
          BY <1>t, <1>6, <2>2, <3>1, <4>1 DEF finish_read, MqTypeOK
        <5> QED BY <1>u, <3>1, <4>1, <5>1 DEF received
      <4>2. CASE taken[q] + 1 \notin overflow
        <5>1. ~receiving'[q]
          BY <1>t, <1>6, <2>2, <3>1, <4>2 DEF finish_read, MqTypeOK, DequeueInv
        <5> QED BY <1>u, <3>1, <4>2, <5>1 DEF received
      <4> QED BY <4>1, <4>2
    <3>4. \A m \in overflow : received(q)' < m <=> received(q) < m
      BY <1>u, <1>v, <3>2, <3>3
    <3>5. on_the_way(q)' = on_the_way(q)
      BY <2>1, <3>4 DEF on_the_way, given
    <3> QED BY <1>s, <2>1, <3>5
  <2>3. CASE r # q
    <3>1. taken'[q] = taken[q] /\ receiving'[q] = receiving[q]
      BY <1>t, <1>6, <2>3 DEF finish_read, mark_read, RingTypeOK, MqTypeOK
    <3> QED BY <1>s, <2>1, <3>1 DEF on_the_way, received, given
  <2> QED BY <2>2, <2>3
<1>7. ASSUME NEW r \in Readers, recv(r) PROVE SocketInv(q)'
  <2>1. UNCHANGED <<mq_pc, overflow, sent, taken>>
    BY <1>7, ReaderKeepsWriter DEF Reader, dequeue, recv, ringVars, readerVars
  <2>2. CASE r = q
    <3> DEFINE s == local_socket[q]
    <3>1. s # <<>> /\ receiving[q] /\ ~receiving'[q] /\ local_socket'[q] = Tail(s)
      BY <1>t, <1>7, <2>2 DEF recv, MqTypeOK
    <3>2. Head(s) = taken[q] /\ s[1] = taken[q]
      BY <1>u, <3>1, SocketHead
    <3>3. on_the_way(q)' = on_the_way(q) \ {taken[q]}
      <4>1. received(q) = taken[q] - 1 /\ received(q)' = taken[q] /\ given' = given
        BY <2>1, <3>1 DEF received, given
      <4>2. \A m \in overflow : received(q)' < m <=> received(q) < m /\ m # taken[q]
        BY <1>u, <1>v, <4>1
      <4> QED BY <2>1, <4>1, <4>2 DEF on_the_way
    <3>4. /\ Len(s) \in Nat \ {0} /\ Len(Tail(s)) = Len(s) - 1
          /\ \A i \in 1 .. Len(s) - 1 : Tail(s)[i] = s[i + 1]
      BY <1>u, <3>1
    <3>5. ASSUME NEW i \in 1 .. Len(s) - 1
          PROVE  s[i + 1] \in on_the_way(q) /\ taken[q] < s[i + 1]
      <4>1. /\ 1 \in 1 .. Len(s) /\ i + 1 \in 1 .. Len(s) /\ 1 < i + 1
        BY <3>4
      <4>2. s[i + 1] \in on_the_way(q) /\ s[1] < s[i + 1]
        BY <1>t, <4>1 DEF SocketInv
      <4> QED BY <3>2, <4>2
    <3>6. ASSUME NEW m \in on_the_way(q)'
          PROVE  \E i \in 1 .. Len(Tail(s)) : Tail(s)[i] = m
      <4>1. PICK j \in 1 .. Len(s) : s[j] = m
        BY <1>t, <3>3 DEF SocketInv
      <4>2. j # 1
        BY <3>2, <3>3, <4>1
      <4>3. j - 1 \in 1 .. Len(s) - 1 /\ (j - 1) + 1 = j
        BY <3>4, <4>2
      <4>4. Tail(s)[j - 1] = m
        BY <3>4, <4>1, <4>3
      <4> QED BY <3>4, <4>3, <4>4
    <3>7. ASSUME NEW i \in 1 .. Len(s) - 1, NEW j \in 1 .. Len(s) - 1, i < j
          PROVE  s[i + 1] < s[j + 1]
      <4>1. i + 1 \in 1 .. Len(s) /\ j + 1 \in 1 .. Len(s) /\ i + 1 < j + 1
        BY <3>4, <3>7
      <4> QED BY <1>t, <4>1 DEF SocketInv
    <3>8. \A i \in 1 .. Len(Tail(s)) : Tail(s)[i] \in on_the_way(q)'
      BY <1>u, <3>3, <3>4, <3>5
    <3>9. \A i, j \in 1 .. Len(Tail(s)) : i < j => Tail(s)[i] < Tail(s)[j]
      BY <3>4, <3>7
    <3> QED BY <3>1, <3>6, <3>8, <3>9 DEF SocketInv
  <2>3. CASE r # q
    <3>1. local_socket'[q] = local_socket[q] /\ receiving'[q] = receiving[q]
      BY <1>t, <1>7, <2>3 DEF recv, MqTypeOK
    <3> QED BY <1>s, <2>1, <3>1 DEF on_the_way, received, given
  <2> QED BY <2>2, <2>3
<1>8. CASE UNCHANGED mqVars
  BY <1>s, <1>8 DEF mqVars, ringVars, writerVars, readerVars, socketVars,
                    on_the_way, received, given
<1> QED BY <1>1, <1>2, <1>3, <1>4, <1>5, <1>6, <1>7, <1>8
        DEF MqNext, enqueue_rest, Reader, dequeue

\* MqInv holds in every state, whatever the processes' speeds.
THEOREM MqInvariant == MqSpec => []MqInv
<1>1. MqInv /\ [MqNext]_mqVars => MqInv'
  <2> SUFFICES ASSUME MqInv, [MqNext]_mqVars PROVE MqInv'
    OBVIOUS
  <2>1. RingInv'
    BY MqStepsRing, RingInvStep DEF MqInv
  <2>2. MqTypeOK' /\ EnqueueInv'
    BY MqTypeStep, EnqueueStep
  <2>3. ASSUME NEW q \in Readers PROVE SocketInv(q)' /\ DequeueInv(q)'
    BY SocketStep, DequeueStep
  <2> QED BY <2>1, <2>2, <2>3 DEF MqInv
<1> QED BY MqInitInv, <1>1, PTL DEF MqSpec

\* dequeue returns the messages in the order of enqueue, large or small.
THEOREM DequeuesInOrder == MqSpec => []DequeueInOrder
<1>1. MqInv => DequeueInOrder
  BY DEF MqInv, DequeueInv, DequeueInOrder
<1> QED BY MqInvariant, <1>1, PTL

\* No reader sleeps over a message without a notification that will wake it.
THEOREM WakeUpsAreKept == MqSpec => []NoLostWakeup
<1>1. MqInv => NoLostWakeup
  <2> SUFFICES ASSUME MqInv, NEW r \in Readers, polling[r], taken[r] < sent
               PROVE  notification[r] \/ mq_pc \in {"send", "notify"}
    BY DEF NoLostWakeup
  <2>1. sent \in Nat /\ taken[r] \in Nat
    BY DEF MqInv, RingInv, RingTypeOK
  <2> QED BY <2>1 DEF MqInv, DequeueInv
<1> QED BY MqInvariant, <1>1, PTL

=============================================================================
