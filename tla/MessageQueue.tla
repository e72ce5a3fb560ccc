---------------------------- MODULE MessageQueue ----------------------------
(***************************************************************************)
(* enqueue and dequeue of shm_broadcast.py for local readers, on top of    *)
(* the ring buffer.  A message that does not fit in a chunk leaves only an *)
(* overflow mark in its chunk and travels through a publish-subscribe      *)
(* socket.  A reader that finds nothing spins or, after a while, sleeps    *)
(* until the writer's notification (SpinCondition) wakes it.  Readers wait *)
(* without a timeout, as the workers do (dequeue(indefinite=True)).        *)
(***************************************************************************)
EXTENDS ShmRingBuffer, Sequences

VARIABLES
    mq_pc,         \* where the writer is in enqueue
    overflow,      \* messages too large for a chunk
    local_socket,  \* large messages on their way to each reader
    notification,  \* is a notification waiting for the reader (CONFLATE: one)
    polling,       \* is the reader asleep in SpinCondition.wait
    receiving,     \* is the reader in MessageQueue.recv
    obj            \* message returned by dequeue and not yet used, 0 if none

socketVars == <<overflow, local_socket, notification, polling, receiving, obj>>
mqVars == <<ringVars, mq_pc, socketVars>>

MqInit ==
    /\ RingInit
    /\ mq_pc = "idle"
    /\ overflow = {}
    /\ local_socket = [r \in Readers |-> <<>>]
    /\ notification = [r \in Readers |-> FALSE]
    /\ polling = [r \in Readers |-> FALSE]
    /\ receiving = [r \in Readers |-> FALSE]
    /\ obj = [r \in Readers |-> 0]

-----------------------------------------------------------------------------
(* enqueue: the steps of acquire_write, then the socket, then notify.       *)
enqueue(large) ==
    /\ mq_pc = "idle"
    /\ acquire_write
    /\ overflow' = IF large THEN overflow \union {sent + 1} ELSE overflow
    /\ mq_pc' = "write"
    /\ UNCHANGED <<local_socket, notification, polling, receiving, obj>>

\* Mutant: the test is about the message before.
write_chunk_sends_late ==
    /\ mq_pc = "write"
    /\ \/ (fill_chunk \/ reset_read_flag) /\ UNCHANGED mq_pc
       \/ publish /\ mq_pc' = IF sent \in overflow THEN "send" ELSE "notify"
    /\ UNCHANGED socketVars

write_chunk ==
    /\ mq_pc = "write"
    /\ \/ (fill_chunk \/ reset_read_flag) /\ UNCHANGED mq_pc
       \/ publish /\ mq_pc' = IF sent + 1 \in overflow THEN "send" ELSE "notify"
    /\ UNCHANGED socketVars

\* Mutant: returns before notify.
send_multipart_returns ==
    /\ mq_pc = "send"
    /\ local_socket' = [r \in Readers |-> Append(local_socket[r], sent)]
    /\ mq_pc' = "idle"
    /\ UNCHANGED <<ringVars, overflow, notification, polling, receiving, obj>>

send_multipart ==
    /\ mq_pc = "send"
    /\ local_socket' = [r \in Readers |-> Append(local_socket[r], sent)]
    /\ mq_pc' = "notify"
    /\ UNCHANGED <<ringVars, overflow, notification, polling, receiving, obj>>

notify ==
    /\ mq_pc = "notify"
    /\ notification' = [r \in Readers |-> TRUE]
    /\ mq_pc' = "idle"
    /\ UNCHANGED <<ringVars, overflow, local_socket, polling, receiving, obj>>

-----------------------------------------------------------------------------
(* dequeue.                                                                 *)
try_read(r) ==
    /\ obj[r] = 0 /\ ~polling[r] /\ ~receiving[r]
    /\ load_read_flag(r)
    /\ UNCHANGED <<mq_pc, socketVars>>

\* Not ready: spin, or sleep once the last read is busy_loop_s ago.
check_ready(r) ==
    /\ load_written_flag(r)
    /\ \E asleep \in BOOLEAN :
         /\ ready(r) => ~asleep
         /\ polling' = [polling EXCEPT ![r] = asleep]
    /\ UNCHANGED <<mq_pc, overflow, local_socket, notification, receiving, obj>>

wake(r) ==
    /\ polling[r] /\ notification[r]
    /\ polling' = [polling EXCEPT ![r] = FALSE]
    /\ notification' = [notification EXCEPT ![r] = FALSE]
    /\ UNCHANGED <<ringVars, mq_pc, overflow, local_socket, receiving, obj>>

read_buf(r) ==
    /\ read_chunk(r)
    /\ UNCHANGED <<mq_pc, socketVars>>

finish_read(r) ==
    /\ mark_read(r)
    /\ IF r_msg[r] \in overflow
         THEN receiving' = [receiving EXCEPT ![r] = TRUE] /\ UNCHANGED obj
         ELSE obj' = [obj EXCEPT ![r] = r_msg[r]] /\ UNCHANGED receiving
    /\ UNCHANGED <<mq_pc, overflow, local_socket, notification, polling>>

recv(r) ==
    /\ receiving[r] /\ local_socket[r] # <<>>
    /\ obj' = [obj EXCEPT ![r] = Head(local_socket[r])]
    /\ local_socket' = [local_socket EXCEPT ![r] = Tail(@)]
    /\ receiving' = [receiving EXCEPT ![r] = FALSE]
    /\ UNCHANGED <<ringVars, mq_pc, overflow, notification, polling>>

enqueue_rest == write_chunk \/ send_multipart \/ notify

dequeue(r) ==
    \/ try_read(r)
    \/ check_ready(r)
    \/ wake(r)
    \/ read_buf(r)
    \/ finish_read(r)
    \/ recv(r)

\* The caller of dequeue is done with the object and calls dequeue again.
use(r) ==
    /\ obj[r] # 0
    /\ obj' = [obj EXCEPT ![r] = 0]
    /\ UNCHANGED <<ringVars, mq_pc, overflow, local_socket, notification, polling, receiving>>

Reader(r) == dequeue(r) \/ use(r)

MqNext ==
    \/ \E large \in BOOLEAN : enqueue(large)
    \/ enqueue_rest
    \/ \E r \in Readers : Reader(r)

\* The processes run; nobody has to send.
MqFairness ==
    /\ WF_mqVars(enqueue_rest)
    /\ \A r \in Readers : WF_mqVars(Reader(r))

MqSpec == MqInit /\ [][MqNext]_mqVars /\ MqFairness

-----------------------------------------------------------------------------
\* dequeue returns the messages in the order of enqueue, whichever of the two
\* ways each of them took: the ring and the socket stay in step.
DequeueInOrder == \A r \in Readers : obj[r] # 0 => obj[r] = taken[r]

\* A reader that sleeps although a message waits for it has been, or is about to
\* be, notified: no wake-up is lost between its check of the flags and its poll.
NoLostWakeup ==
    \A r \in Readers :
        polling[r] /\ taken[r] < sent => notification[r] \/ mq_pc \in {"send", "notify"}

\* Every message that has been published is read by every reader, awake or asleep.
\* (Both counters only grow, so this is sent >= m ~> taken[r] >= m.)
AllDelivered ==
    \A r \in Readers, m \in 1 .. MaxMessages : []<>(sent >= m => taken[r] >= m)

-----------------------------------------------------------------------------
(* The inductive invariant.                                                 *)
MqTypeOK ==
    /\ mq_pc \in {"idle", "write", "send", "notify"}
    /\ overflow \subseteq Nat \ {0}
    /\ local_socket \in [Readers -> Seq(Nat)]
    /\ notification \in [Readers -> BOOLEAN]
    /\ polling \in [Readers -> BOOLEAN]
    /\ receiving \in [Readers -> BOOLEAN]
    /\ obj \in [Readers -> Nat]

\* Only the message that is being written may be known as large before it is sent.
EnqueueInv ==
    /\ mq_pc = "write" <=> inside
    /\ \A m \in overflow : m <= IF mq_pc = "write" THEN sent + 1 ELSE sent
    /\ mq_pc = "send" => sent \in overflow

\* Large messages r has not received: up to the last one given to the socket,
\* after those whose chunk it has marked as read and that it does not receive now.
received(r) == IF receiving[r] THEN taken[r] - 1 ELSE taken[r]
given == IF mq_pc = "send" THEN sent - 1 ELSE sent
on_the_way(r) == {m \in overflow : received(r) < m /\ m <= given}

SocketInv(r) ==
    /\ \A i \in 1 .. Len(local_socket[r]) : local_socket[r][i] \in on_the_way(r)
    /\ \A m \in on_the_way(r) : \E i \in 1 .. Len(local_socket[r]) : local_socket[r][i] = m
    /\ \A i, j \in 1 .. Len(local_socket[r]) : i < j => local_socket[r][i] < local_socket[r][j]

\* A reader that sleeps, receives or has returned is not inside acquire_read; one
\* that has seen its flag of a chunk as read before the chunk was written again is
\* about to sleep although a message waits.
DequeueInv(r) ==
    /\ polling[r] \/ receiving[r] \/ obj[r] # 0 => r_pc[r] = "load_read"
    /\ ~(receiving[r] /\ obj[r] # 0)
    /\ receiving[r] => taken[r] \in overflow
    /\ mq_pc = "send" /\ taken[r] = sent => receiving[r]
    /\ obj[r] # 0 => obj[r] = taken[r]
    /\ polling[r] \/ (r_pc[r] = "load_written" /\ r_seen[r] = 1) =>
         \/ taken[r] = sent
         \/ notification[r] \/ mq_pc \in {"send", "notify"}

\* With RingInv, the strengthening of DequeueInOrder and NoLostWakeup that every
\* step preserves.
MqInv ==
    /\ RingInv /\ MqTypeOK /\ EnqueueInv
    /\ \A r \in Readers : SocketInv(r) /\ DequeueInv(r)

=============================================================================
