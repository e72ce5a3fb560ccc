---------------------------- MODULE ShmRingBuffer ----------------------------
(***************************************************************************)
(* The lock-free ring buffer between one writer and its local readers      *)
(* (vllm/distributed/device_communicators/shm_broadcast.py: ShmRingBuffer, *)
(* MessageQueue.acquire_write, MessageQueue.acquire_read).  The processes  *)
(* share chunks of data and, for each chunk, a written flag and one read   *)
(* flag per reader; nothing else synchronises them.  Every load and store  *)
(* of a flag is a step of its own.  The memory fences of the code are what *)
(* justifies interleaving these steps in program order.                    *)
(***************************************************************************)
EXTENDS Integers

CONSTANTS
    n_reader,      \* local readers; reader i has local_reader_rank i
    max_chunks,    \* chunks of the buffer
    MaxMessages    \* bound of the model: messages the writer sends

ASSUME RingAssumption ==
    /\ n_reader \in Nat \ {0}
    /\ max_chunks \in Nat \ {0}
    /\ MaxMessages \in Nat

Readers == 0 .. (n_reader - 1)
Chunks == 0 .. (max_chunks - 1)

Torn == 0          \* contents of a chunk the writer is overwriting

VARIABLES
    written_flag,  \* metadata_buffer[0] of each chunk
    read_flag,     \* metadata_buffer[i + 1] of each chunk
    data,          \* message held by each chunk, or Torn
    w_pc,          \* where the writer is in acquire_write
    w_idx,         \* current_idx of the writer
    w_reset,       \* next read flag acquire_write sets to 0
    sent,          \* messages published so far
    r_pc,          \* where each reader is in acquire_read
    r_idx,         \* current_idx of each reader
    r_seen,        \* the read_flag each reader has loaded
    r_msg,         \* what each reader's caller read from the chunk
    taken          \* messages each reader has finished reading

writerVars == <<w_pc, w_idx, w_reset, sent>>
readerVars == <<r_pc, r_idx, r_seen, r_msg, taken>>
ringVars == <<written_flag, read_flag, data, writerVars, readerVars>>

RingInit ==
    /\ written_flag = [c \in Chunks |-> 0]
    /\ read_flag = [c \in Chunks |-> [r \in Readers |-> 0]]
    /\ data = [c \in Chunks |-> Torn]
    /\ w_pc = "acquire"
    /\ w_idx = 0
    /\ w_reset = 0
    /\ sent = 0
    /\ r_pc = [r \in Readers |-> "load_read"]
    /\ r_idx = [r \in Readers |-> 0]
    /\ r_seen = [r \in Readers |-> 0]
    /\ r_msg = [r \in Readers |-> Torn]
    /\ taken = [r \in Readers |-> 0]

next_idx(i) == (i + 1) % max_chunks

-----------------------------------------------------------------------------
(* The writer.  read_count is summed before written_flag is loaded; only    *)
(* the writer changes written_flag and a read flag of a written chunk only  *)
(* goes from 0 to 1, so test and claim are one step.                        *)
\* Mutant: one reader is enough to give the chunk back.
writable_any(c) == written_flag[c] = 1 => \E r \in Readers : read_flag[c][r] = 1

writable(c) == written_flag[c] = 1 => \A r \in Readers : read_flag[c][r] = 1

\* The chunk is marked as not written; from here the caller overwrites it.
acquire_write ==
    /\ w_pc = "acquire"
    /\ sent < MaxMessages
    /\ writable(w_idx)
    /\ written_flag' = [written_flag EXCEPT ![w_idx] = 0]
    /\ data' = [data EXCEPT ![w_idx] = Torn]
    /\ w_pc' = "fill"
    /\ UNCHANGED <<read_flag, w_idx, w_reset, sent, readerVars>>

\* The caller has written message number sent + 1.
fill_chunk ==
    /\ w_pc = "fill"
    /\ data' = [data EXCEPT ![w_idx] = sent + 1]
    /\ w_reset' = 0
    /\ w_pc' = "reset"
    /\ UNCHANGED <<written_flag, read_flag, w_idx, sent, readerVars>>

\* Mutant: the flag of the last reader is not reset.
reset_read_flag_not_last ==
    /\ w_pc = "reset"
    /\ read_flag' = [read_flag EXCEPT ![w_idx][w_reset] = 0]
    /\ w_reset' = w_reset + 1
    /\ w_pc' = IF w_reset + 2 >= n_reader THEN "publish" ELSE "reset"
    /\ UNCHANGED <<written_flag, data, w_idx, sent, readerVars>>

reset_read_flag ==
    /\ w_pc = "reset"
    /\ read_flag' = [read_flag EXCEPT ![w_idx][w_reset] = 0]
    /\ w_reset' = w_reset + 1
    /\ w_pc' = IF w_reset + 1 = n_reader THEN "publish" ELSE "reset"
    /\ UNCHANGED <<written_flag, data, w_idx, sent, readerVars>>

publish ==
    /\ w_pc = "publish"
    /\ written_flag' = [written_flag EXCEPT ![w_idx] = 1]
    /\ w_idx' = next_idx(w_idx)
    /\ sent' = sent + 1
    /\ w_pc' = "acquire"
    /\ UNCHANGED <<read_flag, data, w_reset, readerVars>>

-----------------------------------------------------------------------------
(* A reader.  read_flag is loaded before written_flag, and the order        *)
(* matters: see LoadOrder in the README.                                    *)
load_read_flag(r) ==
    /\ r_pc[r] = "load_read"
    /\ r_seen' = [r_seen EXCEPT ![r] = read_flag[r_idx[r]][r]]
    /\ r_pc' = [r_pc EXCEPT ![r] = "load_written"]
    /\ UNCHANGED <<written_flag, read_flag, data, writerVars, r_idx, r_msg, taken>>

\* Mutant: the read flag is not looked at.
ready_written(r) == written_flag[r_idx[r]] = 1

ready(r) == written_flag[r_idx[r]] = 1 /\ r_seen[r] = 0

load_written_flag(r) ==
    /\ r_pc[r] = "load_written"
    /\ r_pc' = [r_pc EXCEPT ![r] = IF ready(r) THEN "read" ELSE "load_read"]
    /\ UNCHANGED <<written_flag, read_flag, data, writerVars,
                   r_idx, r_seen, r_msg, taken>>

\* The caller reads the chunk.
read_chunk(r) ==
    /\ r_pc[r] = "read"
    /\ r_msg' = [r_msg EXCEPT ![r] = data[r_idx[r]]]
    /\ r_pc' = [r_pc EXCEPT ![r] = "mark"]
    /\ UNCHANGED <<written_flag, read_flag, data, writerVars, r_idx, r_seen, taken>>

mark_read(r) ==
    /\ r_pc[r] = "mark"
    /\ read_flag' = [read_flag EXCEPT ![r_idx[r]][r] = 1]
    /\ r_idx' = [r_idx EXCEPT ![r] = next_idx(r_idx[r])]
    /\ taken' = [taken EXCEPT ![r] = @ + 1]
    /\ r_pc' = [r_pc EXCEPT ![r] = "load_read"]
    /\ UNCHANGED <<written_flag, data, writerVars, r_seen, r_msg>>

Write == acquire_write \/ fill_chunk \/ reset_read_flag \/ publish

Read(r) ==
    \/ load_read_flag(r)
    \/ load_written_flag(r)
    \/ read_chunk(r)
    \/ mark_read(r)

RingNext == Write \/ \E r \in Readers : Read(r)

RingSpec == RingInit /\ [][RingNext]_ringVars

-----------------------------------------------------------------------------
(***************************************************************************)
(* Properties.                                                             *)
(***************************************************************************)
RingTypeOK ==
    /\ written_flag \in [Chunks -> {0, 1}]
    /\ read_flag \in [Chunks -> [Readers -> {0, 1}]]
    /\ data \in [Chunks -> Nat]
    /\ w_pc \in {"acquire", "fill", "reset", "publish"}
    /\ w_idx \in Chunks
    /\ w_reset \in Nat
    /\ sent \in Nat
    /\ r_pc \in [Readers -> {"load_read", "load_written", "read", "mark"}]
    /\ r_idx \in [Readers -> Chunks]
    /\ r_seen \in [Readers -> {0, 1}]
    /\ r_msg \in [Readers -> Nat]
    /\ taken \in [Readers -> Nat]

inside == w_pc # "acquire"       \* the writer owns the chunk w_idx

\* Flags alone keep the writer out of a chunk that a reader is reading: what a
\* reader's caller sees cannot change under it (acquire_write, acquire_read).
NoOverlap ==
    \A r \in Readers :
        r_pc[r] \in {"read", "mark"} /\ inside => r_idx[r] # w_idx

\* Every reader gets every message once, in the order in which the writer sent
\* them: what it has just read is the successor of what it took before.
InOrder ==
    \A r \in Readers : r_pc[r] = "mark" => r_msg[r] = taken[r] + 1

\* The ring buffer implements the bounded broadcast queue: no message is
\* published over one that some reader has not finished with.
Queue == INSTANCE BroadcastQueue WITH Capacity <- max_chunks
RingRefinement == Queue!QueueSpec

-----------------------------------------------------------------------------
(* The inductive invariant.  A reader is lag(r) messages behind the writer; *)
(* dist(r, c) is how many chunks ahead of it chunk c lies on the ring.      *)
lag(r) == sent - taken[r]

dist(r, c) ==
    IF c >= r_idx[r] THEN c - r_idx[r] ELSE (c - r_idx[r]) + max_chunks

\* Chunk c holds the message r will read after dist(r, c) others.
unread(r, c) ==
    /\ written_flag[c] = 1
    /\ read_flag[c][r] = 0
    /\ data[c] = taken[r] + 1 + dist(r, c)

WriterInv ==
    /\ inside => written_flag[w_idx] = 0
    /\ w_pc = "reset" =>
         /\ w_reset < n_reader
         /\ \A r \in Readers : r < w_reset => read_flag[w_idx][r] = 0
    /\ w_pc = "publish" => \A r \in Readers : read_flag[w_idx][r] = 0
    /\ w_pc \in {"reset", "publish"} => data[w_idx] = sent + 1

ReaderInv(r) ==
    /\ lag(r) \in 0 .. max_chunks
    /\ inside => lag(r) < max_chunks
    /\ dist(r, w_idx) = IF lag(r) = max_chunks THEN 0 ELSE lag(r)
    /\ \A c \in Chunks : dist(r, c) < lag(r) => unread(r, c)
    /\ \A c \in Chunks :
         dist(r, c) >= lag(r) => written_flag[c] = 0 \/ read_flag[c][r] = 1
    /\ r_pc[r] = "load_written" /\ r_seen[r] = 0 => read_flag[r_idx[r]][r] = 0
    /\ r_pc[r] \in {"read", "mark"} => lag(r) > 0
    /\ r_pc[r] = "mark" => r_msg[r] = taken[r] + 1

\* The strengthening of the three properties above that every step of the
\* writer and of the readers preserves.
RingInv == RingTypeOK /\ WriterInv /\ \A r \in Readers : ReaderInv(r)

=============================================================================
