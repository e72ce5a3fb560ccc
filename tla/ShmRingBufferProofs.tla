------------------------- MODULE ShmRingBufferProofs -------------------------
(***************************************************************************)
(* Proofs about the ring buffer, for any number of readers and of chunks.  *)
(* RingInv is inductive; mutual exclusion, delivery in order and the       *)
(* refinement of the broadcast queue follow from it.                       *)
(***************************************************************************)
EXTENDS ShmRingBuffer, TLAPS

\* One step round the ring (the % of acquire_write and acquire_read).
LEMMA NextIdx ==
    ASSUME NEW i \in Chunks
    PROVE  next_idx(i) = IF i + 1 = max_chunks THEN 0 ELSE i + 1
<1>1. CASE i + 1 = max_chunks
  <2>1. max_chunks % max_chunks = 0
    BY RingAssumption
  <2> QED BY <1>1, <2>1 DEF next_idx
<1>2. CASE i + 1 # max_chunks
  <2>1. i + 1 \in 0 .. max_chunks - 1 /\ max_chunks > 0
    BY <1>2, RingAssumption DEF Chunks
  <2>2. (i + 1) % max_chunks = i + 1
    BY <2>1, RingAssumption
  <2> QED BY <1>2, <2>2 DEF next_idx
<1> QED BY <1>1, <1>2

\* The initial buffer: nothing written, every reader level with the writer.
LEMMA RingInitInv == RingInit => RingInv
<1> SUFFICES ASSUME RingInit PROVE RingInv
  OBVIOUS
<1> USE RingAssumption
<1>1. RingTypeOK
  BY DEF RingInit, RingTypeOK, Chunks, Readers, Torn
<1>2. WriterInv
  BY DEF RingInit, WriterInv, inside
<1>3. ASSUME NEW r \in Readers PROVE ReaderInv(r)
  BY DEF RingInit, ReaderInv, lag, dist, unread, inside, Chunks, Torn
<1> QED BY <1>1, <1>2, <1>3 DEF RingInv

\* Every load and store of writer and readers keeps the types.
LEMMA RingTypeStep == RingTypeOK /\ WriterInv /\ [RingNext]_ringVars => RingTypeOK'
<1> SUFFICES ASSUME RingTypeOK, WriterInv, [RingNext]_ringVars PROVE RingTypeOK'
  OBVIOUS
<1> USE RingAssumption DEF RingTypeOK
<1>i. ASSUME NEW i \in Chunks PROVE next_idx(i) \in Chunks
  <2>1. next_idx(i) = IF i + 1 = max_chunks THEN 0 ELSE i + 1
    BY NextIdx
  <2> QED BY <2>1 DEF Chunks
<1>1. CASE acquire_write
  BY <1>1 DEF acquire_write, readerVars, Torn
<1>2. CASE fill_chunk
  BY <1>2 DEF fill_chunk, readerVars
<1>3. CASE reset_read_flag
  <2>1. read_flag' = [read_flag EXCEPT ![w_idx] = [@ EXCEPT ![w_reset] = 0]]
    BY <1>3 DEF reset_read_flag
  <2>2. [read_flag[w_idx] EXCEPT ![w_reset] = 0] \in [Readers -> {0, 1}]
    OBVIOUS
  <2>3. read_flag' \in [Chunks -> [Readers -> {0, 1}]]
    BY <2>1, <2>2
  <2> QED BY <1>3, <2>3 DEF reset_read_flag, readerVars
<1>4. CASE publish
  BY <1>4, <1>i DEF publish, readerVars
<1>5. ASSUME NEW r \in Readers, load_read_flag(r) PROVE RingTypeOK'
  BY <1>5 DEF load_read_flag, writerVars
<1>6. ASSUME NEW r \in Readers, load_written_flag(r) PROVE RingTypeOK'
  BY <1>6 DEF load_written_flag, writerVars
<1>7. ASSUME NEW r \in Readers, read_chunk(r) PROVE RingTypeOK'
  BY <1>7 DEF read_chunk, writerVars
<1>8. ASSUME NEW r \in Readers, mark_read(r) PROVE RingTypeOK'
  BY <1>8, <1>i DEF mark_read, writerVars
<1>9. CASE UNCHANGED ringVars
  BY <1>9 DEF ringVars, writerVars, readerVars
<1> QED BY <1>1, <1>2, <1>3, <1>4, <1>5, <1>6, <1>7, <1>8, <1>9
        DEF RingNext, Write, Read

\* A reader's own chunk is at distance 0, and no other chunk is.
LEMMA DistFacts ==
    ASSUME RingTypeOK, NEW r \in Readers, NEW c \in Chunks
    PROVE  /\ dist(r, c) \in 0 .. max_chunks - 1
           /\ dist(r, r_idx[r]) = 0
           /\ \A d \in Chunks : dist(r, c) = dist(r, d) => c = d
<1> r_idx[r] \in Chunks
  BY DEF RingTypeOK
<1> QED BY RingAssumption DEF dist, Chunks

\* While a reader reads a chunk, the chunk is written and the reader's flag is 0,
\* so the writer is not inside it.
LEMMA ReaderHolds ==
    ASSUME RingInv, NEW r \in Readers, r_pc[r] \in {"read", "mark"}
    PROVE  /\ unread(r, r_idx[r])
           /\ data[r_idx[r]] = taken[r] + 1
           /\ inside => r_idx[r] # w_idx
<1>1. r_idx[r] \in Chunks /\ taken[r] \in Nat
  BY DEF RingInv, RingTypeOK
<1>2. dist(r, r_idx[r]) = 0
  BY <1>1, DistFacts DEF RingInv
<1>3. lag(r) > 0
  BY DEF RingInv, ReaderInv
<1>4. unread(r, r_idx[r])
  BY <1>1, <1>2, <1>3 DEF RingInv, ReaderInv
<1>5. data[r_idx[r]] = taken[r] + 1
  BY <1>1, <1>2, <1>4 DEF unread
<1>6. inside => r_idx[r] # w_idx
  BY <1>4 DEF unread, RingInv, WriterInv
<1> QED BY <1>4, <1>5, <1>6

\* What the writer knows about its chunk survives every step.
LEMMA WriterStep == RingInv /\ [RingNext]_ringVars => WriterInv'
<1> SUFFICES ASSUME RingInv, [RingNext]_ringVars PROVE WriterInv'
  OBVIOUS
<1> USE RingAssumption
<1>t. RingTypeOK /\ WriterInv
  BY DEF RingInv
<1>1. CASE acquire_write
  BY <1>t, <1>1 DEF acquire_write, WriterInv, inside, RingTypeOK
<1>2. CASE fill_chunk
  BY <1>t, <1>2 DEF fill_chunk, WriterInv, inside, RingTypeOK, Readers
<1>3. CASE reset_read_flag
  <2>1. \A r \in Readers : r < w_reset + 1 => read_flag'[w_idx][r] = 0
    BY <1>t, <1>3 DEF reset_read_flag, WriterInv, RingTypeOK, Readers
  <2>2. w_reset' = w_reset + 1 /\ w_idx' = w_idx /\ written_flag' = written_flag
        /\ data' = data /\ sent' = sent
    BY <1>3 DEF reset_read_flag
  <2>3. w_reset < n_reader /\ w_pc = "reset"
    BY <1>t, <1>3 DEF reset_read_flag, WriterInv
  <2>4. w_pc' = IF w_reset + 1 = n_reader THEN "publish" ELSE "reset"
    BY <1>3 DEF reset_read_flag
  <2>5. written_flag'[w_idx'] = 0 /\ data'[w_idx'] = sent' + 1
    BY <1>t, <2>2, <2>3 DEF WriterInv, inside
  <2>6. w_pc' = "reset" =>
          /\ w_reset' < n_reader
          /\ \A r \in Readers : r < w_reset' => read_flag'[w_idx'][r] = 0
    BY <1>t, <2>1, <2>2, <2>3, <2>4 DEF RingTypeOK
  <2>7. w_pc' = "publish" => \A r \in Readers : read_flag'[w_idx'][r] = 0
    BY <2>1, <2>2, <2>4 DEF Readers
  <2> QED BY <2>5, <2>6, <2>7 DEF WriterInv
<1>4. CASE publish
  BY <1>t, <1>4 DEF publish, WriterInv, inside
<1>5. ASSUME NEW r \in Readers, load_read_flag(r) PROVE WriterInv'
  BY <1>t, <1>5 DEF load_read_flag, WriterInv, inside, writerVars
<1>6. ASSUME NEW r \in Readers, load_written_flag(r) PROVE WriterInv'
  BY <1>t, <1>6 DEF load_written_flag, WriterInv, inside, writerVars
<1>7. ASSUME NEW r \in Readers, read_chunk(r) PROVE WriterInv'
  BY <1>t, <1>7 DEF read_chunk, WriterInv, inside, writerVars
<1>8. ASSUME NEW r \in Readers, mark_read(r) PROVE WriterInv'
  <2>1. inside => r_idx[r] # w_idx
    BY <1>8, ReaderHolds DEF mark_read
  <2>2. inside => read_flag'[w_idx] = read_flag[w_idx]
    BY <1>t, <1>8, <2>1 DEF mark_read, RingTypeOK
  <2>3. UNCHANGED <<written_flag, data, w_pc, w_idx, w_reset, sent>>
    BY <1>8 DEF mark_read, writerVars
  <2>4. CASE inside
    BY <1>t, <2>2, <2>3, <2>4 DEF WriterInv, inside
  <2>5. CASE ~inside
    BY <2>3, <2>5 DEF WriterInv, inside
  <2> QED BY <2>4, <2>5
<1>9. CASE UNCHANGED ringVars
  BY <1>t, <1>9 DEF ringVars, writerVars, WriterInv, inside
<1> QED BY <1>1, <1>2, <1>3, <1>4, <1>5, <1>6, <1>7, <1>8, <1>9
        DEF RingNext, Write, Read

\* What a reader knows survives its own steps, the other readers' and the writer's.
LEMMA ReaderStep ==
    ASSUME RingInv, [RingNext]_ringVars, NEW q \in Readers
    PROVE  ReaderInv(q)'
<1> USE RingAssumption
<1>t. RingTypeOK /\ WriterInv /\ ReaderInv(q)
  BY DEF RingInv
<1>u. /\ r_idx[q] \in Chunks /\ w_idx \in Chunks
      /\ sent \in Nat /\ taken[q] \in Nat /\ max_chunks \in Nat \ {0}
  BY <1>t DEF RingTypeOK
<1>1. CASE acquire_write
  <2>1. lag(q) < max_chunks
    BY <1>t, <1>u, <1>1, DistFacts DEF acquire_write, writable, ReaderInv, unread
  <2>2. dist(q, w_idx) = lag(q)
    BY <1>t, <2>1 DEF ReaderInv
  <2>3. UNCHANGED <<read_flag, w_idx, sent, r_pc, r_idx, r_seen, r_msg, taken>>
    BY <1>1 DEF acquire_write, readerVars
  <2>4. /\ lag(q)' = lag(q)
        /\ \A c \in Chunks : dist(q, c)' = dist(q, c)
    BY <2>3 DEF lag, dist
  <2>5. ASSUME NEW c \in Chunks
        PROVE  /\ c # w_idx => written_flag'[c] = written_flag[c] /\ data'[c] = data[c]
               /\ c = w_idx => written_flag'[c] = 0
    BY <1>t, <1>1 DEF acquire_write, RingTypeOK
  <2>6. ASSUME NEW c \in Chunks, dist(q, c) < lag(q) PROVE unread(q, c)'
    BY <1>t, <2>2, <2>3, <2>4, <2>5, <2>6 DEF ReaderInv, unread
  <2>7. ASSUME NEW c \in Chunks, dist(q, c) >= lag(q)
        PROVE  written_flag'[c] = 0 \/ read_flag'[c][q] = 1
    BY <1>t, <2>3, <2>5, <2>7 DEF ReaderInv
  <2>8. dist(q, w_idx)' = dist(q, w_idx)
    BY <2>3 DEF dist
  <2> QED BY <1>t, <2>1, <2>3, <2>4, <2>6, <2>7, <2>8 DEF ReaderInv
<1>2. CASE fill_chunk
  <2>1. UNCHANGED <<written_flag, read_flag, w_idx, sent, r_pc, r_idx, r_seen, r_msg, taken>>
    BY <1>2 DEF fill_chunk, readerVars
  <2>2. /\ lag(q)' = lag(q)
        /\ \A c \in Chunks : dist(q, c)' = dist(q, c)
        /\ dist(q, w_idx)' = dist(q, w_idx)
    BY <2>1 DEF lag, dist
  <2>3. inside /\ inside' /\ written_flag[w_idx] = 0
    BY <1>t, <1>2 DEF fill_chunk, WriterInv, inside
  <2>4. ASSUME NEW c \in Chunks, dist(q, c) < lag(q) PROVE unread(q, c)'
    <3>1. unread(q, c)
      BY <1>t, <2>4 DEF ReaderInv
    <3>2. c # w_idx
      BY <2>3, <3>1 DEF unread
    <3> QED BY <1>t, <1>2, <2>1, <2>2, <3>1, <3>2 DEF fill_chunk, unread, RingTypeOK
  <2> QED BY <1>t, <2>1, <2>2, <2>3, <2>4 DEF ReaderInv
<1>3. CASE reset_read_flag
  <2>1. UNCHANGED <<written_flag, data, w_idx, sent, r_pc, r_idx, r_seen, r_msg, taken>>
    BY <1>3 DEF reset_read_flag, readerVars
  <2>2. /\ lag(q)' = lag(q)
        /\ \A c \in Chunks : dist(q, c)' = dist(q, c)
        /\ dist(q, w_idx)' = dist(q, w_idx)
    BY <2>1 DEF lag, dist
  <2>3. inside /\ inside' /\ written_flag[w_idx] = 0
    BY <1>t, <1>3 DEF reset_read_flag, WriterInv, inside
  <2>4. ASSUME NEW c \in Chunks
        PROVE  /\ c # w_idx => read_flag'[c] = read_flag[c]
               /\ read_flag[c][q] = 0 => read_flag'[c][q] = 0
    BY <1>t, <1>3 DEF reset_read_flag, RingTypeOK
  <2>5. ASSUME NEW c \in Chunks, dist(q, c) < lag(q) PROVE unread(q, c)'
    BY <1>t, <2>1, <2>2, <2>4, <2>5 DEF ReaderInv, unread
  <2>6. ASSUME NEW c \in Chunks, dist(q, c) >= lag(q)
        PROVE  written_flag'[c] = 0 \/ read_flag'[c][q] = 1
    BY <1>t, <2>1, <2>3, <2>4, <2>6 DEF ReaderInv
  <2> QED BY <1>t, <1>u, <2>1, <2>2, <2>3, <2>4, <2>5, <2>6 DEF ReaderInv

<1>4. CASE publish
  <2>1. UNCHANGED <<read_flag, data, r_pc, r_idx, r_seen, r_msg, taken>>
    BY <1>4 DEF publish, readerVars
  <2>2. /\ inside /\ ~inside'
        /\ lag(q) < max_chunks /\ dist(q, w_idx) = lag(q)
        /\ data[w_idx] = sent + 1 /\ read_flag[w_idx][q] = 0
    BY <1>t, <1>4 DEF publish, inside, WriterInv, ReaderInv
  <2>3. /\ lag(q)' = lag(q) + 1
        /\ \A c \in Chunks : dist(q, c)' = dist(q, c)
    BY <1>u, <1>4, <2>1 DEF publish, lag, dist
  <2>4. ASSUME NEW c \in Chunks
        PROVE  /\ c # w_idx => written_flag'[c] = written_flag[c]
               /\ c = w_idx => written_flag'[c] = 1
    BY <1>t, <1>4 DEF publish, RingTypeOK
  <2>5. lag(q) \in 0 .. max_chunks
    BY <1>t DEF ReaderInv
  <2>6. ASSUME NEW c \in Chunks, dist(q, c)' < lag(q)' PROVE unread(q, c)'
    <3>1. CASE c = w_idx
      BY <1>u, <2>1, <2>2, <2>3, <2>4, <3>1 DEF unread, lag
    <3>2. CASE c # w_idx
      <4>1. dist(q, c) # dist(q, w_idx) /\ dist(q, c) \in Int
        BY <1>t, <1>u, <3>2, DistFacts
      <4>2. dist(q, c) < lag(q)
        BY <2>2, <2>3, <2>5, <2>6, <4>1
      <4>3. unread(q, c)
        BY <1>t, <4>2 DEF ReaderInv
      <4> QED BY <2>1, <2>3, <2>4, <3>2, <4>3 DEF unread
    <3> QED BY <3>1, <3>2
  <2>7. ASSUME NEW c \in Chunks, dist(q, c)' >= lag(q)'
        PROVE  written_flag'[c] = 0 \/ read_flag'[c][q] = 1
    <3>1. dist(q, c) >= lag(q) + 1 /\ dist(q, c) \in Int
      BY <1>t, <2>3, <2>7, DistFacts
    <3>2. c # w_idx
      BY <2>2, <2>5, <3>1
    <3> QED BY <1>t, <2>1, <2>4, <2>5, <3>1, <3>2 DEF ReaderInv
  <2>8. dist(q, w_idx)' = IF lag(q)' = max_chunks THEN 0 ELSE lag(q)'
    <3>1. w_idx' = IF w_idx + 1 = max_chunks THEN 0 ELSE w_idx + 1
      BY <1>u, <1>4, NextIdx DEF publish
    <3> QED BY <1>u, <2>1, <2>2, <2>3, <2>5, <3>1 DEF dist, Chunks
  <2> QED BY <1>t, <2>1, <2>2, <2>3, <2>5, <2>6, <2>7, <2>8 DEF ReaderInv
<1>5. ASSUME NEW r \in Readers, load_read_flag(r) PROVE ReaderInv(q)'
  <2>1. UNCHANGED <<written_flag, read_flag, data, w_pc, w_idx, sent, r_idx, r_msg, taken>>
    BY <1>5 DEF load_read_flag, writerVars
  <2>2. r_pc'[q] = "load_written" /\ r_seen'[q] = 0 => read_flag[r_idx[q]][q] = 0
    BY <1>t, <1>5 DEF load_read_flag, ReaderInv, RingTypeOK
  <2>3. r_pc'[q] \in {"read", "mark"} => r_pc'[q] = r_pc[q]
    BY <1>t, <1>5 DEF load_read_flag, RingTypeOK
  <2> QED BY <1>t, <2>1, <2>2, <2>3 DEF ReaderInv, lag, dist, unread, inside
<1>6. ASSUME NEW r \in Readers, load_written_flag(r) PROVE ReaderInv(q)'
  <2>1. UNCHANGED <<written_flag, read_flag, data, w_pc, w_idx, sent,
                    r_idx, r_seen, r_msg, taken>>
    BY <1>6 DEF load_written_flag, writerVars
  <2>2. r_pc'[q] = "load_written" => r_pc[q] = "load_written"
    BY <1>t, <1>6 DEF load_written_flag, RingTypeOK
  <2>3. r_pc'[q] = "mark" => r_pc[q] = "mark"
    BY <1>t, <1>6 DEF load_written_flag, RingTypeOK
  <2>4. r_pc'[q] \in {"read", "mark"} => lag(q) > 0
    <3>1. CASE r_pc'[q] = r_pc[q]
      BY <1>t, <3>1 DEF ReaderInv
    <3>2. CASE r_pc'[q] # r_pc[q] /\ r_pc'[q] \in {"read", "mark"}
      <4>1. r = q /\ r_pc[q] = "load_written" /\ ready(q)
        BY <1>t, <1>6, <3>2 DEF load_written_flag, RingTypeOK
      <4>2. written_flag[r_idx[q]] = 1 /\ read_flag[r_idx[q]][q] = 0
        BY <1>t, <4>1 DEF ready, ReaderInv
      <4>3. dist(q, r_idx[q]) = 0
        BY <1>t, <1>u, DistFacts
      <4> QED BY <1>t, <1>u, <4>2, <4>3 DEF ReaderInv
    <3> QED BY <3>1, <3>2
  <2> QED BY <1>t, <2>1, <2>2, <2>3, <2>4 DEF ReaderInv, lag, dist, unread, inside
<1>7. ASSUME NEW r \in Readers, read_chunk(r) PROVE ReaderInv(q)'
  <2>1. UNCHANGED <<written_flag, read_flag, data, w_pc, w_idx, sent, r_idx, r_seen, taken>>
    BY <1>7 DEF read_chunk, writerVars
  <2>2. r_pc'[q] = "load_written" => r_pc[q] = "load_written"
    BY <1>t, <1>7 DEF read_chunk, RingTypeOK
  <2>3. r_pc'[q] \in {"read", "mark"} => r_pc[q] \in {"read", "mark"}
    BY <1>t, <1>7 DEF read_chunk, RingTypeOK
  <2>4. r_pc'[q] = "mark" => r_msg'[q] = taken[q] + 1
    <3>1. CASE q = r
      BY <1>t, <1>7, <3>1, ReaderHolds DEF read_chunk, RingTypeOK
    <3>2. CASE q # r
      BY <1>t, <1>7, <3>2 DEF read_chunk, RingTypeOK, ReaderInv
    <3> QED BY <3>1, <3>2
  <2> QED BY <1>t, <2>1, <2>2, <2>3, <2>4 DEF ReaderInv, lag, dist, unread, inside
<1>8. ASSUME NEW r \in Readers, mark_read(r) PROVE ReaderInv(q)'
  <2>1. UNCHANGED <<written_flag, data, w_pc, w_idx, sent, r_seen, r_msg>>
    BY <1>8 DEF mark_read, writerVars
  <2>2. CASE q # r
    <3>1. /\ r_pc'[q] = r_pc[q] /\ r_idx'[q] = r_idx[q] /\ taken'[q] = taken[q]
          /\ \A c \in Chunks : read_flag'[c][q] = read_flag[c][q]
      BY <1>t, <1>8, <2>2 DEF mark_read, RingTypeOK
    <3>2. /\ lag(q)' = lag(q)
          /\ \A c \in Chunks : dist(q, c)' = dist(q, c)
          /\ dist(q, w_idx)' = dist(q, w_idx)
      BY <2>1, <3>1 DEF lag, dist
    <3>3. \A c \in Chunks : unread(q, c)' <=> unread(q, c)
      BY <2>1, <3>1, <3>2 DEF unread
    <3> QED BY <1>t, <1>u, <2>1, <3>1, <3>2, <3>3 DEF ReaderInv, inside
  <2>3. CASE q = r
    <3>1. /\ r_pc[q] = "mark" /\ r_pc'[q] = "load_read"
          /\ taken'[q] = taken[q] + 1
          /\ r_idx'[q] = IF r_idx[q] + 1 = max_chunks THEN 0 ELSE r_idx[q] + 1
          /\ read_flag'[r_idx[q]][q] = 1
          /\ \A c \in Chunks : c # r_idx[q] => read_flag'[c] = read_flag[c]
      BY <1>t, <1>u, <1>8, <2>3, NextIdx DEF mark_read, RingTypeOK
    <3>2. lag(q) \in 1 .. max_chunks /\ lag(q)' = lag(q) - 1
      BY <1>t, <1>u, <2>1, <3>1 DEF ReaderInv, lag
    <3>3. ASSUME NEW c \in Chunks
          PROVE  dist(q, c)' = IF c = r_idx[q] THEN max_chunks - 1 ELSE dist(q, c) - 1
      BY <1>u, <3>1 DEF dist, Chunks
    <3>4. ASSUME NEW c \in Chunks, dist(q, c)' < lag(q)' PROVE unread(q, c)'
      <4>1. c # r_idx[q] /\ dist(q, c)' = dist(q, c) - 1
        BY <1>u, <3>2, <3>3, <3>4
      <4>2. dist(q, c) \in Int
        BY <1>t, DistFacts
      <4>3. unread(q, c)
        BY <1>t, <3>2, <3>4, <4>1, <4>2 DEF ReaderInv
      <4> QED BY <1>u, <2>1, <3>1, <4>1, <4>2, <4>3 DEF unread
    <3>5. ASSUME NEW c \in Chunks, dist(q, c)' >= lag(q)'
          PROVE  written_flag'[c] = 0 \/ read_flag'[c][q] = 1
      <4>1. CASE c = r_idx[q]
        BY <3>1, <4>1
      <4>2. CASE c # r_idx[q]
        <5>1. dist(q, c) \in Int /\ dist(q, c) >= lag(q)
          BY <1>t, <3>2, <3>3, <3>5, <4>2, DistFacts
        <5> QED BY <1>t, <2>1, <3>1, <4>2, <5>1 DEF ReaderInv
      <4> QED BY <4>1, <4>2
    <3>6. dist(q, w_idx)' = IF lag(q)' = max_chunks THEN 0 ELSE lag(q)'
      <4>1. dist(q, w_idx) = IF lag(q) = max_chunks THEN 0 ELSE lag(q)
        BY <1>t DEF ReaderInv
      <4>2. w_idx = r_idx[q] <=> lag(q) = max_chunks
        BY <1>t, <1>u, <3>2, <4>1, DistFacts
      <4>3. dist(q, w_idx)' = IF w_idx = r_idx[q] THEN max_chunks - 1
                                                  ELSE dist(q, w_idx) - 1
        BY <1>u, <2>1, <3>1 DEF dist, Chunks
      <4> QED BY <1>u, <3>2, <4>1, <4>2, <4>3
    <3> QED BY <1>t, <1>u, <2>1, <3>1, <3>2, <3>4, <3>5, <3>6 DEF ReaderInv, inside
  <2> QED BY <2>2, <2>3
<1>9. CASE UNCHANGED ringVars
  BY <1>t, <1>9 DEF ringVars, writerVars, readerVars, ReaderInv, lag, dist, unread, inside
<1> QED BY <1>1, <1>2, <1>3, <1>4, <1>5, <1>6, <1>7, <1>8, <1>9
        DEF RingNext, Write, Read

\* RingInv is inductive.
LEMMA RingInvStep == RingInv /\ [RingNext]_ringVars => RingInv'
<1> SUFFICES ASSUME RingInv, [RingNext]_ringVars PROVE RingInv'
  OBVIOUS
<1>1. RingTypeOK'
  BY RingTypeStep DEF RingInv
<1>2. WriterInv'
  BY WriterStep
<1>3. ASSUME NEW q \in Readers PROVE ReaderInv(q)'
  BY ReaderStep
<1> QED BY <1>1, <1>2, <1>3 DEF RingInv

\* RingInv holds in every state of the ring buffer.
THEOREM RingInvariant == RingSpec => []RingInv
  BY RingInitInv, RingInvStep, PTL DEF RingSpec

\* The writer is never inside the chunk a reader is reading.
THEOREM RingExclusion == RingSpec => []NoOverlap
<1>1. RingInv => NoOverlap
  BY ReaderHolds DEF NoOverlap
<1> QED BY RingInvariant, <1>1, PTL

\* Every reader reads every message once and in order.
THEOREM RingDelivers == RingSpec => []InOrder
<1>1. RingInv => InOrder
  BY DEF RingInv, ReaderInv, InOrder
<1> QED BY RingInvariant, <1>1, PTL

\* The ring buffer implements the bounded broadcast queue: publishing a chunk is
\* Put, marking a chunk as read is Take, and every other step changes nothing
\* that a user of the queue sees.
THEOREM RingImplementsQueue == RingSpec => RingRefinement
<1>1. RingInit => Queue!QueueInit
  BY DEF RingInit, Queue!QueueInit
<1>2. RingInv /\ [RingNext]_ringVars => [Queue!QueueNext]_Queue!queueVars
  <2> SUFFICES ASSUME RingInv, [RingNext]_ringVars
               PROVE  Queue!QueueNext \/ UNCHANGED <<sent, taken>>
    BY DEF Queue!queueVars
  <2> USE DEF Queue!QueueNext
  <2>1. CASE acquire_write \/ fill_chunk \/ reset_read_flag
    BY <2>1 DEF acquire_write, fill_chunk, reset_read_flag, readerVars
  <2>2. CASE publish
    <3>1. \A r \in Readers : sent - taken[r] < max_chunks
      BY <2>2 DEF RingInv, ReaderInv, lag, publish, inside
    <3> QED BY <2>2, <3>1 DEF publish, readerVars, Queue!Put
  <2>3. ASSUME NEW r \in Readers,
               load_read_flag(r) \/ load_written_flag(r) \/ read_chunk(r)
        PROVE  UNCHANGED <<sent, taken>>
    BY <2>3 DEF load_read_flag, load_written_flag, read_chunk, writerVars
  <2>4. ASSUME NEW r \in Readers, mark_read(r) PROVE Queue!Take(r)
    <3>1. sent - taken[r] > 0 /\ sent \in Nat /\ taken[r] \in Nat
      BY <2>4 DEF mark_read, RingInv, RingTypeOK, ReaderInv, lag
    <3> QED BY <2>4, <3>1 DEF mark_read, writerVars, Queue!Take
  <2>5. CASE UNCHANGED ringVars
    BY <2>5 DEF ringVars, writerVars, readerVars
  <2> QED BY <2>1, <2>2, <2>3, <2>4, <2>5 DEF RingNext, Write, Read
<1> QED BY RingInvariant, <1>1, <1>2, PTL DEF RingSpec, RingRefinement, Queue!QueueSpec

=============================================================================
