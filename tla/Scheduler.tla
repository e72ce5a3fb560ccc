----------------------------- MODULE Scheduler -----------------------------
(***************************************************************************)
(* EngineCore.step with the synchronous Scheduler: one engine thread that  *)
(* takes requests and aborts from its queues, runs schedule() (the running *)
(* requests first, preempting the least important one when blocks run out; *)
(* then the waiting ones, with prefix-cache hits), has the model runner    *)
(* write the KV cache and sample, and applies the result in                *)
(* update_from_output.  Each iteration of a loop of schedule() and         *)
(* update_from_output() is an action; phase says where the thread is:      *)
(*    idle -> running <-> alloc -> waiting -> scheduled -> sampled ->      *)
(*    update -> idle                                                       *)
(* A request's tokens are the stream Tokens[r] (prompt, then outputs); a   *)
(* draft token is either the stream's next token or one that is rejected.  *)
(* written is what the GPU holds: for each slot of each block the prefix   *)
(* (token and everything before it) whose key and value were last stored.  *)
(***************************************************************************)
EXTENDS KVCacheManager

CONSTANTS
    PromptLen,          \* [Requests -> Nat]: num_prompt_tokens
    MaxTokens,          \* [Requests -> Nat]: sampling_params.max_tokens
    Rank,               \* [Requests -> Nat]: order of (priority, arrival_time)
    Policy,             \* "fcfs" or "priority"
    MaxBatchTokens,     \* max_num_scheduled_tokens
    MaxRunning,         \* max_num_running_reqs
    LongPrefill,        \* long_prefill_token_threshold, 0: none
    ChunkedPrefill,     \* enable_chunked_prefill
    ReserveFullIsl,     \* scheduler_reserve_full_isl
    NumSpecTokens,      \* num_spec_tokens
    NumLookahead,       \* num_lookahead_tokens
    MaxResets           \* bound on the number of reset_prefix_cache calls

\* Start-up checks that the pool has the blocks of a request of max_model_len
\* tokens (_check_enough_kv_cache_memory), and the configuration that an
\* unchunked prompt fits in the token budget.
ASSUME SchedulerAssumption ==
    /\ Policy \in {"fcfs", "priority"}
    /\ MaxBatchTokens > 0 /\ MaxRunning > 0
    /\ \A r \in Requests : PromptLen[r] > 0 /\ MaxTokens[r] > 0
                           /\ PromptLen[r] < MaxModelLen
    /\ Ceil(MaxModelLen, BlockSize) <= NumBlocks
    /\ ChunkedPrefill \/ MaxModelLen <= MaxBatchTokens

VARIABLES
    kv,              \* the KVCacheManager
    waiting,         \* FCFS: the queue; priority: the heap as a sorted list
    running,         \* list of running requests
    status,          \* RequestStatus
    num_tokens,      \* Request.num_tokens
    num_computed,    \* Request.num_computed_tokens
    num_spec,        \* len(Request.spec_token_ids)
    phase,
    token_budget,
    req_index,       \* position in running of the next request to look at
    cur,             \* request and num_new_tokens of the allocation loop
    scheduled,       \* num_scheduled_tokens in order, with the drafts of each
                     \* (spec), and the tokens sampled for it (gen)
    preempted,       \* preempted_reqs is not empty
    stopped,         \* stopped_running_reqs
    written,
    arrived,         \* history: the order of add_request
    resets

req_vars == <<status, num_tokens, num_computed, num_spec>>
step_vars == <<token_budget, req_index, cur, scheduled, preempted, stopped>>
vars == <<kv, waiting, running, req_vars, phase, step_vars, written, arrived, resets>>

NoRequest == [req |-> "none", n |-> 0]
Junk == <<>>
Live == {r \in Requests : status[r] \in {"WAITING", "RUNNING", "PREEMPTED"}}
Prefix(r, n) == SubSeq(Tokens[r], 1, n)
Without(s, S) == SelectSeq(s, LAMBDA r : r \notin S)
ScheduledReqs == {scheduled[i].req : i \in DOMAIN scheduled}

Init ==
    /\ kv = InitKV
    /\ waiting = <<>> /\ running = <<>>
    /\ status = [r \in Requests |-> "UNSEEN"]
    /\ num_tokens = PromptLen
    /\ num_computed = [r \in Requests |-> 0]
    /\ num_spec = [r \in Requests |-> 0]
    /\ phase = "idle"
    /\ token_budget = 0 /\ req_index = 1 /\ cur = NoRequest
    /\ scheduled = <<>> /\ preempted = FALSE /\ stopped = {}
    /\ written = [b \in Blocks |-> [o \in 0 .. BlockSize - 1 |-> Junk]]
    /\ arrived = <<>>
    /\ resets = 0

-----------------------------------------------------------------------------
(* Requests from outside the scheduler *)

\* RequestQueue.add_request: the heap's order is total, so a heap is the list
\* of its elements by rank.
add_to_queue(queue, r) ==
    IF Policy = "fcfs" THEN Append(queue, r)
    ELSE SelectSeq(queue, LAMBDA q : Rank[q] < Rank[r]) \o <<r>>
         \o SelectSeq(queue, LAMBDA q : Rank[q] > Rank[r])
prepend_to_queue(queue, r) ==
    IF Policy = "fcfs" THEN <<r>> \o queue ELSE add_to_queue(queue, r)

add_request(r) ==
    /\ phase = "idle"
    /\ status[r] = "UNSEEN"
    /\ status' = [status EXCEPT ![r] = "WAITING"]
    /\ waiting' = add_to_queue(waiting, r)
    /\ arrived' = Append(arrived, r)
    /\ UNCHANGED <<kv, running, num_tokens, num_computed, num_spec, phase,
                   step_vars, written, resets>>

\* finish_requests for one request, from the input queue between steps or from
\* the aborts queue once the model has run.
\* Mutant: the blocks of an aborted request are not given back.
abort_request_leak(r) ==
    /\ phase \in {"idle", "sampled"}
    /\ r \in Live
    /\ status' = [status EXCEPT ![r] = "FINISHED"]
    /\ running' = Without(running, {r})
    /\ waiting' = Without(waiting, {r})
    /\ kv' = [kv EXCEPT !.req_to_blocks[r] = <<>>]
    /\ UNCHANGED <<num_tokens, num_computed, num_spec, phase, step_vars,
                   written, arrived, resets>>
abort_request(r) ==
    /\ phase \in {"idle", "sampled"}
    /\ r \in Live
    /\ status' = [status EXCEPT ![r] = "FINISHED"]
    /\ running' = Without(running, {r})
    /\ waiting' = Without(waiting, {r})
    /\ kv' = free(kv, r)
    /\ UNCHANGED <<num_tokens, num_computed, num_spec, phase, step_vars,
                   written, arrived, resets>>

-----------------------------------------------------------------------------
(* schedule() *)

\* A step starts when there are requests; with none the engine waits on its
\* input queue (WaitForInput).
start_schedule ==
    /\ phase = "idle"
    /\ Live # {}
    /\ phase' = "running"
    /\ token_budget' = MaxBatchTokens
    /\ req_index' = 1
    /\ scheduled' = <<>> /\ preempted' = FALSE /\ cur' = NoRequest /\ stopped' = {}
    /\ UNCHANGED <<kv, waiting, running, req_vars, written, arrived, resets>>

WaitForInput == phase = "idle" /\ Live = {} /\ UNCHANGED vars

Threshold(n) == IF 0 < LongPrefill /\ LongPrefill < n THEN LongPrefill ELSE n

\* num_new_tokens of a running request
num_new_tokens(r) ==
    Smaller(Smaller(Threshold(num_tokens[r] + num_spec[r] - num_computed[r]),
                    token_budget),
            MaxModelLen - 1 - num_computed[r])

next_running ==
    /\ phase = "running"
    /\ req_index <= Len(running) /\ token_budget > 0
    /\ LET r == running[req_index]
       IN IF num_new_tokens(r) = 0
          THEN req_index' = req_index + 1 /\ UNCHANGED <<phase, cur>>
          ELSE /\ cur' = [req |-> r, n |-> num_new_tokens(r)]
               /\ phase' = "alloc" /\ UNCHANGED req_index
    /\ UNCHANGED <<kv, waiting, running, req_vars, token_budget, scheduled,
                   preempted, stopped, written, arrived, resets>>

\* The request is scheduled; its drafts are cut to what fits.
schedule_running ==
    LET r == cur.req
        n == cur.n
        drafts == Smaller(num_spec[r], Larger(n + num_computed[r] - num_tokens[r], 0))
    IN /\ phase = "alloc"
       /\ has_slots(kv, r, num_computed[r], <<>>, n, NumLookahead)
       /\ kv' = allocate_slots(kv, r, num_tokens[r], num_computed[r], <<>>, n,
                               NumLookahead)
       /\ scheduled' = Append(scheduled, [req |-> r, n |-> n, spec |-> drafts, gen |-> 0])
       /\ token_budget' = token_budget - n
       /\ num_spec' = [num_spec EXCEPT ![r] = 0]
       /\ req_index' = req_index + 1
       /\ cur' = NoRequest /\ phase' = "running"
       /\ UNCHANGED <<waiting, running, status, num_tokens, num_computed,
                      preempted, stopped, written, arrived, resets>>

\* The request to preempt: the last one, or the least important one.
preempted_req ==
    IF Policy = "fcfs" THEN Last(running)
    ELSE CHOOSE v \in ToSet(running) : \A w \in ToSet(running) : Rank[w] <= Rank[v]

\* Mutant: the index is not moved.
take_out_of_batch_same_index(v) ==
    LET mine == SelectSeq(scheduled, LAMBDA s : s.req = v)
    IN  /\ scheduled' = SelectSeq(scheduled, LAMBDA s : s.req # v)
        /\ token_budget' = token_budget + (IF mine = <<>> THEN 0 ELSE mine[1].n)
        /\ req_index' = req_index

\* A preempted request is taken out of the batch, if it was in it (it never is
\* under FCFS): its tokens go back to the budget, and as it leaves the running list
\* too, the requests after it move up by one.
take_out_of_batch(v) ==
    LET mine == SelectSeq(scheduled, LAMBDA s : s.req = v)
    IN  /\ scheduled' = SelectSeq(scheduled, LAMBDA s : s.req # v)
        /\ token_budget' = token_budget + (IF mine = <<>> THEN 0 ELSE mine[1].n)
        /\ req_index' = req_index - Len(mine)

\* Not enough blocks: one request is preempted (_preempt_request); when it is the
\* request itself, the loop over the running requests ends.
preempt ==
    LET r == cur.req
        v == preempted_req
    IN /\ phase = "alloc"
       /\ ~has_slots(kv, r, num_computed[r], <<>>, cur.n, NumLookahead)
       /\ running' = Without(running, {v})
       /\ take_out_of_batch(v)
       /\ kv' = free(kv, v)
       /\ status' = [status EXCEPT ![v] = "PREEMPTED"]
       /\ num_computed' = [num_computed EXCEPT ![v] = 0]
       /\ num_spec' = [num_spec EXCEPT ![v] = 0]
       /\ waiting' = prepend_to_queue(waiting, v)
       /\ preempted' = TRUE
       /\ IF v = r THEN phase' = "waiting" /\ cur' = NoRequest
                   ELSE UNCHANGED <<phase, cur>>
       /\ UNCHANGED <<num_tokens, stopped, written, arrived, resets>>

end_running ==
    /\ phase = "running"
    /\ req_index > Len(running) \/ token_budget <= 0
    /\ phase' = "waiting"
    /\ UNCHANGED <<kv, waiting, running, req_vars, step_vars, written, arrived, resets>>

\* The head of the waiting queue, its prefix-cache hits and the number of
\* tokens it would be scheduled for.
waiting_req == Head(waiting)
waiting_hits == get_computed_blocks(kv, waiting_req, num_tokens[waiting_req])
waiting_new == Threshold(num_tokens[waiting_req] - Len(waiting_hits) * BlockSize)
waiting_chunk == Smaller(waiting_new, token_budget)

\* The loop over the waiting requests goes on to its head and admits it.
waiting_open ==
    ~preempted /\ waiting # <<>> /\ token_budget > 0 /\ Len(running) # MaxRunning
waiting_admits ==
    /\ waiting_open
    /\ ChunkedPrefill \/ waiting_new <= token_budget
    /\ ReserveFullIsl => can_fit_full_sequence(kv, waiting_req,
                                num_tokens[waiting_req], waiting_hits)
    /\ has_slots(kv, waiting_req, 0, waiting_hits, waiting_chunk, 0)

schedule_waiting ==
    LET r == waiting_req
    IN /\ phase = "waiting"
       /\ waiting_admits
       /\ kv' = allocate_slots(kv, r, num_tokens[r], 0, waiting_hits,
                               waiting_chunk, 0)
       /\ waiting' = Tail(waiting)
       /\ running' = Append(running, r)
       /\ scheduled' = Append(scheduled,
                [req |-> r, n |-> waiting_chunk, spec |-> 0, gen |-> 0])
       /\ token_budget' = token_budget - waiting_chunk
       /\ status' = [status EXCEPT ![r] = "RUNNING"]
       /\ num_computed' = [num_computed EXCEPT ![r] = Len(waiting_hits) * BlockSize]
       /\ UNCHANGED <<num_tokens, num_spec, phase, req_index, cur, preempted,
                      stopped, written, arrived, resets>>

\* schedule() returns: _update_after_schedule advances num_computed_tokens.
end_schedule ==
    /\ phase = "waiting"
    /\ ~waiting_admits
    /\ phase' = "scheduled"
    /\ num_computed' = [r \in Requests |-> num_computed[r]
            + (IF r \in ScheduledReqs
               THEN LET i == CHOOSE i \in DOMAIN scheduled : scheduled[i].req = r
                    IN scheduled[i].n
               ELSE 0)]
    /\ UNCHANGED <<kv, waiting, running, status, num_tokens, num_spec, step_vars,
                   written, arrived, resets>>

-----------------------------------------------------------------------------
(* execute_model and sample_tokens: the worker (external) *)

\* For each scheduled request the worker stores keys and values of tokens
\* num_computed - n + 1 .. num_computed in the slots of its block table.  If
\* these reach its last token, it samples: acc drafts are accepted, the others
\* were computed from tokens that are not the request's.
InSlot(r, p, b, o) ==
    /\ (p - 1) % BlockSize = o
    /\ Ceil(p, BlockSize) <= Len(kv.req_to_blocks[r])
    /\ kv.req_to_blocks[r][Ceil(p, BlockSize)] = b
Stored(b, o) ==
    UNION {{<<i, p>> : p \in {p \in num_computed[scheduled[i].req] - scheduled[i].n + 1
                                     .. num_computed[scheduled[i].req] :
                                InSlot(scheduled[i].req, p, b, o)}}
            : i \in DOMAIN scheduled}
Samples(i) == num_computed[scheduled[i].req] >= num_tokens[scheduled[i].req]

execute_model ==
    /\ phase = "scheduled"
    /\ \E acc \in [DOMAIN scheduled -> 0 .. NumSpecTokens] :
        /\ \A i \in DOMAIN scheduled : acc[i] <= scheduled[i].spec
        /\ written' = [b \in Blocks |-> [o \in 0 .. BlockSize - 1 |->
              IF Stored(b, o) = {} THEN written[b][o]
              ELSE LET s == CHOOSE s \in Stored(b, o) : TRUE
                       r == scheduled[s[1]].req
                   IN IF s[2] <= num_tokens[r] + acc[s[1]] THEN Prefix(r, s[2])
                      ELSE Junk]]
        /\ scheduled' = [i \in DOMAIN scheduled |->
              [scheduled[i] EXCEPT !.gen = IF Samples(i) THEN acc[i] + 1 ELSE 0]]
    /\ phase' = "sampled"
    /\ UNCHANGED <<kv, waiting, running, req_vars, token_budget, req_index, cur,
                   preempted, stopped, arrived, resets>>

-----------------------------------------------------------------------------
(* update_from_output and post_step *)

\* The aborts queue has been emptied.
start_update ==
    /\ phase = "sampled"
    /\ phase' = "update"
    /\ req_index' = 1
    /\ UNCHANGED <<kv, waiting, running, req_vars, token_budget, cur, scheduled,
                   preempted, stopped, written, arrived, resets>>

update_skip_finished ==
    /\ phase = "update" /\ req_index <= Len(scheduled)
    /\ scheduled[req_index].req \notin Live
    /\ req_index' = req_index + 1
    /\ UNCHANGED <<kv, waiting, running, req_vars, phase, token_budget, cur,
                   scheduled, preempted, stopped, written, arrived, resets>>

\* check_stop after the k-th new token; end-of-sequence may come at any token.
MustStop(r, k) ==
    \/ num_tokens[r] + k >= MaxModelLen
    \/ num_tokens[r] + k - PromptLen[r] >= MaxTokens[r]

\* Tokens are appended up to the one that stops the request; rejected drafts
\* come off num_computed_tokens; a request that stops is freed.
\* Mutant: rejected drafts stay counted as computed.
update_request_keeps_rejected ==
    /\ phase = "update" /\ req_index <= Len(scheduled)
    /\ LET s == scheduled[req_index]
           r == s.req
       IN /\ r \in Live
          /\ \E k \in 0 .. s.gen, stop \in BOOLEAN :
                /\ s.gen = 0 => ~stop
                /\ \A j \in 1 .. k - 1 : ~MustStop(r, j)
                /\ s.gen > 0 => k > 0 /\ (MustStop(r, k) => stop) /\ (~stop => k = s.gen)
                /\ num_tokens' = [num_tokens EXCEPT ![r] = @ + k]
                /\ IF stop
                   THEN /\ status' = [status EXCEPT ![r] = "FINISHED"]
                        /\ kv' = free(kv, r)
                        /\ stopped' = stopped \cup {r}
                   ELSE UNCHANGED <<status, kv, stopped>>
    /\ req_index' = req_index + 1
    /\ UNCHANGED <<waiting, running, num_computed, num_spec, phase, token_budget,
                   cur, scheduled, preempted, written, arrived, resets>>
update_request ==
    /\ phase = "update" /\ req_index <= Len(scheduled)
    /\ LET s == scheduled[req_index]
           r == s.req
       IN /\ r \in Live
          /\ num_computed' = [num_computed EXCEPT ![r] =
                IF s.spec > 0 /\ s.gen > 0 /\ @ > 0 THEN @ - (s.spec - (s.gen - 1)) ELSE @]
          /\ \E k \in 0 .. s.gen, stop \in BOOLEAN :
                /\ s.gen = 0 => ~stop
                /\ \A j \in 1 .. k - 1 : ~MustStop(r, j)
                /\ s.gen > 0 => k > 0 /\ (MustStop(r, k) => stop) /\ (~stop => k = s.gen)
                /\ num_tokens' = [num_tokens EXCEPT ![r] = @ + k]
                /\ IF stop
                   THEN /\ status' = [status EXCEPT ![r] = "FINISHED"]
                        /\ kv' = free(kv, r)
                        /\ stopped' = stopped \cup {r}
                   ELSE UNCHANGED <<status, kv, stopped>>
    /\ req_index' = req_index + 1
    /\ UNCHANGED <<waiting, running, num_spec, phase, token_budget, cur,
                   scheduled, preempted, written, arrived, resets>>

\* The stopped requests leave the running list; then post_step hands the new
\* drafts to the requests that are past their prefill.
\* Mutant: the stopped requests stay in the running list.
end_step_keeps_stopped ==
    /\ phase = "update" /\ req_index > Len(scheduled)
    /\ num_spec' = num_spec
    /\ phase' = "idle"
    /\ token_budget' = 0 /\ req_index' = 1 /\ scheduled' = <<>>
    /\ preempted' = FALSE /\ stopped' = {}
    /\ UNCHANGED <<kv, waiting, running, status, num_tokens, num_computed, cur,
                   written, arrived, resets>>
end_step ==
    /\ phase = "update" /\ req_index > Len(scheduled)
    /\ running' = Without(running, stopped)
    /\ \E d \in [ScheduledReqs -> 0 .. NumSpecTokens] :
         num_spec' = [r \in Requests |->
            IF r \in ScheduledReqs /\ r \in Live
            THEN IF \E i \in DOMAIN scheduled : scheduled[i].req = r /\ scheduled[i].gen = 0
                 THEN 0 ELSE d[r]
            ELSE num_spec[r]]
    /\ phase' = "idle"
    /\ token_budget' = 0 /\ req_index' = 1 /\ scheduled' = <<>>
    /\ preempted' = FALSE /\ stopped' = {}
    /\ UNCHANGED <<kv, waiting, status, num_tokens, num_computed, cur, written,
                   arrived, resets>>

-----------------------------------------------------------------------------
(* reset_prefix_cache, called between steps *)

\* With reset_running_requests every running request is preempted, last one
\* first, before the cache is cleared; otherwise nothing is cleared unless all
\* blocks are free.
\* Mutant: the running requests are preempted first one first.
reset_cache_forward ==
    /\ phase = "idle" /\ resets < MaxResets
    /\ resets' = resets + 1
    /\ kv' = reset_prefix_cache(FoldLeft(LAMBDA k, r : free(k, r), kv, running))
    /\ waiting' = FoldLeft(LAMBDA q, r : prepend_to_queue(q, r), waiting, running)
    /\ running' = <<>>
    /\ status' = [r \in Requests |->
            IF status[r] = "RUNNING" THEN "PREEMPTED" ELSE status[r]]
    /\ num_computed' = [r \in Requests |->
            IF status[r] = "RUNNING" THEN 0 ELSE num_computed[r]]
    /\ num_spec' = [r \in Requests |->
            IF status[r] = "RUNNING" THEN 0 ELSE num_spec[r]]
    /\ UNCHANGED <<num_tokens, phase, step_vars, written, arrived>>
reset_running_and_cache ==
    LET order == Reverse(running)
    IN /\ phase = "idle" /\ resets < MaxResets
       /\ resets' = resets + 1
       /\ kv' = reset_prefix_cache(FoldLeft(LAMBDA k, r : free(k, r), kv, order))
       /\ waiting' = FoldLeft(LAMBDA q, r : prepend_to_queue(q, r), waiting, order)
       /\ running' = <<>>
       /\ status' = [r \in Requests |->
               IF status[r] = "RUNNING" THEN "PREEMPTED" ELSE status[r]]
       /\ num_computed' = [r \in Requests |->
               IF status[r] = "RUNNING" THEN 0 ELSE num_computed[r]]
       /\ num_spec' = [r \in Requests |->
               IF status[r] = "RUNNING" THEN 0 ELSE num_spec[r]]
       /\ UNCHANGED <<num_tokens, phase, step_vars, written, arrived>>

reset_cache ==
    /\ phase = "idle" /\ resets < MaxResets
    /\ resets' = resets + 1
    /\ kv' = reset_prefix_cache(kv)
    /\ UNCHANGED <<waiting, running, req_vars, phase, step_vars, written, arrived>>

-----------------------------------------------------------------------------
EngineStep ==
    \/ start_schedule \/ next_running \/ schedule_running \/ preempt \/ end_running
    \/ schedule_waiting \/ end_schedule \/ execute_model
    \/ start_update \/ update_skip_finished \/ update_request \/ end_step

Next ==
    \/ EngineStep
    \/ WaitForInput
    \/ \E r \in Requests : add_request(r) \/ abort_request(r)
    \/ reset_running_and_cache
    \/ reset_cache

\* The busy loop of the engine thread keeps stepping while there are requests.  This is WF_vars(EngineStep)
\* written out, which TLC checks much faster: a step is enabled iff there is work,
\* and between two changes of phase, which only such steps make, there are finitely many.
HasWork == phase # "idle" \/ Live # {}
BusyLoop == []<>~HasWork \/ []<><<TRUE>>_phase

Spec == Init /\ [][Next]_vars /\ BusyLoop

-----------------------------------------------------------------------------
(* Properties *)

\* A block's ref_cnt is the number of block-table entries that name it, and the
\* free queue holds exactly the unreferenced blocks, each once, never the null
\* block: allocation, sharing through hits, preemption, aborts and completion
\* balance (touch, get_new_blocks, free_blocks).
RefCountsExact ==
    /\ \A b \in Blocks \ {NullBlock} :
        /\ kv.ref_cnt[b] =
             Cardinality({<<r, i>> \in Requests \X (1 .. NumBlocks) :
                i <= Len(kv.req_to_blocks[r]) /\ kv.req_to_blocks[r][i] = b})
        /\ Occurrences(kv.free, b) = IF kv.ref_cnt[b] = 0 THEN 1 ELSE 0
    /\ NullBlock \notin ToSet(kv.free)

\* The hash map and the blocks' own hashes agree in both directions, and a
\* request's blocks beyond its cached ones have no hash, which
\* cache_full_blocks asserts when it gives them one.
HashMapExact ==
    /\ \A b \in Blocks : \A h \in Hashes :
        Occurrences(kv.cached[h], b) = IF kv.block_hash[b] = h THEN 1 ELSE 0
    /\ \A r \in Requests : \A i \in DOMAIN kv.req_to_blocks[r] :
        i > Larger(kv.num_cached_block[r], 0) =>
            kv.block_hash[kv.req_to_blocks[r][i]] = NoHash

\* When the model has run, and between steps, the keys and values of every token
\* that a running request counts as computed (rejected drafts aside) are in the
\* slots its block table gives, whether it computed them or another request did
\* before it or in the same batch, whatever was preempted, evicted, rejected or
\* reset in the meantime: what is sampled depends on the request's own tokens.
ComputedIsWritten ==
    phase \in {"sampled", "idle"} =>
        \A r \in ToSet(running) : \A p \in 1 .. Smaller(num_computed[r], num_tokens[r]) :
            /\ Ceil(p, BlockSize) <= Len(kv.req_to_blocks[r])
            /\ written[kv.req_to_blocks[r][Ceil(p, BlockSize)]][(p - 1) % BlockSize]
                 = Prefix(r, p)

\* Between steps a block in the prefix cache holds the keys and values of the
\* prefix that its hash stands for: get_computed_blocks returns computed blocks.
CachedIsComputed ==
    phase = "idle" =>
        \A b \in Blocks : kv.block_hash[b] # NoHash =>
            \A o \in 0 .. BlockSize - 1 :
                LET h == kv.block_hash[b]
                IN written[b][o] = SubSeq(h, 1, Len(h) - BlockSize + o + 1)

\* No two scheduled tokens of a batch are stored in the same slot: shared
\* blocks are only read.
OneWriterPerSlot ==
    phase = "scheduled" =>
        \A b \in Blocks, o \in 0 .. BlockSize - 1 : Cardinality(Stored(b, o)) <= 1

\* Each request is in the queue that its status says, once, while requests are
\* admitted, preempted out of the batch, aborted, stopped and reset.
QueuesMatchStatus ==
    /\ IsInjective(waiting) /\ IsInjective(running) /\ Len(running) <= MaxRunning
    /\ \A r \in Requests :
        /\ r \in ToSet(waiting) <=> status[r] \in {"WAITING", "PREEMPTED"}
        /\ r \in ToSet(running) <=> status[r] = "RUNNING" \/ r \in stopped

\* At every point of schedule(), whoever was preempted out of the batch: the batch
\* is the first requests of the running list, in its order and each once, so the
\* loop has passed over none; budget and batch add up, which the asserts at the end
\* of schedule() follow from; and each request of the batch holds the blocks of the
\* tokens it computes in this step.
BatchFollowsRunning ==
    phase \in {"running", "alloc", "waiting", "scheduled"} =>
        /\ IsPrefix([i \in DOMAIN scheduled |-> scheduled[i].req], running)
        /\ phase \in {"running", "alloc"} => req_index = Len(scheduled) + 1
        /\ FoldLeft(LAMBDA t, s : t + s.n, 0, scheduled) + token_budget = MaxBatchTokens
        /\ token_budget >= 0
        /\ \A s \in ToSet(scheduled) :
             num_computed[s.req] + (IF phase = "scheduled" THEN 0 ELSE s.n)
                 <= Len(kv.req_to_blocks[s.req]) * BlockSize

\* First come, first served: running requests, then waiting ones, are in order
\* of arrival at all times, through preemption and reset.
FcfsOrder ==
    Policy = "fcfs" =>
        Without(running, stopped) \o waiting = SelectSeq(arrived, LAMBDA r : r \in Live)

\* Between steps a running request has at least one token left to compute and
\* its computed tokens are behind its known ones.
ComputedBehindKnown ==
    phase = "idle" => \A r \in ToSet(running) : num_computed[r] < num_tokens[r]

\* Every request that is added is finished in the end: chunking, preemption,
\* rejected drafts and full pools only delay it (a request is added once and
\* stops being live only by finishing).
EveryRequestFinishes == []<>(Live = {})

\* Through all of this the KV-cache manager implements the abstract block pool:
\* every call the scheduler makes is one allocation, one free or one reset.
Pool == INSTANCE KVPool WITH
    PoolRequests <- Requests, PoolBlocks <- Blocks \ {NullBlock},
    PoolHashes <- Hashes, None <- NoHash,
    held <- [r \in Requests |-> ToSet(kv.req_to_blocks[r])],
    ref <- [b \in Blocks \ {NullBlock} |-> kv.ref_cnt[b]],
    idle <- ToSet(kv.free),
    hash <- [b \in Blocks \ {NullBlock} |-> kv.block_hash[b]],
    cache <- [h \in Hashes |-> ToSet(kv.cached[h])]

\* The refinement: the scheduler's use of the KV-cache manager is a behaviour of
\* KVPool.
ImplementsPool == Pool!PoolSpec
=============================================================================
