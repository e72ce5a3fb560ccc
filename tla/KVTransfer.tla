----------------------------- MODULE KVTransfer -----------------------------
(***************************************************************************)
(* The scheduler with a KV connector (v1/core/sched/scheduler.py): requests *)
(* whose prefix is loaded from elsewhere, inside the step (sync) or between *)
(* steps (async, WAITING_FOR_REMOTE_KVS), requests that wait for a grammar, *)
(* loads that fail for some blocks, aborts during a load, and blocks kept   *)
(* after the end of a request until they have been sent.  FCFS, no drafts.  *)
(* phase says where EngineCore.step is:                                     *)
(*   idle -> running -> waiting -> scheduled -> sampled -> outputs ->       *)
(*   idle                                                                   *)
(* The connector and its worker side are external: loading, sending and     *)
(* what get_finished and get_block_ids_with_load_errors report.             *)
(***************************************************************************)
EXTENDS KVCacheManager

CONSTANTS
    PromptLen,       \* [Requests -> Nat]: num_prompt_tokens
    MaxTokens,       \* [Requests -> Nat]: sampling_params.max_tokens
    MaxBatchTokens,  \* max_num_scheduled_tokens
    MaxRunning,      \* max_num_running_reqs
    Policies,        \* values recompute_kv_load_failures may have
    Mode,            \* [Requests -> {"none", "async", "sync"}]: how r's prefix loads
    Remote,          \* [Requests -> Nat]: tokens of r's prompt held elsewhere
    Structured,      \* requests with a grammar
    Sends,           \* requests whose blocks are sent when they stop
    MayFail,         \* requests whose loads may fail
    Undecided,       \* requests whose lookup may be put off
    MaxFailures,     \* bound of the model: blocks that fail to load
    MaxUnsure,       \* bound of the model: "ask again later" answers
    MaxAborts        \* bound of the model: aborts

VARIABLES
    recompute,         \* recompute_kv_load_failures, fixed when the engine starts
    kv,                \* the KVCacheManager
    waiting, skipped_waiting, running,
    status,            \* RequestStatus
    num_tokens, num_computed,
    num_preemptions,   \* has the request been preempted
    requests,          \* keys of Scheduler.requests
    finished_recving,  \* finished_recving_kv_req_ids
    failed_recving,    \* failed_recving_kv_req_ids
    finished_req_ids,
    phase, token_budget, req_index,
    scheduled,         \* num_scheduled_tokens in order: requests and tokens
    step_skipped,      \* step_skipped_waiting, in the order of the skips
    preempted,         \* preempted_reqs is not empty
    failed_load,       \* failed_kv_load_req_ids
    output,            \* KVConnectorOutput of the step
    ready_grammars,    \* requests whose grammar has been compiled
    loading,           \* blocks each load still writes: <<position, block>>
    recved, sending, sent, load_errors,   \* the connector's worker side
    written,           \* what the GPU holds: the prefix stored in each slot
    failures, unsure, aborts

req_vars == <<status, num_tokens, num_computed, num_preemptions, requests>>
recv_vars == <<finished_recving, failed_recving, finished_req_ids>>
queues == <<waiting, skipped_waiting, running>>
step_vars == <<token_budget, req_index, scheduled, step_skipped, preempted,
               failed_load, output>>
env_vars == <<recompute, ready_grammars, aborts>>
conn_vars == <<loading, recved, sending, sent, load_errors, failures, unsure>>
vars == <<kv, queues, req_vars, recv_vars, phase, step_vars, env_vars,
          conn_vars, written>>

Junk == <<>>
NoOutput == [recving |-> {}, sending |-> {}, invalid |-> {}]
Blocked == {"WAITING_FOR_REMOTE_KVS", "WAITING_FOR_GRAMMAR"}
LiveStatus == Blocked \union {"WAITING", "RUNNING", "PREEMPTED"}
Live == {r \in Requests : status[r] \in LiveStatus}
Without(s, S) == SelectSeq(s, LAMBDA r : r \notin S)
Prefix(r, n) == SubSeq(Tokens[r], 1, n)

\* Slot of position p of r: block and offset; and whether it holds what it should.
stored(w, r, p) == w[kv.req_to_blocks[r][Ceil(p, BlockSize)]][(p - 1) % BlockSize]
Valid(w, r, n) == \A p \in 1 .. n : stored(w, r, p) = Prefix(r, p)

Init ==
    /\ recompute \in Policies
    /\ kv = InitKV
    /\ waiting = <<>> /\ skipped_waiting = <<>> /\ running = <<>>
    /\ status = [r \in Requests |-> "UNSEEN"]
    /\ num_tokens = PromptLen
    /\ num_computed = [r \in Requests |-> 0]
    /\ num_preemptions = [r \in Requests |-> FALSE]
    /\ requests = {}
    /\ finished_recving = {} /\ failed_recving = {} /\ finished_req_ids = {}
    /\ phase = "idle" /\ token_budget = 0 /\ req_index = 1
    /\ scheduled = <<>> /\ step_skipped = <<>> /\ preempted = FALSE
    /\ failed_load = {} /\ output = NoOutput
    /\ ready_grammars = {}
    /\ loading = [r \in Requests |-> {}]
    /\ recved = {} /\ sending = {} /\ sent = {} /\ load_errors = {}
    /\ failures = 0 /\ unsure = 0 /\ aborts = 0
    /\ written = [b \in Blocks |-> [o \in 0 .. BlockSize - 1 |-> Junk]]

-----------------------------------------------------------------------------
(* Requests from outside *)

\* _enqueue_waiting_request: a request that is blocked goes to skipped_waiting.
add_request(r) ==
    /\ phase = "idle"
    /\ status[r] = "UNSEEN"
    /\ IF r \in Structured
         THEN /\ status' = [status EXCEPT ![r] = "WAITING_FOR_GRAMMAR"]
              /\ skipped_waiting' = Append(skipped_waiting, r)
              /\ UNCHANGED waiting
         ELSE /\ status' = [status EXCEPT ![r] = "WAITING"]
              /\ waiting' = Append(waiting, r)
              /\ UNCHANGED skipped_waiting
    /\ requests' = requests \union {r}
    /\ UNCHANGED <<kv, running, num_tokens, num_computed, num_preemptions, recv_vars,
                   phase, step_vars, env_vars, conn_vars, written>>

\* The thread that compiles the grammar is done.  (schedule() looks at a request
\* once, so it is enough to let this happen between steps.)
grammar_compiled(r) ==
    /\ status[r] = "WAITING_FOR_GRAMMAR"
    /\ r \notin ready_grammars
    /\ phase = "idle"
    /\ ready_grammars' = ready_grammars \union {r}
    /\ UNCHANGED <<kv, queues, req_vars, recv_vars, phase, step_vars, conn_vars, written,
                   recompute, aborts>>

\* _free_blocks of several requests
free_all(pool, S) == FoldLeft(free, pool, SetToSeq(S))

\* Mutant: the blocks of an aborted load are free at once.
delayed_never(S) == {}

\* finish_requests: the blocks of a request whose load is not known to be over
\* stay allocated, and the request known, until get_finished reports it.
delayed(S) == {r \in S : status[r] = "WAITING_FOR_REMOTE_KVS" /\ r \notin finished_recving}
finish_requests(S) ==
    /\ running' = Without(running, S)
    /\ waiting' = Without(waiting, S)
    /\ skipped_waiting' = Without(skipped_waiting, S)
    /\ status' = [r \in Requests |-> IF r \in S THEN "FINISHED" ELSE status[r]]
    /\ finished_recving' = finished_recving \ S
    /\ failed_recving' = failed_recving \ S
    /\ finished_req_ids' = finished_req_ids \union S
    /\ kv' = free_all(kv, S \ delayed(S))
    /\ requests' = requests \ (S \ delayed(S))

\* From the input queue between steps, or from the aborts queue after the model ran.
abort_request(r) ==
    /\ phase \in {"idle", "sampled"}
    /\ r \in Live
    /\ aborts < MaxAborts /\ aborts' = aborts + 1
    /\ finish_requests({r})
    /\ UNCHANGED <<num_tokens, num_computed, num_preemptions, phase, step_vars,
                   recompute, ready_grammars, conn_vars, written>>

-----------------------------------------------------------------------------
(* schedule() *)

has_requests == Live # {} \/ finished_req_ids # {}

start_schedule ==
    /\ phase = "idle" /\ has_requests
    /\ phase' = "running"
    /\ token_budget' = MaxBatchTokens /\ req_index' = 1
    /\ UNCHANGED <<kv, queues, req_vars, recv_vars, scheduled, step_skipped, preempted,
                   failed_load, output, env_vars, conn_vars, written>>

num_new_tokens(r) == Smaller(num_tokens[r] - num_computed[r], token_budget)
fits(r) == has_slots(kv, r, num_computed[r], <<>>, num_new_tokens(r), 0)

schedule_running ==
    /\ phase = "running" /\ req_index <= Len(running) /\ token_budget > 0
    /\ LET r == running[req_index]
           n == num_new_tokens(r)
       IN /\ fits(r)
          /\ kv' = allocate_slots(kv, r, num_tokens[r], num_computed[r], <<>>, n, 0)
          /\ scheduled' = Append(scheduled, [req |-> r, n |-> n])
          /\ token_budget' = token_budget - n
    /\ req_index' = req_index + 1
    /\ UNCHANGED <<queues, req_vars, recv_vars, phase, step_skipped, preempted,
                   failed_load, output, env_vars, conn_vars, written>>

\* No blocks: the last running request goes back to the head of the waiting ones.
preempt ==
    /\ phase = "running" /\ req_index <= Len(running) /\ token_budget > 0
    /\ ~fits(running[req_index])
    /\ LET v == Last(running)
       IN /\ kv' = free(kv, v)
          /\ running' = Front(running)
          /\ waiting' = <<v>> \o waiting
          /\ status' = [status EXCEPT ![v] = "PREEMPTED"]
          /\ num_computed' = [num_computed EXCEPT ![v] = 0]
          /\ num_preemptions' = [num_preemptions EXCEPT ![v] = TRUE]
    /\ preempted' = TRUE
    /\ UNCHANGED <<skipped_waiting, num_tokens, requests, recv_vars, phase, token_budget,
                   req_index, scheduled, step_skipped, failed_load, output,
                   env_vars, conn_vars, written>>

end_running ==
    /\ phase = "running"
    /\ req_index > Len(running) \/ token_budget <= 0
    /\ phase' = "waiting"
    /\ UNCHANGED <<kv, queues, req_vars, recv_vars, step_vars, env_vars,
                   conn_vars, written>>

\* The loop over the waiting requests looks at the head of skipped_waiting first.
open ==
    /\ ~preempted /\ token_budget > 0 /\ Len(running) # MaxRunning
    /\ skipped_waiting # <<>> \/ waiting # <<>>
request == Head(IF skipped_waiting # <<>> THEN skipped_waiting ELSE waiting)
pop_request ==
    IF skipped_waiting # <<>>
    THEN skipped_waiting' = Tail(skipped_waiting) /\ UNCHANGED waiting
    ELSE waiting' = Tail(waiting) /\ UNCHANGED skipped_waiting

blocked(r) == status[r] \in Blocked
promotable(r) ==
    r \in IF status[r] = "WAITING_FOR_REMOTE_KVS" THEN finished_recving ELSE ready_grammars

skip_request ==
    /\ pop_request
    /\ step_skipped' = Append(step_skipped, request)
    /\ UNCHANGED <<kv, running, req_vars, recv_vars, phase, token_budget, req_index,
                   scheduled, preempted, failed_load, output, env_vars,
                   loading, recved, sending, sent, load_errors, failures, written>>

skip_blocked ==
    /\ phase = "waiting" /\ open
    /\ blocked(request) /\ ~promotable(request)
    /\ skip_request /\ UNCHANGED unsure

\* _update_waiting_for_remote_kv: what has been loaded is cached now; a request
\* without a valid token gives its blocks back and is looked up again.
loaded_kv(r) ==
    IF r \in failed_recving /\ num_computed[r] = 0 THEN free(kv, r)
    ELSE cache_blocks(kv, r, num_computed[r])
\* On a full hit the last token is computed again.
loaded_tokens(r) ==
    IF r \notin failed_recving THEN Smaller(num_computed[r], num_tokens[r] - 1)
    ELSE num_computed[r]

\* _try_promote_blocked_waiting_request
promote ==
    /\ phase = "waiting" /\ open
    /\ LET r == request
       IN /\ blocked(r) /\ promotable(r)
          /\ IF status[r] = "WAITING_FOR_REMOTE_KVS"
               THEN /\ kv' = loaded_kv(r)
                    /\ num_computed' = [num_computed EXCEPT ![r] = loaded_tokens(r)]
               ELSE UNCHANGED <<kv, num_computed>>
          /\ status' = [status EXCEPT ![r] =
                IF num_preemptions[r] THEN "PREEMPTED" ELSE "WAITING"]
          /\ finished_recving' = finished_recving \ {r}
          /\ failed_recving' = failed_recving \ {r}
    /\ UNCHANGED <<queues, num_tokens, num_preemptions, requests, finished_req_ids, phase,
                   step_vars, env_vars, conn_vars, written>>

\* Hits in the local cache, tokens the connector can load beyond them, and the
\* tokens to compute: none as long as a load is on its way.
hits(r) == IF num_computed[r] = 0 THEN get_computed_blocks(kv, r, num_tokens[r]) ELSE <<>>
ext_tokens(r) ==
    IF num_computed[r] = 0 /\ Mode[r] # "none"
    THEN Larger(Remote[r] - Len(hits(r)) * BlockSize, 0) ELSE 0
total(r) == num_computed[r] + Len(hits(r)) * BlockSize + ext_tokens(r)
load_kv_async(r) == Mode[r] = "async" /\ ext_tokens(r) > 0
chunk(r) == IF load_kv_async(r) THEN 0 ELSE Smaller(num_tokens[r] - total(r), token_budget)

\* scheduler_reserve_full_isl and allocate_slots
admits(r) ==
    /\ can_fit_full_sequence(kv, r, num_tokens[r], hits(r))
    /\ has_slots(kv, r, num_computed[r] + ext_tokens(r), hits(r), chunk(r), 0)

\* Mutant: the blocks of an asynchronous load are cached at once.
allocated_cached(r) ==
    LET kv0 == IF ext_tokens(r) > 0 THEN allocate_new_computed_blocks(kv, r, hits(r)) ELSE kv
    IN allocate_slots(kv0, r, num_tokens[r], num_computed[r] + ext_tokens(r),
                      hits(r), chunk(r), 0)

\* The blocks of an asynchronous load are not cached yet (delay_cache_blocks).
allocated(r) ==
    LET kv0 == IF ext_tokens(r) > 0 THEN allocate_new_computed_blocks(kv, r, hits(r)) ELSE kv
    IN IF load_kv_async(r) THEN allocate_new_blocks(kv0, r, total(r))
       ELSE allocate_slots(kv0, r, num_tokens[r], num_computed[r] + ext_tokens(r),
                           hits(r), chunk(r), 0)

to_load(r) ==
    {<<i, kv'.req_to_blocks[r][i]>> : i \in Len(hits(r)) + 1 .. Ceil(total(r), BlockSize)}

\* The connector cannot tell yet (get_num_new_matched_tokens returns None).
skip_unsure ==
    /\ phase = "waiting" /\ open
    /\ ~blocked(request) /\ request \in Undecided /\ num_computed[request] = 0
    /\ unsure < MaxUnsure
    /\ unsure' = unsure + 1
    /\ skip_request

schedule_waiting ==
    /\ phase = "waiting" /\ open
    /\ LET r == request
       IN /\ ~blocked(r) /\ admits(r)
          /\ kv' = allocated(r)
          /\ num_computed' = [num_computed EXCEPT ![r] = total(r)]
          /\ loading' = IF ext_tokens(r) > 0 THEN [loading EXCEPT ![r] = to_load(r)] ELSE loading
          /\ pop_request
          /\ IF load_kv_async(r)
               THEN /\ status' = [status EXCEPT ![r] = "WAITING_FOR_REMOTE_KVS"]
                    /\ step_skipped' = Append(step_skipped, r)
                    /\ UNCHANGED <<running, scheduled, token_budget>>
               ELSE /\ status' = [status EXCEPT ![r] = "RUNNING"]
                    /\ running' = Append(running, r)
                    /\ scheduled' = Append(scheduled, [req |-> r, n |-> chunk(r)])
                    /\ token_budget' = token_budget - chunk(r)
                    /\ UNCHANGED step_skipped
    /\ UNCHANGED <<num_tokens, num_preemptions, requests, recv_vars, phase, req_index,
                   preempted, failed_load, output, env_vars,
                   recved, sending, sent, load_errors, failures, unsure, written>>

num_scheduled(r) ==
    IF \E i \in DOMAIN scheduled : scheduled[i].req = r
    THEN scheduled[CHOOSE i \in DOMAIN scheduled : scheduled[i].req = r].n ELSE 0

\* Mutant: the requests skipped in this step are not queued again.
end_schedule_loses_skipped ==
    /\ phase = "waiting"
    /\ open => ~blocked(request) /\ ~admits(request)
    /\ skipped_waiting' = skipped_waiting
    /\ num_computed' = [r \in Requests |-> num_computed[r] + num_scheduled(r)]
    /\ finished_req_ids' = {}
    /\ step_skipped' = <<>> /\ preempted' = FALSE
    /\ phase' = "scheduled"
    /\ UNCHANGED <<kv, waiting, running, status, num_tokens, num_preemptions, requests,
                   finished_recving, failed_recving, token_budget, req_index, scheduled,
                   failed_load, output, env_vars, conn_vars, written>>

end_schedule ==
    /\ phase = "waiting"
    /\ open => ~blocked(request) /\ ~admits(request)
    /\ skipped_waiting' = step_skipped \o skipped_waiting
    /\ num_computed' = [r \in Requests |-> num_computed[r] + num_scheduled(r)]
    /\ finished_req_ids' = {}
    /\ step_skipped' = <<>> /\ preempted' = FALSE
    /\ phase' = "scheduled"
    /\ UNCHANGED <<kv, waiting, running, status, num_tokens, num_preemptions, requests,
                   finished_recving, failed_recving, token_budget, req_index, scheduled,
                   failed_load, output, env_vars, conn_vars, written>>

-----------------------------------------------------------------------------
(* The worker and its side of the connector (external) *)

\* What a block holds after its load: the tokens of the prefix, or anything.
load_into(w, r, blk, ok) ==
    [w EXCEPT ![blk[2]] = [o \in 0 .. BlockSize - 1 |->
        LET p == (blk[1] - 1) * BlockSize + o + 1
        IN IF p > Remote[r] THEN @[o] ELSE IF ok THEN Prefix(r, p) ELSE Junk]]

\* One block of an asynchronous load arrives or fails.  The transfer runs beside
\* the engine; only the state at the next get_finished can be told apart.
load_block(r, ok) ==
    /\ phase = "scheduled" /\ Mode[r] = "async"
    /\ ok \/ (r \in MayFail /\ failures < MaxFailures)
    /\ \E blk \in loading[r] :
         /\ written' = load_into(written, r, blk, ok)
         /\ loading' = [loading EXCEPT ![r] = @ \ {blk}]
         /\ recved' = IF loading[r] = {blk} THEN recved \union {r} ELSE recved
         /\ load_errors' = IF ok THEN load_errors ELSE load_errors \union {blk[2]}
    /\ failures' = IF ok THEN failures ELSE failures + 1
    /\ UNCHANGED <<kv, queues, req_vars, recv_vars, phase, step_vars, env_vars,
                   sending, sent, unsure>>

send_done(r) ==
    /\ phase = "scheduled" /\ r \in sending
    /\ sending' = sending \ {r} /\ sent' = sent \union {r}
    /\ UNCHANGED <<kv, queues, req_vars, recv_vars, phase, step_vars, env_vars,
                   loading, recved, load_errors, failures, unsure, written>>

\* The forward pass stores the scheduled tokens of one request, computed from what
\* its slots hold.
forward(w, s) ==
    LET c == num_computed[s.req]
        good == Valid(w, s.req, c - s.n)
        mine(b, o) == {p \in c - s.n + 1 .. c :
                          /\ kv.req_to_blocks[s.req][Ceil(p, BlockSize)] = b
                          /\ (p - 1) % BlockSize = o}
    IN [b \in Blocks |-> [o \in 0 .. BlockSize - 1 |->
          IF mine(b, o) = {} THEN w[b][o]
          ELSE IF good THEN Prefix(s.req, CHOOSE p \in mine(b, o) : TRUE) ELSE Junk]]

\* Synchronous loads come first; get_finished and the load errors are collected last.
sync_loads == {x \in Requests \X (1 .. MaxModelLen) \X Blocks :
                 Mode[x[1]] = "sync" /\ <<x[2], x[3]>> \in loading[x[1]]}

execute_model ==
    /\ phase = "scheduled"
    /\ \E bad \in SUBSET {x \in sync_loads : x[1] \in MayFail} :
         /\ failures + Cardinality(bad) <= MaxFailures
         /\ failures' = failures + Cardinality(bad)
         /\ LET load(w, x) == load_into(w, x[1], <<x[2], x[3]>>, x \notin bad)
            IN written' = FoldLeft(forward, FoldLeft(load, written, SetToSeq(sync_loads)),
                                   scheduled)
         /\ output' = [recving |-> recved, sending |-> sent,
                       invalid |-> load_errors \union {x[3] : x \in bad}]
    /\ loading' = [r \in Requests |-> IF Mode[r] = "sync" THEN {} ELSE loading[r]]
    /\ recved' = {} /\ sent' = {} /\ load_errors' = {}
    /\ phase' = "sampled"
    /\ UNCHANGED <<kv, queues, req_vars, recv_vars, token_budget, req_index, scheduled,
                   step_skipped, preempted, failed_load, env_vars, sending, unsure>>

-----------------------------------------------------------------------------
(* update_from_output *)

\* _update_requests_with_invalid_blocks, one request.  A block that several
\* requests share is left to the first of them to recompute.
invalidate(a, r) ==
    LET blocks == kv.req_to_blocks[r]
        before == num_computed[r] - num_scheduled(r)
        hit == {i \in 1 .. Smaller(Ceil(before, BlockSize), Len(blocks)) :
                   blocks[i] \in output.invalid}
        own == {i \in hit : blocks[i] \notin a.marked}
        first == CHOOSE i \in own : \A j \in own : i <= j
    IN IF hit = {} THEN a
       ELSE IF own = {} THEN [a EXCEPT !.affected = @ \union {r}, !.computed[r] = before]
       ELSE [affected |-> a.affected \union {r},
             marked |-> a.marked \union {blocks[i] : i \in own},
             computed |-> [a.computed EXCEPT ![r] = (first - 1) * BlockSize],
             evict |-> a.evict \union {blocks[i] : i \in first .. Len(blocks)}]

update_requests_with_invalid_blocks(reqs, computed) ==
    FoldLeft(invalidate,
             [affected |-> {}, marked |-> {}, computed |-> computed, evict |-> {}], reqs)

handle_invalid_blocks ==
    LET loads == SelectSeq(skipped_waiting, LAMBDA r : status[r] = "WAITING_FOR_REMOTE_KVS")
        async == update_requests_with_invalid_blocks(loads, num_computed)
        sync == update_requests_with_invalid_blocks(running, async.computed)
    IN /\ phase = "sampled"
       /\ phase' = "outputs"
       /\ num_computed' = sync.computed
       /\ IF recompute
            THEN /\ failed_recving' = failed_recving \union async.affected
                 /\ failed_load' = sync.affected
                 /\ UNCHANGED kv
            ELSE /\ failed_load' = async.affected \union sync.affected
                 /\ kv' = maybe_evict_cached_blocks(kv, sync.evict)
                 /\ UNCHANGED failed_recving
       /\ UNCHANGED <<queues, status, num_tokens, num_preemptions, requests,
                      finished_recving, finished_req_ids, token_budget, req_index,
                      scheduled, step_skipped, preempted, output, env_vars,
                      conn_vars, written>>

\* The requests whose output counts: scheduled, not finished, not failed.
Answered == {r \in Live \ failed_load : num_scheduled(r) > 0}
Sampled == {r \in Answered : num_computed[r] >= num_tokens[r]}
Stopped == {r \in Sampled : \/ num_tokens[r] + 1 >= MaxModelLen
                            \/ num_tokens[r] + 1 - PromptLen[r] >= MaxTokens[r]}

\* The rest of update_from_output.  A request that stops is freed, unless the
\* connector still sends its blocks; under the policy "fail" the affected requests
\* end with an error; _update_from_kv_xfer_finished comes last.
update_outputs ==
    LET failing == IF recompute THEN {} ELSE failed_load
        ended == Stopped \union failing
        loaded == {r \in output.recving \ ended : status[r] = "WAITING_FOR_REMOTE_KVS"}
        gone == (output.recving \ loaded) \union output.sending
        freed == (Stopped \ Sends) \union (failing \ delayed(failing))
    IN /\ phase = "outputs"
       /\ phase' = "idle"
       /\ num_tokens' = [r \in Requests |-> num_tokens[r] + (IF r \in Sampled THEN 1 ELSE 0)]
       /\ status' = [r \in Requests |-> IF r \in ended THEN "FINISHED" ELSE status[r]]
       /\ running' = Without(running, ended)
       /\ waiting' = Without(waiting, failing)
       /\ skipped_waiting' = Without(skipped_waiting, failing)
       /\ finished_req_ids' = finished_req_ids \union ended
       /\ finished_recving' = (finished_recving \ failing) \union loaded
       /\ failed_recving' = failed_recving \ failing
       /\ kv' = free_all(free_all(kv, freed), gone)
       /\ requests' = requests \ (freed \union gone)
       /\ sending' = sending \union (Stopped \intersect Sends)
       /\ scheduled' = <<>> /\ failed_load' = {} /\ output' = NoOutput
       /\ token_budget' = 0 /\ req_index' = 1
       /\ UNCHANGED <<num_computed, num_preemptions, step_skipped, preempted, env_vars,
                      loading, recved, sent, load_errors, failures, unsure, written>>

-----------------------------------------------------------------------------
Step ==
    \/ start_schedule
    \/ schedule_running \/ preempt \/ end_running
    \/ skip_blocked \/ skip_unsure \/ promote \/ schedule_waiting \/ end_schedule
    \/ execute_model
    \/ handle_invalid_blocks \/ update_outputs

Transfer(r) == (\E ok \in BOOLEAN : load_block(r, ok)) \/ send_done(r)

Next ==
    \/ \E r \in Requests :
         add_request(r) \/ abort_request(r) \/ grammar_compiled(r) \/ Transfer(r)
    \/ Step

\* The engine's busy loop steps while it has work.  This is WF_vars(Step)
\* written out, which TLC checks much faster: a step is enabled iff there is work,
\* and between two changes of phase, which only such steps make, there are finitely many.
HasWork == phase # "idle" \/ has_requests
BusyLoop == []<>~HasWork \/ []<><<TRUE>>_phase

\* Transfers and compilations end.
Fairness ==
    /\ BusyLoop
    /\ SF_vars(\E r \in Requests : Transfer(r) \/ grammar_compiled(r))

Spec == Init /\ [][Next]_vars /\ Fairness

-----------------------------------------------------------------------------
(***************************************************************************)
(* Properties.                                                             *)
(***************************************************************************)

\* A block that a load still writes, or that is still being sent, belongs to a
\* request the scheduler knows, is not free and, in a load beside the engine, is nobody
\* else's, whatever aborts and failures happen during the transfer; and a request
\* the scheduler has forgotten has left no block behind.
TransferOwnsBlocks ==
    /\ \A r \in Requests :
         \A blk \in loading[r] :
            /\ r \in requests
            /\ kv.req_to_blocks[r][blk[1]] = blk[2]
            /\ Mode[r] = "async" => kv.ref_cnt[blk[2]] = 1
            /\ blk[2] \notin ToSet(kv.free)
    /\ sending \union sent \union recved \subseteq requests
    /\ \A r \in Requests \ requests : kv.req_to_blocks[r] = <<>>

\* A token is sampled only from keys and values of the request's own prefix:
\* those of failed loads have been recomputed, those of loads under way are
\* never shared, and what the prefix cache hands out was loaded or computed.
OutputsFromValidKV ==
    phase = "outputs" => \A r \in Answered : Valid(written, r, num_computed[r])

\* Every request finishes: no loads, failures or grammars leave it in
\* skipped_waiting for ever.  That loaded requests do not wait for each other's blocks
\* is a matter of the pool's size: the admission test of schedule() does not see to it.
\* (A request comes once, so Live is empty again and again iff each one finishes.)
EveryRequestFinishes == []<>(Live = {})

=============================================================================
