----------------------------- MODULE AsyncEngine -----------------------------
(***************************************************************************)
(* EngineCore.step_with_batch_queue: batches are scheduled ahead of the    *)
(* results of earlier ones, up to BatchQueueSize of them in flight, by the *)
(* AsyncScheduler (or by the plain Scheduler under pipeline parallelism).  *)
(* The module follows the token accounts of each request: known tokens,    *)
(* computed tokens (advanced when a batch is scheduled, corrected when its *)
(* drafts are rejected) and, in the AsyncScheduler, placeholders for the   *)
(* outputs in flight.                                                      *)
(*                                                                         *)
(* Blocks are not modelled: any suffix of the running list but the whole   *)
(* of it may be preempted for lack of them, any number of waiting requests *)
(* may fit (see fits), and a prefix-cache hit has any of the lengths       *)
(* CacheHits.                                                              *)
(* worker_tokens is the worker's own count of a request's tokens.  outputs *)
(* and misreset are history: the position in the request's stream for which *)
(* each output that the scheduler appended was sampled, and the requests   *)
(* that were reset with no output, or with drafts, in flight.              *)
(***************************************************************************)
EXTENDS Integers, Sequences, FiniteSets, SequencesExt

CONSTANTS
    Requests,           \* request ids
    PromptLen,          \* [Requests -> Nat]: num_prompt_tokens
    MaxTokens,          \* [Requests -> Nat]: max_tokens
    MaxModelLen,        \* max_model_len
    MaxBatchTokens,     \* max_num_scheduled_tokens
    NumSpecTokens,      \* num_spec_tokens
    BatchQueueSize,     \* max_concurrent_batches
    Async,              \* the scheduler is the AsyncScheduler
    Structured,         \* requests with a grammar (use_structured_output)
    CacheHits,          \* possible lengths of a prefix-cache hit
    MaxPreemptions,     \* bound on the number of preemptions
    MaxResets           \* bound on the calls of reset_prefix_cache

ASSUME AsyncAssumption ==
    /\ BatchQueueSize > 1 /\ MaxBatchTokens > 0 /\ 0 \in CacheHits
    /\ \A r \in Requests : PromptLen[r] \in 1 .. MaxModelLen - 1 /\ MaxTokens[r] > 0
    /\ ~Async => NumSpecTokens = 0

VARIABLES
    waiting, running, status,
    num_tokens, num_computed,
    placeholders,       \* num_output_placeholders
    num_spec,           \* len(spec_token_ids), all of them placeholders
    discard,            \* discard_latest_async_tokens
    finished_ids,       \* finished_req_ids is not empty
    prev_scheduled,     \* prev_step_scheduled_req_ids
    batch_queue,        \* batches in flight, oldest first
    deferred,           \* deferred_scheduler_output: no batch or one
    phase,              \* "idle": between steps; "result": waiting for a result
    blocks_short,       \* a victim's blocks were taken, none came back since
    worker_tokens, outputs, misreset, preemptions, resets

account == <<num_tokens, num_computed, placeholders, num_spec, discard>>
queues == <<waiting, running, status>>
history == <<worker_tokens, outputs, misreset>>
vars == <<queues, account, finished_ids, prev_scheduled, batch_queue, deferred, phase,
          blocks_short, history, preemptions, resets>>

Smaller(a, b) == IF a < b THEN a ELSE b
Larger(a, b) == IF a > b THEN a ELSE b
Without(s, S) == SelectSeq(s, LAMBDA r : r \notin S)
Live == {r \in Requests : status[r] \in {"WAITING", "RUNNING", "PREEMPTED"}}
Entries(batch) == {batch[i] : i \in DOMAIN batch}
EntryOf(batch, r) == CHOOSE e \in Entries(batch) : e.req = r
RequestsOf(batch) == {e.req : e \in Entries(batch)}
\* The entries of some batches that will bring outputs for r.
SamplingIn(batches, r) == SelectSeq(FlattenSeq(batches), LAMBDA e : e.req = r /\ e.samples)
Sampling(r) == SamplingIn(batch_queue \o deferred, r)

Init ==
    /\ waiting = <<>> /\ running = <<>>
    /\ status = [r \in Requests |-> "UNSEEN"]
    /\ num_tokens = PromptLen
    /\ num_computed = [r \in Requests |-> 0]
    /\ placeholders = [r \in Requests |-> 0]
    /\ num_spec = [r \in Requests |-> 0]
    /\ discard = [r \in Requests |-> FALSE]
    /\ finished_ids = FALSE /\ prev_scheduled = {}
    /\ batch_queue = <<>> /\ deferred = <<>> /\ phase = "idle"
    /\ blocks_short = FALSE
    /\ worker_tokens = PromptLen
    /\ outputs = [r \in Requests |-> <<>>] /\ misreset = {}
    /\ preemptions = 0 /\ resets = 0

-----------------------------------------------------------------------------
add_request(r) ==
    /\ phase = "idle"
    /\ status[r] = "UNSEEN"
    /\ status' = [status EXCEPT ![r] = "WAITING"]
    /\ waiting' = Append(waiting, r)
    /\ UNCHANGED <<running, account, finished_ids, prev_scheduled, batch_queue, deferred,
                   phase, blocks_short, history, preemptions, resets>>

\* Between steps, or from the aborts queue when a result has arrived.
abort_request(r) ==
    /\ r \in Live
    /\ status' = [status EXCEPT ![r] = "FINISHED"]
    /\ waiting' = Without(waiting, {r})
    /\ running' = Without(running, {r})
    /\ finished_ids' = TRUE
    /\ blocks_short' = FALSE
    /\ UNCHANGED <<account, prev_scheduled, batch_queue, deferred, phase, history,
                   preemptions, resets>>

-----------------------------------------------------------------------------
(* schedule() *)

\* The steps in flight are sure to reach max_tokens.
\* Mutant: one step too late.
at_max_tokens_late(r) ==
    /\ placeholders[r] > 0
    /\ num_computed[r] + 1 - placeholders[r] >= PromptLen[r] + MaxTokens[r]
at_max_tokens(r) ==
    /\ placeholders[r] > 0
    /\ num_computed[r] + 2 - placeholders[r] >= PromptLen[r] + MaxTokens[r]

\* num_new_tokens of a running request
num_new_tokens(r, budget) ==
    Smaller(Smaller(num_tokens[r] + num_spec[r] + placeholders[r] - num_computed[r],
                    budget),
            MaxModelLen - 1 - num_computed[r])

\* Mutant: the worker always goes on from the tokens the scheduler knows.
Entry_sends_all(r, start, n) ==
    [req |-> r, start |-> start, n |-> n,
     spec |-> Smaller(num_spec[r],
                      Larger(n + start - num_tokens[r] - placeholders[r], 0)),
     samples |-> start + n >= num_tokens[r] + placeholders[r],
     sent |-> num_tokens[r]]
\* A scheduled request: n tokens from position start on, of which drafts; the
\* worker samples if they reach the end of what it has.  It is sent the tokens
\* the scheduler knows (sent) unless it was in the previous batch, where it uses
\* what it sampled itself (-1).
Entry(r, start, n) ==
    [req |-> r, start |-> start, n |-> n,
     spec |-> Smaller(num_spec[r],
                      Larger(n + start - num_tokens[r] - placeholders[r], 0)),
     samples |-> start + n >= num_tokens[r] + placeholders[r],
     sent |-> IF Async /\ r \in prev_scheduled THEN -1 ELSE num_tokens[r]]

plan_running(requests) ==
    FoldLeft(LAMBDA plan, r :
        LET n == num_new_tokens(r, plan.budget)
        IN IF plan.budget <= 0 \/ at_max_tokens(r) \/ n = 0 THEN plan
           ELSE [budget |-> plan.budget - n,
                 batch |-> Append(plan.batch, Entry(r, num_computed[r], n))],
        [budget |-> MaxBatchTokens, batch |-> <<>>], requests)

\* Waiting requests are admitted in order while there is budget left.
plan_waiting(plan, requests, hits) ==
    FoldLeft(LAMBDA p, r :
        LET n == Smaller(num_tokens[r] - hits[r], p.budget)
        IN [budget |-> p.budget - n, batch |-> Append(p.batch, Entry(r, hits[r], n))],
        plan, requests)

\* _update_after_schedule of both schedulers, after the victims of preemption
\* lost their computed tokens.
\* Mutant: a preempted request loses its placeholders too.
after_schedule_clears(batch, victims) ==
    LET sampling == {e.req : e \in {e \in Entries(batch) : e.samples}}
    IN /\ num_computed' = [r \in Requests |->
            IF r \in victims THEN 0
            ELSE IF r \in RequestsOf(batch)
                 THEN EntryOf(batch, r).start + EntryOf(batch, r).n ELSE num_computed[r]]
       /\ placeholders' = [r \in Requests |->
            IF r \in victims THEN 0
            ELSE IF Async /\ r \in sampling
                 THEN placeholders[r] + 1 + EntryOf(batch, r).spec ELSE placeholders[r]]
       /\ num_spec' = [r \in Requests |->
            IF r \in victims THEN 0
            ELSE IF r \notin RequestsOf(batch) THEN num_spec[r]
            ELSE IF Async /\ r \in sampling THEN NumSpecTokens ELSE 0]
\* Mutant: no placeholders for the scheduled drafts.
after_schedule_no_drafts(batch, victims) ==
    LET sampling == {e.req : e \in {e \in Entries(batch) : e.samples}}
    IN /\ num_computed' = [r \in Requests |->
            IF r \in victims THEN 0
            ELSE IF r \in RequestsOf(batch)
                 THEN EntryOf(batch, r).start + EntryOf(batch, r).n ELSE num_computed[r]]
       /\ placeholders' = [r \in Requests |->
            IF Async /\ r \in sampling THEN placeholders[r] + 1 ELSE placeholders[r]]
       /\ num_spec' = [r \in Requests |->
            IF r \in victims THEN 0
            ELSE IF r \notin RequestsOf(batch) THEN num_spec[r]
            ELSE IF Async /\ r \in sampling THEN NumSpecTokens ELSE 0]
after_schedule(batch, victims) ==
    LET sampling == {e.req : e \in {e \in Entries(batch) : e.samples}}
    IN /\ num_computed' = [r \in Requests |->
            IF r \in victims THEN 0
            ELSE IF r \in RequestsOf(batch)
                 THEN EntryOf(batch, r).start + EntryOf(batch, r).n ELSE num_computed[r]]
       /\ placeholders' = [r \in Requests |->
            IF Async /\ r \in sampling
            THEN placeholders[r] + 1 + EntryOf(batch, r).spec ELSE placeholders[r]]
       /\ num_spec' = [r \in Requests |->
            IF r \in victims THEN 0
            ELSE IF r \notin RequestsOf(batch) THEN num_spec[r]
            ELSE IF Async /\ r \in sampling THEN NumSpecTokens ELSE 0]

\* Mutant: no batch waits for the outputs its bitmask depends on.
pending_structured_output_tokens_never(batch) == FALSE
\* The grammar of a request in the batch has not seen outputs still in flight.
pending_structured_output_tokens(batch) ==
    Async /\ \E e \in Entries(batch) :
                e.samples /\ e.req \in Structured /\ placeholders[e.req] > 0

\* The batch joins the queue, or its sampling is deferred until the oldest result
\* has been processed.  The step ends here if the batch was queued, is not empty,
\* there is room in the queue and the oldest result is not there yet (done).
enqueue(batch, done) ==
    /\ IF pending_structured_output_tokens(batch)
         THEN /\ deferred' = <<batch>>
              /\ phase' = "result"
              /\ UNCHANGED batch_queue
         ELSE /\ batch_queue' = Append(batch_queue, batch)
              /\ phase' = IF batch # <<>> /\ Len(batch_queue) + 1 < BatchQueueSize /\ ~done
                          THEN "idle" ELSE "result"
              /\ UNCHANGED deferred
    /\ prev_scheduled' = RequestsOf(batch)
    /\ finished_ids' = FALSE
    /\ UNCHANGED <<num_tokens, discard, history, resets>>

\* A victim gave up blocks that were taken at once.  Without drafts or outputs in
\* flight it needs as many again, so it does not fit as a whole until others
\* give blocks back; a first chunk of it may.
fits(new, batch) ==
    ~Async /\ blocks_short =>
        \A e \in Entries(batch) : e.req \in ToSet(new) => ~e.samples

has_requests == Live # {} \/ finished_ids

\* Without preemption: every running request, then the first waiting ones that
\* find blocks.  When nothing runs, all blocks are there for the first one.
schedule ==
    /\ phase = "idle" /\ has_requests
    /\ \E j \in 0 .. Len(waiting), hits \in [Requests -> CacheHits], done \in BOOLEAN :
        LET new == SubSeq(waiting, 1, j)
            plan == plan_waiting(plan_running(running), new, hits)
        IN /\ running = <<>> /\ waiting # <<>> => j > 0
           /\ \A r \in Requests :
                IF r \in ToSet(new) THEN hits[r] < num_tokens[r] ELSE hits[r] = 0
           /\ \A e \in Entries(plan.batch) : e.req \in ToSet(new) => e.n > 0
           /\ fits(new, plan.batch)
           /\ waiting' = SubSeq(waiting, j + 1, Len(waiting))
           /\ running' = running \o new
           /\ status' = [r \in Requests |->
                IF r \in ToSet(new) THEN "RUNNING" ELSE status[r]]
           /\ after_schedule(plan.batch, {})
           /\ enqueue(plan.batch, done)
    /\ UNCHANGED <<blocks_short, preemptions>>

\* Some running request finds no block: the last k are preempted; of the others
\* those that come before are scheduled, no waiting request is.
schedule_preempting ==
    /\ phase = "idle" /\ has_requests
    /\ preemptions < MaxPreemptions
    /\ preemptions' = preemptions + 1
    /\ blocks_short' = TRUE
    /\ \E k \in 1 .. Len(running) - 1, done \in BOOLEAN :
        LET kept == SubSeq(running, 1, Len(running) - k)
            victims == SubSeq(running, Len(running) - k + 1, Len(running))
            needy == plan_running(Append(kept, Head(victims)))
        IN /\ needy.batch # <<>>
           /\ waiting' = victims \o waiting
           /\ running' = kept
           /\ status' = [r \in Requests |->
                IF r \in ToSet(victims) THEN "PREEMPTED" ELSE status[r]]
           /\ after_schedule(plan_running(kept).batch, ToSet(victims))
           /\ enqueue(plan_running(kept).batch, done)

\* There is nothing to schedule, but a batch is in flight.
no_requests ==
    /\ phase = "idle" /\ ~has_requests /\ batch_queue # <<>>
    /\ phase' = "result"
    /\ UNCHANGED <<queues, account, finished_ids, prev_scheduled, batch_queue, deferred,
                   blocks_short, history, preemptions, resets>>

-----------------------------------------------------------------------------
(* update_from_output for the oldest batch; then the deferred one is sampled *)

\* check_stop after the k-th new token
MustStop(r, k) ==
    \/ num_tokens[r] + k >= MaxModelLen
    \/ num_tokens[r] + k - PromptLen[r] >= MaxTokens[r]

\* What can come back for an entry: gen tokens are sampled, k of them appended
\* before a stop; end-of-sequence may come at any token.
Outcomes == [gen : 0 .. NumSpecTokens + 1, k : 0 .. NumSpecTokens + 1, stop : BOOLEAN]
outcome_of(e, o) ==
    LET r == e.req
    IN IF ~e.samples \/ r \notin Live
       THEN o = [gen |-> IF e.samples THEN 1 ELSE 0, k |-> 0, stop |-> FALSE]
       ELSE /\ o.gen \in 1 .. e.spec + 1
            /\ IF Async /\ discard[r] THEN o.k = 0 /\ ~o.stop
               ELSE /\ o.k \in 1 .. o.gen
                    /\ \A j \in 1 .. o.k - 1 : ~MustStop(r, j)
                    /\ MustStop(r, o.k) => o.stop
                    /\ ~o.stop => o.k = o.gen

\* Rejected drafts come off the computed tokens, unless the request was preempted
\* since, and off the placeholders.
rejected(e, o) == IF e.spec > 0 /\ o.gen > 0 THEN e.spec - (o.gen - 1) ELSE 0
\* Mutant: rejected drafts are not taken off.
adjusted_never(count, e, o) == count
adjusted(count, e, o) == IF count > 0 THEN count - rejected(e, o) ELSE count

update_from_output ==
    /\ phase = "result"
    /\ LET batch == Head(batch_queue)
           entry == [r \in RequestsOf(batch) |-> EntryOf(batch, r)]
           updated == RequestsOf(batch) \cap Live
       IN \E out \in [RequestsOf(batch) -> Outcomes] :
            LET stopped == {r \in updated : out[r].stop}
                base(r) == IF entry[r].sent = -1 THEN worker_tokens[r] ELSE entry[r].sent
            IN /\ \A r \in RequestsOf(batch) : outcome_of(entry[r], out[r])
               /\ num_computed' = [r \in Requests |->
                    IF r \in updated THEN adjusted(num_computed[r], entry[r], out[r])
                    ELSE num_computed[r]]
               /\ num_tokens' = [r \in Requests |->
                    IF r \in updated THEN num_tokens[r] + out[r].k ELSE num_tokens[r]]
               /\ placeholders' = [r \in Requests |->
                    IF r \in updated
                    THEN adjusted(placeholders[r], entry[r], out[r])
                         - (IF Async THEN out[r].k ELSE 0)
                    ELSE placeholders[r]]
               /\ discard' = [r \in Requests |->
                    discard[r] /\ ~(Async /\ r \in updated /\ out[r].gen > 0)]
               /\ status' = [r \in Requests |->
                    IF r \in stopped THEN "FINISHED" ELSE status[r]]
               /\ running' = Without(running, stopped)
               /\ waiting' = Without(waiting, stopped)
               /\ blocks_short' = (blocks_short /\ stopped = {})
               /\ finished_ids' = (finished_ids \/ stopped # {})
               /\ worker_tokens' = [r \in Requests |->
                    IF r \in RequestsOf(batch) THEN base(r) + out[r].gen
                    ELSE worker_tokens[r]]
               /\ outputs' = [r \in Requests |->
                    IF r \in updated
                    THEN outputs[r] \o [i \in 1 .. out[r].k |-> base(r) + i]
                    ELSE outputs[r]]
    /\ batch_queue' = Tail(batch_queue) \o deferred
    /\ deferred' = <<>>
    /\ phase' = "idle"
    /\ UNCHANGED <<num_spec, prev_scheduled, misreset, preemptions, resets>>

-----------------------------------------------------------------------------
Misreset ==
    {r \in ToSet(running) :
        \/ Sampling(r) = <<>>
        \/ \E e \in Entries(Sampling(r)) : e.spec > 0}

\* reset_prefix_cache(reset_running_requests=True), called between steps
reset_prefix_cache ==
    /\ phase = "idle" /\ resets < MaxResets
    /\ resets' = resets + 1
    /\ LET reset == ToSet(running)
       IN /\ num_computed' = [r \in Requests |-> IF r \in reset THEN 0 ELSE num_computed[r]]
          /\ num_spec' = [r \in Requests |-> IF r \in reset THEN 0 ELSE num_spec[r]]
          /\ placeholders' = [r \in Requests |-> IF r \in reset THEN 0 ELSE placeholders[r]]
          /\ discard' = [r \in Requests |-> r \in reset \/ discard[r]]
          /\ status' = [r \in Requests |-> IF r \in reset THEN "PREEMPTED" ELSE status[r]]
    /\ waiting' = running \o waiting
    /\ running' = <<>>
    /\ prev_scheduled' = {}
    /\ blocks_short' = FALSE
    /\ misreset' = misreset \cup Misreset
    /\ UNCHANGED <<num_tokens, finished_ids, batch_queue, deferred, phase, worker_tokens, outputs,
                   preemptions>>

WaitForInput ==
    phase = "idle" /\ ~has_requests /\ batch_queue = <<>> /\ UNCHANGED vars

EngineStep == schedule \/ schedule_preempting \/ no_requests \/ update_from_output

Next ==
    \/ EngineStep
    \/ WaitForInput
    \/ \E r \in Requests : add_request(r) \/ abort_request(r)
    \/ reset_prefix_cache

\* The engine's busy loop steps while it has work, and the worker returns.
Fairness == WF_vars(EngineStep)

Spec == Init /\ [][Next]_vars /\ Fairness

-----------------------------------------------------------------------------
(* Properties *)

\* The entries in flight for r whose outputs will be appended to it.
Counted(r) == IF discard[r] THEN Tail(Sampling(r)) ELSE Sampling(r)

\* The placeholders of a request are exactly the outputs that the batches in
\* flight may bring for it, one and its drafts for each batch that samples,
\* whatever was rejected, preempted, deferred or reset in between; the output that
\* a reset discards is not counted.  So none arrives that was not announced.
PlaceholdersAreInFlight ==
    Async => \A r \in Live \ misreset :
        placeholders[r] = FoldLeft(LAMBDA t, e : t + 1 + e.spec, 0, Counted(r))

\* The computed tokens of a running request, without the placeholders, are known
\* tokens, all but the last one as soon as it generates: what update_from_output
\* hands to cache_blocks never includes a token that may be rejected.
CacheableTokensAccepted ==
    Async => \A r \in ToSet(running) \ misreset :
        /\ num_computed[r] - placeholders[r] < num_tokens[r]
        /\ placeholders[r] > 0 => num_computed[r] - placeholders[r] = num_tokens[r] - 1

\* No request is scheduled again once the batches in flight are sure to bring
\* max_tokens outputs.
NoNeedlessStep ==
    Async => \A r \in Live \ misreset :
        num_tokens[r] - PromptLen[r] + Len(Counted(r)) <= MaxTokens[r]

InOrder(r) == \A i \in DOMAIN outputs[r] : outputs[r][i] = PromptLen[r] + i

\* The outputs appended to a request are the next tokens of its stream: none is
\* lost, repeated or sampled from an outdated prefix, although batches are
\* scheduled before the results of earlier ones are known and a reset discards
\* an output (one that is in flight, without drafts).
OutputsInOrder == \A r \in Requests \ misreset : InOrder(r)

\* The bitmask of a request with a grammar is computed when its batch is queued.
\* No earlier output of the request is in flight then, so the grammar has seen
\* every token before the one the mask is for.
GrammarIsCurrent ==
    \A r \in (Structured \cap Live) \ misreset :
        Len(SamplingIn(batch_queue, r)) <= IF discard[r] THEN 2 ELSE 1

\* Every request that is added is finished in the end: the guard of at_max_tokens
\* never skips a request for ever, and a deferred batch is sampled (a request is
\* added once and stops being live only by finishing).
EveryRequestFinishes == []<>(Live = {})
=============================================================================
