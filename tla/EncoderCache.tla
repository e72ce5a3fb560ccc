---------------------------- MODULE EncoderCache ----------------------------
(***************************************************************************)
(* EncoderCacheManager (v1/core/encoder_cache_manager.py), the scheduler's *)
(* use of it and the cache of the model runner it stands for.  Multimodal  *)
(* items of a prompt are encoded when the tokens of a step reach them and  *)
(* kept, by hash, until the tokens they stand for are computed; then their *)
(* slots may be reclaimed for other items.  The manager only books; the    *)
(* worker drops an entry when it is told so with a batch, and asserts that *)
(* every item a batch needs is there.                                      *)
(*                                                                         *)
(* The policy is FCFS.  KV-cache blocks are not modelled: an allocation    *)
(* may fail, at most MaxFailures times.  A request is finished when its    *)
(* prompt is computed; items belong to the prompt.                         *)
(***************************************************************************)
EXTENDS Integers, Sequences, SequencesExt, FiniteSetsExt

CONSTANTS
    Requests,
    PromptLen,       \* [Requests -> Nat]
    Features,        \* mm_features: per request, [hash, offset] by offset
    NumEmbeds,       \* number of embeddings (and of tokens) of each hash
    CacheSize,       \* encoder_cache_size
    ComputeBudget,   \* max_num_encoder_input_tokens
    TokenBudget,     \* max_num_batched_tokens
    Shift,           \* 1 with an EAGLE drafter, which reads one token ahead
    Chunked,         \* ~disable_chunked_mm_input
    PrefixHits,      \* possible lengths of a prefix-cache hit
    MaxFailures      \* bound on failing KV-cache allocations

Hashes == DOMAIN NumEmbeds
None == [n |-> 0]

ASSUME EncoderAssumption ==
    /\ Shift \in {0, 1} /\ Chunked \in BOOLEAN /\ 0 \in PrefixHits
    /\ \A h \in Hashes : NumEmbeds[h] \in 1 .. CacheSize /\ NumEmbeds[h] <= ComputeBudget
    /\ \A h \in Hashes : Chunked \/ NumEmbeds[h] <= TokenBudget

VARIABLES
    cached,              \* hash -> requests that refer to it, for cached hashes
    freeable,            \* cached hashes nobody refers to, oldest first
    freed,               \* hashes evicted since the last batch
    num_free_slots, num_freeable_slots,
    waiting, running, num_computed_tokens,
    phase,               \* "idle", "running", "waiting" in schedule(), "execute"
    index,               \* req_index
    preempted,           \* preempted_reqs is not empty
    plan,                \* what _try_schedule_encoder_inputs returned, or None
    token_budget, encoder_compute_budget,
    batch,               \* num_scheduled_tokens and scheduled_encoder_inputs
    failures,            \* KV-cache allocations that failed so far
    encoder_cache,       \* hashes in the model runner's cache
    missed               \* history: the runner's assertion failed

managerVars == <<cached, freeable, freed, num_free_slots, num_freeable_slots>>
queueVars == <<waiting, running, num_computed_tokens>>
budgetVars == <<token_budget, encoder_compute_budget>>
workerVars == <<encoder_cache, missed>>
vars == <<managerVars, queueVars, phase, index, preempted, plan, budgetVars, batch,
          failures, workerVars>>

(* The manager's state as a value, for the operations schedule() makes.     *)
Manager == [cached |-> cached, freeable |-> freeable, freed |-> freed,
            free |-> num_free_slots, avail |-> num_freeable_slots]
ManagerBecomes(m) ==
    /\ cached' = m.cached /\ freeable' = m.freeable /\ freed' = m.freed
    /\ num_free_slots' = m.free /\ num_freeable_slots' = m.avail

Init ==
    /\ cached = <<>> /\ freeable = <<>> /\ freed = {}
    /\ num_free_slots = CacheSize /\ num_freeable_slots = CacheSize
    /\ waiting = <<>> /\ running = <<>>
    /\ num_computed_tokens = [r \in Requests |-> -1]
    /\ phase = "idle" /\ index = 1 /\ preempted = FALSE /\ plan = None
    /\ token_budget = 0 /\ encoder_compute_budget = 0 /\ batch = <<>>
    /\ failures = 0
    /\ encoder_cache = {} /\ missed = FALSE

-----------------------------------------------------------------------------
(* EncoderCacheManager *)

Without(s, x) == SelectSeq(s, LAMBDA y : y # x)
Set(f, x, v) == [y \in DOMAIN f \union {x} |-> IF y = x THEN v ELSE f[y]]
Drop(f, x) == [y \in DOMAIN f \ {x} |-> f[y]]

\* The part of check_and_update_cache after its first return.
\* Mutant: the entry stays freeable.
take_reference_freeable(m, r, h) == [m EXCEPT !.cached[h] = @ \union {r}]
take_reference(m, r, h) ==
    IF m.cached[h] # {} THEN [m EXCEPT !.cached[h] = @ \union {r}]
    ELSE [m EXCEPT !.cached[h] = {r}, !.freeable = Without(@, h), !.avail = @ - NumEmbeds[h]]

\* can_allocate, with the eviction it makes.
can_allocate(m, h, budget, to_schedule) ==
    /\ NumEmbeds[h] <= budget
    /\ NumEmbeds[h] + to_schedule <= m.free \/ NumEmbeds[h] + to_schedule <= m.avail

evict(m, needed) ==
    FoldLeft(LAMBDA a, h :
        IF needed <= a.free THEN a
        ELSE [a EXCEPT !.cached = Drop(@, h), !.freeable = Tail(@),
                       !.freed = @ \union {h}, !.free = @ + NumEmbeds[h]],
        m, m.freeable)

allocate(m, r, h) ==
    LET refs == IF h \in DOMAIN m.cached THEN m.cached[h] ELSE {}
    IN  [m EXCEPT !.cached = Set(@, h, refs \union {r}),
                  !.free = @ - NumEmbeds[h], !.avail = @ - NumEmbeds[h]]

free_encoder_input(m, r, h) ==
    IF h \notin DOMAIN m.cached \/ r \notin m.cached[h] THEN m
    ELSE IF m.cached[h] # {r} THEN [m EXCEPT !.cached[h] = @ \ {r}]
    ELSE [m EXCEPT !.cached[h] = {}, !.freeable = Append(@, h), !.avail = @ + NumEmbeds[h]]

\* Some inputs of r are freed, in the order of the set of their ids.
free_inputs(m, r, ids) ==
    FoldLeft(LAMBDA a, i : free_encoder_input(a, r, Features[r][i].hash),
             m, SetToSortSeq(ids, <))
free(m, r) == free_inputs(m, r, DOMAIN Features[r])

-----------------------------------------------------------------------------
(* _try_schedule_encoder_inputs: a turn of its loop, on the record of what   *)
(* it has decided so far.                                                   *)

\* The window ends before an item that must not be split or has no room.
before_item(a, start) == [a EXCEPT !.stop = TRUE,
    !.n = IF a.computed + Shift < start THEN start - (a.computed + Shift) ELSE 0]

try_input(a, r, i) ==
    LET h == Features[r][i].hash
        start == Features[r][i].offset
        end == start + NumEmbeds[h]
    IN  CASE a.stop \/ start >= a.computed + a.n + Shift -> [a EXCEPT !.stop = TRUE]
          [] end <= a.computed \/ h \in a.hashes -> a
          [] h \in DOMAIN a.m.cached -> [a EXCEPT !.m = take_reference(@, r, h)]
          [] ~Chunked /\ a.computed < start /\ a.computed + a.n < end -> before_item(a, start)
          [] ~can_allocate(a.m, h, a.budget, a.embeds) -> before_item(a, start)
          [] OTHER ->
               LET m == evict(a.m, NumEmbeds[h] + a.embeds)
               IN  IF start >= a.computed + a.n THEN [a EXCEPT !.m = m]
                   ELSE [a EXCEPT !.m = m, !.inputs = Append(@, h), !.hashes = @ \union {h},
                                  !.embeds = @ + NumEmbeds[h], !.budget = @ - NumEmbeds[h]]

try_schedule_encoder_inputs(r, computed, n) ==
    FoldLeft(LAMBDA a, i : try_input(a, r, i),
        [m |-> Manager, computed |-> computed, n |-> n, budget |-> encoder_compute_budget,
         inputs |-> <<>>, hashes |-> {}, embeds |-> 0, stop |-> FALSE],
        [i \in DOMAIN Features[r] |-> i])

-----------------------------------------------------------------------------
add_request(r) ==
    /\ phase = "idle" /\ num_computed_tokens[r] = -1
    /\ num_computed_tokens' = [num_computed_tokens EXCEPT ![r] = 0]
    /\ waiting' = Append(waiting, r)
    /\ UNCHANGED <<plan, managerVars, running, phase, index, preempted, budgetVars, batch, failures,
                   workerVars>>

\* Between steps, or while the model runs.
abort_request(r) ==
    /\ phase \in {"idle", "execute"} /\ r \in ToSet(waiting) \union ToSet(running)
    /\ ManagerBecomes(free(Manager, r))
    /\ waiting' = Without(waiting, r) /\ running' = Without(running, r)
    /\ UNCHANGED <<plan, num_computed_tokens, phase, index, preempted, budgetVars, batch, failures,
                   workerVars>>

\* Between steps; with requests in progress the engine only logs a warning.
reset_encoder_cache ==
    /\ phase = "idle"
    /\ cached' = <<>> /\ freeable' = <<>> /\ freed' = {}
    /\ num_free_slots' = CacheSize /\ num_freeable_slots' = CacheSize
    /\ encoder_cache' = {}
    /\ UNCHANGED <<plan, queueVars, phase, index, preempted, budgetVars, batch, failures, missed>>

-----------------------------------------------------------------------------
(* schedule() *)

start_schedule ==
    /\ phase = "idle" /\ (running # <<>> \/ waiting # <<>>)
    /\ phase' = "running" /\ index' = 1 /\ preempted' = FALSE
    /\ token_budget' = TokenBudget /\ encoder_compute_budget' = ComputeBudget
    /\ UNCHANGED <<plan, managerVars, queueVars, batch, failures, workerVars>>

window(r, computed) ==
    IF PromptLen[r] - computed < token_budget THEN PromptLen[r] - computed ELSE token_budget

\* The encoder inputs of the request that comes next are looked at.
look_at(r, computed) ==
    LET a == try_schedule_encoder_inputs(r, computed, window(r, computed))
    IN  /\ ManagerBecomes(a.m)
        /\ plan' = [req |-> r, start |-> computed, n |-> a.n, inputs |-> a.inputs,
                    budget |-> a.budget]

schedule_request(m) ==
    /\ batch' = Append(batch, [req |-> plan.req, start |-> plan.start, n |-> plan.n,
                               inputs |-> plan.inputs])
    /\ token_budget' = token_budget - plan.n
    /\ encoder_compute_budget' = plan.budget
    /\ ManagerBecomes(FoldLeft(LAMBDA b, h : allocate(b, plan.req, h), m, plan.inputs))

look_at_running ==
    /\ phase = "running" /\ index <= Len(running) /\ token_budget > 0
    /\ look_at(running[index], num_computed_tokens[running[index]])
    /\ phase' = "place running"
    /\ UNCHANGED <<queueVars, index, preempted, budgetVars, batch, failures, workerVars>>

\* There are no tokens to schedule: the next request is looked at.
skip_running ==
    /\ phase = "place running" /\ plan.n = 0
    /\ index' = index + 1
    /\ phase' = "running" /\ plan' = None
    /\ UNCHANGED <<managerVars, queueVars, preempted, budgetVars, batch, failures, workerVars>>

\* It is scheduled when the last k running requests have given up their blocks;
\* when all others have and it is still short, it is preempted itself.
schedule_running(k) ==
    LET kept == SubSeq(running, 1, Len(running) - k)
        victims == SubSeq(running, Len(running) - k + 1, Len(running))
        m == FoldRight(LAMBDA v, b : free(b, v), victims, Manager)
    IN  /\ phase = "place running" /\ plan.n > 0
        /\ k <= Len(running) - index + 1
        /\ k > 0 => failures < MaxFailures
        /\ failures' = failures + (IF k > 0 THEN 1 ELSE 0)
        /\ preempted' = (preempted \/ k > 0)
        /\ running' = kept
        /\ waiting' = victims \o waiting
        /\ num_computed_tokens' = [v \in Requests |->
             IF v \in ToSet(victims) THEN 0 ELSE num_computed_tokens[v]]
        /\ IF index <= Len(kept)
           THEN schedule_request(m) /\ index' = index + 1
           ELSE ManagerBecomes(m) /\ UNCHANGED <<index, budgetVars, batch>>
        /\ phase' = "running" /\ plan' = None
        /\ UNCHANGED workerVars

\* The waiting queue is looked at unless something was preempted.
end_running ==
    /\ phase = "running" /\ (index > Len(running) \/ token_budget = 0)
    /\ phase' = IF preempted THEN "end" ELSE "waiting"
    /\ UNCHANGED <<plan, managerVars, queueVars, index, preempted, budgetVars, batch, failures,
                   workerVars>>

\* The first waiting request, after a prefix-cache hit.
look_at_waiting(computed) ==
    /\ phase = "waiting" /\ waiting # <<>> /\ token_budget > 0
    /\ computed < PromptLen[Head(waiting)]
    /\ look_at(Head(waiting), computed)
    /\ phase' = "place waiting"
    /\ UNCHANGED <<queueVars, index, preempted, budgetVars, batch, failures, workerVars>>

schedule_waiting ==
    /\ phase = "place waiting" /\ plan.n > 0
    /\ schedule_request(Manager)
    /\ num_computed_tokens' = [num_computed_tokens EXCEPT ![plan.req] = plan.start]
    /\ running' = Append(running, plan.req)
    /\ waiting' = Tail(waiting)
    /\ phase' = "waiting" /\ plan' = None
    /\ UNCHANGED <<index, preempted, failures, workerVars>>

\* It has no tokens to schedule, or no blocks: then its references are given back.
refuse_waiting(no_blocks) ==
    /\ phase = "place waiting" /\ no_blocks = (plan.n > 0)
    /\ no_blocks => failures < MaxFailures
    /\ failures' = failures + (IF no_blocks THEN 1 ELSE 0)
    /\ ManagerBecomes(IF no_blocks THEN free(Manager, plan.req) ELSE Manager)
    /\ phase' = "end" /\ plan' = None
    /\ UNCHANGED <<queueVars, index, preempted, budgetVars, batch, workerVars>>

none_waiting ==
    /\ phase = "waiting" /\ (waiting = <<>> \/ token_budget = 0)
    /\ phase' = "end"
    /\ UNCHANGED <<plan, managerVars, queueVars, index, preempted, budgetVars, batch, failures,
                   workerVars>>

\* _free_encoder_inputs: the items whose tokens are computed.
\* Mutant: an item is kept until the request is finished.
processed_never(r, computed) == {}
processed(r, computed) ==
    {i \in DOMAIN Features[r] :
        Features[r][i].offset + NumEmbeds[Features[r][i].hash] <= computed}

\* _update_after_schedule
update_after_schedule ==
    /\ phase = "end"
    /\ num_computed_tokens' = FoldLeft(LAMBDA f, e : [f EXCEPT ![e.req] = e.start + e.n],
                                       num_computed_tokens, batch)
    /\ ManagerBecomes(FoldLeft(
         LAMBDA m, e : free_inputs(m, e.req, processed(e.req, e.start + e.n)), Manager, batch))
    /\ phase' = "execute"
    /\ UNCHANGED <<plan, waiting, running, index, preempted, budgetVars, batch, failures,
                   workerVars>>

-----------------------------------------------------------------------------
(* The model runner *)

\* The hashes _gather_mm_embeddings reads for an entry of the batch.
gathered(e, shift) ==
    LET read == {i \in DOMAIN Features[e.req] :
            LET f == Features[e.req][i]
            IN  f.offset < e.start + shift + e.n /\ f.offset + NumEmbeds[f.hash] > e.start + shift}
    IN  {Features[e.req][i].hash : i \in read}

\* Mutant: the evicted entries are dropped last.
cache_after_drops_last(encoded) == (encoder_cache \union encoded) \ freed
cache_after(encoded) == (encoder_cache \ freed) \union encoded

\* Evicted entries are dropped, the scheduled items encoded, the embeddings of
\* the batch gathered, also for the drafter; requests whose prompt is done finish.
execute_model ==
    /\ phase = "execute"
    /\ encoder_cache' = cache_after(UNION {ToSet(e.inputs) : e \in ToSet(batch)})
    /\ freed' = {}
    /\ missed' = (missed \/ \E e \in ToSet(batch), shift \in {0, Shift} :
                                ~(gathered(e, shift) \subseteq encoder_cache'))
    /\ running' = SelectSeq(running, LAMBDA r : num_computed_tokens[r] < PromptLen[r])
    /\ batch' = <<>>
    /\ phase' = "idle"
    /\ UNCHANGED <<plan, cached, freeable, num_free_slots, num_freeable_slots, waiting,
                   num_computed_tokens, index, preempted, budgetVars, failures>>

EngineStep ==
    \/ start_schedule
    \/ look_at_running
    \/ skip_running
    \/ \E k \in 0 .. Len(running) : schedule_running(k)
    \/ end_running
    \/ \E c \in PrefixHits : look_at_waiting(c)
    \/ schedule_waiting
    \/ \E no_blocks \in BOOLEAN : refuse_waiting(no_blocks)
    \/ none_waiting
    \/ update_after_schedule
    \/ execute_model

Next ==
    \/ EngineStep
    \/ \E r \in Requests : add_request(r) \/ abort_request(r)
    \/ reset_encoder_cache

\* The engine's busy loop steps while it has work.  This is WF_vars(EngineStep)
\* written out, which TLC checks much faster: a step is enabled iff there is work,
\* and between two changes of phase, which only such steps make, there are finitely many.
HasWork == phase # "idle" \/ running # <<>> \/ waiting # <<>>
BusyLoop == []<>~HasWork \/ []<><<TRUE>>_phase

Spec == Init /\ [][Next]_vars /\ BusyLoop

-----------------------------------------------------------------------------
(* Properties *)

Embeds(hashes) == MapThenSumSet(LAMBDA h : NumEmbeds[h], hashes)

\* The two counters are what they stand for: the slots of no cached item, and
\* those of no item somebody refers to; the items to evict are the cached ones
\* nobody refers to.  The assertions of allocate and the popitem of can_allocate
\* rest on it.
SlotsExact ==
    /\ num_free_slots = CacheSize - Embeds(DOMAIN cached)
    /\ num_freeable_slots = CacheSize - Embeds({h \in DOMAIN cached : cached[h] # {}})
    /\ num_free_slots >= 0
    /\ ToSet(freeable) = {h \in DOMAIN cached : cached[h] = {}}
    /\ Len(freeable) = Cardinality(ToSet(freeable))

\* The runner's assertion: every item a batch reads is in the runner's cache.
\* Between steps the runner holds exactly the items the manager counts as cached,
\* so that it never holds more embeddings than the cache has slots.
NoEncoderMiss ==
    /\ ~missed
    /\ phase = "idle" => encoder_cache = DOMAIN cached

\* Every request is finished: no two requests wait for the slots of each other.
EveryRequestFinishes == []<>(waiting = <<>> /\ running = <<>>)
=============================================================================
