-------------------------------- MODULE Echo --------------------------------
(***************************************************************************)
(* ECHO: the Ascend model runner verifies only the most promising drafts   *)
(* of a batch.  The engine runs EngineCore.step with the plain Scheduler:  *)
(* schedule, execute_model (which prunes the drafts, runs the model and    *)
(* the drafter), update_from_output, post_step.                            *)
(*                                                                         *)
(* A scheduler output is [num, spec]: the number of tokens of each         *)
(* scheduled request, and the number of drafts of those that have some.    *)
(* The worker has a copy of it when it runs in a process of its own, and   *)
(* the engine's own object under the UniProcExecutor (SharedOutput).       *)
(*                                                                         *)
(* There are blocks for every request, so the running list followed by the *)
(* waiting queue is one list, requests.  Steps for finished requests only  *)
(* change nothing here and are left out.                                   *)
(***************************************************************************)
EXTENDS Integers, Sequences, FiniteSets, SequencesExt, FiniteSetsExt

CONSTANTS
    Requests,       \* request ids
    PromptLen,      \* [Requests -> Nat]: num_prompt_tokens
    MaxTokens,      \* [Requests -> Nat]: max_tokens
    MaxModelLen,    \* max_model_len
    MaxBatchTokens, \* max_num_scheduled_tokens
    NumSpecTokens,  \* num_speculative_tokens, the width of the drafter's output
    KMax,           \* VLLM_ECHO_K_MAX
    SharedOutput    \* the worker works on the engine's scheduler output

ASSUME EchoAssumption ==
    /\ MaxBatchTokens > 0 /\ NumSpecTokens > 0 /\ KMax > 0 /\ SharedOutput \in BOOLEAN
    /\ \A r \in Requests : PromptLen[r] \in 1 .. MaxModelLen - 1 /\ MaxTokens[r] > 0

VARIABLES
    requests,       \* self.running followed by self.waiting
    finished,       \* requests that are finished
    num_tokens, num_computed,
    num_spec,       \* len(spec_token_ids)
    drafter_rows,   \* _draft_token_req_ids: the requests the drafter last ran for
    output,         \* the scheduler output of the step, as the engine sees it
    pruned,         \* the same after pruning, as the worker sees it
    sampled,        \* number of tokens sampled for each scheduled request
    phase           \* "idle", "scheduled" or "executed"

vars == <<requests, finished, num_tokens, num_computed, num_spec, drafter_rows,
          output, pruned, sampled, phase>>

Smaller(a, b) == IF a < b THEN a ELSE b
Larger(a, b) == IF a > b THEN a ELSE b
NoOutput == [num |-> <<>>, spec |-> <<>>]
Scheduled(o) == DOMAIN o.num

Init ==
    /\ requests = <<>> /\ finished = {}
    /\ num_tokens = PromptLen
    /\ num_computed = [r \in Requests |-> 0]
    /\ num_spec = [r \in Requests |-> 0]
    /\ drafter_rows = {}
    /\ output = NoOutput /\ pruned = NoOutput /\ sampled = <<>>
    /\ phase = "idle"

add_request(r) ==
    /\ phase = "idle" /\ r \notin ToSet(requests) \cup finished
    /\ requests' = Append(requests, r)
    /\ UNCHANGED <<finished, num_tokens, num_computed, num_spec, drafter_rows, output,
                   pruned, sampled, phase>>

\* Between steps, or from the aborts queue before the output is processed.
abort_request(r) ==
    /\ phase \in {"idle", "executed"} /\ r \in ToSet(requests)
    /\ requests' = Remove(requests, r)
    /\ finished' = finished \cup {r}
    /\ UNCHANGED <<num_tokens, num_computed, num_spec, drafter_rows, output, pruned,
                   sampled, phase>>

-----------------------------------------------------------------------------
\* The number of tokens of each request, in order, while there is budget.
num_new_tokens(r, budget) ==
    Smaller(Smaller(num_tokens[r] + num_spec[r] - num_computed[r], budget),
            MaxModelLen - 1 - num_computed[r])
plan == FoldLeft(LAMBDA p, r :
            LET n == num_new_tokens(r, p.budget)
            IN IF n <= 0 THEN p ELSE [budget |-> p.budget - n, num |-> [p.num EXCEPT ![r] = n]],
            [budget |-> MaxBatchTokens, num |-> [r \in Requests |-> 0]], requests)

num_scheduled_spec(r, n) == Smaller(num_spec[r], n + num_computed[r] - num_tokens[r])

schedule ==
    /\ phase = "idle" /\ requests # <<>>
    /\ LET chosen == {r \in Requests : plan.num[r] > 0}
           drafted == {r \in chosen : num_scheduled_spec(r, plan.num[r]) > 0}
       IN /\ output' = [num |-> [r \in chosen |-> plan.num[r]],
                        spec |-> [r \in drafted |-> num_scheduled_spec(r, plan.num[r])]]
          /\ num_computed' = [r \in Requests |-> num_computed[r] + plan.num[r]]
          /\ num_spec' = [r \in Requests |-> IF r \in chosen THEN 0 ELSE num_spec[r]]
    /\ phase' = "scheduled"
    /\ UNCHANGED <<requests, finished, num_tokens, drafter_rows, pruned, sampled>>

-----------------------------------------------------------------------------
(* _echo_prune_drafts *)

\* The requests whose drafts compete, and the number of drafts selected.
actual_rows == drafter_rows \cap Scheduled(output)
n_select == Smaller(Larger(KMax - Cardinality(actual_rows), 0),
                    Cardinality(actual_rows) * NumSpecTokens)
\* What topk over the cumulative log-probabilities can select: any n_select cells
\* of the requests' rows (equal probabilities are broken arbitrarily).
selections == kSubset(n_select, actual_rows \X (1 .. NumSpecTokens))

kept(mask, r) == Cardinality({s \in 1 .. output.spec[r] : <<r, s>> \in mask})

\* Mutant: the bonus token is not counted in the scheduled tokens.
echo_prune_drafts_no_bonus(mask) ==
    LET rows == actual_rows \cap DOMAIN output.spec
    IN [num |-> [r \in Scheduled(output) |->
                    IF r \in rows THEN kept(mask, r) ELSE output.num[r]],
        spec |-> [r \in DOMAIN output.spec |->
                    IF r \in rows THEN kept(mask, r) ELSE output.spec[r]]]
\* Only requests with a row and with scheduled drafts are pruned, to the drafts
\* kept and the bonus token.
echo_prune_drafts(mask) ==
    LET rows == actual_rows \cap DOMAIN output.spec
    IN [num |-> [r \in Scheduled(output) |->
                    IF r \in rows THEN kept(mask, r) + 1 ELSE output.num[r]],
        spec |-> [r \in DOMAIN output.spec |->
                    IF r \in rows THEN kept(mask, r) ELSE output.spec[r]]]

\* The position where a scheduled request's tokens start, and whether n tokens
\* reach the end of its known ones, so that the worker keeps what it samples.
start(r) == num_computed[r] - output.num[r]
samples(r, n) == start(r) + n >= num_tokens[r]

\* Mutant: the engine goes on with the pruned output.
engine_output_pruned(view) == view
engine_output(view) == IF SharedOutput THEN view ELSE output

\* execute_model and sample_tokens: prune, verify the remaining drafts and draft
\* for every scheduled request.
execute_model ==
    /\ phase = "scheduled"
    /\ \E mask \in selections :
        LET view == echo_prune_drafts(mask)
            drafts(r) == IF r \in DOMAIN view.spec THEN view.spec[r] ELSE 0
        IN /\ pruned' = view
           /\ output' = engine_output(view)
           /\ sampled' \in [Scheduled(output) -> 0 .. NumSpecTokens + 1]
           /\ \A r \in Scheduled(output) :
                IF samples(r, view.num[r]) THEN sampled'[r] \in 1 .. drafts(r) + 1
                ELSE sampled'[r] = 0
    /\ drafter_rows' = Scheduled(output)
    /\ phase' = "executed"
    /\ UNCHANGED <<requests, finished, num_tokens, num_computed, num_spec>>

-----------------------------------------------------------------------------
\* check_stop after the k-th new token
must_stop(r, k) ==
    \/ num_tokens[r] + k >= MaxModelLen
    \/ num_tokens[r] + k - PromptLen[r] >= MaxTokens[r]

num_rejected(r) ==
    IF r \in DOMAIN output.spec /\ sampled[r] > 0 /\ output.spec[r] > 0
    THEN output.spec[r] - (sampled[r] - 1) ELSE 0

\* post_step hands the drafter's tokens over, except for prefill chunks.
next_drafts(r) ==
    IF num_computed[r] < num_tokens[r] THEN 0 ELSE NumSpecTokens

\* update_from_output, then post_step: stops are forced by length and may come at
\* any token otherwise.
update_from_output ==
    /\ phase = "executed"
    /\ LET updated == Scheduled(output) \cap ToSet(requests)
       IN \E appended \in [updated -> 0 .. NumSpecTokens + 1] :
            /\ \A r \in updated :
                /\ appended[r] \in (IF sampled[r] > 0 THEN 1 ELSE 0) .. sampled[r]
                /\ \A k \in 1 .. appended[r] - 1 : ~must_stop(r, k)
            /\ \E stopped \in SUBSET {r \in updated : appended[r] > 0} :
                /\ \A r \in updated :
                     appended[r] < sampled[r]
                       \/ (appended[r] > 0 /\ must_stop(r, appended[r])) => r \in stopped
                /\ requests' = SelectSeq(requests, LAMBDA r : r \notin stopped)
                /\ finished' = finished \cup stopped
                /\ num_spec' = [r \in Requests |->
                     IF r \in (drafter_rows \cap ToSet(requests)) \ stopped
                     THEN next_drafts(r) ELSE num_spec[r]]
            /\ num_computed' = [r \in Requests |->
                 IF r \in updated THEN num_computed[r] - num_rejected(r)
                 ELSE num_computed[r]]
            /\ num_tokens' = [r \in Requests |->
                 IF r \in updated THEN num_tokens[r] + appended[r] ELSE num_tokens[r]]
    /\ output' = NoOutput /\ pruned' = NoOutput /\ sampled' = <<>>
    /\ phase' = "idle"
    /\ UNCHANGED drafter_rows

WaitForInput == phase = "idle" /\ requests = <<>> /\ UNCHANGED vars

EngineStep == schedule \/ execute_model \/ update_from_output

Next ==
    \/ EngineStep
    \/ WaitForInput
    \/ \E r \in Requests : add_request(r) \/ abort_request(r)

\* The engine's busy loop steps while it has requests.  This is WF_vars(EngineStep)
\* written out, which TLC checks much faster: a step is enabled iff there is work,
\* and between two changes of phase, which only such steps make, there are finitely many.
HasWork == phase # "idle" \/ requests # <<>>
BusyLoop == []<>~HasWork \/ []<><<TRUE>>_phase

Spec == Init /\ [][Next]_vars /\ BusyLoop

-----------------------------------------------------------------------------
(* Properties *)

\* Pruning changes what is verified, never the accounts: after each step a
\* request that generates has computed all its tokens but the last, whatever was
\* pruned, rejected or cut off by a stop (_update_after_schedule counts the
\* drafts before pruning, update_from_output takes the rejected ones off).
ComputedAllButLast ==
    phase = "idle" => \A r \in ToSet(requests) :
        num_tokens[r] > PromptLen[r] => num_computed[r] = num_tokens[r] - 1

\* A request that reaches its last token before pruning still does after it, so
\* pruning never turns a decoding step into one without output.
PruningKeepsSampling ==
    phase = "executed" /\ ~SharedOutput => \A r \in Scheduled(output) :
        (samples(r, output.num[r]) <=> sampled[r] > 0)

\* The drafts of a batch that are verified, and one bonus token for each of its
\* requests, stay within K_MAX tokens, or there are no drafts: _echo_prune_drafts
\* as src/echo/echo_progress.md describes it ("n_select = k_max - (actual_bs +
\* num_non_drafter)", and no drafts for requests without a drafter row).
DraftsWithinKMax ==
    phase = "executed" =>
        LET num_reqs == Cardinality(Scheduled(pruned))
        IN MapThenSumSet(LAMBDA r : pruned.spec[r], DOMAIN pruned.spec) + num_reqs
             <= Larger(KMax, num_reqs)

\* Every request that is added finishes, however much is pruned: none stays in the
\* engine for ever, and one that has left does not come back.
EveryRequestFinishes == []<>(requests = <<>>)
=============================================================================
