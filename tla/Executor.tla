------------------------------ MODULE Executor ------------------------------
(***************************************************************************)
(* MultiprocExecutor and its workers (vllm/v1/executor/                    *)
(* multiproc_executor.py).  collective_rpc broadcasts a call through the   *)
(* shared-memory message queue; the workers execute calls in order and     *)
(* answer through one response queue each.  A non-blocking call returns a  *)
(* future, and waiting for a future first completes the futures before it. *)
(* Nothing but this order ties a response to its call.                     *)
(***************************************************************************)
EXTENDS Integers, Sequences

CONSTANTS
    n_worker,         \* local workers; worker r has rank r
    max_chunks,       \* capacity of the broadcast queue
    ResponseChunks,   \* capacity of a response queue
    MaxFutures,       \* futures the engine leaves pending
    MaxCalls          \* bound of the model: calls made

Workers == 0 .. (n_worker - 1)
Calls == 1 .. MaxCalls
output_rank == 0

VARIABLES
    sent,          \* calls put in rpc_broadcast_mq
    taken,         \* calls each worker has dequeued from it
    exec_pc,       \* where the engine's thread is in the executor
    call,          \* the call exec_pc is about
    unique,        \* calls answered by output_rank only
    blocking,      \* calls that wait for their response
    futures_queue, \* non-blocking calls whose response has not been read
    rank,          \* response queue get_response reads next
    responses,     \* responses get_response has read for this call
    result,        \* what each call returned: its responses, or an exception
    response_mq,   \* responses of each worker: call answered, or its failure
    use_async_scheduling,  \* configuration: an output thread enqueues the outputs
    async_output   \* outputs of each worker that are not enqueued yet: those in the
                   \* queue of its output thread, or the one its loop is busy with

broadcastVars == <<sent, taken>>
engineVars == <<exec_pc, call, unique, blocking, futures_queue, rank, responses, result>>
workerVars == <<response_mq, use_async_scheduling, async_output>>
vars == <<broadcastVars, engineVars, workerVars>>

\* rpc_broadcast_mq is a MessageQueue, used through what it promises: the ring
\* buffer is proved to implement this queue (ShmRingBufferProofs).
rpc_broadcast_mq == INSTANCE BroadcastQueue WITH Readers <- Workers, Capacity <- max_chunks

Pending == <<"pending">>
Timeout == <<"timeout">>

Init ==
    /\ rpc_broadcast_mq!QueueInit
    /\ exec_pc = "idle"
    /\ call = 0
    /\ unique = {}
    /\ blocking = {}
    /\ futures_queue = <<>>
    /\ rank = 0
    /\ responses = <<>>
    /\ result = [c \in Calls |-> Pending]
    /\ response_mq = [r \in Workers |-> <<>>]
    /\ use_async_scheduling \in BOOLEAN
    /\ async_output = [r \in Workers |-> <<>>]

-----------------------------------------------------------------------------
(* The engine's side.                                                       *)

\* collective_rpc is called; enqueue waits for room in the broadcast queue.
collective_rpc(one_reply, non_block) ==
    /\ exec_pc = "idle"
    /\ non_block => Len(futures_queue) < MaxFutures
    /\ sent < MaxCalls
    /\ call' = sent + 1
    /\ unique' = IF one_reply THEN unique \union {call'} ELSE unique
    /\ blocking' = IF non_block THEN blocking ELSE blocking \union {call'}
    /\ exec_pc' = "enqueue"
    /\ UNCHANGED <<broadcastVars, futures_queue, rank, responses, result, workerVars>>

\* Mutant: pending futures are not drained.
next_response_own(futures, c) == c

\* The call whose response the engine reads next: pending futures come first.
next_response(futures, c) == IF futures # <<>> THEN Head(futures) ELSE c

start_get_response(c) ==
    /\ rank' = IF c \in unique THEN output_rank ELSE 0
    /\ responses' = <<>>
    /\ exec_pc' = "get_response"

back_to_engine == exec_pc' = "idle" /\ call' = 0 /\ rank' = 0 /\ responses' = <<>>

\* enqueue returns: a non-blocking call leaves a future, a blocking one drains
\* the pending futures and then waits for its own response.
rpc_sent ==
    /\ exec_pc = "enqueue"
    /\ rpc_broadcast_mq!Put
    /\ IF call \in blocking
         THEN start_get_response(next_response(futures_queue, call))
              /\ UNCHANGED <<call, futures_queue>>
         ELSE back_to_engine /\ futures_queue' = Append(futures_queue, call)
    /\ UNCHANGED <<unique, blocking, result, workerVars>>

\* FutureWrapper.result of a future that is not done.
wait_result(c) ==
    /\ exec_pc = "idle"
    /\ \E i \in 1 .. Len(futures_queue) : futures_queue[i] = c
    /\ call' = c
    /\ start_get_response(Head(futures_queue))
    /\ UNCHANGED <<broadcastVars, unique, blocking, futures_queue, result, workerVars>>

\* wait_for_response has a value or an exception for the call it read: return to
\* the engine if that is the call it waits for, else go on with the next one.
complete(c, value) ==
    LET rest == IF futures_queue # <<>> THEN Tail(futures_queue) ELSE <<>>
    IN  /\ result' = [result EXCEPT ![c] = value]
        /\ futures_queue' = rest
        /\ IF c = call THEN back_to_engine
           ELSE start_get_response(next_response(rest, call)) /\ UNCHANGED call
        /\ UNCHANGED <<unique, blocking>>

\* One turn of the loop of get_response.  A failure raises at once: the
\* responses of the ranks after it stay where they are.
get_response ==
    /\ exec_pc = "get_response"
    /\ response_mq[rank] # <<>>
    /\ LET head == Head(response_mq[rank])
           all == Append(responses, head.answers)
           c == next_response(futures_queue, call)
       IN IF head.failed THEN complete(c, <<"failed", head.answers, rank>>)
          ELSE IF c \in unique \/ rank = n_worker - 1 THEN complete(c, <<"ok", all>>)
          ELSE /\ responses' = all
               /\ rank' = rank + 1
               /\ UNCHANGED <<exec_pc, call, unique, blocking, futures_queue, result>>
    /\ response_mq' = [response_mq EXCEPT ![rank] = Tail(@)]
    /\ UNCHANGED <<broadcastVars, use_async_scheduling, async_output>>

\* The deadline of the call passes before the response is there.
response_timeout ==
    /\ exec_pc = "get_response"
    /\ response_mq[rank] = <<>>
    /\ complete(next_response(futures_queue, call), Timeout)
    /\ UNCHANGED <<broadcastVars, workerVars>>

-----------------------------------------------------------------------------
(* A worker.                                                                *)

\* handle_output: with the output thread the loop goes on to the next call at once,
\* otherwise not before its output is in the response queue.
free_for_next(r) == use_async_scheduling \/ async_output[r] = <<>>

\* Mutant: an exception ends the call without a response.
execute_no_error_reply(r, failed) ==
    /\ free_for_next(r)
    /\ rpc_broadcast_mq!Take(r)
    /\ LET c == taken'[r]
       IN  async_output' =
             IF failed \/ (c \in unique /\ r # output_rank) THEN async_output
             ELSE [async_output EXCEPT ![r] = Append(@, [answers |-> c, failed |-> failed])]
    /\ UNCHANGED <<engineVars, response_mq, use_async_scheduling>>

\* worker_busy_loop: execute the call; an exception is a response too.
execute(r, failed) ==
    /\ free_for_next(r)
    /\ rpc_broadcast_mq!Take(r)
    /\ LET c == taken'[r]
       IN  async_output' =
             IF c \in unique /\ r # output_rank THEN async_output
             ELSE [async_output EXCEPT ![r] = Append(@, [answers |-> c, failed |-> failed])]
    /\ UNCHANGED <<engineVars, response_mq, use_async_scheduling>>

\* Mutant: the newest output first.
enqueue_output_newest(r) ==
    /\ async_output[r] # <<>>
    /\ Len(response_mq[r]) < ResponseChunks
    /\ LET n == Len(async_output[r])
       IN  /\ response_mq' = [response_mq EXCEPT ![r] = Append(@, async_output[r][n])]
           /\ async_output' = [async_output EXCEPT ![r] = SubSeq(@, 1, n - 1)]
    /\ UNCHANGED <<broadcastVars, engineVars, use_async_scheduling>>

\* enqueue_output, in async_output_busy_loop or in the worker's own loop: it waits
\* for room in the response queue.
enqueue_output(r) ==
    /\ async_output[r] # <<>>
    /\ Len(response_mq[r]) < ResponseChunks
    /\ response_mq' = [response_mq EXCEPT ![r] = Append(@, Head(async_output[r]))]
    /\ async_output' = [async_output EXCEPT ![r] = Tail(@)]
    /\ UNCHANGED <<broadcastVars, engineVars, use_async_scheduling>>

-----------------------------------------------------------------------------
EngineStep ==
    \/ rpc_sent
    \/ get_response

WorkerStep(r) == \E failed \in BOOLEAN : execute(r, failed)

Next ==
    \/ \E one_reply, non_block \in BOOLEAN :
         collective_rpc(one_reply, non_block)
    \/ \E c \in Calls : wait_result(c)
    \/ EngineStep
    \/ response_timeout
    \/ \E r \in Workers : WorkerStep(r) \/ enqueue_output(r)

Fairness ==
    /\ WF_vars(EngineStep)
    /\ \A r \in Workers : WF_vars(WorkerStep(r)) /\ WF_vars(enqueue_output(r))

Spec == Init /\ [][Next]_vars /\ Fairness

-----------------------------------------------------------------------------
(***************************************************************************)
(* Properties.                                                             *)
(***************************************************************************)

\* Some get_response raised and left responses to its call unread.
Abandoned ==
    \E c \in Calls :
        \/ result[c] = Timeout
        \/ result[c][1] = "failed" /\ c \notin unique /\ result[c][3] < n_worker - 1

\* A call returns the responses to itself, one of each worker that was to answer,
\* however futures, blocking calls and failures are mixed; the executor matches
\* them by order only, and the order holds until a get_response gives up.
AnswersMatchCalls ==
    Abandoned \/ \A c \in Calls :
        /\ result[c][1] = "ok" =>
             result[c][2] = [i \in 1 .. (IF c \in unique THEN 1 ELSE n_worker) |-> c]
        /\ result[c][1] = "failed" => result[c][2] = c

\* The responses of worker r that call c returned or raised.
Answers(c, r) ==
    CASE result[c][1] = "ok" /\ r + 1 \in DOMAIN result[c][2] -> {result[c][2][r + 1]}
      [] result[c][1] = "failed" -> IF result[c][3] = r THEN {result[c][2]} ELSE {}
      [] OTHER -> {}

\* Also after get_response gave up on a call, and left its late responses to the
\* calls after it, these only lag behind: of each worker, no response is taken by
\* two calls, by an earlier call than its own, or after a later response.
AnswersNeverAhead ==
    \A r \in Workers : \A c, d \in Calls : \A a \in Answers(c, r), b \in Answers(d, r) :
        a <= c /\ (c < d => a < b)

\* No queue between engine and workers fills up for good, with an output thread or
\* without one, when a full response queue stops the worker's loop: the engine's
\* thread always comes back from the executor.
EngineReturns == []<>(exec_pc = "idle")

=============================================================================
