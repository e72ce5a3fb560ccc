------------------------------ MODULE DPWaves ------------------------------
(***************************************************************************)
(* Waves of data-parallel engines (DPEngineCoreProc in v1/engine/core.py,  *)
(* DPCoordinatorProc in coordinator.py, DPAsyncMPClient in core_client.py).*)
(* The engines of a MoE model make every forward pass together: an engine  *)
(* without requests takes part with a dummy batch, and all of them pause   *)
(* when an all-reduce finds no request left, which ends a wave.  A request *)
(* that comes to a paused engine must wake the others: the front end that  *)
(* believes the engines paused tells the coordinator, which broadcasts     *)
(* START_DP_WAVE; an engine that gets a request of an older wave tells the *)
(* coordinator itself.  Every channel is a FIFO queue of its own.          *)
(*                                                                         *)
(* A forward pass and an all-reduce are collectives: one step of all the   *)
(* engines, which must all have come to it.                                *)
(***************************************************************************)
EXTENDS Integers, Sequences

CONSTANTS
    NumEngines,    \* data_parallel_size
    Clients,       \* the front ends
    Requests,
    Length,        \* [Requests -> Nat]: forward passes of each request
    SyncEvery      \* forward passes between two all-reduces (32)

ASSUME WavesAssumption ==
    /\ NumEngines \in Nat \ {0, 1} /\ SyncEvery \in Nat \ {0}
    /\ \A r \in Requests : Length[r] \in Nat \ {0}

Engines == 0 .. (NumEngines - 1)
NoEngine == -1

VARIABLES
    c_wave, c_running,  \* current_wave, engines_running of each front end
    first_req,          \* FIRST_REQ messages for its stats task
    to_coordinator,     \* from each front end: [engine, wave]
    input,              \* [front end][engine]: requests sent, [req, wave]
    unsent,             \* requests that are still to come
    wave, running,      \* current_wave, engines_running of the coordinator
    to_clients,         \* published states, per front end: [wave, running]
    to_engines,         \* START_DP_WAVE messages, per engine: [wave, exclude]
    current_wave, engines_running, step_counter,    \* of each engine
    pc,                 \* "input", or in a collective: "forward", "all_reduce"
    unfinished,         \* requests of each engine's scheduler
    left,               \* forward passes left of each request
    output              \* from each engine to the coordinator: [kind, wave]

clientVars == <<c_wave, c_running, first_req, unsent>>
coordinatorVars == <<wave, running>>
engineVars == <<current_wave, engines_running, step_counter, pc, unfinished, left>>
vars == <<clientVars, coordinatorVars, engineVars, input, output,
          to_coordinator, to_clients, to_engines>>

Init ==
    /\ c_wave = [c \in Clients |-> 0] /\ c_running = [c \in Clients |-> FALSE]
    /\ first_req = [c \in Clients |-> <<>>]
    /\ to_coordinator = [c \in Clients |-> <<>>]
    /\ input = [c \in Clients |-> [e \in Engines |-> <<>>]]
    /\ unsent = Requests
    /\ wave = 0 /\ running = FALSE
    /\ to_clients = [c \in Clients |-> <<>>]
    /\ to_engines = [e \in Engines |-> <<>>]
    /\ current_wave = [e \in Engines |-> 0]
    /\ engines_running = [e \in Engines |-> FALSE]
    /\ step_counter = [e \in Engines |-> 0]
    /\ pc = [e \in Engines |-> "input"]
    /\ unfinished = [e \in Engines |-> {}]
    /\ left = Length
    /\ output = [e \in Engines |-> <<>>]

-----------------------------------------------------------------------------
(* A front end.                                                             *)

\* The request is stamped with the wave the front end knows; if it believes the
\* engines paused, the stats task is told.
add_request_async(c, r, e) ==
    /\ r \in unsent
    /\ unsent' = unsent \ {r}
    /\ input' = [input EXCEPT ![c][e] = Append(@, [req |-> r, wave |-> c_wave[c]])]
    /\ first_req' = IF c_running[c] THEN first_req
                    ELSE [first_req EXCEPT ![c] = Append(@, e)]
    /\ UNCHANGED <<c_wave, c_running, coordinatorVars, engineVars, output, to_coordinator,
                   to_clients, to_engines>>

\* run_engine_stats_update_task, a FIRST_REQ is ready.
first_request(c) ==
    /\ first_req[c] # <<>>
    /\ c_running' = [c_running EXCEPT ![c] = TRUE]
    /\ to_coordinator' = [to_coordinator EXCEPT ![c] =
         Append(@, [engine |-> Head(first_req[c]), wave |-> c_wave[c]])]
    /\ first_req' = [first_req EXCEPT ![c] = Tail(@)]
    /\ UNCHANGED <<c_wave, unsent, coordinatorVars, engineVars, input, output,
                   to_clients, to_engines>>

\* The published states that have arrived are drained, the latest one counts.  A
\* FIRST_REQ may be waiting, or come after the poll that found them.
drain_stats(c) ==
    \E k \in 1 .. Len(to_clients[c]) :
        LET latest == to_clients[c][k]
        IN  /\ c_wave' = [c_wave EXCEPT ![c] = latest.wave]
            /\ c_running' = [c_running EXCEPT ![c] = latest.running]
            /\ to_clients' = [to_clients EXCEPT ![c] = SubSeq(@, k + 1, Len(@))]
            /\ UNCHANGED <<first_req, unsent, coordinatorVars, engineVars, input, output,
                           to_coordinator, to_engines>>

-----------------------------------------------------------------------------
(* The coordinator.                                                         *)

send_start_wave(w, exclude) ==
    to_engines' = [e \in Engines |-> Append(to_engines[e], [wave |-> w, exclude |-> exclude])]

publish(w, on) ==
    to_clients' = [c \in Clients |-> Append(to_clients[c], [wave |-> w, running |-> on])]

\* The engine that need not be told: it got a request of this wave.
\* Mutant: also when the wave is over.
excluded_always(msg) == msg.engine
excluded(msg) == IF msg.wave < wave THEN NoEngine ELSE msg.engine

\* A front end sent a request while it believed the engines paused.
new_request(c) ==
    /\ to_coordinator[c] # <<>>
    /\ LET msg == Head(to_coordinator[c])
       IN  IF running THEN UNCHANGED <<running, to_engines, to_clients>>
           ELSE /\ running' = TRUE
                /\ send_start_wave(wave, excluded(msg))
                /\ publish(wave, TRUE)
    /\ to_coordinator' = [to_coordinator EXCEPT ![c] = Tail(@)]
    /\ UNCHANGED <<wave, clientVars, engineVars, input, output>>

engine_output(e) ==
    /\ output[e] # <<>>
    /\ LET msg == Head(output[e])
       IN  IF msg.kind = "wave_complete" /\ wave <= msg.wave
           THEN /\ wave' = msg.wave + 1 /\ running' = FALSE
                /\ publish(msg.wave + 1, FALSE)
                /\ UNCHANGED to_engines
           ELSE IF msg.kind = "start_wave"
                   /\ (msg.wave > wave \/ (msg.wave = wave /\ ~running))
           THEN /\ wave' = msg.wave /\ running' = TRUE
                /\ send_start_wave(msg.wave, e)
                /\ publish(msg.wave, TRUE)
           ELSE UNCHANGED <<wave, running, to_engines, to_clients>>
    /\ output' = [output EXCEPT ![e] = Tail(@)]
    /\ UNCHANGED <<clientVars, engineVars, input, to_coordinator>>

\* The poll times out: the state is published with the request counts.  Only the
\* publications that tell some front end something new are modelled.
publish_stats ==
    /\ \A c \in Clients : to_clients[c] = <<>>
    /\ \E c \in Clients : c_wave[c] # wave \/ c_running[c] # running
    /\ publish(wave, running)
    /\ UNCHANGED <<clientVars, coordinatorVars, engineVars, input, output,
                   to_coordinator, to_engines>>

-----------------------------------------------------------------------------
(* An engine.  Messages are handled at the top of its loop only.            *)

\* A request of an already completed wave: the next one is to be started.
\* Mutant: nobody is told.
starts_wave_never(msg, e) == FALSE
starts_wave(msg, e) == msg.wave < current_wave[e] /\ ~engines_running[e]

add_request(c, e) ==
    /\ pc[e] = "input"
    /\ input[c][e] # <<>>
    /\ LET msg == Head(input[c][e])
           stale == starts_wave(msg, e)
       IN  /\ unfinished' = [unfinished EXCEPT ![e] = @ \union {msg.req}]
           /\ current_wave' = IF msg.wave > current_wave[e]
                              THEN [current_wave EXCEPT ![e] = msg.wave] ELSE current_wave
           /\ engines_running' = [engines_running EXCEPT ![e] = @ \/ stale]
           /\ output' = IF ~stale THEN output
                        ELSE [output EXCEPT ![e] =
                               Append(@, [kind |-> "start_wave", wave |-> current_wave[e]])]
    /\ input' = [input EXCEPT ![c][e] = Tail(@)]
    /\ UNCHANGED <<clientVars, coordinatorVars, step_counter, pc, left, to_coordinator,
                   to_clients, to_engines>>

abort_request(e, r) ==
    /\ pc[e] = "input"
    /\ r \in unfinished[e]
    /\ unfinished' = [unfinished EXCEPT ![e] = @ \ {r}]
    /\ UNCHANGED <<clientVars, coordinatorVars, current_wave, engines_running, step_counter,
                   pc, left, input, output, to_coordinator, to_clients, to_engines>>

\* START_DP_WAVE
\* Mutant: the wave may be over.
wakes_any_wave(msg, e) == msg.exclude # e
wakes(msg, e) == msg.exclude # e /\ msg.wave >= current_wave[e]

start_dp_wave(e) ==
    /\ pc[e] = "input"
    /\ to_engines[e] # <<>>
    /\ LET msg == Head(to_engines[e])
       IN  /\ current_wave' = IF wakes(msg, e) THEN [current_wave EXCEPT ![e] = msg.wave]
                              ELSE current_wave
           /\ engines_running' = [engines_running EXCEPT ![e] = @ \/ wakes(msg, e)]
    /\ to_engines' = [to_engines EXCEPT ![e] = Tail(@)]
    /\ UNCHANGED <<clientVars, coordinatorVars, step_counter, pc, unfinished, left, input,
                   output, to_coordinator, to_clients>>

\* The loop goes on to a step: with a batch, or with a dummy batch.
has_work(e) == engines_running[e] \/ unfinished[e] # {}

begin_step(e) ==
    /\ pc[e] = "input" /\ has_work(e)
    /\ pc' = [pc EXCEPT ![e] = "forward"]
    /\ UNCHANGED <<clientVars, coordinatorVars, current_wave, engines_running, step_counter,
                   unfinished, left, input, output, to_coordinator, to_clients, to_engines>>

\* The forward pass, update_from_output, and _has_global_unfinished_reqs up to
\* its all-reduce.
forward ==
    /\ \A e \in Engines : pc[e] = "forward"
    /\ LET batch == UNION {unfinished[e] : e \in Engines}
       IN  /\ left' = [r \in Requests |-> IF r \in batch THEN left[r] - 1 ELSE left[r]]
           /\ unfinished' = [e \in Engines |-> {r \in unfinished[e] : left[r] > 1}]
    /\ step_counter' = [e \in Engines |-> step_counter[e] + 1]
    /\ pc' = [e \in Engines |->
         IF step_counter'[e] % SyncEvery = 0 THEN "all_reduce" ELSE "input"]
    /\ engines_running' = [e \in Engines |-> engines_running[e] \/ pc'[e] = "input"]
    /\ UNCHANGED <<clientVars, coordinatorVars, current_wave, input, output,
                   to_coordinator, to_clients, to_engines>>

\* has_unfinished_dp; without a request left anywhere the wave ends.
all_reduce ==
    /\ \A e \in Engines : pc[e] = "all_reduce"
    /\ pc' = [e \in Engines |-> "input"]
    /\ LET any_unfinished == \E e \in Engines : unfinished[e] # {}
       IN  /\ engines_running' = [e \in Engines |-> any_unfinished]
           /\ IF any_unfinished THEN UNCHANGED <<current_wave, step_counter, output>>
              ELSE /\ output' = [output EXCEPT ![0] =
                        Append(@, [kind |-> "wave_complete", wave |-> current_wave[0]])]
                   /\ current_wave' = [e \in Engines |-> current_wave[e] + 1]
                   /\ step_counter' = [e \in Engines |-> 0]
    /\ UNCHANGED <<clientVars, coordinatorVars, unfinished, left, input, to_coordinator,
                   to_clients, to_engines>>

-----------------------------------------------------------------------------
ClientStep(c) == first_request(c) \/ drain_stats(c)
CoordinatorStep == (\E c \in Clients : new_request(c)) \/ (\E e \in Engines : engine_output(e))
EngineInput(e) == start_dp_wave(e) \/ \E c \in Clients : add_request(c, e)

Next ==
    \/ \E c \in Clients, r \in Requests, e \in Engines : add_request_async(c, r, e)
    \/ \E c \in Clients : ClientStep(c)
    \/ CoordinatorStep
    \/ publish_stats
    \/ \E e \in Engines : EngineInput(e) \/ begin_step(e)
    \/ \E e \in Engines, r \in Requests : abort_request(e, r)
    \/ forward
    \/ all_reduce

\* Messages between engines and coordinator are delivered and every loop turns;
\* the front ends may hear of the coordinator's state late or never.
Fairness ==
    /\ \A c \in Clients : WF_vars(first_request(c))
    /\ WF_vars(CoordinatorStep)
    /\ \A e \in Engines : WF_vars(EngineInput(e)) /\ WF_vars(begin_step(e))
    /\ WF_vars(forward \/ all_reduce)

Spec == Init /\ [][Next]_vars /\ Fairness

-----------------------------------------------------------------------------
(* Properties *)

\* The front ends never know a later wave than the coordinator, and the
\* coordinator never a later one than any engine: what a wave number may be
\* taken for, a stale one always being smaller.
WavesOrdered ==
    \A e \in Engines :
        /\ \A c \in Clients : c_wave[c] <= wave
        /\ wave <= current_wave[e]
        /\ current_wave[e] = current_wave[0]

\* Why WavesOrdered is kept: no message holds a later wave than its receiver's
\* peers may know, whatever is delivered when.  A wave_complete is of a wave that
\* all engines have left.
OutputMessages ==
    [kind : {"start_wave"}, wave : 0 .. current_wave[0]]
        \union [kind : {"wave_complete"}, wave : 0 .. current_wave[0] - 1]

WaveInv ==
    /\ wave \in Nat /\ running \in BOOLEAN
    /\ current_wave \in [Engines -> Nat]
    /\ first_req \in [Clients -> Seq(Engines)]
    /\ to_coordinator \in [Clients -> Seq([engine : Engines, wave : Nat])]
    /\ c_wave \in [Clients -> 0 .. wave]
    /\ to_clients \in [Clients -> Seq([wave : 0 .. wave, running : BOOLEAN])]
    /\ to_engines \in
         [Engines -> Seq([wave : 0 .. wave, exclude : Engines \union {NoEngine}])]
    /\ input \in [Clients -> [Engines -> Seq([req : Requests, wave : 0 .. wave])]]
    /\ output \in [Engines -> Seq(OutputMessages)]
    /\ \A e \in Engines : current_wave[e] = current_wave[0]
    /\ wave <= current_wave[0]

\* Every wave ends: the engines "alternate between a global running/paused state"
\* (DPCoordinator), so they always come back to a state in which all of them are
\* paused and none waits for another in a collective.
WavesEnd ==
    []<>(\A e \in Engines : pc[e] = "input" /\ ~engines_running[e])
=============================================================================
