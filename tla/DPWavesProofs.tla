--------------------------- MODULE DPWavesProofs ---------------------------
(***************************************************************************)
(* Wave numbers are ordered, for any number of engines, front ends and     *)
(* requests and any all-reduce interval, however late a message comes and  *)
(* whenever a request is aborted.                                          *)
(***************************************************************************)
EXTENDS DPWaves, TLAPS

-----------------------------------------------------------------------------
(* Facts about queues of messages *)

\* A queue of messages of one kind is a queue of messages of a wider kind.
LEMMA SeqWider ==
    ASSUME NEW S, NEW T, S \subseteq T, NEW s \in Seq(S)
    PROVE  s \in Seq(T)
OBVIOUS

\* Sending appends a message, receiving takes the first one.
LEMMA QueueStep ==
    ASSUME NEW S, NEW s \in Seq(S)
    PROVE  /\ \A x \in S : Append(s, x) \in Seq(S)
           /\ s # <<>> => Head(s) \in S /\ Tail(s) \in Seq(S)
OBVIOUS

\* Draining a queue up to its k-th message leaves a queue of the same kind.
LEMMA QueueDrain ==
    ASSUME NEW S, NEW s \in Seq(S), NEW k \in 1 .. Len(s)
    PROVE  s[k] \in S /\ SubSeq(s, k + 1, Len(s)) \in Seq(S)
OBVIOUS

\* Engine 0, which reports the end of a wave, is one of the engines.
LEMMA EngineZero == 0 \in Engines /\ Engines \subseteq Int
BY WavesAssumption DEF Engines

-----------------------------------------------------------------------------
(* The invariant: one lemma per kind of actor *)

\* At the start every wave number is 0 and nothing is on the way.
LEMMA WaveInitInv == Init => WaveInv
<1> SUFFICES ASSUME Init PROVE WaveInv
  OBVIOUS
<1>1. \A S : <<>> \in Seq(S)
  OBVIOUS
<1>2. output \in [Engines -> Seq(OutputMessages)]
  <2>1. output = [e \in Engines |-> <<>>]
    BY DEF Init
  <2>2. <<>> \in Seq(OutputMessages)
    OBVIOUS
  <2> QED
    BY <2>1, <2>2
<1>3. wave \in Nat /\ running \in BOOLEAN /\ c_wave \in [Clients -> 0 .. wave]
  <2>1. wave = 0 /\ running = FALSE /\ c_wave = [c \in Clients |-> 0]
    BY DEF Init
  <2>2. wave \in Nat /\ c_wave \in [Clients -> 0 .. wave]
    BY <2>1
  <2>3. running \in BOOLEAN
    BY <2>1
  <2> QED
    BY <2>2, <2>3
<1>4. /\ current_wave \in [Engines -> Nat] /\ wave <= current_wave[0]
      /\ \A e \in Engines : current_wave[e] = current_wave[0]
  BY EngineZero DEF Init
<1>5. /\ first_req \in [Clients -> Seq(Engines)]
      /\ to_coordinator \in [Clients -> Seq([engine : Engines, wave : Nat])]
      /\ to_clients \in [Clients -> Seq([wave : 0 .. wave, running : BOOLEAN])]
  BY <1>1 DEF Init
<1>6. /\ to_engines \in
           [Engines -> Seq([wave : 0 .. wave, exclude : Engines \union {NoEngine}])]
      /\ input \in [Clients -> [Engines -> Seq([req : Requests, wave : 0 .. wave])]]
  BY <1>1 DEF Init
<1> QED
  BY <1>2, <1>3, <1>4, <1>5, <1>6 DEF WaveInv

\* A front end copies wave numbers it was told: it invents none.
LEMMA ClientKeepsInv ==
    ASSUME WaveInv, NEW c \in Clients,
           \/ \E r \in Requests, e \in Engines : add_request_async(c, r, e)
           \/ ClientStep(c)
    PROVE  WaveInv'
<1>o. ASSUME UNCHANGED <<current_wave, output>> PROVE UNCHANGED OutputMessages
  BY <1>o DEF OutputMessages
<1>1. ASSUME NEW r \in Requests, NEW e \in Engines, add_request_async(c, r, e)
      PROVE  WaveInv'
  <2>1. [req |-> r, wave |-> c_wave[c]] \in [req : Requests, wave : 0 .. wave]
    BY <1>1 DEF WaveInv
  <2>i. input[c][e] \in Seq([req : Requests, wave : 0 .. wave])
    BY DEF WaveInv
  <2>2. Append(input[c][e], [req |-> r, wave |-> c_wave[c]])
          \in Seq([req : Requests, wave : 0 .. wave])
    BY <2>1, <2>i, QueueStep
  <2>3. input' \in [Clients -> [Engines -> Seq([req : Requests, wave : 0 .. wave])]]
    BY <1>1, <2>2 DEF WaveInv, add_request_async
  <2>4. first_req' \in [Clients -> Seq(Engines)]
    BY <1>1, QueueStep DEF WaveInv, add_request_async
  <2> QED
    BY <1>1, <1>o, <2>3, <2>4
    DEF WaveInv, add_request_async, coordinatorVars, engineVars
<1>2. ASSUME first_request(c) PROVE WaveInv'
  <2>1. Head(first_req[c]) \in Engines /\ Tail(first_req[c]) \in Seq(Engines)
    BY <1>2, QueueStep DEF WaveInv, first_request
  <2>2. [engine |-> Head(first_req[c]), wave |-> c_wave[c]] \in [engine : Engines, wave : Nat]
    BY <2>1 DEF WaveInv
  <2>3. to_coordinator' \in [Clients -> Seq([engine : Engines, wave : Nat])]
    BY <1>2, <2>2, QueueStep DEF WaveInv, first_request
  <2>4. first_req' \in [Clients -> Seq(Engines)]
    BY <1>2, <2>1 DEF WaveInv, first_request
  <2> QED
    BY <1>2, <1>o, <2>3, <2>4 DEF WaveInv, first_request, coordinatorVars, engineVars
<1>3. ASSUME drain_stats(c) PROVE WaveInv'
  <2> DEFINE S == [wave : 0 .. wave, running : BOOLEAN]
  <2>1. PICK k \in 1 .. Len(to_clients[c]) :
          /\ c_wave' = [c_wave EXCEPT ![c] = to_clients[c][k].wave]
          /\ to_clients' = [to_clients EXCEPT ![c] = SubSeq(@, k + 1, Len(@))]
          /\ UNCHANGED <<first_req, unsent, coordinatorVars, engineVars, input, output,
                         to_coordinator, to_engines>>
    BY <1>3 DEF drain_stats
  <2>2. to_clients[c][k] \in S /\ SubSeq(to_clients[c], k + 1, Len(to_clients[c])) \in Seq(S)
    BY QueueDrain DEF WaveInv
  <2>3. c_wave' \in [Clients -> 0 .. wave]
    BY <2>1, <2>2 DEF WaveInv
  <2>4. to_clients' \in [Clients -> Seq(S)]
    BY <2>1, <2>2 DEF WaveInv
  <2> QED
    BY <1>o, <2>1, <2>3, <2>4 DEF WaveInv, coordinatorVars, engineVars
<1> QED
  BY <1>1, <1>2, <1>3 DEF ClientStep

\* What the coordinator starts and publishes is of the wave it moves to.
LEMMA Announce ==
    ASSUME WaveInv, NEW w \in Nat, wave <= w, NEW on \in BOOLEAN,
           NEW x \in Engines \union {NoEngine}
    PROVE  /\ publish(w, on) =>
                to_clients' \in [Clients -> Seq([wave : 0 .. w, running : BOOLEAN])]
           /\ send_start_wave(w, x) =>
                to_engines' \in
                  [Engines -> Seq([wave : 0 .. w, exclude : Engines \union {NoEngine}])]
<1>1. ASSUME NEW c \in Clients
      PROVE  Append(to_clients[c], [wave |-> w, running |-> on])
               \in Seq([wave : 0 .. w, running : BOOLEAN])
  <2>1. to_clients[c] \in Seq([wave : 0 .. wave, running : BOOLEAN])
    BY DEF WaveInv
  <2>2. [wave : 0 .. wave, running : BOOLEAN] \subseteq [wave : 0 .. w, running : BOOLEAN]
    BY DEF WaveInv
  <2>3. to_clients[c] \in Seq([wave : 0 .. w, running : BOOLEAN])
    BY <2>1, <2>2, SeqWider
  <2>4. [wave |-> w, running |-> on] \in [wave : 0 .. w, running : BOOLEAN]
    OBVIOUS
  <2> QED
    BY <2>3, <2>4, QueueStep
<1>2. ASSUME NEW e \in Engines
      PROVE  Append(to_engines[e], [wave |-> w, exclude |-> x])
               \in Seq([wave : 0 .. w, exclude : Engines \union {NoEngine}])
  <2> DEFINE X == Engines \union {NoEngine}
  <2>1. to_engines[e] \in Seq([wave : 0 .. wave, exclude : X])
    BY DEF WaveInv
  <2> HIDE DEF X
  <2>2. [wave : 0 .. wave, exclude : X] \subseteq [wave : 0 .. w, exclude : X]
    BY DEF WaveInv
  <2>3. to_engines[e] \in Seq([wave : 0 .. w, exclude : X])
    BY <2>1, <2>2, SeqWider
  <2>4. [wave |-> w, exclude |-> x] \in [wave : 0 .. w, exclude : X]
    BY DEF X
  <2> QED
    BY <2>3, <2>4, QueueStep DEF X
<1> QED
  BY <1>1, <1>2 DEF publish, send_start_wave

\* The coordinator's wave only grows, so what was known before stays known.
LEMMA WaveGrows ==
    ASSUME WaveInv, wave' \in Nat, wave <= wave',
           UNCHANGED <<c_wave, input>>
    PROVE  /\ c_wave' \in [Clients -> 0 .. wave']
           /\ input' \in [Clients -> [Engines -> Seq([req : Requests, wave : 0 .. wave'])]]
<1>1. c_wave' \in [Clients -> 0 .. wave']
  BY DEF WaveInv
<1>2. [req : Requests, wave : 0 .. wave] \subseteq [req : Requests, wave : 0 .. wave']
  BY DEF WaveInv
<1>3. ASSUME NEW c \in Clients, NEW e \in Engines
      PROVE  input[c][e] \in Seq([req : Requests, wave : 0 .. wave'])
  <2>1. input[c][e] \in Seq([req : Requests, wave : 0 .. wave])
    BY DEF WaveInv
  <2> QED
    BY <1>2, <2>1, SeqWider
<1> QED
  BY <1>1, <1>3 DEF WaveInv

\* The coordinator moves to a wave that the engines have reached.
LEMMA CoordinatorKeepsInv ==
    ASSUME WaveInv, CoordinatorStep \/ publish_stats
    PROVE  WaveInv'
<1>1. ASSUME NEW c \in Clients, new_request(c) PROVE WaveInv'
  <2> DEFINE msg == Head(to_coordinator[c])
  <2>1. msg \in [engine : Engines, wave : Nat]
        /\ Tail(to_coordinator[c]) \in Seq([engine : Engines, wave : Nat])
    BY <1>1, QueueStep DEF WaveInv, new_request
  <2>2. to_coordinator' \in [Clients -> Seq([engine : Engines, wave : Nat])]
    BY <1>1, <2>1 DEF WaveInv, new_request
  <2>3. excluded(msg) \in Engines \union {NoEngine}
    BY <2>1 DEF excluded
  <2>4. UNCHANGED <<wave, clientVars, engineVars, input, output>>
    BY <1>1 DEF new_request
  <2>5. UNCHANGED OutputMessages
    BY <2>4 DEF OutputMessages, engineVars
  <2>6. CASE running
    <3>1. UNCHANGED <<running, to_engines, to_clients>>
      BY <1>1, <2>6 DEF new_request
    <3> QED
      BY <2>2, <2>4, <2>5, <3>1 DEF WaveInv, clientVars, engineVars
  <2>7. CASE ~running
    <3>1. running' = TRUE /\ send_start_wave(wave, excluded(msg)) /\ publish(wave, TRUE)
      BY <1>1, <2>7 DEF new_request
    <3>2. wave \in Nat /\ wave <= wave
      BY DEF WaveInv
    <3> HIDE DEF msg
    <3>3. /\ to_clients' \in [Clients -> Seq([wave : 0 .. wave, running : BOOLEAN])]
          /\ to_engines' \in
               [Engines -> Seq([wave : 0 .. wave, exclude : Engines \union {NoEngine}])]
      BY <2>3, <3>1, <3>2, Announce
    <3> QED
      BY <2>2, <2>4, <2>5, <3>1, <3>3 DEF WaveInv, clientVars, engineVars
  <2> QED
    BY <2>6, <2>7
<1>2. ASSUME NEW e \in Engines, engine_output(e) PROVE WaveInv'
  <2> DEFINE msg == Head(output[e])
  <2>1. msg \in OutputMessages /\ Tail(output[e]) \in Seq(OutputMessages)
    BY <1>2, QueueStep DEF WaveInv, engine_output
  <2>2. output' \in [Engines -> Seq(OutputMessages)]
    BY <1>2, <2>1 DEF WaveInv, engine_output
  <2>3. UNCHANGED <<clientVars, engineVars, input, to_coordinator>>
    BY <1>2 DEF engine_output
  <2>4. UNCHANGED OutputMessages
    BY <2>3 DEF OutputMessages, engineVars
  <2>5. msg.wave \in Nat /\ msg.wave <= current_wave[0]
        /\ (msg.kind = "wave_complete" => msg.wave + 1 <= current_wave[0])
    <3>1. current_wave[0] \in Nat
      BY EngineZero DEF WaveInv
    <3> QED
      BY <2>1, <3>1 DEF OutputMessages
  <2>6. CASE msg.kind = "wave_complete" /\ wave <= msg.wave
    <3>1. wave' = msg.wave + 1 /\ running' = FALSE /\ publish(msg.wave + 1, FALSE)
          /\ UNCHANGED to_engines
      BY <1>2, <2>6 DEF engine_output
    <3> HIDE DEF msg
    <3>2. wave' \in Nat /\ wave <= wave' /\ wave' <= current_wave[0]
      BY <2>5, <2>6, <3>1 DEF WaveInv
    <3>3. to_clients' \in [Clients -> Seq([wave : 0 .. wave', running : BOOLEAN])]
      BY <3>1, <3>2, Announce
    <3>4. to_engines' \in
            [Engines -> Seq([wave : 0 .. wave', exclude : Engines \union {NoEngine}])]
      <4> DEFINE X == Engines \union {NoEngine}
      <4>1. to_engines \in [Engines -> Seq([wave : 0 .. wave, exclude : X])]
        BY DEF WaveInv
      <4> HIDE DEF X
      <4>2. [wave : 0 .. wave, exclude : X] \subseteq [wave : 0 .. wave', exclude : X]
        BY <3>2 DEF WaveInv
      <4>3. ASSUME NEW d \in Engines
            PROVE  to_engines[d] \in Seq([wave : 0 .. wave', exclude : X])
        <5>1. to_engines[d] \in Seq([wave : 0 .. wave, exclude : X])
          BY <4>1
        <5> QED
          BY <4>2, <5>1, SeqWider
      <4> QED
        BY <3>1, <4>1, <4>3 DEF X
    <3> QED
      BY <2>2, <2>3, <2>4, <3>1, <3>2, <3>3, <3>4, WaveGrows
      DEF WaveInv, clientVars, engineVars
  <2>7. CASE /\ ~(msg.kind = "wave_complete" /\ wave <= msg.wave)
             /\ msg.kind = "start_wave"
             /\ msg.wave > wave \/ (msg.wave = wave /\ ~running)
    <3>1. wave' = msg.wave /\ running' = TRUE /\ send_start_wave(msg.wave, e)
          /\ publish(msg.wave, TRUE)
      BY <1>2, <2>7 DEF engine_output
    <3> HIDE DEF msg
    <3>2. wave' \in Nat /\ wave <= wave' /\ wave' <= current_wave[0]
      BY <2>5, <2>7, <3>1 DEF WaveInv
    <3>3. /\ to_clients' \in [Clients -> Seq([wave : 0 .. wave', running : BOOLEAN])]
          /\ to_engines' \in
               [Engines -> Seq([wave : 0 .. wave', exclude : Engines \union {NoEngine}])]
      BY <3>1, <3>2, Announce
    <3> QED
      BY <2>2, <2>3, <2>4, <3>1, <3>2, <3>3, WaveGrows
      DEF WaveInv, clientVars, engineVars
  <2>8. CASE /\ ~(msg.kind = "wave_complete" /\ wave <= msg.wave)
             /\ ~(msg.kind = "start_wave" /\ (msg.wave > wave \/ (msg.wave = wave /\ ~running)))
    <3>1. UNCHANGED <<wave, running, to_engines, to_clients>>
      BY <1>2, <2>8 DEF engine_output
    <3> QED
      BY <2>2, <2>3, <2>4, <3>1 DEF WaveInv, clientVars, engineVars
  <2> QED
    BY <2>6, <2>7, <2>8
<1>3. ASSUME publish_stats PROVE WaveInv'
  <2>1. publish(wave, running)
        /\ UNCHANGED <<clientVars, coordinatorVars, engineVars, input, output,
                       to_coordinator, to_engines>>
    BY <1>3 DEF publish_stats
  <2>2. wave \in Nat /\ wave <= wave /\ running \in BOOLEAN
    BY DEF WaveInv
  <2>3. to_clients' \in [Clients -> Seq([wave : 0 .. wave, running : BOOLEAN])]
    BY <2>1, <2>2, Announce
  <2>4. UNCHANGED OutputMessages
    BY <2>1 DEF OutputMessages, engineVars
  <2> QED
    BY <2>1, <2>3, <2>4 DEF WaveInv, clientVars, coordinatorVars, engineVars
<1> QED
  BY <1>1, <1>2, <1>3 DEF CoordinatorStep

\* Requests and START_DP_WAVE messages never hold a wave the engine is not in:
\* handling one leaves the engine's wave alone.
LEMMA EngineInputKeepsInv ==
    ASSUME WaveInv, NEW e \in Engines, EngineInput(e)
    PROVE  WaveInv'
<1>0. /\ wave \in Nat /\ current_wave[e] \in Nat /\ wave <= current_wave[e]
      /\ current_wave[e] = current_wave[0]
  BY EngineZero DEF WaveInv
<1>1. ASSUME NEW c \in Clients, add_request(c, e) PROVE WaveInv'
  <2> DEFINE S == [req : Requests, wave : 0 .. wave]
             msg == Head(input[c][e])
             start == [kind |-> "start_wave", wave |-> current_wave[e]]
  <2>1. input[c][e] \in Seq(S)
    BY DEF WaveInv
  <2>2. msg \in S /\ Tail(input[c][e]) \in Seq(S)
    BY <1>1, <2>1, QueueStep DEF add_request
  <2>3. input' \in [Clients -> [Engines -> Seq(S)]]
    BY <1>1, <2>2 DEF WaveInv, add_request
  <2>4. ~(msg.wave > current_wave[e])
    BY <1>0, <2>2
  <2>5. UNCHANGED current_wave
    BY <1>1, <2>4 DEF add_request
  <2>6. UNCHANGED OutputMessages
    BY <2>5 DEF OutputMessages
  <2>7. start \in OutputMessages
    BY <1>0 DEF OutputMessages
  <2>8. output[e] \in Seq(OutputMessages)
    BY DEF WaveInv
  <2>9. Append(output[e], start) \in Seq(OutputMessages)
    BY <2>7, <2>8, QueueStep
  <2>10. output' = output \/ output' = [output EXCEPT ![e] = Append(@, start)]
    BY <1>1 DEF add_request
  <2>11. output' \in [Engines -> Seq(OutputMessages)]
    BY <2>9, <2>10 DEF WaveInv
  <2>12. UNCHANGED <<clientVars, coordinatorVars, to_coordinator, to_clients, to_engines>>
    BY <1>1 DEF add_request
  <2> QED
    BY <2>3, <2>5, <2>6, <2>11, <2>12 DEF WaveInv, clientVars, coordinatorVars
<1>2. ASSUME start_dp_wave(e) PROVE WaveInv'
  <2> DEFINE S == [wave : 0 .. wave, exclude : Engines \union {NoEngine}]
             msg == Head(to_engines[e])
  <2>1. to_engines[e] \in Seq(S)
    BY DEF WaveInv
  <2>2. msg \in S /\ Tail(to_engines[e]) \in Seq(S)
    BY <1>2, <2>1, QueueStep DEF start_dp_wave
  <2>3. to_engines' \in [Engines -> Seq(S)]
    BY <1>2, <2>2 DEF WaveInv, start_dp_wave
  <2>4. wakes(msg, e) => msg.wave = current_wave[e]
    BY <1>0, <2>2 DEF wakes
  <2>5. UNCHANGED current_wave
    BY <1>2, <2>4 DEF WaveInv, start_dp_wave
  <2>6. UNCHANGED OutputMessages
    BY <2>5 DEF OutputMessages
  <2>7. UNCHANGED <<clientVars, coordinatorVars, input, output, to_coordinator, to_clients>>
    BY <1>2 DEF start_dp_wave
  <2> QED
    BY <2>3, <2>5, <2>6, <2>7 DEF WaveInv, clientVars, coordinatorVars
<1> QED
  BY <1>1, <1>2 DEF EngineInput

\* The engines leave a wave together, and only then is its end reported.
LEMMA AllReduceKeepsInv ==
    ASSUME WaveInv, all_reduce
    PROVE  WaveInv'
<1>0. /\ UNCHANGED <<clientVars, coordinatorVars, input, to_coordinator, to_clients, to_engines>>
      /\ current_wave[0] \in Nat
  BY EngineZero DEF WaveInv, all_reduce
<1>1. CASE \E e \in Engines : unfinished[e] # {}
  <2>1. UNCHANGED <<current_wave, output>>
    BY <1>1 DEF all_reduce
  <2>2. UNCHANGED OutputMessages
    BY <2>1 DEF OutputMessages
  <2> QED
    BY <1>0, <2>1, <2>2 DEF WaveInv, clientVars, coordinatorVars
<1>2. CASE ~ \E e \in Engines : unfinished[e] # {}
  <2> DEFINE complete == [kind |-> "wave_complete", wave |-> current_wave[0]]
  <2>1. /\ output' = [output EXCEPT ![0] = Append(@, complete)]
        /\ current_wave' = [e \in Engines |-> current_wave[e] + 1]
    BY <1>2 DEF all_reduce
  <2>2. /\ current_wave' \in [Engines -> Nat]
        /\ current_wave'[0] = current_wave[0] + 1
        /\ \A e \in Engines : current_wave'[e] = current_wave'[0]
    BY <2>1, EngineZero DEF WaveInv
  <2>3. OutputMessages \subseteq OutputMessages'
    BY <1>0, <2>2 DEF OutputMessages
  <2>4. complete \in OutputMessages'
    BY <1>0, <2>2 DEF OutputMessages
  <2>5. ASSUME NEW e \in Engines
        PROVE  output[e] \in Seq(OutputMessages')
    <3>1. output[e] \in Seq(OutputMessages)
      BY DEF WaveInv
    <3> QED
      BY <2>3, <3>1, SeqWider
  <2>6. Append(output[0], complete) \in Seq(OutputMessages')
    BY <2>4, <2>5, QueueStep, EngineZero
  <2>7. output' \in [Engines -> Seq(OutputMessages')]
    BY <2>1, <2>5, <2>6 DEF WaveInv
  <2>8. wave <= current_wave'[0]
    BY <1>0, <2>2 DEF WaveInv
  <2> QED
    BY <1>0, <2>2, <2>7, <2>8 DEF WaveInv, clientVars, coordinatorVars
<1> QED
  BY <1>1, <1>2

\* The other steps touch no wave number and no message.
LEMMA WaveInvStep == WaveInv /\ [Next]_vars => WaveInv'
<1> SUFFICES ASSUME WaveInv, [Next]_vars PROVE WaveInv'
  OBVIOUS
<1> DEFINE Quiet == UNCHANGED <<clientVars, coordinatorVars, current_wave, input, output,
                                to_coordinator, to_clients, to_engines>>
<1>1. ASSUME Quiet PROVE WaveInv'
  <2>1. UNCHANGED OutputMessages
    BY <1>1 DEF OutputMessages
  <2> QED
    BY <1>1, <2>1 DEF WaveInv, clientVars, coordinatorVars
<1>2. (\E e \in Engines : begin_step(e)) => Quiet
  BY DEF begin_step
<1>3. (\E e \in Engines, r \in Requests : abort_request(e, r)) => Quiet
  BY DEF abort_request
<1>4. forward => Quiet
  BY DEF forward
<1>5. UNCHANGED vars => Quiet
  BY DEF vars, engineVars
<1> HIDE DEF Quiet
<1> QED
  BY <1>1, <1>2, <1>3, <1>4, <1>5, ClientKeepsInv, CoordinatorKeepsInv, EngineInputKeepsInv,
     AllReduceKeepsInv DEF Next

-----------------------------------------------------------------------------
\* For any number of engines, front ends and requests, however late messages
\* come, wave numbers are ordered: a front end never knows a later wave than the
\* coordinator, nor the coordinator than the engines, which agree.  (The code
\* tells stale messages from current ones by comparing their waves.)
THEOREM WaveNumbersOrdered == Spec => []WavesOrdered
<1>1. WaveInv => WavesOrdered
  BY EngineZero DEF WaveInv, WavesOrdered
<1> QED
  BY <1>1, WaveInitInv, WaveInvStep, PTL DEF Spec
=============================================================================
