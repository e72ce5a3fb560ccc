--------------------------- MODULE MCDPWavesCalm ---------------------------
(* The data-parallel waves with a history variable: whether neither of the   *)
(* two races that leave an engine behind (README) has happened.               *)
EXTENDS MCDPWaves

VARIABLE calm

\* A request is taken from a paused engine that the others were told to start with.
AbortedPaused ==
    \E e \in Engines : /\ pc[e] = "input" /\ ~engines_running[e]
                       /\ unfinished[e] \ unfinished'[e] # {}

\* A FIRST_REQ is overtaken by the news of a wave later than its request's.
WaveOvertakes ==
    \E c \in Clients : first_req[c] # <<>> /\ c_wave'[c] # c_wave[c]

CalmInit == Init /\ calm = TRUE
CalmNext == Next /\ calm' = (calm /\ ~AbortedPaused /\ ~WaveOvertakes)
CalmSpec == CalmInit /\ [][CalmNext]_<<vars, calm>> /\ Fairness

\* As long as neither race happens, whatever else is late: the engines always come
\* back to a state in which all of them are paused, none waits for another in a
\* collective, and no request that was sent is left, in a scheduler or on the way.
RequestsAndWavesEnd ==
    []<>(~calm \/ \A e \in Engines :
            /\ pc[e] = "input" /\ ~engines_running[e]
            /\ unfinished[e] = {}
            /\ \A c \in Clients : input[c][e] = <<>>)
=============================================================================
