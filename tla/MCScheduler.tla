---------------------------- MODULE MCScheduler ----------------------------
(***************************************************************************)
(* A small instance of the synchronous scheduler for TLC, in three          *)
(* configurations: FCFS as the configuration file says, FCFS with eagle and *)
(* whole prompts reserved, and the priority policy; the last two with a     *)
(* long-prefill threshold and without resets.                               *)
(***************************************************************************)
EXTENDS Scheduler

CONSTANTS r1, r2, r3

\* Three requests with the same first block.  r1 and r2 part inside the
\* second one; r3 begins with the second block of r1 too.  r1 may grow to
\* MaxModelLen.
ThreeRequests == {r1, r2, r3}
ThreeTokens == (r1 :> <<"a", "a", "b", "c", "d", "e", "i">>)
               @@ (r2 :> <<"a", "a", "b", "f", "g", "h", "j">>)
               @@ (r3 :> <<"a", "a", "b", "c", "k", "k", "k">>)
ThreePrompts == (r1 :> 3) @@ (r2 :> 4) @@ (r3 :> 5)
ThreeMaxTokens == (r1 :> 4) @@ (r2 :> 2) @@ (r3 :> 1)
ThreeRanks == (r1 :> 3) @@ (r2 :> 1) @@ (r3 :> 2)

VARIABLES
    config,     \* the configuration, chosen at start-up
    clean       \* history: no request has been preempted out of a batch

Eagle == INSTANCE Scheduler WITH
    UseEagle <- TRUE, LongPrefill <- 2, ReserveFullIsl <- TRUE, MaxResets <- 0
Priority == INSTANCE Scheduler WITH
    Policy <- "priority", LongPrefill <- 2, MaxResets <- 0

PreemptedFromBatch ==
    \E r \in ScheduledReqs : status[r] = "RUNNING" /\ status'[r] = "PREEMPTED"

MCInit == Init /\ config \in {"fcfs", "eagle", "priority"} /\ clean = TRUE
MCNext ==
    /\ \/ config = "fcfs" /\ Next
       \/ config = "eagle" /\ Eagle!Next
       \/ config = "priority" /\ Priority!Next
    /\ config' = config
    /\ clean' = (clean /\ ~PreemptedFromBatch)
MCSpec == MCInit /\ [][MCNext]_<<vars, config, clean>> /\ BusyLoop

-----------------------------------------------------------------------------
(* Properties *)

\* ComputedIsWritten, in every configuration, until a request is preempted out of
\* the batch it was put in: allocate_slots has cached the blocks it was to fill.
ComputedIsWrittenIfClean == clean => ComputedIsWritten

\* CachedIsComputed, in every configuration, until a request is preempted out of
\* the batch it was put in.
CachedIsComputedIfClean == clean => CachedIsComputed

\* FcfsOrder, of the scheduler under FCFS.
FcfsKeepsOrder == config # "priority" => FcfsOrder
=============================================================================
