--------------------------- MODULE BroadcastQueue ---------------------------
(***************************************************************************)
(* What the shared-memory ring buffer of shm_broadcast.py promises its     *)
(* users: one writer, every message delivered to every reader exactly once *)
(* and in order, and never more than `Capacity' messages that some reader  *)
(* has not taken yet.  Messages are identified by their number, so the     *)
(* queue is the numbers taken[r] + 1 .. sent.                              *)
(***************************************************************************)
EXTENDS Naturals

CONSTANTS Readers,    \* the local readers
          Capacity    \* chunks of the buffer

VARIABLES sent,       \* messages published so far
          taken       \* messages each reader has finished reading

queueVars == <<sent, taken>>

QueueInit ==
    /\ sent = 0
    /\ taken = [r \in Readers |-> 0]

Put ==
    /\ \A r \in Readers : sent - taken[r] < Capacity
    /\ sent' = sent + 1
    /\ UNCHANGED taken

Take(r) ==
    /\ taken[r] < sent
    /\ taken' = [taken EXCEPT ![r] = @ + 1]
    /\ UNCHANGED sent

QueueNext == Put \/ \E r \in Readers : Take(r)

QueueSpec == QueueInit /\ [][QueueNext]_queueVars

=============================================================================
