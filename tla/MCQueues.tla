------------------------------ MODULE MCQueues ------------------------------
(***************************************************************************)
(* The two hand-written queues for TLC, one per behaviour: the linked list *)
(* of four free blocks (every order of the blocks, every split of the list *)
(* by popleft_n and every list append_n can be given), and the message     *)
(* queue in shared memory with two readers and two chunks (with four       *)
(* messages the ring goes round twice).                                    *)
(***************************************************************************)
EXTENDS MessageQueue, FreeBlockQueue

VARIABLE which

QueuesInit == Init /\ MqInit /\ which \in {"free blocks", "messages"}
QueuesNext ==
    \/ which = "free blocks" /\ Next /\ UNCHANGED <<mqVars, which>>
    \/ which = "messages" /\ MqNext /\ UNCHANGED <<vars, which>>
QueuesSpec ==
    /\ QueuesInit /\ [][QueuesNext]_<<vars, mqVars, which>>
    /\ which = "messages" => MqFairness
=============================================================================
