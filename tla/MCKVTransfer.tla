---------------------------- MODULE MCKVTransfer ----------------------------
(* Three requests over blocks of two tokens that begin with the same block.  *)
(* r1 and r3 load their prefix beside the engine, r2 inside the step; r3     *)
(* waits for a grammar first.  r1 needs a third block for its last token.    *)
EXTENDS KVTransfer, TLC

CONSTANTS r1, r2, r3

ThreeRequests == {r1, r2, r3}
ThreeStreams ==
    (r1 :> <<"a", "b", "c", "d", "x", "y">>) @@ (r2 :> <<"a", "b", "e", "z", "w", "z">>)
      @@ (r3 :> <<"a", "b", "c", "u", "v", "u">>)
ThreePrompts == (r1 :> 4) @@ (r2 :> 3) @@ (r3 :> 3)
ThreeMaxTokens == (r1 :> 2) @@ (r2 :> 2) @@ (r3 :> 1)
AsyncAndSync == (r1 :> "async") @@ (r2 :> "sync") @@ (r3 :> "async")
RemotePrefix == (r1 :> 4) @@ (r2 :> 2) @@ (r3 :> 2)

VARIABLES
    bad,        \* history: blocks a load inside a step failed for, until computed
    confined    \* history: while in the prefix cache, each was its request's alone

failed_now ==
    IF phase = "scheduled" /\ phase' = "sampled"
    THEN {x[3] : x \in sync_loads} \intersect output'.invalid ELSE {}

MCInit == Init /\ bad = {} /\ confined = TRUE
MCNext ==
    /\ Next
    /\ bad' = {b \in bad \union failed_now : written'[b][0] = Junk}
    /\ confined' = (confined /\ \A b \in bad' :
                       kv'.block_hash[b] = NoHash \/ kv'.ref_cnt[b] = 1)
MCSpec == MCInit /\ [][MCNext]_<<vars, bad, confined>> /\ Fairness

-----------------------------------------------------------------------------
(* Properties *)

\* OutputsFromValidKV, for loads beside the engine and inside a step, unless a
\* block that a load inside a step failed for reached another request: such a
\* block is in the prefix cache before it is loaded (_handle_invalid_blocks).
OutputsFromValidKVIfConfined == confined => OutputsFromValidKV
=============================================================================
