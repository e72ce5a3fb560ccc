----------------------------- MODULE MCDPWaves -----------------------------
(* Small instances of the data-parallel waves for TLC. *)
EXTENDS DPWaves, TLC

CONSTANTS c1, c2, r1, r2

\* One request outlives the all-reduce it may come just before, one does not.
LongAndShort == (r1 :> 2) @@ (r2 :> 1)
=============================================================================
