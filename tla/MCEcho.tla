------------------------------- MODULE MCEcho -------------------------------
(* Small instances of ECHO pruning for TLC. *)
EXTENDS Echo

CONSTANTS r1, r2, r3

TwoRequests == {r1, r2}
TwoPrompts == (r1 :> 1) @@ (r2 :> 2)
TwoMaxTokens == (r1 :> 3) @@ (r2 :> 2)

ThreeRequests == {r1, r2, r3}
ThreePrompts == (r1 :> 1) @@ (r2 :> 3) @@ (r3 :> 1)
ThreeMaxTokens == (r1 :> 3) @@ (r2 :> 3) @@ (r3 :> 3)
=============================================================================
