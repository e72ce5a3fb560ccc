--------------------------- MODULE MCAsyncEngine ---------------------------
(* Small instances of the engine with a batch queue for TLC. *)
EXTENDS AsyncEngine

CONSTANTS r1, r2

TwoRequests == {r1, r2}
TwoPrompts == (r1 :> 3) @@ (r2 :> 2)
TwoMaxTokens == (r1 :> 3) @@ (r2 :> 2)

OneRequest == {r1}
OnePrompt == r1 :> 3
OneMaxTokens == r1 :> 3

\* Resets that find an output without drafts in flight for each running request.
WellReset == misreset = {}
=============================================================================
