--------------------------- MODULE MCEncoderCache ---------------------------
(* A small instance of the encoder cache for TLC. *)
EXTENDS EncoderCache

CONSTANTS r1, r2, r3, A, B, C

Item(h, o) == [hash |-> h, offset |-> o]

\* Three requests over three items, which do not all fit into the cache.
ThreeRequests == {r1, r2, r3}
ThreePrompts == (r1 :> 5) @@ (r2 :> 4) @@ (r3 :> 5)
ThreeFeatures == (r1 :> <<Item(A, 0), Item(B, 3)>>)
              @@ (r2 :> <<Item(B, 0), Item(A, 1)>>)
              @@ (r3 :> <<Item(C, 1), Item(A, 3)>>)
ThreeItems == (A :> 2) @@ (B :> 1) @@ (C :> 2)
=============================================================================
