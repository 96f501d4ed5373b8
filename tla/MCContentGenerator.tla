------------------------- MODULE MCContentGenerator -------------------------
(* Model-checking instance of ContentGenerator. *)
EXTENDS ContentGenerator

MCChain == <<"gateway", "verifier">>
=============================================================================
