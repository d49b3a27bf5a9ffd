----------------------------- MODULE MCBapiLuw -----------------------------
(* BapiLuw with two plain callers and one that creates a business partner, *)
(* one retry per call and a breaker that opens at the second failure.      *)
EXTENDS BapiLuw
=============================================================================
