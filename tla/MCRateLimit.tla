----------------------------- MODULE MCRateLimit -----------------------------
(* Model-checking instance of RateLimit: the configuration gives every constant. *)
EXTENDS RateLimit
==============================================================================
