---------------------------- MODULE MCRateLimit -----------------------------
(* Small instances of RateLimit for TLC.                                   *)
EXTENDS RateLimit
=============================================================================
