---------------------------- MODULE MCRateCache ----------------------------
(* Two coroutines in get_rate.                                             *)
EXTENDS RateCache

CONSTANTS c1, c2
=============================================================================
