------------------------- MODULE MCNumberLifecycle --------------------------
(* TLC instance of NumberLifecycle: the sets and the bound are in the cfg.    *)
EXTENDS NumberLifecycle, TLC
CONSTANTS n1, n2, sweep, purge, s1, p1
=============================================================================
