------------------------ MODULE MCRateLimiterHistory ------------------------
(* Small instances of RateLimiterHistory for TLC.                            *)
EXTENDS RateLimiterHistory, TLC

Symmetry == Permutations(Requests)
==============================================================================
