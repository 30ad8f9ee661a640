---------------------------- MODULE MCRateLimiter ----------------------------
(* Small instances of RateLimiter for TLC. *)
EXTENDS RateLimiter, TLC

CONSTANTS ip1, ip2

Symmetry == Permutations({ip1, ip2} \cap IPs)
=============================================================================
