---------------------------- MODULE MCRateLimiter ----------------------------
(* Four calls of one host, one of a client without an address.             *)
EXTENDS RateLimiter, TLC

CONSTANTS c1, c2, c3, c4, c5, host, none

MCHostOf == [c \in Calls |-> IF c = c5 THEN none ELSE host]

\* The calls of the host are interchangeable.
MCSymmetry == Permutations({c1, c2, c3, c4})

=============================================================================
