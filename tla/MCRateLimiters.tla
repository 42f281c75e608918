--------------------------- MODULE MCRateLimiters ---------------------------
(* Small instances of RateLimiters for TLC. *)
EXTENDS RateLimiters, TLC

Symmetry == Permutations(Workers)
=============================================================================
