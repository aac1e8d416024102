--------------------------- MODULE MCRateLimiter ---------------------------
(* Small instances of RateLimiter for TLC.                                 *)
EXTENDS RateLimiter, TLC

\* Two table entries, so that a third 429 in a row takes the growth branch.
MCFallbackDelaysMs == <<1, 2>>

\* Callers are interchangeable in the safety runs.
CallerSymmetry == Permutations(Callers)

=============================================================================
