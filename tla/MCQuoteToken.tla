----------------------------- MODULE MCQuoteToken -----------------------------
(* Small instances of QuoteToken for TLC.                                  *)
EXTENDS QuoteToken, TLC

RequestSymmetry == Permutations(Requests)

=============================================================================
