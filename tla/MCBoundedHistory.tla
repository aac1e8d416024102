--------------------------- MODULE MCBoundedHistory ---------------------------
(* A small instance of BoundedHistory for TLC: a range of two shards, two  *)
(* symbols, and budgets, pages and time for a little less than all.        *)
EXTENDS BoundedHistory, TLC

Symmetry == Permutations(Symbols) \cup Permutations(Cursors)

=============================================================================
