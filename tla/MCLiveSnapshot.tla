---------------------------- MODULE MCLiveSnapshot ----------------------------
(* A small instance of LiveSnapshot for TLC: three batches for two workers, *)
(* where the subscriptions of one symbol are spread over two batches.      *)
EXTENDS LiveSnapshot

Sub(symbol, type) == [symbol |-> symbol, type |-> type]

MCBatches == <<{Sub("x", "Quote")}, {Sub("x", "Greeks")}, {Sub("y", "Quote"), Sub("z", "Quote")}>>
MCGreeksFlags == {None, {}, {"BEGIN"}, {"END"}, {"TX", "REMOVE"}}

=============================================================================
