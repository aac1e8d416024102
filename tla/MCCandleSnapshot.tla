-------------------------- MODULE MCCandleSnapshot --------------------------
(* Small instances of CandleSnapshot for TLC.                              *)
EXTENDS CandleSnapshot

CONSTANTS ra, rb, rc, rd

\* Two rows of one time with different sizes, a row of another time, and a row
\* outside the request.
MCTimeOf == [r \in Rows |-> IF r \in {ra, rb} THEN 1 ELSE 2]
MCSizeOf == [r \in Rows |-> IF r = rb THEN 3 ELSE 2]
MCWanted == Rows \ {rd}

\* Every flag, SNIP within a transaction.
AllFlags ==
  {{}, {"TX_PENDING"}, {"REMOVE"}, {"BEGIN"}, {"END"}, {"TX_PENDING", "SNIP"}}

\* Without the flags that remove rows.
PlainFlags == {{}, {"TX_PENDING"}, {"END"}, {"TX_PENDING", "SNIP"}}

=============================================================================
