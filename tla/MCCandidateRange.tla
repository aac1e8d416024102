--------------------------- MODULE MCCandidateRange ---------------------------
(* Small instances of CandidateRange for TLC: the logs and errors that lead *)
(* to every branch, and cursors of all versions to begin with.              *)
EXTENDS CandidateRange

Trial(opened, ordered) == [opened |-> opened, ordered |-> ordered, dteInRange |-> TRUE]
SomeLogs == {<<Trial(AsOf, AsOf)>>, <<Trial(AsOf + 1, AsOf)>>}

Snapshot(at) == [at |-> at, known |-> {"price", "effect", "delta"}]
SomeSimulations == {<<Snapshot(AsOf - 1), Snapshot(AsOf)>>}

ServerError == [PlainError EXCEPT !.status = 500, !.retryable = TRUE]
CacheIO     == [PlainError EXCEPT !.cache = TRUE]
Caused429   == [CacheIO EXCEPT !.retryable = TRUE,
                               !.cause = [PlainError EXCEPT !.code = "PROVIDER_RATE_LIMIT"]]
SomeProviderErrors == {ServerError}
SomeCandleErrors   == {Caused429}

Symmetry == Permutations(Workers)

Tables == <<2, 4>>
Halves == {50, 100}

\* A queue of retries longer than a call, and the oldest form of a cursor.
OldCursor == [version |-> 2, completed |-> <<>>, unattempted |-> <<>>,
              deferred |-> <<2, 3, 1>>]
OlderCursor == [version |-> 1, completed |-> 2 :> "PARTIAL", unattempted |-> <<1, 3>>,
                deferred |-> <<>>]
SomeCursors == {None, OldCursor, OlderCursor}

=============================================================================
