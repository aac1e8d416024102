--------------------------- MODULE CandleSnapshot ---------------------------
(***************************************************************************)
(* One DXLink candle snapshot of a batch of symbols: readSnapshot of       *)
(* TastytradeHistoricalCandlesClient (historical-candles.ts) and the one   *)
(* authenticated reconnect that getHistoricalCandlesBatch allows around it *)
(* (withDxlinkAuthRecovery).                                               *)
(*                                                                         *)
(* Wire messages are charged to the buffer when they arrive and processed  *)
(* one by one later; JavaScript runs to completion, so that no timer and   *)
(* no socket callback interrupts a message (busy) or a transaction (todo)  *)
(* once its processing has begun.  What a message says is chosen when it   *)
(* is processed.  The deadline may expire at any time.                     *)
(*                                                                         *)
(* A symbol is received under one raw and one canonical name, which are    *)
(* charged together.  daily is calendarDailyRequest: the state of a failed *)
(* attempt is kept (preserveFailureSnapshot, retainedSnapshot).            *)
(* FitsAlone, LateDeadline, EventsOver, LiveAnyway,                        *)
(* ForgetPending, AlwaysIndex and Replaceable are faulty variants of the   *)
(* definition after them, for testing the properties.                      *)
(***************************************************************************)
EXTENDS Integers, Sequences, FiniteSets

CONSTANTS
  Symbols,          \* canonical candle symbols of the request
  Indices,          \* candle indices
  Rows,             \* candle contents
  TimeOf, SizeOf,   \* row -> timestamp, row -> accounted bytes
  Wanted,           \* rows inside the requested range and session
  NoRow,            \* an event without a valid candle, an index without a row
  FlagSets,         \* the flag combinations events carry
  None,             \* null
  DailyRequests,    \* the kinds of request, values of calendarDailyRequest
  IndexBytes, NameBytes, EventBytes, MessageBytes,
  MaxBuffer, MaxEvents, MaxRows,     \* the budgets
  MaxQueued         \* bound: messages queued at once

Flags == {"TX_PENDING", "REMOVE", "BEGIN", "END", "SNIP"}

ASSUME FiniteAssumption == IsFiniteSet(Symbols) /\ IsFiniteSet(Indices)
ASSUME RowAssumption ==
  /\ TimeOf \in [Rows -> Nat] /\ SizeOf \in [Rows -> Nat]
  /\ Wanted \subseteq Rows /\ NoRow \notin Rows
ASSUME FlagAssumption == FlagSets \subseteq SUBSET Flags
ASSUME DailyAssumption == DailyRequests \subseteq BOOLEAN
ASSUME SizeAssumption ==
  /\ IndexBytes \in Nat /\ NameBytes \in Nat /\ EventBytes \in Nat
  /\ MessageBytes \in Nat /\ MaxBuffer \in Nat /\ MaxEvents \in Nat
  /\ MaxRows \in Nat /\ MaxQueued \in Nat

\* parseDxlinkCandleData, the events of the requested symbols: an event that
\* removes carries no candle, and one whose flags do not parse carries nothing.
Events ==
  {e \in [sym : Symbols, index : Indices,
          row : Rows \cup {NoRow}, flags : FlagSets \cup {None}] :
     /\ e.flags = None => e.row = NoRow
     /\ e.flags # None /\ "REMOVE" \in e.flags => e.row = NoRow}

Has(e, flag) == e.flags # None /\ flag \in e.flags

Times == {TimeOf[r] : r \in Rows}

VARIABLES
  daily,         \* calendarDailyRequest
  attempt,       \* 1, or 2 after the reconnect
  stage,         \* of the handshake
  authSent, authConfirmed,
  queued,        \* messages charged and not processed yet
  busy,          \* a FEED_DATA message is being processed
  todo,          \* what is left of the transaction being applied
  active,        \* activeSymbols
  data,          \* per symbol: rows, seen indices and their accounting
  kept,          \* protectedData: data when the reconnect began
  pending,       \* pendingTransactionEvents
  complete, snipped, local,   \* providerComplete, providerSnipped,
                              \* localFailureReason
  heard,         \* per symbol: names and session dates kept for diagnostics
  unmatched,     \* was an unmatched name kept?
  events, bytes, \* requestCounters.received_events, retained_bytes
  outcome,       \* how the attempt settled, None while it runs
  stranded,      \* history: bytes of transactions a reconnect cut off
  dropped        \* history: did a wanted row find no room?

link == <<attempt, stage, authSent, authConfirmed>>
marks == <<complete, snipped, local>>
ledger == <<events, bytes>>
history == <<daily, stranded, dropped>>
vars == <<link, queued, busy, todo, active, data, kept, pending, marks, heard,
          unmatched, ledger, outcome, history>>

NoData ==
  [rows |-> [i \in Indices |-> NoRow], seen |-> {}, snap |-> 0, bytes |-> 0,
   unique |-> 0, count |-> 0]

PerSymbol(x) == [s \in Symbols |-> x]

Init ==
  /\ daily \in DailyRequests
  /\ attempt = 1
  /\ stage = "CONNECTING" /\ authSent = FALSE /\ authConfirmed = FALSE
  /\ queued = 0 /\ busy = FALSE /\ todo = <<>> /\ outcome = None
  /\ data = PerSymbol(NoData) /\ kept = PerSymbol(NoData)
  /\ pending = PerSymbol(<<>>)
  /\ complete = PerSymbol(FALSE) /\ snipped = PerSymbol(FALSE)
  /\ local = PerSymbol(None)
  /\ heard = PerSymbol({}) /\ unmatched = FALSE
  /\ events = 0 /\ bytes = 0
  /\ active = Symbols
  /\ stranded = PerSymbol(0) /\ dropped = PerSymbol(FALSE)

\* A new socket: readSnapshot is called again.
Reconnect ==
  /\ outcome = "UNAUTHORIZED" /\ attempt = 1
  /\ attempt' = 2
  /\ stage' = "CONNECTING" /\ authSent' = FALSE /\ authConfirmed' = FALSE
  /\ queued' = 0 /\ busy' = FALSE /\ todo' = <<>> /\ outcome' = None

-----------------------------------------------------------------------------
Subscribed == stage = "SNAPSHOT"
Running == outcome = None
Calm == Running /\ ~busy

Terminal(s) == complete[s] \/ snipped[s] \/ local[s] # None

Buffered == bytes + queued * MessageBytes
FitsAlone(n) == bytes + n <= MaxBuffer
Fits(n) == Buffered + n <= MaxBuffer

\* finish and fail: the first one settles the promise and unsubscribes.
Settle(how) ==
  /\ outcome' = how
  /\ active' = IF Subscribed THEN {} ELSE active

BreakOutcome ==
  IF daily \/ (Subscribed /\ authConfirmed)
  THEN "PROVIDER_TEMPORARY_FAILURE" ELSE "ERROR"

symbolVars == <<data, kept, pending, marks, heard, unmatched, ledger, history>>

Open ==
  /\ Calm /\ stage = "CONNECTING"
  /\ stage' = "AUTHENTICATING"
  /\ UNCHANGED <<attempt, authSent, authConfirmed, queued, busy, todo, active,
                 symbolVars, outcome>>

\* onmessage charges the message before anything is known of it.
Receive ==
  /\ Calm /\ stage # "CONNECTING" /\ queued < MaxQueued
  /\ IF Fits(MessageBytes)
     THEN queued' = queued + 1 /\ UNCHANGED <<active, outcome>>
     ELSE Settle("LOCAL_BUFFER_BUDGET_EXCEEDED") /\ UNCHANGED queued
  /\ UNCHANGED <<link, busy, todo, symbolVars>>

Consume == Calm /\ queued > 0 /\ queued' = queued - 1

\* The server's side of the handshake, in the server's order.
Challenge ==
  /\ Consume /\ ~authSent
  /\ authSent' = TRUE /\ stage' = "AUTHENTICATING"
  /\ UNCHANGED <<attempt, authConfirmed, busy, todo, active, symbolVars, outcome>>

Authorized ==
  /\ Consume /\ authSent /\ stage = "AUTHENTICATING"
  /\ authConfirmed' = TRUE /\ stage' = "OPENING_FEED_CHANNEL"
  /\ UNCHANGED <<attempt, authSent, busy, todo, active, symbolVars, outcome>>

ChannelOpened ==
  /\ Consume /\ stage = "OPENING_FEED_CHANNEL"
  /\ stage' = "CONFIGURING_FEED"
  /\ UNCHANGED <<attempt, authSent, authConfirmed, busy, todo, active, symbolVars,
                 outcome>>

FeedConfig ==
  /\ Consume /\ stage \in {"CONFIGURING_FEED", "SNAPSHOT"}
  /\ stage' = "SNAPSHOT"
  /\ UNCHANGED <<attempt, authSent, authConfirmed, busy, todo, active, symbolVars,
                 outcome>>

\* A second challenge or an UNAUTHORIZED error, at any time.
Unauthorized ==
  /\ Consume
  /\ Settle("UNAUTHORIZED")
  /\ authConfirmed' = IF daily THEN FALSE ELSE authConfirmed
  /\ UNCHANGED <<attempt, stage, authSent, busy, todo, symbolVars>>

\* The socket closes or errs, or a message is an ERROR or does not decode.
Break ==
  /\ Calm
  /\ Settle(BreakOutcome)
  /\ UNCHANGED <<link, queued, busy, todo, symbolVars>>

LateDeadline ==
  /\ Calm /\ Subscribed
  /\ Settle("SNAPSHOT_TIMEOUT")
  /\ UNCHANGED <<link, queued, busy, todo, symbolVars>>

Deadline ==
  /\ Calm
  /\ Settle("SNAPSHOT_TIMEOUT")
  /\ UNCHANGED <<link, queued, busy, todo, symbolVars>>

Abort ==
  /\ Calm \/ outcome = "UNAUTHORIZED"
  /\ Settle("ABORTED")
  /\ UNCHANGED <<link, queued, busy, todo, symbolVars>>

-----------------------------------------------------------------------------
(* FEED_DATA: processCandleEvent for every event of the message.           *)

BeginData ==
  /\ Calm /\ queued > 0 /\ Subscribed
  /\ busy' = TRUE
  /\ UNCHANGED <<link, queued, todo, active, symbolVars, outcome>>

Ready == busy /\ todo = <<>> /\ Running

EndData ==
  /\ busy /\ todo = <<>>
  /\ busy' = FALSE
  /\ queued' = queued - 1
  /\ IF Running /\ \A s \in Symbols : Terminal(s)
     THEN Settle("COMPLETE") ELSE UNCHANGED <<outcome, active>>
  /\ UNCHANGED <<link, todo, symbolVars>>

EventsOver == events > MaxEvents
EventsSpent == events >= MaxEvents

OverEvents ==
  /\ Ready /\ EventsSpent
  /\ events' = IF daily THEN events ELSE events + 1
  /\ Settle("LOCAL_RECEIVE_BUDGET_EXCEEDED")
  /\ UNCHANGED <<link, queued, busy, todo, data, kept, pending, marks, heard,
                 unmatched, bytes, history>>

\* An event of a symbol that was not requested.
Unknown ==
  /\ Ready /\ ~EventsSpent
  /\ events' = events + 1
  /\ IF unmatched THEN UNCHANGED <<unmatched, bytes, outcome, active>>
     ELSE IF Fits(NameBytes)
     THEN unmatched' = TRUE /\ bytes' = bytes + NameBytes /\ UNCHANGED <<outcome, active>>
     ELSE Settle("LOCAL_BUFFER_BUDGET_EXCEEDED") /\ UNCHANGED <<unmatched, bytes>>
  /\ UNCHANGED <<link, queued, busy, todo, data, kept, pending, marks, heard, history>>

\* The names an event adds to the diagnostics of its symbol, and their bytes:
\* its own name (a number beside the times) and the date of its candle.
OwnName == 0 - 1
Names(e) ==
  {OwnName} \cup (IF daily /\ e.row # NoRow THEN {TimeOf[e.row]} ELSE {})
NameCost(e) == NameBytes * Cardinality(Names(e) \ heard[e.sym])

Known == Ready /\ ~EventsSpent
Matched(e) == Known /\ Fits(NameCost(e))

\* The event is counted, its names are kept, and delta more bytes are charged.
Hear(e, delta) ==
  /\ events' = events + 1
  /\ heard' = [heard EXCEPT ![e.sym] = @ \cup Names(e)]
  /\ bytes' = bytes + NameCost(e) + delta
  /\ data' = [data EXCEPT ![e.sym].bytes = @ + NameCost(e) + delta]
  /\ UNCHANGED <<link, queued, busy, kept, unmatched, history>>

Overheard(e) ==
  /\ Known /\ ~Fits(NameCost(e))
  /\ events' = events + 1
  /\ Settle("LOCAL_BUFFER_BUDGET_EXCEEDED")
  /\ UNCHANGED <<link, queued, busy, todo, data, kept, pending, marks, heard,
                 unmatched, bytes, history>>

Done(s) == complete[s] \/ snipped[s]

Ignore(e) ==
  /\ Matched(e)
  /\ Done(e.sym) \/ (local[e.sym] = None /\ e.flags = None)
  /\ Hear(e, 0)
  /\ UNCHANGED <<todo, active, pending, marks, outcome>>

\* A symbol that failed locally still learns how its snapshot ended.
Unsubscribed(s) == active \ {s}

AfterFailure(e) ==
  /\ Matched(e) /\ ~Done(e.sym) /\ local[e.sym] # None
  /\ Hear(e, 0)
  /\ LET effective == e.flags # None /\ ~Has(e, "TX_PENDING")
     IN  /\ complete' = [complete EXCEPT ![e.sym] = @ \/ (effective /\ Has(e, "END"))]
         /\ snipped' = [snipped EXCEPT ![e.sym] = @ \/ (effective /\ Has(e, "SNIP"))]
  /\ active' = Unsubscribed(e.sym)
  /\ UNCHANGED <<todo, pending, local, outcome>>

LiveAnyway(e) == Matched(e) /\ local[e.sym] = None /\ e.flags # None
Live(e) == Matched(e) /\ ~Done(e.sym) /\ local[e.sym] = None /\ e.flags # None

\* queueTransactionEvent
Buffer(e) ==
  /\ Live(e) /\ Has(e, "TX_PENDING")
  /\ IF Fits(NameCost(e) + EventBytes)
     THEN /\ Hear(e, EventBytes)
          /\ pending' = [pending EXCEPT ![e.sym] = Append(@, e)]
          /\ UNCHANGED <<outcome, active>>
     ELSE /\ Hear(e, 0)
          /\ Settle("LOCAL_BUFFER_BUDGET_EXCEEDED")
          /\ UNCHANGED pending
  /\ UNCHANGED <<todo, marks>>

\* releasePendingTransaction: the event that clears TX_PENDING applies it all.
ForgetPending(s) == pending
Released(s) == [pending EXCEPT ![s] = <<>>]

Commit(e) ==
  /\ Live(e) /\ ~Has(e, "TX_PENDING")
  /\ Hear(e, 0 - EventBytes * Len(pending[e.sym]))
  /\ todo' = Append(pending[e.sym], e)
  /\ pending' = Released(e.sym)
  /\ UNCHANGED <<active, marks, outcome>>

-----------------------------------------------------------------------------
(* applyCandleEvents, one event of the transaction at a time.              *)

\* resetSnapshotData: back to what the reconnect found.
Reset(s) ==
  [data[s] EXCEPT !.rows = kept[s].rows, !.seen = kept[s].seen,
                  !.unique = kept[s].unique, !.count = kept[s].count,
                  !.bytes = @ - data[s].snap, !.snap = 0]

\* removeRetainedCandle
Removed(s, d, i) ==
  IF d.rows[i] = NoRow \/ kept[s].rows[i] # NoRow THEN d
  ELSE [d EXCEPT !.rows[i] = NoRow, !.count = @ - 1,
                 !.bytes = @ - SizeOf[d.rows[i]], !.snap = @ - SizeOf[d.rows[i]]]

AlwaysIndex(d, i) == IndexBytes
IndexCost(d, i) == IF i \in d.seen THEN 0 ELSE IndexBytes
RowCost(d, i, row) ==
  SizeOf[row] - (IF d.rows[i] = NoRow THEN 0 ELSE SizeOf[d.rows[i]])
LocalFailures == {"PROVIDER_SCHEMA_MISMATCH", "LOCAL_OUTPUT_BUDGET_EXCEEDED"}
Positive(n) == IF n > 0 THEN n ELSE 0

Stored(d, i, row) ==
  LET cost == IndexCost(d, i) + RowCost(d, i, row)
  IN  [d EXCEPT !.rows[i] = row, !.seen = @ \cup {i},
                !.unique = IF i \in d.seen THEN @ ELSE @ + 1,
                !.count = IF d.rows[i] = NoRow THEN @ + 1 ELSE @,
                !.bytes = @ + cost, !.snap = @ + cost]

\* A row that was committed before the reconnect is neither replaced, nor is
\* its timestamp taken by another index.  Where two committed rows share a
\* timestamp the code asks the first that it finds, the model both.
Conflict(s, i, row) ==
  \/ kept[s].rows[i] # NoRow /\ TimeOf[kept[s].rows[i]] # TimeOf[row]
  \/ \E j \in Indices \ {i} :
       kept[s].rows[j] # NoRow /\ TimeOf[kept[s].rows[j]] = TimeOf[row]

Replaceable(s, i) == TRUE
Open4Write(s, i) == kept[s].rows[i] = NoRow

\* retainCandle: what becomes of a row, given the symbol's data d.
Verdict(s, d, i, row) ==
  IF row \notin Wanted THEN "skip"
  ELSE IF Conflict(s, i, row) THEN "PROVIDER_SCHEMA_MISMATCH"
  ELSE IF ~Open4Write(s, i) THEN "skip"
  ELSE IF d.rows[i] = NoRow /\ d.count >= MaxRows THEN "LOCAL_OUTPUT_BUDGET_EXCEEDED"
  ELSE IF ~Fits(d.bytes - data[s].bytes + IndexCost(d, i) + Positive(RowCost(d, i, row)))
  THEN "LOCAL_BUFFER_BUDGET_EXCEEDED"
  ELSE "store"

\* The marks an event sets are set even if retaining its row settled the
\* attempt: settled is looked at before each event, not after it.
Apply ==
  /\ busy /\ todo # <<>> /\ Running
  /\ LET e == Head(todo)
         s == e.sym
         begun == IF Has(e, "BEGIN") THEN Reset(s) ELSE data[s]
         verdict == IF e.row = NoRow \/ local[s] # None THEN "skip"
                    ELSE Verdict(s, begun, e.index, e.row)
         ended == CASE Has(e, "REMOVE") -> Removed(s, begun, e.index)
                    [] verdict = "store" -> Stored(begun, e.index, e.row)
                    [] OTHER -> begun
         over == verdict = "LOCAL_BUFFER_BUDGET_EXCEEDED"
         failed == verdict \in LocalFailures
         Marked(mark, flag) == Has(e, flag) \/ (mark[s] /\ ~Has(e, "BEGIN"))
         end == Marked(complete, "END")
         snip == Marked(snipped, "SNIP")
         last == over \/ Tail(todo) = <<>>
     IN  /\ data' = [data EXCEPT ![s] = ended]
         /\ bytes' = bytes + ended.bytes - data[s].bytes
         /\ local' = [local EXCEPT ![s] = IF failed THEN verdict ELSE @]
         /\ complete' = [complete EXCEPT ![s] = end]
         /\ snipped' = [snipped EXCEPT ![s] = snip]
         /\ dropped' = [dropped EXCEPT ![s] = over \/ failed \/ (@ /\ ~Has(e, "BEGIN"))]
         /\ todo' = IF last THEN <<>> ELSE Tail(todo)
         /\ IF over THEN Settle(verdict)
            ELSE /\ active' = IF last /\ (end \/ snip \/ failed \/ local[s] # None)
                              THEN Unsubscribed(s) ELSE active
                 /\ UNCHANGED outcome
  /\ UNCHANGED <<link, queued, busy, kept, pending, heard, unmatched, events,
                 daily, stranded>>

-----------------------------------------------------------------------------
(* getHistoricalCandlesBatch after an authentication failure.              *)

\* The token refresh fails, was used already, or too little is left to go on.
GiveUp ==
  /\ outcome = "UNAUTHORIZED"
  /\ outcome' = "AUTH_FAILED"
  /\ UNCHANGED <<link, queued, busy, todo, active, symbolVars>>

\* A calendar-daily request resumes: uncommitted transactions are cut off, and
\* stay charged; rows that are there are protected from now on.
Resume ==
  /\ daily /\ Reconnect
  /\ events < MaxEvents /\ bytes < MaxBuffer
  /\ stranded' = [s \in Symbols |-> stranded[s] + EventBytes * Len(pending[s])]
  /\ pending' = PerSymbol(<<>>)
  /\ data' = [s \in Symbols |-> [data[s] EXCEPT !.snap = 0]]
  /\ kept' = data
  /\ active' = {s \in Symbols : ~Terminal(s)}
  /\ UNCHANGED <<daily, marks, heard, unmatched, ledger, dropped>>

\* Any other request starts over with new state.
StartOver ==
  /\ ~daily /\ Reconnect
  /\ data' = PerSymbol(NoData) /\ pending' = PerSymbol(<<>>)
  /\ complete' = PerSymbol(FALSE) /\ snipped' = PerSymbol(FALSE)
  /\ local' = PerSymbol(None)
  /\ heard' = PerSymbol({}) /\ unmatched' = FALSE
  /\ events' = 0 /\ bytes' = 0
  /\ active' = Symbols
  /\ dropped' = PerSymbol(FALSE)
  /\ UNCHANGED <<daily, kept, stranded>>

Handshake == Open \/ Challenge \/ Authorized \/ ChannelOpened \/ FeedConfig \/ Unauthorized

TakeEvent(e) ==
  Overheard(e) \/ Ignore(e) \/ AfterFailure(e) \/ Buffer(e) \/ Commit(e)

Next ==
  \/ Handshake \/ Receive \/ Break \/ Deadline \/ Abort
  \/ BeginData \/ EndData \/ Apply
  \/ OverEvents \/ Unknown \/ (\E e \in Events : TakeEvent(e))
  \/ GiveUp \/ Resume \/ StartOver

Spec == Init /\ [][Next]_vars

\* A message that is being processed is processed to its end, the token refresh
\* ends (it is raced against the deadline), and the deadline timer fires: the
\* event loop looks at due timers between messages, however many arrive.
Fairness ==
  /\ WF_vars(EndData) /\ WF_vars(Apply) /\ SF_vars(Deadline)
  /\ WF_vars(GiveUp \/ Resume \/ StartOver)

LiveSpec == Spec /\ Fairness

-----------------------------------------------------------------------------
Stages == {"CONNECTING", "AUTHENTICATING", "OPENING_FEED_CHANNEL",
           "CONFIGURING_FEED", "SNAPSHOT"}
Outcomes == {"COMPLETE", "SNAPSHOT_TIMEOUT", "LOCAL_BUFFER_BUDGET_EXCEEDED",
             "LOCAL_RECEIVE_BUDGET_EXCEEDED", "PROVIDER_TEMPORARY_FAILURE",
             "UNAUTHORIZED", "AUTH_FAILED", "ABORTED", "ERROR"}
Data ==
  [rows : [Indices -> Rows \cup {NoRow}], seen : SUBSET Indices, snap : Nat,
   bytes : Nat, unique : Nat, count : Nat]

TypeOK ==
  /\ daily \in DailyRequests
  /\ attempt \in {1, 2} /\ stage \in Stages
  /\ authSent \in BOOLEAN /\ authConfirmed \in BOOLEAN
  /\ queued \in 0..MaxQueued /\ busy \in BOOLEAN
  /\ todo \in Seq(Events)
  /\ active \subseteq Symbols
  /\ data \in [Symbols -> Data] /\ kept \in [Symbols -> Data]
  /\ pending \in [Symbols -> Seq(Events)]
  /\ complete \in [Symbols -> BOOLEAN] /\ snipped \in [Symbols -> BOOLEAN]
  /\ local \in [Symbols -> LocalFailures \cup {None}]
  /\ heard \in [Symbols -> SUBSET ({OwnName} \cup Times)]
  /\ unmatched \in BOOLEAN
  /\ events \in Nat /\ bytes \in Nat
  /\ outcome \in Outcomes \cup {None}
  /\ stranded \in [Symbols -> Nat] /\ dropped \in [Symbols -> BOOLEAN]

\* The sum of the natural numbers f[x], counted one by one.
Total(f) == Cardinality(UNION {{x} \X (1..f[x]) : x \in DOMAIN f})
RowBytes(rows) ==
  Total([i \in Indices |-> IF rows[i] = NoRow THEN 0 ELSE SizeOf[rows[i]]])

\* The byte counters say exactly what is retained: no reset, removal,
\* replacement, released transaction or reconnect leaks or forgets a byte; and
\* with the queued wire data it never exceeds max_buffer_bytes ("aggregate
\* queued wire data plus accounted retained state").  Neither do the rows of a
\* symbol exceed max_output_candles, nor the events of a calendar-daily request
\* max_received_events in both its attempts together.
LedgerExact ==
  /\ Buffered <= MaxBuffer
  /\ \A s \in Symbols : Cardinality({i \in Indices : data[s].rows[i] # NoRow}) <= MaxRows
  /\ daily => events <= MaxEvents
  /\ \A s \in Symbols :
       /\ data[s].bytes = RowBytes(data[s].rows) + IndexBytes * Cardinality(data[s].seen)
            + NameBytes * Cardinality(heard[s]) + EventBytes * Len(pending[s]) + stranded[s]
       /\ data[s].unique = Cardinality(data[s].seen)
       /\ data[s].count = Cardinality({i \in Indices : data[s].rows[i] # NoRow})
  /\ bytes = Total([s \in Symbols |-> data[s].bytes])
             + (IF unmatched THEN NameBytes ELSE 0)

\* Once its snapshot has ended a symbol keeps its rows, and no transaction is
\* applied to it any more, whatever happens to its peers, the socket, the
\* deadline or the authentication.
CompletedKept ==
  [][\A s \in Symbols :
       todo = <<>> /\ Done(s) /\ (daily \/ attempt' = attempt) =>
         /\ Done(s)' /\ data'[s].rows = data[s].rows
         /\ \A k \in DOMAIN todo' : todo'[k].sym # s]_vars

\* END and SNIP take effect only with the transaction they belong to
\* ("does not become effective until a later event clears TX_PENDING"), and rows
\* committed before the reconnect are never replaced or removed after it, "even
\* across SNAPSHOT_BEGIN and REMOVE_EVENT".
CommitsHold ==
  \A s \in Symbols :
    /\ Terminal(s) => pending[s] = <<>>
    /\ \A i \in Indices :
         kept[s].rows[i] # NoRow => data[s].rows[i] = kept[s].rows[i]

\* The request always ends.
RequestEnds == <>[](outcome \in Outcomes \ {"UNAUTHORIZED"})

\* snapshot_complete "means a provider END marker was observed without local or
\* provider truncation".
SnapshotComplete(s) == complete[s] /\ ~snipped[s] /\ local[s] = None
CompleteIsWhole ==
  \A s \in Symbols : todo = <<>> /\ SnapshotComplete(s) => ~dropped[s]

=============================================================================
