--------------------------- MODULE CalendarRecovery ---------------------------
(***************************************************************************)
(* getHistoricalCandlesBatch (historical-candles.ts) for a calendar-daily  *)
(* request: one initial snapshot of all symbols, at most one short window  *)
(* per symbol that is read again for its first missing sessions, and one   *)
(* token refresh for the whole request, all on shared budgets and one      *)
(* deadline.  A snapshot (readSnapshot) is one step with any outcome that  *)
(* CandleSnapshot can end with; what it retains is counted in rows.  The   *)
(* request runs in one promise, so that only its own snapshots and the     *)
(* refresh take time.  What rejects the whole call (an abort, an error of  *)
(* another kind than authentication) leaves no result and is left out.     *)
(*                                                                         *)
(* WholeBudget, InitialTimeAnew, StillConfirmed and FromTheStart are       *)
(* faulty variants of the definition after them, for testing the           *)
(* properties.                                                             *)
(***************************************************************************)
EXTENDS Integers, FiniteSets, FiniteSetsExt

CONSTANTS
  NumSymbols,     \* symbols of the batch, in request order
  NumSessions,    \* expected sessions of a plan, in time order
  Supported,      \* symbols the calendar supports
  None,           \* null
  WindowSessions, \* sessions of a recovery window: 5 in the code
  MaxAttempts,    \* recovery attempts of a batch: 4 in the code
  MaxEvents, MaxRows, MaxBuffer,  \* the budgets
  MaxTime,        \* deadline_ms
  ReservedTime    \* what the initial snapshot leaves of it for recovery

Symbols == 1..NumSymbols
Sessions == 1..NumSessions

ASSUME NoneAssumption ==
  None \notin {"CONFIRMED", "REFRESHED", "FAILED", "NOT_CONFIRMED"}
ASSUME PlanAssumption ==
  /\ NumSymbols \in Nat /\ NumSessions \in Nat /\ Supported \subseteq Symbols
ASSUME BudgetAssumption ==
  /\ WindowSessions \in Nat \ {0} /\ MaxAttempts \in Nat
  /\ MaxEvents \in Nat /\ MaxRows \in Nat /\ MaxBuffer \in Nat
  /\ MaxTime \in Nat /\ ReservedTime \in 0..MaxTime

VARIABLES
  step,        \* "initial", "scan", "window", "refresh" or "done"
  round,       \* retryCount of withDxlinkAuthRecovery
  left,        \* deadlineRemaining
  observed,    \* per symbol: the sessions there is a row of
  mark,        \* per symbol: open, or complete, snipped or failed locally
  failure,     \* requestFailureReason of the initial snapshot
  confirmed,   \* authConfirmed
  events,      \* received_events of all snapshots
  bytes,       \* retained_bytes of all snapshots
  attempts,    \* recovery attempts so far
  at,          \* the symbol the recovery loop is at, resumeIndex
  window,      \* the window being read, interruptedWindow
  interrupted, \* was it the initial snapshot that was refused?
  failed,      \* symbols with recovery failures
  status,      \* dxlink_auth.status of the result
  windows,     \* history: per symbol, the windows it was given
  authorized   \* history: the rounds in which a snapshot was authorized

budget == <<left, events, bytes>>
recovery == <<attempts, at, window, failed, windows>>
vars == <<step, round, budget, observed, mark, failure, confirmed, recovery,
          interrupted, status, authorized>>

Init ==
  /\ step = "initial" /\ round = 0 /\ left = MaxTime
  /\ observed = [i \in Symbols |-> {}]
  /\ mark = [i \in Symbols |-> "open"]
  /\ failure = None /\ confirmed = FALSE
  /\ events = 0 /\ bytes = 0
  /\ attempts = 0 /\ at = 1 /\ window = {}
  /\ interrupted = FALSE /\ failed = {} /\ status = None
  /\ windows = [i \in Symbols |-> {}] /\ authorized = {}

Missing(i) == Sessions \ observed[i]
Open == {i \in Symbols : mark[i] = "open"}

-----------------------------------------------------------------------------
(* One snapshot of the symbols in scope, which may bring the sessions in    *)
(* wanted[i] and may spend what the budgets have left.                      *)

Failures == {"SNAPSHOT_TIMEOUT", "PROVIDER_TEMPORARY_FAILURE", "AUTH_FAILED",
             "LOCAL_BUDGET_EXCEEDED"}
Marks == {"open", "complete", "snipped", "local"}

WholeBudget(max, spent) == max
Remaining(max, spent) == max - spent

Gained(o) == Cardinality(UNION {{i} \X o.rows[i] : i \in DOMAIN o.rows})

\* A refusal comes before the channel is open, so that a refused snapshot has
\* received nothing, and it never counts as authorized.
Outcomes(scope, wanted, time) ==
  {o \in [rows : [scope -> SUBSET Sessions], marks : [scope -> Marks],
          failure : Failures \cup {None}, authorized : BOOLEAN,
          time : 0..time, events : 0..Remaining(MaxEvents, events)] :
     /\ \A i \in scope : /\ o.rows[i] \subseteq wanted[i]
                         /\ Cardinality(o.rows[i] \cup observed[i]) <= MaxRows
     /\ Gained(o) <= o.events /\ Gained(o) <= Remaining(MaxBuffer, bytes)
     /\ o.failure = None <=> \A i \in scope : o.marks[i] # "open"
     /\ o.failure = "SNAPSHOT_TIMEOUT" <=> o.time = time
     /\ o.failure = "AUTH_FAILED" => ~o.authorized
     /\ ~o.authorized => o.failure # None /\ o.events = 0}

Spend(o) ==
  /\ left' = left - o.time
  /\ events' = events + o.events
  /\ bytes' = bytes + Gained(o)
  /\ authorized' = IF o.authorized THEN authorized \cup {round} ELSE authorized

\* A refused snapshot: the first one is worth a token refresh, the second one
\* keeps what there is and ends the request.
Refused(failures, victims) ==
  IF round = 0
  THEN step' = "refresh" /\ failed' = failures /\ UNCHANGED status
  ELSE step' = "done" /\ failed' = failures \cup victims /\ status' = "FAILED"

-----------------------------------------------------------------------------
(* The initial snapshot, and its reconnect with the symbols still open.     *)

Spent == left < 1 \/ events >= MaxEvents \/ bytes >= MaxBuffer

\* Nothing is left for the reconnect: the retained snapshot is the result.
SkipReconnect ==
  /\ step = "initial" /\ interrupted /\ Spent
  /\ failed' = failed \cup Open
  /\ step' = "done" /\ status' = "NOT_CONFIRMED"
  /\ UNCHANGED <<round, budget, observed, mark, failure, confirmed, attempts, at,
                 window, windows, interrupted, authorized>>

InitialTimeAnew == MaxTime - ReservedTime
InitialTime == IF left < MaxTime - ReservedTime THEN left ELSE MaxTime - ReservedTime

ReadInitial ==
  /\ step = "initial" /\ ~(interrupted /\ Spent)
  /\ \E o \in Outcomes(Open, [i \in Open |-> Missing(i)], InitialTime) :
       /\ observed' = [i \in Symbols |-> IF i \in Open THEN observed[i] \cup o.rows[i]
                                         ELSE observed[i]]
       /\ mark' = [i \in Symbols |-> IF i \in Open THEN o.marks[i] ELSE mark[i]]
       /\ failure' = o.failure
       /\ confirmed' = o.authorized
       /\ Spend(o)
       /\ interrupted' = (o.failure = "AUTH_FAILED")
       /\ IF o.failure = "AUTH_FAILED"
          THEN Refused(failed, {i \in Open : o.marks[i] = "open"})
          ELSE step' = "scan" /\ UNCHANGED <<failed, status>>
  /\ UNCHANGED <<round, attempts, at, window, windows>>

-----------------------------------------------------------------------------
(* The recovery loop over the symbols.                                      *)

Resuming == window # {}

\* The first run of missing sessions, cut off after WindowSessions.
FirstMissing(i) ==
  LET first == Min(Missing(i))
  IN  {s \in Missing(i) : s < first + WindowSessions /\ first..s \subseteq Missing(i)}

NextWindow(i) == IF Resuming THEN window ELSE FirstMissing(i)

\* No calendar, nothing missing, or a failure that gets no further budget.
Unrecoverable(i) ==
  \/ i \notin Supported
  \/ ~Resuming /\ (Missing(i) = {} \/ ~confirmed)
  \/ mark[i] \in {"local", "snipped"}
  \/ failure = "SNAPSHOT_TIMEOUT" /\ ReservedTime = 0
  \/ failure \notin {None, "SNAPSHOT_TIMEOUT", "PROVIDER_TEMPORARY_FAILURE"}

OutOfBudget(i) ==
  \/ attempts >= MaxAttempts \/ Spent
  \/ ~Resuming /\ Cardinality(observed[i]) >= MaxRows

Skip ==
  /\ step = "scan" /\ at \in Symbols
  /\ Unrecoverable(at) \/ OutOfBudget(at)
  /\ failed' = IF Resuming /\ ~Unrecoverable(at) THEN failed \cup {at} ELSE failed
  /\ window' = {}
  /\ at' = at + 1
  /\ UNCHANGED <<step, round, budget, observed, mark, failure, confirmed, attempts,
                 windows, interrupted, status, authorized>>

OpenWindow ==
  /\ step = "scan" /\ at \in Symbols
  /\ ~Unrecoverable(at) /\ ~OutOfBudget(at)
  /\ window' = NextWindow(at)
  /\ windows' = [windows EXCEPT ![at] = @ \cup {window'}]
  /\ attempts' = attempts + 1
  /\ step' = "window"
  /\ UNCHANGED <<round, budget, observed, mark, failure, confirmed, at, failed,
                 interrupted, status, authorized>>

\* A window is opened with confirmed credentials, or resumed without: the
\* resumed one tells whether the new token was accepted.
StillConfirmed(o) == confirmed \/ o.authorized
ConfirmedAfter(o) == o.failure # "AUTH_FAILED" /\ (confirmed \/ o.authorized)

\* A row under an index that is taken is a schema mismatch, and is left out.
ReadWindow ==
  /\ step = "window"
  /\ \E o \in Outcomes({at}, [i \in {at} |-> window \ observed[i]], left) :
     \E taken \in SUBSET o.rows[at] :
       LET mismatch == IF taken = {} THEN failed ELSE failed \cup {at}
       IN  /\ observed' = [observed EXCEPT ![at] = @ \cup (o.rows[at] \ taken)]
           /\ Spend(o)
           /\ confirmed' = ConfirmedAfter(o)
           /\ IF o.failure = "AUTH_FAILED"
              THEN Refused(mismatch, {at}) /\ UNCHANGED <<at, window>>
              ELSE /\ failed' = IF o.failure # None \/ o.marks[at] # "complete"
                                THEN mismatch \cup {at} ELSE mismatch
                   /\ at' = at + 1 /\ window' = {} /\ step' = "scan"
                   /\ UNCHANGED status
  /\ UNCHANGED <<round, mark, failure, attempts, windows, interrupted>>

\* The loop is through.
Return ==
  /\ step = "scan" /\ at > NumSymbols
  /\ step' = "done"
  /\ status' = IF ~confirmed THEN "NOT_CONFIRMED"
               ELSE IF round = 0 THEN "CONFIRMED" ELSE "REFRESHED"
  /\ UNCHANGED <<round, budget, observed, mark, failure, confirmed, recovery,
                 interrupted, authorized>>

-----------------------------------------------------------------------------
(* The forced refresh, raced against the deadline.                          *)

\* Symbols before resumeIndex have had their turn.
FromTheStart == 1
ResumeIndex == at

Refresh ==
  /\ step = "refresh"
  /\ \E time \in 0..left : left' = left - time
  /\ round' = 1 /\ at' = ResumeIndex
  /\ step' = IF interrupted THEN "initial" ELSE "scan"
  /\ UNCHANGED <<events, bytes, observed, mark, failure, confirmed, attempts, window,
                 failed, windows, interrupted, status, authorized>>

RefreshFails ==
  /\ step = "refresh"
  /\ \E expired \in BOOLEAN :
       /\ left' = IF expired THEN 0 ELSE left
       /\ failure' = IF expired /\ interrupted THEN "SNAPSHOT_TIMEOUT" ELSE failure
  /\ failed' = failed \cup (IF interrupted THEN Open ELSE {at})
  /\ step' = "done" /\ status' = "FAILED"
  /\ UNCHANGED <<round, events, bytes, observed, mark, confirmed, attempts, at, window,
                 windows, interrupted, authorized>>

Next ==
  \/ ReadInitial \/ SkipReconnect \/ Skip \/ OpenWindow \/ ReadWindow \/ Return
  \/ Refresh \/ RefreshFails

Spec == Init /\ [][Next]_vars

-----------------------------------------------------------------------------
TypeOK ==
  /\ step \in {"initial", "scan", "window", "refresh", "done"}
  /\ round \in {0, 1} /\ left \in Int
  /\ observed \in [Symbols -> SUBSET Sessions]
  /\ mark \in [Symbols -> Marks]
  /\ failure \in Failures \cup {None} /\ confirmed \in BOOLEAN
  /\ events \in Nat /\ bytes \in Nat /\ attempts \in Nat
  /\ at \in 1..NumSymbols + 1
  /\ window \subseteq Sessions
  /\ interrupted \in BOOLEAN /\ failed \subseteq Symbols
  /\ status \in {"CONFIRMED", "REFRESHED", "FAILED", "NOT_CONFIRMED", None}
  /\ windows \in [Symbols -> SUBSET SUBSET Sessions]
  /\ authorized \subseteq {0, 1}

\* All snapshots of a request together stay within its budgets, and recovery
\* within its attempts, the reconnects and the token refresh included ("the original
\* deadline's remaining wall-clock time.  Event counts are cumulative").  A symbol
\* gets at most one window of consecutive sessions, also when a token refresh
\* interrupts it ("it does not grant a second missing-date window").
SharedBudgets ==
  /\ left >= 0 /\ events <= MaxEvents /\ bytes <= MaxBuffer
  /\ \A i \in Symbols : Cardinality(observed[i]) <= MaxRows
  /\ attempts <= MaxAttempts
  /\ \A i \in Symbols : Cardinality(windows[i]) <= 1

\* The result claims credentials that some snapshot of that round has proved:
\* neither a reconnect that was skipped nor a resumed window that timed out
\* counts ("rather than claiming a verified session").
StatusProved ==
  /\ status = "CONFIRMED" => 0 \in authorized
  /\ status = "REFRESHED" => 1 \in authorized

=============================================================================
