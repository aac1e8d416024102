----------------------------- MODULE LiveSnapshot -----------------------------
(***************************************************************************)
(* The collection of a live option snapshot (live-option-snapshot.ts): the *)
(* subscriptions are cut into batches, at most MaxConcurrent workers read  *)
(* one batch per socket (readSnapshotBatches, readSnapshot) into one map   *)
(* of states, all under one deadline, and a refused token starts the whole *)
(* collection over, once, with a new one (withDxlinkAuthRecovery).         *)
(*                                                                         *)
(* JavaScript runs to completion: what a settled socket makes its worker   *)
(* do, up to the next socket it opens, is part of the step that settled it.*)
(* Timers fire on time.  The server keeps the protocol's order, so that no *)
(* data precedes the subscription; of its handshake the steps after which  *)
(* the code behaves alike are one: opening with the first challenge, and   *)
(* AUTHORIZED with the channel and the subscription.  An event of an       *)
(* unknown symbol only leaves a warning and is left out, as are the values *)
(* of events and what the result derives from them.                        *)
(*                                                                         *)
(* AnewForRetry, KeptStates, OpenForGood, SettleAndStop, AnyAuthorized and *)
(* ContentOfFlags are faulty variants of the definition after them, for    *)
(* testing the properties.                                                 *)
(***************************************************************************)
EXTENDS Integers, Sequences, FiniteSets

CONSTANTS
  Batches,        \* sequence of sets of subscriptions [symbol, type]
  MaxConcurrent,  \* maxConcurrentDxlinkBatches
  DeadlineMs,     \* deadline_ms
  GreeksFlags,    \* sets of event flags a Greeks event may carry, or None
  ExactRequests,  \* subset of BOOLEAN: is there an exact_package?
  None,           \* null
  MaxTime         \* bound: the clock

Ids == 1..Len(Batches)
Subs == UNION {Batches[b] : b \in Ids}
Symbols == {s.symbol : s \in Subs}
Sockets == {0, 1} \X Ids

Statuses == {"COMPLETE", "PARTIAL", "TIMED_OUT", "FAILED"}
Event == [round : {0, 1}, content : BOOLEAN]

ASSUME NoneAssumption == None \notin Nat \cup Statuses \cup Event
ASSUME BatchAssumption ==
  /\ Batches \in Seq(SUBSET [symbol : STRING, type : STRING])
  /\ \A b \in Ids : Batches[b] # {} /\ IsFiniteSet(Batches[b])
  /\ \A b, c \in Ids : b # c => Batches[b] \cap Batches[c] = {}
ASSUME LimitAssumption ==
  /\ MaxConcurrent \in Nat \ {0} /\ DeadlineMs \in Nat \ {0} /\ MaxTime \in Nat
  /\ ExactRequests \subseteq BOOLEAN

VARIABLES
  now,         \* the clock
  exact,       \* exactPackage is given
  phase,       \* "token", "reading", "done", "aborted" or "error"
  round,       \* retryCount
  deadlineAt,  \* snapshotDeadlineAt
  attemptEnd,  \* aggregateDeadlineAt of this round
  next,        \* nextBatchIndex
  stage,       \* per batch: how far its socket is
  connecting,  \* sockets that are being opened
  open,        \* sockets that are open
  authorized,  \* batches whose socket was authorized (authConfirmed)
  counted,     \* batches counted in authenticatedBatches
  results,     \* batchResults: their statuses
  timedOut,    \* collectionTimedOut
  heard,       \* per subscription: the event in its state
  pending,     \* per symbol: greeksSnapshotPending and greeksTransactionPending
  answer,      \* the result
  refreshedAt  \* history: when the second round began

clock == <<now, exact>>
request == <<phase, round, deadlineAt, attemptEnd, answer, refreshedAt>>
sockets == <<next, stage, connecting, open, authorized, counted,
             results, timedOut>>
states == <<heard, pending>>
vars == <<clock, request, sockets, states>>

NothingHeard == [s \in Subs |-> None]
NothingPending == [y \in Symbols |-> [snapshot |-> FALSE, tx |-> FALSE]]
Waiting == [b \in Ids |-> "waiting"]
NoResults == [b \in Ids |-> None]

Init ==
  /\ now = 0 /\ exact \in ExactRequests
  /\ phase = "token" /\ round = 0
  /\ deadlineAt = None /\ attemptEnd = None
  /\ next = 1 /\ stage = Waiting
  /\ connecting = {} /\ open = {}
  /\ authorized = {} /\ counted = {} /\ results = NoResults /\ timedOut = FALSE
  /\ heard = NothingHeard /\ pending = NothingPending
  /\ answer = None /\ refreshedAt = None

Active == {b \in Ids : stage[b] \notin {"waiting", "settled"}}
Collecting == phase = "reading" /\ Active # {}

-----------------------------------------------------------------------------
(* A round: the token, the batches of its workers, and the next round.      *)

Sooner(a, b) == IF a < b THEN a ELSE b
Later(a, b) == IF a < b THEN b ELSE a

\* The deadline is set by the first round; the second has what is left of it,
\* and at least a millisecond.
AnewForRetry == now + DeadlineMs
AttemptEnd == Later(now + 1, deadlineAt')

KeptStates == UNCHANGED states
ResetStates == heard' = NothingHeard /\ pending' = NothingPending

TokenIssued ==
  /\ phase = "token"
  /\ deadlineAt' = IF deadlineAt = None THEN now + DeadlineMs ELSE deadlineAt
  /\ attemptEnd' = AttemptEnd
  /\ phase' = "reading"
  /\ refreshedAt' = IF round = 1 THEN now ELSE None
  /\ LET first == 1..Sooner(MaxConcurrent, Len(Batches))
     IN  /\ stage' = [b \in Ids |-> IF b \in first THEN "connecting" ELSE "waiting"]
         /\ connecting' = connecting \cup ({round} \X first)
         /\ next' = Cardinality(first) + 1
  /\ authorized' = {} /\ counted' = {} /\ results' = NoResults /\ timedOut' = FALSE
  /\ IF round = 1 THEN ResetStates ELSE UNCHANGED states
  /\ UNCHANGED <<clock, round, open, answer>>

Answer(auth, ready, late) == [auth |-> auth, ready |-> ready, timedOut |-> late]

\* authFailureSnapshotRead: every batch failed and no event is kept.
AuthFailed ==
  /\ phase' = "done" /\ answer' = Answer("FAILED", FALSE, FALSE)
  /\ results' = [b \in Ids |-> "FAILED"]
  /\ ResetStates

TokenFails ==
  /\ phase = "token"
  /\ IF round = 1 THEN AuthFailed
     ELSE phase' = "error" /\ UNCHANGED <<answer, results, states>>
  /\ UNCHANGED <<clock, round, deadlineAt, attemptEnd, refreshedAt, next, stage,
                 connecting, open, authorized, counted, timedOut>>

-----------------------------------------------------------------------------
(* A socket settles and its worker takes the next batch.                    *)

Satisfied(s) == heard[s] # None

\* Every batch that is taken after the deadline is timed out without a socket.
SettleTaking(b, status, late, left) ==
  LET started == IF now < attemptEnd THEN left \cap {next} ELSE {}
      expired == IF now < attemptEnd THEN {} ELSE left
  IN  /\ results' = [c \in Ids |-> IF c = b THEN status
                                   ELSE IF c \in expired THEN "TIMED_OUT" ELSE results[c]]
      /\ stage' = [c \in Ids |-> IF c \in started THEN "connecting"
                                 ELSE IF c \in expired \cup {b} THEN "settled" ELSE stage[c]]
      /\ next' = next + Cardinality(started \cup expired)
      /\ connecting' = connecting \cup ({round} \X started)
      /\ open' = open \ {<<round, b>>}
      /\ counted' = IF status # "FAILED" /\ b \in authorized THEN counted \cup {b} ELSE counted
      /\ timedOut' = (timedOut \/ late \/ expired # {})
      /\ UNCHANGED <<clock, request, authorized>>

SettleAndStop(b, status, late) ==
  SettleTaking(b, status, late, IF status = "FAILED" THEN {} ELSE next..Len(Batches))
Settle(b, status, late) == SettleTaking(b, status, late, next..Len(Batches))

\* The deadline of a socket: what it has is its batch's result.
Expire(b) ==
  /\ phase = "reading" /\ b \in Active /\ now >= attemptEnd
  /\ LET missing == {s \in Batches[b] : ~Satisfied(s)}
     IN  Settle(b, IF missing = {} THEN "COMPLETE"
                   ELSE IF missing = Batches[b] THEN "TIMED_OUT" ELSE "PARTIAL", TRUE)
  /\ UNCHANGED states

\* An error or a close of the socket, or a message that is no valid answer.
Break(b) ==
  /\ phase = "reading" /\ b \in Active
  /\ Settle(b, "FAILED", FALSE)
  /\ UNCHANGED states

-----------------------------------------------------------------------------
(* The handshake of a socket.                                               *)

Advance(b, from, to) ==
  /\ phase = "reading" /\ stage[b] = from
  /\ stage' = [stage EXCEPT ![b] = to]
  /\ UNCHANGED <<clock, request, next, counted, results, timedOut, states>>

Opened(b) ==
  /\ Advance(b, "connecting", "challenged")
  /\ connecting' = connecting \ {<<round, b>>} /\ open' = open \cup {<<round, b>>}
  /\ UNCHANGED authorized

\* onopen of a socket that has settled meanwhile closes it at once.
OpenForGood(r, b) == open' = open \cup {<<r, b>>}
CloseLate(r, b) == UNCHANGED open

OpenedLate(r, b) ==
  /\ <<r, b>> \in connecting
  /\ ~(phase = "reading" /\ r = round /\ stage[b] = "connecting")
  /\ connecting' = connecting \ {<<r, b>>} /\ CloseLate(r, b)
  /\ UNCHANGED <<clock, request, next, stage, authorized, counted, results, timedOut, states>>

Authorized(b) ==
  /\ Advance(b, "challenged", "subscribed")
  /\ authorized' = authorized \cup {b}
  /\ UNCHANGED <<connecting, open>>

\* The token is refused: all sockets of the round are closed.  After the first
\* refusal the collection starts over, with nothing left of its locals.
Refused(b) ==
  /\ phase = "reading" /\ stage[b] \in {"challenged", "subscribed"}
  /\ open' = open \ ({round} \X Ids)
  /\ stage' = Waiting /\ next' = 1
  /\ authorized' = {} /\ counted' = {} /\ timedOut' = FALSE
  /\ IF round = 0
     THEN phase' = "token" /\ round' = 1 /\ results' = NoResults /\ UNCHANGED <<answer, states>>
     ELSE AuthFailed /\ UNCHANGED round
  /\ UNCHANGED <<clock, deadlineAt, attemptEnd, refreshedAt, connecting>>

-----------------------------------------------------------------------------
(* Events.                                                                  *)

\* mergeLiveOptionEvents: flags that are not known leave the protocol state.
PendingAfter(p, flags) ==
  IF flags = None THEN p
  ELSE [snapshot |-> (p.snapshot \/ "BEGIN" \in flags) /\ "END" \notin flags,
        tx |-> "TX" \in flags]

ContentOfFlags(p, flags) == flags # None /\ flags \cap {"TX", "BEGIN"} = {}
Content(p, flags) == flags # None /\ ~p.snapshot /\ ~p.tx

Merge(s, flags) ==
  IF s.type = "Greeks"
  THEN LET p == PendingAfter(pending[s.symbol], flags)
       IN  /\ pending' = [pending EXCEPT ![s.symbol] = p]
           /\ heard' = [heard EXCEPT ![s] =
                IF flags # None /\ "REMOVE" \in flags THEN None
                ELSE [round |-> round, content |-> Content(p, flags)]]
  ELSE /\ heard' = [heard EXCEPT ![s] = [round |-> round, content |-> TRUE]]
       /\ UNCHANGED pending

\* An exact package also waits for the end of snapshots and transactions.
Whole(b) ==
  \A s \in Batches[b] :
    /\ heard'[s] # None
    /\ exact /\ s.type = "Greeks" =>
         ~pending'[s.symbol].snapshot /\ ~pending'[s.symbol].tx

Data(b) ==
  /\ phase = "reading" /\ stage[b] = "subscribed"
  /\ \E s \in Batches[b], flags \in GreeksFlags : Merge(s, flags)
  /\ IF Whole(b) THEN Settle(b, "COMPLETE", FALSE)
     ELSE UNCHANGED <<clock, request, sockets>>

-----------------------------------------------------------------------------
(* The end of the request.                                                  *)

AnyAuthorized == counted # {}
AllAuthorized == counted = Ids

Return ==
  /\ phase = "reading" /\ Active = {}
  /\ LET auth == IF ~AllAuthorized THEN "NOT_CONFIRMED"
                 ELSE IF round = 0 THEN "CONFIRMED" ELSE "REFRESHED"
         transport == \A b \in Ids : results[b] = "COMPLETE"
         content == \A s \in Subs : Satisfied(s) /\ heard[s].content
         late == timedOut \/ \E b \in Ids : results[b] \in {"PARTIAL", "TIMED_OUT"}
     IN  answer' = Answer(auth, transport /\ auth # "NOT_CONFIRMED" /\ content, late)
  /\ phase' = "done"
  /\ UNCHANGED <<clock, round, deadlineAt, attemptEnd, refreshedAt, sockets, states>>

\* The caller's signal fails all sockets and rejects the request; what it has
\* collected is dropped.
Abort ==
  /\ phase = "token" \/ Collecting
  /\ phase' = "aborted"
  /\ open' = open \ ({round} \X Ids)
  /\ stage' = Waiting /\ results' = NoResults /\ ResetStates
  /\ UNCHANGED <<clock, round, deadlineAt, attemptEnd, refreshedAt, answer, next,
                 connecting, authorized, counted, timedOut>>

Tick ==
  /\ \/ phase = "token" /\ now < MaxTime
     \/ Collecting /\ now < attemptEnd
  /\ now' = now + 1
  /\ UNCHANGED <<exact, request, sockets, states>>

Next ==
  \/ TokenIssued \/ TokenFails \/ Return \/ Abort \/ Tick
  \/ \E b \in Ids :
       \/ Expire(b) \/ Break(b) \/ Opened(b) \/ Authorized(b) \/ Refused(b) \/ Data(b)
       \/ \E r \in {0, 1} : OpenedLate(r, b)

Spec == Init /\ [][Next]_vars

-----------------------------------------------------------------------------
TypeOK ==
  /\ now \in Nat /\ exact \in BOOLEAN
  /\ phase \in {"token", "reading", "done", "aborted", "error"} /\ round \in {0, 1}
  /\ deadlineAt \in Nat \cup {None} /\ attemptEnd \in Nat \cup {None}
  /\ next \in 1..Len(Batches) + 1
  /\ stage \in [Ids -> {"waiting", "connecting", "challenged", "subscribed", "settled"}]
  /\ connecting \subseteq Sockets /\ open \subseteq Sockets
  /\ authorized \subseteq Ids /\ counted \subseteq Ids
  /\ results \in [Ids -> Statuses \cup {None}] /\ timedOut \in BOOLEAN
  /\ heard \in [Subs -> Event \cup {None}]
  /\ pending \in [Symbols -> [snapshot : BOOLEAN, tx : BOOLEAN]]

Answered == phase = "done"

\* A result shows no event of a refused round, from whatever batch it came.
NothingOld ==
  Answered => \A s \in Subs : Satisfied(s) => heard[s].round = round /\ answer.auth # "FAILED"

\* No socket stays open beyond its own reading: not after a refusal in another
\* batch ("closes all sockets from that snapshot attempt"), an abort, or when it
\* opens only after it was given up.  And none is read beyond the deadline that
\* both rounds share, except for the millisecond a second round gets when the
\* refresh has used it up.
SocketsReleased ==
  /\ \A k \in open : phase = "reading" /\ k[1] = round /\ k[2] \in Active
  /\ Cardinality(Active) <= MaxConcurrent
  /\ Collecting => now <= IF round = 0 THEN deadlineAt ELSE Later(deadlineAt, refreshedAt + 1)

\* A result claims what its sockets saw: a session only if every batch observed
\* it ("if the deadline expires before every batch observes AUTHORIZED, status
\* is NOT_CONFIRMED"), COMPLETE for a batch with all its events, and PARTIAL or
\* TIMED_OUT only when time ran out.
StatusesProved ==
  Answered =>
    /\ answer.auth \in {"CONFIRMED", "REFRESHED"} =>
         authorized = Ids /\ (answer.auth = "REFRESHED" <=> round = 1)
    /\ \A b \in Ids :
         /\ results[b] \in Statuses
         /\ results[b] = "COMPLETE" => \A s \in Batches[b] : Satisfied(s)
         /\ results[b] = "PARTIAL" => \E s \in Batches[b] : Satisfied(s)
         /\ results[b] \in {"PARTIAL", "TIMED_OUT"} => answer.timedOut

\* A package is ready only on Greeks that belong to no snapshot or transaction
\* still under way, whatever the flags of the events before were.
ReadyIsCommitted ==
  Answered /\ answer.ready =>
    \A s \in Subs : s.type = "Greeks" =>
      Satisfied(s) /\ ~pending[s.symbol].snapshot /\ ~pending[s.symbol].tx

=============================================================================
