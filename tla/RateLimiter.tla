----------------------------- MODULE RateLimiter -----------------------------
(***************************************************************************)
(* The request-start gate that every Backtester endpoint of one server     *)
(* process shares: class ProviderRateLimiter (provider-rate-limit.ts) as   *)
(* it is driven by TastytradeBacktesterClient.request                      *)
(* (backtester-client.ts).                                                 *)
(*                                                                         *)
(* A caller obtains an access token, joins the promise chain `queue`, and  *)
(* when its turn comes is refused, sleeps until the pacing slot, or starts *)
(* its request.  The gate is released at the start of the request, so      *)
(* responses overlap and arrive in any order; a 429 response moves the     *)
(* shared cooldown, possibly while another caller sleeps at the gate.      *)
(*                                                                         *)
(* Time is a counter of milliseconds that stands for Date.now() and for    *)
(* the timers; it does not run backwards.  x-ratelimit-remaining is only   *)
(* copied into error metadata and is left out.                             *)
(*                                                                         *)
(* SlotFromSlot, KeepTurn, WakeBlindly, RecordLatest and RecordSource are  *)
(* faulty variants of the definition that follows them; they test the      *)
(* properties and are used nowhere else.                                   *)
(***************************************************************************)
EXTENDS Integers, Sequences

CONSTANTS
  Callers,          \* concurrent users of the client
  MinInterval,      \* min_interval_ms
  FallbackDelaysMs,   \* fallback_delays_ms, a non-empty sequence
  MaxFallbackDelay, \* max_fallback_delay_ms
  JitterPercent,    \* jitter_ratio, in percent
  MsPerSecond,      \* milliseconds in the unit of retry_after_seconds
  HeaderDelays,     \* relative waits a 429 header may carry, in ms
  HeaderDates,      \* absolute times a 429 header may carry, in ms
  Never,            \* the null of last429At
  Absent,           \* a header that is missing or does not parse
  MaxCalls,         \* bound: calls per caller
  LastArrival,      \* bound: no caller joins the queue after this time
  MaxTime           \* bound: the clock stops here, unless a timer is pending

ASSUME PacingAssumption == MinInterval \in Nat /\ MaxFallbackDelay \in Nat
ASSUME FallbackAssumption ==
  FallbackDelaysMs \in Seq(Nat) /\ Len(FallbackDelaysMs) > 0
ASSUME JitterAssumption == JitterPercent \in 0 .. 100
ASSUME SecondAssumption == MsPerSecond \in Nat \ {0}
ASSUME HeaderAssumption ==
  HeaderDelays \subseteq Nat /\ HeaderDates \subseteq Nat /\ Absent \notin Nat
ASSUME NeverAssumption == Never \notin Nat
ASSUME BoundAssumption ==
  MaxCalls \in Nat /\ LastArrival \in Nat /\ MaxTime \in Nat

VARIABLES
  now,               \* the clock
  queue,             \* callers linked in the promise chain, oldest first
  phase,             \* where each caller is in request() and start()
  wakeAt,            \* when the timer of a sleeping caller fires
  aborted,           \* the caller's AbortSignal
  calls,             \* calls made so far (only for the bound MaxCalls)
  nextRequestAt, cooldownUntil, last429At, retryAfterSeconds,
  rateLimitCount, consecutive, source,
  lastStart          \* history: when the latest request was started

gateVars == <<nextRequestAt, lastStart>>
limitVars == <<cooldownUntil, last429At, retryAfterSeconds, rateLimitCount,
               consecutive, source>>
limiterVars == <<now, queue, phase, wakeAt, aborted, calls, gateVars, limitVars>>

Phases == {"idle", "authorizing", "queued", "sleeping", "inflight"}
Sources == {"RETRY_AFTER", "X_RATE_LIMIT_RESET", "FALLBACK"}

Larger(a, b) == IF a >= b THEN a ELSE b
Smaller(a, b) == IF a <= b THEN a ELSE b

GateInit ==
  /\ now = 0
  /\ queue = <<>>
  /\ phase = [c \in Callers |-> "idle"]
  /\ wakeAt = [c \in Callers |-> 0]
  /\ aborted = [c \in Callers |-> FALSE]
  /\ calls = [c \in Callers |-> 0]
  /\ nextRequestAt = 0
  /\ cooldownUntil = 0
  /\ last429At = Never
  /\ retryAfterSeconds = 0
  /\ rateLimitCount = 0
  /\ consecutive = 0
  /\ source = "FALLBACK"
  /\ lastStart = Never

-----------------------------------------------------------------------------
(* request(): the token is awaited before the caller joins the queue.      *)

Arrive(c) ==
  /\ phase[c] = "idle"
  /\ calls[c] < MaxCalls
  /\ phase' = [phase EXCEPT ![c] = "authorizing"]
  /\ aborted' = [aborted EXCEPT ![c] = FALSE]
  /\ calls' = [calls EXCEPT ![c] = @ + 1]
  /\ UNCHANGED <<now, queue, wakeAt, gateVars, limitVars>>

AuthorizeFails(c) ==
  /\ phase[c] = "authorizing"
  /\ phase' = [phase EXCEPT ![c] = "idle"]
  /\ UNCHANGED <<now, queue, wakeAt, aborted, calls, gateVars, limitVars>>

Enqueue(c) ==
  /\ phase[c] = "authorizing"
  /\ now <= LastArrival
  /\ queue' = Append(queue, c)
  /\ phase' = [phase EXCEPT ![c] = "queued"]
  /\ UNCHANGED <<now, wakeAt, aborted, calls, gateVars, limitVars>>

-----------------------------------------------------------------------------
(* start(): the body that runs once the previous link is released.  Every  *)
(* way out of it runs the finally block, which releases the next link.     *)

HasTurn(c) == queue # <<>> /\ Head(queue) = c

Leave(c, next) ==
  /\ queue' = Tail(queue)
  /\ phase' = [phase EXCEPT ![c] = next]

CoolingDown == cooldownUntil > now

SlotFromSlot(c) ==
  /\ nextRequestAt' = nextRequestAt + MinInterval
  /\ lastStart' = now
  /\ Leave(c, "inflight")
  /\ UNCHANGED <<now, wakeAt, aborted, calls, limitVars>>

Start(c) ==
  /\ nextRequestAt' = Larger(nextRequestAt, now) + MinInterval
  /\ lastStart' = now
  /\ Leave(c, "inflight")
  /\ UNCHANGED <<now, wakeAt, aborted, calls, limitVars>>

KeepTurn(c) ==
  /\ phase' = [phase EXCEPT ![c] = "idle"]
  /\ UNCHANGED <<now, queue, wakeAt, aborted, calls, gateVars, limitVars>>

Refuse(c) ==
  /\ Leave(c, "idle")
  /\ UNCHANGED <<now, wakeAt, aborted, calls, gateVars, limitVars>>

EnterAborted(c) ==
  /\ HasTurn(c) /\ phase[c] = "queued"
  /\ aborted[c]
  /\ Refuse(c)

EnterCooldown(c) ==
  /\ HasTurn(c) /\ phase[c] = "queued"
  /\ ~aborted[c]
  /\ CoolingDown
  /\ Refuse(c)

EnterSleep(c) ==
  /\ HasTurn(c) /\ phase[c] = "queued"
  /\ ~aborted[c] /\ ~CoolingDown
  /\ nextRequestAt > now
  /\ wakeAt' = [wakeAt EXCEPT ![c] = nextRequestAt]
  /\ phase' = [phase EXCEPT ![c] = "sleeping"]
  /\ UNCHANGED <<now, queue, aborted, calls, gateVars, limitVars>>

EnterStart(c) ==
  /\ HasTurn(c) /\ phase[c] = "queued"
  /\ ~aborted[c] /\ ~CoolingDown
  /\ nextRequestAt <= now
  /\ Start(c)

\* After the sleep the clock and the cooldown are read again.
WakeCooldown(c) ==
  /\ phase[c] = "sleeping" /\ now >= wakeAt[c]
  /\ CoolingDown
  /\ Refuse(c)

WakeBlindly(c) == phase[c] = "sleeping" /\ now >= wakeAt[c] /\ Start(c)

WakeStart(c) ==
  /\ phase[c] = "sleeping" /\ now >= wakeAt[c]
  /\ ~CoolingDown
  /\ Start(c)

\* The abort event.  A sleeping caller leaves at once (abortableSleep clears
\* its timer), a request in flight is cancelled by the HTTP client and records
\* nothing; anywhere else the signal is only noticed later.
Abort(c) ==
  /\ phase[c] # "idle" /\ ~aborted[c]
  /\ aborted' = [aborted EXCEPT ![c] = TRUE]
  /\ CASE phase[c] = "sleeping" -> Leave(c, "idle")
       [] phase[c] = "inflight" ->
            phase' = [phase EXCEPT ![c] = "idle"] /\ queue' = queue
       [] OTHER -> UNCHANGED <<phase, queue>>
  /\ UNCHANGED <<now, wakeAt, calls, gateVars, limitVars>>

-----------------------------------------------------------------------------
(* The response.                                                           *)

RespondSuccess(c) ==
  /\ phase[c] = "inflight"
  /\ phase' = [phase EXCEPT ![c] = "idle"]
  /\ consecutive' = 0
  /\ UNCHANGED <<now, queue, wakeAt, aborted, calls, gateVars, cooldownUntil,
                 last429At, retryAfterSeconds, rateLimitCount, source>>

RespondError(c) ==
  /\ phase[c] = "inflight"
  /\ phase' = [phase EXCEPT ![c] = "idle"]
  /\ UNCHANGED <<now, queue, wakeAt, aborted, calls, gateVars, limitVars>>

\* retryAfterTime and resetTime: a wait counted from now, or a date that is
\* never taken to lie in the past.
HeaderTimes ==
  {now + d : d \in HeaderDelays} \cup {Larger(now, t) : t \in HeaderDates}

\* fallbackDelay: the table for the first 429s in a row, then the last entry
\* tripled for every further one, capped.
FallbackBase(n) ==
  LET table == Len(FallbackDelaysMs)
      growth == IF n <= table THEN FallbackDelaysMs[n]
                ELSE FallbackDelaysMs[table] * 3 ^ (n - table)
  IN  Smaller(growth, MaxFallbackDelay)

Percent(b, p) == (b * p + 50) \div 100

\* Every delay the jitter can produce, rounded and capped again.
FallbackRange(n) ==
  LET base == FallbackBase(n)
  IN  {d \in 0 .. MaxFallbackDelay :
         /\ Percent(base, 100 - JitterPercent) <= d
         /\ d <= Percent(base, 100 + JitterPercent)}

CeilSeconds(ms) == (ms + MsPerSecond - 1) \div MsPerSecond

Counted429 ==
  /\ last429At' = now
  /\ retryAfterSeconds' = Larger(0, CeilSeconds(cooldownUntil' - now))
  /\ consecutive' = consecutive + 1
  /\ rateLimitCount' = rateLimitCount + 1

RecordLatest(proposedUntil, from) ==
  cooldownUntil' = proposedUntil /\ source' = from /\ Counted429

RecordSource(proposedUntil, from) ==
  cooldownUntil' = Larger(proposedUntil, cooldownUntil) /\ source' = from /\ Counted429

RecordRateLimit(proposedUntil, from) ==
  /\ IF proposedUntil >= cooldownUntil
     THEN cooldownUntil' = proposedUntil /\ source' = from
     ELSE UNCHANGED <<cooldownUntil, source>>
  /\ Counted429

\* retry-after wins over x-ratelimit-reset, and the fallback is for neither.
RespondRateLimited(c, retryAfter, reset) ==
  /\ phase[c] = "inflight"
  /\ \/ retryAfter # Absent /\ RecordRateLimit(retryAfter, "RETRY_AFTER")
     \/ /\ retryAfter = Absent /\ reset # Absent
        /\ RecordRateLimit(reset, "X_RATE_LIMIT_RESET")
     \/ /\ retryAfter = Absent /\ reset = Absent
        /\ \E d \in FallbackRange(consecutive + 1) :
             RecordRateLimit(now + d, "FALLBACK")
  /\ phase' = [phase EXCEPT ![c] = "idle"]
  /\ UNCHANGED <<now, queue, wakeAt, aborted, calls, gateVars>>

\* The clock stops at MaxTime, but never ahead of a timer that is still to fire.
TimerPending == \E c \in Callers : phase[c] = "sleeping" /\ wakeAt[c] > now

GateTick ==
  /\ now < MaxTime \/ TimerPending
  /\ now' = now + 1
  /\ UNCHANGED <<queue, phase, wakeAt, aborted, calls, gateVars, limitVars>>

Turn(c) ==
  EnterAborted(c) \/ EnterCooldown(c) \/ EnterSleep(c) \/ EnterStart(c)

WakeUp(c) == WakeCooldown(c) \/ WakeStart(c)

GateNext ==
  \/ GateTick
  \/ \E c \in Callers :
       \/ Arrive(c) \/ AuthorizeFails(c) \/ Enqueue(c)
       \/ Turn(c) \/ WakeUp(c) \/ Abort(c)
       \/ RespondSuccess(c) \/ RespondError(c)
       \/ \E ra, rs \in HeaderTimes \cup {Absent} : RespondRateLimited(c, ra, rs)

GateSpec == GateInit /\ [][GateNext]_limiterVars

\* A released link resumes its successor (a microtask), a timer fires, and
\* time passes.  Nothing forces a caller to arrive or the provider to answer.
Fairness ==
  /\ WF_limiterVars(GateTick)
  /\ \A c \in Callers : WF_limiterVars(Turn(c)) /\ WF_limiterVars(WakeUp(c))

LiveGateSpec == GateSpec /\ Fairness

-----------------------------------------------------------------------------
\* The values every variable ranges over.
GateTypeOK ==
  /\ now \in Nat
  /\ queue \in Seq(Callers)
  /\ phase \in [Callers -> Phases]
  /\ wakeAt \in [Callers -> Nat]
  /\ aborted \in [Callers -> BOOLEAN]
  /\ calls \in [Callers -> Nat]
  /\ nextRequestAt \in Nat
  /\ cooldownUntil \in Nat
  /\ last429At \in Nat \cup {Never}
  /\ retryAfterSeconds \in Nat
  /\ rateLimitCount \in Nat
  /\ consecutive \in Nat
  /\ source \in Sources
  /\ lastStart \in Nat \cup {Never}

Starts(c) == phase[c] # "inflight" /\ phase'[c] = "inflight"

\* Two requests are never started less than min_interval_ms apart, however
\* many callers wait, abort or are refused in between (start()).
SpacedStarts ==
  [][\A c \in Callers :
       Starts(c) => lastStart = Never \/ now >= lastStart + MinInterval]_limiterVars

\* No request is started while a cooldown is in force, including one that a
\* late 429 response imposed while the caller was asleep at the gate.
NoStartInCooldown ==
  [][\A c \in Callers : Starts(c) => cooldownUntil <= now]_limiterVars

\* A 429 that asks for a shorter wait neither shortens a cooldown that an
\* earlier (or overtaking) response imposed, nor takes over its source: that
\* one changes only to where the end of the cooldown can be from
\* (recordRateLimit).
CooldownNeverShortened ==
  [][/\ cooldownUntil' >= cooldownUntil
     /\ source' # source =>
          IF source' = "FALLBACK" THEN cooldownUntil' <= now + MaxFallbackDelay
          ELSE cooldownUntil' \in HeaderTimes]_limiterVars

\* Whoever is told retry_after_seconds while a cooldown is active and waits
\* that long comes back after its end, even when the cooldown was set by a
\* response older than the one that computed the number.
CooldownAdvertised ==
  CoolingDown => now + retryAfterSeconds * MsPerSecond >= cooldownUntil

\* A cooldown attributed to FALLBACK is bounded by max_fallback_delay_ms: the
\* reported source is the one of the response that set the current cooldown.
FallbackBounded ==
  source = "FALLBACK" /\ last429At # Never
    => cooldownUntil <= last429At + MaxFallbackDelay

\* Every caller that joins the queue leaves it: an abort, a refusal or a
\* failure of the caller ahead never leaves the chain unreleased.
WaitersLeave ==
  \A c \in Callers :
    phase[c] \in {"queued", "sleeping"} ~> phase[c] \notin {"queued", "sleeping"}

=============================================================================
