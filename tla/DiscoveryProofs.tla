---------------------------- MODULE DiscoveryProofs ----------------------------
(***************************************************************************)
(* Proofs about RateLimiter, the gate of the backtester, for any callers,  *)
(* pacing interval and headers, and about CandidateRange, the discovery    *)
(* behind it, for any sessions, workers, deadlines, errors and cursors.    *)
(*                                                                         *)
(* The gate: only the head of the chain sleeps, its timer is set for the   *)
(* slot that is still the next one, and that slot lies MinInterval after   *)
(* the latest start.                                                       *)
(*                                                                         *)
(* The discovery: the cursor stands for the state the next call starts     *)
(* from, a call is made of its plan, every checkpoint of it has a result,  *)
(* a worker or its turn to come, the timers of a worker are due by its     *)
(* deadline, sessions that were passed over are ahead of those tried       *)
(* meanwhile, and the cursor knows of every cooldown.  A step of a worker  *)
(* either moves its attempt on or stores a result.                         *)
(***************************************************************************)
EXTENDS CandidateRange, RateLimiter, SequenceTheorems, FiniteSetTheorems,
        WellFoundedInduction, TLAPS

-----------------------------------------------------------------------------
(* The gate.                                                                *)

\* Only the head of the chain runs the body of start(), so nobody moves the
\* slot for which it sleeps.
SleeperOK ==
  \A c \in Callers :
    phase[c] = "sleeping" => HasTurn(c) /\ wakeAt[c] = nextRequestAt

\* The slot that start() reserved for the next request.
SlotOK ==
  lastStart # Never =>
    nextRequestAt >= lastStart + MinInterval /\ now >= lastStart

\* What recordRateLimit leaves behind.
CooldownOK ==
  /\ FallbackBounded
  /\ last429At # Never => now >= last429At
  /\ last429At = Never => cooldownUntil = 0 /\ rateLimitCount = 0
  /\ CooldownAdvertised

-----------------------------------------------------------------------------
(* The arithmetic of the cooldown.                                         *)

\* A fallback delay is a natural number of milliseconds within the cap.
LEMMA FallbackRangeBounded ==
  \A n : \A d \in FallbackRange(n) : d \in Nat /\ d <= MaxFallbackDelay
  BY PacingAssumption DEF FallbackRange

\* A 429 header never places the end of the cooldown in the past.
LEMMA HeaderTimesBounded ==
  now \in Nat => \A t \in HeaderTimes : t \in Nat /\ t >= now
<1> SUFFICES ASSUME now \in Nat, NEW t \in HeaderTimes
             PROVE  t \in Nat /\ t >= now
  OBVIOUS
<1>1. CASE \E d \in HeaderDelays : t = now + d
  BY <1>1, HeaderAssumption
<1>2. CASE \E u \in HeaderDates : t = Larger(now, u)
  BY <1>2, HeaderAssumption DEF Larger
<1>3. QED  BY <1>1, <1>2 DEF HeaderTimes

\* Rounding up to whole seconds never loses a part of the wait.
LEMMA CeilSecondsCovers ==
  ASSUME NEW ms \in Nat
  PROVE  CeilSeconds(ms) \in Nat /\ CeilSeconds(ms) * MsPerSecond >= ms
<1> DEFINE q == (ms + MsPerSecond - 1) \div MsPerSecond
<1>1. q \in Nat /\ q * MsPerSecond + ((ms + MsPerSecond - 1) % MsPerSecond)
                     = ms + MsPerSecond - 1
  BY SecondAssumption
<1>2. (ms + MsPerSecond - 1) % MsPerSecond \in 0 .. MsPerSecond - 1
  BY SecondAssumption
<1>3. QED  BY <1>1, <1>2, SecondAssumption DEF CeilSeconds

\* What recordRateLimit does to the shared cooldown, whichever header (or the
\* fallback) proposed its new end.
LEMMA RecordRateLimitEffect ==
  ASSUME GateTypeOK,
         NEW until \in Nat, NEW from \in Sources, until >= now,
         RecordRateLimit(until, from)
  PROVE  /\ cooldownUntil' \in Nat /\ cooldownUntil' >= cooldownUntil
         /\ cooldownUntil' >= until
         /\ \/ cooldownUntil' = until /\ source' = from
            \/ cooldownUntil' = cooldownUntil /\ source' = source
         /\ last429At' = now
         /\ retryAfterSeconds' \in Nat
         /\ now + retryAfterSeconds' * MsPerSecond >= cooldownUntil'
         /\ consecutive' \in Nat /\ rateLimitCount' \in Nat
<1>1. /\ cooldownUntil' \in Nat /\ cooldownUntil' >= cooldownUntil
      /\ cooldownUntil' >= until
      /\ \/ cooldownUntil' = until /\ source' = from
         \/ cooldownUntil' = cooldownUntil /\ source' = source
  BY DEF RecordRateLimit, Counted429, GateTypeOK
<1>2. last429At' = now /\ consecutive' \in Nat /\ rateLimitCount' \in Nat
  BY DEF RecordRateLimit, Counted429, GateTypeOK
<1>3. PICK end \in Nat : end = cooldownUntil' /\ end >= until
  BY <1>1
<1>4. end - now \in Nat /\ now \in Nat
  <2>1. now \in Nat
    BY DEF GateTypeOK
  <2>2. end >= now
    BY <1>3, <2>1
  <2>3. QED  BY <2>1, <2>2
<1>5. retryAfterSeconds' = Larger(0, CeilSeconds(end - now))
  BY <1>3 DEF RecordRateLimit, Counted429
<1> DEFINE s == CeilSeconds(end - now)
<1>6. s \in Nat /\ s * MsPerSecond >= end - now
  BY <1>4, CeilSecondsCovers
<1>7. s * MsPerSecond \in Int
  BY <1>6, SecondAssumption
<1>8. now + s * MsPerSecond >= end
  <2> DEFINE w == s * MsPerSecond
  <2>1. w \in Int /\ w >= end - now
    BY <1>6, <1>7
  <2> HIDE DEF w
  <2>2. now + w >= end
    BY <1>4, <2>1
  <2>3. QED  BY <2>2 DEF w
<1>9. retryAfterSeconds' = s
  BY <1>5, <1>6 DEF Larger
<1> HIDE DEF s
<1>10. QED  BY <1>1, <1>2, <1>3, <1>6, <1>8, <1>9

\* The same for a whole 429 response; a cooldown it attributes to FALLBACK
\* ends within the cap.
LEMMA RespondRateLimitedEffect ==
  ASSUME GateTypeOK, NEW c \in Callers,
         NEW ra \in HeaderTimes \cup {Absent}, NEW rs \in HeaderTimes \cup {Absent},
         RespondRateLimited(c, ra, rs)
  PROVE  /\ cooldownUntil' \in Nat /\ cooldownUntil' >= cooldownUntil
         /\ source' \in Sources
         /\ \/ cooldownUntil' = cooldownUntil /\ source' = source
            \/ source' # "FALLBACK" /\ cooldownUntil' \in HeaderTimes
            \/ source' = "FALLBACK" /\ cooldownUntil' <= now + MaxFallbackDelay
         /\ last429At' = now
         /\ retryAfterSeconds' \in Nat
         /\ now + retryAfterSeconds' * MsPerSecond >= cooldownUntil'
         /\ consecutive' \in Nat /\ rateLimitCount' \in Nat
<1>0. now \in Nat /\ source \in Sources
  BY DEF GateTypeOK
<1>1. CASE ra # Absent /\ RecordRateLimit(ra, "RETRY_AFTER")
  <2>1. ra \in Nat /\ ra >= now
    BY <1>0, <1>1, HeaderTimesBounded
  <2>2. "RETRY_AFTER" \in Sources /\ "RETRY_AFTER" # "FALLBACK"
    BY DEF Sources
  <2>3. QED  BY <1>0, <1>1, <2>1, <2>2, RecordRateLimitEffect
<1>2. CASE rs # Absent /\ RecordRateLimit(rs, "X_RATE_LIMIT_RESET")
  <2>1. rs \in Nat /\ rs >= now
    BY <1>0, <1>2, HeaderTimesBounded
  <2>2. "X_RATE_LIMIT_RESET" \in Sources /\ "X_RATE_LIMIT_RESET" # "FALLBACK"
    BY DEF Sources
  <2>3. QED  BY <1>0, <1>2, <2>1, <2>2, RecordRateLimitEffect
<1>3. CASE \E d \in FallbackRange(consecutive + 1) :
             RecordRateLimit(now + d, "FALLBACK")
  <2>1. PICK d \in FallbackRange(consecutive + 1) :
               RecordRateLimit(now + d, "FALLBACK")
    BY <1>3
  <2>2. d \in Nat /\ d <= MaxFallbackDelay
    BY FallbackRangeBounded
  <2>3. now + d \in Nat /\ now + d >= now /\ now + d <= now + MaxFallbackDelay
    BY <1>0, <2>2, PacingAssumption
  <2>4. "FALLBACK" \in Sources
    BY DEF Sources
  <2>5. QED  BY <1>0, <2>1, <2>3, <2>4, RecordRateLimitEffect
<1>4. QED  BY <1>1, <1>2, <1>3 DEF RespondRateLimited

-----------------------------------------------------------------------------
(* Type correctness.                                                       *)

\* Passing the head of the chain on leaves a chain of callers.
LEMMA LeaveType ==
  ASSUME GateTypeOK, NEW c \in Callers, NEW p \in Phases, HasTurn(c), Leave(c, p)
  PROVE  queue' \in Seq(Callers) /\ phase' \in [Callers -> Phases]
<1>1. queue \in Seq(Callers) /\ queue # <<>>
  BY DEF GateTypeOK, HasTurn
<1>2. queue' \in Seq(Callers)
  BY <1>1, HeadTailProperties DEF Leave
<1>3. QED  BY <1>2 DEF Leave, GateTypeOK

\* The step of every action; only the head of the chain wakes.
LEMMA TypeStep ==
  ASSUME GateTypeOK, SleeperOK, [GateNext]_limiterVars
  PROVE  GateTypeOK'
<1> USE DEF Phases, gateVars, limitVars
<1>1. CASE GateTick
  BY <1>1 DEF GateTick, GateTypeOK
<1>2. ASSUME NEW c \in Callers, Arrive(c) PROVE GateTypeOK'
  BY <1>2 DEF Arrive, GateTypeOK
<1>3. ASSUME NEW c \in Callers, AuthorizeFails(c) PROVE GateTypeOK'
  BY <1>3 DEF AuthorizeFails, GateTypeOK
<1>4. ASSUME NEW c \in Callers, Enqueue(c) PROVE GateTypeOK'
  BY <1>4 DEF Enqueue, GateTypeOK
<1>5. ASSUME NEW c \in Callers, EnterSleep(c) PROVE GateTypeOK'
  BY <1>5 DEF EnterSleep, GateTypeOK
<1>6. ASSUME NEW c \in Callers, HasTurn(c), Refuse(c) PROVE GateTypeOK'
  BY <1>6, LeaveType DEF Refuse, GateTypeOK
<1>7. ASSUME NEW c \in Callers, HasTurn(c), Start(c) PROVE GateTypeOK'
  BY <1>7, LeaveType, PacingAssumption DEF Start, Larger, GateTypeOK
<1>8. ASSUME NEW c \in Callers, phase[c] = "sleeping", HasTurn(c), Abort(c)
      PROVE  GateTypeOK'
  BY <1>8, LeaveType DEF Abort, GateTypeOK
<1>9. ASSUME NEW c \in Callers, phase[c] # "sleeping", Abort(c) PROVE GateTypeOK'
  BY <1>9 DEF Abort, GateTypeOK
<1>10. ASSUME NEW c \in Callers, RespondSuccess(c) PROVE GateTypeOK'
  BY <1>10 DEF RespondSuccess, GateTypeOK
<1>11. ASSUME NEW c \in Callers, RespondError(c) PROVE GateTypeOK'
  BY <1>11 DEF RespondError, GateTypeOK
<1>12. ASSUME NEW c \in Callers,
              NEW ra \in HeaderTimes \cup {Absent},
              NEW rs \in HeaderTimes \cup {Absent},
              RespondRateLimited(c, ra, rs)
       PROVE  GateTypeOK'
  <2>1. UNCHANGED <<now, queue, wakeAt, aborted, calls, gateVars>>
        /\ phase' = [phase EXCEPT ![c] = "idle"]
    BY <1>12 DEF RespondRateLimited
  <2>2. QED  BY <1>12, <2>1, RespondRateLimitedEffect DEF GateTypeOK
<1>13. CASE UNCHANGED limiterVars
  BY <1>13 DEF limiterVars, GateTypeOK
<1>14. ASSUME NEW c \in Callers, Turn(c) PROVE GateTypeOK'
  BY <1>14, <1>5, <1>6, <1>7
     DEF Turn, EnterAborted, EnterCooldown, EnterStart
<1>15. ASSUME NEW c \in Callers, WakeUp(c) PROVE GateTypeOK'
  BY <1>15, <1>6, <1>7 DEF WakeUp, WakeCooldown, WakeStart, SleeperOK
<1>16. ASSUME NEW c \in Callers, Abort(c) PROVE GateTypeOK'
  BY <1>16, <1>8, <1>9 DEF SleeperOK
<1>17. QED
  BY <1>1, <1>2, <1>3, <1>4, <1>10, <1>11, <1>12, <1>13, <1>14, <1>15, <1>16
     DEF GateNext

-----------------------------------------------------------------------------
(* The sleeper and its slot.                                               *)

\* A caller that leaves the chain was its head, so nobody sleeps afterwards.
LEMMA LeaveSleeper ==
  ASSUME GateTypeOK, SleeperOK, NEW c \in Callers, NEW p \in Phases,
         p # "sleeping", HasTurn(c), Leave(c, p)
  PROVE  SleeperOK'
  BY DEF SleeperOK, HasTurn, Leave, GateTypeOK

\* No step moves the slot a caller sleeps for.
LEMMA SleeperStep ==
  ASSUME GateTypeOK, SleeperOK, [GateNext]_limiterVars
  PROVE  SleeperOK'
<1> USE DEF Phases, gateVars, limitVars
<1>1. CASE GateTick
  BY <1>1 DEF GateTick, SleeperOK, HasTurn
<1>2. ASSUME NEW c \in Callers, Arrive(c) PROVE SleeperOK'
  BY <1>2 DEF Arrive, GateTypeOK, SleeperOK, HasTurn
<1>3. ASSUME NEW c \in Callers, AuthorizeFails(c) PROVE SleeperOK'
  BY <1>3 DEF AuthorizeFails, GateTypeOK, SleeperOK, HasTurn
<1>4. ASSUME NEW c \in Callers, Enqueue(c) PROVE SleeperOK'
  <2>1. queue # <<>> => queue' # <<>> /\ Head(queue') = Head(queue)
    BY <1>4 DEF Enqueue, GateTypeOK
  <2>2. QED  BY <1>4, <2>1 DEF Enqueue, GateTypeOK, SleeperOK, HasTurn
<1>5. ASSUME NEW c \in Callers, EnterSleep(c) PROVE SleeperOK'
  BY <1>5 DEF EnterSleep, GateTypeOK, SleeperOK, HasTurn
<1>6. ASSUME NEW c \in Callers, HasTurn(c), Refuse(c) PROVE SleeperOK'
  BY <1>6, LeaveSleeper DEF Refuse
<1>7. ASSUME NEW c \in Callers, HasTurn(c), Start(c) PROVE SleeperOK'
  BY <1>7, LeaveSleeper DEF Start
<1>8. ASSUME NEW c \in Callers, phase[c] = "sleeping", Abort(c) PROVE SleeperOK'
  BY <1>8, LeaveSleeper DEF Abort, SleeperOK
<1>9. ASSUME NEW c \in Callers, phase[c] # "sleeping", Abort(c) PROVE SleeperOK'
  BY <1>9 DEF Abort, GateTypeOK, SleeperOK, HasTurn
<1>10. ASSUME NEW c \in Callers,
              RespondSuccess(c) \/ RespondError(c)
              \/ \E ra, rs \in HeaderTimes \cup {Absent} :
                   RespondRateLimited(c, ra, rs)
       PROVE  SleeperOK'
  BY <1>10 DEF RespondSuccess, RespondError, RespondRateLimited, GateTypeOK,
               SleeperOK, HasTurn
<1>11. CASE UNCHANGED limiterVars
  BY <1>11 DEF limiterVars, SleeperOK, HasTurn
<1>12. ASSUME NEW c \in Callers, Turn(c) PROVE SleeperOK'
  BY <1>12, <1>5, <1>6, <1>7
     DEF Turn, EnterAborted, EnterCooldown, EnterStart
<1>13. ASSUME NEW c \in Callers, WakeUp(c) PROVE SleeperOK'
  BY <1>13, <1>6, <1>7 DEF WakeUp, WakeCooldown, WakeStart, SleeperOK
<1>14. QED
  BY <1>1, <1>2, <1>3, <1>4, <1>8, <1>9, <1>10, <1>11, <1>12, <1>13 DEF GateNext

\* A step starts a request only when the reserved slot has come and no
\* cooldown is in force, or it leaves the slot alone.
LEMMA StartStep ==
  ASSUME GateTypeOK, SleeperOK, [GateNext]_limiterVars
  PROVE  \/ /\ nextRequestAt <= now /\ ~CoolingDown
            /\ nextRequestAt' = now + MinInterval
            /\ lastStart' = now /\ now' = now
            /\ cooldownUntil' = cooldownUntil
         \/ /\ UNCHANGED <<nextRequestAt, lastStart>>
            /\ now' \in {now, now + 1}
            /\ \A c \in Callers : ~Starts(c)
<1> USE DEF gateVars, limitVars
<1>1. ASSUME NEW c \in Callers, Start(c), nextRequestAt <= now, ~CoolingDown
      PROVE  /\ nextRequestAt <= now /\ ~CoolingDown
             /\ nextRequestAt' = now + MinInterval
             /\ lastStart' = now /\ now' = now
             /\ cooldownUntil' = cooldownUntil
  BY <1>1, PacingAssumption DEF Start, Larger, GateTypeOK
<1>2. ASSUME NEW c \in Callers, EnterStart(c) \/ WakeStart(c)
      PROVE  Start(c) /\ nextRequestAt <= now /\ ~CoolingDown
  BY <1>2 DEF EnterStart, WakeStart, SleeperOK, HasTurn, GateTypeOK
<1> DEFINE Quiet == /\ UNCHANGED <<nextRequestAt, lastStart>>
                    /\ now' \in {now, now + 1}
                    /\ \A c \in Callers : ~Starts(c)
<1>3. CASE GateTick
  BY <1>3 DEF GateTick, Starts
<1>4. ASSUME NEW c \in Callers, Arrive(c) \/ AuthorizeFails(c) \/ Enqueue(c)
      PROVE  Quiet
  BY <1>4 DEF Arrive, AuthorizeFails, Enqueue, Starts, GateTypeOK
<1>5. ASSUME NEW c \in Callers, EnterSleep(c) \/ Refuse(c)
      PROVE  Quiet
  BY <1>5 DEF EnterSleep, Refuse, Leave, Starts, GateTypeOK
<1>6. ASSUME NEW c \in Callers, Abort(c)
      PROVE  Quiet
  BY <1>6 DEF Abort, Leave, Starts, GateTypeOK
<1>7. ASSUME NEW c \in Callers,
             RespondSuccess(c) \/ RespondError(c)
             \/ \E ra, rs \in HeaderTimes \cup {Absent} :
                  RespondRateLimited(c, ra, rs)
      PROVE  Quiet
  BY <1>7 DEF RespondSuccess, RespondError, RespondRateLimited, Starts, GateTypeOK
<1>8. CASE UNCHANGED limiterVars
  BY <1>8 DEF limiterVars, Starts
<1> HIDE DEF Quiet
<1>9. ASSUME NEW c \in Callers, Turn(c) \/ WakeUp(c)
      PROVE  Quiet \/ EnterStart(c) \/ WakeStart(c)
  BY <1>9, <1>5 DEF Turn, WakeUp, EnterAborted, EnterCooldown, WakeCooldown
<1>10. CASE \E c \in Callers : EnterStart(c) \/ WakeStart(c)
  BY <1>1, <1>2, <1>10
<1>11. CASE Quiet
  BY <1>11 DEF Quiet
<1>12. QED
  BY <1>3, <1>4, <1>6, <1>7, <1>8, <1>9, <1>10, <1>11 DEF GateNext, Quiet

-----------------------------------------------------------------------------
(* The invariant and the theorems.                                         *)

\* The next slot stays MinInterval after the latest start.
LEMMA SlotStep ==
  ASSUME GateTypeOK, SleeperOK, SlotOK, [GateNext]_limiterVars
  PROVE  SlotOK'
<1>1. CASE nextRequestAt' = now + MinInterval /\ lastStart' = now /\ now' = now
  BY <1>1, PacingAssumption DEF SlotOK, GateTypeOK
<1>2. CASE UNCHANGED <<nextRequestAt, lastStart>> /\ now' \in {now, now + 1}
  BY <1>2, PacingAssumption, NeverAssumption DEF SlotOK, GateTypeOK
<1>3. QED  BY <1>1, <1>2, StartStep

\* The steps other than a 429 response leave the cooldown alone.
LEMMA LimitStep ==
  ASSUME GateTypeOK, [GateNext]_limiterVars
  PROVE  \/ \E c \in Callers : \E ra, rs \in HeaderTimes \cup {Absent} :
              RespondRateLimited(c, ra, rs)
         \/ /\ UNCHANGED <<cooldownUntil, last429At, retryAfterSeconds, rateLimitCount, source>>
            /\ now' \in {now, now + 1}
<1> USE DEF limitVars
<1>1. CASE GateTick
  BY <1>1 DEF GateTick
<1>2. ASSUME NEW c \in Callers, Arrive(c) \/ AuthorizeFails(c) \/ Enqueue(c)
      PROVE  UNCHANGED <<cooldownUntil, last429At, retryAfterSeconds, rateLimitCount, source,
                         now>>
  BY <1>2 DEF Arrive, AuthorizeFails, Enqueue
<1>3. ASSUME NEW c \in Callers, Turn(c) \/ WakeUp(c) \/ Abort(c)
      PROVE  UNCHANGED <<cooldownUntil, last429At, retryAfterSeconds, rateLimitCount, source,
                         now>>
  BY <1>3 DEF Turn, WakeUp, Abort, EnterAborted, EnterCooldown, EnterSleep,
              EnterStart, WakeCooldown, WakeStart, Refuse, Start
<1>4. ASSUME NEW c \in Callers, RespondSuccess(c) \/ RespondError(c)
      PROVE  UNCHANGED <<cooldownUntil, last429At, retryAfterSeconds, rateLimitCount, source,
                         now>>
  BY <1>4 DEF RespondSuccess, RespondError
<1>5. CASE UNCHANGED limiterVars
  BY <1>5 DEF limiterVars
<1>6. QED  BY <1>1, <1>2, <1>3, <1>4, <1>5 DEF GateNext

\* No step shortens the cooldown or makes its end unadvertised.
LEMMA CooldownStep ==
  ASSUME GateTypeOK, CooldownOK, [GateNext]_limiterVars
  PROVE  /\ CooldownOK' /\ cooldownUntil' >= cooldownUntil
         /\ source' # source =>
              IF source' = "FALLBACK" THEN cooldownUntil' <= now + MaxFallbackDelay
              ELSE cooldownUntil' \in HeaderTimes
<1>0. /\ now \in Nat /\ cooldownUntil \in Nat /\ retryAfterSeconds \in Nat
      /\ last429At \in Nat \cup {Never}
  BY DEF GateTypeOK
<1>1. ASSUME NEW c \in Callers,
             NEW ra \in HeaderTimes \cup {Absent},
             NEW rs \in HeaderTimes \cup {Absent},
             RespondRateLimited(c, ra, rs)
      PROVE  /\ CooldownOK' /\ cooldownUntil' >= cooldownUntil
             /\ source' # source =>
                  IF source' = "FALLBACK" THEN cooldownUntil' <= now + MaxFallbackDelay
                  ELSE cooldownUntil' \in HeaderTimes
  <2>1. now' = now
    BY <1>1 DEF RespondRateLimited
  <2>2. PICK end \in Nat : end = cooldownUntil'
    BY <1>1, RespondRateLimitedEffect
  <2>3. FallbackBounded'
    <3>1. CASE UNCHANGED <<cooldownUntil, source>>
      <4>1. last429At' = now
        BY <1>1, RespondRateLimitedEffect
      <4>2. source = "FALLBACK" => cooldownUntil <= now + MaxFallbackDelay
        BY <1>0, PacingAssumption, NeverAssumption
           DEF CooldownOK, FallbackBounded
      <4>3. QED  BY <3>1, <4>1, <4>2 DEF FallbackBounded
    <3>2. CASE source' # "FALLBACK"
      BY <3>2 DEF FallbackBounded
    <3>3. CASE cooldownUntil' <= now + MaxFallbackDelay
      BY <1>1, <3>3, RespondRateLimitedEffect DEF FallbackBounded
    <3>4. QED  BY <1>1, <3>1, <3>2, <3>3, RespondRateLimitedEffect
  <2>4. last429At' = now /\ last429At' # Never
    BY <1>0, <1>1, NeverAssumption, RespondRateLimitedEffect
  <2>5. CooldownAdvertised'
    BY <1>1, <2>1, RespondRateLimitedEffect DEF CooldownAdvertised
  <2>6. cooldownUntil' >= cooldownUntil
    BY <1>1, RespondRateLimitedEffect
  <2>7. source' # source =>
          IF source' = "FALLBACK" THEN cooldownUntil' <= now + MaxFallbackDelay
          ELSE cooldownUntil' \in HeaderTimes
    BY <1>1, RespondRateLimitedEffect
  <2>8. QED  BY <1>0, <2>1, <2>3, <2>4, <2>5, <2>6, <2>7 DEF CooldownOK
<1>2. CASE /\ UNCHANGED <<cooldownUntil, last429At, retryAfterSeconds, rateLimitCount, source>>
           /\ now' \in {now, now + 1}
  <2>1. CooldownAdvertised'
    <3> DEFINE w == retryAfterSeconds * MsPerSecond
    <3>1. w \in Int
      BY <1>0, SecondAssumption
    <3>2. cooldownUntil > now => now + w >= cooldownUntil
      BY DEF CooldownOK, CooldownAdvertised, CoolingDown
    <3> HIDE DEF w
    <3>3. PICK t \in {now, now + 1} : t = now'
      BY <1>2
    <3>4. cooldownUntil > t => t + w >= cooldownUntil
      BY <1>0, <3>1, <3>2
    <3>5. QED  BY <1>2, <3>3, <3>4 DEF CooldownAdvertised, CoolingDown, w
  <2>2. FallbackBounded'
    BY <1>2 DEF CooldownOK, FallbackBounded
  <2>3. last429At' # Never => now' >= last429At'
    BY <1>0, <1>2, NeverAssumption DEF CooldownOK
  <2>4. last429At' = Never => cooldownUntil' = 0 /\ rateLimitCount' = 0
    BY <1>2 DEF CooldownOK
  <2>5. cooldownUntil' >= cooldownUntil
    BY <1>0, <1>2
  <2>6. QED  BY <1>2, <2>1, <2>2, <2>3, <2>4, <2>5 DEF CooldownOK
<1>3. QED  BY <1>1, <1>2, LimitStep

\* The inductive invariant.
GateInv == GateTypeOK /\ SleeperOK /\ SlotOK /\ CooldownOK

\* The gate's invariant holds along every behaviour.
LEMMA GateInvariant == GateSpec => []GateInv
<1>1. GateInit => GateInv
  BY SecondAssumption, PacingAssumption
     DEF GateInit, GateInv, GateTypeOK, SleeperOK, SlotOK, CooldownOK, Phases, Sources,
         FallbackBounded, CooldownAdvertised, CoolingDown
<1>2. GateInv /\ [GateNext]_limiterVars => GateInv'
  BY TypeStep, SleeperStep, SlotStep, CooldownStep DEF GateInv
<1>3. QED  BY <1>1, <1>2, PTL DEF GateSpec

\* Every variable stays within its type along every behaviour of the gate.
THEOREM GateTypeCorrect == GateSpec => []GateTypeOK
<1>1. GateInv => GateTypeOK
  BY DEF GateInv
<1>2. QED  BY <1>1, GateInvariant, PTL

\* start() never starts two requests less than min_interval_ms apart.
THEOREM PacingHolds == GateSpec => SpacedStarts
<1>1. GateInv /\ [GateNext]_limiterVars =>
        [\A c \in Callers :
           Starts(c) => lastStart = Never \/ now >= lastStart + MinInterval]_limiterVars
  <2> SUFFICES ASSUME GateInv, [GateNext]_limiterVars, NEW c \in Callers, Starts(c)
               PROVE  lastStart = Never \/ now >= lastStart + MinInterval
    OBVIOUS
  <2>1. nextRequestAt <= now
    BY StartStep DEF GateInv
  <2>2. QED
    BY <2>1, PacingAssumption DEF GateInv, SlotOK, GateTypeOK
<1>2. QED  BY <1>1, GateInvariant, PTL DEF GateSpec, SpacedStarts

\* No request starts during a cooldown, also not one that was imposed while
\* the caller slept at the gate.
THEOREM CooldownRespected == GateSpec => NoStartInCooldown
<1>1. GateInv /\ [GateNext]_limiterVars =>
        [\A c \in Callers : Starts(c) => cooldownUntil <= now]_limiterVars
  <2> SUFFICES ASSUME GateInv, [GateNext]_limiterVars, NEW c \in Callers, Starts(c)
               PROVE  cooldownUntil <= now
    OBVIOUS
  <2>1. ~CoolingDown
    BY StartStep DEF GateInv
  <2>2. QED  BY <2>1 DEF GateInv, CoolingDown, GateTypeOK
<1>2. QED  BY <1>1, GateInvariant, PTL DEF GateSpec, NoStartInCooldown

\* recordRateLimit never moves the end of the cooldown back, and changes its
\* source only with a response that asked for the end it then has.
THEOREM CooldownMonotone == GateSpec => CooldownNeverShortened
<1>1. GateInv /\ [GateNext]_limiterVars =>
        [/\ cooldownUntil' >= cooldownUntil
         /\ source' # source =>
              IF source' = "FALLBACK" THEN cooldownUntil' <= now + MaxFallbackDelay
              ELSE cooldownUntil' \in HeaderTimes]_limiterVars
  BY CooldownStep DEF GateInv
<1>2. QED  BY <1>1, GateInvariant, PTL DEF GateSpec, CooldownNeverShortened

\* retry_after_seconds, waited from any moment of the cooldown, covers it.
THEOREM AdvertisedWaitCovers == GateSpec => []CooldownAdvertised
<1>1. GateInv => CooldownAdvertised
  BY DEF GateInv, CooldownOK
<1>2. QED  BY <1>1, GateInvariant, PTL

\* A cooldown reported as FALLBACK ends within max_fallback_delay_ms of the
\* latest 429.
THEOREM FallbackWithinCap == GateSpec => []FallbackBounded
<1>1. GateInv => FallbackBounded
  BY DEF GateInv, CooldownOK
<1>2. QED  BY <1>1, GateInvariant, PTL

-----------------------------------------------------------------------------
(* The discovery: the parts of its inductive invariant.                     *)

Running == run.phase = "running"

\* Of the state that the next call starts from.
Plans ==
  /\ state # None => ValidContinuation(state)
  /\ run.phase # "complete" => Continuation = state
  /\ CursorFaithful

\* What a call took of its plan.
ReadyAt(plan, time) ==
  {i \in DOMAIN plan.deferred :
     Most(IF plan.deferred[i].at = None THEN 0 ELSE plan.deferred[i].at,
          IF Concerns(plan.rate, plan.deferred[i]) THEN plan.rate.until ELSE 0) <= time}

Shortest(waiting) == Least(Len(waiting), MaxCheckpointsPerRun)
Taken ==
  Running =>
    LET plan == run.plan
        ready == ReadyAt(plan, run.started)
    IN  /\ state # None /\ plan = state /\ run.started <= clock
        /\ IF run.mode = "CACHE_ONLY" THEN run.eligible = plan.deferred
           ELSE /\ run.eligible = Picked(plan.deferred, ready)
                /\ run.cooling = Picked(plan.deferred, DOMAIN plan.deferred \ ready)
        /\ IF FirstPass(plan)
           THEN run.schedule = [i \in 1..Shortest(plan.unattempted) |->
                                  Deferred(plan.unattempted[i])]
           ELSE run.schedule = SubSeq(run.eligible, 1, Shortest(run.eligible))

\* Every checkpoint is through, at a worker or still to be taken.
Pool ==
  /\ ~Running => results = <<>> /\ \A w \in Workers : worker[w] = Idle
  /\ Running =>
       /\ DOMAIN results = DOMAIN run.schedule
       /\ run.next <= Len(run.schedule) => \E w \in Workers : worker[w].at # 0
       /\ \A i \in DOMAIN results :
            i < run.next /\ results[i] = None => \E w \in Workers : worker[w].at = i
       /\ \A w \in Workers : worker[w].at # 0 => worker[w].at \in DOMAIN run.schedule

\* What the result of a checkpoint says.
Sound(c) ==
  /\ c.failure = None => c.status \in Statuses
  /\ c.failure # None => c.retry.error = c.failure.category
  /\ IsLimited(c) => c.retry.at \in Nat /\ c.retry.provider = Provider
Checks ==
  \A i \in DOMAIN results : results[i] # None =>
    results[i].date = run.schedule[i].date /\ Sound(results[i])

\* Every timer of a worker is due by its deadline.
Timely(me, time) ==
  /\ me.started <= time /\ time <= me.started + CheckpointDeadline
  /\ me.pc \in {"wait", "pause"} => me.wake <= me.started + CheckpointDeadline
  /\ me.pc = "pause" => me.attempt < MaxAttempts
  /\ me.found + me.left <= NumItems
  /\ me.pc \in {"reconstruct", "pause"} => me.left = NumItems
  /\ me.pc \in {"item", "wait"} => me.left > 0
Timers == \A w \in Workers : worker[w].at # 0 => Timely(worker[w], clock)

DatesIn(waiting) == {waiting[i].date : i \in DOMAIN waiting}
Distinct(waiting) == \A i, j \in DOMAIN waiting : waiting[i].date = waiting[j].date => i = j
Ahead(waiting, d, e) ==
  \E i, j \in DOMAIN waiting : i < j /\ waiting[i].date = d /\ waiting[j].date = e

\* Those who were passed over are ahead of those who were not.
Order ==
  state # None =>
    /\ state.unattempted # <<>> => \A d \in Dates : passed[d] = {}
    /\ \A d, e \in DatesIn(state.deferred) : e \in passed[d] => Ahead(state.deferred, d, e)

\* The cursor knows of every cooldown.
Remembered ==
  told > 0 => state # None /\ state.rate # None /\ told <= state.rate.until

IInv ==
  /\ TypeOK /\ Plans /\ Taken /\ Pool /\ Checks /\ Timers /\ Order /\ Remembered

-----------------------------------------------------------------------------
(* Facts about numbers and finite sets.                                     *)

\* The numbers the configuration sets.
LEMMA ConstantTypes ==
  /\ NumDates \in Nat \ {0} /\ MaxConcurrency \in Nat \ {0}
  /\ MaxCheckpointsPerRun \in Nat \ {0} /\ CheckpointDeadline \in Nat \ {0}
  /\ MaxAttempts \in Nat \ {0} /\ NumItems \in Nat \ {0}
  /\ Backoff \in Nat /\ PollInterval \in Nat /\ MaxPolls \in Nat
  /\ MaxFallback \in Nat /\ MaxRetryCount \in Nat \ {0}
  BY PoolAssumption, DelayAssumption, ItemsAssumption

\* A set of naturals that is not empty has a least member.
LEMMA LeastMember ==
  ASSUME NEW S \in SUBSET Nat, S # {}
  PROVE  \E x \in S : \A y \in S : x <= y
<1>1. PICK x \in S : \A y \in S : <<y, x>> \notin OpToRel(<, Nat)
  BY NatLessThanWellFounded, WFMin
<1>2. \A y \in S : ~(y < x)
  BY <1>1, Zenon DEF OpToRel
<1> QED BY <1>2

\* Finitely many naturals are bounded by one of them.
LEMMA Peak ==
  ASSUME NEW n \in Nat \ {0}, NEW g \in [1..n -> Nat]
  PROVE  \E i \in 1..n : \A j \in 1..n : g[j] <= g[i]
<1> DEFINE Bounds(m, k) == \A i \in 1..k : g[i] <= m
           bad == {k \in 0..n : \A m \in Nat : ~Bounds(m, k)}
           above == {m \in Nat : Bounds(m, n)}
<1>1. bad = {}
  <2> SUFFICES ASSUME bad # {} PROVE FALSE
    OBVIOUS
  <2>1. PICK k \in bad : \A l \in bad : k <= l
    <3>1. bad \in SUBSET Nat
      OBVIOUS
    <3> HIDE DEF bad
    <3> QED BY <3>1, LeastMember
  <2>2. k \in 0..n /\ \A m \in Nat : ~Bounds(m, k)
    BY <2>1
  <2>3. k # 0
    <3>1. Bounds(0, 0)
      OBVIOUS
    <3> HIDE DEF Bounds
    <3> QED BY <2>2, <3>1
  <2>4. k - 1 \in 0..n /\ k - 1 \notin bad
    <3>1. k - 1 \in 0..n /\ ~(k <= k - 1)
      BY <2>2, <2>3
    <3> HIDE DEF bad
    <3> QED BY <3>1, <2>1
  <2>5. PICK m \in Nat : Bounds(m, k - 1)
    <3> HIDE DEF Bounds
    <3> QED BY <2>4
  <2>6. k \in 1..n /\ g[k] \in Nat
    <3> HIDE DEF bad, Bounds
    <3>1. k \in 1..n
      BY <2>2, <2>3
    <3> QED BY <3>1
  <2>7. \A top \in Nat : m <= top /\ g[k] <= top => Bounds(top, k)
    <3> SUFFICES ASSUME NEW top \in Nat, m <= top, g[k] <= top, NEW i \in 1..k
                 PROVE  g[i] <= top
      OBVIOUS
    <3>1. CASE i = k
      BY <3>1
    <3>2. CASE i # k
      <4>1. i \in 1..(k - 1) /\ i \in 1..n
        BY <3>2, <2>6
      <4>2. g[i] \in Nat /\ g[i] <= m
        BY <4>1, <2>5
      <4>3. m \in Nat
        BY <2>5
      <4> QED BY <4>2, <4>3
    <3> QED BY <3>1, <3>2
  <2> HIDE DEF Bounds
  <2> QED BY <2>2, <2>5, <2>6, <2>7
<1>2. PICK m \in Nat : Bounds(m, n)
  <2>1. n \in 0..n
    OBVIOUS
  <2>2. n \notin bad
    BY <1>1, Zenon
  <2> HIDE DEF Bounds
  <2> QED BY <2>1, <2>2
<1>3. PICK u \in above : \A v \in above : u <= v
  <2>1. above \in SUBSET Nat /\ above # {}
    BY <1>2
  <2> HIDE DEF above
  <2> QED BY <2>1, LeastMember
<1>4. u \in Nat /\ \A i \in 1..n : g[i] <= u
  BY <1>3
<1>5. \E i \in 1..n : g[i] >= u
  <2> SUFFICES ASSUME \A i \in 1..n : g[i] < u PROVE FALSE
    BY <1>4
  <2>1. u # 0
    BY <1>4, 1 \in 1..n
  <2>2. u - 1 \in Nat /\ Bounds(u - 1, n)
    BY <2>1, <1>4
  <2>3. u - 1 \in above /\ ~(u <= u - 1)
    <3> HIDE DEF Bounds
    <3> QED BY <2>2, <1>4
  <2> HIDE DEF above
  <2> QED BY <2>3, <1>3
<1> QED BY <1>4, <1>5

\* What FirstLongest chooses is one of the indices and lasts as long as any.
LEMMA FirstLongestFact ==
  ASSUME NEW n \in Nat, NEW I \in SUBSET (1..n), I # {}, NEW until,
         \A i \in I : until[i] \in Int /\ until[i] >= -1
  PROVE  /\ FirstLongest(I, until) \in I
         /\ \A j \in I : until[j] <= until[FirstLongest(I, until)]
<1> DEFINE g == [i \in 1..n |-> IF i \in I THEN until[i] + 2 ELSE 0]
<1>1. n \in Nat \ {0}
  <2>1. PICK i \in I : i \in 1..n
    OBVIOUS
  <2> QED BY <2>1
<1>2. g \in [1..n -> Nat]
  OBVIOUS
<1>3. \A j \in I : g[j] = until[j] + 2 /\ g[j] >= 1 /\ j \in 1..n /\ until[j] \in Int
  OBVIOUS
<1>4. \A j \in 1..n : j \notin I => g[j] = 0
  OBVIOUS
<1> HIDE DEF g
<1>5. PICK p \in 1..n : \A j \in 1..n : g[j] <= g[p]
  BY <1>1, <1>2, Peak
<1>6. p \in I
  <2>1. PICK i \in I : TRUE
    OBVIOUS
  <2>2. g[i] <= g[p] /\ g[i] >= 1 /\ g[i] \in Int
    BY <1>3, <1>5
  <2> QED BY <2>2, <1>4, <1>5
<1>7. \A j \in I : until[j] <= until[p]
  BY <1>3, <1>5, <1>6
<1> DEFINE longest == {i \in I : until[i] = until[p]}
<1>8. PICK l \in longest : \A j \in longest : l <= j
  <2>1. p \in longest /\ \A i \in longest : i \in Nat
    BY <1>3, <1>6
  <2> HIDE DEF longest
  <2> QED BY <2>1, LeastMember
<1>9. l \in I /\ \A j \in I : until[j] < until[l] \/ (until[j] = until[l] /\ l <= j)
  BY <1>3, <1>6, <1>7, <1>8
<1>10. /\ FirstLongest(I, until) \in I
       /\ \A j \in I : \/ until[j] < until[FirstLongest(I, until)]
                       \/ /\ until[j] = until[FirstLongest(I, until)]
                          /\ FirstLongest(I, until) <= j
  BY <1>9, Zenon DEF FirstLongest
<1> DEFINE chosen == FirstLongest(I, until)
<1>11. \A j \in I : until[j] < until[chosen] \/ until[j] = until[chosen]
  BY <1>10
<1>12. chosen \in I
  BY <1>10
<1> HIDE DEF chosen
<1>13. \A j \in I : until[j] <= until[chosen]
  BY <1>3, <1>11, <1>12
<1> QED BY <1>12, <1>13 DEF chosen

\* The largest of the numbers that finitely many indices have.
LEMMA MaxFact ==
  ASSUME NEW n \in Nat \ {0}, NEW g \in [1..n -> Nat]
  PROVE  /\ Max({g[i] : i \in 1..n}) \in {g[i] : i \in 1..n}
         /\ Max({g[i] : i \in 1..n}) \in Nat
         /\ \A i \in 1..n : g[i] <= Max({g[k] : k \in 1..n})
<1>1. PICK p \in 1..n : \A j \in 1..n : g[j] <= g[p]
  BY Peak
<1>2. g[p] \in {g[i] : i \in 1..n} /\ \A y \in {g[i] : i \in 1..n} : g[p] >= y
  BY <1>1
<1>3. /\ Max({g[i] : i \in 1..n}) \in {g[i] : i \in 1..n}
      /\ \A y \in {g[i] : i \in 1..n} : Max({g[i] : i \in 1..n}) >= y
  BY <1>2, Zenon DEF Max
<1> QED BY <1>3

-----------------------------------------------------------------------------
(* The members of a sequence at some indices.                               *)

Increasing(f) == \A i, j \in DOMAIN f : i < j => f[i] < f[j]

\* An increasing sequence of as many indices as there are is all of them.
LEMMA IncreasingCovers ==
  ASSUME NEW I \in SUBSET Nat, IsFiniteSet(I),
         NEW f \in [1..Cardinality(I) -> I], Increasing(f)
  PROVE  \A x \in I : \E k \in 1..Cardinality(I) : f[k] = x
<1> DEFINE n == Cardinality(I)
<1>1. n \in Nat
  BY FS_CardinalityType
<1>2. f \in Injection(1..n, I)
  <2>1. ASSUME NEW i \in 1..n, NEW j \in 1..n, f[i] = f[j] PROVE i = j
    <3>1. f[i] \in I /\ f[j] \in I /\ i \in Nat /\ j \in Nat
      BY <1>1
    <3>2. ~(i < j) /\ ~(j < i)
      <4>1. f[i] \in Nat /\ f[j] \in Nat /\ DOMAIN f = 1..n
        BY <3>1
      <4> QED BY <2>1, <4>1 DEF Increasing
    <3> QED BY <3>1, <3>2
  <2> QED BY <2>1 DEF Injection, IsInjective
<1>3. IsFiniteSet(1..n) /\ Cardinality(1..n) = n
  BY <1>1, FS_Interval
<1>4. f \in Surjection(1..n, I)
  BY <1>2, <1>3, FS_Injection
<1> QED BY <1>4 DEF Surjection

\* Finitely many naturals can be put in order.
LEMMA OrderExists ==
  ASSUME NEW I \in SUBSET Nat, IsFiniteSet(I)
  PROVE  \E f \in [1..Cardinality(I) -> I] : Increasing(f)
<1> DEFINE n == Cardinality(I)
           upTo(i) == {j \in I : j <= i}
           rank == [i \in I |-> Cardinality(upTo(i))]
<1>1. n \in Nat
  BY FS_CardinalityType
<1>2. \A i \in I : IsFiniteSet(upTo(i)) /\ Cardinality(upTo(i)) \in 1..n
  <2> TAKE i \in I
  <2>1. IsFiniteSet(upTo(i)) /\ Cardinality(upTo(i)) <= n
    BY FS_Subset
  <2>2. i \in upTo(i)
    OBVIOUS
  <2>3. Cardinality(upTo(i)) \in Nat /\ Cardinality(upTo(i)) # 0
    <3> HIDE DEF upTo
    <3> QED BY <2>1, <2>2, FS_CardinalityType, FS_EmptySet
  <2> QED BY <1>1, <2>1, <2>3
<1>3. \A i, j \in I : i < j => rank[i] < rank[j]
  <2> SUFFICES ASSUME NEW i \in I, NEW j \in I, i < j PROVE rank[i] < rank[j]
    OBVIOUS
  <2>1. upTo(i) \in SUBSET upTo(j) /\ j \in upTo(j) /\ j \notin upTo(i)
    <3>1. i \in Nat /\ j \in Nat /\ \A k \in I : k \in Nat
      OBVIOUS
    <3>2. \A k \in I : k <= i => k <= j
      BY <3>1
    <3>3. ~(j <= i) /\ j <= j
      BY <3>1
    <3> QED BY <3>2, <3>3
  <2>2. Cardinality(upTo(i)) <= Cardinality(upTo(j)) /\ Cardinality(upTo(i)) # Cardinality(upTo(j))
    <3>1. IsFiniteSet(upTo(j))
      BY <1>2
    <3> HIDE DEF upTo
    <3> QED BY <2>1, <3>1, FS_Subset
  <2>3. Cardinality(upTo(i)) \in Nat /\ Cardinality(upTo(j)) \in Nat
    BY <1>1, <1>2
  <2> QED BY <2>2, <2>3
<1>4. rank \in [I -> 1..n]
  BY <1>2
<1> HIDE DEF rank
<1>5. rank \in Surjection(I, 1..n)
  <2>1. ASSUME NEW i \in I, NEW j \in I, rank[i] = rank[j] PROVE i = j
    <3>1. rank[i] \in Nat /\ rank[j] \in Nat /\ i \in Nat /\ j \in Nat
      BY <1>1, <1>4
    <3>2. ~(i < j) /\ ~(j < i)
      BY <1>3, <2>1, <3>1
    <3> QED BY <3>1, <3>2
  <2>2. rank \in Injection(I, 1..n)
    BY <1>4, <2>1 DEF Injection, IsInjective
  <2>3. IsFiniteSet(1..n) /\ Cardinality(1..n) = n
    BY <1>1, FS_Interval
  <2> QED BY <2>2, <2>3, FS_Injection
<1> DEFINE f == [k \in 1..n |-> CHOOSE i \in I : rank[i] = k]
<1>6. \A k \in 1..n : f[k] \in I /\ rank[f[k]] = k
  <2> TAKE k \in 1..n
  <2>1. \E i \in I : rank[i] = k
    BY <1>5 DEF Surjection
  <2>2. f[k] = CHOOSE i \in I : rank[i] = k
    OBVIOUS
  <2> HIDE DEF f
  <2> QED BY <2>1, <2>2, Zenon
<1>7. f \in [1..n -> I]
  BY <1>6
<1>8. Increasing(f)
  <2>1. DOMAIN f = 1..n
    OBVIOUS
  <2> HIDE DEF f
  <2> SUFFICES ASSUME NEW i \in 1..n, NEW j \in 1..n, i < j PROVE f[i] < f[j]
    BY <2>1 DEF Increasing
  <2>2. f[i] \in I /\ f[j] \in I /\ rank[f[i]] = i /\ rank[f[j]] = j
    BY <1>6
  <2>3. i \in Nat /\ j \in Nat
    BY <1>1
  <2>6. f[i] \in Nat /\ f[j] \in Nat
    BY <2>2
  <2>4. f[i] # f[j]
    BY <2>2, <2>3
  <2>5. ~(f[j] < f[i])
    BY <1>3, <2>6, <2>2, <2>3
  <2> QED BY <2>6, <2>3, <2>4, <2>5
<1> QED BY <1>7, <1>8

\* f puts the indices in the order in which Picked takes them.
PickOrder(f, s, I) ==
  /\ f \in [1..Cardinality(I) -> I] /\ Increasing(f)
  /\ \A x \in I : \E k \in 1..Cardinality(I) : f[k] = x
  /\ Picked(s, I) = [k \in 1..Cardinality(I) |-> s[f[k]]]

\* Picked takes each of the indices once, in order.
LEMMA PickedFact ==
  ASSUME NEW s, NEW n \in Nat, NEW I \in SUBSET (1..n)
  PROVE  Cardinality(I) \in Nat /\ \E f : PickOrder(f, s, I)
<1>1. IsFiniteSet(I) /\ I \in SUBSET Nat
  <2>1. IsFiniteSet(1..n)
    BY FS_Interval
  <2>2. IsFiniteSet(I)
    BY <2>1, FS_Subset
  <2>3. I \in SUBSET Nat
    OBVIOUS
  <2> QED BY <2>2, <2>3
<1>2. Cardinality(I) \in Nat
  BY <1>1, FS_CardinalityType
<1> DEFINE order == CHOOSE f \in [1..Cardinality(I) -> I] :
                      \A i, j \in DOMAIN f : i < j => f[i] < f[j]
<1>3. order \in [1..Cardinality(I) -> I] /\ Increasing(order)
  <2>1. \E f \in [1..Cardinality(I) -> I] : \A i, j \in DOMAIN f : i < j => f[i] < f[j]
    BY <1>1, OrderExists DEF Increasing
  <2> QED BY <2>1, Zenon DEF Increasing
<1>4. Picked(s, I) = [k \in DOMAIN order |-> s[order[k]]]
  BY DEF Picked
<1> HIDE DEF order
<1>5. DOMAIN order = 1..Cardinality(I)
  BY <1>3
<1>6. \A x \in I : \E k \in 1..Cardinality(I) : order[k] = x
  BY <1>1, <1>3, IncreasingCovers
<1>7. Picked(s, I) = [k \in 1..Cardinality(I) |-> s[order[k]]]
  BY <1>4, <1>5
<1> QED BY <1>2, <1>3, <1>6, <1>7 DEF PickOrder

-----------------------------------------------------------------------------
(* The sessions of a queue: which are in it, once, and who is ahead.         *)

\* A concatenation has the sessions of both, those of the first ahead.
LEMMA ConcatDates ==
  ASSUME NEW S, NEW p \in Seq(S), NEW q \in Seq(S)
  PROVE  /\ p \o q \in Seq(S)
         /\ DatesIn(p \o q) = DatesIn(p) \cup DatesIn(q)
         /\ Distinct(p) /\ Distinct(q) /\ DatesIn(p) \cap DatesIn(q) = {} => Distinct(p \o q)
         /\ \A d, e : \/ Ahead(p, d, e) \/ Ahead(q, d, e)
                      \/ d \in DatesIn(p) /\ e \in DatesIn(q)
                      => Ahead(p \o q, d, e)
<1> DEFINE r == p \o q
<1>1. /\ r \in Seq(S) /\ Len(p) \in Nat /\ Len(q) \in Nat
      /\ DOMAIN p = 1..Len(p) /\ DOMAIN q = 1..Len(q) /\ DOMAIN r = 1..(Len(p) + Len(q))
  OBVIOUS
<1>2. /\ \A i \in DOMAIN p : i \in DOMAIN r /\ r[i] = p[i]
      /\ \A i \in DOMAIN q : i + Len(p) \in DOMAIN r /\ r[i + Len(p)] = q[i]
  OBVIOUS
<1>3. \A i \in DOMAIN r :
        \/ i \in DOMAIN p
        \/ i > Len(p) /\ i - Len(p) \in DOMAIN q /\ r[i] = q[i - Len(p)]
  OBVIOUS
<1> HIDE DEF r
<1>4. DatesIn(r) = DatesIn(p) \cup DatesIn(q)
  <2>1. ASSUME NEW d \in DatesIn(r) PROVE d \in DatesIn(p) \cup DatesIn(q)
    <3>1. PICK i \in DOMAIN r : d = r[i].date
      BY <2>1 DEF DatesIn
    <3> QED BY <3>1, <1>2, <1>3 DEF DatesIn
  <2>2. ASSUME NEW d \in DatesIn(p) PROVE d \in DatesIn(r)
    BY <1>2 DEF DatesIn
  <2>3. ASSUME NEW d \in DatesIn(q) PROVE d \in DatesIn(r)
    BY <1>2 DEF DatesIn
  <2> QED BY <2>1, <2>2, <2>3
<1>5. ASSUME Distinct(p), Distinct(q), DatesIn(p) \cap DatesIn(q) = {} PROVE Distinct(r)
  <2> SUFFICES ASSUME NEW i \in DOMAIN r, NEW j \in DOMAIN r, r[i].date = r[j].date
               PROVE  i = j
    BY DEF Distinct
  <2>5. i \in Nat /\ j \in Nat
    BY <1>1
  <2>1. CASE i \in DOMAIN p /\ j \in DOMAIN p
    BY <2>1, <1>2, <1>5 DEF Distinct
  <2>2. CASE i \in DOMAIN p /\ j \notin DOMAIN p
    <3>1. r[i].date \in DatesIn(p)
      BY <2>2, <1>2 DEF DatesIn
    <3>2. r[j].date \in DatesIn(q)
      BY <2>2, <1>3 DEF DatesIn
    <3> QED BY <3>1, <3>2, <1>5
  <2>3. CASE i \notin DOMAIN p /\ j \in DOMAIN p
    <3>1. r[j].date \in DatesIn(p)
      BY <2>3, <1>2 DEF DatesIn
    <3>2. r[i].date \in DatesIn(q)
      BY <2>3, <1>3 DEF DatesIn
    <3> QED BY <3>1, <3>2, <1>5
  <2>4. CASE i \notin DOMAIN p /\ j \notin DOMAIN p
    <3>1. i - Len(p) = j - Len(p)
      BY <2>4, <1>3, <1>5 DEF Distinct
    <3> QED BY <3>1, <2>5, <1>1
  <2> QED BY <2>1, <2>2, <2>3, <2>4
<1>6. ASSUME NEW d, NEW e, Ahead(p, d, e) PROVE Ahead(r, d, e)
  BY <1>2, <1>6 DEF Ahead
<1>7. ASSUME NEW d, NEW e, Ahead(q, d, e) PROVE Ahead(r, d, e)
  <2>1. PICK i \in DOMAIN q, j \in DOMAIN q : i < j /\ q[i].date = d /\ q[j].date = e
    BY <1>7 DEF Ahead
  <2>2. i + Len(p) < j + Len(p)
    BY <1>1, <2>1
  <2> QED BY <2>1, <2>2, <1>2 DEF Ahead
<1>8. ASSUME NEW d \in DatesIn(p), NEW e \in DatesIn(q) PROVE Ahead(r, d, e)
  <2>1. PICK i \in DOMAIN p, j \in DOMAIN q : p[i].date = d /\ q[j].date = e
    BY DEF DatesIn
  <2>2. i < j + Len(p)
    BY <1>1
  <2> QED BY <2>1, <2>2, <1>2 DEF Ahead
<1> QED BY <1>1, <1>4, <1>5, <1>6, <1>7, <1>8 DEF r

\* The two parts of a queue split its sessions and keep their order.
LEMMA SplitDates ==
  ASSUME NEW S, NEW q \in Seq(S), NEW n \in 0..Len(q)
  PROVE  LET head == SubSeq(q, 1, n)
             tail == SubSeq(q, n + 1, Len(q))
         IN  /\ head \in Seq(S) /\ tail \in Seq(S) /\ Len(head) = n
             /\ DatesIn(head) \cup DatesIn(tail) = DatesIn(q)
             /\ \A d \in DatesIn(head), e \in DatesIn(tail) : Ahead(q, d, e)
             /\ Distinct(q) =>
                  /\ Distinct(head) /\ Distinct(tail) /\ DatesIn(head) \cap DatesIn(tail) = {}
                  /\ \A d \in DatesIn(tail) : \A e : Ahead(q, d, e) => Ahead(tail, d, e)
<1> DEFINE head == SubSeq(q, 1, n)
           tail == SubSeq(q, n + 1, Len(q))
<1>1. /\ Len(q) \in Nat /\ n \in Nat /\ n <= Len(q) /\ DOMAIN q = 1..Len(q)
      /\ head \in Seq(S) /\ Len(head) = n /\ DOMAIN head = 1..n
      /\ tail \in Seq(S) /\ DOMAIN tail = 1..(Len(q) - n)
  OBVIOUS
<1>2. /\ \A i \in 1..n : head[i] = q[i] /\ i \in DOMAIN q
      /\ \A i \in 1..(Len(q) - n) : tail[i] = q[i + n] /\ i + n \in DOMAIN q
  OBVIOUS
<1>3. \A i \in DOMAIN q : i \in 1..n \/ (i > n /\ i - n \in 1..(Len(q) - n) /\ tail[i - n] = q[i])
  OBVIOUS
<1> HIDE DEF head, tail
<1>4. DatesIn(head) \cup DatesIn(tail) = DatesIn(q)
  <2>1. ASSUME NEW d \in DatesIn(q) PROVE d \in DatesIn(head) \cup DatesIn(tail)
    <3>1. PICK i \in DOMAIN q : d = q[i].date
      BY <2>1 DEF DatesIn
    <3> QED BY <3>1, <1>1, <1>2, <1>3 DEF DatesIn
  <2>2. ASSUME NEW d \in DatesIn(head) PROVE d \in DatesIn(q)
    BY <1>1, <1>2 DEF DatesIn
  <2>3. ASSUME NEW d \in DatesIn(tail) PROVE d \in DatesIn(q)
    <3>1. PICK i \in 1..(Len(q) - n) : d = tail[i].date
      BY <1>1, <2>3 DEF DatesIn
    <3>2. tail[i] = q[i + n] /\ i + n \in DOMAIN q
      BY <3>1, <1>2
    <3> QED BY <3>1, <3>2 DEF DatesIn
  <2> QED BY <2>1, <2>2, <2>3
<1>5. ASSUME NEW d \in DatesIn(head), NEW e \in DatesIn(tail) PROVE Ahead(q, d, e)
  <2>1. PICK i \in 1..n, j \in 1..(Len(q) - n) : head[i].date = d /\ tail[j].date = e
    BY <1>1 DEF DatesIn
  <2>2. i < j + n
    BY <1>1
  <2> QED BY <2>1, <2>2, <1>2 DEF Ahead
<1>6. ASSUME Distinct(q)
      PROVE  /\ Distinct(head) /\ Distinct(tail) /\ DatesIn(head) \cap DatesIn(tail) = {}
             /\ \A d \in DatesIn(tail) : \A e : Ahead(q, d, e) => Ahead(tail, d, e)
  <2>1. Distinct(head)
    BY <1>1, <1>2, <1>6 DEF Distinct
  <2>2. Distinct(tail)
    <3> SUFFICES ASSUME NEW i \in 1..(Len(q) - n), NEW j \in 1..(Len(q) - n),
                        tail[i].date = tail[j].date
                 PROVE  i = j
      BY <1>1 DEF Distinct
    <3>1. i + n = j + n
      BY <1>2, <1>6 DEF Distinct
    <3> QED BY <3>1, <1>1
  <2>3. ASSUME NEW d \in DatesIn(head), d \in DatesIn(tail) PROVE FALSE
    <3>1. PICK i \in 1..n : head[i].date = d
      BY <1>1 DEF DatesIn
    <3>2. PICK j \in 1..(Len(q) - n) : tail[j].date = d
      BY <1>1, <2>3 DEF DatesIn
    <3>3. i = j + n
      BY <3>1, <3>2, <1>2, <1>6 DEF Distinct
    <3> QED BY <3>3, <1>1
  <2>4. ASSUME NEW d \in DatesIn(tail), NEW e, Ahead(q, d, e) PROVE Ahead(tail, d, e)
    <3>1. PICK k \in 1..(Len(q) - n) : tail[k].date = d
      BY <1>1 DEF DatesIn
    <3>2. PICK i \in DOMAIN q, j \in DOMAIN q : i < j /\ q[i].date = d /\ q[j].date = e
      BY <2>4 DEF Ahead
    <3>3. i = k + n
      BY <3>1, <3>2, <1>2, <1>6 DEF Distinct
    <3>4. j > n /\ k < j - n
      BY <3>2, <3>3, <1>1
    <3>5. j - n \in DOMAIN tail /\ tail[j - n].date = e
      BY <3>2, <3>4, <1>1, <1>3
    <3> QED BY <3>1, <3>4, <3>5, <1>1 DEF Ahead
  <2> QED BY <2>1, <2>2, <2>3, <2>4
<1> QED BY <1>1, <1>4, <1>5, <1>6 DEF head, tail

\* Picked entries keep their sessions and their order.
LEMMA PickedDates ==
  ASSUME NEW S, NEW q \in Seq(S), NEW I \in SUBSET DOMAIN q
  PROVE  /\ Picked(q, I) \in Seq(S) /\ Len(Picked(q, I)) = Cardinality(I)
         /\ DatesIn(Picked(q, I)) = {q[i].date : i \in I}
         /\ \A k \in DOMAIN Picked(q, I) : \E i \in I : Picked(q, I)[k] = q[i]
         /\ \A i \in I : \E k \in DOMAIN Picked(q, I) : Picked(q, I)[k] = q[i]
         /\ Distinct(q) => Distinct(Picked(q, I))
         /\ \A d, e : Ahead(Picked(q, I), d, e) => Ahead(q, d, e)
         /\ Distinct(q) => \A d, e \in DatesIn(Picked(q, I)) :
                             Ahead(q, d, e) => Ahead(Picked(q, I), d, e)
<1>1. DOMAIN q = 1..Len(q) /\ Len(q) \in Nat /\ I \in SUBSET (1..Len(q))
  OBVIOUS
<1>2. Cardinality(I) \in Nat
  BY <1>1, PickedFact
<1> DEFINE n == Cardinality(I)
           p == Picked(q, I)
<1>3. PICK f : PickOrder(f, q, I)
  BY <1>1, PickedFact
<1>4. /\ f \in [1..n -> I] /\ Increasing(f) /\ \A x \in I : \E k \in 1..n : f[k] = x
      /\ p = [k \in 1..n |-> q[f[k]]]
  BY <1>3 DEF PickOrder
<1>5. n \in Nat
  BY <1>2
<1> HIDE DEF n, p
<1>6. /\ DOMAIN p = 1..n
      /\ \A k \in 1..n : p[k] = q[f[k]] /\ f[k] \in I /\ f[k] \in Nat /\ p[k] \in S
  <2>1. \A k \in 1..n : f[k] \in I
    BY <1>4
  <2>2. \A i \in I : i \in Nat /\ q[i] \in S
    BY <1>1
  <2> QED BY <1>4, <2>1, <2>2
<1>7. p \in Seq(S) /\ Len(p) = n
  <2>1. p \in [1..n -> S]
    BY <1>4, <1>6
  <2> QED BY <2>1, <1>5
<1>8. \A i, j \in 1..n : f[i] < f[j] <=> i < j
  <2> SUFFICES ASSUME NEW i \in 1..n, NEW j \in 1..n PROVE f[i] < f[j] <=> i < j
    OBVIOUS
  <2>1. DOMAIN f = 1..n /\ i \in Nat /\ j \in Nat /\ f[i] \in Nat /\ f[j] \in Nat
    BY <1>2, <1>4, <1>6
  <2>2. (i < j => f[i] < f[j]) /\ (j < i => f[j] < f[i]) /\ (i = j => f[i] = f[j])
    BY <1>4, <2>1 DEF Increasing
  <2> QED BY <2>1, <2>2
<1>9. DatesIn(p) = {q[i].date : i \in I}
  BY <1>4, <1>6 DEF DatesIn
<1>10. ASSUME Distinct(q) PROVE Distinct(p)
  <2> SUFFICES ASSUME NEW i \in 1..n, NEW j \in 1..n, p[i].date = p[j].date PROVE i = j
    BY <1>6 DEF Distinct
  <2>1. f[i] = f[j]
    BY <1>6, <1>10 DEF Distinct
  <2>2. ~(i < j) /\ ~(j < i)
    BY <2>1, <1>6, <1>8
  <2> QED BY <2>2, <1>2
<1>11. ASSUME NEW d, NEW e, Ahead(p, d, e) PROVE Ahead(q, d, e)
  <2>1. PICK i \in 1..n, j \in 1..n : i < j /\ p[i].date = d /\ p[j].date = e
    BY <1>6, <1>11 DEF Ahead
  <2>2. f[i] < f[j] /\ f[i] \in DOMAIN q /\ f[j] \in DOMAIN q
    BY <2>1, <1>6, <1>8
  <2> QED BY <2>1, <2>2, <1>6 DEF Ahead
<1>12. ASSUME Distinct(q), NEW d \in DatesIn(p), NEW e \in DatesIn(p), Ahead(q, d, e)
       PROVE  Ahead(p, d, e)
  <2>1. PICK i \in 1..n, j \in 1..n : p[i].date = d /\ p[j].date = e
    BY <1>6 DEF DatesIn
  <2>2. PICK k \in DOMAIN q, l \in DOMAIN q : k < l /\ q[k].date = d /\ q[l].date = e
    BY <1>12 DEF Ahead
  <2>3. f[i] = k /\ f[j] = l
    BY <2>1, <2>2, <1>6, <1>12 DEF Distinct
  <2> QED BY <2>1, <2>2, <2>3, <1>6, <1>8 DEF Ahead
<1>13. /\ \A k \in DOMAIN p : \E i \in I : p[k] = q[i]
       /\ \A i \in I : \E k \in DOMAIN p : p[k] = q[i]
  BY <1>4, <1>6
<1> QED BY <1>7, <1>9, <1>10, <1>11, <1>12, <1>13 DEF n, p

\* What keeps the dates keeps all of it.
LEMMA SameDates ==
  ASSUME NEW p, NEW q, DOMAIN p = DOMAIN q, \A i \in DOMAIN p : p[i].date = q[i].date
  PROVE  /\ DatesIn(p) = DatesIn(q) /\ (Distinct(p) <=> Distinct(q))
         /\ \A d, e : Ahead(p, d, e) <=> Ahead(q, d, e)
  BY DEF DatesIn, Distinct, Ahead

\* No session is both ahead of another and behind it.
LEMMA AheadOnce ==
  ASSUME NEW S, NEW q \in Seq(S), Distinct(q), NEW d, NEW e, Ahead(q, d, e)
  PROVE  ~Ahead(q, e, d)
<1>1. PICK i \in DOMAIN q, j \in DOMAIN q : i < j /\ q[i].date = d /\ q[j].date = e
  BY DEF Ahead
<1> SUFFICES ASSUME NEW k \in DOMAIN q, NEW l \in DOMAIN q, k < l,
                    q[k].date = e, q[l].date = d
             PROVE  FALSE
  BY DEF Ahead
<1>2. k = j /\ l = i
  BY <1>1 DEF Distinct
<1>3. i \in Nat /\ j \in Nat
  OBVIOUS
<1> QED BY <1>1, <1>2, <1>3

-----------------------------------------------------------------------------
(* The cursor.                                                              *)

\* null is no number, string or record.
LEMMA NoneApart ==
  /\ None \notin Nat /\ None # "" /\ None \notin ToSet(Categories)
  /\ None \notin Limits /\ None \notin Rates
  /\ None \notin States /\ None \notin Cursors /\ None \notin OldCursors
  /\ None \notin Failures /\ None \notin Checked /\ None \notin Results
  /\ None \notin PlainErrors({None})
  BY NoneAssumption

\* The categories of a failure, as a set.
LEMMA CategoryTypes ==
  /\ DOMAIN Categories = 1..4
  /\ ToSet(Categories) = {"PROVIDER_TIMEOUT", "PROVIDER_RATE_LIMIT", "PROVIDER_ERROR",
                          "CACHE_ERROR"}
  BY DEF Categories, ToSet

\* The code of a category stands for it.
LEMMA CodeFact ==
  ASSUME NEW e \in ToSet(Categories)
  PROVE  CodeOf(e) \in DOMAIN Categories /\ Categories[CodeOf(e)] = e
<1>1. \E i \in DOMAIN Categories : Categories[i] = e
  BY DEF ToSet
<1> QED BY <1>1, Zenon DEF CodeOf

\* Validity in terms of the dates of the waiting.
Partition(s) ==
  /\ Distinct(s.deferred)
  /\ DOMAIN s.completed \cap ToSet(s.unattempted) = {}
  /\ DOMAIN s.completed \cap DatesIn(s.deferred) = {}
  /\ ToSet(s.unattempted) \cap DatesIn(s.deferred) = {}
  /\ DOMAIN s.completed \cup ToSet(s.unattempted) \cup DatesIn(s.deferred) = Dates
  /\ Increasing(s.unattempted)

\* decodeContinuation's tests are the partition of the range.
LEMMA ValidMeans ==
  ASSUME NEW s
  PROVE  ValidContinuation(s) <=> Partition(s)
<1>1. ToSet(DeferredDates(s)) = DatesIn(s.deferred)
  BY DEF ToSet, DeferredDates, DatesIn
<1> QED BY <1>1 DEF ValidContinuation, Partition, Distinct, Increasing

\* An entry is decoded to itself, whether its provider is left out or not.
LEMMA EntryRoundTrip ==
  ASSUME NEW e \in Entries, NEW default \in {None, Provider}
  PROVE  LET entry == <<e.date, e.count, e.at,
                        IF e.error = None THEN None ELSE CodeOf(e.error),
                        IF e.provider = default THEN None
                        ELSE IF e.provider = None THEN "" ELSE e.provider>>
         IN  /\ entry \in Codes
             /\ DecodeDeferred(entry, default) = e
<1> DEFINE error == IF e.error = None THEN None ELSE CodeOf(e.error)
           provider == IF e.provider = default THEN None
                       ELSE IF e.provider = None THEN "" ELSE e.provider
           entry == <<e.date, e.count, e.at, error, provider>>
<1>1. /\ e.date \in Dates /\ e.count \in Nat /\ e.at \in Nat \cup {None}
      /\ e.error \in ToSet(Categories) \cup {None} /\ e.provider \in {None, Provider}
      /\ e = [date |-> e.date, count |-> e.count, at |-> e.at, error |-> e.error,
              provider |-> e.provider]
  BY DEF Entries
<1>2. /\ error \in DOMAIN Categories \cup {None}
      /\ e.error = IF error = None THEN None ELSE Categories[error]
  <2>1. CASE e.error = None
    BY <2>1
  <2>2. CASE e.error # None
    <3>1. error \in DOMAIN Categories /\ Categories[error] = e.error
      BY <1>1, <2>2, CodeFact
    <3>2. error \in 1..4 /\ None \notin Nat
      <4>1. error \in 1..4
        BY <3>1, CategoryTypes
      <4> QED BY <4>1, NoneApart
    <3>3. error # None
      <4> HIDE DEF error
      <4> QED BY <3>2
    <3> QED BY <3>1, <3>3, <2>2
  <2> QED BY <2>1, <2>2
<1>3. /\ provider \in {None, "", Provider}
      /\ e.provider = IF provider = None THEN default
                      ELSE IF provider = "" THEN None ELSE provider
  <2>1. Provider # "" /\ Provider # None /\ "" # None
    BY ProviderAssumption, NoneApart
  <2> QED BY <2>1, <1>1
<1> HIDE DEF error, provider
<1>4. entry \in Codes
  BY <1>1, <1>2, <1>3 DEF Codes
<1>5. DecodeDeferred(entry, default) = e
  <2>1. entry[1] = e.date /\ entry[2] = e.count /\ entry[3] = e.at /\ entry[4] = error
        /\ entry[5] = provider
    OBVIOUS
  <2> HIDE DEF entry
  <2> QED BY <2>1, <1>1, <1>2, <1>3 DEF DecodeDeferred
<1> QED BY <1>4, <1>5 DEF entry, error, provider

\* A valid state is decoded to itself.
LEMMA RoundTrip ==
  ASSUME NEW s \in States, ValidContinuation(s)
  PROVE  /\ EncodeContinuation(s) \in Cursors
         /\ DecodeContinuation(EncodeContinuation(s)) = s
<1> DEFINE default == DefaultProvider(s.rate)
           code(e) == <<e.date, e.count, e.at,
                        IF e.error = None THEN None ELSE CodeOf(e.error),
                        IF e.provider = default THEN None
                        ELSE IF e.provider = None THEN "" ELSE e.provider>>
           codes == [i \in DOMAIN s.deferred |-> code(s.deferred[i])]
<1>1. /\ s.completed \in Completions /\ s.unattempted \in Seq(Dates)
      /\ s.deferred \in Seq(Entries) /\ s.rate \in Rates \cup {None}
      /\ s = [completed |-> s.completed, unattempted |-> s.unattempted,
              deferred |-> s.deferred, rate |-> s.rate]
  BY DEF States
<1>2. default \in {None, Provider}
  BY <1>1 DEF DefaultProvider, Rates
<1>3. \A i \in DOMAIN s.deferred : s.deferred[i] \in Entries
  BY <1>1
<1> HIDE DEF default
<1>4. \A i \in DOMAIN s.deferred :
        code(s.deferred[i]) \in Codes /\ DecodeDeferred(code(s.deferred[i]), default) = s.deferred[i]
  BY <1>2, <1>3, EntryRoundTrip
<1> HIDE DEF code
<1>5. codes \in Seq(Codes) /\ DOMAIN codes = DOMAIN s.deferred
  <2>1. DOMAIN s.deferred = 1..Len(s.deferred) /\ Len(s.deferred) \in Nat
    BY <1>1
  <2>2. codes \in [1..Len(s.deferred) -> Codes]
    BY <1>4, <2>1
  <2> QED BY <2>1, <2>2
<1>6. [i \in DOMAIN codes |-> DecodeDeferred(codes[i], default)] = s.deferred
  <2>1. s.deferred = [i \in DOMAIN s.deferred |-> s.deferred[i]]
    BY <1>1
  <2> QED BY <1>4, <2>1
<1> HIDE DEF codes
<1> DEFINE c == EncodeContinuation(s)
<1>7. c = [version |-> 3, completed |-> s.completed, unattempted |-> s.unattempted,
           deferred |-> codes, rate |-> s.rate]
  BY DEF EncodeContinuation, codes, code, default
<1>8. c \in Cursors
  BY <1>1, <1>5, <1>7 DEF Cursors
<1>9. DecodedV3(c) = s
  <2>1. /\ c.completed = s.completed /\ c.unattempted = s.unattempted /\ c.deferred = codes
        /\ c.rate = s.rate
    BY <1>7
  <2> HIDE DEF c
  <2> QED BY <1>1, <1>6, <2>1 DEF DecodedV3, default
<1>10. c.version = 3
  BY <1>7
<1> HIDE DEF c
<1>11. DecodeContinuation(c) = s
  BY <1>9, <1>10 DEF DecodeContinuation
<1> QED BY <1>8, <1>11 DEF c

\* A session without a retry as an entry.
LEMMA DeferredType ==
  ASSUME NEW d \in Dates
  PROVE  Deferred(d) \in Entries /\ Deferred(d).date = d /\ Deferred(d).error = None
  BY DEF Deferred, EntryOf, NoRetry, Entries

\* What an entry of a cursor is decoded to.
LEMMA EntryDecoded ==
  ASSUME NEW entry \in Codes,
         NEW default \in {None, Provider}
  PROVE  DecodeDeferred(entry, default) \in Entries
<1>1. /\ entry[1] \in Dates /\ entry[2] \in Nat /\ entry[3] \in Nat \cup {None}
      /\ entry[4] \in DOMAIN Categories \cup {None} /\ entry[5] \in {None, "", Provider}
  BY DEF Codes
<1>2. entry[4] # None => Categories[entry[4]] \in ToSet(Categories)
  BY <1>1 DEF ToSet
<1> QED BY <1>1, <1>2 DEF DecodeDeferred, Entries

\* What a cursor that is accepted, of any version, is decoded to.
LEMMA DecodedType ==
  ASSUME NEW c \in Cursors \cup OldCursors
  PROVE  DecodeContinuation(c) # None =>
           DecodeContinuation(c) \in States /\ ValidContinuation(DecodeContinuation(c))
<1>1. CASE c \in Cursors
  <2>1. /\ c.version = 3 /\ c.completed \in Completions /\ c.unattempted \in Seq(Dates)
        /\ c.deferred \in Seq(Codes)
        /\ c.rate \in Rates \cup {None}
    BY <1>1 DEF Cursors
  <2>2. DefaultProvider(c.rate) \in {None, Provider}
    BY <2>1 DEF DefaultProvider, Rates
  <2> DEFINE waiting == [i \in DOMAIN c.deferred |->
                         DecodeDeferred(c.deferred[i], DefaultProvider(c.rate))]
  <2>3. waiting \in Seq(Entries)
    <3>1. DOMAIN c.deferred = 1..Len(c.deferred) /\ Len(c.deferred) \in Nat
      BY <2>1
    <3>2. \A i \in 1..Len(c.deferred) : c.deferred[i] \in Codes
      BY <2>1
    <3>3. \A i \in 1..Len(c.deferred) :
            DecodeDeferred(c.deferred[i], DefaultProvider(c.rate)) \in Entries
      BY <2>2, <3>2, EntryDecoded
    <3>4. waiting \in [1..Len(c.deferred) -> Entries]
      BY <3>1, <3>3
    <3> QED BY <3>1, <3>4
  <2>4. DecodedV3(c) \in States
    BY <2>1, <2>3 DEF DecodedV3, States
  <2>5. DecodeContinuation(c) # None =>
          DecodeContinuation(c) = DecodedV3(c) /\ ValidContinuation(DecodedV3(c))
    BY <2>1 DEF DecodeContinuation
  <2> QED BY <2>4, <2>5
<1>2. CASE c \in OldCursors
  <2>1. /\ c.version # 3 /\ c.completed \in Completions /\ c.unattempted \in Seq(Dates)
        /\ c.deferred \in Seq(Dates)
    BY <1>2 DEF OldCursors
  <2> DEFINE waiting == [i \in DOMAIN c.deferred |-> Deferred(c.deferred[i])]
  <2>2. waiting \in Seq(Entries)
    <3>1. DOMAIN c.deferred = 1..Len(c.deferred) /\ Len(c.deferred) \in Nat
      BY <2>1
    <3>2. \A i \in 1..Len(c.deferred) : Deferred(c.deferred[i]) \in Entries
      BY <2>1, DeferredType
    <3>3. waiting \in [1..Len(c.deferred) -> Entries]
      BY <3>1, <3>2
    <3> QED BY <3>1, <3>3
  <2>3. DecodedV12(c) \in States
    BY <2>1, <2>2 DEF DecodedV12, States
  <2>4. DecodeContinuation(c) # None =>
          DecodeContinuation(c) = DecodedV12(c) /\ ValidContinuation(DecodedV12(c))
    BY <2>1 DEF DecodeContinuation
  <2> QED BY <2>3, <2>4
<1> QED BY <1>1, <1>2

\* A client without a cursor starts with a partition of the range.
LEMMA WholeRangeValid == WholeRange \in States /\ ValidContinuation(WholeRange)
<1> DEFINE all == [i \in Dates |-> i]
<1>1. all \in Seq(Dates) /\ ToSet(all) = Dates /\ Increasing(all)
  <2>1. Dates = 1..NumDates /\ NumDates \in Nat
    BY ConstantTypes DEF Dates
  <2>2. all \in Seq(Dates)
    BY <2>1
  <2>3. ToSet(all) = Dates
    BY DEF ToSet
  <2> QED BY <2>2, <2>3 DEF Increasing
<1>2. <<>> \in Completions /\ DOMAIN <<>> = {}
  <2>1. <<>> \in [{} -> Statuses] /\ {} \in SUBSET Dates
    OBVIOUS
  <2> QED BY <2>1 DEF Completions
<1>3. WholeRange \in States
  BY <1>1, <1>2 DEF WholeRange, States
<1>4. Partition(WholeRange)
  <2>1. DatesIn(<<>>) = {} /\ Distinct(<<>>)
    BY DEF DatesIn, Distinct
  <2> QED BY <1>1, <1>2, <2>1 DEF WholeRange, Partition
<1> QED BY <1>3, <1>4, ValidMeans

-----------------------------------------------------------------------------
(* Errors, failures and results.                                            *)

\* What may be thrown or kept: an error of the limiter has no cause, and one
\* with a cause no metadata.
Thrown ==
  [status : Nat, code : ErrorCodes, cache : BOOLEAN, retryable : BOOLEAN,
   rate : Rates \cup {None}, cause : {None} \cup PlainErrors({None})]

\* What calls throw and attempts keep.
LEMMA ThrownTypes ==
  /\ KeptErrors \subseteq Thrown /\ ProviderErrors \cup CandleErrors \subseteq Thrown
  /\ PlainErrors({None}) \subseteq KeptErrors
  /\ PlainError \in KeptErrors /\ DeadlineError \in KeptErrors
  /\ \A error \in Thrown : ProviderErrorMetadata(error) \in KeptErrors
<1>1. KeptErrors \subseteq Thrown
  BY DEF KeptErrors, Thrown
<1>2. ProviderErrors \cup CandleErrors \subseteq Thrown
  BY ErrorAssumption DEF PlainErrors, Thrown
<1>3. PlainErrors({None}) \subseteq KeptErrors
  BY DEF PlainErrors, KeptErrors
<1>4. PlainError \in KeptErrors /\ DeadlineError \in KeptErrors
  BY DEF PlainError, DeadlineError, KeptErrors, ErrorCodes, TimeoutCodes
<1>5. ASSUME NEW error \in Thrown PROVE ProviderErrorMetadata(error) \in KeptErrors
  <2> DEFINE retryable == \/ error.retryable
                          \/ error.status \in {408, 429} \/ error.status >= 500
                          \/ error.code \in TimeoutCodes \cup
                               {"ECONNRESET", "EAI_AGAIN", "ERR_CANCELED"}
  <2>1. retryable \in BOOLEAN
    BY DEF Thrown
  <2>2. ProviderErrorMetadata(error) =
          [error EXCEPT !.cache = FALSE, !.cause = None, !.retryable = retryable]
    BY DEF ProviderErrorMetadata
  <2> HIDE DEF retryable
  <2> QED BY <2>1, <2>2 DEF KeptErrors, Thrown
<1> QED BY <1>1, <1>2, <1>3, <1>4, <1>5

\* A failure has one of the categories, whatever the error.
LEMMA ClassifiedDirectly ==
  ASSUME NEW error, error.status \in Nat, error.retryable \in BOOLEAN,
         error.rate \in Rates \cup {None}
  PROVE  ClassifyDirectly(error) \in Failures
  BY CategoryTypes DEF ClassifyDirectly, Failure, ProviderTimeout, Failures

\* The same when its cause is asked.
LEMMA Classified ==
  ASSUME NEW error \in Thrown
  PROVE  ClassifyFailure(error) \in Failures /\ ClassifyFailure(error) # None
<1>1. ClassifyDirectly(error) \in Failures
  BY ClassifiedDirectly DEF Thrown
<1>2. error.cause # None => ClassifyDirectly(error.cause) \in Failures
  <2> SUFFICES ASSUME error.cause # None PROVE ClassifyDirectly(error.cause) \in Failures
    OBVIOUS
  <2>1. error.cause \in PlainErrors({None})
    BY DEF Thrown
  <2> QED BY <2>1, ClassifiedDirectly DEF PlainErrors
<1> QED BY <1>1, <1>2, NoneApart DEF ClassifyFailure

\* The failure a result stands for is one of its errors or a plain one.
LEMMA FailureOfResult ==
  ASSUME NEW result \in Results
  PROVE  FailureFromResult(result) \in Failures \cup {None}
<1> DEFINE failures == [i \in DOMAIN result.errors |-> ClassifyFailure(result.errors[i])]
           limited == {i \in DOMAIN failures : failures[i].category = "PROVIDER_RATE_LIMIT"}
           until == [i \in limited |-> Until(failures[i])]
           n == Len(result.errors)
<1>1. n \in Nat /\ DOMAIN failures = 1..n
  BY DEF Results
<1>2. \A i \in 1..n : failures[i] \in Failures
  <2>1. \A i \in 1..n : result.errors[i] \in Thrown
    BY ThrownTypes DEF Results
  <2>2. \A i \in 1..n : failures[i] = ClassifyFailure(result.errors[i])
    BY <1>1
  <2> QED BY <2>1, <2>2, Classified
<1>3. FailureFromResult(result) =
        IF failures = <<>> THEN None
        ELSE IF \A i \in DOMAIN failures : failures[i].category = "PROVIDER_TIMEOUT"
        THEN failures[1]
        ELSE IF limited # {} THEN failures[FirstLongest(limited, until)]
        ELSE Failure("PROVIDER_ERROR", \A i \in DOMAIN failures : failures[i].retryable, None)
  BY DEF FailureFromResult
<1>4. failures # <<>> => 1 \in 1..n
  <2>1. failures = [i \in 1..n |-> failures[i]]
    BY <1>1
  <2>2. n = 0 => failures = <<>>
    BY <2>1
  <2> QED BY <1>1, <2>2
<1>5. limited # {} => FirstLongest(limited, until) \in 1..n
  <2> SUFFICES ASSUME limited # {} PROVE FirstLongest(limited, until) \in 1..n
    OBVIOUS
  <2>1. limited \in SUBSET (1..n)
    BY <1>1
  <2>2. \A i \in limited : until[i] \in Int /\ until[i] >= -1
    <3> TAKE i \in limited
    <3>1. failures[i] \in Failures
      BY <1>2, <2>1
    <3>2. until[i] = Until(failures[i])
      OBVIOUS
    <3>3. Until(failures[i]) \in Int /\ Until(failures[i]) >= -1
      <4> HIDE DEF failures
      <4> QED BY <3>1 DEF Until, Failures, Rates
    <3> QED BY <3>2, <3>3
  <2> HIDE DEF limited, until
  <2>3. FirstLongest(limited, until) \in limited
    BY <1>1, <2>1, <2>2, FirstLongestFact
  <2> QED BY <2>1, <2>3
<1>6. Failure("PROVIDER_ERROR", \A i \in DOMAIN failures : failures[i].retryable, None)
        \in Failures
  <2> DEFINE all == \A i \in DOMAIN failures : failures[i].retryable
  <2>1. all \in BOOLEAN
    OBVIOUS
  <2> HIDE DEF all
  <2>2. Failure("PROVIDER_ERROR", all, None) \in Failures
    BY <2>1, CategoryTypes DEF Failure, Failures
  <2> QED BY <2>2 DEF all
<1> HIDE DEF failures, limited, until
<1> QED BY <1>2, <1>3, <1>4, <1>5, <1>6

\* The statuses of results and failures.
LEMMA StatusTypes ==
  /\ \A result \in Results : CompletionStatus(result) \in Statuses
  /\ \A failure \in Failures : \A best :
       FailureStatus(failure, best) \in Statuses \cup ToSet(Categories)
  /\ \A result \in Results, best \in Results \cup {None} : BetterResult(best, result) \in Results
  /\ ProviderTimeout \in Failures
<1>1. \A failure \in Failures : \A best :
        FailureStatus(failure, best) \in Statuses \cup ToSet(Categories)
  BY DEF FailureStatus, Failures, Statuses
<1>2. \A result \in Results, best \in Results \cup {None} : BetterResult(best, result) \in Results
  BY DEF BetterResult
<1>3. ProviderTimeout \in Failures
  BY CategoryTypes DEF ProviderTimeout, Failure, Failures
<1> QED BY <1>1, <1>2, <1>3 DEF CompletionStatus, Statuses

\* A fallback delay is a number, however many retries lie behind it.
LEMMA FallbackTypes ==
  ASSUME NEW count \in 1..MaxRetryCount
  PROVE  Fallbacks(count) \subseteq Nat
<1> DEFINE last == Len(FallbackDelays)
           growth == IF count <= last THEN FallbackDelays[count]
                     ELSE FallbackDelays[last] * Threefold(count - last)
<1>1. /\ last \in Nat \ {0} /\ \A i \in 1..last : FallbackDelays[i] \in Nat
      /\ MaxFallback \in Nat /\ MaxRetryCount \in Nat /\ \A m \in Multipliers : m \in Nat
  BY DelayAssumption, ConstantTypes
<1> HIDE DEF last
<1>2. growth \in Nat
  <2>1. CASE count <= last
    BY <2>1, <1>1 DEF last
  <2>2. CASE ~(count <= last)
    <3>1. count - last \in 0..MaxRetryCount
      BY <2>2, <1>1
    <3>2. Threefold(count - last) \in Nat
      BY <3>1, GrowthAssumption
    <3>3. FallbackDelays[last] \in Nat
      BY <1>1
    <3>4. growth = FallbackDelays[last] * Threefold(count - last)
      BY <2>2
    <3> QED BY <3>2, <3>3, <3>4
  <2> QED BY <2>1, <2>2
<1>3. Fallbacks(count) = {Least(MaxFallback, (Least(growth, MaxFallback) * m) \div 100) :
                            m \in Multipliers}
  BY DEF Fallbacks, last
<1> HIDE DEF growth
<1>4. ASSUME NEW m \in Multipliers
      PROVE  Least(MaxFallback, (Least(growth, MaxFallback) * m) \div 100) \in Nat
  <2>1. Least(growth, MaxFallback) \in Nat /\ m \in Nat
    BY <1>1, <1>2 DEF Least
  <2>2. Least(growth, MaxFallback) * m \in Nat
    BY <2>1
  <2>3. (Least(growth, MaxFallback) * m) \div 100 \in Nat
    BY <2>2
  <2> QED BY <2>3, <1>1 DEF Least
<1> QED BY <1>3, <1>4

\* The retry metadata names its failure, and a rate limit's has an end.
LEMMA RetryFact ==
  ASSUME NEW previous \in Metadatas, NEW failure \in Failures \cup {None}, clock \in Nat,
         NEW retry \in Retries(previous, failure)
  PROVE  /\ retry \in Metadatas
         /\ failure # None => retry.error = failure.category
         /\ failure # None /\ failure.category = "PROVIDER_RATE_LIMIT" =>
              retry.at \in Nat /\ retry.provider = Provider
<1>1. CASE failure = None
  <2>1. retry = [previous EXCEPT !.at = None, !.error = None]
    BY <1>1 DEF Retries
  <2> QED BY <1>1, <2>1 DEF Metadatas
<1>2. CASE failure # None
  <2> DEFINE count == Least(MaxRetryCount, previous.count + 1)
  <2>1. /\ failure.category \in ToSet(Categories) /\ failure.rate \in Rates \cup {None}
        /\ previous.count \in Nat /\ retry \in RetriesAfterFailure(previous, failure)
    BY <1>2 DEF Failures, Metadatas, Retries
  <2>2. count \in 1..MaxRetryCount /\ count \in Nat
    BY <2>1, ConstantTypes DEF Least
  <2>3. Fallbacks(count) \subseteq Nat
    BY <2>2, FallbackTypes
  <2>4. CASE failure.category # "PROVIDER_RATE_LIMIT"
    <3>1. retry = [count |-> count, at |-> None, error |-> failure.category, provider |-> None]
      BY <2>1, <2>4 DEF RetriesAfterFailure
    <3> HIDE DEF count
    <3> QED BY <2>1, <2>2, <2>4, <3>1 DEF Metadatas
  <2>5. CASE failure.category = "PROVIDER_RATE_LIMIT"
    <3>1. PICK delay \in Fallbacks(count) :
            retry = [count |-> count, error |-> failure.category, provider |-> Provider,
                     at |-> IF failure.rate = None THEN clock + delay
                            ELSE Most(clock, failure.rate.until)]
      BY <2>1, <2>5 DEF RetriesAfterFailure
    <3>2. failure.rate # None => failure.rate.until \in Nat
      BY <2>1 DEF Rates
    <3>3. retry.at \in Nat
      BY <2>3, <3>1, <3>2 DEF Most
    <3> HIDE DEF count
    <3> QED BY <2>1, <2>2, <3>1, <3>3 DEF Metadatas
  <2> QED BY <2>4, <2>5
<1> QED BY <1>1, <1>2

-----------------------------------------------------------------------------
(* A step of a worker: its attempt goes on, or its checkpoint is through.   *)

Advance(w, me) ==
  /\ me \in Attempts /\ me.at = worker[w].at /\ Timely(me, clock)
  /\ worker' = [worker EXCEPT ![w] = me] /\ UNCHANGED <<run, results>>

Store(w, c) ==
  /\ c \in Checked /\ c.date = run.schedule[worker[w].at].date /\ Sound(c)
  /\ results' = [results EXCEPT ![worker[w].at] = c]
  /\ IF run.next <= Len(run.schedule)
     THEN /\ worker' = [worker EXCEPT ![w] = AttemptOf(run.next, 1, clock, None)]
          /\ run' = [run EXCEPT !.next = @ + 1]
     ELSE worker' = [worker EXCEPT ![w] = Idle] /\ UNCHANGED run

WorkStep(w) == (\E me : Advance(w, me)) \/ (\E c : Store(w, c))

\* A worker at a checkpoint is in a call and in time.
LEMMA Busy ==
  ASSUME TypeOK, Pool, Timers, NEW w \in Workers, worker[w].at # 0
  PROVE  /\ Running /\ run \in ActiveRuns /\ clock \in Nat
         /\ worker[w] \in Attempts /\ Timely(worker[w], clock)
         /\ worker[w].at \in DOMAIN run.schedule /\ worker[w].at \in DOMAIN results
         /\ run.schedule[worker[w].at] \in Entries
<1>1. worker[w] \in Attempts
  BY DEF TypeOK, Idle
<1>2. Running
  BY DEF Pool, Idle
<1>3. run \in ActiveRuns
  BY <1>2 DEF TypeOK, Running, IdleRuns
<1>4. worker[w].at \in DOMAIN run.schedule /\ worker[w].at \in DOMAIN results
  BY <1>2 DEF Pool
<1>5. run.schedule[worker[w].at] \in Entries
  <2>1. run.schedule \in Seq(Entries)
    BY <1>3 DEF ActiveRuns
  <2> QED BY <1>4, <2>1
<1> QED BY <1>1, <1>2, <1>3, <1>4, <1>5 DEF TypeOK, Timers

\* The end of a checkpoint stores its result.
LEMMA FinishStep ==
  ASSUME TypeOK, Pool, Timers, NEW w \in Workers, worker[w].at # 0,
         NEW status \in Statuses \cup ToSet(Categories), NEW failure \in Failures \cup {None},
         failure = None => status \in Statuses, NEW attempts \in Nat,
         Finish(w, status, failure, attempts)
  PROVE  WorkStep(w)
<1> DEFINE entry == run.schedule[worker[w].at]
<1>1. entry \in Entries /\ clock \in Nat
  BY Busy
<1>2. RetryOf(entry) \in Metadatas
  BY <1>1 DEF RetryOf, Entries, Metadatas
<1>3. PICK retry \in Retries(RetryOf(entry), failure) :
        results' = [results EXCEPT ![worker[w].at] =
          [date |-> entry.date, status |-> status, failure |-> failure, retry |-> retry,
           attempts |-> attempts]]
  BY DEF Finish
<1> DEFINE c == [date |-> entry.date, status |-> status, failure |-> failure,
                 retry |-> retry, attempts |-> attempts]
<1>4. /\ retry \in Metadatas
      /\ failure # None => retry.error = failure.category
      /\ failure # None /\ failure.category = "PROVIDER_RATE_LIMIT" =>
           retry.at \in Nat /\ retry.provider = Provider
  BY <1>1, <1>2, RetryFact
<1>5. c \in Checked
  BY <1>1, <1>4 DEF Checked, Entries
<1>6. Sound(c)
  BY <1>4 DEF Sound, IsLimited
<1>7. Store(w, c)
  <2>1. c.date = entry.date
    OBVIOUS
  <2> HIDE DEF entry
  <2>2. results' = [results EXCEPT ![worker[w].at] = c]
    BY <1>3
  <2> HIDE DEF c
  <2> QED BY <1>5, <1>6, <2>1, <2>2 DEF Store, Finish, entry
<1> QED BY <1>7 DEF WorkStep

\* What a new attempt is made of.
LEMMA AttemptType ==
  ASSUME NEW at \in Nat \ {0}, NEW attempt \in 1..MaxAttempts, NEW started \in Nat,
         NEW best \in Results \cup {None}
  PROVE  AttemptOf(at, attempt, started, best) \in Attempts
<1>1. <<>> \in Seq(KeptErrors) /\ NumItems \in Nat
  BY ConstantTypes
<1> QED BY <1>1 DEF AttemptOf, Attempts, Stages

\* The loop goes on with an attempt or ends at the deadline.
LEMMA NextAttemptStep ==
  ASSUME TypeOK, Pool, Timers, NEW w \in Workers, worker[w].at # 0,
         worker[w].attempt < MaxAttempts, NEW best \in Results \cup {None},
         NextAttempt(w, best)
  PROVE  WorkStep(w)
<1> DEFINE old == worker[w]
           me == AttemptOf(old.at, old.attempt + 1, old.started, best)
<1>1. old \in Attempts /\ Timely(old, clock) /\ clock \in Nat
  BY Busy
<1>2. /\ old.at \in Nat \ {0} /\ old.attempt \in 1..MaxAttempts /\ old.started \in Nat
      /\ old.attempt + 1 \in 1..MaxAttempts /\ old.attempt + 1 \in Nat
  BY <1>1, ConstantTypes DEF Attempts
<1>3. CASE clock >= DeadlineOf(w)
  <2>1. Finish(w, FailureStatus(ProviderTimeout, best), ProviderTimeout, old.attempt + 1)
    BY <1>3 DEF NextAttempt
  <2>2. /\ FailureStatus(ProviderTimeout, best) \in Statuses \cup ToSet(Categories)
        /\ ProviderTimeout \in Failures /\ ProviderTimeout # None
    BY StatusTypes, NoneApart
  <2> QED BY <1>2, <2>1, <2>2, FinishStep
<1>4. CASE ~(clock >= DeadlineOf(w))
  <2>1. worker' = [worker EXCEPT ![w] = me] /\ UNCHANGED <<run, results>>
    BY <1>4 DEF NextAttempt
  <2>2. me \in Attempts
    BY <1>2, AttemptType
  <2>3. me.at = old.at
    BY DEF AttemptOf
  <2>4. Timely(me, clock)
    BY <1>1, ConstantTypes DEF Timely, AttemptOf
  <2> HIDE DEF me
  <2>5. Advance(w, me)
    BY <2>1, <2>2, <2>3, <2>4 DEF Advance
  <2> QED BY <2>5 DEF WorkStep
<1> QED BY <1>3, <1>4

\* A short retry is paused within the deadline.
LEMMA TryAgainStep ==
  ASSUME TypeOK, Pool, Timers, NEW w \in Workers, worker[w].at # 0,
         worker[w].attempt < MaxAttempts, NEW best \in Results \cup {None},
         TryAgain(w, best)
  PROVE  WorkStep(w)
<1>1. CASE Backoff = 0
  BY <1>1, NextAttemptStep DEF TryAgain
<1>2. CASE Backoff # 0
  <2> DEFINE old == worker[w]
             base == AttemptOf(old.at, old.attempt, old.started, best)
             me == [base EXCEPT !.pc = "pause", !.wake = clock + PauseFor(w)]
  <2>1. /\ old \in Attempts /\ Timely(old, clock) /\ clock \in Nat /\ CheckpointDeadline \in Nat
        /\ Backoff \in Nat /\ NumItems \in Nat
    BY Busy, ConstantTypes
  <2>2. /\ old.at \in Nat \ {0} /\ old.attempt \in 1..MaxAttempts /\ old.started \in Nat
        /\ old.attempt < MaxAttempts
    BY <2>1 DEF Attempts
  <2>3. base \in Attempts
    BY <2>2, AttemptType
  <2>4. PauseFor(w) \in Nat /\ clock + PauseFor(w) <= old.started + CheckpointDeadline
    BY <2>1, <2>2 DEF PauseFor, Least, Most, DeadlineOf, Timely
  <2>5. worker' = [worker EXCEPT ![w] = me] /\ UNCHANGED <<run, results>>
    BY <1>2 DEF TryAgain
  <2>6. /\ base.at = old.at /\ base.attempt = old.attempt /\ base.started = old.started
        /\ base.found = 0 /\ base.left = NumItems
    BY DEF AttemptOf
  <2> HIDE DEF base
  <2>7. me \in Attempts
    <3>1. clock + PauseFor(w) \in Nat
      BY <2>1, <2>4
    <3> QED BY <2>3, <3>1 DEF Attempts, Stages
  <2>8. /\ me.at = old.at /\ me.attempt = old.attempt /\ me.started = old.started
        /\ me.found = 0 /\ me.left = NumItems /\ me.pc = "pause"
        /\ me.wake = clock + PauseFor(w)
    BY <2>3, <2>6 DEF Attempts
  <2> HIDE DEF me
  <2>9. Timely(me, clock)
    BY <2>1, <2>2, <2>4, <2>8 DEF Timely
  <2>10. Advance(w, me)
    BY <2>5, <2>7, <2>8, <2>9 DEF Advance
  <2> QED BY <2>10 DEF WorkStep
<1> QED BY <1>1, <1>2

\* A discovery that returned is retried or stored.
LEMMA ReturnedStep ==
  ASSUME TypeOK, Pool, Timers, NEW w \in Workers, worker[w].at # 0,
         NEW result \in Results, Returned(w, result)
  PROVE  WorkStep(w)
<1> DEFINE best == BetterResult(worker[w].best, result)
           failure == FailureFromResult(result)
           status == IF failure # None /\ result.found = 0 THEN failure.category
                     ELSE CompletionStatus(result)
<1>1. worker[w] \in Attempts /\ worker[w].best \in Results \cup {None}
      /\ worker[w].attempt \in Nat
  BY Busy DEF Attempts
<1>2. best \in Results
  BY <1>1, StatusTypes
<1>3. failure \in Failures \cup {None}
  BY FailureOfResult
<1>4. /\ status \in Statuses \cup ToSet(Categories)
      /\ failure = None => status \in Statuses
  <2>1. CompletionStatus(result) \in Statuses
    BY StatusTypes
  <2>2. failure # None => failure.category \in ToSet(Categories)
    BY <1>3 DEF Failures
  <2> HIDE DEF failure
  <2> QED BY <2>1, <2>2
<1>5. IF failure # None /\ ShortRetry(w, failure) THEN TryAgain(w, best)
      ELSE Finish(w, status, failure, worker[w].attempt)
  BY DEF Returned
<1> HIDE DEF best, failure, status
<1>6. CASE failure # None /\ ShortRetry(w, failure)
  BY <1>2, <1>5, <1>6, TryAgainStep DEF ShortRetry
<1>7. CASE ~(failure # None /\ ShortRetry(w, failure))
  BY <1>1, <1>3, <1>4, <1>5, <1>7, FinishStep
<1> QED BY <1>6, <1>7

\* A discovery that threw is retried or stored.
LEMMA ThrewStep ==
  ASSUME TypeOK, Pool, Timers, NEW w \in Workers, worker[w].at # 0,
         NEW error \in Thrown, Threw(w, error)
  PROVE  WorkStep(w)
<1> DEFINE best == worker[w].best
           failure == ClassifyFailure(error)
<1>1. worker[w] \in Attempts /\ best \in Results \cup {None} /\ worker[w].attempt \in Nat
  BY Busy DEF Attempts
<1>2. failure \in Failures /\ failure # None
  BY Classified
<1>3. FailureStatus(failure, best) \in Statuses \cup ToSet(Categories)
  BY <1>2, StatusTypes
<1>4. IF ShortRetry(w, failure) /\ clock < DeadlineOf(w) THEN TryAgain(w, best)
      ELSE Finish(w, FailureStatus(failure, best), failure, worker[w].attempt)
  BY DEF Threw
<1> HIDE DEF best, failure
<1>5. CASE ShortRetry(w, failure) /\ clock < DeadlineOf(w)
  BY <1>1, <1>4, <1>5, TryAgainStep DEF ShortRetry
<1>6. CASE ~(ShortRetry(w, failure) /\ clock < DeadlineOf(w))
  BY <1>1, <1>2, <1>3, <1>4, <1>6, FinishStep
<1> QED BY <1>5, <1>6

\* A call of a provider is made or the deadline has passed.
LEMMA ContinueStep ==
  ASSUME TypeOK, Pool, Timers, NEW w \in Workers, worker[w].at # 0,
         NEW me \in Attempts, me.at = worker[w].at, Timely(me, clock), Continue(w, me)
  PROVE  WorkStep(w)
<1>1. CASE clock >= DeadlineOf(w)
  BY <1>1, ThrewStep, ThrownTypes DEF Continue
<1>2. CASE ~(clock >= DeadlineOf(w))
  <2>1. Advance(w, me)
    BY <1>2 DEF Continue, Advance
  <2> QED BY <2>1 DEF WorkStep
<1> QED BY <1>1, <1>2

\* What a rate limit throws.
LEMMA LimitErrorType ==
  ASSUME NEW l \in Limits, NEW cause \in Causes
  PROVE  LimitError(l, cause) \in Thrown /\ Metadata(l, cause) \in Rates
<1>1. Metadata(l, cause) \in Rates
  BY DEF Metadata, Rates, Limits
<1>2. PlainError \in Thrown
  BY ThrownTypes
<1>3. "PROVIDER_RATE_LIMIT" \in ErrorCodes
  BY DEF ErrorCodes
<1> DEFINE codes == ErrorCodes
           rates == Rates \cup {None}
           causes == {None} \cup PlainErrors({None})
           errors == [status : Nat, code : codes, cache : BOOLEAN, retryable : BOOLEAN,
                      rate : rates, cause : causes]
<1>4. PlainError \in errors /\ Thrown = errors
  BY <1>2 DEF Thrown
<1> HIDE DEF codes, rates, causes
<1>5. ASSUME NEW e \in errors, NEW status \in Nat, NEW code \in codes, NEW rate \in rates
      PROVE  [e EXCEPT !.status = status, !.code = code, !.retryable = TRUE, !.rate = rate]
               \in errors
  OBVIOUS
<1> HIDE DEF errors
<1>6. PICK status \in Nat, code \in codes, rate \in rates :
        status = 429 /\ code = "PROVIDER_RATE_LIMIT" /\ rate = Metadata(l, cause)
  BY <1>1, <1>3 DEF codes, rates
<1>7. [PlainError EXCEPT !.status = status, !.code = code, !.retryable = TRUE, !.rate = rate]
        \in errors
  BY <1>4, <1>5
<1>8. LimitError(l, cause)
        = [PlainError EXCEPT !.status = status, !.code = code, !.retryable = TRUE, !.rate = rate]
  BY <1>6, Zenon DEF LimitError
<1> QED BY <1>1, <1>4, <1>7, <1>8

\* What a worker carries on with, apart from where its attempt stands.
Carries(w, me) ==
  /\ me \in Attempts /\ me.at = worker[w].at /\ me.started = worker[w].started
  /\ me.found + me.left <= NumItems

\* A discovery goes on to its next item or returns.
LEMMA FoundStep ==
  ASSUME TypeOK, Pool, Timers, NEW w \in Workers, worker[w].at # 0,
         NEW me, Carries(w, me), Found(w, me)
  PROVE  WorkStep(w)
<1>1. me \in Attempts /\ me.at = worker[w].at
  BY DEF Carries
<1>2. CASE me.left = 0
  <2>1. ResultOf(me) \in Results
    BY <1>1 DEF ResultOf, Results, Attempts
  <2> QED BY <1>2, <2>1, ReturnedStep DEF Found
<1>3. CASE me.left # 0
  <2> DEFINE next == [me EXCEPT !.pc = "item"]
  <2>1. Continue(w, next)
    BY <1>3 DEF Found
  <2>2. next \in Attempts /\ next.at = worker[w].at
    BY <1>1 DEF Attempts, Stages
  <2>3. Timely(next, clock)
    <3>1. Timely(worker[w], clock) /\ me.left \in Nat
      BY <1>1, Busy, ConstantTypes DEF Attempts
    <3>2. /\ next.started = worker[w].started /\ next.pc = "item"
          /\ next.found = me.found /\ next.left = me.left
      BY <1>1 DEF Carries, Attempts
    <3> HIDE DEF next
    <3> QED BY <1>3, <3>1, <3>2 DEF Timely, Carries
  <2> HIDE DEF next
  <2> QED BY <2>1, <2>2, <2>3, ContinueStep
<1> QED BY <1>2, <1>3

\* The reconstruction leaves the items it did not find.
LEMMA ReconstructedStep ==
  ASSUME TypeOK, Pool, Timers, NEW w \in Workers, At(w, "reconstruct"),
         NEW count \in 0..NumItems, NEW priced \in BOOLEAN, Reconstructed(w, count, priced)
  PROVE  WorkStep(w)
<1> DEFINE found == [worker[w] EXCEPT !.found = count, !.priced = priced, !.tried = count,
                                      !.left = @ - count]
           me == IF run.mode = "CACHE_ONLY" THEN [found EXCEPT !.tried = NumItems, !.left = 0]
                 ELSE found
<1>1. /\ worker[w].at # 0 /\ worker[w] \in Attempts /\ worker[w].left = NumItems
      /\ NumItems \in Nat
  BY Busy, ConstantTypes DEF At, Timely
<1>2. found \in Attempts
  <2>1. count \in Nat /\ NumItems - count \in 0..NumItems
    BY <1>1
  <2> QED BY <1>1, <2>1 DEF Attempts
<1>3. /\ found.at = worker[w].at /\ found.started = worker[w].started
      /\ found.found = count /\ found.left = NumItems - count
  BY <1>1 DEF Attempts
<1> HIDE DEF found
<1>4. me \in Attempts
  <2>1. 0 \in 0..NumItems
    BY <1>1
  <2> QED BY <1>1, <1>2, <2>1 DEF Attempts
<1>5. /\ me.at = worker[w].at /\ me.started = worker[w].started
      /\ me.found + me.left <= NumItems
  <2>1. CASE run.mode = "CACHE_ONLY"
    <3>1. me.at = found.at /\ me.started = found.started /\ me.found = found.found /\ me.left = 0
      BY <1>2, <2>1 DEF Attempts
    <3> QED BY <1>1, <1>3, <3>1
  <2>2. CASE run.mode # "CACHE_ONLY"
    BY <1>1, <1>3, <2>2
  <2> QED BY <2>1, <2>2
<1> HIDE DEF me
<1>6. Found(w, me)
  BY DEF Reconstructed, found, me
<1> QED BY <1>1, <1>4, <1>5, <1>6, FoundStep DEF Carries

\* An item is counted once, found or not.
LEMMA ItemEndsStep ==
  ASSUME TypeOK, Pool, Timers, NEW w \in Workers, At(w, "item"),
         NEW found \in {0, 1}, NEW priced \in BOOLEAN, NEW errors \in Seq(KeptErrors),
         ItemEnds(w, found, priced, errors)
  PROVE  WorkStep(w)
<1> DEFINE me == [worker[w] EXCEPT !.left = @ - 1, !.tried = @ + 1, !.polls = 0, !.wake = 0,
                                   !.found = @ + found, !.priced = @ /\ priced,
                                   !.errors = @ \o errors]
<1>1. /\ worker[w].at # 0 /\ worker[w] \in Attempts /\ worker[w].left > 0
      /\ worker[w].found + worker[w].left <= NumItems /\ NumItems \in Nat
  BY Busy, ConstantTypes DEF At, Timely
<1>2. /\ worker[w].left - 1 \in 0..NumItems /\ worker[w].tried + 1 \in Nat
      /\ worker[w].found + found \in 0..NumItems
      /\ worker[w].found + found + (worker[w].left - 1) <= NumItems
  <2>1. worker[w].left \in Nat /\ worker[w].found \in Nat /\ worker[w].tried \in Nat
    BY <1>1 DEF Attempts
  <2> HIDE DEF me
  <2>2. found \in Nat /\ found <= 1
    OBVIOUS
  <2>4. worker[w].found + found \in Nat /\ worker[w].tried + 1 \in Nat
    BY <2>1, <2>2
  <2>3. worker[w].left - 1 \in 0..NumItems /\ worker[w].found + found \in 0..NumItems
    <3>1. ASSUME NEW f \in Nat, NEW l \in Nat, l > 0, f + l <= NumItems
          PROVE  l - 1 \in 0..NumItems /\ f + found \in 0..NumItems
      BY <1>1, <2>2, <3>1
    <3> QED BY <1>1, <2>1, <3>1
  <2>5. worker[w].found + found + (worker[w].left - 1) <= NumItems
    <3>1. ASSUME NEW f \in Nat, NEW l \in Nat, f + l <= NumItems
          PROVE  f + found + (l - 1) <= NumItems
      BY <1>1, <2>2, <3>1
    <3> QED BY <1>1, <2>1, <3>1
  <2> QED BY <2>3, <2>4, <2>5
<1>3. worker[w].errors \o errors \in Seq(KeptErrors)
  BY <1>1 DEF Attempts
<1>4. (worker[w].priced /\ priced) \in BOOLEAN
  OBVIOUS
<1>5. me \in Attempts
  <2> DEFINE all == worker[w].errors \o errors
             both == worker[w].priced /\ priced
  <2>1. me = [worker[w] EXCEPT !.left = worker[w].left - 1, !.tried = worker[w].tried + 1,
                !.polls = 0, !.wake = 0, !.found = worker[w].found + found,
                !.priced = both, !.errors = all]
    OBVIOUS
  <2>2. all \in Seq(KeptErrors) /\ both \in BOOLEAN
    BY <1>3, <1>4
  <2> HIDE DEF all, both, me
  <2> QED BY <1>1, <1>2, <2>1, <2>2 DEF Attempts
<1>6. /\ me.at = worker[w].at /\ me.started = worker[w].started
      /\ me.found = worker[w].found + found /\ me.left = worker[w].left - 1
  BY <1>1 DEF Attempts
<1> HIDE DEF me
<1>7. Found(w, me)
  BY DEF ItemEnds, me
<1> QED BY <1>1, <1>2, <1>5, <1>6, <1>7, FoundStep DEF Carries

\* An error of a call ends the item or the discovery.
LEMMA CallFailsStep ==
  ASSUME TypeOK, Pool, Timers, NEW w \in Workers, At(w, "item"),
         NEW error \in Thrown, CallFails(w, error)
  PROVE  WorkStep(w)
<1>1. worker[w].at # 0
  BY DEF At
<1>2. ASSUME Threw(w, error) PROVE WorkStep(w)
  BY <1>1, <1>2, ThrewStep
<1>3. ASSUME ItemEnds(w, 0, TRUE, <<ProviderErrorMetadata(error)>>) PROVE WorkStep(w)
  <2>1. ProviderErrorMetadata(error) \in KeptErrors
    BY ThrownTypes
  <2>2. <<ProviderErrorMetadata(error)>> \in Seq(KeptErrors)
    BY <2>1
  <2> QED BY <1>3, <2>2, ItemEndsStep
<1>4. ASSUME ItemEnds(w, 1, FALSE, <<>>) PROVE WorkStep(w)
  <2>1. <<>> \in Seq(KeptErrors)
    OBVIOUS
  <2> QED BY <1>4, <2>1, ItemEndsStep
<1> QED BY <1>2, <1>3, <1>4 DEF CallFails

\* Each step of a worker is one of the two.
LEMMA WorkSteps ==
  ASSUME TypeOK, Pool, Timers, NEW w \in Workers, Work(w)
  PROVE  /\ WorkStep(w) /\ worker[w].at # 0
         /\ UNCHANGED rangeVars /\ limiter' \in Limits \cup {None}
<1>1. clock \in Nat /\ limiter \in Limits \cup {None} /\ Cooldowns \subseteq Nat
  BY DelayAssumption DEF TypeOK
<1>2. CASE Wake(w)
  <2>1. worker[w].at # 0 /\ worker[w].pc = "pause"
    BY <1>2 DEF Wake
  <2>2. worker[w].attempt < MaxAttempts /\ worker[w].best \in Results \cup {None}
    BY <2>1, Busy DEF Timely, Attempts
  <2> QED BY <1>1, <1>2, <2>1, <2>2, NextAttemptStep DEF Wake
<1>3. CASE Reconstruct(w)
  <2>1. At(w, "reconstruct") /\ worker[w].at # 0
    BY <1>3 DEF Reconstruct, At
  <2>2. ASSUME NEW count \in 0..NumItems, NEW priced \in Pricings,
               Reconstructed(w, count, priced)
        PROVE  WorkStep(w)
    BY <2>1, <2>2, PricingAssumption, ReconstructedStep
  <2>3. ASSUME NEW error \in CandleErrors,
               Threw(w, error) \/ Reconstructed(w, 0, TRUE)
        PROVE  WorkStep(w)
    <3>1. error \in Thrown /\ 0 \in 0..NumItems
      BY ThrownTypes, ConstantTypes
    <3> QED BY <2>1, <2>3, <3>1, ThrewStep, ReconstructedStep
  <2>4. WorkStep(w)
    BY <1>3, <2>2, <2>3 DEF Reconstruct
  <2> QED BY <1>1, <1>3, <2>1, <2>4 DEF Reconstruct
<1>4. CASE StillRunning(w)
  <2>1. At(w, "item") /\ worker[w].at # 0
    BY <1>4 DEF StillRunning, At
  <2>2. ASSUME ItemEnds(w, 0, TRUE, <<ProviderErrorMetadata(PlainError)>>) PROVE WorkStep(w)
    <3>1. <<ProviderErrorMetadata(PlainError)>> \in Seq(KeptErrors)
      <4>1. ProviderErrorMetadata(PlainError) \in KeptErrors
        BY ThrownTypes
      <4> QED BY <4>1
    <3> QED BY <2>1, <2>2, <3>1, ItemEndsStep
  <2> DEFINE me == [worker[w] EXCEPT !.pc = "wait", !.polls = @ + 1,
                      !.wake = Least(clock + PollInterval, DeadlineOf(w))]
  <2>3. ASSUME Continue(w, me) PROVE WorkStep(w)
    <3>1. /\ worker[w] \in Attempts /\ Timely(worker[w], clock) /\ PollInterval \in Nat
          /\ CheckpointDeadline \in Nat /\ worker[w].started \in Nat
          /\ worker[w].pc = "item"
      BY <2>1, Busy, ConstantTypes DEF Attempts, At
    <3>2. /\ Least(clock + PollInterval, DeadlineOf(w)) \in Nat
          /\ Least(clock + PollInterval, DeadlineOf(w))
               <= worker[w].started + CheckpointDeadline
      BY <1>1, <3>1 DEF Least, DeadlineOf
    <3>3. me \in Attempts
      <4>1. worker[w].polls + 1 \in Nat
        BY <3>1 DEF Attempts
      <4> QED BY <3>1, <3>2, <4>1 DEF Attempts, Stages
    <3>4. /\ me.at = worker[w].at /\ me.started = worker[w].started /\ me.pc = "wait"
          /\ me.wake = Least(clock + PollInterval, DeadlineOf(w))
          /\ me.found = worker[w].found /\ me.left = worker[w].left
      BY <3>1 DEF Attempts
    <3> HIDE DEF me
    <3>5. Timely(me, clock)
      BY <3>1, <3>2, <3>4 DEF Timely
    <3> QED BY <2>1, <2>3, <3>3, <3>4, <3>5, ContinueStep
  <2>4. WorkStep(w)
    BY <1>4, <2>2, <2>3 DEF StillRunning
  <2> QED BY <1>1, <1>4, <2>1, <2>4 DEF StillRunning
<1>5. CASE PollAgain(w)
  <2> DEFINE me == [worker[w] EXCEPT !.pc = "item", !.wake = 0]
  <2>1. At(w, "wait") /\ worker[w].at # 0 /\ Continue(w, me)
    BY <1>5 DEF PollAgain, At
  <2>2. worker[w] \in Attempts /\ Timely(worker[w], clock) /\ worker[w].pc = "wait"
    BY <2>1, Busy DEF At
  <2>3. me \in Attempts
    BY <2>2 DEF Attempts, Stages
  <2>4. /\ me.at = worker[w].at /\ me.started = worker[w].started /\ me.pc = "item"
        /\ me.found = worker[w].found /\ me.left = worker[w].left
    BY <2>2 DEF Attempts
  <2> HIDE DEF me
  <2>5. Timely(me, clock)
    BY <2>2, <2>4 DEF Timely
  <2>6. WorkStep(w)
    BY <2>1, <2>3, <2>4, <2>5, ContinueStep
  <2> QED BY <1>1, <1>5, <2>1, <2>6 DEF PollAgain
<1>6. CASE Evaluated(w)
  <2>1. At(w, "item") /\ worker[w].at # 0
    BY <1>6 DEF Evaluated, At
  <2>2. PICK simulation \in Simulations :
          \/ ItemEnds(w, 1, EnrichCandidate(simulation), <<>>)
          \/ ItemEnds(w, 0, TRUE, <<>>)
    BY <1>6 DEF Evaluated
  <2>3. <<>> \in Seq(KeptErrors) /\ EnrichCandidate(simulation) \in BOOLEAN
    BY DEF EnrichCandidate
  <2>4. WorkStep(w)
    BY <2>1, <2>2, <2>3, ItemEndsStep
  <2> QED BY <1>1, <1>6, <2>1, <2>4 DEF Evaluated
<1>7. CASE Fails(w)
  <2>1. At(w, "item") /\ worker[w].at # 0
    BY <1>7 DEF Fails, At
  <2>2. PICK error \in ProviderErrors : CallFails(w, error)
    BY <1>7 DEF Fails
  <2>3. WorkStep(w)
    BY <2>1, <2>2, ThrownTypes, CallFailsStep
  <2> QED BY <1>1, <1>7, <2>1, <2>3 DEF Fails
<1>8. CASE Limited(w)
  <2>1. At(w, "item") /\ worker[w].at # 0
    BY <1>8 DEF Limited, At
  <2>2. PICK length \in Cooldowns :
          limiter' = Penalized(length) /\ CallFails(w, LimitError(limiter', "HTTP_429"))
    BY <1>8 DEF Limited
  <2>3. limiter' \in Limits
    <3>1. length \in Nat
      BY <1>1
    <3> QED BY <1>1, <2>2, <3>1 DEF Penalized, Limits, Most
  <2>4. LimitError(limiter', "HTTP_429") \in Thrown
    BY <2>3, LimitErrorType DEF Causes
  <2>5. WorkStep(w)
    BY <2>1, <2>2, <2>4, CallFailsStep
  <2> QED BY <1>8, <2>1, <2>3, <2>5 DEF Limited
<1>9. CASE Suppressed(w)
  <2>1. At(w, "item") /\ worker[w].at # 0 /\ limiter \in Limits
    BY <1>1, <1>9 DEF Suppressed, At
  <2>2. LimitError(limiter, "ACTIVE_COOLDOWN") \in Thrown
    BY <2>1, LimitErrorType DEF Causes
  <2>3. WorkStep(w)
    BY <1>9, <2>1, <2>2, CallFailsStep DEF Suppressed
  <2> QED BY <1>1, <1>9, <2>1, <2>3 DEF Suppressed
<1>10. CASE DeadlineExpires(w)
  <2>1. WorkStep(w) /\ worker[w].at # 0
    BY <1>10, ThrownTypes, ThrewStep DEF DeadlineExpires
  <2> QED BY <1>1, <1>10, <2>1 DEF DeadlineExpires
<1> QED BY <1>2, <1>3, <1>4, <1>5, <1>6, <1>7, <1>8, <1>9, <1>10 DEF Work

-----------------------------------------------------------------------------
(* The inductive invariant, action by action.                               *)

\* What a call is made of does not change while it runs.
SameCall ==
  /\ run'.phase = run.phase /\ run'.plan = run.plan /\ run'.mode = run.mode
  /\ run'.schedule = run.schedule /\ run'.eligible = run.eligible
  /\ run'.cooling = run.cooling /\ run'.started = run.started

\* A step within a call leaves alone what the client and the plan say.
LEMMA RestKeeps ==
  ASSUME IInv, UNCHANGED rangeVars, Running, SameCall
  PROVE  Plans' /\ Taken' /\ Order' /\ Remembered'
<1>1. UNCHANGED <<clock, cursor, state, passed, told>>
  BY DEF rangeVars
<1>2. Plans'
  BY <1>1 DEF IInv, Plans, Continuation, CursorFaithful, SameCall, Running
<1>3. Taken'
  BY <1>1 DEF IInv, Taken, SameCall, Running
<1>4. Order'
  BY <1>1 DEF IInv, Order
<1>5. Remembered'
  BY <1>1 DEF IInv, Remembered
<1> QED BY <1>2, <1>3, <1>4, <1>5

\* An attempt that goes on.
LEMMA AdvanceKeeps ==
  ASSUME IInv, NEW w \in Workers, worker[w].at # 0, NEW me, Advance(w, me),
         UNCHANGED rangeVars, limiter' \in Limits \cup {None}
  PROVE  IInv'
<1>1. TypeOK /\ Pool /\ Timers /\ Checks
  BY DEF IInv
<1>2. Running /\ worker \in [Workers -> Attempts \cup {Idle}]
  BY <1>1, Busy DEF TypeOK
<1>3. /\ UNCHANGED <<run, results>> /\ UNCHANGED <<clock, cursor, state, passed, told>>
      /\ me \in Attempts /\ me.at = worker[w].at /\ Timely(me, clock)
      /\ worker' = [worker EXCEPT ![w] = me]
  BY DEF Advance, rangeVars
<1>4. /\ worker'[w] = me /\ \A v \in Workers : v # w => worker'[v] = worker[v]
      /\ \A v \in Workers : worker'[v].at = worker[v].at
  BY <1>2, <1>3
<1>5. TypeOK'
  <2>1. worker' \in [Workers -> Attempts \cup {Idle}]
    BY <1>2, <1>3
  <2> QED BY <1>1, <1>3, <2>1 DEF TypeOK
<1>6. SameCall
  BY <1>3 DEF SameCall
<1>7. Pool'
  BY <1>1, <1>2, <1>3, <1>4 DEF Pool, Running
<1>8. Checks'
  BY <1>1, <1>3 DEF Checks
<1>9. Timers'
  <2> SUFFICES ASSUME NEW v \in Workers, worker'[v].at # 0 PROVE Timely(worker'[v], clock')
    BY DEF Timers
  <2>1. Timely(worker'[v], clock)
    BY <1>1, <1>3, <1>4 DEF Timers
  <2> QED BY <1>3, <2>1 DEF Timely
<1>10. Plans' /\ Taken' /\ Order' /\ Remembered'
  BY <1>2, <1>6, RestKeeps
<1> QED BY <1>5, <1>7, <1>8, <1>9, <1>10 DEF IInv

\* A checkpoint that is through; its worker takes the next.
LEMMA StoreKeeps ==
  ASSUME IInv, NEW w \in Workers, worker[w].at # 0, NEW c, Store(w, c),
         UNCHANGED rangeVars, limiter' \in Limits \cup {None}
  PROVE  IInv'
<1> DEFINE at == worker[w].at
           more == run.next <= Len(run.schedule)
           fresh == AttemptOf(run.next, 1, clock, None)
<1>1. TypeOK /\ Pool /\ Timers /\ Checks
  BY DEF IInv
<1>2. /\ Running /\ run \in ActiveRuns /\ clock \in Nat
      /\ at \in DOMAIN run.schedule /\ at \in DOMAIN results
      /\ worker \in [Workers -> Attempts \cup {Idle}] /\ results \in Seq(Checked \cup {None})
  BY <1>1, Busy DEF TypeOK
<1>3. /\ UNCHANGED <<clock, cursor, state, passed, told>>
      /\ c \in Checked /\ c.date = run.schedule[at].date /\ Sound(c)
      /\ results' = [results EXCEPT ![at] = c]
  BY DEF Store, rangeVars
<1>4. /\ run.next \in Nat \ {0} /\ run.schedule \in Seq(Entries)
      /\ DOMAIN run.schedule = 1..Len(run.schedule) /\ Len(run.schedule) \in Nat
  BY <1>2 DEF ActiveRuns
<1>5. /\ fresh \in Attempts /\ fresh.at = run.next /\ fresh.at # 0 /\ Timely(fresh, clock)
  <2>1. fresh \in Attempts
    <3>1. 1 \in 1..MaxAttempts
      BY ConstantTypes
    <3> QED BY <1>2, <1>4, <3>1, AttemptType
  <2>2. fresh.at = run.next
    BY DEF AttemptOf
  <2>3. Timely(fresh, clock)
    BY <1>2, ConstantTypes DEF Timely, AttemptOf
  <2> QED BY <1>4, <2>1, <2>2, <2>3
<1>6. \/ /\ more /\ worker' = [worker EXCEPT ![w] = fresh] /\ run' = [run EXCEPT !.next = @ + 1]
      \/ ~more /\ worker' = [worker EXCEPT ![w] = Idle] /\ run' = run
  BY DEF Store
<1> HIDE DEF fresh, more, at
<1>7. SameCall
  BY <1>2, <1>6 DEF SameCall, ActiveRuns
<1>8. run' \in ActiveRuns
  <2>1. CASE more
    <3>1. run.next + 1 \in Nat \ {0}
      BY <1>4
    <3> QED BY <2>1, <3>1, <1>2, <1>6 DEF ActiveRuns
  <2>2. CASE ~more
    BY <2>2, <1>2, <1>6
  <2> QED BY <2>1, <2>2
<1>9. worker'[w] \in {fresh, Idle} /\ \A v \in Workers : v # w => worker'[v] = worker[v]
  BY <1>2, <1>6
<1>10. /\ results' \in Seq(Checked \cup {None}) /\ DOMAIN results' = DOMAIN results
       /\ results'[at] = c /\ \A i \in DOMAIN results : i # at => results'[i] = results[i]
  BY <1>2, <1>3
<1>11. TypeOK'
  <2>1. worker' \in [Workers -> Attempts \cup {Idle}]
    BY <1>2, <1>5, <1>6
  <2> QED BY <1>1, <1>3, <1>8, <1>10, <2>1 DEF TypeOK
<1>12. Pool'
  <2>1. Running'
    BY <1>2, <1>7 DEF Running, SameCall
  <2>2. DOMAIN results' = DOMAIN run'.schedule
    BY <1>1, <1>2, <1>7, <1>10 DEF Pool, SameCall
  <2>3. run'.next <= Len(run'.schedule) => \E v \in Workers : worker'[v].at # 0
    <3>1. CASE more
      BY <3>1, <1>2, <1>5, <1>6
    <3>2. CASE ~more
      BY <3>2, <1>6 DEF more
    <3> QED BY <3>1, <3>2
  <2>4. ASSUME NEW i \in DOMAIN results', i < run'.next, results'[i] = None
        PROVE  \E v \in Workers : worker'[v].at = i
    <3>1. i # at /\ results[i] = None /\ i \in Nat
      <4>1. c # None
        BY <1>3, NoneApart
      <4>2. i \in DOMAIN results /\ i # at
        BY <2>4, <4>1, <1>10
      <4> QED BY <2>4, <4>2, <1>2, <1>10
    <3>2. CASE i < run.next
      <4>1. PICK v \in Workers : worker[v].at = i
        BY <1>1, <1>2, <1>10, <2>4, <3>1, <3>2 DEF Pool
      <4>2. v # w
        BY <3>1, <4>1 DEF at
      <4> QED BY <1>9, <4>1, <4>2
    <3>3. CASE ~(i < run.next)
      <4>1. more /\ i = run.next
        BY <3>1, <3>3, <1>2, <1>4, <1>6, <2>4 DEF ActiveRuns
      <4> QED BY <4>1, <1>2, <1>5, <1>6
    <3> QED BY <3>2, <3>3
  <2>5. ASSUME NEW v \in Workers, worker'[v].at # 0 PROVE worker'[v].at \in DOMAIN run'.schedule
    <3>1. CASE v # w
      BY <1>1, <1>2, <1>7, <1>9, <2>5, <3>1 DEF Pool, SameCall
    <3>2. CASE v = w
      <4>1. more /\ worker'[w] = fresh
        BY <1>2, <1>6, <2>5, <3>2 DEF Idle
      <4> QED BY <4>1, <3>2, <1>4, <1>5, <1>7 DEF more, SameCall
    <3> QED BY <3>1, <3>2
  <2> QED BY <2>1, <2>2, <2>3, <2>4, <2>5 DEF Pool
<1>13. Checks'
  <2> SUFFICES ASSUME NEW i \in DOMAIN results', results'[i] # None
               PROVE  results'[i].date = run'.schedule[i].date /\ Sound(results'[i])
    BY DEF Checks, Sound
  <2>1. CASE i = at
    BY <2>1, <1>3, <1>7, <1>10 DEF SameCall
  <2>2. CASE i # at
    BY <2>2, <1>1, <1>7, <1>10 DEF Checks, SameCall
  <2> QED BY <2>1, <2>2
<1>14. Timers'
  <2> SUFFICES ASSUME NEW v \in Workers, worker'[v].at # 0 PROVE Timely(worker'[v], clock')
    BY DEF Timers
  <2>1. Timely(worker'[v], clock)
    BY <1>1, <1>5, <1>9 DEF Timers, Idle
  <2> QED BY <1>3, <2>1 DEF Timely
<1>15. Plans' /\ Taken' /\ Order' /\ Remembered'
  BY <1>2, <1>7, RestKeeps
<1> QED BY <1>11, <1>12, <1>13, <1>14, <1>15 DEF IInv

\* Every step of a worker is one of these.
LEMMA WorkKeeps ==
  ASSUME IInv, NEW w \in Workers, Work(w)
  PROVE  IInv'
<1>1. /\ WorkStep(w) /\ worker[w].at # 0
      /\ UNCHANGED rangeVars /\ limiter' \in Limits \cup {None}
  BY WorkSteps DEF IInv
<1> QED BY <1>1, AdvanceKeeps, StoreKeeps DEF WorkStep

\* A call takes its sessions from its plan.
LEMMA PlanTaken ==
  ASSUME NEW plan \in States, NEW mode
  PROVE  /\ Eligible(plan) \in Seq(Entries) /\ Cooling(plan) \in Seq(Entries)
         /\ Ready(plan) = ReadyAt(plan, clock)
         /\ Scheduled(plan, mode) \in Seq(Entries)
         /\ Scheduled(plan, mode) =
              IF FirstPass(plan)
              THEN [i \in 1..Shortest(plan.unattempted) |-> Deferred(plan.unattempted[i])]
              ELSE IF mode = "CACHE_ONLY" THEN SubSeq(plan.deferred, 1, Shortest(plan.deferred))
              ELSE SubSeq(Eligible(plan), 1, Shortest(Eligible(plan)))
<1>1. plan.unattempted \in Seq(Dates) /\ plan.deferred \in Seq(Entries)
  BY DEF States
<1>2. Ready(plan) = ReadyAt(plan, clock)
  BY DEF Ready, ReadyAt, IsRetryEligible
<1>3. Eligible(plan) \in Seq(Entries) /\ Cooling(plan) \in Seq(Entries)
  <2>1. /\ Ready(plan) \in SUBSET DOMAIN plan.deferred
        /\ DOMAIN plan.deferred \ Ready(plan) \in SUBSET DOMAIN plan.deferred
    BY DEF Ready
  <2> QED BY <1>1, <2>1, PickedDates DEF Eligible, Cooling
<1>4. MaxCheckpointsPerRun \in Nat \ {0}
  BY ConstantTypes
<1>5. CASE FirstPass(plan)
  <2> DEFINE all == [i \in DOMAIN plan.unattempted |-> Deferred(plan.unattempted[i])]
             n == Shortest(plan.unattempted)
             head == [i \in 1..n |-> Deferred(plan.unattempted[i])]
  <2>1. /\ Len(plan.unattempted) \in Nat
        /\ DOMAIN plan.unattempted = 1..Len(plan.unattempted)
        /\ \A i \in 1..Len(plan.unattempted) : Deferred(plan.unattempted[i]) \in Entries
    BY <1>1, DeferredType
  <2>2. all \in Seq(Entries) /\ Len(all) = Len(plan.unattempted)
    <3>1. all \in [1..Len(plan.unattempted) -> Entries]
      BY <2>1
    <3> HIDE DEF all
    <3> QED BY <2>1, <3>1
  <2>3. n \in Nat /\ n <= Len(plan.unattempted)
    BY <1>4, <2>1 DEF Shortest, Least
  <2>4. \A i \in 1..n : all[i] = Deferred(plan.unattempted[i])
    BY <2>1, <2>3
  <2>5. Scheduled(plan, mode) = SubSeq(all, 1, n)
    BY <1>5, <2>2 DEF Scheduled, Schedulable, Shortest
  <2> HIDE DEF all
  <2>6. SubSeq(all, 1, n) \in Seq(Entries) /\ SubSeq(all, 1, n) = [i \in 1..n |-> all[i]]
    <3> HIDE DEF n
    <3> QED BY <2>1, <2>2, <2>3
  <2>7. SubSeq(all, 1, n) = head
    BY <2>4, <2>6
  <2> QED BY <1>2, <1>3, <1>5, <2>5, <2>6, <2>7
<1>6. CASE ~FirstPass(plan)
  <2> DEFINE waiting == IF mode = "CACHE_ONLY" THEN plan.deferred ELSE Eligible(plan)
             n == Shortest(waiting)
  <2>1. waiting \in Seq(Entries)
    BY <1>1, <1>3
  <2>2. Scheduled(plan, mode) = SubSeq(waiting, 1, n)
    BY <1>6 DEF Scheduled, Schedulable, Shortest
  <2> HIDE DEF waiting
  <2>3. n \in Nat /\ n <= Len(waiting)
    BY <1>4, <2>1 DEF Shortest, Least
  <2>4. SubSeq(waiting, 1, n) \in Seq(Entries)
    <3> HIDE DEF n
    <3> QED BY <2>1, <2>3
  <2> QED BY <1>2, <1>3, <1>6, <2>2, <2>4 DEF waiting
<1> QED BY <1>5, <1>6

\* The pool begins with the first checkpoints, one for each of its workers.
LEMMA FreshPool ==
  ASSUME NEW count \in Nat, NEW workers \in FreshWorkers(count)
  PROVE  /\ \A w \in Workers : \/ workers[w] = Idle
                               \/ \E i \in 1..count : workers[w] = AttemptOf(i, 1, clock, None)
         /\ \A i \in 1..count : \E w \in Workers : workers[w].at = i
         /\ workers = [w \in Workers |-> workers[w]]
<1>1. PICK pool \in [1..count -> Workers] :
        /\ \A i, j \in 1..count : pool[i] = pool[j] => i = j
        /\ workers = [w \in Workers |->
             IF \E i \in 1..count : pool[i] = w
             THEN AttemptOf(CHOOSE i \in 1..count : pool[i] = w, 1, clock, None)
             ELSE Idle]
  BY DEF FreshWorkers
<1> DEFINE at(w) == CHOOSE i \in 1..count : pool[i] = w
<1>2. \A w \in Workers : (\E i \in 1..count : pool[i] = w) => at(w) \in 1..count /\ pool[at(w)] = w
  BY Zenon
<1>3. \A w \in Workers : workers[w] = IF \E i \in 1..count : pool[i] = w
                                      THEN AttemptOf(at(w), 1, clock, None) ELSE Idle
  BY <1>1
<1>4. workers = [w \in Workers |-> workers[w]]
  BY <1>1
<1> HIDE DEF at
<1>5. ASSUME NEW i \in 1..count PROVE \E w \in Workers : workers[w].at = i
  <2>1. pool[i] \in Workers /\ at(pool[i]) = i
    BY <1>1, <1>2
  <2>2. workers[pool[i]] = AttemptOf(i, 1, clock, None)
    BY <1>3, <2>1
  <2> QED BY <2>1, <2>2 DEF AttemptOf
<1> QED BY <1>2, <1>3, <1>4, <1>5

\* A call starts from its cursor.
LEMMA StartKeeps ==
  ASSUME IInv, NEW mode \in Modes, StartRun(mode)
  PROVE  IInv'
<1> DEFINE plan == Continuation
           schedule == Scheduled(plan, mode)
           count == Least(MaxConcurrency, Len(schedule))
           eligible == IF mode = "CACHE_ONLY" THEN plan.deferred ELSE Eligible(plan)
<1>1. TypeOK /\ Plans /\ Pool /\ Order /\ Remembered
  BY DEF IInv
<1>2. run.phase = "idle" /\ state # None /\ UNCHANGED <<clock, limiter, cursor, state, passed, told>>
  BY DEF StartRun
<1>3. plan = state /\ plan \in States /\ clock \in Nat
  BY <1>1, <1>2 DEF Plans, TypeOK
<1>4. /\ run' = [phase |-> "running", calls |-> run.calls, crashes |-> run.crashes,
                 mode |-> mode, plan |-> plan, schedule |-> schedule, eligible |-> eligible,
                 cooling |-> Cooling(plan), started |-> clock, next |-> count + 1]
      /\ worker' \in FreshWorkers(count) /\ results' = [i \in DOMAIN schedule |-> None]
  BY DEF StartRun
<1> HIDE DEF plan
<1>5. /\ Eligible(plan) \in Seq(Entries) /\ Cooling(plan) \in Seq(Entries)
      /\ Ready(plan) = ReadyAt(plan, clock) /\ schedule \in Seq(Entries)
  BY <1>3, PlanTaken
<1>6. eligible \in Seq(Entries) /\ plan.deferred \in Seq(Entries)
  BY <1>3, <1>5 DEF States
<1>7. /\ count \in Nat /\ count <= Len(schedule) /\ Len(schedule) \in Nat
      /\ DOMAIN schedule = 1..Len(schedule) /\ Len(schedule) # 0 => count # 0
  BY <1>5, ConstantTypes DEF Least
<1>8. schedule = IF FirstPass(plan)
                 THEN [i \in 1..Shortest(plan.unattempted) |-> Deferred(plan.unattempted[i])]
                 ELSE SubSeq(eligible, 1, Shortest(eligible))
  BY <1>3, PlanTaken
<1> HIDE DEF schedule, count, eligible
<1>9. run' \in ActiveRuns
  <2>1. run.calls \in Nat /\ run.crashes \in Nat
    BY <1>1, <1>2 DEF TypeOK, IdleRuns, ActiveRuns
  <2>2. count + 1 \in Nat \ {0}
    BY <1>7
  <2> QED BY <1>3, <1>4, <1>5, <1>6, <2>1, <2>2 DEF ActiveRuns
<1>10. \A i \in 1..count : AttemptOf(i, 1, clock, None) \in Attempts
  <2>1. 1 \in 1..MaxAttempts
    BY ConstantTypes
  <2> QED BY <1>3, <1>7, <2>1, AttemptType
<1>11. /\ \A w \in Workers : \/ worker'[w] = Idle
                             \/ \E i \in 1..count : worker'[w] = AttemptOf(i, 1, clock, None)
       /\ \A i \in 1..count : \E w \in Workers : worker'[w].at = i
       /\ worker' = [w \in Workers |-> worker'[w]]
  BY <1>4, <1>7, FreshPool
<1>12. TypeOK'
  <2>1. worker' \in [Workers -> Attempts \cup {Idle}]
    BY <1>10, <1>11
  <2>2. results' \in Seq(Checked \cup {None})
    <3>1. results' \in [1..Len(schedule) -> Checked \cup {None}]
      BY <1>4, <1>7
    <3> QED BY <1>7, <3>1
  <2> QED BY <1>1, <1>2, <1>9, <2>1, <2>2 DEF TypeOK
<1>13. Plans'
  BY <1>1, <1>2, <1>4 DEF Plans, Continuation, CursorFaithful
<1>14. Taken'
  <2>1. Eligible(plan) = Picked(plan.deferred, ReadyAt(plan, clock))
        /\ Cooling(plan) = Picked(plan.deferred, DOMAIN plan.deferred \ ReadyAt(plan, clock))
    BY <1>5 DEF Eligible, Cooling
  <2>2. IF mode = "CACHE_ONLY" THEN eligible = plan.deferred ELSE eligible = Eligible(plan)
    BY DEF eligible
  <2>3. clock <= clock
    BY <1>3
  <2>4. /\ run'.plan = plan /\ run'.mode = mode /\ run'.started = clock
        /\ run'.schedule = schedule /\ run'.eligible = eligible
        /\ run'.cooling = Cooling(plan)
    BY <1>4
  <2> QED BY <1>2, <1>3, <1>8, <2>1, <2>2, <2>3, <2>4 DEF Taken
<1>15. Pool'
  <2>1. Running' /\ run'.schedule = schedule /\ run'.next = count + 1
    BY <1>4 DEF Running
  <2>2. DOMAIN results' = DOMAIN schedule
    BY <1>4
  <2>3. count + 1 <= Len(schedule) => \E w \in Workers : worker'[w].at # 0
    <3> SUFFICES ASSUME count + 1 <= Len(schedule) PROVE \E w \in Workers : worker'[w].at # 0
      OBVIOUS
    <3>1. 1 \in 1..count
      BY <1>7
    <3>2. PICK w \in Workers : worker'[w].at = 1
      BY <1>11, <3>1
    <3> QED BY <3>2
  <2>4. \A i \in DOMAIN results' : i < count + 1 => \E w \in Workers : worker'[w].at = i
    <3> SUFFICES ASSUME NEW i \in DOMAIN results', i < count + 1
                 PROVE  \E w \in Workers : worker'[w].at = i
      OBVIOUS
    <3>1. i \in 1..count
      BY <1>7, <2>2
    <3> QED BY <1>11, <3>1
  <2>5. \A w \in Workers : worker'[w].at # 0 => worker'[w].at \in DOMAIN schedule
    <3> SUFFICES ASSUME NEW w \in Workers, worker'[w].at # 0
                 PROVE  worker'[w].at \in DOMAIN schedule
      OBVIOUS
    <3>1. PICK i \in 1..count : worker'[w] = AttemptOf(i, 1, clock, None)
      BY <1>11 DEF Idle
    <3>2. worker'[w].at = i
      BY <3>1 DEF AttemptOf
    <3> QED BY <3>2, <1>7
  <2> QED BY <2>1, <2>2, <2>3, <2>4, <2>5 DEF Pool
<1>16. Checks'
  BY <1>4 DEF Checks
<1>17. Timers'
  <2> SUFFICES ASSUME NEW w \in Workers, worker'[w].at # 0 PROVE Timely(worker'[w], clock')
    BY DEF Timers
  <2>1. PICK i \in 1..count : worker'[w] = AttemptOf(i, 1, clock, None)
    BY <1>11 DEF Idle
  <2>2. Timely(AttemptOf(i, 1, clock, None), clock)
    BY <1>3, ConstantTypes DEF Timely, AttemptOf
  <2> QED BY <1>2, <2>1, <2>2
<1>18. Order' /\ Remembered'
  BY <1>1, <1>2 DEF Order, Remembered
<1> QED BY <1>12, <1>13, <1>14, <1>15, <1>16, <1>17, <1>18 DEF IInv

\* Time passes only while no timer is due.
LEMMA TickKeeps ==
  ASSUME IInv, Tick
  PROVE  IInv'
<1>1. /\ clock' = clock + 1
      /\ UNCHANGED <<limiter, cursor, run, worker, results, state, passed, told>>
  BY DEF Tick
<1>2. TypeOK /\ Pool /\ Timers /\ clock \in Nat
  BY DEF IInv, TypeOK
<1>3. TypeOK'
  BY <1>1, <1>2 DEF TypeOK
<1>4. Plans'
  BY <1>1 DEF IInv, Plans, Continuation, CursorFaithful
<1>5. Taken'
  <2> SUFFICES ASSUME Running' PROVE Taken'
    BY DEF Taken
  <2>1. Running /\ Taken
    BY <1>1 DEF Running, IInv
  <2>2. run.started <= clock'
    <3>1. run.started \in Nat /\ run.started <= clock
      BY <2>1, <1>2 DEF Running, TypeOK, IdleRuns, ActiveRuns, Taken
    <3> QED BY <1>1, <1>2, <3>1
  <2> QED BY <1>1, <2>1, <2>2 DEF Taken, Running
<1>6. Pool'
  BY <1>1, <1>2 DEF Pool, Running
<1>7. Checks'
  BY <1>1 DEF IInv, Checks
<1>8. Timers'
  <2> SUFFICES ASSUME NEW w \in Workers, worker[w].at # 0 PROVE Timely(worker[w], clock + 1)
    BY <1>1 DEF Timers
  <2>1. Timely(worker[w], clock) /\ worker[w] \in Attempts /\ CheckpointDeadline \in Nat
    BY <1>2, Busy, ConstantTypes
  <2>2. worker[w].started \in Nat /\ worker[w].wake \in Nat
    BY <2>1 DEF Attempts
  <2>3. ~Due(w)
    BY DEF Tick
  <2>4. clock < worker[w].started + CheckpointDeadline
    BY <1>2, <2>1, <2>2, <2>3 DEF Due, DeadlineOf, Timely
  <2> QED BY <1>2, <2>1, <2>2, <2>4 DEF Timely
<1>9. Order' /\ Remembered'
  BY <1>1 DEF IInv, Order, Remembered
<1> QED BY <1>3, <1>4, <1>5, <1>6, <1>7, <1>8, <1>9 DEF IInv

\* A crash loses the call and nothing of the client.
LEMMA CrashKeeps ==
  ASSUME IInv, Crash
  PROVE  IInv'
<1>1. /\ run' = [Forget EXCEPT !.crashes = @ + 1] /\ worker' = [w \in Workers |-> Idle]
      /\ results' = <<>> /\ limiter' = None /\ run.phase = "running"
      /\ UNCHANGED <<clock, cursor, state, passed, told>>
  BY DEF Crash, rangeVars
<1>2. run' \in IdleRuns /\ run'.phase = "idle"
  <2>1. run.calls \in Nat /\ run.crashes \in Nat
    BY DEF IInv, TypeOK, IdleRuns, ActiveRuns
  <2>2. run' = [phase |-> "idle", calls |-> run.calls, crashes |-> run.crashes + 1]
    BY <1>1 DEF Forget, NoRun
  <2> QED BY <2>1, <2>2 DEF IdleRuns
<1>3. TypeOK'
  <2>1. results' \in Seq(Checked \cup {None})
    BY <1>1
  <2>2. worker' \in [Workers -> Attempts \cup {Idle}]
    BY <1>1
  <2> QED BY <1>1, <1>2, <2>1, <2>2 DEF IInv, TypeOK
<1>4. Plans'
  BY <1>1, <1>2 DEF IInv, Plans, Continuation, CursorFaithful
<1>5. Taken'
  BY <1>2 DEF Taken, Running
<1>6. Pool' /\ Checks' /\ Timers'
  BY <1>1, <1>2 DEF Pool, Checks, Timers, Idle, Running
<1>7. Order' /\ Remembered'
  BY <1>1 DEF IInv, Order, Remembered
<1> QED BY <1>3, <1>4, <1>5, <1>6, <1>7 DEF IInv

\* The client begins with nothing or with a cursor of any version.
LEMMA InitEstablishes ==
  ASSUME Init
  PROVE  IInv
<1>1. /\ clock = 0 /\ limiter = None /\ cursor \in FirstCursors /\ run = NoRun
      /\ worker = [w \in Workers |-> Idle] /\ results = <<>> /\ state = Continuation
      /\ passed = [d \in Dates |-> {}] /\ told = 0
  BY DEF Init
<1>2. cursor \in {None} \cup Cursors \cup OldCursors
  BY <1>1, CursorAssumption
<1>3. state # None => state \in States /\ ValidContinuation(state)
  <2>1. CASE cursor = None
    BY <1>1, <2>1, WholeRangeValid DEF Continuation
  <2>2. CASE cursor # None
    <3>1. cursor \in Cursors \cup OldCursors /\ state = DecodeContinuation(cursor)
      BY <1>1, <1>2, <2>2 DEF Continuation
    <3> QED BY <3>1, DecodedType
  <2> QED BY <2>1, <2>2
<1>4. TypeOK
  <2>1. <<>> \in Seq(Checked \cup {None})
    OBVIOUS
  <2>2. NoRun \in IdleRuns
    BY DEF NoRun, IdleRuns
  <2>3. worker \in [Workers -> Attempts \cup {Idle}] /\ passed \in [Dates -> SUBSET Dates]
    BY <1>1
  <2> QED BY <1>1, <1>3, <2>1, <2>2, <2>3 DEF TypeOK
<1>5. Plans
  BY <1>1, <1>3, WholeRangeValid, NoneApart DEF Plans, CursorFaithful, Continuation
<1>6. Taken /\ Pool /\ Checks /\ Timers
  BY <1>1 DEF Taken, Pool, Checks, Timers, Running, NoRun, Idle
<1>7. Order
  <2> SUFFICES ASSUME state # None PROVE Order
    BY DEF Order
  <2>1. DatesIn(state.deferred) \in SUBSET Dates
    <3>1. state.deferred \in Seq(Entries)
      BY <1>3 DEF States
    <3>2. \A i \in DOMAIN state.deferred : state.deferred[i].date \in Dates
      <4>1. \A i \in DOMAIN state.deferred : state.deferred[i] \in Entries
        BY <3>1
      <4> QED BY <4>1 DEF Entries
    <3> QED BY <3>2 DEF DatesIn
  <2> QED BY <1>1, <2>1 DEF Order
<1>8. Remembered
  BY <1>1 DEF Remembered
<1> QED BY <1>4, <1>5, <1>6, <1>7, <1>8 DEF IInv

-----------------------------------------------------------------------------
(* The end of a call: the rate limits, the sessions and their order.        *)

Within(p, q) == \A i \in DOMAIN p : \E k \in DOMAIN q : q[k] = p[i]

\* A concatenation has the members of both.
LEMMA ConcatMembers ==
  ASSUME NEW S, NEW p \in Seq(S), NEW q \in Seq(S)
  PROVE  p \o q \in Seq(S) /\ Within(p, p \o q) /\ Within(q, p \o q)
<1>1. /\ Len(p) \in Nat /\ Len(q) \in Nat /\ p \o q \in Seq(S)
      /\ DOMAIN p = 1..Len(p) /\ DOMAIN q = 1..Len(q)
      /\ DOMAIN (p \o q) = 1..(Len(p) + Len(q))
  OBVIOUS
<1>2. \A i \in DOMAIN p : i \in DOMAIN (p \o q) /\ (p \o q)[i] = p[i]
  OBVIOUS
<1>3. \A i \in DOMAIN q : i + Len(p) \in DOMAIN (p \o q) /\ (p \o q)[i + Len(p)] = q[i]
  OBVIOUS
<1> QED BY <1>1, <1>2, <1>3 DEF Within

\* Finitely many indices have finitely many values.
LEMMA ImageFinite ==
  ASSUME NEW n \in Nat, NEW I \in SUBSET (1..n), NEW f
  PROVE  IsFiniteSet({f[i] : i \in I})
<1> DEFINE T == {f[i] : i \in I}
           g == [i \in I |-> f[i]]
<1>1. IsFiniteSet(I)
  <2>1. IsFiniteSet(1..n)
    BY FS_Interval
  <2> QED BY <2>1, FS_Subset
<1>2. g \in [I -> T] /\ \A t \in T : \E i \in I : g[i] = t
  OBVIOUS
<1> HIDE DEF g, T
<1>3. g \in Surjection(I, T)
  BY <1>2 DEF Surjection
<1> QED BY <1>1, <1>3, FS_Surjection DEF T

\* Of several rate limits the one that lasts longest, with the latest 429 and
\* the largest count of them.
LEMMA LongestOf ==
  ASSUME NEW known \in Seq(Rates), known # <<>>, NEW extra \in Nat
  PROVE  LET until == [i \in DOMAIN known |-> known[i].until]
             merged == [known[FirstLongest(DOMAIN known, until)] EXCEPT
                          !.last  = Max({known[i].last : i \in DOMAIN known}),
                          !.count = Max({known[i].count : i \in DOMAIN known} \cup {extra})]
         IN  /\ merged \in Rates
             /\ \A i \in DOMAIN known :
                  /\ known[i].until <= merged.until /\ known[i].last <= merged.last
                  /\ known[i].count <= merged.count
<1> DEFINE n == Len(known)
           until == [i \in DOMAIN known |-> known[i].until]
           chosen == FirstLongest(DOMAIN known, until)
           lasts == [i \in 1..n |-> known[i].last]
           counts == [i \in 1..(n + 1) |-> IF i = n + 1 THEN extra ELSE known[i].count]
           last == Max({known[i].last : i \in DOMAIN known})
           count == Max({known[i].count : i \in DOMAIN known} \cup {extra})
<1>1. n \in Nat \ {0} /\ DOMAIN known = 1..n /\ \A i \in 1..n : known[i] \in Rates
  OBVIOUS
<1>2. \A i \in 1..n : known[i].until \in Nat /\ known[i].last \in Nat /\ known[i].count \in Nat
  BY <1>1 DEF Rates
<1> HIDE DEF n
<1>3. chosen \in 1..n /\ \A i \in 1..n : known[i].until <= known[chosen].until
  <2>1. n \in Nat /\ 1..n \in SUBSET (1..n) /\ 1..n # {}
    <3>1. 1 \in 1..n
      BY <1>1
    <3> QED BY <1>1, <3>1
  <2>2. \A i \in 1..n : until[i] = known[i].until
    BY <1>1
  <2> HIDE DEF until
  <2>4. \A i \in 1..n : until[i] \in Int /\ until[i] >= -1
    <3> TAKE i \in 1..n
    <3>1. until[i] \in Nat
      BY <1>2, <2>2
    <3> QED BY <3>1
  <2>3. chosen \in 1..n /\ \A i \in 1..n : until[i] <= until[chosen]
    BY <1>1, <2>1, <2>4, FirstLongestFact
  <2> HIDE DEF chosen
  <2> QED BY <2>2, <2>3
<1>4. last \in Nat /\ \A i \in 1..n : known[i].last <= last
  <2>1. lasts \in [1..n -> Nat] /\ \A i \in 1..n : lasts[i] = known[i].last
    BY <1>2
  <2>2. {known[i].last : i \in DOMAIN known} = {lasts[i] : i \in 1..n}
    BY <1>1
  <2> HIDE DEF lasts
  <2>3. /\ Max({lasts[i] : i \in 1..n}) \in Nat
        /\ \A i \in 1..n : lasts[i] <= Max({lasts[k] : k \in 1..n})
    BY <1>1, <2>1, MaxFact
  <2> QED BY <2>1, <2>2, <2>3
<1>5. count \in Nat /\ \A i \in 1..n : known[i].count <= count
  <2>1. /\ counts \in [1..(n + 1) -> Nat] /\ n + 1 \in Nat \ {0}
        /\ \A i \in 1..n : i \in 1..(n + 1) /\ counts[i] = known[i].count
        /\ n + 1 \in 1..(n + 1) /\ counts[n + 1] = extra
    <3>1. \A i \in 1..(n + 1) : i # n + 1 => i \in 1..n
      BY <1>1
    <3> QED BY <1>1, <1>2, <3>1
  <2>2. {known[i].count : i \in DOMAIN known} \cup {extra} = {counts[i] : i \in 1..(n + 1)}
    <3>1. \A i \in 1..(n + 1) : i \in 1..n \/ i = n + 1
      BY <1>1
    <3> HIDE DEF counts
    <3> QED BY <1>1, <2>1, <3>1
  <2> HIDE DEF counts
  <2>3. /\ Max({counts[i] : i \in 1..(n + 1)}) \in Nat
        /\ \A i \in 1..(n + 1) : counts[i] <= Max({counts[k] : k \in 1..(n + 1)})
    BY <2>1, MaxFact
  <2> QED BY <2>1, <2>2, <2>3
<1> DEFINE merged == [known[chosen] EXCEPT !.last = last, !.count = count]
<1> HIDE DEF chosen, last, count
<1>6. known[chosen] \in Rates
  BY <1>1, <1>3
<1>7. /\ merged \in Rates /\ merged.until = known[chosen].until /\ merged.last = last
      /\ merged.count = count
  BY <1>4, <1>5, <1>6 DEF Rates
<1> HIDE DEF merged
<1>8. \A i \in DOMAIN known :
        /\ known[i].until <= merged.until /\ known[i].last <= merged.last
        /\ known[i].count <= merged.count
  BY <1>1, <1>3, <1>4, <1>5, <1>7
<1> QED BY <1>7, <1>8 DEF merged, chosen, last, count

\* The merged rate limit forgets no cooldown of the plan or of a checkpoint.
LEMMA MergeFact ==
  ASSUME clock \in Nat, NEW rate \in Rates \cup {None}, NEW process \in Limits \cup {None},
         NEW checkpoints \in Seq(Checked), \A i \in DOMAIN checkpoints : Sound(checkpoints[i])
  PROVE  LET merged == MergeProviderRateLimit(rate, process, checkpoints)
         IN  /\ merged \in Rates \cup {None}
             /\ rate # None =>
                  /\ merged # None /\ merged.until >= rate.until /\ merged.last >= rate.last
                  /\ merged.count >= rate.count
             /\ \A i \in DOMAIN checkpoints :
                  IsLimited(checkpoints[i]) /\ checkpoints[i].failure.rate # None =>
                    merged # None /\ merged.until >= checkpoints[i].failure.rate.until
<1> DEFINE limited == {i \in DOMAIN checkpoints : IsLimited(checkpoints[i])}
           naming == {i \in limited : checkpoints[i].failure.rate # None}
           named == Picked(checkpoints, naming)
           unnamed == Picked(checkpoints, limited \ naming)
           counting == {k \in naming : checkpoints[k].failure.rate.cause = "HTTP_429"}
           fresh == {KeyOf(checkpoints[i].failure.rate) : i \in counting}
           counted == (IF rate = None THEN 0 ELSE rate.count)
                      + Cardinality(IF rate = None THEN fresh ELSE fresh \ {KeyOf(rate)})
           ofPlan == IF rate = None THEN <<>> ELSE <<rate>>
           ofProcess == IF process = None THEN <<>> ELSE <<Metadata(process, "HTTP_429")>>
           ofNamed == [i \in DOMAIN named |-> named[i].failure.rate]
           ofUnnamed == [i \in DOMAIN unnamed |->
                           [provider |-> unnamed[i].retry.provider, until |-> unnamed[i].retry.at,
                            last |-> clock, count |-> counted + i, cause |-> "HTTP_429"]]
           known == ofPlan \o ofProcess \o ofNamed \o ofUnnamed
           until == [i \in DOMAIN known |-> known[i].until]
           merged == [known[FirstLongest(DOMAIN known, until)] EXCEPT
                        !.last  = Max({known[i].last : i \in DOMAIN known}),
                        !.count = Max({known[i].count : i \in DOMAIN known}
                                      \cup {counted + Len(unnamed)})]
<1>1. MergeProviderRateLimit(rate, process, checkpoints) = IF known = <<>> THEN None ELSE merged
  BY DEF MergeProviderRateLimit
<1>2. /\ DOMAIN checkpoints = 1..Len(checkpoints) /\ Len(checkpoints) \in Nat
      /\ limited \in SUBSET DOMAIN checkpoints /\ naming \in SUBSET DOMAIN checkpoints
      /\ counting \in SUBSET (1..Len(checkpoints))
      /\ limited \ naming \in SUBSET DOMAIN checkpoints
  OBVIOUS
<1>3. /\ \A i \in naming : checkpoints[i].failure.rate \in Rates
      /\ \A i \in limited \ naming :
           checkpoints[i].retry.at \in Nat /\ checkpoints[i].retry.provider = Provider
  <2>1. ASSUME NEW i \in naming PROVE checkpoints[i].failure.rate \in Rates
    <3>1. checkpoints[i] \in Checked /\ checkpoints[i].failure # None
          /\ checkpoints[i].failure.rate # None
      BY <1>2 DEF IsLimited
    <3>2. checkpoints[i].failure \in Failures
      BY <3>1 DEF Checked
    <3> QED BY <3>1, <3>2 DEF Failures
  <2>2. ASSUME NEW i \in limited \ naming
        PROVE  checkpoints[i].retry.at \in Nat /\ checkpoints[i].retry.provider = Provider
    BY <1>2 DEF Sound
  <2> QED BY <2>1, <2>2
<1>4. counted \in Nat
  <2> DEFINE keys == [i \in counting |-> KeyOf(checkpoints[i].failure.rate)]
  <2>1. fresh = {keys[i] : i \in counting}
    OBVIOUS
  <2> HIDE DEF keys, counting
  <2>2. IsFiniteSet(fresh)
    BY <1>2, <2>1, ImageFinite
  <2> HIDE DEF fresh
  <2>3. IsFiniteSet(fresh \ {KeyOf(rate)})
    BY <2>2, FS_Subset
  <2>4. Cardinality(fresh) \in Nat /\ Cardinality(fresh \ {KeyOf(rate)}) \in Nat
    BY <2>2, <2>3, FS_CardinalityType
  <2>5. rate # None => rate.count \in Nat
    BY DEF Rates
  <2> QED BY <2>4, <2>5
<1>5. /\ named \in Seq(Checked) /\ \A k \in DOMAIN named : \E i \in naming : named[k] = checkpoints[i]
      /\ \A i \in naming : \E k \in DOMAIN named : named[k] = checkpoints[i]
  <2> HIDE DEF naming
  <2> QED BY <1>2, PickedDates
<1>6. /\ unnamed \in Seq(Checked) /\ Len(unnamed) \in Nat /\ DOMAIN unnamed = 1..Len(unnamed)
      /\ \A k \in DOMAIN unnamed : \E i \in limited \ naming : unnamed[k] = checkpoints[i]
  <2> DEFINE rest == limited \ naming
  <2>1. rest \in SUBSET DOMAIN checkpoints
    BY <1>2
  <2> HIDE DEF rest
  <2>2. /\ Picked(checkpoints, rest) \in Seq(Checked)
        /\ \A k \in DOMAIN Picked(checkpoints, rest) :
             \E i \in rest : Picked(checkpoints, rest)[k] = checkpoints[i]
    BY <2>1, PickedDates
  <2>3. unnamed \in Seq(Checked) /\ \A k \in DOMAIN unnamed : \E i \in rest : unnamed[k] = checkpoints[i]
    BY <2>2 DEF rest
  <2> HIDE DEF unnamed
  <2>4. Len(unnamed) \in Nat /\ DOMAIN unnamed = 1..Len(unnamed)
    BY <2>3
  <2> QED BY <2>3, <2>4 DEF rest
<1> HIDE DEF named, unnamed, counted, naming, limited
<1>7. ofPlan \in Seq(Rates) /\ ofProcess \in Seq(Rates)
  <2>1. process # None => Metadata(process, "HTTP_429") \in Rates
    BY LimitErrorType DEF Causes
  <2> QED BY <2>1
<1>8. ofNamed \in Seq(Rates) /\ DOMAIN ofNamed = DOMAIN named
      /\ \A k \in DOMAIN named : ofNamed[k] = named[k].failure.rate
  <2>1. DOMAIN named = 1..Len(named) /\ Len(named) \in Nat
    BY <1>5
  <2>2. \A k \in DOMAIN named : named[k].failure.rate \in Rates
    BY <1>3, <1>5
  <2>3. ofNamed \in [1..Len(named) -> Rates]
    BY <2>1, <2>2
  <2> QED BY <2>1, <2>3
<1>9. ofUnnamed \in Seq(Rates)
  <2>1. \A k \in 1..Len(unnamed) :
          [provider |-> unnamed[k].retry.provider, until |-> unnamed[k].retry.at,
           last |-> clock, count |-> counted + k, cause |-> "HTTP_429"] \in Rates
    <3> TAKE k \in 1..Len(unnamed)
    <3>1. unnamed[k].retry.at \in Nat /\ unnamed[k].retry.provider = Provider
      BY <1>3, <1>6
    <3>2. counted + k \in Nat
      BY <1>4, <1>6
    <3> QED BY <3>1, <3>2 DEF Rates, Causes
  <2>2. ofUnnamed \in [1..Len(unnamed) -> Rates]
    BY <1>6, <2>1
  <2> QED BY <1>6, <2>2
<1> HIDE DEF ofPlan, ofProcess, ofNamed, ofUnnamed
<1>10. known \in Seq(Rates) /\ Within(ofPlan, known) /\ Within(ofNamed, known)
  <2> DEFINE first == ofPlan \o ofProcess
             second == first \o ofNamed
  <2>1. first \in Seq(Rates) /\ Within(ofPlan, first)
    BY <1>7, ConcatMembers
  <2> HIDE DEF first
  <2>2. second \in Seq(Rates) /\ Within(first, second) /\ Within(ofNamed, second)
    BY <1>8, <2>1, ConcatMembers
  <2>3. known = second \o ofUnnamed
    BY DEF first
  <2> HIDE DEF second, known
  <2>4. known \in Seq(Rates) /\ Within(second, known)
    BY <1>9, <2>2, <2>3, ConcatMembers
  <2>5. Within(ofPlan, known)
    BY <2>1, <2>2, <2>4 DEF Within
  <2>6. Within(ofNamed, known)
    BY <2>2, <2>4 DEF Within
  <2> QED BY <2>4, <2>5, <2>6
<1> HIDE DEF known
<1>11. known # <<>> =>
         /\ merged \in Rates
         /\ \A i \in DOMAIN known :
              /\ known[i].until <= merged.until /\ known[i].last <= merged.last
              /\ known[i].count <= merged.count
  <2>1. counted + Len(unnamed) \in Nat
    BY <1>4, <1>6
  <2> QED BY <1>10, <2>1, LongestOf
<1> HIDE DEF merged
<1> DEFINE m == MergeProviderRateLimit(rate, process, checkpoints)
<1>12. m \in Rates \cup {None}
  BY <1>1, <1>11
<1>13. \A i \in DOMAIN known : m # None /\ m = merged
  <2> TAKE i \in DOMAIN known
  <2>1. known # <<>>
    OBVIOUS
  <2> QED BY <1>1, <1>11, <2>1, NoneApart
<1>14. \A i \in DOMAIN known :
         /\ m # None /\ known[i].until <= m.until /\ known[i].last <= m.last
         /\ known[i].count <= m.count
  <2> HIDE DEF m
  <2> TAKE i \in DOMAIN known
  <2>1. known # <<>>
    OBVIOUS
  <2> QED BY <1>11, <1>13, <2>1
<1> HIDE DEF m
<1>15. ASSUME rate # None
       PROVE  /\ m # None /\ m.until >= rate.until /\ m.last >= rate.last
              /\ m.count >= rate.count
  <2>1. 1 \in DOMAIN ofPlan /\ ofPlan[1] = rate
    BY <1>15 DEF ofPlan
  <2>2. PICK k \in DOMAIN known : known[k] = rate
    BY <1>10, <2>1 DEF Within
  <2>3. m \in Rates /\ rate \in Rates
    BY <1>12, <1>14, <1>15, <2>2
  <2> QED BY <1>14, <2>2, <2>3 DEF Rates
<1>16. ASSUME NEW i \in DOMAIN checkpoints, IsLimited(checkpoints[i]),
              checkpoints[i].failure.rate # None
       PROVE  m # None /\ m.until >= checkpoints[i].failure.rate.until
  <2>1. i \in naming
    BY <1>16 DEF naming, limited
  <2>2. PICK k \in DOMAIN named : named[k] = checkpoints[i]
    BY <1>5, <2>1
  <2>3. PICK l \in DOMAIN known : known[l] = checkpoints[i].failure.rate
    BY <1>8, <1>10, <2>2 DEF Within
  <2>4. m \in Rates /\ checkpoints[i].failure.rate \in Rates
    BY <1>3, <1>12, <1>14, <2>1, <2>3
  <2> QED BY <1>14, <2>3, <2>4 DEF Rates
<1> QED BY <1>12, <1>15, <1>16 DEF m

\* The sessions that a call leaves for the next one: those it did not try
\* keep their place ahead of those it tried in vain.
LEMMA QueueFact ==
  ASSUME IInv, Running, NEW unresolved \in Seq(Entries), Distinct(unresolved),
         DatesIn(unresolved) \in SUBSET DatesIn(run.schedule)
  PROVE  LET plan == run.plan
             waiting == DeferredQueue(plan, unresolved)
             untried == IF FirstPass(plan) THEN Beyond(plan.unattempted) ELSE <<>>
             rest == DatesIn(waiting) \ DatesIn(unresolved)
         IN  /\ waiting \in Seq(Entries) /\ untried \in Seq(Dates) /\ Increasing(untried)
             /\ Distinct(waiting) /\ Distinct(run.schedule)
             /\ DatesIn(unresolved) \in SUBSET DatesIn(waiting)
             /\ rest \cap DatesIn(run.schedule) = {} /\ rest \cap ToSet(untried) = {}
             /\ ToSet(untried) \cap DatesIn(run.schedule) = {}
             /\ rest \cup ToSet(untried) \cup DatesIn(run.schedule)
                  = ToSet(plan.unattempted) \cup DatesIn(plan.deferred)
             /\ ~FirstPass(plan) =>
                  \A d \in DatesIn(run.eligible) \ DatesIn(run.schedule) :
                    /\ d \in DatesIn(plan.deferred)
                    /\ \A e \in DatesIn(waiting) :
                         e \in DatesIn(unresolved) \/ Ahead(plan.deferred, d, e) =>
                           Ahead(waiting, d, e)
<1> DEFINE plan == run.plan
           waiting == DeferredQueue(plan, unresolved)
           untried == IF FirstPass(plan) THEN Beyond(plan.unattempted) ELSE <<>>
           rest == DatesIn(waiting) \ DatesIn(unresolved)
           tried == DatesIn(run.schedule)
<1>1. run \in ActiveRuns
  BY DEF IInv, TypeOK, Running, IdleRuns
<1>2. /\ plan \in States /\ run.schedule \in Seq(Entries) /\ run.eligible \in Seq(Entries)
      /\ run.cooling \in Seq(Entries)
  BY <1>1 DEF ActiveRuns
<1>3. plan.unattempted \in Seq(Dates) /\ plan.deferred \in Seq(Entries)
  BY <1>2 DEF States
<1>4. Partition(plan)
  BY ValidMeans DEF IInv, Plans, Taken
<1>5. MaxCheckpointsPerRun \in Nat \ {0}
  BY ConstantTypes
<1>6. Distinct(plan.deferred) /\ Increasing(plan.unattempted)
      /\ ToSet(plan.unattempted) \cap DatesIn(plan.deferred) = {}
  BY <1>4 DEF Partition
<1>7. /\ FirstPass(plan) =>
           run.schedule = [i \in 1..Shortest(plan.unattempted) |-> Deferred(plan.unattempted[i])]
      /\ ~FirstPass(plan) => run.schedule = SubSeq(run.eligible, 1, Shortest(run.eligible))
  BY DEF IInv, Taken
<1>8. /\ run.mode = "CACHE_ONLY" => run.eligible = plan.deferred
      /\ run.mode # "CACHE_ONLY" =>
           /\ run.eligible = Picked(plan.deferred, ReadyAt(plan, run.started))
           /\ run.cooling = Picked(plan.deferred, DOMAIN plan.deferred \ ReadyAt(plan, run.started))
  BY DEF IInv, Taken
<1>9. CASE FirstPass(plan)
  <2> DEFINE all == plan.unattempted
             n == Shortest(all)
             later == SubSeq(all, n + 1, Len(all))
  <2>1. Len(all) \in Nat /\ n \in Nat /\ n <= Len(all) /\ DOMAIN all = 1..Len(all)
    BY <1>3, <1>5 DEF Shortest, Least
  <2>2. \A i, j \in 1..Len(all) : all[i] \in Dates /\ (i < j => all[i] < all[j])
    BY <1>3, <1>6 DEF Increasing
  <2>3. \A d \in Dates : d \in Nat
    BY DEF Dates
  <2>4. \A i, j \in 1..Len(all) : all[i] = all[j] => i = j
    <3> SUFFICES ASSUME NEW i \in 1..Len(all), NEW j \in 1..Len(all), i # j
                 PROVE  all[i] # all[j]
      OBVIOUS
    <3>1. all[i] \in Nat /\ all[j] \in Nat /\ (i < j \/ j < i)
      BY <2>1, <2>2, <2>3
    <3> QED BY <2>2, <3>1
  <2>5. /\ run.schedule = [i \in 1..n |-> Deferred(all[i])]
        /\ waiting = plan.deferred \o unresolved
    BY <1>7, <1>9 DEF DeferredQueue
  <2>6. Len(run.schedule) = n /\ DOMAIN run.schedule = 1..n
    BY <1>2, <2>1, <2>5
  <2>7. untried = later
    BY <1>9, <2>6 DEF Beyond
  <2> HIDE DEF n
  <2>8. /\ later \in Seq(Dates) /\ DOMAIN later = 1..(Len(all) - n)
        /\ \A i \in 1..(Len(all) - n) : later[i] = all[i + n] /\ i + n \in 1..Len(all)
    BY <1>3, <2>1
  <2>9. \A i \in 1..n : run.schedule[i].date = all[i] /\ i \in 1..Len(all)
    <3> TAKE i \in 1..n
    <3>1. i \in 1..Len(all)
      BY <2>1
    <3>2. Deferred(all[i]).date = all[i]
      BY <2>2, <3>1, DeferredType
    <3> QED BY <2>5, <3>1, <3>2
  <2>10. Distinct(run.schedule)
    BY <2>4, <2>6, <2>9 DEF Distinct
  <2> HIDE DEF later, all
  <2>11. Increasing(later)
    <3> SUFFICES ASSUME NEW i \in 1..(Len(all) - n), NEW j \in 1..(Len(all) - n), i < j
                 PROVE  later[i] < later[j]
      BY <2>8 DEF Increasing
    <3>1. i + n < j + n
      BY <2>1
    <3> QED BY <2>2, <2>8, <3>1
  <2>12. ToSet(later) \cap tried = {}
    <3> SUFFICES ASSUME NEW d \in ToSet(later), d \in tried PROVE FALSE
      OBVIOUS
    <3>1. PICK i \in 1..(Len(all) - n) : later[i] = d
      BY <2>8 DEF ToSet
    <3>2. PICK j \in 1..n : all[j] = d
      BY <2>6, <2>9 DEF DatesIn
    <3>3. i + n = j
      BY <2>4, <2>8, <2>9, <3>1, <3>2
    <3> QED BY <2>1, <3>3
  <2>13. ToSet(later) \cup tried = ToSet(all)
    <3>1. ASSUME NEW d \in ToSet(later) PROVE d \in ToSet(all)
      <4>1. PICK i \in 1..(Len(all) - n) : later[i] = d
        BY <2>8, <3>1 DEF ToSet
      <4> QED BY <2>1, <2>8, <4>1 DEF ToSet
    <3>2. ASSUME NEW d \in tried PROVE d \in ToSet(all)
      BY <2>1, <2>6, <2>9, <3>2 DEF ToSet, DatesIn
    <3>3. ASSUME NEW d \in ToSet(all) PROVE d \in ToSet(later) \cup tried
      <4>1. PICK i \in 1..Len(all) : all[i] = d
        BY <2>1, <3>3 DEF ToSet
      <4>2. CASE i <= n
        <5>1. i \in 1..n
          BY <2>1, <4>2
        <5> QED BY <2>6, <2>9, <4>1, <5>1 DEF DatesIn
      <4>3. CASE ~(i <= n)
        <5>1. i - n \in 1..(Len(all) - n) /\ (i - n) + n = i
          BY <2>1, <4>3
        <5>2. later[i - n] = d
          BY <2>8, <4>1, <5>1
        <5> QED BY <2>8, <5>1, <5>2 DEF ToSet
      <4> QED BY <4>2, <4>3
    <3> QED BY <3>1, <3>2, <3>3
  <2>14. DatesIn(plan.deferred) \cap DatesIn(unresolved) = {}
    BY <1>6, <2>13 DEF all
  <2>15. /\ waiting \in Seq(Entries) /\ Distinct(waiting)
         /\ DatesIn(waiting) = DatesIn(plan.deferred) \cup DatesIn(unresolved)
    BY <1>3, <1>6, <2>5, <2>14, ConcatDates
  <2> HIDE DEF waiting, untried, plan
  <2>16. rest = DatesIn(plan.deferred)
    BY <2>14, <2>15
  <2>17. /\ rest \cap tried = {} /\ rest \cap ToSet(untried) = {}
         /\ ToSet(untried) \cap tried = {}
         /\ rest \cup ToSet(untried) \cup tried
              = ToSet(plan.unattempted) \cup DatesIn(plan.deferred)
    BY <1>6, <2>7, <2>12, <2>13, <2>16 DEF all
  <2> HIDE DEF rest, tried
  <2> QED BY <1>9, <2>7, <2>8, <2>10, <2>11, <2>15, <2>17 DEF waiting, untried, plan, rest, tried
<1>10. CASE ~FirstPass(plan)
  <2> DEFINE all == run.eligible
             n == Shortest(all)
             later == SubSeq(all, n + 1, Len(all))
             others == IF run.mode = "CACHE_ONLY" THEN <<>> ELSE run.cooling
             kept == later \o others
  <2>1. n \in 0..Len(all) /\ Len(run.schedule) = n /\ run.schedule = SubSeq(all, 1, n)
    BY <1>2, <1>5, <1>7, <1>10 DEF Shortest, Least
  <2>2. /\ all \in Seq(Entries) /\ others \in Seq(Entries) /\ Distinct(all) /\ Distinct(others)
        /\ DatesIn(all) \cap DatesIn(others) = {}
        /\ DatesIn(all) \cup DatesIn(others) = DatesIn(plan.deferred)
        /\ \A d, e : Ahead(plan.deferred, d, e) /\ d \in DatesIn(all) /\ e \in DatesIn(all) =>
                       Ahead(all, d, e)
    <3>1. CASE run.mode = "CACHE_ONLY"
      <4>1. DatesIn(<<>>) = {} /\ Distinct(<<>>) /\ <<>> \in Seq(Entries)
        BY DEF DatesIn, Distinct
      <4> QED BY <1>3, <1>6, <1>8, <3>1, <4>1
    <3>2. CASE run.mode # "CACHE_ONLY"
      <4> DEFINE q == plan.deferred
                 I == ReadyAt(plan, run.started)
                 J == DOMAIN q \ I
      <4>1. I \in SUBSET DOMAIN q /\ J \in SUBSET DOMAIN q
        BY DEF ReadyAt
      <4>2. all = Picked(q, I) /\ others = Picked(q, J)
        BY <1>8, <3>2
      <4>3. q \in Seq(Entries) /\ Distinct(q)
        BY <1>3, <1>6
      <4>7. I \cap J = {} /\ I \cup J = DOMAIN q
        BY <4>1
      <4> HIDE DEF q, I, J, all, others
      <4>4. /\ all \in Seq(Entries) /\ Distinct(all) /\ DatesIn(all) = {q[i].date : i \in I}
            /\ \A d, e \in DatesIn(all) : Ahead(q, d, e) => Ahead(all, d, e)
        BY <4>1, <4>2, <4>3, PickedDates
      <4>5. /\ others \in Seq(Entries) /\ Distinct(others) /\ DatesIn(others) = {q[i].date : i \in J}
        BY <4>1, <4>2, <4>3, PickedDates
      <4>6. DatesIn(all) \cap DatesIn(others) = {}
        <5> SUFFICES ASSUME NEW d \in DatesIn(all), d \in DatesIn(others) PROVE FALSE
          OBVIOUS
        <5>1. PICK i \in I, j \in J : q[i].date = d /\ q[j].date = d
          BY <4>4, <4>5
        <5> QED BY <4>1, <4>3, <4>7, <5>1 DEF Distinct
      <4>8. DatesIn(all) \cup DatesIn(others) = DatesIn(q)
        <5>1. DatesIn(q) = {q[i].date : i \in DOMAIN q}
          BY DEF DatesIn
        <5> QED BY <4>4, <4>5, <4>7, <5>1
      <4> QED BY <4>4, <4>5, <4>6, <4>8 DEF q
    <3> QED BY <3>1, <3>2
  <2>3. waiting = kept \o unresolved
    <3>1. Len(run.schedule) + 1 = n + 1
      BY <2>1
    <3>2. Beyond(all) = later
      BY <3>1 DEF Beyond
    <3>3. CASE run.mode = "CACHE_ONLY"
      <4>1. waiting = later \o unresolved
        BY <1>8, <1>10, <3>2, <3>3 DEF DeferredQueue
      <4>2. later \in Seq(Entries)
        BY <2>1, <2>2
      <4>3. later \o <<>> = later
        BY <4>2
      <4> QED BY <3>3, <4>1, <4>3
    <3>4. CASE run.mode # "CACHE_ONLY"
      BY <1>10, <3>2, <3>4 DEF DeferredQueue
    <3> QED BY <3>3, <3>4
  <2>4. untried = <<>> /\ ToSet(plan.unattempted) = {} /\ ToSet(untried) = {}
        /\ untried \in Seq(Dates) /\ Increasing(untried)
    BY <1>10 DEF FirstPass, ToSet, Increasing
  <2> HIDE DEF waiting, untried, plan, all, n, others
  <2>5. /\ later \in Seq(Entries) /\ DatesIn(run.schedule) \cup DatesIn(later) = DatesIn(all)
        /\ Distinct(run.schedule) /\ Distinct(later)
        /\ DatesIn(run.schedule) \cap DatesIn(later) = {}
        /\ \A d \in DatesIn(later) : \A e : Ahead(all, d, e) => Ahead(later, d, e)
    BY <2>1, <2>2, SplitDates
  <2> HIDE DEF later
  <2>6. /\ kept \in Seq(Entries) /\ Distinct(kept)
        /\ DatesIn(kept) = DatesIn(later) \cup DatesIn(others)
        /\ \A d, e : Ahead(later, d, e) \/ (d \in DatesIn(later) /\ e \in DatesIn(others))
                     => Ahead(kept, d, e)
    <3>1. DatesIn(later) \cap DatesIn(others) = {}
      BY <2>2, <2>5
    <3> QED BY <2>2, <2>5, <3>1, ConcatDates
  <2> HIDE DEF kept
  <2>7. DatesIn(kept) \cap tried = {} /\ DatesIn(kept) \cup tried = DatesIn(plan.deferred)
    BY <2>2, <2>5, <2>6
  <2>8. DatesIn(kept) \cap DatesIn(unresolved) = {}
    BY <2>7
  <2>9. /\ waiting \in Seq(Entries) /\ Distinct(waiting)
        /\ DatesIn(waiting) = DatesIn(kept) \cup DatesIn(unresolved)
        /\ \A d, e : Ahead(kept, d, e) \/ (d \in DatesIn(kept) /\ e \in DatesIn(unresolved))
                     => Ahead(waiting, d, e)
    BY <2>3, <2>6, <2>8, ConcatDates
  <2>10. rest = DatesIn(kept)
    BY <2>8, <2>9
  <2>11. ASSUME NEW d \in DatesIn(all) \ tried
         PROVE  /\ d \in DatesIn(plan.deferred)
                /\ \A e \in DatesIn(waiting) :
                     e \in DatesIn(unresolved) \/ Ahead(plan.deferred, d, e) =>
                       Ahead(waiting, d, e)
    <3>1. d \in DatesIn(later) /\ d \in DatesIn(kept) /\ d \in DatesIn(plan.deferred)
      BY <2>5, <2>6, <2>7
    <3> SUFFICES ASSUME NEW e \in DatesIn(waiting),
                        e \in DatesIn(unresolved) \/ Ahead(plan.deferred, d, e)
                 PROVE  Ahead(waiting, d, e)
      BY <3>1
    <3>2. CASE e \in DatesIn(unresolved)
      BY <2>9, <3>1, <3>2
    <3>3. CASE e \notin DatesIn(unresolved)
      <4>1. e \in DatesIn(kept) /\ Ahead(plan.deferred, d, e)
        BY <2>9, <3>3
      <4>2. CASE e \in DatesIn(others)
        <5>1. Ahead(kept, d, e)
          BY <2>6, <3>1, <4>2
        <5> QED BY <2>9, <5>1
      <4>3. CASE e \notin DatesIn(others)
        <5>1. e \in DatesIn(all) /\ d \in DatesIn(all)
          BY <2>5, <2>6, <4>1, <4>3
        <5>2. Ahead(later, d, e)
          BY <2>2, <2>5, <3>1, <4>1, <5>1
        <5>3. Ahead(kept, d, e)
          BY <2>6, <5>2
        <5> QED BY <2>9, <5>3
      <4> QED BY <4>2, <4>3
    <3> QED BY <3>2, <3>3
  <2>12. /\ rest \cap tried = {} /\ rest \cap ToSet(untried) = {}
         /\ ToSet(untried) \cap tried = {}
         /\ rest \cup ToSet(untried) \cup tried
              = ToSet(plan.unattempted) \cup DatesIn(plan.deferred)
         /\ DatesIn(unresolved) \in SUBSET DatesIn(waiting)
    BY <2>4, <2>7, <2>9, <2>10
  <2>13. \A d \in DatesIn(run.eligible) \ DatesIn(run.schedule) :
           /\ d \in DatesIn(plan.deferred)
           /\ \A e \in DatesIn(waiting) :
                e \in DatesIn(unresolved) \/ Ahead(plan.deferred, d, e) => Ahead(waiting, d, e)
    BY <2>11 DEF all
  <2> HIDE DEF rest, tried
  <2> QED BY <1>10, <2>4, <2>5, <2>9, <2>12, <2>13 DEF waiting, untried, plan, rest, tried
<1> QED BY <1>9, <1>10

\* At the end of a call every checkpoint has its result.
LEMMA AllThrough ==
  ASSUME IInv, Running, \A w \in Workers : worker[w].at = 0
  PROVE  /\ Checkpoints \in Seq(Checked) /\ DOMAIN Checkpoints = DOMAIN run.schedule
         /\ \A i \in DOMAIN Checkpoints :
              /\ Checkpoints[i] = results[i] /\ Sound(Checkpoints[i])
              /\ Checkpoints[i].date = run.schedule[i].date
         /\ \A w \in Workers : worker[w] = Idle
<1>1. /\ run \in ActiveRuns /\ results \in Seq(Checked \cup {None})
      /\ worker \in [Workers -> Attempts \cup {Idle}] /\ Pool /\ Checks
  BY DEF IInv, TypeOK, Running, IdleRuns
<1>2. run.schedule \in Seq(Entries) /\ run.next \in Nat
  BY <1>1 DEF ActiveRuns
<1>3. ~(run.next <= Len(run.schedule)) /\ DOMAIN results = DOMAIN run.schedule
  BY <1>1 DEF Pool
<1>4. ASSUME NEW i \in DOMAIN results
      PROVE  results[i] \in Checked
  <2>1. i \in Nat \ {0} /\ i < run.next
    BY <1>2, <1>3, <1>4
  <2>2. results[i] # None
    BY <1>1, <1>4, <2>1 DEF Pool
  <2> QED BY <1>1, <1>4, <2>2
<1>5. DOMAIN results = 1..Len(results) /\ Len(results) \in Nat
  BY <1>1
<1>6. Checkpoints \in [1..Len(results) -> Checked]
  BY <1>4, <1>5 DEF Checkpoints
<1>7. Checkpoints \in Seq(Checked)
  BY <1>5, <1>6
<1>8. ASSUME NEW i \in DOMAIN Checkpoints
      PROVE  /\ Checkpoints[i] = results[i] /\ Sound(Checkpoints[i])
             /\ Checkpoints[i].date = run.schedule[i].date
  <2>1. i \in DOMAIN results /\ Checkpoints[i] = results[i]
    BY <1>8 DEF Checkpoints
  <2>2. results[i] # None
    BY <1>4, <2>1, NoneApart
  <2> QED BY <1>1, <2>1, <2>2 DEF Checks
<1>9. \A w \in Workers : worker[w] = Idle
  BY <1>1 DEF Attempts
<1> QED BY <1>3, <1>5, <1>6, <1>7, <1>8, <1>9

\* The checkpoints that failed become the entries that are tried again.
LEMMA UnresolvedFact ==
  ASSUME NEW checkpoints \in Seq(Checked), Distinct(checkpoints),
         NEW rate \in Rates \cup {None}
  PROVE  LET failures == {i \in DOMAIN checkpoints : checkpoints[i].failure # None}
             failed == Picked(checkpoints, failures)
             unresolved == [i \in DOMAIN failed |-> Unresolved(failed[i], rate)]
         IN  /\ unresolved \in Seq(Entries) /\ Distinct(unresolved)
             /\ DatesIn(unresolved) = {checkpoints[i].date : i \in failures}
<1> DEFINE failures == {i \in DOMAIN checkpoints : checkpoints[i].failure # None}
           failed == Picked(checkpoints, failures)
           unresolved == [i \in DOMAIN failed |-> Unresolved(failed[i], rate)]
<1>1. failures \in SUBSET DOMAIN checkpoints
  OBVIOUS
<1>2. /\ failed \in Seq(Checked) /\ Distinct(failed)
      /\ DatesIn(failed) = {checkpoints[i].date : i \in failures}
  <2> HIDE DEF failures
  <2> QED BY <1>1, PickedDates
<1> HIDE DEF failed
<1>3. ASSUME NEW c \in Checked
      PROVE  Unresolved(c, rate) \in Entries /\ Unresolved(c, rate).date = c.date
  <2> DEFINE r == IF IsLimited(c) /\ rate # None
                  THEN [c.retry EXCEPT !.at = rate.until, !.provider = rate.provider]
                  ELSE c.retry
  <2>1. c.retry \in Metadatas /\ c.date \in Dates
    BY DEF Checked
  <2>2. rate # None => rate.until \in Nat /\ rate.provider = Provider
    BY DEF Rates
  <2>3. r \in Metadatas
    BY <2>1, <2>2 DEF Metadatas
  <2>4. Unresolved(c, rate) = EntryOf(c.date, r)
    BY DEF Unresolved
  <2> HIDE DEF r
  <2> QED BY <2>1, <2>3, <2>4 DEF EntryOf, Metadatas, Entries
<1>4. unresolved \in [1..Len(failed) -> Entries]
  BY <1>2, <1>3
<1>5. unresolved \in Seq(Entries)
  <2>1. Len(failed) \in Nat
    BY <1>2
  <2> HIDE DEF unresolved
  <2> QED BY <1>4, <2>1
<1>6. DOMAIN unresolved = DOMAIN failed
  OBVIOUS
<1>7. \A i \in DOMAIN failed : failed[i].date = unresolved[i].date
  BY <1>2, <1>3
<1> HIDE DEF unresolved, failures
<1>8. DatesIn(failed) = DatesIn(unresolved) /\ (Distinct(failed) <=> Distinct(unresolved))
  BY <1>6, <1>7, SameDates
<1> QED BY <1>2, <1>5, <1>8 DEF unresolved, failures, failed

\* A session that is through has the status of its checkpoint.
LEMMA CompletedFact ==
  ASSUME NEW plan \in States, NEW checkpoints \in Seq(Checked),
         \A i \in DOMAIN checkpoints : Sound(checkpoints[i])
  PROVE  /\ Completed(plan, checkpoints) \in Completions
         /\ DOMAIN Completed(plan, checkpoints)
              = DatesOf(checkpoints, Through(checkpoints)) \cup DOMAIN plan.completed
         /\ \A d \in DOMAIN plan.completed \ DatesOf(checkpoints, Through(checkpoints)) :
              Completed(plan, checkpoints)[d] = plan.completed[d]
<1> DEFINE through == DatesOf(checkpoints, Through(checkpoints))
           completed == Completed(plan, checkpoints)
<1>1. /\ plan.completed \in [DOMAIN plan.completed -> Statuses]
      /\ DOMAIN plan.completed \in SUBSET Dates
  <2>1. plan.completed \in Completions
    BY DEF States
  <2> QED BY <2>1 DEF Completions
<1>2. through \in SUBSET Dates
  <2>1. \A i \in DOMAIN checkpoints : checkpoints[i].date \in Dates
    <3>1. \A i \in DOMAIN checkpoints : checkpoints[i] \in Checked
      OBVIOUS
    <3> QED BY <3>1 DEF Checked
  <2> QED BY <2>1 DEF DatesOf, Through
<1>3. ASSUME NEW d \in through
      PROVE  StatusOf(checkpoints, d) \in Statuses
  <2>1. \E i \in Through(checkpoints) : checkpoints[i].date = d
    BY <1>3 DEF DatesOf
  <2> DEFINE i == CHOOSE i \in Through(checkpoints) : checkpoints[i].date = d
  <2>2. i \in Through(checkpoints)
    BY <2>1
  <2>3. StatusOf(checkpoints, d) = checkpoints[i].status
    BY DEF StatusOf
  <2> HIDE DEF i
  <2> QED BY <2>2, <2>3 DEF Through, Sound
<1>4. completed = [d \in through \cup DOMAIN plan.completed |->
                     IF d \in through THEN StatusOf(checkpoints, d) ELSE plan.completed[d]]
  BY DEF Completed
<1> HIDE DEF through, completed
<1>5. completed \in [through \cup DOMAIN plan.completed -> Statuses]
  BY <1>1, <1>3, <1>4
<1>6. completed \in Completions
  BY <1>1, <1>2, <1>5 DEF Completions
<1>7. /\ DOMAIN completed = through \cup DOMAIN plan.completed
      /\ \A d \in DOMAIN plan.completed \ through : completed[d] = plan.completed[d]
  BY <1>4
<1> QED BY <1>6, <1>7 DEF completed, through

\* The sessions of a range after a call: those that are through, those it left
\* alone and those it tried in vain.
LEMMA Regrouped ==
  ASSUME NEW completed, NEW pending, NEW tried, NEW through, NEW failed,
         NEW waiting, NEW untried, NEW all,
         completed \cap pending = {}, completed \cup pending = all,
         through \cup failed = tried, through \cap failed = {}, failed \in SUBSET waiting,
         (waiting \ failed) \cap tried = {}, (waiting \ failed) \cap untried = {},
         untried \cap tried = {}, (waiting \ failed) \cup untried \cup tried = pending
  PROVE  /\ (through \cup completed) \cap untried = {}
         /\ (through \cup completed) \cap waiting = {}
         /\ untried \cap waiting = {}
         /\ (through \cup completed) \cup untried \cup waiting = all
         /\ completed \cap through = {}
  OBVIOUS

\* What the end of a call makes of its plan: a state that partitions the
\* range, keeps what was completed and remembers every cooldown.
EndOfCall ==
  LET plan == run.plan
      next == NextState
  IN  /\ next \in States /\ Partition(next)
      /\ DOMAIN plan.completed \cap DatesIn(run.schedule) = {}
      /\ \A d \in DOMAIN plan.completed :
           d \in DOMAIN next.completed /\ next.completed[d] = plan.completed[d]
      /\ plan.rate # None =>
           /\ next.rate # None /\ next.rate.until >= plan.rate.until
           /\ next.rate.last >= plan.rate.last /\ next.rate.count >= plan.rate.count
      /\ \A u \in Told : next.rate # None /\ u <= next.rate.until
      /\ ~FirstPass(plan) =>
           /\ next.unattempted = <<>>
           /\ \A d \in DatesIn(run.eligible) \ DatesIn(run.schedule) :
                \A e \in DatesIn(next.deferred) :
                  e \in DatesIn(run.schedule) \/ Ahead(plan.deferred, d, e) =>
                    Ahead(next.deferred, d, e)
           /\ \A e \in DatesIn(next.deferred) :
                e \notin DatesIn(run.schedule) => e \in DatesIn(plan.deferred)

\* The new state, part by part.
LEMMA EndFact ==
  ASSUME IInv, Running, \A w \in Workers : worker[w].at = 0
  PROVE  EndOfCall
<1> DEFINE plan == run.plan
           cs == Checkpoints
           rate == MergeProviderRateLimit(plan.rate, limiter, cs)
           failures == {i \in DOMAIN cs : cs[i].failure # None}
           failed == Picked(cs, failures)
           unresolved == [i \in DOMAIN failed |-> Unresolved(failed[i], rate)]
           waiting == DeferredQueue(plan, unresolved)
           untried == IF FirstPass(plan) THEN Beyond(plan.unattempted) ELSE <<>>
           cooled == [i \in DOMAIN waiting |-> ApplyProviderCooldown(waiting[i], rate)]
           completed == Completed(plan, cs)
           through == DatesOf(cs, Through(cs))
           tried == DatesIn(run.schedule)
           left == DatesIn(unresolved)
           next == [completed |-> completed, unattempted |-> untried, deferred |-> cooled,
                    rate |-> rate]
<1>1. /\ run \in ActiveRuns /\ clock \in Nat /\ limiter \in Limits \cup {None}
      /\ plan \in States
  <2>1. run \in ActiveRuns /\ clock \in Nat /\ limiter \in Limits \cup {None}
    BY DEF IInv, TypeOK, Running, IdleRuns
  <2> QED BY <2>1 DEF ActiveRuns
<1>2. /\ cs \in Seq(Checked) /\ DOMAIN cs = DOMAIN run.schedule
      /\ \A i \in DOMAIN cs : /\ cs[i] = results[i] /\ Sound(cs[i])
                              /\ cs[i].date = run.schedule[i].date
  BY AllThrough
<1>3. NextState = next
  BY DEF NextState
<1>4. plan.rate \in Rates \cup {None}
  BY <1>1 DEF States
<1>5. Partition(plan)
  BY ValidMeans DEF IInv, Plans, Taken
<1> HIDE DEF cs, plan
<1>6. DatesIn(cs) = tried /\ (Distinct(cs) <=> Distinct(run.schedule))
  BY <1>2, SameDates
<1>7. /\ rate \in Rates \cup {None}
      /\ plan.rate # None =>
           /\ rate # None /\ rate.until >= plan.rate.until /\ rate.last >= plan.rate.last
           /\ rate.count >= plan.rate.count
      /\ \A i \in DOMAIN cs : IsLimited(cs[i]) /\ cs[i].failure.rate # None =>
           rate # None /\ rate.until >= cs[i].failure.rate.until
  BY <1>1, <1>2, <1>4, MergeFact
<1> HIDE DEF rate
<1>8. Distinct(run.schedule)
  <2>1. Distinct(<<>>) /\ <<>> \in Seq(Entries) /\ DatesIn(<<>>) = {}
    BY DEF Distinct, DatesIn
  <2> QED BY <2>1, QueueFact
<1>9. /\ unresolved \in Seq(Entries) /\ Distinct(unresolved)
      /\ left = {cs[i].date : i \in failures}
  BY <1>2, <1>6, <1>7, <1>8, UnresolvedFact
<1>10. through \cup left = tried /\ through \cap left = {}
  <2>1. through = {cs[i].date : i \in DOMAIN cs \ failures}
    BY DEF DatesOf, Through
  <2>2. Distinct(cs)
    BY <1>6, <1>8
  <2> HIDE DEF through, left
  <2>3. through \cup left = tried
    BY <1>6, <1>9, <2>1 DEF DatesIn
  <2>4. ASSUME NEW d \in through, d \in left PROVE FALSE
    <3>1. PICK i \in DOMAIN cs \ failures : d = cs[i].date
      BY <2>1, <2>4
    <3>2. PICK j \in failures : d = cs[j].date
      BY <1>9, <2>4
    <3>3. j \in DOMAIN cs /\ i # j
      BY <3>1, <3>2
    <3> QED BY <2>2, <3>1, <3>2, <3>3 DEF Distinct
  <2> QED BY <2>3, <2>4
<1> HIDE DEF unresolved
<1>11. left \in SUBSET tried
  BY <1>10
<1>12. /\ waiting \in Seq(Entries) /\ untried \in Seq(Dates) /\ Increasing(untried)
       /\ Distinct(waiting) /\ left \in SUBSET DatesIn(waiting)
       /\ (DatesIn(waiting) \ left) \cap tried = {}
       /\ (DatesIn(waiting) \ left) \cap ToSet(untried) = {}
       /\ ToSet(untried) \cap tried = {}
       /\ (DatesIn(waiting) \ left) \cup ToSet(untried) \cup tried
            = ToSet(plan.unattempted) \cup DatesIn(plan.deferred)
       /\ ~FirstPass(plan) =>
            \A d \in DatesIn(run.eligible) \ tried :
              \A e \in DatesIn(waiting) :
                e \in left \/ Ahead(plan.deferred, d, e) => Ahead(waiting, d, e)
  BY <1>9, <1>11, QueueFact DEF plan
<1>13. /\ completed \in Completions
       /\ DOMAIN completed = through \cup DOMAIN plan.completed
       /\ \A d \in DOMAIN plan.completed \ through : completed[d] = plan.completed[d]
  BY <1>1, <1>2, CompletedFact
<1>14. /\ DOMAIN plan.completed \cap (ToSet(plan.unattempted) \cup DatesIn(plan.deferred)) = {}
       /\ DOMAIN plan.completed \cup (ToSet(plan.unattempted) \cup DatesIn(plan.deferred)) = Dates
  BY <1>5 DEF Partition
<1> HIDE DEF waiting, untried, completed, through, left, tried, failures
<1>15. /\ (through \cup DOMAIN plan.completed) \cap ToSet(untried) = {}
       /\ (through \cup DOMAIN plan.completed) \cap DatesIn(waiting) = {}
       /\ ToSet(untried) \cap DatesIn(waiting) = {}
       /\ (through \cup DOMAIN plan.completed) \cup ToSet(untried) \cup DatesIn(waiting) = Dates
       /\ DOMAIN plan.completed \cap through = {}
  BY <1>10, <1>12, <1>14, Regrouped
<1>16. \A e \in Entries : /\ ApplyProviderCooldown(e, rate) \in Entries
                          /\ ApplyProviderCooldown(e, rate).date = e.date
  <2> SUFFICES ASSUME NEW e \in Entries
               PROVE  /\ ApplyProviderCooldown(e, rate) \in Entries
                      /\ ApplyProviderCooldown(e, rate).date = e.date
    OBVIOUS
  <2>1. rate # None => rate.until \in Nat /\ rate.provider = Provider
    BY <1>7 DEF Rates
  <2>2. Concerns(rate, e) => rate # None
    BY DEF Concerns
  <2> HIDE DEF rate
  <2>3. CASE Concerns(rate, e) /\ rate.until > (IF e.at = None THEN 0 ELSE e.at)
    <3>1. ApplyProviderCooldown(e, rate)
            = [e EXCEPT !.at = rate.until,
                        !.provider = IF e.provider = None THEN rate.provider ELSE e.provider]
      BY <2>3 DEF ApplyProviderCooldown, Entries
    <3> QED BY <2>1, <2>2, <2>3, <3>1 DEF Entries
  <2>4. CASE ~(Concerns(rate, e) /\ rate.until > (IF e.at = None THEN 0 ELSE e.at))
    BY <2>4 DEF ApplyProviderCooldown
  <2> QED BY <2>3, <2>4
<1>17. cooled \in Seq(Entries)
  <2>1. Len(waiting) \in Nat /\ cooled \in [1..Len(waiting) -> Entries]
    BY <1>12, <1>16
  <2> HIDE DEF cooled
  <2> QED BY <2>1
<1>18. /\ DatesIn(cooled) = DatesIn(waiting) /\ Distinct(cooled)
       /\ \A d, e : Ahead(waiting, d, e) <=> Ahead(cooled, d, e)
  <2>1. DOMAIN waiting = DOMAIN cooled /\ \A i \in DOMAIN waiting : waiting[i].date = cooled[i].date
    BY <1>12, <1>16
  <2> HIDE DEF cooled
  <2> QED BY <1>12, <2>1, SameDates
<1> HIDE DEF cooled
<1>19. next \in States /\ Partition(next)
  BY <1>7, <1>12, <1>13, <1>15, <1>17, <1>18 DEF States, Partition
<1>20. /\ DOMAIN plan.completed \cap tried = {}
       /\ \A d \in DOMAIN plan.completed :
            d \in DOMAIN completed /\ completed[d] = plan.completed[d]
  <2>1. tried \in SUBSET (ToSet(plan.unattempted) \cup DatesIn(plan.deferred))
    BY <1>12
  <2> QED BY <1>13, <1>14, <1>15, <2>1
<1>21. \A u \in Told : rate # None /\ u <= rate.until
  <2> SUFFICES ASSUME NEW u \in Told PROVE rate # None /\ u <= rate.until
    OBVIOUS
  <2>1. DOMAIN results = DOMAIN cs
    BY DEF cs, Checkpoints
  <2>2. PICK i \in DOMAIN cs : IsLimited(cs[i]) /\ cs[i].failure.rate # None
                               /\ u = cs[i].failure.rate.until
    BY <1>2, <2>1 DEF Told
  <2>3. rate # None /\ rate.until >= u
    BY <1>7, <2>2
  <2>4. u \in Nat /\ rate.until \in Nat
    <3>1. cs[i].failure \in Failures
      <4>1. cs[i] \in Checked
        BY <1>2
      <4> QED BY <2>2, <4>1 DEF Checked, IsLimited
    <3>2. cs[i].failure.rate \in Rates
      BY <2>2, <3>1 DEF Failures
    <3> QED BY <1>7, <2>2, <2>3, <3>2 DEF Rates
  <2> QED BY <2>3, <2>4
<1>22. ASSUME ~FirstPass(plan)
       PROVE  /\ untried = <<>>
              /\ \A d \in DatesIn(run.eligible) \ tried : \A e \in DatesIn(cooled) :
                   e \in tried \/ Ahead(plan.deferred, d, e) => Ahead(cooled, d, e)
              /\ \A e \in DatesIn(cooled) : e \notin tried => e \in DatesIn(plan.deferred)
  <2>1. untried = <<>> /\ ToSet(plan.unattempted) = {}
    BY <1>22 DEF untried, FirstPass, ToSet
  <2>2. \A e \in DatesIn(cooled) : e \in tried => e \in left
    BY <1>12, <1>18
  <2>3. \A e \in DatesIn(cooled) : e \notin tried => e \in DatesIn(plan.deferred)
    BY <1>11, <1>12, <1>18, <2>1
  <2>4. \A d \in DatesIn(run.eligible) \ tried : \A e \in DatesIn(waiting) :
          e \in left \/ Ahead(plan.deferred, d, e) => Ahead(waiting, d, e)
    BY <1>12, <1>22
  <2> QED BY <1>18, <2>1, <2>2, <2>3, <2>4
<1>23. /\ next.completed = completed /\ next.unattempted = untried
       /\ next.deferred = cooled /\ next.rate = rate
  OBVIOUS
<1> HIDE DEF next
<1> QED BY <1>3, <1>7, <1>19, <1>20, <1>21, <1>22, <1>23 DEF EndOfCall, plan, tried

\* Those that may be tried are deferred.
LEMMA EligibleWaits ==
  ASSUME IInv, Running, ~FirstPass(run.plan)
  PROVE  DatesIn(run.eligible) \in SUBSET DatesIn(run.plan.deferred)
<1> DEFINE q == run.plan.deferred
           I == ReadyAt(run.plan, run.started)
<1>1. q \in Seq(Entries)
  <2>1. run.plan \in States
    BY DEF IInv, TypeOK, Running, IdleRuns, ActiveRuns
  <2> QED BY <2>1 DEF States
<1>2. run.eligible = q \/ run.eligible = Picked(q, I)
  BY DEF IInv, Taken
<1>3. I \in SUBSET DOMAIN q
  BY DEF ReadyAt
<1> HIDE DEF q, I
<1>4. DatesIn(Picked(q, I)) = {q[i].date : i \in I}
  BY <1>1, <1>3, PickedDates
<1>5. DatesIn(Picked(q, I)) \in SUBSET DatesIn(q)
  BY <1>3, <1>4 DEF DatesIn
<1> QED BY <1>2, <1>5 DEF q

\* The end of a call: the cursor stands for the new state, in order.
LEMMA CompleteKeeps ==
  ASSUME IInv, CompleteRun
  PROVE  IInv'
<1>1. /\ Running /\ \A w \in Workers : worker[w].at = 0
      /\ state' = NextState
      /\ cursor' = IF state'.unattempted = <<>> /\ state'.deferred = <<>> THEN None
                   ELSE EncodeContinuation(state')
      /\ run' = IF cursor' = None THEN [Returns EXCEPT !.phase = "complete"] ELSE Returns
      /\ results' = <<>>
      /\ passed' = [d \in Dates |->
           IF FirstPass(run.plan) \/ d \in ScheduledDates \/ d \notin EligibleDates THEN {}
           ELSE passed[d] \cup ScheduledDates]
      /\ told' = Max(Told \cup {told})
      /\ UNCHANGED <<clock, limiter, worker>>
  BY DEF CompleteRun, Running
<1>2. EndOfCall
  BY <1>1, EndFact
<1>3. state' \in States /\ Partition(state') /\ ValidContinuation(state')
  BY <1>1, <1>2, ValidMeans DEF EndOfCall
<1>4. ScheduledDates = DatesIn(run.schedule) /\ EligibleDates = DatesIn(run.eligible)
  BY DEF ScheduledDates, EligibleDates, DatesIn
<1>5. /\ run \in ActiveRuns /\ told \in Nat /\ passed \in [Dates -> SUBSET Dates]
      /\ run.plan = state /\ state # None
  BY <1>1 DEF IInv, TypeOK, Running, IdleRuns, Taken
<1>6. run' \in IdleRuns /\ (run'.phase = "complete" <=> cursor' = None)
  <2>1. run.calls \in Nat /\ run.crashes \in Nat
    BY <1>5 DEF ActiveRuns
  <2>2. run' = [phase |-> IF cursor' = None THEN "complete" ELSE "idle",
                calls |-> run.calls + 1, crashes |-> run.crashes]
    BY <1>1 DEF Returns, Forget, NoRun
  <2> QED BY <2>1, <2>2 DEF IdleRuns
<1>7. run'.phase # "running"
  BY <1>6 DEF IdleRuns
<1>8. cursor' \in Cursors \cup {None}
  BY <1>1, <1>3, RoundTrip
<1>9. cursor' # None => DecodeContinuation(cursor') = state'
  BY <1>1, <1>3, RoundTrip
<1>10. told' \in Nat /\ told' \in Told \cup {told}
  <2> DEFINE n == Len(results)
             named == {k \in DOMAIN results :
                         IsLimited(results[k]) /\ results[k].failure.rate # None}
             g == [i \in 1..(n + 1) |-> IF i \in named THEN results[i].failure.rate.until
                                        ELSE told]
  <2>1. n \in Nat /\ DOMAIN results = 1..n /\ results \in Seq(Checked \cup {None})
    BY DEF IInv, TypeOK
  <2>2. ASSUME NEW i \in named
        PROVE  results[i].failure.rate.until \in Nat
    <3>1. results[i] \in Checked
      <4>1. i \in DOMAIN Checkpoints /\ Checkpoints[i] = results[i]
        BY <2>2 DEF Checkpoints
      <4>2. Checkpoints \in Seq(Checked)
        BY <1>1, AllThrough
      <4> QED BY <4>1, <4>2
    <3>2. results[i].failure \in Failures /\ results[i].failure.rate # None
      BY <2>2, <3>1 DEF IsLimited, Checked
    <3>3. results[i].failure.rate \in Rates
      BY <3>2 DEF Failures
    <3> QED BY <3>3 DEF Rates
  <2>3. n + 1 \in Nat \ {0} /\ g \in [1..(n + 1) -> Nat]
    BY <1>5, <2>1, <2>2
  <2>4. {g[i] : i \in 1..(n + 1)} = Told \cup {told}
    <3>1. Told = {results[i].failure.rate.until : i \in named}
      BY DEF Told
    <3>2. named \in SUBSET (1..n) /\ n + 1 \notin named /\ n + 1 \in 1..(n + 1)
      BY <2>1
    <3>3. \A i \in 1..n : i \in 1..(n + 1)
      BY <2>1
    <3>4. \A i \in 1..(n + 1) :
            g[i] = IF i \in named THEN results[i].failure.rate.until ELSE told
      OBVIOUS
    <3> HIDE DEF g, named, n
    <3> QED BY <3>1, <3>2, <3>3, <3>4
  <2> HIDE DEF g
  <2>5. Max({g[i] : i \in 1..(n + 1)}) \in Nat
        /\ Max({g[i] : i \in 1..(n + 1)}) \in {g[i] : i \in 1..(n + 1)}
    <3> HIDE DEF n
    <3> QED BY <2>3, MaxFact
  <2> QED BY <1>1, <2>4, <2>5
<1>11. passed' \in [Dates -> SUBSET Dates]
  <2>1. ScheduledDates \in SUBSET Dates
    <3>1. \A i \in DOMAIN run.schedule : run.schedule[i] \in Entries
      BY <1>5 DEF ActiveRuns
    <3> QED BY <3>1 DEF ScheduledDates, Entries
  <2> QED BY <1>1, <1>5, <2>1
<1>12. TypeOK'
  <2>1. results' \in Seq(Checked \cup {None})
    BY <1>1
  <2> QED BY <1>1, <1>3, <1>6, <1>8, <1>10, <1>11, <2>1 DEF IInv, TypeOK
<1>13. Plans'
  BY <1>3, <1>6, <1>9 DEF Plans, Continuation, CursorFaithful
<1>14. Taken' /\ Checks'
  BY <1>1, <1>7 DEF Taken, Checks, Running
<1>15. Pool'
  BY <1>1, <1>7, AllThrough DEF Pool, Running
<1>16. Timers'
  BY <1>1 DEF Timers
<1>17. Order'
  <2>1. CASE FirstPass(run.plan)
    <3>1. \A d \in Dates : passed'[d] = {}
      BY <1>1, <2>1
    <3>2. DatesIn(state'.deferred) \in SUBSET Dates
      BY <1>3 DEF Partition
    <3> QED BY <3>1, <3>2 DEF Order
  <2>2. CASE ~FirstPass(run.plan)
    <3> SUFFICES ASSUME NEW d \in DatesIn(state'.deferred), NEW e \in DatesIn(state'.deferred),
                        e \in passed'[d]
                 PROVE  Ahead(state'.deferred, d, e)
      BY <1>1, <1>2, <2>2 DEF EndOfCall, Order
    <3>1. DatesIn(state'.deferred) \in SUBSET Dates
      BY <1>3 DEF Partition
    <3>2. /\ d \in DatesIn(run.eligible) \ DatesIn(run.schedule)
          /\ e \in passed[d] \cup DatesIn(run.schedule)
      BY <1>1, <1>4, <2>2, <3>1
    <3>3. CASE e \in DatesIn(run.schedule)
      BY <1>1, <1>2, <2>2, <3>2, <3>3 DEF EndOfCall
    <3>4. CASE e \notin DatesIn(run.schedule)
      <4>1. e \in DatesIn(run.plan.deferred) /\ e \in passed[d]
        BY <1>1, <1>2, <2>2, <3>2, <3>4 DEF EndOfCall
      <4>2. d \in DatesIn(run.plan.deferred)
        BY <1>1, <2>2, <3>2, EligibleWaits
      <4>3. Ahead(run.plan.deferred, d, e)
        BY <1>5, <4>1, <4>2 DEF IInv, Order
      <4> QED BY <1>1, <1>2, <2>2, <3>2, <4>3 DEF EndOfCall
    <3> QED BY <3>3, <3>4
  <2> QED BY <2>1, <2>2
<1>18. Remembered'
  <2> SUFFICES ASSUME told' > 0 PROVE state'.rate # None /\ told' <= state'.rate.until
    BY <1>3, NoneApart DEF Remembered
  <2>1. CASE told' \in Told
    BY <1>1, <1>2, <2>1 DEF EndOfCall
  <2>2. CASE told' = told
    <3>1. state.rate # None /\ told <= state.rate.until
      BY <2>2 DEF IInv, Remembered
    <3>2. state'.rate # None /\ state'.rate.until >= state.rate.until
      BY <1>1, <1>2, <1>5, <3>1 DEF EndOfCall
    <3>3. state.rate.until \in Nat /\ state'.rate.until \in Nat
      <4>1. state \in States
        BY <1>5 DEF IInv, TypeOK
      <4> QED BY <1>3, <3>1, <3>2, <4>1 DEF States, Rates
    <3> QED BY <1>5, <2>2, <3>1, <3>2, <3>3
  <2> QED BY <1>10, <2>1, <2>2
<1> QED BY <1>12, <1>13, <1>14, <1>15, <1>16, <1>17, <1>18 DEF IInv

\* Every action.
LEMMA NextKeeps ==
  ASSUME IInv, [Next]_vars
  PROVE  IInv'
<1>1. CASE Next
  <2>1. ASSUME NEW mode \in Modes, StartRun(mode) PROVE IInv'
    BY <2>1, StartKeeps
  <2>2. ASSUME NEW w \in Workers, Work(w) PROVE IInv'
    BY <2>2, WorkKeeps
  <2> QED BY <1>1, <2>1, <2>2, CompleteKeeps, CrashKeeps, TickKeeps DEF Next
<1>2. CASE UNCHANGED vars
  <2>1. UNCHANGED <<clock, limiter, cursor, run, worker, results, state, passed, told>>
    BY <1>2 DEF vars
  <2> QED BY <2>1 DEF IInv, TypeOK, Plans, Taken, Pool, Checks, Timers, Order, Remembered,
                      Running, Continuation, CursorFaithful
<1> QED BY <1>1, <1>2

\* The discovery's invariant holds along every behaviour.
LEMMA Invariance == Spec => []IInv
<1>1. Init => IInv
  BY InitEstablishes
<1>2. IInv /\ [Next]_vars => IInv'
  BY NextKeeps
<1> QED BY <1>1, <1>2, PTL DEF Spec

\* Only the end of a call changes what the next one starts from.
LEMMA StateSteps ==
  ASSUME [Next]_vars
  PROVE  UNCHANGED state \/ CompleteRun
<1>1. ASSUME NEW w \in Workers, Work(w) PROVE UNCHANGED state
  BY <1>1 DEF Work, Wake, Reconstruct, StillRunning, PollAgain, Evaluated, Fails, Limited,
              Suppressed, DeadlineExpires, rangeVars
<1> QED BY <1>1 DEF Next, vars, StartRun, Crash, rangeVars, Tick

-----------------------------------------------------------------------------
(* The theorems.                                                            *)

\* Every variable keeps its type: what a cursor, a checkpoint and an attempt
\* are made of stays within what the code builds.
THEOREM RangeTypeCorrect == Spec => []TypeOK
<1>1. IInv => TypeOK
  BY DEF IInv
<1> QED BY <1>1, Invariance, PTL

\* The cursor of a call is accepted by the next one and decodes to the state it
\* was made of, whatever the call met.
THEOREM CursorIsFaithful == Spec => []CursorFaithful
<1>1. IInv => CursorFaithful
  BY DEF IInv, Plans
<1> QED BY <1>1, Invariance, PTL

\* No checkpoint outlasts its deadline or its attempts.
THEOREM DeadlineIsKept == Spec => []DeadlineKept
<1>1. IInv => DeadlineKept
  <2> SUFFICES ASSUME IInv, NEW w \in Workers, worker[w].at # 0
               PROVE  clock <= DeadlineOf(w) /\ worker[w].attempt <= MaxAttempts
    BY DEF DeadlineKept
  <2>1. worker[w] \in Attempts /\ Timely(worker[w], clock)
    BY Busy DEF IInv
  <2>2. worker[w].attempt \in 1..MaxAttempts /\ MaxAttempts \in Nat
    BY <2>1, ConstantTypes DEF Attempts
  <2> QED BY <2>1, <2>2 DEF Timely, DeadlineOf
<1> QED BY <1>1, Invariance, PTL

\* A session that was passed over is ahead of those tried meanwhile, so none of
\* them is retried before it.
THEOREM RoundRobinKept == Spec => []RoundRobin
<1>1. IInv => RoundRobin
  <2> SUFFICES ASSUME IInv, Running, ~FirstPass(run.plan),
                      NEW d \in ScheduledDates, NEW e \in EligibleDates \ ScheduledDates,
                      d \in passed[e]
               PROVE  FALSE
    BY DEF RoundRobin, Running
  <2> DEFINE q == run.plan.deferred
             all == run.eligible
             n == Shortest(all)
             I == ReadyAt(run.plan, run.started)
  <2>1. run \in ActiveRuns /\ run.plan \in States /\ run.plan = state /\ state # None
    BY DEF IInv, TypeOK, Running, IdleRuns, Taken, ActiveRuns
  <2>2. q \in Seq(Entries) /\ all \in Seq(Entries) /\ run.schedule = SubSeq(all, 1, n)
    BY <2>1 DEF IInv, Taken, ActiveRuns, States
  <2>3. all = q \/ all = Picked(q, I)
    BY DEF IInv, Taken
  <2>4. n \in 0..Len(all)
    BY <2>2, ConstantTypes DEF Shortest, Least
  <2>5. Distinct(q)
    BY <2>1, ValidMeans DEF IInv, Plans, Partition
  <2>6. d \in DatesIn(run.schedule) /\ e \in DatesIn(all) /\ e \notin DatesIn(run.schedule)
    BY DEF ScheduledDates, EligibleDates, DatesIn
  <2>7. I \in SUBSET DOMAIN q
    BY DEF ReadyAt
  <2>8. d \in DatesIn(q) /\ e \in DatesIn(q) /\ Order
    <3>1. DatesIn(run.schedule) \in SUBSET DatesIn(all)
      <4> HIDE DEF n, all
      <4> QED BY <2>2, <2>4, SplitDates
    <3> QED BY <2>6, <3>1, EligibleWaits DEF IInv
  <2>9. Ahead(q, e, d)
    BY <2>1, <2>8 DEF Order
  <2> HIDE DEF q, I, n, all
  <2>10. Ahead(all, d, e)
    BY <2>2, <2>4, <2>6, SplitDates
  <2>11. \A x, y : Ahead(Picked(q, I), x, y) => Ahead(q, x, y)
    BY <2>2, <2>7, PickedDates
  <2>12. Ahead(q, d, e)
    BY <2>3, <2>10, <2>11
  <2> QED BY <2>2, <2>5, <2>9, <2>12, AheadOnce
<1> QED BY <1>1, Invariance, PTL

\* No later cursor forgets a session that a call completed, nor its status.
THEOREM CompletedIsKept == Spec => CompletedStays
<1>1. IInv /\ [Next]_vars =>
        [\A d \in DOMAIN state.completed :
           d \in DOMAIN state'.completed /\ state'.completed[d] = state.completed[d]]_vars
  <2> SUFFICES ASSUME IInv, CompleteRun
               PROVE  \A d \in DOMAIN state.completed :
                        d \in DOMAIN state'.completed
                        /\ state'.completed[d] = state.completed[d]
    BY StateSteps
  <2>1. EndOfCall /\ state' = NextState /\ run.plan = state
    BY EndFact DEF CompleteRun, Running, IInv, Taken
  <2> QED BY <2>1 DEF EndOfCall
<1> QED BY <1>1, Invariance, PTL DEF Spec, CompletedStays

\* What the cursor says of the cooldown only grows, and no session that a rate
\* limit stopped is tried before every cooldown that calls were told is over.
THEOREM CooldownIsDurable == Spec => CooldownDurable
<1> DEFINE Grows == state # None /\ state.rate # None =>
             /\ state'.rate # None
             /\ state'.rate.until >= state.rate.until /\ state'.rate.last >= state.rate.last
             /\ state'.rate.count >= state.rate.count
           Waits == run.phase = "running" /\ run.mode # "CACHE_ONLY" =>
             \A i \in DOMAIN run.schedule :
               run.schedule[i].error = "PROVIDER_RATE_LIMIT" => told <= run.started
<1>1. IInv /\ [Next]_vars => [Grows]_vars
  <2> SUFFICES ASSUME IInv, [Next]_vars, state # None, state.rate # None, ~UNCHANGED vars
               PROVE  Grows
    OBVIOUS
  <2>1. CASE UNCHANGED state
    <3>1. state.rate \in Rates
      BY DEF IInv, TypeOK, States
    <3>2. state.rate.until \in Nat /\ state.rate.last \in Nat /\ state.rate.count \in Nat
      BY <3>1 DEF Rates
    <3> QED BY <2>1, <3>2
  <2>2. CASE CompleteRun
    <3>1. EndOfCall /\ state' = NextState /\ run.plan = state
      BY <2>2, EndFact DEF CompleteRun, Running, IInv, Taken
    <3> QED BY <3>1 DEF EndOfCall
  <2> QED BY <2>1, <2>2, StateSteps
<1>2. IInv => Waits
  <2> SUFFICES ASSUME IInv, Running, run.mode # "CACHE_ONLY", NEW i \in DOMAIN run.schedule,
                      run.schedule[i].error = "PROVIDER_RATE_LIMIT"
               PROVE  told <= run.started
    BY DEF Running
  <2> DEFINE q == run.plan.deferred
             I == ReadyAt(run.plan, run.started)
  <2>1. /\ run \in ActiveRuns /\ run.plan \in States /\ run.plan = state /\ state # None
        /\ told \in Nat /\ run.started \in Nat
    BY DEF IInv, TypeOK, Running, IdleRuns, Taken, ActiveRuns
  <2>2. ~FirstPass(run.plan)
    <3> SUFFICES ASSUME FirstPass(run.plan) PROVE FALSE
      OBVIOUS
    <3>1. run.schedule = [k \in 1..Shortest(run.plan.unattempted) |->
                            Deferred(run.plan.unattempted[k])]
      BY DEF IInv, Taken
    <3>2. run.schedule[i] = Deferred(run.plan.unattempted[i])
      BY <3>1
    <3>3. run.schedule[i].error = None
      BY <3>2 DEF Deferred, EntryOf, NoRetry
    <3> QED BY <3>3, NoneApart, CategoryTypes
  <2>3. q \in Seq(Entries) /\ run.eligible = Picked(q, I)
        /\ run.schedule = SubSeq(run.eligible, 1, Shortest(run.eligible))
    BY <2>1, <2>2 DEF IInv, Taken, States
  <2>4. I \in SUBSET DOMAIN q
    BY DEF ReadyAt
  <2>5. run.eligible \in Seq(Entries) /\ Shortest(run.eligible) \in 0..Len(run.eligible)
    BY <2>1, ConstantTypes DEF ActiveRuns, Shortest, Least
  <2>6. i \in DOMAIN run.eligible /\ run.schedule[i] = run.eligible[i]
    <3> HIDE DEF q, I
    <3> QED BY <2>3, <2>5
  <2>7. PICK k \in I : run.schedule[i] = q[k]
    <3> HIDE DEF q, I
    <3>1. i \in DOMAIN Picked(q, I) /\ run.schedule[i] = Picked(q, I)[i]
      BY <2>3, <2>6
    <3>2. q \in Seq(Entries)
      BY <2>3
    <3>3. \A k \in DOMAIN Picked(q, I) : \E j \in I : Picked(q, I)[k] = q[j]
      BY <2>4, <3>2, PickedDates
    <3> QED BY <3>1, <3>3
  <2>8. CASE told = 0
    BY <2>1, <2>8
  <2>9. CASE told # 0
    <3>1. run.plan.rate # None /\ told <= run.plan.rate.until
      BY <2>1, <2>9 DEF IInv, Remembered
    <3>2. run.plan.rate \in Rates /\ q[k] \in Entries
      BY <2>1, <2>3, <2>4, <3>1 DEF States
    <3>3. Concerns(run.plan.rate, q[k])
      BY <2>7, <3>1, <3>2 DEF Concerns, Rates, Entries
    <3>4. run.plan.rate.until \in Nat
      BY <3>2 DEF Rates
    <3>5. Most(IF q[k].at = None THEN 0 ELSE q[k].at, run.plan.rate.until) <= run.started
      BY <3>3 DEF ReadyAt
    <3>6. q[k].at \in Nat \cup {None}
      BY <3>2 DEF Entries
    <3>7. run.plan.rate.until <= run.started
      <4> HIDE DEF q
      <4> QED BY <2>1, <3>4, <3>5, <3>6 DEF Most
    <3> QED BY <2>1, <3>1, <3>4, <3>7
  <2> QED BY <2>8, <2>9
<1> QED BY <1>1, <1>2, Invariance, PTL DEF Spec, CooldownDurable

-----------------------------------------------------------------------------
(* The gate as the discovery sees it.                                       *)

\* What getProviderRateLimitState shows of the gate.
Seen == IF last429At = Never THEN None
        ELSE [until |-> cooldownUntil, last |-> last429At, count |-> rateLimitCount]

\* The discovery's limiter is the gate: a step of the gate leaves what the
\* discovery sees of it alone, unless it is a 429, which then is the discovery's,
\* and the gate refuses a call in a cooldown exactly when the discovery says so.
THEOREM DiscoverySeesTheGate ==
  ASSUME GateInv, [GateNext]_limiterVars, clock = now, limiter = Seen
  PROVE  /\ Seen' = Seen \/ \E length \in Nat : Seen' = Penalized(length)
         /\ CoolingDown <=> limiter # None /\ clock < limiter.until
<1>1. /\ now \in Nat /\ cooldownUntil \in Nat /\ last429At \in Nat \cup {Never}
      /\ rateLimitCount \in Nat
      /\ last429At = Never => cooldownUntil = 0 /\ rateLimitCount = 0
      /\ GateTypeOK /\ None \notin Limits
  BY NoneApart DEF GateInv, GateTypeOK, CooldownOK
<1>2. limiter = None <=> last429At = Never
  <2>1. CASE last429At # Never
    <3>1. [until |-> cooldownUntil, last |-> last429At, count |-> rateLimitCount] \in Limits
      BY <1>1, <2>1 DEF Limits
    <3> QED BY <1>1, <2>1, <3>1 DEF Seen
  <2> QED BY <2>1 DEF Seen
<1>3. limiter # None => limiter.until = cooldownUntil /\ limiter.count = rateLimitCount
  BY <1>2 DEF Seen
<1>4. CoolingDown <=> limiter # None /\ clock < limiter.until
  BY <1>1, <1>2, <1>3 DEF CoolingDown
<1>5. CASE \E c \in Callers : \E ra, rs \in HeaderTimes \cup {Absent} :
             RespondRateLimited(c, ra, rs)
  <2>1. PICK time \in Nat, from \in Sources : time >= now /\ RecordRateLimit(time, from)
    <3>1. PICK c \in Callers, ra \in HeaderTimes \cup {Absent}, rs \in HeaderTimes \cup {Absent} :
            RespondRateLimited(c, ra, rs)
      BY <1>5
    <3>2. CASE ra # Absent /\ RecordRateLimit(ra, "RETRY_AFTER")
      BY <1>1, <3>1, <3>2, HeaderTimesBounded DEF Sources
    <3>3. CASE rs # Absent /\ RecordRateLimit(rs, "X_RATE_LIMIT_RESET")
      BY <1>1, <3>1, <3>3, HeaderTimesBounded DEF Sources
    <3>4. ASSUME NEW d \in FallbackRange(consecutive + 1), RecordRateLimit(now + d, "FALLBACK")
          PROVE  \E time \in Nat, from \in Sources : time >= now /\ RecordRateLimit(time, from)
      <4>1. d \in Nat /\ now + d \in Nat /\ now + d >= now
        BY <1>1, FallbackRangeBounded
      <4> QED BY <3>4, <4>1 DEF Sources
    <3> QED BY <3>1, <3>2, <3>3, <3>4 DEF RespondRateLimited
  <2>2. /\ cooldownUntil' = IF time >= cooldownUntil THEN time ELSE cooldownUntil
        /\ last429At' = now /\ rateLimitCount' = rateLimitCount + 1
    BY <2>1 DEF RecordRateLimit, Counted429
  <2>3. last429At' # Never
    BY <1>1, <2>2, NeverAssumption
  <2>4. Seen' = [until |-> cooldownUntil', last |-> now, count |-> rateLimitCount + 1]
    BY <2>2, <2>3 DEF Seen
  <2> DEFINE length == time - now
  <2>5. length \in Nat /\ clock + length = time
    BY <1>1, <2>1
  <2>6. CASE limiter = None
    <3>1. Penalized(length) = [until |-> time, last |-> clock, count |-> 1]
      BY <2>5, <2>6 DEF Penalized
    <3>2. cooldownUntil' = time /\ rateLimitCount + 1 = 1
      BY <1>1, <1>2, <2>1, <2>2, <2>6
    <3> QED BY <1>4, <2>4, <2>5, <3>1, <3>2
  <2>7. CASE limiter # None
    <3>1. Penalized(length) = [until |-> Most(cooldownUntil, time), last |-> clock,
                               count |-> rateLimitCount + 1]
      BY <1>3, <2>5, <2>7 DEF Penalized
    <3>2. cooldownUntil' = Most(cooldownUntil, time)
      BY <1>1, <2>1, <2>2 DEF Most
    <3> QED BY <1>4, <2>4, <2>5, <3>1, <3>2
  <2> QED BY <2>6, <2>7
<1>6. CASE UNCHANGED <<cooldownUntil, last429At, retryAfterSeconds, rateLimitCount, source>>
  BY <1>4, <1>6 DEF Seen
<1> QED BY <1>1, <1>5, <1>6, LimitStep

=============================================================================
