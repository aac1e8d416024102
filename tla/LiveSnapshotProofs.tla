-------------------------- MODULE LiveSnapshotProofs --------------------------
(***************************************************************************)
(* Proofs about LiveSnapshot, for any subscriptions cut into any batches,  *)
(* any number of workers and any deadline.  None of the properties is      *)
(* inductive: three of them speak of the result only, and rest on what     *)
(* holds while the batches are read, of both rounds.                       *)
(***************************************************************************)
EXTENDS LiveSnapshot, FiniteSetTheorems, TLAPS

\* A round ends at the deadline of the request, or a millisecond after it began.
AttemptBound == IF round = 0 THEN deadlineAt ELSE Later(deadlineAt, refreshedAt + 1)

Times ==
  /\ phase = "token" /\ round = 0 => deadlineAt = None
  /\ phase = "reading" \/ round = 1 => deadlineAt \in Nat
  /\ phase = "reading" /\ round = 1 => refreshedAt \in Nat
  /\ phase = "reading" => attemptEnd = AttemptBound
  /\ Collecting => now <= attemptEnd

\* The workers take the batches in order, and stop only when none is left.
Queue ==
  /\ phase # "reading" => Active = {}
  /\ Cardinality(Active) <= MaxConcurrent
  /\ phase = "reading" =>
       /\ \A b \in Ids : stage[b] = "waiting" <=> b >= next
       /\ next \in Ids => Active # {}

\* Only sockets that are being read are open.
Released ==
  \A k \in open : phase = "reading" /\ k[1] = round /\ k[2] \in Active

\* A batch has a result when its socket has settled, and one that is true.
Proved(b) ==
  /\ results[b] = "COMPLETE" => \A s \in Batches[b] : Satisfied(s)
  /\ results[b] = "PARTIAL" => \E s \in Batches[b] : Satisfied(s)
  /\ results[b] \in {"PARTIAL", "TIMED_OUT"} => timedOut

Results ==
  phase = "reading" =>
    /\ counted \subseteq authorized
    /\ \A b \in Ids : (results[b] # None <=> stage[b] = "settled") /\ Proved(b)

\* Only the second token's issue may find events of the other round.
Fresh ==
  phase = "reading" \/ round = 0 =>
    \A s \in Subs : Satisfied(s) => heard[s].round = round

\* Content is that of a Greeks event outside of snapshots and transactions.
Committed ==
  \A s \in Subs : s.type = "Greeks" /\ Satisfied(s) /\ heard[s].content
    => ~pending[s.symbol].snapshot /\ ~pending[s.symbol].tx

IInv ==
  /\ TypeOK /\ Times /\ Queue /\ Released /\ Results /\ Fresh /\ Committed
  /\ NothingOld /\ StatusesProved /\ ReadyIsCommitted

LEMMA ConstantTypes ==
  /\ Len(Batches) \in Nat /\ Ids = 1..Len(Batches)
  /\ MaxConcurrent \in Nat \ {0} /\ DeadlineMs \in Nat \ {0}
  /\ ExactRequests \subseteq BOOLEAN
  BY LimitAssumption DEF Ids

LEMMA NoneIsNothing ==
  None \notin Nat /\ None \notin Statuses /\ None \notin Event
  BY NoneAssumption

-----------------------------------------------------------------------------
(* Subscriptions and batches.                                              *)

\* Two subscriptions differ in their symbol or type, and none is in two batches.
LEMMA Subscriptions ==
  /\ \A b \in Ids : Batches[b] \subseteq Subs
  /\ \A s \in Subs : s.symbol \in Symbols
  /\ \A s, t \in Subs : s.symbol = t.symbol /\ s.type = t.type => s = t
  /\ \A b, c \in Ids : b # c => Batches[b] \cap Batches[c] = {}
  /\ \A b \in Ids : Batches[b] # {}
<1>1. \A b \in Ids : Batches[b] \in SUBSET [symbol : STRING, type : STRING]
  BY BatchAssumption DEF Ids
<1>2. \A s \in Subs : s \in [symbol : STRING, type : STRING]
  BY <1>1 DEF Subs
<1>3. \A s, t \in Subs : s.symbol = t.symbol /\ s.type = t.type => s = t
  BY <1>2
<1> QED BY <1>3, BatchAssumption DEF Subs, Symbols

LEMMA FiniteIds ==
  ASSUME NEW S \in SUBSET Ids
  PROVE  IsFiniteSet(S) /\ Cardinality(S) \in Nat
<1>1. IsFiniteSet(Ids)
  BY ConstantTypes, FS_Interval
<1>2. IsFiniteSet(S)
  BY <1>1, FS_Subset
<1> QED BY <1>2, FS_CardinalityType

\* A worker that puts down one batch and takes at most one other.
LEMMA NoMoreWorkers ==
  ASSUME NEW S \in SUBSET Ids, NEW b \in S, NEW T \in SUBSET Ids,
         T = {} \/ \E n : T = {n}
  PROVE  Cardinality((S \ {b}) \cup T) <= Cardinality(S)
<1>1. IsFiniteSet(S) /\ Cardinality(S) \in Nat /\ IsFiniteSet(S \ {b})
  BY FiniteIds
<1>2. Cardinality(S \ {b}) = Cardinality(S) - 1
  BY <1>1, FS_RemoveElement
<1>3. CASE T = {}
  <2>1. (S \ {b}) \cup T = S \ {b}
    BY <1>3
  <2> QED BY <1>1, <1>2, <2>1
<1>4. ASSUME NEW n, T = {n} PROVE Cardinality((S \ {b}) \cup T) <= Cardinality(S)
  <2>1. Cardinality((S \ {b}) \cup {n})
          = IF n \in S \ {b} THEN Cardinality(S \ {b}) ELSE Cardinality(S \ {b}) + 1
    BY <1>1, FS_AddElement
  <2> QED BY <1>1, <1>2, <1>4, <2>1
<1> QED BY <1>3, <1>4

-----------------------------------------------------------------------------
(* A socket settles.                                                       *)

\* The worker takes the next batch, or there is none left that is in time.
Takes(b, status, late, started, expired) ==
  /\ \/ started = {next} /\ next \in Ids /\ expired = {} /\ next' = next + 1
     \/ started = {} /\ expired = next..Len(Batches) /\ next' = Len(Batches) + 1
  /\ stage' = [c \in Ids |-> IF c \in started THEN "connecting"
                             ELSE IF c \in expired \cup {b} THEN "settled" ELSE stage[c]]
  /\ results' = [c \in Ids |-> IF c = b THEN status
                               ELSE IF c \in expired THEN "TIMED_OUT" ELSE results[c]]
  /\ connecting' = connecting \cup ({round} \X started)
  /\ timedOut' = (timedOut \/ late \/ expired # {})

LEMMA IntervalSize ==
  ASSUME NEW m \in Nat, NEW n \in Nat, m <= n + 1
  PROVE  Cardinality(m..n) = n + 1 - m
<1>1. m \in Int /\ n \in Int
  OBVIOUS
<1>2. Cardinality(m..n) = IF m > n THEN 0 ELSE n - m + 1
  BY <1>1, FS_Interval
<1> QED BY <1>2

LEMMA SettleTakes ==
  ASSUME TypeOK, Times, phase = "reading", NEW b, NEW status, NEW late,
         Settle(b, status, late)
  PROVE  \E started, expired : Takes(b, status, late, started, expired)
<1> DEFINE left == next..Len(Batches)
           started == IF now < attemptEnd THEN left \cap {next} ELSE {}
           expired == IF now < attemptEnd THEN {} ELSE left
<1>1. next \in Nat /\ 1 <= next /\ next <= Len(Batches) + 1 /\ Len(Batches) \in Nat
  BY DEF TypeOK
<1>2. /\ results' = [c \in Ids |-> IF c = b THEN status
                                   ELSE IF c \in expired THEN "TIMED_OUT" ELSE results[c]]
      /\ stage' = [c \in Ids |-> IF c \in started THEN "connecting"
                                 ELSE IF c \in expired \cup {b} THEN "settled" ELSE stage[c]]
      /\ next' = next + Cardinality(started \cup expired)
      /\ connecting' = connecting \cup ({round} \X started)
      /\ timedOut' = (timedOut \/ late \/ expired # {})
  BY DEF Settle, SettleTaking
<1>3. CASE now < attemptEnd /\ next <= Len(Batches)
  <2>1. started = {next} /\ expired = {} /\ next \in Ids
    BY <1>1, <1>3, ConstantTypes
  <2>2. Cardinality(started \cup expired) = 1
    <3>1. started \cup expired = {next}
      BY <2>1
    <3>2. Cardinality({next}) = 1
      BY FS_Singleton
    <3> QED BY <3>1, <3>2
  <2>3. Takes(b, status, late, started, expired)
    BY <1>2, <2>1, <2>2 DEF Takes
  <2> QED BY <1>2, <2>3
<1>4. CASE ~(now < attemptEnd /\ next <= Len(Batches))
  <2>1. started = {} /\ expired = next..Len(Batches)
    BY <1>1, <1>4
  <2>2. Cardinality(started \cup expired) = Len(Batches) + 1 - next
    <3>1. started \cup expired = next..Len(Batches)
      BY <2>1
    <3>2. Cardinality(next..Len(Batches)) = Len(Batches) + 1 - next
      BY <1>1, IntervalSize
    <3> QED BY <3>1, <3>2
  <2>3. next' = Len(Batches) + 1
    BY <1>1, <1>2, <2>2
  <2>4. Takes(b, status, late, started, expired)
    BY <1>2, <2>1, <2>3 DEF Takes
  <2> QED BY <1>2, <2>4
<1> QED BY <1>3, <1>4

\* A result that is true makes the whole state right.
LEMMA SettleKeeps ==
  ASSUME IInv, NEW b \in Active, NEW status \in Statuses, NEW late \in BOOLEAN,
         phase = "reading", Settle(b, status, late),
         heard' \in [Subs -> Event \cup {None}],
         pending' \in [Symbols -> [snapshot : BOOLEAN, tx : BOOLEAN]],
         \A s \in Subs : heard'[s] # None => heard'[s].round = round,
         Committed',
         \A c \in Ids \ {b} : \A s \in Batches[c] : heard'[s] = heard[s],
         status = "COMPLETE" => \A s \in Batches[b] : heard'[s] # None,
         status = "PARTIAL" => \E s \in Batches[b] : heard'[s] # None,
         status \in {"PARTIAL", "TIMED_OUT"} => late
  PROVE  IInv'
<1>0. TypeOK /\ Times /\ Queue /\ Released /\ Results
  BY DEF IInv
<1>1. PICK started, expired : Takes(b, status, late, started, expired)
  BY <1>0, SettleTakes
<1>2. /\ UNCHANGED <<now, exact, phase, round, deadlineAt, attemptEnd, answer,
                     refreshedAt, authorized>>
      /\ open' = open \ {<<round, b>>}
      /\ counted' = IF status # "FAILED" /\ b \in authorized THEN counted \cup {b} ELSE counted
  BY DEF Settle, SettleTaking, clock, request
<1>3. /\ b \in Ids /\ stage[b] \notin {"waiting", "settled"}
      /\ \A c \in Ids : stage[c] = "waiting" <=> c >= next
      /\ next \in Nat /\ next >= 1 /\ next <= Len(Batches) + 1
      /\ Len(Batches) \in Nat
  BY <1>0 DEF Active, Queue, TypeOK
<1>4. started \subseteq Ids /\ expired \subseteq Ids /\ b \notin started \cup expired
      /\ started \cap expired = {}
  BY <1>1, <1>3, ConstantTypes DEF Takes
<1>5. Active' = (Active \ {b}) \cup started
  <2>1. \A c \in expired : stage[c] = "waiting"
    BY <1>1, <1>3, <1>4 DEF Takes
  <2> QED BY <1>1, <1>4, <2>1 DEF Takes, Active
<1>6. TypeOK'
  <2>1. /\ next' \in 1..Len(Batches) + 1
        /\ stage' \in [Ids -> {"waiting", "connecting", "challenged", "subscribed",
                               "settled"}]
    BY <1>0, <1>1, <1>3, ConstantTypes DEF Takes, TypeOK
  <2>2. /\ connecting' \subseteq Sockets /\ open' \subseteq Sockets
        /\ counted' \subseteq Ids /\ timedOut' \in BOOLEAN
    BY <1>0, <1>1, <1>2, <1>3, <1>4 DEF Takes, TypeOK, Sockets
  <2>3. results' \in [Ids -> Statuses \cup {None}]
    BY <1>0, <1>1 DEF Takes, TypeOK, Statuses
  <2> QED BY <1>0, <1>2, <2>1, <2>2, <2>3 DEF TypeOK
<1>7. Times'
  BY <1>0, <1>2 DEF Times, AttemptBound, Collecting
<1>8. Queue'
  <2>1. Cardinality(Active') <= MaxConcurrent
    <3>1. Active \in SUBSET Ids /\ (started = {} \/ \E n : started = {n})
      BY <1>1 DEF Takes, Active
    <3>2. Cardinality(Active') <= Cardinality(Active)
      BY <1>4, <1>5, <3>1, NoMoreWorkers
    <3>3. Cardinality(Active) \in Nat /\ Cardinality(Active') \in Nat
      BY <1>4, <1>5, <3>1, FiniteIds
    <3> QED BY <1>0, <3>2, <3>3, ConstantTypes DEF Queue
  <2>2. \A c \in Ids : stage'[c] = "waiting" <=> c >= next'
    <3>1. CASE started = {next} /\ next \in Ids /\ expired = {} /\ next' = next + 1
      BY <1>1, <1>3, <3>1 DEF Takes
    <3>2. CASE started = {} /\ expired = next..Len(Batches) /\ next' = Len(Batches) + 1
      BY <1>1, <1>3, <3>2, ConstantTypes DEF Takes
    <3> QED BY <1>1, <3>1, <3>2 DEF Takes
  <2>3. next' \in Ids => Active' # {}
    BY <1>1, <1>3, <1>5, ConstantTypes DEF Takes
  <2> QED BY <1>2, <2>1, <2>2, <2>3 DEF Queue
<1>9. Released'
  BY <1>0, <1>2, <1>5 DEF Released, TypeOK, Sockets
<1>10. Results'
  <2>1. counted' \subseteq authorized'
    BY <1>0, <1>2 DEF Results
  <2>2. ASSUME NEW c \in Ids
        PROVE  (results'[c] # None <=> stage'[c] = "settled") /\ Proved(c)'
    <3>1. CASE c = b
      <4>1. results'[c] = status /\ stage'[c] = "settled"
        BY <1>1, <1>4, <3>1 DEF Takes
      <4>2. late => timedOut'
        BY <1>1 DEF Takes
      <4> QED BY <3>1, <4>1, <4>2, NoneIsNothing DEF Proved, Satisfied
    <3>2. CASE c \in expired
      <4>1. results'[c] = "TIMED_OUT" /\ stage'[c] = "settled" /\ timedOut'
        BY <1>1, <1>4, <3>2 DEF Takes
      <4> QED BY <4>1, NoneIsNothing DEF Proved, Statuses
    <3>3. CASE c # b /\ c \notin expired
      <4>1. /\ results'[c] = results[c]
            /\ stage'[c] = IF c \in started THEN "connecting" ELSE stage[c]
            /\ timedOut => timedOut'
        BY <1>1, <3>3 DEF Takes
      <4>2. c \in started => stage[c] = "waiting"
        BY <1>1, <1>3 DEF Takes
      <4>3. (results[c] # None <=> stage[c] = "settled") /\ Proved(c)
        BY <1>0 DEF Results
      <4> QED BY <3>3, <4>1, <4>2, <4>3 DEF Proved, Satisfied
    <3> QED BY <3>1, <3>2, <3>3
  <2> QED BY <2>1, <2>2 DEF Results
<1>11. Fresh'
  BY <1>2 DEF Fresh, Satisfied
<1>12. NothingOld' /\ StatusesProved' /\ ReadyIsCommitted'
  BY <1>2 DEF NothingOld, StatusesProved, ReadyIsCommitted, Answered
<1> QED BY <1>6, <1>7, <1>8, <1>9, <1>10, <1>11, <1>12 DEF IInv

-----------------------------------------------------------------------------
(* The deadline, breaks and events.                                        *)

LEMMA ExpireKeeps ==
  ASSUME IInv, NEW b \in Ids, Expire(b)
  PROVE  IInv'
<1>0. TypeOK /\ Fresh /\ Committed
  BY DEF IInv
<1> DEFINE missing == {s \in Batches[b] : ~Satisfied(s)}
           status == IF missing = {} THEN "COMPLETE"
                     ELSE IF missing = Batches[b] THEN "TIMED_OUT" ELSE "PARTIAL"
<1>1. /\ phase = "reading" /\ b \in Active /\ Settle(b, status, TRUE)
      /\ UNCHANGED <<heard, pending>>
  BY DEF Expire, states
<1>2. /\ status \in Statuses
      /\ status = "COMPLETE" => \A s \in Batches[b] : heard'[s] # None
      /\ status = "PARTIAL" => \E s \in Batches[b] : heard'[s] # None
  BY <1>1 DEF Statuses, Satisfied
<1>3. /\ heard' \in [Subs -> Event \cup {None}]
      /\ pending' \in [Symbols -> [snapshot : BOOLEAN, tx : BOOLEAN]]
      /\ \A s \in Subs : heard'[s] # None => heard'[s].round = round
      /\ Committed'
  BY <1>0, <1>1 DEF TypeOK, Fresh, Committed, Satisfied
<1> HIDE DEF status
<1> QED BY <1>1, <1>2, <1>3, SettleKeeps

LEMMA BreakKeeps ==
  ASSUME IInv, NEW b \in Ids, Break(b)
  PROVE  IInv'
<1>0. TypeOK /\ Fresh /\ Committed
  BY DEF IInv
<1>1. /\ phase = "reading" /\ b \in Active /\ Settle(b, "FAILED", FALSE)
      /\ UNCHANGED <<heard, pending>>
  BY DEF Break, states
<1>2. /\ heard' \in [Subs -> Event \cup {None}]
      /\ pending' \in [Symbols -> [snapshot : BOOLEAN, tx : BOOLEAN]]
      /\ \A s \in Subs : heard'[s] # None => heard'[s].round = round
      /\ Committed'
  BY <1>0, <1>1 DEF TypeOK, Fresh, Committed, Satisfied
<1>3. "FAILED" \in Statuses
  BY DEF Statuses
<1> QED BY <1>1, <1>2, <1>3, SettleKeeps

\* An event changes the state of its own subscription, and marks as content
\* only what follows the end of snapshots and transactions.
LEMMA MergeKeeps ==
  ASSUME TypeOK, Fresh, Committed, phase = "reading",
         NEW s \in Subs, NEW flags, Merge(s, flags)
  PROVE  /\ heard' \in [Subs -> Event \cup {None}]
         /\ pending' \in [Symbols -> [snapshot : BOOLEAN, tx : BOOLEAN]]
         /\ \A t \in Subs : heard'[t] # None => heard'[t].round = round
         /\ \A t \in Subs \ {s} : heard'[t] = heard[t]
         /\ Committed'
<1>1. s.symbol \in Symbols /\ round \in {0, 1}
  BY Subscriptions DEF TypeOK
<1> DEFINE p == PendingAfter(pending[s.symbol], flags)
<1>2. CASE s.type = "Greeks"
  <2>1. /\ pending' = [pending EXCEPT ![s.symbol] = p]
        /\ heard' = [heard EXCEPT ![s] =
             IF flags # None /\ "REMOVE" \in flags THEN None
             ELSE [round |-> round, content |-> Content(p, flags)]]
    BY <1>2 DEF Merge
  <2>2. p \in [snapshot : BOOLEAN, tx : BOOLEAN]
    BY <1>1 DEF PendingAfter, TypeOK
  <2>3. /\ Content(p, flags) \in BOOLEAN
        /\ Content(p, flags) => ~p.snapshot /\ ~p.tx
    BY DEF Content
  <2>4. [round |-> round, content |-> Content(p, flags)] \in Event
    BY <1>1, <2>3 DEF Event
  <2> HIDE DEF p
  <2>5. /\ heard' \in [Subs -> Event \cup {None}]
        /\ pending' \in [Symbols -> [snapshot : BOOLEAN, tx : BOOLEAN]]
    BY <1>1, <2>1, <2>2, <2>4 DEF TypeOK
  <2>6. \A t \in Subs \ {s} : heard'[t] = heard[t]
    BY <2>1
  <2>7. heard'[s] # None => heard'[s] = [round |-> round, content |-> Content(p, flags)]
    BY <2>1 DEF TypeOK
  <2>8. \A t \in Subs : heard'[t] # None => heard'[t].round = round
    BY <2>6, <2>7 DEF Fresh, Satisfied
  <2>9. ASSUME NEW t \in Subs, t.type = "Greeks", heard'[t] # None, heard'[t].content
        PROVE  ~pending'[t.symbol].snapshot /\ ~pending'[t.symbol].tx
    <3>1. CASE t = s
      <4>1. Content(p, flags)
        BY <2>7, <2>9, <3>1
      <4>2. pending'[s.symbol] = p
        BY <1>1, <2>1 DEF TypeOK
      <4> QED BY <2>3, <3>1, <4>1, <4>2
    <3>2. CASE t # s
      <4>1. t.symbol # s.symbol /\ t.symbol \in Symbols
        BY <1>2, <2>9, <3>2, Subscriptions
      <4>2. pending'[t.symbol] = pending[t.symbol]
        BY <2>1, <4>1
      <4>3. heard[t] # None /\ heard[t].content
        BY <2>6, <2>9, <3>2
      <4> QED BY <2>9, <4>2, <4>3 DEF Committed, Satisfied
    <3> QED BY <3>1, <3>2
  <2>10. Committed'
    BY <2>9 DEF Committed, Satisfied
  <2> QED BY <2>5, <2>6, <2>8, <2>10
<1>3. CASE s.type # "Greeks"
  <2>1. /\ heard' = [heard EXCEPT ![s] = [round |-> round, content |-> TRUE]]
        /\ UNCHANGED pending
    BY <1>3 DEF Merge
  <2>2. [round |-> round, content |-> TRUE] \in Event
    BY <1>1 DEF Event
  <2>3. /\ heard' \in [Subs -> Event \cup {None}]
        /\ pending' \in [Symbols -> [snapshot : BOOLEAN, tx : BOOLEAN]]
    BY <2>1, <2>2 DEF TypeOK
  <2>4. /\ \A t \in Subs \ {s} : heard'[t] = heard[t]
        /\ heard'[s] = [round |-> round, content |-> TRUE]
    BY <2>1 DEF TypeOK
  <2>5. \A t \in Subs : heard'[t] # None => heard'[t].round = round
    BY <2>4 DEF Fresh, Satisfied
  <2>6. Committed'
    BY <1>3, <2>1, <2>4 DEF Committed, Satisfied
  <2> QED BY <2>3, <2>4, <2>5, <2>6
<1> QED BY <1>2, <1>3

LEMMA DataKeeps ==
  ASSUME IInv, NEW b \in Ids, Data(b)
  PROVE  IInv'
<1>0. TypeOK /\ Times /\ Queue /\ Released /\ Results /\ Fresh /\ Committed
  BY DEF IInv
<1>1. phase = "reading" /\ stage[b] = "subscribed"
  BY DEF Data
<1>2. PICK s \in Batches[b], flags \in GreeksFlags : Merge(s, flags)
  BY DEF Data
<1>3. s \in Subs
  BY Subscriptions
<1>4. /\ heard' \in [Subs -> Event \cup {None}]
      /\ pending' \in [Symbols -> [snapshot : BOOLEAN, tx : BOOLEAN]]
      /\ \A t \in Subs : heard'[t] # None => heard'[t].round = round
      /\ \A t \in Subs \ {s} : heard'[t] = heard[t]
      /\ Committed'
  BY <1>0, <1>1, <1>2, <1>3, MergeKeeps
<1>5. \A c \in Ids \ {b} : \A t \in Batches[c] : heard'[t] = heard[t]
  <2>1. \A c \in Ids \ {b} : Batches[c] \subseteq Subs \ {s}
    BY Subscriptions
  <2> QED BY <1>4, <2>1
<1>6. CASE Whole(b)
  <2>1. Settle(b, "COMPLETE", FALSE) /\ b \in Active
    BY <1>1, <1>6 DEF Data, Active
  <2>2. \A t \in Batches[b] : heard'[t] # None
    BY <1>6 DEF Whole
  <2>3. "COMPLETE" \in Statuses
    BY DEF Statuses
  <2> QED BY <1>1, <1>4, <1>5, <2>1, <2>2, <2>3, SettleKeeps
<1>7. CASE ~Whole(b)
  <2>1. UNCHANGED <<now, exact, phase, round, deadlineAt, attemptEnd, answer, refreshedAt,
                    next, stage, connecting, open, authorized, counted, results, timedOut>>
    BY <1>7 DEF Data, clock, request, sockets
  <2>2. TypeOK'
    BY <1>0, <1>4, <2>1 DEF TypeOK
  <2>3. Times' /\ Queue' /\ Released'
    BY <1>0, <2>1 DEF Times, Queue, Released, AttemptBound, Collecting, Active
  <2>4. Results'
    <3>1. ASSUME NEW c \in Ids PROVE Proved(c)'
      <4>1. CASE c = b
        <5>1. results'[c] = None
          BY <1>0, <1>1, <2>1, <4>1 DEF Results
        <5> QED BY <5>1, NoneIsNothing DEF Proved, Statuses
      <4>2. CASE c # b
        <5>1. Proved(c) /\ \A t \in Batches[c] : heard'[t] = heard[t]
          BY <1>0, <1>1, <1>5, <4>2 DEF Results
        <5> QED BY <2>1, <5>1 DEF Proved, Satisfied
      <4> QED BY <4>1, <4>2
    <3> QED BY <1>0, <2>1, <3>1 DEF Results
  <2>5. Fresh'
    BY <1>4, <2>1 DEF Fresh, Satisfied
  <2>6. NothingOld' /\ StatusesProved' /\ ReadyIsCommitted'
    BY <1>1, <2>1 DEF NothingOld, StatusesProved, ReadyIsCommitted, Answered
  <2> QED BY <1>4, <2>2, <2>3, <2>4, <2>5, <2>6 DEF IInv
<1> QED BY <1>6, <1>7

-----------------------------------------------------------------------------
(* Handshakes, refusals and the round.                                      *)

\* The sockets that are read stay the same when one of them gets further.
LEMMA AdvanceKeeps ==
  ASSUME IInv, NEW b \in Ids, NEW from, NEW to \in {"challenged", "subscribed"},
         from \in {"connecting", "challenged"}, Advance(b, from, to),
         connecting' \subseteq connecting, open' \subseteq open \cup {<<round, b>>},
         authorized' \in SUBSET Ids, authorized \subseteq authorized'
  PROVE  IInv'
<1>0. TypeOK /\ Times /\ Queue /\ Released /\ Results /\ Fresh /\ Committed
  BY DEF IInv
<1>1. /\ phase = "reading" /\ stage[b] = from /\ stage' = [stage EXCEPT ![b] = to]
      /\ UNCHANGED <<now, exact, phase, round, deadlineAt, attemptEnd, answer, refreshedAt,
                     next, counted, results, timedOut, heard, pending>>
  BY DEF Advance, clock, request, states
<1>2. Active' = Active /\ b \in Active
  BY <1>0, <1>1 DEF Active
<1>3. TypeOK'
  <2>1. open' \subseteq Sockets /\ connecting' \subseteq Sockets
    BY <1>0 DEF TypeOK, Sockets
  <2> QED BY <1>0, <1>1, <2>1 DEF TypeOK
<1>4. Times' /\ Fresh' /\ Committed'
  BY <1>0, <1>1, <1>2 DEF Times, Fresh, Committed, AttemptBound, Collecting,
     Satisfied
<1>5. Queue'
  BY <1>0, <1>1, <1>2 DEF Queue
<1>6. Released'
  BY <1>0, <1>1, <1>2 DEF Released
<1>7. Results'
  BY <1>0, <1>1 DEF Results, Proved, Satisfied
<1>8. NothingOld' /\ StatusesProved' /\ ReadyIsCommitted'
  BY <1>1 DEF NothingOld, StatusesProved, ReadyIsCommitted, Answered
<1> QED BY <1>3, <1>4, <1>5, <1>6, <1>7, <1>8 DEF IInv

LEMMA OpenedKeeps ==
  ASSUME IInv, NEW b \in Ids, Opened(b)
  PROVE  IInv'
  BY AdvanceKeeps DEF Opened, IInv, TypeOK

LEMMA AuthorizedKeeps ==
  ASSUME IInv, NEW b \in Ids, Authorized(b)
  PROVE  IInv'
  BY AdvanceKeeps DEF Authorized, IInv, TypeOK

LEMMA OpenedLateKeeps ==
  ASSUME IInv, NEW b \in Ids, NEW r \in {0, 1}, OpenedLate(r, b)
  PROVE  IInv'
<1>0. TypeOK /\ Times /\ Queue /\ Released /\ Results /\ Fresh /\ Committed
  BY DEF IInv
<1>1. /\ connecting' \subseteq connecting
      /\ UNCHANGED <<now, exact, phase, round, deadlineAt, attemptEnd, answer, refreshedAt,
                     next, stage, open, authorized, counted, results, timedOut, heard,
                     pending>>
  BY DEF OpenedLate, CloseLate, clock, request, states
<1>2. TypeOK'
  BY <1>0, <1>1 DEF TypeOK
<1>3. Times' /\ Queue' /\ Released' /\ Fresh' /\ Committed'
  BY <1>0, <1>1 DEF Times, Queue, Released, Fresh, Committed, AttemptBound,
     Collecting, Active, Satisfied
<1>4. Results'
  BY <1>0, <1>1 DEF Results, Proved, Satisfied
<1>5. NothingOld' /\ StatusesProved' /\ ReadyIsCommitted'
  BY <1>1 DEF IInv, NothingOld, StatusesProved, ReadyIsCommitted, Answered,
     Satisfied
<1> QED BY <1>2, <1>3, <1>4, <1>5 DEF IInv

\* Nothing is heard of, and no state is left, when all states are reset.
LEMMA ResetKeeps ==
  ASSUME ResetStates
  PROVE  /\ heard' \in [Subs -> Event \cup {None}]
         /\ pending' \in [Symbols -> [snapshot : BOOLEAN, tx : BOOLEAN]]
         /\ \A s \in Subs : heard'[s] = None
  BY DEF ResetStates, NothingHeard, NothingPending

LEMMA WaitingIsIdle ==
  ASSUME stage' = Waiting
  PROVE  /\ Active' = {} /\ Cardinality(Active') = 0
         /\ stage' \in [Ids -> {"waiting", "connecting", "challenged", "subscribed",
                                "settled"}]
<1>1. Active' = {}
  BY DEF Waiting, Active
<1> QED BY <1>1, FS_EmptySet DEF Waiting

\* All sockets of the round are closed, and no other round has any.
LEMMA RefusedKeeps ==
  ASSUME IInv, NEW b \in Ids, Refused(b)
  PROVE  IInv'
<1>0. TypeOK /\ Times /\ Queue /\ Released /\ Results /\ Fresh /\ Committed
  BY DEF IInv
<1>1. /\ phase = "reading" /\ stage' = Waiting /\ next' = 1
      /\ authorized' = {} /\ counted' = {} /\ timedOut' = FALSE
      /\ open' = open \ ({round} \X Ids)
      /\ UNCHANGED <<now, exact, deadlineAt, attemptEnd, refreshedAt, connecting>>
  BY DEF Refused, clock
<1>2. open' = {}
  BY <1>0, <1>1 DEF Released, TypeOK, Sockets
<1>3. 1 \in 1..Len(Batches) + 1
  OBVIOUS
<1>4. CASE round = 0
  <2>1. /\ phase' = "token" /\ round' = 1 /\ results' = NoResults
        /\ UNCHANGED <<answer, heard, pending>>
    BY <1>4 DEF Refused, states
  <2>2. TypeOK'
    BY <1>0, <1>1, <1>2, <1>3, <2>1, WaitingIsIdle DEF TypeOK, NoResults
  <2>3. Times'
    BY <1>0, <1>1, <2>1 DEF Times, Collecting
  <2>4. Queue' /\ Released' /\ Results' /\ Fresh' /\ Committed'
    BY <1>0, <1>1, <1>2, <2>1, WaitingIsIdle, ConstantTypes DEF Queue,
       Released, Results, Fresh, Committed, Satisfied
  <2>5. NothingOld' /\ StatusesProved' /\ ReadyIsCommitted'
    BY <2>1 DEF NothingOld, StatusesProved, ReadyIsCommitted, Answered
  <2> QED BY <2>2, <2>3, <2>4, <2>5 DEF IInv
<1>5. CASE round # 0
  <2>1. /\ phase' = "done" /\ answer' = Answer("FAILED", FALSE, FALSE)
        /\ results' = [c \in Ids |-> "FAILED"] /\ ResetStates /\ round' = round
    BY <1>5 DEF Refused, AuthFailed
  <2>2. TypeOK'
    BY <1>0, <1>1, <1>2, <1>3, <2>1, WaitingIsIdle, ResetKeeps DEF TypeOK,
       Statuses
  <2>3. Times'
    BY <1>0, <1>1, <2>1 DEF Times, Collecting
  <2>4. Queue' /\ Released' /\ Results' /\ Fresh' /\ Committed'
    BY <1>0, <1>1, <1>2, <2>1, WaitingIsIdle, ConstantTypes, ResetKeeps
       DEF Queue, Released, Results, Fresh, Committed, Satisfied
  <2>5. NothingOld' /\ StatusesProved' /\ ReadyIsCommitted'
    BY <2>1, ResetKeeps DEF NothingOld, StatusesProved, ReadyIsCommitted,
       Satisfied, Answer, Statuses
  <2> QED BY <2>2, <2>3, <2>4, <2>5 DEF IInv
<1> QED BY <1>4, <1>5

LEMMA TokenFailsKeeps ==
  ASSUME IInv, TokenFails
  PROVE  IInv'
<1>0. TypeOK /\ Times /\ Queue /\ Released /\ Results /\ Fresh /\ Committed
  BY DEF IInv
<1>1. /\ phase = "token"
      /\ UNCHANGED <<now, exact, round, deadlineAt, attemptEnd, refreshedAt, next, stage,
                     connecting, open, authorized, counted, timedOut>>
  BY DEF TokenFails, clock
<1>2. open = {} /\ Active = {} /\ Active' = {}
  BY <1>0, <1>1 DEF Released, Queue, Active
<1>3. CASE round = 1
  <2>1. /\ phase' = "done" /\ answer' = Answer("FAILED", FALSE, FALSE)
        /\ results' = [c \in Ids |-> "FAILED"] /\ ResetStates
    BY <1>3 DEF TokenFails, AuthFailed
  <2>2. TypeOK'
    BY <1>0, <1>1, <2>1, ResetKeeps DEF TypeOK, Statuses
  <2>3. Times'
    BY <1>0, <1>1, <2>1 DEF Times, Collecting
  <2>4. Queue' /\ Released' /\ Results' /\ Fresh' /\ Committed'
    BY <1>0, <1>1, <1>2, <2>1, ResetKeeps DEF Queue, Released, Results, Fresh,
       Committed, Satisfied
  <2>5. NothingOld' /\ StatusesProved' /\ ReadyIsCommitted'
    BY <2>1, ResetKeeps DEF NothingOld, StatusesProved, ReadyIsCommitted,
       Satisfied, Answer, Statuses
  <2> QED BY <2>2, <2>3, <2>4, <2>5 DEF IInv
<1>4. CASE round # 1
  <2>1. phase' = "error" /\ UNCHANGED <<answer, results, heard, pending>>
    BY <1>4 DEF TokenFails, states
  <2>2. TypeOK'
    BY <1>0, <1>1, <2>1 DEF TypeOK
  <2>3. Times'
    BY <1>0, <1>1, <2>1 DEF Times, Collecting
  <2>4. Queue' /\ Released' /\ Results' /\ Fresh' /\ Committed'
    BY <1>0, <1>1, <1>2, <2>1 DEF Queue, Released, Results, Fresh, Committed,
       Satisfied
  <2>5. NothingOld' /\ StatusesProved' /\ ReadyIsCommitted'
    BY <2>1 DEF NothingOld, StatusesProved, ReadyIsCommitted, Answered
  <2> QED BY <2>2, <2>3, <2>4, <2>5 DEF IInv
<1> QED BY <1>3, <1>4

\* The first batches are taken, one for each worker.
LEMMA TokenIssuedKeeps ==
  ASSUME IInv, TokenIssued
  PROVE  IInv'
<1>0. TypeOK /\ Times /\ Queue /\ Released /\ Results /\ Fresh /\ Committed
  BY DEF IInv
<1> DEFINE workers == Sooner(MaxConcurrent, Len(Batches))
           first == 1..workers
<1>1. /\ phase = "token" /\ phase' = "reading"
      /\ deadlineAt' = IF deadlineAt = None THEN now + DeadlineMs ELSE deadlineAt
      /\ attemptEnd' = Later(now + 1, deadlineAt')
      /\ refreshedAt' = IF round = 1 THEN now ELSE None
      /\ stage' = [b \in Ids |-> IF b \in first THEN "connecting" ELSE "waiting"]
      /\ connecting' = connecting \cup ({round} \X first)
      /\ next' = Cardinality(first) + 1
      /\ authorized' = {} /\ counted' = {} /\ results' = NoResults /\ timedOut' = FALSE
      /\ IF round = 1 THEN ResetStates ELSE UNCHANGED <<heard, pending>>
      /\ UNCHANGED <<now, exact, round, open, answer>>
  BY DEF TokenIssued, AttemptEnd, clock, states
<1>2. /\ workers \in Nat /\ workers <= Len(Batches) /\ workers <= MaxConcurrent
      /\ Len(Batches) > 0 => workers > 0
  BY ConstantTypes DEF Sooner
<1>3. first \in SUBSET Ids /\ Cardinality(first) = workers
  <2>1. Cardinality(first) = workers + 1 - 1
    BY <1>2, IntervalSize
  <2> QED BY <1>2, <2>1, ConstantTypes
<1>4. Active' = first /\ open = {}
  BY <1>0, <1>1, <1>3 DEF Active, Released
<1>5. /\ heard' \in [Subs -> Event \cup {None}]
      /\ pending' \in [Symbols -> [snapshot : BOOLEAN, tx : BOOLEAN]]
      /\ Fresh' /\ Committed'
  <2>1. CASE round = 1
    BY <1>1, <2>1, ResetKeeps DEF Fresh, Committed, Satisfied
  <2>2. CASE round # 1
    BY <1>0, <1>1, <2>2 DEF TypeOK, Fresh, Committed, Satisfied
  <2> QED BY <2>1, <2>2
<1> HIDE DEF workers
<1>6. TypeOK'
  <2>1. /\ deadlineAt' \in Nat /\ attemptEnd' \in Nat
        /\ next' \in 1..Len(Batches) + 1
    BY <1>0, <1>1, <1>2, <1>3, ConstantTypes DEF TypeOK, Later
  <2>2. /\ stage' \in [Ids -> {"waiting", "connecting", "challenged", "subscribed",
                               "settled"}]
        /\ connecting' \subseteq Sockets /\ results' \in [Ids -> Statuses \cup {None}]
    BY <1>0, <1>1, <1>3 DEF TypeOK, Sockets, NoResults
  <2> QED BY <1>0, <1>1, <1>5, <2>1, <2>2 DEF TypeOK
<1>7. Times'
  <2>1. CASE round = 1
    <3>1. deadlineAt \in Nat /\ deadlineAt' = deadlineAt /\ refreshedAt' = now
          /\ now \in Nat
      BY <1>0, <1>1, <2>1, NoneIsNothing DEF Times, TypeOK
    <3> QED BY <1>1, <2>1, <3>1 DEF Times, AttemptBound, Later
  <2>2. CASE round = 0
    <3>1. deadlineAt' = now + DeadlineMs /\ now \in Nat /\ DeadlineMs \in Nat \ {0}
      BY <1>0, <1>1, <2>2, ConstantTypes DEF Times, TypeOK
    <3>2. attemptEnd' = deadlineAt'
      <4>1. attemptEnd' = Later(now + 1, deadlineAt')
        BY <1>1
      <4>2. Later(now + 1, now + DeadlineMs) = now + DeadlineMs
        BY <3>1 DEF Later
      <4> QED BY <3>1, <4>1, <4>2
    <3> QED BY <1>1, <2>2, <3>1, <3>2 DEF Times, AttemptBound
  <2> QED BY <1>0, <2>1, <2>2 DEF TypeOK
<1>8. Queue'
  <2>1. phase' = "reading" /\ next' = workers + 1 /\ Cardinality(Active') <= MaxConcurrent
    BY <1>1, <1>2, <1>3, <1>4
  <2>2. \A b \in Ids : stage'[b] = "waiting" <=> b >= next'
    <3>1. \A b \in Ids : b \in Nat /\ b >= 1 /\ (b \in first <=> b <= workers)
      BY <1>2, ConstantTypes DEF workers
    <3>2. \A b \in Ids : stage'[b] = "waiting" <=> b \notin first
      BY <1>1
    <3> QED BY <1>2, <2>1, <3>1, <3>2
  <2>3. next' \in Ids => Active' # {}
    <3>1. next' \in Ids => 1 \in first
      BY <1>2, <2>1, ConstantTypes
    <3> QED BY <1>4, <3>1
  <2> QED BY <2>1, <2>2, <2>3 DEF Queue
<1>9. Released' /\ Results'
  BY <1>1, <1>3, <1>4, NoneIsNothing DEF Released, Results, Proved, NoResults,
     Statuses
<1>10. NothingOld' /\ StatusesProved' /\ ReadyIsCommitted'
  BY <1>1 DEF NothingOld, StatusesProved, ReadyIsCommitted, Answered
<1> QED BY <1>5, <1>6, <1>7, <1>8, <1>9, <1>10 DEF IInv

\* When no socket is read any more, every batch has settled.
LEMMA ReturnKeeps ==
  ASSUME IInv, Return
  PROVE  IInv'
<1>0. TypeOK /\ Times /\ Queue /\ Released /\ Results /\ Fresh /\ Committed
  BY DEF IInv
<1> DEFINE auth == IF ~AllAuthorized THEN "NOT_CONFIRMED"
                   ELSE IF round = 0 THEN "CONFIRMED" ELSE "REFRESHED"
           transport == \A b \in Ids : results[b] = "COMPLETE"
           content == \A s \in Subs : Satisfied(s) /\ heard[s].content
           late == timedOut \/ \E b \in Ids : results[b] \in {"PARTIAL", "TIMED_OUT"}
<1>1. /\ phase = "reading" /\ Active = {} /\ phase' = "done"
      /\ answer' = Answer(auth, transport /\ auth # "NOT_CONFIRMED" /\ content, late)
      /\ UNCHANGED <<now, exact, round, deadlineAt, attemptEnd, refreshedAt, next, stage,
                     connecting, open, authorized, counted, results, timedOut, heard,
                     pending>>
  BY DEF Return, clock, sockets, states
<1>2. /\ answer'.auth = auth /\ answer'.timedOut = late
      /\ answer'.ready => content
  BY <1>1 DEF Answer
<1>3. \A b \in Ids : stage[b] = "settled"
  BY <1>0, <1>1 DEF Queue, Active, TypeOK
<1>4. TypeOK' /\ Times'
  BY <1>0, <1>1 DEF TypeOK, Times, Collecting
<1>5. Active' = {} /\ open = {}
  BY <1>0, <1>1 DEF Active, Released
<1>6. Queue' /\ Released' /\ Results' /\ Fresh' /\ Committed'
  BY <1>0, <1>1, <1>5 DEF Queue, Released, Results, Fresh, Committed, Satisfied
<1>7. NothingOld'
  BY <1>0, <1>1, <1>2 DEF NothingOld, Fresh, Satisfied
<1>8. StatusesProved'
  <2>1. answer'.auth \in {"CONFIRMED", "REFRESHED"} =>
          authorized = Ids /\ (answer'.auth = "REFRESHED" <=> round = 1)
    BY <1>0, <1>1, <1>2 DEF AllAuthorized, Results, TypeOK
  <2>2. \A b \in Ids :
          /\ results[b] \in Statuses /\ Proved(b)
          /\ results[b] \in {"PARTIAL", "TIMED_OUT"} => answer'.timedOut
    BY <1>0, <1>1, <1>2, <1>3 DEF Results, TypeOK
  <2> QED BY <1>1, <2>1, <2>2 DEF StatusesProved, Proved, Satisfied
<1>9. ReadyIsCommitted'
  <2>1. ASSUME answer'.ready, NEW s \in Subs, s.type = "Greeks"
        PROVE  Satisfied(s) /\ ~pending[s.symbol].snapshot /\ ~pending[s.symbol].tx
    BY <1>0, <1>2, <2>1 DEF Committed
  <2> QED BY <1>1, <2>1 DEF ReadyIsCommitted, Satisfied
<1> QED BY <1>4, <1>6, <1>7, <1>8, <1>9 DEF IInv

LEMMA AbortKeeps ==
  ASSUME IInv, Abort
  PROVE  IInv'
<1>0. TypeOK /\ Times /\ Queue /\ Released /\ Results /\ Fresh /\ Committed
  BY DEF IInv
<1>1. /\ phase' = "aborted" /\ open' = open \ ({round} \X Ids)
      /\ stage' = Waiting /\ results' = NoResults /\ ResetStates
      /\ UNCHANGED <<now, exact, round, deadlineAt, attemptEnd, refreshedAt, answer, next,
                     connecting, authorized, counted, timedOut>>
  BY DEF Abort, clock
<1>2. open' = {}
  BY <1>0, <1>1 DEF Released, TypeOK, Sockets
<1>3. TypeOK'
  BY <1>0, <1>1, <1>2, WaitingIsIdle, ResetKeeps DEF TypeOK, NoResults
<1>4. Times'
  BY <1>0, <1>1 DEF Times, Collecting
<1>5. Queue' /\ Released' /\ Results' /\ Fresh' /\ Committed'
  BY <1>1, <1>2, WaitingIsIdle, ResetKeeps, ConstantTypes DEF Queue, Released,
     Results, Fresh, Committed, Satisfied
<1>6. NothingOld' /\ StatusesProved' /\ ReadyIsCommitted'
  BY <1>1 DEF NothingOld, StatusesProved, ReadyIsCommitted, Answered
<1> QED BY <1>3, <1>4, <1>5, <1>6 DEF IInv

LEMMA TickKeeps ==
  ASSUME IInv, Tick
  PROVE  IInv'
<1>0. TypeOK /\ Times /\ Queue /\ Released /\ Results /\ Fresh /\ Committed
  BY DEF IInv
<1>1. /\ phase = "token" \/ (Collecting /\ now < attemptEnd)
      /\ now' = now + 1
      /\ UNCHANGED <<exact, phase, round, deadlineAt, attemptEnd, answer, refreshedAt,
                     next, stage, connecting, open, authorized, counted, results, timedOut,
                     heard, pending>>
  BY DEF Tick, request, sockets, states
<1>2. TypeOK'
  BY <1>0, <1>1 DEF TypeOK
<1>3. Times'
  <2>1. now \in Nat /\ (phase = "reading" => attemptEnd \in Nat)
    BY <1>0 DEF TypeOK, Times, AttemptBound, Later
  <2>2. Collecting' => now' <= attemptEnd'
    BY <1>1, <2>1 DEF Collecting
  <2> QED BY <1>0, <1>1, <2>2 DEF Times, AttemptBound
<1>4. Queue' /\ Released' /\ Fresh' /\ Committed'
  BY <1>0, <1>1 DEF Queue, Released, Fresh, Committed, Active, Satisfied
<1>5. Results'
  BY <1>0, <1>1 DEF Results, Proved, Satisfied
<1>6. NothingOld' /\ StatusesProved' /\ ReadyIsCommitted'
  BY <1>1 DEF NothingOld, StatusesProved, ReadyIsCommitted, Answered,
     Collecting
<1> QED BY <1>2, <1>3, <1>4, <1>5, <1>6 DEF IInv

-----------------------------------------------------------------------------
(* The theorems.                                                           *)

LEMMA InitEstablishes == Init => IInv
<1> SUFFICES ASSUME Init PROVE IInv
  OBVIOUS
<1>1. Active = {} /\ Cardinality({}) = 0
  BY FS_EmptySet DEF Init, Waiting, Active
<1>2. \A s \in Subs : heard[s] = None
  BY DEF Init, NothingHeard
<1>3. TypeOK
  <2>1. /\ exact \in BOOLEAN /\ next \in 1..Len(Batches) + 1
    BY ConstantTypes DEF Init
  <2>2. /\ stage \in [Ids -> {"waiting", "connecting", "challenged", "subscribed",
                              "settled"}]
        /\ results \in [Ids -> Statuses \cup {None}]
        /\ heard \in [Subs -> Event \cup {None}]
        /\ pending \in [Symbols -> [snapshot : BOOLEAN, tx : BOOLEAN]]
    BY DEF Init, Waiting, NoResults, NothingHeard, NothingPending
  <2> QED BY <2>1, <2>2 DEF Init, TypeOK
<1>4. Times /\ Queue /\ Released /\ Results
  BY <1>1, ConstantTypes DEF Init, Times, Queue, Released, Results, Collecting
<1>5. Fresh /\ Committed
  BY <1>2 DEF Fresh, Committed, Satisfied
<1>6. NothingOld /\ StatusesProved /\ ReadyIsCommitted
  BY DEF Init, NothingOld, StatusesProved, ReadyIsCommitted, Answered
<1> QED BY <1>3, <1>4, <1>5, <1>6 DEF IInv

LEMMA NextKeeps == IInv /\ [Next]_vars => IInv'
<1> SUFFICES ASSUME IInv, [Next]_vars PROVE IInv'
  OBVIOUS
<1>1. CASE TokenIssued \/ TokenFails \/ Return \/ Abort \/ Tick
  BY <1>1, TokenIssuedKeeps, TokenFailsKeeps, ReturnKeeps, AbortKeeps,
     TickKeeps
<1>2. CASE \E b \in Ids : Expire(b) \/ Break(b) \/ Data(b)
  BY <1>2, ExpireKeeps, BreakKeeps, DataKeeps
<1>3. CASE \E b \in Ids : Opened(b) \/ Authorized(b) \/ Refused(b)
  BY <1>3, OpenedKeeps, AuthorizedKeeps, RefusedKeeps
<1>4. CASE \E b \in Ids : \E r \in {0, 1} : OpenedLate(r, b)
  BY <1>4, OpenedLateKeeps
<1>5. CASE UNCHANGED vars
  <2>1. UNCHANGED <<now, exact, phase, round, deadlineAt, attemptEnd, answer, refreshedAt,
                    next, stage, connecting, open, authorized, counted, results, timedOut,
                    heard, pending>>
    BY <1>5 DEF vars, clock, request, sockets, states
  <2>2. TypeOK' /\ Times' /\ Queue' /\ Released' /\ Fresh' /\ Committed'
    BY <2>1 DEF IInv, TypeOK, Times, Queue, Released, Fresh, Committed,
       AttemptBound, Collecting, Active, Satisfied
  <2>3. Results'
    BY <2>1 DEF IInv, Results, Proved, Satisfied
  <2>4. NothingOld' /\ StatusesProved' /\ ReadyIsCommitted'
    BY <2>1 DEF IInv, NothingOld, StatusesProved, ReadyIsCommitted, Answered,
       Satisfied
  <2> QED BY <2>2, <2>3, <2>4 DEF IInv
<1> QED BY <1>1, <1>2, <1>3, <1>4, <1>5 DEF Next

LEMMA Invariance == Spec => []IInv
  BY InitEstablishes, NextKeeps, PTL DEF Spec

\* Every variable keeps to its type, for any batches and any number of workers.
THEOREM TypeCorrect == Spec => []TypeOK
<1>1. IInv => TypeOK
  BY DEF IInv
<1> QED BY <1>1, Invariance, PTL

\* readSnapshotBatches after withDxlinkAuthRecovery: no event that a refused
\* round received is in the result, for any batches.
THEOREM NoOldEvents == Spec => []NothingOld
<1>1. IInv => NothingOld
  BY DEF IInv
<1> QED BY <1>1, Invariance, PTL

\* Every socket is closed with its own reading, however late it opens; at most
\* MaxConcurrent are read at a time, and none beyond the shared deadline.
THEOREM SocketsAreReleased == Spec => []SocketsReleased
<1>1. IInv => SocketsReleased
  BY DEF IInv, Released, Queue, Times, AttemptBound, Collecting,
     SocketsReleased
<1> QED BY <1>1, Invariance, PTL

\* The statuses of the result and of its batches are those that the sockets and
\* the clock have earned.
THEOREM StatusesAreProved == Spec => []StatusesProved
<1>1. IInv => StatusesProved
  BY DEF IInv
<1> QED BY <1>1, Invariance, PTL

\* A ready package has Greeks outside of snapshots and transactions, for any
\* sequence of event flags.
THEOREM ReadyAfterCommit == Spec => []ReadyIsCommitted
<1>1. IInv => ReadyIsCommitted
  BY DEF IInv
<1> QED BY <1>1, Invariance, PTL

=============================================================================
