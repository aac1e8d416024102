------------------------ MODULE CalendarRecoveryProofs ------------------------
(***************************************************************************)
(* Proofs about CalendarRecovery, for any number of symbols and sessions,  *)
(* any budgets, window length, number of attempts and deadline.  Neither   *)
(* property is inductive.  That a symbol gets one window rests on what the *)
(* window in hand says about the symbol the loop is at: a symbol without a *)
(* window in hand has had none, and one that was interrupted resumes the   *)
(* one it had.  That the status is proved rests on the credentials being   *)
(* unconfirmed from a refusal to the next authorized snapshot.             *)
(***************************************************************************)
EXTENDS CalendarRecovery, FiniteSetTheorems, WellFoundedInduction, TLAPS

\* What is spent so far is within the budgets.
Budgets ==
  /\ left >= 0 /\ events <= MaxEvents /\ bytes <= MaxBuffer
  /\ attempts <= MaxAttempts
  /\ \A i \in Symbols : Cardinality(observed[i]) <= MaxRows

\* The symbols that the loop has not reached have had no window, the one it is
\* at the window in hand and no other.
Windows ==
  /\ \A i \in Symbols : windows[i] = {} \/ \E w : windows[i] = {w}
  /\ \A i \in Symbols : i > at => windows[i] = {}
  /\ step # "done" /\ window = {} /\ at \in Symbols => windows[at] = {}
  /\ window # {} => at \in Symbols /\ windows[at] = {window}
  /\ step = "window" => window # {}
  /\ step = "refresh" /\ ~interrupted => window # {}

\* Credentials are confirmed only by a snapshot of the round, and not while
\* they are being replaced.
Credentials ==
  /\ confirmed => round \in authorized
  /\ step = "refresh" => ~confirmed
  /\ StatusProved

IInv == TypeOK /\ Budgets /\ Windows /\ Credentials

LEMMA ConstantTypes ==
  /\ NumSymbols \in Nat /\ NumSessions \in Nat /\ Supported \subseteq Symbols
  /\ WindowSessions \in Nat \ {0} /\ MaxAttempts \in Nat
  /\ MaxEvents \in Nat /\ MaxRows \in Nat /\ MaxBuffer \in Nat
  /\ MaxTime \in Nat /\ ReservedTime \in 0..MaxTime
  BY PlanAssumption, BudgetAssumption

-----------------------------------------------------------------------------
(* Rows, sessions and windows.                                             *)

LEMMA LaterSymbols ==
  ASSUME NEW i \in Symbols
  PROVE  /\ i + 1 > i
         /\ \A j \in Symbols : j > i + 1 => j > i
  BY DEF Symbols

LEMMA SessionsFinite ==
  ASSUME NEW S \in SUBSET Sessions
  PROVE  IsFiniteSet(S) /\ Cardinality(S) \in Nat
<1>1. IsFiniteSet(Sessions)
  BY ConstantTypes, FS_Interval DEF Sessions
<1>2. IsFiniteSet(S)
  BY <1>1, FS_Subset
<1> QED BY <1>2, FS_CardinalityType

LEMMA FewerSessions ==
  ASSUME NEW T \in SUBSET Sessions, NEW S \in SUBSET T
  PROVE  Cardinality(S) <= Cardinality(T)
  BY SessionsFinite, FS_Subset

\* The rows a snapshot of the request's symbols brings can be counted.
LEMMA GainedIsNat ==
  ASSUME NEW scope \in SUBSET Symbols, NEW o, o.rows \in [scope -> SUBSET Sessions]
  PROVE  Gained(o) \in Nat
<1> DEFINE all == UNION {{i} \X o.rows[i] : i \in DOMAIN o.rows}
<1>1. all \in SUBSET (Symbols \X Sessions)
  OBVIOUS
<1>2. IsFiniteSet(Symbols) /\ IsFiniteSet(Sessions)
  BY ConstantTypes, FS_Interval DEF Symbols, Sessions
<1>3. IsFiniteSet(Symbols \X Sessions)
  BY <1>2, FS_Product
<1>4. IsFiniteSet(all)
  BY <1>1, <1>3, FS_Subset
<1> QED BY <1>4, FS_CardinalityType DEF Gained

\* A symbol with missing sessions has a window of some of them.
LEMMA FirstMissingExists ==
  ASSUME TypeOK, NEW i \in Symbols, Missing(i) # {}
  PROVE  FirstMissing(i) # {} /\ FirstMissing(i) \subseteq Sessions
<1>1. Missing(i) \in SUBSET Nat
  BY DEF Missing, Sessions
<1>2. PICK x \in Missing(i) : \A y \in Missing(i) : <<y, x>> \notin OpToRel(<, Nat)
  BY <1>1, NatLessThanWellFounded, WFMin
<1>a. \A y \in Missing(i) : ~(y < x)
  BY <1>1, <1>2, Zenon DEF OpToRel
<1>3. \A y \in Missing(i) : x <= y
  BY <1>1, <1>a
<1>4. Min(Missing(i)) \in Missing(i)
  BY <1>3 DEF Min
<1>5. Min(Missing(i)) \in Nat
  BY <1>1, <1>4
<1>6. Min(Missing(i))..Min(Missing(i)) = {Min(Missing(i))}
  BY <1>5
<1>7. Min(Missing(i)) \in FirstMissing(i)
  BY <1>4, <1>5, <1>6, ConstantTypes DEF FirstMissing
<1> QED BY <1>7 DEF FirstMissing, Missing

-----------------------------------------------------------------------------
(* What a snapshot may bring and spend.                                    *)

\* Rows of the sessions wanted, within what is left of each budget.
Outcome(o, scope, time) ==
  /\ o.rows \in [scope -> SUBSET Sessions] /\ o.marks \in [scope -> Marks]
  /\ \A i \in scope : Cardinality(o.rows[i] \cup observed[i]) <= MaxRows
  /\ o.failure \in Failures \cup {None} /\ o.authorized \in BOOLEAN
  /\ o.failure = "AUTH_FAILED" => ~o.authorized
  /\ o.time \in 0..time /\ o.events \in Nat /\ Gained(o) \in Nat
  /\ events + o.events <= MaxEvents /\ bytes + Gained(o) <= MaxBuffer

LEMMA OutcomesOK ==
  ASSUME TypeOK, NEW scope \in SUBSET Symbols, NEW wanted, NEW time,
         NEW o \in Outcomes(scope, wanted, time)
  PROVE  Outcome(o, scope, time)
<1>1. /\ o.rows \in [scope -> SUBSET Sessions] /\ o.marks \in [scope -> Marks]
      /\ o.failure \in Failures \cup {None} /\ o.authorized \in BOOLEAN
      /\ o.time \in 0..time /\ o.events \in 0..Remaining(MaxEvents, events)
      /\ Gained(o) <= Remaining(MaxBuffer, bytes)
      /\ \A i \in scope : Cardinality(o.rows[i] \cup observed[i]) <= MaxRows
      /\ o.failure = "AUTH_FAILED" => ~o.authorized
  BY DEF Outcomes
<1>2. Gained(o) \in Nat
  BY <1>1, GainedIsNat
<1>3. events \in Nat /\ bytes \in Nat /\ MaxEvents \in Nat /\ MaxBuffer \in Nat
  BY ConstantTypes DEF TypeOK
<1> QED BY <1>1, <1>2, <1>3 DEF Outcome, Remaining

\* Spending what a snapshot used keeps the budgets that Spend updates.
LEMMA SpendKeeps ==
  ASSUME TypeOK, Budgets, NEW scope, NEW time \in Int, time <= left, NEW o,
         Outcome(o, scope, time), Spend(o)
  PROVE  /\ left' \in Int /\ left' >= 0
         /\ events' \in Nat /\ events' <= MaxEvents
         /\ bytes' \in Nat /\ bytes' <= MaxBuffer
         /\ authorized \subseteq authorized' /\ authorized' \subseteq {0, 1}
         /\ o.authorized => round \in authorized'
<1>1. o.time \in Int /\ o.time <= left
  BY DEF Outcome, TypeOK
<1>2. left' \in Int /\ left' >= 0
  BY <1>1 DEF Spend, TypeOK
<1>3. events' \in Nat /\ events' <= MaxEvents /\ bytes' \in Nat /\ bytes' <= MaxBuffer
  BY DEF Spend, Outcome, TypeOK
<1>4. /\ authorized \subseteq authorized' /\ authorized' \subseteq {0, 1}
      /\ o.authorized => round \in authorized'
  BY DEF Spend, TypeOK
<1> QED BY <1>2, <1>3, <1>4

-----------------------------------------------------------------------------
(* One lemma per action.                                                   *)

LEMMA SkipReconnectKeeps ==
  ASSUME IInv, SkipReconnect
  PROVE  IInv'
<1>0. TypeOK /\ Budgets /\ Windows /\ Credentials
  BY DEF IInv
<1>1. TypeOK'
  BY <1>0 DEF TypeOK, SkipReconnect, budget, Open
<1>2. Budgets'
  BY <1>0 DEF Budgets, SkipReconnect, budget
<1>3. Windows'
  BY <1>0 DEF Windows, SkipReconnect
<1>4. Credentials'
  BY <1>0 DEF Credentials, StatusProved, SkipReconnect
<1> QED BY <1>1, <1>2, <1>3, <1>4 DEF IInv

\* The initial snapshot leaves the reserved time, and opens no window.
LEMMA ReadInitialKeeps ==
  ASSUME IInv, ReadInitial
  PROVE  IInv'
<1>0. TypeOK /\ Budgets /\ Windows /\ Credentials
  BY DEF IInv
<1>1. PICK o \in Outcomes(Open, [i \in Open |-> Missing(i)], InitialTime) :
        /\ observed' = [i \in Symbols |-> IF i \in Open THEN observed[i] \cup o.rows[i]
                                          ELSE observed[i]]
        /\ mark' = [i \in Symbols |-> IF i \in Open THEN o.marks[i] ELSE mark[i]]
        /\ failure' = o.failure
        /\ confirmed' = o.authorized
        /\ Spend(o)
        /\ interrupted' = (o.failure = "AUTH_FAILED")
        /\ IF o.failure = "AUTH_FAILED"
           THEN Refused(failed, {i \in Open : o.marks[i] = "open"})
           ELSE step' = "scan" /\ UNCHANGED <<failed, status>>
  BY DEF ReadInitial
<1>2. Open \in SUBSET Symbols
  BY DEF Open
<1>3. Outcome(o, Open, InitialTime)
  BY <1>0, <1>2, OutcomesOK
<1>4. InitialTime \in Int /\ InitialTime <= left
  BY <1>0, ConstantTypes DEF InitialTime, TypeOK
<1>5. /\ left' \in Int /\ left' >= 0
      /\ events' \in Nat /\ events' <= MaxEvents
      /\ bytes' \in Nat /\ bytes' <= MaxBuffer
      /\ authorized \subseteq authorized' /\ authorized' \subseteq {0, 1}
      /\ o.authorized => round \in authorized'
  BY <1>0, <1>1, <1>3, <1>4, SpendKeeps
<1>6. /\ step = "initial" /\ step' \in {"scan", "refresh", "done"}
      /\ UNCHANGED <<round, attempts, at, window, windows>>
      /\ step' = "refresh" => o.failure = "AUTH_FAILED" /\ interrupted'
      /\ failed' \subseteq Symbols
      /\ status' = status \/ status' = "FAILED"
  BY <1>0, <1>1, <1>2 DEF ReadInitial, Refused, TypeOK
<1>7. observed' \in [Symbols -> SUBSET Sessions] /\ mark' \in [Symbols -> Marks]
  BY <1>0, <1>1, <1>2, <1>3 DEF Outcome, TypeOK
<1>8. TypeOK'
  <2>1. failure' \in Failures \cup {None} /\ confirmed' \in BOOLEAN
        /\ interrupted' \in BOOLEAN
    BY <1>1, <1>3 DEF Outcome
  <2> QED BY <1>0, <1>5, <1>6, <1>7, <2>1 DEF TypeOK
<1>9. Budgets'
  <2>1. ASSUME NEW i \in Symbols PROVE Cardinality(observed'[i]) <= MaxRows
    <3>1. CASE i \in Open
      <4>1. observed'[i] = o.rows[i] \cup observed[i]
        BY <1>1, <3>1
      <4> QED BY <1>3, <3>1, <4>1 DEF Outcome
    <3>2. CASE i \notin Open
      BY <1>0, <1>1, <3>2 DEF Budgets
    <3> QED BY <3>1, <3>2
  <2> QED BY <1>0, <1>5, <1>6, <2>1 DEF Budgets
<1>10. Windows'
  BY <1>0, <1>6 DEF Windows
<1>11. Credentials'
  BY <1>0, <1>1, <1>3, <1>5, <1>6 DEF Credentials, StatusProved, Outcome
<1> QED BY <1>8, <1>9, <1>10, <1>11 DEF IInv

\* The loop moves on to a symbol that has had no window.
LEMMA SkipKeeps ==
  ASSUME IInv, Skip
  PROVE  IInv'
<1>0. TypeOK /\ Budgets /\ Windows /\ Credentials
  BY DEF IInv
<1>1. TypeOK'
  BY <1>0, ConstantTypes DEF TypeOK, Skip, budget, Symbols
<1>2. Budgets'
  BY <1>0 DEF Budgets, Skip, budget
<1>3. Windows'
  <2>1. /\ step = "scan" /\ at \in Symbols /\ UNCHANGED <<step, windows>>
        /\ window' = {} /\ at' = at + 1
    BY DEF Skip
  <2> QED BY <1>0, <2>1, LaterSymbols DEF Windows
<1>4. Credentials'
  BY <1>0 DEF Credentials, StatusProved, Skip
<1> QED BY <1>1, <1>2, <1>3, <1>4 DEF IInv

\* A symbol without a window in hand gets its first, another one the same again.
LEMMA OpenWindowKeeps ==
  ASSUME IInv, OpenWindow
  PROVE  IInv'
<1>0. TypeOK /\ Budgets /\ Windows /\ Credentials
  BY DEF IInv
<1>1. at \in Symbols /\ step = "scan"
  BY DEF OpenWindow
<1>2. window' # {} /\ window' \in SUBSET Sessions /\ windows'[at] = {window'}
  <2>1. windows'[at] = windows[at] \cup {window'}
    BY <1>0, <1>1 DEF OpenWindow, TypeOK
  <2>2. CASE Resuming
    <3>1. window' = window /\ window # {}
      BY <2>2 DEF OpenWindow, NextWindow, Resuming
    <3> QED BY <1>0, <2>1, <3>1 DEF Windows, TypeOK
  <2>3. CASE ~Resuming
    <3>1. Missing(at) # {}
      BY <1>1, <2>3 DEF OpenWindow, Unrecoverable
    <3>2. window' = FirstMissing(at)
      BY <2>3 DEF OpenWindow, NextWindow
    <3>3. windows[at] = {}
      BY <1>0, <1>1, <2>3 DEF Windows, Resuming
    <3> QED BY <1>0, <1>1, <2>1, <3>1, <3>2, <3>3, FirstMissingExists
  <2> QED BY <2>2, <2>3
<1>3. windows' = [windows EXCEPT ![at] = {window'}]
  BY <1>0, <1>1, <1>2 DEF OpenWindow
<1>4. attempts < MaxAttempts
  BY <1>0, <1>1, ConstantTypes DEF OpenWindow, OutOfBudget, TypeOK
<1>5. TypeOK'
  BY <1>0, <1>1, <1>2, <1>3 DEF TypeOK, OpenWindow, budget
<1>6. Budgets'
  BY <1>0, <1>4, ConstantTypes DEF Budgets, OpenWindow, budget, TypeOK
<1>7. Windows'
  BY <1>0, <1>1, <1>2, <1>3 DEF Windows, OpenWindow, TypeOK
<1>8. Credentials'
  BY <1>0 DEF Credentials, StatusProved, OpenWindow
<1> QED BY <1>5, <1>6, <1>7, <1>8 DEF IInv

\* A window that is refused stays in hand, any other one is done with.
LEMMA ReadWindowKeeps ==
  ASSUME IInv, ReadWindow
  PROVE  IInv'
<1>0. TypeOK /\ Budgets /\ Windows /\ Credentials
  BY DEF IInv
<1> DEFINE wanted == [i \in {at} |-> window \ observed[i]]
<1>1. PICK o \in Outcomes({at}, wanted, left) : \E taken \in SUBSET o.rows[at] :
        LET mismatch == IF taken = {} THEN failed ELSE failed \cup {at}
        IN  /\ observed' = [observed EXCEPT ![at] = @ \cup (o.rows[at] \ taken)]
            /\ Spend(o)
            /\ confirmed' = ConfirmedAfter(o)
            /\ IF o.failure = "AUTH_FAILED"
               THEN Refused(mismatch, {at}) /\ UNCHANGED <<at, window>>
               ELSE /\ failed' = IF o.failure # None \/ o.marks[at] # "complete"
                                 THEN mismatch \cup {at} ELSE mismatch
                    /\ at' = at + 1 /\ window' = {} /\ step' = "scan"
                    /\ UNCHANGED status
  BY DEF ReadWindow
<1>2. PICK taken \in SUBSET o.rows[at] :
        /\ observed' = [observed EXCEPT ![at] = @ \cup (o.rows[at] \ taken)]
        /\ IF o.failure = "AUTH_FAILED"
           THEN /\ Refused(IF taken = {} THEN failed ELSE failed \cup {at}, {at})
                /\ UNCHANGED <<at, window>>
           ELSE /\ failed' \in {failed, failed \cup {at}}
                /\ at' = at + 1 /\ window' = {} /\ step' = "scan"
                /\ UNCHANGED status
  BY <1>1
<1>3. step = "window" /\ window # {} /\ at \in Symbols
  BY <1>0 DEF ReadWindow, Windows
<1>4. Spend(o) /\ confirmed' = ConfirmedAfter(o)
  BY <1>1
<1>5. Outcome(o, {at}, left)
  BY <1>0, <1>3, OutcomesOK
<1>6. /\ left' \in Int /\ left' >= 0
      /\ events' \in Nat /\ events' <= MaxEvents
      /\ bytes' \in Nat /\ bytes' <= MaxBuffer
      /\ authorized \subseteq authorized' /\ authorized' \subseteq {0, 1}
      /\ o.authorized => round \in authorized'
  <2>1. left \in Int
    BY <1>0 DEF TypeOK
  <2> QED BY <1>0, <1>4, <1>5, <2>1, SpendKeeps
<1>7. UNCHANGED <<round, mark, failure, attempts, windows, interrupted>>
  BY DEF ReadWindow
<1>8. \/ /\ step' \in {"refresh", "done"} /\ o.failure = "AUTH_FAILED"
         /\ UNCHANGED <<at, window>>
         /\ status' = status \/ status' = "FAILED"
      \/ /\ at' = at + 1 /\ window' = {} /\ step' = "scan"
         /\ UNCHANGED status
  BY <1>2 DEF Refused
<1>9. failed' \subseteq Symbols
  BY <1>0, <1>2, <1>3 DEF Refused, TypeOK
<1>10. /\ o.rows[at] \in SUBSET Sessions
       /\ Cardinality(o.rows[at] \cup observed[at]) <= MaxRows
  BY <1>3, <1>5 DEF Outcome
<1>11. /\ observed' \in [Symbols -> SUBSET Sessions]
       /\ Cardinality(observed'[at]) <= MaxRows
       /\ \A i \in Symbols : i # at => observed'[i] = observed[i]
  <2>1. observed'[at] \in SUBSET (o.rows[at] \cup observed[at])
    BY <1>0, <1>2, <1>3
  <2>2. o.rows[at] \cup observed[at] \in SUBSET Sessions
    BY <1>0, <1>3, <1>10 DEF TypeOK
  <2>3. Cardinality(observed'[at]) <= Cardinality(o.rows[at] \cup observed[at])
    BY <2>1, <2>2, FewerSessions
  <2>4. /\ Cardinality(observed'[at]) \in Nat
        /\ Cardinality(o.rows[at] \cup observed[at]) \in Nat
    BY <2>1, <2>2, SessionsFinite
  <2> QED BY <1>0, <1>2, <1>3, <1>10, <2>3, <2>4, ConstantTypes DEF TypeOK
<1>12. TypeOK'
  <2>1. confirmed' \in BOOLEAN
    BY <1>4 DEF ConfirmedAfter
  <2>2. at' \in 1..NumSymbols + 1
    BY <1>0, <1>3, <1>8, ConstantTypes DEF Symbols
  <2>3. window' \subseteq Sessions /\ step' \in {"scan", "refresh", "done"}
        /\ status' \in {"CONFIRMED", "REFRESHED", "FAILED", "NOT_CONFIRMED", None}
    BY <1>0, <1>8 DEF TypeOK
  <2> QED BY <1>0, <1>6, <1>7, <1>9, <1>11, <2>1, <2>2, <2>3 DEF TypeOK
<1>13. Budgets'
  BY <1>0, <1>6, <1>7, <1>11 DEF Budgets
<1>14. Windows'
  <2>1. CASE step' \in {"refresh", "done"} /\ UNCHANGED <<at, window>>
    BY <1>0, <1>3, <1>7, <2>1 DEF Windows
  <2>2. CASE at' = at + 1 /\ window' = {} /\ step' = "scan"
    BY <1>0, <1>3, <1>7, <2>2, LaterSymbols DEF Windows
  <2> QED BY <1>8, <2>1, <2>2
<1>15. Credentials'
  <2>1. step' = "refresh" => ~confirmed'
    BY <1>4, <1>8 DEF ConfirmedAfter
  <2>2. confirmed' => round' \in authorized'
    BY <1>0, <1>4, <1>6, <1>7 DEF ConfirmedAfter, Credentials
  <2>3. StatusProved'
    BY <1>0, <1>6, <1>8 DEF Credentials, StatusProved
  <2> QED BY <2>1, <2>2, <2>3 DEF Credentials
<1> QED BY <1>12, <1>13, <1>14, <1>15 DEF IInv

\* The status is that of a round whose credentials are confirmed.
LEMMA ReturnKeeps ==
  ASSUME IInv, Return
  PROVE  IInv'
<1>0. TypeOK /\ Budgets /\ Windows /\ Credentials
  BY DEF IInv
<1>1. TypeOK'
  BY <1>0 DEF TypeOK, Return, budget, recovery
<1>2. Budgets'
  BY <1>0 DEF Budgets, Return, budget, recovery
<1>3. Windows'
  BY <1>0 DEF Windows, Return, recovery
<1>4. Credentials'
  BY <1>0 DEF Credentials, StatusProved, Return, TypeOK
<1> QED BY <1>1, <1>2, <1>3, <1>4 DEF IInv

\* Nothing is confirmed while the credentials are replaced.
LEMMA RefreshKeeps ==
  ASSUME IInv, Refresh
  PROVE  IInv'
<1>0. TypeOK /\ Budgets /\ Windows /\ Credentials
  BY DEF IInv
<1>1. PICK time \in 0..left : left' = left - time
  BY DEF Refresh
<1>2. left' \in Int /\ left' >= 0
  BY <1>0, <1>1 DEF TypeOK
<1>3. TypeOK'
  BY <1>0, <1>2 DEF TypeOK, Refresh, ResumeIndex
<1>4. Budgets'
  BY <1>0, <1>2 DEF Budgets, Refresh
<1>5. Windows'
  BY <1>0 DEF Windows, Refresh, ResumeIndex
<1>6. Credentials'
  BY <1>0 DEF Credentials, StatusProved, Refresh
<1> QED BY <1>3, <1>4, <1>5, <1>6 DEF IInv

LEMMA RefreshFailsKeeps ==
  ASSUME IInv, RefreshFails
  PROVE  IInv'
<1>0. TypeOK /\ Budgets /\ Windows /\ Credentials
  BY DEF IInv
<1>1. left' \in {0, left} /\ failure' \in {"SNAPSHOT_TIMEOUT", failure}
  BY DEF RefreshFails
<1>2. TypeOK'
  <2>1. failed' \subseteq Symbols
    <3>1. interrupted \/ at \in Symbols
      BY <1>0 DEF RefreshFails, Windows
    <3> QED BY <1>0, <3>1 DEF TypeOK, RefreshFails, Open
  <2> QED BY <1>0, <1>1, <2>1 DEF TypeOK, RefreshFails, Failures
<1>3. Budgets'
  BY <1>0, <1>1 DEF Budgets, RefreshFails
<1>4. Windows'
  BY <1>0 DEF Windows, RefreshFails
<1>5. Credentials'
  BY <1>0 DEF Credentials, StatusProved, RefreshFails
<1> QED BY <1>2, <1>3, <1>4, <1>5 DEF IInv

-----------------------------------------------------------------------------
(* The theorems.                                                           *)

LEMMA InitEstablishes == Init => IInv
<1> SUFFICES ASSUME Init PROVE IInv
  OBVIOUS
<1>1. TypeOK
  <2>1. /\ left \in Int /\ at \in 1..NumSymbols + 1
        /\ events \in Nat /\ bytes \in Nat /\ attempts \in Nat
    BY ConstantTypes DEF Init
  <2>2. /\ observed \in [Symbols -> SUBSET Sessions]
        /\ mark \in [Symbols -> Marks]
        /\ windows \in [Symbols -> SUBSET SUBSET Sessions]
    BY DEF Init, Marks
  <2> QED BY <2>1, <2>2 DEF Init, TypeOK
<1>2. Budgets
  <2>1. Cardinality({}) = 0
    BY FS_EmptySet
  <2> QED BY <2>1, ConstantTypes DEF Init, Budgets
<1>3. Windows /\ Credentials
  BY NoneAssumption DEF Init, Windows, Credentials, StatusProved
<1> QED BY <1>1, <1>2, <1>3 DEF IInv

LEMMA NextKeeps == IInv /\ [Next]_vars => IInv'
<1>1. IInv /\ Next => IInv'
  BY ReadInitialKeeps, SkipReconnectKeeps, SkipKeeps, OpenWindowKeeps,
     ReadWindowKeeps, ReturnKeeps, RefreshKeeps, RefreshFailsKeeps DEF Next
<1>2. IInv /\ UNCHANGED vars => IInv'
  <2> SUFFICES ASSUME IInv, UNCHANGED vars PROVE IInv'
    OBVIOUS
  <2>1. UNCHANGED <<step, round, left, events, bytes, observed, mark, failure, confirmed,
                    attempts, at, window, failed, windows, interrupted, status,
                    authorized>>
    BY DEF vars, budget, recovery
  <2>2. TypeOK'
    BY <2>1 DEF IInv, TypeOK
  <2>3. Budgets' /\ Windows' /\ Credentials'
    BY <2>1 DEF IInv, Budgets, Windows, Credentials, StatusProved
  <2> QED BY <2>2, <2>3 DEF IInv
<1> QED BY <1>1, <1>2

LEMMA Invariance == Spec => []IInv
  BY InitEstablishes, NextKeeps, PTL DEF Spec

\* Every variable keeps to its type, for any batch, calendar and budgets.
THEOREM TypeCorrect == Spec => []TypeOK
<1>1. IInv => TypeOK
  BY DEF IInv
<1> QED BY <1>1, Invariance, PTL

\* getHistoricalCandlesBatch: the initial snapshot, its reconnect, the token
\* refresh and all windows together stay within the deadline, the events, the
\* bytes and the rows of the request, and no symbol gets a second window.
THEOREM BudgetsShared == Spec => []SharedBudgets
<1>1. ASSUME IInv PROVE SharedBudgets
  <2>1. \A i \in Symbols : Cardinality(windows[i]) <= 1
    <3>1. SUFFICES ASSUME NEW i \in Symbols PROVE Cardinality(windows[i]) <= 1
      OBVIOUS
    <3>2. CASE windows[i] = {}
      BY <3>2, FS_EmptySet
    <3>3. CASE \E w : windows[i] = {w}
      <4>1. PICK w : windows[i] = {w}
        BY <3>3
      <4>2. Cardinality({w}) = 1
        BY FS_Singleton
      <4> QED BY <4>1, <4>2
    <3> QED BY <1>1, <3>2, <3>3 DEF IInv, Windows
  <2> QED BY <1>1, <2>1 DEF IInv, Budgets, SharedBudgets
<1> QED BY <1>1, Invariance, PTL

\* dxlink_auth.status: a result that says CONFIRMED or REFRESHED had a snapshot
\* that the provider authorized in that round.
THEOREM StatusIsProved == Spec => []StatusProved
<1>1. IInv => StatusProved
  BY DEF IInv, Credentials
<1> QED BY <1>1, Invariance, PTL

=============================================================================
