------------------------- MODULE EvidenceCacheProofs -------------------------
(***************************************************************************)
(* For every set of callers, every set of contexts and every TTL: the      *)
(* cache's index only ever holds replayable revisions (IndexReplays),      *)
(* calls of one mode share one provider call that is counted once          *)
(* (FlightsShared), and valid evidence is preferred (PrefersValid).        *)
(*                                                                         *)
(* IInv strengthens the three: where a call has got to says what it may    *)
(* hold (Control), every valid manifest is a revision in the index         *)
(* (Revisions), a flight and the call that owns it name each other         *)
(* (FlightsOwned), the request lock is queued for by the calls that write  *)
(* (Queued), and the metrics add up over the calls that own a provider     *)
(* call (Metered).  There is one lemma per action; Alone and the Frame     *)
(* lemmas carry over what concerns the other calls, and Throwing,          *)
(* Settling and Returning are the three ways in which several actions end. *)
(***************************************************************************)
EXTENDS EvidenceCache, FiniteSetTheorems, TLAPS

Early == {"lookup", "stat", "read", "expire", "join", "await", "check"}
Writing == {"lock", "drop", "verify"}
\* The provider's n-th answer was complete.
Complete(n) == n \in DOMAIN answers /\ answers[n] = "complete"

\* Before its provider call a call has nothing; while it writes it has its work,
\* and a copy in its own context already the status that it will report.
ControlOf(c) ==
  /\ pc[c] # "idle" => call[c] \in Calls
  /\ pc[c] \in Early \cup {"idle"} => via[c] = None
  /\ pc[c] \in Early \cup {"asking"} => got[c] = None
  /\ pc[c] \in {"context", "drop", "verify"} => got[c] # None
  /\ pc[c] \in {"idle", "drop", "verify"} /\ got[c] # None =>
       got[c].ctx = call[c].ctx
  /\ pc[c] \in Writing => work[c] \in Works /\ work[c].kind \in EvidenceKinds
  /\ pc[c] = "record" => work[c] \in Works /\ work[c].fetched
  /\ pc[c] \in Writing /\ ~work[c].fetched =>
       status[c] \in IF via[c] = "owner" THEN Fetched
                     ELSE {"HIT", "RETRYABLE_FAILURE_HIT"}
  /\ got[c] # None => got[c].kind \in EvidenceKinds
Control == \A c \in Callers : ControlOf(c)

\* Only complete answers are stored as valid, by whichever call.
Revisions ==
  /\ \A i \in DOMAIN index : index[i].kind = "valid" /\ index[i].revision = i
  /\ \A m \in manifests : m.kind = "valid" =>
       Complete(m.data) /\ \E i \in DOMAIN index : index[i] = m
  /\ \A c \in Callers : work[c] # None =>
       /\ work[c].kind = "valid" => Complete(work[c].data)
       /\ work[c].kind \notin RetryKinds => work[c].until = None

\* inFlight and the calls that fetch name each other, so there is at most one
\* fetching call per mode; it settles its flight when it comes to land.
FlightsOwned ==
  /\ \A m \in Modes : flight[m] # None =>
       /\ Fetching(flight[m].owner) /\ Mode(flight[m].owner) = m
       /\ flight[m].outcome = Pending <=> pc[flight[m].owner] # "land"
       /\ flight[m].outcome \notin {Pending, Failed} =>
            flight[m].outcome.kind \in EvidenceKinds
  /\ \A c \in Callers : Fetching(c) =>
       flight[Mode(c)] # None /\ flight[Mode(c)].owner = c
  /\ \A c \in Callers : pc[c] = "await" =>
       flight[Mode(c)] # None /\ flight[Mode(c)].outcome = Pending

\* A READ_WRITE call that began with valid evidence finds it in its lookup, so
\* it never reaches the failure pointer or the provider.
PreferringOf(c) ==
  call[c] # None /\ Mode(c) = "READ_WRITE" /\ call[c].hadValid =>
    /\ index # <<>>
    /\ pc[c] \in {"idle", "lookup", "context"} \cup Writing
    /\ status[c] \in {None, "HIT", "ERROR"} /\ via[c] \in {None, "cache"}
    /\ pc[c] = "context" => got[c].kind = "valid"
    /\ pc[c] \in Writing => ~work[c].fetched /\ status[c] = "HIT"
Preferring == \A c \in Callers : PreferringOf(c)

\* The request lock: FlightsShared's conjuncts about requestTails.
Queued ==
  /\ IsInjective(requestQueue)
  /\ ToSet(requestQueue) = {c \in Callers : pc[c] \in Writing}
  /\ \A c \in Callers : pc[c] \in {"drop", "verify"} => HoldsLock(c)

\* The calls under way that own a provider call, and the sums over the metrics.
Owning == {c \in Callers : pc[c] # "idle" /\ via[c] = "owner"}
Metered ==
  /\ metrics["calls"] =
       metrics["MISS"] + metrics["REFRESH"] + metrics["RETRYABLE_FAILURE"]
       + metrics["lost"] + Cardinality(Owning)
  /\ metrics["avoided"] =
       metrics["HIT"] + metrics["RETRYABLE_FAILURE_HIT"]
       + metrics["CACHE_ONLY_HIT"]

IInv ==
  TypeOK /\ Control /\ Revisions /\ FlightsOwned /\ Preferring /\ Queued
  /\ Metered

-----------------------------------------------------------------------------
\* None, Pending and Failed are not manifests.
LEMMA Apart ==
  /\ None \notin Manifests /\ None \notin Flights /\ None \notin Nat
  /\ None \notin Sources /\ None \notin Calls /\ None \notin Works
  /\ None \notin Errors /\ None \notin Hits
  /\ Pending \notin Manifests /\ Failed \notin Manifests /\ Pending # Failed
BY NoneAssumption DEF Manifests, Pending, Failed

LEMMA LastIsElement ==
  ASSUME NEW S, NEW s \in Seq(S), s # <<>>
  PROVE  Last(s) \in S /\ Len(s) \in DOMAIN s /\ Last(s) = s[Len(s)]
BY DEF Last

LEMMA SeqGrows ==
  ASSUME NEW S, NEW T, S \subseteq T, NEW s \in Seq(S)
  PROVE  s \in Seq(T)
OBVIOUS

LEMMA Counting ==
  ASSUME TypeOK, NEW S, Count(S)
  PROVE  /\ metrics' \in [Counters -> Nat]
         /\ \A k \in Counters :
              metrics'[k] = metrics[k] + (IF k \in S THEN 1 ELSE 0)
BY DEF TypeOK, Count

\* Counting for the counters that Metered adds up.
LEMMA CountingNames ==
  ASSUME TypeOK, NEW S, Count(S)
  PROVE  \A k \in {"calls", "MISS", "REFRESH", "RETRYABLE_FAILURE", "lost",
                   "avoided", "HIT", "RETRYABLE_FAILURE_HIT", "CACHE_ONLY_HIT"} :
           /\ metrics[k] \in Nat
           /\ k \in S => metrics'[k] = metrics[k] + 1
           /\ k \notin S => metrics'[k] = metrics[k]
<1>1. {"calls", "MISS", "REFRESH", "RETRYABLE_FAILURE", "lost", "avoided", "HIT",
       "RETRYABLE_FAILURE_HIT", "CACHE_ONLY_HIT"} \subseteq Counters
  BY DEF Counters, Hits, Fetched
<1>2. \A k \in Counters : metrics[k] \in Nat
  BY DEF TypeOK
<1> QED
  BY <1>1, <1>2, Counting

LEMMA OwningFinite == IsFiniteSet(Owning)
BY BoundAssumption, FS_Subset DEF Owning

LEMMA MeteredSame ==
  ASSUME Metered, metrics' = metrics, Owning' = Owning
  PROVE  Metered'
BY DEF Metered

\* A provider call is counted when it begins, and once more when its owner ends.
LEMMA MeteredAsk ==
  ASSUME TypeOK, Metered, NEW c \in Callers, c \notin Owning,
         Owning' = Owning \cup {c}, Count({"calls"})
  PROVE  Metered'
<1>1. Cardinality(Owning') = Cardinality(Owning) + 1
  BY OwningFinite, FS_AddElement
<1>2. Cardinality(Owning) \in Nat
  BY OwningFinite, FS_CardinalityType
<1> QED
  BY <1>1, <1>2, CountingNames DEF Metered

LEMMA MeteredEnd ==
  ASSUME TypeOK, Metered, NEW c \in Callers, pc[c] # "idle",
         Owning' = Owning \ {c}, NEW k \in Fetched \cup {"lost"} \cup Hits,
         via[c] = "owner" <=> k \in Fetched \cup {"lost"},
         Count({k} \cup (IF k \in Hits THEN {"avoided"} ELSE {}))
  PROVE  Metered'
<1>2. Cardinality(Owning) \in Nat
  BY OwningFinite, FS_CardinalityType
<1>1. CASE k \in Hits
  <2>1. Owning' = Owning
    BY <1>1 DEF Owning, Hits, Fetched
  <2> QED
    <3>1. Count({k, "avoided"})
      BY <1>1
    <3>2. \A n \in {"calls", "MISS", "REFRESH", "RETRYABLE_FAILURE", "lost"} :
             metrics'[n] = metrics[n]
      BY <3>1, <1>1, CountingNames DEF Hits
    <3>3. metrics'["avoided"] = metrics["avoided"] + 1
      BY <3>1, CountingNames
    <3>4. \A n \in Hits :
             metrics[n] \in Nat /\ metrics'[n] = metrics[n] + (IF n = k THEN 1 ELSE 0)
      BY <3>1, CountingNames DEF Hits
    <3>5. metrics["avoided"]' =
            metrics'["HIT"] + metrics'["RETRYABLE_FAILURE_HIT"]
            + metrics'["CACHE_ONLY_HIT"]
      BY <1>1, <3>3, <3>4 DEF Metered, Hits
    <3> QED
      BY <2>1, <3>2, <3>5 DEF Metered
<1>3. CASE k \notin Hits
  <2>1. c \in Owning
    BY <1>3 DEF Owning
  <2>2. Cardinality(Owning') = Cardinality(Owning) - 1
    BY <2>1, OwningFinite, FS_RemoveElement
  <2>4. Count({k})
    BY <1>3
  <2>5. Cardinality(Owning') \in Nat
    BY OwningFinite, FS_CardinalityType, FS_RemoveElement
  <2> QED
    BY <2>2, <2>4, <2>5, <1>3, <1>2, CountingNames DEF Metered, Fetched
<1> QED
  BY <1>1, <1>3

LEMMA MeteredThrow ==
  ASSUME TypeOK, Metered, NEW c \in Callers, pc[c] # "idle",
         Owning' = Owning \ {c},
         Count(IF via[c] = "owner" THEN {"lost"} ELSE {})
  PROVE  Metered'
<1>1. CASE via[c] = "owner"
  <2>1. "lost" \notin Hits /\ Count({"lost"} \cup {})
    BY <1>1 DEF Hits
  <2> QED
    BY <2>1, <1>1, MeteredEnd
<1>2. CASE via[c] # "owner"
  <2>1. Owning' = Owning
    BY <1>2 DEF Owning
  <2>2. metrics' = metrics
    BY <1>2 DEF Count, TypeOK
  <2> QED
    BY <2>1, <2>2, MeteredSame
<1> QED
  BY <1>1, <1>2

-----------------------------------------------------------------------------
LEMMA QueuedSame ==
  ASSUME Queued, NEW c \in Callers, requestQueue' = requestQueue,
         \A d \in Callers : pc'[d] \in Writing <=> pc[d] \in Writing,
         \A d \in Callers : pc'[d] \in {"drop", "verify"} =>
           pc[d] \in {"drop", "verify"} \/ HoldsLock(d)
  PROVE  Queued'
BY DEF Queued, HoldsLock

LEMMA QueuedMore ==
  ASSUME TypeOK, Queued, NEW c \in Callers, pc[c] \notin Writing,
         requestQueue' = Append(requestQueue, c), pc'[c] = "lock",
         \A d \in Callers \ {c} : pc'[d] = pc[d]
  PROVE  Queued'
<1>1. requestQueue \in Seq(Callers)
  BY DEF TypeOK
<1>2. \A i \in DOMAIN requestQueue : requestQueue[i] # c
  BY <1>1 DEF Queued, ToSet
<1>3. IsInjective(requestQueue')
  BY <1>1, <1>2 DEF Queued, IsInjective
<1>4. ToSet(requestQueue') = ToSet(requestQueue) \cup {c}
  BY <1>1 DEF ToSet
<1>5. ToSet(requestQueue') = {d \in Callers : pc'[d] \in Writing}
  BY <1>4 DEF Queued, Writing
<1>6. \A d \in Callers : pc'[d] \in {"drop", "verify"} => HoldsLock(d)'
  BY <1>1 DEF Queued, HoldsLock
<1> QED
  BY <1>3, <1>5, <1>6 DEF Queued

LEMMA QueuedLess ==
  ASSUME TypeOK, Queued, NEW c \in Callers, HoldsLock(c),
         requestQueue' = Tail(requestQueue), pc'[c] \notin Writing,
         \A d \in Callers \ {c} : pc'[d] \in Writing <=> pc[d] \in Writing,
         \A d \in Callers \ {c} : pc'[d] \in {"drop", "verify"} =>
           pc[d] \in {"drop", "verify"}
  PROVE  Queued'
<1>1. requestQueue \in Seq(Callers) /\ requestQueue # <<>> /\ requestQueue[1] = c
  BY DEF TypeOK, HoldsLock
<1>2. \A i \in 2..Len(requestQueue) : requestQueue[i] # c
  BY <1>1 DEF Queued, IsInjective
<1>3. IsInjective(requestQueue')
  BY <1>1 DEF Queued, IsInjective
<1>4. ToSet(requestQueue') = ToSet(requestQueue) \ {c}
  <2>1. DOMAIN requestQueue' = 1..(Len(requestQueue) - 1)
        /\ \A i \in DOMAIN requestQueue' : requestQueue'[i] = requestQueue[i + 1]
    BY <1>1
  <2>2. DOMAIN requestQueue = 1..Len(requestQueue)
    BY <1>1
  <2>3. \A x \in ToSet(requestQueue') : x \in ToSet(requestQueue) /\ x # c
    BY <1>2, <2>1, <2>2 DEF ToSet
  <2>4. ASSUME NEW x \in ToSet(requestQueue), x # c
        PROVE  x \in ToSet(requestQueue')
    <3>1. PICK i \in DOMAIN requestQueue : requestQueue[i] = x
      BY <2>4 DEF ToSet
    <3>2. i - 1 \in DOMAIN requestQueue' /\ requestQueue'[i - 1] = x
      BY <1>1, <2>1, <2>2, <2>4, <3>1
    <3> QED
      BY <3>2 DEF ToSet
  <2> QED
    BY <2>3, <2>4
<1>5. ToSet(requestQueue') = {d \in Callers : pc'[d] \in Writing}
  BY <1>4 DEF Queued
<1>6. \A d \in Callers : pc'[d] \notin {"drop", "verify"}
  BY <1>1 DEF Queued, HoldsLock, Writing
<1> QED
  BY <1>3, <1>5, <1>6 DEF Queued

-----------------------------------------------------------------------------
\* A step that leaves every other call where it is.
Alone(c) ==
  \A d \in Callers \ {c} :
    /\ pc'[d] = pc[d] /\ call'[d] = call[d] /\ via'[d] = via[d]
    /\ got'[d] = got[d] /\ work'[d] = work[d] /\ status'[d] = status[d]

LEMMA ControlFrame ==
  ASSUME Control, NEW c \in Callers, Alone(c), ControlOf(c)'
  PROVE  Control'
BY DEF Control, ControlOf, Alone

LEMMA PreferringFrame ==
  ASSUME Preferring, NEW c \in Callers, Alone(c), PreferringOf(c)',
         index # <<>> => index' # <<>>
  PROVE  Preferring'
BY DEF Preferring, PreferringOf, Alone, Mode

LEMMA FlightsFrame ==
  ASSUME TypeOK, FlightsOwned, NEW c \in Callers, Alone(c), flight' = flight,
         Fetching(c)' <=> Fetching(c), pc'[c] # "await",
         Fetching(c) => Mode(c)' = Mode(c) /\ (pc'[c] = "land" <=> pc[c] = "land")
  PROVE  FlightsOwned'
<1>1. \A d \in Callers :
         /\ Fetching(d)' <=> Fetching(d)
         /\ Fetching(d) => Mode(d)' = Mode(d) /\ (pc'[d] = "land" <=> pc[d] = "land")
         /\ pc'[d] = "await" => pc[d] = "await" /\ Mode(d)' = Mode(d)
  BY DEF Alone, Fetching, Mode
<1>2. \A m \in Modes : flight[m] # None => flight[m].owner \in Callers
  BY DEF TypeOK, Flights
<1> QED
  BY <1>1, <1>2 DEF FlightsOwned

LEMMA RevisionsFrame ==
  ASSUME Revisions, NEW c \in Callers, Alone(c), UNCHANGED <<manifests, index, answers>>,
         work'[c] \in {work[c], None}
  PROVE  Revisions'
BY DEF Revisions, Alone, Complete

-----------------------------------------------------------------------------
LEMMA InitEstablishes == Init => IInv
<1> SUFFICES ASSUME Init PROVE IInv
  OBVIOUS
<1>1. TypeOK
  BY BoundAssumption DEF Init, TypeOK, States
<1>2. Control /\ Revisions /\ FlightsOwned /\ Preferring
  BY DEF Init, Control, ControlOf, Revisions, FlightsOwned, Preferring,
     PreferringOf, Fetching, Writing
<1>3. Queued
  BY DEF Init, Queued, IsInjective, ToSet, Writing
<1>4. Metered
  <2>1. Owning = {}
    BY DEF Init, Owning
  <2> QED
    BY <2>1, FS_EmptySet DEF Init, Metered, Counters, Hits, Fetched
<1> QED
  BY <1>1, <1>2, <1>3, <1>4 DEF IInv

LEMMA StuttersKeep == ASSUME IInv, UNCHANGED vars PROVE IInv'
<1> USE DEF vars, store, caller
<1>1. TypeOK' /\ Control' /\ Revisions' /\ FlightsOwned' /\ Preferring'
  BY DEF IInv, TypeOK, Control, ControlOf, Revisions, FlightsOwned, Preferring,
     PreferringOf, Fetching, Mode, Complete
<1>2. Queued' /\ Metered'
  BY DEF IInv, Queued, Metered, HoldsLock, Owning
<1> QED
  BY <1>1, <1>2 DEF IInv

LEMMA TickKeeps == ASSUME IInv, Tick PROVE IInv'
<1> USE DEF Tick, store, caller
<1>1. TypeOK' /\ Control' /\ Revisions' /\ FlightsOwned' /\ Preferring'
  BY BoundAssumption DEF IInv, TypeOK, Control, ControlOf, Revisions,
     FlightsOwned, Preferring, PreferringOf, Fetching, Mode, Complete
<1>2. Queued' /\ Metered'
  BY DEF IInv, Queued, Metered, HoldsLock, Owning
<1> QED
  BY <1>1, <1>2 DEF IInv

LEMMA CacheOnlyKeeps == ASSUME IInv, NEW c \in Callers, CacheOnly(c) PROVE IInv'
<1> USE DEF CacheOnly, store, caller
<1>0. PICK ids, ctx : Count(IF Replayable(ids, ctx) THEN {"CACHE_ONLY_HIT", "avoided"} ELSE {})
  OBVIOUS
<1>1. TypeOK'
  BY <1>0, Counting, BoundAssumption DEF IInv, TypeOK
<1>2. Control' /\ Revisions' /\ FlightsOwned' /\ Preferring'
  BY DEF IInv, Control, ControlOf, Revisions, FlightsOwned, Preferring,
     PreferringOf, Fetching, Mode, Complete
<1>3. Queued'
  BY DEF IInv, Queued, HoldsLock
<1>4. Metered'
  <2>1. Owning' = Owning
    BY DEF Owning
  <2>2. CASE Count({"CACHE_ONLY_HIT", "avoided"})
    BY <2>1, <2>2, CountingNames DEF IInv, Metered
  <2>3. CASE Count({})
    BY <2>1, <2>3, CountingNames DEF IInv, Metered
  <2> QED
    BY <1>0, <2>2, <2>3
<1> QED
  BY <1>1, <1>2, <1>3, <1>4 DEF IInv

LEMMA StartKeeps == ASSUME IInv, NEW c \in Callers, Start(c) PROVE IInv'
<1> USE DEF Start, store, Goto
<1>0. PICK mode \in Modes, ctx \in Contexts :
        call' = [call EXCEPT ![c] =
            [mode |-> mode, ctx |-> ctx, hadValid |-> index # <<>>,
             late |-> pointer # None /\ pointer.until <= now]]
        /\ pc' = [pc EXCEPT ![c] = FirstStep(mode)]
  OBVIOUS
<1>a. /\ call'[c] \in Calls /\ call'[c].mode = mode
      /\ call'[c].hadValid => index # <<>>
  BY <1>0 DEF IInv, TypeOK, Calls
<1>b. /\ pc'[c] \in {"lookup", "join"}
      /\ call'[c].mode = "READ_WRITE" => pc'[c] = "lookup"
      /\ got'[c] = None /\ status'[c] = None
      /\ via[c] = None
  BY <1>0, <1>a DEF IInv, TypeOK, Control, ControlOf, FirstStep
<1>c. Alone(c)
  BY <1>0 DEF Alone
<1>1. TypeOK'
  BY <1>0, <1>a, <1>b, BoundAssumption DEF IInv, TypeOK, States
<1>2. Control'
  BY <1>a, <1>b, <1>c, ControlFrame DEF IInv, ControlOf, Writing
<1>3. Revisions'
  BY <1>c, RevisionsFrame DEF IInv
<1>4. FlightsOwned'
  BY <1>b, <1>c, FlightsFrame DEF IInv, Fetching
<1>5. Preferring'
  BY <1>a, <1>b, <1>c, PreferringFrame DEF IInv, PreferringOf, Mode, Writing
<1>6. Queued'
  BY <1>b, <1>c, QueuedSame DEF IInv, Writing
<1>7. Metered'
  <2>1. Owning' = Owning
    BY <1>b, <1>c, NoneAssumption DEF Owning, Sources
  <2> QED
    BY <2>1, MeteredSame DEF IInv
<1> QED
  BY <1>1, <1>2, <1>3, <1>4, <1>5, <1>6, <1>7 DEF IInv

LEMMA LookupKeeps == ASSUME IInv, NEW c \in Callers, Lookup(c) PROVE IInv'
<1> USE DEF Lookup, store, Goto, Takes
<1>0. index # <<>> =>
        Latest \in manifests /\ Latest # None /\ Latest.kind = "valid"
  BY LastIsElement, Apart DEF IInv, TypeOK, Revisions, Latest
<1>a. /\ pc[c] = "lookup" /\ via[c] = None /\ got[c] = None /\ call[c] \in Calls
  BY DEF IInv, Control, ControlOf, Early
<1>b. \/ /\ index # <<>> /\ pc'[c] = "context" /\ via'[c] = "cache"
         /\ got'[c] \in manifests /\ got'[c] # None /\ got'[c].kind = "valid"
      \/ /\ index = <<>> /\ pc'[c] = "stat" /\ via'[c] = None /\ got'[c] = None
  BY <1>0, <1>a DEF IInv, TypeOK, Latest
<1>c. Alone(c)
  BY DEF IInv, TypeOK, Alone
<1>1. TypeOK'
  <2>0. Latest # None => index # <<>>
    BY DEF Latest
  <2>1. CASE Latest # None
    <3>1. /\ pc' = [pc EXCEPT ![c] = "context"]
          /\ via' = [via EXCEPT ![c] = "cache"]
          /\ got' = [got EXCEPT ![c] = Latest]
      BY <2>1
    <3>2. got' \in [Callers -> manifests \cup {None}]
      BY <1>0, <2>0, <2>1, <3>1 DEF IInv, TypeOK
    <3> QED
      BY <3>1, <3>2 DEF IInv, TypeOK, Sources, States
  <2>2. CASE Latest = None
    BY <2>2 DEF IInv, TypeOK, States
  <2> QED
    BY <2>1, <2>2
<1>2. Control'
  BY <1>a, <1>b, <1>c, ControlFrame DEF IInv, ControlOf, Early, Writing,
     EvidenceKinds
<1>3. Revisions'
  BY <1>c, RevisionsFrame DEF IInv
<1>4. FlightsOwned'
  BY <1>a, <1>b, <1>c, FlightsFrame DEF IInv, Fetching
<1>5. Preferring'
  BY <1>a, <1>b, <1>c, PreferringFrame DEF IInv, Preferring, PreferringOf,
     Mode, Writing
<1>6. Queued'
  BY <1>a, <1>b, <1>c, QueuedSame DEF IInv, Alone, Writing
<1>7. Metered'
  <2>1. Owning' = Owning
    BY <1>a, <1>b, <1>c, NoneAssumption DEF Owning, Sources, Alone
  <2> QED
    BY <2>1, MeteredSame DEF IInv
<1> QED
  BY <1>1, <1>2, <1>3, <1>4, <1>5, <1>6, <1>7 DEF IInv

-----------------------------------------------------------------------------
CallersTyped ==
  /\ pc \in [Callers -> States]
  /\ call \in [Callers -> Calls \cup {None}]
  /\ via \in [Callers -> Sources \cup {None}]
  /\ got \in [Callers -> manifests \cup {None}]
  /\ work \in [Callers -> Works \cup {None}]
  /\ status \in [Callers -> Hits \cup Fetched \cup Errors \cup {None}]

\* The call ends in an error.
LEMMA Throwing ==
  ASSUME IInv, NEW c \in Callers, NEW error \in {"ERROR", "INDEX_MISSING"},
         Throw(c, error), pc[c] # "idle", manifests \subseteq manifests'
  PROVE  /\ Alone(c)
         /\ pc'[c] = "idle" /\ call'[c] = call[c] /\ via'[c] = None
         /\ got'[c] = None /\ work'[c] = None /\ status'[c] = error
         /\ CallersTyped' /\ metrics' \in [Counters -> Nat]
         /\ Control' /\ Metered'
<1>1. /\ Alone(c)
      /\ pc'[c] = "idle" /\ call'[c] = call[c] /\ via'[c] = None
      /\ got'[c] = None /\ work'[c] = None /\ status'[c] = error
  BY DEF IInv, TypeOK, Throw, Goto, Alone
<1>2. CallersTyped'
  BY DEF IInv, TypeOK, Throw, Goto, CallersTyped, States, Errors
<1>3. Control'
  BY <1>1, ControlFrame DEF IInv, ControlOf, Writing
<1>4. Metered'
  <2>1. Owning' = Owning \ {c}
    BY <1>1 DEF Owning, Alone
  <2> QED
    BY <2>1, MeteredThrow DEF IInv, Throw
<1>5. metrics' \in [Counters -> Nat]
  BY Counting DEF IInv, Throw
<1> QED
  BY <1>1, <1>2, <1>3, <1>4, <1>5

LEMMA StatKeeps == ASSUME IInv, NEW c \in Callers, Stat(c) PROVE IInv'
<1> USE DEF Stat, store, Goto
<1>1. /\ pc[c] = "stat" /\ via[c] = None /\ got[c] = None /\ call[c] \in Calls
      /\ pc'[c] \in {"join", "read"}
  BY DEF IInv, TypeOK, Control, ControlOf, Early
<1>2. Alone(c)
  BY DEF Alone
<1>3. TypeOK'
  BY DEF IInv, TypeOK, States
<1>4. Control'
  BY <1>1, <1>2, ControlFrame DEF IInv, ControlOf, Writing
<1>5. Revisions'
  BY <1>2, RevisionsFrame DEF IInv
<1>6. FlightsOwned'
  BY <1>1, <1>2, FlightsFrame DEF IInv, Fetching
<1>7. Preferring'
  BY <1>1, <1>2 DEF IInv, Preferring, PreferringOf, Mode, Writing
<1>8. Queued'
  BY <1>1, <1>2, QueuedSame DEF IInv, Writing
<1>9. Metered'
  <2>1. Owning' = Owning
    BY <1>1, <1>2 DEF Owning
  <2> QED
    BY <2>1, MeteredSame DEF IInv
<1> QED
  BY <1>3, <1>4, <1>5, <1>6, <1>7, <1>8, <1>9 DEF IInv

LEMMA ExpireKeeps == ASSUME IInv, NEW c \in Callers, Expire(c) PROVE IInv'
<1> USE DEF Expire, Goto
<1>1. /\ pc[c] = "expire" /\ via[c] = None /\ got[c] = None /\ call[c] \in Calls
      /\ pc'[c] = "join"
  BY DEF IInv, TypeOK, Control, ControlOf, Early
<1>2. Alone(c)
  BY DEF Alone
<1>3. TypeOK'
  BY DEF IInv, TypeOK, States
<1>4. Control'
  BY <1>1, <1>2, ControlFrame DEF IInv, ControlOf, Writing
<1>5. Revisions'
  BY <1>2, RevisionsFrame DEF IInv
<1>6. FlightsOwned'
  BY <1>1, <1>2, FlightsFrame DEF IInv, Fetching
<1>7. Preferring'
  BY <1>1, <1>2 DEF IInv, Preferring, PreferringOf, Mode, Writing
<1>8. Queued'
  BY <1>1, <1>2, QueuedSame DEF IInv, Writing
<1>9. Metered'
  <2>1. Owning' = Owning
    BY <1>1, <1>2 DEF Owning
  <2> QED
    BY <2>1, MeteredSame DEF IInv
<1> QED
  BY <1>3, <1>4, <1>5, <1>6, <1>7, <1>8, <1>9 DEF IInv

LEMMA ReadFailsKeeps == ASSUME IInv, NEW c \in Callers, ReadFails(c) PROVE IInv'
<1> USE DEF ReadFails, store
<1>1. /\ pc[c] \in {"lookup", "stat", "read", "expire"} /\ call[c] \in Calls
      /\ Throw(c, "ERROR")
  BY DEF IInv, Control, ControlOf
<1>2. /\ Alone(c)
      /\ pc'[c] = "idle" /\ call'[c] = call[c] /\ via'[c] = None
      /\ got'[c] = None /\ work'[c] = None /\ status'[c] = "ERROR"
      /\ CallersTyped' /\ metrics' \in [Counters -> Nat]
      /\ Control' /\ Metered'
  BY <1>1, Throwing
<1>3. TypeOK'
  BY <1>2 DEF IInv, TypeOK, CallersTyped
<1>5. Revisions'
  BY <1>2, RevisionsFrame DEF IInv
<1>6. FlightsOwned'
  BY <1>1, <1>2, FlightsFrame DEF IInv, Fetching
<1>7. Preferring'
  BY <1>1, <1>2, PreferringFrame DEF IInv, Preferring, PreferringOf, Mode,
     Writing
<1>8. Queued'
  BY <1>1, <1>2, QueuedSame DEF IInv, Alone, Writing
<1> QED
  BY <1>2, <1>3, <1>5, <1>6, <1>7, <1>8 DEF IInv

LEMMA ReadPointerKeeps == ASSUME IInv, NEW c \in Callers, ReadPointer(c) PROVE IInv'
<1> USE DEF ReadPointer, store, Goto
<1>1. /\ pc[c] = "read" /\ via[c] = None /\ got[c] = None /\ call[c] \in Calls
      /\ call[c].hadValid => Mode(c) # "READ_WRITE"
  BY Apart DEF IInv, Control, ControlOf, Early, Preferring, PreferringOf,
     Writing
<1>2. CASE Throw(c, "INDEX_MISSING")
  <2>1. /\ Alone(c)
        /\ pc'[c] = "idle" /\ call'[c] = call[c] /\ via'[c] = None
        /\ got'[c] = None /\ work'[c] = None /\ status'[c] = "INDEX_MISSING"
        /\ CallersTyped' /\ metrics' \in [Counters -> Nat]
        /\ Control' /\ Metered'
    BY <1>1, <1>2, Throwing
  <2>2. TypeOK'
    BY <2>1 DEF IInv, TypeOK, CallersTyped
  <2>3. Revisions'
    BY <2>1, RevisionsFrame DEF IInv
  <2>4. FlightsOwned'
    BY <1>1, <2>1, FlightsFrame DEF IInv, Fetching
  <2>5. Preferring'
    BY <1>1, <2>1, PreferringFrame DEF IInv, PreferringOf, Mode
  <2>6. Queued'
    BY <1>1, <2>1, QueuedSame DEF IInv, Alone, Writing
  <2> QED
    BY <2>1, <2>2, <2>3, <2>4, <2>5, <2>6 DEF IInv
<1>3. CASE ~Throw(c, "INDEX_MISSING")
  <2>1. /\ call' = call /\ work' = work
        /\ \/ /\ pc'[c] = "expire" /\ metrics' = metrics
              /\ UNCHANGED <<via, got, status>>
           \/ /\ pc'[c] = "context" /\ via' = [via EXCEPT ![c] = "cache"]
              /\ got' = [got EXCEPT ![c] = pointer] /\ pointer # None
              /\ pointer.kind = "partial" /\ status' = status
              /\ Count({"failure_hits"})
           \/ /\ pc'[c] = "idle" /\ Count({"failure_hits"})
              /\ status' = [status EXCEPT ![c] = "SUPPRESSED"]
              /\ UNCHANGED <<via, got>>
    BY <1>1, <1>3 DEF IInv, TypeOK, Takes
  <2>2. Alone(c) /\ pc' \in [Callers -> States]
    BY <1>3 DEF IInv, TypeOK, Alone, Takes, States
  <2>3. TypeOK'
    <3>1. metrics' \in [Counters -> Nat]
      BY <2>1, Counting DEF IInv, TypeOK
    <3> QED
      BY <2>1, <2>2, <3>1 DEF IInv, TypeOK, Sources, Errors
  <2>4. Control'
    BY <1>1, <2>1, <2>2, ControlFrame DEF IInv, TypeOK, ControlOf, Early,
       Writing, EvidenceKinds
  <2>5. Revisions'
    BY <2>1, <2>2, RevisionsFrame DEF IInv
  <2>6. FlightsOwned'
    BY <1>1, <2>1, <2>2, FlightsFrame DEF IInv, Fetching
  <2>7. Preferring'
    BY <1>1, <2>1, <2>2, PreferringFrame DEF IInv, PreferringOf, Mode
  <2>8. Queued'
    BY <1>1, <2>1, <2>2, QueuedSame DEF IInv, Alone, Writing
  <2>9. Metered'
    <3>1. Owning' = Owning
      BY <1>1, <2>1, <2>2, NoneAssumption DEF Owning, Sources, Alone, IInv,
         TypeOK
    <3>2. CASE metrics' = metrics
      BY <3>1, <3>2, MeteredSame DEF IInv
    <3>3. CASE Count({"failure_hits"})
      BY <3>1, <3>3, CountingNames DEF IInv, Metered
    <3> QED
      BY <2>1, <3>2, <3>3
  <2> QED
    BY <2>3, <2>4, <2>5, <2>6, <2>7, <2>8, <2>9 DEF IInv
<1> QED
  BY <1>2, <1>3

-----------------------------------------------------------------------------
FlightsTyped ==
  /\ flight \in [Modes -> Flights \cup {None}]
  /\ \A m \in Modes : flight[m] # None =>
       flight[m].outcome \in manifests \cup {Pending, Failed}

LEMMA OwnersAreCallers ==
  ASSUME TypeOK, Control
  PROVE  /\ \A m \in Modes : flight[m] # None => flight[m].owner \in Callers
         /\ \A c \in Callers : Fetching(c) \/ pc[c] = "await" => Mode(c) \in Modes
BY DEF TypeOK, Flights, Control, ControlOf, Fetching, Mode, Calls

\* A call that finds no flight registers its own.
LEMMA FlightsBegin ==
  ASSUME TypeOK, Control, FlightsOwned, NEW c \in Callers, Alone(c), UNCHANGED <<call, manifests>>,
         pc[c] = "join", pc'[c] \in {"check", "asking"}, flight[Mode(c)] = None,
         flight' = [flight EXCEPT ![Mode(c)] = [owner |-> c, outcome |-> Pending]]
  PROVE  FlightsOwned' /\ FlightsTyped'
<1>1. Mode(c) \in Modes /\ ~Fetching(c)
  BY DEF Control, ControlOf, Calls, Mode, Fetching
<1>2. /\ flight'[Mode(c)] = [owner |-> c, outcome |-> Pending]
      /\ flight'[Mode(c)].owner = c /\ flight'[Mode(c)].outcome = Pending
      /\ \A m \in Modes \ {Mode(c)} : flight'[m] = flight[m]
      /\ flight'[Mode(c)] \in Flights
  BY <1>1 DEF TypeOK, Flights
<1>3. /\ \A d \in Callers : Mode(d)' = Mode(d)
      /\ Fetching(c)' /\ pc'[c] # "await" /\ pc'[c] # "land"
      /\ \A d \in Callers \ {c} : pc'[d] = pc[d] /\ (Fetching(d)' <=> Fetching(d))
  BY DEF Mode, Fetching, Alone
<1>4. \A d \in Callers \ {c} : Fetching(d) \/ pc[d] = "await" => Mode(d) # Mode(c)
  BY <1>1 DEF FlightsOwned
<1>5. FlightsTyped'
  <2>1. flight' \in [Modes -> Flights \cup {None}]
    BY <1>2 DEF TypeOK
  <2>2. \A m \in Modes : flight'[m] # None =>
          flight'[m].outcome \in manifests \cup {Pending, Failed}
    BY <1>2 DEF TypeOK
  <2> QED
    BY <2>1, <2>2 DEF FlightsTyped
<1>6. ASSUME NEW m \in Modes, flight'[m] # None
      PROVE  /\ Fetching(flight[m].owner)' /\ Mode(flight[m].owner)' = m
             /\ flight'[m].outcome = Pending <=> pc'[flight'[m].owner] # "land"
             /\ flight'[m].outcome \notin {Pending, Failed} =>
                  flight'[m].outcome.kind \in EvidenceKinds
  <2>1. CASE m = Mode(c)
    BY <1>2, <1>3, <2>1
  <2>2. CASE m # Mode(c)
    <3>1. flight'[m] = flight[m] /\ flight[m].owner \in Callers \ {c}
      BY <1>1, <1>2, <1>6, <2>2, OwnersAreCallers DEF FlightsOwned
    <3> QED
      BY <1>3, <1>6, <3>1 DEF FlightsOwned
  <2> QED
    BY <2>1, <2>2
<1>7. \A d \in Callers : Fetching(d)' =>
       flight'[Mode(d)'] # None /\ flight'[Mode(d)'].owner = d
  BY <1>1, <1>2, <1>3, <1>4, Apart DEF FlightsOwned
<1>8. \A d \in Callers : pc'[d] = "await" =>
       flight'[Mode(d)'] # None /\ flight'[Mode(d)'].outcome = Pending
  BY <1>1, <1>2, <1>3, <1>4 DEF FlightsOwned
<1> QED
  BY <1>5, <1>6, <1>7, <1>8 DEF FlightsOwned

LEMMA JoinKeeps == ASSUME IInv, NEW c \in Callers, Join(c) PROVE IInv'
<1> USE DEF Join, store, Goto
<1>1. /\ pc[c] = "join" /\ via[c] = None /\ got[c] = None /\ call[c] \in Calls
      /\ call[c].hadValid => Mode(c) # "READ_WRITE"
      /\ Mode(c) \in Modes
  <2>1. pc[c] = "join" /\ via[c] = None /\ got[c] = None /\ call[c] \in Calls
    BY DEF IInv, Control, ControlOf, Early
  <2> QED
    BY <2>1, Apart DEF IInv, Preferring, PreferringOf, Writing, Mode, Calls
<1>2. CASE /\ Existing(c) # None /\ Existing(c).outcome = Failed
           /\ Throw(c, "ERROR") /\ UNCHANGED flight
  <2>1. /\ Alone(c)
        /\ pc'[c] = "idle" /\ call'[c] = call[c] /\ via'[c] = None
        /\ got'[c] = None /\ work'[c] = None /\ status'[c] = "ERROR"
        /\ CallersTyped' /\ metrics' \in [Counters -> Nat]
        /\ Control' /\ Metered'
    BY <1>1, <1>2, Throwing
  <2>2. TypeOK'
    BY <2>1, <1>2 DEF IInv, TypeOK, CallersTyped
  <2>3. Revisions'
    BY <2>1, RevisionsFrame DEF IInv
  <2>4. FlightsOwned'
    BY <1>1, <1>2, <2>1, FlightsFrame DEF IInv, Fetching
  <2>5. Preferring'
    BY <1>1, <2>1, PreferringFrame DEF IInv, PreferringOf, Mode
  <2>6. Queued'
    BY <1>1, <2>1, QueuedSame DEF IInv, Alone, Writing
  <2> QED
    BY <2>1, <2>2, <2>3, <2>4, <2>5, <2>6 DEF IInv
<1>3. CASE /\ Existing(c) # None /\ Existing(c).outcome = Pending
           /\ Goto(c, "await") /\ UNCHANGED <<call, via, got, work, status, metrics, flight>>
  <2>1. Alone(c) /\ pc'[c] = "await"
    BY <1>3 DEF IInv, TypeOK, Alone
  <2>2. TypeOK'
    BY <1>3 DEF IInv, TypeOK, States
  <2>3. Control'
    BY <1>1, <1>3, <2>1, ControlFrame DEF IInv, ControlOf, Writing
  <2>4. Revisions'
    BY <1>3, <2>1, RevisionsFrame DEF IInv
  <2>5. FlightsOwned'
    <3>1. \A d \in Callers : (Fetching(d)' <=> Fetching(d)) /\ Mode(d)' = Mode(d)
      BY <1>1, <1>3, <2>1 DEF Fetching, Mode
    <3>2. \A m \in Modes : flight[m] # None => flight[m].owner \in Callers \ {c}
      BY <1>1, OwnersAreCallers DEF IInv, FlightsOwned, Fetching
    <3> QED
      BY <1>1, <1>3, <2>1, <3>1, <3>2 DEF IInv, FlightsOwned, Existing
  <2>6. Preferring'
    BY <1>1, <1>3, <2>1, PreferringFrame DEF IInv, PreferringOf, Mode
  <2>7. Queued'
    BY <1>1, <2>1, QueuedSame DEF IInv, Alone, Writing
  <2>8. Metered'
    <3>1. Owning' = Owning
      BY <1>1, <1>3, <2>1 DEF Owning
    <3> QED
      BY <1>3, <3>1, MeteredSame DEF IInv
  <2> QED
    BY <2>2, <2>3, <2>4, <2>5, <2>6, <2>7, <2>8 DEF IInv
<1>4. CASE /\ Existing(c) # None /\ Existing(c).outcome \notin {Pending, Failed}
           /\ Takes(c, Existing(c).outcome, "joined")
           /\ UNCHANGED <<call, work, status, metrics, flight>>
  <2>0. Existing(c).outcome \in manifests /\ Existing(c).outcome.kind \in EvidenceKinds
        /\ Existing(c).outcome # None
    BY <1>1, <1>4, Apart DEF IInv, TypeOK, FlightsOwned, Existing
  <2>1. /\ Alone(c) /\ pc'[c] = "context" /\ via'[c] = "joined"
        /\ got'[c] = Existing(c).outcome
    BY <1>4 DEF IInv, TypeOK, Alone, Takes
  <2>2. TypeOK'
    BY <1>4, <2>0 DEF IInv, TypeOK, States, Takes, Sources
  <2>3. Control'
    BY <1>1, <1>4, <2>0, <2>1, ControlFrame DEF IInv, ControlOf, Early, Writing
  <2>4. Revisions'
    BY <1>4, <2>1, RevisionsFrame DEF IInv
  <2>5. FlightsOwned'
    BY <1>1, <1>4, <2>1, FlightsFrame DEF IInv, Fetching
  <2>6. Preferring'
    BY <1>1, <1>4, <2>1, PreferringFrame DEF IInv, PreferringOf, Mode
  <2>7. Queued'
    BY <1>1, <2>1, QueuedSame DEF IInv, Alone, Writing
  <2>8. Metered'
    <3>1. Owning' = Owning
      BY <1>1, <2>1, NoneAssumption DEF Owning, Sources, Alone
    <3> QED
      BY <1>4, <3>1, MeteredSame DEF IInv
  <2> QED
    BY <2>2, <2>3, <2>4, <2>5, <2>6, <2>7, <2>8 DEF IInv
<1>5. CASE /\ Existing(c) = None
           /\ flight' = [flight EXCEPT ![Mode(c)] = [owner |-> c, outcome |-> Pending]]
           /\ UNCHANGED <<call, got, work, status>>
           /\ \/ Goto(c, "asking") /\ via' = [via EXCEPT ![c] = "owner"] /\ Count({"calls"})
              \/ Goto(c, "check") /\ UNCHANGED <<via, metrics>>
  <2>1. /\ Alone(c)
        /\ \/ pc'[c] = "asking" /\ via'[c] = "owner" /\ Count({"calls"})
           \/ pc'[c] = "check" /\ via' = via /\ UNCHANGED metrics
    BY <1>5 DEF IInv, TypeOK, Alone
  <2>2. FlightsOwned' /\ FlightsTyped'
    BY <1>1, <1>5, <2>1, FlightsBegin DEF IInv, Existing
  <2>3. TypeOK'
    <3>1. metrics' \in [Counters -> Nat]
      BY <2>1, Counting DEF IInv, TypeOK
    <3> QED
      BY <1>5, <2>2, <3>1 DEF IInv, TypeOK, States, Sources, FlightsTyped
  <2>4. Control'
    BY <1>1, <1>5, <2>1, ControlFrame DEF IInv, ControlOf, Early, Writing
  <2>5. Revisions'
    BY <1>5, <2>1, RevisionsFrame DEF IInv
  <2>6. Preferring'
    BY <1>1, <1>5, <2>1, PreferringFrame DEF IInv, PreferringOf, Mode
  <2>7. Queued'
    BY <1>1, <2>1, QueuedSame DEF IInv, Alone, Writing
  <2>8. Metered'
    <3>1. CASE pc'[c] = "asking"
      <4>1. c \notin Owning /\ Owning' = Owning \cup {c}
        BY <1>1, <2>1, <3>1, NoneAssumption DEF Owning, Sources, Alone
      <4> QED
        BY <2>1, <3>1, <4>1, MeteredAsk DEF IInv
    <3>2. CASE pc'[c] # "asking"
      <4>1. Owning' = Owning
        BY <1>1, <2>1, <3>2 DEF Owning, Alone
      <4> QED
        BY <2>1, <3>2, <4>1, MeteredSame DEF IInv
    <3> QED
      BY <3>1, <3>2
  <2> QED
    BY <2>2, <2>3, <2>4, <2>5, <2>6, <2>7, <2>8 DEF IInv
<1> QED
  BY <1>1, <1>2, <1>3, <1>4, <1>5

-----------------------------------------------------------------------------
\* A flight settles: its owner lands and the calls awaiting it go on.
LEMMA Settling ==
  ASSUME IInv, NEW c \in Callers, NEW outcome \in manifests' \cup {Failed},
         outcome # Failed => outcome.kind \in EvidenceKinds,
         Fetching(c), pc[c] # "land", Settle(c, outcome),
         manifests \subseteq manifests', manifests' \subseteq Manifests,
         index' = index
  PROVE  /\ CallersTyped' /\ FlightsTyped' /\ Control' /\ FlightsOwned'
         /\ Preferring' /\ Owning' = Owning
         /\ pc'[c] = "land" /\ work'[c] = None
         /\ \A d \in Callers \ {c} :
              /\ work'[d] = work[d]
              /\ pc'[d] \in Writing <=> pc[d] \in Writing
              /\ pc'[d] \in {"drop", "verify"} <=> pc[d] \in {"drop", "verify"}
<1> DEFINE waiting == {d \in Callers : pc[d] = "await" /\ Mode(d) = Mode(c)}
<1>1. /\ call[c] \in Calls /\ Mode(c) \in Modes /\ c \notin waiting
      /\ flight[Mode(c)] # None /\ flight[Mode(c)].owner = c
      /\ call[c].hadValid => Mode(c) # "READ_WRITE"
  <2>1. call[c] \in Calls /\ Mode(c) \in Modes
    BY DEF IInv, Control, ControlOf, Fetching, Mode, Calls
  <2>2. pc[c] # "await"
    BY DEF Fetching
  <2> QED
    BY <2>1, <2>2, Apart DEF IInv, FlightsOwned, Preferring, PreferringOf,
       Fetching, Writing
<1>2. \A d \in waiting :
        /\ via[d] = None /\ got[d] = None /\ call[d] \in Calls
        /\ call[d].hadValid => Mode(d) # "READ_WRITE"
  <2>1. \A d \in waiting :
          via[d] = None /\ got[d] = None /\ call[d] \in Calls /\ pc[d] = "await"
    BY DEF IInv, Control, ControlOf, Early
  <2> QED
    BY <2>1, Apart DEF IInv, Preferring, PreferringOf, Writing
<1>3. /\ pc'[c] = "land" /\ got'[c] = got[c] /\ via'[c] = via[c]
      /\ status'[c] = status[c] /\ work'[c] = None
  BY <1>1 DEF Settle, IInv, TypeOK
<1>4. \A d \in Callers \ {c} : work'[d] = work[d]
  BY DEF Settle
<1>5. \A d \in waiting :
        IF outcome = Failed
        THEN pc'[d] = "idle" /\ got'[d] = None /\ via'[d] = None /\ status'[d] = "ERROR"
        ELSE pc'[d] = "context" /\ got'[d] = outcome /\ via'[d] = "joined"
             /\ status'[d] = status[d]
  BY <1>1, <1>2 DEF Settle
<1>6. \A d \in Callers : d # c /\ d \notin waiting =>
        pc'[d] = pc[d] /\ got'[d] = got[d] /\ via'[d] = via[d] /\ status'[d] = status[d]
  BY DEF Settle
<1>7. call' = call /\ \A d \in Callers : Mode(d)' = Mode(d)
  BY DEF Settle, Mode
<1>8. outcome # Failed => outcome # None
  BY Apart
<1> HIDE DEF waiting
<1>10. CallersTyped'
  <2>1. pc' \in [Callers -> States]
    BY DEF Settle, IInv, TypeOK, States
  <2>2. got' \in [Callers -> manifests' \cup {None}]
    BY DEF Settle, IInv, TypeOK
  <2>3. via' \in [Callers -> Sources \cup {None}]
    BY DEF Settle, IInv, TypeOK, Sources
  <2>4. status' \in [Callers -> Hits \cup Fetched \cup Errors \cup {None}]
    BY DEF Settle, IInv, TypeOK, Errors
  <2>5. work' \in [Callers -> Works \cup {None}]
    BY DEF Settle, IInv, TypeOK
  <2> QED
    BY <1>7, <2>1, <2>2, <2>3, <2>4, <2>5 DEF CallersTyped, IInv, TypeOK
<1>11. /\ flight'[Mode(c)].owner = c /\ flight'[Mode(c)].outcome = outcome
       /\ flight'[Mode(c)] \in Flights /\ flight'[Mode(c)] # None
       /\ \A m \in Modes \ {Mode(c)} : flight'[m] = flight[m]
  <2>1. flight[Mode(c)] \in Flights
    BY <1>1 DEF IInv, TypeOK
  <2>2. flight' = [flight EXCEPT ![Mode(c)] = [flight[Mode(c)] EXCEPT !.outcome = outcome]]
    BY DEF Settle
  <2>3. flight'[Mode(c)] = [flight[Mode(c)] EXCEPT !.outcome = outcome]
        /\ \A m \in Modes \ {Mode(c)} : flight'[m] = flight[m]
    BY <1>1, <2>2 DEF IInv, TypeOK
  <2>4. flight'[Mode(c)] = [owner |-> c, outcome |-> outcome]
    BY <1>1, <2>1, <2>3 DEF Flights
  <2>5. outcome \in Manifests \cup {Pending, Failed}
    OBVIOUS
  <2>6. flight'[Mode(c)] \in Flights
    BY <2>4, <2>5 DEF Flights
  <2> QED
    BY <2>3, <2>4, <2>6, Apart
<1>12. FlightsTyped'
  BY <1>1, <1>11 DEF FlightsTyped, IInv, TypeOK, Settle
<1>13. Control'
  <2>1. ControlOf(c)'
    BY <1>3, <1>1, <1>7 DEF IInv, Control, ControlOf, Early, Writing
  <2>2. ASSUME NEW d \in waiting PROVE ControlOf(d)'
    BY <1>2, <1>5, <1>7, <1>8, <2>2 DEF ControlOf, Early, Writing
  <2>3. ASSUME NEW d \in Callers, d # c, d \notin waiting PROVE ControlOf(d)'
    BY <1>4, <1>6, <1>7, <2>3 DEF IInv, Control, ControlOf
  <2> QED
    BY <2>1, <2>2, <2>3 DEF Control
<1>14. Preferring'
  <2>1. PreferringOf(c)'
    BY <1>1, <1>7 DEF PreferringOf
  <2>2. ASSUME NEW d \in waiting PROVE PreferringOf(d)'
    BY <1>2, <1>7, <2>2 DEF PreferringOf, Mode
  <2>3. ASSUME NEW d \in Callers, d # c, d \notin waiting PROVE PreferringOf(d)'
    BY <1>4, <1>6, <1>7, <2>3 DEF IInv, Preferring, PreferringOf
  <2> QED
    BY <2>1, <2>2, <2>3 DEF Preferring
<1>15. \A d \in waiting : d \in Callers /\ pc[d] = "await" /\ Mode(d) = Mode(c)
  BY DEF waiting
<1>16. \A d \in Callers \ {c} :
         /\ Fetching(d)' <=> Fetching(d)
         /\ pc'[d] = "land" <=> pc[d] = "land"
         /\ pc'[d] = "await" => pc[d] = "await" /\ Mode(d) # Mode(c)
         /\ pc'[d] \in Writing <=> pc[d] \in Writing
         /\ pc'[d] \in {"drop", "verify"} <=> pc[d] \in {"drop", "verify"}
  <2>1. \A d \in waiting : ~Fetching(d) /\ ~Fetching(d)'
    BY <1>5, <1>15 DEF Fetching
  <2>2. \A d \in Callers : d # c /\ d \notin waiting => (Fetching(d)' <=> Fetching(d))
    BY <1>4, <1>6 DEF Fetching
  <2> QED
    BY <2>1, <2>2, <1>5, <1>6, <1>15 DEF Writing, waiting
<1>17. FlightsOwned'
  <2>1. \A d \in Callers \ {c} : Fetching(d) => Mode(d) # Mode(c)
    BY <1>1 DEF IInv, FlightsOwned
  <2>2. ASSUME NEW m \in Modes, flight'[m] # None
        PROVE  /\ Fetching(flight[m].owner)' /\ Mode(flight[m].owner)' = m
               /\ flight'[m].outcome = Pending <=> pc'[flight'[m].owner] # "land"
               /\ flight'[m].outcome \notin {Pending, Failed} =>
                    flight'[m].outcome.kind \in EvidenceKinds
    <3>1. CASE m = Mode(c)
      <4>1. Fetching(c)'
        BY <1>3 DEF Fetching
      <4>2. outcome # Pending
        BY DEF EvidenceKinds, Pending, Failed
      <4> QED
        BY <1>3, <1>7, <1>11, <3>1, <4>1, <4>2
    <3>2. CASE m # Mode(c)
      <4>1. flight'[m] = flight[m] /\ flight[m].owner \in Callers \ {c}
        BY <1>11, <2>2, <3>2, OwnersAreCallers DEF IInv, FlightsOwned
      <4> QED
        BY <1>7, <1>16, <2>2, <4>1 DEF IInv, FlightsOwned
    <3> QED
      BY <3>1, <3>2
  <2>3. \A d \in Callers : Fetching(d)' =>
         flight'[Mode(d)'] # None /\ flight'[Mode(d)'].owner = d
    <3>1. \A d \in Callers \ {c} : Fetching(d)' =>
            Fetching(d) /\ Mode(d) \in Modes /\ Mode(d) # Mode(c)
      BY <1>16, <2>1, OwnersAreCallers DEF IInv
    <3> QED
      BY <1>7, <1>11, <3>1 DEF IInv, FlightsOwned
  <2>4. \A d \in Callers : pc'[d] = "await" =>
         flight'[Mode(d)'] # None /\ flight'[Mode(d)'].outcome = Pending
    <3>1. \A d \in Callers : pc'[d] = "await" =>
            pc[d] = "await" /\ Mode(d) \in Modes /\ Mode(d) # Mode(c)
      BY <1>3, <1>16, OwnersAreCallers DEF IInv
    <3> QED
      BY <1>7, <1>11, <3>1 DEF IInv, FlightsOwned
  <2> QED
    BY <2>2, <2>3, <2>4 DEF FlightsOwned
<1>18. Owning' = Owning
  <2>1. \A d \in waiting : via[d] # "owner" /\ via'[d] # "owner"
    BY <1>2, <1>5, Apart DEF Sources
  <2>2. pc[c] # "idle" /\ pc'[c] # "idle"
    BY <1>3 DEF Fetching
  <2> QED
    BY <1>3, <1>6, <2>1, <2>2 DEF Owning
<1> QED
  BY <1>3, <1>4, <1>10, <1>12, <1>13, <1>14, <1>16, <1>17, <1>18

LEMMA RevisionsKept ==
  ASSUME Revisions, UNCHANGED <<manifests, index, answers>>,
         \A d \in Callers : work'[d] \in {work[d], None}
  PROVE  Revisions'
BY DEF Revisions, Complete

LEMMA FetchingFacts ==
  ASSUME IInv, NEW c \in Callers, Fetching(c)
  PROVE  /\ call[c] \in Calls /\ Mode(c) \in Modes
         /\ call[c].hadValid => Mode(c) # "READ_WRITE"
         /\ flight[Mode(c)] # None /\ flight[Mode(c)].owner = c
<1>1. call[c] \in Calls /\ Mode(c) \in Modes
  BY DEF IInv, Control, ControlOf, Fetching, Mode, Calls
<1> QED
  BY <1>1, Apart DEF IInv, FlightsOwned, Preferring, PreferringOf, Fetching,
     Writing

\* What is written is a consistent manifest (readManifest's check).
LEMMA DraftedIsManifest ==
  ASSUME TypeOK, NEW c \in Callers, NEW revision \in Nat, call[c] \in Calls,
         work[c] \in Works, work[c].kind \notin RetryKinds => work[c].until = None
  PROVE  LET m == Drafted(c, revision)
         IN  /\ m \in Manifests /\ m.kind = work[c].kind /\ m.data = work[c].data
             /\ m.ctx = call[c].ctx /\ m.revision = revision
             /\ m.kind \in RetryKinds <=> m.until # None
<1>1. Expiry(work[c]) \in Nat \cup {None}
      /\ (work[c].kind \in RetryKinds <=> Expiry(work[c]) # None)
  BY BoundAssumption, Apart DEF Expiry, TypeOK, Works
<1> QED
  BY <1>1 DEF Drafted, Manifests, Works, Calls

LEMMA CheckKeeps == ASSUME IInv, NEW c \in Callers, Check(c) PROVE IInv'
<1> USE DEF Check, store
<1>1. pc[c] = "check" /\ Fetching(c) /\ via[c] = None /\ got[c] = None
  BY DEF Fetching, IInv, Control, ControlOf, Early
<1>2. CASE metrics' = metrics
           /\ \E outcome \in manifests \cup {Failed} :
                /\ outcome # Failed => outcome.kind \in EvidenceKinds
                /\ Settle(c, outcome)
  <2>1. PICK outcome \in manifests \cup {Failed} :
                /\ outcome # Failed => outcome.kind \in EvidenceKinds
                /\ Settle(c, outcome)
    BY <1>2
  <2>2. /\ CallersTyped' /\ FlightsTyped' /\ Control' /\ FlightsOwned'
        /\ Preferring' /\ Owning' = Owning
        /\ pc'[c] = "land" /\ work'[c] = None
        /\ \A d \in Callers \ {c} :
              /\ work'[d] = work[d]
              /\ pc'[d] \in Writing <=> pc[d] \in Writing
              /\ pc'[d] \in {"drop", "verify"} <=> pc[d] \in {"drop", "verify"}
    <3>1. manifests' \subseteq Manifests
      BY DEF IInv, TypeOK
    <3> QED
      BY <1>1, <2>1, <3>1, Settling
  <2>3. TypeOK'
    BY <1>2, <2>2 DEF IInv, TypeOK, CallersTyped, FlightsTyped
  <2>4. Revisions'
    BY <2>2, RevisionsKept DEF IInv
  <2>5. Queued'
    BY <1>1, <2>2, QueuedSame DEF IInv, Writing
  <2>6. Metered'
    BY <1>2, <2>2, MeteredSame DEF IInv
  <2> QED
    BY <2>2, <2>3, <2>4, <2>5, <2>6 DEF IInv
<1>3. CASE /\ Goto(c, "asking") /\ via' = [via EXCEPT ![c] = "owner"]
           /\ Count({"calls"}) /\ UNCHANGED <<flight, call, got, work, status>>
  <2>1. Alone(c) /\ pc'[c] = "asking" /\ via'[c] = "owner"
    BY <1>3 DEF IInv, TypeOK, Goto, Alone
  <2>2. TypeOK'
    <3>1. metrics' \in [Counters -> Nat]
      BY <1>3, Counting DEF IInv
    <3> QED
      BY <1>3, <3>1 DEF IInv, TypeOK, Goto, States, Sources
  <2>3. Control'
    BY <1>1, <1>3, <2>1, FetchingFacts, ControlFrame DEF IInv, ControlOf,
       Early, Writing
  <2>4. Revisions'
    BY <1>3, <2>1, RevisionsFrame DEF IInv
  <2>5. FlightsOwned'
    BY <1>1, <1>3, <2>1, FlightsFrame DEF IInv, Fetching, Mode
  <2>6. Preferring'
    BY <1>1, <1>3, <2>1, FetchingFacts, PreferringFrame DEF IInv, PreferringOf,
       Mode
  <2>7. Queued'
    BY <1>1, <2>1, QueuedSame DEF IInv, Alone, Writing
  <2>8. Metered'
    <3>1. c \notin Owning /\ Owning' = Owning \cup {c}
      BY <1>1, <2>1, Apart DEF Owning, Sources, Alone
    <3> QED
      BY <1>3, <3>1, MeteredAsk DEF IInv
  <2> QED
    BY <2>2, <2>3, <2>4, <2>5, <2>6, <2>7, <2>8 DEF IInv
<1>4. Latest # None => Latest \in manifests /\ Latest.kind \in EvidenceKinds
  BY LastIsElement DEF IInv, TypeOK, Revisions, Latest, EvidenceKinds
<1> QED
  BY <1>2, <1>3, <1>4

LEMMA AnswerKeeps == ASSUME IInv, NEW c \in Callers, Answer(c) PROVE IInv'
<1> USE DEF Answer, store, Goto
<1>1. pc[c] = "asking" /\ Fetching(c) /\ got[c] = None
  BY DEF Fetching, IInv, Control, ControlOf
<1>2. PICK answer \in {"complete", "partial"} :
        /\ answers' = Append(answers, answer)
        /\ work' = [work EXCEPT ![c] =
             Work(Eligibility(answer), Len(answers) + 1, None, TRUE)]
  OBVIOUS
<1>3. /\ work'[c] \in Works /\ work'[c].kind \in EvidenceKinds /\ work'[c].fetched
      /\ work'[c].kind = "valid" => answer = "complete"
      /\ work'[c].data = Len(answers) + 1 /\ work'[c].until = None
  BY <1>2 DEF IInv, TypeOK, Work, Works, Eligibility, EvidenceKinds
<1>4. Alone(c) /\ pc'[c] = "lock"
  BY <1>2 DEF IInv, TypeOK, Alone
<1>5. TypeOK'
  <2>1. answers' \in Seq({"complete", "partial"}) /\ requestQueue' \in Seq(Callers)
    BY <1>2 DEF IInv, TypeOK
  <2>2. work' \in [Callers -> Works \cup {None}]
    BY <1>2, <1>3 DEF IInv, TypeOK
  <2> QED
    BY <2>1, <2>2 DEF IInv, TypeOK, States
<1>6. Control'
  BY <1>1, <1>3, <1>4, FetchingFacts, ControlFrame DEF IInv, ControlOf, Early
<1>7. Revisions'
  <2>1. \A n : Complete(n) => Complete(n)'
    BY <1>2 DEF Complete
  <2>2. answer = "complete" => Complete(work[c].data)'
    <3>1. Len(answers) + 1 \in DOMAIN answers' /\ answers'[Len(answers) + 1] = answer
      BY <1>2
    <3> QED
      BY <1>3, <3>1 DEF Complete
  <2>3. \A d \in Callers : work'[d] # None =>
          /\ work'[d].kind = "valid" => Complete(work[d].data)'
          /\ work'[d].kind \notin RetryKinds => work'[d].until = None
    <3>1. \A d \in Callers \ {c} : work'[d] = work[d]
      BY <1>4
    <3>2. \A d \in Callers \ {c} : Complete(work[d].data) => Complete(work[d].data)'
      BY <2>1, <3>1
    <3> QED
      BY <1>3, <2>2, <3>1, <3>2 DEF IInv, Revisions
  <2> QED
    BY <2>1, <2>3 DEF IInv, Revisions
<1>8. FlightsOwned'
  BY <1>1, <1>3, <1>4, FlightsFrame DEF IInv, Fetching, Mode
<1>9. Preferring'
  BY <1>1, <1>4, FetchingFacts, PreferringFrame DEF IInv, PreferringOf, Mode
<1>10. Queued'
  BY <1>1, <1>4, QueuedMore DEF IInv, Writing
<1>11. Metered'
  <2>1. Owning' = Owning
    BY <1>1, <1>4 DEF Owning
  <2> QED
    BY <2>1, MeteredSame DEF IInv
<1> QED
  BY <1>5, <1>6, <1>7, <1>8, <1>9, <1>10, <1>11 DEF IInv

LEMMA ProviderThrowsKeeps ==
  ASSUME IInv, NEW c \in Callers, ProviderThrows(c) PROVE IInv'
<1> USE DEF ProviderThrows, store, Goto
<1>1. pc[c] = "asking" /\ Fetching(c) /\ got[c] = None
  BY DEF Fetching, IInv, Control, ControlOf
<1>2. PICK kind \in {"failure", "final"} :
        work' = [work EXCEPT ![c] = Work(kind, 0, None, TRUE)]
  BY DEF FailsWith
<1>3. /\ work'[c] \in Works /\ work'[c].kind = kind /\ work'[c].fetched
      /\ work'[c].until = None
  BY <1>2 DEF IInv, TypeOK, Work, Works
<1>4. Alone(c) /\ pc'[c] = "record"
  BY <1>2 DEF IInv, TypeOK, Alone
<1>5. TypeOK'
  BY <1>2, <1>3 DEF IInv, TypeOK, States
<1>6. Control'
  BY <1>1, <1>3, <1>4, FetchingFacts, ControlFrame DEF IInv, ControlOf, Early,
     Writing
<1>7. Revisions'
  BY <1>3, <1>4 DEF IInv, Revisions, Alone, Complete
<1>8. FlightsOwned'
  BY <1>1, <1>4, FlightsFrame DEF IInv, Fetching, Mode
<1>9. Preferring'
  BY <1>1, <1>4, FetchingFacts, PreferringFrame DEF IInv, PreferringOf, Mode
<1>10. Queued'
  BY <1>1, <1>4, QueuedSame DEF IInv, Writing
<1>11. Metered'
  <2>1. Owning' = Owning
    BY <1>1, <1>4 DEF Owning
  <2> QED
    BY <2>1, MeteredSame DEF IInv
<1> QED
  BY <1>5, <1>6, <1>7, <1>8, <1>9, <1>10, <1>11 DEF IInv

LEMMA RecordKeeps == ASSUME IInv, NEW c \in Callers, Record(c) PROVE IInv'
<1> USE DEF Record
<1> DEFINE m == Drafted(c, 0)
<1>1. /\ pc[c] = "record" /\ Fetching(c) /\ call[c] \in Calls
      /\ work[c] \in Works /\ (work[c].kind \notin RetryKinds => work[c].until = None)
  BY Apart DEF Fetching, IInv, Control, ControlOf, Revisions
<1>2. m \in Manifests /\ (m.kind \in RetryKinds <=> m.until # None)
  BY <1>1, DraftedIsManifest DEF IInv
<1>3. \/ /\ manifests' = manifests \cup {m} /\ pointer' = m /\ m.kind = "failure"
      \/ UNCHANGED <<manifests, pointer>>
  OBVIOUS
<1> HIDE DEF m
<1>4. manifests' \subseteq Manifests /\ manifests \subseteq manifests'
  BY <1>2, <1>3 DEF IInv, TypeOK
<1>5. /\ CallersTyped' /\ FlightsTyped' /\ Control' /\ FlightsOwned'
      /\ Preferring' /\ Owning' = Owning
      /\ pc'[c] = "land" /\ work'[c] = None
      /\ \A d \in Callers \ {c} :
            /\ work'[d] = work[d]
            /\ pc'[d] \in Writing <=> pc[d] \in Writing
            /\ pc'[d] \in {"drop", "verify"} <=> pc[d] \in {"drop", "verify"}
  BY <1>1, <1>4, Settling
<1>6. TypeOK'
  <2>1. \A e \in manifests' : e.kind \in RetryKinds <=> e.until # None
    BY <1>2, <1>3 DEF IInv, TypeOK
  <2>2. pointer' \in {e \in manifests' : e.kind \in RetryKinds} \cup {None}
    BY <1>3 DEF IInv, TypeOK, RetryKinds
  <2>3. index' \in Seq(manifests')
    BY <1>4 DEF IInv, TypeOK
  <2> QED
    BY <1>4, <1>5, <2>1, <2>2, <2>3 DEF IInv, TypeOK, CallersTyped,
       FlightsTyped
<1>7. Revisions'
  BY <1>3, <1>5 DEF IInv, Revisions, Complete
<1>8. Queued'
  BY <1>1, <1>5, QueuedSame DEF IInv, Writing
<1>9. Metered'
  BY <1>5, MeteredSame DEF IInv
<1> QED
  BY <1>5, <1>6, <1>7, <1>8, <1>9 DEF IInv

LEMMA LandKeeps == ASSUME IInv, NEW c \in Callers, Land(c) PROVE IInv'
<1> USE DEF Land, store
<1>1. /\ pc[c] = "land" /\ Fetching(c) /\ call[c] \in Calls /\ Mode(c) \in Modes
      /\ call[c].hadValid => Mode(c) # "READ_WRITE"
      /\ flight[Mode(c)] # None /\ flight[Mode(c)].owner = c
      /\ flight[Mode(c)].outcome # Pending
  BY FetchingFacts DEF Fetching, IInv, FlightsOwned
<1>2. /\ flight'[Mode(c)] = None
      /\ \A m \in Modes \ {Mode(c)} : flight'[m] = flight[m]
  BY <1>1 DEF IInv, TypeOK
<1>3. FlightsTyped'
  <2>1. flight' \in [Modes -> Flights \cup {None}]
    BY DEF IInv, TypeOK
  <2> QED
    BY <1>2, <2>1 DEF IInv, TypeOK, FlightsTyped
<1>4. ASSUME Alone(c), pc'[c] \in {"idle", "context"}, call'[c] = call[c]
      PROVE  FlightsOwned'
  <2>1. \A d \in Callers \ {c} :
          /\ Fetching(d)' <=> Fetching(d)
          /\ Mode(d)' = Mode(d) /\ pc'[d] = pc[d]
          /\ Fetching(d) \/ pc[d] = "await" => Mode(d) \in Modes /\ Mode(d) # Mode(c)
    BY <1>1, <1>4, OwnersAreCallers DEF Alone, Fetching, Mode, IInv,
       FlightsOwned
  <2>2. ~Fetching(c)' /\ pc'[c] # "await"
    BY <1>4 DEF Fetching
  <2>3. \A m \in Modes : flight'[m] # None =>
          flight'[m] = flight[m] /\ m # Mode(c) /\ flight[m].owner \in Callers \ {c}
    BY <1>1, <1>2, OwnersAreCallers DEF IInv, FlightsOwned
  <2>4. \A m \in Modes : flight'[m] # None =>
          /\ Fetching(flight[m].owner)' /\ Mode(flight[m].owner)' = m
          /\ flight'[m].outcome = Pending <=> pc'[flight'[m].owner] # "land"
          /\ flight'[m].outcome \notin {Pending, Failed} =>
               flight'[m].outcome.kind \in EvidenceKinds
    BY <2>1, <2>3 DEF IInv, FlightsOwned
  <2> QED
    BY <1>2, <2>1, <2>2, <2>4 DEF IInv, FlightsOwned
<1>5. CASE Throw(c, "ERROR")
  <2>1. /\ Alone(c)
        /\ pc'[c] = "idle" /\ call'[c] = call[c] /\ via'[c] = None
        /\ got'[c] = None /\ work'[c] = None /\ status'[c] = "ERROR"
        /\ CallersTyped' /\ metrics' \in [Counters -> Nat]
        /\ Control' /\ Metered'
    BY <1>1, <1>5, Throwing
  <2>2. TypeOK'
    BY <1>3, <2>1 DEF IInv, TypeOK, CallersTyped
  <2>3. Revisions'
    BY <2>1, RevisionsFrame DEF IInv
  <2>4. FlightsOwned'
    BY <1>4, <2>1
  <2>5. Preferring'
    BY <1>1, <2>1, PreferringFrame DEF IInv, PreferringOf, Mode
  <2>6. Queued'
    BY <1>1, <2>1, QueuedSame DEF IInv, Alone, Writing
  <2> QED
    BY <2>1, <2>2, <2>3, <2>4, <2>5, <2>6 DEF IInv
<1>6. CASE /\ flight[Mode(c)].outcome # Failed
           /\ Takes(c, flight[Mode(c)].outcome, IF via[c] = "owner" THEN "owner" ELSE "reread")
           /\ UNCHANGED <<call, work, status, metrics>>
  <2>0. LET outcome == flight[Mode(c)].outcome
        IN  outcome \in manifests /\ outcome # None /\ outcome.kind \in EvidenceKinds
    BY <1>1, <1>6, Apart DEF IInv, TypeOK, FlightsOwned
  <2>1. /\ Alone(c) /\ pc'[c] = "context" /\ got'[c] = flight[Mode(c)].outcome
        /\ via'[c] = "owner" <=> via[c] = "owner"
        /\ via' \in [Callers -> Sources \cup {None}]
    BY <1>6 DEF IInv, TypeOK, Alone, Takes, Goto, Sources
  <2>2. TypeOK'
    BY <1>3, <1>6, <2>0, <2>1 DEF IInv, TypeOK, Takes, Goto, States
  <2>3. Control'
    BY <1>1, <1>6, <2>0, <2>1, ControlFrame DEF IInv, ControlOf, Early, Writing
  <2>4. Revisions'
    BY <1>6, <2>1, RevisionsFrame DEF IInv
  <2>5. FlightsOwned'
    BY <1>4, <1>6, <2>1
  <2>6. Preferring'
    BY <1>1, <1>6, <2>1, PreferringFrame DEF IInv, PreferringOf, Mode
  <2>7. Queued'
    BY <1>1, <2>1, QueuedSame DEF IInv, Alone, Writing
  <2>8. Metered'
    <3>1. Owning' = Owning
      BY <1>1, <2>1 DEF Owning, Alone
    <3> QED
      BY <1>6, <3>1, MeteredSame DEF IInv
  <2> QED
    BY <2>2, <2>3, <2>4, <2>5, <2>6, <2>7, <2>8 DEF IInv
<1> QED
  BY <1>5, <1>6

-----------------------------------------------------------------------------
LEMMA PublishKeeps == ASSUME IInv, NEW c \in Callers, Publish(c) PROVE IInv'
<1> USE DEF Publish, Goto
<1> DEFINE m == Drafted(c, Len(index) + 1)
<1>1. /\ pc[c] = "lock" /\ HoldsLock(c) /\ call[c] \in Calls
      /\ work[c] \in Works /\ work[c].kind \in EvidenceKinds
      /\ work[c].kind \notin RetryKinds => work[c].until = None
      /\ work[c].kind = "valid" => Complete(work[c].data)
  BY Apart DEF IInv, Control, ControlOf, Revisions, Writing
<1>2. /\ m \in Manifests /\ m.kind = work[c].kind /\ m.data = work[c].data
      /\ m.ctx = call[c].ctx /\ m.revision = Len(index) + 1
      /\ m.kind \in RetryKinds <=> m.until # None
  <2>1. Len(index) + 1 \in Nat
    OBVIOUS
  <2> QED
    BY <1>1, <2>1, DraftedIsManifest DEF IInv
<1>3. /\ manifests' = manifests \cup {m}
      /\ got' = [got EXCEPT ![c] = m]
      /\ \/ m.kind = "valid" /\ index' = Append(index, m) /\ Goto(c, "drop") /\ UNCHANGED pointer
         \/ m.kind = "partial" /\ pointer' = m /\ Goto(c, "verify") /\ UNCHANGED index
  BY <1>1, <1>2 DEF EvidenceKinds
<1>4. m # None
  BY <1>2, Apart
<1> HIDE DEF m
<1>5. /\ Alone(c) /\ pc'[c] \in {"drop", "verify"} /\ got'[c] = m
      /\ call' = call /\ via' = via /\ work' = work /\ status' = status
  BY <1>3 DEF IInv, TypeOK, Alone
<1>6. TypeOK'
  <2>1. manifests' \subseteq Manifests /\ manifests \subseteq manifests'
        /\ m \in manifests'
    BY <1>2, <1>3 DEF IInv, TypeOK
  <2>2. \A e \in manifests' : e.kind \in RetryKinds <=> e.until # None
    BY <1>2, <1>3 DEF IInv, TypeOK
  <2>3. pointer' \in {e \in manifests' : e.kind \in RetryKinds} \cup {None}
    BY <1>3 DEF IInv, TypeOK, RetryKinds
  <2>4. index' \in Seq(manifests')
    <3>1. index \in Seq(manifests')
      BY <2>1 DEF IInv, TypeOK
    <3> QED
      BY <1>3, <2>1, <3>1
  <2>5. got' \in [Callers -> manifests' \cup {None}]
    BY <1>3, <2>1 DEF IInv, TypeOK
  <2>6. pc' \in [Callers -> States]
    BY <1>3 DEF IInv, TypeOK, States
  <2>7. FlightsTyped'
    BY <2>1 DEF IInv, TypeOK, FlightsTyped
  <2> QED
    BY <2>1, <2>2, <2>3, <2>4, <2>5, <2>6, <2>7 DEF IInv, TypeOK
<1>7. Control'
  BY <1>1, <1>2, <1>4, <1>5, ControlFrame DEF IInv, Control, ControlOf, Early,
     Writing
<1>8. Revisions'
  <2>1. index \in Seq(manifests)
    BY DEF IInv, TypeOK
  <2>2. /\ \A i \in DOMAIN index' : index'[i].kind = "valid" /\ index'[i].revision = i
        /\ \A i \in DOMAIN index : i \in DOMAIN index' /\ index'[i] = index[i]
        /\ m.kind = "valid" => \E i \in DOMAIN index' : index'[i] = m
    <3>1. CASE index' = index /\ m.kind # "valid"
      BY <3>1 DEF IInv, Revisions
    <3>2. CASE index' = Append(index, m) /\ m.kind = "valid"
      <4>1. /\ DOMAIN index' = 1..(Len(index) + 1) /\ index'[Len(index) + 1] = m
            /\ \A i \in 1..Len(index) : index'[i] = index[i]
            /\ Len(index) \in Nat /\ DOMAIN index = 1..Len(index)
        BY <2>1, <3>2
      <4>2. ASSUME NEW i \in DOMAIN index'
            PROVE  index'[i].kind = "valid" /\ index'[i].revision = i
        <5>1. CASE i = Len(index) + 1
          BY <1>2, <3>2, <4>1, <5>1
        <5>2. CASE i # Len(index) + 1
          BY <4>1, <5>2 DEF IInv, Revisions
        <5> QED
          BY <5>1, <5>2
      <4>3. \A i \in DOMAIN index : i \in DOMAIN index' /\ index'[i] = index[i]
        BY <4>1
      <4>4. Len(index) + 1 \in DOMAIN index' /\ index'[Len(index) + 1] = m
        BY <4>1
      <4> QED
        BY <4>2, <4>3, <4>4
    <3> QED
      BY <1>3, <3>1, <3>2
  <2>3. \A n : Complete(n)' <=> Complete(n)
    BY DEF Complete
  <2>4. \A e \in manifests' : e.kind = "valid" =>
          Complete(e.data)' /\ \E i \in DOMAIN index' : index'[i] = e
    <3>1. \A e \in manifests : e.kind = "valid" =>
            Complete(e.data) /\ \E i \in DOMAIN index : index[i] = e
      BY DEF IInv, Revisions
    <3>2. m.kind = "valid" => Complete(m.data)
      BY <1>1, <1>2
    <3> QED
      BY <1>3, <2>2, <2>3, <3>1, <3>2
  <2>5. \A d \in Callers : work'[d] # None =>
          /\ work'[d].kind = "valid" => Complete(work[d].data)'
          /\ work'[d].kind \notin RetryKinds => work'[d].until = None
    BY <1>5, <2>3 DEF IInv, Revisions
  <2> QED
    BY <2>2, <2>4, <2>5 DEF Revisions
<1>9. FlightsOwned'
  BY <1>1, <1>5, FlightsFrame DEF IInv, Fetching, Mode
<1>10. Preferring'
  <2>1. index # <<>> => index' # <<>>
    BY <1>3
  <2> QED
    BY <1>1, <1>5, <2>1, PreferringFrame DEF IInv, Preferring, PreferringOf,
       Mode, Writing
<1>11. Queued'
  BY <1>1, <1>5, QueuedSame DEF IInv, Alone, Writing
<1>12. Metered'
  <2>1. Owning' = Owning
    BY <1>1, <1>5 DEF Owning, Alone
  <2> QED
    BY <2>1, MeteredSame DEF IInv
<1> QED
  BY <1>6, <1>7, <1>8, <1>9, <1>10, <1>11, <1>12 DEF IInv

LEMMA DropKeeps == ASSUME IInv, NEW c \in Callers, Drop(c) PROVE IInv'
<1> USE DEF Drop, Goto
<1>1. pc[c] = "drop" /\ pc'[c] = "verify"
  BY DEF IInv, TypeOK
<1>2. Alone(c)
  BY DEF Alone
<1>3. TypeOK'
  BY DEF IInv, TypeOK, States
<1>4. Control'
  BY <1>1, <1>2 DEF IInv, Control, ControlOf, Early, Writing
<1>5. Revisions'
  BY <1>2, RevisionsFrame DEF IInv
<1>6. FlightsOwned'
  BY <1>1, <1>2, FlightsFrame DEF IInv, Fetching, Mode
<1>7. Preferring'
  BY <1>1, <1>2 DEF IInv, Preferring, PreferringOf, Mode, Writing
<1>8. Queued'
  BY <1>1, <1>2, QueuedSame DEF IInv, Writing
<1>9. Metered'
  <2>1. Owning' = Owning
    BY <1>1, <1>2 DEF Owning
  <2> QED
    BY <2>1, MeteredSame DEF IInv
<1> QED
  BY <1>3, <1>4, <1>5, <1>6, <1>7, <1>8, <1>9 DEF IInv

\* The call reports its status.
LEMMA Returning ==
  ASSUME IInv, NEW c \in Callers, NEW reported \in Hits \cup Fetched,
         Return(c, reported), UNCHANGED <<call, got, manifests>>, pc[c] # "idle",
         via[c] = "owner" <=> reported \in Fetched,
         got[c] # None => got[c].ctx = call[c].ctx
  PROVE  /\ Alone(c)
         /\ pc'[c] = "idle" /\ via'[c] = None /\ work'[c] = None
         /\ status'[c] = reported
         /\ CallersTyped' /\ metrics' \in [Counters -> Nat]
         /\ Control' /\ Metered'
<1>1. /\ Alone(c)
      /\ pc'[c] = "idle" /\ via'[c] = None /\ work'[c] = None
      /\ status'[c] = reported
  BY DEF IInv, TypeOK, Return, Goto, Alone
<1>2. CallersTyped'
  BY DEF IInv, TypeOK, Return, Goto, CallersTyped, States
<1>3. Control'
  BY <1>1, ControlFrame DEF IInv, Control, ControlOf, Early, Writing
<1>4. Metered'
  <2>1. Owning' = Owning \ {c}
    BY <1>1 DEF Owning, Alone
  <2>2. via[c] = "owner" <=> reported \in Fetched \cup {"lost"}
    BY DEF Hits
  <2> QED
    BY <2>1, <2>2, MeteredEnd DEF IInv, Return
<1>5. metrics' \in [Counters -> Nat]
  BY Counting DEF IInv, Return
<1> QED
  BY <1>1, <1>2, <1>3, <1>4, <1>5

LEMMA WritingFacts ==
  ASSUME IInv, NEW c \in Callers, pc[c] \in Writing
  PROVE  /\ call[c] \in Calls /\ work[c] \in Works /\ work[c].kind \in EvidenceKinds
         /\ work[c].fetched => Fetching(c)
         /\ ~work[c].fetched /\ via[c] = "owner" => status[c] \in Fetched
         /\ ~work[c].fetched /\ via[c] # "owner" => status[c] \in {"HIT", "RETRYABLE_FAILURE_HIT"}
         /\ pc[c] # "idle" /\ pc[c] # "land"
         /\ pc[c] \in {"drop", "verify"} =>
              got[c] # None /\ got[c] \in manifests /\ got[c].ctx = call[c].ctx
              /\ got[c].kind \in EvidenceKinds /\ HoldsLock(c)
BY DEF IInv, TypeOK, Control, ControlOf, Queued, Writing, Fetching

\* Every way out of writeEvidence gives the request lock back.
LEMMA LeavingKeeps ==
  ASSUME IInv, NEW c \in Callers, pc[c] \in Writing, HoldsLock(c), Unlock,
         UNCHANGED <<now, store, answers, started>>,
         NEW outcome \in manifests \cup {Failed},
         outcome # Failed => pc[c] = "verify" /\ outcome = got[c],
         ReturnTo(c, outcome)
  PROVE  IInv'
<1> USE DEF store, Unlock
<1>0. requestQueue' \in Seq(Callers)
  BY DEF IInv, TypeOK, HoldsLock
<1>1. CASE work[c].fetched
  <2>1. Settle(c, outcome) /\ metrics' = metrics
    BY <1>1 DEF ReturnTo
  <2>2. manifests' \subseteq Manifests /\ Fetching(c) /\ pc[c] # "land"
        /\ (outcome # Failed => outcome.kind \in EvidenceKinds)
    BY <1>1, WritingFacts DEF IInv, TypeOK
  <2>3. /\ CallersTyped' /\ FlightsTyped' /\ Control' /\ FlightsOwned'
        /\ Preferring' /\ Owning' = Owning
        /\ pc'[c] = "land" /\ work'[c] = None
        /\ \A d \in Callers \ {c} :
              /\ work'[d] = work[d]
              /\ pc'[d] \in Writing <=> pc[d] \in Writing
              /\ pc'[d] \in {"drop", "verify"} <=> pc[d] \in {"drop", "verify"}
    BY <2>1, <2>2, Settling
  <2>4. TypeOK'
    BY <1>0, <2>1, <2>3 DEF IInv, TypeOK, CallersTyped, FlightsTyped
  <2>5. Revisions'
    BY <2>3, RevisionsKept DEF IInv
  <2>6. Queued'
    BY <2>3, QueuedLess DEF IInv, Writing
  <2>7. Metered'
    BY <2>1, <2>3, MeteredSame DEF IInv
  <2> QED
    BY <2>3, <2>4, <2>5, <2>6, <2>7 DEF IInv
<1>2. CASE ~work[c].fetched /\ outcome = Failed
  <2>1. Throw(c, "ERROR") /\ flight' = flight
    BY <1>2 DEF ReturnTo
  <2>2. /\ Alone(c)
        /\ pc'[c] = "idle" /\ call'[c] = call[c] /\ via'[c] = None
        /\ got'[c] = None /\ work'[c] = None /\ status'[c] = "ERROR"
        /\ CallersTyped' /\ metrics' \in [Counters -> Nat]
        /\ Control' /\ Metered'
    BY <2>1, WritingFacts, Throwing
  <2>3. TypeOK'
    BY <1>0, <2>1, <2>2 DEF IInv, TypeOK, CallersTyped
  <2>4. Revisions'
    BY <2>2, RevisionsFrame DEF IInv
  <2>5. FlightsOwned'
    BY <1>2, <2>1, <2>2, FlightsFrame DEF IInv, Fetching, Writing
  <2>6. Preferring'
    <3>1. PreferringOf(c)'
      BY <2>2 DEF IInv, Preferring, PreferringOf, Mode, Writing
    <3> QED
      BY <2>2, <3>1, PreferringFrame DEF IInv
  <2>7. Queued'
    BY <2>2, QueuedLess DEF IInv, Alone, Writing
  <2> QED
    BY <2>2, <2>3, <2>4, <2>5, <2>6, <2>7 DEF IInv
<1>3. CASE ~work[c].fetched /\ outcome # Failed
  <2>1. Return(c, status[c]) /\ UNCHANGED <<call, got, flight>>
    BY <1>3 DEF ReturnTo
  <2>2. /\ status[c] \in Hits \cup Fetched
        /\ via[c] = "owner" <=> status[c] \in Fetched
        /\ got[c].ctx = call[c].ctx
    BY <1>3, WritingFacts DEF Hits, Fetched
  <2>3. /\ Alone(c)
        /\ pc'[c] = "idle" /\ via'[c] = None /\ work'[c] = None
        /\ status'[c] = status[c]
        /\ CallersTyped' /\ metrics' \in [Counters -> Nat]
        /\ Control' /\ Metered'
    BY <2>1, <2>2, WritingFacts, Returning
  <2>4. TypeOK'
    BY <1>0, <2>1, <2>3 DEF IInv, TypeOK, CallersTyped
  <2>5. Revisions'
    BY <2>3, RevisionsFrame DEF IInv
  <2>6. FlightsOwned'
    BY <1>3, <2>1, <2>3, FlightsFrame DEF IInv, Fetching
  <2>7. Preferring'
    <3>1. PreferringOf(c)'
      BY <2>1, <2>3 DEF IInv, Preferring, PreferringOf, Mode, Writing
    <3> QED
      BY <2>3, <3>1, PreferringFrame DEF IInv
  <2>8. Queued'
    BY <2>3, QueuedLess DEF IInv, Alone, Writing
  <2> QED
    BY <2>3, <2>4, <2>5, <2>6, <2>7, <2>8 DEF IInv
<1> QED
  BY <1>1, <1>2, <1>3

LEMMA VerifyKeeps == ASSUME IInv, NEW c \in Callers, Verify(c) PROVE IInv'
<1>1. pc[c] \in Writing /\ pc[c] = "verify"
  BY DEF Verify, Writing
<1>2. HoldsLock(c) /\ got[c] \in manifests
  BY <1>1, WritingFacts
<1> QED
  BY <1>1, <1>2, LeavingKeeps DEF Verify

LEMMA WriteFailsKeeps == ASSUME IInv, NEW c \in Callers, WriteFails(c) PROVE IInv'
<1>1. pc[c] \in Writing /\ HoldsLock(c)
  <2>1. pc[c] \in Writing
    BY DEF WriteFails, Writing
  <2> QED
    BY <2>1, WritingFacts DEF WriteFails
<1>2. CASE ReturnTo(c, Failed)
  BY <1>1, <1>2, LeavingKeeps DEF WriteFails
<1>3. CASE /\ work[c].fetched /\ FailsWith(c) /\ Goto(c, "record")
           /\ UNCHANGED <<flight, call, via, got, status, metrics>>
  <2> USE DEF WriteFails, Goto, Unlock, store
  <2>1. Fetching(c) /\ pc[c] # "idle" /\ pc[c] # "land"
    BY <1>1, <1>3, WritingFacts
  <2>2. PICK kind \in {"failure", "final"} :
          work' = [work EXCEPT ![c] = Work(kind, 0, None, TRUE)]
    BY <1>3 DEF FailsWith
  <2>3. /\ work'[c] \in Works /\ work'[c].kind = kind /\ work'[c].fetched
        /\ work'[c].until = None
    BY <2>2 DEF IInv, TypeOK, Work, Works
  <2>4. Alone(c) /\ pc'[c] = "record"
    BY <1>3, <2>2 DEF IInv, TypeOK, Alone
  <2>5. TypeOK'
    <3>1. requestQueue' \in Seq(Callers)
      BY <1>1 DEF IInv, TypeOK, HoldsLock
    <3>2. work' \in [Callers -> Works \cup {None}]
      BY <2>2, <2>3 DEF IInv, TypeOK
    <3> QED
      BY <1>3, <3>1, <3>2 DEF IInv, TypeOK, States
  <2>6. Control'
    BY <1>3, <2>1, <2>3, <2>4, ControlFrame DEF IInv, Control, ControlOf,
       Early, Writing
  <2>7. Revisions'
    <3>1. UNCHANGED <<manifests, index, answers>>
      OBVIOUS
    <3> QED
      BY <2>3, <2>4, <3>1 DEF IInv, Revisions, Alone, Complete
  <2>8. FlightsOwned'
    BY <1>3, <2>1, <2>4, FlightsFrame DEF IInv, Fetching, Mode
  <2>9. Preferring'
    BY <1>3, <2>1, <2>4, FetchingFacts, PreferringFrame DEF IInv, PreferringOf,
       Mode
  <2>10. Queued'
    BY <1>1, <2>4, QueuedLess DEF IInv, Alone, Writing
  <2>11. Metered'
    <3>1. Owning' = Owning
      BY <1>3, <2>1, <2>4 DEF Owning
    <3> QED
      BY <1>3, <3>1, MeteredSame DEF IInv
  <2> QED
    BY <2>5, <2>6, <2>7, <2>8, <2>9, <2>10, <2>11 DEF IInv
<1> QED
  BY <1>2, <1>3 DEF WriteFails

LEMMA ContextKeeps == ASSUME IInv, NEW c \in Callers, Context(c) PROVE IInv'
<1> USE DEF Context, store, Goto
<1>1. /\ pc[c] = "context" /\ call[c] \in Calls /\ got[c] \in manifests /\ got[c] # None
      /\ got[c].kind \in EvidenceKinds
      /\ call[c].hadValid /\ Mode(c) = "READ_WRITE" => StatusOf(c) = "HIT"
      /\ StatusOf(c) \in IF via[c] = "owner" THEN Fetched
                         ELSE {"HIT", "RETRYABLE_FAILURE_HIT"}
  <2>1. /\ pc[c] = "context" /\ call[c] \in Calls /\ got[c] \in manifests /\ got[c] # None
        /\ got[c].kind \in EvidenceKinds
    BY DEF IInv, TypeOK, Control, ControlOf
  <2>2. StatusOf(c) \in IF via[c] = "owner" THEN Fetched
                        ELSE {"HIT", "RETRYABLE_FAILURE_HIT"}
    BY DEF StatusOf, Fetched
  <2>3. call[c].hadValid /\ Mode(c) = "READ_WRITE" =>
          got[c].kind = "valid" /\ via[c] # "owner"
    BY <2>1, Apart DEF IInv, Preferring, PreferringOf, Sources
  <2> QED
    BY <2>1, <2>2, <2>3 DEF StatusOf
<1>2. CASE Return(c, StatusOf(c)) /\ UNCHANGED requestQueue /\ ContextMatches(c, got[c])
  <2>1. /\ Alone(c)
        /\ pc'[c] = "idle" /\ via'[c] = None /\ work'[c] = None
        /\ status'[c] = StatusOf(c)
        /\ CallersTyped' /\ metrics' \in [Counters -> Nat]
        /\ Control' /\ Metered'
    <3>1. StatusOf(c) \in Hits \cup Fetched /\ (via[c] = "owner" <=> StatusOf(c) \in Fetched)
      BY <1>1 DEF Hits, Fetched
    <3> QED
      BY <1>1, <1>2, <3>1, Returning DEF ContextMatches
  <2>2. TypeOK'
    BY <1>2, <2>1 DEF IInv, TypeOK, CallersTyped
  <2>3. Revisions'
    BY <2>1, RevisionsFrame DEF IInv
  <2>4. FlightsOwned'
    BY <1>1, <2>1, FlightsFrame DEF IInv, Fetching
  <2>5. Preferring'
    <3>1. PreferringOf(c)'
      BY <1>1, <2>1 DEF IInv, Preferring, PreferringOf, Mode, Writing
    <3> QED
      BY <2>1, <3>1, PreferringFrame DEF IInv
  <2>6. Queued'
    BY <1>1, <1>2, <2>1, QueuedSame DEF IInv, Alone, Writing
  <2> QED
    BY <2>1, <2>2, <2>3, <2>4, <2>5, <2>6 DEF IInv
<1>3. CASE /\ status' = [status EXCEPT ![c] = StatusOf(c)]
           /\ work' = [work EXCEPT ![c] = Copied(got[c])]
           /\ requestQueue' = Append(requestQueue, c)
           /\ Goto(c, "lock") /\ UNCHANGED <<via, metrics>>
  <2>1. /\ Copied(got[c]) \in Works /\ ~Copied(got[c]).fetched
        /\ Copied(got[c]).kind = got[c].kind /\ Copied(got[c]).data = got[c].data
        /\ Copied(got[c]).until = got[c].until
    BY <1>1 DEF Copied, Work, Works, IInv, TypeOK, Manifests
  <2>2. /\ Alone(c) /\ pc'[c] = "lock" /\ status'[c] = StatusOf(c)
        /\ work'[c] = Copied(got[c])
    BY <1>3 DEF IInv, TypeOK, Alone
  <2>3. TypeOK'
    <3>1. requestQueue' \in Seq(Callers)
      BY <1>3 DEF IInv, TypeOK
    <3>2. work' \in [Callers -> Works \cup {None}]
      BY <1>3, <2>1 DEF IInv, TypeOK
    <3>3. status' \in [Callers -> Hits \cup Fetched \cup Errors \cup {None}]
      BY <1>1, <1>3 DEF IInv, TypeOK, Hits
    <3> QED
      BY <1>3, <3>1, <3>2, <3>3 DEF IInv, TypeOK, States
  <2>4. Control'
    BY <1>1, <1>3, <2>1, <2>2 DEF IInv, Control, ControlOf, Early
  <2>5. Revisions'
    <3>1. /\ got[c].kind = "valid" => Complete(got[c].data)
          /\ got[c].kind \notin RetryKinds => got[c].until = None
      BY <1>1 DEF IInv, TypeOK, Revisions
    <3>2. \A n : Complete(n)' <=> Complete(n)
      BY DEF Complete
    <3> QED
      BY <2>1, <2>2, <3>1, <3>2 DEF IInv, Revisions, Alone
  <2>6. FlightsOwned'
    BY <1>1, <2>1, <2>2, FlightsFrame DEF IInv, Fetching
  <2>7. Preferring'
    BY <1>1, <1>3, <2>1, <2>2 DEF IInv, Preferring, PreferringOf, Mode, Writing
  <2>8. Queued'
    BY <1>1, <1>3, <2>2, QueuedMore DEF IInv, Writing
  <2>9. Metered'
    <3>1. Owning' = Owning
      BY <1>1, <1>3, <2>2 DEF Owning
    <3> QED
      BY <1>3, <3>1, MeteredSame DEF IInv
  <2> QED
    BY <2>3, <2>4, <2>5, <2>6, <2>7, <2>8, <2>9 DEF IInv
<1> QED
  BY <1>2, <1>3

-----------------------------------------------------------------------------
LEMMA NextKeeps == IInv /\ [Next]_vars => IInv'
<1> SUFFICES ASSUME IInv, [Next]_vars PROVE IInv'
  OBVIOUS
<1>1. CASE UNCHANGED vars
  BY <1>1, StuttersKeep
<1>2. CASE Tick
  BY <1>2, TickKeeps
<1>3. ASSUME NEW c \in Callers, Start(c) \/ CacheOnly(c) \/ Step(c) PROVE IInv'
  BY <1>3, StartKeeps, CacheOnlyKeeps, LookupKeeps, StatKeeps,
     ReadPointerKeeps, ExpireKeeps, ReadFailsKeeps, JoinKeeps, CheckKeeps,
     AnswerKeeps, ProviderThrowsKeeps, RecordKeeps, LandKeeps, PublishKeeps,
     DropKeeps, VerifyKeeps, WriteFailsKeeps, ContextKeeps DEF Step
<1> QED
  BY <1>1, <1>2, <1>3 DEF Next

\* The inductive invariant.
THEOREM Invariance == Spec => []IInv
BY InitEstablishes, NextKeeps, PTL DEF Spec

\* Types, with readManifest's consistency: the manifests that say until when they
\* suppress a retry are exactly the retryable ones.
THEOREM TypeCorrect == Spec => []TypeOK
BY Invariance, PTL DEF IInv

\* A revision in the request index always replays a complete answer, and what a
\* call returned is stored in the caller's own context, valid evidence also in the
\* index (latestEvidence, materializeContext).
THEOREM WhatIsIndexedReplays == Spec => []IndexReplays
<1>1. IInv => IndexReplays
  <2> SUFFICES ASSUME IInv PROVE IndexReplays
    OBVIOUS
  <2>1. ASSUME NEW i \in DOMAIN index
        PROVE  index[i].kind = "valid" /\ index[i].revision = i
               /\ answers[index[i].data] = "complete"
    <3>1. index[i] \in manifests
      BY DEF IInv, TypeOK
    <3> QED
      BY <3>1 DEF IInv, Revisions, Complete
  <2>2. ASSUME NEW c \in Callers, pc[c] = "idle", got[c] # None
        PROVE  /\ got[c].ctx = call[c].ctx /\ got[c] \in manifests
               /\ got[c].kind = "valid" => \E i \in DOMAIN index : index[i] = got[c]
    <3>1. got[c] \in manifests
      BY <2>2 DEF IInv, TypeOK
    <3> QED
      BY <2>2, <3>1 DEF IInv, Control, ControlOf, Revisions
  <2> QED
    BY <2>1, <2>2 DEF IndexReplays
<1> QED
  BY <1>1, Invariance, PTL

\* A READ_WRITE call that begins when there is valid evidence neither calls the
\* provider nor is turned away by a retryable failure (latestEvidence before
\* cachedFailure, in execute).
THEOREM ValidIsPreferred == Spec => []PrefersValid
<1>1. IInv => PrefersValid
  BY Apart DEF IInv, Preferring, PreferringOf, PrefersValid, Sources, Errors,
     Hits
<1> QED
  BY <1>1, Invariance, PTL

\* Calls of one mode share one provider call, whoever awaits it has an owner still
\* fetching, the request lock is queued for by the writers, its holder first, and
\* every provider call is counted once (deduplicatedFetch, withRequestLock,
\* FileEvidenceCache.metrics).
THEOREM ProviderCallsAreShared == Spec => []FlightsShared
<1>1. IInv => FlightsShared
  <2> SUFFICES ASSUME IInv PROVE FlightsShared
    OBVIOUS
  <2>1. \A c, d \in Callers : c # d /\ Fetching(c) /\ Fetching(d) => Mode(c) # Mode(d)
    BY DEF IInv, FlightsOwned
  <2>2. ASSUME NEW c \in Callers, pc[c] = "await"
        PROVE  \E d \in Callers \ {c} : Fetching(d) /\ Mode(d) = Mode(c)
                 /\ flight[Mode(c)] = [owner |-> d, outcome |-> Pending]
    <3>1. Mode(c) \in Modes /\ flight[Mode(c)] # None
          /\ flight[Mode(c)].outcome = Pending
      BY <2>2, OwnersAreCallers DEF IInv, FlightsOwned
    <3>2. flight[Mode(c)] \in Flights
      BY <3>1 DEF IInv, TypeOK
    <3>3. /\ Fetching(flight[Mode(c)].owner) /\ Mode(flight[Mode(c)].owner) = Mode(c)
          /\ flight[Mode(c)].owner \in Callers \ {c}
          /\ flight[Mode(c)] = [owner |-> flight[Mode(c)].owner, outcome |-> Pending]
      BY <2>2, <3>1, <3>2 DEF IInv, FlightsOwned, Flights, Fetching
    <3> QED
      BY <3>3
  <2> QED
    BY <2>1, <2>2 DEF IInv, FlightsShared, Queued, Metered, Owning, Writing
<1> QED
  BY <1>1, Invariance, PTL

-----------------------------------------------------------------------------
(* The refinement.                                                         *)

\* What each step does to the index and to the pointer.
LEMMA StoreStep ==
  ASSUME IInv, [Next]_vars
  PROVE  \/ UNCHANGED <<index, pointer>>
         \/ index' = index /\ pointer' = None
         \/ \E m \in Manifests : /\ m.kind = "valid"
                                 /\ m.revision = Len(index) + 1
                                 /\ index' = Append(index, m)
                                 /\ pointer' = pointer
         \/ \E m \in Manifests : /\ m.kind \in RetryKinds
                                 /\ pointer' = m /\ index' = index
<1>1. CASE Tick \/ UNCHANGED vars
  BY <1>1 DEF Tick, vars, store
<1>2. ASSUME NEW c \in Callers, Start(c) \/ CacheOnly(c)
      PROVE  UNCHANGED <<index, pointer>>
  BY <1>2 DEF Start, CacheOnly, store
<1>3. ASSUME NEW c \in Callers,
             \/ Lookup(c) \/ Stat(c) \/ ReadPointer(c) \/ ReadFails(c) \/ Join(c)
             \/ Check(c) \/ Answer(c) \/ ProviderThrows(c) \/ Land(c)
             \/ Verify(c) \/ WriteFails(c) \/ Context(c)
      PROVE  UNCHANGED <<index, pointer>>
  BY <1>3 DEF Lookup, Stat, ReadPointer, ReadFails, Join, Check, Answer,
     ProviderThrows, Land, Verify, WriteFails, Context, store
<1>4. ASSUME NEW c \in Callers, Expire(c) \/ Drop(c)
      PROVE  index' = index /\ pointer' = None
  BY <1>4 DEF Expire, Drop
<1>5. ASSUME NEW c \in Callers, Record(c)
      PROVE  \/ UNCHANGED <<index, pointer>>
             \/ \E m \in Manifests : /\ m.kind \in RetryKinds
                                     /\ pointer' = m /\ index' = index
  <2>1. Drafted(c, 0) \in Manifests
    <3>1. /\ call[c] \in Calls /\ work[c] \in Works
          /\ work[c].kind \notin RetryKinds => work[c].until = None
      BY <1>5, Apart DEF Record, IInv, Control, ControlOf, Revisions
    <3> QED  BY <3>1, DraftedIsManifest DEF IInv
  <2>2. index' = index
    BY <1>5 DEF Record
  <2>3. pointer' = pointer \/ (/\ Drafted(c, 0).kind = "failure"
                               /\ pointer' = Drafted(c, 0))
    BY <1>5 DEF Record
  <2> QED  BY <2>1, <2>2, <2>3 DEF RetryKinds
<1>6. ASSUME NEW c \in Callers, Publish(c)
      PROVE  \/ \E m \in Manifests : /\ m.kind = "valid"
                                     /\ m.revision = Len(index) + 1
                                     /\ index' = Append(index, m)
                                     /\ pointer' = pointer
             \/ \E m \in Manifests : /\ m.kind \in RetryKinds
                                     /\ pointer' = m /\ index' = index
  <2> DEFINE m == Drafted(c, Len(index) + 1)
  <2>1. m \in Manifests /\ m.revision = Len(index) + 1
        /\ m.kind \in EvidenceKinds
    <3>1. /\ call[c] \in Calls /\ work[c] \in Works
          /\ work[c].kind \in EvidenceKinds
          /\ work[c].kind \notin RetryKinds => work[c].until = None
      BY <1>6, Apart DEF Publish, IInv, Control, ControlOf, Revisions, Writing
    <3>2. Len(index) + 1 \in Nat
      OBVIOUS
    <3> QED  BY <3>1, <3>2, DraftedIsManifest DEF IInv
  <2>2. IF m.kind = "valid" THEN index' = Append(index, m) /\ pointer' = pointer
        ELSE pointer' = m /\ index' = index
    BY <1>6 DEF Publish
  <2> HIDE DEF m
  <2> QED  BY <2>1, <2>2 DEF EvidenceKinds, RetryKinds
<1> QED  BY <1>1, <1>2, <1>3, <1>4, <1>5, <1>6 DEF Next, Step

LEMMA LogStep ==
  ASSUME IInv, [Next]_vars
  PROVE  [Log!Next]_<<[f \in {Fingerprint} |-> SeenLog],
                      [f \in {Fingerprint} |-> SeenPointer]>>
<1>1. index \in Seq(Manifests)
  BY DEF IInv, TypeOK
<1>2. CASE UNCHANGED <<index, pointer>>
  BY <1>2 DEF SeenLog, SeenPointer
<1>3. CASE index' = index /\ pointer' = None
  <2>1. Log!Lift(Fingerprint)
    BY <1>3 DEF Log!Lift, SeenLog, SeenPointer
  <2> QED  BY <2>1 DEF Log!Next
<1>4. ASSUME NEW m \in Manifests, m.kind = "valid",
             m.revision = Len(index) + 1, index' = Append(index, m),
             pointer' = pointer
      PROVE  Log!Next
  <2>1. SeenLog' = Append(SeenLog, Seen(m)) /\ Len(SeenLog) = Len(index)
    BY <1>1, <1>4 DEF SeenLog
  <2>2. SeenPointer' = SeenPointer
    BY <1>4 DEF SeenPointer
  <2>3. Seen(m).kind = "valid" /\ Seen(m).fp = Fingerprint
        /\ Seen(m).revision = Len(SeenLog) + 1
    BY <1>4, <2>1 DEF Seen
  <2>4. Log!Publish(Fingerprint, Seen(m))
    BY <2>1, <2>2, <2>3 DEF Log!Publish
  <2> QED  BY <2>4 DEF Log!Next
<1>5. ASSUME NEW m \in Manifests, m.kind \in RetryKinds, pointer' = m,
             index' = index
      PROVE  Log!Next
  <2>1. SeenPointer' = Seen(m) /\ SeenLog' = SeenLog
    BY <1>5, NoneAssumption DEF SeenPointer, SeenLog
  <2>2. Seen(m).kind \in {"retryable", "failure"} /\ Seen(m).fp = Fingerprint
    BY <1>5 DEF Seen, RetryKinds
  <2>3. Log!Suppress(Fingerprint, Seen(m))
    BY <2>1, <2>2 DEF Log!Suppress
  <2> QED  BY <2>3 DEF Log!Next
<1> QED  BY <1>2, <1>3, <1>4, <1>5, StoreStep

\* Lookups, copies, failures and expiries of any number of calls amount to a log
\* of numbered revisions and a pointer: no revision is lost, renumbered or
\* rewritten, and no partial result enters the log.
THEOREM CacheImplementsLog == Spec => ImplementsLog
<1>1. Init => Log!Init
  BY DEF Init, Log!Init, SeenLog, SeenPointer
<1>2. IInv /\ [Next]_vars =>
        [Log!Next]_<<[f \in {Fingerprint} |-> SeenLog],
                     [f \in {Fingerprint} |-> SeenPointer]>>
  BY LogStep
<1> QED
  BY <1>1, <1>2, Invariance, PTL DEF Spec, ImplementsLog, Log!Spec

=============================================================================
