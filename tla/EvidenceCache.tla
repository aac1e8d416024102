---------------------------- MODULE EvidenceCache ----------------------------
(***************************************************************************)
(* FileEvidenceCache.execute (evidence-cache.ts) for one request           *)
(* fingerprint: concurrent READ_WRITE, REFRESH and CACHE_ONLY calls that   *)
(* look up the latest revision and the retryable-failure pointer, share    *)
(* provider calls through the inFlight map, write evidence under the       *)
(* request lock, record provider failures outside it, and materialize a    *)
(* revision in their own context.  PointerFirst, NoFlight, KeepLock,       *)
(* AnyContext, StatusByMode and CopiedAsValid are faulty variants of the   *)
(* definition after them, for testing the properties.                      *)
(*                                                                         *)
(* A commit is one step here; EvidenceStore models its inside.  A call in  *)
(* mode BYPASS touches nothing of this state.  The provider permit is      *)
(* part of the provider's answering time.                                  *)
(***************************************************************************)
EXTENDS Integers, Sequences, FiniteSets, SequencesExt

CONSTANTS
  Callers,     \* concurrent calls of execute
  Contexts,    \* evidence contexts: role, profile, requested symbols ...
  None,        \* null
  TTL,         \* retryableFailureTtlMs
  MaxTime,     \* bound: the clock
  MaxCalls     \* bound: calls started

Modes == {"READ_WRITE", "REFRESH"}
Hits == {"HIT", "RETRYABLE_FAILURE_HIT", "CACHE_ONLY_HIT"}
Fetched == {"MISS", "REFRESH", "RETRYABLE_FAILURE"}
Errors == {"SUPPRESSED", "INDEX_MISSING", "ERROR"}

\* valid: VALID_EVIDENCE; partial: evidence whose cache_eligibility is
\* RETRYABLE_FAILURE; failure and final: failure manifests that are retryable
\* and that are not.  data numbers the provider's answers in order.
EvidenceKinds == {"valid", "partial"}
RetryKinds == {"partial", "failure"}
Manifests ==
  [kind : EvidenceKinds \cup {"failure", "final"}, data : Nat, ctx : Contexts,
   revision : Nat, until : Nat \cup {None}]

Pending == [kind |-> "pending"]
Failed == [kind |-> "failed"]
Flights == [owner : Callers, outcome : Manifests \cup {Pending, Failed}]
Sources == {"cache", "joined", "reread", "owner"}
Calls == [mode : Modes, ctx : Contexts, hadValid : BOOLEAN, late : BOOLEAN]

Works ==
  [kind : EvidenceKinds \cup {"failure", "final"}, data : Nat,
   until : Nat \cup {None}, fetched : BOOLEAN]

ASSUME NoneAssumption ==
  None \notin Nat \cup Manifests \cup Flights \cup Sources \cup Calls \cup Works
              \cup Hits \cup Fetched \cup Errors
ASSUME BoundAssumption ==
  /\ IsFiniteSet(Callers)
  /\ TTL \in Nat \ {0} /\ MaxTime \in Nat /\ MaxCalls \in Nat

VARIABLES
  now,           \* the clock
  manifests,     \* the immutable manifests that may be read again
  index,         \* the request index: valid manifests, oldest first
  pointer,       \* the retryable-failure index: a manifest or None
  answers,       \* what the provider answered: "complete" or "partial"
  requestQueue,  \* requestTails: the request lock's holder first
  flight,        \* inFlight: mode -> None or [owner, outcome]
  pc,            \* per caller: control state
  call,          \* per caller: mode and context; ghosts: was there valid
                 \* evidence, or an expired pointer, when it began
  via,           \* per caller: where its stored evidence came from, None when idle
  got,           \* per caller: its stored evidence, a manifest or None
  work,          \* per caller: what it is about to write
  status,        \* per caller: how its last call ended, kept when idle
  metrics,       \* the cache's metrics
  started        \* counter for the bound

store == <<manifests, index, pointer>>
caller == <<pc, call, via, got, work, status>>
vars == <<now, store, answers, requestQueue, flight, caller, metrics, started>>

Counters == Hits \cup Fetched \cup {"calls", "avoided", "failure_hits", "lost"}
Count(counters) ==
  metrics' = [k \in Counters |-> metrics[k] + (IF k \in counters THEN 1 ELSE 0)]

Init ==
  /\ now = 0
  /\ manifests = {} /\ index = <<>> /\ pointer = None
  /\ answers = <<>>
  /\ requestQueue = <<>>
  /\ flight = [m \in Modes |-> None]
  /\ pc = [c \in Callers |-> "idle"]
  /\ call = [c \in Callers |-> None]
  /\ via = [c \in Callers |-> None]
  /\ got = [c \in Callers |-> None]
  /\ work = [c \in Callers |-> None]
  /\ status = [c \in Callers |-> None]
  /\ metrics = [k \in Counters |-> 0]
  /\ started = 0

-----------------------------------------------------------------------------
Goto(c, state) == pc' = [pc EXCEPT ![c] = state]

\* A call that ended in an error after its own provider call leaves that call
\* in no counter but provider_calls; "lost" counts those for MetricsAddUp.
Throw(c, error) ==
  /\ Goto(c, "idle")
  /\ status' = [status EXCEPT ![c] = error]
  /\ via' = [via EXCEPT ![c] = None]
  /\ got' = [got EXCEPT ![c] = None]
  /\ work' = [work EXCEPT ![c] = None]
  /\ Count(IF via[c] = "owner" THEN {"lost"} ELSE {})
  /\ UNCHANGED call

Latest == IF index = <<>> THEN None ELSE Last(index)

PointerFirst(mode) == IF mode = "READ_WRITE" THEN "stat" ELSE "join"
FirstStep(mode) == IF mode = "READ_WRITE" THEN "lookup" ELSE "join"

Start(c) ==
  /\ pc[c] = "idle" /\ started < MaxCalls
  /\ \E mode \in Modes, ctx \in Contexts :
       /\ call' = [call EXCEPT ![c] =
            [mode |-> mode, ctx |-> ctx, hadValid |-> index # <<>>,
             late |-> pointer # None /\ pointer.until <= now]]
       /\ Goto(c, FirstStep(mode))
  /\ got' = [got EXCEPT ![c] = None]
  /\ status' = [status EXCEPT ![c] = None]
  /\ started' = started + 1
  /\ UNCHANGED <<now, store, answers, requestQueue, flight, via, work, metrics>>

\* CACHE_ONLY: exactEvidence over the manifest IDs the caller supplies reads
\* immutable files only, so it is one step and leaves nothing but the counters.
Replayable(ids, ctx) ==
  LET matching == {m \in ids : m.ctx = ctx}
  IN  \E m \in matching : matching = {m} /\ m.kind \in EvidenceKinds

CacheOnly(c) ==
  /\ pc[c] = "idle" /\ started < MaxCalls
  /\ \E ctx \in Contexts, ids \in SUBSET manifests :
       Count(IF Replayable(ids, ctx) THEN {"CACHE_ONLY_HIT", "avoided"} ELSE {})
  /\ started' = started + 1
  /\ UNCHANGED <<now, store, answers, requestQueue, flight, caller>>

-----------------------------------------------------------------------------
(* READ_WRITE before any provider call: latestEvidence, cachedFailure.     *)

Takes(c, manifest, source) ==
  /\ got' = [got EXCEPT ![c] = manifest]
  /\ via' = [via EXCEPT ![c] = source]
  /\ Goto(c, "context")

Lookup(c) ==
  /\ pc[c] = "lookup"
  /\ \/ Latest # None /\ Takes(c, Latest, "cache")
     \/ Latest = None /\ Goto(c, "stat") /\ UNCHANGED <<got, via>>
  /\ UNCHANGED <<now, store, answers, requestQueue, flight, call, work, status,
                 metrics, started>>

\* readFailureIndex stats the pointer file first ...
Stat(c) ==
  /\ pc[c] = "stat"
  /\ Goto(c, IF pointer = None THEN "join" ELSE "read")
  /\ UNCHANGED <<now, store, answers, requestQueue, flight, call, via, got, work,
                 status, metrics, started>>

\* ... and then reads it, by when it may be gone, replaced or expired.
ReadPointer(c) ==
  /\ pc[c] = "read"
  /\ \/ /\ pointer = None
        /\ Throw(c, "INDEX_MISSING")
     \/ /\ pointer # None
        /\ pointer.until <= now
        /\ Goto(c, "expire")
        /\ UNCHANGED <<call, via, got, work, status, metrics>>
     \/ /\ pointer # None
        /\ pointer.until > now
        /\ IF pointer.kind = "partial"
           THEN /\ Takes(c, pointer, "cache")
                /\ Count({"failure_hits"})
                /\ UNCHANGED <<call, work, status>>
           ELSE /\ Goto(c, "idle")
                /\ status' = [status EXCEPT ![c] = "SUPPRESSED"]
                /\ Count({"failure_hits"})
                /\ UNCHANGED <<call, via, got, work>>
  /\ UNCHANGED <<now, store, answers, requestQueue, flight, started>>

\* removeTrackedFile takes no request lock and checks nothing again.
Expire(c) ==
  /\ pc[c] = "expire"
  /\ pointer' = None
  /\ Goto(c, "join")
  /\ UNCHANGED <<now, manifests, index, answers, requestQueue, flight, call, via,
                 got, work, status, metrics, started>>

ReadFails(c) ==
  /\ pc[c] \in {"lookup", "stat", "read", "expire"}
  /\ Throw(c, "ERROR")
  /\ UNCHANGED <<now, store, answers, requestQueue, flight, started>>

-----------------------------------------------------------------------------
(* deduplicatedFetch and fetchAndStore.                                    *)

Mode(c) == call[c].mode
NoFlight(c) == None
Existing(c) == flight[Mode(c)]

\* The synchronous part: join the call in flight, or register one's own; a
\* refresh has counted its provider call by then.
Join(c) ==
  /\ pc[c] = "join"
  /\ \/ /\ Existing(c) # None
        /\ CASE Existing(c).outcome = Pending ->
                  Goto(c, "await") /\ UNCHANGED <<call, via, got, work, status, metrics>>
             [] Existing(c).outcome = Failed -> Throw(c, "ERROR")
             [] OTHER -> /\ Takes(c, Existing(c).outcome, "joined")
                         /\ UNCHANGED <<call, work, status, metrics>>
        /\ UNCHANGED flight
     \/ /\ Existing(c) = None
        /\ flight' = [flight EXCEPT ![Mode(c)] = [owner |-> c, outcome |-> Pending]]
        /\ IF Mode(c) = "REFRESH"
           THEN /\ Goto(c, "asking")
                /\ via' = [via EXCEPT ![c] = "owner"]
                /\ Count({"calls"})
           ELSE Goto(c, "check") /\ UNCHANGED <<via, metrics>>
        /\ UNCHANGED <<call, got, work, status>>
  /\ UNCHANGED <<now, store, answers, requestQueue, started>>

\* The flight's promise settles and every caller awaiting it goes on.
Settle(c, outcome) ==
  LET waiting == {d \in Callers : pc[d] = "await" /\ Mode(d) = Mode(c)}
  IN  /\ flight' = [flight EXCEPT ![Mode(c)].outcome = outcome]
      /\ pc' = [d \in Callers |->
           IF d = c THEN "land"
           ELSE IF d \notin waiting THEN pc[d]
           ELSE IF outcome = Failed THEN "idle" ELSE "context"]
      /\ got' = [d \in Callers |-> IF d \in waiting /\ outcome # Failed THEN outcome ELSE got[d]]
      /\ via' = [d \in Callers |->
           IF d \in waiting THEN IF outcome = Failed THEN None ELSE "joined" ELSE via[d]]
      /\ status' = [d \in Callers |->
           IF d \in waiting /\ outcome = Failed THEN "ERROR" ELSE status[d]]
      /\ work' = [work EXCEPT ![c] = None]
      /\ UNCHANGED call

\* The owner of a miss looks once more before it calls the provider.
Check(c) ==
  /\ pc[c] = "check"
  /\ \/ /\ Latest # None
        /\ Settle(c, Latest)
        /\ UNCHANGED metrics
     \/ /\ Latest = None
        /\ Goto(c, "asking")
        /\ via' = [via EXCEPT ![c] = "owner"]
        /\ Count({"calls"})
        /\ UNCHANGED <<flight, call, got, work, status>>
     \/ Settle(c, Failed) /\ UNCHANGED metrics
  /\ UNCHANGED <<now, store, answers, requestQueue, started>>

Work(kind, data, until, fetched) ==
  [kind |-> kind, data |-> data, until |-> until, fetched |-> fetched]

\* hasRetryableResultFailure decides what the answer is stored as.
Eligibility(answer) == IF answer = "partial" THEN "partial" ELSE "valid"

Answer(c) ==
  /\ pc[c] = "asking"
  /\ \E answer \in {"complete", "partial"} :
       /\ answers' = Append(answers, answer)
       /\ work' = [work EXCEPT ![c] =
            Work(Eligibility(answer), Len(answers) + 1, None, TRUE)]
  /\ requestQueue' = Append(requestQueue, c)
  /\ Goto(c, "lock")
  /\ UNCHANGED <<now, store, flight, call, via, got, status, metrics, started>>

\* isRetryableError decides whether a failure is recorded as retryable.
FailsWith(c) ==
  \E kind \in {"failure", "final"} :
    work' = [work EXCEPT ![c] = Work(kind, 0, None, TRUE)]

ProviderThrows(c) ==
  /\ pc[c] = "asking"
  /\ FailsWith(c)
  /\ Goto(c, "record")
  /\ UNCHANGED <<now, store, answers, requestQueue, flight, call, via, got, status,
                 metrics, started>>

\* The retryable_until of what is written: copied, or a TTL from now.
Expiry(w) == IF w.kind \in RetryKinds /\ w.until = None THEN now + TTL ELSE w.until

Drafted(c, revision) ==
  [kind |-> work[c].kind, data |-> work[c].data, ctx |-> call[c].ctx,
   revision |-> revision, until |-> Expiry(work[c])]

\* writeFailure, without the request lock; its own failure changes no more.  The
\* manifest of a final failure, which no index names, is not kept.
Record(c) ==
  /\ pc[c] = "record"
  /\ LET m == Drafted(c, 0)
     IN  \/ m.kind = "failure" /\ manifests' = manifests \cup {m} /\ pointer' = m
         \/ UNCHANGED <<manifests, pointer>>
  /\ Settle(c, Failed)
  /\ UNCHANGED <<now, index, answers, requestQueue, metrics, started>>

\* deduplicatedFetch's finally: the owner takes its flight out of the map.
Land(c) ==
  /\ pc[c] = "land"
  /\ flight' = [flight EXCEPT ![Mode(c)] = None]
  /\ \/ /\ flight[Mode(c)].outcome = Failed
        /\ Throw(c, "ERROR")
     \/ /\ flight[Mode(c)].outcome # Failed
        /\ Takes(c, flight[Mode(c)].outcome, IF via[c] = "owner" THEN "owner" ELSE "reread")
        /\ UNCHANGED <<call, work, status, metrics>>
  /\ UNCHANGED <<now, store, answers, requestQueue, started>>

-----------------------------------------------------------------------------
(* writeEvidence, under the request lock.                                  *)

HoldsLock(c) == requestQueue # <<>> /\ Head(requestQueue) = c
KeepLock == UNCHANGED requestQueue
Unlock == requestQueue' = Tail(requestQueue)

Publish(c) ==
  /\ pc[c] = "lock" /\ HoldsLock(c)
  /\ LET m == Drafted(c, Len(index) + 1)
     IN  /\ manifests' = manifests \cup {m}
         /\ IF m.kind = "valid"
            THEN index' = Append(index, m) /\ Goto(c, "drop") /\ UNCHANGED pointer
            ELSE pointer' = m /\ Goto(c, "verify") /\ UNCHANGED index
         /\ got' = [got EXCEPT ![c] = m]
  /\ UNCHANGED <<now, answers, requestQueue, flight, call, via, work, status,
                 metrics, started>>

\* Valid evidence lifts the suppression.
Drop(c) ==
  /\ pc[c] = "drop"
  /\ pointer' = None
  /\ Goto(c, "verify")
  /\ UNCHANGED <<now, manifests, index, answers, requestQueue, flight, call, via,
                 got, work, status, metrics, started>>

\* execute returns: the metrics and the status it reports.
Return(c, reported) ==
  /\ Goto(c, "idle")
  /\ status' = [status EXCEPT ![c] = reported]
  /\ via' = [via EXCEPT ![c] = None]
  /\ work' = [work EXCEPT ![c] = None]
  /\ Count({reported} \cup (IF reported \in Hits THEN {"avoided"} ELSE {}))

\* writeEvidence ends for fetchAndStore or for materializeContext.
ReturnTo(c, outcome) ==
  IF work[c].fetched
  THEN Settle(c, outcome) /\ UNCHANGED metrics
  ELSE /\ IF outcome = Failed THEN Throw(c, "ERROR")
          ELSE Return(c, status[c]) /\ UNCHANGED <<call, got>>
       /\ UNCHANGED flight

\* The new manifest and its objects read back.
Verify(c) ==
  /\ pc[c] = "verify"
  /\ ReturnTo(c, got[c])
  /\ Unlock
  /\ UNCHANGED <<now, store, answers, started>>

\* writeEvidence throws, before its commit or after it.  An EvidenceCacheError
\* goes to the caller; fetchAndStore records any other error as a failure of
\* the provider.
WriteFails(c) ==
  /\ pc[c] \in {"drop", "verify"} \/ (pc[c] = "lock" /\ HoldsLock(c))
  /\ Unlock
  /\ \/ ReturnTo(c, Failed)
     \/ /\ work[c].fetched
        /\ FailsWith(c)
        /\ Goto(c, "record")
        /\ UNCHANGED <<flight, call, via, got, status, metrics>>
  /\ UNCHANGED <<now, store, answers, started>>

-----------------------------------------------------------------------------
(* materializeContext and the end of execute.                              *)

AnyContext(c, m) == TRUE
ContextMatches(c, m) == m.ctx = call[c].ctx

StatusByMode(c) ==
  IF got[c].kind = "partial" THEN "RETRYABLE_FAILURE"
  ELSE IF Mode(c) = "REFRESH" THEN "REFRESH" ELSE "MISS"
StatusOf(c) ==
  IF got[c].kind = "partial"
  THEN IF via[c] = "owner" THEN "RETRYABLE_FAILURE" ELSE "RETRYABLE_FAILURE_HIT"
  ELSE IF via[c] = "owner"
       THEN IF Mode(c) = "REFRESH" THEN "REFRESH" ELSE "MISS"
       ELSE "HIT"

\* Evidence in another context is written again in the caller's: same results,
\* same eligibility, same expiry.
CopiedAsValid(m) == Work("valid", m.data, None, FALSE)
Copied(m) == Work(m.kind, m.data, m.until, FALSE)

Context(c) ==
  /\ pc[c] = "context"
  /\ IF ContextMatches(c, got[c])
     THEN Return(c, StatusOf(c)) /\ UNCHANGED requestQueue
     ELSE /\ status' = [status EXCEPT ![c] = StatusOf(c)]
          /\ work' = [work EXCEPT ![c] = Copied(got[c])]
          /\ requestQueue' = Append(requestQueue, c)
          /\ Goto(c, "lock")
          /\ UNCHANGED <<via, metrics>>
  /\ UNCHANGED <<now, store, answers, flight, call, got, started>>

Tick ==
  /\ now < MaxTime
  /\ now' = now + 1
  /\ UNCHANGED <<store, answers, requestQueue, flight, caller, metrics, started>>

Step(c) ==
  \/ Lookup(c) \/ Stat(c) \/ ReadPointer(c) \/ Expire(c) \/ ReadFails(c)
  \/ Join(c) \/ Check(c) \/ Answer(c) \/ ProviderThrows(c) \/ Record(c) \/ Land(c)
  \/ Publish(c) \/ Drop(c) \/ Verify(c) \/ WriteFails(c)
  \/ Context(c)

Next == Tick \/ \E c \in Callers : Start(c) \/ CacheOnly(c) \/ Step(c)

Spec == Init /\ [][Next]_vars

-----------------------------------------------------------------------------
States ==
  {"idle", "lookup", "stat", "read", "expire", "join", "await", "check", "asking",
   "record", "land", "lock", "drop", "verify", "context"}

\* readManifest's consistency check is part of the type: evidence and failures
\* that may be retried, and only those, say until when they suppress a retry.
TypeOK ==
  /\ now \in 0..MaxTime
  /\ manifests \subseteq Manifests
  /\ \A m \in manifests : m.kind \in RetryKinds <=> m.until # None
  /\ index \in Seq(manifests)
  /\ pointer \in {m \in manifests : m.kind \in RetryKinds} \cup {None}
  /\ answers \in Seq({"complete", "partial"})
  /\ requestQueue \in Seq(Callers)
  /\ flight \in [Modes -> Flights \cup {None}]
  /\ \A m \in Modes : flight[m] # None =>
       flight[m].outcome \in manifests \cup {Pending, Failed}
  /\ pc \in [Callers -> States]
  /\ call \in [Callers -> Calls \cup {None}]
  /\ via \in [Callers -> Sources \cup {None}]
  /\ got \in [Callers -> manifests \cup {None}]
  /\ work \in [Callers -> Works \cup {None}]
  /\ status \in [Callers -> Hits \cup Fetched \cup Errors \cup {None}]
  /\ metrics \in [Counters -> Nat]
  /\ started \in 0..MaxCalls

\* Between registering its fetch and taking it out of the map (inFlight).
Fetching(c) ==
  \/ pc[c] \in {"check", "asking", "record", "land"}
  \/ pc[c] \in {"lock", "drop", "verify"} /\ work[c].fetched
\* A revision in the request index always holds a complete answer of the
\* provider, however many calls joined, copied or retried it ("They never enter
\* the valid evidence index", docs/evidence-cache.md), and what a call returned
\* replays: its manifest carries the caller's own context and is stored for
\* good, valid evidence also in the index (materializeContext, attachMetadata).
IndexReplays ==
  /\ \A i \in DOMAIN index :
       index[i].kind = "valid" /\ index[i].revision = i
       /\ answers[index[i].data] = "complete"
  /\ \A c \in Callers : pc[c] = "idle" /\ got[c] # None =>
       /\ got[c].ctx = call[c].ctx /\ got[c] \in manifests
       /\ got[c].kind = "valid" => \E i \in DOMAIN index : index[i] = got[c]

\* A READ_WRITE call that begins when there is valid evidence neither calls the
\* provider nor is turned away by a later retryable failure
\* ("normal READ_WRITE requests prefer it over a later temporary failure").
PrefersValid ==
  \A c \in Callers : call[c] # None /\ Mode(c) = "READ_WRITE" /\ call[c].hadValid =>
    via[c] \notin {"owner", "joined"}
    /\ status[c] \notin {"SUPPRESSED", "INDEX_MISSING", "RETRYABLE_FAILURE_HIT"}

\* Calls of one mode share one provider call, and nobody waits for ever: whoever
\* awaits a flight has an owner that is still fetching, and the request lock is
\* queued for by exactly the calls that write, its holder first
\* (deduplicatedFetch's finally, withRequestLock's finally).  Every provider call
\* is accounted for by the one call that made it, as a miss, a refresh, a
\* retryable failure, an error or work under way (FileEvidenceCache.metrics).
FlightsShared ==
  /\ \A c, d \in Callers : c # d /\ Fetching(c) /\ Fetching(d) => Mode(c) # Mode(d)
  /\ \A c \in Callers : pc[c] = "await" =>
       \E d \in Callers \ {c} : Fetching(d) /\ Mode(d) = Mode(c)
         /\ flight[Mode(c)] = [owner |-> d, outcome |-> Pending]
  /\ IsInjective(requestQueue)
  /\ ToSet(requestQueue) = {c \in Callers : pc[c] \in {"lock", "drop", "verify"}}
  /\ \A c \in Callers : pc[c] \in {"drop", "verify"} => HoldsLock(c)
  /\ metrics["calls"] =
       metrics["MISS"] + metrics["REFRESH"] + metrics["RETRYABLE_FAILURE"]
       + metrics["lost"]
       + Cardinality({c \in Callers : pc[c] # "idle" /\ via[c] = "owner"})
  /\ metrics["avoided"] =
       metrics["HIT"] + metrics["RETRYABLE_FAILURE_HIT"] + metrics["CACHE_ONLY_HIT"]

\* "A later normal read retries after expiry": a READ_WRITE call that begins
\* after the pointer has expired does not end by failing to read that pointer
\* (readFailureIndex).
ExpiredReadRetries ==
  \A c \in Callers : call[c] # None /\ call[c].late => status[c] # "INDEX_MISSING"

\* What the calls do to one fingerprint's index and pointer is what RevisionLog
\* promises of it, so that commits as one step are a faithful view of
\* EvidenceStore, which implements the same log.
Fingerprint == "fingerprint"

Seen(m) ==
  [fp |-> Fingerprint, revision |-> m.revision, manifest |-> m,
   kind |-> IF m.kind = "partial" THEN "retryable" ELSE m.kind]

SeenLog == [i \in DOMAIN index |-> Seen(index[i])]
SeenPointer == IF pointer = None THEN None ELSE Seen(pointer)

Log == INSTANCE RevisionLog
         WITH Fingerprints <- {Fingerprint}, NoPointer <- None,
              Manifests <- {Seen(m) : m \in Manifests},
              log <- [f \in {Fingerprint} |-> SeenLog],
              retry <- [f \in {Fingerprint} |-> SeenPointer]
ImplementsLog == Log!Spec

=============================================================================
