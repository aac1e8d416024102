---------------------------- MODULE EvidenceStore ----------------------------
(***************************************************************************)
(* The storage layer of FileEvidenceCache (evidence-cache.ts): commit,     *)
(* writeImmutable, writeMutable, removeTrackedFile, the serialized storage *)
(* lock, the per-fingerprint request lock of writeEvidence, and the byte   *)
(* accounting behind the quota, with I/O errors at every step and crashes  *)
(* of the process between any two of them.                                 *)
(*                                                                         *)
(* A file is an object or a manifest; its name is its content.  A manifest *)
(* is the record of what readers tell apart: fingerprint, revision, kind   *)
(* and the objects it references.  Reads of files that nobody can change   *)
(* meanwhile are merged into the step that uses them.  One commit runs at  *)
(* a time, so its local variables are kept once, not per task.             *)
(*                                                                         *)
(* NeedsNoLock, OverQuotaBefore, FailureIgnored, AbandonKeepingTotal and   *)
(* RemoveFailsHolding are faulty variants of the definition that follows   *)
(* each; they test the properties and are used nowhere else.               *)
(***************************************************************************)
EXTENDS Integers, Sequences, FiniteSets

CONSTANTS
  Tasks,           \* concurrent requests of one process
  Fingerprints,    \* request fingerprints
  Objects,         \* content-addressed objects
  Payloads,        \* the sets of objects a provider answer may consist of
  Posix,           \* filesystemMode = "POSIX", else AZURE_FILES_SMB
  ObjectBytes, ManifestBytes, EntryBytes, PointerBytes,   \* file sizes
  MaxBytes,        \* the quota
  Unknown,         \* accountedBytes = null
  NoPointer,       \* no retryable-failure index
  NoOp,            \* no operation
  MutableFile,     \* the temp file of an index or a pointer
  Stamps,          \* values of recorded_at
  Revisions,       \* bound: revision numbers
  MaxOps,          \* bound: operations started
  MaxCrashes       \* bound: crashes of the process

\* writeEvidence stores valid evidence or a retryable partial result; the
\* kinds "failure" and "note" are the retryable and the final case of
\* writeFailure ("note" also stands for createManifestSet); "expire" is
\* cachedFailure removing an expired pointer.
EvidenceKinds == {"valid", "retryable"}
PointerKinds == {"retryable", "failure"}
Kinds == EvidenceKinds \cup {"failure", "note", "expire"}

Manifests ==
  [fp : Fingerprints, kind : Kinds \ {"expire"}, revision : Revisions,
   objects : SUBSET Objects, at : Stamps]

Operations == [kind : Kinds, fp : Fingerprints, payload : SUBSET Objects]

ASSUME PayloadAssumption == Payloads \subseteq SUBSET Objects
\* Both are named by SHA-256 digests.
ASSUME FiniteAssumption == IsFiniteSet(Objects) /\ IsFiniteSet(Fingerprints)
ASSUME PosixAssumption == Posix \in BOOLEAN
ASSUME SizeAssumption ==
  /\ ObjectBytes \in Nat /\ ManifestBytes \in Nat /\ EntryBytes \in Nat
  /\ PointerBytes \in Nat /\ MaxBytes \in Nat
ASSUME NullAssumption ==
  Unknown \notin Int /\ NoPointer \notin Manifests /\ NoOp \notin Operations
ASSUME RevisionAssumption == Revisions \subseteq Nat /\ 0 \in Revisions
ASSUME CountAssumption == MaxOps \in Nat /\ MaxCrashes \in Nat

VARIABLES
  files,           \* immutable files published under their content id
  index,           \* indexes/requests: fingerprint -> manifests, oldest first
  pointer,         \* failures/requests: fingerprint -> manifest or NoPointer
  temps,           \* temp files of the running commit
  orphans,         \* bytes in temp files that a crash left behind
  storeQueue,      \* storageTail: holder first
  requestQueue,    \* requestTails: fingerprint -> tasks, holder first
  accounted,       \* accountedBytes
  pc,              \* per task: control state
  op,              \* per task: kind, fingerprint and payload of its operation
  draft,           \* per task: the manifest being written
  base,            \* per task: the request index it was drafted from
  usage, delta,    \* locals of the running commit
  progress,        \* per missing immutable file of the running commit
  ops, crashes     \* counters for the bounds

disk == <<files, index, pointer, temps, orphans>>
commitLocals == <<usage, delta, progress>>
taskVars == <<pc, op, draft, base>>
vars == <<disk, storeQueue, requestQueue, accounted, taskVars, commitLocals,
          ops, crashes>>

Init ==
  /\ files = {}
  /\ index = [f \in Fingerprints |-> <<>>]
  /\ pointer = [f \in Fingerprints |-> NoPointer]
  /\ temps = {}
  /\ orphans = 0
  /\ storeQueue = <<>>
  /\ requestQueue = [f \in Fingerprints |-> <<>>]
  /\ accounted = Unknown
  /\ pc = [t \in Tasks |-> "idle"]
  /\ op = [t \in Tasks |-> NoOp]
  /\ draft = [t \in Tasks |-> NoOp]
  /\ base = [t \in Tasks |-> <<>>]
  /\ usage = 0
  /\ delta = 0
  /\ progress = <<>>
  /\ ops = 0
  /\ crashes = 0

-----------------------------------------------------------------------------
(* Sizes.                                                                  *)

\* The bytes of a set of objects and manifests, of all request indexes and of
\* all failure pointers.
FileBytes(set) ==
  Cardinality(set \cap Objects) * ObjectBytes
  + Cardinality(set \ Objects) * ManifestBytes

Entries == UNION {{f} \X DOMAIN index[f] : f \in Fingerprints}
Pointed == {f \in Fingerprints : pointer[f] # NoPointer}

MutableTotal ==
  Cardinality(Entries) * EntryBytes + Cardinality(Pointed) * PointerBytes

PublishedBytes == FileBytes(files) + MutableTotal

\* The size of the index or the pointer that a task writes.
MutableBytes(t) ==
  IF op[t].kind = "valid" THEN (Len(base[t]) + 1) * EntryBytes ELSE PointerBytes

\* The running commit is that of the storage lock's holder.
TempBytes ==
  FileBytes(temps \ {MutableFile})
  + IF MutableFile \in temps THEN MutableBytes(Head(storeQueue)) ELSE 0

\* diskUsage: every file below the cache directory, temp files included.
DiskUsage == PublishedBytes + TempBytes + orphans

PointerSize(f) == IF pointer[f] = NoPointer THEN 0 ELSE PointerBytes

\* The files of a task's commit, and by how much its mutable file grows.
Immutable(t) == draft[t].objects \cup {draft[t]}

MutableGrowth(t) ==
  CASE op[t].kind = "valid" -> MutableBytes(t) - Len(index[op[t].fp]) * EntryBytes
    [] op[t].kind \in PointerKinds -> MutableBytes(t) - PointerSize(op[t].fp)
    [] OTHER -> 0

-----------------------------------------------------------------------------
(* Operations begin; writeEvidence queues for its request lock.            *)

JoinStore(t) == storeQueue' = Append(storeQueue, t)

Begin(t) ==
  /\ pc[t] = "idle"
  /\ ops < MaxOps
  /\ \E k \in Kinds, f \in Fingerprints, objs \in Payloads, now \in Stamps :
       /\ op' = [op EXCEPT ![t] =
            [kind |-> k, fp |-> f,
             payload |-> IF k \in EvidenceKinds THEN objs ELSE {}]]
       /\ CASE k \in EvidenceKinds ->
                 /\ pc' = [pc EXCEPT ![t] = "locking"]
                 /\ requestQueue' = [requestQueue EXCEPT ![f] = Append(@, t)]
                 /\ UNCHANGED <<storeQueue, draft>>
            [] k \in {"failure", "note"} ->
                 /\ pc' = [pc EXCEPT ![t] = "storing"]
                 /\ draft' = [draft EXCEPT ![t] =
                      [fp |-> f, kind |-> k, revision |-> 0, objects |-> {},
                       at |-> now]]
                 /\ JoinStore(t)
                 /\ UNCHANGED requestQueue
            [] k = "expire" ->
                 /\ pc' = [pc EXCEPT ![t] = "removing"]
                 /\ JoinStore(t)
                 /\ UNCHANGED <<requestQueue, draft>>
  /\ ops' = ops + 1
  /\ UNCHANGED <<disk, accounted, base, commitLocals, crashes>>

NeedsNoLock(t) == TRUE
HoldsRequest(t) == requestQueue[op[t].fp] # <<>> /\ Head(requestQueue[op[t].fp]) = t

\* Under the request lock: read the index, number the revision, call commit.
Draft(t) ==
  /\ pc[t] = "locking" /\ HoldsRequest(t)
  /\ Len(index[op[t].fp]) + 1 \in Revisions
  /\ base' = [base EXCEPT ![t] = index[op[t].fp]]
  /\ \E now \in Stamps :
       draft' = [draft EXCEPT ![t] =
         [fp |-> op[t].fp, kind |-> op[t].kind, revision |-> Len(index[op[t].fp]) + 1,
          objects |-> op[t].payload, at |-> now]]
  /\ JoinStore(t)
  /\ pc' = [pc EXCEPT ![t] = "storing"]
  /\ UNCHANGED <<disk, requestQueue, accounted, op, commitLocals,
                 ops, crashes>>

\* withRequestLock's finally: hand the lock on, if the task holds one.
Finish(t) ==
  /\ pc' = [pc EXCEPT ![t] = "idle"]
  /\ op' = [op EXCEPT ![t] = NoOp]
  /\ draft' = [draft EXCEPT ![t] = NoOp]
  /\ base' = [base EXCEPT ![t] = <<>>]
  /\ requestQueue' =
       IF op[t].kind \in EvidenceKinds
       THEN [requestQueue EXCEPT ![op[t].fp] = Tail(@)] ELSE requestQueue

DraftFails(t) ==
  /\ pc[t] = "locking" /\ HoldsRequest(t)
  /\ Finish(t)
  /\ UNCHANGED <<disk, storeQueue, accounted, commitLocals, ops, crashes>>

-----------------------------------------------------------------------------
(* commit, under the storage lock.                                         *)

HoldsStore(t) == storeQueue # <<>> /\ Head(storeQueue) = t
ReleaseStore == storeQueue' = Tail(storeQueue)

\* The task leaves both locks, having thrown or being done; reading its own
\* manifest back before the request lock is released changes nothing.
Exit(t) == ReleaseStore /\ Finish(t)

Missing(t) == Immutable(t) \ files
CommitDelta(t) == FileBytes(Missing(t)) + MutableGrowth(t)
CurrentUsage == IF accounted = Unknown THEN DiskUsage ELSE accounted
OverQuotaBefore(t) == CurrentUsage > MaxBytes
OverQuota(t) == CurrentUsage + CommitDelta(t) > MaxBytes

OpenCommit(t) ==
  /\ pc[t] = "storing" /\ HoldsStore(t)
  /\ ~OverQuota(t)
  /\ accounted' = CurrentUsage
  /\ usage' = CurrentUsage
  /\ delta' = CommitDelta(t)
  /\ progress' = [file \in Missing(t) |-> "todo"]
  /\ pc' = [pc EXCEPT ![t] = "staging"]
  /\ UNCHANGED <<disk, storeQueue, requestQueue, op, draft, base, ops, crashes>>

RejectOverQuota(t) ==
  /\ pc[t] = "storing" /\ HoldsStore(t)
  /\ OverQuota(t)
  /\ accounted' = CurrentUsage
  /\ Exit(t)
  /\ UNCHANGED <<disk, commitLocals, ops, crashes>>

\* A directory scan, a stat or the check of an existing file fails.
OpenFails(t) ==
  /\ pc[t] = "storing" /\ HoldsStore(t)
  /\ accounted' \in {accounted, CurrentUsage}
  /\ Exit(t)
  /\ UNCHANGED <<disk, commitLocals, ops, crashes>>

StagingStep(t, file) ==
  /\ pc[t] = "staging" /\ file \in DOMAIN progress
  /\ UNCHANGED <<index, pointer, orphans, storeQueue, requestQueue, accounted,
                 taskVars, usage, delta, ops, crashes>>

Becomes(file, state) == progress' = [progress EXCEPT ![file] = state]

\* writeImmutable, each file on its own: temp file written, synced, verified;
StageFile(t, file) ==
  /\ StagingStep(t, file) /\ progress[file] = "todo"
  /\ Becomes(file, "staged")
  /\ temps' = temps \cup {file}
  /\ UNCHANGED files

\* linked (POSIX, the temp file stays) or renamed (SMB) to its final name;
PublishFile(t, file) ==
  /\ StagingStep(t, file) /\ progress[file] = "staged"
  /\ Becomes(file, "published")
  /\ files' = files \cup {file}
  /\ temps' = IF Posix THEN temps ELSE temps \ {file}

\* read back, the temp file removed.
SettleFile(t, file) ==
  /\ StagingStep(t, file) /\ progress[file] = "published"
  /\ Becomes(file, "done")
  /\ temps' = temps \ {file}
  /\ UNCHANGED files

\* Any of these steps may throw; the finally block removes the temp file and a
\* published file stays.  That the removal itself fails is left out.
FileFails(t, file) ==
  /\ StagingStep(t, file) /\ progress[file] \in {"todo", "staged", "published"}
  /\ Becomes(file, "failed")
  /\ temps' = temps \ {file}
  /\ UNCHANGED files

Settled == \A file \in DOMAIN progress : progress[file] \in {"done", "failed"}
FailureIgnored == FALSE
AnyFailed == \E file \in DOMAIN progress : progress[file] = "failed"

EndCommit == usage' = 0 /\ delta' = 0 /\ progress' = <<>>

\* mapWithConcurrency returns or rethrows only when every write has settled.
AbandonKeepingTotal(t) ==
  /\ pc[t] = "staging" /\ Settled /\ AnyFailed
  /\ accounted' = usage
  /\ EndCommit /\ Exit(t)
  /\ UNCHANGED <<disk, ops, crashes>>

AbandonCommit(t) ==
  /\ pc[t] = "staging" /\ Settled /\ AnyFailed
  /\ accounted' = Unknown
  /\ EndCommit /\ Exit(t)
  /\ UNCHANGED <<disk, ops, crashes>>

AllPublished(t) == pc[t] = "staging" /\ Settled /\ ~AnyFailed

StageMutable(t) ==
  /\ AllPublished(t) /\ op[t].kind # "note"
  /\ temps' = temps \cup {MutableFile}
  /\ pc' = [pc EXCEPT ![t] = "renaming"]
  /\ UNCHANGED <<files, index, pointer, orphans, storeQueue, requestQueue,
                 accounted, op, draft, base, commitLocals, ops, crashes>>

RenameMutable(t) ==
  /\ pc[t] = "renaming"
  /\ IF op[t].kind = "valid"
     THEN /\ index' = [index EXCEPT ![op[t].fp] = Append(base[t], draft[t])]
          /\ UNCHANGED pointer
     ELSE /\ pointer' = [pointer EXCEPT ![op[t].fp] = draft[t]]
          /\ UNCHANGED index
  /\ temps' = temps \ {MutableFile}
  /\ pc' = [pc EXCEPT ![t] = "verifying"]
  /\ UNCHANGED <<files, orphans, storeQueue, requestQueue, accounted, op, draft,
                 base, commitLocals, ops, crashes>>

\* Staging the mutable file, the rename, or the read-back after it fails.
MutableFails(t) ==
  /\ \/ AllPublished(t) /\ op[t].kind # "note"
     \/ pc[t] \in {"renaming", "verifying"}
  /\ temps' = temps \ {MutableFile}
  /\ accounted' = Unknown
  /\ EndCommit /\ Exit(t)
  /\ UNCHANGED <<files, index, pointer, orphans, ops, crashes>>

\* commit returns.  writeEvidence then queues to remove the failure pointer of
\* a fingerprint that has valid evidence; any other operation is done.
CloseCommit(t) ==
  /\ \/ pc[t] = "verifying"
     \/ AllPublished(t) /\ op[t].kind = "note"
  /\ accounted' = usage + delta
  /\ EndCommit
  /\ IF op[t].kind = "valid"
     THEN /\ storeQueue' = Append(Tail(storeQueue), t)
          /\ pc' = [pc EXCEPT ![t] = "removing"]
          /\ UNCHANGED <<requestQueue, op, draft, base>>
     ELSE Exit(t)
  /\ UNCHANGED <<disk, ops, crashes>>

\* removeTrackedFile of the failure pointer.
RemovePointer(t) ==
  /\ pc[t] = "removing" /\ HoldsStore(t)
  /\ pointer' = [pointer EXCEPT ![op[t].fp] = NoPointer]
  /\ accounted' = IF accounted = Unknown THEN Unknown
                  ELSE accounted - PointerSize(op[t].fp)
  /\ Exit(t)
  /\ UNCHANGED <<files, index, temps, orphans, commitLocals, ops, crashes>>

\* The stat fails, or the removal of a file that is there.
RemoveFailsHolding(t) ==
  /\ pc[t] = "removing" /\ HoldsStore(t)
  /\ Finish(t)
  /\ UNCHANGED <<disk, storeQueue, accounted, commitLocals, ops, crashes>>

RemoveFails(t) ==
  /\ pc[t] = "removing" /\ HoldsStore(t)
  /\ \/ accounted' = accounted
     \/ pointer[op[t].fp] # NoPointer /\ accounted' = Unknown
  /\ Exit(t)
  /\ UNCHANGED <<disk, commitLocals, ops, crashes>>

-----------------------------------------------------------------------------
(* The process.                                                            *)

\* The scan before the server listens (or any time the lock is free).
Warmup ==
  /\ storeQueue = <<>> /\ accounted = Unknown
  /\ accounted' = DiskUsage
  /\ UNCHANGED <<disk, storeQueue, requestQueue, taskVars, commitLocals, ops,
                 crashes>>

\* The process dies and is restarted: what is on disk stays, temp files too.
Crash ==
  /\ crashes < MaxCrashes
  /\ orphans' = orphans + TempBytes
  /\ temps' = {}
  /\ storeQueue' = <<>>
  /\ requestQueue' = [f \in Fingerprints |-> <<>>]
  /\ accounted' = Unknown
  /\ pc' = [t \in Tasks |-> "idle"]
  /\ op' = [t \in Tasks |-> NoOp]
  /\ draft' = [t \in Tasks |-> NoOp]
  /\ base' = [t \in Tasks |-> <<>>]
  /\ EndCommit
  /\ crashes' = crashes + 1
  /\ UNCHANGED <<files, index, pointer, ops>>

FileStep(t) ==
  \E file \in DOMAIN progress :
    StageFile(t, file) \/ PublishFile(t, file) \/ SettleFile(t, file)
    \/ FileFails(t, file)

CommitStep(t) ==
  \/ OpenCommit(t) \/ RejectOverQuota(t) \/ OpenFails(t) \/ FileStep(t)
  \/ AbandonCommit(t) \/ StageMutable(t) \/ RenameMutable(t) \/ MutableFails(t)
  \/ CloseCommit(t)

TaskStep(t) ==
  Draft(t) \/ DraftFails(t) \/ CommitStep(t) \/ RemovePointer(t) \/ RemoveFails(t)

Next == Warmup \/ Crash \/ \E t \in Tasks : Begin(t) \/ TaskStep(t)

Spec == Init /\ [][Next]_vars

\* A file operation of the running process eventually returns or throws.
Fairness == \A t \in Tasks : WF_vars(TaskStep(t))

LiveSpec == Spec /\ Fairness

-----------------------------------------------------------------------------
TypeOK ==
  /\ files \subseteq Objects \cup Manifests
  /\ index \in [Fingerprints -> Seq(Manifests)]
  /\ pointer \in [Fingerprints -> Manifests \cup {NoPointer}]
  /\ temps \subseteq Objects \cup Manifests \cup {MutableFile}
  /\ orphans \in Nat
  /\ storeQueue \in Seq(Tasks)
  /\ requestQueue \in [Fingerprints -> Seq(Tasks)]
  /\ accounted \in Int \cup {Unknown}
  /\ pc \in [Tasks -> {"idle", "locking", "storing", "staging", "renaming",
                       "verifying", "removing"}]
  /\ op \in [Tasks -> Operations \cup {NoOp}]
  /\ \A t \in Tasks : pc[t] = "idle" <=> op[t] = NoOp
  /\ draft \in [Tasks -> Manifests \cup {NoOp}]
  /\ base \in [Tasks -> Seq(Manifests)]
  /\ usage \in Int /\ delta \in Int
  /\ DOMAIN progress \subseteq Objects \cup Manifests
  /\ ops \in Nat /\ crashes \in Nat

Committing(t) == pc[t] \in {"staging", "renaming", "verifying"}
NoCommit == \A t \in Tasks : ~Committing(t)

\* The in-memory total equals a full scan whenever no commit is half done,
\* after deletions, rejected writes, partial failures and restarts alike
\* (accountedBytes; "maintained by exact write and deletion deltas"), and what
\* readers can see never outgrows maxBytes, not even halfway through a commit.
QuotaAccounted ==
  /\ NoCommit /\ accounted # Unknown => accounted = DiskUsage
  /\ PublishedBytes <= MaxBytes

Complete(m) == {m} \cup m.objects \subseteq files

\* A request index or a failure pointer never names a manifest or an object
\* that is not completely published, whatever fails and wherever the process
\* dies (commit publishes mutable files last).
IndexClosed ==
  \A f \in Fingerprints :
    /\ \A i \in DOMAIN index[f] : Complete(index[f][i])
    /\ pointer[f] # NoPointer => Complete(pointer[f])

\* To a reader the cache is a log of numbered revisions and a failure pointer:
\* no revision is lost, repeated or renumbered by concurrent writers, failures
\* or restarts, and no failure enters the log.
Log == INSTANCE RevisionLog WITH log <- index, retry <- pointer
ImplementsLog == Log!Spec

\* Every operation ends, so both locks are always handed on.
OperationsEnd == \A t \in Tasks : pc[t] # "idle" ~> pc[t] = "idle"

=============================================================================
