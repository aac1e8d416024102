------------------------ MODULE EvidenceStoreProofs ------------------------
(***************************************************************************)
(* Proofs about EvidenceStore, for any tasks, fingerprints, objects, sizes *)
(* and quota, any number of I/O errors and crashes.  The inductive         *)
(* invariant says who holds the two locks, that a draft was numbered after *)
(* the index its task protects with the request lock, and that a commit    *)
(* whose immutable writes all succeeded has its files on disk.             *)
(***************************************************************************)
EXTENDS EvidenceStore, SequenceTheorems, FiniteSetTheorems, TLAPS

States == {"idle", "locking", "storing", "staging", "renaming", "verifying",
           "removing"}

Types ==
  /\ index \in [Fingerprints -> Seq(Manifests)]
  /\ pointer \in [Fingerprints -> Manifests \cup {NoPointer}]
  /\ storeQueue \in Seq(Tasks)
  /\ requestQueue \in [Fingerprints -> Seq(Tasks)]
  /\ pc \in [Tasks -> States]
  /\ op \in [Tasks -> Operations \cup {NoOp}]
  /\ draft \in [Tasks -> Manifests \cup {NoOp}]
  /\ base \in [Tasks -> Seq(Manifests)]
  /\ \A t \in Tasks : pc[t] # "idle" => op[t] \in Operations

Evidence(t) == op[t].kind \in EvidenceKinds

\* The task at work in a commit heads the storage queue, and an evidence write
\* past its wait heads the request queue of its fingerprint.
Locks ==
  \A t \in Tasks :
    /\ Committing(t) => HoldsStore(t)
    /\ pc[t] \in States \ {"idle", "locking"} /\ Evidence(t) => HoldsRequest(t)
    /\ pc[t] = "locking" => Evidence(t)

Drafted(t) == pc[t] \in {"storing", "staging", "renaming"}

\* A draft belongs to its operation, and its number follows the index that is
\* on disk now.
Drafts ==
  \A t \in Tasks : Drafted(t) =>
    /\ draft[t] \in Manifests
    /\ draft[t].kind = op[t].kind /\ draft[t].fp = op[t].fp
    /\ op[t].kind # "expire"
    /\ pc[t] = "renaming" => op[t].kind # "note"
    /\ Evidence(t) => /\ base[t] = index[op[t].fp]
                      /\ draft[t].revision = Len(base[t]) + 1

\* Whatever a commit found or reports as published is on disk.
Staged ==
  \A t \in Tasks :
    /\ pc[t] = "staging" => Immutable(t) \subseteq files \cup DOMAIN progress
    /\ pc[t] = "staging" =>
         \A file \in DOMAIN progress :
           progress[file] \in {"published", "done"} => file \in files
    /\ pc[t] = "renaming" => Immutable(t) \subseteq files

StoreInv == Types /\ Locks /\ Drafts /\ Staged /\ IndexClosed

-----------------------------------------------------------------------------
(* Lemmas about the locks.                                                 *)

\* A queue passes from its head to the next only by its holder.
LEMMA QueueAppend ==
  ASSUME NEW S, NEW s \in Seq(S), NEW e \in S
  PROVE  /\ Append(s, e) \in Seq(S)
         /\ s # <<>> => Append(s, e) # <<>> /\ Head(Append(s, e)) = Head(s)
  OBVIOUS

LEMMA QueueTail ==
  ASSUME NEW S, NEW s \in Seq(S), s # <<>>
  PROVE  Tail(s) \in Seq(S)
  BY HeadTailProperties

\* Finish leaves every other task's hold on its request lock alone.
LEMMA FinishEffect ==
  ASSUME Types, Locks, NEW t \in Tasks, pc[t] # "idle",
         pc[t] = "locking" => HoldsRequest(t), Finish(t)
  PROVE  /\ requestQueue' \in [Fingerprints -> Seq(Tasks)]
         /\ pc' = [pc EXCEPT ![t] = "idle"]
         /\ pc' \in [Tasks -> States]
         /\ op' = [op EXCEPT ![t] = NoOp]
         /\ op' \in [Tasks -> Operations \cup {NoOp}]
         /\ draft' = [draft EXCEPT ![t] = NoOp]
         /\ draft' \in [Tasks -> Manifests \cup {NoOp}]
         /\ base' = [base EXCEPT ![t] = <<>>]
         /\ base' \in [Tasks -> Seq(Manifests)]
         /\ \A u \in Tasks \ {t} :
              pc[u] \in States \ {"idle", "locking"} /\ Evidence(u)
                => HoldsRequest(u)'
<1>1. op[t] \in Operations /\ op[t].fp \in Fingerprints
  BY DEF Types, Operations
<1>2. CASE Evidence(t)
  <2>1. HoldsRequest(t)
    BY <1>2 DEF Locks, Types, States
  <2>2. Tail(requestQueue[op[t].fp]) \in Seq(Tasks)
    BY <1>1, <2>1, QueueTail DEF HoldsRequest, Types
  <2>3. requestQueue' = [requestQueue EXCEPT ![op[t].fp] = Tail(@)]
    BY <1>2 DEF Finish, Evidence
  <2>4. ASSUME NEW u \in Tasks \ {t}, Evidence(u),
               pc[u] \in States \ {"idle", "locking"}
        PROVE  HoldsRequest(u)'
    <3>1. HoldsRequest(u) /\ op[u] \in Operations /\ op[u].fp \in Fingerprints
      BY <2>4 DEF Locks, Types, Operations
    <3>2. op[u].fp # op[t].fp
      BY <2>1, <3>1 DEF HoldsRequest
    <3>3. op'[u] = op[u]
      BY <2>4 DEF Finish, Types
    <3>4. QED  BY <1>1, <2>3, <3>1, <3>2, <3>3 DEF HoldsRequest, Types
  <2>5. QED  BY <1>1, <2>2, <2>3, <2>4 DEF Finish, Types, States
<1>3. CASE ~Evidence(t)
  BY <1>3 DEF Finish, Evidence, Types, States, Locks, HoldsRequest
<1>4. QED  BY <1>2, <1>3

\* Only the holder of the storage lock is inside a commit.
LEMMA OneCommitter ==
  ASSUME Types, Locks, NEW t \in Tasks, HoldsStore(t),
         NEW u \in Tasks, Committing(u)
  PROVE  u = t
  BY DEF Locks, HoldsStore

\* Leaving both locks, with or without an error, keeps the invariant.
LEMMA ExitKeeps ==
  ASSUME StoreInv, NEW t \in Tasks, HoldsStore(t),
         pc[t] \in States \ {"idle", "locking"}, Exit(t),
         index' = index, files' = files,
         \/ pointer' = pointer
         \/ pointer' = [pointer EXCEPT ![op[t].fp] = NoPointer]
  PROVE  StoreInv'
<1> USE DEF StoreInv
<1>1. storeQueue' \in Seq(Tasks)
  BY QueueTail DEF Exit, ReleaseStore, HoldsStore, Types
<1>2. Types' /\ \A u \in Tasks \ {t} :
                  /\ pc'[u] = pc[u] /\ op'[u] = op[u]
                  /\ draft'[u] = draft[u] /\ base'[u] = base[u]
  <2>1. op[t] \in Operations /\ op[t].fp \in Fingerprints
    BY DEF Types, Operations
  <2>2. pointer' \in [Fingerprints -> Manifests \cup {NoPointer}]
    BY <2>1 DEF Types
  <2>3. /\ requestQueue' \in [Fingerprints -> Seq(Tasks)]
        /\ pc' = [pc EXCEPT ![t] = "idle"] /\ pc' \in [Tasks -> States]
        /\ op' = [op EXCEPT ![t] = NoOp]
        /\ op' \in [Tasks -> Operations \cup {NoOp}]
        /\ draft' = [draft EXCEPT ![t] = NoOp]
        /\ draft' \in [Tasks -> Manifests \cup {NoOp}]
        /\ base' = [base EXCEPT ![t] = <<>>]
        /\ base' \in [Tasks -> Seq(Manifests)]
    BY FinishEffect DEF Exit
  <2>4. \A u \in Tasks \ {t} :
          /\ pc'[u] = pc[u] /\ op'[u] = op[u]
          /\ draft'[u] = draft[u] /\ base'[u] = base[u]
    BY <2>3 DEF Types
  <2>5. \A u \in Tasks : pc'[u] # "idle" => op'[u] \in Operations
    BY <2>3, <2>4 DEF Types
  <2>6. Types'
    BY <1>1, <2>2, <2>3, <2>5 DEF Types
  <2>7. QED  BY <2>4, <2>6
<1>3. pc'[t] = "idle" /\ \A u \in Tasks : ~Committing(u)'
  <2>1. pc'[t] = "idle"
    BY FinishEffect DEF Exit, Types
  <2>2. ASSUME NEW u \in Tasks, Committing(u)' PROVE FALSE
    BY <1>2, <2>1, <2>2, OneCommitter DEF Committing
  <2>3. QED  BY <2>1, <2>2
<1>4. Locks'
  <2>1. ASSUME NEW u \in Tasks
        PROVE  /\ pc'[u] \in States \ {"idle", "locking"} /\ Evidence(u)'
                    => HoldsRequest(u)'
               /\ pc'[u] = "locking" => Evidence(u)'
    BY <1>2, <1>3, FinishEffect DEF Exit, Locks, Evidence
  <2>2. QED  BY <1>3, <2>1 DEF Locks
<1>5. Drafts'
  BY <1>2, <1>3 DEF Drafts, Drafted, Evidence
<1>6. Staged'
  BY <1>3 DEF Staged, Committing
<1>7. IndexClosed'
  <2>1. op[t] \in Operations /\ op[t].fp \in Fingerprints
    BY DEF Types, Operations
  <2>2. QED  BY <2>1 DEF IndexClosed, Complete, Types
<1>8. QED  BY <1>2, <1>4, <1>5, <1>6, <1>7

-----------------------------------------------------------------------------
(* The actions.                                                            *)

\* Queueing behind others takes nobody's lock away.
LEMMA JoinKeeps ==
  ASSUME Types, NEW t \in Tasks, JoinStore(t)
  PROVE  /\ storeQueue' \in Seq(Tasks)
         /\ \A u \in Tasks : HoldsStore(u) => HoldsStore(u)'
  BY QueueAppend DEF JoinStore, HoldsStore, Types

SameHeads ==
  \A g \in Fingerprints :
    requestQueue[g] # <<>> =>
      requestQueue'[g] # <<>> /\ Head(requestQueue'[g]) = Head(requestQueue[g])

LEMMA EnqueueKeeps ==
  ASSUME Types, NEW t \in Tasks, NEW f \in Fingerprints,
         requestQueue' = [requestQueue EXCEPT ![f] = Append(@, t)]
  PROVE  requestQueue' \in [Fingerprints -> Seq(Tasks)] /\ SameHeads
<1>1. requestQueue \in [Fingerprints -> Seq(Tasks)]
  BY DEF Types
<1>2. Append(requestQueue[f], t) \in Seq(Tasks)
  BY <1>1, QueueAppend
<1>3. ASSUME NEW g \in Fingerprints, requestQueue[g] # <<>>
      PROVE  requestQueue'[g] # <<>>
             /\ Head(requestQueue'[g]) = Head(requestQueue[g])
  <2>1. CASE g = f
    <3>1. requestQueue'[g] = Append(requestQueue[g], t)
      BY <1>1, <2>1
    <3>2. requestQueue[g] \in Seq(Tasks)
      BY <1>1
    <3>3. QED  BY <1>3, <3>1, <3>2, QueueAppend
  <2>2. CASE g # f
    BY <1>1, <1>3, <2>2
  <2>3. QED  BY <2>1, <2>2
<1>4. QED  BY <1>1, <1>2, <1>3 DEF SameHeads

LEMMA BeginKeeps ==
  ASSUME StoreInv, NEW t \in Tasks, Begin(t)
  PROVE  StoreInv'
<1> USE DEF StoreInv
<1>1. PICK k \in Kinds, f \in Fingerprints, objs \in Payloads, now \in Stamps :
        /\ op' = [op EXCEPT ![t] =
             [kind |-> k, fp |-> f,
              payload |-> IF k \in EvidenceKinds THEN objs ELSE {}]]
        /\ \/ /\ k \in EvidenceKinds
              /\ pc' = [pc EXCEPT ![t] = "locking"]
              /\ requestQueue' = [requestQueue EXCEPT ![f] = Append(@, t)]
              /\ UNCHANGED <<storeQueue, draft>>
           \/ /\ k \in {"failure", "note"}
              /\ pc' = [pc EXCEPT ![t] = "storing"]
              /\ draft' = [draft EXCEPT ![t] =
                   [fp |-> f, kind |-> k, revision |-> 0, objects |-> {},
                    at |-> now]]
              /\ JoinStore(t)
              /\ UNCHANGED requestQueue
           \/ /\ k = "expire"
              /\ pc' = [pc EXCEPT ![t] = "removing"]
              /\ JoinStore(t)
              /\ UNCHANGED <<requestQueue, draft>>
  BY DEF Begin, EvidenceKinds, Kinds
<1>2. UNCHANGED <<disk, base, commitLocals>> /\ pc[t] = "idle"
  BY DEF Begin
<1>3. op'[t] \in Operations /\ op'[t].kind = k /\ op'[t].fp = f
      /\ op' \in [Tasks -> Operations \cup {NoOp}]
  BY <1>1, PayloadAssumption DEF Operations, Types
<1>4. Types'
  <2>1. storeQueue' \in Seq(Tasks)
    BY <1>1, JoinKeeps DEF Types
  <2>2. requestQueue' \in [Fingerprints -> Seq(Tasks)]
    <3>1. CASE requestQueue' = requestQueue
      BY <3>1 DEF Types
    <3>2. CASE requestQueue' = [requestQueue EXCEPT ![f] = Append(@, t)]
      BY <3>2, EnqueueKeeps
    <3>3. QED  BY <1>1, <3>1, <3>2
  <2>3. pc' \in [Tasks -> States]
    BY <1>1 DEF Types, States
  <2>4. k \in {"failure", "note"} =>
          [fp |-> f, kind |-> k, revision |-> 0, objects |-> {}, at |-> now]
            \in Manifests
    BY RevisionAssumption DEF Manifests, Kinds
  <2>5. draft' \in [Tasks -> Manifests \cup {NoOp}]
    BY <1>1, <2>4 DEF Types
  <2>6. \A u \in Tasks : pc'[u] # "idle" => op'[u] \in Operations
    BY <1>1, <1>3 DEF Types
  <2>7. QED  BY <1>2, <1>3, <2>1, <2>2, <2>3, <2>5, <2>6 DEF Types, disk
<1>5. \A u \in Tasks \ {t} :
        pc'[u] = pc[u] /\ op'[u] = op[u] /\ draft'[u] = draft[u]
  BY <1>1 DEF Types
<1>6. pc'[t] \in {"locking", "storing", "removing"}
  BY <1>1 DEF Types
<1>7. \A u \in Tasks : HoldsStore(u) => HoldsStore(u)'
  BY <1>1, JoinKeeps DEF HoldsStore
<1>8. SameHeads
  <2>1. CASE requestQueue' = requestQueue
    BY <2>1 DEF SameHeads
  <2>2. CASE requestQueue' = [requestQueue EXCEPT ![f] = Append(@, t)]
    BY <2>2, EnqueueKeeps
  <2>3. QED  BY <1>1, <2>1, <2>2
<1>9. Locks'
  <2>1. ASSUME NEW u \in Tasks \ {t}
        PROVE  /\ Committing(u)' => HoldsStore(u)'
               /\ pc'[u] \in States \ {"idle", "locking"} /\ Evidence(u)'
                    => HoldsRequest(u)'
               /\ pc'[u] = "locking" => Evidence(u)'
    <3>1. Committing(u)' => HoldsStore(u)'
      BY <1>5, <1>7 DEF Locks, Committing
    <3>2. pc'[u] = "locking" => Evidence(u)'
      BY <1>5 DEF Locks, Evidence
    <3>3. ASSUME pc'[u] \in States \ {"idle", "locking"}, Evidence(u)'
          PROVE  HoldsRequest(u)'
      <4>1. HoldsRequest(u)
        BY <1>5, <3>3 DEF Locks, Evidence
      <4>2. op[u].fp \in Fingerprints
        BY <1>5, <3>3 DEF Types, Operations
      <4>3. QED  BY <1>5, <1>8, <4>1, <4>2 DEF HoldsRequest, SameHeads
    <3>4. QED  BY <3>1, <3>2, <3>3
  <2>2. /\ ~Committing(t)'
        /\ pc'[t] # "locking" => ~Evidence(t)'
        /\ pc'[t] = "locking" => Evidence(t)'
    BY <1>1, <1>3, <1>6 DEF Committing, Evidence, EvidenceKinds, Types
  <2>3. QED  BY <2>1, <2>2 DEF Locks
<1>10. Drafts'
  <2>1. ASSUME Drafted(t)'
        PROVE  /\ draft'[t] \in Manifests
               /\ draft'[t].kind = op'[t].kind /\ draft'[t].fp = op'[t].fp
               /\ op'[t].kind # "expire" /\ pc'[t] # "renaming" /\ ~Evidence(t)'
    <3>1. k \in {"failure", "note"}
          /\ draft'[t] = [fp |-> f, kind |-> k, revision |-> 0, objects |-> {},
                          at |-> now]
      BY <1>1, <2>1 DEF Drafted, Types
    <3>2. draft'[t] \in Manifests
      BY <3>1, RevisionAssumption DEF Manifests, Kinds
    <3>3. QED
      BY <1>3, <1>6, <3>1, <3>2 DEF Evidence, EvidenceKinds
  <2>2. QED
    BY <1>2, <1>5, <2>1 DEF Drafts, Drafted, Evidence, disk
<1>11. Staged'
  BY <1>2, <1>5, <1>6 DEF Staged, Immutable, disk, commitLocals
<1>12. IndexClosed'
  BY <1>2 DEF IndexClosed, Complete, disk
<1>13. QED  BY <1>4, <1>9, <1>10, <1>11, <1>12

LEMMA DraftKeeps ==
  ASSUME StoreInv, NEW t \in Tasks, Draft(t)
  PROVE  StoreInv'
<1> USE DEF StoreInv
<1>1. PICK now \in Stamps :
        draft' = [draft EXCEPT ![t] =
          [fp |-> op[t].fp, kind |-> op[t].kind,
           revision |-> Len(index[op[t].fp]) + 1,
           objects |-> op[t].payload, at |-> now]]
  BY DEF Draft
<1>2. /\ pc[t] = "locking" /\ HoldsRequest(t)
      /\ Len(index[op[t].fp]) + 1 \in Revisions
      /\ base' = [base EXCEPT ![t] = index[op[t].fp]]
      /\ pc' = [pc EXCEPT ![t] = "storing"]
      /\ JoinStore(t)
      /\ UNCHANGED <<disk, requestQueue, op, commitLocals>>
  BY DEF Draft
<1>3. /\ op[t] \in Operations /\ op[t].fp \in Fingerprints /\ Evidence(t)
      /\ op[t].kind \in Kinds \ {"expire"}
  BY <1>2 DEF Types, Operations, Locks, Evidence, EvidenceKinds, Kinds
<1>4. /\ draft'[t] \in Manifests
      /\ draft'[t].fp = op[t].fp /\ draft'[t].kind = op[t].kind
      /\ draft'[t].revision = Len(index[op[t].fp]) + 1
  BY <1>1, <1>2, <1>3 DEF Types, Operations, Manifests
<1>5. base'[t] = index[op[t].fp] /\ index[op[t].fp] \in Seq(Manifests)
  BY <1>2, <1>3 DEF Types
<1>6. Types'
  <2>1. storeQueue' \in Seq(Tasks)
    BY <1>2, JoinKeeps
  <2>2. pc' \in [Tasks -> States] /\ base' \in [Tasks -> Seq(Manifests)]
        /\ draft' \in [Tasks -> Manifests \cup {NoOp}]
    BY <1>1, <1>2, <1>4, <1>5 DEF Types, States
  <2>3. \A u \in Tasks : pc'[u] # "idle" => op'[u] \in Operations
    BY <1>2, <1>3 DEF Types
  <2>4. QED  BY <1>2, <2>1, <2>2, <2>3 DEF Types, disk
<1>7. \A u \in Tasks \ {t} :
        pc'[u] = pc[u] /\ draft'[u] = draft[u] /\ base'[u] = base[u]
  BY <1>1, <1>2 DEF Types
<1>8. pc'[t] = "storing"
  BY <1>2 DEF Types
<1>9. Locks'
  <2>1. \A u \in Tasks : HoldsStore(u) => HoldsStore(u)'
    BY <1>2, JoinKeeps
  <2>2. \A u \in Tasks : (HoldsRequest(u) <=> HoldsRequest(u)')
                         /\ (Evidence(u) <=> Evidence(u)')
    BY <1>2 DEF HoldsRequest, Evidence
  <2>3. QED  BY <1>2, <1>7, <1>8, <2>1, <2>2 DEF Locks, Committing
<1>10. Drafts'
  <2>1. index' = index /\ op' = op
    BY <1>2 DEF disk
  <2>2. QED
    BY <1>3, <1>4, <1>5, <1>7, <1>8, <2>1 DEF Drafts, Drafted, Evidence, Kinds
<1>11. Staged'
  BY <1>2, <1>7, <1>8 DEF Staged, Immutable, disk, commitLocals
<1>12. IndexClosed'
  BY <1>2 DEF IndexClosed, Complete, disk
<1>13. QED  BY <1>6, <1>9, <1>10, <1>11, <1>12

LEMMA DraftFailsKeeps ==
  ASSUME StoreInv, NEW t \in Tasks, DraftFails(t)
  PROVE  StoreInv'
<1> USE DEF StoreInv
<1>1. /\ pc[t] = "locking" /\ HoldsRequest(t) /\ Finish(t)
      /\ UNCHANGED <<disk, storeQueue, commitLocals>>
  BY DEF DraftFails
<1>2. /\ requestQueue' \in [Fingerprints -> Seq(Tasks)]
      /\ pc' = [pc EXCEPT ![t] = "idle"] /\ pc' \in [Tasks -> States]
      /\ op' = [op EXCEPT ![t] = NoOp]
      /\ op' \in [Tasks -> Operations \cup {NoOp}]
      /\ draft' = [draft EXCEPT ![t] = NoOp]
      /\ draft' \in [Tasks -> Manifests \cup {NoOp}]
      /\ base' = [base EXCEPT ![t] = <<>>]
      /\ base' \in [Tasks -> Seq(Manifests)]
      /\ \A u \in Tasks \ {t} :
           pc[u] \in States \ {"idle", "locking"} /\ Evidence(u)
             => HoldsRequest(u)'
  BY <1>1, FinishEffect
<1>3. pc'[t] = "idle" /\ \A u \in Tasks \ {t} :
        pc'[u] = pc[u] /\ op'[u] = op[u] /\ draft'[u] = draft[u] /\ base'[u] = base[u]
  BY <1>2 DEF Types
<1>4. Types'
  <2>1. \A u \in Tasks : pc'[u] # "idle" => op'[u] \in Operations
    BY <1>3 DEF Types
  <2>2. QED  BY <1>1, <1>2, <2>1 DEF Types, disk
<1>5. Locks'
  <2>1. \A u \in Tasks : HoldsStore(u) <=> HoldsStore(u)'
    BY <1>1 DEF HoldsStore
  <2>2. ASSUME NEW u \in Tasks
        PROVE  /\ pc'[u] \in States \ {"idle", "locking"} /\ Evidence(u)'
                    => HoldsRequest(u)'
               /\ pc'[u] = "locking" => Evidence(u)'
    BY <1>2, <1>3 DEF Locks, Evidence
  <2>3. QED  BY <1>3, <2>1, <2>2 DEF Locks, Committing
<1>6. Drafts'
  BY <1>1, <1>3 DEF Drafts, Drafted, Evidence, disk
<1>7. Staged'
  BY <1>1, <1>3 DEF Staged, Immutable, disk, commitLocals
<1>8. IndexClosed'
  BY <1>1 DEF IndexClosed, Complete, disk
<1>9. QED  BY <1>4, <1>5, <1>6, <1>7, <1>8

LEMMA OpenCommitKeeps ==
  ASSUME StoreInv, NEW t \in Tasks, OpenCommit(t)
  PROVE  StoreInv'
<1> USE DEF StoreInv
<1>1. /\ pc[t] = "storing" /\ HoldsStore(t)
      /\ progress' = [file \in Missing(t) |-> "todo"]
      /\ pc' = [pc EXCEPT ![t] = "staging"]
      /\ UNCHANGED <<disk, storeQueue, requestQueue, op, draft, base>>
  BY DEF OpenCommit
<1>2. pc'[t] = "staging" /\ \A u \in Tasks \ {t} : pc'[u] = pc[u]
  BY <1>1 DEF Types
<1>3. \A u \in Tasks \ {t} : ~Committing(u)
  BY <1>1, OneCommitter
<1>4. Types'
  BY <1>1, <1>2 DEF Types, States, disk
<1>5. Locks'
  BY <1>1, <1>2 DEF Locks, Committing, HoldsStore, HoldsRequest, Evidence, States
<1>6. Drafts'
  BY <1>1, <1>2 DEF Drafts, Drafted, Evidence, disk
<1>7. Staged'
  <2>1. Immutable(t)' = Immutable(t) /\ files' = files
    BY <1>1 DEF Immutable, disk
  <2>2. Immutable(t) \subseteq files \cup DOMAIN progress'
    BY <1>1 DEF Missing
  <2>3. \A file \in DOMAIN progress' : progress'[file] = "todo"
    BY <1>1
  <2>4. QED  BY <1>2, <1>3, <2>1, <2>2, <2>3 DEF Staged, Committing
<1>8. IndexClosed'
  BY <1>1 DEF IndexClosed, Complete, disk
<1>9. QED  BY <1>4, <1>5, <1>6, <1>7, <1>8

LEMMA FileStepKeeps ==
  ASSUME StoreInv, NEW t \in Tasks, FileStep(t)
  PROVE  StoreInv'
<1> USE DEF StoreInv
<1>1. PICK file \in DOMAIN progress :
        StageFile(t, file) \/ PublishFile(t, file) \/ SettleFile(t, file)
        \/ FileFails(t, file)
  BY DEF FileStep
<1>2. /\ pc[t] = "staging"
      /\ UNCHANGED <<index, pointer, storeQueue, requestQueue, pc, op, draft, base>>
  BY <1>1 DEF StageFile, PublishFile, SettleFile, FileFails, StagingStep, taskVars
<1>3. PICK state \in {"staged", "published", "done", "failed"} :
        /\ progress' = [progress EXCEPT ![file] = state]
        /\ files \subseteq files'
        /\ state = "published" => file \in files'
        /\ state = "done" => progress[file] = "published"
  BY <1>1 DEF StageFile, PublishFile, SettleFile, FileFails, Becomes
<1>4. Types' /\ Locks' /\ Drafts'
  BY <1>2 DEF Types, Locks, Drafts, Drafted, Committing, HoldsStore,
              HoldsRequest, Evidence
<1>5. Staged'
  <2>1. DOMAIN progress' = DOMAIN progress
    BY <1>3
  <2>2. \A g \in DOMAIN progress :
          progress'[g] = IF g = file THEN state ELSE progress[g]
    BY <1>3
  <2>3. \A u \in Tasks : Immutable(u)' = Immutable(u)
    BY <1>2 DEF Immutable
  <2>4. \A g \in DOMAIN progress' :
          progress'[g] \in {"published", "done"} => g \in files'
    BY <1>2, <1>3, <2>1, <2>2 DEF Staged
  <2>5. QED  BY <1>2, <1>3, <2>1, <2>3, <2>4 DEF Staged
<1>6. IndexClosed'
  BY <1>2, <1>3 DEF IndexClosed, Complete
<1>7. QED  BY <1>4, <1>5, <1>6

LEMMA StageMutableKeeps ==
  ASSUME StoreInv, NEW t \in Tasks, StageMutable(t)
  PROVE  StoreInv'
<1> USE DEF StoreInv
<1>1. /\ AllPublished(t) /\ op[t].kind # "note"
      /\ pc' = [pc EXCEPT ![t] = "renaming"]
      /\ UNCHANGED <<files, index, pointer, storeQueue, requestQueue, op, draft,
                     base, progress>>
  BY DEF StageMutable, commitLocals
<1>2. pc[t] = "staging" /\ \A file \in DOMAIN progress : progress[file] = "done"
  BY <1>1 DEF AllPublished, Settled, AnyFailed
<1>3. pc'[t] = "renaming" /\ \A u \in Tasks \ {t} : pc'[u] = pc[u]
  BY <1>1 DEF Types
<1>4. Immutable(t) \subseteq files
  BY <1>2 DEF Staged
<1>5. Types' /\ Locks'
  BY <1>1, <1>2, <1>3 DEF Types, Locks, States, Committing, HoldsStore,
                          HoldsRequest, Evidence
<1>6. Drafts'
  BY <1>1, <1>2, <1>3 DEF Drafts, Drafted, Evidence
<1>7. Staged'
  BY <1>1, <1>3, <1>4 DEF Staged, Immutable
<1>8. IndexClosed'
  BY <1>1 DEF IndexClosed, Complete
<1>9. QED  BY <1>5, <1>6, <1>7, <1>8

\* The rename is one step of the abstract log.
LEMMA RenameEffect ==
  ASSUME StoreInv, NEW t \in Tasks, RenameMutable(t)
  PROVE  /\ op[t].fp \in Fingerprints /\ draft[t] \in Manifests
         /\ draft[t].fp = op[t].fp /\ draft[t].kind = op[t].kind
         /\ \/ /\ op[t].kind = "valid"
               /\ draft[t].revision = Len(index[op[t].fp]) + 1
               /\ index' = [index EXCEPT ![op[t].fp] = Append(@, draft[t])]
               /\ UNCHANGED pointer
            \/ /\ op[t].kind \in PointerKinds
               /\ pointer' = [pointer EXCEPT ![op[t].fp] = draft[t]]
               /\ UNCHANGED index
<1> USE DEF StoreInv
<1>1. pc[t] = "renaming" /\ op[t] \in Operations
  BY DEF RenameMutable, Types
<1>2. op[t].fp \in Fingerprints /\ op[t].kind \in Kinds
  BY <1>1 DEF Operations
<1>3. /\ draft[t] \in Manifests
      /\ draft[t].fp = op[t].fp /\ draft[t].kind = op[t].kind
      /\ op[t].kind # "expire" /\ op[t].kind # "note"
      /\ Evidence(t) => /\ base[t] = index[op[t].fp]
                        /\ draft[t].revision = Len(base[t]) + 1
  BY <1>1 DEF Drafts, Drafted
<1>4. CASE op[t].kind = "valid"
  <2>1. base[t] = index[op[t].fp] /\ draft[t].revision = Len(base[t]) + 1
    BY <1>3, <1>4 DEF Evidence, EvidenceKinds
  <2>2. index' = [index EXCEPT ![op[t].fp] = Append(base[t], draft[t])]
        /\ UNCHANGED pointer
    BY <1>4 DEF RenameMutable
  <2>3. QED  BY <1>2, <1>3, <1>4, <2>1, <2>2
<1>5. CASE op[t].kind # "valid"
  <2>1. op[t].kind \in PointerKinds
    BY <1>2, <1>3, <1>5 DEF Kinds, EvidenceKinds, PointerKinds
  <2>2. QED  BY <1>2, <1>3, <1>5, <2>1 DEF RenameMutable
<1>6. QED  BY <1>4, <1>5

LEMMA RenameMutableKeeps ==
  ASSUME StoreInv, NEW t \in Tasks, RenameMutable(t)
  PROVE  StoreInv'
<1> USE DEF StoreInv
<1> DEFINE f == op[t].fp  m == draft[t]
<1>1. /\ pc[t] = "renaming"
      /\ pc' = [pc EXCEPT ![t] = "verifying"]
      /\ UNCHANGED <<files, storeQueue, requestQueue, op, draft, base, progress>>
  BY DEF RenameMutable, commitLocals
<1>2. /\ f \in Fingerprints /\ m \in Manifests
      /\ \/ /\ op[t].kind = "valid"
            /\ index' = [index EXCEPT ![f] = Append(@, m)]
            /\ UNCHANGED pointer
         \/ /\ pointer' = [pointer EXCEPT ![f] = m]
            /\ UNCHANGED index
  BY RenameEffect
<1>3. pc'[t] = "verifying" /\ \A u \in Tasks \ {t} : pc'[u] = pc[u]
  BY <1>1 DEF Types
<1> HIDE DEF f, m
<1>4. index' \in [Fingerprints -> Seq(Manifests)]
  <2>1. index[f] \in Seq(Manifests)
    BY <1>2 DEF Types
  <2>2. Append(index[f], m) \in Seq(Manifests)
    BY <1>2, <2>1, QueueAppend
  <2>3. QED  BY <1>2, <2>2 DEF Types
<1>5. Types'
  <2>1. pointer' \in [Fingerprints -> Manifests \cup {NoPointer}]
    BY <1>2 DEF Types
  <2>2. QED  BY <1>1, <1>3, <1>4, <2>1 DEF Types, States
<1>6. Locks'
  BY <1>1, <1>3 DEF Locks, Committing, HoldsStore, HoldsRequest, Evidence, States
<1>7. Drafts'
  <2>1. ASSUME NEW u \in Tasks, Drafted(u)', Evidence(u)
        PROVE  index'[op[u].fp] = index[op[u].fp]
    <3>1. u # t /\ pc[u] \in {"storing", "staging", "renaming"}
      BY <1>3, <2>1 DEF Drafted
    <3>2. HoldsRequest(u) /\ op[u].fp \in Fingerprints
      BY <2>1, <3>1 DEF Locks, States, Types, Operations
    <3>3. CASE op[t].kind = "valid"
      <4>1. HoldsRequest(t)
        BY <1>1, <3>3 DEF Locks, States, Evidence, EvidenceKinds
      <4>2. op[u].fp # f
        BY <3>1, <3>2, <4>1 DEF HoldsRequest, f
      <4>3. QED  BY <1>2, <3>2, <4>2 DEF Types
    <3>4. QED  BY <1>2, <3>3
  <2>2. QED  BY <1>1, <1>3, <2>1 DEF Drafts, Drafted, Evidence
<1>8. Staged'
  BY <1>1, <1>3 DEF Staged, Immutable
<1>9. IndexClosed'
  <2>1. Complete(m)
    BY <1>1 DEF Staged, Immutable, Complete, m
  <2>2. \A x : Complete(x)' = Complete(x)
    BY <1>1 DEF Complete
  <2>3. CASE index' = [index EXCEPT ![f] = Append(@, m)] /\ UNCHANGED pointer
    <3>1. ASSUME NEW g \in Fingerprints, NEW i \in DOMAIN index'[g]
          PROVE  Complete(index'[g][i])
      <4>1. index[g] \in Seq(Manifests)
        BY DEF Types
      <4>2. index'[g] = IF g = f THEN Append(index[g], m) ELSE index[g]
        BY <2>3 DEF Types
      <4>3. CASE g = f
        <5>1. index'[g] = Append(index[g], m)
          BY <4>2, <4>3
        <5>2. i \in 1 .. Len(index[g]) + 1
          BY <4>1, <5>1
        <5>3. CASE i = Len(index[g]) + 1
          <6>1. index'[g][i] = m
            BY <1>2, <4>1, <5>1, <5>3
          <6>2. QED  BY <2>1, <6>1
        <5>4. CASE i \in 1 .. Len(index[g])
          <6>1. index'[g][i] = index[g][i] /\ i \in DOMAIN index[g]
            BY <1>2, <4>1, <5>1, <5>4
          <6>2. QED  BY <6>1 DEF IndexClosed
        <5>5. QED  BY <4>1, <5>2, <5>3, <5>4
      <4>4. CASE g # f
        BY <3>1, <4>2, <4>4 DEF IndexClosed
      <4>5. QED  BY <4>3, <4>4
    <3>2. QED  BY <2>2, <2>3, <3>1 DEF IndexClosed
  <2>4. CASE pointer' = [pointer EXCEPT ![f] = m] /\ UNCHANGED index
    BY <2>1, <2>2, <2>4 DEF IndexClosed, Types
  <2>5. QED  BY <1>2, <2>3, <2>4
<1>10. QED  BY <1>5, <1>6, <1>7, <1>8, <1>9

LEMMA CloseCommitKeeps ==
  ASSUME StoreInv, NEW t \in Tasks, CloseCommit(t)
  PROVE  StoreInv'
<1> USE DEF StoreInv
<1>1. Committing(t) /\ HoldsStore(t)
  BY DEF CloseCommit, AllPublished, Committing, Locks
<1>2. UNCHANGED disk
  BY DEF CloseCommit
<1>3. CASE Exit(t)
  BY <1>1, <1>2, <1>3, ExitKeeps DEF Committing, States, disk
<1>4. CASE /\ storeQueue' = Append(Tail(storeQueue), t)
           /\ pc' = [pc EXCEPT ![t] = "removing"]
           /\ UNCHANGED <<requestQueue, op, draft, base>>
  <2>1. pc'[t] = "removing" /\ \A u \in Tasks \ {t} : pc'[u] = pc[u]
    BY <1>4 DEF Types
  <2>2. \A u \in Tasks : ~Committing(u)'
    BY <1>1, <2>1, OneCommitter DEF Committing
  <2>3. Types'
    <3>1. storeQueue' \in Seq(Tasks)
      BY <1>1, <1>4, QueueTail, QueueAppend DEF HoldsStore, Types
    <3>2. pc' \in [Tasks -> States]
      BY <1>4 DEF Types, States
    <3>3. \A u \in Tasks : pc'[u] # "idle" => op'[u] \in Operations
      BY <1>1, <1>4, <2>1 DEF Types, Committing
    <3>4. QED  BY <1>2, <1>4, <3>1, <3>2, <3>3 DEF Types, disk
  <2>4. Locks'
    BY <1>1, <1>4, <2>1, <2>2 DEF Locks, Committing, HoldsRequest, Evidence, States
  <2>5. Drafts'
    BY <1>2, <1>4, <2>1 DEF Drafts, Drafted, Evidence, disk
  <2>6. Staged'
    BY <2>2 DEF Staged, Committing
  <2>7. IndexClosed'
    BY <1>2 DEF IndexClosed, Complete, disk
  <2>8. QED  BY <2>3, <2>4, <2>5, <2>6, <2>7
<1>5. QED  BY <1>3, <1>4 DEF CloseCommit

LEMMA LeavingKeeps ==
  ASSUME StoreInv, NEW t \in Tasks,
         \/ RejectOverQuota(t) \/ OpenFails(t) \/ AbandonCommit(t)
         \/ MutableFails(t) \/ RemovePointer(t) \/ RemoveFails(t)
  PROVE  StoreInv'
<1> USE DEF StoreInv
<1>1. HoldsStore(t) /\ Exit(t) /\ UNCHANGED <<index, files>>
  BY DEF RejectOverQuota, OpenFails, AbandonCommit, MutableFails, AllPublished,
         RemovePointer, RemoveFails, Committing, Locks, disk
<1>2. pc[t] \in States \ {"idle", "locking"}
  BY DEF RejectOverQuota, OpenFails, AbandonCommit, MutableFails, AllPublished,
         RemovePointer, RemoveFails, States
<1>3. \/ pointer' = pointer
      \/ pointer' = [pointer EXCEPT ![op[t].fp] = NoPointer]
  BY DEF RejectOverQuota, OpenFails, AbandonCommit, MutableFails,
         RemovePointer, RemoveFails, disk
<1>4. QED  BY <1>1, <1>2, <1>3, ExitKeeps

LEMMA CrashKeeps ==
  ASSUME StoreInv, Crash
  PROVE  StoreInv'
<1> USE DEF StoreInv
<1>1. /\ UNCHANGED <<index, pointer, files>>
      /\ storeQueue' = <<>> /\ requestQueue' = [f \in Fingerprints |-> <<>>]
      /\ pc' = [t \in Tasks |-> "idle"] /\ op' = [t \in Tasks |-> NoOp]
      /\ draft' = [t \in Tasks |-> NoOp] /\ base' = [t \in Tasks |-> <<>>]
  BY DEF Crash
<1>2. Types'
  BY <1>1 DEF Types, States
<1>3. Locks' /\ Drafts' /\ Staged'
  BY <1>1 DEF Locks, Drafts, Drafted, Staged, Committing
<1>4. IndexClosed'
  BY <1>1 DEF IndexClosed, Complete
<1>5. QED  BY <1>2, <1>3, <1>4

-----------------------------------------------------------------------------
(* The theorems.                                                           *)

LEMMA StoreInvariant == Spec => []StoreInv
<1>1. Init => StoreInv
  BY DEF Init, StoreInv, Types, States, Locks, Committing, Drafts, Drafted,
         Staged, IndexClosed
<1>2. StoreInv /\ [Next]_vars => StoreInv'
  <2> SUFFICES ASSUME StoreInv, [Next]_vars PROVE StoreInv'
    OBVIOUS
  <2>1. CASE Warmup
    BY <2>1 DEF Warmup, StoreInv, Types, Locks, Drafts, Drafted, Staged,
                IndexClosed, Complete, Immutable, Committing, HoldsStore,
                HoldsRequest, Evidence, disk, taskVars, commitLocals
  <2>2. CASE UNCHANGED vars
    BY <2>2 DEF vars, StoreInv, Types, Locks, Drafts, Drafted, Staged,
                IndexClosed, Complete, Immutable, Committing, HoldsStore,
                HoldsRequest, Evidence, disk, taskVars, commitLocals
  <2>3. ASSUME NEW t \in Tasks, TaskStep(t) PROVE StoreInv'
    BY <2>3, DraftKeeps, DraftFailsKeeps, OpenCommitKeeps, FileStepKeeps,
       StageMutableKeeps, RenameMutableKeeps, CloseCommitKeeps, LeavingKeeps
       DEF TaskStep, CommitStep
  <2>4. QED  BY <2>1, <2>2, <2>3, BeginKeeps, CrashKeeps DEF Next
<1>3. QED  BY <1>1, <1>2, PTL DEF Spec

\* No index and no failure pointer ever names evidence that is not completely
\* published, over partial failures and crashes (commit).
THEOREM IndexAlwaysClosed == Spec => []IndexClosed
<1>1. StoreInv => IndexClosed
  BY DEF StoreInv
<1>2. QED  BY <1>1, StoreInvariant, PTL

\* Only the rename of a mutable file, and the removal of a pointer, are
\* visible to a reader of the log.
LEMMA LogStep ==
  ASSUME StoreInv, [Next]_vars
  PROVE  Log!Next \/ UNCHANGED <<index, pointer>>
<1>1. ASSUME NEW t \in Tasks, RenameMutable(t)
      PROVE  Log!Next
  <2> DEFINE f == op[t].fp  m == draft[t]
  <2>1. Log!Publish(f, m) \/ Log!Suppress(f, m)
    BY <1>1, RenameEffect DEF Log!Publish, Log!Suppress, PointerKinds
  <2>2. f \in Fingerprints /\ m \in Manifests
    BY <1>1, RenameEffect
  <2> HIDE DEF f, m
  <2>3. QED  BY <2>1, <2>2 DEF Log!Next
<1>2. ASSUME NEW t \in Tasks, RemovePointer(t)
      PROVE  Log!Next
  <2>1. op[t].fp \in Fingerprints
    BY <1>2 DEF RemovePointer, StoreInv, Types, Operations
  <2>2. Log!Lift(op[t].fp)
    BY <1>2 DEF RemovePointer, Log!Lift
  <2>3. QED  BY <2>1, <2>2 DEF Log!Next
<1>3. ASSUME NEW t \in Tasks, Begin(t) \/ TaskStep(t)
      PROVE  RenameMutable(t) \/ RemovePointer(t) \/ UNCHANGED <<index, pointer>>
  BY <1>3 DEF Begin, TaskStep, CommitStep, Draft, DraftFails, OpenCommit,
              RejectOverQuota, OpenFails, FileStep, StageFile, PublishFile,
              SettleFile, FileFails, StagingStep, AbandonCommit, StageMutable,
              MutableFails, CloseCommit, RemoveFails, disk
<1>4. CASE Warmup \/ Crash \/ UNCHANGED vars
  BY <1>4 DEF Warmup, Crash, vars, disk
<1>5. QED  BY <1>1, <1>2, <1>3, <1>4 DEF Next

\* The locks, the commit protocol and its recovery implement the log that the
\* documentation promises: numbered revisions, none lost, none rewritten.
THEOREM StoreImplementsLog == Spec => ImplementsLog
<1>1. Init => Log!Init
  BY DEF Init, Log!Init
<1>2. StoreInv /\ [Next]_vars => [Log!Next]_<<index, pointer>>
  BY LogStep
<1>3. QED  BY <1>1, <1>2, StoreInvariant, PTL DEF Spec, ImplementsLog, Log!Spec

-----------------------------------------------------------------------------
(* The byte accounting.                                                    *)

\* What a scan of the directory counts is finite, and readers see no more of it
\* than the quota allows.
Scan ==
  /\ IsFiniteSet(files) /\ IsFiniteSet(Entries) /\ orphans \in Nat
  /\ PublishedBytes <= MaxBytes

\* Between commits there is no temp file, and a known total is the scan's.
Known ==
  NoCommit => /\ temps = {}
              /\ accounted # Unknown => accounted = PublishedBytes + orphans

\* Half way through a commit, usage is the scan without its files and delta is
\* what it adds; it adds exactly that before it reports.
Half(t) ==
  /\ DOMAIN progress \subseteq Immutable(t)
  /\ usage + delta <= MaxBytes
  /\ pc[t] = "staging" =>
       \A file \in temps : /\ file \in DOMAIN progress
                           /\ progress[file] \in {"staged", "published"}
  /\ pc[t] \in {"staging", "renaming"} =>
       /\ usage = FileBytes(files \ DOMAIN progress) + MutableTotal + orphans
       /\ delta = FileBytes(DOMAIN progress) + MutableGrowth(t)
  /\ pc[t] = "renaming" => /\ DOMAIN progress \subseteq files
                           /\ temps \subseteq {MutableFile}
  /\ pc[t] = "verifying" => /\ temps = {}
                            /\ usage + delta = PublishedBytes + orphans

Commits == \A t \in Tasks : Committing(t) => Half(t)

QuotaInv == Scan /\ Known /\ Commits

\* Sizes add up.
LEMMA Distributes ==
  \A a, b, c \in Nat : (a + b) * c = a * c + b * c /\ a * c \in Nat
  BY SMT

LEMMA FileBytesNatural ==
  ASSUME NEW S, IsFiniteSet(S)
  PROVE  FileBytes(S) \in Nat
<1>1. IsFiniteSet(S \cap Objects) /\ IsFiniteSet(S \ Objects)
  BY FS_Subset
<1>2. Cardinality(S \cap Objects) \in Nat /\ Cardinality(S \ Objects) \in Nat
  BY <1>1, FS_CardinalityType
<1> QED  BY <1>2, SizeAssumption, Distributes DEF FileBytes

LEMMA FileBytesOfNone == FileBytes({}) = 0
<1>1. {} \cap Objects = {} /\ {} \ Objects = {} /\ Cardinality({}) = 0
  BY FS_EmptySet
<1> QED  BY <1>1, SizeAssumption DEF FileBytes

LEMMA FileBytesAdd ==
  ASSUME NEW S, NEW T, IsFiniteSet(S), IsFiniteSet(T), S \cap T = {}
  PROVE  FileBytes(S \cup T) = FileBytes(S) + FileBytes(T)
<1> DEFINE So == S \cap Objects  To == T \cap Objects
           Sm == S \ Objects     Tm == T \ Objects
<1>1. IsFiniteSet(So) /\ IsFiniteSet(To) /\ IsFiniteSet(Sm) /\ IsFiniteSet(Tm)
  BY FS_Subset
<1>2. /\ (S \cup T) \cap Objects = So \cup To /\ So \cap To = {}
      /\ (S \cup T) \ Objects = Sm \cup Tm /\ Sm \cap Tm = {}
  OBVIOUS
<1>3. FileBytes(S \cup T) = Cardinality(So \cup To) * ObjectBytes
                            + Cardinality(Sm \cup Tm) * ManifestBytes
  BY <1>2 DEF FileBytes
<1>4. /\ FileBytes(S) = Cardinality(So) * ObjectBytes
                        + Cardinality(Sm) * ManifestBytes
      /\ FileBytes(T) = Cardinality(To) * ObjectBytes
                        + Cardinality(Tm) * ManifestBytes
  BY DEF FileBytes
<1> HIDE DEF So, To, Sm, Tm
<1>5. /\ Cardinality(So) \in Nat /\ Cardinality(To) \in Nat
      /\ Cardinality(Sm) \in Nat /\ Cardinality(Tm) \in Nat
  BY <1>1, FS_CardinalityType
<1>6. /\ Cardinality(So \cup To) = Cardinality(So) + Cardinality(To)
      /\ Cardinality(Sm \cup Tm) = Cardinality(Sm) + Cardinality(Tm)
  <2>1. Cardinality({}) = 0
    BY FS_EmptySet
  <2>2. Cardinality(So \cup To)
          = Cardinality(So) + Cardinality(To) - Cardinality({})
    BY <1>1, <1>2, FS_Union
  <2>3. Cardinality(Sm \cup Tm)
          = Cardinality(Sm) + Cardinality(Tm) - Cardinality({})
    BY <1>1, <1>2, FS_Union
  <2> QED  BY <1>5, <2>1, <2>2, <2>3
<1>7. /\ Cardinality(So \cup To) * ObjectBytes
           = Cardinality(So) * ObjectBytes + Cardinality(To) * ObjectBytes
      /\ Cardinality(Sm \cup Tm) * ManifestBytes
           = Cardinality(Sm) * ManifestBytes + Cardinality(Tm) * ManifestBytes
      /\ Cardinality(So) * ObjectBytes \in Nat
      /\ Cardinality(To) * ObjectBytes \in Nat
      /\ Cardinality(Sm) * ManifestBytes \in Nat
      /\ Cardinality(Tm) * ManifestBytes \in Nat
  BY <1>5, <1>6, SizeAssumption, Distributes
<1> QED
  <2> HIDE DEF So, To, Sm, Tm
  <2> SUFFICES ASSUME NEW a \in Nat, NEW b \in Nat, NEW c \in Nat, NEW d \in Nat
               PROVE  (a + b) + (c + d) = (a + c) + (b + d)
    BY <1>3, <1>4, <1>7
  <2> QED  OBVIOUS

\* What a commit finds and what it misses make up what is published.
LEMMA FileBytesSplit ==
  ASSUME NEW S, NEW D, IsFiniteSet(S), IsFiniteSet(D)
  PROVE  /\ FileBytes(S) <= FileBytes(S \ D) + FileBytes(D)
         /\ D \subseteq S => FileBytes(S) = FileBytes(S \ D) + FileBytes(D)
<1> DEFINE Out == S \ D  In == S \cap D  Rest == D \ S
<1>1. IsFiniteSet(Out) /\ IsFiniteSet(In) /\ IsFiniteSet(Rest)
  BY FS_Subset
<1>2. /\ S = Out \cup In /\ Out \cap In = {}
      /\ D = In \cup Rest /\ In \cap Rest = {}
      /\ D \subseteq S => In = D
  OBVIOUS
<1> HIDE DEF Out, In, Rest
<1>3. FileBytes(S) = FileBytes(Out) + FileBytes(In)
  BY <1>1, <1>2, FileBytesAdd
<1>4. FileBytes(D) = FileBytes(In) + FileBytes(Rest)
  BY <1>1, <1>2, FileBytesAdd
<1>5. FileBytes(Out) \in Nat /\ FileBytes(In) \in Nat /\ FileBytes(Rest) \in Nat
  BY <1>1, FileBytesNatural
<1>6. FileBytes(S) <= FileBytes(Out) + FileBytes(D)
  BY <1>3, <1>4, <1>5
<1> QED  BY <1>2, <1>3, <1>6 DEF Out

\* Any set of immutable files of one draft is finite.
LEMMA ImmutableFinite ==
  ASSUME NEW t \in Tasks, draft[t] \in Manifests
  PROVE  IsFiniteSet(Immutable(t))
<1>1. draft[t].objects \subseteq Objects
  BY DEF Manifests
<1>2. IsFiniteSet(draft[t].objects)
  BY <1>1, FiniteAssumption, FS_Subset
<1> QED  BY <1>2, FS_AddElement DEF Immutable

LEMMA TotalsNatural ==
  ASSUME IsFiniteSet(files), IsFiniteSet(Entries)
  PROVE  /\ MutableTotal \in Nat /\ FileBytes(files) \in Nat
         /\ PublishedBytes \in Nat
<1>1. IsFiniteSet(Pointed)
  BY FiniteAssumption, FS_Subset DEF Pointed
<1>2. Cardinality(Entries) \in Nat /\ Cardinality(Pointed) \in Nat
  BY <1>1, FS_CardinalityType
<1>3. MutableTotal \in Nat
  BY <1>2, SizeAssumption, Distributes DEF MutableTotal
<1> QED  BY <1>3, FileBytesNatural DEF PublishedBytes

\* What a commit adds to its mutable file is never less than nothing.
LEMMA GrowthNatural ==
  ASSUME Types, NEW t \in Tasks, pc[t] # "idle",
         op[t].kind = "valid" => base[t] = index[op[t].fp]
  PROVE  /\ MutableGrowth(t) \in Nat
         /\ op[t].kind = "valid" => MutableGrowth(t) = EntryBytes
         /\ op[t].kind \in PointerKinds =>
              MutableGrowth(t) = PointerBytes - PointerSize(op[t].fp)
         /\ op[t].kind = "note" => MutableGrowth(t) = 0
<1>1. op[t].fp \in Fingerprints
  BY DEF Types, Operations
<1>2. CASE op[t].kind = "valid"
  <2>1. PICK n \in Nat : Len(base[t]) = n /\ Len(index[op[t].fp]) = n
    BY <1>1, <1>2 DEF Types
  <2>2. MutableGrowth(t) = (n + 1) * EntryBytes - n * EntryBytes
    <3>1. MutableBytes(t) = (n + 1) * EntryBytes
      BY <1>2, <2>1 DEF MutableBytes
    <3>2. MutableGrowth(t) = MutableBytes(t) - Len(index[op[t].fp]) * EntryBytes
      BY <1>2 DEF MutableGrowth, PointerKinds
    <3> QED  BY <2>1, <3>1, <3>2
  <2>3. (n + 1) * EntryBytes = n * EntryBytes + 1 * EntryBytes
        /\ n * EntryBytes \in Nat
    BY SizeAssumption, Distributes
  <2>4. MutableGrowth(t) = EntryBytes
    <3> SUFFICES ASSUME NEW x \in Nat, NEW y \in Nat, y = x + 1 * EntryBytes
                 PROVE  y - x = EntryBytes
      BY <2>2, <2>3, SizeAssumption
    <3> QED  BY SizeAssumption
  <2> QED  BY <1>2, <2>4, SizeAssumption DEF PointerKinds
<1>3. CASE op[t].kind \in PointerKinds
  <2>1. MutableGrowth(t) = PointerBytes - PointerSize(op[t].fp)
    BY <1>3 DEF MutableGrowth, MutableBytes, PointerKinds
  <2> QED  BY <1>3, <2>1, SizeAssumption DEF PointerSize, PointerKinds
<1>4. CASE op[t].kind \notin PointerKinds \cup {"valid"}
  BY <1>4 DEF MutableGrowth, PointerKinds
<1> QED  BY <1>2, <1>3, <1>4

\* The holder of the storage lock that has not begun its commit is alone.
LEMMA NobodyCommits ==
  ASSUME StoreInv
  PROVE  /\ storeQueue = <<>> => NoCommit
         /\ \A t \in Tasks : HoldsStore(t) /\ ~Committing(t) => NoCommit
<1>1. Types /\ Locks
  BY DEF StoreInv
<1> QED  BY <1>1, OneCommitter DEF NoCommit, Locks, HoldsStore

\* A scan between commits finds what is published and what crashes left.
LEMMA ScanIsExact ==
  ASSUME QuotaInv, NoCommit
  PROVE  DiskUsage = PublishedBytes + orphans
         /\ CurrentUsage = PublishedBytes + orphans
<1>1. temps = {}
  BY DEF QuotaInv, Known
<1>2. TempBytes = FileBytes({})
  <2>1. temps \ {MutableFile} = {} /\ MutableFile \notin temps
    BY <1>1
  <2>2. FileBytes({}) = 0
    BY FileBytesOfNone
  <2> QED  BY <2>1, <2>2 DEF TempBytes
<1>3. PublishedBytes \in Nat /\ orphans \in Nat
  BY TotalsNatural DEF QuotaInv, Scan
<1>4. DiskUsage = PublishedBytes + orphans
  BY <1>2, <1>3, FileBytesOfNone DEF DiskUsage
<1> QED  BY <1>4 DEF CurrentUsage, QuotaInv, Known

\* Totals depend on the disk alone.
LEMMA SameDisk ==
  ASSUME UNCHANGED <<files, index, pointer>>
  PROVE  Entries' = Entries /\ Pointed' = Pointed
         /\ MutableTotal' = MutableTotal /\ PublishedBytes' = PublishedBytes
<1>1. Entries' = Entries /\ Pointed' = Pointed
  BY DEF Entries, Pointed
<1>2. MutableTotal' = MutableTotal
  BY <1>1 DEF MutableTotal
<1> QED  BY <1>1, <1>2 DEF PublishedBytes, FileBytes

LEMMA SameCommit ==
  ASSUME NEW t \in Tasks, Half(t), UNCHANGED <<disk, commitLocals>>,
         pc'[t] = pc[t], op'[t] = op[t], draft'[t] = draft[t],
         base'[t] = base[t]
  PROVE  Half(t)'
<1>1. MutableTotal' = MutableTotal /\ PublishedBytes' = PublishedBytes
  BY SameDisk DEF disk
<1>2. MutableGrowth(t)' = MutableGrowth(t) /\ Immutable(t)' = Immutable(t)
  BY DEF MutableGrowth, MutableBytes, PointerSize, Immutable, disk
<1>3. FileBytes(files \ DOMAIN progress)' = FileBytes(files \ DOMAIN progress)
      /\ FileBytes(DOMAIN progress)' = FileBytes(DOMAIN progress)
  BY DEF FileBytes, disk, commitLocals
<1> QED  BY <1>1, <1>2, <1>3 DEF Half, disk, commitLocals

\* Operations that begin, draft or fail before they have the storage lock.
LEMMA OutsideKeeps ==
  ASSUME StoreInv, QuotaInv, NEW t \in Tasks,
         Begin(t) \/ Draft(t) \/ DraftFails(t)
  PROVE  QuotaInv'
<1>1. UNCHANGED <<disk, commitLocals, accounted>>
  BY DEF Begin, Draft, DraftFails
<1>2. ~Committing(t) /\ ~Committing(t)'
      /\ \A u \in Tasks \ {t} : /\ pc'[u] = pc[u] /\ op'[u] = op[u]
                                /\ draft'[u] = draft[u] /\ base'[u] = base[u]
  <2>1. CASE Begin(t)
    <3>1. PICK k \in Kinds, f \in Fingerprints, objs \in Payloads,
               now \in Stamps :
            /\ op' = [op EXCEPT ![t] =
                 [kind |-> k, fp |-> f,
                  payload |-> IF k \in EvidenceKinds THEN objs ELSE {}]]
            /\ \/ pc' = [pc EXCEPT ![t] = "locking"] /\ draft' = draft
               \/ /\ pc' = [pc EXCEPT ![t] = "storing"]
                  /\ draft' = [draft EXCEPT ![t] =
                       [fp |-> f, kind |-> k, revision |-> 0, objects |-> {},
                        at |-> now]]
               \/ pc' = [pc EXCEPT ![t] = "removing"] /\ draft' = draft
      BY <2>1 DEF Begin, EvidenceKinds, Kinds
    <3>2. base' = base /\ pc[t] = "idle"
      BY <2>1 DEF Begin
    <3> QED  BY <3>1, <3>2 DEF Committing, StoreInv, Types
  <2>2. CASE Draft(t)
    BY <2>2 DEF Draft, Committing, StoreInv, Types
  <2>3. CASE DraftFails(t)
    BY <2>3 DEF DraftFails, Finish, Committing, StoreInv, Types
  <2> QED  BY <2>1, <2>2, <2>3
<1>3. NoCommit' = NoCommit
  BY <1>2 DEF NoCommit, Committing
<1>4. Scan' /\ Known'
  BY <1>1, <1>3, SameDisk DEF QuotaInv, Scan, Known, disk
<1>5. ASSUME NEW u \in Tasks, Committing(u)' PROVE Half(u)'
  <2>1. u # t /\ Committing(u)
    BY <1>2, <1>5 DEF Committing
  <2> QED  BY <1>1, <1>2, <2>1, SameCommit DEF QuotaInv, Commits
<1> QED  BY <1>4, <1>5 DEF QuotaInv, Commits

\* Leaving the storage lock without a temp file, with a total that is exact or
\* not known.
LEMMA ExitAccounts ==
  ASSUME StoreInv, QuotaInv, NEW t \in Tasks, HoldsStore(t),
         pc[t] \in States \ {"idle", "locking"}, Exit(t),
         UNCHANGED <<files, index, pointer, orphans>>, temps' = {},
         accounted' \in {Unknown, PublishedBytes + orphans}
  PROVE  QuotaInv'
<1>1. \A u \in Tasks : ~Committing(u)'
  <2>1. pc' = [pc EXCEPT ![t] = "idle"] /\ pc \in [Tasks -> States]
    BY DEF Exit, Finish, StoreInv, Types
  <2>2. \A u \in Tasks \ {t} : ~Committing(u)
    BY OneCommitter DEF StoreInv
  <2> QED  BY <2>1, <2>2 DEF Committing
<1>2. Scan' /\ Known'
  BY SameDisk DEF QuotaInv, Scan, Known
<1> QED  BY <1>1, <1>2 DEF QuotaInv, Commits

LEMMA LeavingAccounts ==
  ASSUME StoreInv, QuotaInv, NEW t \in Tasks,
         \/ RejectOverQuota(t) \/ OpenFails(t) \/ AbandonCommit(t)
         \/ MutableFails(t) \/ RemoveFails(t)
  PROVE  QuotaInv'
<1>1. HoldsStore(t) /\ Exit(t) /\ UNCHANGED <<files, index, pointer, orphans>>
  BY DEF StoreInv, RejectOverQuota, OpenFails, AbandonCommit, MutableFails,
         AllPublished, RemoveFails, Committing, Locks, disk
<1>2. pc[t] \in States \ {"idle", "locking"}
  BY DEF RejectOverQuota, OpenFails, AbandonCommit, MutableFails, AllPublished,
         RemoveFails, States
<1>3. CASE RejectOverQuota(t) \/ OpenFails(t) \/ RemoveFails(t)
  <2>1. NoCommit /\ temps' = temps
    BY <1>1, <1>3, NobodyCommits DEF RejectOverQuota, OpenFails, RemoveFails,
                                     Committing, disk
  <2>2. temps = {} /\ accounted \in {Unknown, PublishedBytes + orphans}
        /\ CurrentUsage = PublishedBytes + orphans
    BY <2>1, ScanIsExact DEF QuotaInv, Known
  <2>3. accounted' \in {Unknown, PublishedBytes + orphans}
    BY <1>3, <2>2 DEF RejectOverQuota, OpenFails, RemoveFails
  <2> QED  BY <1>1, <1>2, <2>1, <2>2, <2>3, ExitAccounts
<1>4. CASE AbandonCommit(t) \/ MutableFails(t)
  <2>1. accounted' = Unknown /\ Half(t)
    BY <1>4 DEF AbandonCommit, MutableFails, AllPublished, Committing, QuotaInv,
                Commits
  <2>2. pc[t] = "staging" => temps = {}
    BY <1>4, <2>1 DEF AbandonCommit, MutableFails, AllPublished, Settled, Half
  <2>3. temps' = {}
    BY <1>4, <2>1, <2>2 DEF AbandonCommit, MutableFails, AllPublished, disk, Half
  <2> QED  BY <1>1, <1>2, <2>1, <2>3, ExitAccounts
<1> QED  BY <1>3, <1>4

LEMMA RemovePointerAccounts ==
  ASSUME StoreInv, QuotaInv, NEW t \in Tasks, RemovePointer(t)
  PROVE  QuotaInv'
<1> DEFINE f == op[t].fp
<1>1. /\ pc[t] = "removing" /\ HoldsStore(t) /\ Exit(t)
      /\ pointer' = [pointer EXCEPT ![f] = NoPointer]
      /\ accounted' = IF accounted = Unknown THEN Unknown
                      ELSE accounted - PointerSize(f)
      /\ UNCHANGED <<files, index, temps, orphans>>
  BY DEF RemovePointer
<1>2. f \in Fingerprints /\ pointer \in [Fingerprints -> Manifests \cup {NoPointer}]
  BY <1>1 DEF StoreInv, Types, Operations
<1>3. NoCommit
  BY <1>1, NobodyCommits DEF Committing
<1>4. \A u \in Tasks : ~Committing(u)'
  <2>1. pc' = [pc EXCEPT ![t] = "idle"] /\ pc \in [Tasks -> States]
    BY <1>1 DEF Exit, Finish, StoreInv, Types
  <2> QED  BY <1>3, <2>1 DEF Committing, NoCommit
<1>5. Entries' = Entries /\ Pointed' = Pointed \ {f}
  BY <1>1, <1>2 DEF Entries, Pointed
<1>6. IsFiniteSet(Pointed) /\ Cardinality(Pointed) \in Nat
      /\ Cardinality(Entries) \in Nat
  BY FiniteAssumption, FS_Subset, FS_CardinalityType DEF Pointed, QuotaInv, Scan
<1>7. PICK e \in Nat, p \in Nat, q \in Nat :
        /\ e = Cardinality(Entries) * EntryBytes
        /\ p = Cardinality(Pointed) * PointerBytes
        /\ q = Cardinality(Pointed') * PointerBytes
        /\ p = q + PointerSize(f)
  <2>1. CASE f \in Pointed
    <3>1. PICK n \in Nat : Cardinality(Pointed') = n /\ Cardinality(Pointed) = n + 1
      <4>1. Cardinality(Pointed \ {f}) = Cardinality(Pointed) - 1
            /\ Cardinality(Pointed \ {f}) \in Nat
        BY <1>6, <2>1, FS_RemoveElement, FS_CardinalityType
      <4> QED  BY <1>5, <1>6, <4>1
    <3>2. PointerSize(f) = PointerBytes
      BY <2>1 DEF Pointed, PointerSize
    <3>3. (n + 1) * PointerBytes = n * PointerBytes + 1 * PointerBytes
          /\ n * PointerBytes \in Nat
          /\ (n + 1) * PointerBytes \in Nat
          /\ Cardinality(Entries) * EntryBytes \in Nat
      BY <1>6, SizeAssumption, Distributes
    <3> QED  BY <3>1, <3>2, <3>3, SizeAssumption
  <2>2. CASE f \notin Pointed
    <3>1. Pointed' = Pointed /\ PointerSize(f) = 0
      BY <1>2, <1>5, <2>2 DEF Pointed, PointerSize
    <3>2. Cardinality(Pointed) * PointerBytes \in Nat
          /\ Cardinality(Entries) * EntryBytes \in Nat
      BY <1>6, SizeAssumption, Distributes
    <3> QED  BY <3>1, <3>2
  <2> QED  BY <2>1, <2>2
<1>8. MutableTotal = e + p /\ MutableTotal' = e + q
  BY <1>5, <1>7 DEF MutableTotal
<1>9. FileBytes(files) \in Nat /\ FileBytes(files)' = FileBytes(files)
      /\ orphans \in Nat /\ PointerSize(f) \in Nat
  BY <1>1, FileBytesNatural, SizeAssumption DEF QuotaInv, Scan, FileBytes,
                                                PointerSize
<1>10. PublishedBytes = PublishedBytes' + PointerSize(f)
       /\ PublishedBytes' <= PublishedBytes /\ PublishedBytes' \in Nat
       /\ PublishedBytes \in Nat
  BY <1>7, <1>8, <1>9 DEF PublishedBytes
<1>11. Scan'
  BY <1>1, <1>5, <1>10, SizeAssumption DEF QuotaInv, Scan
<1>12. Known'
  BY <1>1, <1>3, <1>9, <1>10 DEF QuotaInv, Known
<1> QED  BY <1>4, <1>11, <1>12 DEF QuotaInv, Commits

LEMMA OpenCommitAccounts ==
  ASSUME StoreInv, QuotaInv, NEW t \in Tasks, OpenCommit(t)
  PROVE  QuotaInv'
<1>1. /\ pc[t] = "storing" /\ HoldsStore(t) /\ ~OverQuota(t)
      /\ usage' = CurrentUsage /\ delta' = CommitDelta(t)
      /\ progress' = [file \in Missing(t) |-> "todo"]
      /\ pc' = [pc EXCEPT ![t] = "staging"]
      /\ UNCHANGED <<files, index, pointer, temps, orphans, op, draft, base>>
  BY DEF OpenCommit, disk
<1>2. NoCommit /\ pc'[t] = "staging" /\ \A u \in Tasks \ {t} : pc'[u] = pc[u]
  BY <1>1, NobodyCommits DEF Committing, StoreInv, Types
<1>3. temps = {} /\ CurrentUsage = PublishedBytes + orphans
  BY <1>2, ScanIsExact DEF QuotaInv, Known
<1>4. MutableTotal' = MutableTotal /\ Scan'
  BY <1>1, SameDisk DEF QuotaInv, Scan
<1>5. MutableGrowth(t)' = MutableGrowth(t) /\ Immutable(t)' = Immutable(t)
  BY <1>1 DEF MutableGrowth, MutableBytes, PointerSize, Immutable
<1>6. DOMAIN progress' = Missing(t) /\ files' \ Missing(t) = files
      /\ Missing(t) \subseteq Immutable(t)
  BY <1>1 DEF Missing
<1>7. MutableGrowth(t) \in Nat /\ FileBytes(Missing(t)) \in Nat
  <2>1. op[t].kind = "valid" => base[t] = index[op[t].fp]
    BY <1>1 DEF StoreInv, Drafts, Drafted, Evidence, EvidenceKinds
  <2>2. draft[t] \in Manifests
    BY <1>1 DEF StoreInv, Drafts, Drafted
  <2>3. IsFiniteSet(Missing(t))
    BY <2>2, ImmutableFinite, FS_Subset DEF Missing
  <2> QED  BY <1>1, <2>1, <2>3, GrowthNatural, FileBytesNatural DEF StoreInv
<1>8. PublishedBytes \in Nat /\ orphans \in Nat /\ MutableTotal \in Nat
      /\ FileBytes(files) \in Nat
  BY TotalsNatural DEF QuotaInv, Scan
<1>9. usage' + delta' <= MaxBytes
  BY <1>1, <1>3, <1>7, <1>8, SizeAssumption DEF OverQuota, CommitDelta
<1>10. usage' = FileBytes(files) + MutableTotal + orphans
  BY <1>1, <1>3, <1>8 DEF PublishedBytes
<1>11. delta' = FileBytes(Missing(t)) + MutableGrowth(t)
  BY <1>1 DEF CommitDelta
<1>12. Half(t)'
  <2>1. FileBytes(files \ DOMAIN progress)' = FileBytes(files)
        /\ FileBytes(DOMAIN progress)' = FileBytes(Missing(t))
    BY <1>6 DEF FileBytes
  <2> QED
    BY <1>1, <1>2, <1>3, <1>4, <1>5, <1>6, <1>9, <1>10, <1>11, <2>1 DEF Half
<1>13. Commits' /\ ~NoCommit'
  BY <1>2, <1>12 DEF Commits, NoCommit, Committing
<1> QED  BY <1>4, <1>13 DEF QuotaInv, Known

\* Writing, publishing and settling the files of a commit moves bytes between
\* temp files and published files, which neither usage nor delta speak of.
LEMMA FileStepAccounts ==
  ASSUME StoreInv, QuotaInv, NEW t \in Tasks, FileStep(t)
  PROVE  QuotaInv'
<1>1. PICK file \in DOMAIN progress :
        StageFile(t, file) \/ PublishFile(t, file) \/ SettleFile(t, file)
        \/ FileFails(t, file)
  BY DEF FileStep
<1>2. /\ pc[t] = "staging"
      /\ UNCHANGED <<index, pointer, orphans, pc, op, draft, base, usage, delta>>
  BY <1>1 DEF StageFile, PublishFile, SettleFile, FileFails, StagingStep, taskVars
<1>3. PICK state :
        /\ progress' = [progress EXCEPT ![file] = state]
        /\ \/ state \in {"staged", "published"} /\ temps' \subseteq temps \cup {file}
           \/ temps' = temps \ {file}
        /\ files' \in {files, files \cup {file}}
        /\ state = "published" => progress[file] = "staged"
  BY <1>1 DEF StageFile, PublishFile, SettleFile, FileFails, Becomes
<1>4. Half(t) /\ HoldsStore(t)
  BY <1>2 DEF QuotaInv, Commits, Committing, StoreInv, Locks
<1>5. DOMAIN progress' = DOMAIN progress
      /\ files' \ DOMAIN progress' = files \ DOMAIN progress
  BY <1>1, <1>3
<1>6. \A g \in DOMAIN progress :
        progress'[g] = IF g = file THEN state ELSE progress[g]
  BY <1>3
<1>7. Entries' = Entries /\ MutableTotal' = MutableTotal
  BY <1>2 DEF Entries, MutableTotal, Pointed
<1>8. MutableGrowth(t)' = MutableGrowth(t) /\ Immutable(t)' = Immutable(t)
  BY <1>2 DEF MutableGrowth, MutableBytes, PointerSize, Immutable
<1>9. FileBytes(files \ DOMAIN progress)' = FileBytes(files \ DOMAIN progress)
      /\ FileBytes(DOMAIN progress)' = FileBytes(DOMAIN progress)
  BY <1>5 DEF FileBytes
<1>10. \A g \in temps' : g \in DOMAIN progress'
                         /\ progress'[g] \in {"staged", "published"}
  BY <1>2, <1>3, <1>4, <1>5, <1>6 DEF Half
<1>11. Half(t)'
  BY <1>2, <1>4, <1>5, <1>7, <1>8, <1>9, <1>10 DEF Half
<1>12. IsFiniteSet(files') /\ IsFiniteSet(Entries)'
  BY <1>3, <1>7, FS_AddElement DEF QuotaInv, Scan
<1>13. PublishedBytes' <= MaxBytes
  <2>1. IsFiniteSet(DOMAIN progress)
    BY <1>2, <1>4, ImmutableFinite, FS_Subset
       DEF Half, StoreInv, Drafts, Drafted
  <2>2. FileBytes(files') <= FileBytes(files \ DOMAIN progress)
                             + FileBytes(DOMAIN progress)
    BY <1>5, <1>12, <2>1, FileBytesSplit
  <2>3. MutableGrowth(t) \in Nat
    BY <1>2, GrowthNatural
       DEF StoreInv, Drafts, Drafted, Evidence, EvidenceKinds
  <2>4. /\ FileBytes(files \ DOMAIN progress) \in Nat
        /\ FileBytes(DOMAIN progress) \in Nat /\ FileBytes(files') \in Nat
        /\ MutableTotal \in Nat /\ orphans \in Nat
    BY <1>12, <2>1, FS_Subset, FileBytesNatural, TotalsNatural
       DEF QuotaInv, Scan
  <2>5. /\ usage = FileBytes(files \ DOMAIN progress) + MutableTotal + orphans
        /\ delta = FileBytes(DOMAIN progress) + MutableGrowth(t)
        /\ usage + delta <= MaxBytes
    BY <1>2, <1>4 DEF Half
  <2>6. PublishedBytes' = FileBytes(files') + MutableTotal
    BY <1>7 DEF PublishedBytes, FileBytes
  <2> QED  BY <2>2, <2>3, <2>4, <2>5, <2>6, SizeAssumption
<1>14. Commits' /\ ~NoCommit'
  <2>1. \A u \in Tasks \ {t} : ~Committing(u)
    BY <1>4, OneCommitter DEF StoreInv
  <2> QED  BY <1>2, <1>11, <2>1 DEF Commits, NoCommit, Committing
<1> QED  BY <1>2, <1>12, <1>13, <1>14 DEF QuotaInv, Known, Scan

\* A commit whose files are all published misses none of them.
LEMMA PublishedFiles ==
  ASSUME StoreInv, QuotaInv, NEW t \in Tasks, AllPublished(t)
  PROVE  DOMAIN progress \subseteq files /\ temps = {}
<1>1. \A file \in DOMAIN progress : progress[file] = "done"
  BY DEF AllPublished, Settled, AnyFailed
<1>2. pc[t] = "staging" /\ Half(t)
  BY DEF AllPublished, QuotaInv, Commits, Committing
<1>3. DOMAIN progress \subseteq files
  BY <1>1, <1>2 DEF StoreInv, Staged
<1> QED  BY <1>1, <1>2, <1>3 DEF Half

LEMMA StageMutableAccounts ==
  ASSUME StoreInv, QuotaInv, NEW t \in Tasks, StageMutable(t)
  PROVE  QuotaInv'
<1>1. /\ AllPublished(t) /\ temps' = temps \cup {MutableFile}
      /\ pc' = [pc EXCEPT ![t] = "renaming"]
      /\ UNCHANGED <<files, index, pointer, orphans, op, draft, base,
                     usage, delta, progress>>
  BY DEF StageMutable, commitLocals
<1>2. pc[t] = "staging" /\ Half(t) /\ HoldsStore(t)
  BY <1>1 DEF AllPublished, QuotaInv, Commits, Committing, StoreInv, Locks
<1>3. pc'[t] = "renaming" /\ \A u \in Tasks \ {t} : ~Committing(u)'
  <2>1. \A u \in Tasks \ {t} : ~Committing(u)
    BY <1>2, OneCommitter DEF StoreInv
  <2> QED  BY <1>1, <2>1 DEF Committing, StoreInv, Types
<1>4. DOMAIN progress \subseteq files /\ temps' \subseteq {MutableFile}
  BY <1>1, PublishedFiles
<1>5. Scan' /\ MutableTotal' = MutableTotal
  BY <1>1, SameDisk DEF QuotaInv, Scan
<1>6. MutableGrowth(t)' = MutableGrowth(t) /\ Immutable(t)' = Immutable(t)
  BY <1>1 DEF MutableGrowth, MutableBytes, PointerSize, Immutable
<1>7. FileBytes(files \ DOMAIN progress)' = FileBytes(files \ DOMAIN progress)
      /\ FileBytes(DOMAIN progress)' = FileBytes(DOMAIN progress)
  BY <1>1 DEF FileBytes
<1>8. Half(t)'
  BY <1>1, <1>2, <1>3, <1>4, <1>5, <1>6, <1>7 DEF Half
<1> QED  BY <1>3, <1>5, <1>8 DEF QuotaInv, Known, Commits, NoCommit, Committing

\* A complete commit has published what usage and delta foretold.
LEMMA CommitAddsUp ==
  ASSUME StoreInv, QuotaInv, NEW t \in Tasks,
         pc[t] \in {"staging", "renaming"}, DOMAIN progress \subseteq files
  PROVE  usage + delta = PublishedBytes + orphans + MutableGrowth(t)
<1>1. Half(t)
  BY DEF QuotaInv, Commits, Committing
<1>2. IsFiniteSet(files) /\ IsFiniteSet(DOMAIN progress)
  BY FS_Subset DEF QuotaInv, Scan
<1>3. FileBytes(files) = FileBytes(files \ DOMAIN progress)
                         + FileBytes(DOMAIN progress)
  BY <1>2, FileBytesSplit
<1>4. MutableGrowth(t) \in Nat
  BY GrowthNatural DEF StoreInv, Drafts, Drafted, Evidence, EvidenceKinds
<1>5. /\ FileBytes(files \ DOMAIN progress) \in Nat
      /\ FileBytes(DOMAIN progress) \in Nat
      /\ MutableTotal \in Nat /\ orphans \in Nat
  BY <1>2, FS_Subset, FileBytesNatural, TotalsNatural DEF QuotaInv, Scan
<1>6. /\ usage = FileBytes(files \ DOMAIN progress) + MutableTotal + orphans
      /\ delta = FileBytes(DOMAIN progress) + MutableGrowth(t)
  BY <1>1 DEF Half
<1> QED  BY <1>3, <1>4, <1>5, <1>6 DEF PublishedBytes

\* The rename adds one entry to an index, or one pointer where there was none.
LEMMA RenameGrows ==
  ASSUME StoreInv, QuotaInv, NEW t \in Tasks, RenameMutable(t)
  PROVE  /\ IsFiniteSet(Entries')
         /\ MutableTotal' = MutableTotal + MutableGrowth(t)
<1> DEFINE f == op[t].fp  m == draft[t]
<1>1. /\ f \in Fingerprints /\ m \in Manifests
      /\ \/ /\ op[t].kind = "valid"
            /\ index' = [index EXCEPT ![f] = Append(@, m)] /\ pointer' = pointer
         \/ /\ op[t].kind \in PointerKinds
            /\ pointer' = [pointer EXCEPT ![f] = m] /\ index' = index
  BY RenameEffect
<1>2. /\ op[t].kind = "valid" => MutableGrowth(t) = EntryBytes
      /\ op[t].kind \in PointerKinds =>
           MutableGrowth(t) = PointerBytes - PointerSize(f)
  BY GrowthNatural
     DEF StoreInv, Drafts, Drafted, Evidence, EvidenceKinds, RenameMutable
<1>3. /\ index \in [Fingerprints -> Seq(Manifests)]
      /\ pointer \in [Fingerprints -> Manifests \cup {NoPointer}]
  BY DEF StoreInv, Types
<1>4. /\ IsFiniteSet(Entries) /\ Cardinality(Entries) \in Nat
      /\ IsFiniteSet(Pointed) /\ Cardinality(Pointed) \in Nat
  BY FiniteAssumption, FS_Subset, FS_CardinalityType DEF Pointed, QuotaInv, Scan
<1> HIDE DEF f, m
<1>5. CASE /\ op[t].kind = "valid"
           /\ index' = [index EXCEPT ![f] = Append(@, m)] /\ pointer' = pointer
  <2>1. PICK n \in Nat : n = Len(index[f])
    BY <1>1, <1>3
  <2>2. Append(index[f], m) \in Seq(Manifests)
        /\ DOMAIN Append(index[f], m) = DOMAIN index[f] \cup {n + 1}
        /\ DOMAIN index[f] = 1 .. n
    <3>1. index[f] \in Seq(Manifests)
      BY <1>1, <1>3
    <3>2. DOMAIN Append(index[f], m) = 1 .. n + 1 /\ DOMAIN index[f] = 1 .. n
      BY <1>1, <2>1, <3>1
    <3> QED  BY <1>1, <3>1, <3>2
  <2>3. \A g \in Fingerprints :
          DOMAIN index'[g] = IF g = f THEN DOMAIN index[g] \cup {n + 1}
                             ELSE DOMAIN index[g]
    BY <1>1, <1>3, <1>5, <2>2
  <2>4. Entries' = Entries \cup {<<f, n + 1>>}
    <3>1. \A e : e \in Entries <=>
            \E g \in Fingerprints : \E i \in DOMAIN index[g] : e = <<g, i>>
      BY DEF Entries
    <3>2. \A e : e \in Entries' <=>
            \E g \in Fingerprints : \E i \in DOMAIN index'[g] : e = <<g, i>>
      BY DEF Entries
    <3>3. \A e : e \in Entries' <=> e \in Entries \/ e = <<f, n + 1>>
      BY <1>1, <2>3, <3>1, <3>2
    <3> QED  BY <3>3
  <2>5. <<f, n + 1>> \notin Entries
    BY <2>2 DEF Entries
  <2>6. IsFiniteSet(Entries') /\ Cardinality(Entries') = Cardinality(Entries) + 1
    BY <1>4, <2>4, <2>5, FS_AddElement
  <2>7. Pointed' = Pointed
    BY <1>5 DEF Pointed
  <2>8. /\ (Cardinality(Entries) + 1) * EntryBytes
             = Cardinality(Entries) * EntryBytes + 1 * EntryBytes
        /\ Cardinality(Entries) * EntryBytes \in Nat
        /\ Cardinality(Pointed) * PointerBytes \in Nat
    BY <1>4, SizeAssumption, Distributes
  <2>9. PICK e \in Nat, p \in Nat :
          /\ MutableTotal = e + p /\ MutableTotal' = e + 1 * EntryBytes + p
    BY <2>6, <2>7, <2>8 DEF MutableTotal
  <2> QED  BY <1>2, <1>5, <2>6, <2>9, SizeAssumption
<1>6. CASE /\ op[t].kind \in PointerKinds
           /\ pointer' = [pointer EXCEPT ![f] = m] /\ index' = index
  <2>1. Entries' = Entries /\ Pointed' = Pointed \cup {f}
    <3>1. m # NoPointer
      BY <1>1, NullAssumption
    <3> QED  BY <1>1, <1>3, <1>6, <3>1 DEF Entries, Pointed
  <2>2. CASE f \in Pointed
    <3>1. PointerSize(f) = PointerBytes /\ Pointed' = Pointed
      BY <2>1, <2>2 DEF Pointed, PointerSize
    <3>2. MutableTotal' = MutableTotal /\ MutableTotal \in Nat
      BY <2>1, <3>1, TotalsNatural DEF MutableTotal, QuotaInv, Scan
    <3> QED  BY <1>2, <1>4, <1>6, <2>1, <3>1, <3>2, SizeAssumption
  <2>3. CASE f \notin Pointed
    <3>1. PointerSize(f) = 0
      BY <1>1, <2>3 DEF Pointed, PointerSize
    <3>2. Cardinality(Pointed') = Cardinality(Pointed) + 1
      BY <1>4, <2>1, <2>3, FS_AddElement
    <3>3. /\ (Cardinality(Pointed) + 1) * PointerBytes
               = Cardinality(Pointed) * PointerBytes + 1 * PointerBytes
          /\ Cardinality(Entries) * EntryBytes \in Nat
          /\ Cardinality(Pointed) * PointerBytes \in Nat
      BY <1>4, SizeAssumption, Distributes
    <3>4. PICK e \in Nat, p \in Nat :
            /\ MutableTotal = e + p /\ MutableTotal' = e + (p + 1 * PointerBytes)
      BY <2>1, <3>2, <3>3 DEF MutableTotal
    <3> QED  BY <1>2, <1>4, <1>6, <2>1, <3>1, <3>4, SizeAssumption
  <2> QED  BY <2>2, <2>3
<1> QED  BY <1>1, <1>5, <1>6

LEMMA RenameMutableAccounts ==
  ASSUME StoreInv, QuotaInv, NEW t \in Tasks, RenameMutable(t)
  PROVE  QuotaInv'
<1>1. /\ pc[t] = "renaming" /\ temps' = temps \ {MutableFile}
      /\ pc' = [pc EXCEPT ![t] = "verifying"]
      /\ UNCHANGED <<files, orphans, draft, usage, delta, progress>>
  BY DEF RenameMutable, commitLocals
<1>2. Half(t) /\ HoldsStore(t)
  BY <1>1 DEF QuotaInv, Commits, Committing, StoreInv, Locks
<1>3. pc'[t] = "verifying" /\ \A u \in Tasks \ {t} : ~Committing(u)'
  <2>1. \A u \in Tasks \ {t} : ~Committing(u)
    BY <1>2, OneCommitter DEF StoreInv
  <2> QED  BY <1>1, <2>1 DEF Committing, StoreInv, Types
<1>4. /\ IsFiniteSet(files') /\ IsFiniteSet(Entries') /\ orphans' \in Nat
      /\ PublishedBytes' = PublishedBytes + MutableGrowth(t)
  <2>1. FileBytes(files') = FileBytes(files)
    BY <1>1
  <2>2. IsFiniteSet(Entries') /\ MutableTotal' = MutableTotal + MutableGrowth(t)
    BY RenameGrows
  <2>3. MutableGrowth(t) \in Nat
    BY <1>1, GrowthNatural
       DEF StoreInv, Drafts, Drafted, Evidence, EvidenceKinds
  <2>4. FileBytes(files) \in Nat /\ MutableTotal \in Nat
    BY TotalsNatural DEF QuotaInv, Scan
  <2>5. PublishedBytes' = FileBytes(files') + MutableTotal'
    BY DEF PublishedBytes, FileBytes
  <2>6. PublishedBytes' = PublishedBytes + MutableGrowth(t)
    BY <2>1, <2>2, <2>3, <2>4, <2>5 DEF PublishedBytes
  <2> QED  BY <1>1, <2>2, <2>6 DEF QuotaInv, Scan
<1>5. usage + delta = PublishedBytes + orphans + MutableGrowth(t)
  BY <1>1, <1>2, CommitAddsUp DEF Half
<1>6. /\ MutableGrowth(t) \in Nat /\ PublishedBytes \in Nat /\ orphans \in Nat
  BY <1>1, GrowthNatural, TotalsNatural
     DEF StoreInv, Drafts, Drafted, Evidence, EvidenceKinds, QuotaInv, Scan
<1>7. usage' + delta' = PublishedBytes' + orphans'
  BY <1>1, <1>4, <1>5, <1>6
<1>8. PublishedBytes' <= MaxBytes
  BY <1>2, <1>4, <1>5, <1>6, SizeAssumption DEF Half
<1>9. Half(t)'
  BY <1>1, <1>2, <1>3, <1>7 DEF Half, Immutable
<1> QED
  BY <1>3, <1>4, <1>8, <1>9
     DEF QuotaInv, Scan, Known, Commits, NoCommit, Committing

LEMMA CloseCommitAccounts ==
  ASSUME StoreInv, QuotaInv, NEW t \in Tasks, CloseCommit(t)
  PROVE  QuotaInv'
<1>1. /\ accounted' = usage + delta /\ UNCHANGED disk
      /\ \/ pc[t] = "verifying"
         \/ AllPublished(t) /\ op[t].kind = "note"
  BY DEF CloseCommit
<1>2. Committing(t) /\ HoldsStore(t) /\ Half(t)
  BY <1>1 DEF AllPublished, Committing, QuotaInv, Commits, StoreInv, Locks
<1>3. temps = {} /\ accounted' = PublishedBytes + orphans
  <2>1. CASE pc[t] = "verifying"
    BY <1>1, <1>2, <2>1 DEF Half
  <2>2. CASE AllPublished(t) /\ op[t].kind = "note"
    <3>1. pc[t] = "staging" /\ op[t].kind = "note"
      BY <2>2 DEF AllPublished
    <3>2. MutableGrowth(t) = 0
      BY <3>1 DEF MutableGrowth, PointerKinds
    <3>3. temps = {} /\ usage + delta = PublishedBytes + orphans + 0
      BY <2>2, <3>1, <3>2, PublishedFiles, CommitAddsUp
    <3>4. PublishedBytes \in Nat /\ orphans \in Nat
      BY TotalsNatural DEF QuotaInv, Scan
    <3> QED  BY <1>1, <3>3, <3>4
  <2> QED  BY <1>1, <2>1, <2>2
<1>4. CASE Exit(t)
  BY <1>1, <1>2, <1>3, <1>4, ExitAccounts DEF Committing, States, disk
<1>5. CASE pc' = [pc EXCEPT ![t] = "removing"]
  <2>1. \A u \in Tasks : ~Committing(u)'
    BY <1>2, <1>5, OneCommitter DEF Committing, StoreInv, Types
  <2> QED
    BY <1>1, <1>3, <2>1, SameDisk DEF QuotaInv, Scan, Known, Commits, disk
<1> QED  BY <1>4, <1>5 DEF CloseCommit

LEMMA CrashAccounts ==
  ASSUME StoreInv, QuotaInv, Crash
  PROVE  QuotaInv'
<1>1. /\ orphans' = orphans + TempBytes /\ temps' = {} /\ accounted' = Unknown
      /\ pc' = [t \in Tasks |-> "idle"]
      /\ UNCHANGED <<files, index, pointer>>
  BY DEF Crash
<1>2. TempBytes \in Nat
  <2>1. IsFiniteSet(temps \ {MutableFile})
        /\ (MutableFile \in temps => Head(storeQueue) \in Tasks)
    <3>1. CASE NoCommit
      BY <3>1, FS_EmptySet DEF QuotaInv, Known
    <3>2. ASSUME NEW t \in Tasks, Committing(t)
          PROVE  /\ IsFiniteSet(temps \ {MutableFile})
                 /\ Head(storeQueue) = t
      <4>1. Half(t) /\ Head(storeQueue) = t
        BY <3>2 DEF QuotaInv, Commits, StoreInv, Locks, HoldsStore
      <4>2. CASE pc[t] = "staging"
        <5>1. temps \subseteq Immutable(t)
          BY <4>1, <4>2 DEF Half
        <5> QED  BY <4>1, <4>2, <5>1, ImmutableFinite, FS_Subset
                    DEF StoreInv, Drafts, Drafted
      <4>3. CASE pc[t] \in {"renaming", "verifying"}
        <5>1. temps \ {MutableFile} = {}
          BY <4>1, <4>3 DEF Half
        <5> QED  BY <4>1, <5>1, FS_EmptySet
      <4> QED  BY <3>2, <4>2, <4>3 DEF Committing
    <3> QED  BY <3>1, <3>2 DEF NoCommit
  <2>2. ASSUME NEW t \in Tasks PROVE MutableBytes(t) \in Nat
    <3>1. Len(base[t]) + 1 \in Nat
      BY DEF StoreInv, Types
    <3> QED  BY <3>1, SizeAssumption, Distributes DEF MutableBytes
  <2>3. FileBytes(temps \ {MutableFile}) \in Nat
    BY <2>1, FileBytesNatural
  <2> QED  BY <2>1, <2>2, <2>3 DEF TempBytes
<1>3. \A t \in Tasks : ~Committing(t)'
  BY <1>1 DEF Committing
<1> QED
  BY <1>1, <1>2, <1>3, SameDisk DEF QuotaInv, Scan, Known, Commits

LEMMA QuotaInvariant == Spec => []QuotaInv
<1>1. Init => QuotaInv
  <2> SUFFICES ASSUME Init PROVE QuotaInv
    OBVIOUS
  <2>1. Entries = {} /\ Pointed = {} /\ files = {} /\ temps = {} /\ orphans = 0
    BY DEF Init, Entries, Pointed
  <2>2. MutableTotal = 0 /\ FileBytes(files) = 0
    BY <2>1, FS_EmptySet, FileBytesOfNone, SizeAssumption DEF MutableTotal
  <2>3. Scan /\ Known
    BY <2>1, <2>2, FS_EmptySet, SizeAssumption
       DEF Scan, Known, PublishedBytes, Init
  <2> QED  BY <2>3 DEF QuotaInv, Commits, Committing, Init
<1>2. StoreInv /\ QuotaInv /\ [Next]_vars => QuotaInv'
  <2> SUFFICES ASSUME StoreInv, QuotaInv, [Next]_vars PROVE QuotaInv'
    OBVIOUS
  <2>1. CASE Warmup
    <3>1. NoCommit /\ UNCHANGED <<disk, pc>> /\ accounted' = DiskUsage
      BY <2>1, NobodyCommits DEF Warmup, taskVars
    <3>2. accounted' = PublishedBytes + orphans
      BY <3>1, ScanIsExact
    <3> QED
      BY <3>1, <3>2, SameDisk
         DEF QuotaInv, Scan, Known, Commits, NoCommit, Committing, disk
  <2>2. CASE UNCHANGED vars
    <3>1. UNCHANGED <<disk, accounted, pc>>
      BY <2>2 DEF vars, taskVars
    <3>2. Scan' /\ Known'
      BY <3>1, SameDisk DEF QuotaInv, Scan, Known, NoCommit, Committing, disk
    <3>3. Commits'
      BY <2>2, SameCommit
         DEF QuotaInv, Commits, Committing, vars, taskVars
    <3> QED  BY <3>2, <3>3 DEF QuotaInv
  <2>3. ASSUME NEW t \in Tasks, TaskStep(t) PROVE QuotaInv'
    BY <2>3, OutsideKeeps, OpenCommitAccounts, FileStepAccounts,
       StageMutableAccounts, RenameMutableAccounts, CloseCommitAccounts,
       LeavingAccounts, RemovePointerAccounts DEF TaskStep, CommitStep
  <2> QED  BY <2>1, <2>2, <2>3, OutsideKeeps, CrashAccounts DEF Next
<1> QED  BY <1>1, <1>2, StoreInvariant, PTL DEF Spec

\* The in-memory total is what a full scan would find whenever no commit is
\* half done, and what readers see stays within the quota, for any sizes,
\* failures and crashes (commit, accountedDiskUsage, removeTrackedFile).
THEOREM QuotaIsExact == Spec => []QuotaAccounted
<1>1. QuotaInv => QuotaAccounted
  BY ScanIsExact DEF QuotaInv, Scan, Known, QuotaAccounted
<1> QED  BY <1>1, QuotaInvariant, PTL

=============================================================================
