----------------------------- MODULE RevisionLog -----------------------------
(***************************************************************************)
(* What the evidence cache promises about one request fingerprint          *)
(* (docs/evidence-cache.md, "Identity and revision contract"): a log of    *)
(* valid revisions that only grows, by one revision numbered after its     *)
(* predecessor, and a separate pointer to the latest retryable failure.    *)
(* Both change atomically; nothing is said of files, locks or crashes.     *)
(***************************************************************************)
EXTENDS Integers, Sequences

CONSTANTS Fingerprints, Manifests, NoPointer

VARIABLES log, retry

Init ==
  /\ log = [f \in Fingerprints |-> <<>>]
  /\ retry = [f \in Fingerprints |-> NoPointer]

\* A failure or a retryable partial result never becomes a revision.
Publish(f, m) ==
  /\ m.kind = "valid" /\ m.fp = f /\ m.revision = Len(log[f]) + 1
  /\ log' = [log EXCEPT ![f] = Append(@, m)]
  /\ UNCHANGED retry

Suppress(f, m) ==
  /\ m.kind \in {"retryable", "failure"} /\ m.fp = f
  /\ retry' = [retry EXCEPT ![f] = m]
  /\ UNCHANGED log

Lift(f) ==
  /\ retry' = [retry EXCEPT ![f] = NoPointer]
  /\ UNCHANGED log

Next ==
  \E f \in Fingerprints :
    \/ Lift(f)
    \/ \E m \in Manifests : Publish(f, m) \/ Suppress(f, m)

Spec == Init /\ [][Next]_<<log, retry>>

=============================================================================
