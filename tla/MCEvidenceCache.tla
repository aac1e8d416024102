-------------------------- MODULE MCEvidenceCache --------------------------
(* Small instances of EvidenceCache for TLC.                               *)
EXTENDS EvidenceCache, TLC

CallerSymmetry == Permutations(Callers)
Symmetric == Permutations(Callers) \cup Permutations(Contexts)

=============================================================================
