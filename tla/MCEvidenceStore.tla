-------------------------- MODULE MCEvidenceStore --------------------------
(* Small instances of EvidenceStore for TLC.                               *)
EXTENDS EvidenceStore, TLC

CONSTANTS o1, o2

\* Two answers that share an object, so that a commit finds one already there.
MCPayloads == {{o1}, {o1, o2}}

TaskSymmetry == Permutations(Tasks)

=============================================================================
