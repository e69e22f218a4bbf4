-------------------------- MODULE MCAuditExecution --------------------------
(* An instance of AuditExecution for TLC: attempts are interchangeable.       *)
EXTENDS AuditExecution, TLC

TrySymmetry == Permutations(Tries)
=============================================================================
