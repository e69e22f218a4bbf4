---------------------------- MODULE MCAuditQueue ----------------------------
(* Instances of AuditQueue for TLC: the worker's slots live in one process    *)
(* (the deployed unit) or in one process each.                                *)
EXTENDS AuditQueue

CONSTANTS k1, k2, p1, p2, w1

\* Uploads share a key, so a second upload is a resubmission; repository URLs
\* are submitted under another.
KeyByKind == [j \in Jobs |-> IF j \in ZipJobs THEN k1 ELSE k2]

OneProcess == [w \in Slots |-> p1]

TwoProcesses == [w \in Slots |-> IF w = w1 THEN p1 ELSE p2]
=============================================================================
