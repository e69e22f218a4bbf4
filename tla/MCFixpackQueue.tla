--------------------------- MODULE MCFixpackQueue ---------------------------
(* Instances of FixpackQueue for TLC: the charges pay for one audit, or for   *)
(* one each.                                                                  *)
EXTENDS FixpackQueue, TLC

CONSTANT a1

OneAudit == [c \in Charges |-> a1]

OwnAudit == [c \in Charges |-> c]

\* Runs are interchangeable, and so are the handlers that confirm.
HandlerSymmetry == Permutations(Runs) \union Permutations(Confirmers)

=============================================================================
