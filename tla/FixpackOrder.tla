---------------------------- MODULE FixpackOrder ----------------------------
(***************************************************************************)
(* What the Fix Pack queue promises about the work one charge reserves,    *)
(* whatever crashes, retries and operators do: it is reserved once, stays  *)
(* owed until it is settled, opens at most one pull request and only while *)
(* it is owed, and once settled stays settled, unless an operator reopens  *)
(* a blocked one.                                                          *)
(***************************************************************************)
EXTENDS Naturals

CONSTANT Charges

VARIABLES stage,   \* how far the work of each charge is
          prs      \* how many pull requests it has opened

Stages == {"none", "owed", "blocked", "closed"}

Init == /\ stage = [c \in Charges |-> "none"]
        /\ prs = [c \in Charges |-> 0]

Reserve(c) == /\ stage[c] = "none"
              /\ stage' = [stage EXCEPT ![c] = "owed"]
              /\ UNCHANGED prs

OpenPR(c) == /\ stage[c] = "owed"
             /\ prs[c] = 0
             /\ prs' = [prs EXCEPT ![c] = 1]
             /\ UNCHANGED stage

\* One pass of the stale-lease reaper may give up on several at once.
Close(S) == /\ S # {}
            /\ \A c \in S : stage[c] = "owed"
            /\ stage' = [c \in Charges |-> IF c \in S THEN "closed"
                                           ELSE stage[c]]
            /\ UNCHANGED prs

Block(c) == /\ stage[c] = "owed"
            /\ stage' = [stage EXCEPT ![c] = "blocked"]
            /\ UNCHANGED prs

Reopen(c) == /\ stage[c] = "blocked"
             /\ stage' = [stage EXCEPT ![c] = "owed"]
             /\ UNCHANGED prs

Next == \/ \E c \in Charges : Reserve(c) \/ OpenPR(c) \/ Block(c) \/ Reopen(c)
        \/ \E S \in SUBSET Charges : Close(S)

Spec == Init /\ [][Next]_<<stage, prs>>

=============================================================================
