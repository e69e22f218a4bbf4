----------------------------- MODULE LeaseQueue -----------------------------
(***************************************************************************)
(* What the audit queue (app/db.py, AuditJobRepository) promises to its    *)
(* callers: a job is worked on by at most one slot whose answer counts, at *)
(* most MaxAttempts attempts are spent on it, and an attempt that was      *)
(* revoked can neither finish the job nor give it back.  AuditQueue, with  *)
(* its rows, heartbeats, reaper, restarts and late statements, is shown to *)
(* implement this.                                                         *)
(***************************************************************************)
EXTENDS Naturals, TLAPS

CONSTANTS
    Jobs, Slots, NoJob,
    KeyOf,        \* the idempotency key each submission carries
    MaxAttempts   \* audit_jobs.max_attempts

VARIABLES
    status,   \* audit_jobs.state, what the submitter is told
    spent,    \* attempts that ended badly
    attempt   \* slot -> the job its answer counts for

vars == <<status, spent, attempt>>

Live == {"created", "queued", "running"}

NobodyElse(j) == \A i \in Jobs : KeyOf[i] = KeyOf[j] => status[i] \notin Live

On(w, j) == attempt[w] = j /\ j \in Jobs

\* The attempts of the slots in W no longer count.
Dropped(W) == attempt' = [w \in Slots |-> IF w \in W THEN NoJob ELSE attempt[w]]

Init ==
    /\ status = [j \in Jobs |-> "none"]
    /\ spent = [j \in Jobs |-> 0]
    /\ attempt = [w \in Slots |-> NoJob]

\* A submission is accepted unless a live job has its key; an upload is staged
\* first.
Submit(j) ==
    /\ status[j] = "none"
    /\ NobodyElse(j)
    /\ \E s \in {"created", "queued"} : status' = [status EXCEPT ![j] = s]
    /\ UNCHANGED <<spent, attempt>>

Open(j) ==
    /\ status[j] = "created"
    /\ status' = [status EXCEPT ![j] = "queued"]
    /\ UNCHANGED <<spent, attempt>>

\* Uploads that were never staged to the end are dropped together.
Reject(J) ==
    /\ \A j \in J : status[j] = "created"
    /\ status' = [j \in Jobs |-> IF j \in J THEN "dead_letter" ELSE status[j]]
    /\ UNCHANGED <<spent, attempt>>

\* A slot takes an open job, or dies as it does: the job is then leased to
\* nobody.
Claim(w, j) ==
    /\ status[j] = "queued" /\ spent[j] < MaxAttempts
    /\ attempt[w] = NoJob
    /\ status' = [status EXCEPT ![j] = "running"]
    /\ \E taken \in {j, NoJob} : attempt' = [attempt EXCEPT ![w] = taken]
    /\ UNCHANGED spent

Finish(w, j) ==
    /\ On(w, j)
    /\ status' = [status EXCEPT ![j] = "succeeded"]
    /\ Dropped({w})
    /\ UNCHANGED spent

\* An attempt fails: the job opens again only if an attempt is left.
Fail(w, j) ==
    /\ On(w, j)
    /\ spent' = [spent EXCEPT ![j] = @ + 1]
    /\ \/ status' = [status EXCEPT ![j] = "dead_letter"]
       \/ spent[j] + 1 < MaxAttempts /\ status' = [status EXCEPT ![j] = "queued"]
    /\ Dropped({w})

\* A slot that has to leave hands the job back, and nothing is spent.
GiveBack(w, j) ==
    /\ On(w, j)
    /\ status' = [status EXCEPT ![j] = "queued"]
    /\ Dropped({w})
    /\ UNCHANGED spent

\* Leases lapse: the attempt on each of them, if there is one, counts no more.
Revoke(J) ==
    /\ \A j \in J : status[j] = "running"
    /\ spent' = [j \in Jobs |-> IF j \in J THEN spent[j] + 1 ELSE spent[j]]
    /\ status' = [j \in Jobs |-> IF j \notin J THEN status[j]
                                 ELSE IF spent[j] + 1 < MaxAttempts THEN "queued"
                                 ELSE "dead_letter"]
    /\ Dropped({w \in Slots : attempt[w] \in J})

\* Slots die, and leave their leases behind.
Lose(W) ==
    /\ Dropped(W)
    /\ UNCHANGED <<status, spent>>

Next ==
    \/ \E j \in Jobs : Submit(j) \/ Open(j)
    \/ \E J \in SUBSET Jobs : Reject(J) \/ Revoke(J)
    \/ \E w \in Slots, j \in Jobs :
          Claim(w, j) \/ Finish(w, j) \/ Fail(w, j) \/ GiveBack(w, j)
    \/ \E W \in SUBSET Slots : Lose(W)

Spec == Init /\ [][Next]_vars
-----------------------------------------------------------------------------
\* The answers of two slots never count for one job, and one counts only for a
\* job that is leased.
Exclusive ==
    /\ \A w \in Slots, j \in Jobs : attempt[w] = j => status[j] = "running"
    /\ \A v, w \in Slots, j \in Jobs : attempt[v] = j /\ attempt[w] = j => v = w

\* No job costs more than its attempts, the one under way included.
WithinBudget ==
    \A j \in Jobs : /\ spent[j] <= MaxAttempts
                    /\ status[j] \in {"queued", "running"} => spent[j] < MaxAttempts

-----------------------------------------------------------------------------
(* The argument: a slot takes a job that is queued, hence nobody's, and the  *)
(* steps that take a job out of 'running' drop the attempt on it.            *)

Typed ==
    /\ status \in [Jobs -> Live \cup {"none", "succeeded", "dead_letter"}]
    /\ spent \in [Jobs -> Nat]
    /\ attempt \in [Slots -> Jobs \cup {NoJob}]

\* Nothing is spent on a job before it is queued.
Unspent == \A j \in Jobs : status[j] \in {"none", "created"} => spent[j] = 0

LQInv == Typed /\ Exclusive /\ WithinBudget /\ Unspent

LEMMA LQStep ==
    ASSUME NoJob \notin Jobs, MaxAttempts \in Nat \ {0}, LQInv, [Next]_vars
    PROVE  LQInv'
<1> USE DEF LQInv, Typed, Exclusive, WithinBudget, Unspent, Live
<1>1. ASSUME NEW j \in Jobs, Submit(j) \/ Open(j)  PROVE LQInv'
      BY <1>1 DEF Submit, Open
<1>2. ASSUME NEW J \in SUBSET Jobs, Reject(J)  PROVE LQInv'
      BY <1>2 DEF Reject
<1>3. ASSUME NEW J \in SUBSET Jobs, Revoke(J)  PROVE LQInv'
  <2>1. Typed'  BY <1>3 DEF Revoke, Dropped
  <2>2. Exclusive'  BY <1>3 DEF Revoke, Dropped
  <2>3. WithinBudget' /\ Unspent'  BY <1>3 DEF Revoke
  <2> QED BY <2>1, <2>2, <2>3
<1>4. ASSUME NEW w \in Slots, NEW j \in Jobs, Claim(w, j)  PROVE LQInv'
  <2>1. Typed' /\ WithinBudget' /\ Unspent'  BY <1>4 DEF Claim
  <2>2. Exclusive'  BY <1>4 DEF Claim
  <2> QED BY <2>1, <2>2
<1>5. ASSUME NEW w \in Slots, NEW j \in Jobs,
             Finish(w, j) \/ Fail(w, j) \/ GiveBack(w, j)
      PROVE  LQInv'
  <2>1. Typed'  BY <1>5 DEF Finish, Fail, GiveBack, Dropped, On
  <2>2. Exclusive'  BY <1>5 DEF Finish, Fail, GiveBack, Dropped, On
  <2>3. WithinBudget' /\ Unspent'  BY <1>5 DEF Finish, Fail, GiveBack, On
  <2> QED BY <2>1, <2>2, <2>3
<1>6. ASSUME NEW W \in SUBSET Slots, Lose(W)  PROVE LQInv'
      BY <1>6 DEF Lose, Dropped
<1>7. CASE UNCHANGED vars  BY <1>7 DEF vars
<1> QED BY <1>1, <1>2, <1>3, <1>4, <1>5, <1>6, <1>7 DEF Next

\* In the abstract queue the answers of two slots never count for one job, and
\* no job costs more than its attempts.
THEOREM LeasesAreExclusive ==
    ASSUME NoJob \notin Jobs, MaxAttempts \in Nat \ {0}
    PROVE  Spec => [](Exclusive /\ WithinBudget)
<1>1. Init => LQInv
      BY DEF Init, LQInv, Typed, Exclusive, WithinBudget, Unspent, Live
<1>2. LQInv /\ [Next]_vars => LQInv'  BY LQStep
<1>3. LQInv => Exclusive /\ WithinBudget  BY DEF LQInv
<1> QED BY <1>1, <1>2, <1>3, PTL DEF Spec
=============================================================================
