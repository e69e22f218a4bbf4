---------------------------- MODULE FixpackProofs ----------------------------
(***************************************************************************)
(* Proofs about FixpackQueue, for any number of charges, audits, handlers, *)
(* processor runs and disturbances.                                        *)
(***************************************************************************)
EXTENDS FixpackQueue, TLAPS

-----------------------------------------------------------------------------
(* What the statements do to a row, field by field *)

\* mark_status writes the status of its place and leaves the attempts alone.
LEMMA MarkStatusFields ==
    ASSUME NEW row \in Rows, NEW p \in WritePhases \ {"record", "release"}
    PROVE  /\ MarkStatus(row, p) \in Rows
           /\ MarkStatus(row, p).status \in {"running"} \union Terminal
           /\ MarkStatus(row, p).status # "delivered"
           /\ MarkStatus(row, p).status = "running" <=> p \in {"defer", "soft"}
           /\ MarkStatus(row, p).attempts = row.attempts
<1>1. /\ StatusOf[p] \in {"running", "no_fix_needed", "blocked", "failed"}
      /\ StatusOf[p] = "running" <=> p \in {"defer", "soft"}
      BY DEF StatusOf, WritePhases
<1> DEFINE s == StatusOf[p]
           h == IF p = "nofix" THEN row.hardProof ELSE p = "gate"
<1>2. h \in BOOLEAN  BY DEF Rows
<1> HIDE DEF s, h
<1>3. MarkStatus(row, p) = [row EXCEPT !.status = s, !.hardProof = h]
      BY DEF MarkStatus, s, h, Rows
<1>4. s \in {"running", "no_fix_needed", "blocked", "failed"}  BY <1>1 DEF s
<1>5. [row EXCEPT !.status = s, !.hardProof = h] \in Rows
      BY <1>2, <1>4 DEF Rows, Statuses, Live, Terminal
<1> QED BY <1>1, <1>3, <1>4, <1>5 DEF s, Rows, Terminal

LEMMA ReleasedFields ==
    ASSUME NEW row \in Rows
    PROVE  /\ Released(row) \in Rows
           /\ row.status # "running" => Released(row) = row
           /\ row.status = "running" =>
                 /\ Released(row).status = "paid"
                 /\ row.attempts > 0 =>
                       Released(row).attempts = row.attempts - 1
<1> DEFINE a == IF row.attempts > 0 THEN row.attempts - 1 ELSE 0
<1>1. a \in Nat  BY DEF Rows
<1> HIDE DEF a
<1>2. [row EXCEPT !.status = "paid", !.lease = "none", !.hardProof = FALSE,
                  !.attempts = a] \in Rows
      BY <1>1 DEF Rows, Statuses, Live
<1> QED BY <1>1, <1>2 DEF Released, Rows, a

LEMMA RowUpdates ==
    ASSUME NEW row \in Rows
    PROVE  /\ MarkDelivered(row) \in Rows
           /\ MarkDelivered(row).status = "delivered"
           /\ MarkDelivered(row).attempts = row.attempts
           /\ Claimed(row) \in Rows
           /\ Claimed(row).status = "running"
           /\ Claimed(row).attempts = row.attempts + 1
           /\ Reaped(row) \in Rows
           /\ Reaped(row).status \in {"paid", "failed"}
           /\ Reaped(row).attempts = row.attempts
           /\ Requeued(row) \in Rows
           /\ Requeued(row).status = "paid"
           /\ Requeued(row).attempts = row.attempts
<1>1. /\ MarkDelivered(row) \in Rows
      /\ MarkDelivered(row).status = "delivered"
      /\ MarkDelivered(row).attempts = row.attempts
      BY DEF MarkDelivered, Rows, Statuses, Terminal
<1>2. /\ Claimed(row) \in Rows
      /\ Claimed(row).status = "running"
      /\ Claimed(row).attempts = row.attempts + 1
  <2> DEFINE a == row.attempts + 1
  <2>1. a \in Nat  BY DEF Rows
  <2> HIDE DEF a
  <2>2. [row EXCEPT !.status = "running", !.lease = "fresh", !.attempts = a]
           \in Rows
        BY <2>1 DEF Rows, Statuses, Live
  <2> QED BY <2>2 DEF Claimed, a, Rows
<1>3. /\ Reaped(row) \in Rows
      /\ Reaped(row).status \in {"paid", "failed"}
      /\ Reaped(row).attempts = row.attempts
      BY DEF Reaped, Rows, Statuses, Live, Terminal
<1>4. /\ Requeued(row) \in Rows
      /\ Requeued(row).status = "paid"
      /\ Requeued(row).attempts = row.attempts
      BY DEF Requeued, Rows, Statuses, Live
<1> QED BY <1>1, <1>2, <1>3, <1>4

-----------------------------------------------------------------------------
(* Types *)

RunRecords == [phase : RunPhases, job : Charges \union {NoCharge},
               result : Statuses]

ConfRecords == [phase : ConfPhases, charge : Charges \union {NoCharge},
                job : Charges \union {NoCharge}]

\* A run inside _process_one_paid_job has a job.
RunsTyped == /\ run \in [Runs -> RunRecords]
             /\ \A r \in Runs : run[r].phase \in JobPhases =>
                                   run[r].job \in Charges

\* A handler that is not idle has a charge, and a job once it has reserved.
ConfTyped == /\ conf \in [Confirmers -> ConfRecords]
             /\ \A k \in Confirmers :
                   /\ conf[k].phase # "idle" => conf[k].charge \in Charges
                   /\ conf[k].phase = "complete" => conf[k].job \in Charges

RowsTyped == /\ job \in [Charges -> Rows]
             /\ burnt \in [Charges -> Nat]

MoneyTyped ==
    /\ pay \in [Charges -> {"none", "pending", "completed", "refunded"}]
    /\ link \in [Charges -> Charges \union {NoCharge}]
    /\ newest \in [Audits -> Charges \union {NoCharge}]

OutsideTyped ==
    /\ lock \in Runs \union {NoRun}
    /\ runnerUp \in BOOLEAN
    /\ pr \in [Charges -> {"none", "open", "closed"}]
    /\ opened \in [Charges -> Nat]
    /\ outcome \in [Charges -> Statuses]
    /\ disturbances \in 0..MaxDisturbances

TypeInv == RunsTyped /\ ConfTyped /\ RowsTyped /\ MoneyTyped /\ OutsideTyped

LEMMA TypeInvGivesTypeOK == TypeInv => TypeOK
    BY DEF TypeInv, TypeOK, RunsTyped, ConfTyped, RowsTyped, MoneyTyped,
           OutsideTyped, RunRecords, ConfRecords

\* The statement of each write phase.
LEMMA WrittenFields ==
    ASSUME RunsTyped, RowsTyped, NEW r \in Runs, run[r].phase \in WritePhases
    PROVE  LET row == job[run[r].job] IN
           /\ run[r].job \in Charges
           /\ row \in Rows
           /\ Written(r) \in Rows
           /\ run[r].phase # "release" =>
                 /\ Written(r).status \in {"running"} \union Terminal
                 /\ Written(r).status = "running" <=>
                       run[r].phase \in {"defer", "soft"}
                 /\ Written(r).status = "delivered" <=>
                       run[r].phase = "record"
                 /\ Written(r).attempts = row.attempts
           /\ run[r].phase = "release" => Written(r) = Released(row)
<1>1. run[r].job \in Charges  BY DEF RunsTyped, JobPhases
<1>2. job[run[r].job] \in Rows  BY <1>1 DEF RowsTyped
<1> DEFINE row == job[run[r].job]
<1> HIDE DEF row
<1>3. row \in Rows  BY <1>2 DEF row
<1>4. CASE run[r].phase = "record"
  <2>1. Written(r) = MarkDelivered(row)  BY <1>4 DEF Written, row
  <2> QED BY <1>1, <1>3, <1>4, <2>1, RowUpdates DEF row, Terminal
<1>5. CASE run[r].phase = "release"
  <2>1. Written(r) = Released(row)  BY <1>5 DEF Written, row
  <2> QED BY <1>1, <1>3, <1>5, <2>1, ReleasedFields DEF row
<1>6. CASE run[r].phase \in WritePhases \ {"record", "release"}
  <2>1. Written(r) = MarkStatus(row, run[r].phase)
        BY <1>6 DEF Written, row
  <2> QED BY <1>1, <1>3, <1>6, <2>1, MarkStatusFields DEF row
<1> QED BY <1>4, <1>5, <1>6

LEMMA GotoType ==
    ASSUME RunsTyped, NEW r \in Runs, NEW p \in RunPhases, Goto(r, p),
           p \in JobPhases => run[r].job \in Charges
    PROVE  RunsTyped'
    BY DEF RunsTyped, RunRecords, Goto

LEMMA CommitType ==
    ASSUME RunsTyped, RowsTyped, NEW r \in Runs,
           run[r].phase \in WritePhases, Commit(r)
    PROVE  RowsTyped'
<1>1. run[r].job \in Charges /\ Written(r) \in Rows  BY WrittenFields
<1>2. job' \in [Charges -> Rows]  BY <1>1 DEF Commit, RowsTyped
<1>3. burnt' \in [Charges -> Nat]  BY <1>1 DEF Commit, RowsTyped
<1> QED BY <1>2, <1>3 DEF RowsTyped

LEMMA DisturbType ==
    ASSUME disturbances \in 0..MaxDisturbances, Disturb
    PROVE  disturbances' \in 0..MaxDisturbances
    BY BoundsAssumption DEF BoundsAssumption, Disturb

NoHandler == [phase |-> "idle", charge |-> NoCharge, job |-> NoCharge]

LEMMA HandlerEnds ==
    ASSUME ConfTyped, NEW k, conf' = [conf EXCEPT ![k] = NoHandler]
    PROVE  ConfTyped'
    BY DEF ConfTyped, ConfRecords, ConfPhases, NoHandler

\* Every step of the money side keeps the types.
LEMMA TypeMoney ==
    ASSUME TypeInv,
           \/ \E c \in Charges : Checkout(c) \/ Refund(c)
           \/ \E k \in Confirmers, c \in Charges :
                 \/ ReceiveNotification(k, c) \/ Confirm(k, c)
                 \/ HandleFixpackPayment(k, c)
           \/ \E k \in Confirmers : \/ ReserveJob(k) \/ CompletePayment(k)
                                    \/ ConfirmFails(k)
    PROVE  TypeInv'
<1> USE DEF TypeInv, processorVars
<1>1. ASSUME NEW c \in Charges, Checkout(c) \/ Refund(c)  PROVE TypeInv'
  <2>1. MoneyTyped'  BY <1>1 DEF Checkout, Refund, MoneyTyped
  <2>2. RunsTyped' /\ ConfTyped' /\ RowsTyped' /\ OutsideTyped'
        BY <1>1 DEF Checkout, Refund, RunsTyped, ConfTyped, RowsTyped,
                    OutsideTyped
  <2> QED BY <2>1, <2>2
<1>2. ASSUME NEW k \in Confirmers, NEW c \in Charges, BeginGrant(k, c)
      PROVE  TypeInv'
  <2>1. ConfTyped'
        BY <1>2 DEF BeginGrant, ConfTyped, ConfRecords, ConfPhases
  <2>2. RunsTyped' /\ MoneyTyped' /\ RowsTyped' /\ OutsideTyped'
        BY <1>2 DEF BeginGrant, RunsTyped, MoneyTyped, RowsTyped,
                    OutsideTyped
  <2> QED BY <2>1, <2>2
<1>3. ASSUME NEW k \in Confirmers, ReserveJob(k)  PROVE TypeInv'
  <2> DEFINE c == conf[k].charge
  <2>1. c \in Charges /\ AuditOf[c] \in Audits
        BY <1>3, ChargesAssumption
        DEF ReserveJob, ConfTyped, ChargesAssumption
  <2>2. [NoRow EXCEPT !.status = "paid"] \in Rows
        BY DEF NoRow, Rows, Statuses, Live
  <2>3. RowsTyped'
        BY <1>3, <2>1, <2>2 DEF ReserveJob, RowsTyped
  <2>4. MoneyTyped'  BY <1>3, <2>1 DEF ReserveJob, MoneyTyped
  <2>5. PICK d \in Charges :
           conf' = [conf EXCEPT ![k].phase = "complete", ![k].job = d]
        BY <1>3, <2>1 DEF ReserveJob, LiveJobsOf
  <2>6. ConfTyped'
        BY <1>3, <2>1, <2>5 DEF ConfTyped, ConfRecords, ConfPhases
  <2>7. RunsTyped' /\ OutsideTyped'
        BY <1>3 DEF ReserveJob, RunsTyped, OutsideTyped
  <2> QED BY <2>3, <2>4, <2>6, <2>7
<1>4. ASSUME NEW k \in Confirmers, CompletePayment(k)  PROVE TypeInv'
  <2>1. ConfTyped'
        BY <1>4, HandlerEnds DEF CompletePayment, NoHandler
  <2>2. MoneyTyped'
        BY <1>4 DEF CompletePayment, MoneyTyped, ConfTyped
  <2>3. RunsTyped' /\ RowsTyped' /\ OutsideTyped'
        BY <1>4 DEF CompletePayment, RunsTyped, RowsTyped, OutsideTyped
  <2> QED BY <2>1, <2>2, <2>3
<1>5. ASSUME NEW k \in Confirmers, ConfirmFails(k)  PROVE TypeInv'
  <2>1. ConfTyped'
        BY <1>5, HandlerEnds DEF ConfirmFails, NoHandler
  <2>2. OutsideTyped'
        BY <1>5, DisturbType DEF ConfirmFails, OutsideTyped
  <2>3. RunsTyped' /\ RowsTyped' /\ MoneyTyped'
        BY <1>5 DEF ConfirmFails, RunsTyped, RowsTyped, MoneyTyped
  <2> QED BY <2>1, <2>2, <2>3
<1> QED BY <1>1, <1>2, <1>3, <1>4, <1>5
        DEF ReceiveNotification, Confirm, HandleFixpackPayment

\* Every step of a processor run keeps the types.
LEMMA TypeRun ==
    ASSUME TypeInv, NEW r \in Runs, StartRun(r) \/ RunStep(r) \/ RunFault(r)
    PROVE  TypeInv'
<1> USE DEF TypeInv, moneyVars, githubVars
<1>p. /\ JobPhases \subseteq RunPhases
      /\ {"off", "reap", "health", "claim", "unlock"} \subseteq
            RunPhases \ JobPhases
      /\ WritePhases \union Delivering \union {"work", "outcome"} = JobPhases
      BY DEF JobPhases, RunPhases, WritePhases, Delivering
<1>j. run[r].phase \in JobPhases => run[r].job \in Charges
      BY DEF RunsTyped
\* Steps that only move the run, take or drop the lock.
<1>1. CASE StartRun(r)
  <2>1. RunsTyped'  BY <1>1, <1>p, GotoType DEF StartRun
  <2>2. OutsideTyped'  BY <1>1 DEF StartRun, OutsideTyped
  <2>3. ConfTyped' /\ RowsTyped' /\ MoneyTyped'
        BY <1>1 DEF StartRun, ConfTyped, RowsTyped, MoneyTyped
  <2> QED BY <2>1, <2>2, <2>3
<1>2. CASE CheckRunner(r) \/ Generate(r) \/ ResolveToken(r) \/ Preflight(r)
  <2>1. PICK p \in RunPhases : /\ Goto(r, p)
                               /\ p \in JobPhases => run[r].job \in Charges
    <3>1. CASE CheckRunner(r)
          BY <3>1, <1>p DEF CheckRunner
    <3>2. CASE Generate(r)
      <4>1. PICK p \in WritePhases \union Delivering : Goto(r, p)
            BY <3>2 DEF Generate, WritePhases, Delivering
      <4> QED BY <3>2, <4>1, <1>p, <1>j DEF Generate
    <3>3. CASE ResolveToken(r) \/ Preflight(r)
      <4>1. PICK p \in WritePhases \union Delivering : Goto(r, p)
            BY <3>3 DEF ResolveToken, Preflight, WritePhases, Delivering
      <4>2. run[r].phase \in Delivering
            BY <3>3 DEF ResolveToken, Preflight, Delivering
      <4> QED BY <4>1, <4>2, <1>p, <1>j
    <3> QED BY <1>2, <3>1, <3>2, <3>3
  <2>2. RunsTyped'  BY <2>1, GotoType
  <2>3. ConfTyped' /\ RowsTyped' /\ MoneyTyped' /\ OutsideTyped'
        BY <1>2 DEF CheckRunner, Generate, ResolveToken, Preflight, ConfTyped,
                    RowsTyped, MoneyTyped, OutsideTyped
  <2> QED BY <2>2, <2>3
<1>3. CASE AuthRejected(r) \/ PostPullRequest(r) \/ DeliveryFails(r)
  <2>1. PICK p \in {"release", "record", "fail"} :
           Goto(r, p) /\ run[r].phase \in Delivering
        BY <1>3 DEF AuthRejected, PostPullRequest, DeliveryFails, Delivering
  <2>2. p \in JobPhases  BY <2>1 DEF JobPhases, WritePhases
  <2>3. RunsTyped'  BY <2>1, <2>2, <1>p, <1>j, GotoType
  <2>4. /\ pr' \in [Charges -> {"none", "open", "closed"}]
        /\ opened' \in [Charges -> Nat]
        BY <1>3, <2>1, <1>p, <1>j
        DEF AuthRejected, PostPullRequest, DeliveryFails, PullRequestAppears,
            OutsideTyped
  <2>5. disturbances' \in 0..MaxDisturbances
        BY <1>3, DisturbType
        DEF AuthRejected, PostPullRequest, DeliveryFails, OutsideTyped
  <2>6. OutsideTyped'
        BY <1>3, <2>4, <2>5
        DEF AuthRejected, PostPullRequest, DeliveryFails, OutsideTyped
  <2>7. ConfTyped' /\ RowsTyped' /\ MoneyTyped'
        BY <1>3 DEF AuthRejected, PostPullRequest, DeliveryFails, ConfTyped,
                    RowsTyped, MoneyTyped
  <2> QED BY <2>3, <2>6, <2>7
<1>4. CASE Unlock(r)
  <2>1. RunsTyped'
        BY <1>4, <1>p DEF Unlock, RunsTyped, RunRecords, Statuses
  <2>2. OutsideTyped'  BY <1>4 DEF Unlock, OutsideTyped
  <2>3. ConfTyped' /\ RowsTyped' /\ MoneyTyped'
        BY <1>4 DEF Unlock, ConfTyped, RowsTyped, MoneyTyped
  <2> QED BY <2>1, <2>2, <2>3
\* Steps that write rows.
<1>5. CASE ReapStaleRunning(r)
  <2>1. RunsTyped'  BY <1>5, <1>p, GotoType DEF ReapStaleRunning
  <2>2. RowsTyped'  BY <1>5, RowUpdates DEF ReapStaleRunning, RowsTyped
  <2>3. ConfTyped' /\ MoneyTyped' /\ OutsideTyped'
        BY <1>5 DEF ReapStaleRunning, ConfTyped, MoneyTyped, OutsideTyped
  <2> QED BY <2>1, <2>2, <2>3
<1>6. CASE ClaimOnePaid(r)
  <2>1. RowsTyped'  BY <1>6, RowUpdates DEF ClaimOnePaid, RowsTyped
  <2>2. ASSUME Goto(r, "unlock")  PROVE RunsTyped'
        BY <2>2, <1>p, GotoType
  <2>3. ASSUME NEW c \in Charges,
               run' = [run EXCEPT ![r] = [phase |-> "work", job |-> c,
                                          result |-> "none"]]
        PROVE  RunsTyped'
        BY <2>3, <1>p DEF RunsTyped, RunRecords, Statuses
  <2>4. ConfTyped' /\ MoneyTyped' /\ OutsideTyped'
        BY <1>6 DEF ClaimOnePaid, ConfTyped, MoneyTyped, OutsideTyped
  <2> QED BY <1>6, <2>1, <2>2, <2>3, <2>4 DEF ClaimOnePaid
<1>7. CASE PassRaises(r)
  <2>1. RowsTyped'  BY <1>7, RowUpdates DEF PassRaises, RowsTyped
  <2>2. RunsTyped'  BY <1>7, <1>p, GotoType DEF PassRaises
  <2>3. OutsideTyped'  BY <1>7, DisturbType DEF PassRaises, OutsideTyped
  <2>4. ConfTyped' /\ MoneyTyped'
        BY <1>7 DEF PassRaises, ConfTyped, MoneyTyped
  <2> QED BY <2>1, <2>2, <2>3, <2>4
<1>8. CASE WriteStatus(r) \/ WriteRaises(r)
  <2>1. run[r].phase \in WritePhases
        BY <1>8 DEF WriteStatus, WriteRaises
  <2>2. run[r].job \in Charges  BY <2>1, <1>p, <1>j
  <2>3. RowsTyped'
    <3>1. CASE Commit(r)  BY <3>1, <2>1, CommitType
    <3>2. CASE UNCHANGED <<job, burnt>>  BY <3>2 DEF RowsTyped
    <3> QED BY <1>8, <3>1, <3>2 DEF WriteStatus, WriteRaises
  <2>4. After(run[r].phase) \in RunPhases /\ Handler(run[r].phase) \in RunPhases
        BY <2>1 DEF After, Handler, WritePhases, RunPhases, JobPhases,
                    Delivering
  <2>5. ASSUME Goto(r, Handler(run[r].phase))  PROVE RunsTyped'
        BY <2>2, <2>4, <2>5, GotoType
  <2>6. ASSUME run' = [run EXCEPT ![r].phase = After(@),
                                  ![r].result = Written(r).status]
        PROVE  RunsTyped'
    <3> DEFINE p == After(run[r].phase)
               s == Written(r).status
    <3>1. s \in Statuses  BY <2>1, WrittenFields DEF Rows
    <3>2. p \in RunPhases  BY <2>4
    <3> HIDE DEF p, s
    <3>3. run' = [run EXCEPT ![r].phase = p, ![r].result = s]
          BY <2>6 DEF p, s
    <3> QED BY <2>2, <3>1, <3>2, <3>3 DEF RunsTyped, RunRecords
  <2>7. OutsideTyped'
        BY <1>8, DisturbType DEF WriteStatus, WriteRaises, OutsideTyped
  <2>8. ConfTyped' /\ MoneyTyped'
        BY <1>8 DEF WriteStatus, WriteRaises, ConfTyped, MoneyTyped
  <2> QED BY <1>8, <2>3, <2>5, <2>6, <2>7, <2>8 DEF WriteStatus, WriteRaises
<1>9. CASE RecordOutcome(r)
  <2>1. RunsTyped'  BY <1>9, <1>p, GotoType DEF RecordOutcome
  <2>2. run[r].result \in Statuses  BY DEF RunsTyped, RunRecords
  <2>3. OutsideTyped'
        BY <1>9, <2>2, DisturbType DEF RecordOutcome, OutsideTyped
  <2>4. ConfTyped' /\ RowsTyped' /\ MoneyTyped'
        BY <1>9 DEF RecordOutcome, ConfTyped, RowsTyped, MoneyTyped
  <2> QED BY <2>1, <2>3, <2>4
<1> QED BY <1>1, <1>2, <1>3, <1>4, <1>5, <1>6, <1>7, <1>8, <1>9
        DEF RunStep, RunFault

\* The environment and the operator keep the types.
LEMMA TypeEnvironment ==
    ASSUME TypeInv,
           \/ \E c \in Charges : \/ LeaseGoesStale(c) \/ CustomerCloses(c)
                                 \/ RequeueBlocked(c)
           \/ RunnerGoesDown \/ RunnerComesUp \/ ApiCrash \/ LockDrops
    PROVE  TypeInv'
<1> USE DEF TypeInv, moneyVars, githubVars, processorVars
<1>1. ASSUME NEW c \in Charges, LeaseGoesStale(c) \/ RequeueBlocked(c)
      PROVE  TypeInv'
  <2>1. [job[c] EXCEPT !.lease = "stale"] \in Rows
        BY DEF RowsTyped, Rows
  <2>5. Requeued(job[c]) \in Rows  BY RowUpdates DEF RowsTyped
  <2>2. RowsTyped'
    <3>1. CASE LeaseGoesStale(c)
          BY <3>1, <2>1 DEF LeaseGoesStale, RowsTyped
    <3>2. CASE RequeueBlocked(c)
          BY <3>2, <2>5 DEF RequeueBlocked, RowsTyped
    <3> QED BY <1>1, <3>1, <3>2
  <2>3. OutsideTyped'
        BY <1>1, DisturbType
        DEF LeaseGoesStale, RequeueBlocked, OutsideTyped
  <2>4. RunsTyped' /\ ConfTyped' /\ MoneyTyped'
        BY <1>1 DEF LeaseGoesStale, RequeueBlocked, RunsTyped, ConfTyped,
                    MoneyTyped
  <2> QED BY <2>2, <2>3, <2>4
<1>2. CASE \/ \E c \in Charges : CustomerCloses(c)
           \/ RunnerGoesDown \/ RunnerComesUp \/ LockDrops
  <2>1. OutsideTyped'
        BY <1>2, DisturbType
        DEF CustomerCloses, RunnerGoesDown, RunnerComesUp, LockDrops,
            OutsideTyped
  <2>2. RunsTyped' /\ ConfTyped' /\ RowsTyped' /\ MoneyTyped'
        BY <1>2 DEF CustomerCloses, RunnerGoesDown, RunnerComesUp, LockDrops,
                    RunsTyped, ConfTyped, RowsTyped, MoneyTyped
  <2> QED BY <2>1, <2>2
<1>3. CASE ApiCrash
  <2>1. RunsTyped'
        BY <1>3 DEF ApiCrash, RunsTyped, RunRecords, RunPhases, JobPhases,
                    WritePhases, Delivering, Statuses
  <2>2. ConfTyped'
        BY <1>3 DEF ApiCrash, ConfTyped, ConfRecords, ConfPhases
  <2>3. OutsideTyped'  BY <1>3, DisturbType DEF ApiCrash, OutsideTyped
  <2>4. RowsTyped' /\ MoneyTyped'
        BY <1>3 DEF ApiCrash, RowsTyped, MoneyTyped
  <2> QED BY <2>1, <2>2, <2>3, <2>4
<1> QED BY <1>1, <1>2, <1>3

LEMMA TypeInit == Init => TypeInv
    BY BoundsAssumption
    DEF Init, TypeInv, RunsTyped, ConfTyped, RowsTyped, MoneyTyped,
        OutsideTyped, RunRecords, ConfRecords, RunPhases, ConfPhases,
        JobPhases, WritePhases, Delivering, Statuses, Rows, NoRow,
        BoundsAssumption

LEMMA TypeStep == TypeInv /\ [Next]_vars => TypeInv'
<1> SUFFICES ASSUME TypeInv, [Next]_vars PROVE TypeInv'
    OBVIOUS
<1>1. CASE Next
      BY <1>1, TypeMoney, TypeRun, TypeEnvironment DEF Next
<1>2. CASE UNCHANGED vars
      BY <1>2 DEF vars, moneyVars, githubVars, TypeInv, RunsTyped, ConfTyped,
                  RowsTyped, MoneyTyped, OutsideTyped
<1> QED BY <1>1, <1>2

LEMMA TypeHolds == Spec => []TypeInv
<1> QED BY TypeInit, TypeStep, PTL DEF Spec

\* Every variable keeps its type.
THEOREM TypeCorrect == Spec => []TypeOK
<1> QED BY TypeHolds, TypeInvGivesTypeOK, PTL

-----------------------------------------------------------------------------
(* Completed payments are backed by a job *)

\* No statement makes a job disappear.
LEMMA JobsStay ==
    ASSUME TypeInv, [Next]_vars, NEW c \in Charges, job[c].status # "none"
    PROVE  job'[c].status # "none"
<1> USE DEF TypeInv, RowsTyped
<1>0. job[c] \in Rows  OBVIOUS
<1>1. ASSUME NEW r \in Runs, ReapStaleRunning(r)
      PROVE  job'[c].status # "none"
      BY <1>0, <1>1, RowUpdates DEF ReapStaleRunning
<1>2. ASSUME NEW r \in Runs, ClaimOnePaid(r) \/ PassRaises(r)
      PROVE  job'[c].status # "none"
      BY <1>0, <1>2, RowUpdates DEF ClaimOnePaid, PassRaises
<1>3. ASSUME NEW r \in Runs, WriteStatus(r) \/ WriteRaises(r)
      PROVE  job'[c].status # "none"
  <2>1. run[r].phase \in WritePhases
        BY <1>3 DEF WriteStatus, WriteRaises
  <2>2. job[run[r].job].status # "none" => Written(r).status # "none"
        BY <2>1, WrittenFields, ReleasedFields DEF Terminal
  <2>3. \/ UNCHANGED job
        \/ job' = [job EXCEPT ![run[r].job] = Written(r)]
        BY <1>3 DEF WriteStatus, WriteRaises, Commit
  <2> QED BY <2>2, <2>3
<1>4. ASSUME NEW k \in Confirmers, ReserveJob(k)
      PROVE  job'[c].status # "none"
      BY <1>4 DEF ReserveJob
<1>5. ASSUME NEW d \in Charges, LeaseGoesStale(d) \/ RequeueBlocked(d)
      PROVE  job'[c].status # "none"
  <2>1. CASE LeaseGoesStale(d)  BY <1>0, <2>1 DEF LeaseGoesStale, Rows
  <2>2. CASE RequeueBlocked(d)
        BY <1>0, <2>2, RowUpdates DEF RequeueBlocked
  <2> QED BY <1>5, <2>1, <2>2
<1>6. ASSUME UNCHANGED job  PROVE job'[c].status # "none"
      BY <1>6
<1>7. ASSUME NEW r \in Runs, StartRun(r) \/ RunStep(r) \/ RunFault(r)
      PROVE  job'[c].status # "none"
      BY <1>7, <1>1, <1>2, <1>3, <1>6
      DEF StartRun, RunStep, RunFault, CheckRunner, Generate, ResolveToken,
          Preflight, PostPullRequest, RecordOutcome, Unlock, AuthRejected,
          DeliveryFails
<1>8. CASE Next
      BY <1>8, <1>4, <1>5, <1>6, <1>7
      DEF Next, Checkout, Refund, CustomerCloses, ReceiveNotification, Confirm,
          HandleFixpackPayment, BeginGrant, CompletePayment, ConfirmFails,
          RunnerGoesDown, RunnerComesUp, ApiCrash, LockDrops
<1>9. CASE UNCHANGED vars  BY <1>6, <1>9 DEF vars
<1> QED BY <1>8, <1>9

\* A handler completes a payment with a job that exists and that the charge
\* may be linked to.
ReservationsBacked ==
    \A k \in Confirmers :
        conf[k].phase = "complete" =>
            /\ job[conf[k].job].status # "none"
            /\ AuditOf[conf[k].job] = AuditOf[conf[k].charge]

LEMMA BackedStep ==
    ASSUME TypeInv, TypeInv', [Next]_vars, ReservationsBacked,
           CompletedIsBacked
    PROVE  ReservationsBacked' /\ CompletedIsBacked'
<1>t. /\ conf \in [Confirmers -> ConfRecords]
      /\ \A k \in Confirmers :
            /\ conf[k].phase # "idle" => conf[k].charge \in Charges
            /\ conf[k].phase = "complete" => conf[k].job \in Charges
      BY DEF TypeInv, ConfTyped
<1>j. \A c \in Charges : job[c].status # "none" => job'[c].status # "none"
      BY JobsStay
<1>m. /\ pay \in [Charges -> {"none", "pending", "completed", "refunded"}]
      /\ link \in [Charges -> Charges \union {NoCharge}]
      BY DEF TypeInv, MoneyTyped
<1>1. ASSUME UNCHANGED conf  PROVE ReservationsBacked'
      BY <1>1, <1>t, <1>j DEF ReservationsBacked
<1>2. ASSUME UNCHANGED <<pay, link>>  PROVE CompletedIsBacked'
      BY <1>2, <1>j, <1>m DEF CompletedIsBacked
<1>3. ASSUME NEW k \in Confirmers, ReserveJob(k)
      PROVE  ReservationsBacked' /\ CompletedIsBacked'
  <2>1. conf[k].charge \in Charges  BY <1>3, <1>t DEF ReserveJob
  <2>2. PICK d \in Charges :
           /\ conf' = [conf EXCEPT ![k].phase = "complete", ![k].job = d]
           /\ AuditOf[d] = AuditOf[conf[k].charge]
           /\ job'[d].status # "none"
    <3>0. job \in [Charges -> Rows]  BY DEF TypeInv, RowsTyped
    <3>1. CASE /\ job' = [job EXCEPT ![conf[k].charge] =
                             [NoRow EXCEPT !.status = "paid"]]
               /\ conf' = [conf EXCEPT ![k].phase = "complete",
                                       ![k].job = conf[k].charge]
          BY <3>0, <3>1, <2>1 DEF NoRow
    <3>2. CASE /\ job[conf[k].charge].status # "none"
               /\ UNCHANGED job
               /\ conf' = [conf EXCEPT ![k].phase = "complete",
                                       ![k].job = conf[k].charge]
          BY <3>2, <2>1
    <3>3. CASE /\ \E d \in LiveJobsOf(AuditOf[conf[k].charge]) :
                     conf' = [conf EXCEPT ![k].phase = "complete",
                                          ![k].job = d]
               /\ UNCHANGED job
          BY <3>3 DEF LiveJobsOf, Live
    <3> QED BY <1>3, <3>1, <3>2, <3>3 DEF ReserveJob
  <2>3. \A l \in Confirmers \ {k} : conf'[l] = conf[l]
        BY <1>t, <2>2
  <2>4. conf'[k].job = d /\ conf'[k].charge = conf[k].charge
        BY <1>t, <2>2 DEF ConfRecords
  <2>5. ReservationsBacked'
        BY <1>t, <1>j, <2>2, <2>3, <2>4 DEF ReservationsBacked
  <2>6. CompletedIsBacked'  BY <1>2, <1>3 DEF ReserveJob
  <2> QED BY <2>5, <2>6
<1>4. ASSUME NEW k \in Confirmers, CompletePayment(k)
      PROVE  ReservationsBacked' /\ CompletedIsBacked'
  <2>1. \A l \in Confirmers : conf'[l] = conf[l] \/ conf'[l].phase = "idle"
        BY <1>4, <1>t DEF CompletePayment
  <2>2. ReservationsBacked'
        BY <2>1, <1>t, <1>j DEF ReservationsBacked
  <2>3. CASE UNCHANGED <<pay, link>>  BY <1>2, <2>2, <2>3
  <2>4. CASE /\ pay' = [pay EXCEPT ![conf[k].charge] = "completed"]
             /\ link' = [link EXCEPT ![conf[k].charge] = conf[k].job]
    <3>1. /\ conf[k].job \in Charges /\ conf[k].charge \in Charges
          /\ job[conf[k].job].status # "none"
          /\ AuditOf[conf[k].job] = AuditOf[conf[k].charge]
          BY <1>4, <1>t DEF CompletePayment, ReservationsBacked
    <3>2. CompletedIsBacked'
          BY <2>4, <3>1, <1>j, <1>m DEF CompletedIsBacked
    <3> QED BY <2>2, <3>2
  <2> QED BY <1>4, <2>3, <2>4 DEF CompletePayment
<1>5. ASSUME NEW k \in Confirmers, NEW c \in Charges, BeginGrant(k, c)
      PROVE  ReservationsBacked' /\ CompletedIsBacked'
  <2>1. \A l \in Confirmers : conf'[l] = conf[l] \/ conf'[l].phase = "reserve"
        BY <1>5, <1>t DEF BeginGrant
  <2>2. ReservationsBacked'
        BY <2>1, <1>t, <1>j DEF ReservationsBacked
  <2> QED BY <1>2, <1>5, <2>2 DEF BeginGrant
<1>6. ASSUME \/ \E k \in Confirmers : ConfirmFails(k)
             \/ ApiCrash
      PROVE  ReservationsBacked' /\ CompletedIsBacked'
  <2>1. \A l \in Confirmers : conf'[l] = conf[l] \/ conf'[l].phase = "idle"
        BY <1>6, <1>t DEF ConfirmFails, ApiCrash
  <2>2. ReservationsBacked'
        BY <2>1, <1>t, <1>j DEF ReservationsBacked
  <2> QED BY <1>2, <1>6, <2>2 DEF ConfirmFails, ApiCrash
<1>7. ASSUME NEW c \in Charges, Checkout(c) \/ Refund(c)
      PROVE  ReservationsBacked' /\ CompletedIsBacked'
  <2>1. ReservationsBacked'  BY <1>1, <1>7 DEF Checkout, Refund
  <2>2. UNCHANGED link  BY <1>7 DEF Checkout, Refund
  <2>3. \A d \in Charges : pay'[d] \in {"completed", "refunded"} =>
                              pay[d] \in {"completed", "refunded"}
        BY <1>7, <1>m DEF Checkout, Refund
  <2>4. CompletedIsBacked'
        BY <2>2, <2>3, <1>j, <1>m DEF CompletedIsBacked
  <2> QED BY <2>1, <2>4
<1>8. ASSUME UNCHANGED moneyVars
      PROVE  ReservationsBacked' /\ CompletedIsBacked'
      BY <1>1, <1>2, <1>8 DEF moneyVars
<1>9. ASSUME NEW r \in Runs, StartRun(r) \/ RunStep(r) \/ RunFault(r)
      PROVE  UNCHANGED moneyVars
      BY <1>9
      DEF StartRun, RunStep, RunFault, ReapStaleRunning, CheckRunner,
          ClaimOnePaid, Generate, WriteStatus, ResolveToken, Preflight,
          PostPullRequest, RecordOutcome, Unlock, PassRaises, WriteRaises,
          AuthRejected, DeliveryFails
<1>10. CASE Next
       BY <1>3, <1>4, <1>5, <1>6, <1>7, <1>8, <1>9, <1>10
       DEF Next, LeaseGoesStale, CustomerCloses, RequeueBlocked,
           ReceiveNotification, Confirm, HandleFixpackPayment,
           RunnerGoesDown, RunnerComesUp, LockDrops
<1>11. CASE UNCHANGED vars  BY <1>8, <1>11 DEF vars
<1> QED BY <1>10, <1>11

\* Whatever crashes, retries, refunds and concurrent confirmations do, a
\* completed payment is linked to an existing job of the audit it paid for.
THEOREM PaymentsAreBacked == Spec => []CompletedIsBacked
<1>1. Init => ReservationsBacked /\ CompletedIsBacked
      BY DEF Init, ReservationsBacked, CompletedIsBacked
<1>2. TypeInv /\ TypeInv' /\ [Next]_vars
         /\ (ReservationsBacked /\ CompletedIsBacked)
      => (ReservationsBacked /\ CompletedIsBacked)'
      BY BackedStep
<1> QED BY <1>1, <1>2, TypeHolds, PTL DEF Spec

-----------------------------------------------------------------------------
(* The processor lock *)

\* A run between its StartRun and its Unlock holds the advisory lock.
LockHeld == \A r \in Runs : run[r].phase # "off" => lock = r

\* What a step of run r does to the runs and to the lock.
LEMMA RunTouches ==
    ASSUME TypeInv, NEW r \in Runs, RunStep(r) \/ RunFault(r)
    PROVE  /\ run[r].phase # "off"
           /\ \A s \in Runs \ {r} : run'[s] = run[s]
           /\ UNCHANGED lock \/ run'[r].phase = "off"
<1>t. run \in [Runs -> RunRecords]  BY DEF TypeInv, RunsTyped
<1>1. /\ \A s \in Runs \ {r} : run'[s] = run[s]
      /\ UNCHANGED lock \/ run'[r].phase = "off"
      BY <1>t
      DEF RunStep, RunFault, ReapStaleRunning, CheckRunner, ClaimOnePaid,
          Generate, WriteStatus, ResolveToken, Preflight, PostPullRequest,
          RecordOutcome, Unlock, PassRaises, WriteRaises, AuthRejected,
          DeliveryFails, Goto
<1>2. run[r].phase # "off"
      BY DEF RunStep, RunFault, ReapStaleRunning, CheckRunner, ClaimOnePaid,
             Generate, WriteStatus, ResolveToken, Preflight, PostPullRequest,
             RecordOutcome, Unlock, PassRaises, WriteRaises, AuthRejected,
             DeliveryFails, WritePhases, Delivering
<1> QED BY <1>1, <1>2

LEMMA LockStep ==
    ASSUME LockMayDrop = FALSE, TypeInv, LockHeld, [Next]_vars
    PROVE  LockHeld'
<1>t. run \in [Runs -> RunRecords]  BY DEF TypeInv, RunsTyped
<1>1. ASSUME NEW r \in Runs, StartRun(r)  PROVE LockHeld'
      BY <1>1, <1>t, RunsAssumption
      DEF StartRun, LockFree, Goto, LockHeld, RunsAssumption
<1>2. ASSUME NEW r \in Runs, RunStep(r) \/ RunFault(r)  PROVE LockHeld'
  <2>1. lock = r  BY <1>2, RunTouches DEF LockHeld
  <2>2. \A s \in Runs \ {r} : run'[s].phase = "off"
        BY <1>2, <2>1, RunTouches DEF LockHeld
  <2>3. run'[r].phase # "off" => lock' = r
        BY <1>2, <2>1, RunTouches
  <2> QED BY <2>2, <2>3 DEF LockHeld
<1>3. CASE ApiCrash  BY <1>3 DEF ApiCrash, LockHeld
<1>4. ASSUME UNCHANGED <<run, lock>>  PROVE LockHeld'
      BY <1>4 DEF LockHeld
<1>5. CASE Next
      BY <1>1, <1>2, <1>3, <1>4, <1>5
      DEF Next, Checkout, Refund, LeaseGoesStale, CustomerCloses,
          RequeueBlocked, ReceiveNotification, Confirm, HandleFixpackPayment,
          BeginGrant, ReserveJob, CompletePayment, ConfirmFails,
          RunnerGoesDown, RunnerComesUp, LockDrops, processorVars
<1>6. CASE UNCHANGED vars  BY <1>4, <1>6 DEF vars
<1> QED BY <1>5, <1>6

LEMMA LockInit == Init => LockHeld
    BY DEF Init, LockHeld

\* As long as the lock's connection lives, a job is processed by one run at a
\* time, although no lease is renewed and any lease may go stale.
THEOREM RunsAreExclusive ==
    ASSUME LockMayDrop = FALSE
    PROVE  Spec => []OneRunPerJob
<1>1. TypeInv /\ LockHeld /\ [Next]_vars => LockHeld'  BY LockStep
<1>2. LockHeld => OneRunPerJob
      BY DEF LockHeld, OneRunPerJob, JobPhases, WritePhases, Delivering
<1> QED BY <1>1, <1>2, LockInit, TypeHolds, PTL DEF Spec

-----------------------------------------------------------------------------
(* Leases and attempts *)

\* The phases in which the row is still 'running' for the run that claimed it.
\* An answer that was lost may take a run that has written its verdict to the
\* exception handler, and only there.
Holding == ({"work"} \union Delivering \union WritePhases)
              \ (IF LostAcks THEN {"fail"} ELSE {})

ClaimHeld == \A r \in Runs : run[r].phase \in Holding =>
                                job[run[r].job].status = "running"

\* What a run's own step does to its claim.
LEMMA OwnClaim ==
    ASSUME TypeInv, ClaimHeld, NEW r \in Runs, RunStep(r) \/ RunFault(r)
    PROVE  run'[r].phase \in Holding => job'[run'[r].job].status = "running"
<1>t. /\ run \in [Runs -> RunRecords]
      /\ job \in [Charges -> Rows]
      /\ run[r].phase \in JobPhases => run[r].job \in Charges
      BY DEF TypeInv, RunsTyped, RowsTyped
<1>p. /\ Holding \subseteq JobPhases
      /\ {"unlock", "health", "off", "outcome"} \cap Holding = {}
      /\ WritePhases \union Delivering \union {"work"} \subseteq
            Holding \union {"fail"}
      BY DEF Holding, JobPhases, WritePhases, Delivering
<1>h. run[r].phase \in Holding => job[run[r].job].status = "running"
      BY DEF ClaimHeld
\* Steps that end the job, or have none.
<1>1. CASE \/ ReapStaleRunning(r) \/ CheckRunner(r) \/ PassRaises(r)
           \/ RecordOutcome(r) \/ Unlock(r)
  <2>1. run'[r].phase \in {"unlock", "health", "off", "claim"}
        BY <1>1, <1>t
        DEF ReapStaleRunning, CheckRunner, PassRaises, RecordOutcome, Unlock,
            Goto, RunRecords
  <2> QED BY <2>1 DEF Holding, WritePhases, Delivering
<1>2. CASE ClaimOnePaid(r)
      BY <1>2, <1>t, <1>p, RowUpdates DEF ClaimOnePaid, Goto, RunRecords
\* Steps on the way that leave the row alone.
<1>3. CASE \/ Generate(r) \/ ResolveToken(r) \/ Preflight(r)
           \/ PostPullRequest(r) \/ AuthRejected(r) \/ DeliveryFails(r)
  <2>1. /\ UNCHANGED job
        /\ run'[r].job = run[r].job
        /\ run[r].phase \in {"work"} \union Delivering
        BY <1>3, <1>t
        DEF Generate, ResolveToken, Preflight, PostPullRequest, AuthRejected,
            DeliveryFails, Goto, RunRecords, Delivering
  <2>2. run[r].phase \in Holding
        BY <2>1 DEF Holding, Delivering
  <2> QED BY <2>1, <2>2, <1>h
\* The write of a status, and the exception handlers.
<1>4. CASE WriteStatus(r) \/ WriteRaises(r)
  <2>1. run[r].phase \in WritePhases /\ run[r].job \in Charges
        BY <1>4, <1>t DEF WriteStatus, WriteRaises, JobPhases
  <2>2. ASSUME UNCHANGED job, Goto(r, Handler(run[r].phase))
        PROVE  run'[r].phase \in Holding => job'[run'[r].job].status = "running"
    <3>1. /\ run'[r].phase = Handler(run[r].phase)
          /\ run'[r].job = run[r].job
          BY <1>t, <2>2 DEF Goto, RunRecords
    <3>2. run[r].phase = "fail" => Handler(run[r].phase) = "unlock"
          BY DEF Handler
    <3>3. run[r].phase # "fail" => run[r].phase \in Holding
          BY <2>1, <1>p
    <3> QED BY <2>2, <3>1, <3>2, <3>3, <1>p, <1>h
  <2>3. ASSUME Commit(r), run'[r].job = run[r].job,
               \/ run'[r].phase = After(run[r].phase)
               \/ LostAcks /\ run'[r].phase = Handler(run[r].phase)
        PROVE  run'[r].phase \in Holding => job'[run'[r].job].status = "running"
    <3>1. job'[run'[r].job] = Written(r)
          BY <1>t, <2>1, <2>3 DEF Commit
    <3>2. run'[r].phase \in Holding => run[r].phase = "soft"
          BY <2>1, <2>3
          DEF After, Handler, WritePhases, Holding, Delivering
    <3>3. run[r].phase = "soft" => Written(r).status = "running"
          BY <2>1, WrittenFields DEF TypeInv
    <3> QED BY <3>1, <3>2, <3>3
  <2>4. CASE WriteStatus(r)
    <3>1. ASSUME run' = [run EXCEPT ![r].phase = After(@),
                                    ![r].result = Written(r).status]
          PROVE  /\ run'[r].job = run[r].job
                 /\ run'[r].phase = After(run[r].phase)
          BY <1>t, <3>1 DEF RunRecords
    <3> QED BY <2>2, <2>3, <2>4, <3>1 DEF WriteStatus
  <2>5. CASE WriteRaises(r)
    <3>1. /\ run'[r].job = run[r].job
          /\ run'[r].phase = Handler(run[r].phase)
          BY <1>t, <2>5 DEF WriteRaises, Goto, RunRecords
    <3> QED BY <2>2, <2>3, <2>5, <3>1 DEF WriteRaises
  <2> QED BY <1>4, <2>4, <2>5
<1> QED BY <1>1, <1>2, <1>3, <1>4 DEF RunStep, RunFault

\* While one run acts every other is off.
LEMMA OthersOff ==
    ASSUME TypeInv, LockHeld, NEW r \in Runs, RunStep(r) \/ RunFault(r),
           NEW s \in Runs \ {r}
    PROVE  run[s].phase = "off" /\ run'[s].phase = "off"
    BY RunTouches DEF LockHeld

LEMMA ClaimStep ==
    ASSUME TypeInv, LockHeld, ClaimHeld, [Next]_vars
    PROVE  ClaimHeld'
<1>t. /\ run \in [Runs -> RunRecords]
      /\ job \in [Charges -> Rows]
      /\ \A r \in Runs : run[r].phase \in JobPhases => run[r].job \in Charges
      BY DEF TypeInv, RunsTyped, RowsTyped
<1>p. Holding \subseteq JobPhases /\ "off" \notin Holding /\ "reap" \notin Holding
      BY DEF Holding, JobPhases, WritePhases, Delivering
<1>1. ASSUME NEW r \in Runs, RunStep(r) \/ RunFault(r)  PROVE ClaimHeld'
      BY <1>1, <1>p, OwnClaim, OthersOff DEF ClaimHeld
<1>2. ASSUME NEW r \in Runs, StartRun(r)  PROVE ClaimHeld'
      BY <1>2, <1>t, <1>p DEF StartRun, Goto, ClaimHeld, RunRecords
<1>3. ASSUME UNCHANGED run,
             \A c \in Charges : job[c].status = "running" =>
                                   job'[c].status = "running"
      PROVE  ClaimHeld'
      BY <1>3, <1>t, <1>p DEF ClaimHeld
<1>4. ASSUME NEW k \in Confirmers, ReserveJob(k)  PROVE ClaimHeld'
      BY <1>3, <1>4, <1>t DEF ReserveJob, processorVars
<1>5. ASSUME NEW c \in Charges, LeaseGoesStale(c)  PROVE ClaimHeld'
  <2>1. \A d \in Charges : job[d].status = "running" =>
                              job'[d].status = "running"
        BY <1>5, <1>t DEF LeaseGoesStale, Rows
  <2> QED BY <1>3, <1>5, <2>1 DEF LeaseGoesStale, processorVars
<1>6. ASSUME NEW c \in Charges, RequeueBlocked(c)  PROVE ClaimHeld'
  <2>1. \A d \in Charges : job[d].status = "running" =>
                              job'[d].status = "running"
        BY <1>6, <1>t, RowUpdates DEF RequeueBlocked
  <2> QED BY <1>3, <1>6, <2>1 DEF RequeueBlocked, processorVars
<1>7. CASE ApiCrash  BY <1>7, <1>p DEF ApiCrash, ClaimHeld
<1>8. ASSUME UNCHANGED <<run, job>>  PROVE ClaimHeld'
      BY <1>3, <1>8
<1>9. CASE Next
      BY <1>1, <1>2, <1>4, <1>5, <1>6, <1>7, <1>8, <1>9
      DEF Next, Checkout, Refund, CustomerCloses, ReceiveNotification, Confirm,
          HandleFixpackPayment, BeginGrant, CompletePayment, ConfirmFails,
          RunnerGoesDown, RunnerComesUp, LockDrops, processorVars
<1>10. CASE UNCHANGED vars  BY <1>8, <1>10 DEF vars
<1> QED BY <1>9, <1>10

\* What AttemptsAccounted says of one job, and that a job which was never
\* reserved has cost nothing.
Accounted(row, b) ==
    /\ row.attempts = b + (IF row.status = "running" THEN 1 ELSE 0)
    /\ row.status = "none" => b = 0

AllAccounted == \A c \in Charges : Accounted(job[c], burnt[c])

LEMMA AccountedStep ==
    ASSUME TypeInv, ClaimHeld, AllAccounted, [Next]_vars
    PROVE  AllAccounted'
<1>t. /\ job \in [Charges -> Rows]
      /\ burnt \in [Charges -> Nat]
      /\ \A c \in Charges : job[c] \in Rows /\ job[c].attempts \in Nat
      BY DEF TypeInv, RowsTyped, Rows
<1>a. ASSUME NEW c \in Charges
      PROVE  Accounted(job[c], burnt[c])
      BY DEF AllAccounted
<1>1. ASSUME NEW r \in Runs, ReapStaleRunning(r)  PROVE AllAccounted'
  <2>1. ASSUME NEW c \in Charges  PROVE Accounted(job'[c], burnt'[c])
    <3>1. CASE Stale(c)
      <4>1. job'[c] = Reaped(job[c]) /\ burnt'[c] = burnt[c] + 1
            BY <1>1, <3>1 DEF ReapStaleRunning
      <4>2. job[c].attempts = burnt[c] + 1
            BY <3>1, <1>a DEF Accounted, Stale
      <4>3. /\ Reaped(job[c]).status \in {"paid", "failed"}
            /\ Reaped(job[c]).attempts = job[c].attempts
            BY <1>t, RowUpdates
      <4> QED BY <4>1, <4>2, <4>3, <1>t DEF Accounted
    <3>2. CASE ~Stale(c)
          BY <1>1, <1>a, <3>2 DEF ReapStaleRunning
    <3> QED BY <3>1, <3>2
  <2> QED BY <2>1 DEF AllAccounted
<1>2. ASSUME NEW r \in Runs, ClaimOnePaid(r) \/ PassRaises(r)
      PROVE  AllAccounted'
  <2>1. UNCHANGED burnt  BY <1>2 DEF ClaimOnePaid, PassRaises
  <2>2. CASE UNCHANGED job  BY <2>1, <2>2 DEF AllAccounted
  <2>3. ASSUME NEW c \in Charges, job[c].status = "paid",
               job' = [job EXCEPT ![c] = Claimed(@)]
        PROVE  AllAccounted'
    <3>1. /\ Claimed(job[c]).status = "running"
          /\ Claimed(job[c]).attempts = job[c].attempts + 1
          BY <1>t, RowUpdates
    <3>2. Accounted(Claimed(job[c]), burnt[c])
          BY <1>a, <1>t, <2>3, <3>1 DEF Accounted
    <3> QED BY <1>a, <1>t, <2>1, <2>3, <3>2 DEF AllAccounted
  <2> QED BY <1>2, <2>2, <2>3 DEF ClaimOnePaid, PassRaises
<1>3. ASSUME NEW r \in Runs, WriteStatus(r) \/ WriteRaises(r)
      PROVE  AllAccounted'
  <2> DEFINE c == run[r].job
  <2>1. run[r].phase \in WritePhases  BY <1>3 DEF WriteStatus, WriteRaises
  <2>2. c \in Charges  BY <2>1, WrittenFields DEF TypeInv
  <2>3. run[r].phase # "fail" => job[c].status = "running"
        BY <2>1 DEF ClaimHeld, Holding
  <2>4. CASE UNCHANGED <<job, burnt>>  BY <2>4 DEF AllAccounted
  <2>5. CASE Commit(r)
    <3> DEFINE b == IF /\ job[c].status = "running"
                       /\ Written(r).status # "running"
                       /\ run[r].phase # "release"
                    THEN burnt[c] + 1 ELSE burnt[c]
    <3>1. /\ job' = [job EXCEPT ![c] = Written(r)]
          /\ burnt' = [burnt EXCEPT ![c] = b]
          BY <2>5 DEF Commit
    <3>2. Accounted(job[c], burnt[c])  BY <1>a, <2>2
    <3>3. Accounted(Written(r), b)
      <4>1. CASE run[r].phase = "release"
        <5>1. Written(r) = Released(job[c])
              BY <2>1, <4>1, WrittenFields DEF TypeInv
        <5>2. job[c].status = "running"  BY <2>3, <4>1
        <5>3. job[c].attempts = burnt[c] + 1  BY <3>2, <5>2 DEF Accounted
        <5>4. /\ Released(job[c]).status = "paid"
              /\ Released(job[c]).attempts = burnt[c]
              BY <5>2, <5>3, <1>t, <2>2, ReleasedFields
        <5>5. b = burnt[c]  BY <4>1
        <5> HIDE DEF b
        <5> QED BY <5>1, <5>4, <5>5, <1>t, <2>2 DEF Accounted
      <4>2. CASE run[r].phase # "release"
        <5>1. /\ Written(r).attempts = job[c].attempts
              /\ Written(r).status \in {"running"} \union Terminal
              /\ Written(r).status = "running" =>
                    run[r].phase \in {"defer", "soft"}
              BY <2>1, <4>2, WrittenFields DEF TypeInv
        <5>2. Written(r).status # "none"  BY <5>1 DEF Terminal
        <5>3. CASE Written(r).status = "running"
          <6>1. job[c].status = "running"  BY <2>3, <5>1, <5>3
          <6> QED BY <3>2, <5>1, <5>2, <5>3, <6>1 DEF Accounted
        <5>4. CASE Written(r).status # "running"
              BY <1>t, <2>2, <3>2, <4>2, <5>1, <5>2, <5>4 DEF Accounted
        <5> QED BY <5>3, <5>4
      <4> QED BY <4>1, <4>2
    <3> HIDE DEF b
    <3> QED BY <1>a, <1>t, <2>2, <3>1, <3>3 DEF AllAccounted
  <2> QED BY <1>3, <2>4, <2>5 DEF WriteStatus, WriteRaises
<1>4. ASSUME NEW k \in Confirmers, ReserveJob(k)  PROVE AllAccounted'
  <2>1. UNCHANGED burnt  BY <1>4 DEF ReserveJob
  <2>2. CASE UNCHANGED job  BY <2>1, <2>2 DEF AllAccounted
  <2>3. ASSUME NEW c, job[c].status = "none",
               job' = [job EXCEPT ![c] = [NoRow EXCEPT !.status = "paid"]]
        PROVE  AllAccounted'
    <3>1. c \in Charges => Accounted([NoRow EXCEPT !.status = "paid"], burnt[c])
          BY <1>a, <1>t, <2>3 DEF Accounted, NoRow
    <3> QED BY <1>a, <1>t, <2>1, <2>3, <3>1 DEF AllAccounted
  <2> QED BY <1>4, <2>2, <2>3 DEF ReserveJob
<1>5. ASSUME NEW c \in Charges, LeaseGoesStale(c)  PROVE AllAccounted'
  <2>1. /\ job' = [job EXCEPT ![c] = [job[c] EXCEPT !.lease = "stale"]]
        /\ UNCHANGED burnt
        BY <1>5, <1>t DEF LeaseGoesStale
  <2>2. Accounted([job[c] EXCEPT !.lease = "stale"], burnt[c])
        BY <1>a, <1>t DEF Accounted, Rows
  <2> QED BY <1>a, <1>t, <2>1, <2>2 DEF AllAccounted
<1>6. ASSUME NEW c \in Charges, RequeueBlocked(c)  PROVE AllAccounted'
  <2>1. /\ job' = [job EXCEPT ![c] = Requeued(job[c])]
        /\ job[c].status = "blocked"
        /\ UNCHANGED burnt
        BY <1>6 DEF RequeueBlocked
  <2>2. /\ Requeued(job[c]).status = "paid"
        /\ Requeued(job[c]).attempts = job[c].attempts
        BY <1>t, RowUpdates
  <2>3. Accounted(Requeued(job[c]), burnt[c])
        BY <1>a, <2>1, <2>2 DEF Accounted
  <2> QED BY <1>a, <1>t, <2>1, <2>3 DEF AllAccounted
<1>7. ASSUME UNCHANGED <<job, burnt>>  PROVE AllAccounted'
      BY <1>7 DEF AllAccounted
<1>8. ASSUME NEW r \in Runs, StartRun(r) \/ RunStep(r) \/ RunFault(r)
      PROVE  AllAccounted'
      BY <1>8, <1>1, <1>2, <1>3, <1>7
      DEF StartRun, RunStep, RunFault, CheckRunner, Generate, ResolveToken,
          Preflight, PostPullRequest, RecordOutcome, Unlock, AuthRejected,
          DeliveryFails
<1>9. CASE Next
      BY <1>4, <1>5, <1>6, <1>7, <1>8, <1>9
      DEF Next, Checkout, Refund, CustomerCloses, ReceiveNotification, Confirm,
          HandleFixpackPayment, BeginGrant, CompletePayment, ConfirmFails,
          RunnerGoesDown, RunnerComesUp, ApiCrash, LockDrops
<1>10. CASE UNCHANGED vars  BY <1>7, <1>10 DEF vars
<1> QED BY <1>9, <1>10

LEMMA ClaimsHold ==
    ASSUME LockMayDrop = FALSE
    PROVE  Spec => [](TypeInv /\ LockHeld /\ ClaimHeld)
<1>1. Init => ClaimHeld
      BY DEF Init, ClaimHeld, Holding, WritePhases, Delivering
<1>2. TypeInv /\ LockHeld /\ [Next]_vars => LockHeld'  BY LockStep
<1>3. TypeInv /\ LockHeld /\ ClaimHeld /\ [Next]_vars => ClaimHeld'
      BY ClaimStep
<1> QED BY <1>1, <1>2, <1>3, LockInit, TypeHolds, PTL DEF Spec

\* As long as the lock's connection lives, attempts is exactly the number of
\* leases a job has burnt and the one it has: unguarded statuses never put a
\* job back without a claim, and only rejected credentials are free.
THEOREM FixpackAttemptsAreAccounted ==
    ASSUME LockMayDrop = FALSE
    PROVE  Spec => []AttemptsAccounted
<1>1. Init => AllAccounted
      BY DEF Init, AllAccounted, Accounted, NoRow
<1>2. TypeInv /\ ClaimHeld /\ AllAccounted /\ [Next]_vars => AllAccounted'
      BY AccountedStep
<1>3. AllAccounted => AttemptsAccounted
      BY DEF AllAccounted, Accounted, AttemptsAccounted
<1> QED BY <1>1, <1>2, <1>3, ClaimsHold, PTL DEF Spec

-----------------------------------------------------------------------------
(* Pull requests *)

\* A branch has had one pull request or none, and who claims delivery has it.
Counted == \A c \in Charges :
    /\ opened[c] = IF pr[c] = "none" THEN 0 ELSE 1
    /\ "delivered" \in {job[c].status, outcome[c]} => pr[c] # "none"

\* A run about to post has seen that there is none; one about to record, or
\* that has recorded, delivery has seen the pull request.
Looked == \A r \in Runs :
    /\ run[r].phase = "post" => pr[run[r].job] = "none"
    /\ run[r].phase = "record" => pr[run[r].job] # "none"
    /\ run[r].phase = "outcome" /\ run[r].result = "delivered" =>
          pr[run[r].job] # "none"

\* What a run's own step does to the pull request of its job.
LEMMA OwnPullRequest ==
    ASSUME TypeInv, Counted, Looked, NEW r \in Runs, RunStep(r) \/ RunFault(r)
    PROVE  /\ Counted'
           /\ run'[r].phase = "post" => pr'[run'[r].job] = "none"
           /\ run'[r].phase = "record" => pr'[run'[r].job] # "none"
           /\ run'[r].phase = "outcome" /\ run'[r].result = "delivered" =>
                 pr'[run'[r].job] # "none"
<1> DEFINE Fine == /\ run'[r].phase = "post" => pr'[run'[r].job] = "none"
                   /\ run'[r].phase = "record" => pr'[run'[r].job] # "none"
                   /\ /\ run'[r].phase = "outcome"
                      /\ run'[r].result = "delivered"
                      => pr'[run'[r].job] # "none"
<1> SUFFICES Counted' /\ Fine  OBVIOUS
<1>t. /\ run \in [Runs -> RunRecords]
      /\ job \in [Charges -> Rows]
      /\ run[r].phase \in JobPhases => run[r].job \in Charges
      /\ pr \in [Charges -> {"none", "open", "closed"}]
      /\ opened \in [Charges -> Nat]
      /\ outcome \in [Charges -> Statuses]
      BY DEF TypeInv, RunsTyped, RowsTyped, OutsideTyped
<1>c. ASSUME UNCHANGED <<pr, opened, outcome>>,
             \A c \in Charges : job'[c].status = "delivered" =>
                                   job[c].status = "delivered"
      PROVE  Counted'
      BY <1>c DEF Counted
<1>1. CASE \/ ReapStaleRunning(r) \/ CheckRunner(r) \/ PassRaises(r)
           \/ Generate(r) \/ ResolveToken(r) \/ AuthRejected(r) \/ Unlock(r)
           \/ ClaimOnePaid(r)
  <2>1. UNCHANGED <<pr, opened, outcome>>
        BY <1>1 DEF ReapStaleRunning, CheckRunner, PassRaises, Generate,
                    ResolveToken, AuthRejected, Unlock, ClaimOnePaid,
                    githubVars
  <2>2. run'[r].phase \notin {"post", "record", "outcome"}
        BY <1>1, <1>t
        DEF ReapStaleRunning, CheckRunner, PassRaises, Generate, ResolveToken,
            AuthRejected, Unlock, ClaimOnePaid, Goto, RunRecords
  <2>3. \A c \in Charges : job'[c].status = "delivered" =>
                              job[c].status = "delivered"
        BY <1>1, <1>t, RowUpdates
        DEF ReapStaleRunning, CheckRunner, PassRaises, Generate, ResolveToken,
            AuthRejected, Unlock, ClaimOnePaid
  <2> QED BY <1>c, <2>1, <2>2, <2>3
<1>2. CASE Preflight(r)
  <2>1. UNCHANGED <<pr, opened, outcome, job>>
        BY <1>2 DEF Preflight, githubVars
  <2>2. /\ run'[r].job = run[r].job
        /\ run'[r].phase = IF Found(run[r].job) THEN "record" ELSE "post"
        BY <1>2, <1>t DEF Preflight, Goto, RunRecords
  <2> QED BY <1>c, <2>1, <2>2 DEF Found
<1>3. CASE PostPullRequest(r) \/ DeliveryFails(r)
  <2>1. /\ UNCHANGED <<job, outcome>>
        /\ run'[r].job = run[r].job
        /\ run'[r].phase \in {"record", "fail"}
        /\ run'[r].phase = "record" => PostPullRequest(r)
        BY <1>3, <1>t DEF PostPullRequest, DeliveryFails, Goto, RunRecords
  <2>2. ASSUME UNCHANGED <<pr, opened>>, DeliveryFails(r)
        PROVE  Counted' /\ Fine
    <3>1. run'[r].phase = "fail"
          BY <2>2, <1>t DEF DeliveryFails, Goto, RunRecords
    <3> QED BY <1>c, <2>1, <2>2, <3>1
  <2>3. ASSUME run[r].phase = "post", PullRequestAppears(run[r].job)
        PROVE  Counted' /\ Fine
    <3> DEFINE c == run[r].job
    <3>1. c \in Charges  BY <1>t, <2>3 DEF JobPhases, Delivering
    <3>2. pr[c] = "none" /\ opened[c] = 0
          BY <2>3, <3>1 DEF Looked, Counted
    <3>3. /\ pr' = [pr EXCEPT ![c] = "open"]
          /\ opened' = [opened EXCEPT ![c] = 1]
          BY <2>3, <3>2, <3>1, <1>t DEF PullRequestAppears
    <3>4. Counted'  BY <1>t, <2>1, <3>1, <3>3 DEF Counted
    <3> QED BY <1>t, <2>1, <3>1, <3>3, <3>4
  <2> QED BY <1>3, <2>2, <2>3 DEF PostPullRequest, DeliveryFails, githubVars
<1>4. CASE RecordOutcome(r)
  <2>1. run'[r].phase = "unlock" /\ UNCHANGED <<job, pr, opened>>
        BY <1>4, <1>t DEF RecordOutcome, Goto, RunRecords, githubVars
  <2>2. run[r].job \in Charges  BY <1>4, <1>t DEF RecordOutcome, JobPhases
  <2>3. CASE UNCHANGED outcome  BY <1>c, <2>1, <2>3
  <2>4. CASE outcome' = [outcome EXCEPT ![run[r].job] = run[r].result]
    <3>1. run[r].result = "delivered" => pr[run[r].job] # "none"
          BY <1>4 DEF RecordOutcome, Looked
    <3>2. Counted'  BY <1>t, <2>1, <2>2, <2>4, <3>1 DEF Counted
    <3> QED BY <2>1, <3>2
  <2> QED BY <1>4, <2>3, <2>4 DEF RecordOutcome
<1>5. CASE WriteStatus(r) \/ WriteRaises(r)
  <2>1. run[r].phase \in WritePhases /\ UNCHANGED <<pr, opened, outcome>>
        BY <1>5 DEF WriteStatus, WriteRaises, githubVars
  <2>2. run[r].job \in Charges  BY <2>1, <1>t DEF JobPhases
  <2>3. /\ run[r].phase = "record" => pr[run[r].job] # "none"
        /\ Written(r).status = "delivered" =>
              pr[run[r].job] # "none"
    <3>1. run[r].phase = "record" => pr[run[r].job] # "none"  BY DEF Looked
    <3>2. CASE run[r].phase = "release"
      <4>1. Written(r).status = "delivered" =>
               job[run[r].job].status = "delivered"
            BY <2>1, <3>2, WrittenFields, ReleasedFields DEF TypeInv
      <4> QED BY <2>2, <3>1, <4>1 DEF Counted
    <3>3. CASE run[r].phase # "release"
          BY <2>1, <3>1, <3>3, WrittenFields DEF TypeInv
    <3> QED BY <3>2, <3>3
  <2>4. Counted'
    <3>1. \/ UNCHANGED job
          \/ job' = [job EXCEPT ![run[r].job] = Written(r)]
          BY <1>5 DEF WriteStatus, WriteRaises, Commit
    <3> QED BY <1>t, <2>1, <2>2, <2>3, <3>1 DEF Counted
  <2>5. /\ After(run[r].phase) \in {"unlock", "token", "outcome"}
        /\ Handler(run[r].phase) \in {"unlock", "token", "fail"}
        BY DEF After, Handler
  <2>6. CASE Goto(r, Handler(run[r].phase))
    <3>1. run'[r].phase \in {"unlock", "token", "fail"}
          BY <1>t, <2>5, <2>6 DEF Goto, RunRecords
    <3> QED BY <2>4, <3>1
  <2>7. CASE run' = [run EXCEPT ![r].phase = After(@),
                                ![r].result = Written(r).status]
    <3>1. /\ run'[r].phase = After(run[r].phase)
          /\ run'[r].result = Written(r).status
          /\ run'[r].job = run[r].job
          BY <1>t, <2>7 DEF RunRecords
    <3> QED BY <2>1, <2>3, <2>4, <2>5, <3>1
  <2> QED BY <1>5, <2>6, <2>7 DEF WriteStatus, WriteRaises
<1> QED BY <1>1, <1>2, <1>3, <1>4, <1>5 DEF RunStep, RunFault

LEMMA PullRequestStep ==
    ASSUME TypeInv, LockHeld, Counted, Looked, [Next]_vars
    PROVE  Counted' /\ Looked'
<1>t. /\ run \in [Runs -> RunRecords]
      /\ job \in [Charges -> Rows]
      /\ \A r \in Runs : run[r].phase \in JobPhases => run[r].job \in Charges
      /\ pr \in [Charges -> {"none", "open", "closed"}]
      BY DEF TypeInv, RunsTyped, RowsTyped, OutsideTyped
<1>p. {"post", "record", "outcome"} \subseteq JobPhases
      BY DEF JobPhases, WritePhases, Delivering
<1>c. ASSUME UNCHANGED <<pr, opened, outcome>>,
             \A c \in Charges : job'[c].status = "delivered" =>
                                   job[c].status = "delivered"
      PROVE  Counted'
      BY <1>c DEF Counted
<1>r. ASSUME UNCHANGED <<run, pr>>  PROVE Looked'
      BY <1>r DEF Looked
<1>1. ASSUME NEW r \in Runs, RunStep(r) \/ RunFault(r)
      PROVE  Counted' /\ Looked'
  <2>1. Counted'  BY <1>1, OwnPullRequest
  <2>2. Looked'  BY <1>1, OwnPullRequest, OthersOff DEF Looked
  <2> QED BY <2>1, <2>2
<1>2. ASSUME NEW r \in Runs, StartRun(r)  PROVE Counted' /\ Looked'
  <2>1. Counted'  BY <1>2, <1>c DEF StartRun, githubVars
  <2>2. Looked'
        BY <1>2, <1>t DEF StartRun, Goto, RunRecords, Looked, githubVars
  <2> QED BY <2>1, <2>2
<1>3. ASSUME NEW k \in Confirmers, ReserveJob(k)  PROVE Counted' /\ Looked'
  <2>1. \A c \in Charges : job'[c].status = "delivered" =>
                              job[c].status = "delivered"
        BY <1>3, <1>t DEF ReserveJob, NoRow
  <2> QED BY <1>3, <1>c, <1>r, <2>1 DEF ReserveJob, processorVars
<1>4. ASSUME NEW c \in Charges, LeaseGoesStale(c)  PROVE Counted' /\ Looked'
  <2>1. \A d \in Charges : job'[d].status = "delivered" =>
                              job[d].status = "delivered"
        BY <1>4, <1>t DEF LeaseGoesStale, Rows
  <2> QED BY <1>4, <1>c, <1>r, <2>1 DEF LeaseGoesStale, processorVars
<1>5. ASSUME NEW c \in Charges, RequeueBlocked(c)  PROVE Counted' /\ Looked'
  <2>1. \A d \in Charges : job'[d].status = "delivered" =>
                              job[d].status = "delivered"
        BY <1>5, <1>t, RowUpdates DEF RequeueBlocked
  <2> QED BY <1>5, <1>c, <1>r, <2>1 DEF RequeueBlocked, processorVars
<1>6. ASSUME NEW c \in Charges, CustomerCloses(c)  PROVE Counted' /\ Looked'
  <2>1. /\ UNCHANGED <<job, opened, outcome, run>>
        /\ pr[c] = "open" /\ pr' = [pr EXCEPT ![c] = "closed"]
        BY <1>6 DEF CustomerCloses
  <2>2. \A d \in Charges : pr'[d] = "none" <=> pr[d] = "none"
        BY <1>t, <2>1
  <2>3. Counted'  BY <2>1, <2>2 DEF Counted
  <2>4. Looked'  BY <1>t, <1>p, <2>1, <2>2 DEF Looked
  <2> QED BY <2>3, <2>4
<1>7. CASE ApiCrash
  <2>1. Counted'  BY <1>7, <1>c DEF ApiCrash, githubVars
  <2>2. Looked'  BY <1>7 DEF ApiCrash, Looked
  <2> QED BY <2>1, <2>2
<1>8. ASSUME UNCHANGED <<job, run, pr, opened, outcome>>
      PROVE  Counted' /\ Looked'
      BY <1>8, <1>c, <1>r
<1>9. CASE Next
      BY <1>1, <1>2, <1>3, <1>4, <1>5, <1>6, <1>7, <1>8, <1>9
      DEF Next, Checkout, Refund, ReceiveNotification, Confirm,
          HandleFixpackPayment, BeginGrant, CompletePayment, ConfirmFails,
          RunnerGoesDown, RunnerComesUp, LockDrops, processorVars, githubVars
<1>10. CASE UNCHANGED vars  BY <1>8, <1>10 DEF vars, githubVars
<1> QED BY <1>9, <1>10

LEMMA PullRequestsHold ==
    ASSUME LockMayDrop = FALSE
    PROVE  Spec => [](Counted /\ Looked)
<1>1. Init => Counted /\ Looked
      BY DEF Init, Counted, Looked, NoRow
<1>2. TypeInv /\ LockHeld /\ (Counted /\ Looked) /\ [Next]_vars
      => (Counted /\ Looked)'
      BY PullRequestStep
<1> QED BY <1>1, <1>2, ClaimsHold, PTL DEF Spec

\* As long as the lock's connection lives, however often delivery is retried
\* and whatever answers are lost, a job has one pull request at most, and one
\* that is called delivered has it.
THEOREM OnePullRequest ==
    ASSUME LockMayDrop = FALSE
    PROVE  Spec => []OnePRPerJob
<1>1. Counted => OnePRPerJob  BY DEF Counted, OnePRPerJob
<1> QED BY <1>1, PullRequestsHold, PTL

-----------------------------------------------------------------------------
(* The queue implements FixpackOrder *)

LEMMA Stages ==
    /\ StageOf("none") = "none"
    /\ StageOf("paid") = "owed" /\ StageOf("running") = "owed"
    /\ StageOf("blocked") = "blocked"
    /\ StageOf("failed") = "closed"
    /\ StageOf("delivered") = "closed"
    /\ StageOf("no_fix_needed") = "closed"
    BY DEF StageOf, Live

OrderStutters == UNCHANGED <<OrderStage, opened>>

LEMMA SameStages ==
    ASSUME UNCHANGED opened,
           \A c \in Charges : StageOf(job'[c].status) = StageOf(job[c].status)
    PROVE  OrderStutters
    BY DEF OrderStutters, OrderStage

\* A step that changes one row changes one stage.
LEMMA OneStage ==
    ASSUME job \in [Charges -> Rows], NEW c \in Charges, NEW row,
           job' = [job EXCEPT ![c] = row]
    PROVE  /\ OrderStage' = [OrderStage EXCEPT ![c] = StageOf(row.status)]
           /\ OrderStage[c] = StageOf(job[c].status)
    BY DEF OrderStage

LEMMA OrderRun ==
    ASSUME LostAcks = FALSE, TypeInv, ClaimHeld, Counted, Looked,
           NEW r \in Runs, StartRun(r) \/ RunStep(r) \/ RunFault(r)
    PROVE  Order!Next \/ OrderStutters
<1>t. /\ run \in [Runs -> RunRecords]
      /\ job \in [Charges -> Rows]
      /\ run[r].phase \in JobPhases => run[r].job \in Charges
      /\ pr \in [Charges -> {"none", "open", "closed"}]
      /\ opened \in [Charges -> Nat]
      BY DEF TypeInv, RunsTyped, RowsTyped, OutsideTyped
<1>h. run[r].phase \in {"work"} \union Delivering \union WritePhases =>
         job[run[r].job].status = "running"
      BY DEF ClaimHeld, Holding
<1>1. CASE ReapStaleRunning(r)
  <2> DEFINE S == {c \in Charges : Stale(c) /\ ~(job[c].attempts < MaxAttempts)}
  <2>1. UNCHANGED opened  BY <1>1 DEF ReapStaleRunning, githubVars
  <2>2. ASSUME NEW c \in Charges
        PROVE  job'[c].status = IF c \in S THEN "failed"
                                ELSE IF Stale(c) THEN "paid"
                                ELSE job[c].status
        BY <1>1, <1>t DEF ReapStaleRunning, Reaped, Rows
  <2>3. \A c \in Charges : Stale(c) => job[c].status = "running"
        BY DEF Stale
  <2> HIDE DEF S
  <2>4. \A c \in Charges \ S :
           StageOf(job'[c].status) = StageOf(job[c].status)
        BY <2>2, <2>3, Stages
  <2>5. CASE S = {}  BY <2>1, <2>4, <2>5, SameStages
  <2>6. CASE S # {}
    <3>1. S \in SUBSET Charges  BY DEF S
    <3>2. \A c \in S : OrderStage[c] = "owed"
          BY <2>3, Stages DEF S, OrderStage
    <3>3. OrderStage' = [c \in Charges |-> IF c \in S THEN "closed"
                                           ELSE OrderStage[c]]
          BY <2>2, <2>4, Stages DEF OrderStage
    <3>4. Order!Close(S)  BY <2>1, <2>6, <3>2, <3>3 DEF Order!Close
    <3> QED BY <3>1, <3>4 DEF Order!Next
  <2> QED BY <2>5, <2>6
<1>2. CASE ClaimOnePaid(r) \/ PassRaises(r)
  <2>1. UNCHANGED opened  BY <1>2 DEF ClaimOnePaid, PassRaises, githubVars
  <2>2. ASSUME NEW c \in Charges
        PROVE  StageOf(job'[c].status) = StageOf(job[c].status)
        BY <1>2, <1>t, RowUpdates, Stages DEF ClaimOnePaid, PassRaises
  <2> QED BY <2>1, <2>2, SameStages
<1>3. CASE PostPullRequest(r) \/ DeliveryFails(r)
  <2>1. UNCHANGED job  BY <1>3 DEF PostPullRequest, DeliveryFails
  <2>2. CASE UNCHANGED <<pr, opened>>  BY <2>1, <2>2, SameStages
  <2>3. CASE run[r].phase = "post" /\ PullRequestAppears(run[r].job)
    <3> DEFINE c == run[r].job
    <3>1. c \in Charges  BY <1>t, <2>3 DEF JobPhases, Delivering
    <3>2. pr[c] = "none" /\ opened[c] = 0
          BY <2>3, <3>1 DEF Looked, Counted
    <3>3. opened' = [opened EXCEPT ![c] = 1]
          BY <2>3, <3>2, <3>1, <1>t DEF PullRequestAppears
    <3>4. job[c].status = "running"  BY <2>3, <1>h DEF Delivering
    <3>5. OrderStage[c] = "owed" /\ UNCHANGED OrderStage
          BY <2>1, <3>1, <3>4, Stages DEF OrderStage
    <3>6. Order!OpenPR(c)  BY <3>2, <3>3, <3>5 DEF Order!OpenPR
    <3> QED BY <3>1, <3>6 DEF Order!Next
  <2> QED BY <1>3, <2>2, <2>3 DEF PostPullRequest, DeliveryFails, githubVars
<1>4. CASE WriteStatus(r) \/ WriteRaises(r)
  <2> DEFINE c == run[r].job
  <2>1. run[r].phase \in WritePhases /\ UNCHANGED opened
        BY <1>4 DEF WriteStatus, WriteRaises, githubVars
  <2>2. c \in Charges /\ job[c].status = "running"
        BY <2>1, <1>t, <1>h DEF JobPhases
  <2>3. CASE UNCHANGED job  BY <2>1, <2>3, SameStages
  <2>4. CASE job' = [job EXCEPT ![c] = Written(r)]
    <3>1. Written(r).status \in {"paid", "running"} \union Terminal
      <4>1. CASE run[r].phase = "release"
            BY <2>1, <2>2, <4>1, WrittenFields, ReleasedFields DEF TypeInv
      <4>2. CASE run[r].phase # "release"
            BY <2>1, <4>2, WrittenFields DEF TypeInv
      <4> QED BY <4>1, <4>2
    <3>2. /\ OrderStage' = [OrderStage EXCEPT ![c] = StageOf(Written(r).status)]
          /\ OrderStage[c] = "owed"
          BY <1>t, <2>2, <2>4, OneStage, Stages
    <3>3. OrderStage \in [Charges -> {StageOf(job[d].status) : d \in Charges}]
          BY DEF OrderStage
    <3>4. CASE Written(r).status \in {"paid", "running"}
      <4>1. OrderStage' = OrderStage
            BY <3>2, <3>3, <3>4, Stages
      <4> QED BY <2>1, <4>1 DEF OrderStutters
    <3>5. CASE Written(r).status = "blocked"
      <4>1. Order!Block(c)  BY <2>1, <3>2, <3>5, Stages DEF Order!Block
      <4> QED BY <2>2, <4>1 DEF Order!Next
    <3>6. CASE Written(r).status \in {"delivered", "no_fix_needed", "failed"}
      <4>1. OrderStage' = [d \in Charges |-> IF d \in {c} THEN "closed"
                                             ELSE OrderStage[d]]
            BY <2>2, <3>2, <3>3, <3>6, Stages
      <4>2. Order!Close({c})  BY <2>1, <3>2, <4>1 DEF Order!Close
      <4> QED BY <2>2, <4>2 DEF Order!Next
    <3> QED BY <3>1, <3>4, <3>5, <3>6 DEF Terminal
  <2> QED BY <1>4, <2>3, <2>4 DEF WriteStatus, WriteRaises, Commit
<1>5. ASSUME UNCHANGED <<job, opened>>  PROVE OrderStutters
      BY <1>5, SameStages
<1> QED BY <1>1, <1>2, <1>3, <1>4, <1>5
        DEF StartRun, RunStep, RunFault, CheckRunner, Generate, ResolveToken,
            Preflight, RecordOutcome, Unlock, AuthRejected, githubVars

LEMMA OrderStep ==
    ASSUME LostAcks = FALSE, TypeInv, ClaimHeld, Counted, Looked, [Next]_vars
    PROVE  Order!Next \/ OrderStutters
<1>t. job \in [Charges -> Rows]  BY DEF TypeInv, RowsTyped
<1>1. ASSUME NEW k \in Confirmers, ReserveJob(k)
      PROVE  Order!Next \/ OrderStutters
  <2> DEFINE c == conf[k].charge
  <2>1. c \in Charges /\ UNCHANGED opened
        BY <1>1 DEF ReserveJob, TypeInv, ConfTyped, processorVars
  <2>2. CASE UNCHANGED job  BY <2>1, <2>2, SameStages
  <2>3. CASE /\ job[c].status = "none"
             /\ job' = [job EXCEPT ![c] = [NoRow EXCEPT !.status = "paid"]]
    <3> DEFINE row == [NoRow EXCEPT !.status = "paid"]
    <3>1. row.status = "paid"  BY DEF NoRow
    <3> HIDE DEF row
    <3>4. job' = [job EXCEPT ![c] = row]  BY <2>3 DEF row
    <3>5. /\ OrderStage' = [OrderStage EXCEPT ![c] = StageOf(row.status)]
          /\ OrderStage[c] = StageOf(job[c].status)
          BY <1>t, <2>1, <3>4, OneStage
    <3>2. /\ OrderStage' = [OrderStage EXCEPT ![c] = "owed"]
          /\ OrderStage[c] = "none"
          BY <2>3, <3>1, <3>5, Stages
    <3>3. Order!Reserve(c)  BY <2>1, <3>2 DEF Order!Reserve
    <3> QED BY <2>1, <3>3 DEF Order!Next
  <2> QED BY <1>1, <2>2, <2>3 DEF ReserveJob
<1>2. ASSUME NEW c \in Charges, RequeueBlocked(c)
      PROVE  Order!Next \/ OrderStutters
  <2>1. /\ job[c].status = "blocked"
        /\ job' = [job EXCEPT ![c] = Requeued(job[c])]
        /\ UNCHANGED opened
        BY <1>2 DEF RequeueBlocked, processorVars
  <2>4. /\ OrderStage' = [OrderStage EXCEPT
                             ![c] = StageOf(Requeued(job[c]).status)]
        /\ OrderStage[c] = StageOf(job[c].status)
        BY <1>t, <2>1, OneStage
  <2>5. Requeued(job[c]).status = "paid"  BY <1>t, RowUpdates
  <2>2. /\ OrderStage' = [OrderStage EXCEPT ![c] = "owed"]
        /\ OrderStage[c] = "blocked"
        BY <2>1, <2>4, <2>5, Stages
  <2>3. Order!Reopen(c)  BY <2>1, <2>2 DEF Order!Reopen
  <2> QED BY <2>3 DEF Order!Next
<1>3. ASSUME NEW c \in Charges, LeaseGoesStale(c)  PROVE OrderStutters
  <2>1. \A d \in Charges : job'[d].status = job[d].status
        BY <1>3, <1>t DEF LeaseGoesStale, Rows
  <2> QED BY <1>3, <2>1, SameStages DEF LeaseGoesStale, processorVars
<1>4. ASSUME UNCHANGED <<job, opened>>  PROVE OrderStutters
      BY <1>4, SameStages
<1>5. CASE Next
      BY <1>1, <1>2, <1>3, <1>4, <1>5, OrderRun
      DEF Next, Checkout, Refund, CustomerCloses, ReceiveNotification, Confirm,
          HandleFixpackPayment, BeginGrant, CompletePayment, ConfirmFails,
          RunnerGoesDown, RunnerComesUp, ApiCrash, LockDrops, processorVars,
          githubVars
<1>6. CASE UNCHANGED vars  BY <1>4, <1>6 DEF vars, githubVars
<1> QED BY <1>5, <1>6

\* As long as the lock's connection lives and no answer to a commit is lost,
\* the queue implements FixpackOrder: reserved work is settled once.
THEOREM ImplementsOrder ==
    ASSUME LockMayDrop = FALSE, LostAcks = FALSE
    PROVE  Spec => KeepsTheOrder
<1>1. Init => Order!Init
      BY Stages DEF Init, Order!Init, OrderStage, NoRow
<1>2. TypeInv /\ ClaimHeld /\ (Counted /\ Looked) /\ [Next]_vars
      => [Order!Next]_<<OrderStage, opened>>
      BY OrderStep DEF OrderStutters
<1> QED BY <1>1, <1>2, ClaimsHold, PullRequestsHold, PTL
        DEF Spec, KeepsTheOrder, Order!Spec

-----------------------------------------------------------------------------
(* The confirmation lock *)

\* A run works on a job that exists.
ClaimedExist == \A r \in Runs : run[r].phase \in JobPhases =>
                                   job[run[r].job].status # "none"

LEMMA ClaimedExistStep ==
    ASSUME TypeInv, ClaimedExist, [Next]_vars
    PROVE  ClaimedExist'
<1>t. /\ run \in [Runs -> RunRecords]
      /\ job \in [Charges -> Rows]
      /\ \A r \in Runs : run[r].phase \in JobPhases => run[r].job \in Charges
      BY DEF TypeInv, RunsTyped, RowsTyped
<1>j. \A c \in Charges : job[c].status # "none" => job'[c].status # "none"
      BY JobsStay
<1>p. {"off", "reap", "health", "claim", "unlock"} \cap JobPhases = {}
      BY DEF JobPhases, WritePhases, Delivering
<1>1. ASSUME NEW r \in Runs, run'[r] = run[r], run'[r].phase \in JobPhases
      PROVE  job'[run'[r].job].status # "none"
      BY <1>1, <1>t, <1>j DEF ClaimedExist
<1>2. ASSUME NEW r \in Runs, StartRun(r)  PROVE ClaimedExist'
  <2>1. \A s \in Runs \ {r} : run'[s] = run[s]
        BY <1>2, <1>t DEF StartRun, Goto
  <2>2. run'[r].phase = "reap"
        BY <1>2, <1>t DEF StartRun, Goto, RunRecords
  <2> QED BY <1>1, <1>p, <2>1, <2>2 DEF ClaimedExist
<1>3. ASSUME NEW r \in Runs, RunStep(r) \/ RunFault(r)  PROVE ClaimedExist'
  <2>1. CASE ClaimOnePaid(r)
    <3>1. run'[r].phase \in JobPhases => job'[run'[r].job].status # "none"
          BY <1>t, <1>p, <2>1, RowUpdates DEF ClaimOnePaid, Goto, RunRecords
    <3> QED BY <1>1, <1>3, <3>1, RunTouches DEF ClaimedExist
  <2>2. ASSUME ~ClaimOnePaid(r), run'[r].phase \in JobPhases
        PROVE  run'[r].job = run[r].job /\ run[r].phase \in JobPhases
    <3>1. run'[r].job = run[r].job
          BY <1>3, <1>t, <1>p, <2>2
          DEF RunStep, RunFault, ReapStaleRunning, CheckRunner, Generate,
              WriteStatus, ResolveToken, Preflight, PostPullRequest,
              RecordOutcome, Unlock, PassRaises, WriteRaises, AuthRejected,
              DeliveryFails, Goto, RunRecords
    <3>2. CASE \/ ReapStaleRunning(r) \/ CheckRunner(r) \/ PassRaises(r)
               \/ RecordOutcome(r) \/ Unlock(r)
      <4>1. run'[r].phase \in {"health", "claim", "unlock", "off"}
            BY <1>t, <3>2
            DEF ReapStaleRunning, CheckRunner, PassRaises, RecordOutcome,
                Unlock, Goto, RunRecords
      <4> QED BY <1>p, <2>2, <4>1
    <3>3. CASE \/ Generate(r) \/ WriteStatus(r) \/ ResolveToken(r)
               \/ Preflight(r) \/ PostPullRequest(r) \/ WriteRaises(r)
               \/ AuthRejected(r) \/ DeliveryFails(r)
          BY <3>1, <3>3
          DEF Generate, WriteStatus, ResolveToken, Preflight, PostPullRequest,
              WriteRaises, AuthRejected, DeliveryFails, JobPhases, Delivering
    <3> QED BY <1>3, <2>2, <3>2, <3>3 DEF RunStep, RunFault
  <2>3. CASE ~ClaimOnePaid(r)
    <3>1. run'[r].phase \in JobPhases => job'[run'[r].job].status # "none"
          BY <1>t, <1>j, <2>2, <2>3 DEF ClaimedExist
    <3> QED BY <1>1, <1>3, <3>1, RunTouches DEF ClaimedExist
  <2> QED BY <2>1, <2>3
<1>4. CASE ApiCrash  BY <1>4, <1>p DEF ApiCrash, ClaimedExist
<1>5. ASSUME UNCHANGED run  PROVE ClaimedExist'
      BY <1>1, <1>5 DEF ClaimedExist
<1>6. CASE Next
      BY <1>2, <1>3, <1>4, <1>5, <1>6
      DEF Next, Checkout, Refund, LeaseGoesStale, CustomerCloses,
          RequeueBlocked, ReceiveNotification, Confirm, HandleFixpackPayment,
          BeginGrant, ReserveJob, CompletePayment, ConfirmFails,
          RunnerGoesDown, RunnerComesUp, LockDrops, processorVars
<1>7. CASE UNCHANGED vars  BY <1>5, <1>7 DEF vars
<1> QED BY <1>6, <1>7

\* A job appears only by the reservation of its own charge.
LEMMA JobsAppear ==
    ASSUME TypeInv, ClaimedExist, [Next]_vars, NEW c \in Charges,
           job[c].status = "none", job'[c].status # "none"
    PROVE  \E k \in Confirmers :
              /\ ReserveJob(k)
              /\ conf[k].charge = c
              /\ conf' = [conf EXCEPT ![k].phase = "complete", ![k].job = c]
<1>t. job \in [Charges -> Rows]  BY DEF TypeInv, RowsTyped
<1>1. ASSUME NEW r \in Runs, StartRun(r) \/ RunStep(r) \/ RunFault(r)
      PROVE  job'[c] = job[c]
  <2>1. CASE ReapStaleRunning(r)  BY <2>1 DEF ReapStaleRunning, Stale
  <2>2. CASE ClaimOnePaid(r) \/ PassRaises(r)
        BY <1>t, <2>2 DEF ClaimOnePaid, PassRaises
  <2>3. CASE WriteStatus(r) \/ WriteRaises(r)
    <3>1. run[r].job # c
          BY <2>3 DEF WriteStatus, WriteRaises, ClaimedExist, JobPhases
    <3> QED BY <1>t, <2>3, <3>1 DEF WriteStatus, WriteRaises, Commit
  <2>4. ASSUME UNCHANGED job  PROVE job'[c] = job[c]  BY <2>4
  <2> QED BY <1>1, <2>1, <2>2, <2>3, <2>4
      DEF StartRun, RunStep, RunFault, CheckRunner, Generate, ResolveToken,
          Preflight, PostPullRequest, RecordOutcome, Unlock, AuthRejected,
          DeliveryFails
<1>2. ASSUME NEW d \in Charges, LeaseGoesStale(d) \/ RequeueBlocked(d)
      PROVE  job'[c].status = "none"
  <2>1. CASE LeaseGoesStale(d)  BY <1>t, <2>1 DEF LeaseGoesStale, Rows
  <2>2. CASE RequeueBlocked(d)  BY <1>t, <2>2 DEF RequeueBlocked
  <2> QED BY <1>2, <2>1, <2>2
<1>3. PICK k \in Confirmers : ReserveJob(k)
      BY <1>1, <1>2
      DEF Next, vars, Checkout, Refund, CustomerCloses, ReceiveNotification,
          Confirm, HandleFixpackPayment, BeginGrant, CompletePayment,
          ConfirmFails, RunnerGoesDown, RunnerComesUp, ApiCrash, LockDrops
<1>4. /\ conf[k].charge = c
      /\ conf' = [conf EXCEPT ![k].phase = "complete", ![k].job = c]
      BY <1>3, <1>t DEF ReserveJob
<1> QED BY <1>3, <1>4

\* Under payment_confirmation_lock a charge has one handler at a time, its
\* payment is not completed while it has one, and a handler about to complete
\* it carries the charge's own job if there is one.
ConfirmedAlone ==
    /\ \A k, l \in Confirmers :
          k # l /\ conf[k].phase # "idle" => conf[k].charge # conf[l].charge
    /\ \A k \in Confirmers :
          /\ conf[k].phase = "idle" => conf[k].charge = NoCharge
          /\ conf[k].phase # "idle" => pay[conf[k].charge] # "completed"
          /\ /\ conf[k].phase = "complete"
             /\ job[conf[k].charge].status # "none"
             => conf[k].job = conf[k].charge

LEMMA AloneStep ==
    ASSUME LockedCharges = Charges, TypeInv, ClaimedExist, [Next]_vars,
           ConfirmedAlone, FundedLink
    PROVE  ConfirmedAlone' /\ FundedLink'
<1> USE ChargesAssumption DEF ChargesAssumption
<1>t. /\ conf \in [Confirmers -> ConfRecords]
      /\ \A k \in Confirmers :
            /\ conf[k].phase # "idle" => conf[k].charge \in Charges
            /\ conf[k].phase = "complete" => conf[k].job \in Charges
      /\ pay \in [Charges -> {"none", "pending", "completed", "refunded"}]
      /\ link \in [Charges -> Charges \union {NoCharge}]
      /\ job \in [Charges -> Rows]
      BY DEF TypeInv, ConfTyped, MoneyTyped, RowsTyped
<1>a. ASSUME ~ \E k \in Confirmers : ReserveJob(k), NEW c \in Charges,
             job'[c].status # "none"
      PROVE  job[c].status # "none"
      BY <1>a, JobsAppear
\* Nothing the lock is about changes.
<1>1. ASSUME UNCHANGED moneyVars, ~ \E k \in Confirmers : ReserveJob(k)
      PROVE  ConfirmedAlone' /\ FundedLink'
  <2>1. UNCHANGED <<pay, link, conf>>  BY <1>1 DEF moneyVars
  <2>2. ConfirmedAlone'  BY <1>1, <1>a, <1>t, <2>1 DEF ConfirmedAlone
  <2>3. FundedLink'  BY <1>1, <1>a, <2>1 DEF FundedLink
  <2> QED BY <2>2, <2>3
<1>2. ASSUME NEW k \in Confirmers, NEW c \in Charges, BeginGrant(k, c),
             MayConfirm(k, c)
      PROVE  ConfirmedAlone' /\ FundedLink'
  <2>1. /\ UNCHANGED <<job, pay, link>>
        /\ pay[c] # "completed"
        /\ conf'[k] = [phase |-> "reserve", charge |-> c, job |-> NoCharge]
        /\ \A l \in Confirmers \ {k} : conf'[l] = conf[l] /\ conf[l].charge # c
        BY <1>2, <1>t DEF BeginGrant, MayConfirm
  <2>2. ConfirmedAlone'  BY <1>t, <2>1 DEF ConfirmedAlone
  <2>3. \A d \in Charges \ {c} :
           (\A l \in Confirmers : conf'[l].charge # d) =>
              (\A l \in Confirmers : conf[l].charge # d)
        BY <1>2, <1>t, <2>1 DEF ConfirmedAlone, BeginGrant
  <2>4. FundedLink'  BY <2>1, <2>3 DEF FundedLink
  <2> QED BY <2>2, <2>4
<1>3. ASSUME NEW k \in Confirmers, ReserveJob(k)
      PROVE  ConfirmedAlone' /\ FundedLink'
  <2> DEFINE c == conf[k].charge
  <2>1. /\ UNCHANGED <<pay, link>> /\ conf[k].phase = "reserve"
        /\ c \in Charges
        BY <1>3, <1>t DEF ReserveJob
  <2>2. PICK d \in Charges :
           conf' = [conf EXCEPT ![k].phase = "complete", ![k].job = d]
        BY <1>3, <2>1 DEF ReserveJob, LiveJobsOf
  <2>3. /\ \A l \in Confirmers \ {k} : conf'[l] = conf[l]
        /\ conf'[k].phase = "complete" /\ conf'[k].charge = c
        /\ conf'[k].job = d
        BY <1>t, <2>2 DEF ConfRecords
  <2>4. job'[c].status # "none" => d = c
    <3>1. CASE UNCHANGED job /\ job[c].status = "none"  BY <3>1
    <3>2. CASE conf' = [conf EXCEPT ![k].phase = "complete", ![k].job = c]
      <4>1. conf'[k].job = c  BY <1>t, <3>2 DEF ConfRecords
      <4> QED BY <2>3, <4>1
    <3> QED BY <1>3, <3>1, <3>2 DEF ReserveJob
  <2>5. \A e \in Charges \ {c} : job'[e] = job[e]
        BY <1>3, <1>t DEF ReserveJob
  <2>6. \A l \in Confirmers \ {k} : conf[l].phase # "idle" => conf[l].charge # c
        BY <2>1 DEF ConfirmedAlone
  <2>7. ConfirmedAlone'
        BY <1>t, <2>1, <2>3, <2>4, <2>5, <2>6 DEF ConfirmedAlone
  <2>8. \A l \in Confirmers : conf'[l].charge = conf[l].charge  BY <2>3
  <2>9. FundedLink'
        BY <2>1, <2>3, <2>5, <2>8 DEF FundedLink
  <2> QED BY <2>7, <2>9
<1>4. ASSUME NEW k \in Confirmers, CompletePayment(k)
      PROVE  ConfirmedAlone' /\ FundedLink'
  <2> DEFINE c == conf[k].charge
  <2>1. /\ UNCHANGED job /\ conf[k].phase = "complete" /\ c \in Charges
        /\ conf'[k] = NoHandler
        /\ \A l \in Confirmers \ {k} : conf'[l] = conf[l]
        /\ \A d \in Charges \ {c} : pay'[d] = pay[d] /\ link'[d] = link[d]
        BY <1>4, <1>t DEF CompletePayment, NoHandler
  <2>2. ConfirmedAlone'
    <3>1. \A l \in Confirmers \ {k} : conf[l].phase # "idle" => conf[l].charge # c
          BY <2>1 DEF ConfirmedAlone
    <3>2. conf'[k].phase = "idle" /\ conf'[k].charge = NoCharge
          BY <2>1 DEF NoHandler
    <3> QED BY <1>t, <2>1, <3>1, <3>2 DEF ConfirmedAlone
  <2>3. pay'[c] = "completed" /\ job[c].status # "none" => link'[c] = c
    <3>1. job[c].status # "none" => conf[k].job = c
          BY <2>1 DEF ConfirmedAlone
    <3>2. pay[c] # "completed"  BY <2>1 DEF ConfirmedAlone
    <3>3. \/ link'[c] = conf[k].job
          \/ pay'[c] = pay[c]
          BY <1>4, <1>t, <2>1 DEF CompletePayment
    <3> QED BY <3>1, <3>2, <3>3
  <2>4. \A d \in Charges \ {c} :
           (\A l \in Confirmers : conf'[l].charge # d) =>
              (\A l \in Confirmers : conf[l].charge # d)
        BY <2>1
  <2>5. FundedLink'  BY <2>1, <2>3, <2>4 DEF FundedLink
  <2> QED BY <2>2, <2>5
\* A handler, or every handler, ends early.
<1>5. ASSUME \/ \E k \in Confirmers : ConfirmFails(k)
             \/ ApiCrash
      PROVE  ConfirmedAlone' /\ FundedLink'
  <2>1. /\ UNCHANGED <<job, pay, link>>
        /\ \A l \in Confirmers : conf'[l] = conf[l] \/ conf'[l] = NoHandler
        BY <1>5, <1>t DEF ConfirmFails, ApiCrash, NoHandler
  <2>2. \A l \in Confirmers : \/ conf'[l] = conf[l]
                              \/ /\ conf'[l].phase = "idle"
                                 /\ conf'[l].charge = NoCharge
        BY <2>1 DEF NoHandler
  <2>3. ConfirmedAlone'  BY <1>t, <2>1, <2>2 DEF ConfirmedAlone
  <2>4. ASSUME NEW c \in Charges, pay[c] = "completed"
        PROVE  \A l \in Confirmers : conf[l].charge # c
        BY <2>4 DEF ConfirmedAlone
  <2>5. FundedLink'  BY <2>1, <2>4 DEF FundedLink
  <2> QED BY <2>3, <2>5
<1>6. ASSUME NEW c \in Charges, Checkout(c) \/ Refund(c)
      PROVE  ConfirmedAlone' /\ FundedLink'
  <2>1. /\ UNCHANGED <<job, link, conf>>
        /\ \A d \in Charges : pay'[d] = "completed" => pay[d] = "completed"
        BY <1>6, <1>t DEF Checkout, Refund
  <2>2. ConfirmedAlone'  BY <1>t, <2>1 DEF ConfirmedAlone
  <2>3. FundedLink'  BY <2>1 DEF FundedLink
  <2> QED BY <2>2, <2>3
<1>7. ASSUME NEW r \in Runs, StartRun(r) \/ RunStep(r) \/ RunFault(r)
      PROVE  UNCHANGED moneyVars
      BY <1>7
      DEF StartRun, RunStep, RunFault, ReapStaleRunning, CheckRunner,
          ClaimOnePaid, Generate, WriteStatus, ResolveToken, Preflight,
          PostPullRequest, RecordOutcome, Unlock, PassRaises, WriteRaises,
          AuthRejected, DeliveryFails
<1>8. ASSUME UNCHANGED moneyVars  PROVE ConfirmedAlone' /\ FundedLink'
      BY <1>1, <1>3, <1>8
<1>9. CASE Next
      BY <1>2, <1>3, <1>4, <1>5, <1>6, <1>7, <1>8, <1>9
      DEF Next, LeaseGoesStale, CustomerCloses, RequeueBlocked,
          ReceiveNotification, Confirm, HandleFixpackPayment,
          RunnerGoesDown, RunnerComesUp, LockDrops
<1>10. CASE UNCHANGED vars  BY <1>8, <1>10 DEF vars
<1> QED BY <1>9, <1>10

\* If every charge is confirmed under payment_confirmation_lock, a payment that
\* funded a job of its own stays linked to it, whatever the other charges of
\* the audit, crashes and refunds do.
THEOREM LinksAreFunded ==
    ASSUME LockedCharges = Charges
    PROVE  Spec => []FundedLink
<1>1. Init => ClaimedExist /\ ConfirmedAlone /\ FundedLink
      BY DEF Init, ClaimedExist, ConfirmedAlone, FundedLink, JobPhases,
             WritePhases, Delivering
<1>2. TypeInv /\ ClaimedExist /\ [Next]_vars => ClaimedExist'
      BY ClaimedExistStep
<1>3. TypeInv /\ ClaimedExist /\ (ConfirmedAlone /\ FundedLink) /\ [Next]_vars
      => (ConfirmedAlone /\ FundedLink)'
      BY AloneStep
<1> QED BY <1>1, <1>2, <1>3, TypeHolds, PTL DEF Spec

=============================================================================
