---------------------------- MODULE FixpackQueue ----------------------------
(***************************************************************************)
(* Paid Fix Packs, from the confirmation of a charge to the pull request:  *)
(* grant_fixpack (app/billing) reserves a job and completes the payment;   *)
(* process_paid_fixpacks (app/main.py) takes the processor lock, reaps     *)
(* stale leases, claims one job, generates, checks and delivers it.        *)
(*                                                                         *)
(* A job is reserved under its charge's funding key, which is unique, so a *)
(* job carries the name of the charge it was reserved for.  One repository *)
(* method is one atomic step; started_at is abstracted to the state of the *)
(* lease, which the environment lets go stale whenever it likes.           *)
(***************************************************************************)
EXTENDS Naturals, FiniteSets

CONSTANTS
    Charges,         \* charges of the payment providers, and their jobs
    Audits,
    AuditOf,         \* the audit each charge pays for
    InvoiceCharges,  \* charges with a payments row from checkout (the others
                     \* are Telegram Stars)
    LockedCharges,   \* those of YooKassa, confirmed under the payment's lock
                     \* (the others are bank transfers)
    Confirmers,      \* concurrent confirmation handlers
    Runs,            \* concurrent requests to process-paid
    NoCharge, NoRun,
    MaxAttempts,     \* MAX_JOB_ATTEMPTS
    LockMayDrop,     \* the connection that holds the processor lock may die
    LostAcks,        \* a commit may succeed and its answer be lost
    MaxSales,        \* bound on the charges that are ever made
    MaxDisturbances  \* bound on crashes, errors, outages and operator requeues

ASSUME ChargesAssumption ==
    /\ AuditOf \in [Charges -> Audits]
    /\ InvoiceCharges \subseteq Charges
    /\ LockedCharges \subseteq InvoiceCharges
    /\ NoCharge \notin Charges

ASSUME RunsAssumption == NoRun \notin Runs

ASSUME BoundsAssumption ==
    /\ MaxAttempts \in Nat \ {0}
    /\ LockMayDrop \in BOOLEAN
    /\ LostAcks \in BOOLEAN
    /\ MaxSales \in Nat
    /\ MaxDisturbances \in Nat

VARIABLES
    job,          \* fixpack_jobs, one record per funding key
    pay,          \* payments.status of each charge
    link,         \* payments.fixpack_job_id
    newest,       \* the job of each audit with the latest created_at
    conf,         \* the confirmation handlers
    run,          \* the processor requests
    lock,         \* who holds the processor's advisory lock
    runnerUp,     \* the sandbox runner answers
    pr,           \* the pull request of the job's branch, on GitHub
    opened,       \* how many pull requests that branch has had
    outcome,      \* the newest fix_outcomes row of the job
    disturbances,
    burnt         \* history: leases of the job that ended without a refund

moneyVars == <<pay, link, newest, conf>>
githubVars == <<pr, opened>>
vars == <<job, moneyVars, run, lock, runnerUp, githubVars, outcome,
          disturbances, burnt>>

-----------------------------------------------------------------------------
(* Types *)

Terminal  == {"delivered", "no_fix_needed", "blocked", "failed"}
Live      == {"paid", "running"}
Statuses  == {"none"} \union Live \union Terminal

Rows == [status : Statuses, attempts : Nat,
         lease : {"none", "fresh", "stale"},   \* started_at
         hardProof : BOOLEAN,                  \* detail: blocked by the gate
         prUrl : BOOLEAN]

ConfPhases == {"idle", "reserve", "complete"}

\* The phases of a run that end in a write of the job's status.
WritePhases == {"nofix", "block", "gate", "defer", "soft", "record", "fail",
                "release"}
Delivering  == {"token", "preflight", "post"}
\* The run is inside _process_one_paid_job.
JobPhases   == {"work", "outcome"} \union Delivering \union WritePhases
RunPhases   == {"off", "reap", "health", "claim", "unlock"} \union JobPhases

NoRow == [status |-> "none", attempts |-> 0, lease |-> "none",
          hardProof |-> FALSE, prUrl |-> FALSE]

-----------------------------------------------------------------------------
Init ==
    /\ job = [c \in Charges |-> NoRow]
    /\ pay = [c \in Charges |-> "none"]
    /\ link = [c \in Charges |-> NoCharge]
    /\ newest = [a \in Audits |-> NoCharge]
    /\ conf = [k \in Confirmers |->
                 [phase |-> "idle", charge |-> NoCharge, job |-> NoCharge]]
    /\ run = [r \in Runs |->
                [phase |-> "off", job |-> NoCharge, result |-> "none"]]
    /\ lock = NoRun
    /\ runnerUp = TRUE
    /\ pr = [c \in Charges |-> "none"]
    /\ opened = [c \in Charges |-> 0]
    /\ outcome = [c \in Charges |-> "none"]
    /\ disturbances = 0
    /\ burnt = [c \in Charges |-> 0]

Disturb == /\ disturbances < MaxDisturbances
           /\ disturbances' = disturbances + 1

-----------------------------------------------------------------------------
(* Confirmation of a charge: grant_fixpack *)

processorVars == <<run, lock, runnerUp, pr, opened, outcome>>

LiveJobsOf(a) == {c \in Charges : AuditOf[c] = a /\ job[c].status \in Live}

\* What _reject_if_fixpack_already_live looks at: the newest job only.
SeenLive(a) == newest[a] \in LiveJobsOf(a)

Sold == {c \in Charges : \/ pay[c] # "none" \/ job[c].status # "none"
                          \/ \E k \in Confirmers : conf[k].charge = c}

\* Charge c was made already, or one more may be.
MaySell(c) == Cardinality(Sold \union {c}) <= MaxSales

\* Checkout writes the pending row of an invoice.
Checkout(c) ==
    /\ c \in InvoiceCharges
    /\ MaySell(c)
    /\ pay[c] = "none"
    /\ ~SeenLive(AuditOf[c])
    /\ pay' = [pay EXCEPT ![c] = "pending"]
    /\ UNCHANGED <<job, link, newest, conf, processorVars, disturbances, burnt>>

\* A variant of MayConfirm without the lock.
ConfirmAnyway(k, c) == conf[k].phase = "idle"

\* payment_confirmation_lock; a handler that finds it taken for its whole
\* timeout answers 503 and is retried, so waiting is no step.
MayConfirm(k, c) ==
    \A l \in Confirmers \ {k} : conf[l].charge # c

\* The read that opens grant_fixpack.  Every rail may confirm a charge again at
\* any time; a repeat that finds the payment completed answers from the row and
\* writes nothing.
BeginGrant(k, c) ==
    /\ conf[k].phase = "idle"
    /\ pay[c] # "completed"
    /\ conf' = [conf EXCEPT ![k] = [phase |-> "reserve", charge |-> c,
                                    job |-> NoCharge]]
    /\ UNCHANGED <<job, pay, link, newest, processorVars, disturbances, burnt>>

\* YooKassa's webhook, bank_transfer's confirmation by the operator, and a
\* Telegram Stars payment, which has no row before it is made.
ReceiveNotification(k, c) ==
    /\ c \in LockedCharges
    /\ MayConfirm(k, c)
    /\ pay[c] # "none"
    /\ BeginGrant(k, c)

Confirm(k, c) ==
    /\ c \in InvoiceCharges \ LockedCharges
    /\ pay[c] # "none"
    /\ BeginGrant(k, c)

HandleFixpackPayment(k, c) ==
    /\ c \notin InvoiceCharges
    /\ MaySell(c)
    /\ BeginGrant(k, c)

\* A variant of ReserveJob with the historic order: complete the payment
\* first.
CompleteFirst(k) ==
    LET c == conf[k].charge IN
    /\ conf[k].phase = "reserve"
    /\ pay' = [pay EXCEPT ![c] = "completed"]
    /\ conf' = [conf EXCEPT ![k].phase = "complete", ![k].job = c]
    /\ UNCHANGED <<job, link, newest, processorVars, disturbances, burnt>>

\* create_paid: the charge's own job in whatever state, else the live job of
\* the audit, else a new one.
ReserveJob(k) ==
    LET c == conf[k].charge IN
    /\ conf[k].phase = "reserve"
    /\ \/ /\ job[c].status = "none" /\ LiveJobsOf(AuditOf[c]) = {}
          /\ job' = [job EXCEPT ![c] = [NoRow EXCEPT !.status = "paid"]]
          /\ newest' = [newest EXCEPT ![AuditOf[c]] = c]
          /\ conf' = [conf EXCEPT ![k].phase = "complete", ![k].job = c]
       \/ /\ job[c].status # "none"
          /\ conf' = [conf EXCEPT ![k].phase = "complete", ![k].job = c]
          /\ UNCHANGED <<job, newest>>
       \/ /\ job[c].status = "none"
          /\ \E d \in LiveJobsOf(AuditOf[c]) :
                conf' = [conf EXCEPT ![k].phase = "complete", ![k].job = d]
          /\ UNCHANGED <<job, newest>>
    /\ UNCHANGED <<pay, link, processorVars, disturbances, burnt>>

\* What the payment row admits: mark_completed_fixpack's compare-and-set on an
\* invoice, the unique index on the insert of a Stars charge.  A refusal ends
\* the grant (None, or an exception for Stars) and leaves the row alone.
Admits(c) == IF c \in InvoiceCharges THEN pay[c] \in {"pending", "completed"}
             ELSE pay[c] = "none"

CompletePayment(k) ==
    LET c == conf[k].charge IN
    /\ conf[k].phase = "complete"
    /\ IF Admits(c)
       THEN /\ pay' = [pay EXCEPT ![c] = "completed"]
            /\ link' = [link EXCEPT ![c] = conf[k].job]
       ELSE UNCHANGED <<pay, link>>
    /\ conf' = [conf EXCEPT ![k] = [phase |-> "idle", charge |-> NoCharge,
                                    job |-> NoCharge]]
    /\ UNCHANGED <<job, newest, processorVars, disturbances, burnt>>

\* A database error, or create_paid giving up after three tries: the handler
\* answers 500 and the provider or the operator tries again.
ConfirmFails(k) ==
    /\ conf[k].phase # "idle"
    /\ Disturb
    /\ conf' = [conf EXCEPT ![k] = [phase |-> "idle", charge |-> NoCharge,
                                    job |-> NoCharge]]
    /\ UNCHANGED <<job, pay, link, newest, processorVars, burnt>>

\* mark_refunded; nothing else is taken back.
Refund(c) ==
    /\ pay[c] = "completed"
    /\ pay' = [pay EXCEPT ![c] = "refunded"]
    /\ UNCHANGED <<job, link, newest, conf, processorVars, disturbances, burnt>>

-----------------------------------------------------------------------------
(* A processor run: lock, reap, health check, claim *)

\* Move run r to phase p.
Goto(r, p) == run' = [run EXCEPT ![r].phase = p]

\* A variant of LockFree that relies on the claim alone.
LockIgnored == lock \in Runs \union {NoRun}

\* pg_try_advisory_lock; a run that finds it busy answers skipped_locked.
LockFree == lock = NoRun

StartRun(r) ==
    /\ run[r].phase = "off"
    /\ LockFree
    /\ lock' = r
    /\ Goto(r, "reap")
    /\ UNCHANGED <<job, moneyVars, runnerUp, githubVars, outcome,
                   disturbances, burnt>>

\* The WHERE clause of reap_stale_running; variants that forget the status,
\* and that forget the leases with no attempts left.
StaleAnyStatus(c) == job[c].lease = "stale"

StaleInBudget(c) == /\ job[c].status = "running" /\ job[c].lease = "stale"
                    /\ job[c].attempts < MaxAttempts

Stale(c) == job[c].status = "running" /\ job[c].lease = "stale"

\* A requeue within the budget, else 'failed'.
Reaped(row) == IF row.attempts < MaxAttempts
               THEN [row EXCEPT !.status = "paid", !.lease = "none"]
               ELSE [row EXCEPT !.status = "failed", !.hardProof = FALSE]

ReapStaleRunning(r) ==
    /\ run[r].phase = "reap"
    /\ job' = [c \in Charges |-> IF Stale(c) THEN Reaped(job[c]) ELSE job[c]]
    /\ burnt' = [c \in Charges |-> IF Stale(c) THEN burnt[c] + 1
                                   ELSE burnt[c]]
    /\ Goto(r, "health")
    /\ UNCHANGED <<moneyVars, lock, runnerUp, githubVars, outcome,
                   disturbances>>

\* runner_healthy: nothing is claimed while the runner is down.
CheckRunner(r) ==
    /\ run[r].phase = "health"
    /\ Goto(r, IF runnerUp THEN "claim" ELSE "unlock")
    /\ UNCHANGED <<job, moneyVars, lock, runnerUp, githubVars, outcome,
                   disturbances, burnt>>

Claimed(row) == [row EXCEPT !.status = "running", !.lease = "fresh",
                            !.attempts = @ + 1]

\* claim_one_paid.  SKIP LOCKED passes over a row that a payment's foreign key
\* has locked, hence any paid row and not just the oldest.
ClaimOnePaid(r) ==
    /\ run[r].phase = "claim"
    /\ \/ /\ \A c \in Charges : job[c].status # "paid"
          /\ Goto(r, "unlock")
          /\ UNCHANGED job
       \/ \E c \in Charges :
             /\ job[c].status = "paid"
             /\ job' = [job EXCEPT ![c] = Claimed(@)]
             /\ run' = [run EXCEPT ![r] = [phase |-> "work", job |-> c,
                                           result |-> "none"]]
    /\ UNCHANGED <<moneyVars, lock, runnerUp, githubVars, outcome,
                   disturbances, burnt>>

\* The reap or the claim raises.  A claim that committed leaves a lease with
\* nobody behind it.
PassRaises(r) ==
    /\ run[r].phase \in {"reap", "claim"}
    /\ Disturb
    /\ \/ UNCHANGED job
       \/ /\ run[r].phase = "claim"
          /\ \E c \in Charges : /\ job[c].status = "paid"
                                /\ job' = [job EXCEPT ![c] = Claimed(@)]
    /\ Goto(r, "unlock")
    /\ UNCHANGED <<moneyVars, lock, runnerUp, githubVars, outcome, burnt>>

-----------------------------------------------------------------------------
(* A processor run: _process_one_paid_job *)

\* Fetch, plan, semantic check, proof gate: to the write of a verdict, or on
\* to delivery, by way of the soft gate's note.  Without the runner there is
\* no verdict, only a plan with nothing to do, an error or a deferral.
Generate(r) ==
    /\ run[r].phase = "work"
    /\ \E p \in {"nofix", "fail"} \union
                (IF runnerUp THEN {"block", "gate", "soft", "token"}
                 ELSE {"defer"}) : Goto(r, p)
    /\ UNCHANGED <<job, moneyVars, lock, runnerUp, githubVars, outcome,
                   disturbances, burnt>>

\* release_to_paid is guarded by the status; a variant keeps the attempt.
ReleasedCharged(row) ==
    IF row.status = "running"
    THEN [row EXCEPT !.status = "paid", !.lease = "none", !.hardProof = FALSE]
    ELSE row

Released(row) ==
    IF row.status = "running"
    THEN [row EXCEPT !.status = "paid", !.lease = "none", !.hardProof = FALSE,
                     !.attempts = IF @ > 0 THEN @ - 1 ELSE 0]
    ELSE row

\* mark_status, for each place that calls it: unguarded.  Only an empty plan
\* leaves the detail column as it was.
StatusOf == [nofix |-> "no_fix_needed", block |-> "blocked",
             gate |-> "blocked", defer |-> "running", soft |-> "running",
             fail |-> "failed"]

MarkStatus(row, p) ==
    [row EXCEPT !.status = StatusOf[p],
                !.hardProof = IF p = "nofix" THEN @ ELSE p = "gate"]

\* mark_fixpack_delivered: unguarded too.
MarkDelivered(row) == [row EXCEPT !.status = "delivered", !.prUrl = TRUE]

\* The row that run r's next statement leaves.
Written(r) ==
    LET row == job[run[r].job] IN
    CASE run[r].phase = "record"  -> MarkDelivered(row)
      [] run[r].phase = "release" -> Released(row)
      [] OTHER                    -> MarkStatus(row, run[r].phase)

\* fixpack_jobs_audit_live_idx: the statement raises if it would make a second
\* live job of one audit.
IndexAdmits(r) ==
    LET c == run[r].job IN
    Written(r).status \in Live =>
        LiveJobsOf(AuditOf[c]) \subseteq {c}

\* Where the code goes on after the statement; and where the exception
\* handlers take it when the statement raises.
After(p) == CASE p \in {"defer", "release"} -> "unlock"
              [] p = "soft"                 -> "token"
              [] OTHER                      -> "outcome"

Handler(p) == CASE p = "soft"                -> "token"
                [] p \in {"fail", "release"} -> "unlock"
                [] OTHER                     -> "fail"

\* The statement commits; a lease that ends without a refund is burnt.
Commit(r) ==
    LET c == run[r].job
        ends == /\ job[c].status = "running" /\ Written(r).status # "running"
                /\ run[r].phase # "release" IN
    /\ job' = [job EXCEPT ![c] = Written(r)]
    /\ burnt' = [burnt EXCEPT ![c] = IF ends THEN @ + 1 ELSE @]

WriteStatus(r) ==
    /\ run[r].phase \in WritePhases
    /\ IF IndexAdmits(r)
       THEN /\ Commit(r)
            /\ run' = [run EXCEPT ![r].phase = After(@),
                                  ![r].result = Written(r).status]
       ELSE /\ Goto(r, Handler(run[r].phase))
            /\ UNCHANGED <<job, burnt>>
    /\ UNCHANGED <<moneyVars, lock, runnerUp, githubVars, outcome,
                   disturbances>>

WriteRaises(r) ==
    /\ run[r].phase \in WritePhases
    /\ Disturb
    /\ \/ UNCHANGED <<job, burnt>>
       \/ LostAcks /\ IndexAdmits(r) /\ Commit(r)
    /\ Goto(r, Handler(run[r].phase))
    /\ UNCHANGED <<moneyVars, lock, runnerUp, githubVars, outcome>>

\* _resolve_pr_token: GitHub may reject the App's own credentials, which
\* releases the job.
ResolveToken(r) ==
    /\ run[r].phase = "token"
    /\ Goto(r, "preflight")
    /\ UNCHANGED <<job, moneyVars, lock, runnerUp, githubVars, outcome,
                   disturbances, burnt>>

AuthRejected(r) ==
    /\ run[r].phase = "token"
    /\ Disturb
    /\ Goto(r, "release")
    /\ UNCHANGED <<job, moneyVars, lock, runnerUp, githubVars, outcome, burnt>>

\* _find_open_pr on the job's own branch, state=all; a variant that looks for
\* open pull requests only.
FoundOpen(c) == pr[c] = "open"

Found(c) == pr[c] # "none"

Preflight(r) ==
    /\ run[r].phase = "preflight"
    /\ Goto(r, IF Found(run[r].job) THEN "record" ELSE "post")
    /\ UNCHANGED <<job, moneyVars, lock, runnerUp, githubVars, outcome,
                   disturbances, burnt>>

\* GitHub refuses a second open pull request from one branch.
PullRequestAppears(c) ==
    IF pr[c] = "open" THEN UNCHANGED githubVars
    ELSE /\ pr' = [pr EXCEPT ![c] = "open"]
         /\ opened' = [opened EXCEPT ![c] = @ + 1]

\* Tree, commit, branch and POST /pulls; 422 means it exists: look it up.
PostPullRequest(r) ==
    /\ run[r].phase = "post"
    /\ PullRequestAppears(run[r].job)
    /\ Goto(r, "record")
    /\ UNCHANGED <<job, moneyVars, lock, runnerUp, outcome, disturbances,
                   burnt>>

\* DeliveryError, or a request that times out on our side only.
DeliveryFails(r) ==
    /\ run[r].phase \in Delivering
    /\ Disturb
    /\ \/ UNCHANGED githubVars
       \/ run[r].phase = "post" /\ PullRequestAppears(run[r].job)
    /\ Goto(r, "fail")
    /\ UNCHANGED <<job, moneyVars, lock, runnerUp, outcome, burnt>>

\* _record_fix_outcome: best effort.
RecordOutcome(r) ==
    /\ run[r].phase = "outcome"
    /\ \/ /\ outcome' = [outcome EXCEPT ![run[r].job] = run[r].result]
          /\ UNCHANGED disturbances
       \/ /\ Disturb
          /\ UNCHANGED outcome
    /\ Goto(r, "unlock")
    /\ UNCHANGED <<job, moneyVars, lock, runnerUp, githubVars, burnt>>

\* The finally of _advisory_processor_lock; a no-op once the connection died.
Unlock(r) ==
    /\ run[r].phase = "unlock"
    /\ lock' = IF lock = r THEN NoRun ELSE lock
    /\ run' = [run EXCEPT ![r] = [phase |-> "off", job |-> NoCharge,
                                  result |-> "none"]]
    /\ UNCHANGED <<job, moneyVars, runnerUp, githubVars, outcome,
                   disturbances, burnt>>

-----------------------------------------------------------------------------
(* The environment and the operator *)

\* The 15 minutes of STALE_LEASE_MINUTES pass, whether or not the run that
\* holds the lease is still working: its budget is 34 minutes.
LeaseGoesStale(c) ==
    /\ job[c].lease = "fresh"
    /\ job' = [job EXCEPT ![c].lease = "stale"]
    /\ UNCHANGED <<moneyVars, processorVars, disturbances, burnt>>

RunnerGoesDown ==
    /\ runnerUp
    /\ Disturb
    /\ runnerUp' = FALSE
    /\ UNCHANGED <<job, moneyVars, run, lock, githubVars, outcome, burnt>>

RunnerComesUp ==
    /\ ~runnerUp
    /\ runnerUp' = TRUE
    /\ UNCHANGED <<job, moneyVars, run, lock, githubVars, outcome,
                   disturbances, burnt>>

\* The API process dies or is restarted by a deploy, with every handler in it;
\* Postgres releases its locks.
ApiCrash ==
    /\ Disturb
    /\ run' = [r \in Runs |-> [phase |-> "off", job |-> NoCharge,
                               result |-> "none"]]
    /\ conf' = [k \in Confirmers |->
                  [phase |-> "idle", charge |-> NoCharge, job |-> NoCharge]]
    /\ lock' = NoRun
    /\ UNCHANGED <<job, pay, link, newest, runnerUp, githubVars, outcome,
                   burnt>>

\* The idle connection behind the session lock dies; its run goes on.
LockDrops ==
    /\ LockMayDrop
    /\ lock # NoRun
    /\ Disturb
    /\ lock' = NoRun
    /\ UNCHANGED <<job, moneyVars, run, runnerUp, githubVars, outcome, burnt>>

\* The customer merges or closes the pull request.
CustomerCloses(c) ==
    /\ pr[c] = "open"
    /\ pr' = [pr EXCEPT ![c] = "closed"]
    /\ UNCHANGED <<job, moneyVars, run, lock, runnerUp, opened, outcome,
                   disturbances, burnt>>

Requeued(row) == [row EXCEPT !.status = "paid", !.lease = "none",
                             !.hardProof = FALSE]

\* requeue_blocked_fixpack.py --apply, one transaction under the processor's
\* lock key: a proof-gate block, paid for and not refunded.
RequeueBlocked(c) ==
    /\ LockFree
    /\ \E p \in Charges : link[p] = c /\ pay[p] = "completed"
    /\ job[c].status = "blocked" /\ job[c].hardProof /\ ~job[c].prUrl
    /\ LiveJobsOf(AuditOf[c]) = {}
    /\ Disturb
    /\ job' = [job EXCEPT ![c] = Requeued(@)]
    /\ UNCHANGED <<moneyVars, processorVars, burnt>>

-----------------------------------------------------------------------------
RunStep(r) ==
    \/ ReapStaleRunning(r) \/ CheckRunner(r) \/ ClaimOnePaid(r)
    \/ Generate(r) \/ WriteStatus(r) \/ ResolveToken(r) \/ Preflight(r)
    \/ PostPullRequest(r) \/ RecordOutcome(r) \/ Unlock(r)

RunFault(r) == \/ PassRaises(r) \/ WriteRaises(r) \/ AuthRejected(r)
               \/ DeliveryFails(r)

Next ==
    \/ \E c \in Charges : \/ Checkout(c) \/ Refund(c) \/ LeaseGoesStale(c)
                          \/ CustomerCloses(c) \/ RequeueBlocked(c)
    \/ \E k \in Confirmers, c \in Charges :
          \/ ReceiveNotification(k, c) \/ Confirm(k, c)
          \/ HandleFixpackPayment(k, c)
    \/ \E k \in Confirmers : ReserveJob(k) \/ CompletePayment(k)
                             \/ ConfirmFails(k)
    \/ \E r \in Runs : StartRun(r) \/ RunStep(r) \/ RunFault(r)
    \/ RunnerGoesDown \/ RunnerComesUp \/ ApiCrash \/ LockDrops

Spec == Init /\ [][Next]_vars

\* The timer starts a run two minutes after the last one ended, handlers run
\* to their end, the runner is repaired and time passes.
Fairness ==
    /\ \A r \in Runs : WF_vars(StartRun(r)) /\ WF_vars(RunStep(r))
    /\ WF_vars(RunnerComesUp)
    /\ \A c \in Charges : WF_vars(LeaseGoesStale(c))

FairSpec == Spec /\ Fairness

-----------------------------------------------------------------------------
(* Properties *)

TypeOK ==
    /\ job \in [Charges -> Rows]
    /\ pay \in [Charges -> {"none", "pending", "completed", "refunded"}]
    /\ link \in [Charges -> Charges \union {NoCharge}]
    /\ newest \in [Audits -> Charges \union {NoCharge}]
    /\ conf \in [Confirmers -> [phase : ConfPhases,
                                charge : Charges \union {NoCharge},
                                job : Charges \union {NoCharge}]]
    /\ run \in [Runs -> [phase : RunPhases, job : Charges \union {NoCharge},
                         result : Statuses]]
    /\ lock \in Runs \union {NoRun}
    /\ runnerUp \in BOOLEAN
    /\ pr \in [Charges -> {"none", "open", "closed"}]
    /\ opened \in [Charges -> Nat]
    /\ outcome \in [Charges -> Statuses]
    /\ disturbances \in 0..MaxDisturbances
    /\ burnt \in [Charges -> Nat]

\* Money is never taken for nothing (migration 0025): a completed payment is
\* linked to a job that exists, of the audit that was paid for.
CompletedIsBacked ==
    \A c \in Charges :
        pay[c] \in {"completed", "refunded"} =>
            /\ link[c] \in Charges
            /\ job[link[c]].status # "none"
            /\ AuditOf[link[c]] = AuditOf[c]

\* "A completed replay retains that distinction" (grant_fixpack): a charge that
\* has a job of its own is, once no confirmation of it is in progress, linked
\* to that job and not to one it joined.  The link is how a buyer is found
\* (get_completed_fixpack_for_job).
FundedLink ==
    \A c \in Charges :
        /\ pay[c] = "completed"
        /\ job[c].status # "none"
        /\ \A k \in Confirmers : conf[k].charge # c
        => link[c] = c

\* A job is processed by one run at a time, although its lease goes stale
\* under a live run.
OneRunPerJob ==
    \A r, s \in Runs :
        /\ r # s
        /\ run[r].phase \in JobPhases
        /\ run[s].phase \in JobPhases
        => run[r].job # run[s].job

\* attempts counts the leases that ended without a refund and the present one:
\* rejected App credentials cost a job nothing, everything else costs it one.
AttemptsAccounted ==
    \A c \in Charges :
        job[c].attempts = burnt[c] + (IF job[c].status = "running" THEN 1
                                      ELSE 0)

\* However often delivery is retried, a job has at most one pull request, and
\* one that is called delivered has it.
OnePRPerJob ==
    \A c \in Charges :
        /\ opened[c] <= 1
        /\ "delivered" \in {job[c].status, outcome[c]} => opened[c] = 1

\* A job's stage in FixpackOrder, from its status.
StageOf(s) == CASE s = "none"    -> "none"
                [] s \in Live    -> "owed"
                [] s = "blocked" -> "blocked"
                [] OTHER         -> "closed"

OrderStage == [c \in Charges |-> StageOf(job[c].status)]

Order == INSTANCE FixpackOrder WITH stage <- OrderStage, prs <- opened

\* The queue implements FixpackOrder: reserved work is settled once, and pull
\* requests only appear while it is owed.
KeepsTheOrder == Order!Spec

\* "so a mid-job restart never leaves a job stuck 'running'": every paid job is
\* settled in the end.
PaidJobsEnd ==
    \A c \in Charges :
        job[c].status = "paid" ~> job[c].status \in Terminal
=============================================================================
