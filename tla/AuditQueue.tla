----------------------------- MODULE AuditQueue -----------------------------
(***************************************************************************)
(* The durable audit queue: rows of audit_jobs (app/db.py,                 *)
(* AuditJobRepository), the API handler that stages an upload and makes    *)
(* its job claimable (app/main.py), the spool directory                    *)
(* (app/audit_spool.py) and the worker process with its slots, lease       *)
(* heartbeats, reaper and graceful shutdown (app/worker/main.py).          *)
(*                                                                         *)
(* One SQL statement is one atomic step.  Wall-clock time is abstracted:   *)
(* the one deadline that matters in a row's present state (age of a        *)
(* 'created' row, available_at of a 'queued' one, lease_expires_at of a    *)
(* 'running' one) is its timer, which the environment moves from "set" to  *)
(* "due" whenever it likes.                                                *)
(***************************************************************************)
EXTENDS Naturals, FiniteSets

CONSTANTS
    Jobs,            \* the job ids the intake may mint
    ZipJobs,         \* the ones whose payload is an uploaded archive
    Keys,            \* idempotency keys
    KeyOf,           \* the key each submission carries
    Slots,           \* worker slots, the lease-holder identities
    Procs,           \* worker processes
    ProcOf,          \* the process that runs each slot
    NoSlot, NoJob,
    MaxAttempts,     \* audit_jobs.max_attempts
    SpoolBudget,     \* MAX_SPOOL_BYTES, in archives
    Threads,         \* the API's thread pool, where stage_archive runs
    MaxSubmissions,  \* bound on jobs submitted
    MaxDisturbances  \* bound on kills, SIGTERMs, database errors and stops

ASSUME JobsAssumption ==
    /\ ZipJobs \subseteq Jobs
    /\ KeyOf \in [Jobs -> Keys]
    /\ NoJob \notin Jobs

ASSUME SlotsAssumption ==
    /\ ProcOf \in [Slots -> Procs]
    /\ NoSlot \notin Slots

ASSUME BoundsAssumption ==
    /\ MaxAttempts \in Nat \ {0}
    /\ SpoolBudget \in Nat
    /\ Threads \in Nat \ {0}
    /\ MaxSubmissions \in Nat
    /\ MaxDisturbances \in Nat

VARIABLES
    row,          \* audit_jobs, one record per job id
    file,         \* the job's file in the spool directory; "swept" once
                  \* sweep_stale_archives has unlinked it
    api,          \* where the request that submitted the job has got to
    slot,         \* what each worker slot is doing
    proc,         \* the worker processes
    stopped,      \* the llm_paid_ops emergency stop is engaged
    disturbances, \* how many disturbances have happened
    writtenOff,   \* history: the slot's attempt was requeued by the reaper
    burnt         \* history: attempts of the job that failed or were reaped

vars == <<row, file, api, slot, proc, stopped, disturbances,
          writtenOff, burnt>>

-----------------------------------------------------------------------------
(* Types *)

JobStates   == {"none", "created", "queued", "running", "succeeded",
                "dead_letter"}
LiveStates  == {"created", "queued", "running"}
FileStates  == {"none", "tmp", "fresh", "old", "swept"}
ApiSteps    == {"off", "check", "open", "write", "mark", "cleanup", "abandon"}
SlotPhases  == {"off", "idle", "claim", "load", "scan", "ok", "transient",
                "permanent", "discard", "release"}
HeartStates == {"off", "beating", "lost", "crashed"}
ProcStates  == {"down", "running", "draining", "cancelling"}

Rows == [state : JobStates, claimedBy : Slots \union {NoSlot},
         attempts : 0..MaxAttempts, timer : {"set", "due"},
         sourceRef : BOOLEAN]

SlotRecords == [phase : SlotPhases, job : Jobs \union {NoJob},
                heart : HeartStates, seen : 0..MaxAttempts]

NoRow == [state |-> "none", claimedBy |-> NoSlot, attempts |-> 0,
          timer |-> "set", sourceRef |-> FALSE]

\* A slot that holds no job, in phase p.
Vacant(p) == [phase |-> p, job |-> NoJob, heart |-> "off", seen |-> 0]

-----------------------------------------------------------------------------
(* State predicates *)

Live(j) == row[j].state \in LiveStates

\* The WHERE clause of every statement a leaseholder issues; first without the
\* state, then without the holder.
HoldsByName(w) == /\ slot[w].job \in Jobs
                  /\ row[slot[w].job].claimedBy = w

HoldsByState(w) == /\ slot[w].job \in Jobs
                   /\ row[slot[w].job].state = "running"

Holds(w) == /\ slot[w].job \in Jobs
            /\ row[slot[w].job].state = "running"
            /\ row[slot[w].job].claimedBy = w

\* The slot is inside _process_job, with a heartbeat task beside it.
Working(w) == slot[w].phase \in {"load", "scan", "ok", "transient",
                                 "permanent", "release"}

\* finalize_failed's branch condition, evaluated on the row.
Exhausted(r, permanent) == permanent \/ r.attempts >= MaxAttempts

\* The predicate of audit_jobs_idempotency_live_idx; a variant that forgets
\* uploads still being staged.
KeyFreeOfClaimable(j) ==
    \A i \in Jobs : KeyOf[i] = KeyOf[j] =>
                      row[i].state \notin {"queued", "running"}

KeyFree(j) == \A i \in Jobs : KeyOf[i] = KeyOf[j] => ~Live(i)

\* The state gate of mark_queued and abandon_created; a variant without it.
AnyRow(j) == row[j].state # "none"

StillCreated(j) == row[j].state = "created"

Claimable(j) == row[j].state = "queued" /\ row[j].timer = "due"

Submitted == {j \in Jobs : row[j].state # "none"}

\* The files a spool listing finds: archives, and temporary files with some
\* part of theirs.
Archives == {j \in Jobs : file[j] \in {"fresh", "old"}}
Partials == {j \in Jobs : file[j] = "tmp"}

\* The requests that passed the check and are on a thread of the pool.
Staging == {j \in Jobs : api[j] \in {"open", "write"}}

\* spool_bytes_used() + len(raw) > MAX_SPOOL_BYTES; a variant forgets len(raw).
OverBudgetAlready(used) == used > SpoolBudget

OverBudget(used) == used + 1 > SpoolBudget

(* What each UPDATE makes of a row it matches *)

MarkedQueued(r)  == [r EXCEPT !.state = "queued", !.timer = "due",
                              !.sourceRef = TRUE]
Claimed(r, w)    == [r EXCEPT !.state = "running", !.claimedBy = w,
                              !.attempts = @ + 1, !.timer = "set"]
Succeeded(r)     == [r EXCEPT !.state = "succeeded"]
FailedState(r)   == [r EXCEPT !.state = "failed"]   \* as fixpack_jobs has it
DeadLettered(r)  == [r EXCEPT !.state = "dead_letter"]
Retried(r)       == [r EXCEPT !.state = "queued", !.claimedBy = NoSlot,
                              !.timer = "set"]
ReleasedCharged(r) == [r EXCEPT !.state = "queued", !.claimedBy = NoSlot,
                                !.timer = "due"]       \* without the refund
Released(r)      == [r EXCEPT !.state = "queued", !.claimedBy = NoSlot,
                              !.timer = "due",
                              !.attempts = IF @ > 0 THEN @ - 1 ELSE 0]
Requeued(r)      == [r EXCEPT !.state = "queued", !.claimedBy = NoSlot,
                              !.timer = "due"]
Failed(r, permanent) ==
    IF Exhausted(r, permanent) THEN DeadLettered(r) ELSE Retried(r)

-----------------------------------------------------------------------------
Init ==
    /\ row = [j \in Jobs |-> NoRow]
    /\ file = [j \in Jobs |-> "none"]
    /\ api = [j \in Jobs |-> "off"]
    /\ slot = [w \in Slots |-> Vacant("idle")]
    /\ proc = [p \in Procs |-> "running"]
    /\ stopped = FALSE
    /\ disturbances = 0
    /\ writtenOff = [w \in Slots |-> FALSE]
    /\ burnt = [j \in Jobs |-> 0]

\* Every disturbance draws on one budget.
Disturb == /\ disturbances < MaxDisturbances
           /\ disturbances' = disturbances + 1

-----------------------------------------------------------------------------
(* The API process: POST /v1/audits after validation *)

workerVars == <<slot, proc, writtenOff, burnt>>

\* _enqueue_audit_job: insert the row unless a live job carries the key.  A
\* collision returns the live job and changes nothing, so it is no step here.
Enqueue(j) ==
    /\ row[j].state = "none"
    /\ Cardinality(Submitted) < MaxSubmissions
    /\ KeyFree(j)
    /\ IF j \in ZipJobs
       THEN /\ row' = [row EXCEPT ![j] = [NoRow EXCEPT !.state = "created"]]
            /\ api' = [api EXCEPT ![j] = "check"]
       ELSE /\ row' = [row EXCEPT ![j] = [NoRow EXCEPT !.state = "queued",
                                                       !.timer = "due",
                                                       !.sourceRef = TRUE]]
            /\ UNCHANGED api
    /\ UNCHANGED <<file, workerVars, stopped, disturbances>>

\* stage_archive gets a thread and reads the spool's usage, then creates the
\* temporary file: other requests may stage between the two.
SpoolCheck(j) ==
    /\ api[j] = "check"
    /\ Cardinality(Staging) < Threads
    /\ \E counted \in SUBSET Partials :
          api' = [api EXCEPT ![j] =
                     IF OverBudget(Cardinality(Archives \union counted))
                     THEN "abandon" ELSE "open"]
    /\ UNCHANGED <<row, file, workerVars, stopped, disturbances>>

OpenTemp(j) ==
    /\ api[j] = "open"
    /\ file' = [file EXCEPT ![j] = "tmp"]
    /\ api' = [api EXCEPT ![j] = "write"]
    /\ UNCHANGED <<row, workerVars, stopped, disturbances>>

ReplaceTemp(j) ==
    /\ api[j] = "write"
    /\ file' = [file EXCEPT ![j] = "fresh"]
    /\ api' = [api EXCEPT ![j] = "mark"]
    /\ UNCHANGED <<row, workerVars, stopped, disturbances>>

\* An OSError in mkdir, open, write or replace: a failed write unlinks the
\* temporary file, a failed os.replace is outside that handler and leaves it.
StagingFails(j) ==
    /\ api[j] \in {"check", "open", "write"}
    /\ Disturb
    /\ \/ file' = [file EXCEPT ![j] = "none"]
       \/ UNCHANGED file
    /\ api' = [api EXCEPT ![j] = "abandon"]
    /\ UNCHANGED <<row, workerVars, stopped>>

MarkQueued(j) ==
    /\ api[j] = "mark"
    /\ IF StillCreated(j)
       THEN /\ row' = [row EXCEPT ![j] = MarkedQueued(@)]
            /\ api' = [api EXCEPT ![j] = "off"]
       ELSE /\ api' = [api EXCEPT ![j] = "cleanup"]
            /\ UNCHANGED row
    /\ UNCHANGED <<file, workerVars, stopped, disturbances>>

CleanupStaged(j) ==
    /\ api[j] = "cleanup"
    /\ file' = [file EXCEPT ![j] = "none"]
    /\ api' = [api EXCEPT ![j] = "off"]
    /\ UNCHANGED <<row, workerVars, stopped, disturbances>>

AbandonCreated(j) ==
    /\ api[j] = "abandon"
    /\ api' = [api EXCEPT ![j] = "off"]
    /\ row' = IF StillCreated(j)
              THEN [row EXCEPT ![j] = DeadLettered(@)] ELSE row
    /\ UNCHANGED <<file, workerVars, stopped, disturbances>>

\* mark_queued or abandon_created raises: the request answers 500, whether or
\* not the statement had committed.
RequestFails(j) ==
    /\ api[j] \in {"mark", "abandon"}
    /\ Disturb
    /\ api' = [api EXCEPT ![j] = "off"]
    /\ \/ UNCHANGED row
       \/ /\ StillCreated(j)
          /\ row' = [row EXCEPT ![j] = IF api[j] = "mark" THEN MarkedQueued(@)
                                       ELSE DeadLettered(@)]
    /\ UNCHANGED <<file, workerVars, stopped>>

ApiCrash ==
    /\ \E j \in Jobs : api[j] # "off"
    /\ Disturb
    /\ api' = [j \in Jobs |-> "off"]
    /\ UNCHANGED <<row, file, workerVars, stopped>>

-----------------------------------------------------------------------------
(* A worker slot *)

otherVars == <<api, stopped, disturbances>>

\* The slot drops the job it had and continues in phase p.
Vacate(w, p) == /\ slot' = [slot EXCEPT ![w] = Vacant(p)]
                /\ writtenOff' = [writtenOff EXCEPT ![w] = FALSE]

\* The loop head of _slot: leave when shutting down, wait while the emergency
\* stop is engaged, else go on to claim.
CheckStop(w) ==
    /\ slot[w].phase = "idle"
    /\ proc[ProcOf[w]] = "running"
    /\ ~stopped
    /\ Vacate(w, "claim")
    /\ UNCHANGED <<row, file, otherVars, proc, burnt>>

\* A variant that does not look at shutting_down while stopped.
LeaveLoopUnlessStopped(w) ==
    /\ slot[w].phase = "idle"
    /\ proc[ProcOf[w]] \in {"draining", "cancelling"}
    /\ ~stopped
    /\ Vacate(w, "off")
    /\ UNCHANGED <<row, file, otherVars, proc, burnt>>

LeaveLoop(w) ==
    /\ slot[w].phase = "idle"
    /\ proc[ProcOf[w]] \in {"draining", "cancelling"}
    /\ Vacate(w, "off")
    /\ UNCHANGED <<row, file, otherVars, proc, burnt>>

\* claim_one.  FOR UPDATE SKIP LOCKED may pass over the oldest row while a
\* duplicate submission's no-op update has it locked, hence any claimable row.
ClaimOne(w) ==
    /\ slot[w].phase = "claim"
    /\ proc[ProcOf[w]] # "cancelling"
    /\ \/ /\ \A j \in Jobs : ~Claimable(j)
          /\ Vacate(w, "idle")
          /\ UNCHANGED row
       \/ \E j \in Jobs :
             /\ Claimable(j)
             /\ row' = [row EXCEPT ![j] = Claimed(@, w)]
             /\ slot' = [slot EXCEPT ![w] =
                            [phase |-> "load", job |-> j, heart |-> "beating",
                             seen |-> row[j].attempts + 1]]
             /\ writtenOff' = [writtenOff EXCEPT ![w] = FALSE]
    /\ UNCHANGED <<file, otherVars, proc, burnt>>

\* _load_payload: an upload whose archive is gone is a permanent failure.
LoadPayload(w) ==
    /\ slot[w].phase = "load"
    /\ proc[ProcOf[w]] # "cancelling"
    /\ LET j == slot[w].job IN
       slot' = [slot EXCEPT ![w].phase =
                   IF /\ j \in ZipJobs
                      /\ ~row[j].sourceRef \/ file[j] \notin {"fresh", "old"}
                   THEN "permanent" ELSE "scan"]
    /\ UNCHANGED <<row, file, otherVars, proc, writtenOff, burnt>>

\* The rest of _execute_job: an audits row, or an exception that
\* classify_failure calls transient or permanent.
ScanFinishes(w) ==
    /\ slot[w].phase = "scan"
    /\ proc[ProcOf[w]] # "cancelling"
    /\ \E outcome \in {"ok", "transient", "permanent"} :
          slot' = [slot EXCEPT ![w].phase = outcome]
    /\ UNCHANGED <<row, file, otherVars, proc, writtenOff, burnt>>

\* The UPDATE of finalize_succeeded or finalize_failed, lease gate included.
FinalizeRow(w) ==
    LET j == slot[w].job IN
    IF Holds(w)
    THEN IF slot[w].phase = "ok"
         THEN /\ row' = [row EXCEPT ![j] = Succeeded(@)]
              /\ UNCHANGED burnt
         ELSE /\ row' = [row EXCEPT ![j] =
                            Failed(@, slot[w].phase = "permanent")]
              /\ burnt' = [burnt EXCEPT ![j] = @ + 1]
    ELSE UNCHANGED <<row, burnt>>

\* finalize_failed chose its branch from the row; _process_job re-derives from
\* its own copy of the job whether that was the terminal one.  A variant is
\* off by one.
SeesOneEarly(w) == \/ slot[w].phase = "permanent"
                   \/ slot[w].seen + 1 >= MaxAttempts

SeesTerminal(w) == \/ slot[w].phase = "permanent"
                   \/ slot[w].seen >= MaxAttempts

\* _process_job after the scan: nothing is written once the lease is known to
\* be lost; the archive is discarded only after a terminal write.
FinalizeSucceeded(w) ==
    /\ slot[w].phase = "ok"
    /\ proc[ProcOf[w]] # "cancelling"
    /\ IF slot[w].heart = "lost"
       THEN Vacate(w, "idle") /\ UNCHANGED <<row, burnt>>
       ELSE /\ FinalizeRow(w)
            /\ IF Holds(w)
               THEN /\ slot' = [slot EXCEPT ![w].phase = "discard",
                                            ![w].heart = "off"]
                    /\ UNCHANGED writtenOff
               ELSE Vacate(w, "idle")
    /\ UNCHANGED <<file, otherVars, proc>>

FinalizeFailed(w) ==
    /\ slot[w].phase \in {"transient", "permanent"}
    /\ proc[ProcOf[w]] # "cancelling"
    /\ IF slot[w].heart = "lost"
       THEN Vacate(w, "idle") /\ UNCHANGED <<row, burnt>>
       ELSE /\ FinalizeRow(w)
            /\ IF Holds(w) /\ SeesTerminal(w)
               THEN /\ slot' = [slot EXCEPT ![w].phase = "discard",
                                            ![w].heart = "off"]
                    /\ UNCHANGED writtenOff
               ELSE Vacate(w, "idle")
    /\ UNCHANGED <<file, otherVars, proc>>

DiscardPayload(w) ==
    /\ slot[w].phase = "discard"
    /\ file' = [file EXCEPT ![slot[w].job] =
                   IF slot[w].job \in ZipJobs THEN "none" ELSE @]
    /\ Vacate(w, "idle")
    /\ UNCHANGED <<row, otherVars, proc, burnt>>

-----------------------------------------------------------------------------
(* The heartbeat task beside a job *)

RenewLease(w) ==
    /\ Working(w)
    /\ slot[w].heart = "beating"
    /\ IF Holds(w)
       THEN /\ row' = [row EXCEPT ![slot[w].job].timer = "set"]
            /\ UNCHANGED <<slot, writtenOff>>
       ELSE /\ IF slot[w].phase \in {"load", "scan"}
               THEN Vacate(w, "idle")          \* the scan is cancelled
               ELSE /\ slot' = [slot EXCEPT ![w].heart = "lost"]
                    /\ UNCHANGED writtenOff
            /\ UNCHANGED row
    /\ UNCHANGED <<file, otherVars, proc, burnt>>

\* renew_lease raises: nothing in _heartbeat catches it, so the task ends and
\* the lease is not renewed again, while the scan goes on.
HeartbeatRaises(w) ==
    /\ Working(w)
    /\ slot[w].heart = "beating"
    /\ Disturb
    /\ slot' = [slot EXCEPT ![w].heart = "crashed"]
    /\ UNCHANGED <<row, file, api, stopped, proc, writtenOff, burnt>>

-----------------------------------------------------------------------------
(* Shutdown and failure of a slot *)

\* release_early, shielded from the cancellation that led to it.
ReleaseRow(w) == row' = IF Holds(w)
                        THEN [row EXCEPT ![slot[w].job] = Released(@)]
                        ELSE row

ReleaseEarly(w) ==
    /\ slot[w].phase = "release"
    /\ ReleaseRow(w)
    /\ Vacate(w, "off")
    /\ UNCHANGED <<file, otherVars, proc, burnt>>

\* What the statement the slot is waiting for leaves behind if it commits.
StatementCommits(w) ==
    \/ /\ slot[w].phase = "claim"
       /\ \E j \in Jobs : /\ Claimable(j)
                         /\ row' = [row EXCEPT ![j] = Claimed(@, w)]
       /\ UNCHANGED burnt
    \/ /\ slot[w].phase \in {"ok", "transient", "permanent"}
       /\ FinalizeRow(w)
    \/ /\ slot[w].phase = "release"
       /\ ReleaseRow(w)
       /\ UNCHANGED burnt

\* The grace budget is over and run_worker cancels the slot's task.  Inside
\* the scan that leads to release_early; in any other statement the task just
\* ends, whether or not the statement had committed.
CancelSlot(w) ==
    /\ proc[ProcOf[w]] = "cancelling"
    /\ \/ /\ slot[w].phase \in {"load", "scan"}
          /\ slot' = [slot EXCEPT ![w].phase = "release"]
          /\ UNCHANGED <<row, burnt, writtenOff>>
       \/ /\ slot[w].phase \in {"claim", "ok", "transient", "permanent"}
          /\ \/ UNCHANGED <<row, burnt>>
             \/ slot[w].heart # "lost" /\ StatementCommits(w)
          /\ Vacate(w, "off")
    /\ UNCHANGED <<file, otherVars, proc>>

\* A database error outside the scan is caught by nobody: the slot's task
\* ends, and run_worker then drains the whole process.
SlotDies(w) ==
    /\ slot[w].phase \in {"idle", "claim", "ok", "transient", "permanent",
                          "release"}
    /\ slot[w].heart # "lost"
    /\ Disturb
    /\ UNCHANGED <<row, burnt>> \/ StatementCommits(w)
    /\ Vacate(w, "off")
    /\ proc' = [proc EXCEPT ![ProcOf[w]] = IF @ = "running" THEN "draining"
                                           ELSE @]
    /\ UNCHANGED <<file, api, stopped>>

-----------------------------------------------------------------------------
(* The reaper: three sweeps on one clock.  A pass that fails half-way skips   *)
(* the later ones, and one begun before SIGTERM may end while draining.       *)

ReaperUp == \E p \in Procs : proc[p] \in {"running", "draining"}

\* lease_expires_at < now(); a variant lacks the dead-letter branch.
ReapableInBudget(j) == /\ row[j].state = "running" /\ row[j].timer = "due"
                       /\ row[j].attempts < MaxAttempts

Reapable(j) == row[j].state = "running" /\ row[j].timer = "due"

\* A requeue within the budget, else 'dead_letter'; a variant always requeues.
ReapedForever(r) == Requeued(r)

ReapedRow(r) == IF r.attempts < MaxAttempts THEN Requeued(r)
                ELSE DeadLettered(r)

ReapExpired ==
    /\ ReaperUp
    /\ \E j \in Jobs : Reapable(j)
    /\ row' = [j \in Jobs |-> IF Reapable(j) THEN ReapedRow(row[j])
                             ELSE row[j]]
    /\ burnt' = [j \in Jobs |-> IF Reapable(j) THEN burnt[j] + 1
                               ELSE burnt[j]]
    /\ writtenOff' = [w \in Slots |->
                         \/ writtenOff[w]
                         \/ Holds(w) /\ Reapable(slot[w].job)]
    /\ UNCHANGED <<file, otherVars, slot, proc>>

StuckCreated(j) == row[j].state = "created" /\ row[j].timer = "due"

ReapStuckCreated ==
    /\ ReaperUp
    /\ \E j \in Jobs : StuckCreated(j)
    /\ row' = [j \in Jobs |-> IF StuckCreated(j) THEN DeadLettered(row[j])
                             ELSE row[j]]
    /\ UNCHANGED <<file, otherVars, workerVars>>

\* glob("*.zip") matches no temporary file.  A variant joins audit_jobs.
SweepableDead(j) == file[j] = "old" /\ row[j].state = "dead_letter"

Sweepable(j) == file[j] = "old"

SweepArchives ==
    /\ ReaperUp
    /\ \E j \in Jobs : Sweepable(j)
    /\ file' = [j \in Jobs |-> IF Sweepable(j) THEN "swept" ELSE file[j]]
    /\ UNCHANGED <<row, otherVars, workerVars>>

-----------------------------------------------------------------------------
(* The worker process, its operator and the clock *)

SlotsOf(p) == {w \in Slots : ProcOf[w] = p}

Sigterm(p) ==
    /\ proc[p] = "running"
    /\ Disturb
    /\ proc' = [proc EXCEPT ![p] = "draining"]
    /\ UNCHANGED <<row, file, api, stopped, slot, writtenOff, burnt>>

GraceExpires(p) ==
    /\ proc[p] = "draining"
    /\ \E w \in SlotsOf(p) : slot[w].phase # "off"
    /\ proc' = [proc EXCEPT ![p] = "cancelling"]
    /\ UNCHANGED <<row, file, otherVars, slot, writtenOff, burnt>>

WorkerExits(p) ==
    /\ proc[p] \in {"draining", "cancelling"}
    /\ \A w \in SlotsOf(p) : slot[w].phase = "off"
    /\ proc' = [proc EXCEPT ![p] = "down"]
    /\ UNCHANGED <<row, file, otherVars, slot, writtenOff, burnt>>

\* Restart=always.  The new process may be given the old one's pid, so its
\* slots may reuse the old lease-holder identities.
Restart(p) ==
    /\ proc[p] = "down"
    /\ proc' = [proc EXCEPT ![p] = "running"]
    /\ slot' = [w \in Slots |-> IF w \in SlotsOf(p) THEN Vacant("idle")
                               ELSE slot[w]]
    /\ writtenOff' = [w \in Slots |-> w \notin SlotsOf(p) /\ writtenOff[w]]
    /\ UNCHANGED <<row, file, otherVars, burnt>>

\* SIGKILL, a crash of the host: no handler runs.
Kill(p) ==
    /\ proc[p] # "down"
    /\ Disturb
    /\ proc' = [proc EXCEPT ![p] = "down"]
    /\ slot' = [w \in Slots |-> IF w \in SlotsOf(p) THEN Vacant("off")
                               ELSE slot[w]]
    /\ writtenOff' = [w \in Slots |-> w \notin SlotsOf(p) /\ writtenOff[w]]
    /\ UNCHANGED <<row, file, api, stopped, burnt>>

\* The operator's stop, as the workers' cached flag reads.
EngageStop ==
    /\ ~stopped
    /\ Disturb
    /\ stopped' = TRUE
    /\ UNCHANGED <<row, file, api, workerVars>>

LiftStop ==
    /\ stopped
    /\ stopped' = FALSE
    /\ UNCHANGED <<row, file, api, disturbances, workerVars>>

\* The deadline of row j passes.
TimePasses(j) ==
    /\ Live(j)
    /\ row[j].timer = "set"
    /\ row' = [row EXCEPT ![j].timer = "due"]
    /\ UNCHANGED <<file, otherVars, workerVars>>

\* AUDIT_SPOOL_MAX_AGE_SECONDS pass for a staged archive.  The mtime knows
\* nothing of the row: behind a stop, an outage of the worker or a backlog a
\* live job's archive ages too.  Only a request does not last that long.
ArchiveAges(j) ==
    /\ file[j] = "fresh"
    /\ api[j] = "off"
    /\ file' = [file EXCEPT ![j] = "old"]
    /\ UNCHANGED <<row, otherVars, workerVars>>

-----------------------------------------------------------------------------
ApiStep(j) == \/ SpoolCheck(j) \/ OpenTemp(j) \/ ReplaceTemp(j)
              \/ MarkQueued(j) \/ CleanupStaged(j) \/ AbandonCreated(j)

SlotStep(w) == \/ CheckStop(w) \/ LeaveLoop(w) \/ ClaimOne(w)
               \/ LoadPayload(w) \/ ScanFinishes(w)
               \/ FinalizeSucceeded(w) \/ FinalizeFailed(w)
               \/ DiscardPayload(w) \/ ReleaseEarly(w) \/ CancelSlot(w)

ProcStep(p) == GraceExpires(p) \/ WorkerExits(p) \/ Restart(p)

Next ==
    \/ \E j \in Jobs : \/ Enqueue(j) \/ ApiStep(j)
                       \/ StagingFails(j) \/ RequestFails(j)
                       \/ TimePasses(j) \/ ArchiveAges(j)
    \/ \E w \in Slots : \/ SlotStep(w) \/ RenewLease(w)
                        \/ HeartbeatRaises(w) \/ SlotDies(w)
    \/ \E p \in Procs : ProcStep(p) \/ Sigterm(p) \/ Kill(p)
    \/ ApiCrash \/ ReapExpired \/ ReapStuckCreated \/ SweepArchives
    \/ EngageStop \/ LiftStop

\* Tasks that are runnable run, timers fire, systemd restarts the worker.
\* Nobody owes the system a disturbance, a submission or the end of a stop.
Fairness ==
    /\ \A j \in Jobs : /\ WF_vars(ApiStep(j))
                       /\ WF_vars(TimePasses(j))
                       /\ WF_vars(ArchiveAges(j))
    /\ \A w \in Slots : WF_vars(SlotStep(w))
    /\ \A p \in Procs : WF_vars(ProcStep(p))
    /\ WF_vars(ReapExpired)
    /\ WF_vars(ReapStuckCreated)
    /\ WF_vars(SweepArchives)

Spec == Init /\ [][Next]_vars
FairSpec == Spec /\ Fairness

-----------------------------------------------------------------------------
(* Safety *)

\* Every variable has its type; attempts stay within max_attempts, although
\* claim_one increments them without looking at the bound.
TypeOK ==
    /\ row \in [Jobs -> Rows]
    /\ file \in [Jobs -> FileStates]
    /\ api \in [Jobs -> ApiSteps]
    /\ slot \in [Slots -> SlotRecords]
    /\ proc \in [Procs -> ProcStates]
    /\ stopped \in BOOLEAN
    /\ disturbances \in 0..MaxDisturbances
    /\ writtenOff \in [Slots -> BOOLEAN]
    /\ burnt \in [Jobs -> 0..MaxAttempts]

\* The lease gate (claimed_by = me and state = 'running') is an exact fencing
\* token: a slot inside _process_job passes it if and only if its attempt has
\* not been written off by the reaper, whatever was re-claimed meanwhile and
\* even if a restarted process reuses the identity.
LeaseIsExact ==
    \A w \in Slots : Working(w) => (Holds(w) <=> ~writtenOff[w])

\* attempts counts exactly the attempts that failed or lapsed, plus the one in
\* progress; a shutdown's release_early refunds precisely its own claim, and
\* whatever is queued still has an attempt left.
AttemptsAccounted ==
    \A j \in Jobs :
        LET r == row[j] IN
        /\ r.state \in {"none", "created", "queued", "dead_letter"} =>
              r.attempts = burnt[j]
        /\ r.state \in {"running", "succeeded"} => r.attempts = burnt[j] + 1
        /\ r.state = "queued" => r.attempts < MaxAttempts

\* At most one live job per idempotency key, also when the intake's late
\* mark_queued races the reaper and a resubmission.
OneLiveJobPerKey ==
    \A i, j \in Jobs :
        i # j /\ KeyOf[i] = KeyOf[j] => ~(Live(i) /\ Live(j))

\* The bytes of an upload that a worker may still be asked to read are in the
\* spool, unless the sweep took them at their age: no cleanup of a request, no
\* discard by a slot and no failed staging ever removes them.
PayloadPresent ==
    \A j \in ZipJobs :
        row[j].state \in {"queued", "running"} =>
            row[j].sourceRef /\ file[j] \in {"fresh", "old", "swept"}

\* "So nothing live is ever swept": the archive of a job that waits or runs is
\* never the one sweep_stale_archives unlinks.
LiveIsNeverSwept ==
    \A j \in ZipJobs :
        row[j].state \in {"queued", "running"} => file[j] # "swept"

\* The spool's budget is checked before an upload is written, so uploads in
\* flight may overrun it together, but by no more than the thread pool lets
\* stage at once, the last one of which had room.
SpoolOverrunIsBounded == Cardinality(Archives) < SpoolBudget + Threads

\* A job that succeeded or was dead-lettered is never touched again, also not
\* by a holder whose name the dead-lettered row still carries.
TerminalIsFinal ==
    [][\A j \in Jobs : row[j].state \in {"succeeded", "dead_letter"} =>
                           row'[j] = row[j]]_vars

\* A slot whose attempt was written off changes neither a row nor a file on
\* its way out.
ZombieWritesNothing ==
    [][\A w \in Slots : writtenOff[w] /\ slot'[w] # slot[w] =>
                            UNCHANGED <<row, file>>]_vars

-----------------------------------------------------------------------------
(* The abstract queue *)

\* What the submitter is told.
PublicState == [j \in Jobs |-> row[j].state]

\* Attempts that ended badly, as the column shows them: the one under way, or
\* the one that succeeded, is not among them.
SpentAttempts ==
    [j \in Jobs |-> IF row[j].state \in {"running", "succeeded"}
                    THEN row[j].attempts - 1 ELSE row[j].attempts]

\* The job each slot's answer counts for: none once the reaper wrote it off.
ValidAttempts ==
    [w \in Slots |-> IF Working(w) /\ ~writtenOff[w] THEN slot[w].job ELSE NoJob]

LQ == INSTANCE LeaseQueue WITH status <- PublicState, spent <- SpentAttempts,
                               attempt <- ValidAttempts

\* Heartbeats, sweeps, restarts and statements that commit after their slot is
\* gone included, the queue does nothing a plain lease queue could not do: in
\* particular only an attempt that was not written off finishes a job, spends
\* an attempt or hands the job back.
IsLeaseQueue == LQ!Spec

-----------------------------------------------------------------------------
(* Liveness *)

\* Unless the emergency stop stays engaged, every accepted job ends.
JobsSettle ==
    <>[]~stopped => \A j \in Jobs : Live(j) ~> ~Live(j)

\* A worker told to stop does stop, whatever its slots were doing.
DrainCompletes ==
    \A p \in Procs : proc[p] \in {"draining", "cancelling"} ~>
                        proc[p] = "down"

\* An archive whose job is over is removed, by the slot or by the sweep.
ArchivesReclaimed ==
    \A j \in Jobs : ~Live(j) /\ j \in Archives ~> j \notin Archives
=============================================================================
