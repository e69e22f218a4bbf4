# Drydock: formal models of the audit service

This directory holds TLA+ models of Drydock (the `shipit` repository): a service
that audits uploaded archives and GitHub repositories, sells Fix Packs (pull
requests that repair what an audit found) and Pro accounts, together with the
scripts that migrate its database and deploy it. `PROJECT.json` maps every definition
that models code to its source lines, and lists runs, hazards, findings and theorems.

Sources are quoted relative to `src/`; the code is `app/`, SQL in `app/db.py`,
schema in `migrations/`.

## 1. The system

A FastAPI process (`app/main.py`, `app/routes/`), an audit worker process
(`app/worker/main.py`), systemd timers that call `/internal/...` endpoints, and
one Postgres database. Everything durable is a row; the only other shared state
is the spool directory that uploads pass through. All components meet in the
database: there are no messages between processes, only statements whose `WHERE`
clause decides whether they still apply.

| Component | State | Operations | Interacts with |
|---|---|---|---|
| Audit queue (`AuditJobRepository`, `worker/main.py`, `audit_spool.py`) | `audit_jobs` rows, spool files, slots, leases | enqueue, stage, mark_queued, abandon; claim, renew, finalize, release; three reaper sweeps; shutdown | intake, execution, service flags |
| Audit execution (`_execute_job`) | `audits`, `llm_usage` | fetch or read payload, cache lookup, scan in a thread, persist, record usage | queue, LLM provider, daily spend cap |
| Fix Pack queue (`FixpackJobRepository`, `process_paid_fixpacks`) | `fixpack_jobs`, `fix_outcomes`, PRs on GitHub | reserve on payment, claim, generate, check, open PR, deliver, requeue, fail; stale-lease reaper | billing, sandbox runner, GitHub |
| Billing (`app/billing/`, `PaymentRepository`) | `payments`, `accounts`, `subscriptions` | invoice, webhook, confirm, grant, deliver key, refund, reconcile | Telegram, YooKassa, operator, Fix Pack queue |
| Accounts and keys (`deliver_key_once`, `rotate_key`) | `accounts.api_key_hash`, `payments.key_delivered_at`, `telegram_chat_id` | grant, claim delivery, rotate, link a chat | billing, Telegram |
| Monitoring (`process_pending_monitoring`) | `monitoring_runs`, `subscriptions` | none: withdrawn from sale | execution, notifications |
| Service flags (`service_flags.py`) | flag rows, an 8 s cache | emergency stop | worker, API |
| Rate limiting (`ratelimit.py`) | counters | admit, refuse | intake |
| Migration manager (`scripts/migration_manager.py`) | the ledger table, the schema, dumps | apply, baseline, mark | the release gate |
| Deployment (`deploy/scripts`) | release directories, `current`, `previous`, `.release-env`, systemd units | deploy, roll back, build, activate, prune, probe health | systemd, the ledger |
| Scanner, fix generation, proofs, reports, SCA, LLM client, CLI, MCP | none durable of their own | pure functions and I/O | execution, Fix Pack queue |

What is hard about it is listed as `hazards` in `PROJECT.json`, each at the line
where it bites. The themes are: leases that expire under a live holder and
finalizes that arrive late; a worker killed, restarted or drained between any two
statements; uploads that live in three places (request memory, spool, row) with a
crash possible between each; bounded retries with refunds; clean-up by age;
payments confirmed twice, late, or after a refund; a pull request whose opening is
not acknowledged; a lock that is all that separates two processor runs; a scan
thread that outlives its coroutine; a key that exists only in one answer; migrations
run from two hosts; a deployment killed between two commands.

What makes each component correct:

- *Audit queue*: a lease really fences; one live job per idempotency key; a
  finished job stays finished; attempts are charged exactly once per burnt
  attempt; nothing but age takes the bytes of a live upload; every accepted job ends; a draining
  worker exits; files do not pile up, and uploads overrun the spool's budget by no more
  than what was being staged at once.
- *Lease clocks*: a beating holder does not lose its lease; a killed holder's job
  returns within a known time, also when passes of the reaper are slow or fail.
- *Execution*: money spent on a scan is recorded, except at named ends; anonymous audits
  overshoot the daily cap by no more than what was under way.
- *Fix Pack queue*: one payment, one job, at most one PR; a delivered job stays
  delivered; every paid job ends.
- *Billing*: a confirmed payment funds exactly one thing; a webhook may be repeated
  or reordered without effect; a refund is not also delivered.
- *Keys*: a payment hands out one key, to whoever owns the payment; whoever paid ends
  with a key that works.
- *Migrations*: the ledger says exactly what ran; a command that exited 0 tells the
  truth; rows and flags are never taken back.
- *Deployment*: no code without its schema; PASSED and "rolled back" are true; nothing
  in use is deleted.

## 2. Modules

| Module | Models |
|---|---|
| `AuditQueue` | The audit queue: rows, intake, spool, slots, heartbeats, reaper, process lifecycle |
| `LeaseQueue` | Abstract: what the audit queue promises its callers, with its theorem |
| `MCAuditQueue` | Instances of `AuditQueue` for TLC |
| `AuditQueueProofs` | Theorems about it, for every value of the constants, and that it implements `LeaseQueue` |
| `LeaseTiming` | The clocks of one running job, in discrete time |
| `FixpackOrder` | Abstract: what the Fix Pack queue promises about one charge's work |
| `FixpackQueue` | Fix Packs from the confirmation of a charge to the pull request |
| `MCFixpackQueue` | Instances of it for TLC |
| `FixpackProofs` | Theorems about it, and that it implements `FixpackOrder` |
| `LeaseTimingProofs` | The lease clocks for every choice of intervals |
| `AuditExecution`, `MCAuditExecution` | The inside of an attempt, and of a review, await by await, with the scan threads |
| `AuditExecutionProofs` | Theorems about its usage rows and the daily cap |
| `SchemaLedger` | Abstract: what the migration ledger promises the release gate |
| `Migrations`, `MCMigrations` | The migration manager's commands on several hosts |
| `MigrationsProofs` | Theorems about it, and that it implements `SchemaLedger` |
| `Deployment`, `MCDeployment` | One production host: both scripts, releases, services, gate |
| `DeploymentProofs` | Theorems about it, and that it leaves the ledger to `SchemaLedger` |
| `KeyDelivery` | Abstract: what a payment's delivery of its key may go through |
| `ProKeys` | How the key of a paid account reaches the payer |
| `ProKeysProofs` | Theorems about it, and that it implements `KeyDelivery` |

### AuditQueue

One SQL statement is one atomic step: each repository method commits by itself
(one `pool.connection()` block), and its `WHERE` clause is the guard. Where a
handler makes several statements with an `await` between them, it is several
actions, and any other process may act in between.

- `row[j]` is the `audit_jobs` row: `state`, `claimed_by`, `attempts`, and whether
  `source_ref` is set. All wall-clock columns are one field, `timer`: the deadline
  that matters in the present state (creation age of a `created` row,
  `available_at` of a `queued` one, `lease_expires_at` of a `running` one). The
  environment moves it from `set` to `due` whenever it likes (`TimePasses`), so
  every order of expiry, renewal and completion is covered; `LeaseTiming` says
  which of them the intervals in use allow. The state `claimed` of the schema
  is never written by the code and has no counterpart.
- `file[j]` is the job's file in the spool: none, the temporary file, the archive
  younger or older than `AUDIT_SPOOL_MAX_AGE_SECONDS`, or `swept`: gone too, by the
  sweep. The code tells `swept` from none nowhere; the properties do.
- `api[j]` is where the request that submitted the job has got to:
  `check -> open -> write -> mark`, with the error paths `abandon` and `cleanup`.
- `slot[w]` is a worker slot: its phase in `_slot`/`_process_job`, its job, its
  heartbeat task, and the copy of `attempts` it claimed (`seen`), which
  `_process_job` uses to decide whether a failure was terminal.
- `proc[p]` is the process around it: running, draining after SIGTERM or the death
  of a slot, cancelling after the grace budget, down.
- `writtenOff` and `burnt` are history variables: no guard reads them.

Slots are the lease-holder identities. The code builds them from host, pid and slot
number; a restarted process reuses its slots' identities here, which a recycled pid
can do and is the worse case.

Failures are one budget, `MaxDisturbances`: SIGKILL, SIGTERM, a crash of the API,
an `OSError` while staging, a database error in any statement (which may or may not
have committed) and the emergency stop. After a database error outside the scan the
slot's task ends and the whole process drains, as `run_worker` does.

`SpoolCheck` and `OpenTemp` are apart, so uploads may read the spool's size before any
of them writes. What bounds the damage is the thread pool that `run_in_threadpool`
takes its threads from (external): at most `Threads` requests are past the check and not yet at
`os.replace` at any time. The listing counts archives, and of the temporary files, whose
size is anything between nothing and all, any subset.

Abstractions a reader should know: archives have size one; `unlink` does not fail;
a duplicate submission is no step, as it only returns the live row; the scan is one
step with three outcomes, because `classify_failure` tells no more apart;
`heart = "lost"` is the flag `lease_lost` after a renewal matched no row; backlog
and statistics queries, alerts and logging change nothing. The reaper's sweeps are
independent actions, since an exception in one skips the later ones of that pass.
`ArchiveAges` lets any staged archive reach the age limit at any time, whatever its row
says, as the sweep looks at the mtime and nothing else: a backlog, an outage of the
worker or an emergency stop keeps a job queued for as long as it likes. Only a request in
progress is taken to be shorter than a day. `MaxSubmissions` bounds how many rows a
behaviour creates, so that a run can offer more jobs than it takes.

`LeaseQueue` is the promise. It knows no rows, names, timers, processes or files: a job
has a status, a number of attempts that ended badly (`spent`), and each slot at most one
`attempt` whose answer counts. Jobs are submitted one per key, opened, claimed, finished,
failed, given back, revoked; slots get lost. `LQ` maps the status to the column `state`,
`spent` to `attempts` without the attempt under way or successful, and `attempt` to the
job of a slot that is working and was not written off. So a heartbeat, a sweep of the
spool, a finalize that arrives after its lease was reaped, a shutdown or a restart has to
be a stutter or the loss of slots; a statement that commits although its slot sees an
error is one of the steps of that slot.

### LeaseTiming

`AuditQueue` lets any deadline pass at any time. `LeaseTiming` counts ticks of ten
seconds for one job: the lease (`lease`), the heartbeat task (sleeping, in a
query of at most `MaxLatency`, ended), the reaper of another process, and the holder's
death. `RenewedLease` subtracts the latency of the query because `now()` in Postgres is
the start of the transaction. The reaper sleeps for its interval after a pass, not from
one beginning to the next. A pass takes up to `MaxPass`; its `reap_expired` happens at
some moment of it (`ReapExpired`), then the other two sweeps are awaited (`SweepsEnd`).
`reap_expired` may raise (`PassFails`): `_reaper` logs it and sleeps again
(`AfterFailedPass`), at most `MaxFailed` times in a row. A sweep that raises after it
changes nothing here.

### FixpackQueue

Composes the money side (`grant_fixpack`, `PaymentRepository`) with the processor
(`process_paid_fixpacks`), which meet in `fixpack_jobs`. Again one repository method
is one step.

- `job[c]` is the `fixpack_jobs` row that charge `c` reserved. `funding_key` is
  unique and made from the charge, so a row can carry its charge's name; a row with
  status `none` does not exist. `started_at` is the state of the lease: none, fresh,
  or older than `STALE_LEASE_MINUTES`, which `LeaseGoesStale` makes happen at any
  time, live run or not. `hardProof` says whether `detail` records a block by the
  proof gate, which is all that the operator's requeue reads of it.
- `pay[c]`, `link[c]` are `payments.status` and `payments.fixpack_job_id`;
  `newest[a]` is the job `get_by_audit` returns, the one checkout looks at.
- `conf[k]` is a confirmation in progress: read, `create_paid`, complete. The three
  rails differ in what precedes it: `ReceiveNotification` (YooKassa) takes
  `payment_confirmation_lock`, `Confirm` (bank transfer) does not, and
  `HandleFixpackPayment` (Telegram Stars) has no row before it is paid.
- `run[r]` is one request to the processor: `reap -> health -> claim -> work`, then
  the write of a verdict or `token -> preflight -> post -> record -> outcome`, then
  `unlock`. `WriteStatus` is every `UPDATE` of the status in `_process_one_paid_job`,
  `After` and `Handler` say where the code goes on, without and with an exception.
- `pr[c]`, `opened[c]` are the pull request of the job's deterministic branch and how
  many it has had. GitHub is external: it refuses a second open one per branch, a
  request may take effect although its answer is lost, and the customer may close it.
- `burnt` is a history variable.

Abstractions: what generation, the semantic check and the proof gate decide is a
choice (`Generate`), limited by whether the runner answers; creating tree, commit and
branch is one step with `POST /pulls`, since only the pull request is looked up;
`SKIP LOCKED` makes any paid row claimable, not just the oldest; whether a pull
request was merged or closed makes no difference to the code; the deep review,
e-mails and alerts are left out. `LockMayDrop` admits the death of the connection
that holds the processor's session lock, `LostAcks` a commit whose answer is lost;
`MaxSales` bounds the charges that are made.

`Order` maps it to `FixpackOrder`: `paid` and `running` are owed work, `blocked` may
be reopened by an operator, every other status is closed for ever, and pull requests
appear once and only while work is owed.

### AuditExecution

`AuditQueue` takes the outcome of an attempt as given; here it is a coroutine
(`try[i].phase`, one value per `await`) and a thread that `_run_scan_offthread` started
for it (`thread`). Attempts are of three `Kinds`: the worker's jobs without an account
(`preview`) and with one (`paid`), and `review`, the API's `run_repo_audit`, which the
deep review of a Fix Pack calls. A review takes no slot, asks no cap, looks up the full
basis, carries a baseline, goes on when `audit_repo.create` returned nothing, and its
handler is `except Exception`; otherwise it is the same course.

`Cancel` is the heartbeat's or the shutdown's `scan_task.cancel()`, at any await; the
thread goes on, calling the provider (`ProviderCall`), and nobody takes its result
(`OrphanEnds`). `Dies` is the end of the worker or of the API with its coroutines and
threads. From `"history"` to `"persist"` the worker's coroutine is inside the `try` whose
`except BaseException` writes the usage row under a shield (`"handler"`). Every other way
out has an end of its own: `"abandoned"` before there was a result, `"cut at alert"`
between the result and the `try`, `"cut in insert"` in the unshielded insert of a success,
`"cut in review"` past a review's handler, `"unlogged"` when the insert raised, which
`_record_llm_usage` swallows, and `"killed"`.

`due` and `baseDue` are the provider calls of the audit's scan, and of the free baseline
a paid audit carries, that `llm_usage` does not have. Money is counted in calls: all that
the cap compares is a sum, `sum_anon_spend_today`, of every row of today without an
account. It is kept in two parts, `previewSpend` of anonymous audits and `reviewSpend` of
reviews, since the cap is about the first and reads both; both start anew at midnight
(`DayEnds`), scans under way or not. `whole` says whether the scan has the depth it was
asked for. A stage that is skipped, fails or is cut short leaves `static_only` or a
partial basis, a row that no look-up finds (`Stored`), so the next attempt on the same
bytes scans again. What was found, and the score, are left out.

### SchemaLedger, Migrations

A migration file is its number and its content; a checkout (`Revision`) is a
`Manifest`. What the SQL says matters only through what the manager reads off it:
its rollback directive, whether that contradicts the statements, whether they are
destructive. Every `psql` call is a step: probe the ledger, probe the schema, create
the ledger, load, dump, rename the dump, one transaction per file (SQL and row
together, under the advisory lock, which re-reads the row), the final read. `Stop` is
a kill or an error anywhere; an answer lost after `COMMIT` is the transaction's step
followed by `Stop`. The local `flock` excludes commands of one host (`HostOf`) only.
`executed[n]` counts how often a file's SQL was committed and is read by the probe
of the schema alone; `legacy` are files that ran before there was a ledger. `fresh` is
the code's `bootstrap`, computed from the two probes at the start and never again;
`found` is a history variable, whether the database was in use (`InUse`: a row in the
ledger or a table of the application) when the command began; `seen` is the ledger it
loaded. A `done`
command stays in `run[r]` until the runner is used again, so what its exit code
promised can be stated of all later states.

`SchemaLedger` is the promise: rows are added and never changed, except that an
unknown flag may become yes or no. `Deployment` uses the same module for the ledger
it reads.

### Deployment

One `flock` holds both scripts, so there is one `op`: the script under way, where it
is (`pc`, a command each), its target, the release it started on, and whether it is
on the way back (`restoring`); afterwards, how it ended. `deploy-production.sh` and
`rollback-production.sh` share everything from the gate on; `rollback_after_failure`
and the restoring branches of the rollback are the same steps with `Goal` = the
original release. The steps of `activate_release` are apart (`previous`, `current`,
`.release-env`), since a kill between them is what systemd's next restart sees:
`Fresh` is what a service that starts now runs. A release directory is absent,
partial, built, or gutted by a kill inside an `rmtree` (of `prune`, or of `build`, which
removes an incomplete release before it begins and ignores errors when it removes its own
after a failure: `Remains`), which `Valid` cannot tell from built. `Migrate` and `Mark` are the migration manager acting under its own
lock, reduced to their effect on the ledger. The public health gate is the same
program with other numbers and is one with the local gate; directory mtimes are not
modelled, so `prune` keeps any `KeepReleases` newest.

### ProKeys

A request is a sequence of database calls (`req[r].at`), any of which may be its last
(`Dies`, `RotateRaises`). The plaintext of a key is stored nowhere, so a key is what a
request carries (`key`: the account's current one, or one rotated away since) and
`held[p]` says whether somebody was sent the current one. `Poll` and `Link` go through
`deliver_key_once` (`claim -> rotate -> send`, with `release` when the rotation
raises); a Stars charge is answered from its grant; `/rotatekey` and the bearer's
rotation start at `rotate`. A Fix Pack payment is there too, as it has no account and
must not hide one. `Confirm` is `grant_pro_account`, one transaction.

`KeyDelivery` is the promise about one payment: its delivery is not sold, due, out (with
one request), given or burnt, and leaves the last two never. `DeliveryOf` reads it off the
rows and requests. Burnt is a delivery whose request died after it claimed, a Stars charge
whose webhook died, or a refund that came first: `/rotatekey` makes it good, no door does.

## 3. Runs

| Run | Bounds | Shows |
|---|---|---|
| `audit_queue_slots` | 2 processes with a slot each, a job that is an upload or a URL, 2 attempts, 2 disturbances, fair scheduling | `TypeOK`, `LeaseIsExact`, `AttemptsAccounted`, `PayloadPresent`, `ZombieWritesNothing`, `IsLeaseQueue`, `JobsSettle`, `DrainCompletes`, `ArchivesReclaimed` |
| `audit_queue_resubmit` | 1 slot, one upload submitted three times under one key, 2 threads, room for one archive, 1 disturbance | `OneLiveJobPerKey`, `SpoolOverrunIsBounded`, `TerminalIsFinal` |
| `audit_sweep` | violation: 1 slot, one upload | the sweep takes the archive of a queued job |
| `lease_timing` | TTL 300 s, heartbeat 100 s, reap 60 s, renewals up to 100 s, passes up to 30 s, 2 failed passes in a row | `HeartbeatKeepsLease`, `RecoveryIsBounded` |
| `fixpack_charges` | 2 charges for one audit under the confirmation lock, 2 handlers, 1 run, 1 disturbance, lock and answers may be lost | `CompletedIsBacked`, `FundedLink` |
| `fixpack_runs` | 1 sale, a bank transfer or Stars, 2 overlapping runs, 2 attempts, 3 disturbances, fair scheduling | `OneRunPerJob`, `AttemptsAccounted`, `OnePRPerJob`, `KeepsTheOrder`, `PaidJobsEnd` |
| `fixpack_bank_race` | violation | two unserialised confirmations overwrite the link of a payment |
| `migrations` | 2 hosts, 2 branches that disagree about their second file, empty and legacy databases; runners symmetric | `TypeOK`, `LedgerTellsSchema`, `SuccessMeansApplied`, `YesIsCompatible`, `MarkSticks`, `InOrder`, `DumpPrecedesChange`, `KeepsLedger` |
| `migrations_bootstrap` | violation: the instance of `migrations` | a command that takes no dump because it bootstraps runs over another host's migrations |
| `deployment` | 3 commits, one of which migrates, 3 scripts, 2 faults, 3 health attempts of which 2 in a row must pass, 2 releases kept | `TypeOK`, `SchemaCoversCode`, `PassedMeansLive`, `RestoredMeansUndone`, `ReleasesInUseExist` |
| `audit_execution` | 2 slots, 3 attempts or reviews on one source, cap and scan of one call, 1 cancellation or death; attempts symmetric | `CapOvershootIsBounded`, `EndedMeansBilled` |
| `pro_keys` | 2 payments of any kind, 2 chats, 2 requests at once, 1 fault, fair scheduling | `DeliveredOnce`, `KeysStayWithTheChat`, `KeepsDelivery`, `KeyReachesPayer` |

Why the bounds are enough to be interesting: two slots and two attempts suffice for
a lease to be reaped, the job re-claimed by the other slot, and the first holder to
come back late, in both orders, and for the second attempt to be the last one. Two
processes let one be killed, drained or restarted under the other. Timers expire
freely, so reaping needs no disturbance, and two disturbances are a failure in the midst
of it and another during the recovery. One submission is enough for that: jobs meet only
through their key and the spool, which `audit_queue_resubmit` is about. Three
submissions of one upload follow each other as soon as the reaper frees the key, so the
staging of one goes on under the next: two of them on the two threads is what it takes
to reach the bound of `SpoolOverrunIsBounded`. The theorems below remove the bounds for
the safety properties.

For the Fix Pack queue, two charges of one audit are what it takes to join a live
job, outlive it and be confirmed again; two runs, two attempts and three disturbances
let a lease go stale under a live run, be given up, and a delivery be retried after
its pull request was closed; runs take jobs one at a time, so one job shows it. A disturbance there is a crash of the API, a database
error, a failed request to GitHub, rejected credentials, a runner outage, the loss of
the lock or an operator's requeue.

Two hosts and two branches are what it takes for two applies to plan over one ledger
and disagree, for two marks to race, and for a dump to be overtaken. Three scripts let
a deployment be killed half-way, a second one start from what it left, and a third
restore or prune; with three commits and two kept, prune has something to remove.
Three attempts over two slots let two read the cap below it while a third has just
spent up to it, which is the bound of `CapOvershootIsBounded`, or one be abandoned with its
thread running under two others. A second cancellation would cut another attempt of the
three at another await, and they share nothing but the journal and the audits rows.
Two failed passes show that each one costs a cycle. Two payments are needed for one to shadow the other, two
requests for the two doors to meet.

`CHECK_DEADLOCK FALSE` is set where the system may really stop: bounded attempts,
scripts or payments are used up, or everybody has a key.

The three violations are disagreements between a comment and the code; `findings` quotes
both sides. Section 5 lists the others, and the limits modelling met, with the formula or
the constant that shows each. Visible in the models without one: a
failed renewal ends the heartbeat task (`RenewRaises`); a job may be `failed` although its pull request is open
(`DeliveryFails` after `PullRequestAppears`); after an operator's requeue the newest
job of an audit need not be the live one (`newest`).

### Fairness

`Fairness` asks for weak fairness of what the runtime really does: a request's
coroutine and a slot's task run when they can (asyncio), a deadline passes, the
reaper's loop comes round, an archive gets older, a draining process escalates to
cancelling and exits, and systemd restarts it (`Restart=always`). No fairness is
given to submissions, disturbances, the heartbeat (a renewal need never happen: the
properties hold even if a job is reaped each time), or to the end of an emergency
stop, so `JobsSettle` is conditional on the stop not lasting for ever.

For the Fix Pack queue: the timer starts a run when none is going, a run proceeds,
the runner is repaired, and fifteen minutes pass. Nothing is assumed of customers,
payment providers or the operator, so `PaidJobsEnd` starts at `paid`. Every fault is
allowed, within the budget.

For `ProKeys`: a request that is not interrupted proceeds (weak fairness of `Step`).
`KeyReachesPayer` is about a payer who does what the bot's texts say: run `/link` while
no chat is linked (for Stars, Telegram's own redelivery of the update does this) and
`/rotatekey` while without a key. Both are strongly fair, as a payer repeats a command
that met a busy moment; each may still die within the budget of faults. Nothing is
assumed of the checkout page's poll.

## 4. Theorems

`AuditQueueProofs` proves, for any sets of jobs, keys, slots and processes, any
`MaxAttempts > 0`, any number of threads and any budgets:

| Theorem | States |
|---|---|
| `TypeCorrect` | `Spec => []TypeOK` |
| `AttemptsAreAccounted` | `Spec => []AttemptsAccounted` |
| `LeaseFences` | `Spec => []LeaseIsExact` |
| `FinishedRowsStay` | `Spec => TerminalIsFinal` |
| `KeysAreExclusive` | `Spec => []OneLiveJobPerKey` |
| `ZombiesAreHarmless` | `Spec => ZombieWritesNothing` |
| `PayloadsArePresent` | `Spec => []PayloadPresent` |
| `SpoolOverrunIsLimited` | `Spec => []SpoolOverrunIsBounded` |
| `RowsImplementLeaseQueue` | `Spec => IsLeaseQueue` |
| `OneAnswerCounts` | `Spec => [](LQ!Exclusive /\ LQ!WithinBudget)` |

The argument goes in layers, each an inductive invariant that uses the ones before.

1. `Budgeted`: rows are well-typed and each is `Accounted` (attempts equal the burnt
   attempts, plus one while running or after success; a queued row has one left).
   Typing and accounting cannot be separated: `claim_one` increments `attempts`
   without looking at the bound, so `attempts <= max_attempts` holds only because
   every way back to `queued` leaves an attempt over. `TypeRest` types the rest.
2. `LeaseIsExact` is inductive relative to these: a step of one slot cannot change
   whether another holds its row (`OtherSlots`), since every statement is gated by
   `claimed_by`, and only `ReapExpired` takes a lease away, in the step that records
   `writtenOff`. That a name may return after a restart is harmless, because
   claiming overwrites the holder.
3. `SlotsSound`: a slot that holds its lease has the row's `attempts` as its copy,
   and a slot about to discard a payload has a finished job. This is why the
   re-derived `exhausted` in `_process_job` agrees with the branch the `UPDATE`
   took. `ZombieWritesNothing` follows.
4. `Staged`: row, file and request of one upload go together: a request past
   `os.replace` whose row is still `created` has its archive on disk, and a row that was
   once queued keeps its archive until it is finished or the sweep takes it.
   `PayloadPresent` follows. That the sweep does take it is the run `audit_sweep`.
5. `RowChange` lists what a step may do to a row that is finished or absent, and
   gives `FinishedRowsStay` and `KeysAreExclusive`.
6. `SpoolInv` counts archives together with the uploads that passed the check
   (`InSpool`): an upload that passes finds fewer archives than the budget and fewer
   than `Threads` others ahead of it, and from then on it only changes from one kind
   to the other. The archives alone are not inductive: the overrun is decided at the
   check and happens at `os.replace`. Temporary files may or may not be counted by the
   check, and the proof does not need them.
7. The refinement takes `Budgeted`, `LeaseIsExact` and `SlotsSound` as they are. The
   first makes `spent` a count of burnt attempts (`SpentIsBurnt`), the second says that
   a slot whose statement matches its row is one whose attempt counts, the third that a
   failed attempt is dead-lettered or retried as its slot believes. Each step is then
   one of three kinds: rows and counting attempts unchanged (`QuietRefines`), one row
   and one slot (`OneRefines`), or a sweep over several rows (`ReapRefines`,
   `StuckRefines`) or slots (`ProcRefines`).

`LeaseQueue` proves `LeasesAreExclusive` about itself: for any jobs and slots the answers
of two slots never count for one job, only for a leased one, and no job costs more than
its attempts. Through the refinement it holds of the audit queue: `OneAnswerCounts`.

`FixpackProofs` proves, for any sets of charges, audits, handlers and runs, any
`MaxAttempts > 0` and any number of disturbances:

| Theorem | States |
|---|---|
| `TypeCorrect` | `Spec => []TypeOK` |
| `PaymentsAreBacked` | `Spec => []CompletedIsBacked` |
| `LinksAreFunded` | `LockedCharges = Charges |- Spec => []FundedLink` |
| `RunsAreExclusive` | `LockMayDrop = FALSE |- Spec => []OneRunPerJob` |
| `FixpackAttemptsAreAccounted` | `LockMayDrop = FALSE |- Spec => []AttemptsAccounted` |
| `OnePullRequest` | `LockMayDrop = FALSE |- Spec => []OnePRPerJob` |
| `ImplementsOrder` | `LockMayDrop = FALSE, LostAcks = FALSE |- Spec => KeepsTheOrder` |

1. `TypeInv` adds to the types that a run inside `_process_one_paid_job` has a job
   and a handler that has started has a charge.
2. `ReservationsBacked`: a handler about to complete a payment carries an existing
   job of the right audit. Since no statement makes a job disappear (`JobsStay`),
   reserving before completing is enough, on every rail and without any lock.
3. `ConfirmedAlone`: under the confirmation lock a charge in progress is not
   completed and has one handler, so only that handler can make the charge's own job
   appear (`JobsAppear`). `fixpack_bank_race` is the counterexample without it.
4. `LockHeld`: a run that is not off holds the lock. Section 5 has the
   counterexample when the lock can drop.
5. `ClaimHeld`: the row of a run at work is `running`. The statements themselves do
   not check this (`mark_status` and `mark_fixpack_delivered` have no guard), so it
   rests on the lock, through the reaper and the operator's script, which take it
   too. `AllAccounted` follows.
6. `Counted` and `Looked`: a run about to post has seen that there is no pull
   request, and the lock keeps it so; whoever says delivered has seen one.
7. Step by step, 5 and 6 give the refinement. A lost answer would break it: the
   exception handler then overwrites a `blocked` job with `failed`.

`LeaseTimingProofs` proves, for every TTL, heartbeat, reap interval, latency, length of a
pass, number of lost renewals and number of failed passes with `SlowRenewalsFit` (heartbeat plus twice the latency is
at most the TTL):

| Theorem | States |
|---|---|
| `LeaseTypeCorrect` | `Spec => []TypeOK` |
| `HeartbeatSafe` | `Spec => []HeartbeatKeepsLease` |
| `RecoverySafe` | `Spec => []RecoveryIsBounded` |

`LeaseOutlastsBeat` says what is left of the lease in each phase of the heartbeat: while
asleep, the rest of the sleep and one slow query; in the query, the rest of the query.
A renewal restarts the lease at the beginning of its transaction, so one latency is
paid before the sleep and one after: hence the factor two. `OutageSpent` splits the
time since a kill into the lease and then the longest the reaper may take to look at the
leases again (`Wait`): the rest of its sleep or of its pass, one cycle (sleep and pass) if
it has looked already, and one for each failure it may still have. A reaper that has
ended would break it; `ReapClock` says that none does.

`MigrationsProofs` proves, for any hosts, runners, revisions, files and contents:

| Theorem | States |
|---|---|
| `MigrationsTypeCorrect` | `Spec => []TypeOK` |
| `LedgerIsTheSchema` | `Spec => []LedgerTellsSchema` |
| `SuccessIsReal` | `Spec => []SuccessMeansApplied` |
| `FlagsAreCompatible` | `Spec => []YesIsCompatible` |
| `MarksAreKept` | `Spec => []MarkSticks` |
| `AppliesInOrder` | `Spec => InOrder` |
| `DumpIsFirst` | `Spec => DumpPrecedesChange` |
| `ImplementsLedger` | `Spec => KeepsLedger` |

The inductive invariant `IInv` is `TypeOK`, `LedgerTellsSchema`, `YesIsCompatible` and
`AllSound`: for each command, what it may rely on at its present step. An apply past
its checks knows that every file of its checkout is in the ledger or on its list
(`Planned`); a mark past its gates, that the row's content allows the claim (`Gated`); a
command that exited 0, what its exit code says (`AtRevision`). All of these only speak
of rows that are there, so they survive whatever other hosts do, as long as the ledger
only grows (`SoundIsStable`); that it does is shown once per action, and is also the
refinement. `InOrder` is read off `Planned`.

`DumpPrecedesChange` needs one thing more: that a command which began over a database in
use never takes it for a fresh one. Both probes come after its beginning and neither the
ledger's table nor a table of the application ever goes away (`StaysInUse`), so one of
the probes finds it (`KnowsUse`, inductive in `UseInv`); the dump's own part of `Sound`
gives the rest. A database that was empty at the beginning may be in use when the probes
have been made: that is the run `migrations_bootstrap`.

`ProKeysProofs` proves, for any number of payments, chats, requests and faults:

| Theorem | States |
|---|---|
| `KeysTypeCorrect` | `Spec => []TypeOK` |
| `OneDelivery` | `Spec => []DeliveredOnce` |
| `KeysGoToTheirChat` | `Spec => []KeysStayWithTheChat` |
| `ImplementsDelivery` | `Spec => KeepsDelivery` |

`DeliveredOnce` counts deliveries that happened; what makes it inductive is who may still
make one. A request `Owns` the delivery of its payment from the moment it wins
`claim_key_delivery`, or made the grant of a Stars charge, until it has answered or given
the claim back. There is one owner per payment (`OneOwner`), it has not delivered yet,
and for a bank transfer the mark in the row is set (`OwnerIsMarked`), which is what
refuses a second claim; the row of a Stars charge is created once. A rotation, which may
void what other requests carry, changes nobody's ownership (`RotatedOthers`). `RightChat`
says that past `/link`'s conditional update the chat that waits is the one in the row:
the update writes a chat only where there is none.

The refinement adds `DInv`: whoever links, claims or owns asks for a payment that was
settled, and an invoice that was not is unmarked. With `OneOwner` an action then takes an
owner away, makes one or leaves all of them alone (`OwnerLeaves`, `OwnerComes`,
`SameOwners`), and only the delivery of that owner's payment moves. A request that ends
while it owns leaves a delivery that is given, due or burnt, according to the row
(`EndDelivers`); nothing else takes one out of "out", and only a claim over
an unmarked settled row, or the grant of a Stars charge, puts one there.

`DeploymentProofs` proves, for any commits, manifests and directives, with and without a
worker, and any number of scripts, kills, reboots and crashes:

| Theorem | States |
|---|---|
| `DeploymentTypeCorrect` | `Spec => []TypeOK` |
| `CodeHasItsSchema` | `Spec => []SchemaCoversCode` |
| `PassedIsLive` | `Spec => []PassedMeansLive` |
| `RestoredIsUndone` | `Spec => []RestoredMeansUndone` |
| `InUseExists` | `Spec => []ReleasesInUseExist` |
| `LedgerAsPromised` | `Spec => [][SL!Next]_ledger` |

The inductive invariant follows a script command by command (`Progress`): past the gate
its goal is covered by the ledger, past the unit's step the unit is the goal's, past the
symlink `current` is, then the label, then the API or nothing. `InUse` says of the
symlinks and of both processes that they are on covered releases that validate. Two facts
carry the rest: the ledger only grows, so a migration in between takes nothing away; and
whatever restarts a service starts it on the links the invariant is already about. Prune
is safe because at that point both processes are on `current`, which it protects.
`LedgerAsPromised` ties the `Migrate` and `Mark` of this module to `SchemaLedger`, which
`Migrations` implements.

`AuditExecutionProofs` proves, for any slots, attempts, sources, cap, calls per scan and
cancellations:

| Theorem | States |
|---|---|
| `ExecutionTypeCorrect` | `Spec => []TypeOK` |
| `EndedIsBilled` | `Spec => []EndedMeansBilled` |
| `CapIsOvershotByOneScanPerSlot` | `Spec => []CapOvershootIsBounded` |

`EndedMeansBilled` says that nothing of an audit's scan is missing from the journal once
an attempt has ended, by any end but those in `Unbilled`. `Billed` adds to it where a thread
may still be running: once an attempt is done there is none, and once it failed only the
baseline's, so the audit's own calls no longer change after the row that counts them.

The bound on the overshoot is not inductive: the sum grows when a row is written, long
after the check. `Reserved` adds what is still to come: `MaxCalls` for each attempt that
`Owes` a row (anonymous, still at some await, and its scan has called the provider or may
yet). An attempt becomes `Pending` only below the cap and while it has a slot, so at that
moment the sum is under `Cap` and the pending ones are at most `Slots`; a row moves what it
adds from the reserve to the sum, an attempt that ends without a row takes its reserve
away, and midnight only lowers the sum. A review's row raises the sum that the check
compares and not `previewSpend`, so it can only make the check stricter. An orphaned thread owes nothing: its calls reach
no row.

Assumptions: `JobsAssumption`, `SlotsAssumption`, `ChargesAssumption`,
`RunsAssumption`, the two `BoundsAssumption`s, `TimingAssumption`, `MigrationsAssumption`,
`KeysAssumption`, `DeploymentAssumption` and `ExecutionAssumption`, evaluated by TLC in
every run of their modules; `LeasesAreExclusive` states what it needs of `LeaseQueue`'s
constants itself, and they are instances of these. Every invariant and every action
property of a passing run is a theorem. Out of the prover's reach and left to TLC:
liveness under fairness (`JobsSettle`, `DrainCompletes`, `ArchivesReclaimed`,
`PaidJobsEnd`, `KeyReachesPayer`), and the violations. `LeaseTiming`, `FixpackQueue` and
`ProKeys` have their type invariant proved and not in a run.

## 5. Not modelled, and known limits

Every component is listed in `PROJECT.json`. Left out for good: the scanner's
detection rules, fix generation, report rendering, notifications, LLM and SCA clients,
the sandbox runner, CLI, MCP and browser front ends. They are most of the repository's
lines, keep no shared state, and what they do is data: a TLA+ version would be a
transliteration. Monitoring and subscriptions are withdrawn from sale
(`MONITORING_FOR_SALE = False`): every entry point returns before it changes a row.
Of modelled components, what is left out is named in section 2.

### Where comments and code part ways

Three have a run and a finding: `fixpack_bank_race`, `audit_sweep` and
`migrations_bootstrap`. The others, with the formula that shows each:

- `app/db.py:3515`, of a killed worker: "the job is never lost, only delayed by at most
  the lease TTL". `outage <= LeaseTTL` in place of `RecoveryIsBounded` is false in
  `LeaseTiming`: the reaper has still to come round, which with the deployed intervals is
  a minute and the length of its passes more, and a cycle for each pass that fails.
- `app/worker/main.py:111`: "two consecutive heartbeats can be lost (a blip, a slow query)
  before the lease actually lapses". `HeartbeatKeepsLease` covers the slow query only. A
  renewal that raises ends the heartbeat task (`RenewRaises`): nothing catches it, there is
  no second beat to lose, and `holder = "alive" => ~Expired` is false with `MaxLost = 1`.
- `app/worker/main.py:392`: whether an attempt fails or is cancelled decides what the
  usage row points at, "never whether it is written". `EndedMeansBilled` with
  `"cut at alert"` or `"cut in insert"` taken out of `Unbilled` is false: the operator alert
  is awaited between the scan and the `try`, and the insert after it has no shield. For
  `run_repo_audit` (`app/main.py:584`, "the row is written whatever `audit_repo.create` does
  next") any cancellation inside the `try` passes its handler by.
- `app/db.py:1803`: the sum is what was "spent today (UTC) by anonymous/free traffic".
  `sum_anon_spend_today < Cap + Slots * MaxCalls` is false in `AuditExecution`: reviews of
  paid Fix Packs write rows without an account and never ask the cap, so they have no bound
  there and can use up the free tier's day. Only the part of anonymous audits is bounded.

### Other limits

None has a run; each is reproduced as said.

- *Temporary files.* `\A j \in Jobs : ~Live(j) /\ file[j] # "none" ~> file[j] = "none"` is
  false: the sweep globs `*.zip`, and an API process that dies while staging leaves a
  `.zip.tmp` (`app/audit_spool.py`).
- *A refunded charge confirmed again.* In `FixpackQueue` a refunded charge whose job is
  `paid` again is reachable: `grant_fixpack` reserves before `mark_completed_fixpack`
  refuses.
- *The lock's connection.* `LockMayDrop = TRUE` in `FixpackRuns.cfg` refutes
  `OneRunPerJob`: the lease of 15 minutes is not renewed, and the comment in `app/db.py`
  that the claim already prevents double processing holds only with the lock.
- *More scans than slots.* `Cardinality({i \in Tries : try[i].thread}) <= Slots` is false
  in `AuditExecution`: a cancelled coroutine frees its slot and not its thread. What an
  abandoned scan, or the baseline of a cancelled paid attempt, spends is in no usage row,
  so the real spend of a day is not bounded by the journal's.
- *The worker during a health gate.* After a restoration, `worker = op.orig` is not an
  invariant of `Deployment`: systemd may have restarted the worker on the new release
  while it was probed, and neither script restarts it on the way back.
  `rollback-production.sh` never restarts it at all. `RestoredMeansUndone` is therefore about
  links, label, unit, API and timer.
- *What the release models cannot tell.* Health is an answer given at will, so that a failing
  probe resets the count of the gate is in the model (`AfterFailure`) and in no property beyond
  the type; a gutted directory that validates counts as a release; a schema ahead of restored
  code is admitted by the gate exactly where every extra migration is flagged rollback-safe,
  and what the flag stands for is the operator's and the linter's word.
- *False headers.* No content in the run `migrations` has a `yes` header over SQL that
  contradicts it: `apply` refuses it (`DirectiveOK`), and with a third revision the run is too
  long. `FlagsAreCompatible` covers it for every content.
- *Replaying history.* `\A n \in legacy : executed[n] = 0` is false in `Migrations`: a
  baseline killed after it created the ledger leaves an empty one, over which `apply`
  runs the historical files.
- *A key nobody can recover.* A chat with two Pro payments reaches only the newest by
  `/rotatekey` (`Shadowed`), and a slow poll that rotates after a `/rotatekey` voids the
  key that one delivered; the payer sees both as delivered.

## 6. Plan

1. `AuditQueue`, `LeaseTiming`, `FixpackQueue`, `FixpackOrder`, `Migrations`,
   `SchemaLedger`, `AuditExecution`, `Deployment`, `ProKeys`, each with proofs (done).
2. `LeaseQueue`, and that `AuditQueue` implements it (done).
3. `KeyDelivery`, and that `ProKeys` implements it (done).
4. An abstract specification of a release (what a script that passed, restored or died
   leaves behind) that `Deployment` implements.
5. Preview containers of the Deploy pack and their reaper; rate limiting and the proof
   gate as algorithms against reference definitions.
