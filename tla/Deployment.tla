----------------------------- MODULE Deployment -----------------------------
(***************************************************************************)
(* One production host: deploy-production.sh and rollback-production.sh    *)
(* under their common flock, release_manager.py (release directories and   *)
(* the symlinks current and previous), the release gate, the unit and the  *)
(* timer of the Fix Pack runner, and the two services systemd restarts on  *)
(* whatever `current` is at that moment.  Scripts are killed between any   *)
(* two commands, and the database is migrated meanwhile: the migration     *)
(* manager takes another lock.                                             *)
(***************************************************************************)
EXTENDS Integers, FiniteSets

CONSTANTS
    Sha,           \* commits of origin/main
    None,          \* no release
    First,         \* the release the host runs to begin with
    Number, Content,
    Manifest,      \* per commit: its migration files and their contents
    Directive,     \* per content: the rollback-safe header
    HasWorker,     \* is the audit worker's unit installed here?
    KeepReleases,  \* SHIPIT_KEEP_RELEASES
    Attempts,      \* health_gate.py --attempts
    Consecutive,   \* health_gate.py --consecutive
    MaxScripts,    \* bound on scripts started
    MaxFaults      \* bound on kills, reboots and crashes of a service

ASSUME DeploymentAssumption ==
    /\ First \in Sha /\ None \notin Sha
    /\ \A s \in Sha : /\ DOMAIN Manifest[s] \subseteq Number
                      /\ \A n \in DOMAIN Manifest[s] : Manifest[s][n] \in Content
    /\ Directive \in [Content -> {"yes", "no", "unknown"}]
    /\ HasWorker \in BOOLEAN
    /\ KeepReleases \in Nat \ {0, 1}
    /\ Attempts \in Nat \ {0} /\ Consecutive \in Nat \ {0}
    /\ MaxScripts \in Nat /\ MaxFaults \in Nat

VARIABLES
    dir,       \* releases/<sha>: none, partial, built, or gutted and still valid
    current, previous,  \* the two symlinks
    env,       \* the SHA in .release-env
    unit,      \* the release whose Fix Pack unit is installed
    timer,     \* is the Fix Pack timer active?
    api,       \* the API process: [code, label] it started with
    worker,    \* the release the audit worker's process runs
    ledger,    \* the migration ledger
    op,        \* the script that holds the lock, or how the last one ended
    scripts, faults

links == <<current, previous, env>>
services == <<api, worker>>
vars == <<dir, current, previous, env, unit, timer, api, worker, ledger, op,
          scripts, faults>>

SL == INSTANCE SchemaLedger

Down == [code |-> None, label |-> None]

-----------------------------------------------------------------------------
(* Release directories and the gate.                                       *)

\* validate_release: no build marker, and every required file there.  A
\* directory that prune's rmtree left half deleted may pass it.
Valid(s) == dir[s] \in {"built", "gutted"}

\* compare_migrations, over the rows as they are now.  A variant forgives a
\* missing row.
GateAhead(s) ==
    \A n \in DOMAIN ledger \ DOMAIN Manifest[s] : ledger[n].safe = "yes"

GateNoMissing(s) ==
    /\ GateAhead(s)
    /\ \A n \in DOMAIN Manifest[s] \cap DOMAIN ledger : ledger[n].sum = Manifest[s][n]

Gate(s) ==
    /\ DOMAIN Manifest[s] \subseteq DOMAIN ledger
    /\ GateAhead(s)
    /\ \A n \in DOMAIN Manifest[s] : ledger[n].sum = Manifest[s][n]

-----------------------------------------------------------------------------
(* The scripts.                                                            *)

Ended(outcome) ==
    [pc |-> "idle", kind |-> op.kind, outcome |-> outcome, target |-> op.target,
     orig |-> op.orig, wasActive |-> op.wasActive, restoring |-> FALSE,
     attempt |-> 0, ok |-> 0]

Exit(outcome) == op' = Ended(outcome)

Goto(pc) == op' = [op EXCEPT !.pc = pc]

At(pc) == op.pc = pc

\* The release the steps from the gate on are about: the target, or the
\* original release once the script restores it.
Goal == IF op.restoring THEN op.orig ELSE op.target

\* A step after the unit failed: back to the original release, if there is
\* one and this is not that way already.
Fall == IF op.restoring \/ op.orig = None THEN Exit("failed")
        ELSE op' = [op EXCEPT !.restoring = TRUE, !.pc = "gate"]

Begin(kind, target, pc) ==
    /\ At("idle")
    /\ scripts < MaxScripts
    /\ scripts' = scripts + 1
    /\ op' = [pc |-> pc, kind |-> kind, outcome |-> "none", target |-> target,
              orig |-> current, wasActive |-> FALSE, restoring |-> FALSE,
              attempt |-> 0, ok |-> 0]
    /\ UNCHANGED <<dir, links, unit, timer, services, ledger, faults>>

\* The running commit is refused unless --allow-same-revision is given.
StartDeploy(s, same) == (s # current \/ same) /\ Begin("deploy", s, "build")

\* rollback-production.sh, to --sha or to `previous`; never from nothing.
StartRollback(s) ==
    /\ current # None
    /\ s # current
    /\ Begin("rollback", s, "gate")

\* What an rmtree that was cut short may leave: it may or may not validate.
Remains == {"partial", "gutted"}

\* build_release: a directory that validates is taken as it is, one that
\* does not is removed, as far as rmtree gets, unless a symlink points at it.
BuildBegin ==
    /\ At("build")
    /\ LET s == op.target
       IN  \/ Valid(s) /\ Goto("gate") /\ UNCHANGED dir
           \/ /\ ~Valid(s) /\ dir[s] # "none" /\ s \in {current, previous}
              /\ Exit("failed") /\ UNCHANGED dir
           \/ /\ ~Valid(s) /\ ~(dir[s] # "none" /\ s \in {current, previous})
              /\ \/ dir' = [dir EXCEPT ![s] = "partial"] /\ Goto("building")
                 \/ /\ dir[s] # "none"
                    /\ \E rest \in Remains : dir' = [dir EXCEPT ![s] = rest]
                    /\ Exit("failed")
    /\ UNCHANGED <<links, unit, timer, services, ledger, scripts, faults>>

\* The marker goes last; a failing step removes the directory, errors ignored,
\* unless that step is the journal's.
BuildEnd ==
    /\ At("building")
    /\ \/ /\ dir' = [dir EXCEPT ![op.target] = "built"]
          /\ Goto("gate") \/ Exit("failed")
       \/ /\ \E rest \in Remains \cup {"none"} : dir' = [dir EXCEPT ![op.target] = rest]
          /\ Exit("failed")
    /\ UNCHANGED <<links, unit, timer, services, ledger, scripts, faults>>

\* Where a release that passed the gate goes on; a variant restores the code
\* and forgets the unit.
GatedNoUnit == IF op.restoring THEN "validate" ELSE "quiesce"

Gated == IF op.restoring THEN "unit" ELSE "quiesce"

\* validate-production-env.py (on the way out only) and the release gate,
\* each a process that may also fail by itself.
GateStep ==
    /\ At("gate")
    /\ \/ /\ dir[Goal] # "none" /\ Gate(Goal)
          /\ Goto(Gated)
       \/ Exit("failed")
    /\ UNCHANGED <<dir, links, unit, timer, services, ledger, scripts, faults>>

\* quiesce_fixpack_timer
Quiesce ==
    /\ At("quiesce")
    /\ \/ /\ timer' = FALSE
          /\ op' = [op EXCEPT !.pc = "unit", !.wasActive = timer]
       \/ timer /\ UNCHANGED timer /\ Exit("failed")
    /\ UNCHANGED <<dir, links, unit, services, ledger, scripts, faults>>

\* resume_fixpack_timer: start what was active; the start may fail.
Resumed == timer' = (op.wasActive \/ timer)

ResumeFails == op.wasActive /\ UNCHANGED timer

\* sync-release-systemd-unit.sh; when daemon-reload fails the old file is put
\* back.  Going forward, the script then resumes the timer and ends.
UnitStep ==
    /\ At("unit")
    /\ \/ /\ dir[Goal] # "none"
          /\ unit' = Goal
          /\ Goto("validate")
          /\ UNCHANGED timer
       \/ /\ Exit("failed")
          /\ IF op.restoring THEN UNCHANGED timer ELSE Resumed \/ ResumeFails
          /\ UNCHANGED unit
    /\ UNCHANGED <<dir, links, services, ledger, scripts, faults>>

\* The release that is current already only has its label rewritten; in a
\* variant nothing is left to do.
ValidatedDone == IF current = Goal THEN "restart" ELSE "previous"

Validated == IF current = Goal THEN "env" ELSE "previous"

\* activate_release: the target and what `current` points at must validate.
ActivateValidate ==
    /\ At("validate")
    /\ IF Valid(Goal) /\ (current # None => Valid(current))
       THEN Goto(Validated)
       ELSE Fall
    /\ UNCHANGED <<dir, links, unit, timer, services, ledger, scripts, faults>>

\* The writes of activate_release; any may raise OSError instead, and so may
\* the journal after them.
LinkPrevious ==
    /\ At("previous")
    /\ previous' = IF current = None THEN previous ELSE current
    /\ Goto("current")
    /\ UNCHANGED <<dir, current, env, unit, timer, services, ledger, scripts, faults>>

LinkCurrent ==
    /\ At("current")
    /\ current' = Goal
    /\ Goto("env")
    /\ UNCHANGED <<dir, previous, env, unit, timer, services, ledger, scripts, faults>>

WriteEnv ==
    /\ At("env")
    /\ env' = Goal
    /\ Goto("restart")
    /\ UNCHANGED <<dir, current, previous, unit, timer, services, ledger, scripts, faults>>

ActivateFails ==
    /\ op.pc \in {"previous", "current", "env", "restart"}
    /\ Fall
    /\ UNCHANGED <<dir, links, unit, timer, services, ledger, scripts, faults>>

\* What a service that starts now runs: the code behind `current`, under the
\* label of .release-env.
Fresh == [code |-> current, label |-> env]

RestartApi ==
    /\ At("restart")
    /\ \/ /\ api' = Fresh
          /\ op' = [op EXCEPT !.pc = "health", !.attempt = 0, !.ok = 0]
       \/ api' = Down /\ Fall
    /\ UNCHANGED <<dir, links, unit, timer, worker, ledger, scripts, faults>>

\* wait_for_health: attempts in a row, counted anew after a failing one.  A
\* variant counts that one as well.
CountAnyway(ok) == ok + 1

AfterFailure(ok) == 0

ProbeOK ==
    /\ At("health")
    /\ api # Down
    /\ op' = IF op.ok + 1 >= Consecutive THEN [op EXCEPT !.pc = "resume"]
             ELSE IF op.attempt + 1 < Attempts
             THEN [op EXCEPT !.attempt = @ + 1, !.ok = @ + 1]
             ELSE [op EXCEPT !.pc = "unhealthy"]
    /\ UNCHANGED <<dir, links, unit, timer, services, ledger, scripts, faults>>

ProbeFails ==
    /\ At("health")
    /\ op' = IF op.attempt + 1 < Attempts
             THEN [op EXCEPT !.attempt = @ + 1, !.ok = AfterFailure(@)]
             ELSE [op EXCEPT !.pc = "unhealthy"]
    /\ UNCHANGED <<dir, links, unit, timer, services, ledger, scripts, faults>>

Unhealthy ==
    /\ At("unhealthy")
    /\ Fall
    /\ UNCHANGED <<dir, links, unit, timer, services, ledger, scripts, faults>>

\* The timer again, after the health gates: the end of a rollback and of a
\* restoration; a deployment goes on to the worker.
Resume ==
    /\ At("resume")
    /\ \/ /\ Resumed
          /\ IF op.restoring THEN Exit("restored")
             ELSE IF op.kind = "rollback" THEN Exit("passed") ELSE Goto("worker")
       \/ ResumeFails /\ Exit("failed")
    /\ UNCHANGED <<dir, links, unit, services, ledger, scripts, faults>>

\* systemctl restart of the worker, where its unit is installed; when it fails
\* the worker is down or still what it was.
RestartWorker ==
    /\ At("worker")
    /\ \/ /\ worker' = IF HasWorker THEN current ELSE worker
          /\ Goto("prune")
       \/ HasWorker /\ worker' \in {worker, None} /\ Exit("failed")
    /\ UNCHANGED <<dir, links, unit, timer, api, ledger, scripts, faults>>

\* prune_releases keeps the newest directories (mtimes are not modelled: any
\* KeepReleases of them) and what the symlinks point at.  A variant protects
\* `current` only.
ProtectsCurrent == {current}

Protected == {current, previous}

Present == {s \in Sha : dir[s] # "none"}

Newest == IF Cardinality(Present) <= KeepReleases THEN {Present}
          ELSE {N \in SUBSET Present : Cardinality(N) = KeepReleases}

Without(gone) == [s \in Sha |-> IF s \in gone THEN "none" ELSE dir[s]]

\* The doomed go one by one; one that does not validate ends the script.
Prune ==
    /\ At("prune")
    /\ \E newest \in Newest :
          LET doomed == Present \ (newest \cup Protected)
          IN  IF \A s \in doomed : Valid(s)
              THEN dir' = Without(doomed) /\ Exit("passed")
              ELSE /\ \E gone \in SUBSET {s \in doomed : Valid(s)} : dir' = Without(gone)
                   /\ Exit("failed")
    /\ UNCHANGED <<links, unit, timer, services, ledger, scripts, faults>>

-----------------------------------------------------------------------------
(* Faults and the rest of the world.                                       *)

Fault == faults < MaxFaults /\ faults' = faults + 1

\* SIGKILL of the script between two commands.
Kill ==
    /\ ~At("idle")
    /\ Fault
    /\ Exit("killed")
    /\ UNCHANGED <<dir, links, unit, timer, services, ledger, scripts>>

\* ... or inside prune's rmtree, which may leave a directory that validates.
KillInPrune ==
    /\ At("prune")
    /\ Fault
    /\ \E newest \in Newest :
          \E s \in {x \in Present \ (newest \cup Protected) : Valid(x)},
             gone \in SUBSET (Present \ (newest \cup Protected)),
             rest \in Remains :
                dir' = [Without(gone) EXCEPT ![s] = rest]
    /\ Exit("killed")
    /\ UNCHANGED <<links, unit, timer, services, ledger, scripts>>

\* The host reboots: the timer is enabled, the services start on `current`.
Reboot ==
    /\ Fault
    /\ IF At("idle") THEN UNCHANGED op ELSE Exit("killed")
    /\ timer' = TRUE
    /\ api' = Fresh
    /\ worker' = IF HasWorker THEN current ELSE worker
    /\ UNCHANGED <<dir, links, unit, ledger, scripts>>

\* A service dies and systemd starts it again (Restart=).
ApiRestarts ==
    /\ Fault
    /\ api' \in {Fresh, Down}
    /\ UNCHANGED <<dir, links, unit, timer, worker, ledger, op, scripts>>

WorkerRestarts ==
    /\ HasWorker
    /\ Fault
    /\ worker' = current
    /\ UNCHANGED <<dir, links, unit, timer, api, ledger, op, scripts>>

\* migration_manager apply and mark, from any commit: see Migrations.
Migrate ==
    /\ \E s \in Sha : \E n \in DOMAIN Manifest[s] \ DOMAIN ledger :
          /\ \A m \in DOMAIN Manifest[s] : m < n => m \in DOMAIN ledger
          /\ LET c == Manifest[s][n]
             IN  ledger' = [m \in DOMAIN ledger \cup {n} |->
                     IF m = n THEN [sum |-> c, mode |-> "apply", safe |-> Directive[c]]
                              ELSE ledger[m]]
    /\ UNCHANGED <<dir, links, unit, timer, services, op, scripts, faults>>

Mark ==
    /\ \E n \in DOMAIN ledger, flag \in {"yes", "no"} :
          /\ ledger[n].safe = "unknown"
          /\ ledger' = [ledger EXCEPT ![n].safe = flag]
    /\ UNCHANGED <<dir, links, unit, timer, services, op, scripts, faults>>

-----------------------------------------------------------------------------
\* A host on its first release, deployed and migrated.
Init ==
    /\ dir = [s \in Sha |-> IF s = First THEN "built" ELSE "none"]
    /\ current = First /\ previous = None /\ env = First /\ unit = First
    /\ timer = TRUE
    /\ api = [code |-> First, label |-> First]
    /\ worker = IF HasWorker THEN First ELSE None
    /\ ledger = [n \in DOMAIN Manifest[First] |->
                    [sum |-> Manifest[First][n], mode |-> "apply",
                     safe |-> Directive[Manifest[First][n]]]]
    /\ op = [pc |-> "idle", kind |-> "none", outcome |-> "none", target |-> None,
             orig |-> None, wasActive |-> FALSE, restoring |-> FALSE,
             attempt |-> 0, ok |-> 0]
    /\ scripts = 0 /\ faults = 0

Script ==
    \/ \E s \in Sha : (\E same \in BOOLEAN : StartDeploy(s, same)) \/ StartRollback(s)
    \/ BuildBegin \/ BuildEnd \/ GateStep \/ Quiesce \/ UnitStep
    \/ ActivateValidate \/ LinkPrevious \/ LinkCurrent \/ WriteEnv \/ ActivateFails
    \/ RestartApi \/ ProbeOK \/ ProbeFails \/ Unhealthy
    \/ Resume \/ RestartWorker \/ Prune

World == \/ Kill \/ KillInPrune \/ Reboot \/ ApiRestarts \/ WorkerRestarts
         \/ Migrate \/ Mark

Next == Script \/ World

Spec == Init /\ [][Next]_vars

-----------------------------------------------------------------------------
\* Every variable has its type.
TypeOK ==
    /\ dir \in [Sha -> {"none", "partial", "built", "gutted"}]
    /\ {current, previous, env, unit, worker} \subseteq Sha \cup {None}
    /\ timer \in BOOLEAN
    /\ api \in [code : Sha \cup {None}, label : Sha \cup {None}]
    /\ ledger \in SL!Ledgers
    /\ op.pc \in {"idle", "build", "building", "gate", "quiesce", "unit", "validate",
                  "previous", "current", "env", "restart", "health", "unhealthy",
                  "resume", "worker", "prune"}
    /\ op.outcome \in {"none", "passed", "restored", "failed", "killed"}
    /\ op.attempt \in 0..Attempts /\ op.ok \in 0..(Consecutive - 1)
    /\ scripts \in 0..MaxScripts /\ faults \in 0..MaxFaults

Applied(s) ==
    s # None => \A n \in DOMAIN Manifest[s] :
                    n \in DOMAIN ledger /\ ledger[n].sum = Manifest[s][n]

\* compare_migrations: "new code against an old schema. Always fatal".  No
\* service ever runs, or would start on, code whose migrations the database
\* does not have, wherever a script is killed.
SchemaCoversCode == Applied(current) /\ Applied(api.code) /\ Applied(worker)

\* A deployment or rollback that printed PASSED left the host on its target:
\* the symlink, the label, the Fix Pack unit and the API, and after a
\* deployment the worker too, whatever crashes since.
PassedMeansLive ==
    At("idle") /\ op.outcome = "passed" =>
        /\ current = op.target /\ env = op.target /\ unit = op.target
        /\ api \in {[code |-> op.target, label |-> op.target], Down}
        /\ op.kind = "deploy" /\ HasWorker => worker = op.target

\* A deployment that printed "rolled back", and a rollback that restored the
\* release it began on, left the host on that release, with its timer running
\* if it did before.
RestoredMeansUndone ==
    At("idle") /\ op.outcome = "restored" =>
        /\ current = op.orig /\ env = op.orig /\ unit = op.orig
        /\ api \in {[code |-> op.orig, label |-> op.orig], Down}
        /\ op.wasActive => timer

\* The symlinks never point at a release that was removed or not finished,
\* and no service runs from a directory that prune deleted.
ReleasesInUseExist ==
    \A s \in {current, previous, api.code, worker} \ {None} : Valid(s)
=============================================================================
