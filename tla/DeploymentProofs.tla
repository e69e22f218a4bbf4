-------------------------- MODULE DeploymentProofs --------------------------
(***************************************************************************)
(* What the two production scripts leave behind, for any set of commits,   *)
(* any migrations and any number of scripts, kills, reboots and crashes.   *)
(* The argument is about how far a script is: what each command adds to    *)
(* what its goal already has (the schema, the unit, the symlink, the       *)
(* label, the API), which no other actor takes away while it runs.         *)
(***************************************************************************)
EXTENDS Deployment, TLAPS

Releases == Sha \cup {None}

Ops == [pc : {"idle", "build", "building", "gate", "quiesce", "unit", "validate",
              "previous", "current", "env", "restart", "health", "unhealthy",
              "resume", "worker", "prune"},
        kind : {"none", "deploy", "rollback"},
        outcome : {"none", "passed", "restored", "failed", "killed"},
        target : Releases, orig : Releases, wasActive : BOOLEAN, restoring : BOOLEAN,
        attempt : 0..Attempts, ok : 0..(Consecutive - 1)]

\* The commits whose migrations the ledger has, and the directories that validate.
Covered == {s \in Sha : Applied(s)}
Usable == {s \in Sha : Valid(s)}

\* How far a script is.
Serving == {"health", "unhealthy", "resume", "worker", "prune"}
Labelled == Serving \cup {"restart"}
Linked == Labelled \cup {"env"}
Installed == Linked \cup {"validate", "previous", "current"}
Gates == Installed \cup {"quiesce", "unit"}

\* A script is about a commit; one that restores has a release to restore, and
\* neither builds nor prunes.
GoalKnown ==
    /\ op.pc # "idle" => op.target \in Sha
    /\ op.restoring => /\ op.orig \in Sha
                       /\ op.pc \in (Gates \ {"quiesce", "worker", "prune"}) \cup {"gate"}

\* What the commands so far have done for the goal.
Progress ==
    /\ op.pc \in Gates => Goal \in Covered
    /\ op.pc \in Installed => unit = Goal
    /\ op.pc \in {"previous", "current"} => Goal \in Usable
    /\ op.pc \in Linked => current = Goal
    /\ op.pc \in Labelled => env = Goal
    /\ op.pc \in Serving => api \in {[code |-> Goal, label |-> Goal], Down}
    /\ op.pc = "prune" /\ HasWorker => worker = Goal
    /\ op.pc = "building" => dir[op.target] = "partial"

\* Where the symlinks and the processes may be.
InUse ==
    /\ {current, api.code, worker} \subseteq Covered \cup {None}
    /\ {current, previous, api.code, worker} \subseteq Usable \cup {None}
    /\ ~HasWorker => worker = None

IInv ==
    /\ TypeOK /\ op \in Ops
    /\ GoalKnown /\ Progress /\ InUse
    /\ PassedMeansLive /\ RestoredMeansUndone
-----------------------------------------------------------------------------
(* The record of a script, and the sets the invariant is about.            *)

Pcs == {"idle"} \cup {"build", "building", "gate"} \cup Gates

\* A script that goes on, and one that ends.
LEMMA OpFields ==
    ASSUME op \in Ops
    PROVE  /\ \A pc \in Pcs :
                /\ [op EXCEPT !.pc = pc] \in Ops
                /\ [op EXCEPT !.pc = pc].pc = pc
                /\ [op EXCEPT !.pc = pc].kind = op.kind
                /\ [op EXCEPT !.pc = pc].target = op.target
                /\ [op EXCEPT !.pc = pc].orig = op.orig
                /\ [op EXCEPT !.pc = pc].outcome = op.outcome
                /\ [op EXCEPT !.pc = pc].restoring = op.restoring
                /\ [op EXCEPT !.pc = pc].wasActive = op.wasActive
           /\ \A o \in {"none", "passed", "restored", "failed", "killed"} :
                Ended(o) \in Ops
BY DeploymentAssumption
   DEF Ops, Ended, Pcs, Gates, Installed, Linked, Labelled, Serving

\* A state of op is all that TypeOK asks of it.
LEMMA Types ==
    ASSUME op' \in Ops,
           dir' \in [Sha -> {"none", "partial", "built", "gutted"}],
           {current', previous', env', unit', worker'} \subseteq Releases,
           timer' \in BOOLEAN,
           api' \in [code : Releases, label : Releases],
           ledger' \in SL!Ledgers,
           scripts' \in 0..MaxScripts, faults' \in 0..MaxFaults
    PROVE  TypeOK'
BY DEF TypeOK, Ops, Releases

LEMMA SameLedger ==
    ASSUME UNCHANGED ledger
    PROVE  Covered' = Covered
BY DEF Covered, Applied

LEMMA SameDirs ==
    ASSUME UNCHANGED dir
    PROVE  Usable' = Usable
BY DEF Usable, Valid

\* A script that fails or is killed promises nothing.
LEMMA EndStep ==
    ASSUME IInv, NEW o \in {"failed", "killed"}, Exit(o), TypeOK', InUse'
    PROVE  IInv'
<1>1. op' \in Ops /\ op'.pc = "idle" /\ op'.outcome = o /\ op'.restoring = FALSE
      BY OpFields DEF IInv, Exit, Ended
<1>2. GoalKnown'  BY <1>1 DEF GoalKnown
<1>3. Progress'
      BY <1>1 DEF Progress, Gates, Installed, Linked, Labelled, Serving
<1>4. PassedMeansLive' /\ RestoredMeansUndone'
      BY <1>1 DEF PassedMeansLive, RestoredMeansUndone
<1> QED BY <1>1, <1>2, <1>3, <1>4 DEF IInv

\* Where a script is not idle, it promises nothing yet.
LEMMA RunningStep ==
    ASSUME TypeOK', op' \in Ops, op'.pc # "idle", GoalKnown', Progress', InUse'
    PROVE  IInv'
BY DEF IInv, PassedMeansLive, RestoredMeansUndone, At

\* Back to the original release: its gate is still to come.
LEMMA FallStep ==
    ASSUME IInv, Fall, op.pc # "idle", TypeOK', InUse'
    PROVE  IInv'
<1>1. CASE op.restoring \/ op.orig = None
      BY <1>1, EndStep DEF Fall
<1>2. CASE ~(op.restoring \/ op.orig = None)
  <2> DEFINE o == [op EXCEPT !.restoring = TRUE, !.pc = "gate"]
  <2>1. op' = o  BY <1>2 DEF Fall
  <2>2. /\ o \in Ops /\ o.pc = "gate" /\ o.restoring /\ o.orig = op.orig
        /\ o.target = op.target
        BY DEF IInv, Ops
  <2>3. op.orig \in Sha /\ op.target \in Sha
        BY <1>2 DEF IInv, Ops, Releases, GoalKnown
  <2> HIDE DEF o
  <2>4. GoalKnown'  BY <2>1, <2>2, <2>3 DEF GoalKnown
  <2>5. Progress'
        BY <2>1, <2>2 DEF Progress, Gates, Installed, Linked, Labelled, Serving
  <2> QED BY <2>1, <2>2, <2>4, <2>5, RunningStep
<1> QED BY <1>1, <1>2

-----------------------------------------------------------------------------
LEMMA InitIInv == Init => IInv
<1> SUFFICES ASSUME Init PROVE IInv
    OBVIOUS
<1> USE DeploymentAssumption DEF Init
<1>1. op \in Ops  BY DEF Ops, Releases
<1>2. ledger \in SL!Ledgers
  <2>1. DOMAIN Manifest[First] \in SUBSET Number  OBVIOUS
  <2>2. \A n \in DOMAIN Manifest[First] : ledger[n] \in SL!Row
        BY DEF SL!Row, SL!Flag
  <2>3. ledger \in [DOMAIN Manifest[First] -> SL!Row]  BY <2>2
  <2> QED BY <2>1, <2>3 DEF SL!Ledgers
<1>3. TypeOK  BY <1>1, <1>2 DEF TypeOK
<1>4. First \in Covered  BY DEF Covered, Applied
<1>5. First \in Usable  BY DEF Usable, Valid
<1>6. InUse  BY <1>4, <1>5 DEF InUse
<1>7. GoalKnown /\ Progress
      BY DEF GoalKnown, Progress, Gates, Installed, Linked, Labelled, Serving
<1>8. PassedMeansLive /\ RestoredMeansUndone
      BY DEF PassedMeansLive, RestoredMeansUndone
<1> QED BY <1>1, <1>3, <1>6, <1>7, <1>8 DEF IInv

-----------------------------------------------------------------------------
(* One lemma per action.  Covered and Usable stay folded wherever the      *)
(* ledger and the directories do not change.                               *)

LEMMA BeginStep ==
    ASSUME IInv, NEW kind \in {"deploy", "rollback"}, NEW s \in Sha,
           NEW pc \in {"build", "gate"}, Begin(kind, s, pc)
    PROVE  IInv'
<1>1. /\ op' \in Ops /\ op'.pc = pc /\ op'.target = s /\ ~op'.restoring
      /\ scripts' \in 0..MaxScripts
      BY DeploymentAssumption DEF Begin, Ops, IInv, TypeOK, Releases
<1>2. TypeOK'  BY <1>1, Types DEF Begin, IInv, TypeOK, Releases, links, services
<1>3. GoalKnown'  BY <1>1 DEF GoalKnown
<1>4. Progress'
      BY <1>1 DEF Progress, Gates, Installed, Linked, Labelled, Serving
<1>5. InUse'
      BY SameLedger, SameDirs DEF Begin, IInv, InUse, links, services
<1> QED BY <1>1, <1>2, <1>3, <1>4, <1>5, RunningStep

LEMMA BuildBeginStep ==
    ASSUME IInv, BuildBegin
    PROVE  IInv'
<1> DEFINE s == op.target
<1>1. op \in Ops /\ op.pc = "build" /\ s \in Sha /\ ~op.restoring
      BY DEF IInv, BuildBegin, At, GoalKnown, Gates, Installed, Linked, Labelled, Serving
<1>2. UNCHANGED <<current, previous, env, unit, timer, api, worker, ledger,
                  scripts, faults>>
      BY DEF BuildBegin, links, services
<1>3. CASE Goto("gate") /\ UNCHANGED dir
  <2>1. op' \in Ops /\ op'.pc = "gate" /\ op'.target = s /\ ~op'.restoring
        BY <1>1, <1>3, OpFields DEF Goto, Pcs
  <2>2. TypeOK'  BY <1>2, <1>3, <2>1, Types DEF IInv, TypeOK, Releases
  <2>3. GoalKnown'  BY <1>1, <2>1 DEF GoalKnown
  <2>4. Progress'  BY <2>1 DEF Progress, Gates, Installed, Linked, Labelled, Serving
  <2>5. InUse'  BY <1>2, <1>3, SameLedger, SameDirs DEF IInv, InUse
  <2> QED BY <2>1, <2>2, <2>3, <2>4, <2>5, RunningStep
<1>4. CASE Exit("failed") /\ UNCHANGED dir
  <2>1. op' \in Ops  BY <1>1, <1>4, OpFields DEF Exit
  <2>2. TypeOK'  BY <1>2, <1>4, <2>1, Types DEF IInv, TypeOK, Releases
  <2>3. InUse'  BY <1>2, <1>4, SameLedger, SameDirs DEF IInv, InUse
  <2> QED BY <1>4, <2>2, <2>3, EndStep
<1>5. CASE ~Valid(s) /\ dir' = [dir EXCEPT ![s] = "partial"] /\ Goto("building")
  <2>1. op' \in Ops /\ op'.pc = "building" /\ op'.target = s /\ ~op'.restoring
        BY <1>1, <1>5, OpFields DEF Goto, Pcs
  <2>2. dir' \in [Sha -> {"none", "partial", "built", "gutted"}] /\ dir'[s] = "partial"
        BY <1>1, <1>5 DEF IInv, TypeOK
  <2>3. TypeOK'  BY <1>2, <2>1, <2>2, Types DEF IInv, TypeOK, Releases
  <2>4. GoalKnown'  BY <1>1, <2>1 DEF GoalKnown
  <2>5. Progress'
        BY <2>1, <2>2 DEF Progress, Gates, Installed, Linked, Labelled, Serving
  <2>6. Usable \subseteq Usable'
        BY <1>1, <1>5 DEF Usable, Valid, IInv, TypeOK
  <2>7. InUse'  BY <1>2, <2>6, SameLedger DEF IInv, InUse
  <2> QED BY <2>1, <2>3, <2>4, <2>5, <2>7, RunningStep
<1>6. CASE /\ ~Valid(s) /\ Exit("failed")
           /\ \E rest \in Remains : dir' = [dir EXCEPT ![s] = rest]
  <2>1. PICK d \in {"partial", "gutted"} : dir' = [dir EXCEPT ![s] = d]
        BY <1>6 DEF Remains
  <2>2. dir' \in [Sha -> {"none", "partial", "built", "gutted"}]
        BY <1>1, <2>1 DEF IInv, TypeOK
  <2>3. Usable \subseteq Usable'
        BY <1>1, <1>6, <2>1 DEF Usable, Valid, IInv, TypeOK
  <2>4. InUse'  BY <1>2, <2>3, SameLedger DEF IInv, InUse
  <2>5. op' \in Ops  BY <1>1, <1>6, OpFields DEF Exit
  <2>6. TypeOK'  BY <1>2, <2>2, <2>5, Types DEF IInv, TypeOK, Releases
  <2> QED BY <1>6, <2>4, <2>6, EndStep
<1> QED BY <1>3, <1>4, <1>5, <1>6 DEF BuildBegin

LEMMA BuildEndStep ==
    ASSUME IInv, BuildEnd
    PROVE  IInv'
<1> DEFINE s == op.target
<1>1. /\ op \in Ops /\ op.pc = "building" /\ s \in Sha /\ ~op.restoring
      /\ dir[s] = "partial"
      BY DEF IInv, BuildEnd, At, GoalKnown, Progress, Gates, Installed, Linked, Labelled,
             Serving
<1>2. UNCHANGED <<current, previous, env, unit, timer, api, worker, ledger,
                  scripts, faults>>
      BY DEF BuildEnd, links, services
<1>3. PICK d \in {"built", "none", "partial", "gutted"} : dir' = [dir EXCEPT ![s] = d]
      BY DEF BuildEnd, Remains
<1>4. dir' \in [Sha -> {"none", "partial", "built", "gutted"}]
      BY <1>1, <1>3 DEF IInv, TypeOK
<1>5. Usable \subseteq Usable'
      BY <1>1, <1>3 DEF Usable, Valid, IInv, TypeOK
<1>6. InUse'  BY <1>2, <1>5, SameLedger DEF IInv, InUse
<1>7. CASE Goto("gate")
  <2>1. op' \in Ops /\ op'.pc = "gate" /\ op'.target = s /\ ~op'.restoring
        BY <1>1, <1>7, OpFields DEF Goto, Pcs
  <2>2. TypeOK'  BY <1>2, <1>4, <2>1, Types DEF IInv, TypeOK, Releases
  <2>3. GoalKnown'  BY <1>1, <2>1 DEF GoalKnown
  <2>4. Progress'  BY <2>1 DEF Progress, Gates, Installed, Linked, Labelled, Serving
  <2> QED BY <2>1, <2>2, <2>3, <2>4, <1>6, RunningStep
<1>8. CASE Exit("failed")
  <2>1. op' \in Ops  BY <1>1, <1>8, OpFields DEF Exit
  <2>2. TypeOK'  BY <1>2, <1>4, <2>1, Types DEF IInv, TypeOK, Releases
  <2> QED BY <1>6, <1>8, <2>2, EndStep
<1> QED BY <1>7, <1>8 DEF BuildEnd

\* A command that fails and ends the script, having changed the timer at most.
LEMMA FailStep ==
    ASSUME IInv, NEW o \in {"failed", "killed"}, Exit(o), timer' \in BOOLEAN,
           UNCHANGED <<dir, current, previous, env, unit, api, worker, ledger, scripts>>,
           faults' \in 0..MaxFaults
    PROVE  IInv'
<1>1. op' \in Ops  BY OpFields DEF Exit, IInv
<1>2. TypeOK'  BY <1>1, Types DEF IInv, TypeOK, Releases
<1>3. InUse'  BY SameLedger, SameDirs DEF IInv, InUse
<1> QED BY <1>2, <1>3, EndStep

LEMMA FallsInOps ==
    ASSUME op \in Ops, Fall
    PROVE  op' \in Ops
<1>1. CASE op' = Ended("failed")  BY <1>1, OpFields
<1>2. CASE op' = [op EXCEPT !.restoring = TRUE, !.pc = "gate"]  BY <1>2 DEF Ops
<1> QED BY <1>1, <1>2 DEF Fall, Exit

\* A command that fails after the unit was installed, and changed nothing.
LEMMA FallBackStep ==
    ASSUME IInv, Fall, op.pc # "idle",
           UNCHANGED <<dir, links, unit, timer, services, ledger, scripts, faults>>
    PROVE  IInv'
<1>1. op' \in Ops  BY FallsInOps DEF IInv
<1>2. TypeOK'  BY <1>1, Types DEF IInv, TypeOK, Releases, links, services
<1>3. InUse'  BY SameLedger, SameDirs DEF IInv, InUse, links, services
<1> QED BY <1>2, <1>3, FallStep

\* A command that goes on to pc and changes nothing else.
LEMMA GoStep ==
    ASSUME IInv, NEW pc \in Pcs \ {"idle"}, op.pc # "idle", Goto(pc), timer' \in BOOLEAN,
           UNCHANGED <<dir, ledger, scripts, faults>>,
           {current', previous', env', unit', worker'} \subseteq Releases,
           api' \in [code : Releases, label : Releases],
           op.restoring =>
              pc \in (Gates \ {"quiesce", "worker", "prune"}) \cup {"gate"},
           Progress', InUse'
    PROVE  IInv'
<1>1. /\ op' \in Ops /\ op'.pc = pc /\ op'.target = op.target /\ op'.orig = op.orig
      /\ op'.restoring = op.restoring
      BY OpFields DEF Goto, IInv
<1>2. TypeOK'  BY <1>1, Types DEF IInv, TypeOK, Releases
<1>3. GoalKnown'  BY <1>1 DEF IInv, GoalKnown
<1> QED BY <1>1, <1>2, <1>3, RunningStep

LEMMA GateStepStep ==
    ASSUME IInv, GateStep
    PROVE  IInv'
<1>1. UNCHANGED <<dir, current, previous, env, unit, timer, api, worker, ledger,
                  scripts, faults>>
      BY DEF GateStep, links, services
<1>2. CASE Exit("failed")  BY <1>1, <1>2, FailStep DEF IInv, TypeOK
<1>3. CASE Gate(Goal) /\ Goto(Gated)
  <2>1. op.pc = "gate" /\ op \in Ops /\ Gated \in {"unit", "quiesce"}
        BY DEF GateStep, At, IInv, Gated
  <2>2. Goal \in Sha  BY <2>1 DEF Goal, IInv, GoalKnown
  <2>3. Goal \in Covered  BY <1>3, <2>2 DEF Gate, Covered, Applied
  <2>4. Goal' = Goal /\ op'.pc = Gated
        BY <1>3, <2>1, OpFields DEF Goto, Pcs, Gates, Goal
  <2>5. Progress'
        BY <1>1, <2>1, <2>3, <2>4, SameLedger
        DEF Progress, Gates, Installed, Linked, Labelled, Serving
  <2>6. InUse'  BY <1>1, SameLedger, SameDirs DEF IInv, InUse
  <2>7. op.restoring => Gated = "unit"  BY DEF Gated
  <2> QED BY <1>1, <1>3, <2>1, <2>5, <2>6, <2>7, GoStep
          DEF IInv, TypeOK, Releases, Pcs, Gates, Installed
<1> QED BY <1>2, <1>3 DEF GateStep

LEMMA QuiesceStep ==
    ASSUME IInv, Quiesce
    PROVE  IInv'
<1>1. UNCHANGED <<dir, current, previous, env, unit, api, worker, ledger, scripts, faults>>
      BY DEF Quiesce, links, services
<1>2. CASE Exit("failed") /\ UNCHANGED timer
      BY <1>1, <1>2, FailStep DEF IInv, TypeOK
<1>3. CASE timer' = FALSE /\ op' = [op EXCEPT !.pc = "unit", !.wasActive = timer]
  <2>1. op.pc = "quiesce" /\ op \in Ops
        BY DEF Quiesce, At, IInv
  <2>2. ~op.restoring /\ op.target \in Sha /\ Goal \in Covered
        BY <2>1 DEF IInv, GoalKnown, Progress, Gates, Installed, Linked, Labelled, Serving
  <2>3. /\ op' \in Ops /\ op'.pc = "unit" /\ op'.target = op.target
        /\ op'.restoring = op.restoring
        BY <1>3, <2>1 DEF Ops, IInv, TypeOK
  <2>4. TypeOK'  BY <1>1, <1>3, <2>3, Types DEF IInv, TypeOK, Releases
  <2>5. GoalKnown'  BY <2>2, <2>3 DEF GoalKnown
  <2>6. Progress'
        BY <1>1, <2>2, <2>3, SameLedger
        DEF Progress, Goal, Gates, Installed, Linked, Labelled, Serving
  <2>7. InUse'  BY <1>1, SameLedger, SameDirs DEF IInv, InUse
  <2> QED BY <2>3, <2>4, <2>5, <2>6, <2>7, RunningStep
<1> QED BY <1>2, <1>3 DEF Quiesce

LEMMA UnitStepStep ==
    ASSUME IInv, UnitStep
    PROVE  IInv'
<1>1. UNCHANGED <<dir, current, previous, env, api, worker, ledger, scripts, faults>>
      BY DEF UnitStep, links, services
<1>2. op.pc = "unit" /\ op \in Ops /\ Goal \in Sha /\ Goal \in Covered
      BY DEF UnitStep, At, IInv, GoalKnown, Progress, Goal, Gates
<1>3. CASE Exit("failed") /\ UNCHANGED unit
  <2>1. timer' \in BOOLEAN
    <3>1. (op.wasActive \/ timer) \in BOOLEAN  OBVIOUS
    <3> QED BY <3>1, <1>2, <1>3
            DEF UnitStep, Resumed, ResumeFails, IInv, TypeOK, Exit, Ended, Goto
  <2> QED BY <1>1, <1>3, <2>1, FailStep DEF IInv, TypeOK
<1>4. CASE unit' = Goal /\ Goto("validate") /\ UNCHANGED timer
  <2>1. Goal' = Goal /\ op'.pc = "validate"
        BY <1>2, <1>4, OpFields DEF Goto, Pcs, Gates, Installed, Goal
  <2>2. Progress'
        BY <1>1, <1>2, <1>4, <2>1, SameLedger
        DEF Progress, Gates, Installed, Linked, Labelled, Serving
  <2>3. InUse'  BY <1>1, SameLedger, SameDirs DEF IInv, InUse
  <2> QED BY <1>1, <1>2, <1>4, <2>2, <2>3, GoStep
          DEF IInv, TypeOK, Releases, Pcs, Gates, Installed
<1> QED BY <1>3, <1>4 DEF UnitStep

LEMMA ActivateValidateStep ==
    ASSUME IInv, ActivateValidate
    PROVE  IInv'
<1>1. UNCHANGED <<dir, links, unit, timer, services, ledger, scripts, faults>>
      BY DEF ActivateValidate
<1>2. op.pc = "validate" /\ op \in Ops /\ Goal \in Sha /\ Goal \in Covered /\ unit = Goal
      BY DEF ActivateValidate, At, IInv, GoalKnown, Progress, Goal, Gates, Installed
<1>3. CASE Fall  BY <1>1, <1>2, <1>3, FallBackStep
<1>4. CASE Valid(Goal) /\ Goto(Validated)
  <2>1. Validated \in {"env", "previous"} /\ (Validated = "env" => current = Goal)
        BY DEF Validated
  <2>2. Goal' = Goal /\ op'.pc = Validated
        BY <1>2, <1>4, <2>1, OpFields DEF Goto, Pcs, Gates, Installed, Linked, Goal
  <2>3. Goal \in Usable  BY <1>2, <1>4 DEF Usable
  <2>4. Progress'
        BY <1>1, <1>2, <2>1, <2>2, <2>3, SameLedger, SameDirs
        DEF Progress, Gates, Installed, Linked, Labelled, Serving, links
  <2>5. InUse'  BY <1>1, SameLedger, SameDirs DEF IInv, InUse, links, services
  <2> QED BY <1>1, <1>2, <1>4, <2>1, <2>4, <2>5, GoStep
          DEF IInv, TypeOK, Releases, Pcs, Gates, Installed, Linked, links, services
<1> QED BY <1>3, <1>4 DEF ActivateValidate

LEMMA LinkPreviousStep ==
    ASSUME IInv, LinkPrevious
    PROVE  IInv'
<1>1. UNCHANGED <<dir, current, env, unit, timer, api, worker, ledger, scripts, faults>>
      BY DEF LinkPrevious, services
<1>2. op.pc = "previous" /\ op \in Ops /\ Goto("current")
      BY DEF LinkPrevious, At, IInv
<1>3. Goal' = Goal /\ op'.pc = "current"
      BY <1>2, OpFields DEF Goto, Pcs, Gates, Installed, Goal
<1>4. previous' \in {current, previous}  BY DEF LinkPrevious
<1>5. Progress'
      BY <1>1, <1>2, <1>3, SameLedger, SameDirs
      DEF IInv, Progress, Gates, Installed, Linked, Labelled, Serving
<1>6. InUse'  BY <1>1, <1>4, SameLedger, SameDirs DEF IInv, InUse
<1> QED BY <1>1, <1>2, <1>4, <1>5, <1>6, GoStep
        DEF IInv, TypeOK, Releases, Pcs, Gates, Installed

\* The one step that moves `current`: its goal passed the gate and validates.
LEMMA LinkCurrentStep ==
    ASSUME IInv, LinkCurrent
    PROVE  IInv'
<1>1. UNCHANGED <<dir, previous, env, unit, timer, api, worker, ledger, scripts, faults>>
      BY DEF LinkCurrent, services
<1>2. op.pc = "current" /\ op \in Ops /\ Goto("env") /\ current' = Goal
      BY DEF LinkCurrent, At, IInv
<1>3. Goal' = Goal /\ op'.pc = "env"
      BY <1>2, OpFields DEF Goto, Pcs, Gates, Installed, Linked, Goal
<1>4. Goal \in Sha /\ Goal \in Covered /\ Goal \in Usable /\ unit = Goal
      BY <1>2 DEF IInv, GoalKnown, Progress, Goal, Gates, Installed
<1>5. Progress'
      BY <1>1, <1>2, <1>3, <1>4, SameLedger
      DEF Progress, Gates, Installed, Linked, Labelled, Serving
<1>6. InUse'  BY <1>1, <1>2, <1>4, SameLedger, SameDirs DEF IInv, InUse
<1> QED BY <1>1, <1>2, <1>4, <1>5, <1>6, GoStep
        DEF IInv, TypeOK, Releases, Pcs, Gates, Installed, Linked

LEMMA WriteEnvStep ==
    ASSUME IInv, WriteEnv
    PROVE  IInv'
<1>1. UNCHANGED <<dir, current, previous, unit, timer, api, worker, ledger,
                  scripts, faults>>
      BY DEF WriteEnv, services
<1>2. op.pc = "env" /\ op \in Ops /\ Goto("restart") /\ env' = Goal
      BY DEF WriteEnv, At, IInv
<1>3. Goal' = Goal /\ op'.pc = "restart"
      BY <1>2, OpFields DEF Goto, Pcs, Gates, Installed, Linked, Labelled, Goal
<1>4. Goal \in Sha /\ Goal \in Covered /\ current = Goal /\ unit = Goal
      BY <1>2 DEF IInv, GoalKnown, Progress, Goal, Gates, Installed, Linked
<1>5. Progress'
      BY <1>1, <1>2, <1>3, <1>4, SameLedger
      DEF Progress, Gates, Installed, Linked, Labelled, Serving
<1>6. InUse'  BY <1>1, SameLedger, SameDirs DEF IInv, InUse
<1> QED BY <1>1, <1>2, <1>4, <1>5, <1>6, GoStep
        DEF IInv, TypeOK, Releases, Pcs, Gates, Installed, Linked, Labelled

LEMMA ActivateFailsStep ==
    ASSUME IInv, ActivateFails
    PROVE  IInv'
BY FallBackStep DEF ActivateFails

\* A script in the health gate: the goal is in place, and the API runs it or is
\* down.
LEMMA RestartApiStep ==
    ASSUME IInv, RestartApi
    PROVE  IInv'
<1>1. UNCHANGED <<dir, current, previous, env, unit, timer, worker, ledger,
                  scripts, faults>>
      BY DEF RestartApi, links
<1>2. op.pc = "restart" /\ op \in Ops
      BY DEF RestartApi, At, IInv
<1>3. /\ Goal \in Sha /\ Goal \in Covered
      /\ current = Goal /\ unit = Goal /\ env = Goal
      BY <1>2 DEF IInv, GoalKnown, Progress, Goal, Gates, Installed, Linked, Labelled
<1>4. CASE api' = Down /\ Fall
  <2>1. op' \in Ops  BY <1>2, <1>4, FallsInOps
  <2>2. TypeOK'  BY <1>1, <1>4, <2>1, Types DEF IInv, TypeOK, Releases, Down
  <2>3. InUse'  BY <1>1, <1>4, SameLedger, SameDirs DEF IInv, InUse, Down
  <2> QED BY <1>2, <1>4, <2>2, <2>3, FallStep
<1>5. CASE /\ api' = Fresh
           /\ op' = [op EXCEPT !.pc = "health", !.attempt = 0, !.ok = 0]
  <2>1. /\ op' \in Ops /\ op'.pc = "health" /\ op'.restoring = op.restoring
        /\ op'.target = op.target /\ op'.orig = op.orig
    <3>1. 0 \in 0..Attempts /\ 0 \in 0..(Consecutive - 1)  BY DeploymentAssumption
    <3> QED BY <1>2, <1>5, <3>1 DEF Ops
  <2>2. api' = [code |-> Goal, label |-> Goal] /\ Goal' = Goal
        BY <1>3, <1>5, <2>1 DEF Fresh, Goal
  <2>3. TypeOK'  BY <1>1, <1>3, <2>1, <2>2, Types DEF IInv, TypeOK, Releases
  <2>4. GoalKnown'
        BY <1>2, <2>1 DEF IInv, GoalKnown, Gates, Installed, Linked, Labelled, Serving
  <2>5. Progress'
        BY <1>1, <1>3, <2>1, <2>2, SameLedger
        DEF Progress, Gates, Installed, Linked, Labelled, Serving
  <2>6. InUse'  BY <1>1, <1>3, <2>2, SameLedger, SameDirs DEF IInv, InUse
  <2> QED BY <2>1, <2>3, <2>4, <2>5, <2>6, RunningStep
<1> QED BY <1>4, <1>5 DEF RestartApi

\* A probe: the count changes, or the gate is over.
LEMMA ProbeStep ==
    ASSUME IInv, ProbeOK \/ ProbeFails
    PROVE  IInv'
<1>1. UNCHANGED <<dir, current, previous, env, unit, timer, api, worker, ledger,
                  scripts, faults>>
      BY DEF ProbeOK, ProbeFails, links, services
<1>2. op.pc = "health" /\ op \in Ops  BY DEF ProbeOK, ProbeFails, At, IInv
<1>3. /\ op' \in Ops /\ op'.pc \in {"health", "resume", "unhealthy"}
      /\ op'.restoring = op.restoring /\ op'.target = op.target /\ op'.orig = op.orig
  <2> DEFINE counted(ok) == [op EXCEPT !.attempt = @ + 1, !.ok = ok]
  <2>1. op.attempt \in 0..Attempts /\ op.ok \in 0..(Consecutive - 1)
        BY <1>2 DEF Ops
  <2>2. 0 \in 0..(Consecutive - 1)  BY DeploymentAssumption
  <2>3. op.ok + 1 < Consecutive => op.ok + 1 \in 0..(Consecutive - 1)
        BY <2>1, DeploymentAssumption
  <2>4. op.attempt + 1 < Attempts => op.attempt + 1 \in 0..Attempts
        BY <2>1, DeploymentAssumption
  <2>5. ~(op.ok + 1 >= Consecutive) => op.ok + 1 < Consecutive
        BY <2>1, DeploymentAssumption
  <2>6. CASE \E pc \in {"resume", "unhealthy"} : op' = [op EXCEPT !.pc = pc]
        BY <1>2, <2>6 DEF Ops
  <2>7. CASE /\ op.attempt + 1 < Attempts
             /\ \E ok \in 0..(Consecutive - 1) : op' = counted(ok)
    <3>1. PICK ok \in 0..(Consecutive - 1) : op' = counted(ok)  BY <2>7
    <3>2. op.attempt + 1 \in 0..Attempts  BY <2>4, <2>7
    <3> QED BY <1>2, <3>1, <3>2 DEF Ops
  <2>8. CASE ProbeOK  BY <2>3, <2>5, <2>6, <2>7, <2>8 DEF ProbeOK
  <2>9. CASE ProbeFails  BY <2>2, <2>6, <2>7, <2>9 DEF ProbeFails, AfterFailure
  <2> QED BY <2>8, <2>9
<1>4. TypeOK'  BY <1>1, <1>3, Types DEF IInv, TypeOK, Releases
<1>5. GoalKnown'
      BY <1>2, <1>3 DEF IInv, GoalKnown, Gates, Installed, Linked, Labelled, Serving
<1>6. Progress'
      BY <1>1, <1>2, <1>3, SameLedger
      DEF IInv, Progress, Goal, Gates, Installed, Linked, Labelled, Serving
<1>7. InUse'  BY <1>1, SameLedger, SameDirs DEF IInv, InUse
<1> QED BY <1>3, <1>4, <1>5, <1>6, <1>7, RunningStep

LEMMA UnhealthyStep ==
    ASSUME IInv, Unhealthy
    PROVE  IInv'
BY FallBackStep DEF Unhealthy, At

\* The end of a rollback or of a restoration, where its promise is made.
LEMMA ResumeStep ==
    ASSUME IInv, Resume
    PROVE  IInv'
<1>1. UNCHANGED <<dir, current, previous, env, unit, api, worker, ledger, scripts, faults>>
      BY DEF Resume, links, services
<1>2. op.pc = "resume" /\ op \in Ops  BY DEF Resume, At, IInv
<1>3. /\ current = Goal /\ unit = Goal /\ env = Goal
      /\ api \in {[code |-> Goal, label |-> Goal], Down}
      BY <1>2 DEF IInv, Progress, Gates, Installed, Linked, Labelled, Serving
<1>4. InUse'  BY <1>1, SameLedger, SameDirs DEF IInv, InUse
<1>5. (op.wasActive \/ timer) \in BOOLEAN  OBVIOUS
<1>6. CASE ResumeFails /\ Exit("failed")
      BY <1>1, <1>6, FailStep DEF ResumeFails, IInv, TypeOK
<1>7. CASE Resumed /\ ~op.restoring /\ Goto("worker")
  <2>1. Goal' = Goal /\ op'.pc = "worker"
        BY <1>2, <1>7, OpFields DEF Goto, Pcs, Gates, Installed, Linked, Labelled,
                                    Serving, Goal
  <2>2. Progress'
        BY <1>1, <1>2, <1>3, <2>1, SameLedger
        DEF IInv, Progress, Gates, Installed, Linked, Labelled, Serving
  <2> QED BY <1>1, <1>2, <1>4, <1>5, <1>7, <2>2, GoStep
          DEF Resumed, IInv, TypeOK, Releases, Pcs, Gates, Installed, Linked, Labelled,
              Serving
<1>8. ASSUME NEW o \in {"restored", "passed"}, Resumed, Exit(o),
             o = "restored" <=> op.restoring, o = "passed" => op.kind = "rollback"
      PROVE  IInv'
  <2>1. /\ op' \in Ops /\ op'.pc = "idle" /\ op'.outcome = o /\ op'.restoring = FALSE
        /\ op'.kind = op.kind /\ op'.target = op.target /\ op'.orig = op.orig
        /\ op'.wasActive = op.wasActive
        BY <1>2, <1>8, OpFields DEF Exit, Ended
  <2>2. TypeOK'  BY <1>1, <1>5, <1>8, <2>1, Types DEF Resumed, IInv, TypeOK, Releases
  <2>3. GoalKnown'  BY <2>1 DEF GoalKnown
  <2>4. Progress'  BY <2>1 DEF Progress, Gates, Installed, Linked, Labelled, Serving
  <2>5. PassedMeansLive'
        BY <1>1, <1>3, <1>8, <2>1 DEF PassedMeansLive, Goal
  <2>6. RestoredMeansUndone'
        BY <1>1, <1>3, <1>8, <2>1 DEF RestoredMeansUndone, Goal, Resumed
  <2> QED BY <1>4, <2>1, <2>2, <2>3, <2>4, <2>5, <2>6 DEF IInv
<1> QED BY <1>6, <1>7, <1>8 DEF Resume

LEMMA RestartWorkerStep ==
    ASSUME IInv, RestartWorker
    PROVE  IInv'
<1>1. UNCHANGED <<dir, current, previous, env, unit, timer, api, ledger, scripts, faults>>
      BY DEF RestartWorker, links
<1>2. op.pc = "worker" /\ op \in Ops  BY DEF RestartWorker, At, IInv
<1>3. /\ current = Goal /\ unit = Goal /\ env = Goal /\ ~op.restoring
      BY <1>2 DEF IInv, GoalKnown, Progress, Gates, Installed, Linked, Labelled, Serving
<1>4. worker' \in {worker, current, None} /\ (~HasWorker => worker' = worker)
      BY DEF RestartWorker
<1>5. InUse'  BY <1>1, <1>4, SameLedger, SameDirs DEF IInv, InUse
<1>6. CASE Exit("failed")
  <2>1. op' \in Ops  BY <1>2, <1>6, OpFields DEF Exit
  <2>2. TypeOK'  BY <1>1, <1>4, <2>1, Types DEF IInv, TypeOK, Releases
  <2> QED BY <1>5, <1>6, <2>2, EndStep
<1>7. CASE Goto("prune") /\ worker' = IF HasWorker THEN current ELSE worker
  <2>1. Goal' = Goal /\ op'.pc = "prune"
        BY <1>2, <1>7, OpFields DEF Goto, Pcs, Gates, Installed, Linked, Labelled,
                                    Serving, Goal
  <2>2. Progress'
        BY <1>1, <1>2, <1>3, <1>7, <2>1, SameLedger
        DEF IInv, Progress, Gates, Installed, Linked, Labelled, Serving
  <2> QED BY <1>1, <1>2, <1>3, <1>4, <1>5, <1>7, <2>2, GoStep
          DEF IInv, TypeOK, Releases, Pcs, Gates, Installed, Linked, Labelled, Serving
<1> QED BY <1>6, <1>7 DEF RestartWorker

\* Directories that prune or a kill inside it changes: none of a symlink, and so
\* none of a process, since the script got here with both services on `current`.
LEMMA PrunedStep ==
    ASSUME IInv, op.pc = "prune",
           dir' \in [Sha -> {"none", "partial", "built", "gutted"}],
           \A s \in Sha : s \in Protected => dir'[s] = dir[s],
           UNCHANGED <<links, unit, timer, services, ledger>>
    PROVE  InUse'
<1>1. /\ api.code \in {current, None}
      /\ worker \in {current, None}
      BY DEF IInv, Progress, InUse, Down, Linked, Labelled, Serving
<1>2. \A s \in Sha : s \in Protected /\ s \in Usable => s \in Usable'
      BY DEF Usable, Valid
<1>3. {current, previous} \subseteq Usable' \cup {None}
      BY <1>2 DEF IInv, InUse, Protected, Usable
<1>4. Covered' = Covered /\ UNCHANGED <<current, previous, api, worker>>
      BY SameLedger DEF links, services
<1> QED BY <1>1, <1>3, <1>4 DEF IInv, InUse

LEMMA WithoutType ==
    ASSUME IInv, NEW gone
    PROVE  /\ Without(gone) \in [Sha -> {"none", "partial", "built", "gutted"}]
           /\ \A s \in Sha : s \notin gone => Without(gone)[s] = dir[s]
BY DEF Without, IInv, TypeOK

LEMMA PruneStep ==
    ASSUME IInv, Prune
    PROVE  IInv'
<1>1. /\ UNCHANGED <<links, unit, timer, services, ledger, scripts, faults>>
      /\ op.pc = "prune" /\ op \in Ops
      BY DEF Prune, At, IInv
<1>2. PICK gone \in SUBSET (Sha \ Protected), o \in {"passed", "failed"} :
           dir' = Without(gone) /\ Exit(o)
      BY DEF Prune, Present
<1>3. dir' \in [Sha -> {"none", "partial", "built", "gutted"}]
      BY <1>2, WithoutType
<1>4. \A s \in Sha : s \in Protected => dir'[s] = dir[s]
      BY <1>2, WithoutType
<1>5. InUse'  BY <1>1, <1>3, <1>4, PrunedStep
<1>6. /\ op' \in Ops /\ op'.pc = "idle" /\ op'.outcome = o /\ op'.restoring = FALSE
      /\ op'.kind = op.kind /\ op'.target = op.target
      BY <1>1, <1>2, OpFields DEF Exit, Ended
<1>7. TypeOK'
      BY <1>1, <1>3, <1>6, Types DEF IInv, TypeOK, Releases, links, services
<1>8. /\ current = op.target /\ unit = op.target /\ env = op.target
      /\ api \in {[code |-> op.target, label |-> op.target], Down}
      /\ HasWorker => worker = op.target
      BY <1>1 DEF IInv, GoalKnown, Progress, Goal, Gates, Installed, Linked, Labelled,
                  Serving
<1>9. GoalKnown' /\ Progress'
      BY <1>6 DEF GoalKnown, Progress, Gates, Installed, Linked, Labelled, Serving
<1>10. PassedMeansLive' /\ RestoredMeansUndone'
      BY <1>1, <1>6, <1>8 DEF PassedMeansLive, RestoredMeansUndone, links, services
<1> QED BY <1>5, <1>6, <1>7, <1>9, <1>10 DEF IInv

LEMMA Faults ==
    ASSUME IInv, Fault
    PROVE  faults' \in 0..MaxFaults
BY DeploymentAssumption DEF Fault, IInv, TypeOK

LEMMA KillStep ==
    ASSUME IInv, Kill
    PROVE  IInv'
BY Faults, FailStep DEF Kill, IInv, TypeOK, links, services

LEMMA KillInPruneStep ==
    ASSUME IInv, KillInPrune
    PROVE  IInv'
<1>1. /\ UNCHANGED <<links, unit, timer, services, ledger, scripts>>
      /\ op.pc = "prune" /\ op \in Ops /\ Exit("killed") /\ Fault
      BY DEF KillInPrune, At, IInv
<1>2. PICK s \in Sha \ Protected, gone \in SUBSET (Sha \ Protected),
           rest \in {"gutted", "partial"} : dir' = [Without(gone) EXCEPT ![s] = rest]
      BY DEF KillInPrune, Present, Remains
<1>3. dir' \in [Sha -> {"none", "partial", "built", "gutted"}]
      BY <1>2, WithoutType
<1>4. \A x \in Sha : x \in Protected => dir'[x] = dir[x]
      BY <1>2, WithoutType
<1>5. InUse'  BY <1>1, <1>3, <1>4, PrunedStep
<1>6. op' \in Ops  BY <1>1, OpFields DEF Exit
<1>7. TypeOK'
      BY <1>1, <1>3, <1>6, Faults, Types DEF IInv, TypeOK, Releases, links, services
<1> QED BY <1>1, <1>5, <1>7, EndStep

\* What a service starts on, and may: `current` passed the gate once.
LEMMA FreshFits ==
    ASSUME IInv
    PROVE  /\ Fresh \in [code : Releases, label : Releases]
           /\ Down \in [code : Releases, label : Releases]
           /\ Fresh.code \in Covered \cup {None} /\ Fresh.code \in Usable \cup {None}
BY DEF IInv, TypeOK, InUse, Fresh, Down, Releases

\* After the end of a script its promise outlives any restart of a service:
\* they start on the links the promise is about.
LEMMA RestartsStep ==
    ASSUME IInv, UNCHANGED <<dir, links, unit, ledger, op, scripts>>,
           faults' \in 0..MaxFaults, timer' \in BOOLEAN, timer => timer',
           api' \in {api, Fresh, Down}, worker' \in {worker, current},
           ~HasWorker => worker' = worker
    PROVE  IInv'
<1>1. TypeOK'
      BY FreshFits, Types DEF IInv, TypeOK, Releases, links
<1>2. GoalKnown'  BY DEF IInv, GoalKnown
<1>3. Progress'
      BY SameLedger, SameDirs
      DEF IInv, Progress, Goal, links, Fresh, Gates, Installed, Linked, Labelled, Serving
<1>4. InUse'
      BY SameLedger, SameDirs DEF IInv, InUse, links, Fresh, Down
<1>5. PassedMeansLive'
      BY DEF IInv, PassedMeansLive, At, links, Fresh
<1>6. RestoredMeansUndone'
      BY DEF IInv, RestoredMeansUndone, At, links, Fresh
<1> QED BY <1>1, <1>2, <1>3, <1>4, <1>5, <1>6 DEF IInv

LEMMA RebootStep ==
    ASSUME IInv, Reboot
    PROVE  IInv'
<1>1. CASE At("idle")
      BY <1>1, Faults, RestartsStep DEF Reboot, IInv, TypeOK
<1>2. CASE ~At("idle")
  <2>1. op' \in Ops /\ Exit("killed")  BY <1>2, OpFields DEF Reboot, Exit, IInv
  <2>2. TypeOK'
        BY <2>1, Faults, FreshFits, Types DEF Reboot, IInv, TypeOK, Releases, links
  <2>3. InUse'
        BY SameLedger, SameDirs DEF Reboot, IInv, InUse, links, Fresh
  <2> QED BY <2>1, <2>2, <2>3, EndStep
<1> QED BY <1>1, <1>2

LEMMA ApiRestartsStep ==
    ASSUME IInv, ApiRestarts
    PROVE  IInv'
BY Faults, RestartsStep DEF ApiRestarts, IInv, TypeOK

LEMMA WorkerRestartsStep ==
    ASSUME IInv, WorkerRestarts
    PROVE  IInv'
BY Faults, RestartsStep DEF WorkerRestarts, IInv, TypeOK

-----------------------------------------------------------------------------
(* The ledger.                                                             *)

\* Migrate and Mark write the ledger as SchemaLedger allows.
LEMMA MigrateExtends ==
    ASSUME IInv, Migrate
    PROVE  ledger' \in SL!Ledgers /\ SL!Extends(ledger, ledger')
<1>0. PICK s \in Sha : \E n \in DOMAIN Manifest[s] \ DOMAIN ledger :
         ledger' = [m \in DOMAIN ledger \cup {n} |->
                      IF m = n THEN [sum |-> Manifest[s][n], mode |-> "apply",
                                     safe |-> Directive[Manifest[s][n]]]
                      ELSE ledger[m]]
      BY DEF Migrate
<1>1. PICK n \in DOMAIN Manifest[s] \ DOMAIN ledger :
         ledger' = [m \in DOMAIN ledger \cup {n} |->
                      IF m = n THEN [sum |-> Manifest[s][n], mode |-> "apply",
                                     safe |-> Directive[Manifest[s][n]]]
                      ELSE ledger[m]]
      BY <1>0
<1>2. PICK D \in SUBSET Number : ledger \in [D -> SL!Row]
      BY DEF IInv, TypeOK, SL!Ledgers
<1>3. D \cup {n} \in SUBSET Number  BY <1>1, DeploymentAssumption
<1>4. [sum |-> Manifest[s][n], mode |-> "apply", safe |-> Directive[Manifest[s][n]]]
         \in SL!Row
      BY <1>1, DeploymentAssumption DEF SL!Row, SL!Flag
<1>5. ledger' \in [D \cup {n} -> SL!Row]  BY <1>1, <1>2, <1>4
<1>6. ledger' \in SL!Ledgers  BY <1>3, <1>5 DEF SL!Ledgers
<1>7. \A m \in DOMAIN ledger : ledger'[m] = ledger[m]  BY <1>1
<1>8. DOMAIN ledger \subseteq DOMAIN ledger'  BY <1>1
<1> QED BY <1>6, <1>7, <1>8 DEF SL!Extends

LEMMA MarkExtends ==
    ASSUME IInv, Mark
    PROVE  ledger' \in SL!Ledgers /\ SL!Extends(ledger, ledger')
<1>1. PICK n \in DOMAIN ledger, flag \in {"yes", "no"} :
         ledger[n].safe = "unknown" /\ ledger' = [ledger EXCEPT ![n].safe = flag]
      BY DEF Mark
<1>2. PICK D \in SUBSET Number : ledger \in [D -> SL!Row]
      BY DEF IInv, TypeOK, SL!Ledgers
<1>3. ledger[n] \in SL!Row /\ n \in D  BY <1>1, <1>2
<1> DEFINE row == [ledger[n] EXCEPT !.safe = flag]
<1>4. /\ row \in SL!Row /\ row.sum = ledger[n].sum /\ row.mode = ledger[n].mode
      BY <1>3 DEF SL!Row, SL!Flag
<1>5. ledger' = [ledger EXCEPT ![n] = row]  BY <1>1
<1> HIDE DEF row
<1>6. ledger' \in [D -> SL!Row]  BY <1>2, <1>4, <1>5
<1>7. ledger' \in SL!Ledgers  BY <1>6 DEF SL!Ledgers
<1> QED BY <1>1, <1>2, <1>4, <1>5, <1>6, <1>7 DEF SL!Extends

\* What a ledger covers, an extension of it covers.
LEMMA LedgerStep ==
    ASSUME IInv, Migrate \/ Mark
    PROVE  IInv'
<1>1. ledger' \in SL!Ledgers /\ SL!Extends(ledger, ledger')
      BY MigrateExtends, MarkExtends
<1>2. UNCHANGED <<dir, current, previous, env, unit, timer, api, worker, op,
                  scripts, faults>>
      BY DEF Migrate, Mark, links, services
<1>3. Covered \subseteq Covered'
      BY <1>1 DEF Covered, Applied, SL!Extends
<1>4. TypeOK'  BY <1>1, <1>2, Types DEF IInv, TypeOK, Releases
<1>5. GoalKnown'  BY <1>2 DEF IInv, GoalKnown
<1>6. Progress'  BY <1>2, <1>3, SameDirs DEF IInv, Progress, Goal
<1>7. InUse'  BY <1>2, <1>3, SameDirs DEF IInv, InUse
<1>8. PassedMeansLive'  BY <1>2 DEF IInv, PassedMeansLive, At
<1>9. RestoredMeansUndone'  BY <1>2 DEF IInv, RestoredMeansUndone, At
<1> QED BY <1>2, <1>4, <1>5, <1>6, <1>7, <1>8, <1>9 DEF IInv

-----------------------------------------------------------------------------
LEMMA ScriptIInv == IInv /\ Script => IInv'
<1> SUFFICES ASSUME IInv, Script PROVE IInv'
    OBVIOUS
<1>1. ASSUME NEW s \in Sha, (\E same \in BOOLEAN : StartDeploy(s, same)) \/ StartRollback(s)
      PROVE  IInv'
      BY <1>1, BeginStep DEF StartDeploy, StartRollback
<1> QED BY <1>1, BuildBeginStep, BuildEndStep, GateStepStep, QuiesceStep, UnitStepStep,
           ActivateValidateStep, LinkPreviousStep, LinkCurrentStep, WriteEnvStep,
           ActivateFailsStep, RestartApiStep, ProbeStep, UnhealthyStep, ResumeStep,
           RestartWorkerStep, PruneStep DEF Script

LEMMA WorldIInv == IInv /\ World => IInv'
BY KillStep, KillInPruneStep, RebootStep, ApiRestartsStep, WorkerRestartsStep, LedgerStep
   DEF World

LEMMA StutterIInv == IInv /\ UNCHANGED vars => IInv'
<1> SUFFICES ASSUME IInv, UNCHANGED vars PROVE IInv'
    OBVIOUS
<1>1. /\ UNCHANGED <<dir, links, unit, ledger, op, scripts>>
      /\ UNCHANGED <<timer, faults, api, worker>>
      BY DEF vars, links
<1> QED BY <1>1, RestartsStep DEF IInv, TypeOK

LEMMA AlwaysIInv == Spec => []IInv
<1>1. IInv /\ [Next]_vars => IInv'
      BY ScriptIInv, WorldIInv, StutterIInv DEF Next
<1> QED BY InitIInv, <1>1, PTL DEF Spec

-----------------------------------------------------------------------------
\* Every variable keeps its type.
THEOREM DeploymentTypeCorrect == Spec => []TypeOK
BY AlwaysIInv, PTL DEF IInv

\* compare_migrations in the release gate: no service runs, or would start on,
\* code whose migrations the database lacks.  That a migration lands while a
\* script runs does not matter, since a ledger only grows.
THEOREM CodeHasItsSchema == Spec => []SchemaCoversCode
<1>1. IInv => SchemaCoversCode
      BY DEF IInv, InUse, SchemaCoversCode, Covered, Applied
<1> QED BY <1>1, AlwaysIInv, PTL

\* deploy-production.sh and rollback-production.sh: PASSED means the host is on
\* the target.
THEOREM PassedIsLive == Spec => []PassedMeansLive
BY AlwaysIInv, PTL DEF IInv

\* The restoration both scripts fall back to, once it reports success, has put
\* the original release back.
THEOREM RestoredIsUndone == Spec => []RestoredMeansUndone
BY AlwaysIInv, PTL DEF IInv

\* prune_releases and build_release: what a symlink points at or a service runs
\* from is never a removed or unfinished directory, wherever a kill falls.
THEOREM InUseExists == Spec => []ReleasesInUseExist
<1>1. IInv => ReleasesInUseExist
      BY DEF IInv, InUse, ReleasesInUseExist, Usable
<1> QED BY <1>1, AlwaysIInv, PTL

\* Every step writes the ledger as SchemaLedger lets migration_manager.py: the
\* database around a deployment is the one Migrations is shown to implement.
THEOREM LedgerAsPromised == Spec => [][SL!Next]_ledger
<1>1. ASSUME IInv, Next PROVE SL!Next \/ UNCHANGED ledger
  <2>1. CASE Migrate \/ Mark  BY <1>1, <2>1, MigrateExtends, MarkExtends DEF SL!Next
  <2>2. CASE ~(Migrate \/ Mark)
        BY <1>1, <2>2
        DEF Next, Script, World, StartDeploy, StartRollback, Begin, BuildBegin, BuildEnd,
            GateStep, Quiesce, UnitStep, ActivateValidate, LinkPrevious, LinkCurrent,
            WriteEnv, ActivateFails, RestartApi, ProbeOK, ProbeFails, Unhealthy, Resume,
            RestartWorker, Prune, Kill, KillInPrune, Reboot, ApiRestarts, WorkerRestarts
  <2> QED BY <2>1, <2>2
<1>2. UNCHANGED vars => UNCHANGED ledger  BY DEF vars
<1>3. IInv /\ [Next]_vars => [SL!Next]_ledger  BY <1>1, <1>2
<1> QED BY <1>3, AlwaysIInv, PTL DEF Spec
=============================================================================
