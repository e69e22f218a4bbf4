-------------------------- MODULE AuditQueueProofs --------------------------
(***************************************************************************)
(* Proofs about AuditQueue, for any number of jobs, slots and processes.   *)
(***************************************************************************)
EXTENDS AuditQueue, FiniteSetTheorems, TLAPS

-----------------------------------------------------------------------------
(* What the UPDATEs do to a row, field by field *)

\* A row keeps its type under every UPDATE that does not count an attempt.
LEMMA RowUpdatesType ==
    ASSUME NEW r \in Rows
    PROVE  /\ MarkedQueued(r) \in Rows
           /\ Succeeded(r) \in Rows
           /\ DeadLettered(r) \in Rows
           /\ Retried(r) \in Rows
           /\ Released(r) \in Rows
           /\ Requeued(r) \in Rows
<1> USE BoundsAssumption DEF BoundsAssumption, Rows, JobStates
<1>1. MarkedQueued(r) \in Rows  BY DEF MarkedQueued
<1>2. Succeeded(r) \in Rows     BY DEF Succeeded
<1>3. DeadLettered(r) \in Rows  BY DEF DeadLettered
<1>4. Retried(r) \in Rows       BY DEF Retried
<1>5. Released(r) \in Rows
  <2> DEFINE a == IF r.attempts > 0 THEN r.attempts - 1 ELSE 0
  <2>1. a \in 0..MaxAttempts     OBVIOUS
  <2> HIDE DEF a
  <2>2. [r EXCEPT !.state = "queued", !.claimedBy = NoSlot,
                  !.timer = "due", !.attempts = a] \in Rows
        BY <2>1
  <2> QED BY <2>2 DEF Released, a
<1>6. Requeued(r) \in Rows      BY DEF Requeued
<1> QED BY <1>1, <1>2, <1>3, <1>4, <1>5, <1>6

\* claim_one's unguarded increment stays in range below the bound.
LEMMA ClaimedType ==
    ASSUME NEW r \in Rows, NEW w \in Slots, r.attempts < MaxAttempts
    PROVE  Claimed(r, w) \in Rows
<1> DEFINE a == r.attempts + 1
<1>1. a \in 0..MaxAttempts
      BY BoundsAssumption DEF BoundsAssumption, Rows
<1> HIDE DEF a
<1>2. [r EXCEPT !.state = "running", !.claimedBy = w, !.attempts = a,
                !.timer = "set"] \in Rows
      BY <1>1 DEF Rows, JobStates
<1> QED BY <1>2 DEF Claimed, a

LEMMA RowUpdatesFields ==
    ASSUME NEW r \in Rows
    PROVE  /\ /\ MarkedQueued(r).state = "queued"
              /\ MarkedQueued(r).attempts = r.attempts
              /\ MarkedQueued(r).sourceRef = TRUE
           /\ /\ Succeeded(r).state = "succeeded"
              /\ Succeeded(r).attempts = r.attempts
           /\ /\ DeadLettered(r).state = "dead_letter"
              /\ DeadLettered(r).attempts = r.attempts
           /\ /\ Retried(r).state = "queued"
              /\ Retried(r).attempts = r.attempts
              /\ Retried(r).sourceRef = r.sourceRef
           /\ /\ Released(r).state = "queued"
              /\ r.attempts > 0 => Released(r).attempts = r.attempts - 1
              /\ Released(r).sourceRef = r.sourceRef
           /\ /\ Requeued(r).state = "queued"
              /\ Requeued(r).attempts = r.attempts
              /\ Requeued(r).sourceRef = r.sourceRef
    BY DEF Rows, MarkedQueued, Succeeded, DeadLettered, Retried, Released,
           Requeued

LEMMA ClaimedFields ==
    ASSUME NEW r \in Rows, NEW w
    PROVE  /\ Claimed(r, w).state = "running"
           /\ Claimed(r, w).claimedBy = w
           /\ Claimed(r, w).attempts = r.attempts + 1
           /\ Claimed(r, w).sourceRef = r.sourceRef
    BY DEF Rows, Claimed

-----------------------------------------------------------------------------
(* The attempt budget *)

\* What AttemptsAccounted says of one row, made inductive: a row that was never
\* queued has used no attempt.
Accounted(r, b) ==
    /\ r.state \in {"none", "created", "queued", "dead_letter"} =>
          r.attempts = b
    /\ r.state \in {"running", "succeeded"} => r.attempts = b + 1
    /\ r.state = "queued" => r.attempts < MaxAttempts
    /\ r.state \in {"none", "created"} => r.attempts = 0

Budgeted == /\ row \in [Jobs -> Rows]
            /\ burnt \in [Jobs -> 0..MaxAttempts]
            /\ \A j \in Jobs : Accounted(row[j], burnt[j])

LEMMA AccountedUpdates ==
    ASSUME NEW r \in Rows, NEW b \in 0..MaxAttempts, Accounted(r, b)
    PROVE  /\ r.state = "created" => /\ Accounted(MarkedQueued(r), b)
                                     /\ Accounted(DeadLettered(r), b)
           /\ r.state = "queued" =>
                 \A w : Accounted(Claimed(r, w), b)
           /\ r.state = "running" =>
                 /\ Accounted(Succeeded(r), b)
                 /\ Accounted(Released(r), b)
                 /\ b + 1 \in 0..MaxAttempts
                 /\ Accounted(DeadLettered(r), b + 1)
                 /\ r.attempts < MaxAttempts =>
                       /\ Accounted(Retried(r), b + 1)
                       /\ Accounted(Requeued(r), b + 1)
<1> USE BoundsAssumption DEF BoundsAssumption, Accounted
<1>0. r.attempts \in 0..MaxAttempts  BY DEF Rows
<1>m. /\ MarkedQueued(r).state = "queued"
      /\ MarkedQueued(r).attempts = r.attempts
      BY RowUpdatesFields
<1>s. /\ Succeeded(r).state = "succeeded"
      /\ Succeeded(r).attempts = r.attempts
      BY RowUpdatesFields
<1>d. /\ DeadLettered(r).state = "dead_letter"
      /\ DeadLettered(r).attempts = r.attempts
      BY RowUpdatesFields
<1>q. /\ Retried(r).state = "queued"
      /\ Retried(r).attempts = r.attempts
      /\ Requeued(r).state = "queued"
      /\ Requeued(r).attempts = r.attempts
      BY RowUpdatesFields
<1>e. /\ Released(r).state = "queued"
      /\ r.attempts > 0 => Released(r).attempts = r.attempts - 1
      BY RowUpdatesFields
<1>1. ASSUME r.state = "created"
      PROVE  Accounted(MarkedQueued(r), b) /\ Accounted(DeadLettered(r), b)
      BY <1>0, <1>1, <1>m, <1>d
<1>2. ASSUME r.state = "queued", NEW w  PROVE Accounted(Claimed(r, w), b)
      BY <1>0, <1>2, ClaimedFields
<1>3. ASSUME r.state = "running"
      PROVE  /\ Accounted(Succeeded(r), b)
             /\ Accounted(Released(r), b)
             /\ b + 1 \in 0..MaxAttempts
             /\ Accounted(DeadLettered(r), b + 1)
             /\ r.attempts < MaxAttempts =>
                   /\ Accounted(Retried(r), b + 1)
                   /\ Accounted(Requeued(r), b + 1)
      BY <1>0, <1>3, <1>s, <1>d, <1>q, <1>e
<1> QED BY <1>1, <1>2, <1>3

\* A step that changes one row keeps the budget if the new row is accounted for.
LEMMA BudgetPoint ==
    ASSUME Budgeted, NEW j \in Jobs, NEW r \in Rows, NEW b \in 0..MaxAttempts,
           Accounted(r, b),
           row' = [row EXCEPT ![j] = r], burnt' = [burnt EXCEPT ![j] = b]
    PROVE  Budgeted'
    BY DEF Budgeted

LEMMA BudgetSame ==
    ASSUME Budgeted, UNCHANGED <<row, burnt>>
    PROVE  Budgeted'
    BY DEF Budgeted

\* The same for a row whose count of used-up attempts stays as it is.
LEMMA BudgetRow ==
    ASSUME Budgeted, NEW j \in Jobs, NEW r \in Rows, Accounted(r, burnt[j]),
           row' = [row EXCEPT ![j] = r], burnt' = burnt
    PROVE  Budgeted'
    BY DEF Budgeted

LEMMA BudgetClaim ==
    ASSUME Budgeted, NEW j \in Jobs, NEW w \in Slots, Claimable(j),
           row' = [row EXCEPT ![j] = Claimed(@, w)], burnt' = burnt
    PROVE  Budgeted'
<1>1. /\ row[j] \in Rows /\ burnt[j] \in 0..MaxAttempts
      /\ Accounted(row[j], burnt[j]) /\ row[j].state = "queued"
      BY DEF Budgeted, Claimable
<1>2. Accounted(Claimed(row[j], w), burnt[j])
      BY <1>1, AccountedUpdates
<1>3. row[j].attempts < MaxAttempts
      BY <1>1 DEF Accounted
<1>4. Claimed(row[j], w) \in Rows
      BY <1>1, <1>3, ClaimedType
<1>5. row' = [row EXCEPT ![j] = Claimed(row[j], w)]
      OBVIOUS
<1> QED BY <1>2, <1>4, <1>5, BudgetRow

LEMMA BudgetFinalize ==
    ASSUME Budgeted, NEW w \in Slots, FinalizeRow(w)
    PROVE  Budgeted'
<1> DEFINE j == slot[w].job
<1>1. CASE ~Holds(w)
      BY <1>1, BudgetSame DEF FinalizeRow
<1>2. CASE Holds(w)
  <2>1. /\ j \in Jobs /\ row[j] \in Rows /\ burnt[j] \in 0..MaxAttempts
        /\ Accounted(row[j], burnt[j]) /\ row[j].state = "running"
        BY <1>2 DEF Budgeted, Holds
  <2>2. CASE slot[w].phase = "ok"
    <3>1. /\ row' = [row EXCEPT ![j] = Succeeded(row[j])]
          /\ burnt' = burnt
          BY <1>2, <2>2 DEF FinalizeRow
    <3>2. Accounted(Succeeded(row[j]), burnt[j])
          BY <2>1, AccountedUpdates
    <3>3. Succeeded(row[j]) \in Rows
          BY <2>1, RowUpdatesType
    <3> QED BY <2>1, <3>1, <3>2, <3>3, BudgetRow
  <2>3. CASE slot[w].phase # "ok"
    <3> DEFINE r == Failed(row[j], slot[w].phase = "permanent")
    <3>1. /\ row' = [row EXCEPT ![j] = r]
          /\ burnt' = [burnt EXCEPT ![j] = burnt[j] + 1]
          BY <1>2, <2>3 DEF FinalizeRow
    <3>2. /\ burnt[j] + 1 \in 0..MaxAttempts
          /\ Accounted(DeadLettered(row[j]), burnt[j] + 1)
          /\ row[j].attempts < MaxAttempts =>
                Accounted(Retried(row[j]), burnt[j] + 1)
          BY <2>1, AccountedUpdates
    <3>3. DeadLettered(row[j]) \in Rows /\ Retried(row[j]) \in Rows
          BY <2>1, RowUpdatesType
    <3>4. row[j].attempts >= MaxAttempts \/ row[j].attempts < MaxAttempts
          BY <2>1, BoundsAssumption DEF BoundsAssumption, Rows
    <3>5. r \in Rows /\ Accounted(r, burnt[j] + 1)
          BY <3>2, <3>3, <3>4 DEF Failed, Exhausted
    <3> HIDE DEF r
    <3> QED BY <2>1, <3>1, <3>2, <3>5, BudgetPoint
  <2> QED BY <2>2, <2>3
<1> QED BY <1>1, <1>2

LEMMA BudgetRelease ==
    ASSUME Budgeted, NEW w \in Slots, ReleaseRow(w), burnt' = burnt
    PROVE  Budgeted'
<1> DEFINE j == slot[w].job
<1>1. CASE ~Holds(w)
      BY <1>1, BudgetSame DEF ReleaseRow
<1>2. CASE Holds(w)
  <2>1. /\ j \in Jobs /\ row[j] \in Rows /\ burnt[j] \in 0..MaxAttempts
        /\ Accounted(row[j], burnt[j]) /\ row[j].state = "running"
        BY <1>2 DEF Budgeted, Holds
  <2>2. row' = [row EXCEPT ![j] = Released(row[j])]
        BY <1>2 DEF ReleaseRow
  <2>3. Accounted(Released(row[j]), burnt[j]) /\ Released(row[j]) \in Rows
        BY <2>1, AccountedUpdates, RowUpdatesType
  <2> QED BY <2>1, <2>2, <2>3, BudgetRow
<1> QED BY <1>1, <1>2

LEMMA BudgetStatement ==
    ASSUME Budgeted, NEW w \in Slots, StatementCommits(w)
    PROVE  Budgeted'
<1>1. CASE \E j \in Jobs : /\ Claimable(j)
                           /\ row' = [row EXCEPT ![j] = Claimed(@, w)]
                           /\ burnt' = burnt
      BY <1>1, BudgetClaim
<1>2. CASE FinalizeRow(w)
      BY <1>2, BudgetFinalize
<1>3. CASE ReleaseRow(w) /\ burnt' = burnt
      BY <1>3, BudgetRelease
<1> QED BY <1>1, <1>2, <1>3 DEF StatementCommits

LEMMA BudgetReap ==
    ASSUME Budgeted, ReapExpired
    PROVE  Budgeted'
<1>1. ASSUME NEW j \in Jobs, Reapable(j)
      PROVE  /\ ReapedRow(row[j]) \in Rows
             /\ burnt[j] + 1 \in 0..MaxAttempts
             /\ Accounted(ReapedRow(row[j]), burnt[j] + 1)
  <2>1. /\ row[j] \in Rows /\ burnt[j] \in 0..MaxAttempts
        /\ Accounted(row[j], burnt[j]) /\ row[j].state = "running"
        BY <1>1 DEF Budgeted, Reapable
  <2>2. /\ burnt[j] + 1 \in 0..MaxAttempts
        /\ Accounted(DeadLettered(row[j]), burnt[j] + 1)
        /\ row[j].attempts < MaxAttempts =>
              Accounted(Requeued(row[j]), burnt[j] + 1)
        BY <2>1, AccountedUpdates
  <2>3. DeadLettered(row[j]) \in Rows /\ Requeued(row[j]) \in Rows
        BY <2>1, RowUpdatesType
  <2> QED BY <2>2, <2>3 DEF ReapedRow
<1>2. /\ row' = [j \in Jobs |-> IF Reapable(j) THEN ReapedRow(row[j])
                               ELSE row[j]]
      /\ burnt' = [j \in Jobs |-> IF Reapable(j) THEN burnt[j] + 1
                                 ELSE burnt[j]]
      BY DEF ReapExpired
<1> QED BY <1>1, <1>2 DEF Budgeted

\* The steps that touch a row before any worker has seen it.
LEMMA BudgetIntake ==
    ASSUME Budgeted, NEW j \in Jobs,
           \/ Enqueue(j) \/ MarkQueued(j) \/ AbandonCreated(j)
           \/ RequestFails(j) \/ TimePasses(j)
    PROVE  Budgeted'
<1> USE DEF workerVars, otherVars
<1>0. /\ row[j] \in Rows /\ burnt[j] \in 0..MaxAttempts
      /\ Accounted(row[j], burnt[j])
      BY DEF Budgeted
<1>m. ASSUME StillCreated(j)
      PROVE  /\ MarkedQueued(row[j]) \in Rows
             /\ Accounted(MarkedQueued(row[j]), burnt[j])
             /\ DeadLettered(row[j]) \in Rows
             /\ Accounted(DeadLettered(row[j]), burnt[j])
      BY <1>0, <1>m, AccountedUpdates, RowUpdatesType DEF StillCreated
<1>1. ASSUME Enqueue(j)  PROVE Budgeted'
  <2>1. burnt[j] = 0
        BY <1>0, <1>1 DEF Enqueue, Accounted
  <2> DEFINE c == [NoRow EXCEPT !.state = "created"]
             q == [NoRow EXCEPT !.state = "queued", !.timer = "due",
                                !.sourceRef = TRUE]
  <2>2. \E r \in {c, q} : row' = [row EXCEPT ![j] = r] /\ burnt' = burnt
        BY <1>1 DEF Enqueue
  <2>3. 0 \in 0..MaxAttempts /\ 0 < MaxAttempts
        BY BoundsAssumption DEF BoundsAssumption
  <2>4. c \in Rows /\ q \in Rows
        BY <2>3 DEF NoRow, Rows, JobStates
  <2>5. c.attempts = 0 /\ q.attempts = 0
        BY DEF NoRow
  <2>6. c.state = "created" /\ q.state = "queued"
        BY DEF NoRow
  <2> HIDE DEF c, q
  <2>7. Accounted(c, burnt[j]) /\ Accounted(q, burnt[j])
        BY <2>1, <2>3, <2>5, <2>6 DEF Accounted
  <2> QED BY <2>2, <2>4, <2>7, BudgetRow
<1>2. ASSUME MarkQueued(j)  PROVE Budgeted'
  <2>1. CASE StillCreated(j)
    <3>1. row' = [row EXCEPT ![j] = MarkedQueued(row[j])] /\ burnt' = burnt
          BY <1>2, <2>1 DEF MarkQueued
    <3> QED BY <1>m, <2>1, <3>1, BudgetRow
  <2>2. CASE ~StillCreated(j)
        BY <1>2, <2>2, BudgetSame DEF MarkQueued
  <2> QED BY <2>1, <2>2
<1>3. ASSUME AbandonCreated(j)  PROVE Budgeted'
  <2>1. CASE StillCreated(j)
    <3>1. row' = [row EXCEPT ![j] = DeadLettered(row[j])] /\ burnt' = burnt
          BY <1>3, <2>1 DEF AbandonCreated
    <3> QED BY <1>m, <2>1, <3>1, BudgetRow
  <2>2. CASE ~StillCreated(j)
        BY <1>3, <2>2, BudgetSame DEF AbandonCreated
  <2> QED BY <2>1, <2>2
<1>4. ASSUME RequestFails(j)  PROVE Budgeted'
  <2>1. CASE row' = row
        BY <1>4, <2>1, BudgetSame DEF RequestFails
  <2>2. CASE row' # row
    <3>1. PICK r \in {MarkedQueued(row[j]), DeadLettered(row[j])} :
                 row' = [row EXCEPT ![j] = r] /\ burnt' = burnt
          BY <1>4, <2>2 DEF RequestFails
    <3>2. StillCreated(j)
          BY <1>4, <2>2 DEF RequestFails
    <3> QED BY <1>m, <3>1, <3>2, BudgetRow
  <2> QED BY <2>1, <2>2
<1>5. ASSUME TimePasses(j)  PROVE Budgeted'
  <2> DEFINE r == [row[j] EXCEPT !.timer = "due"]
  <2>1. row' = [row EXCEPT ![j] = r] /\ burnt' = burnt
        BY <1>5 DEF TimePasses
  <2>2. r \in Rows /\ r.state = row[j].state /\ r.attempts = row[j].attempts
        BY <1>0 DEF Rows
  <2>3. Accounted(r, burnt[j])
        BY <1>0, <2>2 DEF Accounted
  <2> QED BY <2>1, <2>2, <2>3, BudgetRow
<1> QED BY <1>1, <1>2, <1>3, <1>4, <1>5

LEMMA BudgetStuck ==
    ASSUME Budgeted, ReapStuckCreated
    PROVE  Budgeted'
<1>1. ASSUME NEW j \in Jobs, StuckCreated(j)
      PROVE  /\ DeadLettered(row[j]) \in Rows
             /\ Accounted(DeadLettered(row[j]), burnt[j])
  <2>1. /\ row[j] \in Rows /\ burnt[j] \in 0..MaxAttempts
        /\ Accounted(row[j], burnt[j]) /\ row[j].state = "created"
        BY <1>1 DEF Budgeted, StuckCreated
  <2> QED BY <2>1, AccountedUpdates, RowUpdatesType
<1>2. /\ row' = [j \in Jobs |-> IF StuckCreated(j) THEN DeadLettered(row[j])
                               ELSE row[j]]
      /\ burnt' = burnt
      BY DEF ReapStuckCreated, workerVars
<1> QED BY <1>1, <1>2 DEF Budgeted

LEMMA BudgetRenew ==
    ASSUME Budgeted, NEW w \in Slots, RenewLease(w)
    PROVE  Budgeted'
<1> DEFINE j == slot[w].job
           r == [row[j] EXCEPT !.timer = "set"]
<1>1. CASE ~Holds(w)
      BY <1>1, BudgetSame DEF RenewLease
<1>2. CASE Holds(w)
  <2>1. /\ j \in Jobs /\ row[j] \in Rows /\ Accounted(row[j], burnt[j])
        BY <1>2 DEF Budgeted, Holds
  <2>2. row' = [row EXCEPT ![j] = r] /\ burnt' = burnt
        BY <1>2 DEF RenewLease
  <2>3. r \in Rows /\ r.state = row[j].state /\ r.attempts = row[j].attempts
        BY <2>1 DEF Rows
  <2>4. Accounted(r, burnt[j])
        BY <2>1, <2>3 DEF Accounted
  <2> QED BY <2>1, <2>2, <2>3, <2>4, BudgetRow
<1> QED BY <1>1, <1>2

\* The budget holds in every state.
LEMMA BudgetStep ==
    ASSUME Budgeted, [Next]_vars
    PROVE  Budgeted'
<1> USE DEF workerVars, otherVars
<1>1. ASSUME NEW j \in Jobs,
             \/ Enqueue(j) \/ MarkQueued(j) \/ AbandonCreated(j)
             \/ RequestFails(j) \/ TimePasses(j)
      PROVE  Budgeted'
      BY <1>1, BudgetIntake
<1>2. ASSUME NEW j \in Jobs,
             \/ SpoolCheck(j) \/ OpenTemp(j) \/ ReplaceTemp(j)
             \/ CleanupStaged(j) \/ StagingFails(j) \/ ArchiveAges(j)
      PROVE  Budgeted'
      BY <1>2, BudgetSame DEF SpoolCheck, OpenTemp, ReplaceTemp,
         CleanupStaged, StagingFails, ArchiveAges
<1>3. ASSUME NEW w \in Slots,
             \/ CheckStop(w) \/ LeaveLoop(w) \/ LoadPayload(w)
             \/ ScanFinishes(w) \/ DiscardPayload(w) \/ HeartbeatRaises(w)
      PROVE  Budgeted'
      BY <1>3, BudgetSame DEF CheckStop, LeaveLoop, LoadPayload,
         ScanFinishes, DiscardPayload, HeartbeatRaises
<1>4. ASSUME NEW w \in Slots, ClaimOne(w)  PROVE Budgeted'
      BY <1>4, BudgetSame, BudgetClaim DEF ClaimOne
<1>5. ASSUME NEW w \in Slots, FinalizeSucceeded(w) \/ FinalizeFailed(w)
      PROVE  Budgeted'
      BY <1>5, BudgetSame, BudgetFinalize
         DEF FinalizeSucceeded, FinalizeFailed
<1>6. ASSUME NEW w \in Slots, ReleaseEarly(w)  PROVE Budgeted'
      BY <1>6, BudgetRelease DEF ReleaseEarly
<1>7. ASSUME NEW w \in Slots, CancelSlot(w) \/ SlotDies(w)  PROVE Budgeted'
      BY <1>7, BudgetSame, BudgetStatement DEF CancelSlot, SlotDies
<1>8. ASSUME NEW w \in Slots, RenewLease(w)  PROVE Budgeted'
      BY <1>8, BudgetRenew
<1>9. ASSUME NEW p \in Procs,
             \/ GraceExpires(p) \/ WorkerExits(p) \/ Restart(p)
             \/ Sigterm(p) \/ Kill(p)
      PROVE  Budgeted'
      BY <1>9, BudgetSame DEF GraceExpires, WorkerExits, Restart, Sigterm,
         Kill
<1>10. ASSUME ApiCrash \/ SweepArchives \/ EngageStop \/ LiftStop
       PROVE  Budgeted'
       BY <1>10, BudgetSame DEF ApiCrash, SweepArchives, EngageStop, LiftStop
<1>11. CASE UNCHANGED vars
       BY <1>11, BudgetSame DEF vars
<1> QED BY <1>1, <1>2, <1>3, <1>4, <1>5, <1>6, <1>7, <1>8, <1>9, <1>10,
           <1>11, BudgetReap, BudgetStuck
        DEF Next, ApiStep, SlotStep, ProcStep

-----------------------------------------------------------------------------
(* Type correctness *)

\* The variables other than the rows.
TypeRest ==
    /\ file \in [Jobs -> FileStates]
    /\ api \in [Jobs -> ApiSteps]
    /\ slot \in [Slots -> SlotRecords]
    /\ proc \in [Procs -> ProcStates]
    /\ stopped \in BOOLEAN
    /\ disturbances \in 0..MaxDisturbances
    /\ writtenOff \in [Slots -> BOOLEAN]

LEMMA VacantType ==
    ASSUME NEW p \in SlotPhases
    PROVE  Vacant(p) \in SlotRecords
<1>1. 0 \in 0..MaxAttempts
      BY BoundsAssumption DEF BoundsAssumption
<1> QED BY <1>1 DEF Vacant, SlotRecords, HeartStates

LEMMA VacateType ==
    ASSUME TypeRest, NEW w \in Slots, NEW p \in SlotPhases, Vacate(w, p)
    PROVE  /\ slot' \in [Slots -> SlotRecords]
           /\ writtenOff' \in [Slots -> BOOLEAN]
    BY VacantType DEF TypeRest, Vacate

LEMMA PhaseType ==
    ASSUME TypeRest, NEW w \in Slots, NEW p \in SlotPhases,
           slot' = [slot EXCEPT ![w].phase = p]
    PROVE  slot' \in [Slots -> SlotRecords]
    BY DEF TypeRest, SlotRecords

LEMMA HeartType ==
    ASSUME TypeRest, NEW w \in Slots, NEW h \in HeartStates,
           slot' = [slot EXCEPT ![w].heart = h]
    PROVE  slot' \in [Slots -> SlotRecords]
    BY DEF TypeRest, SlotRecords

LEMMA DiscardType ==
    ASSUME TypeRest, NEW w \in Slots,
           slot' = [slot EXCEPT ![w].phase = "discard", ![w].heart = "off"]
    PROVE  slot' \in [Slots -> SlotRecords]
<1> DEFINE s == [slot[w] EXCEPT !.phase = "discard", !.heart = "off"]
<1>1. slot \in [Slots -> SlotRecords]
      BY DEF TypeRest
<1>2. "discard" \in SlotPhases /\ "off" \in HeartStates
      BY DEF SlotPhases, HeartStates
<1>3. s \in SlotRecords
      BY <1>1, <1>2 DEF SlotRecords
<1>4. slot' = [slot EXCEPT ![w] = s]
      BY <1>1
<1> QED BY <1>1, <1>3, <1>4

LEMMA DisturbType ==
    ASSUME TypeRest, Disturb
    PROVE  disturbances' \in 0..MaxDisturbances
    BY BoundsAssumption DEF TypeRest, Disturb, BoundsAssumption

LEMMA TypeIntake ==
    ASSUME TypeRest, NEW j \in Jobs,
           \/ Enqueue(j) \/ ApiStep(j) \/ StagingFails(j) \/ RequestFails(j)
           \/ TimePasses(j) \/ ArchiveAges(j)
    PROVE  TypeRest'
<1> USE DEF workerVars, otherVars, TypeRest, FileStates, ApiSteps
<1>1. CASE Enqueue(j)       BY <1>1 DEF Enqueue
<1>2. CASE SpoolCheck(j)    BY <1>2 DEF SpoolCheck
<1>3. CASE OpenTemp(j)      BY <1>3 DEF OpenTemp
<1>4. CASE ReplaceTemp(j)   BY <1>4 DEF ReplaceTemp
<1>5. CASE MarkQueued(j)    BY <1>5 DEF MarkQueued
<1>6. CASE CleanupStaged(j) BY <1>6 DEF CleanupStaged
<1>7. CASE AbandonCreated(j) BY <1>7 DEF AbandonCreated
<1>8. CASE StagingFails(j)  BY <1>8, DisturbType DEF StagingFails
<1>9. CASE RequestFails(j)  BY <1>9, DisturbType DEF RequestFails
<1>10. CASE TimePasses(j)   BY <1>10 DEF TimePasses
<1>11. CASE ArchiveAges(j)  BY <1>11 DEF ArchiveAges
<1> QED BY <1>1, <1>2, <1>3, <1>4, <1>5, <1>6, <1>7, <1>8, <1>9, <1>10,
           <1>11 DEF ApiStep

LEMMA TypeSlot ==
    ASSUME TypeRest, Budgeted, NEW w \in Slots,
           SlotStep(w) \/ RenewLease(w) \/ HeartbeatRaises(w) \/ SlotDies(w)
    PROVE  TypeRest'
<1> USE DEF otherVars
<1>0. /\ {"off", "idle", "claim", "load", "scan", "ok", "transient",
          "permanent", "discard", "release"} \subseteq SlotPhases
      /\ {"off", "beating", "lost", "crashed"} \subseteq HeartStates
      BY DEF SlotPhases, HeartStates
<1>1. CASE CheckStop(w)
      BY <1>0, <1>1, VacateType DEF CheckStop, TypeRest
<1>2. CASE LeaveLoop(w)
      BY <1>0, <1>2, VacateType DEF LeaveLoop, TypeRest
<1>3. CASE ClaimOne(w)
  <2>1. ASSUME NEW j \in Jobs, Claimable(j)
        PROVE  [phase |-> "load", job |-> j, heart |-> "beating",
                seen |-> row[j].attempts + 1] \in SlotRecords
    <3>1. row[j].attempts + 1 \in 0..MaxAttempts
          BY <2>1, BoundsAssumption
             DEF Budgeted, Accounted, Rows, Claimable, BoundsAssumption
    <3> QED BY <1>0, <3>1 DEF SlotRecords
  <2>2. CASE Vacate(w, "idle")
        BY <1>0, <1>3, <2>2, VacateType DEF ClaimOne, TypeRest
  <2>3. CASE ~Vacate(w, "idle")
    <3>1. PICK j \in Jobs :
            /\ Claimable(j)
            /\ slot' = [slot EXCEPT ![w] =
                           [phase |-> "load", job |-> j, heart |-> "beating",
                            seen |-> row[j].attempts + 1]]
            /\ writtenOff' = [writtenOff EXCEPT ![w] = FALSE]
          BY <1>3, <2>3 DEF ClaimOne
    <3>2. slot' \in [Slots -> SlotRecords]
          BY <2>1, <3>1 DEF TypeRest
    <3>3. writtenOff' \in [Slots -> BOOLEAN]
          BY <3>1 DEF TypeRest
    <3> QED BY <1>3, <3>2, <3>3 DEF ClaimOne, TypeRest
  <2> QED BY <2>2, <2>3
<1>4. CASE LoadPayload(w)
  <2>1. \E p \in {"permanent", "scan"} : slot' = [slot EXCEPT ![w].phase = p]
        BY <1>4 DEF LoadPayload
  <2>2. slot' \in [Slots -> SlotRecords]
        BY <1>0, <2>1, PhaseType
  <2> QED BY <1>4, <2>2 DEF LoadPayload, TypeRest
<1>5. CASE ScanFinishes(w)
  <2>1. slot' \in [Slots -> SlotRecords]
        BY <1>0, <1>5, PhaseType DEF ScanFinishes
  <2> QED BY <1>5, <2>1 DEF ScanFinishes, TypeRest
<1>6. CASE FinalizeSucceeded(w)
  <2>1. /\ slot' \in [Slots -> SlotRecords]
        /\ writtenOff' \in [Slots -> BOOLEAN]
    <3>1. CASE Vacate(w, "idle")
          BY <1>0, <3>1, VacateType
    <3>2. CASE ~Vacate(w, "idle")
          BY <1>6, <3>2, DiscardType DEF FinalizeSucceeded, TypeRest
    <3> QED BY <3>1, <3>2
  <2> QED BY <1>6, <2>1 DEF FinalizeSucceeded, TypeRest
<1>7. CASE FinalizeFailed(w)
  <2>1. /\ slot' \in [Slots -> SlotRecords]
        /\ writtenOff' \in [Slots -> BOOLEAN]
    <3>1. CASE Vacate(w, "idle")
          BY <1>0, <3>1, VacateType
    <3>2. CASE ~Vacate(w, "idle")
          BY <1>7, <3>2, DiscardType DEF FinalizeFailed, TypeRest
    <3> QED BY <3>1, <3>2
  <2> QED BY <1>7, <2>1 DEF FinalizeFailed, TypeRest
<1>8. CASE DiscardPayload(w)
      BY <1>0, <1>8, VacateType DEF DiscardPayload, TypeRest, FileStates
<1>9. CASE ReleaseEarly(w)
      BY <1>0, <1>9, VacateType DEF ReleaseEarly, TypeRest
<1>10. CASE CancelSlot(w)
  <2>1. /\ slot' \in [Slots -> SlotRecords]
        /\ writtenOff' \in [Slots -> BOOLEAN]
    <3>1. CASE Vacate(w, "off")
          BY <1>0, <3>1, VacateType
    <3>2. CASE ~Vacate(w, "off")
          BY <1>0, <1>10, <3>2, PhaseType DEF CancelSlot, TypeRest
    <3> QED BY <3>1, <3>2
  <2> QED BY <1>10, <2>1 DEF CancelSlot, TypeRest
<1>11. CASE RenewLease(w)
  <2>1. /\ slot' \in [Slots -> SlotRecords]
        /\ writtenOff' \in [Slots -> BOOLEAN]
    <3>1. CASE Vacate(w, "idle")
          BY <1>0, <3>1, VacateType
    <3>2. CASE ~Vacate(w, "idle") /\ slot' # slot
          BY <1>0, <1>11, <3>2, HeartType DEF RenewLease, TypeRest
    <3>3. CASE ~Vacate(w, "idle") /\ slot' = slot
          BY <1>11, <3>3 DEF RenewLease, TypeRest
    <3> QED BY <3>1, <3>2, <3>3
  <2> QED BY <1>11, <2>1 DEF RenewLease, TypeRest
<1>12. CASE HeartbeatRaises(w)
       BY <1>0, <1>12, HeartType, DisturbType DEF HeartbeatRaises, TypeRest
<1>13. CASE SlotDies(w)
  <2>1. proc' \in [Procs -> ProcStates]
        BY <1>13 DEF SlotDies, TypeRest, ProcStates
  <2> QED BY <1>0, <1>13, <2>1, VacateType, DisturbType
          DEF SlotDies, TypeRest
<1> QED BY <1>1, <1>2, <1>3, <1>4, <1>5, <1>6, <1>7, <1>8, <1>9, <1>10,
           <1>11, <1>12, <1>13 DEF SlotStep

LEMMA TypeProc ==
    ASSUME TypeRest, NEW p \in Procs, ProcStep(p) \/ Sigterm(p) \/ Kill(p)
    PROVE  TypeRest'
<1> USE DEF otherVars
<1>0. Vacant("off") \in SlotRecords /\ Vacant("idle") \in SlotRecords
      BY VacantType DEF SlotPhases
<1>1. CASE GraceExpires(p)  BY <1>1 DEF GraceExpires, TypeRest, ProcStates
<1>2. CASE WorkerExits(p)   BY <1>2 DEF WorkerExits, TypeRest, ProcStates
<1>3. CASE Restart(p)       BY <1>0, <1>3 DEF Restart, TypeRest, ProcStates
<1>4. CASE Sigterm(p)
      BY <1>4, DisturbType DEF Sigterm, TypeRest, ProcStates
<1>5. CASE Kill(p)
      BY <1>0, <1>5, DisturbType DEF Kill, TypeRest, ProcStates
<1> QED BY <1>1, <1>2, <1>3, <1>4, <1>5 DEF ProcStep

LEMMA TypeStep ==
    ASSUME TypeRest, Budgeted, [Next]_vars
    PROVE  TypeRest'
<1> USE DEF workerVars, otherVars
<1>1. CASE ApiCrash
      BY <1>1, DisturbType DEF ApiCrash, TypeRest, ApiSteps
<1>2. CASE ReapExpired       BY <1>2 DEF ReapExpired, TypeRest
<1>3. CASE ReapStuckCreated  BY <1>3 DEF ReapStuckCreated, TypeRest
<1>4. CASE SweepArchives     BY <1>4 DEF SweepArchives, TypeRest, FileStates
<1>5. CASE EngageStop        BY <1>5, DisturbType DEF EngageStop, TypeRest
<1>6. CASE LiftStop          BY <1>6 DEF LiftStop, TypeRest
<1>7. CASE UNCHANGED vars    BY <1>7 DEF vars, TypeRest
<1> QED BY <1>1, <1>2, <1>3, <1>4, <1>5, <1>6, <1>7, TypeIntake, TypeSlot,
           TypeProc DEF Next

\* Init establishes the budget and the types.
LEMMA InitInv ==
    ASSUME Init
    PROVE  Budgeted /\ TypeRest
<1>1. 0 \in 0..MaxAttempts /\ 0 \in 0..MaxDisturbances
      BY BoundsAssumption DEF BoundsAssumption
<1>2. NoRow \in Rows /\ Accounted(NoRow, 0)
      BY <1>1 DEF NoRow, Rows, JobStates, Accounted
<1>3. Vacant("idle") \in SlotRecords
      BY VacantType DEF SlotPhases
<1> QED BY <1>1, <1>2, <1>3
        DEF Init, Budgeted, TypeRest, FileStates, ApiSteps, ProcStates

LEMMA InvariantHolds == Spec => [](Budgeted /\ TypeRest)
<1>1. Init => Budgeted /\ TypeRest
      BY InitInv
<1>2. Budgeted /\ TypeRest /\ [Next]_vars => (Budgeted /\ TypeRest)'
      BY BudgetStep, TypeStep
<1> QED BY <1>1, <1>2, PTL DEF Spec

\* Every variable keeps its type; in particular claim_one never drives the
\* attempts of a job past max_attempts.
THEOREM TypeCorrect == Spec => []TypeOK
<1>1. Budgeted /\ TypeRest => TypeOK
      BY DEF Budgeted, TypeRest, TypeOK
<1> QED BY <1>1, InvariantHolds, PTL

\* attempts is exactly the number of attempts used up, plus the one running.
THEOREM AttemptsAreAccounted == Spec => []AttemptsAccounted
<1>1. Budgeted => AttemptsAccounted
      BY DEF Budgeted, Accounted, AttemptsAccounted
<1> QED BY <1>1, InvariantHolds, PTL

-----------------------------------------------------------------------------
(* The lease gate is an exact fencing token *)

\* A row that leaves 'running' leaves its holder's gate, and nobody else's
\* opens or closes.
LEMMA HoldsUnderEnd ==
    ASSUME Budgeted, NEW w \in Slots, NEW v \in Slots, v # w, Holds(w),
           NEW r, r.state # "running",
           row' = [row EXCEPT ![slot[w].job] = r], slot'[v] = slot[v]
    PROVE  Holds(v)' <=> Holds(v)
    BY DEF Holds, Budgeted

LEMMA HoldsUnderClaim ==
    ASSUME Budgeted, NEW w \in Slots, NEW v \in Slots, v # w,
           NEW j \in Jobs, Claimable(j),
           row' = [row EXCEPT ![j] = Claimed(@, w)], slot'[v] = slot[v]
    PROVE  Holds(v)' <=> Holds(v)
<1>1. row[j] \in Rows /\ row[j].state = "queued"
      BY DEF Budgeted, Claimable
<1>2. Claimed(row[j], w).claimedBy = w
      BY <1>1, ClaimedFields
<1>3. row' = [row EXCEPT ![j] = Claimed(row[j], w)]
      OBVIOUS
<1> QED BY <1>1, <1>2, <1>3 DEF Holds, Budgeted

LEMMA HoldsUnderFinalize ==
    ASSUME Budgeted, NEW w \in Slots, NEW v \in Slots, v # w,
           FinalizeRow(w), slot'[v] = slot[v]
    PROVE  Holds(v)' <=> Holds(v)
<1> DEFINE j == slot[w].job
<1>1. CASE ~Holds(w)
      BY <1>1 DEF FinalizeRow, Holds
<1>2. CASE Holds(w)
  <2>1. j \in Jobs /\ row[j] \in Rows
        BY <1>2 DEF Budgeted, Holds
  <2>2. /\ Succeeded(row[j]).state # "running"
        /\ DeadLettered(row[j]).state # "running"
        /\ Retried(row[j]).state # "running"
        BY <2>1, RowUpdatesFields
  <2>3. \E r \in {Succeeded(row[j]), DeadLettered(row[j]), Retried(row[j])} :
           row' = [row EXCEPT ![j] = r]
        BY <1>2 DEF FinalizeRow, Failed
  <2> QED BY <1>2, <2>2, <2>3, HoldsUnderEnd
<1> QED BY <1>1, <1>2

LEMMA HoldsUnderRelease ==
    ASSUME Budgeted, NEW w \in Slots, NEW v \in Slots, v # w,
           ReleaseRow(w), slot'[v] = slot[v]
    PROVE  Holds(v)' <=> Holds(v)
<1>1. CASE ~Holds(w)
      BY <1>1 DEF ReleaseRow, Holds
<1>2. CASE Holds(w)
  <2>1. row[slot[w].job] \in Rows
        BY <1>2 DEF Budgeted, Holds
  <2>2. Released(row[slot[w].job]).state # "running"
        BY <2>1, RowUpdatesFields
  <2>3. row' = [row EXCEPT ![slot[w].job] = Released(row[slot[w].job])]
        BY <1>2 DEF ReleaseRow
  <2> QED BY <1>2, <2>2, <2>3, HoldsUnderEnd
<1> QED BY <1>1, <1>2

LEMMA HoldsUnderStatement ==
    ASSUME Budgeted, NEW w \in Slots, NEW v \in Slots, v # w,
           StatementCommits(w), slot'[v] = slot[v]
    PROVE  Holds(v)' <=> Holds(v)
    BY HoldsUnderClaim, HoldsUnderFinalize, HoldsUnderRelease
       DEF StatementCommits

\* The rows change in a way no gate notices.
LEMMA HoldsUnderTimer ==
    ASSUME Budgeted, NEW v \in Slots, slot'[v] = slot[v],
           NEW j \in Jobs, NEW t, row' = [row EXCEPT ![j].timer = t]
    PROVE  Holds(v)' <=> Holds(v)
<1>1. /\ row[j] \in Rows
      /\ row' = [row EXCEPT ![j] = [row[j] EXCEPT !.timer = t]]
      BY DEF Budgeted
<1>2. /\ [row[j] EXCEPT !.timer = t].state = row[j].state
      /\ [row[j] EXCEPT !.timer = t].claimedBy = row[j].claimedBy
      BY <1>1 DEF Rows
<1> QED BY <1>1, <1>2 DEF Holds, Budgeted

\* What a slot's step leaves alone: every other slot.
LEMMA OtherSlots ==
    ASSUME Budgeted, TypeRest, NEW w \in Slots, NEW v \in Slots, v # w,
           SlotStep(w) \/ RenewLease(w) \/ HeartbeatRaises(w) \/ SlotDies(w)
    PROVE  /\ slot'[v] = slot[v] /\ writtenOff'[v] = writtenOff[v]
           /\ Holds(v)' <=> Holds(v)
<1> USE DEF otherVars
<1>1. slot'[v] = slot[v] /\ writtenOff'[v] = writtenOff[v]
      BY DEF SlotStep, CheckStop, LeaveLoop, ClaimOne, LoadPayload,
         ScanFinishes, FinalizeSucceeded, FinalizeFailed, DiscardPayload,
         ReleaseEarly, CancelSlot, RenewLease, HeartbeatRaises, SlotDies,
         Vacate, TypeRest
<1>2. CASE row' = row
      BY <1>1, <1>2 DEF Holds
<1>3. CASE row' # row
  <2>1. CASE ClaimOne(w)
        BY <1>1, <1>3, <2>1, HoldsUnderClaim DEF ClaimOne
  <2>2. CASE FinalizeSucceeded(w) \/ FinalizeFailed(w)
        BY <1>1, <1>3, <2>2, HoldsUnderFinalize
           DEF FinalizeSucceeded, FinalizeFailed
  <2>3. CASE ReleaseEarly(w)
        BY <1>1, <2>3, HoldsUnderRelease DEF ReleaseEarly
  <2>4. CASE CancelSlot(w) \/ SlotDies(w)
        BY <1>1, <1>3, <2>4, HoldsUnderStatement DEF CancelSlot, SlotDies
  <2>5. CASE RenewLease(w)
        BY <1>1, <1>3, <2>5, HoldsUnderTimer DEF RenewLease, Holds
  <2> QED BY <1>3, <2>1, <2>2, <2>3, <2>4, <2>5
          DEF SlotStep, CheckStop, LeaveLoop, LoadPayload, ScanFinishes,
              DiscardPayload, HeartbeatRaises
<1> QED BY <1>1, <1>2, <1>3

\* The gate of one slot.
Exact(w) == Working(w) => (Holds(w) <=> ~writtenOff[w])

LEMMA VacateExact ==
    ASSUME TypeRest, NEW w \in Slots, NEW p \in {"off", "idle", "claim"},
           Vacate(w, p)
    PROVE  Exact(w)'
    BY DEF TypeRest, Vacate, Vacant, Exact, Working

\* A slot's own step: it leaves its job, or it keeps both job and gate.
LEMMA OwnSlot ==
    ASSUME Budgeted, TypeRest, NEW w \in Slots, Exact(w),
           SlotStep(w) \/ RenewLease(w) \/ HeartbeatRaises(w) \/ SlotDies(w)
    PROVE  Exact(w)'
<1> USE DEF otherVars
<1>1. CASE CheckStop(w) \/ LeaveLoop(w)
      BY <1>1, VacateExact DEF CheckStop, LeaveLoop
<1>2. CASE ClaimOne(w)
  <2>1. CASE Vacate(w, "idle")
        BY <2>1, VacateExact
  <2>2. CASE ~Vacate(w, "idle")
    <3>1. PICK j \in Jobs :
            /\ Claimable(j)
            /\ row' = [row EXCEPT ![j] = Claimed(@, w)]
            /\ slot' = [slot EXCEPT ![w] =
                           [phase |-> "load", job |-> j, heart |-> "beating",
                            seen |-> row[j].attempts + 1]]
            /\ writtenOff' = [writtenOff EXCEPT ![w] = FALSE]
          BY <1>2, <2>2 DEF ClaimOne
    <3>2. /\ Claimed(row[j], w).state = "running"
          /\ Claimed(row[j], w).claimedBy = w
          BY ClaimedFields DEF Budgeted
    <3>3. slot'[w].job = j /\ ~writtenOff'[w] /\ row'[j] = Claimed(row[j], w)
          BY <3>1 DEF TypeRest, Budgeted
    <3> QED BY <3>2, <3>3 DEF Exact, Holds
  <2> QED BY <2>1, <2>2
<1>3. CASE LoadPayload(w) \/ ScanFinishes(w)
  <2>1. /\ row' = row /\ writtenOff' = writtenOff
        /\ slot'[w].job = slot[w].job
        /\ slot[w].phase \in {"load", "scan"}
        BY <1>3 DEF LoadPayload, ScanFinishes, TypeRest, SlotRecords
  <2> QED BY <2>1 DEF Exact, Holds, Working
<1>4. CASE FinalizeSucceeded(w) \/ FinalizeFailed(w)
  <2>1. CASE Vacate(w, "idle")
        BY <2>1, VacateExact
  <2>2. CASE ~Vacate(w, "idle")
    <3>1. slot'[w].phase = "discard"
          BY <1>4, <2>2 DEF FinalizeSucceeded, FinalizeFailed, TypeRest,
                            SlotRecords
    <3> QED BY <3>1 DEF Exact, Working
  <2> QED BY <2>1, <2>2
<1>5. CASE DiscardPayload(w)
      BY <1>5, VacateExact DEF DiscardPayload
<1>6. CASE ReleaseEarly(w)
      BY <1>6, VacateExact DEF ReleaseEarly
<1>7. CASE CancelSlot(w)
  <2>1. CASE Vacate(w, "off")
        BY <2>1, VacateExact
  <2>2. CASE ~Vacate(w, "off")
    <3>1. /\ row' = row /\ writtenOff' = writtenOff
          /\ slot'[w].job = slot[w].job
          /\ slot[w].phase \in {"load", "scan"}
          BY <1>7, <2>2 DEF CancelSlot, TypeRest, SlotRecords
    <3> QED BY <3>1 DEF Exact, Holds, Working
  <2> QED BY <2>1, <2>2
<1>8. CASE SlotDies(w)
      BY <1>8, VacateExact DEF SlotDies
<1>9. CASE HeartbeatRaises(w)
  <2>1. /\ row' = row /\ writtenOff' = writtenOff
        /\ slot'[w].job = slot[w].job /\ slot'[w].phase = slot[w].phase
        BY <1>9 DEF HeartbeatRaises, TypeRest, SlotRecords
  <2> QED BY <2>1 DEF Exact, Holds, Working
<1>10. CASE RenewLease(w)
  <2>1. CASE Vacate(w, "idle")
        BY <2>1, VacateExact
  <2>2. CASE ~Vacate(w, "idle") /\ Holds(w)
    <3>1. slot' = slot /\ writtenOff' = writtenOff
          BY <1>10, <2>2 DEF RenewLease
    <3>2. Holds(w)' <=> Holds(w)
          BY <1>10, <2>2, <3>1, HoldsUnderTimer DEF RenewLease, Holds
    <3> QED BY <3>1, <3>2 DEF Exact, Working
  <2>3. CASE ~Vacate(w, "idle") /\ ~Holds(w)
    <3>1. /\ row' = row /\ writtenOff' = writtenOff
          /\ slot'[w].job = slot[w].job /\ slot'[w].phase = slot[w].phase
          BY <1>10, <2>3 DEF RenewLease, TypeRest, SlotRecords
    <3> QED BY <3>1 DEF Exact, Holds, Working
  <2> QED BY <2>1, <2>2, <2>3
<1> QED BY <1>1, <1>2, <1>3, <1>4, <1>5, <1>6, <1>7, <1>8, <1>9, <1>10
        DEF SlotStep

\* No step of the intake, the clock or the created-sweep touches a running row.
LEMMA RunningUntouched ==
    ASSUME Budgeted, NEW j \in Jobs,
           \/ ReapStuckCreated
           \/ \E i \in Jobs : \/ Enqueue(i) \/ ApiStep(i) \/ StagingFails(i)
                             \/ RequestFails(i) \/ ArchiveAges(i)
    PROVE  /\ row'[j].state = "running" <=> row[j].state = "running"
           /\ row[j].state = "running" => row'[j] = row[j]
<1> USE DEF workerVars, otherVars
<1>0. \A i \in Jobs : row[i] \in Rows
      BY DEF Budgeted
<1>1. ASSUME NEW i \in Jobs
      PROVE  /\ MarkedQueued(row[i]).state # "running"
             /\ DeadLettered(row[i]).state # "running"
             /\ [NoRow EXCEPT !.state = "created"].state # "running"
             /\ [NoRow EXCEPT !.state = "queued", !.timer = "due",
                              !.sourceRef = TRUE].state # "running"
      BY <1>0, RowUpdatesFields DEF NoRow
<1>2. CASE ReapStuckCreated
      BY <1>1, <1>2 DEF ReapStuckCreated, StuckCreated
<1>3. ASSUME NEW i \in Jobs,
             \/ Enqueue(i) \/ ApiStep(i) \/ StagingFails(i)
             \/ RequestFails(i) \/ ArchiveAges(i)
      PROVE  \/ row' = row
             \/ /\ row[i].state # "running"
                /\ \E r : r.state # "running" /\ row' = [row EXCEPT ![i] = r]
  <2>1. CASE Enqueue(i)
        BY <1>1, <2>1 DEF Enqueue
  <2>2. CASE MarkQueued(i)
        BY <1>1, <2>2 DEF MarkQueued, StillCreated
  <2>3. CASE AbandonCreated(i)
        BY <1>1, <2>3 DEF AbandonCreated, StillCreated
  <2>4. CASE RequestFails(i)
        BY <1>1, <2>4 DEF RequestFails, StillCreated
  <2> QED BY <1>3, <2>1, <2>2, <2>3, <2>4
          DEF ApiStep, SpoolCheck, OpenTemp, ReplaceTemp, CleanupStaged,
              StagingFails, ArchiveAges
<1>4. ASSUME NEW i \in Jobs,
             \/ row' = row
             \/ /\ row[i].state # "running"
                /\ \E r : r.state # "running" /\ row' = [row EXCEPT ![i] = r]
      PROVE  /\ row'[j].state = "running" <=> row[j].state = "running"
             /\ row[j].state = "running" => row'[j] = row[j]
      BY <1>4 DEF Budgeted
<1> QED BY <1>2, <1>3, <1>4

LEMMA ReapExact ==
    ASSUME Budgeted, TypeRest, NEW w \in Slots, Exact(w), ReapExpired
    PROVE  Exact(w)'
<1> DEFINE j == slot[w].job
<1>1. /\ slot' = slot
      /\ writtenOff'[w] <=> (writtenOff[w] \/ (Holds(w) /\ Reapable(j)))
      /\ \A i \in Jobs : row'[i] = IF Reapable(i) THEN ReapedRow(row[i])
                                   ELSE row[i]
      BY DEF ReapExpired, TypeRest
<1>2. ASSUME NEW i \in Jobs, Reapable(i)
      PROVE  ReapedRow(row[i]).state # "running"
  <2>1. row[i] \in Rows
        BY DEF Budgeted
  <2> QED BY <2>1, RowUpdatesFields DEF ReapedRow
<1>3. CASE j \in Jobs /\ Reapable(j)
  <2>1. ~Holds(w)'
        BY <1>1, <1>2, <1>3 DEF Holds
  <2> QED BY <1>1, <1>3, <2>1 DEF Exact, Working
<1>4. CASE j \in Jobs /\ ~Reapable(j)
  <2>1. Holds(w)' <=> Holds(w)
        BY <1>1, <1>4 DEF Holds
  <2> QED BY <1>1, <1>4, <2>1 DEF Exact, Working
<1>5. CASE j \notin Jobs
  <2>1. ~Holds(w) /\ ~Holds(w)'
        BY <1>1, <1>5 DEF Holds
  <2> QED BY <1>1, <2>1 DEF Exact, Working
<1> QED BY <1>3, <1>4, <1>5

LEMMA ProcExact ==
    ASSUME TypeRest, NEW w \in Slots, Exact(w), NEW p \in Procs,
           ProcStep(p) \/ Sigterm(p) \/ Kill(p)
    PROVE  Exact(w)'
<1> USE DEF otherVars
<1>1. CASE slot'[w] = slot[w] /\ writtenOff'[w] = writtenOff[w]
  <2>1. row' = row
        BY DEF ProcStep, GraceExpires, WorkerExits, Restart, Sigterm, Kill
  <2> QED BY <1>1, <2>1 DEF Exact, Holds, Working
<1>2. CASE ~(slot'[w] = slot[w] /\ writtenOff'[w] = writtenOff[w])
  <2>1. slot'[w] \in {Vacant("off"), Vacant("idle")}
        BY <1>2 DEF ProcStep, GraceExpires, WorkerExits, Restart, Sigterm,
                    Kill, TypeRest
  <2> QED BY <2>1 DEF Exact, Working, Vacant
<1> QED BY <1>1, <1>2

LEMMA LeaseStep ==
    ASSUME Budgeted, TypeRest, LeaseIsExact, [Next]_vars
    PROVE  LeaseIsExact'
<1> USE DEF workerVars, otherVars
<1> SUFFICES ASSUME NEW w \in Slots  PROVE Exact(w)'
    BY DEF LeaseIsExact, Exact
<1>0. Exact(w)
      BY DEF LeaseIsExact, Exact
<1>1. ASSUME NEW v \in Slots,
             \/ SlotStep(v) \/ RenewLease(v) \/ HeartbeatRaises(v)
             \/ SlotDies(v)
      PROVE  Exact(w)'
  <2>1. CASE v = w
        BY <1>0, <1>1, <2>1, OwnSlot
  <2>2. CASE v # w
    <3>1. /\ slot'[w] = slot[w] /\ writtenOff'[w] = writtenOff[w]
          /\ Holds(w)' <=> Holds(w)
          BY <1>1, <2>2, OtherSlots
    <3> QED BY <1>0, <3>1 DEF Exact, Working
  <2> QED BY <2>1, <2>2
<1>2. ASSUME \/ ReapStuckCreated
             \/ \E i \in Jobs : \/ Enqueue(i) \/ ApiStep(i) \/ StagingFails(i)
                               \/ RequestFails(i) \/ ArchiveAges(i)
      PROVE  Exact(w)'
  <2>1. slot' = slot /\ writtenOff' = writtenOff
        BY <1>2 DEF ReapStuckCreated, Enqueue, ApiStep, SpoolCheck, OpenTemp,
           ReplaceTemp, MarkQueued, CleanupStaged, AbandonCreated,
           StagingFails, RequestFails, ArchiveAges
  <2>2. \A j \in Jobs :
           /\ row'[j].state = "running" <=> row[j].state = "running"
           /\ row[j].state = "running" => row'[j] = row[j]
        BY <1>2, RunningUntouched
  <2> QED BY <1>0, <2>1, <2>2 DEF Exact, Holds, Working
<1>3. ASSUME NEW j \in Jobs, TimePasses(j)  PROVE Exact(w)'
  <2>1. slot' = slot /\ writtenOff' = writtenOff
        BY <1>3 DEF TimePasses
  <2>2. Holds(w)' <=> Holds(w)
        BY <1>3, <2>1, HoldsUnderTimer DEF TimePasses
  <2> QED BY <1>0, <2>1, <2>2 DEF Exact, Working
<1>4. ASSUME NEW p \in Procs, ProcStep(p) \/ Sigterm(p) \/ Kill(p)
      PROVE  Exact(w)'
      BY <1>0, <1>4, ProcExact
<1>5. ASSUME \/ ApiCrash \/ SweepArchives \/ EngageStop \/ LiftStop
             \/ UNCHANGED vars
      PROVE  Exact(w)'
  <2>1. UNCHANGED <<row, slot, writtenOff>>
        BY <1>5 DEF ApiCrash, SweepArchives, EngageStop, LiftStop, vars
  <2> QED BY <1>0, <2>1 DEF Exact, Holds, Working
<1>6. CASE ReapExpired
      BY <1>0, <1>6, ReapExact
<1> QED BY <1>1, <1>2, <1>3, <1>4, <1>5, <1>6 DEF Next

\* The lease gate lets a slot's statements through exactly while its attempt
\* has not been written off.
THEOREM LeaseFences == Spec => []LeaseIsExact
<1>1. Init => LeaseIsExact
      BY DEF Init, LeaseIsExact, Working, Vacant
<1>2. /\ Budgeted /\ TypeRest /\ LeaseIsExact /\ [Next]_vars
      => LeaseIsExact'
      BY LeaseStep
<1> QED BY <1>1, <1>2, InvariantHolds, PTL DEF Spec

-----------------------------------------------------------------------------
(* Jobs end once, and one job at a time is live per key *)

\* A statement that finds its row has found it live.
LEMMA StatementLive ==
    ASSUME Budgeted, NEW j \in Jobs, row'[j] # row[j], NEW w \in Slots,
           \/ StatementCommits(w)
           \/ FinalizeRow(w)
           \/ ReleaseRow(w)
           \/ RenewLease(w)
           \/ \E i \in Jobs : /\ Claimable(i)
                             /\ row' = [row EXCEPT ![i] = Claimed(@, w)]
    PROVE  Live(j)
<1>1. \E i \in Jobs : /\ row[i].state \in {"queued", "running"}
                      /\ \A k \in Jobs : k # i => row'[k] = row[k]
      BY DEF StatementCommits, FinalizeRow, ReleaseRow, RenewLease, Holds,
             Claimable, Budgeted
<1> QED BY <1>1 DEF Live, LiveStates

\* Only Enqueue changes a row that is not live.
LEMMA RowChange ==
    ASSUME Budgeted, [Next]_vars, NEW j \in Jobs, row'[j] # row[j]
    PROVE  Live(j) \/ Enqueue(j)
<1> USE DEF workerVars, otherVars
<1>1. ASSUME NEW w \in Slots,
             \/ SlotStep(w) \/ RenewLease(w) \/ HeartbeatRaises(w)
             \/ SlotDies(w)
      PROVE  Live(j)
  <2>1. \/ StatementCommits(w) \/ FinalizeRow(w) \/ ReleaseRow(w)
        \/ RenewLease(w)
        \/ \E i \in Jobs : /\ Claimable(i)
                          /\ row' = [row EXCEPT ![i] = Claimed(@, w)]
        BY <1>1 DEF SlotStep, CheckStop, LeaveLoop, ClaimOne, LoadPayload,
           ScanFinishes, FinalizeSucceeded, FinalizeFailed, DiscardPayload,
           ReleaseEarly, CancelSlot, HeartbeatRaises, SlotDies
  <2> QED BY <2>1, StatementLive
<1>2. ASSUME NEW i \in Jobs,
             \/ ApiStep(i) \/ StagingFails(i) \/ RequestFails(i)
             \/ TimePasses(i) \/ ArchiveAges(i)
      PROVE  Live(j)
      BY <1>2 DEF ApiStep, SpoolCheck, OpenTemp, ReplaceTemp, MarkQueued,
         CleanupStaged, AbandonCreated, StagingFails, RequestFails,
         TimePasses, ArchiveAges, StillCreated, Live, LiveStates, Budgeted
<1>3. ASSUME NEW i \in Jobs, Enqueue(i)  PROVE Enqueue(j)
  <2>1. i = j
        BY <1>3 DEF Enqueue, Budgeted
  <2> QED BY <1>3, <2>1
<1>4. CASE ReapExpired \/ ReapStuckCreated
      BY <1>4 DEF ReapExpired, ReapStuckCreated, Reapable, StuckCreated,
         Live, LiveStates
<1>5. ASSUME NEW p \in Procs, ProcStep(p) \/ Sigterm(p) \/ Kill(p)
      PROVE  FALSE
      BY <1>5 DEF ProcStep, GraceExpires, WorkerExits, Restart, Sigterm, Kill
<1>6. ASSUME \/ ApiCrash \/ SweepArchives \/ EngageStop \/ LiftStop
             \/ UNCHANGED vars
      PROVE  FALSE
      BY <1>6 DEF ApiCrash, SweepArchives, EngageStop, LiftStop, vars
<1> QED BY <1>1, <1>2, <1>3, <1>4, <1>5, <1>6 DEF Next

\* A job that has ended is never touched again.
THEOREM FinishedRowsStay == Spec => TerminalIsFinal
<1>1. Budgeted /\ [Next]_vars =>
      [\A j \in Jobs : row[j].state \in {"succeeded", "dead_letter"} =>
                           row'[j] = row[j]]_vars
  <2> SUFFICES ASSUME Budgeted, [Next]_vars, NEW j \in Jobs,
                      row[j].state \in {"succeeded", "dead_letter"}
               PROVE  row'[j] = row[j]
      OBVIOUS
  <2>1. ~Live(j) /\ ~Enqueue(j)
        BY DEF Live, LiveStates, Enqueue
  <2> QED BY <2>1, RowChange
<1> QED BY <1>1, InvariantHolds, PTL DEF Spec, TerminalIsFinal

\* At most one live job per idempotency key.
THEOREM KeysAreExclusive == Spec => []OneLiveJobPerKey
<1>1. Init => OneLiveJobPerKey
      BY DEF Init, OneLiveJobPerKey, Live, LiveStates, NoRow
<1>2. ASSUME Budgeted, OneLiveJobPerKey, [Next]_vars
      PROVE  OneLiveJobPerKey'
  <2> SUFFICES ASSUME NEW i \in Jobs, NEW j \in Jobs, i # j,
                      KeyOf[i] = KeyOf[j], Live(i)', Live(j)'
               PROVE  FALSE
      BY DEF OneLiveJobPerKey
  <2>1. ASSUME NEW k \in Jobs, Live(k)', ~Live(k)  PROVE Enqueue(k)
        BY <1>2, <2>1, RowChange DEF Live
  <2>2. ASSUME NEW k \in Jobs, NEW l \in Jobs, k # l, KeyOf[k] = KeyOf[l],
               Enqueue(k)
        PROVE  ~Live(l) /\ row'[l] = row[l]
        BY <1>2, <2>2 DEF Enqueue, KeyFree, Budgeted
  <2>3. CASE Live(i) /\ Live(j)
        BY <1>2, <2>3 DEF OneLiveJobPerKey
  <2>4. CASE ~Live(i)
        BY <2>1, <2>2, <2>4 DEF Live
  <2>5. CASE ~Live(j)
        BY <2>1, <2>2, <2>5 DEF Live
  <2> QED BY <2>3, <2>4, <2>5
<1>3. Budgeted /\ OneLiveJobPerKey /\ [Next]_vars => OneLiveJobPerKey'
      BY <1>2
<1> QED BY <1>1, <1>3, InvariantHolds, PTL DEF Spec

-----------------------------------------------------------------------------
(* What a slot knows about its job *)

Terminal == {"succeeded", "dead_letter"}

\* A working slot has a job, and while it holds the lease its copy of attempts
\* is the row's; it discards the payload of an ended job only.
SlotSound(w) ==
    /\ Working(w) => /\ slot[w].job \in Jobs
                     /\ Holds(w) => slot[w].seen = row[slot[w].job].attempts
    /\ slot[w].phase = "discard" => /\ slot[w].job \in Jobs
                                    /\ row[slot[w].job].state \in Terminal
    /\ ~Working(w) /\ slot[w].phase # "discard" => slot[w].job = NoJob
    /\ writtenOff[w] => Working(w)

SlotsSound == \A w \in Slots : SlotSound(w)

\* A statement of one slot does not touch the row another slot holds.
LEMMA OthersRow ==
    ASSUME Budgeted, TypeRest, NEW w \in Slots, NEW v \in Slots, v # w, Holds(w),
           SlotStep(v) \/ RenewLease(v) \/ HeartbeatRaises(v) \/ SlotDies(v)
    PROVE  row'[slot[w].job] = row[slot[w].job]
<1> USE DEF otherVars
<1>1. /\ slot[w].job \in Jobs
      /\ row[slot[w].job].state = "running"
      /\ row[slot[w].job].claimedBy = w
      BY DEF Holds
<1>2. \/ row' = row
      \/ StatementCommits(v) \/ FinalizeRow(v) \/ ReleaseRow(v)
      \/ RenewLease(v)
      \/ \E i \in Jobs : /\ Claimable(i)
                        /\ row' = [row EXCEPT ![i] = Claimed(@, v)]
      BY DEF SlotStep, CheckStop, LeaveLoop, ClaimOne, LoadPayload,
         ScanFinishes, FinalizeSucceeded, FinalizeFailed, DiscardPayload,
         ReleaseEarly, CancelSlot, HeartbeatRaises, SlotDies
<1>3. \/ row' = row
      \/ \E i \in Jobs :
            /\ row[i].state = "queued" \/ row[i].claimedBy = v
            /\ \A k \in Jobs : k # i => row'[k] = row[k]
      BY <1>2 DEF StatementCommits, FinalizeRow, ReleaseRow, RenewLease,
         Holds, Claimable, Budgeted
<1> QED BY <1>1, <1>3

LEMMA VacateSound ==
    ASSUME TypeRest, NEW w \in Slots, NEW p \in {"off", "idle", "claim"},
           Vacate(w, p)
    PROVE  SlotSound(w)'
    BY DEF TypeRest, Vacate, Vacant, SlotSound, Working

\* A slot that goes on to discard has just written a terminal state.
LEMMA FinalizeSound ==
    ASSUME Budgeted, TypeRest, NEW w \in Slots, SlotSound(w), Exact(w),
           FinalizeSucceeded(w) \/ FinalizeFailed(w)
    PROVE  SlotSound(w)'
<1> DEFINE j == slot[w].job
<1>1. CASE Vacate(w, "idle")
      BY <1>1, VacateSound
<1>2. CASE ~Vacate(w, "idle")
  <2>1. /\ Holds(w) /\ FinalizeRow(w) /\ writtenOff' = writtenOff
        /\ slot' = [slot EXCEPT ![w].phase = "discard", ![w].heart = "off"]
        /\ slot[w].phase = "ok" \/ SeesTerminal(w)
        BY <1>2 DEF FinalizeSucceeded, FinalizeFailed
  <2>2. /\ j \in Jobs /\ row[j] \in Rows
        /\ slot'[w].phase = "discard" /\ slot'[w].job = j
        BY <2>1 DEF Holds, Budgeted, TypeRest, SlotRecords
  <2>3. Working(w)
        BY DEF FinalizeSucceeded, FinalizeFailed, Working
  <2>4. slot[w].seen = row[j].attempts
        BY <2>1, <2>3 DEF SlotSound
  <2>5. row'[j] \in {Succeeded(row[j]), DeadLettered(row[j])}
    <3>1. CASE slot[w].phase = "ok"
          BY <2>1, <2>2, <3>1 DEF FinalizeRow, Budgeted
    <3>2. CASE slot[w].phase # "ok"
      <4>1. Exhausted(row[j], slot[w].phase = "permanent")
            BY <2>1, <2>4, <3>2 DEF SeesTerminal, Exhausted
      <4> QED BY <2>1, <2>2, <3>2, <4>1 DEF FinalizeRow, Failed, Budgeted
    <3> QED BY <3>1, <3>2
  <2>6. row'[j].state \in Terminal
        BY <2>2, <2>5, RowUpdatesFields DEF Terminal
  <2>7. ~writtenOff[w]
        BY <2>1, <2>3 DEF Exact
  <2> QED BY <2>1, <2>2, <2>6, <2>7 DEF SlotSound, Working
<1> QED BY <1>1, <1>2

LEMMA OwnSound ==
    ASSUME Budgeted, TypeRest, NEW w \in Slots, SlotSound(w), Exact(w),
           SlotStep(w) \/ RenewLease(w) \/ HeartbeatRaises(w) \/ SlotDies(w)
    PROVE  SlotSound(w)'
<1> USE DEF otherVars
<1>1. CASE CheckStop(w) \/ LeaveLoop(w) \/ DiscardPayload(w) \/ ReleaseEarly(w)
           \/ SlotDies(w)
      BY <1>1, VacateSound DEF CheckStop, LeaveLoop, DiscardPayload,
         ReleaseEarly, SlotDies
<1>2. CASE ClaimOne(w)
  <2>1. CASE Vacate(w, "idle")
        BY <2>1, VacateSound
  <2>2. CASE ~Vacate(w, "idle")
    <3>1. PICK j \in Jobs :
            /\ Claimable(j)
            /\ row' = [row EXCEPT ![j] = Claimed(@, w)]
            /\ slot' = [slot EXCEPT ![w] =
                           [phase |-> "load", job |-> j, heart |-> "beating",
                            seen |-> row[j].attempts + 1]]
            /\ writtenOff' = [writtenOff EXCEPT ![w] = FALSE]
          BY <1>2, <2>2 DEF ClaimOne
    <3>2. Claimed(row[j], w).attempts = row[j].attempts + 1
          BY ClaimedFields DEF Budgeted
    <3>3. /\ slot'[w].job = j /\ slot'[w].phase = "load"
          /\ slot'[w].seen = row[j].attempts + 1
          /\ ~writtenOff'[w] /\ row'[j] = Claimed(row[j], w)
          BY <3>1 DEF TypeRest, Budgeted
    <3> QED BY <3>2, <3>3 DEF SlotSound, Working
  <2> QED BY <2>1, <2>2
<1>3. ASSUME row' = row, writtenOff' = writtenOff,
             slot'[w].job = slot[w].job, slot'[w].seen = slot[w].seen,
             Working(w), Working(w)'
      PROVE  SlotSound(w)'
      BY <1>3 DEF SlotSound, Holds, Working
<1>4. CASE LoadPayload(w) \/ ScanFinishes(w)
  <2>1. /\ row' = row /\ writtenOff' = writtenOff
        /\ slot'[w].job = slot[w].job /\ slot'[w].seen = slot[w].seen
        /\ slot[w].phase \in {"load", "scan"}
        /\ slot'[w].phase \in {"scan", "ok", "transient", "permanent"}
        BY <1>4 DEF LoadPayload, ScanFinishes, TypeRest, SlotRecords
  <2> QED BY <1>3, <2>1 DEF Working
<1>5. CASE FinalizeSucceeded(w) \/ FinalizeFailed(w)
      BY <1>5, FinalizeSound
<1>6. CASE CancelSlot(w)
  <2>1. CASE Vacate(w, "off")
        BY <2>1, VacateSound
  <2>2. CASE ~Vacate(w, "off")
    <3>1. /\ row' = row /\ writtenOff' = writtenOff
          /\ slot'[w].job = slot[w].job /\ slot'[w].seen = slot[w].seen
          /\ slot[w].phase \in {"load", "scan"}
          /\ slot'[w].phase = "release"
          BY <1>6, <2>2 DEF CancelSlot, TypeRest, SlotRecords
    <3> QED BY <1>3, <3>1 DEF Working
  <2> QED BY <2>1, <2>2
<1>7. CASE HeartbeatRaises(w)
  <2>1. /\ row' = row /\ writtenOff' = writtenOff
        /\ slot'[w].job = slot[w].job /\ slot'[w].seen = slot[w].seen
        /\ slot'[w].phase = slot[w].phase /\ Working(w)
        BY <1>7 DEF HeartbeatRaises, TypeRest, SlotRecords
  <2> QED BY <1>3, <2>1 DEF Working
<1>8. CASE RenewLease(w)
  <2>1. CASE Vacate(w, "idle")
        BY <2>1, VacateSound
  <2>2. CASE ~Vacate(w, "idle") /\ ~Holds(w)
    <3>1. /\ row' = row /\ writtenOff' = writtenOff
          /\ slot'[w].job = slot[w].job /\ slot'[w].seen = slot[w].seen
          /\ slot'[w].phase = slot[w].phase /\ Working(w)
          BY <1>8, <2>2 DEF RenewLease, TypeRest, SlotRecords
    <3> QED BY <1>3, <3>1 DEF Working
  <2>3. CASE Holds(w)
    <3> DEFINE j == slot[w].job
    <3>1. /\ slot' = slot /\ writtenOff' = writtenOff /\ Working(w)
          /\ j \in Jobs /\ row[j] \in Rows
          /\ row' = [row EXCEPT ![j] = [row[j] EXCEPT !.timer = "set"]]
          BY <1>8, <2>3 DEF RenewLease, Holds, Budgeted
    <3>2. row'[j].attempts = row[j].attempts
          BY <3>1 DEF Budgeted, Rows
    <3> QED BY <2>3, <3>1, <3>2 DEF SlotSound, Working
  <2> QED BY <2>1, <2>2, <2>3
<1> QED BY <1>1, <1>2, <1>4, <1>5, <1>6, <1>7, <1>8 DEF SlotStep

\* A slot that does not move stays sound if its row only changes in ways that
\* a holder does not see.
LEMMA StillSound ==
    ASSUME Budgeted, [Next]_vars, NEW w \in Slots, SlotSound(w),
           slot'[w] = slot[w],
           writtenOff'[w] => writtenOff[w] \/ Holds(w),
           Holds(w)' => /\ Holds(w)
                        /\ row'[slot[w].job].attempts
                              = row[slot[w].job].attempts
    PROVE  SlotSound(w)'
<1>1. Working(w)' <=> Working(w)
      BY DEF Working
<1>2. slot[w].phase = "discard" => row'[slot[w].job].state \in Terminal
  <2> SUFFICES ASSUME slot[w].phase = "discard"
               PROVE  row'[slot[w].job].state \in Terminal
      OBVIOUS
  <2>1. slot[w].job \in Jobs /\ row[slot[w].job].state \in Terminal
        BY DEF SlotSound
  <2>2. ~Live(slot[w].job) /\ ~Enqueue(slot[w].job)
        BY <2>1 DEF Live, LiveStates, Enqueue, Terminal
  <2> QED BY <2>1, <2>2, RowChange
<1>3. ASSUME Holds(w)  PROVE Working(w)
  <2>1. slot[w].job \in Jobs /\ row[slot[w].job].state = "running"
        BY <1>3 DEF Holds
  <2> QED BY <2>1, JobsAssumption DEF JobsAssumption, SlotSound, Terminal
<1> QED BY <1>1, <1>2, <1>3 DEF SlotSound

LEMMA SoundStep ==
    ASSUME Budgeted, TypeRest, LeaseIsExact, SlotsSound, [Next]_vars
    PROVE  SlotsSound'
<1> USE DEF workerVars, otherVars
<1> SUFFICES ASSUME NEW w \in Slots  PROVE SlotSound(w)'
    BY DEF SlotsSound
<1>0. Exact(w) /\ SlotSound(w)
      BY DEF LeaseIsExact, Exact, SlotsSound
<1>1. ASSUME NEW v \in Slots,
             \/ SlotStep(v) \/ RenewLease(v) \/ HeartbeatRaises(v)
             \/ SlotDies(v)
      PROVE  SlotSound(w)'
  <2>1. CASE v = w
        BY <1>0, <1>1, <2>1, OwnSound
  <2>2. CASE v # w
    <3>1. /\ slot'[w] = slot[w] /\ writtenOff'[w] = writtenOff[w]
          /\ Holds(w)' <=> Holds(w)
          BY <1>1, <2>2, OtherSlots
    <3>2. Holds(w) => row'[slot[w].job] = row[slot[w].job]
          BY <1>1, <2>2, OthersRow
    <3> QED BY <1>0, <3>1, <3>2, StillSound
  <2> QED BY <2>1, <2>2
<1>2. ASSUME \/ ReapStuckCreated
             \/ \E i \in Jobs : \/ Enqueue(i) \/ ApiStep(i) \/ StagingFails(i)
                               \/ RequestFails(i) \/ ArchiveAges(i)
      PROVE  SlotSound(w)'
  <2>1. slot' = slot /\ writtenOff' = writtenOff
        BY <1>2 DEF ReapStuckCreated, Enqueue, ApiStep, SpoolCheck, OpenTemp,
           ReplaceTemp, MarkQueued, CleanupStaged, AbandonCreated,
           StagingFails, RequestFails, ArchiveAges
  <2>2. \A j \in Jobs :
           /\ row'[j].state = "running" <=> row[j].state = "running"
           /\ row[j].state = "running" => row'[j] = row[j]
        BY <1>2, RunningUntouched
  <2>3. Holds(w)' => /\ Holds(w)
                     /\ row'[slot[w].job] = row[slot[w].job]
        BY <2>1, <2>2 DEF Holds
  <2> QED BY <1>0, <2>1, <2>3, StillSound
<1>3. ASSUME NEW j \in Jobs, TimePasses(j)  PROVE SlotSound(w)'
  <2>1. slot' = slot /\ writtenOff' = writtenOff
        BY <1>3 DEF TimePasses
  <2>2. Holds(w)' <=> Holds(w)
        BY <1>3, <2>1, HoldsUnderTimer DEF TimePasses
  <2>3. \A i \in Jobs : row'[i].attempts = row[i].attempts
        BY <1>3 DEF TimePasses, Budgeted, Rows
  <2> QED BY <1>0, <2>1, <2>2, <2>3, StillSound DEF Holds
<1>4. ASSUME NEW p \in Procs, ProcStep(p) \/ Sigterm(p) \/ Kill(p)
      PROVE  SlotSound(w)'
  <2>1. row' = row
        BY <1>4 DEF ProcStep, GraceExpires, WorkerExits, Restart, Sigterm,
                    Kill
  <2>2. CASE slot'[w] = slot[w] /\ writtenOff'[w] = writtenOff[w]
        BY <1>0, <2>1, <2>2 DEF SlotSound, Holds, Working
  <2>3. CASE (Restart(p) \/ Kill(p)) /\ ProcOf[w] = p
    <3>1. /\ slot'[w] \in {Vacant("off"), Vacant("idle")}
          /\ ~writtenOff'[w]
          BY <2>3 DEF Kill, Restart, SlotsOf, TypeRest
    <3> QED BY <3>1 DEF SlotSound, Working, Vacant
  <2> QED BY <1>4, <2>2, <2>3
          DEF ProcStep, GraceExpires, WorkerExits, Restart, Sigterm, Kill,
              SlotsOf, TypeRest
<1>5. ASSUME \/ ApiCrash \/ SweepArchives \/ EngageStop \/ LiftStop
             \/ UNCHANGED vars
      PROVE  SlotSound(w)'
  <2>1. UNCHANGED <<row, slot, writtenOff>>
        BY <1>5 DEF ApiCrash, SweepArchives, EngageStop, LiftStop, vars
  <2> QED BY <1>0, <2>1 DEF SlotSound, Holds, Working
<1>6. CASE ReapExpired
  <2>1. /\ slot' = slot
        /\ writtenOff'[w] => writtenOff[w] \/ Holds(w)
        /\ \A i \in Jobs : row'[i] = IF Reapable(i) THEN ReapedRow(row[i])
                                     ELSE row[i]
        BY <1>6 DEF ReapExpired, TypeRest
  <2>2. ASSUME NEW i \in Jobs, Reapable(i)
        PROVE  ReapedRow(row[i]).state # "running"
    <3>1. row[i] \in Rows
          BY DEF Budgeted
    <3> QED BY <3>1, RowUpdatesFields DEF ReapedRow
  <2>3. Holds(w)' => /\ Holds(w)
                     /\ row'[slot[w].job] = row[slot[w].job]
        BY <2>1, <2>2 DEF Holds
  <2> QED BY <1>0, <2>1, <2>3, StillSound
<1> QED BY <1>1, <1>2, <1>3, <1>4, <1>5, <1>6 DEF Next

LEMMA SoundHolds ==
    Spec => [](Budgeted /\ TypeRest /\ LeaseIsExact /\ SlotsSound)
<1>1. Init => SlotsSound
      BY DEF Init, SlotsSound, SlotSound, Working, Vacant
<1>2. /\ Budgeted /\ TypeRest /\ LeaseIsExact /\ SlotsSound /\ [Next]_vars
      => SlotsSound'
      BY SoundStep
<1> QED BY <1>1, <1>2, InvariantHolds, LeaseFences, PTL DEF Spec

\* A slot whose attempt was written off leaves rows and files alone.
THEOREM ZombiesAreHarmless == Spec => ZombieWritesNothing
<1>1. /\ Budgeted /\ TypeRest /\ LeaseIsExact /\ SlotsSound /\ [Next]_vars
      => [\A w \in Slots : writtenOff[w] /\ slot'[w] # slot[w] =>
                              UNCHANGED <<row, file>>]_vars
  <2> SUFFICES ASSUME Budgeted, TypeRest, LeaseIsExact, SlotsSound,
                      [Next]_vars, NEW w \in Slots, writtenOff[w],
                      slot'[w] # slot[w]
               PROVE  UNCHANGED <<row, file>>
      OBVIOUS
  <2> USE DEF workerVars, otherVars
  <2>1. Working(w) /\ ~Holds(w)
        BY DEF SlotsSound, SlotSound, LeaseIsExact
  <2>2. ASSUME NEW v \in Slots,
               \/ SlotStep(v) \/ RenewLease(v) \/ HeartbeatRaises(v)
               \/ SlotDies(v)
        PROVE  UNCHANGED <<row, file>>
    <3>1. v = w
          BY <2>2, OtherSlots
    <3>2. slot[w].phase \notin {"off", "idle", "claim", "discard"}
          BY <2>1 DEF Working
    <3>3. FinalizeRow(w) => row' = row
          BY <2>1 DEF FinalizeRow
    <3>4. ReleaseRow(w) => row' = row
          BY <2>1 DEF ReleaseRow
    <3>5. StatementCommits(w) => row' = row
          BY <3>2, <3>3, <3>4 DEF StatementCommits
    <3> QED BY <2>1, <2>2, <3>1, <3>2, <3>3, <3>4, <3>5
            DEF SlotStep, CheckStop, LeaveLoop, ClaimOne, LoadPayload,
                ScanFinishes, FinalizeSucceeded, FinalizeFailed,
                DiscardPayload, ReleaseEarly, CancelSlot, RenewLease,
                HeartbeatRaises, SlotDies
  <2>3. ASSUME NEW p \in Procs, ProcStep(p) \/ Sigterm(p) \/ Kill(p)
        PROVE  UNCHANGED <<row, file>>
        BY <2>3 DEF ProcStep, GraceExpires, WorkerExits, Restart, Sigterm,
                    Kill
  <2>4. ASSUME \/ ApiCrash \/ SweepArchives \/ EngageStop \/ LiftStop
               \/ ReapExpired \/ ReapStuckCreated \/ UNCHANGED vars
               \/ \E j \in Jobs : \/ Enqueue(j) \/ ApiStep(j)
                                 \/ StagingFails(j) \/ RequestFails(j)
                                 \/ TimePasses(j) \/ ArchiveAges(j)
        PROVE  FALSE
        BY <2>4 DEF ApiCrash, SweepArchives, EngageStop, LiftStop,
           ReapExpired, ReapStuckCreated, vars, Enqueue, ApiStep, SpoolCheck,
           OpenTemp, ReplaceTemp, MarkQueued, CleanupStaged, AbandonCreated,
           StagingFails, RequestFails, TimePasses, ArchiveAges
  <2> QED BY <2>2, <2>3, <2>4 DEF Next
<1> QED BY <1>1, SoundHolds, PTL DEF Spec, ZombieWritesNothing

-----------------------------------------------------------------------------
(* An upload's bytes outlive its job *)

\* How row, file and request of one upload go together.
StagedWell(j) ==
    /\ row[j].state \in {"queued", "running"} /\ j \in ZipJobs =>
          row[j].sourceRef /\ file[j] \in {"fresh", "old", "swept"}
    /\ api[j] = "mark" /\ row[j].state = "created" => file[j] = "fresh"
    /\ row[j].state = "none" => file[j] = "none" /\ api[j] = "off"
    /\ api[j] # "off" => row[j].state \in {"created", "dead_letter"}

Staged == \A j \in Jobs : StagedWell(j)

\* What worker, reaper and clock may make of a row: it stays in the queue with
\* its payload reference, or it ends.
Follows(r, s) ==
    \/ s.state = r.state /\ s.sourceRef = r.sourceRef
    \/ /\ r.state \in {"queued", "running"}
       /\ s.state \in {"queued", "running"} /\ s.sourceRef = r.sourceRef
    \/ r.state = "created" /\ s.state = "dead_letter"
    \/ r.state \in {"queued", "running"} /\ s.state \in Terminal

LEMMA UpdatesFollow ==
    ASSUME NEW r \in Rows
    PROVE  /\ r.state = "queued" => \A w : Follows(r, Claimed(r, w))
           /\ r.state = "running" =>
                 /\ Follows(r, Succeeded(r)) /\ Follows(r, Retried(r))
                 /\ Follows(r, Released(r)) /\ Follows(r, Requeued(r))
           /\ r.state \in {"created", "running"} =>
                 Follows(r, DeadLettered(r))
           /\ \A t : Follows(r, [r EXCEPT !.timer = t])
<1>1. ASSUME NEW w, r.state = "queued"  PROVE Follows(r, Claimed(r, w))
      BY <1>1, ClaimedFields DEF Follows
<1>2. ASSUME r.state = "running"
      PROVE  /\ Follows(r, Succeeded(r)) /\ Follows(r, Retried(r))
             /\ Follows(r, Released(r)) /\ Follows(r, Requeued(r))
      BY <1>2, RowUpdatesFields DEF Follows, Terminal
<1>3. ASSUME r.state \in {"created", "running"}
      PROVE  Follows(r, DeadLettered(r))
      BY <1>3, RowUpdatesFields DEF Follows, Terminal
<1>4. ASSUME NEW t  PROVE Follows(r, [r EXCEPT !.timer = t])
      BY DEF Rows, Follows
<1> QED BY <1>1, <1>2, <1>3, <1>4

LEMMA SlotFollows ==
    ASSUME Budgeted, NEW j \in Jobs, NEW w \in Slots,
           SlotStep(w) \/ RenewLease(w) \/ HeartbeatRaises(w) \/ SlotDies(w)
    PROVE  Follows(row[j], row'[j])
<1> USE DEF otherVars
<1>0. Follows(row[j], row[j]) /\ row[j] \in Rows
      BY DEF Follows, Budgeted
<1>1. \/ row' = row
      \/ StatementCommits(w) \/ FinalizeRow(w) \/ ReleaseRow(w)
      \/ RenewLease(w)
      \/ \E i \in Jobs : /\ Claimable(i)
                        /\ row' = [row EXCEPT ![i] = Claimed(@, w)]
      BY DEF SlotStep, CheckStop, LeaveLoop, ClaimOne, LoadPayload,
         ScanFinishes, FinalizeSucceeded, FinalizeFailed, DiscardPayload,
         ReleaseEarly, CancelSlot, HeartbeatRaises, SlotDies
<1>2. CASE \E i \in Jobs : /\ Claimable(i)
                          /\ row' = [row EXCEPT ![i] = Claimed(@, w)]
  <2>1. row'[j] = row[j] \/ (Claimable(j) /\ row'[j] = Claimed(row[j], w))
        BY <1>2 DEF Budgeted
  <2> QED BY <1>0, <2>1, UpdatesFollow DEF Claimable
<1>3. CASE FinalizeRow(w)
  <2>1. \/ row'[j] = row[j]
        \/ /\ row[j].state = "running"
           /\ row'[j] \in {Succeeded(row[j]), DeadLettered(row[j]),
                            Retried(row[j])}
        BY <1>3 DEF FinalizeRow, Failed, Holds, Budgeted
  <2> QED BY <1>0, <2>1, UpdatesFollow
<1>4. CASE ReleaseRow(w)
  <2>1. \/ row'[j] = row[j]
        \/ row[j].state = "running" /\ row'[j] = Released(row[j])
        BY <1>4 DEF ReleaseRow, Holds, Budgeted
  <2> QED BY <1>0, <2>1, UpdatesFollow
<1>5. CASE RenewLease(w)
  <2>1. \/ row'[j] = row[j]
        \/ row'[j] = [row[j] EXCEPT !.timer = "set"]
        BY <1>5 DEF RenewLease, Holds, Budgeted
  <2> QED BY <1>0, <2>1, UpdatesFollow
<1> QED BY <1>0, <1>1, <1>2, <1>3, <1>4, <1>5 DEF StatementCommits

LEMMA ReaperFollows ==
    ASSUME Budgeted, NEW j \in Jobs,
           ReapExpired \/ ReapStuckCreated \/ \E i \in Jobs : TimePasses(i)
    PROVE  Follows(row[j], row'[j])
<1>0. Follows(row[j], row[j]) /\ row[j] \in Rows
      BY DEF Follows, Budgeted
<1>1. CASE ReapExpired
  <2>1. \/ row'[j] = row[j]
        \/ /\ row[j].state = "running"
           /\ row'[j] \in {Requeued(row[j]), DeadLettered(row[j])}
        BY <1>1 DEF ReapExpired, ReapedRow, Reapable
  <2> QED BY <1>0, <2>1, UpdatesFollow
<1>2. CASE ReapStuckCreated
  <2>1. \/ row'[j] = row[j]
        \/ row[j].state = "created" /\ row'[j] = DeadLettered(row[j])
        BY <1>2 DEF ReapStuckCreated, StuckCreated
  <2> QED BY <1>0, <2>1, UpdatesFollow
<1>3. CASE \E i \in Jobs : TimePasses(i)
  <2>1. \/ row'[j] = row[j]
        \/ row'[j] = [row[j] EXCEPT !.timer = "due"]
        BY <1>3 DEF TimePasses, Budgeted
  <2> QED BY <1>0, <2>1, UpdatesFollow
<1> QED BY <1>1, <1>2, <1>3

LEMMA StagedFollows ==
    ASSUME NEW j \in Jobs, StagedWell(j), Follows(row[j], row'[j]),
           file'[j] = file[j], api'[j] = api[j]
    PROVE  StagedWell(j)'
<1> DEFINE r == row[j]
           s == row'[j]
           f == file[j]
           a == api[j]
<1>1. /\ r.state \in {"queued", "running"} /\ j \in ZipJobs =>
            r.sourceRef /\ f \in {"fresh", "old", "swept"}
      /\ a = "mark" /\ r.state = "created" => f = "fresh"
      /\ r.state = "none" => f = "none" /\ a = "off"
      /\ a # "off" => r.state \in {"created", "dead_letter"}
      BY DEF StagedWell, Live
<1>2. \/ s.state = r.state /\ s.sourceRef = r.sourceRef
      \/ /\ r.state \in {"queued", "running"}
         /\ s.state \in {"queued", "running"} /\ s.sourceRef = r.sourceRef
      \/ /\ r.state = "created" /\ s.state = "dead_letter"
      \/ /\ r.state \in {"queued", "running"} /\ s.state \in Terminal
      BY DEF Follows
<1>3. SUFFICES
      /\ s.state \in {"queued", "running"} /\ j \in ZipJobs =>
            s.sourceRef /\ f \in {"fresh", "old", "swept"}
      /\ a = "mark" /\ s.state = "created" => f = "fresh"
      /\ s.state = "none" => f = "none" /\ a = "off"
      /\ a # "off" => s.state \in {"created", "dead_letter"}
      BY DEF StagedWell, Live
<1> HIDE DEF r, s, f, a
<1>4. CASE s.state = r.state /\ s.sourceRef = r.sourceRef
      BY <1>1, <1>4
<1>5. CASE /\ r.state \in {"queued", "running"}
           /\ s.state \in {"queued", "running"} /\ s.sourceRef = r.sourceRef
      BY <1>1, <1>5 DEF LiveStates
<1>6. CASE r.state = "created" /\ s.state = "dead_letter"
      BY <1>1, <1>6 DEF LiveStates
<1>7. CASE r.state \in {"queued", "running"} /\ s.state \in Terminal
      BY <1>1, <1>7 DEF LiveStates, Terminal
<1> QED BY <1>2, <1>4, <1>5, <1>6, <1>7

\* The intake's steps, one job at a time.
LEMMA StagedIntake ==
    ASSUME Budgeted, TypeRest, Staged, NEW i \in Jobs, NEW j \in Jobs,
           Enqueue(i) \/ ApiStep(i) \/ StagingFails(i) \/ RequestFails(i)
    PROVE  StagedWell(j)'
<1>1. StagedWell(j) /\ StagedWell(i)
      BY DEF Staged
<1>2. row[i] \in Rows /\ row[j] \in Rows
      BY DEF Budgeted
<1>3. CASE i # j
  <2>1. row'[j] = row[j] /\ file'[j] = file[j] /\ api'[j] = api[j]
        BY <1>3 DEF Enqueue, ApiStep, SpoolCheck, OpenTemp, ReplaceTemp,
           MarkQueued, CleanupStaged, AbandonCreated, StagingFails,
           RequestFails, Budgeted, TypeRest
  <2> QED BY <1>1, <2>1, StagedFollows DEF Follows
<1>4. CASE i = j
  <2>1. CASE Enqueue(j)
        BY <1>1, <2>1 DEF Enqueue, StagedWell, Live, NoRow, Budgeted,
           TypeRest, LiveStates
  <2>2. CASE SpoolCheck(j)
        BY <1>1, <2>2 DEF SpoolCheck, StagedWell, Live, TypeRest
  <2>3. CASE OpenTemp(j) \/ ReplaceTemp(j) \/ CleanupStaged(j)
        BY <1>1, <2>3 DEF OpenTemp, ReplaceTemp, CleanupStaged, StagedWell,
           Live, TypeRest
  <2>4. CASE MarkQueued(j)
    <3>1. CASE StillCreated(j)
      <4>1. /\ row'[j] = MarkedQueued(row[j]) /\ api'[j] = "off"
            /\ file' = file /\ api[j] = "mark" /\ row[j].state = "created"
            BY <2>4, <3>1 DEF MarkQueued, StillCreated, TypeRest, Budgeted
      <4>2. /\ MarkedQueued(row[j]).state = "queued"
            /\ MarkedQueued(row[j]).sourceRef
            BY <1>2, RowUpdatesFields
      <4>3. file'[j] = "fresh"
            BY <1>1, <4>1 DEF StagedWell
      <4> QED BY <4>1, <4>2, <4>3 DEF StagedWell, Live
    <3>2. CASE ~StillCreated(j)
          BY <1>1, <2>4, <3>2 DEF MarkQueued, StagedWell, Live, TypeRest
    <3> QED BY <3>1, <3>2
  <2>5. CASE AbandonCreated(j)
    <3>1. CASE StillCreated(j)
          BY <1>1, <1>2, <1>4, <2>5, <3>1, RowUpdatesFields
          DEF AbandonCreated, StillCreated, StagedWell, Live, LiveStates,
              TypeRest, Budgeted
    <3>2. CASE ~StillCreated(j)
          BY <1>1, <2>5, <3>2 DEF AbandonCreated, StagedWell, Live, TypeRest
    <3> QED BY <3>1, <3>2
  <2>6. CASE StagingFails(j)
        BY <1>1, <2>6 DEF StagingFails, StagedWell, Live, TypeRest
  <2>7. CASE RequestFails(j)
    <3>1. CASE row' = row
          BY <1>1, <2>7, <3>1 DEF RequestFails, StagedWell, Live, TypeRest
    <3>2. CASE /\ StillCreated(j)
               /\ row'[j] = MarkedQueued(row[j]) /\ api[j] = "mark"
          BY <1>1, <1>2, <1>4, <2>7, <3>2, RowUpdatesFields
          DEF RequestFails, StillCreated, StagedWell, Live, LiveStates,
              TypeRest
    <3>3. CASE StillCreated(j) /\ row'[j] = DeadLettered(row[j])
          BY <1>1, <1>2, <1>4, <2>7, <3>3, RowUpdatesFields
          DEF RequestFails, StillCreated, StagedWell, Live, LiveStates,
              TypeRest
    <3> QED BY <2>7, <3>1, <3>2, <3>3 DEF RequestFails, Budgeted
  <2> QED BY <1>4, <2>1, <2>2, <2>3, <2>4, <2>5, <2>6, <2>7 DEF ApiStep
<1> QED BY <1>3, <1>4

LEMMA StagedStep ==
    ASSUME Budgeted, TypeRest, SlotsSound, Staged, [Next]_vars
    PROVE  Staged'
<1> USE DEF otherVars, workerVars
<1> SUFFICES ASSUME NEW j \in Jobs  PROVE StagedWell(j)'
    BY DEF Staged
<1>0. StagedWell(j)
      BY DEF Staged
<1>1. ASSUME NEW i \in Jobs,
             Enqueue(i) \/ ApiStep(i) \/ StagingFails(i) \/ RequestFails(i)
      PROVE  StagedWell(j)'
      BY <1>1, StagedIntake
<1>2. ASSUME NEW i \in Jobs, TimePasses(i)  PROVE StagedWell(j)'
  <2>1. Follows(row[j], row'[j])
        BY <1>2, ReaperFollows
  <2> QED BY <1>0, <1>2, <2>1, StagedFollows DEF TimePasses
<1>3. ASSUME NEW i \in Jobs, ArchiveAges(i)  PROVE StagedWell(j)'
  <2>1. row' = row /\ api' = api
        BY <1>3 DEF ArchiveAges
  <2>2. \/ file'[j] = file[j]
        \/ file[j] = "fresh" /\ api[j] = "off" /\ file'[j] = "old"
        BY <1>3 DEF ArchiveAges, TypeRest
  <2> QED BY <1>0, <2>1, <2>2 DEF StagedWell, Live, LiveStates
<1>4. ASSUME SweepArchives  PROVE StagedWell(j)'
  <2>1. row' = row /\ api' = api
        BY <1>4 DEF SweepArchives
  <2>2. file'[j] = file[j] \/ (file[j] = "old" /\ file'[j] = "swept")
        BY <1>4 DEF SweepArchives, Sweepable, TypeRest
  <2> QED BY <1>0, <2>1, <2>2 DEF StagedWell, Live, LiveStates
<1>5. ASSUME NEW w \in Slots, DiscardPayload(w)  PROVE StagedWell(j)'
  <2>1. row' = row /\ api' = api
        BY <1>5 DEF DiscardPayload
  <2>2. \/ file'[j] = file[j]
        \/ row[j].state \in Terminal /\ file'[j] = "none"
        BY <1>5 DEF DiscardPayload, TypeRest, SlotsSound, SlotSound
  <2> QED BY <1>0, <2>1, <2>2 DEF StagedWell, Live, LiveStates, Terminal
<1>6. ASSUME NEW w \in Slots, ~DiscardPayload(w),
             \/ SlotStep(w) \/ RenewLease(w) \/ HeartbeatRaises(w)
             \/ SlotDies(w)
      PROVE  StagedWell(j)'
  <2>1. Follows(row[j], row'[j])
        BY <1>6, SlotFollows
  <2>2. file' = file /\ api' = api
        BY <1>6 DEF SlotStep, CheckStop, LeaveLoop, ClaimOne, LoadPayload,
           ScanFinishes, FinalizeSucceeded, FinalizeFailed, ReleaseEarly,
           CancelSlot, RenewLease, HeartbeatRaises, SlotDies
  <2> QED BY <1>0, <2>1, <2>2, StagedFollows
<1>7. ASSUME ReapExpired \/ ReapStuckCreated  PROVE StagedWell(j)'
  <2>1. Follows(row[j], row'[j])
        BY <1>7, ReaperFollows
  <2>2. file' = file /\ api' = api
        BY <1>7 DEF ReapExpired, ReapStuckCreated
  <2> QED BY <1>0, <2>1, <2>2, StagedFollows
<1>8. ASSUME ApiCrash  PROVE StagedWell(j)'
  <2>1. row' = row /\ file' = file /\ api'[j] = "off"
        BY <1>8 DEF ApiCrash
  <2> QED BY <1>0, <2>1 DEF StagedWell, Live
<1>9. ASSUME \/ EngageStop \/ LiftStop \/ UNCHANGED vars
             \/ \E p \in Procs : ProcStep(p) \/ Sigterm(p) \/ Kill(p)
      PROVE  StagedWell(j)'
  <2>1. row' = row /\ file' = file /\ api' = api
        BY <1>9 DEF EngageStop, LiftStop, vars, ProcStep, GraceExpires,
           WorkerExits, Restart, Sigterm, Kill
  <2> QED BY <1>0, <2>1 DEF StagedWell, Live
<1> QED BY <1>1, <1>2, <1>3, <1>4, <1>5, <1>6, <1>7, <1>8, <1>9 DEF Next

\* However long a job waits, and whoever is killed, nothing but the sweep at
\* its age limit removes what a worker may still be asked to read.
THEOREM PayloadsArePresent == Spec => []PayloadPresent
<1>1. Init => Staged
      BY DEF Init, Staged, StagedWell, Live, LiveStates, NoRow
<1>2. Budgeted /\ TypeRest /\ SlotsSound /\ Staged /\ [Next]_vars => Staged'
      BY StagedStep
<1>3. Staged => PayloadPresent
  <2> SUFFICES ASSUME Staged, NEW j \in ZipJobs,
                      row[j].state \in {"queued", "running"}
               PROVE  row[j].sourceRef /\ file[j] \in {"fresh", "old", "swept"}
      BY DEF PayloadPresent
  <2>1. j \in Jobs
        BY JobsAssumption
  <2> QED BY <2>1 DEF Staged, StagedWell
<1> QED BY <1>1, <1>2, <1>3, SoundHolds, PTL DEF Spec

-----------------------------------------------------------------------------
(* The spool and its budget *)

\* What is in the spool or on its way there, and passed the check.
InSpool == Archives \union Staging

SpoolInv ==
    /\ IsFiniteSet(Archives) /\ IsFiniteSet(Partials) /\ IsFiniteSet(Staging)
    /\ Cardinality(InSpool) < SpoolBudget + Threads

\* A step after which nothing more is in the spool than before.
LEMMA SpoolShrinks ==
    ASSUME SpoolInv, Archives' \subseteq InSpool, IsFiniteSet(Partials'),
           Staging' \subseteq Staging
    PROVE  SpoolInv'
<1>1. IsFiniteSet(InSpool) /\ Cardinality(InSpool) \in Nat
      BY FS_Union, FS_CardinalityType DEF SpoolInv, InSpool
<1>2. InSpool' \subseteq InSpool  BY DEF InSpool
<1>3. /\ IsFiniteSet(Archives') /\ IsFiniteSet(Staging') /\ IsFiniteSet(InSpool')
      /\ Cardinality(InSpool') <= Cardinality(InSpool)
      BY <1>1, <1>2, FS_Subset DEF SpoolInv
<1>4. Cardinality(InSpool') \in Nat  BY <1>3, FS_CardinalityType
<1> QED BY <1>1, <1>3, <1>4, BoundsAssumption DEF SpoolInv

\* The check admits one more upload while the others it did not see may still
\* be on the pool's threads.
LEMMA SpoolChecked ==
    ASSUME SpoolInv, TypeRest, NEW j \in Jobs, SpoolCheck(j)
    PROVE  SpoolInv'
<1>1. file' = file  BY DEF SpoolCheck
<1>2. Archives' = Archives /\ Partials' = Partials  BY <1>1 DEF Archives, Partials
<1>3. PICK counted \in SUBSET Partials :
         api' = [api EXCEPT ![j] = IF OverBudget(Cardinality(Archives \union counted))
                                   THEN "abandon" ELSE "open"]
      BY DEF SpoolCheck
<1>4. CASE OverBudget(Cardinality(Archives \union counted))
  <2>1. Staging' \subseteq Staging  BY <1>3, <1>4 DEF Staging, TypeRest
  <2> QED BY <1>2, <2>1, SpoolShrinks DEF SpoolInv, InSpool
<1>5. CASE ~OverBudget(Cardinality(Archives \union counted))
  <2>1. Staging' = Staging \union {j}  BY <1>3, <1>5 DEF Staging, TypeRest
  <2> DEFINE seen == Archives \union counted
  <2>2. IsFiniteSet(seen)
    <3>1. IsFiniteSet(counted)  BY FS_Subset DEF SpoolInv
    <3> QED BY <3>1, FS_Union DEF SpoolInv
  <2>3. /\ Cardinality(seen) \in Nat /\ Cardinality(seen) + 1 <= SpoolBudget
    <3>1. Cardinality(seen) \in Nat  BY <2>2, FS_CardinalityType
    <3> QED BY <1>5, <3>1, BoundsAssumption DEF OverBudget
  <2>4. Cardinality(Archives) <= Cardinality(seen) /\ Cardinality(Archives) \in Nat
    <3>1. Archives \in SUBSET seen  OBVIOUS
    <3>2. Cardinality(Archives) <= Cardinality(seen)  BY <2>2, <3>1, FS_Subset
    <3> QED BY <3>2, FS_CardinalityType DEF SpoolInv
  <2>5. /\ IsFiniteSet(Staging') /\ Cardinality(Staging') \in Nat
        /\ Cardinality(Staging') <= Threads
    <3>1. Cardinality(Staging) \in Nat /\ Cardinality(Staging) < Threads
          BY FS_CardinalityType DEF SpoolInv, SpoolCheck
    <3>2. /\ IsFiniteSet(Staging')
          /\ Cardinality(Staging') = IF j \in Staging THEN Cardinality(Staging)
                                     ELSE Cardinality(Staging) + 1
          BY <2>1, FS_AddElement DEF SpoolInv
    <3> QED BY <3>1, <3>2, BoundsAssumption
  <2>6. Cardinality(Archives \union Staging') <= Cardinality(Archives) + Cardinality(Staging')
        /\ Cardinality(Archives \union Staging') \in Nat
    <3>1. /\ IsFiniteSet(Archives \union Staging')
          /\ Cardinality(Archives \union Staging') =
                Cardinality(Archives) + Cardinality(Staging')
                - Cardinality(Archives \intersect Staging')
          BY <2>5, FS_Union DEF SpoolInv
    <3>2. IsFiniteSet(Archives \intersect Staging')  BY FS_Subset DEF SpoolInv
    <3>3. Cardinality(Archives \intersect Staging') \in Nat
          /\ Cardinality(Archives \union Staging') \in Nat
          BY <3>1, <3>2, FS_CardinalityType
    <3> QED BY <2>4, <2>5, <3>1, <3>3
  <2>7. InSpool' = Archives \union Staging'  BY <1>2 DEF InSpool
  <2> QED BY <1>2, <2>3, <2>4, <2>5, <2>6, <2>7, BoundsAssumption DEF SpoolInv
<1> QED BY <1>4, <1>5

LEMMA SpoolStep ==
    ASSUME SpoolInv, TypeRest, [Next]_vars
    PROVE  SpoolInv'
<1> USE DEF otherVars, workerVars
<1>1. ASSUME NEW j \in Jobs, SpoolCheck(j)  PROVE SpoolInv'
      BY <1>1, SpoolChecked
<1>2. ASSUME NEW j \in Jobs, OpenTemp(j)  PROVE SpoolInv'
  <2>1. Archives' \subseteq Archives /\ Staging' \subseteq Staging
        /\ Partials' = Partials \union {j}
        BY <1>2 DEF OpenTemp, Archives, Partials, Staging, TypeRest
  <2>2. IsFiniteSet(Partials')  BY <2>1, FS_AddElement DEF SpoolInv
  <2> QED BY <2>1, <2>2, SpoolShrinks DEF InSpool
<1>3. ASSUME Archives' \subseteq InSpool, Partials' \subseteq Partials,
             Staging' \subseteq Staging
      PROVE  SpoolInv'
  <2>1. IsFiniteSet(Partials')  BY <1>3, FS_Subset DEF SpoolInv
  <2> QED BY <1>3, <2>1, SpoolShrinks
<1>4. ASSUME \A i \in Jobs : \/ file'[i] \in {file[i], "none", "swept"}
                             \/ file[i] = "fresh" /\ file'[i] = "old"
                             \/ api[i] = "write" /\ file'[i] = "fresh",
             \A i \in Jobs : api'[i] = api[i] \/ api'[i] \notin {"open", "write"}
      PROVE  SpoolInv'
  <2>1. Archives' \subseteq InSpool  BY <1>4 DEF Archives, InSpool, Staging
  <2>2. Partials' \subseteq Partials  BY <1>4 DEF Partials
  <2>3. Staging' \subseteq Staging  BY <1>4 DEF Staging
  <2> QED BY <1>3, <2>1, <2>2, <2>3
<1>5. ASSUME NEW j \in Jobs,
             \/ Enqueue(j) \/ ReplaceTemp(j) \/ MarkQueued(j) \/ CleanupStaged(j)
             \/ AbandonCreated(j) \/ StagingFails(j) \/ RequestFails(j)
             \/ TimePasses(j) \/ ArchiveAges(j)
      PROVE  SpoolInv'
  <2>1. /\ \A i \in Jobs : \/ file'[i] \in {file[i], "none", "swept"}
                           \/ file[i] = "fresh" /\ file'[i] = "old"
                           \/ api[i] = "write" /\ file'[i] = "fresh"
        /\ \A i \in Jobs : api'[i] = api[i] \/ api'[i] \notin {"open", "write"}
        BY <1>5 DEF Enqueue, ReplaceTemp, MarkQueued, CleanupStaged, AbandonCreated,
           StagingFails, RequestFails, TimePasses, ArchiveAges, TypeRest
  <2> QED BY <1>4, <2>1
<1>6. ASSUME NEW w \in Slots, DiscardPayload(w)  PROVE SpoolInv'
  <2>1. (\A i \in Jobs : file'[i] \in {file[i], "none", "swept"}) /\ api' = api
        BY <1>6 DEF DiscardPayload, TypeRest
  <2> QED BY <1>4, <2>1
<1>7. CASE SweepArchives
  <2>1. (\A i \in Jobs : file'[i] \in {file[i], "none", "swept"}) /\ api' = api
        BY <1>7 DEF SweepArchives
  <2> QED BY <1>4, <2>1
<1>8. CASE ApiCrash
  <2>1. file' = file /\ \A i \in Jobs : api'[i] = "off"  BY <1>8 DEF ApiCrash
  <2> QED BY <1>4, <2>1
<1>9. CASE UNCHANGED <<file, api>>  BY <1>4, <1>9
<1>10. ASSUME NEW w \in Slots, ~DiscardPayload(w),
              SlotStep(w) \/ RenewLease(w) \/ HeartbeatRaises(w) \/ SlotDies(w)
       PROVE  UNCHANGED <<file, api>>
       BY <1>10 DEF SlotStep, CheckStop, LeaveLoop, ClaimOne, LoadPayload, ScanFinishes,
          FinalizeSucceeded, FinalizeFailed, ReleaseEarly, CancelSlot, RenewLease,
          HeartbeatRaises, SlotDies
<1>11. ASSUME \/ ReapExpired \/ ReapStuckCreated \/ EngageStop \/ LiftStop
              \/ UNCHANGED vars
              \/ \E p \in Procs : ProcStep(p) \/ Sigterm(p) \/ Kill(p)
       PROVE  UNCHANGED <<file, api>>
       BY <1>11 DEF ReapExpired, ReapStuckCreated, EngageStop, LiftStop, vars, ProcStep,
          GraceExpires, WorkerExits, Restart, Sigterm, Kill
<1> QED BY <1>1, <1>2, <1>5, <1>6, <1>7, <1>8, <1>9, <1>10, <1>11 DEF Next, ApiStep

\* stage_archive: uploads that passed the check together overrun the spool's
\* budget by less than the pool has threads, whatever was left behind by
\* crashes, failed replaces and slow requests.
THEOREM SpoolOverrunIsLimited == Spec => []SpoolOverrunIsBounded
<1>1. Init => SpoolInv
  <2> SUFFICES ASSUME Init PROVE SpoolInv
      OBVIOUS
  <2>1. Archives = {} /\ Partials = {} /\ Staging = {} /\ InSpool = {}
        BY DEF Init, Archives, Partials, Staging, InSpool
  <2> QED BY <2>1, FS_EmptySet, BoundsAssumption DEF SpoolInv
<1>2. SpoolInv /\ TypeRest /\ [Next]_vars => SpoolInv'
      BY SpoolStep
<1>3. SpoolInv => SpoolOverrunIsBounded
  <2> SUFFICES ASSUME SpoolInv PROVE SpoolOverrunIsBounded
      OBVIOUS
  <2>1. IsFiniteSet(InSpool) /\ Archives \in SUBSET InSpool
        BY FS_Union DEF SpoolInv, InSpool
  <2>2. /\ Cardinality(Archives) <= Cardinality(InSpool)
        /\ Cardinality(Archives) \in Nat /\ Cardinality(InSpool) \in Nat
        BY <2>1, FS_Subset, FS_CardinalityType DEF SpoolInv
  <2> QED BY <2>2, BoundsAssumption DEF SpoolInv, SpoolOverrunIsBounded
<1> QED BY <1>1, <1>2, <1>3, InvariantHolds, PTL DEF Spec

-----------------------------------------------------------------------------
(* The rows implement the abstract lease queue *)

\* The columns show what was spent.
LEMMA SpentIsBurnt ==
    ASSUME Budgeted
    PROVE  SpentAttempts = burnt
<1>1. \A j \in Jobs : /\ row[j] \in Rows /\ Accounted(row[j], burnt[j])
                      /\ burnt[j] \in 0..MaxAttempts
      BY DEF Budgeted
<1>2. ASSUME NEW j \in Jobs
      PROVE  SpentAttempts[j] = burnt[j]
  <2>1. row[j].state \in JobStates /\ row[j].attempts \in Nat
        BY <1>1, BoundsAssumption DEF Rows
  <2>2. Accounted(row[j], burnt[j]) /\ burnt[j] \in Nat
        BY <1>1, BoundsAssumption
  <2> QED BY <2>1, <2>2 DEF SpentAttempts, Accounted, JobStates
<1>3. SpentAttempts = [j \in Jobs |-> SpentAttempts[j]]
      BY DEF SpentAttempts
<1>4. burnt = [j \in Jobs |-> burnt[j]]
      BY DEF Budgeted
<1> QED BY <1>2, <1>3, <1>4

LEMMA SpentIsBurntNext ==
    ASSUME Budgeted'
    PROVE  SpentAttempts' = burnt'
<1>1. \A j \in Jobs : /\ row'[j] \in Rows /\ Accounted(row'[j], burnt'[j])
                      /\ burnt'[j] \in 0..MaxAttempts
      BY DEF Budgeted, Accounted
<1>2. ASSUME NEW j \in Jobs
      PROVE  SpentAttempts'[j] = burnt'[j]
  <2>1. row'[j].state \in JobStates /\ row'[j].attempts \in Nat
        BY <1>1, BoundsAssumption DEF Rows
  <2>2. Accounted(row'[j], burnt'[j]) /\ burnt'[j] \in Nat
        BY <1>1, BoundsAssumption
  <2> QED BY <2>1, <2>2 DEF SpentAttempts, Accounted, JobStates
<1>3. SpentAttempts' = [j \in Jobs |-> SpentAttempts'[j]]
      BY DEF SpentAttempts
<1>4. burnt' = [j \in Jobs |-> burnt'[j]]
      BY DEF Budgeted
<1> QED BY <1>2, <1>3, <1>4

\* A slot's answer counts exactly while its lease gate is open.
LEMMA AttemptOf ==
    ASSUME TypeRest, LeaseIsExact, SlotsSound, NEW w \in Slots
    PROVE  /\ ValidAttempts[w] = IF Working(w) /\ ~writtenOff[w] THEN slot[w].job
                                 ELSE NoJob
           /\ ValidAttempts[w] \in Jobs \union {NoJob}
           /\ Working(w) /\ Holds(w) => ValidAttempts[w] = slot[w].job
           /\ ~Working(w) => ValidAttempts[w] = NoJob
           /\ \A j \in Jobs : ValidAttempts[w] = j => Holds(w) /\ slot[w].job = j
<1>1. ValidAttempts[w] = IF Working(w) /\ ~writtenOff[w] THEN slot[w].job ELSE NoJob
      BY DEF ValidAttempts
<1>2. Working(w) => (Holds(w) <=> ~writtenOff[w]) /\ slot[w].job \in Jobs
      BY DEF LeaseIsExact, SlotsSound, SlotSound
<1> QED BY <1>1, <1>2, JobsAssumption

\* A step that leaves every state, and what slot v has, alone.
LEMMA SameState ==
    ASSUME \A j \in Jobs : row'[j].state = row[j].state
    PROVE  PublicState' = PublicState
BY DEF PublicState

LEMMA OneState ==
    ASSUME NEW i \in Jobs, \A j \in Jobs \ {i} : row'[j].state = row[j].state
    PROVE  PublicState' = [PublicState EXCEPT ![i] = row'[i].state]
BY DEF PublicState

LEMMA SameAttempt ==
    ASSUME NEW v \in Slots, slot'[v] = slot[v], writtenOff'[v] = writtenOff[v]
    PROVE  ValidAttempts'[v] = ValidAttempts[v]
BY DEF ValidAttempts, Working

\* The attempts of the slots in W are dropped and the others stay.
LEMMA DropAttempts ==
    ASSUME NEW W \in SUBSET Slots,
           \A w \in W : ValidAttempts'[w] = NoJob,
           \A w \in Slots \ W : ValidAttempts'[w] = ValidAttempts[w]
    PROVE  LQ!Dropped(W)
<1>1. ValidAttempts' = [w \in Slots |-> ValidAttempts'[w]]
      BY DEF ValidAttempts
<1> QED BY <1>1 DEF LQ!Dropped

LEMMA KeepAttempts ==
    ASSUME \A w \in Slots : ValidAttempts'[w] = ValidAttempts[w]
    PROVE  ValidAttempts' = ValidAttempts
<1>1. /\ ValidAttempts' = [w \in Slots |-> ValidAttempts'[w]]
      /\ ValidAttempts = [w \in Slots |-> ValidAttempts[w]]
      BY DEF ValidAttempts
<1> QED BY <1>1

\* No row changes its state: the slots in question may lose their attempts.
LEMMA QuietRefines ==
    ASSUME Budgeted, Budgeted', UNCHANGED burnt,
           \A j \in Jobs : row'[j].state = row[j].state,
           \A v \in Slots : ValidAttempts'[v] \in {ValidAttempts[v], NoJob}
    PROVE  [LQ!Next]_(LQ!vars)
<1> DEFINE W == {v \in Slots : ValidAttempts'[v] = NoJob}
<1>1. LQ!Dropped(W)  BY DropAttempts
<1>2. PublicState' = PublicState  BY SameState
<1>3. SpentAttempts' = SpentAttempts  BY SpentIsBurnt, SpentIsBurntNext
<1>4. W \in SUBSET Slots  OBVIOUS
<1> HIDE DEF W
<1>5. LQ!Lose(W)  BY <1>1, <1>2, <1>3 DEF LQ!Lose
<1> QED BY <1>4, <1>5 DEF LQ!Next

\* The three statements that end a lease, and the claim.
LEMMA OneRefines ==
    ASSUME Budgeted, Budgeted', NEW w \in Slots, NEW j \in Jobs,
           \A i \in Jobs \ {j} : row'[i].state = row[i].state,
           \A v \in Slots \ {w} : ValidAttempts'[v] = ValidAttempts[v]
    PROVE  /\ PublicState' = [PublicState EXCEPT ![j] = row'[j].state]
           /\ SpentAttempts = burnt /\ SpentAttempts' = burnt'
           /\ ValidAttempts'[w] = NoJob => LQ!Dropped({w})
           /\ ValidAttempts' = [ValidAttempts EXCEPT ![w] = ValidAttempts'[w]]
<1>1. ValidAttempts' = [ValidAttempts EXCEPT ![w] = ValidAttempts'[w]]
  <2>1. /\ ValidAttempts' = [v \in Slots |-> ValidAttempts'[v]]
        /\ ValidAttempts = [v \in Slots |-> ValidAttempts[v]]
        BY DEF ValidAttempts
  <2> QED BY <2>1
<1>2. ValidAttempts'[w] = NoJob => LQ!Dropped({w})  BY DropAttempts
<1> QED BY <1>1, <1>2, OneState, SpentIsBurnt, SpentIsBurntNext

\* claim_one commits, and the slot lives to learn of it or not.
LEMMA ClaimRefines ==
    ASSUME Budgeted, Budgeted', TypeRest, LeaseIsExact, SlotsSound,
           NEW w \in Slots, slot[w].phase = "claim",
           NEW j \in Jobs, Claimable(j), row' = [row EXCEPT ![j] = Claimed(@, w)],
           UNCHANGED burnt, ValidAttempts'[w] \in {j, NoJob},
           \A v \in Slots \ {w} : ValidAttempts'[v] = ValidAttempts[v]
    PROVE  LQ!Claim(w, j)
<1>1. row[j] \in Rows /\ row[j].state = "queued" /\ Accounted(row[j], burnt[j])
      BY DEF Budgeted, Claimable
<1>2. row'[j].state = "running" /\ \A i \in Jobs \ {j} : row'[i].state = row[i].state
  <2>1. Claimed(row[j], w).state = "running"  BY <1>1, ClaimedFields
  <2> QED BY <2>1 DEF Budgeted
<1>3. burnt[j] < MaxAttempts  BY <1>1 DEF Accounted
<1>4. ValidAttempts[w] = NoJob  BY AttemptOf DEF Working
<1>5. PublicState[j] = "queued"  BY <1>1 DEF PublicState
<1> QED BY <1>2, <1>3, <1>4, <1>5, OneRefines DEF LQ!Claim

\* finalize_succeeded or finalize_failed finds its row: the answer counts.
LEMMA FinalizeRefines ==
    ASSUME Budgeted, Budgeted', TypeRest, LeaseIsExact, SlotsSound,
           NEW w \in Slots, slot[w].phase \in {"ok", "transient", "permanent"},
           Holds(w), FinalizeRow(w), ValidAttempts'[w] = NoJob,
           \A v \in Slots \ {w} : ValidAttempts'[v] = ValidAttempts[v]
    PROVE  LQ!Finish(w, slot[w].job) \/ LQ!Fail(w, slot[w].job)
<1> DEFINE j == slot[w].job
<1>1. j \in Jobs /\ row[j] \in Rows /\ row[j].state = "running"  BY DEF Holds, Budgeted
<1>2. LQ!On(w, j)  BY <1>1, AttemptOf DEF LQ!On, Working
<1>3. CASE slot[w].phase = "ok"
  <2>1. row' = [row EXCEPT ![j] = Succeeded(row[j])] /\ burnt' = burnt
        BY <1>3 DEF FinalizeRow
  <2>2. row'[j].state = "succeeded" /\ \A i \in Jobs \ {j} : row'[i].state = row[i].state
        BY <1>1, <2>1, RowUpdatesFields DEF Budgeted
  <2>3. LQ!Finish(w, j)  BY <1>1, <1>2, <2>1, <2>2, OneRefines DEF LQ!Finish
  <2> QED BY <2>3
<1>4. CASE slot[w].phase # "ok"
  <2>1. /\ row' = [row EXCEPT ![j] = Failed(row[j], slot[w].phase = "permanent")]
        /\ burnt' = [burnt EXCEPT ![j] = @ + 1]
        BY <1>4 DEF FinalizeRow
  <2> DEFINE s == row'[j].state
  <2>2. /\ s \in {"queued", "dead_letter"}
        /\ \A i \in Jobs \ {j} : row'[i].state = row[i].state
    <3>1. Failed(row[j], slot[w].phase = "permanent").state \in {"queued", "dead_letter"}
          BY <1>1, RowUpdatesFields DEF Failed
    <3> QED BY <1>1, <2>1, <3>1 DEF Budgeted
  <2>3. s = "queued" => burnt[j] + 1 < MaxAttempts
    <3>1. Accounted(row'[j], burnt'[j]) /\ burnt[j] \in 0..MaxAttempts
          BY <1>1 DEF Budgeted, Accounted
    <3>2. burnt'[j] = burnt[j] + 1  BY <1>1, <2>1 DEF Budgeted
    <3> QED BY <2>2, <3>1, <3>2 DEF Accounted
  <2>4. /\ PublicState' = [PublicState EXCEPT ![j] = s] /\ LQ!Dropped({w})
        /\ SpentAttempts = burnt /\ SpentAttempts' = burnt'
        BY <1>1, <2>2, OneRefines
  <2>5. SpentAttempts' = [SpentAttempts EXCEPT ![j] = @ + 1]  BY <2>1, <2>4
  <2>6. s = "queued" => SpentAttempts[j] + 1 < MaxAttempts  BY <2>3, <2>4
  <2>7. LQ!Fail(w, j)  BY <1>2, <2>2, <2>4, <2>5, <2>6 DEF LQ!Fail
  <2> QED BY <2>7
<1> QED BY <1>3, <1>4

LEMMA ReleaseRefines ==
    ASSUME Budgeted, Budgeted', TypeRest, LeaseIsExact, SlotsSound,
           NEW w \in Slots, slot[w].phase = "release",
           Holds(w), ReleaseRow(w), UNCHANGED burnt, ValidAttempts'[w] = NoJob,
           \A v \in Slots \ {w} : ValidAttempts'[v] = ValidAttempts[v]
    PROVE  LQ!GiveBack(w, slot[w].job)
<1> DEFINE j == slot[w].job
<1>1. j \in Jobs /\ row[j] \in Rows  BY DEF Holds, Budgeted
<1>2. LQ!On(w, j)  BY <1>1, AttemptOf DEF LQ!On, Working
<1>3. row'[j].state = "queued" /\ \A i \in Jobs \ {j} : row'[i].state = row[i].state
      BY <1>1, RowUpdatesFields DEF ReleaseRow, Budgeted
<1> QED BY <1>1, <1>2, <1>3, OneRefines DEF LQ!GiveBack

\* What a statement does when the slot is vacated with it, or after it.
LEMMA StatementRefines ==
    ASSUME Budgeted, Budgeted', TypeRest, LeaseIsExact, SlotsSound,
           NEW w \in Slots, ValidAttempts'[w] = NoJob,
           \A v \in Slots \ {w} : ValidAttempts'[v] = ValidAttempts[v],
           UNCHANGED <<row, burnt>> \/ StatementCommits(w)
    PROVE  [LQ!Next]_(LQ!vars)
<1>1. CASE UNCHANGED <<row, burnt>>  BY <1>1, QuietRefines
<1>2. CASE /\ slot[w].phase = "claim" /\ UNCHANGED burnt
           /\ \E j \in Jobs : Claimable(j) /\ row' = [row EXCEPT ![j] = Claimed(@, w)]
      BY <1>2, ClaimRefines DEF LQ!Next
<1>3. CASE slot[w].phase \in {"ok", "transient", "permanent"} /\ FinalizeRow(w)
  <2>1. CASE Holds(w)
    <3>1. slot[w].job \in Jobs  BY <2>1 DEF Holds
    <3> QED BY <1>3, <2>1, <3>1, FinalizeRefines DEF LQ!Next
  <2>2. CASE ~Holds(w)  BY <1>1, <1>3, <2>2 DEF FinalizeRow
  <2> QED BY <2>1, <2>2
<1>4. CASE slot[w].phase = "release" /\ ReleaseRow(w) /\ UNCHANGED burnt
  <2>1. CASE Holds(w)
    <3>1. slot[w].job \in Jobs  BY <2>1 DEF Holds
    <3> QED BY <1>4, <2>1, <3>1, ReleaseRefines DEF LQ!Next
  <2>2. CASE ~Holds(w)  BY <1>1, <1>4, <2>2 DEF ReleaseRow
  <2> QED BY <2>1, <2>2
<1> QED BY <1>1, <1>2, <1>3, <1>4 DEF StatementCommits

LEMMA VacateDrops ==
    ASSUME TypeRest, NEW w \in Slots, NEW p \in {"off", "idle", "claim"}, Vacate(w, p)
    PROVE  ValidAttempts'[w] = NoJob
BY DEF TypeRest, Vacate, Vacant, ValidAttempts, Working

LEMMA SlotRefines ==
    ASSUME Budgeted, Budgeted', TypeRest, LeaseIsExact, SlotsSound, NEW w \in Slots,
           SlotStep(w) \/ RenewLease(w) \/ HeartbeatRaises(w) \/ SlotDies(w)
    PROVE  [LQ!Next]_(LQ!vars)
<1> USE DEF otherVars
<1>1. \A v \in Slots \ {w} : ValidAttempts'[v] = ValidAttempts[v]
      BY OtherSlots, SameAttempt
<1>2. ASSUME UNCHANGED burnt, \A j \in Jobs : row'[j].state = row[j].state,
             ValidAttempts'[w] \in {ValidAttempts[w], NoJob}
      PROVE  [LQ!Next]_(LQ!vars)
      BY <1>1, <1>2, QuietRefines
<1>3. ASSUME UNCHANGED <<row, burnt, writtenOff>>, Working(w), Working(w)',
             slot'[w].job = slot[w].job
      PROVE  [LQ!Next]_(LQ!vars)
  <2>1. ValidAttempts'[w] = ValidAttempts[w]  BY <1>3 DEF ValidAttempts
  <2> QED BY <1>2, <1>3, <2>1
<1>4. CASE CheckStop(w) \/ LeaveLoop(w) \/ DiscardPayload(w)
      BY <1>2, <1>4, VacateDrops DEF CheckStop, LeaveLoop, DiscardPayload
<1>5. CASE ClaimOne(w)
  <2>1. CASE Vacate(w, "idle") /\ UNCHANGED row
        BY <1>2, <1>5, <2>1, VacateDrops DEF ClaimOne
  <2>2. CASE ~(Vacate(w, "idle") /\ UNCHANGED row)
    <3>1. PICK j \in Jobs :
            /\ Claimable(j)
            /\ row' = [row EXCEPT ![j] = Claimed(@, w)]
            /\ slot' = [slot EXCEPT ![w] =
                           [phase |-> "load", job |-> j, heart |-> "beating",
                            seen |-> row[j].attempts + 1]]
            /\ writtenOff' = [writtenOff EXCEPT ![w] = FALSE]
          BY <1>5, <2>2 DEF ClaimOne
    <3>2. ValidAttempts'[w] = j
      <4>1. slot'[w].phase = "load" /\ slot'[w].job = j /\ ~writtenOff'[w]
            BY <3>1 DEF TypeRest
      <4> QED BY <4>1 DEF ValidAttempts, Working
    <3>3. LQ!Claim(w, j)  BY <1>1, <1>5, <3>1, <3>2, ClaimRefines DEF ClaimOne
    <3> QED BY <3>3 DEF LQ!Next
  <2> QED BY <2>1, <2>2
<1>6. CASE LoadPayload(w) \/ ScanFinishes(w)
  <2>1. /\ UNCHANGED <<row, burnt, writtenOff>> /\ slot'[w].job = slot[w].job
        /\ slot[w].phase \in {"load", "scan"}
        /\ slot'[w].phase \in {"scan", "ok", "transient", "permanent"}
        BY <1>6 DEF LoadPayload, ScanFinishes, TypeRest, SlotRecords
  <2> QED BY <1>3, <2>1 DEF Working
<1>7. CASE FinalizeSucceeded(w) \/ FinalizeFailed(w)
  <2>1. slot[w].phase \in {"ok", "transient", "permanent"}
        BY <1>7 DEF FinalizeSucceeded, FinalizeFailed
  <2>2. ValidAttempts'[w] = NoJob
    <3>1. CASE Vacate(w, "idle")  BY <3>1, VacateDrops
    <3>2. CASE ~Vacate(w, "idle")
      <4>1. slot'[w].phase = "discard"
            BY <1>7, <3>2 DEF FinalizeSucceeded, FinalizeFailed, TypeRest, SlotRecords
      <4> QED BY <4>1 DEF ValidAttempts, Working
    <3> QED BY <3>1, <3>2
  <2>3. UNCHANGED <<row, burnt>> \/ StatementCommits(w)
        BY <1>7, <2>1 DEF FinalizeSucceeded, FinalizeFailed, StatementCommits
  <2> QED BY <1>1, <2>2, <2>3, StatementRefines
<1>8. CASE ReleaseEarly(w)
      BY <1>1, <1>8, VacateDrops, StatementRefines DEF ReleaseEarly, StatementCommits
<1>9. CASE CancelSlot(w)
  <2>1. CASE Vacate(w, "off") /\ (UNCHANGED <<row, burnt>> \/ StatementCommits(w))
        BY <1>1, <2>1, VacateDrops, StatementRefines
  <2>2. CASE /\ slot[w].phase \in {"load", "scan"}
             /\ slot' = [slot EXCEPT ![w].phase = "release"]
             /\ UNCHANGED <<row, burnt, writtenOff>>
    <3>1. slot'[w].job = slot[w].job /\ slot'[w].phase = "release"
          BY <2>2 DEF TypeRest, SlotRecords
    <3> QED BY <1>3, <2>2, <3>1 DEF Working
  <2> QED BY <1>9, <2>1, <2>2 DEF CancelSlot
<1>10. CASE SlotDies(w)
       BY <1>1, <1>10, VacateDrops, StatementRefines DEF SlotDies
<1>11. CASE HeartbeatRaises(w)
  <2>1. /\ UNCHANGED <<row, burnt, writtenOff>> /\ slot'[w].job = slot[w].job
        /\ slot'[w].phase = slot[w].phase /\ Working(w)
        BY <1>11 DEF HeartbeatRaises, TypeRest, SlotRecords
  <2> QED BY <1>3, <2>1 DEF Working
<1>12. CASE RenewLease(w)
  <2>1. CASE Vacate(w, "idle") /\ UNCHANGED row
        BY <1>2, <1>12, <2>1, VacateDrops DEF RenewLease
  <2>2. CASE /\ slot' = [slot EXCEPT ![w].heart = "lost"]
             /\ UNCHANGED <<row, writtenOff>>
    <3>1. slot'[w].job = slot[w].job /\ slot'[w].phase = slot[w].phase
          BY <2>2 DEF TypeRest, SlotRecords
    <3> QED BY <1>3, <1>12, <2>2, <3>1 DEF RenewLease, Working
  <2>3. CASE Holds(w)
    <3>1. /\ UNCHANGED <<slot, writtenOff, burnt>>
          /\ row' = [row EXCEPT ![slot[w].job].timer = "set"] /\ slot[w].job \in Jobs
          BY <1>12, <2>3 DEF RenewLease, Holds
    <3>2. \A j \in Jobs : row'[j].state = row[j].state
          BY <3>1 DEF Budgeted, Rows
    <3>3. ValidAttempts'[w] = ValidAttempts[w]  BY <3>1, SameAttempt
    <3> QED BY <1>2, <3>1, <3>2, <3>3
  <2> QED BY <1>12, <2>1, <2>2, <2>3 DEF RenewLease
<1> QED BY <1>4, <1>5, <1>6, <1>7, <1>8, <1>9, <1>10, <1>11, <1>12 DEF SlotStep

\* The intake: a row appears, becomes claimable or is given up.
LEMMA IntakeRefines ==
    ASSUME Budgeted, Budgeted', NEW i \in Jobs,
           \/ Enqueue(i) \/ ApiStep(i) \/ StagingFails(i) \/ RequestFails(i)
           \/ TimePasses(i) \/ ArchiveAges(i)
    PROVE  [LQ!Next]_(LQ!vars)
<1> USE DEF workerVars, otherVars
<1>1. UNCHANGED <<slot, writtenOff, burnt>>
      BY DEF Enqueue, ApiStep, SpoolCheck, OpenTemp, ReplaceTemp, MarkQueued,
         CleanupStaged, AbandonCreated, StagingFails, RequestFails, TimePasses,
         ArchiveAges
<1>2. /\ \A v \in Slots : ValidAttempts'[v] = ValidAttempts[v]
      /\ ValidAttempts' = ValidAttempts
      BY <1>1, SameAttempt, KeepAttempts
<1>3. SpentAttempts' = SpentAttempts  BY <1>1, SpentIsBurnt, SpentIsBurntNext
<1>4. row[i] \in Rows /\ row \in [Jobs -> Rows] /\ PublicState[i] = row[i].state
      BY DEF Budgeted, PublicState
<1>5. ASSUME \A j \in Jobs : row'[j].state = row[j].state
      PROVE  [LQ!Next]_(LQ!vars)
      BY <1>1, <1>2, <1>5, QuietRefines
<1>6. (\E r : row' = [row EXCEPT ![i] = r]) =>
         /\ PublicState' = [PublicState EXCEPT ![i] = row'[i].state]
         /\ \A r : row' = [row EXCEPT ![i] = r] => row'[i] = r
      BY <1>4, OneState
<1>7. CASE Enqueue(i)
  <2>1. PublicState[i] = "none" /\ LQ!NobodyElse(i)
        BY <1>4, <1>7 DEF Enqueue, KeyFree, Live, LiveStates, LQ!NobodyElse, LQ!Live,
           PublicState
  <2>2. PICK s \in {"created", "queued"} : PublicState' = [PublicState EXCEPT ![i] = s]
    <3>1. PICK r \in {[NoRow EXCEPT !.state = "created"],
                      [NoRow EXCEPT !.state = "queued", !.timer = "due",
                                    !.sourceRef = TRUE]} :
             row' = [row EXCEPT ![i] = r]
          BY <1>7 DEF Enqueue
    <3>2. r.state \in {"created", "queued"}  BY DEF NoRow
    <3> QED BY <1>6, <3>1, <3>2
  <2>3. LQ!Submit(i)  BY <1>2, <1>3, <2>1, <2>2 DEF LQ!Submit
  <2> QED BY <2>3 DEF LQ!Next
<1>8. ASSUME StillCreated(i), row' = [row EXCEPT ![i] = MarkedQueued(row[i])]
      PROVE  [LQ!Next]_(LQ!vars)
  <2>1. PublicState[i] = "created" /\ PublicState' = [PublicState EXCEPT ![i] = "queued"]
    <3>1. MarkedQueued(row[i]).state = "queued"  BY <1>4, RowUpdatesFields
    <3> QED BY <1>4, <1>6, <1>8, <3>1 DEF StillCreated
  <2>2. LQ!Open(i)  BY <1>2, <1>3, <2>1 DEF LQ!Open
  <2> QED BY <2>2 DEF LQ!Next
<1>9. ASSUME StillCreated(i), row' = [row EXCEPT ![i] = DeadLettered(row[i])]
      PROVE  [LQ!Next]_(LQ!vars)
  <2>1. PublicState[i] = "created" /\ PublicState' = [PublicState EXCEPT ![i] = "dead_letter"]
    <3>1. DeadLettered(row[i]).state = "dead_letter"  BY <1>4, RowUpdatesFields
    <3> QED BY <1>4, <1>6, <1>9, <3>1 DEF StillCreated
  <2>2. PublicState' = [j \in Jobs |-> IF j \in {i} THEN "dead_letter" ELSE PublicState[j]]
        BY <2>1 DEF PublicState
  <2>3. LQ!Reject({i})  BY <1>2, <1>3, <2>1, <2>2 DEF LQ!Reject
  <2> QED BY <2>3 DEF LQ!Next
<1>10. CASE MarkQueued(i)  BY <1>5, <1>8, <1>10 DEF MarkQueued
<1>11. CASE AbandonCreated(i)  BY <1>5, <1>9, <1>11 DEF AbandonCreated
<1>12. CASE RequestFails(i)  BY <1>5, <1>8, <1>9, <1>12 DEF RequestFails
<1>13. CASE TimePasses(i)
  <2>1. \A j \in Jobs : row'[j].state = row[j].state
        BY <1>4, <1>13 DEF TimePasses, Rows
  <2> QED BY <1>5, <2>1
<1>14. CASE row' = row  BY <1>5, <1>14
<1> QED BY <1>7, <1>10, <1>11, <1>12, <1>13, <1>14
        DEF ApiStep, SpoolCheck, OpenTemp, ReplaceTemp, CleanupStaged, StagingFails,
            ArchiveAges

\* The reaper revokes every lease that lapsed, held or not.
LEMMA ReapRefines ==
    ASSUME Budgeted, Budgeted', TypeRest, LeaseIsExact, SlotsSound, ReapExpired
    PROVE  LQ!Next
<1> DEFINE J == {j \in Jobs : Reapable(j)}
<1>1. ASSUME NEW j \in Jobs
      PROVE  /\ row[j] \in Rows /\ row[j].attempts \in Nat
             /\ Reapable(j) => row[j].state = "running" /\ burnt[j] \in Nat
                               /\ row[j].attempts = burnt[j] + 1
      BY BoundsAssumption DEF Budgeted, Rows, Reapable, Accounted
<1>2. SpentAttempts = burnt /\ SpentAttempts' = burnt'
      BY SpentIsBurnt, SpentIsBurntNext
<1>3. SpentAttempts' = [j \in Jobs |-> IF j \in J THEN SpentAttempts[j] + 1
                                       ELSE SpentAttempts[j]]
      BY <1>2 DEF ReapExpired
<1>4. PublicState' = [j \in Jobs |->
                         IF j \notin J THEN PublicState[j]
                         ELSE IF SpentAttempts[j] + 1 < MaxAttempts THEN "queued"
                         ELSE "dead_letter"]
  <2>1. ASSUME NEW j \in Jobs
        PROVE  row'[j].state = IF j \notin J THEN PublicState[j]
                               ELSE IF SpentAttempts[j] + 1 < MaxAttempts THEN "queued"
                               ELSE "dead_letter"
    <3>1. row'[j] = IF Reapable(j) THEN ReapedRow(row[j]) ELSE row[j]
          BY DEF ReapExpired
    <3>2. CASE ~Reapable(j)  BY <3>1, <3>2 DEF PublicState
    <3>3. CASE Reapable(j)
          BY <1>1, <1>2, <3>1, <3>3, RowUpdatesFields DEF ReapedRow
    <3> QED BY <3>2, <3>3
  <2> QED BY <2>1 DEF PublicState
<1>5. \A j \in J : PublicState[j] = "running"  BY <1>1 DEF PublicState
<1>6. LQ!Dropped({w \in Slots : ValidAttempts[w] \in J})
  <2> DEFINE W == {w \in Slots : ValidAttempts[w] \in J}
  <2>1. ASSUME NEW w \in Slots
        PROVE  /\ ValidAttempts[w] \in J => ValidAttempts'[w] = NoJob
               /\ ValidAttempts[w] \notin J => ValidAttempts'[w] = ValidAttempts[w]
    <3>1. /\ slot' = slot
          /\ writtenOff'[w] <=> (writtenOff[w] \/ (Holds(w) /\ Reapable(slot[w].job)))
          BY DEF ReapExpired, TypeRest
    <3>2. ValidAttempts'[w] = IF Working(w) /\ ~writtenOff'[w] THEN slot[w].job
                              ELSE NoJob
          BY <3>1 DEF ValidAttempts, Working
    <3>3. Working(w) => (Holds(w) <=> ~writtenOff[w]) /\ slot[w].job \in Jobs
          BY DEF LeaseIsExact, SlotsSound, SlotSound
    <3> QED BY <3>1, <3>2, <3>3, AttemptOf, JobsAssumption
  <2>2. W \in SUBSET Slots  OBVIOUS
  <2> QED BY <2>1, <2>2, DropAttempts
<1>7. J \in SUBSET Jobs  OBVIOUS
<1> HIDE DEF J
<1>8. LQ!Revoke(J)  BY <1>3, <1>4, <1>5, <1>6 DEF LQ!Revoke
<1> QED BY <1>7, <1>8 DEF LQ!Next

LEMMA StuckRefines ==
    ASSUME Budgeted, Budgeted', ReapStuckCreated
    PROVE  LQ!Next
<1> DEFINE J == {j \in Jobs : StuckCreated(j)}
<1>1. UNCHANGED <<slot, writtenOff, burnt>>  BY DEF ReapStuckCreated, workerVars
<1>2. ValidAttempts' = ValidAttempts  BY <1>1, SameAttempt, KeepAttempts
<1>3. SpentAttempts' = SpentAttempts  BY <1>1, SpentIsBurnt, SpentIsBurntNext
<1>4. PublicState' = [j \in Jobs |-> IF j \in J THEN "dead_letter" ELSE PublicState[j]]
  <2>1. ASSUME NEW j \in Jobs
        PROVE  row'[j].state = IF j \in J THEN "dead_letter" ELSE PublicState[j]
        BY RowUpdatesFields DEF ReapStuckCreated, Budgeted, PublicState
  <2> QED BY <2>1 DEF PublicState
<1>5. \A j \in J : PublicState[j] = "created"  BY DEF PublicState, StuckCreated
<1>6. J \in SUBSET Jobs  OBVIOUS
<1> HIDE DEF J
<1>7. LQ!Reject(J)  BY <1>2, <1>3, <1>4, <1>5 DEF LQ!Reject
<1> QED BY <1>6, <1>7 DEF LQ!Next

LEMMA ProcRefines ==
    ASSUME Budgeted, Budgeted', TypeRest, NEW p \in Procs,
           ProcStep(p) \/ Sigterm(p) \/ Kill(p)
    PROVE  [LQ!Next]_(LQ!vars)
<1>1. UNCHANGED <<row, burnt>>
      BY DEF ProcStep, GraceExpires, WorkerExits, Restart, Sigterm, Kill
<1>2. ASSUME NEW w \in Slots  PROVE ValidAttempts'[w] \in {ValidAttempts[w], NoJob}
  <2>1. CASE slot'[w] = slot[w] /\ writtenOff'[w] = writtenOff[w]
        BY <2>1, SameAttempt
  <2>2. CASE ~(slot'[w] = slot[w] /\ writtenOff'[w] = writtenOff[w])
    <3>1. slot'[w] \in {Vacant("off"), Vacant("idle")}
          BY <2>2 DEF ProcStep, GraceExpires, WorkerExits, Restart, Sigterm, Kill,
             TypeRest
    <3> QED BY <3>1 DEF ValidAttempts, Working, Vacant
  <2> QED BY <2>1, <2>2
<1> QED BY <1>1, <1>2, QuietRefines

\* Every behaviour of the rows, the slots, the reaper and the intake is one of
\* the abstract queue: whatever is re-claimed, restarted or committed late, a
\* job ends, is retried or is given back only by the attempt that counts.
THEOREM RowsImplementLeaseQueue == Spec => IsLeaseQueue
<1>1. Init => LQ!Init
  <2> SUFFICES ASSUME Init PROVE LQ!Init
      OBVIOUS
  <2>1. PublicState = [j \in Jobs |-> "none"]  BY DEF Init, PublicState, NoRow
  <2>2. SpentAttempts = [j \in Jobs |-> 0]  BY DEF Init, SpentAttempts, NoRow
  <2>3. ValidAttempts = [w \in Slots |-> NoJob]
        BY DEF Init, ValidAttempts, Working, Vacant
  <2> QED BY <2>1, <2>2, <2>3 DEF LQ!Init
<1>2. /\ Budgeted /\ TypeRest /\ LeaseIsExact /\ SlotsSound /\ [Next]_vars
      => [LQ!Next]_(LQ!vars)
  <2> SUFFICES ASSUME Budgeted, TypeRest, LeaseIsExact, SlotsSound, [Next]_vars
               PROVE  [LQ!Next]_(LQ!vars)
      OBVIOUS
  <2>0. Budgeted'  BY BudgetStep
  <2>1. ASSUME \/ ApiCrash \/ SweepArchives \/ EngageStop \/ LiftStop \/ UNCHANGED vars
        PROVE  [LQ!Next]_(LQ!vars)
    <3>1. UNCHANGED <<row, slot, writtenOff, burnt>>
          BY <2>1 DEF ApiCrash, SweepArchives, EngageStop, LiftStop, vars, workerVars,
             otherVars
    <3>2. \A w \in Slots : ValidAttempts'[w] = ValidAttempts[w]  BY <3>1, SameAttempt
    <3> QED BY <2>0, <3>1, <3>2, QuietRefines
  <2> QED BY <2>0, <2>1, SlotRefines, IntakeRefines, ReapRefines, StuckRefines,
             ProcRefines DEF Next
<1> QED BY <1>1, <1>2, SoundHolds, PTL DEF Spec, IsLeaseQueue, LQ!Spec

\* So of all the slots, restarted, cancelled or late, at most one has an attempt
\* on a job that counts, and it has it only while the row is 'running'; and no
\* job is attempted past max_attempts.
THEOREM OneAnswerCounts == Spec => [](LQ!Exclusive /\ LQ!WithinBudget)
<1>1. IsLeaseQueue => [](LQ!Exclusive /\ LQ!WithinBudget)
      BY LQ!LeasesAreExclusive, JobsAssumption, BoundsAssumption DEF IsLeaseQueue
<1> QED BY <1>1, RowsImplementLeaseQueue, PTL

=============================================================================
