----------------------------- MODULE LeaseTiming -----------------------------
(***************************************************************************)
(* The clocks of one running audit job (app/worker/main.py): the holder's  *)
(* lease, its heartbeat task and the reaper of another worker process.     *)
(* AuditQueue lets any deadline pass at any time; here time is counted, to *)
(* see when a lease can lapse and how soon a dead holder's job comes back. *)
(* One tick is ten seconds.                                                *)
(***************************************************************************)
EXTENDS Integers

CONSTANTS
    LeaseTTL,      \* AUDIT_WORKER_LEASE_TTL_SECONDS
    Heartbeat,     \* AUDIT_WORKER_HEARTBEAT_SECONDS
    ReapInterval,  \* AUDIT_WORKER_REAP_INTERVAL_SECONDS
    MaxLatency,    \* the slowest renew_lease that still answers
    MaxLost,       \* bound on renewals that raise
    MaxPass,       \* the slowest pass of the reaper, its three sweeps together
    MaxFailed      \* bound on passes in a row whose reap_expired raises

ASSUME TimingAssumption ==
    /\ LeaseTTL \in Nat /\ Heartbeat \in Nat \ {0}
    /\ ReapInterval \in Nat \ {0} /\ MaxLatency \in Nat /\ MaxLost \in Nat
    /\ MaxPass \in Nat /\ MaxFailed \in Nat

VARIABLES
    lease,   \* ticks until lease_expires_at is reached; -1 once it is past
    beat,    \* the heartbeat task: [phase, clock]
    reap,    \* the reaper: [phase, clock]
    failed,  \* its passes in a row that failed
    holder,  \* is the holder's process alive?
    row,     \* 'running', or 'reaped' once reap_expired took it away
    lost,    \* renewals lost since the last one that went through
    outage   \* ticks since the holder died

vars == <<lease, beat, reap, failed, holder, row, lost, outage>>

Expired == lease < 0

Init ==
    /\ lease = LeaseTTL
    /\ beat = [phase |-> "sleep", clock |-> Heartbeat]
    /\ reap \in [phase : {"sleep"}, clock : 0..ReapInterval]
    /\ failed = 0
    /\ holder = "alive"
    /\ row = "running"
    /\ lost = 0
    /\ outage = 0

\* What must happen before time goes on.
Urgent == \/ beat.phase = "sleep" /\ beat.clock = 0
          \/ beat.phase = "query" /\ beat.clock = MaxLatency
          \/ reap.phase = "sleep" /\ reap.clock = 0
          \/ reap.phase \in {"leases", "sweeps"} /\ reap.clock = MaxPass

Tick ==
    /\ ~Urgent
    /\ row = "running"
    /\ lease' = IF Expired THEN -1 ELSE lease - 1
    /\ beat' = [beat EXCEPT !.clock = CASE beat.phase = "sleep" -> @ - 1
                                        [] beat.phase = "query" -> @ + 1
                                        [] beat.phase = "ended" -> 0]
    /\ reap' = [reap EXCEPT !.clock = CASE reap.phase = "sleep" -> @ - 1
                                        [] reap.phase \in {"leases", "sweeps"} -> @ + 1
                                        [] reap.phase = "ended" -> 0]
    /\ outage' = IF holder = "dead" THEN outage + 1 ELSE 0
    /\ UNCHANGED <<failed, holder, row, lost>>

\* asyncio.sleep returns and renew_lease is called.
WakeUp ==
    /\ beat = [phase |-> "sleep", clock |-> 0]
    /\ beat' = [phase |-> "query", clock |-> 0]
    /\ UNCHANGED <<lease, reap, failed, holder, row, lost, outage>>

\* make_interval(secs => lease_seconds) added to now(), the start of the
\* transaction: at worst the moment of the call.  A variant adds the wrong
\* interval.
BeatLease == Heartbeat

RenewedLease == LeaseTTL - beat.clock

\* renew_lease answers.  The UPDATE does not look at the old deadline,
\* so it also revives a lease that lapsed and was not reaped.
RenewLease ==
    /\ beat.phase = "query"
    /\ IF row = "running"
       THEN /\ lease' = RenewedLease
            /\ beat' = [phase |-> "sleep", clock |-> Heartbeat]
            /\ lost' = 0
       ELSE /\ beat' = [phase |-> "ended", clock |-> 0]
            /\ UNCHANGED <<lease, lost>>
    /\ UNCHANGED <<reap, failed, holder, row, outage>>

\* renew_lease raises: nothing in _heartbeat catches it and the task is over.
RenewRaises ==
    /\ beat.phase = "query"
    /\ lost < MaxLost
    /\ lost' = lost + 1
    /\ beat' = [phase |-> "ended", clock |-> 0]
    /\ UNCHANGED <<lease, reap, failed, holder, row, outage>>

\* SIGKILL of the holder's process.
HolderDies ==
    /\ holder = "alive"
    /\ holder' = "dead"
    /\ beat' = [phase |-> "ended", clock |-> 0]
    /\ UNCHANGED <<lease, reap, failed, row, lost, outage>>

\* lease_expires_at < now(); a variant asks for equality.
ReapsAtDeadline == lease = 0

Reaps == Expired

Asleep == [phase |-> "sleep", clock |-> ReapInterval]

\* The reaper's sleep is over and a pass begins: reap_expired is awaited.
PassBegins ==
    /\ reap = [phase |-> "sleep", clock |-> 0]
    /\ reap' = [phase |-> "leases", clock |-> 0]
    /\ UNCHANGED <<lease, beat, failed, holder, row, lost, outage>>

\* reap_expired, at some moment of the pass; reap_stuck_created and
\* sweep_stale_archives are awaited after it.
ReapExpired ==
    /\ reap.phase = "leases"
    /\ reap' = [reap EXCEPT !.phase = "sweeps"]
    /\ failed' = 0
    /\ row' = IF Reaps THEN "reaped" ELSE row
    /\ UNCHANGED <<lease, beat, holder, lost, outage>>

\* They return, or one raises and that is logged: the reaper sleeps.
SweepsEnd ==
    /\ reap.phase = "sweeps"
    /\ reap' = Asleep
    /\ UNCHANGED <<lease, beat, failed, holder, row, lost, outage>>

\* A pass that raised is logged and the loop goes on; in a variant nothing
\* catches the exception.
ReaperIsOver == [phase |-> "ended", clock |-> 0]

AfterFailedPass == Asleep

\* reap_expired raises.
PassFails ==
    /\ reap.phase = "leases"
    /\ failed < MaxFailed
    /\ failed' = failed + 1
    /\ reap' = AfterFailedPass
    /\ UNCHANGED <<lease, beat, holder, row, lost, outage>>

Next ==
    \/ Tick
    \/ WakeUp \/ RenewLease \/ RenewRaises \/ HolderDies
    \/ PassBegins \/ ReapExpired \/ SweepsEnd \/ PassFails

Spec == Init /\ [][Next]_vars

-----------------------------------------------------------------------------
\* Every variable has its type.
TypeOK ==
    /\ lease \in -1..LeaseTTL
    /\ beat \in [phase : {"sleep", "query", "ended"},
                 clock : 0..(Heartbeat + MaxLatency)]
    /\ reap \in [phase : {"sleep", "leases", "sweeps", "ended"},
                 clock : 0..(ReapInterval + MaxPass)]
    /\ failed \in 0..MaxFailed
    /\ holder \in {"alive", "dead"}
    /\ row \in {"running", "reaped"}
    /\ lost \in 0..MaxLost
    /\ outage \in Nat

\* A holder whose heartbeat task is running never sees its lease lapse, as
\* long as no renewal takes longer than half of what the heartbeat leaves of
\* the TTL.  One renewal that raises ends the task and with it this promise:
\* a slow query is survived, a lost one is not.
HeartbeatKeepsLease == beat.phase # "ended" => ~Expired

\* From one look at the leases to the next.
ReapCycle == ReapInterval + MaxPass

RecoveryTime == LeaseTTL + MaxFailed * ReapCycle + ReapCycle + MaxPass

\* The job of a killed holder is taken from it, back into the queue or into
\* 'dead_letter', within the TTL and one cycle of the reaper, and one more for
\* every pass in a row that fails: the reaper survives its failing passes.
\* That is longer than the docstring of reap_expired says.
RecoveryIsBounded ==
    holder = "dead" /\ row = "running" => outage <= RecoveryTime

=============================================================================
