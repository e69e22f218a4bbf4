------------------------- MODULE LeaseTimingProofs -------------------------
(***************************************************************************)
(* The lease clocks for every choice of the intervals.  TLC looks at the   *)
(* deployed ones; here the only condition is that a renewal may take as    *)
(* long as it likes within half of what the heartbeat leaves of the TTL.   *)
(***************************************************************************)
EXTENDS LeaseTiming, TLAPS

\* Two slow renewals, one before the sleep and one after it, fit in the TTL.
SlowRenewalsFit == Heartbeat + 2 * MaxLatency <= LeaseTTL

\* The clocks of the heartbeat task, and a lease that outlasts them.
BeatClock ==
    /\ beat.phase = "sleep" => beat.clock <= Heartbeat
    /\ beat.phase = "query" => beat.clock <= MaxLatency

LeaseOutlastsBeat ==
    /\ beat.phase = "sleep" => lease >= beat.clock + MaxLatency
    /\ beat.phase = "query" => lease >= MaxLatency - beat.clock

ReapClock ==
    /\ reap.phase = "sleep" => reap.clock <= ReapInterval
    /\ reap.phase \in {"leases", "sweeps"} => reap.clock <= MaxPass
    /\ reap.phase # "ended"

\* What passes that may still fail can cost, after k of them did.
FailuresLeft(k) == (MaxFailed - k) * ReapCycle

\* The longest the reaper may take to look at the leases again.
Wait ==
    CASE reap.phase = "sleep"  -> reap.clock + MaxPass + FailuresLeft(failed)
      [] reap.phase = "leases" -> MaxPass - reap.clock + FailuresLeft(failed)
      [] OTHER                 -> MaxPass - reap.clock + ReapCycle + FailuresLeft(0)

\* How the time since a kill is spent: first the lease, then the reaper's wait.
OutageSpent ==
    /\ holder = "alive" => outage = 0
    /\ holder = "dead" => beat.phase = "ended"
    /\ holder = "dead" /\ row = "running" =>
          IF Expired THEN outage + Wait <= RecoveryTime
                     ELSE outage + lease <= LeaseTTL

IInv == TypeOK /\ BeatClock /\ LeaseOutlastsBeat /\ ReapClock /\ OutageSpent

-----------------------------------------------------------------------------
\* One failure costs one cycle.
LEMMA FailuresAddUp ==
    /\ ReapCycle \in Nat
    /\ \A k \in 0..MaxFailed : FailuresLeft(k) \in Nat /\ FailuresLeft(k) <= FailuresLeft(0)
    /\ \A k \in 0..MaxFailed : k < MaxFailed => FailuresLeft(k + 1) + ReapCycle = FailuresLeft(k)
    /\ RecoveryTime = LeaseTTL + FailuresLeft(0) + ReapCycle + MaxPass
  <1>1. ReapCycle \in Nat
    BY TimingAssumption DEF ReapCycle
  <1>2. \A c \in Nat, m \in Nat : \A k \in 0..m :
           (m - k) * c \in Nat /\ (m - k) * c <= m * c
    <2> SUFFICES ASSUME NEW c \in Nat, NEW m \in Nat, NEW k \in 0..m
                 PROVE  (m - k) * c \in Nat /\ (m - k) * c <= m * c
      OBVIOUS
    <2>1. k * c >= 0 /\ (m - k) * c >= 0
      OBVIOUS
    <2>2. (m - k) * c = m * c - k * c
      OBVIOUS
    <2> QED  BY <2>1, <2>2
  <1>3. \A c \in Nat, m \in Nat, k \in Nat : (m - (k + 1)) * c + c = (m - k) * c
    OBVIOUS
  <1>4. FailuresLeft(0) = MaxFailed * ReapCycle
    BY TimingAssumption DEF FailuresLeft
  <1> QED  BY <1>1, <1>2, <1>3, <1>4, TimingAssumption DEF FailuresLeft, RecoveryTime

LEMMA InitIInv == SlowRenewalsFit /\ Init => IInv
  BY TimingAssumption
  DEF SlowRenewalsFit, Init, IInv, TypeOK, BeatClock, LeaseOutlastsBeat, ReapClock,
      OutageSpent, Expired

\* The heartbeat's half of a step: the reaper does not come into it.
LEMMA BeatStep ==
    ASSUME SlowRenewalsFit, IInv, [Next]_vars
    PROVE  BeatClock' /\ LeaseOutlastsBeat' /\ lease' \in -1..LeaseTTL
           /\ beat' \in [phase : {"sleep", "query", "ended"},
                          clock : 0..(Heartbeat + MaxLatency)]
  <1> USE TimingAssumption
      DEF SlowRenewalsFit, IInv, TypeOK, BeatClock, LeaseOutlastsBeat, Expired
  <1>1. CASE Tick
    <2>1. CASE beat.phase = "sleep"
      <3>1. beat' = [phase |-> "sleep", clock |-> beat.clock - 1] /\ beat.clock > 0
        BY <1>1, <2>1 DEF Tick, Urgent
      <3> QED  BY <1>1, <2>1, <3>1 DEF Tick, Urgent
    <2>2. CASE beat.phase = "query"
      <3>1. beat' = [phase |-> "query", clock |-> beat.clock + 1]
        BY <1>1, <2>2 DEF Tick
      <3>2. beat.clock < MaxLatency
        BY <1>1, <2>2 DEF Tick, Urgent
      <3> QED  BY <1>1, <2>2, <3>1, <3>2 DEF Tick, Urgent
    <2>3. CASE beat.phase = "ended"
      <3>1. beat' = [phase |-> "ended", clock |-> 0]
        BY <1>1, <2>3 DEF Tick
      <3> QED  BY <1>1, <2>3, <3>1 DEF Tick, Urgent
    <2> QED  BY <2>1, <2>2, <2>3
  <1>2. CASE WakeUp
    BY <1>2 DEF WakeUp
  <1>3. CASE RenewLease
    <2>1. CASE row = "running"
      BY <1>3, <2>1 DEF RenewLease, RenewedLease
    <2>2. CASE row # "running"
      BY <1>3, <2>2 DEF RenewLease
    <2> QED  BY <2>1, <2>2
  <1>4. CASE RenewRaises
    BY <1>4 DEF RenewRaises
  <1>5. CASE HolderDies
    BY <1>5 DEF HolderDies
  <1>6. CASE PassBegins \/ ReapExpired \/ SweepsEnd \/ PassFails
    BY <1>6 DEF PassBegins, ReapExpired, SweepsEnd, PassFails
  <1>7. CASE UNCHANGED vars
    BY <1>7 DEF vars
  <1> QED
    BY <1>1, <1>2, <1>3, <1>4, <1>5, <1>6, <1>7 DEF Next

\* The reaper's half.
LEMMA ReapStep ==
    ASSUME IInv, [Next]_vars
    PROVE  ReapClock' /\ failed' \in 0..MaxFailed
           /\ reap' \in [phase : {"sleep", "leases", "sweeps", "ended"},
                          clock : 0..(ReapInterval + MaxPass)]
  <1> USE TimingAssumption DEF IInv, TypeOK, ReapClock, Asleep
  <1>1. CASE Tick
    <2>1. CASE reap.phase = "sleep"
      <3>1. reap' = [phase |-> "sleep", clock |-> reap.clock - 1] /\ reap.clock > 0
        BY <1>1, <2>1 DEF Tick, Urgent
      <3> QED  BY <1>1, <2>1, <3>1 DEF Tick
    <2>2. CASE reap.phase \in {"leases", "sweeps"}
      <3>1. reap' = [phase |-> reap.phase, clock |-> reap.clock + 1]
        BY <1>1, <2>2 DEF Tick
      <3>2. reap.clock < MaxPass
        BY <1>1, <2>2 DEF Tick, Urgent
      <3> QED  BY <1>1, <2>2, <3>1, <3>2 DEF Tick
    <2> QED  BY <2>1, <2>2
  <1>2. CASE PassBegins \/ ReapExpired \/ SweepsEnd \/ PassFails
    BY <1>2 DEF PassBegins, ReapExpired, SweepsEnd, PassFails, AfterFailedPass
  <1>3. CASE WakeUp \/ RenewLease \/ RenewRaises \/ HolderDies \/ UNCHANGED vars
    BY <1>3 DEF WakeUp, RenewLease, RenewRaises, HolderDies, vars
  <1> QED  BY <1>1, <1>2, <1>3 DEF Next

\* The outage is spent as OutageSpent says.
LEMMA OutageStep ==
    ASSUME IInv, [Next]_vars
    PROVE  OutageSpent' /\ outage' \in Nat /\ holder' \in {"alive", "dead"}
           /\ row' \in {"running", "reaped"} /\ lost' \in 0..MaxLost
  <1> USE TimingAssumption, FailuresAddUp
      DEF IInv, TypeOK, BeatClock, ReapClock, OutageSpent, Expired
  <1>1. CASE Tick
    <2>1. holder = "dead" => beat' = [phase |-> "ended", clock |-> 0]
      BY <1>1 DEF Tick
    <2>2. CASE reap.phase = "sleep"
      <3>1. reap' = [phase |-> "sleep", clock |-> reap.clock - 1] /\ reap.clock > 0
        BY <1>1, <2>2 DEF Tick, Urgent
      <3>2. Wait' = Wait - 1 /\ Wait = reap.clock + MaxPass + FailuresLeft(failed)
        BY <1>1, <2>2, <3>1 DEF Tick, Wait, FailuresLeft
      <3>3. Wait \in Nat /\ Wait <= ReapCycle + FailuresLeft(0)
        BY <2>2, <3>2 DEF ReapCycle
      <3> QED  BY <1>1, <2>1, <3>2, <3>3 DEF Tick
    <2>3. CASE reap.phase \in {"leases", "sweeps"}
      <3>1. reap' = [phase |-> reap.phase, clock |-> reap.clock + 1]
        BY <1>1, <2>3 DEF Tick
      <3>2. Wait' = Wait - 1 /\ Wait \in Int
            /\ Wait <= MaxPass + ReapCycle + FailuresLeft(0)
        <4>1. FailuresLeft(failed)' = FailuresLeft(failed)
              /\ FailuresLeft(0)' = FailuresLeft(0)
          BY <1>1 DEF Tick, FailuresLeft
        <4>2. CASE reap.phase = "leases"
          BY <2>3, <3>1, <4>1, <4>2 DEF Wait
        <4>3. CASE reap.phase = "sweeps"
          BY <2>3, <3>1, <4>1, <4>3 DEF Wait
        <4> QED  BY <2>3, <4>2, <4>3
      <3> QED  BY <1>1, <2>1, <3>2 DEF Tick
    <2> QED  BY <2>2, <2>3
  <1>2. CASE WakeUp \/ RenewRaises \/ UNCHANGED vars
    BY <1>2 DEF WakeUp, RenewRaises, vars, Wait, FailuresLeft
  <1>3. CASE RenewLease
    BY <1>3 DEF RenewLease, RenewedLease
  <1>4. CASE HolderDies
    <2>1. Wait <= MaxPass + ReapCycle + FailuresLeft(0) /\ Wait \in Int /\ Wait' = Wait
      BY <1>4 DEF HolderDies, Wait, FailuresLeft, ReapCycle
    <2> QED  BY <1>4, <2>1 DEF HolderDies
  <1>5. CASE PassBegins
    <2>1. Wait = MaxPass + FailuresLeft(failed) /\ Wait' = Wait
      BY <1>5 DEF PassBegins, Wait, FailuresLeft
    <2> QED  BY <1>5, <2>1 DEF PassBegins
  <1>6. CASE ReapExpired
    BY <1>6 DEF ReapExpired, Reaps
  <1>7. CASE SweepsEnd
    <2>1. Wait = MaxPass - reap.clock + ReapCycle + FailuresLeft(0)
      BY <1>7 DEF SweepsEnd, Wait
    <2>2. Wait' = ReapInterval + MaxPass + FailuresLeft(failed)
      BY <1>7 DEF SweepsEnd, Wait, FailuresLeft, Asleep
    <2> QED  BY <1>7, <2>1, <2>2 DEF SweepsEnd, ReapCycle
  <1>8. CASE PassFails
    <2>1. Wait = MaxPass - reap.clock + FailuresLeft(failed)
      BY <1>8 DEF PassFails, Wait
    <2>2. Wait' = ReapInterval + MaxPass + FailuresLeft(failed + 1)
      BY <1>8 DEF PassFails, Wait, FailuresLeft, Asleep, AfterFailedPass
    <2>3. FailuresLeft(failed + 1) + ReapCycle = FailuresLeft(failed)
      BY <1>8 DEF PassFails
    <2> QED  BY <1>8, <2>1, <2>2, <2>3 DEF PassFails, ReapCycle
  <1> QED
    BY <1>1, <1>2, <1>3, <1>4, <1>5, <1>6, <1>7, <1>8 DEF Next

LEMMA NextIInv == SlowRenewalsFit /\ IInv /\ [Next]_vars => IInv'
  BY BeatStep, ReapStep, OutageStep DEF IInv, TypeOK

LEMMA SpecIInv == ASSUME SlowRenewalsFit PROVE Spec => []IInv
  <1>1. Init => IInv
    BY InitIInv
  <1>2. IInv /\ [Next]_vars => IInv'
    BY NextIInv
  <1> QED  BY <1>1, <1>2, PTL DEF Spec

-----------------------------------------------------------------------------
\* Whatever the intervals, the lease, the two clocks and the time since a kill
\* keep their types: in particular a renewal never writes a deadline in the
\* past.
THEOREM LeaseTypeCorrect == ASSUME SlowRenewalsFit PROVE Spec => []TypeOK
  <1>1. IInv => TypeOK
    BY DEF IInv
  <1> QED  BY <1>1, SpecIInv, PTL

\* A holder whose heartbeat task runs keeps its lease: _heartbeat's period and
\* the TTL leave room for the slowest renewal twice.
THEOREM HeartbeatSafe == ASSUME SlowRenewalsFit PROVE Spec => []HeartbeatKeepsLease
  <1>1. IInv => HeartbeatKeepsLease
    BY TimingAssumption
    DEF IInv, TypeOK, BeatClock, LeaseOutlastsBeat, HeartbeatKeepsLease, Expired
  <1> QED  BY <1>1, SpecIInv, PTL

\* However its passes fail, up to MaxFailed in a row, and whatever its sweeps
\* take, up to MaxPass, _reaper takes the job of a killed holder away within
\* the TTL, one cycle for each failing pass and one for the pass that works.
THEOREM RecoverySafe == ASSUME SlowRenewalsFit PROVE Spec => []RecoveryIsBounded
  <1>1. IInv => RecoveryIsBounded
    <2> SUFFICES ASSUME IInv, holder = "dead", row = "running"
                 PROVE  outage <= RecoveryTime
      BY DEF RecoveryIsBounded
    <2>1. Wait \in Int /\ Wait >= 0 /\ RecoveryTime >= LeaseTTL
      BY TimingAssumption, FailuresAddUp DEF IInv, TypeOK, ReapClock, Wait
    <2> QED  BY <2>1, TimingAssumption, FailuresAddUp DEF IInv, TypeOK, OutageSpent, Expired
  <1> QED  BY <1>1, SpecIInv, PTL
=============================================================================
