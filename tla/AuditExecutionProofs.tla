------------------------ MODULE AuditExecutionProofs ------------------------
(***************************************************************************)
(* The journal of provider spend, for any number of slots, attempts,       *)
(* sources and cancellations.  A thread outlives the coroutine that        *)
(* started it, so the argument is about where it may still be running:     *)
(* once an attempt is done or failed, only the baseline's thread is left,  *)
(* and the calls of the audit's own scan no longer change.                 *)
(*                                                                         *)
(* The daily cap is checked by a scan before it starts and paid by it when *)
(* it has ended, so the argument about the overshoot counts the anonymous  *)
(* scans that may still add to the sum: each passed the check, each holds  *)
(* a slot, and what they can add is reserved in the bound.  The rows of    *)
(* reviews are in the sum the check reads, and can only make it stricter.  *)
(***************************************************************************)
EXTENDS AuditExecution, FiniteSetTheorems, TLAPS

Try == [phase : Awaits \cup Ends, source : Source \cup {0}, kind : Kinds,
        thread : BOOLEAN, whole : BOOLEAN, due : 0..MaxCalls, baseDue : 0..MaxCalls]

\* Where the thread of an attempt may be running, and what it owes the journal.
Billed(t) ==
    /\ t.thread => t.phase \in {"scan", "baseline", "abandoned", "handler", "failed",
                               "unlogged", "cut in review"}
    /\ t.thread /\ t.phase = "handler" => t.kind # "review"
    /\ t.phase \in (Ends \ Unbilled) \cup {"cache"} => t.due = 0
    /\ t.phase \in Awaits => t.source \in Source
    /\ t.phase \in {"history", "baseline"} => t.kind # "preview"

\* An attempt whose usage row will add to what anonymous audits spent today: it
\* has made calls, or its thread passed the cap and may make some.
Owes(t) == /\ t.phase \in Awaits /\ t.kind = "preview"
           /\ t.due > 0 \/ (t.thread /\ t.whole)

Pending == {i \in Tries : Owes(try[i])}

\* What the pending attempts can still add is within the bound already.
Reserved ==
    /\ Cardinality(Running) <= Slots
    /\ previewSpend + MaxCalls * Cardinality(Pending) < Cap + Slots * MaxCalls

IInv ==
    /\ TypeOK
    /\ \A i \in Tries : Billed(try[i])
    /\ Reserved

-----------------------------------------------------------------------------
\* The attempts that run, and those whose row is still to come.
LEMMA Counts ==
    ASSUME IInv
    PROVE  /\ IsFiniteSet(Running) /\ Cardinality(Running) \in Nat
           /\ IsFiniteSet(Pending) /\ Cardinality(Pending) \in Nat
           /\ Pending \subseteq Running
<1>1. IsFiniteSet(Tries)  BY ExecutionAssumption
<1>2. Running \subseteq Tries /\ Pending \subseteq Running
      BY DEF Running, Pending, Owes
<1>3. IsFiniteSet(Running)  BY <1>1, <1>2, FS_Subset
<1>4. IsFiniteSet(Pending)  BY <1>2, <1>3, FS_Subset
<1> QED BY <1>2, <1>3, <1>4, FS_CardinalityType

\* Fewer scans can add less, one scan fewer at least MaxCalls less.
LEMMA Shares ==
    ASSUME NEW m \in Nat, NEW n \in Nat
    PROVE  /\ m <= n => MaxCalls * m <= MaxCalls * n
           /\ MaxCalls * (n + 1) = MaxCalls * n + MaxCalls
           /\ MaxCalls * n \in Nat /\ Slots * MaxCalls = MaxCalls * Slots
BY ExecutionAssumption

\* The bound holds on when no attempt starts to run, or to owe, and the sum
\* does not grow.
LEMMA StillReserved ==
    ASSUME IInv, Running' \subseteq Running, Pending' \subseteq Pending,
           previewSpend' \in Nat, previewSpend' <= previewSpend
    PROVE  Reserved'
<1> DEFINE p == Cardinality(Pending)
           q == Cardinality(Pending')
<1>1. Cardinality(Running') <= Cardinality(Running) /\ Cardinality(Running') \in Nat
      BY Counts, FS_Subset, FS_CardinalityType
<1>2. q <= p /\ p \in Nat /\ q \in Nat  BY Counts, FS_Subset, FS_CardinalityType
<1>3. MaxCalls * q <= MaxCalls * p /\ MaxCalls * p \in Nat /\ MaxCalls * q \in Nat
      BY <1>2, Shares
<1>4. /\ Cardinality(Running) \in Nat /\ Cardinality(Running) <= Slots
      /\ previewSpend \in Nat /\ previewSpend + MaxCalls * p < Cap + Slots * MaxCalls
      BY Counts DEF IInv, Reserved, TypeOK
<1>5. Slots * MaxCalls \in Nat  BY ExecutionAssumption
<1>6. Cardinality(Running') <= Slots  BY <1>1, <1>4, ExecutionAssumption
<1> HIDE DEF p, q
<1>7. previewSpend' + MaxCalls * q < Cap + Slots * MaxCalls
      BY <1>3, <1>4, <1>5, ExecutionAssumption
<1> QED BY <1>6, <1>7 DEF Reserved, p, q

\* A step changes one attempt.
LEMMA OneAttempt ==
    ASSUME IInv, NEW i \in Tries, NEW t \in Try, try' = [try EXCEPT ![i] = t], Billed(t),
           audits' \subseteq Source \X {"full", "preview"}, cancels' \in 0..MaxCancel,
           previewSpend' \in Nat, reviewSpend' \in Nat, Reserved'
    PROVE  IInv'
BY DEF IInv, TypeOK, Try, Billed

\* What a step that changes one attempt does to the two counts.
Runs(t) == t.phase \in Awaits /\ t.kind # "review"

LEMMA OneCounted ==
    ASSUME IInv, NEW i \in Tries, NEW t \in Try, try' = [try EXCEPT ![i] = t]
    PROVE  /\ Runs(t) /\ ~Runs(try[i]) => Running' = Running \cup {i} /\ i \notin Running
           /\ (Runs(t) => Runs(try[i])) => Running' \subseteq Running
           /\ Owes(t) => Pending' = Pending \cup {i}
           /\ (Owes(t) => Owes(try[i])) => Pending' \subseteq Pending
           /\ ~Owes(t) => Pending' = Pending \ {i}
<1>1. try \in [Tries -> Try]  BY DEF IInv, TypeOK, Try
<1>2. \A k \in Tries : try'[k] = IF k = i THEN t ELSE try[k]  BY <1>1
<1>3. \A k \in Tries : k \in Running' <=> Runs(try'[k])  BY DEF Running, Runs
<1>4. \A k \in Tries : k \in Pending' <=> Owes(try'[k])  BY DEF Pending, Owes
<1>5. \A k \in Tries : k \in Running <=> Runs(try[k])  BY DEF Running, Runs
<1>6. \A k \in Tries : k \in Pending <=> Owes(try[k])  BY DEF Pending
<1>7. /\ Running \subseteq Tries /\ Pending \subseteq Tries
      /\ Running' \subseteq Tries /\ Pending' \subseteq Tries
      BY DEF Running, Pending
<1> HIDE DEF Running, Pending, Runs
<1> QED BY <1>2, <1>3, <1>4, <1>5, <1>6, <1>7

\* A step that changes one attempt and neither lets it owe more nor writes a row.
LEMMA QuietAttempt ==
    ASSUME IInv, NEW i \in Tries, NEW t \in Try, try' = [try EXCEPT ![i] = t], Billed(t),
           audits' \subseteq Source \X {"full", "preview"}, cancels' \in 0..MaxCancel,
           previewSpend' = previewSpend, reviewSpend' \in Nat,
           Runs(t) => Runs(try[i]), Owes(t) => Owes(try[i])
    PROVE  IInv'
<1>1. previewSpend' \in Nat /\ previewSpend' <= previewSpend  BY DEF IInv, TypeOK
<1>2. Running' \subseteq Running /\ Pending' \subseteq Pending  BY OneCounted
<1> QED BY <1>1, <1>2, StillReserved, OneAttempt

\* A row of an attempt without an account: its calls were reserved.
LEMMA RowAdded ==
    ASSUME IInv, NEW i \in Tries, NEW t \in Try, try' = [try EXCEPT ![i] = t], Billed(t),
           audits' \subseteq Source \X {"full", "preview"}, cancels' \in 0..MaxCancel,
           try[i].phase \in Awaits, t.phase \notin Awaits, Spends(i, try[i].due)
    PROVE  IInv'
<1> DEFINE row == try[i].due
<1>0. row \in 0..MaxCalls /\ previewSpend \in Nat /\ reviewSpend \in Nat
      BY DEF IInv, TypeOK
<1>1. previewSpend' \in Nat /\ reviewSpend' \in Nat  BY <1>0 DEF Spends
<1>2. Running' \subseteq Running /\ Pending' = Pending \ {i}
      BY OneCounted DEF Owes, Runs
<1>3. CASE previewSpend' <= previewSpend
      BY <1>1, <1>2, <1>3, StillReserved, OneAttempt
<1>4. CASE ~(previewSpend' <= previewSpend)
  <2>1. row > 0 /\ try[i].kind = "preview" /\ previewSpend' = previewSpend + row
        BY <1>0, <1>4 DEF Spends
  <2>2. i \in Pending  BY <1>0, <2>1 DEF Pending, Owes
  <2> DEFINE p == Cardinality(Pending)
             q == Cardinality(Pending')
  <2>3. p \in Nat /\ q \in Nat /\ p = q + 1
    <3>1. IsFiniteSet(Pending) /\ p \in Nat  BY Counts
    <3>2. q = p - 1 /\ IsFiniteSet(Pending')  BY <1>2, <2>2, <3>1, FS_RemoveElement
    <3>3. q \in Nat  BY <3>2, FS_CardinalityType
    <3> QED BY <3>1, <3>2, <3>3
  <2>4. previewSpend + MaxCalls * p < Cap + Slots * MaxCalls  BY DEF IInv, Reserved
  <2>5. Cardinality(Running') <= Slots
    <3>1. /\ Cardinality(Running') <= Cardinality(Running)
          /\ Cardinality(Running') \in Nat /\ Cardinality(Running) \in Nat
          BY <1>2, Counts, FS_Subset, FS_CardinalityType
    <3> QED BY <3>1, ExecutionAssumption DEF IInv, Reserved
  <2> HIDE DEF p, q
  <2>6. MaxCalls * p = MaxCalls * q + MaxCalls /\ MaxCalls * q \in Nat
        BY <2>3, Shares
  <2>7. Slots * MaxCalls \in Nat  BY ExecutionAssumption
  <2>8. previewSpend' + MaxCalls * q < Cap + Slots * MaxCalls
        BY <1>0, <2>1, <2>4, <2>6, <2>7, ExecutionAssumption
  <2>9. Reserved'  BY <2>5, <2>8 DEF Reserved, p, q
  <2> QED BY <1>1, <2>9, OneAttempt
<1> QED BY <1>3, <1>4

\* The row an attempt that persists leaves.
LEMMA KeyType ==
    ASSUME IInv, NEW i \in Tries, try[i].phase \in Awaits
    PROVE  Key(i) \in Source \X {"full", "preview"}
BY DEF IInv, Billed, Key

\* What changing the fields of an attempt does to its type.
LEMMA Fields ==
    ASSUME NEW t \in Try, NEW phase \in Awaits \cup Ends, NEW thread \in BOOLEAN
    PROVE  /\ [t EXCEPT !.phase = phase] \in Try
           /\ [t EXCEPT !.phase = phase, !.thread = thread] \in Try
           /\ [t EXCEPT !.thread = thread] \in Try
           /\ \A whole \in BOOLEAN :
                 [t EXCEPT !.phase = phase, !.thread = thread, !.whole = whole] \in Try
           /\ \A calls \in 0..MaxCalls :
                 /\ [t EXCEPT !.phase = phase, !.thread = thread, !.baseDue = calls] \in Try
                 /\ [t EXCEPT !.phase = phase, !.due = calls] \in Try
                 /\ [t EXCEPT !.due = calls] \in Try
                 /\ [t EXCEPT !.baseDue = calls] \in Try
BY DEF Try

LEMMA InitIInv == Init => IInv
<1> SUFFICES ASSUME Init PROVE IInv
    OBVIOUS
<1>1. TypeOK /\ \A i \in Tries : Billed(try[i])
  <2>1. 0 \in 0..MaxCalls /\ 0 \in 0..MaxCancel  BY ExecutionAssumption
  <2> QED BY <2>1 DEF Init, TypeOK, Billed, Unused, Awaits, Ends, Kinds
<1>2. Running = {} /\ Pending = {}
      BY DEF Init, Unused, Running, Pending, Owes, Awaits
<1>3. Cardinality({}) = 0  BY FS_EmptySet
<1>4. MaxCalls * 0 = 0 /\ Slots * MaxCalls \in Nat  BY ExecutionAssumption
<1>5. Reserved  BY <1>2, <1>3, <1>4, ExecutionAssumption DEF Reserved, Init
<1> QED BY <1>1, <1>5 DEF IInv

LEMMA Attempts ==
    ASSUME IInv, NEW i \in Tries
    PROVE  /\ try[i] \in Try /\ try \in [Tries -> Try] /\ Billed(try[i])
           /\ audits \subseteq Source \X {"full", "preview"}
           /\ cancels \in 0..MaxCancel /\ previewSpend \in Nat /\ reviewSpend \in Nat
BY DEF IInv, TypeOK, Try

LEMMA BeginStep ==
    ASSUME IInv, NEW source \in Source, NEW kind \in Kinds, Begin(source, kind)
    PROVE  IInv'
<1> DEFINE t == [Unused EXCEPT !.phase = "cache", !.source = source, !.kind = kind]
<1>1. PICK i \in Tries : try' = [try EXCEPT ![i] = t] /\ try[i].phase = "unused"
      BY DEF Begin, At
<1>0. UNCHANGED <<audits, previewSpend, reviewSpend, cancels>>
      BY DEF Begin, journal
<1>2. Unused \in Try
  <2>1. 0 \in 0..MaxCalls  BY ExecutionAssumption
  <2> QED BY <2>1 DEF Try, Unused, Ends, Kinds
<1>3. t \in Try
  <2>1. "cache" \in Awaits \cup Ends  BY DEF Awaits
  <2> QED BY <1>2, <2>1 DEF Try
<1>4. Billed(t)  BY DEF Billed, Unused
<1>5. t.phase \in Awaits /\ t.kind = kind /\ try[i].phase \notin Awaits /\ ~Owes(t)
      BY <1>1 DEF Awaits, Unused, Owes
<1> HIDE DEF t
<1>6. Pending' \subseteq Pending  BY <1>1, <1>3, <1>5, OneCounted
<1>7. Cardinality(Running') <= Slots
  <2>1. CASE kind = "review"
    <3>1. Running' \subseteq Running  BY <1>1, <1>3, <1>5, <2>1, OneCounted DEF Runs
    <3>2. /\ Cardinality(Running') <= Cardinality(Running)
          /\ Cardinality(Running') \in Nat /\ Cardinality(Running) \in Nat
          BY <3>1, Counts, FS_Subset, FS_CardinalityType
    <3> QED BY <3>2, ExecutionAssumption DEF IInv, Reserved
  <2>2. CASE kind # "review"
    <3>1. Running' = Running \cup {i} /\ i \notin Running
          BY <1>1, <1>3, <1>5, <2>2, OneCounted DEF Runs
    <3>2. Cardinality(Running') = Cardinality(Running) + 1
          BY <3>1, Counts, FS_AddElement
    <3> QED BY <2>2, <3>2, Counts, ExecutionAssumption DEF Begin
  <2> QED BY <2>1, <2>2
<1>8. MaxCalls * Cardinality(Pending') <= MaxCalls * Cardinality(Pending)
      /\ MaxCalls * Cardinality(Pending') \in Nat /\ MaxCalls * Cardinality(Pending) \in Nat
      BY <1>6, Counts, FS_Subset, FS_CardinalityType, Shares
<1>9. Reserved'
  <2>1. previewSpend' = previewSpend /\ previewSpend \in Nat  BY <1>0 DEF IInv, TypeOK
  <2>2. previewSpend + MaxCalls * Cardinality(Pending) < Cap + Slots * MaxCalls
        /\ Slots * MaxCalls \in Nat
        BY ExecutionAssumption DEF IInv, Reserved
  <2> QED BY <1>7, <1>8, <2>1, <2>2, ExecutionAssumption DEF Reserved
<1> QED BY <1>0, <1>1, <1>3, <1>4, <1>9, Attempts, OneAttempt

\* A step that only moves the coroutine.
LEMMA MoveStep ==
    ASSUME IInv, NEW i \in Tries, try[i].phase \in Awaits,
           NEW phase \in Awaits \cup Ends, try' = [try EXCEPT ![i].phase = phase],
           try[i].thread => phase \in {"abandoned", "handler", "unlogged", "cut in review"},
           try[i].thread /\ phase = "handler" => try[i].kind # "review",
           phase \in (Ends \ Unbilled) \cup {"cache"} => try[i].due = 0,
           phase \in {"history", "baseline"} => try[i].kind # "preview",
           audits' \subseteq Source \X {"full", "preview"}, cancels' \in 0..MaxCancel,
           UNCHANGED journal
    PROVE  IInv'
<1>0. /\ try[i] \in Try /\ try \in [Tries -> Try] /\ Billed(try[i])
      /\ previewSpend' = previewSpend /\ reviewSpend' \in Nat
      BY Attempts DEF journal
<1> DEFINE t == [try[i] EXCEPT !.phase = phase]
<1>1. t \in Try  BY <1>0, Fields
<1>2. Billed(t)  BY <1>0 DEF Billed, Try
<1>3. try' = [try EXCEPT ![i] = t]  BY <1>0
<1>4. (Owes(t) => Owes(try[i])) /\ (Runs(t) => Runs(try[i]))
      BY <1>0 DEF Owes, Runs, Try
<1> HIDE DEF t
<1> QED BY <1>0, <1>1, <1>2, <1>3, <1>4, QuietAttempt

\* A step that moves the coroutine, and starts a thread that asks no cap or has
\* its result.
LEMMA PoolStep ==
    ASSUME IInv, NEW i \in Tries, try[i].phase \in Awaits,
           NEW phase \in Awaits \cup Ends, NEW thread \in BOOLEAN, NEW whole \in BOOLEAN,
           try' = [try EXCEPT ![i].phase = phase, ![i].thread = thread, ![i].whole = whole],
           thread => phase \in {"scan", "baseline"} /\ try[i].kind # "preview",
           phase \notin (Ends \ Unbilled) \cup {"cache"},
           phase \in {"history", "baseline"} => try[i].kind # "preview",
           UNCHANGED <<audits, journal, cancels>>
    PROVE  IInv'
<1>0. /\ try[i] \in Try /\ try \in [Tries -> Try] /\ Billed(try[i])
      /\ previewSpend' = previewSpend /\ reviewSpend' \in Nat
      BY Attempts DEF journal
<1> DEFINE t == [try[i] EXCEPT !.phase = phase, !.thread = thread, !.whole = whole]
<1>1. t \in Try  BY <1>0, Fields
<1>2. Billed(t)  BY <1>0 DEF Billed, Try
<1>3. try' = [try EXCEPT ![i] = t]  BY <1>0
<1>4. (Owes(t) => Owes(try[i])) /\ (Runs(t) => Runs(try[i]))
      BY <1>0 DEF Owes, Runs, Try
<1> HIDE DEF t
<1> QED BY <1>0, <1>1, <1>2, <1>3, <1>4, Attempts, QuietAttempt

\* The thread runs, or ends, whether or not somebody waits for it.
LEMMA ThreadStep ==
    ASSUME IInv, NEW i \in Tries, ProviderCall(i) \/ OrphanEnds(i)
    PROVE  IInv'
<1>0. /\ try[i] \in Try /\ try \in [Tries -> Try] /\ Billed(try[i])
      /\ UNCHANGED <<audits, previewSpend, cancels>> /\ reviewSpend' \in Nat
      BY Attempts DEF ProviderCall, OrphanEnds, journal
<1>1. CASE try' = [try EXCEPT ![i].thread = FALSE]
  <2> DEFINE t == [try[i] EXCEPT !.thread = FALSE]
  <2>1. t \in Try  BY <1>0 DEF Try
  <2>2. Billed(t)  BY <1>0 DEF Billed, Try
  <2>3. (Owes(t) => Owes(try[i])) /\ (Runs(t) => Runs(try[i]))  BY <1>0 DEF Owes, Runs, Try
  <2>4. try' = [try EXCEPT ![i] = t]  BY <1>0, <1>1
  <2> HIDE DEF t
  <2> QED BY <1>0, <2>1, <2>2, <2>3, <2>4, Attempts, QuietAttempt
<1>2. CASE /\ try[i].thread /\ try[i].whole /\ ~InBaseline(i) /\ try[i].due < MaxCalls
           /\ try' = [try EXCEPT ![i].due = @ + 1]
  <2> DEFINE t == [try[i] EXCEPT !.due = @ + 1]
  <2>1. try[i].due + 1 \in 0..MaxCalls  BY <1>0, <1>2, ExecutionAssumption DEF Try
  <2>2. t \in Try  BY <1>0, <2>1 DEF Try
  <2>3. Billed(t)
    <3>1. try[i].phase \in {"scan", "abandoned"}  BY <1>0, <1>2 DEF Billed, InBaseline
    <3>2. t.phase = try[i].phase /\ t.thread = try[i].thread /\ t.source = try[i].source
          BY <1>0 DEF Try
    <3> HIDE DEF t
    <3> QED BY <1>0, <3>1, <3>2 DEF Billed, Ends, Unbilled
  <2>4. try' = [try EXCEPT ![i] = t]  BY <1>0, <1>2
  <2>5. (Owes(t) => Owes(try[i])) /\ (Runs(t) => Runs(try[i]))
        BY <1>0, <1>2 DEF Owes, Runs, Try
  <2> HIDE DEF t
  <2> QED BY <1>0, <2>2, <2>3, <2>4, <2>5, Attempts, QuietAttempt
<1>3. CASE try[i].baseDue < MaxCalls /\ try' = [try EXCEPT ![i].baseDue = @ + 1]
  <2> DEFINE t == [try[i] EXCEPT !.baseDue = @ + 1]
  <2>1. try[i].baseDue + 1 \in 0..MaxCalls  BY <1>0, <1>3, ExecutionAssumption DEF Try
  <2>2. t \in Try  BY <1>0, <2>1 DEF Try
  <2>3. Billed(t)  BY <1>0 DEF Billed, Try
  <2>4. try' = [try EXCEPT ![i] = t]  BY <1>0, <1>3
  <2>5. (Owes(t) => Owes(try[i])) /\ (Runs(t) => Runs(try[i]))  BY <1>0 DEF Owes, Runs, Try
  <2> HIDE DEF t
  <2> QED BY <1>0, <2>2, <2>3, <2>4, <2>5, Attempts, QuietAttempt
<1> QED BY <1>1, <1>2, <1>3 DEF ProviderCall, OrphanEnds

LEMMA NoCalls == 0 \in 0..MaxCalls
BY ExecutionAssumption

\* The row of an attempt that ends has the calls its scan made: the thread of
\* that scan is not running any more.
LEMMA InsertStep ==
    ASSUME IInv, NEW i \in Tries, NEW last \in {"done", "failed", "cut in insert"},
           try[i].phase \in Awaits, Insert(i, last),
           try[i].thread => last = "failed",
           UNCHANGED audits, cancels' \in 0..MaxCancel
    PROVE  IInv'
<1>0. /\ try[i] \in Try /\ try \in [Tries -> Try] /\ Billed(try[i])
      /\ audits' \subseteq Source \X {"full", "preview"}
      BY Attempts
<1> DEFINE t == [try[i] EXCEPT !.phase = last, !.due = 0]
<1>1. try' = [try EXCEPT ![i] = t]  BY <1>0 DEF Insert
<1>2. last \in Awaits \cup Ends /\ last \notin Awaits  BY DEF Awaits, Ends, Unbilled
<1>3. t \in Try  BY <1>0, <1>2, NoCalls, Fields
<1>4. t.phase = last /\ t.due = 0 /\ t.thread = try[i].thread  BY <1>0 DEF Try
<1> HIDE DEF t
<1>5. Billed(t)  BY <1>2, <1>4 DEF Billed
<1> QED BY <1>0, <1>1, <1>2, <1>3, <1>4, <1>5, RowAdded DEF Insert

LEMMA RecordStep ==
    ASSUME IInv, NEW i \in Tries, Record(i)
    PROVE  IInv'
<1>0. /\ try[i].phase \in {"record", "handler"} /\ Billed(try[i])
      /\ UNCHANGED audits /\ cancels' \in 0..MaxCancel
      /\ audits' \subseteq Source \X {"full", "preview"}
      BY Attempts DEF Record
<1>1. try[i].thread => try[i].phase = "handler"  BY <1>0 DEF Billed
<1>2. ASSUME Insert(i, IF At(i, "record") THEN "done" ELSE "failed")  PROVE IInv'
      BY <1>0, <1>1, <1>2, InsertStep DEF At, Awaits
<1>3. CASE \E phase \in {"unlogged"} : try' = [try EXCEPT ![i].phase = phase] /\ UNCHANGED journal
      BY <1>0, <1>3, MoveStep DEF Awaits, Ends, Unbilled
<1> QED BY <1>2, <1>3 DEF Record

LEMMA BaselineReturnsStep ==
    ASSUME IInv, NEW i \in Tries, BaselineReturns(i)
    PROVE  IInv'
<1>0. /\ try[i] \in Try /\ try \in [Tries -> Try] /\ Billed(try[i])
      /\ UNCHANGED <<audits, cancels>> /\ try[i].phase = "baseline"
      /\ try[i].baseDue \in 0..MaxCalls
      BY Attempts DEF BaselineReturns, At, Try
<1>1. PICK row \in {0, try[i].baseDue} :
          /\ try' = [try EXCEPT ![i].phase = "persist", ![i].thread = FALSE,
                                ![i].baseDue = @ - row]
          /\ Spends(i, row)
      BY DEF BaselineReturns
<1>2. row \in Nat /\ try[i].baseDue - row \in 0..MaxCalls
      BY <1>0, <1>1, ExecutionAssumption
<1> DEFINE left == try[i].baseDue - row
           t == [try[i] EXCEPT !.phase = "persist", !.thread = FALSE, !.baseDue = left]
<1>3. try' = [try EXCEPT ![i] = t]  BY <1>0, <1>1
<1>4. left \in 0..MaxCalls  BY <1>2
<1> HIDE DEF left
<1>5. t \in Try  BY <1>0, <1>4, Fields DEF Awaits
<1>6. Billed(t)  BY <1>0 DEF Billed, Try, Awaits, Ends, Unbilled
<1>7. (Owes(t) => Owes(try[i])) /\ (Runs(t) => Runs(try[i]))
      BY <1>0 DEF Owes, Runs, Try, Awaits
<1>8. previewSpend' = previewSpend /\ reviewSpend' \in Nat
  <2>1. previewSpend' = previewSpend /\ reviewSpend' \in {reviewSpend, reviewSpend + row}
        BY <1>0, <1>1 DEF Spends, Billed
  <2>2. reviewSpend \in Nat  BY Attempts
  <2> QED BY <1>2, <2>1, <2>2
<1> HIDE DEF t
<1> QED BY <1>0, <1>3, <1>5, <1>6, <1>7, <1>8, Attempts, QuietAttempt

\* The row an attempt that persists leaves.
LEMMA StoredType ==
    ASSUME IInv, NEW i \in Tries, try[i].phase \in Awaits
    PROVE  Stored(i) \subseteq Source \X {"full", "preview"}
BY KeyType, Attempts DEF Stored

LEMMA CancelStep ==
    ASSUME IInv, NEW i \in Tries, Cancel(i)
    PROVE  IInv'
<1>0. /\ try[i] \in Try /\ try \in [Tries -> Try] /\ Billed(try[i])
      /\ cancels' \in 0..MaxCancel
  <2>1. cancels \in 0..MaxCancel /\ cancels < MaxCancel /\ cancels' = cancels + 1
        BY Attempts DEF Cancel
  <2>2. cancels' \in 0..MaxCancel  BY <2>1, ExecutionAssumption
  <2> QED BY <2>2, Attempts
<1>1. try[i].phase \in Awaits  BY DEF Cancel, At, Awaits
<1>2. audits' \subseteq Source \X {"full", "preview"}
      BY <1>1, StoredType, Attempts DEF Cancel
<1>3. ASSUME NEW phase \in {"abandoned", "cut at alert", "handler", "cut in review",
                             "cut in insert"},
             try' = [try EXCEPT ![i].phase = phase], UNCHANGED journal,
             try[i].thread => phase \in {"abandoned", "handler", "cut in review"},
             phase = "handler" => try[i].kind # "review"
      PROVE  IInv'
      BY <1>0, <1>1, <1>2, <1>3, MoveStep DEF Awaits, Ends, Unbilled
<1>4. CASE /\ try[i].phase \in {"cache", "refresh", "cap", "scan", "alert"}
           /\ try' = [try EXCEPT ![i].phase =
                         IF @ = "alert" THEN "cut at alert" ELSE "abandoned"]
           /\ UNCHANGED journal
      BY <1>0, <1>3, <1>4 DEF Billed
<1>5. CASE /\ try[i].phase \in {"history", "baseline", "persist"}
           /\ try' = [try EXCEPT ![i].phase = CancelInTry(i)]
           /\ UNCHANGED journal
      BY <1>3, <1>5 DEF CancelInTry
<1>6. CASE /\ At(i, "record") \/ (At(i, "handler") /\ try[i].kind = "review")
           /\ try' = [try EXCEPT ![i].phase = "cut in insert"] /\ UNCHANGED journal
           /\ ~try[i].thread
      BY <1>3, <1>6
<1>7. CASE Insert(i, "cut in insert") /\ ~try[i].thread /\ UNCHANGED audits
      BY <1>0, <1>1, <1>7, InsertStep
<1>8. At(i, "record") \/ (At(i, "handler") /\ try[i].kind = "review") => ~try[i].thread
      BY <1>0 DEF Billed, At
<1> QED BY <1>4, <1>5, <1>6, <1>7, <1>8 DEF Cancel

\* A process that dies takes its coroutines and threads with it.
LEMMA DiesStep ==
    ASSUME IInv, NEW kinds, Dies(kinds)
    PROVE  IInv'
<1>0. /\ try \in [Tries -> Try] /\ UNCHANGED <<audits, previewSpend, reviewSpend>>
      /\ cancels' \in 0..MaxCancel /\ \A i \in Tries : Billed(try[i])
  <2>1. cancels \in 0..MaxCancel /\ cancels < MaxCancel /\ cancels' = cancels + 1
        BY DEF Dies, IInv, TypeOK
  <2>2. cancels' \in 0..MaxCancel  BY <2>1, ExecutionAssumption
  <2> QED BY <2>2 DEF Dies, IInv, TypeOK, Try, journal
<1> DEFINE dead(i) == [try[i] EXCEPT !.thread = FALSE,
                                     !.phase = IF @ \in Awaits THEN "killed" ELSE @]
<1>1. /\ DOMAIN try' = Tries
      /\ \A i \in Tries : try'[i] = try[i] \/ try'[i] = dead(i)
      /\ try' = [i \in Tries |-> try'[i]]
      BY DEF Dies
<1>2. ASSUME NEW i \in Tries
      PROVE  /\ try'[i] \in Try /\ Billed(try'[i])
             /\ (Runs(try'[i]) => Runs(try[i])) /\ (Owes(try'[i]) => Owes(try[i]))
  <2>0. try[i] \in Try /\ Billed(try[i])  BY <1>0
  <2>1. CASE try'[i] = try[i]  BY <2>0, <2>1
  <2>2. CASE try'[i] = dead(i)
    <3> DEFINE end == IF try[i].phase \in Awaits THEN "killed" ELSE try[i].phase
    <3>1. end \in Awaits \cup Ends /\ end \notin Awaits
          /\ (end \in Ends \ Unbilled => end = try[i].phase)
          BY <2>0 DEF Try, Awaits, Ends, Unbilled
    <3>2. dead(i) = [try[i] EXCEPT !.phase = end, !.thread = FALSE]
          BY <2>0 DEF Try
    <3> HIDE DEF dead, end
    <3>3. dead(i) \in Try  BY <2>0, <3>1, <3>2, Fields
    <3>4. dead(i).phase = end /\ ~dead(i).thread /\ dead(i).due = try[i].due
          BY <2>0, <3>2 DEF Try
    <3>5. Billed(dead(i))  BY <2>0, <3>1, <3>4 DEF Billed, Awaits
    <3> QED BY <2>2, <3>1, <3>3, <3>4, <3>5 DEF Runs, Owes
  <2> QED BY <1>1, <2>1, <2>2
<1>3. try' \in [Tries -> Try]  BY <1>1, <1>2
<1>4. Running' \subseteq Running  BY <1>2 DEF Running, Runs
<1>5. Pending' \subseteq Pending  BY <1>2 DEF Pending, Owes
<1>6. Reserved'
  <2>1. previewSpend' \in Nat /\ previewSpend' <= previewSpend  BY <1>0 DEF IInv, TypeOK
  <2> QED BY <1>4, <1>5, <2>1, StillReserved
<1>7. TypeOK'  BY <1>0, <1>3 DEF IInv, TypeOK, Try
<1> QED BY <1>2, <1>6, <1>7 DEF IInv, Billed

\* A preview passes the cap: what all slots may add fits below the bound.
LEMMA ReadCapStep ==
    ASSUME IInv, NEW i \in Tries, ReadCap(i)
    PROVE  IInv'
<1> DEFINE whole == ~CapExceeded(sum_anon_spend_today)
           t == [try[i] EXCEPT !.phase = "scan", !.thread = TRUE, !.whole = whole]
<1>0. /\ try[i] \in Try /\ try \in [Tries -> Try] /\ Billed(try[i])
      /\ audits' \subseteq Source \X {"full", "preview"} /\ cancels' \in 0..MaxCancel
      /\ previewSpend' = previewSpend /\ previewSpend \in Nat
      /\ reviewSpend \in Nat /\ reviewSpend' \in Nat /\ try[i].phase = "cap"
      BY Attempts DEF ReadCap, journal, At
<1>1. whole \in BOOLEAN  BY DEF CapExceeded
<1>2. try' = [try EXCEPT ![i] = t]  BY <1>0 DEF ReadCap
<1>3. whole => previewSpend < Cap
      BY <1>0, ExecutionAssumption DEF CapExceeded, sum_anon_spend_today
<1> HIDE DEF whole
<1>4. t \in Try  BY <1>0, <1>1, Fields DEF Awaits
<1>5. /\ t.phase = "scan" /\ t.kind = try[i].kind /\ t.due = try[i].due
      /\ t.whole = whole /\ t.source = try[i].source
      BY <1>0 DEF Try
<1> HIDE DEF t
<1>6. Billed(t)  BY <1>0, <1>5 DEF Billed, Awaits, Ends, Unbilled
<1>7. /\ Running' \subseteq Running /\ (Owes(t) => Pending' = Pending \cup {i})
      /\ (~Owes(t) => Pending' \subseteq Pending)
      BY <1>0, <1>2, <1>4, <1>5, OneCounted DEF Runs, Awaits
<1>8. CASE Pending' \subseteq Pending
  <2>1. previewSpend' <= previewSpend /\ previewSpend' \in Nat  BY <1>0
  <2>2. Reserved'  BY <1>7, <1>8, <2>1, StillReserved
  <2> QED BY <1>0, <1>2, <1>4, <1>6, <2>1, <2>2, OneAttempt
<1>9. CASE ~(Pending' \subseteq Pending)
  <2>1. Owes(t) /\ ~Owes(try[i])  BY <1>2, <1>4, <1>7, <1>9, OneCounted
  <2>2. try[i].kind = "preview" /\ whole
        BY <1>0, <1>5, <2>1 DEF Owes, Awaits, Try
  <2>3. previewSpend < Cap  BY <1>3, <2>2
  <2>4. Pending' \subseteq Running
    <3>1. i \in Running  BY <1>0, <2>2 DEF Running, Awaits
    <3> QED BY <1>7, <2>1, <3>1, Counts
  <2> DEFINE q == Cardinality(Pending')
  <2>5. q \in Nat /\ q <= Slots
    <3>1. q \in Nat /\ q <= Cardinality(Running)
          BY <2>4, Counts, FS_Subset, FS_CardinalityType
    <3> QED BY <3>1, Counts, ExecutionAssumption DEF IInv, Reserved
  <2>6. Cardinality(Running') <= Slots
    <3>1. Cardinality(Running') \in Nat /\ Cardinality(Running') <= Cardinality(Running)
          BY <1>7, Counts, FS_Subset, FS_CardinalityType
    <3> QED BY <3>1, Counts, ExecutionAssumption DEF IInv, Reserved
  <2> HIDE DEF q
  <2>7. /\ MaxCalls * q <= Slots * MaxCalls /\ MaxCalls * q \in Nat
        /\ Slots * MaxCalls \in Nat
        BY <2>5, Shares, ExecutionAssumption
  <2>8. previewSpend' + MaxCalls * q < Cap + Slots * MaxCalls
        BY <1>0, <2>3, <2>7, ExecutionAssumption
  <2>9. Reserved'  BY <2>6, <2>8 DEF Reserved, q
  <2>10. previewSpend' \in Nat  BY <1>0
  <2> QED BY <1>0, <1>2, <1>4, <1>6, <2>9, <2>10, OneAttempt
<1> QED BY <1>8, <1>9

\* The other awaits of the coroutine that write no usage row.
LEMMA CoroutineStep ==
    ASSUME IInv, NEW i \in Tries,
           \/ LookUp(i) \/ Refreshed(i) \/ ScanReturns(i) \/ Alerted(i)
           \/ PreviewHistory(i) \/ Persist(i) \/ Raises(i)
    PROVE  IInv'
<1>0. /\ try[i] \in Try /\ try \in [Tries -> Try] /\ Billed(try[i])
      /\ audits \subseteq Source \X {"full", "preview"} /\ cancels \in 0..MaxCancel
      /\ try[i].whole \in BOOLEAN /\ try[i].thread \in BOOLEAN
      /\ try = [try EXCEPT ![i].whole = try[i].whole]
      BY Attempts DEF Try
<1>1. /\ AfterScan(i) \in {"history", "persist"}
      /\ AfterScan(i) = "history" => try[i].kind # "preview"
      BY DEF AfterScan, Anonymous
<1> USE <1>0 DEF Awaits, Ends, Unbilled
<1>4. ASSUME NEW phase \in Awaits \cup Ends, NEW thread \in BOOLEAN, try[i].phase \in Awaits,
             try' = [try EXCEPT ![i].phase = phase, ![i].thread = thread],
             thread => phase \in {"scan", "baseline"} /\ try[i].kind # "preview",
             phase \notin (Ends \ Unbilled) \cup {"cache"},
             phase \in {"history", "baseline"} => try[i].kind # "preview",
             UNCHANGED <<audits, journal, cancels>>
      PROVE  IInv'
  <2>1. try' = [try EXCEPT ![i].phase = phase, ![i].thread = thread,
                           ![i].whole = try[i].whole]
    <3>1. try'[i] = [try[i] EXCEPT !.phase = phase, !.thread = thread]
          BY <1>4
    <3>2. try'[i] = [try[i] EXCEPT !.phase = phase, !.thread = thread,
                                   !.whole = try[i].whole]
          BY <3>1 DEF Try
    <3> QED BY <1>4, <3>1, <3>2
  <2> QED BY <1>4, <2>1, PoolStep
<1>2. CASE LookUp(i)
  <2>1. /\ UNCHANGED <<audits, journal, cancels>> /\ try[i].phase = "cache"
        /\ ~try[i].thread /\ try[i].due = 0
        BY <1>2 DEF LookUp, At, Billed
  <2>2. CASE \E next \in {"reused", "refresh"} : try' = [try EXCEPT ![i].phase = next]
        BY <2>1, <2>2, MoveStep
  <2>3. CASE try' = [try EXCEPT ![i].phase = IF Anonymous(i) THEN "cap" ELSE "scan",
                                ![i].thread = ~Anonymous(i)]
    <3>1. PICK phase \in {"scan", "cap"}, thread \in BOOLEAN :
             /\ try' = [try EXCEPT ![i].phase = phase, ![i].thread = thread]
             /\ thread => phase = "scan" /\ try[i].kind # "preview"
          BY <2>3 DEF Anonymous
    <3> QED BY <2>1, <3>1, <1>4
  <2> QED BY <1>2, <2>2, <2>3 DEF LookUp
<1>3. CASE Refreshed(i)  BY <1>1, <1>3, MoveStep DEF Refreshed, At, Billed
<1>5. CASE ScanReturns(i)
  <2>1. PICK next \in {"alert", AfterScan(i)}, whole \in BOOLEAN :
            try' = [try EXCEPT ![i].phase = next, ![i].thread = FALSE, ![i].whole = whole]
        BY <1>5 DEF ScanReturns
  <2> QED BY <1>1, <1>5, <2>1, PoolStep DEF ScanReturns, At
<1>6. CASE Alerted(i)  BY <1>1, <1>6, MoveStep DEF Alerted, At, Billed
<1>7. CASE PreviewHistory(i)
  <2>1. /\ try[i].phase = "history" /\ ~try[i].thread /\ try[i].kind # "preview"
        /\ UNCHANGED <<audits, journal, cancels>>
        BY <1>7 DEF PreviewHistory, At, Billed
  <2>2. CASE \E phase \in {"persist"} : try' = [try EXCEPT ![i].phase = phase]
        BY <2>1, <2>2, MoveStep
  <2>3. CASE \E phase \in {"baseline"}, thread \in {TRUE} :
                try' = [try EXCEPT ![i].phase = phase, ![i].thread = thread]
        BY <2>1, <2>3, <1>4
  <2> QED BY <1>7, <2>2, <2>3 DEF PreviewHistory
<1>8. CASE Persist(i)
  <2>1. try[i].phase = "persist" /\ ~try[i].thread /\ UNCHANGED <<journal, cancels>>
        BY <1>8 DEF Persist, At, Billed
  <2>2. audits' \subseteq Source \X {"full", "preview"}
        BY <1>8, <2>1, StoredType DEF Persist
  <2>3. PICK phase \in {"record", "handler"} : try' = [try EXCEPT ![i].phase = phase]
        BY <1>8 DEF Persist
  <2> QED BY <2>1, <2>2, <2>3, MoveStep
<1>9. CASE Raises(i)
  <2>1. CASE /\ try[i].phase \in {"cache", "refresh", "cap", "scan"}
             /\ \E phase \in {"abandoned"}, thread \in {FALSE} :
                   try' = [try EXCEPT ![i].phase = phase, ![i].thread = thread]
        BY <1>9, <2>1, <1>4 DEF Raises
  <2>2. CASE /\ try[i].phase \in {"history", "baseline"}
             /\ \E phase \in {"handler"}, thread \in {FALSE} :
                   try' = [try EXCEPT ![i].phase = phase, ![i].thread = thread]
        BY <1>9, <2>2, <1>4 DEF Raises
  <2> QED BY <1>9, <2>1, <2>2 DEF Raises
<1> QED BY <1>2, <1>3, <1>5, <1>6, <1>7, <1>8, <1>9

LEMMA DayEndsStep ==
    ASSUME IInv, DayEnds
    PROVE  IInv'
<1>1. Running' \subseteq Running /\ Pending' \subseteq Pending
      BY DEF DayEnds, Running, Pending, Owes
<1>2. previewSpend' \in Nat /\ previewSpend' <= previewSpend /\ reviewSpend' \in Nat
      BY DEF DayEnds, IInv, TypeOK
<1>3. Reserved'  BY <1>1, <1>2, StillReserved
<1> QED BY <1>2, <1>3 DEF DayEnds, IInv, TypeOK, Billed

LEMMA AlwaysIInv == Spec => []IInv
<1>1. IInv /\ [Next]_vars => IInv'
  <2> SUFFICES ASSUME IInv, [Next]_vars PROVE IInv'
      OBVIOUS
  <2>1. CASE UNCHANGED vars
        BY <2>1 DEF vars, IInv, TypeOK, Billed, Reserved, Running, Pending, Owes
  <2>2. CASE Next
        BY <2>2, BeginStep, ReadCapStep, CoroutineStep, BaselineReturnsStep, RecordStep,
           ThreadStep, CancelStep, DiesStep, DayEndsStep DEF Next
  <2> QED BY <2>1, <2>2
<1> QED BY InitIInv, <1>1, PTL DEF Spec

-----------------------------------------------------------------------------
\* Every variable keeps its type.
THEOREM ExecutionTypeCorrect == Spec => []TypeOK
BY AlwaysIInv, PTL DEF IInv

\* _record_llm_usage: once the scan's result is there, an attempt that ends by
\* itself, by an exception, or by a cancellation inside the try leaves none of
\* that scan's calls out of the journal.  The ends that may (Unbilled) are the
\* cancellations at the alert before the try and in the insert after it, an
\* insert that raises, and a process that dies.
THEOREM EndedIsBilled == Spec => []EndedMeansBilled
<1>1. IInv => EndedMeansBilled  BY DEF IInv, Billed, EndedMeansBilled
<1> QED BY <1>1, AlwaysIInv, PTL

\* _anon_daily_cap_exceeded reads the sum before a scan and the scan's row is
\* written after it: between the two, other scans pass the same check.  What
\* anonymous audits spend in a day still ends less than one whole scan per slot
\* above the cap, however many attempts, reviews, cancellations and failed
\* inserts there are.
THEOREM CapIsOvershotByOneScanPerSlot == Spec => []CapOvershootIsBounded
<1>1. IInv => CapOvershootIsBounded
  <2> SUFFICES ASSUME IInv PROVE CapOvershootIsBounded
      OBVIOUS
  <2>1. MaxCalls * Cardinality(Pending) \in Nat /\ Slots * MaxCalls \in Nat
        BY Counts, Shares, ExecutionAssumption
  <2> QED BY <2>1, ExecutionAssumption DEF IInv, TypeOK, Reserved, CapOvershootIsBounded
<1> QED BY <1>1, AlwaysIInv, PTL
=============================================================================
