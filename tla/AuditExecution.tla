--------------------------- MODULE AuditExecution ---------------------------
(***************************************************************************)
(* The inside of an attempt (app/worker/main.py, _execute_job): the cache, *)
(* the daily cap on anonymous spend, the scan on a thread of the pool, the *)
(* free baseline a paid audit carries, the audits row and the llm_usage    *)
(* rows.  AuditQueue sees an attempt as one step; here its awaits are      *)
(* apart, and a heartbeat that lost the lease, or a shutdown, may cancel   *)
(* the coroutine at any of them.  The thread of a scan goes on.            *)
(*                                                                         *)
(* The API's run_repo_audit (app/main.py), which a Fix Pack's deep review  *)
(* and the monitoring of a repository call, is the same course with other  *)
(* details, writes to the same journal, and is modelled beside it.         *)
(***************************************************************************)
EXTENDS Integers, FiniteSets

CONSTANTS
    Slots,     \* AUDIT_WORKER_CONCURRENCY, the slots of one worker
    Source,    \* contents of archives
    Cap,       \* DEFAULT_DAILY_SPEND_CAP_USD, in provider calls
    MaxCalls,  \* the calls of one scan, at most
    Tries,     \* attempts: as many as there are in a behaviour
    MaxCancel  \* bound on cancellations and deaths

ASSUME ExecutionAssumption ==
    /\ Slots \in Nat
    /\ Cap \in Nat \ {0} /\ MaxCalls \in Nat \ {0}
    /\ IsFiniteSet(Tries) /\ MaxCancel \in Nat

VARIABLES
    try,          \* attempt -> what its coroutine and its thread are doing
    audits,       \* the audits rows a look-up can find: <<source, basis>>
    previewSpend, \* today's llm_usage rows without an account: of anonymous audits,
    reviewSpend,  \* and of reviews
    cancels       \* cancellations and deaths so far

journal == <<previewSpend, reviewSpend>>
vars == <<try, audits, previewSpend, reviewSpend, cancels>>

\* The jobs of the worker, with an account and without, and run_repo_audit.
Kinds == {"preview", "paid", "review"}

\* Where a coroutine may be waiting.  From "history" to "persist" it is inside
\* the try whose handler writes the usage row of an attempt that fails.
Awaits == {"cache", "refresh", "cap", "scan", "alert", "history", "baseline",
           "persist", "handler", "record"}

\* Ends that may leave the calls of a scan out of the journal: before its
\* result was there; and after it, by an insert that raised, cancelled at an
\* await that neither the handler nor a shield protects, or dead with the
\* process.
Unbilled == {"abandoned", "unlogged", "cut at alert", "cut in insert", "cut in review",
             "killed"}

Ends == {"unused", "reused", "done", "failed"} \cup Unbilled

\* thread: a scan of this attempt is running.  whole: the audit's scan has, or
\* still may have, the depth asked for; llm_skip_reason makes it FALSE.  due,
\* baseDue: calls of the audit's scan, and of the baseline's, that the journal
\* does not have.
Unused == [phase |-> "unused", source |-> 0, kind |-> "preview",
           thread |-> FALSE, whole |-> TRUE, due |-> 0, baseDue |-> 0]

At(i, phase) == try[i].phase = phase

\* The attempts some slot of the worker is on.
Running == {i \in Tries : try[i].phase \in Awaits /\ try[i].kind # "review"}

-----------------------------------------------------------------------------
(* The coroutine.                                                          *)

\* A free slot runs a job it claimed, and _load_payload has read its bytes;
\* or a drain of the API reviews a repository, whatever the slots do.
Begin(source, kind) ==
    /\ kind # "review" => Cardinality(Running) < Slots
    /\ \E i \in Tries :
          /\ At(i, "unused")
          /\ try' = [try EXCEPT ![i] = [Unused EXCEPT !.phase = "cache",
                                           !.source = source, !.kind = kind]]
    /\ UNCHANGED <<audits, journal, cancels>>

Anonymous(i) == try[i].kind = "preview"

\* basis_for_account; a review always asks for the full basis.
Key(i) == <<try[i].source, IF Anonymous(i) THEN "preview" ELSE "full">>

\* get_by_content_hash: a result that is current ends the attempt, one behind
\* the engine is refreshed without a new scan.  Only anonymous jobs ask the cap.
LookUp(i) ==
    /\ At(i, "cache")
    /\ \/ /\ Key(i) \in audits
          /\ \E next \in {"reused", "refresh"} : try' = [try EXCEPT ![i].phase = next]
       \/ /\ Key(i) \notin audits
          /\ try' = [try EXCEPT ![i].phase = IF Anonymous(i) THEN "cap" ELSE "scan",
                                ![i].thread = ~Anonymous(i)]
    /\ UNCHANGED <<audits, journal, cancels>>

\* Every row of today without an account, of whatever origin.
sum_anon_spend_today == previewSpend + reviewSpend

\* _anon_daily_cap_exceeded; a variant lets the cap itself through.
CapPassed(spend) == spend > Cap

CapExceeded(spend) == spend >= Cap

\* The cap is read, and only then is the scan handed to the pool.
ReadCap(i) ==
    /\ At(i, "cap")
    /\ try' = [try EXCEPT ![i].phase = "scan", ![i].thread = TRUE,
                          ![i].whole = ~CapExceeded(sum_anon_spend_today)]
    /\ UNCHANGED <<audits, journal, cancels>>

AfterScan(i) == IF Anonymous(i) THEN "persist" ELSE "history"

\* run_scan has a result for a coroutine that is still there.  Only when the
\* LLM stage failed does the operator alert await anything; a stage that was
\* skipped, failed or cut short leaves static_only or static+partial.
ScanReturns(i) ==
    /\ At(i, "scan")
    /\ \E next \in {"alert", AfterScan(i)}, whole \in BOOLEAN :
          /\ whole => try[i].whole /\ next # "alert"
          /\ try' = [try EXCEPT ![i].phase = next, ![i].thread = FALSE,
                                ![i].whole = whole]
    /\ UNCHANGED <<audits, journal, cancels>>

Alerted(i) ==
    /\ At(i, "alert")
    /\ try' = [try EXCEPT ![i].phase = AfterScan(i)]
    /\ UNCHANGED <<audits, journal, cancels>>

\* refresh_snapshot, complete_cached_dependencies: no provider is asked.
Refreshed(i) ==
    /\ At(i, "refresh")
    /\ try' = [try EXCEPT ![i].phase = AfterScan(i)]
    /\ UNCHANGED <<audits, journal, cancels>>

\* ensure_paid_baseline: an earlier preview of the same bytes serves, or one
\* more scan runs.
PreviewHistory(i) ==
    /\ At(i, "history")
    /\ \/ try' = [try EXCEPT ![i].phase = "persist"]
       \/ try' = [try EXCEPT ![i].phase = "baseline", ![i].thread = TRUE]
    /\ UNCHANGED <<audits, journal, cancels>>

\* The sum the cap reads counts the row of attempt i from now on, unless it has
\* an account.
Spends(i, calls) ==
    /\ previewSpend' = IF try[i].kind = "preview" THEN previewSpend + calls ELSE previewSpend
    /\ reviewSpend' = IF try[i].kind = "review" THEN reviewSpend + calls ELSE reviewSpend

\* The baseline's usage has a row of its own, written under a shield before
\* any report is.  _record_llm_usage is best effort: an insert that raises is
\* logged, and that is all.
BaselineReturns(i) ==
    /\ At(i, "baseline")
    /\ \E ok \in BOOLEAN :
          LET row == IF ok THEN try[i].baseDue ELSE 0
          IN  /\ try' = [try EXCEPT ![i].phase = "persist", ![i].thread = FALSE,
                                    ![i].baseDue = @ - row]
              /\ Spends(i, row)
    /\ UNCHANGED <<audits, cancels>>

\* The row of a scan that is not whole has a basis nobody looks up.
Stored(i) == IF try[i].whole THEN audits \cup {Key(i)} ELSE audits

\* audit_repo.create, or the exception that leads to the handler.  A None from
\* it raises in the worker; a review goes on without a row.
Persist(i) ==
    /\ At(i, "persist")
    /\ \/ /\ audits' = Stored(i)
          /\ try' = [try EXCEPT ![i].phase = "record"]
       \/ /\ try[i].kind = "review"
          /\ try' = [try EXCEPT ![i].phase = "record"]
          /\ UNCHANGED audits
       \/ /\ try' = [try EXCEPT ![i].phase = "handler"]
          /\ UNCHANGED audits
    /\ UNCHANGED <<journal, cancels>>

\* _record_llm_usage of the audit's scan; then the attempt ends as it would.
Insert(i, end) ==
    /\ try' = [try EXCEPT ![i].phase = end, ![i].due = 0]
    /\ Spends(i, try[i].due)

\* The usage row: of a success, or of a failure before it is raised again.
Record(i) ==
    /\ try[i].phase \in {"record", "handler"}
    /\ \/ Insert(i, IF At(i, "record") THEN "done" ELSE "failed")
       \/ try' = [try EXCEPT ![i].phase = "unlogged"] /\ UNCHANGED journal
    /\ UNCHANGED <<audits, cancels>>

\* An exception at one of the other awaits: from "history" on the handler has
\* it.
Raises(i) ==
    /\ \/ /\ try[i].phase \in {"cache", "refresh", "cap", "scan"}
          /\ try' = [try EXCEPT ![i].phase = "abandoned", ![i].thread = FALSE]
       \/ /\ try[i].phase \in {"history", "baseline"}
          /\ try' = [try EXCEPT ![i].phase = "handler", ![i].thread = FALSE]
    /\ UNCHANGED <<audits, journal, cancels>>

-----------------------------------------------------------------------------
(* The thread, and the cancellation.                                       *)

\* The running thread is the baseline's: the coroutine waits for it, or was
\* cancelled while it did.
InBaseline(i) ==
    try[i].phase \in {"baseline", "handler", "failed", "unlogged", "cut in review"}

\* run_scan makes a provider call, whoever still wants the result.
ProviderCall(i) ==
    /\ try[i].thread
    /\ \/ /\ ~InBaseline(i)
          /\ try[i].whole
          /\ try[i].due < MaxCalls
          /\ try' = [try EXCEPT ![i].due = @ + 1]
       \/ /\ InBaseline(i)
          /\ try[i].baseDue < MaxCalls
          /\ try' = [try EXCEPT ![i].baseDue = @ + 1]
    /\ UNCHANGED <<audits, journal, cancels>>

\* A thread whose coroutine was cancelled returns; nobody takes the result.
OrphanEnds(i) ==
    /\ try[i].thread
    /\ ~(At(i, "scan") \/ At(i, "baseline"))
    /\ try' = [try EXCEPT ![i].thread = FALSE]
    /\ UNCHANGED <<audits, journal, cancels>>

\* The worker's handler is `except BaseException`; a variant writes `except
\* Exception`, which a cancellation passes by, as it does in run_repo_audit.
HandlerMissesCancel(i) == IF try[i].kind = "review" THEN "cut in review" ELSE "failed"

CancelInTry(i) == IF try[i].kind = "review" THEN "cut in review" ELSE "handler"

\* scan_task.cancel(), by the heartbeat or the shutdown.  The insert of a
\* success is not shielded, nor that of a review's failure: it goes through or
\* it does not.
Cancel(i) ==
    /\ cancels < MaxCancel
    /\ cancels' = cancels + 1
    /\ \/ /\ try[i].phase \in {"cache", "refresh", "cap", "scan", "alert"}
          /\ try' = [try EXCEPT ![i].phase =
                                   IF @ = "alert" THEN "cut at alert" ELSE "abandoned"]
          /\ UNCHANGED <<audits, journal>>
       \/ /\ try[i].phase \in {"history", "baseline", "persist"}
          /\ try' = [try EXCEPT ![i].phase = CancelInTry(i)]
          /\ \/ UNCHANGED audits
             \/ At(i, "persist") /\ audits' = Stored(i)
          /\ UNCHANGED journal
       \/ /\ At(i, "record") \/ (At(i, "handler") /\ try[i].kind = "review")
          /\ \/ Insert(i, "cut in insert")
             \/ try' = [try EXCEPT ![i].phase = "cut in insert"] /\ UNCHANGED journal
          /\ UNCHANGED audits

\* SIGKILL, or a crash, of the worker or of the API: its coroutines and its
\* threads are gone, and no handler runs.
Dies(kinds) ==
    /\ cancels < MaxCancel
    /\ cancels' = cancels + 1
    /\ try' = [i \in Tries |->
                  IF try[i].kind \in kinds
                  THEN [try[i] EXCEPT !.thread = FALSE,
                                      !.phase = IF @ \in Awaits THEN "killed" ELSE @]
                  ELSE try[i]]
    /\ UNCHANGED <<audits, journal>>

\* UTC midnight: the sum starts anew, under scans that go on.
DayEnds ==
    /\ sum_anon_spend_today # 0
    /\ previewSpend' = 0 /\ reviewSpend' = 0
    /\ UNCHANGED <<try, audits, cancels>>

-----------------------------------------------------------------------------
Init ==
    /\ try = [i \in Tries |-> Unused]
    /\ audits = {}
    /\ previewSpend = 0 /\ reviewSpend = 0
    /\ cancels = 0

Next ==
    \/ \E source \in Source, kind \in Kinds : Begin(source, kind)
    \/ \E i \in Tries :
          \/ LookUp(i) \/ Refreshed(i) \/ ReadCap(i) \/ ScanReturns(i) \/ Alerted(i)
          \/ PreviewHistory(i) \/ BaselineReturns(i) \/ Persist(i) \/ Record(i)
          \/ Raises(i)
          \/ ProviderCall(i) \/ OrphanEnds(i) \/ Cancel(i)
    \/ Dies({"preview", "paid"}) \/ Dies({"review"})
    \/ DayEnds

Spec == Init /\ [][Next]_vars

-----------------------------------------------------------------------------
\* Every variable has its type.
TypeOK ==
    /\ try \in [Tries ->
          [phase : Awaits \cup Ends, source : Source \cup {0}, kind : Kinds,
           thread : BOOLEAN, whole : BOOLEAN, due : 0..MaxCalls, baseDue : 0..MaxCalls]]
    /\ audits \subseteq Source \X {"full", "preview"}
    /\ previewSpend \in Nat /\ reviewSpend \in Nat
    /\ cancels \in 0..MaxCancel

\* The cap is read before a scan and the usage written after it, so it can be
\* overshot, but by no more than one scan per slot: what anonymous audits have
\* in today's journal never passes the last call below the cap plus what the
\* slots had under way.  That is all the cap bounds.  sum_anon_spend_today
\* also counts the rows of run_repo_audit, which never asks: the sum can pass
\* any bound, and a day's reviews can use up the cap of the free tier.
CapOvershootIsBounded == previewSpend < Cap + Slots * MaxCalls

\* An attempt that had its scan's result and then ended by itself, by an
\* exception, or by a cancellation inside the try has every call of that scan
\* in the journal, although its thread of the baseline may still be running.
\* "Whether this attempt goes on to produce an audits row, fail, or be
\* cancelled out from under us decides what the row can point AT, never
\* whether it is written" (worker/main.py) says more than the code does: a
\* cancellation at the operator alert, just before the try, or in the insert
\* of a success, just after it, may leave no row.  Those two ends, and for a
\* review a cancellation anywhere, are in Unbilled.
EndedMeansBilled ==
    \A i \in Tries : try[i].phase \in Ends \ Unbilled => try[i].due = 0
=============================================================================
