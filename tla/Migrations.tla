----------------------------- MODULE Migrations -----------------------------
(***************************************************************************)
(* scripts/migration_manager.py: the commands apply, baseline and mark,    *)
(* run by operators and CI from checkouts of different revisions against   *)
(* one database.  Every psql call is a step of its own.  The local flock   *)
(* excludes commands on one host only; between hosts there is the advisory *)
(* lock, and that is held by one transaction at a time.                    *)
(***************************************************************************)
EXTENDS Integers, FiniteSets

CONSTANTS
    Runner,        \* commands that may be under way at once
    HostOf,        \* the machine a runner is on
    Revision,      \* checkouts the commands run from
    Number,        \* migration files, by their four digits
    Content,       \* the bytes of a file
    Manifest,      \* per revision: its files and their contents
    Directive,     \* per content: the rollback-safe header
    Contradicts,   \* contents that classify_rollback_unsafe objects to
    Malformed,     \* contents that validate_migration_sql rejects
    Destructive,   \* contents with a destructive statement
    RequiredFrom,  \* DIRECTIVE_REQUIRED_FROM
    AppTables,     \* the files that create the tables of APP_TABLES
    LegacySchemas  \* schemas, as sets of files, that predate the ledger

ASSUME MigrationsAssumption ==
    /\ Number \subseteq Nat \ {0} /\ IsFiniteSet(Number)
    /\ \A v \in Revision : /\ DOMAIN Manifest[v] \subseteq Number
                           /\ \A n \in DOMAIN Manifest[v] : Manifest[v][n] \in Content
    /\ Directive \in [Content -> {"yes", "no", "unknown"}]
    /\ RequiredFrom \in Nat
    /\ AppTables \subseteq Number
    /\ LegacySchemas \subseteq SUBSET Number

VARIABLES
    hasLedger,  \* does the ledger table exist?
    ledger,     \* its rows: file -> [sum, mode, safe]
    legacy,     \* the files whose SQL ran before there was a ledger
    executed,   \* file -> how often the manager committed its SQL
    dumps,      \* verified dumps under their final name: the rows in each
    run         \* the commands under way, and the last one that exited 0

database == <<hasLedger, ledger, legacy, executed>>
vars == <<hasLedger, ledger, legacy, executed, dumps, run>>

SL == INSTANCE SchemaLedger

-----------------------------------------------------------------------------
(* What a checkout says.                                                   *)

Files(v) == DOMAIN Manifest[v]

\* validate_rollback_directive raises on a missing directive or a false yes.
DirectiveOK(n, c) ==
    /\ Directive[c] = "unknown" => n < RequiredFrom
    /\ Directive[c] = "yes" => c \notin Contradicts

\* verify_applied_integrity: no row without its file, no other checksum, and
\* no applied file after one that is not.
Intact(v, rows) ==
    /\ DOMAIN rows \subseteq Files(v)
    /\ \A n \in DOMAIN rows : rows[n].sum = Manifest[v][n]
    /\ \A n \in DOMAIN rows, m \in Files(v) : m < n => m \in DOMAIN rows

Pending(v, rows) == Files(v) \ DOMAIN rows

\* The file that comes first: migrations are kept sorted by name.  A variant
\* takes the newest.
Latest(S) == CHOOSE n \in S : \A m \in S : m <= n

First(S) == CHOOSE n \in S : \A m \in S : n <= m

-----------------------------------------------------------------------------
(* The commands.                                                           *)

\* What a command knows: its arguments, then what it read on the way.  found is
\* history: the database was in use when the command began.
Idle == [pc |-> "idle", rev |-> "none", allow |-> FALSE, backup |-> FALSE,
         file |-> 0, claim |-> "unknown", found |-> FALSE,
         has |-> FALSE, fresh |-> FALSE,
         seen |-> {}, todo |-> {}, dump |-> SL!Empty]

Running(r) == run[r].pc \notin {"idle", "done"}

\* main and acquire_local_lock: the flock is not waited for.
Start(r, command) ==
    /\ \A q \in Runner : HostOf[q] = HostOf[r] => ~Running(q)
    /\ run' = [run EXCEPT ![r] = command]
    /\ UNCHANGED <<database, dumps>>

At(r, pc) == run[r].pc = pc

\* The command fails, by a MigrationError or SIGKILL; the kernel drops the
\* flock.
Leave(r) == run' = [run EXCEPT ![r] = Idle]

\* The command exits with 0.
Succeed(r) ==
    run' = [run EXCEPT ![r] = [Idle EXCEPT !.pc = "done", !.rev = run[r].rev,
                               !.file = run[r].file, !.claim = run[r].claim]]

Refuse(r) == Leave(r) /\ UNCHANGED <<database, dumps>>

\* A kill, a failing psql, a failing SQL statement or a dump that pg_dump or
\* pg_restore --list rejects: whatever was not committed is not there.  An
\* answer lost after COMMIT is this step after the one that committed.
Stop(r) == Running(r) /\ Refuse(r)

SchemaFiles == legacy \cup {n \in Number : executed[n] > 0}

\* Some migration was applied, or a table of the application exists.
InUse == ledger # SL!Empty \/ SchemaFiles \cap AppTables # {}

StartApply(r, v, allow, backup) ==
    Start(r, [Idle EXCEPT !.pc = "ledger?", !.rev = v, !.found = InUse,
                          !.allow = allow, !.backup = backup])

\* has_ledger = ledger_exists()
ProbeLedger(r) ==
    /\ At(r, "ledger?")
    /\ run' = [run EXCEPT ![r].pc = "schema?", ![r].has = hasLedger]
    /\ UNCHANGED <<database, dumps>>

\* existing_app_schema(): tables without a ledger are refused.
ProbeSchema(r) ==
    /\ At(r, "schema?")
    /\ LET tables == SchemaFiles \cap AppTables # {}
       IN  IF ~run[r].has /\ tables
           THEN Leave(r)
           ELSE run' = [run EXCEPT ![r].pc = "create",
                                   ![r].fresh = ~run[r].has /\ ~tables]
    /\ UNCHANGED <<database, dumps>>

\* create_ledger or ensure_ledger_columns; the table may have come meanwhile.
CreateLedger(r) ==
    /\ At(r, "create")
    /\ hasLedger' = TRUE
    /\ run' = [run EXCEPT ![r].pc = "load"]
    /\ UNCHANGED <<ledger, legacy, executed, dumps>>

\* Every check between load_applied and the backup.
MayApply(command, rows) ==
    LET v == command.rev
        todo == Pending(v, rows)
    IN  /\ Intact(v, rows)
        /\ todo # {}
        /\ \A n \in todo : /\ Manifest[v][n] \notin Malformed
                           /\ DirectiveOK(n, Manifest[v][n])
        /\ \/ \A n \in todo : Manifest[v][n] \notin Destructive
           \/ command.fresh
           \/ command.allow

\* A variant takes no dump before the first row.
NeedsDumpOnceSeen(command, rows) ==
    command.backup /\ ~command.fresh /\ rows # SL!Empty

NeedsDump(command, rows) == command.backup /\ ~command.fresh

\* Nothing pending is a success too.
UpToDate(v, rows) == Intact(v, rows) /\ Pending(v, rows) = {}

Load(r) ==
    /\ At(r, "load")
    /\ LET v == run[r].rev
       IN  \/ /\ MayApply(run[r], ledger)
              /\ run' = [run EXCEPT
                    ![r].pc = IF NeedsDump(run[r], ledger) THEN "dump" ELSE "apply",
                    ![r].seen = DOMAIN ledger,
                    ![r].todo = Pending(v, ledger)]
           \/ /\ ~MayApply(run[r], ledger)
              /\ IF UpToDate(v, ledger) THEN Succeed(r) ELSE Leave(r)
    /\ UNCHANGED <<database, dumps>>

\* pg_dump, into the .partial file.
TakeDump(r) ==
    /\ At(r, "dump")
    /\ run' = [run EXCEPT ![r].pc = "rename", ![r].dump = ledger]
    /\ UNCHANGED <<database, dumps>>

\* pg_restore --list accepted it: the dump gets its final name.
KeepDump(r) ==
    /\ At(r, "rename")
    /\ dumps' = dumps \cup {run[r].dump}
    /\ run' = [run EXCEPT ![r].pc = "apply"]
    /\ UNCHANGED database

\* A variant writes a mode the CHECK constraint does not know.
NewRowMode(c, mode, safe) == [sum |-> c, mode |-> "mark", safe |-> safe]

NewRow(c, mode, safe) == [sum |-> c, mode |-> mode, safe |-> safe]

\* The row goes into the transaction of the SQL; in a variant it is written
\* after it, and lost.
RowLost(rows, n, row) == rows

WithRow(rows, n, row) ==
    [m \in DOMAIN rows \cup {n} |-> IF m = n THEN row ELSE rows[m]]

\* apply_one: one transaction under the advisory lock.  A row with another
\* checksum reaches \quit 4, after which psql exits with 0 all the same; the
\* caller goes on, and the transaction is rolled back.
ApplyOne(r) ==
    /\ At(r, "apply")
    /\ run[r].todo # {}
    /\ LET n == First(run[r].todo)
           c == Manifest[run[r].rev][n]
       IN  /\ IF n \in DOMAIN ledger
              THEN UNCHANGED <<ledger, executed>>
              ELSE /\ executed' = [executed EXCEPT ![n] = @ + 1]
                   /\ ledger' = WithRow(ledger, n, NewRow(c, "apply", Directive[c]))
           /\ run' = [run EXCEPT ![r].todo = @ \ {n}]
    /\ UNCHANGED <<hasLedger, legacy, dumps>>

\* The final verify_applied_integrity; a variant does without it.
Unverified(v, rows) == TRUE

Verified(v, rows) == Intact(v, rows)

FinishApply(r) ==
    /\ At(r, "apply")
    /\ run[r].todo = {}
    /\ IF Verified(run[r].rev, ledger) THEN Succeed(r) ELSE Leave(r)
    /\ UNCHANGED <<database, dumps>>

StartBaseline(r, v) ==
    Start(r, [Idle EXCEPT !.pc = "tables?", !.rev = v])

\* existing_app_table_count() must find every table.
CountTables(r) ==
    /\ At(r, "tables?")
    /\ IF AppTables \subseteq SchemaFiles
       THEN run' = [run EXCEPT ![r].pc = "baseline create"]
       ELSE Leave(r)
    /\ UNCHANGED <<database, dumps>>

\* create_ledger commits by itself.
BaselineCreate(r) ==
    /\ At(r, "baseline create")
    /\ hasLedger' = TRUE
    /\ run' = [run EXCEPT ![r].pc = "empty?"]
    /\ UNCHANGED <<ledger, legacy, executed, dumps>>

BaselineLoad(r) ==
    /\ At(r, "empty?")
    /\ IF ledger = SL!Empty THEN run' = [run EXCEPT ![r].pc = "insert"]
                            ELSE Leave(r)
    /\ UNCHANGED <<database, dumps>>

\* One INSERT of every file, rollback_safe left NULL; a row of the same name
\* breaks the primary key and with it the whole statement.
BaselineInsert(r) ==
    /\ At(r, "insert")
    /\ LET v == run[r].rev
       IN  IF DOMAIN ledger \cap Files(v) # {}
           THEN Leave(r) /\ UNCHANGED ledger
           ELSE /\ Succeed(r)
                /\ ledger' = [n \in DOMAIN ledger \cup Files(v) |->
                                 IF n \in Files(v)
                                 THEN NewRow(Manifest[v][n], "baseline", "unknown")
                                 ELSE ledger[n]]
    /\ UNCHANGED <<hasLedger, legacy, executed, dumps>>

StartMark(r, v, n, claim) ==
    Start(r, [Idle EXCEPT !.pc = "check", !.rev = v, !.file = n, !.claim = claim])

\* A yes is checked against the SQL; a variant takes the operator's word.
Unchecked(claim, c) == TRUE

ClaimOK(claim, c) == claim = "yes" => c \notin Contradicts

\* The four gates of mark_migration and the refusal to overwrite a flag.
MayMark(command, rows) ==
    LET n == command.file
    IN  /\ n \in DOMAIN rows
        /\ rows[n].safe = "unknown"
        /\ n \in Files(command.rev)
        /\ Manifest[command.rev][n] = rows[n].sum
        /\ ClaimOK(command.claim, rows[n].sum)

CheckMark(r) ==
    /\ At(r, "check")
    /\ IF hasLedger /\ MayMark(run[r], ledger)
       THEN run' = [run EXCEPT ![r].pc = "update"]
       ELSE Leave(r)
    /\ UNCHANGED <<database, dumps>>

\* AND rollback_safe IS NULL; a variant leaves it out.
AnyFlag(n) == TRUE

FlagIsNull(n) == ledger[n].safe = "unknown"

\* UPDATE ... SET rollback_safe WHERE filename = ...
UpdateFlag(r) ==
    /\ At(r, "update")
    /\ LET n == run[r].file
       IN  ledger' = IF FlagIsNull(n)
                     THEN [ledger EXCEPT ![n].safe = run[r].claim] ELSE ledger
    /\ run' = [run EXCEPT ![r].pc = "confirm"]
    /\ UNCHANGED <<hasLedger, legacy, executed, dumps>>

\* The flag is read back; a variant believes the UPDATE.
Unread(r) == TRUE

FlagStuck(r) == ledger[run[r].file].safe = run[r].claim

ConfirmMark(r) ==
    /\ At(r, "confirm")
    /\ IF FlagStuck(r) THEN Succeed(r) ELSE Leave(r)
    /\ UNCHANGED <<database, dumps>>

-----------------------------------------------------------------------------
Init ==
    /\ hasLedger = FALSE
    /\ ledger = SL!Empty
    /\ legacy \in LegacySchemas
    /\ executed = [n \in Number |-> 0]
    /\ dumps = {}
    /\ run = [r \in Runner |-> Idle]

Command(r) ==
    \E v \in Revision :
        \/ \E allow, backup \in BOOLEAN : StartApply(r, v, allow, backup)
        \/ StartBaseline(r, v)
        \/ \E n \in Number, claim \in {"yes", "no"} : StartMark(r, v, n, claim)

Step(r) ==
    \/ ProbeLedger(r) \/ ProbeSchema(r) \/ CreateLedger(r) \/ Load(r)
    \/ TakeDump(r) \/ KeepDump(r) \/ ApplyOne(r) \/ FinishApply(r)
    \/ CountTables(r) \/ BaselineCreate(r) \/ BaselineLoad(r) \/ BaselineInsert(r)
    \/ CheckMark(r) \/ UpdateFlag(r) \/ ConfirmMark(r)

Next == \E r \in Runner : Command(r) \/ Step(r) \/ Stop(r)

Spec == Init /\ [][Next]_vars

-----------------------------------------------------------------------------
Commands ==
    [pc : {"idle", "done", "ledger?", "schema?", "create", "load", "dump", "rename",
           "apply", "tables?", "baseline create", "empty?", "insert", "check",
           "update", "confirm"},
     rev : Revision \cup {"none"}, allow : BOOLEAN, backup : BOOLEAN,
     file : Number \cup {0}, claim : SL!Flag, found : BOOLEAN,
     has : BOOLEAN, fresh : BOOLEAN,
     seen : SUBSET Number, todo : SUBSET Number, dump : SL!Ledgers]

\* Every variable has its type.
TypeOK ==
    /\ hasLedger \in BOOLEAN
    /\ ledger \in SL!Ledgers
    /\ legacy \in SUBSET Number
    /\ executed \in [Number -> Nat]
    /\ dumps \subseteq SL!Ledgers
    /\ run \in [Runner -> Commands]

\* Whatever is killed, and whichever hosts run commands at once, the SQL of a
\* file was committed by the manager exactly as often as the ledger says it
\* was: once for a row in mode apply, never for another.
LedgerTellsSchema ==
    \A n \in Number :
        executed[n] = IF n \in DOMAIN ledger /\ ledger[n].mode = "apply"
                      THEN 1 ELSE 0

\* An apply or a baseline that exited 0 left the database at its revision:
\* every file of the checkout has its row, with the checkout's checksum.  The
\* release gate is asked right after this exit code.
SuccessMeansApplied ==
    \A r \in Runner : At(r, "done") /\ run[r].file = 0 =>
        \A n \in Files(run[r].rev) :
            n \in DOMAIN ledger /\ ledger[n].sum = Manifest[run[r].rev][n]

\* No row says rollback_safe over SQL that contradicts it, whether the flag
\* came from the file's header or from an operator's mark.
YesIsCompatible ==
    \A n \in DOMAIN ledger : ledger[n].safe = "yes" => ledger[n].sum \notin Contradicts

\* A mark that exited 0 is what the ledger says from then on, whatever other
\* hosts mark.
MarkSticks ==
    \A r \in Runner : At(r, "done") /\ run[r].file # 0 =>
        /\ run[r].file \in DOMAIN ledger
        /\ ledger[run[r].file].safe = run[r].claim

\* The run of r commits the SQL of n.
Executes(r, n) ==
    /\ executed'[n] > executed[n]
    /\ At(r, "apply") /\ run'[r] # run[r]

\* A file's SQL runs only over every earlier file of its checkout.
InOrder ==
    [][\A r \in Runner, n \in Number :
          Executes(r, n) => \A m \in Files(run[r].rev) : m < n => m \in DOMAIN ledger]_vars

\* If the database was in use when an apply began, and the operator did not
\* waive the dump, a verified dump from before each schema change is on disk,
\* with all that was applied when the command loaded the ledger and without
\* the file that changes the schema.  What another host applies to an empty
\* database after this command began is not covered: see BootstrapIsEmpty.
DumpPrecedesChange ==
    [][\A r \in Runner, n \in Number :
          Executes(r, n) /\ run[r].backup /\ run[r].found =>
              \E d \in dumps : n \notin DOMAIN d /\ run[r].seen \subseteq DOMAIN d]_vars

\* "An empty database with no ledger and no tables.  There is nothing to lose":
\* an apply that takes no dump because it bootstraps loaded an empty ledger.
BootstrapIsEmpty ==
    \A r \in Runner : At(r, "apply") /\ run[r].fresh => run[r].seen = {}

\* The ledger's promise to the release gate (SchemaLedger): rows and flags
\* are only ever added.
KeepsLedger == SL!Spec
=============================================================================
