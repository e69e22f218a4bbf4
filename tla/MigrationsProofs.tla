-------------------------- MODULE MigrationsProofs --------------------------
(***************************************************************************)
(* What migration_manager.py keeps true for every set of hosts, revisions  *)
(* and files.  The inductive invariant has two halves: what the ledger     *)
(* says of the schema, and, for each command under way, what it read and   *)
(* may still rely on although other hosts went on in the meantime.  The    *)
(* second half is stable because the ledger only grows (LedgerGrows), so   *)
(* each action is looked at for the command that takes it.                 *)
(***************************************************************************)
EXTENDS Migrations, WellFoundedInduction, TLAPS

\* A file's four digits are a natural number, so there is a first one.
LEMMA FirstOfFiles ==
    ASSUME NEW S, S \subseteq Nat, S # {}
    PROVE  First(S) \in S /\ \A m \in S : First(S) <= m
<1>1. PICK x \in S : \A y \in S : ~(<<y, x>> \in OpToRel(<, Nat))
      BY NatLessThanWellFounded, WFMin
<1>2. \A y \in S : x <= y
  <2>1. SUFFICES ASSUME NEW y \in S, y < x PROVE FALSE
        OBVIOUS
  <2>2. <<y, x>> \in OpToRel(<, Nat)
        BY <2>1, <1>1 DEF OpToRel
  <2> QED BY <2>1, <2>2, <1>1
<1> QED BY <1>1, <1>2 DEF First

-----------------------------------------------------------------------------
(* Ledgers.                                                                *)

\* A ledger is a function from some files to rows.
LEMMA LedgerType ==
    ASSUME NEW f
    PROVE  f \in SL!Ledgers <=> DOMAIN f \subseteq Number /\ f \in [DOMAIN f -> SL!Row]
<1>1. ASSUME f \in SL!Ledgers
      PROVE  DOMAIN f \subseteq Number /\ f \in [DOMAIN f -> SL!Row]
  <2>1. PICK D \in SUBSET Number : f \in [D -> SL!Row]
        BY <1>1 DEF SL!Ledgers
  <2> QED BY <2>1
<1>2. ASSUME DOMAIN f \subseteq Number, f \in [DOMAIN f -> SL!Row]
      PROVE  f \in SL!Ledgers
  <2>1. [DOMAIN f -> SL!Row] \in {[D -> SL!Row] : D \in SUBSET Number}
        BY <1>2
  <2> QED BY <1>2, <2>1 DEF SL!Ledgers
<1> QED BY <1>1, <1>2

LEMMA EmptyLedger == SL!Empty \in SL!Ledgers /\ DOMAIN SL!Empty = {}
<1>1. DOMAIN SL!Empty = {}  BY DEF SL!Empty
<1>2. SL!Empty \in [DOMAIN SL!Empty -> SL!Row]  BY <1>1 DEF SL!Empty
<1> QED BY <1>1, <1>2, LedgerType

\* Extension is reflexive.
LEMMA ExtendsItself ==
    ASSUME NEW f PROVE SL!Extends(f, f)
BY DEF SL!Extends

-----------------------------------------------------------------------------
(* The invariant.                                                          *)

\* What an apply knows between its checks and its last transaction.
Planned(c) ==
    /\ c.file = 0
    /\ c.todo \subseteq Files(c.rev)
    /\ Files(c.rev) \ c.todo \subseteq DOMAIN ledger
    /\ \A n \in c.todo : DirectiveOK(n, Manifest[c.rev][n])
    /\ c.seen \subseteq DOMAIN ledger

\* A dump that holds what the run saw and nothing that is not applied.
Before(d, c) == c.seen \subseteq DOMAIN d /\ DOMAIN d \subseteq DOMAIN ledger

\* What a mark knows after its gates.
Gated(c) == c.file \in DOMAIN ledger /\ ClaimOK(c.claim, ledger[c.file].sum)

AtRevision(v) ==
    \A n \in Files(v) : n \in DOMAIN ledger /\ ledger[n].sum = Manifest[v][n]

Sound(c) ==
    /\ c.pc # "idle" => c.rev \in Revision
    /\ c.pc \in {"dump", "rename", "apply"} => Planned(c)
    /\ c.pc \in {"ledger?", "schema?", "create", "load", "tables?", "baseline create",
                 "empty?", "insert"} => c.file = 0
    /\ c.pc = "rename" => Before(c.dump, c)
    /\ c.pc = "apply" /\ c.backup /\ ~c.fresh => \E d \in dumps : Before(d, c)
    /\ c.pc \in {"check", "update", "confirm"} =>
          c.file \in Number /\ c.claim \in {"yes", "no"}
    /\ c.pc \in {"update", "confirm"} => Gated(c)
    /\ c.pc = "done" /\ c.file = 0 => AtRevision(c.rev)
    /\ c.pc = "done" /\ c.file # 0 =>
          /\ c.file \in DOMAIN ledger
          /\ c.claim \in {"yes", "no"}
          /\ ledger[c.file].safe = c.claim

AllSound == \A r \in Runner : Sound(run[r])

IInv == TypeOK /\ LedgerTellsSchema /\ YesIsCompatible /\ AllSound

\* What a step of r does to everything but its own command.
Grows(r) ==
    /\ ledger' \in SL!Ledgers
    /\ SL!Extends(ledger, ledger')
    /\ dumps \subseteq dumps' /\ dumps' \subseteq SL!Ledgers
    /\ run' \in [Runner -> Commands]
    /\ \A q \in Runner \ {r} : run'[q] = run[q]

\* A command keeps what it knows while others take steps.
LEMMA SoundIsStable ==
    ASSUME TypeOK, NEW r \in Runner, NEW q \in Runner, q # r,
           Sound(run[q]), Grows(r)
    PROVE  Sound(run[q])'
<1> DEFINE c == run[q]
<1>1. run'[q] = c  BY DEF Grows
<1>2. /\ DOMAIN ledger \subseteq DOMAIN ledger'
      /\ \A n \in DOMAIN ledger :
            /\ ledger'[n].sum = ledger[n].sum
            /\ ledger[n].safe # "unknown" => ledger'[n].safe = ledger[n].safe
      /\ dumps \subseteq dumps'
      BY DEF Grows, SL!Extends
<1>3. Planned(c) => Planned(c)'
      BY <1>1, <1>2 DEF Planned
<1>4. \A d : Before(d, c) =>
          c.seen \subseteq DOMAIN d /\ DOMAIN d \subseteq DOMAIN ledger'
      BY <1>2 DEF Before
<1>5. Gated(c) => Gated(c)'
      BY <1>1, <1>2 DEF Gated
<1>6. AtRevision(c.rev) => AtRevision(c.rev)'
      BY <1>1, <1>2 DEF AtRevision
<1>7. c.pc = "done" /\ c.file # 0 =>
          c.file \in DOMAIN ledger' /\ ledger'[c.file].safe = c.claim
      BY <1>2 DEF Sound
<1> QED BY <1>1, <1>2, <1>3, <1>4, <1>5, <1>6, <1>7 DEF Sound, Before

\* The invariant after a step of r, from what the step does.
LEMMA StepOf ==
    ASSUME IInv, NEW r \in Runner, NEW X \in Commands,
           run' = [run EXCEPT ![r] = X],
           hasLedger' \in BOOLEAN, legacy' = legacy, executed' \in [Number -> Nat],
           ledger' \in SL!Ledgers, SL!Extends(ledger, ledger'),
           dumps \subseteq dumps', dumps' \subseteq SL!Ledgers,
           Sound(run[r])', LedgerTellsSchema', YesIsCompatible'
    PROVE  IInv'
<1>1. run' \in [Runner -> Commands] /\ \A q \in Runner \ {r} : run'[q] = run[q]
      BY DEF IInv, TypeOK
<1>2. Grows(r)  BY <1>1 DEF Grows
<1>3. AllSound'
  <2> SUFFICES ASSUME NEW q \in Runner PROVE Sound(run[q])'
      BY DEF AllSound
  <2>1. CASE q = r  BY <2>1
  <2>2. CASE q # r  BY <2>2, <1>2, SoundIsStable DEF IInv, AllSound
  <2> QED BY <2>1, <2>2
<1>4. TypeOK'  BY <1>1 DEF IInv, TypeOK
<1> QED BY <1>3, <1>4 DEF IInv

\* A step that only changes what r knows.
LEMMA QuietStep ==
    ASSUME IInv, NEW r \in Runner, NEW X \in Commands,
           run' = [run EXCEPT ![r] = X],
           UNCHANGED <<ledger, legacy, executed, dumps>>, hasLedger' \in BOOLEAN,
           Sound(X)
    PROVE  IInv'
<1>1. run'[r] = X  BY DEF IInv, TypeOK
<1>2. Sound(run[r])'
      BY <1>1 DEF Sound, Planned, Before, Gated, AtRevision
<1>3. LedgerTellsSchema' /\ YesIsCompatible'
      BY DEF IInv, LedgerTellsSchema, YesIsCompatible
<1> QED BY <1>2, <1>3, StepOf, ExtendsItself DEF IInv, TypeOK

LEMMA IdleIsSound == Idle \in Commands /\ Sound(Idle)
BY EmptyLedger DEF Idle, Commands, Sound, SL!Flag

\* A command that fails.
LEMMA LeaveStep ==
    ASSUME IInv, NEW r \in Runner, Leave(r),
           UNCHANGED <<ledger, legacy, executed, dumps>>, hasLedger' \in BOOLEAN
    PROVE  IInv'
BY QuietStep, IdleIsSound DEF Leave

\* A command that exits with 0 over an unchanged ledger.
LEMMA SucceedStep ==
    ASSUME IInv, NEW r \in Runner, Succeed(r), UNCHANGED <<database, dumps>>,
           run[r].rev \in Revision,
           run[r].file = 0 => AtRevision(run[r].rev),
           run[r].file # 0 => /\ run[r].file \in DOMAIN ledger
                              /\ run[r].claim \in {"yes", "no"}
                              /\ ledger[run[r].file].safe = run[r].claim
    PROVE  IInv'
<1> DEFINE X == [Idle EXCEPT !.pc = "done", !.rev = run[r].rev,
                             !.file = run[r].file, !.claim = run[r].claim]
<1>1. X \in Commands
      BY IdleIsSound DEF IInv, TypeOK, Idle, Commands
<1>2. Sound(X)
      BY DEF Sound, Idle
<1> QED BY <1>1, <1>2, QuietStep DEF Succeed, database, IInv, TypeOK

-----------------------------------------------------------------------------
(* One lemma per action.                                                   *)

\* A command under way is well typed and sound.
LEMMA OwnCommand ==
    ASSUME IInv, NEW r \in Runner
    PROVE  /\ run \in [Runner -> Commands] /\ run[r] \in Commands /\ Sound(run[r])
           /\ run = [run EXCEPT ![r] = run[r]]
BY DEF IInv, TypeOK, AllSound

\* Fields of a command take values of their types.
LEMMA FieldTypes ==
    ASSUME NEW c \in Commands
    PROVE  /\ \A p \in {"schema?", "create", "dump", "rename", "apply"} :
                 [c EXCEPT !.pc = p] \in Commands
           /\ \A f \in BOOLEAN : [c EXCEPT !.has = f] \in Commands
           /\ \A f \in BOOLEAN : [c EXCEPT !.fresh = f] \in Commands
           /\ \A S \in SUBSET Number : [c EXCEPT !.seen = S] \in Commands
           /\ \A S \in SUBSET Number : [c EXCEPT !.todo = S] \in Commands
           /\ \A d \in SL!Ledgers : [c EXCEPT !.dump = d] \in Commands
<1>1. \A p \in {"schema?", "create", "dump", "rename", "apply"} :
          [c EXCEPT !.pc = p] \in Commands
      BY DEF Commands
<1>2. \A f \in BOOLEAN : [c EXCEPT !.has = f] \in Commands
      BY DEF Commands
<1>3. \A f \in BOOLEAN : [c EXCEPT !.fresh = f] \in Commands
      BY DEF Commands
<1>4. \A S \in SUBSET Number : [c EXCEPT !.seen = S] \in Commands
      BY DEF Commands
<1>5. \A S \in SUBSET Number : [c EXCEPT !.todo = S] \in Commands
      BY DEF Commands
<1>6. \A d \in SL!Ledgers : [c EXCEPT !.dump = d] \in Commands
      BY DEF Commands
<1> QED BY <1>1, <1>2, <1>3, <1>4, <1>5, <1>6

\* Each command begins with no more than its arguments.
LEMMA CommandStep ==
    ASSUME IInv, NEW r \in Runner, Command(r)
    PROVE  IInv'
<1>1. PICK v \in Revision :
          \/ \E allow, backup \in BOOLEAN : StartApply(r, v, allow, backup)
          \/ StartBaseline(r, v)
          \/ \E n \in Number, claim \in {"yes", "no"} : StartMark(r, v, n, claim)
      BY DEF Command
<1>2. ASSUME NEW X \in Commands, Sound(X), Start(r, X)  PROVE IInv'
      BY <1>2, QuietStep DEF Start, database, IInv, TypeOK
<1>3. ASSUME NEW allow \in BOOLEAN, NEW backup \in BOOLEAN,
             StartApply(r, v, allow, backup)
      PROVE  IInv'
  <2> DEFINE X == [Idle EXCEPT !.pc = "ledger?", !.rev = v, !.found = InUse,
                               !.allow = allow, !.backup = backup]
  <2>1. X \in Commands
    <3>1. InUse \in BOOLEAN  BY DEF InUse
    <3> QED BY <3>1, IdleIsSound DEF Idle, Commands
  <2>2. Sound(X)  BY DEF Sound, Idle
  <2> QED BY <1>2, <1>3, <2>1, <2>2 DEF StartApply
<1>4. ASSUME StartBaseline(r, v)  PROVE IInv'
  <2> DEFINE X == [Idle EXCEPT !.pc = "tables?", !.rev = v]
  <2>1. X \in Commands  BY IdleIsSound DEF Idle, Commands
  <2>2. Sound(X)  BY DEF Sound, Idle
  <2> QED BY <1>2, <1>4, <2>1, <2>2 DEF StartBaseline
<1>5. ASSUME NEW n \in Number, NEW claim \in {"yes", "no"}, StartMark(r, v, n, claim)
      PROVE  IInv'
  <2> DEFINE X == [Idle EXCEPT !.pc = "check", !.rev = v, !.file = n, !.claim = claim]
  <2>1. X \in Commands  BY IdleIsSound DEF Idle, Commands, SL!Flag
  <2>2. Sound(X)  BY DEF Sound, Idle
  <2> QED BY <1>2, <1>5, <2>1, <2>2 DEF StartMark
<1> QED BY <1>1, <1>3, <1>4, <1>5

\* The reads of an apply before it loads the ledger.
LEMMA ProbeStep ==
    ASSUME IInv, NEW r \in Runner,
           ProbeLedger(r) \/ ProbeSchema(r) \/ CreateLedger(r)
    PROVE  IInv'
<1> USE OwnCommand
<1>1. hasLedger \in BOOLEAN  BY DEF IInv, TypeOK
<1>2. CASE ProbeLedger(r)
  <2> DEFINE X == [run[r] EXCEPT !.pc = "schema?", !.has = hasLedger]
  <2>1. X \in Commands  BY <1>1, FieldTypes
  <2>2. Sound(X)  BY <1>2 DEF Sound, ProbeLedger, At, Commands
  <2>3. run' = [run EXCEPT ![r] = X]  BY <1>2 DEF ProbeLedger
  <2> QED BY <1>1, <1>2, <2>1, <2>2, <2>3, QuietStep DEF ProbeLedger, database
<1>3. CASE ProbeSchema(r)
  <2>1. CASE Leave(r)
        BY <1>1, <1>3, <2>1, LeaveStep DEF ProbeSchema, database
  <2>2. CASE ~Leave(r)
    <3>1. PICK f \in BOOLEAN : run' = [run EXCEPT ![r].pc = "create", ![r].fresh = f]
          BY <1>3, <2>2 DEF ProbeSchema, Commands
    <3> DEFINE X == [run[r] EXCEPT !.pc = "create", !.fresh = f]
    <3>2. X \in Commands  BY FieldTypes
    <3>3. Sound(X)  BY <1>3 DEF Sound, ProbeSchema, At, Commands
    <3>4. run' = [run EXCEPT ![r] = X]  BY <3>1
    <3> QED BY <1>1, <1>3, <3>2, <3>3, <3>4, QuietStep DEF ProbeSchema, database
  <2> QED BY <2>1, <2>2
<1>4. CASE CreateLedger(r)
  <2> DEFINE X == [run[r] EXCEPT !.pc = "load"]
  <2>1. X \in Commands  BY DEF Commands
  <2>2. Sound(X)  BY <1>4 DEF Sound, CreateLedger, At, Commands
  <2>3. run' = [run EXCEPT ![r] = X]  BY <1>4 DEF CreateLedger
  <2> QED BY <1>4, <2>1, <2>2, <2>3, QuietStep DEF CreateLedger
<1> QED BY <1>2, <1>3, <1>4

\* load_applied and the checks after it: the plan holds of the ledger read.
LEMMA LoadStep ==
    ASSUME IInv, NEW r \in Runner, Load(r)
    PROVE  IInv'
<1> USE OwnCommand
<1> DEFINE c == run[r]
<1>1. hasLedger \in BOOLEAN /\ DOMAIN ledger \subseteq Number
      BY LedgerType DEF IInv, TypeOK
<1>2. At(r, "load") /\ c.rev \in Revision /\ c.file = 0
      BY DEF Load, At, Sound
<1>3. Files(c.rev) \subseteq Number
      BY <1>2, MigrationsAssumption DEF Files
<1>4. CASE MayApply(c, ledger)
  <2>1. PICK p \in {"dump", "apply"} :
            /\ p = "apply" => ~NeedsDump(c, ledger)
            /\ run' = [run EXCEPT ![r].pc = p, ![r].seen = DOMAIN ledger,
                                  ![r].todo = Pending(c.rev, ledger)]
        BY <1>4 DEF Load
  <2> DEFINE X == [c EXCEPT !.pc = p, !.seen = DOMAIN ledger,
                            !.todo = Pending(c.rev, ledger)]
  <2>2. X \in Commands
    <3>1. [c EXCEPT !.pc = p] \in Commands
          BY FieldTypes
    <3>2. [c EXCEPT !.pc = p, !.seen = DOMAIN ledger] \in Commands
          BY <1>1, <3>1, FieldTypes
    <3>3. Pending(c.rev, ledger) \in SUBSET Number
          BY <1>3 DEF Pending
    <3> QED BY <3>2, <3>3, FieldTypes
  <2>3. Planned(X)
    <3>1. \A n \in Pending(c.rev, ledger) : DirectiveOK(n, Manifest[c.rev][n])
          BY <1>4 DEF MayApply
    <3> QED BY <1>2, <3>1 DEF Planned, Pending, Commands
  <2>4. Sound(X)
    <3>1. /\ X.pc = p /\ X.rev = c.rev /\ X.backup = c.backup
          /\ X.fresh = c.fresh /\ X.file = c.file
          BY DEF Commands
    <3>2. p = "apply" => ~(c.backup /\ ~c.fresh)
          BY <2>1 DEF NeedsDump
    <3> HIDE DEF X
    <3> QED BY <1>2, <2>3, <3>1, <3>2 DEF Sound
  <2>5. run' = [run EXCEPT ![r] = X]  BY <2>1
  <2> QED BY <1>1, <2>2, <2>4, <2>5, QuietStep DEF Load, database
<1>5. CASE ~MayApply(c, ledger) /\ UpToDate(c.rev, ledger)
  <2>1. AtRevision(c.rev)
        BY <1>5 DEF AtRevision, UpToDate, Intact, Pending
  <2> QED BY <1>2, <1>5, <2>1, SucceedStep DEF Load
<1>6. CASE ~MayApply(c, ledger) /\ ~UpToDate(c.rev, ledger)
      BY <1>1, <1>6, LeaveStep DEF Load, database
<1> QED BY <1>4, <1>5, <1>6

\* pg_dump, and the dump's final name.
LEMMA DumpStep ==
    ASSUME IInv, NEW r \in Runner, TakeDump(r) \/ KeepDump(r)
    PROVE  IInv'
<1> USE OwnCommand
<1> DEFINE c == run[r]
<1>1. hasLedger \in BOOLEAN /\ ledger \in SL!Ledgers /\ dumps \subseteq SL!Ledgers
      BY DEF IInv, TypeOK
<1>2. CASE TakeDump(r)
  <2> DEFINE X == [c EXCEPT !.pc = "rename", !.dump = ledger]
  <2>1. X \in Commands
    <3>1. [c EXCEPT !.pc = "rename"] \in Commands  BY FieldTypes
    <3> QED BY <1>1, <3>1, FieldTypes
  <2>2. Planned(c)  BY <1>2 DEF TakeDump, At, Sound
  <2>3. Planned(X) /\ Before(ledger, X)
        BY <2>2 DEF Planned, Before, Commands
  <2>4. Sound(X)  BY <1>2, <2>3 DEF Sound, TakeDump, At, Commands
  <2>5. run' = [run EXCEPT ![r] = X]  BY <1>2 DEF TakeDump
  <2> QED BY <1>1, <1>2, <2>1, <2>4, <2>5, QuietStep DEF TakeDump, database
<1>3. CASE KeepDump(r)
  <2> DEFINE X == [c EXCEPT !.pc = "apply"]
  <2>1. X \in Commands /\ c.dump \in SL!Ledgers  BY DEF Commands
  <2>2. run' = [run EXCEPT ![r] = X] /\ run'[r] = X  BY <1>3 DEF KeepDump
  <2>3. UNCHANGED <<hasLedger, ledger, legacy, executed>>
        BY <1>3 DEF KeepDump, database
  <2>4. Planned(c) /\ Before(c.dump, c) /\ c.rev \in Revision
        BY <1>3 DEF KeepDump, At, Sound
  <2>5. Planned(X) /\ Before(c.dump, X)
        BY <2>4 DEF Planned, Before, Commands
  <2>6. dumps' = dumps \cup {c.dump}  BY <1>3 DEF KeepDump
  <2>7. Sound(run[r])'
        BY <2>2, <2>3, <2>4, <2>5, <2>6 DEF Sound, Planned, Before, Commands
  <2>8. LedgerTellsSchema' /\ YesIsCompatible'
        BY <2>3 DEF IInv, LedgerTellsSchema, YesIsCompatible
  <2> QED BY <1>1, <2>1, <2>2, <2>3, <2>6, <2>7, <2>8, StepOf, ExtendsItself
          DEF IInv, TypeOK
<1> QED BY <1>2, <1>3

\* A row of a file of some revision.
LEMMA RowType ==
    ASSUME NEW v \in Revision, NEW n \in Files(v)
    PROVE  /\ n \in Number /\ Manifest[v][n] \in Content
           /\ NewRow(Manifest[v][n], "apply", Directive[Manifest[v][n]]) \in SL!Row
           /\ NewRow(Manifest[v][n], "baseline", "unknown") \in SL!Row
BY MigrationsAssumption DEF Files, NewRow, SL!Row, SL!Flag

\* Adding a row keeps every other one.
LEMMA WithRowExtends ==
    ASSUME ledger \in SL!Ledgers, NEW n \in Number, n \notin DOMAIN ledger,
           NEW row \in SL!Row
    PROVE  LET new == WithRow(ledger, n, row)
           IN  /\ new \in SL!Ledgers /\ SL!Extends(ledger, new)
               /\ DOMAIN new = DOMAIN ledger \cup {n} /\ new[n] = row
               /\ \A m \in DOMAIN ledger : new[m] = ledger[m]
<1> DEFINE new == WithRow(ledger, n, row)
<1>1. DOMAIN ledger \subseteq Number /\ ledger \in [DOMAIN ledger -> SL!Row]
      BY LedgerType
<1>2. /\ DOMAIN new = DOMAIN ledger \cup {n} /\ new[n] = row
      /\ \A m \in DOMAIN ledger : new[m] = ledger[m]
      BY DEF WithRow
<1>3. new \in [DOMAIN new -> SL!Row]
      BY <1>1, <1>2 DEF WithRow
<1>4. new \in SL!Ledgers
      BY <1>1, <1>2, <1>3, LedgerType
<1> QED BY <1>2, <1>4 DEF SL!Extends

\* One migration transaction: the row and the SQL commit together, or the
\* row was there already.
LEMMA ApplyOneStep ==
    ASSUME IInv, NEW r \in Runner, ApplyOne(r)
    PROVE  IInv' /\ SL!Extends(ledger, ledger')
<1> USE OwnCommand
<1> DEFINE c == run[r]
           n == First(c.todo)
           d == Manifest[c.rev][n]
           X == [c EXCEPT !.todo = @ \ {n}]
<1>1. c.pc = "apply" /\ c.rev \in Revision /\ Planned(c) /\ c.todo \in SUBSET Number
      BY DEF ApplyOne, At, Sound, Commands
<1>2. n \in c.todo
      BY <1>1, FirstOfFiles, MigrationsAssumption DEF ApplyOne
<1>3. n \in Files(c.rev) /\ DirectiveOK(n, d)
      BY <1>1, <1>2 DEF Planned
<1>4. n \in Number /\ d \in Content /\ NewRow(d, "apply", Directive[d]) \in SL!Row
      BY <1>1, <1>3, RowType
<1>5. run' = [run EXCEPT ![r] = X] /\ run'[r] = X  BY DEF ApplyOne
<1>6. c.todo \ {n} \in SUBSET Number  BY <1>1
<1>7. X \in Commands  BY <1>6, FieldTypes
<1>8. /\ hasLedger' = hasLedger /\ legacy' = legacy /\ dumps' = dumps
      /\ hasLedger \in BOOLEAN /\ ledger \in SL!Ledgers /\ dumps \subseteq SL!Ledgers
      /\ executed \in [Number -> Nat] /\ LedgerTellsSchema /\ YesIsCompatible
      BY DEF ApplyOne, IInv, TypeOK
<1>9. ASSUME DOMAIN ledger \cup {n} \subseteq DOMAIN ledger'  PROVE Sound(run[r])'
  <2>1. /\ X.pc = "apply" /\ X.rev = c.rev /\ X.file = c.file /\ X.seen = c.seen
        /\ X.todo = c.todo \ {n} /\ X.backup = c.backup /\ X.fresh = c.fresh
        BY <1>1 DEF Commands
  <2>2. Planned(run[r])'
    <3> HIDE DEF X
    <3> QED BY <1>1, <1>5, <1>9, <2>1 DEF Planned
  <2>3. c.backup /\ ~c.fresh => \E e \in dumps : Before(e, c)
        BY <1>1 DEF Sound
  <2>4. c.backup /\ ~c.fresh =>
            \E e \in dumps' : X.seen \subseteq DOMAIN e /\ DOMAIN e \subseteq DOMAIN ledger'
        BY <1>8, <1>9, <2>1, <2>3 DEF Before
  <2> HIDE DEF X
  <2> QED BY <1>1, <1>5, <2>1, <2>2, <2>4 DEF Sound, Before
<1>10. CASE n \in DOMAIN ledger
  <2>1. ledger' = ledger /\ executed' = executed  BY <1>10 DEF ApplyOne
  <2>2. LedgerTellsSchema' /\ YesIsCompatible'
        BY <1>8, <2>1 DEF LedgerTellsSchema, YesIsCompatible
  <2>3. Sound(run[r])'  BY <1>9, <1>10, <2>1
  <2> HIDE DEF X
  <2> QED BY <1>5, <1>7, <1>8, <2>1, <2>2, <2>3, StepOf, ExtendsItself
<1>11. CASE n \notin DOMAIN ledger
  <2> DEFINE row == NewRow(d, "apply", Directive[d])
  <2>1. /\ ledger' = WithRow(ledger, n, row)
        /\ executed' = [executed EXCEPT ![n] = @ + 1]
        BY <1>11 DEF ApplyOne
  <2>2. /\ ledger' \in SL!Ledgers /\ SL!Extends(ledger, ledger')
        /\ DOMAIN ledger' = DOMAIN ledger \cup {n} /\ ledger'[n] = row
        /\ \A m \in DOMAIN ledger : ledger'[m] = ledger[m]
    <3> HIDE DEF X, row
    <3>1. row \in SL!Row  BY <1>4 DEF row
    <3>2. n \in Number /\ n \notin DOMAIN ledger /\ ledger \in SL!Ledgers
          BY <1>4, <1>8, <1>11
    <3> HIDE DEF n, c
    <3>3. LET new == WithRow(ledger, n, row)
          IN  /\ new \in SL!Ledgers /\ SL!Extends(ledger, new)
              /\ DOMAIN new = DOMAIN ledger \cup {n} /\ new[n] = row
              /\ \A m \in DOMAIN ledger : new[m] = ledger[m]
          BY ONLY <3>1, <3>2, WithRowExtends
    <3> QED BY ONLY <2>1, <3>3
  <2>3. row.sum = d /\ row.mode = "apply" /\ row.safe = Directive[d]
        BY DEF NewRow
  <2>4. executed[n] = 0
        BY <1>4, <1>8, <1>11 DEF LedgerTellsSchema
  <2>5. /\ executed' \in [Number -> Nat] /\ executed'[n] = 1
        /\ \A m \in Number \ {n} : executed'[m] = executed[m]
        BY <1>4, <1>8, <2>1, <2>4
  <2>6. LedgerTellsSchema'
    <3> SUFFICES ASSUME NEW m \in Number
                 PROVE  executed'[m] = IF m \in DOMAIN ledger' /\ ledger'[m].mode = "apply"
                                       THEN 1 ELSE 0
        BY DEF LedgerTellsSchema
    <3> HIDE DEF row
    <3>1. CASE m = n  BY <3>1, <2>2, <2>3, <2>5
    <3>2. CASE m # n  BY <3>2, <1>8, <2>2, <2>5 DEF LedgerTellsSchema
    <3> QED BY <3>1, <3>2
  <2>7. YesIsCompatible'
    <3>1. row.safe = "yes" => row.sum \notin Contradicts
          BY <1>3, <2>3 DEF DirectiveOK
    <3> HIDE DEF row
    <3> QED BY <1>8, <2>2, <3>1 DEF YesIsCompatible
  <2>8. Sound(run[r])'  BY <1>9, <2>2
  <2> HIDE DEF X
  <2> QED BY <1>5, <1>7, <1>8, <2>2, <2>5, <2>6, <2>7, <2>8, StepOf
<1> QED BY <1>10, <1>11

\* The last check of an apply.
LEMMA FinishStep ==
    ASSUME IInv, NEW r \in Runner, FinishApply(r)
    PROVE  IInv'
<1> USE OwnCommand
<1>1. hasLedger \in BOOLEAN  BY DEF IInv, TypeOK
<1>2. /\ run[r].rev \in Revision /\ Planned(run[r]) /\ run[r].todo = {}
      /\ run[r].file = 0
      BY DEF FinishApply, At, Sound, Planned
<1>3. CASE Verified(run[r].rev, ledger)
  <2>1. AtRevision(run[r].rev)
        BY <1>2, <1>3 DEF AtRevision, Verified, Intact, Planned
  <2> QED BY <1>2, <1>3, <2>1, SucceedStep DEF FinishApply
<1>4. CASE ~Verified(run[r].rev, ledger)
      BY <1>1, <1>4, LeaveStep DEF FinishApply, database
<1> QED BY <1>3, <1>4

\* The reads of a baseline.
LEMMA BaselineReadStep ==
    ASSUME IInv, NEW r \in Runner,
           CountTables(r) \/ BaselineCreate(r) \/ BaselineLoad(r)
    PROVE  IInv'
<1> USE OwnCommand
<1>1. hasLedger \in BOOLEAN  BY DEF IInv, TypeOK
<1>2. ASSUME Leave(r), UNCHANGED <<database, dumps>>  PROVE IInv'
      BY <1>1, <1>2, LeaveStep DEF database
<1>3. ASSUME NEW p \in {"baseline create", "empty?", "insert"},
             run[r].pc \in {"tables?", "baseline create", "empty?"},
             run' = [run EXCEPT ![r].pc = p],
             UNCHANGED <<ledger, legacy, executed, dumps>>, hasLedger' \in BOOLEAN
      PROVE  IInv'
  <2> DEFINE X == [run[r] EXCEPT !.pc = p]
  <2>1. X \in Commands  BY DEF Commands
  <2>2. Sound(X)  BY <1>3 DEF Sound, Commands
  <2>3. run' = [run EXCEPT ![r] = X]  BY <1>3
  <2> QED BY <1>3, <2>1, <2>2, <2>3, QuietStep
<1>4. CASE CountTables(r)
      BY <1>1, <1>2, <1>3, <1>4 DEF CountTables, At, database
<1>5. CASE BaselineCreate(r)
      BY <1>3, <1>5 DEF BaselineCreate, At
<1>6. CASE BaselineLoad(r)
      BY <1>1, <1>2, <1>3, <1>6 DEF BaselineLoad, At, database
<1> QED BY <1>4, <1>5, <1>6

\* The INSERT of a baseline adds rows that executed nothing and say nothing.
LEMMA BaselineInsertStep ==
    ASSUME IInv, NEW r \in Runner, BaselineInsert(r)
    PROVE  IInv' /\ SL!Extends(ledger, ledger')
<1> USE OwnCommand
<1> DEFINE v == run[r].rev
<1>1. v \in Revision /\ run[r].file = 0
      BY DEF BaselineInsert, At, Sound
<1>2. /\ hasLedger' = hasLedger /\ legacy' = legacy /\ executed' = executed
      /\ dumps' = dumps /\ hasLedger \in BOOLEAN /\ executed \in [Number -> Nat]
      /\ ledger \in SL!Ledgers /\ dumps \subseteq SL!Ledgers
      BY DEF BaselineInsert, IInv, TypeOK
<1>3. CASE DOMAIN ledger \cap Files(v) # {}
      BY <1>2, <1>3, LeaveStep, ExtendsItself DEF BaselineInsert
<1>4. CASE DOMAIN ledger \cap Files(v) = {}
  <2> DEFINE row(n) == NewRow(Manifest[v][n], "baseline", "unknown")
             X == [Idle EXCEPT !.pc = "done", !.rev = v, !.file = run[r].file,
                               !.claim = run[r].claim]
  <2>1. ledger' = [n \in DOMAIN ledger \cup Files(v) |->
                      IF n \in Files(v) THEN row(n) ELSE ledger[n]]
        BY <1>4 DEF BaselineInsert
  <2>2. DOMAIN ledger \subseteq Number /\ ledger \in [DOMAIN ledger -> SL!Row]
        BY <1>2, LedgerType
  <2>3. \A n \in Files(v) : n \in Number /\ row(n) \in SL!Row
        BY <1>1, RowType
  <2>4. \A n \in Files(v) : /\ row(n).sum = Manifest[v][n] /\ row(n).mode = "baseline"
                            /\ row(n).safe = "unknown"
        BY DEF NewRow
  <2> HIDE DEF row
  <2>5. /\ DOMAIN ledger' = DOMAIN ledger \cup Files(v)
        /\ \A n \in Files(v) : ledger'[n] = row(n)
        /\ \A n \in DOMAIN ledger : ledger'[n] = ledger[n]
        BY <1>4, <2>1
  <2>6. ledger' \in [DOMAIN ledger' -> SL!Row] /\ DOMAIN ledger' \subseteq Number
        BY <2>1, <2>2, <2>3, <2>5
  <2>7. ledger' \in SL!Ledgers  BY <2>6, LedgerType
  <2>8. SL!Extends(ledger, ledger')  BY <2>5 DEF SL!Extends
  <2>9. LedgerTellsSchema'
    <3> SUFFICES ASSUME NEW m \in Number
                 PROVE  executed[m] = IF m \in DOMAIN ledger' /\ ledger'[m].mode = "apply"
                                      THEN 1 ELSE 0
        BY <1>2 DEF LedgerTellsSchema
    <3>1. executed[m] = IF m \in DOMAIN ledger /\ ledger[m].mode = "apply" THEN 1 ELSE 0
          BY DEF IInv, LedgerTellsSchema
    <3>2. CASE m \in Files(v)
      <4>1. m \notin DOMAIN ledger /\ ledger'[m].mode = "baseline"
            BY <1>4, <2>4, <2>5, <3>2
      <4> QED BY <3>1, <4>1
    <3>3. CASE m \notin Files(v)  BY <2>5, <3>1, <3>3
    <3> QED BY <3>2, <3>3
  <2>10. YesIsCompatible'
         BY <2>4, <2>5 DEF IInv, YesIsCompatible
  <2>11. run' = [run EXCEPT ![r] = X] /\ run'[r] = X
         BY <1>4 DEF BaselineInsert, Succeed
  <2>12. X \in Commands
         BY IdleIsSound DEF Idle, Commands
  <2>13. X.pc = "done" /\ X.rev = v /\ X.file = 0
         BY <1>1 DEF Idle
  <2> HIDE DEF X
  <2>14. AtRevision(run[r].rev)'
         BY <2>4, <2>5, <2>11, <2>13 DEF AtRevision
  <2>15. Sound(run[r])'
         BY <1>1, <2>11, <2>13, <2>14 DEF Sound
  <2> QED BY <1>2, <2>7, <2>8, <2>9, <2>10, <2>11, <2>12, <2>15, StepOf
<1> QED BY <1>3, <1>4

\* The gates of a mark.
LEMMA CheckMarkStep ==
    ASSUME IInv, NEW r \in Runner, CheckMark(r)
    PROVE  IInv'
<1> USE OwnCommand
<1>1. hasLedger \in BOOLEAN  BY DEF IInv, TypeOK
<1>2. CASE hasLedger /\ MayMark(run[r], ledger)
  <2> DEFINE X == [run[r] EXCEPT !.pc = "update"]
  <2>1. X \in Commands  BY DEF Commands
  <2>2. X.file = run[r].file /\ X.claim = run[r].claim /\ X.pc = "update" /\ X.rev = run[r].rev
        BY DEF Commands
  <2>3. Gated(X)  BY <1>2, <2>2 DEF MayMark, Gated
  <2>4. run' = [run EXCEPT ![r] = X]  BY <1>2 DEF CheckMark
  <2> HIDE DEF X
  <2>5. Sound(X)  BY <2>2, <2>3 DEF Sound, CheckMark, At
  <2> QED BY <1>1, <2>1, <2>4, <2>5, QuietStep DEF CheckMark, database
<1>3. CASE ~(hasLedger /\ MayMark(run[r], ledger))
      BY <1>1, <1>3, LeaveStep DEF CheckMark, database
<1> QED BY <1>2, <1>3

\* The UPDATE of a mark classifies at most what nobody had classified.
LEMMA UpdateFlagStep ==
    ASSUME IInv, NEW r \in Runner, UpdateFlag(r)
    PROVE  IInv' /\ SL!Extends(ledger, ledger')
<1> USE OwnCommand
<1> DEFINE n == run[r].file
           claim == run[r].claim
           X == [run[r] EXCEPT !.pc = "confirm"]
<1>1. /\ run[r].pc = "update" /\ run[r].rev \in Revision /\ Gated(run[r])
      /\ claim \in {"yes", "no"} /\ n \in Number
      BY DEF UpdateFlag, At, Sound
<1>2. n \in DOMAIN ledger /\ ClaimOK(claim, ledger[n].sum)
      BY <1>1 DEF Gated
<1>3. /\ hasLedger' = hasLedger /\ legacy' = legacy /\ executed' = executed
      /\ dumps' = dumps /\ hasLedger \in BOOLEAN /\ executed \in [Number -> Nat]
      /\ ledger \in SL!Ledgers /\ dumps \subseteq SL!Ledgers
      /\ LedgerTellsSchema /\ YesIsCompatible
      BY DEF UpdateFlag, IInv, TypeOK
<1>4. DOMAIN ledger \subseteq Number /\ ledger \in [DOMAIN ledger -> SL!Row]
      BY <1>3, LedgerType
<1>5. X \in Commands /\ X.file = n /\ X.claim = claim /\ X.pc = "confirm" /\ X.rev = run[r].rev
      BY DEF Commands
<1>6. run' = [run EXCEPT ![r] = X] /\ run'[r] = X  BY DEF UpdateFlag
<1> HIDE DEF X
<1>7. \/ ledger' = ledger
      \/ ledger[n].safe = "unknown" /\ ledger' = [ledger EXCEPT ![n].safe = claim]
      BY DEF UpdateFlag, FlagIsNull
<1>8. /\ DOMAIN ledger' = DOMAIN ledger /\ ledger' \in [DOMAIN ledger -> SL!Row]
      /\ \A m \in DOMAIN ledger : /\ ledger'[m].sum = ledger[m].sum
                                  /\ ledger'[m].mode = ledger[m].mode
      /\ \A m \in DOMAIN ledger :
            \/ ledger'[m].safe = ledger[m].safe
            \/ m = n /\ ledger[m].safe = "unknown" /\ ledger'[m].safe = claim
  <2>1. CASE ledger' = ledger  BY <1>4, <2>1
  <2>2. CASE ledger[n].safe = "unknown" /\ ledger' = [ledger EXCEPT ![n].safe = claim]
    <3>1. ledger[n] \in SL!Row  BY <1>2, <1>4
    <3>2. /\ [ledger[n] EXCEPT !.safe = claim] \in SL!Row
          /\ [ledger[n] EXCEPT !.safe = claim].sum = ledger[n].sum
          /\ [ledger[n] EXCEPT !.safe = claim].mode = ledger[n].mode
          /\ [ledger[n] EXCEPT !.safe = claim].safe = claim
          BY <1>1, <3>1 DEF SL!Row, SL!Flag
    <3>3. /\ DOMAIN ledger' = DOMAIN ledger
          /\ ledger'[n] = [ledger[n] EXCEPT !.safe = claim]
          /\ \A m \in DOMAIN ledger \ {n} : ledger'[m] = ledger[m]
          BY <1>2, <1>4, <2>2
    <3>4. ledger' \in [DOMAIN ledger -> SL!Row]
          BY <1>2, <1>4, <2>2, <3>2
    <3> QED BY <2>2, <3>2, <3>3, <3>4
  <2> QED BY <1>7, <2>1, <2>2
<1>9. ledger' \in SL!Ledgers  BY <1>4, <1>8, LedgerType
<1>10. SL!Extends(ledger, ledger')  BY <1>8 DEF SL!Extends
<1>11. LedgerTellsSchema'  BY <1>3, <1>8 DEF LedgerTellsSchema
<1>12. YesIsCompatible'  BY <1>2, <1>3, <1>8 DEF YesIsCompatible, ClaimOK
<1>13. Gated(run[r])'  BY <1>2, <1>5, <1>6, <1>8 DEF Gated, ClaimOK
<1>14. Sound(run[r])'  BY <1>1, <1>5, <1>6, <1>13 DEF Sound
<1> QED BY <1>3, <1>5, <1>6, <1>9, <1>10, <1>11, <1>12, <1>14, StepOf

\* The flag read back, and a command that is killed.
LEMMA LastStep ==
    ASSUME IInv, NEW r \in Runner, ConfirmMark(r) \/ Stop(r)
    PROVE  IInv'
<1> USE OwnCommand
<1>1. hasLedger \in BOOLEAN  BY DEF IInv, TypeOK
<1>2. CASE ConfirmMark(r)
  <2>1. /\ run[r].rev \in Revision /\ run[r].file \in Number
        /\ run[r].claim \in {"yes", "no"} /\ run[r].file \in DOMAIN ledger
        BY <1>2 DEF ConfirmMark, At, Sound, Gated
  <2>2. run[r].file # 0  BY <2>1, MigrationsAssumption
  <2>3. CASE FlagStuck(r)
        BY <1>2, <2>1, <2>2, <2>3, SucceedStep DEF ConfirmMark, FlagStuck
  <2>4. CASE ~FlagStuck(r)
        BY <1>1, <1>2, <2>4, LeaveStep DEF ConfirmMark, database
  <2> QED BY <2>3, <2>4
<1>3. CASE Stop(r)
      BY <1>1, <1>3, LeaveStep DEF Stop, Refuse, database
<1> QED BY <1>2, <1>3

-----------------------------------------------------------------------------
(* The theorems.                                                           *)

LEMMA InitIInv == Init => IInv
<1> SUFFICES ASSUME Init PROVE IInv
    OBVIOUS
<1>1. TypeOK
      BY EmptyLedger, IdleIsSound, MigrationsAssumption DEF Init, TypeOK
<1>2. LedgerTellsSchema /\ YesIsCompatible
      BY EmptyLedger DEF Init, LedgerTellsSchema, YesIsCompatible
<1>3. AllSound
      BY IdleIsSound DEF Init, AllSound
<1> QED BY <1>1, <1>2, <1>3 DEF IInv

\* Every step keeps the invariant and what the ledger has.
LEMMA NextIInv ==
    ASSUME IInv, [Next]_vars
    PROVE  IInv' /\ SL!Extends(ledger, ledger')
<1>1. CASE UNCHANGED vars
  <2>1. IInv'
        BY <1>1 DEF vars, IInv, TypeOK, LedgerTellsSchema, YesIsCompatible, AllSound,
                    Sound, Planned, Before, Gated, AtRevision
  <2> QED BY <1>1, <2>1, ExtendsItself DEF vars
<1>2. ASSUME NEW r \in Runner, Command(r) \/ Step(r) \/ Stop(r)
      PROVE  IInv' /\ SL!Extends(ledger, ledger')
  <2>1. CASE ApplyOne(r) \/ BaselineInsert(r) \/ UpdateFlag(r)
        BY <2>1, ApplyOneStep, BaselineInsertStep, UpdateFlagStep
  <2>2. CASE Command(r)
    <3>1. ledger' = ledger
          BY <2>2 DEF Command, StartApply, StartBaseline, StartMark, Start, database
    <3> QED BY <2>2, <3>1, CommandStep, ExtendsItself
  <2>3. CASE ProbeLedger(r) \/ ProbeSchema(r) \/ CreateLedger(r)
    <3>1. ledger' = ledger
          BY <2>3 DEF ProbeLedger, ProbeSchema, CreateLedger, database
    <3> QED BY <2>3, <3>1, ProbeStep, ExtendsItself
  <2>4. CASE Load(r)
    <3>1. ledger' = ledger  BY <2>4 DEF Load, database
    <3> QED BY <2>4, <3>1, LoadStep, ExtendsItself
  <2>5. CASE TakeDump(r) \/ KeepDump(r)
    <3>1. ledger' = ledger  BY <2>5 DEF TakeDump, KeepDump, database
    <3> QED BY <2>5, <3>1, DumpStep, ExtendsItself
  <2>6. CASE FinishApply(r)
    <3>1. ledger' = ledger  BY <2>6 DEF FinishApply, database
    <3> QED BY <2>6, <3>1, FinishStep, ExtendsItself
  <2>7. CASE CountTables(r) \/ BaselineCreate(r) \/ BaselineLoad(r)
    <3>1. ledger' = ledger
          BY <2>7 DEF CountTables, BaselineCreate, BaselineLoad, database
    <3> QED BY <2>7, <3>1, BaselineReadStep, ExtendsItself
  <2>8. CASE CheckMark(r)
    <3>1. ledger' = ledger  BY <2>8 DEF CheckMark, database
    <3> QED BY <2>8, <3>1, CheckMarkStep, ExtendsItself
  <2>9. CASE ConfirmMark(r) \/ Stop(r)
    <3>1. ledger' = ledger  BY <2>9 DEF ConfirmMark, Stop, Refuse, database
    <3> QED BY <2>9, <3>1, LastStep, ExtendsItself
  <2> QED BY <1>2, <2>1, <2>2, <2>3, <2>4, <2>5, <2>6, <2>7, <2>8, <2>9 DEF Step
<1> QED BY <1>1, <1>2 DEF Next

LEMMA SpecIInv == Spec => []IInv
BY InitIInv, NextIInv, PTL DEF Spec

\* Every variable of migration_manager.py and its database keeps its type.
THEOREM MigrationsTypeCorrect == Spec => []TypeOK
<1>1. IInv => TypeOK  BY DEF IInv
<1> QED BY <1>1, SpecIInv, PTL

\* apply_one: a file's SQL was committed exactly as often as its row says,
\* whatever is killed and however many hosts run commands at once.
THEOREM LedgerIsTheSchema == Spec => []LedgerTellsSchema
<1>1. IInv => LedgerTellsSchema  BY DEF IInv
<1> QED BY <1>1, SpecIInv, PTL

\* The exit code 0 of apply and baseline means the checkout's revision, and
\* keeps meaning it.
THEOREM SuccessIsReal == Spec => []SuccessMeansApplied
<1>1. IInv => SuccessMeansApplied
      BY DEF IInv, AllSound, Sound, SuccessMeansApplied, AtRevision, At
<1> QED BY <1>1, SpecIInv, PTL

\* validate_rollback_directive and mark_migration: no yes over SQL that
\* contradicts it.
THEOREM FlagsAreCompatible == Spec => []YesIsCompatible
<1>1. IInv => YesIsCompatible  BY DEF IInv
<1> QED BY <1>1, SpecIInv, PTL

\* mark_migration: what it reported is in the ledger for good.
THEOREM MarksAreKept == Spec => []MarkSticks
<1>1. IInv => MarkSticks
      BY DEF IInv, AllSound, Sound, MarkSticks, At
<1> QED BY <1>1, SpecIInv, PTL

\* The manager implements the ledger the release gate reads.
THEOREM ImplementsLedger == Spec => KeepsLedger
<1>1. Init => SL!Init  BY DEF Init, SL!Init
<1>2. IInv /\ [Next]_vars => [SL!Next]_ledger
      BY NextIInv DEF SL!Next, IInv, TypeOK
<1> QED BY <1>1, <1>2, SpecIInv, PTL DEF Spec, KeepsLedger, SL!Spec

\* Only apply_one runs a file's SQL, and it takes the first file of its plan
\* while that has no row.
LEMMA ExecutesIsApply ==
    ASSUME IInv, Next, NEW r \in Runner, NEW n \in Number, Executes(r, n)
    PROVE  /\ Planned(run[r]) /\ Sound(run[r]) /\ n \notin DOMAIN ledger
           /\ \A m \in run[r].todo : n <= m
<1>1. PICK q \in Runner : Command(q) \/ Step(q) \/ Stop(q)
      BY DEF Next
<1>2. executed' # executed  BY DEF Executes, IInv, TypeOK
<1>3. ApplyOne(q)
  <2>1. ~Command(q)
        BY <1>2 DEF Command, StartApply, StartBaseline, StartMark, Start, database
  <2>2. ~Stop(q)  BY <1>2 DEF Stop, Refuse, database
  <2>3. Step(q) => ApplyOne(q)
        BY <1>2 DEF Step, ProbeLedger, ProbeSchema, CreateLedger, Load, TakeDump, KeepDump,
           FinishApply, CountTables, BaselineCreate, BaselineLoad, BaselineInsert,
           CheckMark, UpdateFlag, ConfirmMark, database
  <2> QED BY <1>1, <2>1, <2>2, <2>3
<1>4. q = r
      BY <1>3 DEF ApplyOne, Executes, IInv, TypeOK
<1>5. Sound(run[r]) /\ run[r] \in Commands  BY OwnCommand
<1>6. Planned(run[r])  BY <1>5 DEF Sound, Executes, At
<1>7. n = First(run[r].todo) /\ n \notin DOMAIN ledger
  <2>1. /\ First(run[r].todo) \notin DOMAIN ledger
        /\ executed' = [executed EXCEPT ![First(run[r].todo)] = @ + 1]
        BY <1>2, <1>3, <1>4 DEF ApplyOne
  <2>2. executed \in [Number -> Nat]  BY DEF IInv, TypeOK
  <2>3. executed'[n] # executed[n]  BY <2>2 DEF Executes
  <2> QED BY <2>1, <2>2, <2>3
<1>8. run[r].todo \subseteq Nat /\ run[r].todo # {}
      BY <1>3, <1>4, <1>5, MigrationsAssumption DEF ApplyOne, Commands
<1> QED BY <1>5, <1>6, <1>7, <1>8, FirstOfFiles

\* apply_migrations: SQL runs only over every earlier file of its checkout.
THEOREM AppliesInOrder == Spec => InOrder
<1>1. ASSUME IInv, [Next]_vars
      PROVE  [\A r \in Runner, n \in Number :
                 Executes(r, n) => \A m \in Files(run[r].rev) :
                                       m < n => m \in DOMAIN ledger]_vars
  <2> SUFFICES ASSUME Next, NEW r \in Runner, NEW n \in Number, Executes(r, n),
                      NEW m \in Files(run[r].rev), m < n
               PROVE  m \in DOMAIN ledger
      BY <1>1
  <2>1. Planned(run[r]) /\ Sound(run[r]) /\ \A k \in run[r].todo : n <= k
        BY <1>1, ExecutesIsApply
  <2>2. run[r].rev \in Revision  BY <2>1 DEF Sound, Executes, At
  <2>3. m \in Nat /\ n \in Nat  BY <2>2, MigrationsAssumption DEF Files
  <2>4. m \notin run[r].todo  BY <2>1, <2>3
  <2> QED BY <2>1, <2>4 DEF Planned
<1> QED BY <1>1, SpecIInv, PTL DEF Spec, InOrder

-----------------------------------------------------------------------------
(* A database that was in use stays in use: a command that found it so     *)
(* never takes it for a fresh one.                                         *)

Tables == SchemaFiles \cap AppTables # {}

\* What a command that found the database in use reads on its way.
KnowsUse(c) ==
    /\ c.pc \in {"load", "dump", "rename", "apply", "empty?", "insert"} => hasLedger
    /\ c.found =>
          /\ c.pc = "ledger?" => hasLedger \/ Tables
          /\ c.pc = "schema?" => c.has \/ Tables
          /\ c.pc \in {"create", "load", "dump", "rename", "apply"} => ~c.fresh

UseInv ==
    /\ ledger # SL!Empty => hasLedger
    /\ \A r \in Runner : KnowsUse(run[r])

\* Neither the ledger's table nor the application's tables ever go away.
StaysInUse ==
    /\ hasLedger => hasLedger'
    /\ Tables => Tables'

LEMMA UseStays == ASSUME IInv, Next PROVE StaysInUse
<1>1. PICK r \in Runner : Command(r) \/ Step(r) \/ Stop(r)
      BY DEF Next
<1>2. hasLedger => hasLedger'
      BY <1>1 DEF Command, StartApply, StartBaseline, StartMark, Start, Stop, Refuse, Step,
         ProbeLedger, ProbeSchema, CreateLedger, Load, TakeDump, KeepDump, ApplyOne,
         FinishApply, CountTables, BaselineCreate, BaselineLoad, BaselineInsert,
         CheckMark, UpdateFlag, ConfirmMark, database
<1>3. legacy' = legacy
      BY <1>1 DEF Command, StartApply, StartBaseline, StartMark, Start, Stop, Refuse, Step,
         ProbeLedger, ProbeSchema, CreateLedger, Load, TakeDump, KeepDump, ApplyOne,
         FinishApply, CountTables, BaselineCreate, BaselineLoad, BaselineInsert,
         CheckMark, UpdateFlag, ConfirmMark, database
<1>4. executed' = executed \/ ApplyOne(r)
      BY <1>1 DEF Command, StartApply, StartBaseline, StartMark, Start, Stop, Refuse, Step,
         ProbeLedger, ProbeSchema, CreateLedger, Load, TakeDump, KeepDump,
         FinishApply, CountTables, BaselineCreate, BaselineLoad, BaselineInsert,
         CheckMark, UpdateFlag, ConfirmMark, database
<1>5. executed \in [Number -> Nat]  BY DEF IInv, TypeOK
<1>6. \A n \in Number : executed[n] > 0 => executed'[n] > 0
  <2>1. CASE executed' = executed  BY <2>1
  <2>2. CASE ApplyOne(r)
    <3>1. \/ executed' = executed
          \/ executed' = [executed EXCEPT ![First(run[r].todo)] = @ + 1]
          BY <2>2 DEF ApplyOne
    <3> QED BY <1>5, <3>1
  <2> QED BY <1>4, <2>1, <2>2
<1>7. SchemaFiles \subseteq SchemaFiles'
      BY <1>3, <1>6 DEF SchemaFiles
<1> QED BY <1>2, <1>7 DEF StaysInUse, Tables

\* Only the command that takes the step changes.
LEMMA OthersWait ==
    ASSUME IInv, NEW r \in Runner, Command(r) \/ Step(r) \/ Stop(r)
    PROVE  \A q \in Runner \ {r} : run'[q] = run[q]
BY DEF IInv, TypeOK, Command, StartApply, StartBaseline, StartMark, Start, Stop, Refuse, Step,
       Leave, Succeed, ProbeLedger, ProbeSchema, CreateLedger, Load, TakeDump, KeepDump,
       ApplyOne, FinishApply, CountTables, BaselineCreate, BaselineLoad, BaselineInsert,
       CheckMark, UpdateFlag, ConfirmMark

\* The command that takes the step.
LEMMA OwnUse ==
    ASSUME IInv, UseInv, StaysInUse, NEW r \in Runner, Command(r) \/ Step(r) \/ Stop(r)
    PROVE  KnowsUse(run[r])'
<1>1. /\ run \in [Runner -> Commands] /\ run[r] \in Commands /\ KnowsUse(run[r])
      /\ hasLedger \in BOOLEAN
      BY DEF IInv, TypeOK, UseInv
<1>2. CASE Leave(r) \/ Succeed(r)
  <2>1. CASE Leave(r)
    <3>1. run'[r] = Idle  BY <1>1, <2>1 DEF Leave
    <3> QED BY <3>1 DEF Idle, KnowsUse
  <2>2. CASE Succeed(r)
    <3>1. run'[r] = [Idle EXCEPT !.pc = "done", !.rev = run[r].rev,
                                 !.file = run[r].file, !.claim = run[r].claim]
          BY <1>1, <2>2 DEF Succeed
    <3>2. run'[r].pc = "done" /\ ~run'[r].found  BY <3>1 DEF Idle
    <3> QED BY <3>2 DEF KnowsUse
  <2> QED BY <1>2, <2>1, <2>2
<1>3. CASE Command(r)
  <2>1. PICK v \in Revision :
            \/ \E allow, backup \in BOOLEAN : StartApply(r, v, allow, backup)
            \/ StartBaseline(r, v)
            \/ \E n \in Number, claim \in {"yes", "no"} : StartMark(r, v, n, claim)
        BY <1>3 DEF Command
  <2>2. ASSUME NEW allow \in BOOLEAN, NEW backup \in BOOLEAN,
               StartApply(r, v, allow, backup)
        PROVE  KnowsUse(run[r])'
    <3>1. run'[r].pc = "ledger?" /\ run'[r].found = InUse
          BY <1>1, <2>2 DEF StartApply, Start, Idle
    <3>2. InUse => hasLedger \/ Tables
          BY DEF InUse, UseInv, Tables
    <3> QED BY <3>1, <3>2 DEF KnowsUse, StaysInUse
  <2>3. CASE StartBaseline(r, v)
        BY <1>1, <2>3 DEF StartBaseline, Start, Idle, KnowsUse
  <2>4. ASSUME NEW n \in Number, NEW claim \in {"yes", "no"}, StartMark(r, v, n, claim)
        PROVE  KnowsUse(run[r])'
        BY <1>1, <2>4 DEF StartMark, Start, Idle, KnowsUse
  <2> QED BY <2>1, <2>2, <2>3, <2>4
<1>4. CASE ProbeLedger(r)
  <2>1. /\ run'[r].pc = "schema?" /\ run'[r].has = hasLedger
        /\ run'[r].found = run[r].found /\ run[r].pc = "ledger?"
        BY <1>1, <1>4 DEF ProbeLedger, At, Commands
  <2> QED BY <1>1, <2>1 DEF KnowsUse, StaysInUse
<1>5. CASE ProbeSchema(r) /\ ~Leave(r)
  <2>1. /\ run[r].pc = "schema?"
        /\ run' = [run EXCEPT ![r].pc = "create", ![r].fresh = ~run[r].has /\ ~Tables]
        BY <1>5 DEF ProbeSchema, At, Tables
  <2> HIDE DEF Tables
  <2>2. /\ run'[r].pc = "create" /\ run'[r].fresh = (~run[r].has /\ ~Tables)
        /\ run'[r].found = run[r].found
        BY <1>1, <2>1 DEF Commands
  <2> QED BY <1>1, <2>1, <2>2 DEF KnowsUse
<1>6. CASE CreateLedger(r)
  <2>1. /\ run'[r].pc = "load" /\ run'[r].fresh = run[r].fresh /\ hasLedger'
        /\ run'[r].found = run[r].found /\ run[r].pc = "create"
        BY <1>1, <1>6 DEF CreateLedger, At, Commands
  <2> QED BY <1>1, <2>1 DEF KnowsUse
<1>7. CASE Load(r) /\ ~Leave(r) /\ ~Succeed(r)
  <2>1. PICK p \in {"dump", "apply"} :
            run' = [run EXCEPT ![r].pc = p, ![r].seen = DOMAIN ledger,
                               ![r].todo = Pending(run[r].rev, ledger)]
        BY <1>7 DEF Load
  <2>2. /\ run'[r].pc = p /\ run'[r].fresh = run[r].fresh
        /\ run'[r].found = run[r].found
        BY <1>1, <2>1 DEF Commands
  <2> QED BY <1>1, <1>7, <2>2 DEF Load, At, KnowsUse, StaysInUse
<1>8. CASE TakeDump(r) \/ KeepDump(r)
  <2>1. /\ run[r].pc \in {"dump", "rename"}
        /\ \/ run' = [run EXCEPT ![r].pc = "rename", ![r].dump = ledger]
           \/ run' = [run EXCEPT ![r].pc = "apply"]
        BY <1>8 DEF TakeDump, KeepDump, At
  <2>2. /\ run'[r].pc \in {"rename", "apply"} /\ run'[r].fresh = run[r].fresh
        /\ run'[r].found = run[r].found
    <3>1. CASE run' = [run EXCEPT ![r].pc = "rename", ![r].dump = ledger]
      <4>1. run'[r] = [run[r] EXCEPT !.pc = "rename", !.dump = ledger]
            BY <1>1, <3>1
      <4> QED BY <1>1, <4>1 DEF Commands
    <3>2. CASE run' = [run EXCEPT ![r].pc = "apply"]
      <4>1. run'[r] = [run[r] EXCEPT !.pc = "apply"]
            BY <1>1, <3>2
      <4> QED BY <1>1, <4>1 DEF Commands
    <3> QED BY <2>1, <3>1, <3>2
  <2> QED BY <1>1, <2>1, <2>2 DEF KnowsUse, StaysInUse
<1>9. CASE ApplyOne(r)
  <2>1. /\ run'[r].pc = "apply" /\ run'[r].fresh = run[r].fresh
        /\ run'[r].found = run[r].found /\ run[r].pc = "apply"
        BY <1>1, <1>9 DEF ApplyOne, At, Commands
  <2> QED BY <1>1, <2>1 DEF KnowsUse, StaysInUse
<1>10. CASE (CountTables(r) \/ CheckMark(r) \/ UpdateFlag(r)) /\ ~Leave(r)
  <2>1. run'[r].pc \in {"baseline create", "update", "confirm"}
        BY <1>1, <1>10 DEF CountTables, CheckMark, UpdateFlag, Commands
  <2> QED BY <2>1 DEF KnowsUse
<1>11. CASE (BaselineCreate(r) \/ BaselineLoad(r)) /\ ~Leave(r)
  <2>1. hasLedger'
        BY <1>1, <1>11 DEF BaselineCreate, BaselineLoad, At, KnowsUse, StaysInUse
  <2>2. \/ run' = [run EXCEPT ![r].pc = "empty?"]
        \/ run' = [run EXCEPT ![r].pc = "insert"]
        BY <1>11 DEF BaselineCreate, BaselineLoad
  <2>3. run'[r].pc \in {"empty?", "insert"}  BY <1>1, <2>2 DEF Commands
  <2> QED BY <2>1, <2>3 DEF KnowsUse
<1>12. CASE FinishApply(r) \/ BaselineInsert(r) \/ ConfirmMark(r) \/ Stop(r)
       BY <1>2, <1>12 DEF FinishApply, BaselineInsert, ConfirmMark, Stop, Refuse
<1> QED BY <1>2, <1>3, <1>4, <1>5, <1>6, <1>7, <1>8, <1>9, <1>10, <1>11, <1>12 DEF Step

\* Rows come only into a ledger that exists.
LEMMA RowsNeedLedger ==
    ASSUME IInv, UseInv, StaysInUse, NEW r \in Runner, Command(r) \/ Step(r) \/ Stop(r),
           ledger' # SL!Empty
    PROVE  hasLedger'
<1>1. Sound(run[r]) /\ KnowsUse(run[r])  BY DEF IInv, AllSound, UseInv
<1>2. CASE ledger' = ledger
      BY <1>2 DEF UseInv, StaysInUse
<1>3. CASE ApplyOne(r) \/ BaselineInsert(r)
      BY <1>1, <1>3 DEF ApplyOne, BaselineInsert, At, KnowsUse, StaysInUse
<1>4. CASE UpdateFlag(r)
  <2>1. DOMAIN ledger # {}
        BY <1>1, <1>4 DEF UpdateFlag, At, Sound, Gated
  <2> QED BY <2>1, EmptyLedger DEF UseInv, StaysInUse
<1>5. ledger' = ledger \/ ApplyOne(r) \/ BaselineInsert(r) \/ UpdateFlag(r)
      BY DEF Command, StartApply, StartBaseline, StartMark, Start, Stop, Refuse, Step,
         ProbeLedger, ProbeSchema, CreateLedger, Load, TakeDump, KeepDump,
         FinishApply, CountTables, BaselineCreate, BaselineLoad, CheckMark,
         ConfirmMark, database
<1> QED BY <1>2, <1>3, <1>4, <1>5

LEMMA SpecUseInv == Spec => [](IInv /\ UseInv)
<1>1. Init => UseInv
  <2> SUFFICES ASSUME Init PROVE UseInv
      OBVIOUS
  <2>1. \A r \in Runner : run[r].pc = "idle" /\ ~run[r].found
        BY DEF Init, Idle
  <2> QED BY <2>1 DEF Init, UseInv, KnowsUse
<1>2. IInv /\ UseInv /\ [Next]_vars => UseInv'
  <2> SUFFICES ASSUME IInv, UseInv, [Next]_vars PROVE UseInv'
      OBVIOUS
  <2>1. CASE UNCHANGED vars
        BY <2>1 DEF vars, UseInv, KnowsUse, Tables, SchemaFiles
  <2>2. CASE Next
    <3>1. PICK r \in Runner : Command(r) \/ Step(r) \/ Stop(r)
          BY <2>2 DEF Next
    <3>2. StaysInUse  BY <2>2, UseStays
    <3>3. KnowsUse(run[r])'  BY <3>1, <3>2, OwnUse
    <3>4. ASSUME NEW q \in Runner, q # r  PROVE KnowsUse(run[q])'
      <4>1. run'[q] = run[q] /\ KnowsUse(run[q])
            BY <3>1, <3>4, OthersWait DEF UseInv
      <4> QED BY <3>2, <4>1 DEF KnowsUse, StaysInUse
    <3>5. ledger' # SL!Empty => hasLedger'
          BY <3>1, <3>2, RowsNeedLedger
    <3> QED BY <3>3, <3>4, <3>5, EmptyLedger DEF UseInv, SL!Empty
  <2> QED BY <2>1, <2>2
<1> QED BY <1>1, <1>2, InitIInv, NextIInv, PTL DEF Spec

\* backup_before_apply: over a database that was in use when the command began,
\* a dump from before the change is on disk.
THEOREM DumpIsFirst == Spec => DumpPrecedesChange
<1>1. ASSUME IInv, UseInv, [Next]_vars
      PROVE  [\A r \in Runner, n \in Number :
                 Executes(r, n) /\ run[r].backup /\ run[r].found =>
                     \E d \in dumps : n \notin DOMAIN d /\ run[r].seen \subseteq DOMAIN d]_vars
  <2> SUFFICES ASSUME Next, NEW r \in Runner, NEW n \in Number, Executes(r, n),
                      run[r].backup, run[r].found
               PROVE  \E d \in dumps : n \notin DOMAIN d /\ run[r].seen \subseteq DOMAIN d
      BY <1>1
  <2>1. Sound(run[r]) /\ n \notin DOMAIN ledger
        BY <1>1, ExecutesIsApply
  <2>2. ~run[r].fresh
        BY <1>1 DEF UseInv, KnowsUse, Executes, At
  <2>3. \E d \in dumps : Before(d, run[r])
        BY <2>1, <2>2 DEF Sound, Executes, At
  <2> QED BY <2>1, <2>3 DEF Before
<1> QED BY <1>1, SpecUseInv, PTL DEF Spec, DumpPrecedesChange
=============================================================================
