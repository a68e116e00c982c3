----------------------------- MODULE Migrations -----------------------------
(***************************************************************************)
(* Migrate (internal/db/migrate.go), run by "conbench migrate" and by the  *)
(* server as it starts, on whatever database it finds: several migrators   *)
(* at once, any of which may die between two statements, while a server    *)
(* of the old version goes on inserting keyed results.                     *)
(*                                                                         *)
(* golang-migrate is external: it makes its ledger, marks a version dirty, *)
(* runs the file's statements one by one and marks it clean. An index is   *)
(* missing, correct, loose (unique on the key, but not the definition) or  *)
(* invalid (a concurrent build that did not finish, or another table's).   *)
(***************************************************************************)
EXTENDS Integers, FiniteSets

CONSTANTS
    Migrator,
    Origin,         \* the databases to begin with: name -> database
    latest,         \* latestMigrationVersion
    MaxCrashes, MaxRuns     \* bounds

NilVersion == -1

Index == {"missing", "correct", "loose", "invalid"}
Database ==
    [schema : BOOLEAN,              \* benchmark_result is there
     legacy : {"none", "baseline", "other"},    \* alembic_version
     ledger : BOOLEAN, version : {NilVersion} \cup 1..99, dirty : BOOLEAN,
     columns : BOOLEAN, constraint : {"none", "unvalidated", "valid"},
     canonical : Index, guard : Index]

\* The ledger's row is in the ledger, and columns are in a table.
Coherent(d) == (~d.ledger => d.version = NilVersion /\ ~d.dirty) /\ (d.columns => d.schema)

ASSUME MigrationsAssumption ==
    /\ latest = 2 /\ MaxCrashes \in Nat /\ MaxRuns \in Nat
    /\ \A o \in DOMAIN Origin : Origin[o] \in Database /\ Coherent(Origin[o])

VARIABLES
    origin, db,
    rows,       \* how many results carry the key the old server retries with
    lock,       \* the migrator with the advisory lock, or {}
    pc,         \* where each migrator is
    handoff,    \* what it found: inspectLegacyHandoff
    outcome,    \* the runs that ended: "ok" or "error", with the migrator
    crashes, runs

vars == <<origin, db, rows, lock, pc, handoff, outcome, crashes, runs>>

Init ==
    /\ origin \in DOMAIN Origin /\ db = Origin[origin]
    /\ rows = 0 /\ lock = {} /\ pc = [m \in Migrator |-> "idle"]
    /\ handoff = [m \in Migrator |-> FALSE] /\ outcome = {} /\ crashes = 0 /\ runs = 0

Start(m) ==
    /\ pc[m] = "idle" /\ runs < MaxRuns /\ runs' = runs + 1
    /\ pc' = [pc EXCEPT ![m] = "lock"]
    /\ UNCHANGED <<origin, db, rows, lock, handoff, outcome, crashes>>

\* Mutant: the lock is not waited for.
LockFreeForAll == TRUE

LockFree == lock = {}

acquireMigrationLock(m) ==
    /\ pc[m] = "lock" /\ LockFree
    /\ lock' = {m} /\ pc' = [pc EXCEPT ![m] = "inspect"]
    /\ UNCHANGED <<origin, db, rows, handoff, outcome, crashes, runs>>

\* Every return releases the lock.
Return(m, how) ==
    /\ lock' = lock \ {m}
    /\ pc' = [pc EXCEPT ![m] = "idle"] /\ handoff' = [handoff EXCEPT ![m] = FALSE]
    /\ outcome' = outcome \cup {how}

Refuse(m) ==
    /\ Return(m, "error")
    /\ UNCHANGED <<origin, db, rows, crashes, runs>>

Goto(m, place) == pc' = [pc EXCEPT ![m] = place]

Same == UNCHANGED <<origin, rows, lock, handoff, outcome, crashes, runs>>

(***************************************************************************)
(* Whose database it is.                                                   *)
(***************************************************************************)

inspectLegacyHandoff(d) ==
    CASE d.ledger /\ ~d.schema -> "error"
      [] d.ledger /\ d.schema /\ d.legacy = "none" -> "none"
      [] ~d.ledger /\ ~d.schema -> IF d.legacy = "none" THEN "none" ELSE "error"
      [] d.schema /\ d.legacy # "none" -> IF d.legacy = "baseline" THEN "baseline" ELSE "error"
      [] OTHER -> "error"

Inspect(m) ==
    /\ pc[m] = "inspect"
    /\ IF inspectLegacyHandoff(db) = "error" THEN Refuse(m)
       ELSE /\ handoff' = [handoff EXCEPT ![m] = inspectLegacyHandoff(db) = "baseline"]
            /\ Goto(m, "open")
            /\ UNCHANGED <<origin, db, rows, lock, outcome, crashes, runs>>

\* The driver makes its table when it is opened.
OpenDriver(m) ==
    /\ pc[m] = "open"
    /\ db' = [db EXCEPT !.ledger = TRUE]
    /\ Goto(m, IF handoff[m] THEN "handoff" ELSE "version")
    /\ Same

\* Mutant: an interrupted handoff is not taken up again.
DirtyIsFinal(d) == "error"

\* What prepareLegacyHandoff makes of a dirty ledger.
DirtyHandoff(d) == IF d.version = 2 THEN "reset" ELSE "error"

prepareLegacyHandoff(m) ==
    /\ pc[m] = "handoff"
    /\ CASE db.version = NilVersion ->       \* seedLegacyVersion
              /\ db' = [db EXCEPT !.version = 1, !.dirty = FALSE] /\ Goto(m, "version") /\ Same
         [] db.version > latest -> Refuse(m)
         [] db.version \in 1..latest /\ db.dirty ->
              IF DirtyHandoff(db) = "reset"
              THEN db' = [db EXCEPT !.version = 1, !.dirty = FALSE] /\ Goto(m, "version") /\ Same
              ELSE Refuse(m)
         [] OTHER -> Goto(m, "version") /\ UNCHANGED db /\ Same

ReadVersion(m) ==
    /\ pc[m] = "version"
    /\ IF db.dirty \/ db.version > latest THEN Refuse(m)
       ELSE Goto(m, IF db.version = 1 THEN "prepare" ELSE "up") /\ UNCHANGED db /\ Same

(***************************************************************************)
(* The submission index, replaced with no gap in the keys' uniqueness.     *)
(***************************************************************************)

Mismatched(i) == i \in {"loose", "invalid"}

\* Mutant: the old index goes before the new one is there.
DropFirst(d) ==
    CASE ~d.columns -> "up"
      [] d.columns /\ d.canonical = "correct" -> IF d.guard = "missing" THEN "up" ELSE "dropguard"
      [] d.columns /\ Mismatched(d.canonical) -> "dropcanonical"
      [] OTHER -> IF d.guard = "missing" THEN "buildguard" ELSE "install"

\* prepareSubmissionIndex looks at both and says what comes next.
prepareSubmissionIndex(d) ==
    CASE ~d.columns -> "up"
      [] d.columns /\ Mismatched(d.guard) -> "error"
      [] d.columns /\ ~Mismatched(d.guard) /\ d.canonical = "correct" ->
            IF d.guard = "missing" THEN "up" ELSE "dropguard"
      [] d.columns /\ d.guard = "missing" /\ d.canonical # "correct" -> "buildguard"
      [] OTHER -> IF Mismatched(d.canonical) THEN "dropcanonical" ELSE "install"

Prepare(m) ==
    /\ pc[m] = "prepare"
    /\ IF prepareSubmissionIndex(db) = "error" THEN Refuse(m)
       ELSE Goto(m, prepareSubmissionIndex(db)) /\ UNCHANGED db /\ Same

\* A concurrent build leaves an invalid index until it is done; it fails on duplicates.
BuildBegins(m) ==
    /\ pc[m] = "buildguard"
    /\ db' = [db EXCEPT !.guard = "invalid"] /\ Goto(m, "building") /\ Same

BuildEnds(m) ==
    /\ pc[m] = "building"
    /\ IF rows > 1 THEN Refuse(m)
       ELSE db' = [db EXCEPT !.guard = "correct"] /\ Goto(m, "prepare") /\ Same

DropGuard(m) ==
    /\ pc[m] = "dropguard"
    /\ db' = [db EXCEPT !.guard = "missing"] /\ Goto(m, "up") /\ Same

DropCanonical(m) ==
    /\ pc[m] = "dropcanonical"
    /\ db' = [db EXCEPT !.canonical = "missing"]
    /\ Goto(m, IF db.guard = "correct" THEN "install" ELSE "prepare") /\ Same

Install(m) ==
    /\ pc[m] = "install"
    /\ IF db.guard = "missing" \/ db.canonical # "missing" THEN Refuse(m)
       ELSE db' = [db EXCEPT !.canonical = db.guard, !.guard = "missing"] /\ Goto(m, "up") /\ Same

(***************************************************************************)
(* golang-migrate's Up, statement by statement.                            *)
(***************************************************************************)

Up(m) ==
    /\ pc[m] = "up"
    /\ IF db.dirty THEN Refuse(m)
       ELSE IF db.version = latest THEN Goto(m, "verify") /\ UNCHANGED db /\ Same
       ELSE /\ db' = [db EXCEPT !.version = IF @ = NilVersion THEN 1 ELSE @ + 1, !.dirty = TRUE]
            /\ Goto(m, IF db.version = NilVersion THEN "initial" ELSE "columns") /\ Same

\* 000001: the tables; it fails where they are already.
InitialSchema(m) ==
    /\ pc[m] = "initial"
    /\ IF db.schema THEN Refuse(m)
       ELSE db' = [db EXCEPT !.schema = TRUE] /\ Goto(m, "clean") /\ Same

\* 000002: the columns and the constraint, the index if it has not got the name, and
\* the constraint's validation.
AddColumns(m) ==
    /\ pc[m] = "columns"
    /\ db' = [db EXCEPT !.columns = TRUE] /\ Goto(m, "constraint") /\ Same

AddConstraint(m) ==
    /\ pc[m] = "constraint"
    /\ db' = [db EXCEPT !.constraint = "unvalidated"]
    /\ Goto(m, IF db.canonical = "missing" THEN "index" ELSE "validate") /\ Same

CreateIndex(m) ==
    /\ pc[m] = "index"
    /\ db' = [db EXCEPT !.canonical = "invalid"] /\ Goto(m, "indexing") /\ Same

IndexDone(m) ==
    /\ pc[m] = "indexing"
    /\ IF rows > 1 THEN Refuse(m)
       ELSE db' = [db EXCEPT !.canonical = "correct"] /\ Goto(m, "validate") /\ Same

ValidateConstraint(m) ==
    /\ pc[m] = "validate"
    /\ db' = [db EXCEPT !.constraint = "valid"] /\ Goto(m, "clean") /\ Same

MarkClean(m) ==
    /\ pc[m] = "clean"
    /\ db' = [db EXCEPT !.dirty = FALSE] /\ Goto(m, "up") /\ Same

(***************************************************************************)
(* The end, the crashes and the old server.                                *)
(***************************************************************************)

\* verifyCurrentSchema.
Complete(d) == d.columns /\ d.constraint = "valid" /\ d.canonical = "correct"

Verify(m) ==
    /\ pc[m] = "verify"
    /\ IF ~Complete(db) THEN Refuse(m)
       ELSE Goto(m, IF handoff[m] THEN "dropledger" ELSE "success") /\ UNCHANGED db /\ Same

DropLegacyLedger(m) ==
    /\ pc[m] = "dropledger"
    /\ IF db.legacy = "none" THEN Refuse(m)
       ELSE db' = [db EXCEPT !.legacy = "none"] /\ Goto(m, "success") /\ Same

Succeed(m) ==
    /\ pc[m] = "success"
    /\ Return(m, "ok")
    /\ UNCHANGED <<origin, db, rows, crashes, runs>>

\* A process dies, a connection or the database goes away; the session's lock goes too.
Crash(m) ==
    /\ pc[m] # "idle" /\ crashes < MaxCrashes /\ crashes' = crashes + 1
    /\ pc' = [pc EXCEPT ![m] = "idle"] /\ handoff' = [handoff EXCEPT ![m] = FALSE]
    /\ lock' = lock \ {m} /\ runs' = runs - 1
    /\ UNCHANGED <<origin, db, rows, outcome>>

Unique(d) == {d.canonical, d.guard} \cap {"correct", "loose"} # {}

\* INSERT ... ON CONFLICT DO NOTHING with the same key, by a server that knows keys.
OldServerInserts ==
    /\ Origin[origin].columns /\ rows < 2
    /\ (rows = 0 \/ ~Unique(db))
    /\ rows' = rows + 1
    /\ UNCHANGED <<origin, db, lock, pc, handoff, outcome, crashes, runs>>

Step(m) ==
    \/ acquireMigrationLock(m) \/ Inspect(m) \/ OpenDriver(m) \/ prepareLegacyHandoff(m)
    \/ ReadVersion(m) \/ Prepare(m) \/ BuildBegins(m) \/ BuildEnds(m) \/ DropGuard(m)
    \/ DropCanonical(m) \/ Install(m) \/ Up(m) \/ InitialSchema(m) \/ AddColumns(m)
    \/ AddConstraint(m) \/ CreateIndex(m) \/ IndexDone(m) \/ ValidateConstraint(m) \/ MarkClean(m)
    \/ Verify(m) \/ DropLegacyLedger(m) \/ Succeed(m)

Next == OldServerInserts \/ \E m \in Migrator : Start(m) \/ Step(m) \/ Crash(m)

\* A migrator that runs goes on; it is started until it has run MaxRuns times.
Spec == Init /\ [][Next]_vars /\ \A m \in Migrator : WF_vars(Step(m)) /\ WF_vars(Start(m))

(***************************************************************************)
(* Properties.                                                             *)
(***************************************************************************)

\* Once a migrator reported success the database is and stays at the latest version,
\* complete, with the old ledger gone, whatever other migrators do or die at.
SuccessIsLasting ==
    "ok" \in outcome => db.version = latest /\ ~db.dirty /\ Complete(db) /\ db.legacy = "none"

\* A database whose submission keys were unique by an index keeps them unique while that
\* index is replaced under a live server, crashes included.
NoGapInUniqueness == Unique(Origin[origin]) => rows <= 1

\* A database that is not Conbench's at a known revision is refused before it is touched:
\* another Alembic revision, tables with no ledger at all, or a newer version.
UnsupportedIsUntouched ==
    LET d == Origin[origin] IN
    (d.legacy = "other" \/ (d.schema /\ ~d.ledger /\ d.legacy = "none") \/ d.version > latest) => db = d

\* What a migrator reports is true for good: success is a complete schema, and a refused
\* database is as it was.
OutcomeIsTrue == SuccessIsLasting /\ UnsupportedIsUntouched

\* The handoff of a legacy database completes, wherever the runs before it died, unless
\* one died while it built the guard index, which the operator is told to remove.
HandoffCompletes ==
    (Origin[origin].legacy = "baseline" /\ Origin[origin].version # 99) ~>
        ("ok" \in outcome \/ db.guard = "invalid")

=============================================================================
