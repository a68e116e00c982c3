-------------------------- MODULE MigrationsProofs --------------------------
(***************************************************************************)
(* Theorems about Migrations, for any number of migrators, crashes and     *)
(* runs and any coherent database to begin with, not only the ones the     *)
(* repository's tests begin with.                                          *)
(***************************************************************************)
EXTENDS Migrations, TLAPS

Place == {"idle", "lock", "inspect", "open", "handoff", "version", "prepare", "buildguard",
          "building", "dropguard", "dropcanonical", "install", "up", "initial", "columns",
          "constraint", "index", "indexing", "validate", "clean", "verify", "dropledger",
          "success"}

TypeOK ==
    /\ origin \in DOMAIN Origin /\ db \in Database /\ rows \in Nat
    /\ pc \in [Migrator -> Place] /\ handoff \in [Migrator -> BOOLEAN]
    /\ outcome \subseteq {"ok", "error"}

(* The parts of the inductive invariant. *)

\* A migrator that works on the database has the advisory lock, alone.
Holding(m) == pc[m] \notin {"idle", "lock"}
LockIsExclusive == \A m \in Migrator : Holding(m) => lock = {m}

\* Where a migrator is once the version was found to be one it knows.
Checked == Place \ {"idle", "lock", "inspect", "open", "handoff", "version"}

\* What a migrator has found out still holds while it has the lock.
FindingsHold(m) ==
    /\ pc[m] \in Checked => db.version <= latest
    /\ Holding(m) /\ pc[m] # "inspect" /\ ~handoff[m] => db.legacy = "none"
    /\ pc[m] \in {"verify", "dropledger", "success"} => db.version = latest /\ ~db.dirty
    /\ pc[m] \in {"dropledger", "success"} => Complete(db)
    /\ pc[m] = "success" => db.legacy = "none"

\* After a success the migrators that follow find nothing to do.
FindsNothingToDo(m) ==
    "ok" \in outcome /\ Holding(m) =>
        \/ pc[m] = "inspect"
        \/ pc[m] \in {"open", "version", "up", "verify", "success"} /\ ~handoff[m]

\* How far a migrator gets with a database that is not supported.
RefusesEarly(m) ==
    LET d == Origin[origin] IN
    /\ d.legacy = "other" \/ (d.schema /\ ~d.ledger /\ d.legacy = "none") =>
          pc[m] \in {"idle", "lock", "inspect"}
    /\ d.version > latest =>
          pc[m] \in {"idle", "lock", "inspect", "open", "handoff", "version"}

\* The database had keys, and an index that made them unique.
KeysWereUnique == Origin[origin].columns /\ Unique(Origin[origin])

\* A migrator drops or rebuilds one of the two indexes only while the other
\* is there.
KeepsOneIndex(m) ==
    KeysWereUnique =>
        /\ pc[m] = "buildguard" => db.guard = "missing"
        /\ pc[m] \in {"dropcanonical", "install"} => db.guard = "correct"
        /\ pc[m] \in {"dropguard", "columns", "constraint", "validate", "clean"} =>
              db.canonical = "correct"
        /\ pc[m] \notin {"index", "indexing"}
        /\ pc[m] = "up" => db.version # 1 \/ db.canonical = "correct"

\* What holds of a migrator wherever it is.
Sound(m) == FindingsHold(m) /\ FindsNothingToDo(m) /\ RefusesEarly(m) /\ KeepsOneIndex(m)

\* At every step of the replacement one of the two indexes stands, so what a
\* server inserts meanwhile stays unique; only one that knows keys inserts.
OneIndexStands ==
    /\ KeysWereUnique => db.schema /\ db.columns /\ Unique(db)
    /\ ~Origin[origin].columns => rows = 0

Shared == OneIndexStands /\ SuccessIsLasting /\ UnsupportedIsUntouched /\ NoGapInUniqueness

MigrationsInv ==
    /\ TypeOK
    /\ LockIsExclusive
    /\ \A m \in Migrator : Sound(m)
    /\ Shared

-----------------------------------------------------------------------------

\* A step of the migrator that has the lock concerns nobody else: they are
\* idle or wait for it.
LEMMA HolderSteps ==
    ASSUME MigrationsInv, NEW m \in Migrator, Holding(m), NEW place \in Place,
           pc' = [pc EXCEPT ![m] = place], TypeOK', UNCHANGED origin,
           (place = "idle" /\ lock' = lock \ {m}) \/ lock' = lock,
           Sound(m)', Shared'
    PROVE  MigrationsInv'
<1>1. \A p \in Migrator \ {m} : pc'[p] = pc[p] /\ pc[p] \in {"idle", "lock"}
  BY DEF MigrationsInv, TypeOK, LockIsExclusive, Holding
<1>2. pc'[m] = place
  BY DEF MigrationsInv, TypeOK
<1>3. LockIsExclusive'
  BY <1>1, <1>2 DEF MigrationsInv, LockIsExclusive, Holding
<1>4. ASSUME NEW p \in Migrator \ {m} PROVE Sound(p)'
  BY <1>1 DEF Sound, FindingsHold, FindsNothingToDo, RefusesEarly, KeepsOneIndex, Holding, Checked
<1> QED
  BY <1>3, <1>4 DEF MigrationsInv

\* Refusing, the migrator leaves the database alone.
LEMMA RefusalIsSafe ==
    ASSUME MigrationsInv, NEW m \in Migrator, Holding(m), Refuse(m)
    PROVE  MigrationsInv'
<1>1. /\ pc' = [pc EXCEPT ![m] = "idle"] /\ lock' = lock \ {m}
      /\ handoff' = [handoff EXCEPT ![m] = FALSE]
      /\ outcome' = outcome \cup {"error"} /\ UNCHANGED <<origin, db, rows>>
  BY DEF Refuse, Return
<1>2. TypeOK'
  <2>1. handoff' \in [Migrator -> BOOLEAN]
    BY <1>1, Zenon DEF MigrationsInv, TypeOK
  <2> QED
    BY <1>1, <2>1 DEF MigrationsInv, TypeOK, Place
<1>3. Shared'
  BY <1>1 DEF MigrationsInv, Shared, OneIndexStands, SuccessIsLasting, UnsupportedIsUntouched,
              NoGapInUniqueness, KeysWereUnique, Unique, Complete
<1>4. Sound(m)'
  BY <1>1 DEF MigrationsInv, TypeOK, Sound, FindingsHold, FindsNothingToDo, RefusesEarly,
              KeepsOneIndex, Holding, Checked
<1> QED
  BY <1>1, <1>2, <1>3, <1>4, HolderSteps DEF Place

\* The migrator goes on to another place, with what it did to the database.
LEMMA GoingOn ==
    ASSUME MigrationsInv, NEW m \in Migrator, Holding(m), NEW place \in Place,
           Goto(m, place), Same, db' \in Database, Sound(m)', Shared'
    PROVE  MigrationsInv'
<1>1. TypeOK'
  BY DEF MigrationsInv, TypeOK, Goto, Same
<1> QED
  BY <1>1, HolderSteps DEF Goto, Same

\* The same when it has only looked at the database.
LEMMA LookingOn ==
    ASSUME MigrationsInv, NEW m \in Migrator, Holding(m), NEW place \in Place,
           Goto(m, place), Same, UNCHANGED db, Sound(m)'
    PROVE  MigrationsInv'
<1>1. db' \in Database /\ Shared'
  BY DEF MigrationsInv, TypeOK, Same, Shared, OneIndexStands, SuccessIsLasting,
         UnsupportedIsUntouched, NoGapInUniqueness, KeysWereUnique, Unique, Complete
<1> QED
  BY <1>1, GoingOn

\* The migrator has written to a database that it found it may write to. Nobody
\* had succeeded yet, so there is no success to keep true.
LEMMA Rewriting ==
    ASSUME MigrationsInv, NEW m \in Migrator, Holding(m), NEW place \in Checked,
           pc[m] \in Checked, "ok" \notin outcome,
           Goto(m, place), Same, db' \in Database, FindingsHold(m)', KeepsOneIndex(m)',
           KeysWereUnique => db'.schema /\ db'.columns /\ Unique(db')
    PROVE  MigrationsInv'
<1>1. pc \in [Migrator -> Place] /\ RefusesEarly(m) /\ Shared
  BY DEF MigrationsInv, TypeOK, Sound
<1>2. pc'[m] = place /\ UNCHANGED <<origin, rows, outcome, handoff>>
  BY <1>1 DEF Goto, Same
<1>3. LET d == Origin[origin] IN
      ~(d.legacy = "other" \/ (d.schema /\ ~d.ledger /\ d.legacy = "none") \/ d.version > latest)
  BY <1>1 DEF RefusesEarly, Checked
<1>4. RefusesEarly(m)' /\ UnsupportedIsUntouched' /\ FindsNothingToDo(m)' /\ SuccessIsLasting'
  BY <1>2, <1>3 DEF RefusesEarly, UnsupportedIsUntouched, FindsNothingToDo, SuccessIsLasting
<1>5. OneIndexStands' /\ NoGapInUniqueness'
  BY <1>1, <1>2 DEF Shared, OneIndexStands, NoGapInUniqueness, KeysWereUnique
<1>6. place \in Place /\ Sound(m)' /\ Shared'
  BY <1>4, <1>5 DEF Checked, Sound, Shared
<1> QED
  BY <1>6, GoingOn

(* What the assignments to the database leave as it was. *)

\* A flag of the database is written, and nothing else.
LEMMA FlagsWritten ==
    ASSUME NEW d \in Database, NEW b \in BOOLEAN, NEW e,
           e \in {[d EXCEPT !.ledger = b], [d EXCEPT !.schema = b], [d EXCEPT !.columns = b],
                  [d EXCEPT !.dirty = b]}
    PROVE  /\ e \in Database /\ e.legacy = d.legacy /\ e.version = d.version
           /\ e.constraint = d.constraint /\ e.canonical = d.canonical /\ e.guard = d.guard
<1>1. e = [d EXCEPT !.ledger = b] \/ e = [d EXCEPT !.schema = b] \/ e = [d EXCEPT !.columns = b]
         \/ e = [d EXCEPT !.dirty = b]
  BY Zenon
<1>2. e \in Database
  <2>1. [d EXCEPT !.ledger = b] \in Database /\ [d EXCEPT !.schema = b] \in Database
    BY Zenon DEF Database
  <2>2. [d EXCEPT !.columns = b] \in Database /\ [d EXCEPT !.dirty = b] \in Database
    BY Zenon DEF Database
  <2> QED
    BY <1>1, <2>1, <2>2, Zenon
<1>3. e.legacy = d.legacy /\ e.version = d.version /\ e.constraint = d.constraint
  BY <1>1, Zenon DEF Database
<1>4. e.canonical = d.canonical /\ e.guard = d.guard
  BY <1>1, Zenon DEF Database
<1> QED
  BY <1>2, <1>3, <1>4

\* prepareSubmissionIndex drops the old index, or goes on with none, only where the
\* guard or the canonical index is as it should be.
LEMMA PreparationIsSafe ==
    ASSUME NEW d \in Database, NEW place, place = prepareSubmissionIndex(d), place # "error"
    PROVE  /\ place \in {"up", "dropguard", "buildguard", "dropcanonical", "install"}
           /\ place = "buildguard" => d.guard = "missing"
           /\ place \in {"dropcanonical", "install"} => d.guard = "correct"
           /\ d.columns /\ place \in {"up", "dropguard"} => d.canonical = "correct"
<1>1. Mismatched(d.guard) => d.guard # "missing"
  BY DEF Mismatched
<1>2. ~d.columns => place = "up"
  BY Zenon DEF prepareSubmissionIndex
<1>3. d.columns => ~Mismatched(d.guard)
  BY <1>1, Zenon DEF prepareSubmissionIndex
<1>4. d.columns /\ d.canonical = "correct" => place = IF d.guard = "missing" THEN "up" ELSE "dropguard"
  BY <1>3, Zenon DEF prepareSubmissionIndex
<1>5. d.columns /\ d.canonical # "correct" /\ d.guard = "missing" => place = "buildguard"
  BY <1>3, Zenon DEF prepareSubmissionIndex
<1>6. d.columns /\ d.canonical # "correct" /\ d.guard # "missing" =>
         place = IF Mismatched(d.canonical) THEN "dropcanonical" ELSE "install"
  BY <1>3, Zenon DEF prepareSubmissionIndex
<1> QED
  BY <1>2, <1>3, <1>4, <1>5, <1>6 DEF Mismatched, Database, Index

-----------------------------------------------------------------------------
(* Every step keeps the invariant. *)

\* The steps of the migrator that holds the advisory lock.
LEMMA StepsOfTheHolder ==
    ASSUME MigrationsInv, NEW m \in Migrator, Holding(m), Step(m)
    PROVE  MigrationsInv'
<1> USE MigrationsAssumption
<1> DEFINE d == Origin[origin]
<1>0. /\ d \in Database /\ Coherent(d) /\ db \in Database /\ pc \in [Migrator -> Place]
      /\ handoff \in [Migrator -> BOOLEAN] /\ Sound(m) /\ Shared
  BY DEF MigrationsInv, TypeOK
<1>1. ASSUME Inspect(m) PROVE MigrationsInv'
  <2>1. CASE inspectLegacyHandoff(db) = "error"
    BY <1>1, <2>1, RefusalIsSafe DEF Inspect
  <2>2. CASE inspectLegacyHandoff(db) # "error"
    <3>1. /\ pc[m] = "inspect" /\ pc' = [pc EXCEPT ![m] = "open"]
          /\ handoff' = [handoff EXCEPT ![m] = inspectLegacyHandoff(db) = "baseline"]
          /\ UNCHANGED <<origin, db, rows, lock, outcome>>
      BY <1>1, <2>2 DEF Inspect, Goto
    <3>2. /\ db.legacy # "other" /\ ~(db.schema /\ ~db.ledger /\ db.legacy = "none")
          /\ inspectLegacyHandoff(db) = "baseline" <=> db.legacy # "none"
      BY <1>0, <2>2 DEF inspectLegacyHandoff, Database
    <3>3. handoff'[m] <=> db.legacy # "none"
      BY <1>0, <3>1, <3>2, Zenon
    <3>4. TypeOK'
      <4>1. handoff' \in [Migrator -> BOOLEAN]
        BY <1>0, <3>1, Zenon
      <4> QED
        BY <3>1, <4>1 DEF MigrationsInv, TypeOK, Place
    <3>5. Shared'
      BY <1>0, <3>1 DEF Shared, OneIndexStands, SuccessIsLasting, UnsupportedIsUntouched,
                        NoGapInUniqueness, KeysWereUnique, Unique, Complete
    <3>6. pc'[m] = "open"
      BY <1>0, <3>1
    <3>7. FindingsHold(m)' /\ KeepsOneIndex(m)'
      BY <3>1, <3>3, <3>6 DEF FindingsHold, KeepsOneIndex, Checked
    <3>8. FindsNothingToDo(m)'
      BY <1>0, <3>1, <3>3, <3>6 DEF FindsNothingToDo, Shared, SuccessIsLasting
    <3>9. RefusesEarly(m)'
      BY <1>0, <3>1, <3>2, <3>6 DEF RefusesEarly, Shared, UnsupportedIsUntouched
    <3> QED
      BY <3>1, <3>4, <3>5, <3>7, <3>8, <3>9, HolderSteps DEF Place, Sound
  <2> QED
    BY <2>1, <2>2
<1>2. ASSUME OpenDriver(m) PROVE MigrationsInv'
  <2> DEFINE place == IF handoff[m] THEN "handoff" ELSE "version"
  <2>0. db' = [db EXCEPT !.ledger = TRUE]
    BY <1>2, Zenon DEF OpenDriver
  <2>1. pc[m] = "open" /\ Goto(m, place) /\ Same /\ place \in {"handoff", "version"}
    BY <1>2 DEF OpenDriver
  <2> HIDE DEF place
  <2>2. /\ db' \in Database /\ db'.version = db.version /\ db'.dirty = db.dirty
        /\ db'.legacy = db.legacy /\ db'.schema = db.schema /\ db'.columns = db.columns
        /\ db'.constraint = db.constraint /\ db'.canonical = db.canonical /\ db'.guard = db.guard
    <3>1. db'.dirty = db.dirty /\ db'.schema = db.schema /\ db'.columns = db.columns
      BY <1>0, <2>0, Zenon DEF Database
    <3> QED
      BY <1>0, <2>0, <3>1, FlagsWritten, Zenon
  <2>6. db.ledger => db' = db
    BY <1>0, <2>0, Zenon DEF Database
  <2>3. pc'[m] = place /\ UNCHANGED <<origin, rows, outcome, handoff>>
    BY <1>0, <2>1 DEF Goto, Same
  <2>4. Sound(m)'
    BY <1>0, <2>1, <2>2, <2>3 DEF Sound, FindingsHold, FindsNothingToDo, RefusesEarly,
                                  KeepsOneIndex, Holding, Checked, place
  <2>5. Shared'
    <3>1. UnsupportedIsUntouched'
      BY <1>0, <2>1, <2>3, <2>6 DEF Shared, UnsupportedIsUntouched, Coherent, Sound, RefusesEarly,
                                    Database, NilVersion
    <3> QED
      BY <1>0, <2>2, <2>3, <3>1 DEF Shared, OneIndexStands, SuccessIsLasting, NoGapInUniqueness,
                                    KeysWereUnique, Unique, Complete
  <2> QED
    BY <2>1, <2>2, <2>4, <2>5, GoingOn DEF Place
<1>3. ASSUME prepareLegacyHandoff(m) PROVE MigrationsInv'
  <2>1. CASE Refuse(m)
    BY <2>1, RefusalIsSafe
  <2>2. CASE Goto(m, "version") /\ Same
    <3>1. pc[m] = "handoff" /\ pc'[m] = "version" /\ UNCHANGED <<origin, rows, outcome, handoff>>
      BY <1>0, <1>3, <2>2 DEF prepareLegacyHandoff, Goto, Same
    <3>2. \/ UNCHANGED db
          \/ db' = [db EXCEPT !.version = 1, !.dirty = FALSE] /\ db.version <= latest
      BY <1>0, <1>3, <3>1 DEF prepareLegacyHandoff, Refuse, Return, Database, NilVersion
    <3>3. CASE UNCHANGED db
      <4>1. Sound(m)'
        BY <1>0, <3>1, <3>3 DEF Sound, FindingsHold, FindsNothingToDo, RefusesEarly,
                                KeepsOneIndex, Holding, Checked
      <4> QED
        BY <2>2, <3>3, <4>1, LookingOn DEF Place
    <3>4. CASE db' = [db EXCEPT !.version = 1, !.dirty = FALSE] /\ db.version <= latest
      <4>1. /\ db' \in Database /\ db'.version = 1 /\ ~db'.dirty
            /\ db'.legacy = db.legacy /\ db'.schema = db.schema /\ db'.columns = db.columns
            /\ db'.canonical = db.canonical /\ db'.guard = db.guard
        <5>1. 1 \in {NilVersion} \cup 1..99
          OBVIOUS
        <5>2. db' = [db EXCEPT !.version = 1, !.dirty = FALSE]
          BY <3>4, Zenon
        <5>3. db' \in Database
          BY <1>0, <5>1, <5>2, Zenon DEF Database
        <5>4. db'.version = 1 /\ ~db'.dirty
          BY <1>0, <5>2, Zenon DEF Database
        <5>5. db'.legacy = db.legacy /\ db'.schema = db.schema /\ db'.columns = db.columns
          BY <1>0, <5>2, Zenon DEF Database
        <5>6. db'.canonical = db.canonical /\ db'.guard = db.guard
          BY <1>0, <5>2, Zenon DEF Database
        <5> QED
          BY <5>3, <5>4, <5>5, <5>6, Zenon
      <4>2. Sound(m)'
        BY <1>0, <3>1, <4>1 DEF Sound, FindingsHold, FindsNothingToDo, RefusesEarly,
                                KeepsOneIndex, Holding, Checked
      <4>3. "ok" \notin outcome
        BY <1>0, <3>1 DEF Sound, FindsNothingToDo, Holding
      <4>4. UnsupportedIsUntouched'
        BY <1>0, <3>1, <3>4 DEF Shared, UnsupportedIsUntouched, Sound, RefusesEarly, Database, NilVersion
      <4>5. Shared'
        BY <1>0, <3>1, <4>1, <4>3, <4>4 DEF Shared, OneIndexStands, SuccessIsLasting,
              NoGapInUniqueness, KeysWereUnique, Unique
      <4> QED
        BY <2>2, <4>1, <4>2, <4>5, GoingOn DEF Place
    <3> QED
      BY <3>2, <3>3, <3>4
  <2> QED
    BY <1>3, <2>1, <2>2 DEF prepareLegacyHandoff
<1>4. ASSUME ReadVersion(m) PROVE MigrationsInv'
  <2>1. CASE db.dirty \/ db.version > latest
    BY <1>4, <2>1, RefusalIsSafe DEF ReadVersion
  <2>2. CASE ~(db.dirty \/ db.version > latest)
    <3> DEFINE place == IF db.version = 1 THEN "prepare" ELSE "up"
    <3>1. pc[m] = "version" /\ Goto(m, place) /\ UNCHANGED db /\ Same
      BY <1>4, <2>2 DEF ReadVersion
    <3>2. place \in {"prepare", "up"} /\ (place = "up" <=> db.version # 1) /\ db.version <= latest
      BY <1>0, <2>2 DEF Database, NilVersion
    <3> HIDE DEF place
    <3>3. pc'[m] = place /\ UNCHANGED <<origin, rows, outcome, handoff>>
      BY <1>0, <3>1 DEF Goto, Same
    <3>4. FindingsHold(m)'
      BY <1>0, <3>1, <3>2, <3>3 DEF Sound, FindingsHold, Holding, Checked
    <3>5. FindsNothingToDo(m)'
      BY <1>0, <3>1, <3>2, <3>3 DEF Sound, FindsNothingToDo, Holding, Shared, SuccessIsLasting
    <3>6. RefusesEarly(m)' /\ KeepsOneIndex(m)'
      BY <1>0, <3>1, <3>2, <3>3 DEF Sound, RefusesEarly, KeepsOneIndex, Shared,
            UnsupportedIsUntouched, Database, NilVersion
    <3> QED
      BY <3>1, <3>2, <3>4, <3>5, <3>6, LookingOn DEF Place, Sound
  <2> QED
    BY <2>1, <2>2
<1>5. ASSUME Prepare(m) PROVE MigrationsInv'
  <2> DEFINE place == prepareSubmissionIndex(db)
  <2>1. CASE place = "error"
    BY <1>5, <2>1, RefusalIsSafe DEF Prepare
  <2>2. CASE place # "error"
    <3>1. pc[m] = "prepare" /\ Goto(m, place) /\ UNCHANGED db /\ Same
      BY <1>5, <2>2 DEF Prepare
    <3>2. /\ place \in {"up", "dropguard", "buildguard", "dropcanonical", "install"}
          /\ place = "buildguard" => db.guard = "missing"
          /\ place \in {"dropcanonical", "install"} => db.guard = "correct"
          /\ db.columns /\ place \in {"up", "dropguard"} => db.canonical = "correct"
      BY <1>0, <2>2, PreparationIsSafe, Zenon
    <3> HIDE DEF place
    <3>5. pc'[m] = place /\ UNCHANGED <<origin, rows, outcome, handoff>>
      BY <1>0, <3>1 DEF Goto, Same
    <3>6. FindingsHold(m)'
      BY <1>0, <3>1, <3>2, <3>5 DEF Sound, FindingsHold, Holding, Checked, Place
    <3>7. FindsNothingToDo(m)' /\ RefusesEarly(m)'
      BY <1>0, <3>1, <3>2, <3>5 DEF Sound, FindsNothingToDo, RefusesEarly, Holding
    <3>8. KeepsOneIndex(m)'
      BY <1>0, <3>1, <3>2, <3>5 DEF KeepsOneIndex, KeysWereUnique, Shared, OneIndexStands, Unique
    <3> QED
      BY <3>1, <3>2, <3>6, <3>7, <3>8, LookingOn DEF Place, Sound
  <2> QED
    BY <2>1, <2>2
<1>6. ASSUME BuildBegins(m) PROVE MigrationsInv'
  <2>1. pc[m] = "buildguard" /\ Goto(m, "building") /\ Same /\ db' = [db EXCEPT !.guard = "invalid"]
    BY <1>6 DEF BuildBegins
  <2>3. pc'[m] = "building" /\ UNCHANGED <<origin, rows, outcome, handoff>>
    BY <1>0, <2>1 DEF Goto, Same
  <2>4. /\ db' \in Database /\ db'.schema = db.schema /\ db'.legacy = db.legacy
        /\ db'.version = db.version /\ db'.dirty = db.dirty /\ db'.columns = db.columns
        /\ db'.constraint = db.constraint /\ db'.canonical = db.canonical
        /\ db'.guard = "invalid"
    BY <1>0, <2>1 DEF Database, Index
  <2>5. FindingsHold(m)'
    BY <1>0, <2>1, <2>3, <2>4 DEF Sound, FindingsHold, Holding, Checked, Place, Complete
  <2>6. KeepsOneIndex(m)' /\ (KeysWereUnique => db'.schema /\ db'.columns /\ Unique(db'))
    BY <1>0, <2>1, <2>3, <2>4 DEF Sound, KeepsOneIndex, KeysWereUnique, Unique,
          Shared, OneIndexStands, Database, Index
  <2>7. "ok" \notin outcome
    BY <1>0, <2>1 DEF Sound, FindsNothingToDo, Shared, SuccessIsLasting
  <2> QED
    BY <2>1, <2>4, <2>5, <2>6, <2>7, Rewriting DEF Checked, Place
<1>7. ASSUME BuildEnds(m) PROVE MigrationsInv'
  <2>1. CASE rows > 1
    BY <1>7, <2>1, RefusalIsSafe DEF BuildEnds
  <2>2. CASE ~(rows > 1)
    <3>1. pc[m] = "building" /\ Goto(m, "prepare") /\ Same /\ db' = [db EXCEPT !.guard = "correct"]
      BY <1>7, <2>2 DEF BuildEnds
    <3>3. pc'[m] = "prepare" /\ UNCHANGED <<origin, rows, outcome, handoff>>
      BY <1>0, <3>1 DEF Goto, Same
    <3>4. /\ db' \in Database /\ db'.schema = db.schema /\ db'.legacy = db.legacy
          /\ db'.version = db.version /\ db'.dirty = db.dirty /\ db'.columns = db.columns
          /\ db'.constraint = db.constraint /\ db'.canonical = db.canonical
          /\ db'.guard = "correct"
      BY <1>0, <3>1 DEF Database, Index
    <3>5. FindingsHold(m)'
      BY <1>0, <3>1, <2>2, <3>3, <3>4 DEF Sound, FindingsHold, Holding, Checked, Place, Complete
    <3>6. KeepsOneIndex(m)' /\ (KeysWereUnique => db'.schema /\ db'.columns /\ Unique(db'))
      BY <1>0, <3>1, <2>2, <3>3, <3>4 DEF Sound, KeepsOneIndex, KeysWereUnique, Unique,
            Shared, OneIndexStands, Database, Index
    <3>7. "ok" \notin outcome
      BY <1>0, <3>1, <2>2 DEF Sound, FindsNothingToDo, Shared, SuccessIsLasting
    <3> QED
      BY <3>1, <3>4, <3>5, <3>6, <3>7, Rewriting DEF Checked, Place
  <2> QED
    BY <2>1, <2>2
<1>8. ASSUME DropGuard(m) PROVE MigrationsInv'
  <2>1. pc[m] = "dropguard" /\ Goto(m, "up") /\ Same /\ db' = [db EXCEPT !.guard = "missing"]
    BY <1>8 DEF DropGuard
  <2>3. pc'[m] = "up" /\ UNCHANGED <<origin, rows, outcome, handoff>>
    BY <1>0, <2>1 DEF Goto, Same
  <2>4. /\ db' \in Database /\ db'.schema = db.schema /\ db'.legacy = db.legacy
        /\ db'.version = db.version /\ db'.dirty = db.dirty /\ db'.columns = db.columns
        /\ db'.constraint = db.constraint /\ db'.canonical = db.canonical
        /\ db'.guard = "missing"
    BY <1>0, <2>1 DEF Database, Index
  <2>5. FindingsHold(m)'
    BY <1>0, <2>1, <2>3, <2>4 DEF Sound, FindingsHold, Holding, Checked, Place, Complete
  <2>6. KeepsOneIndex(m)' /\ (KeysWereUnique => db'.schema /\ db'.columns /\ Unique(db'))
    BY <1>0, <2>1, <2>3, <2>4 DEF Sound, KeepsOneIndex, KeysWereUnique, Unique,
          Shared, OneIndexStands, Database, Index
  <2>7. "ok" \notin outcome
    BY <1>0, <2>1 DEF Sound, FindsNothingToDo, Shared, SuccessIsLasting
  <2> QED
    BY <2>1, <2>4, <2>5, <2>6, <2>7, Rewriting DEF Checked, Place
<1>9. ASSUME DropCanonical(m) PROVE MigrationsInv'
  <2> DEFINE place == IF db.guard = "correct" THEN "install" ELSE "prepare"
  <2>1. pc[m] = "dropcanonical" /\ Goto(m, place) /\ Same /\ db' = [db EXCEPT !.canonical = "missing"]
    BY <1>9 DEF DropCanonical
  <2>2. place \in {"install", "prepare"} /\ (place = "install" <=> db.guard = "correct")
    BY <1>0, <2>1 DEF Database, NilVersion
  <2> HIDE DEF place
  <2>3. pc'[m] = place /\ UNCHANGED <<origin, rows, outcome, handoff>>
    BY <1>0, <2>1 DEF Goto, Same
  <2>4. /\ db' \in Database /\ db'.schema = db.schema /\ db'.legacy = db.legacy
        /\ db'.version = db.version /\ db'.dirty = db.dirty /\ db'.columns = db.columns
        /\ db'.constraint = db.constraint /\ db'.canonical = "missing"
        /\ db'.guard = db.guard
    BY <1>0, <2>1 DEF Database, Index
  <2>5. FindingsHold(m)'
    BY <1>0, <2>1, <2>2, <2>3, <2>4 DEF Sound, FindingsHold, Holding, Checked, Place, Complete
  <2>6. KeepsOneIndex(m)' /\ (KeysWereUnique => db'.schema /\ db'.columns /\ Unique(db'))
    BY <1>0, <2>1, <2>2, <2>3, <2>4 DEF Sound, KeepsOneIndex, KeysWereUnique, Unique,
          Shared, OneIndexStands, Database, Index
  <2>7. "ok" \notin outcome
    BY <1>0, <2>1 DEF Sound, FindsNothingToDo, Shared, SuccessIsLasting
  <2> QED
    BY <2>1, <2>2, <2>4, <2>5, <2>6, <2>7, Rewriting DEF Checked, Place
<1>10. ASSUME Install(m) PROVE MigrationsInv'
  <2>1. CASE db.guard = "missing" \/ db.canonical # "missing"
    BY <1>10, <2>1, RefusalIsSafe DEF Install
  <2>2. CASE ~(db.guard = "missing" \/ db.canonical # "missing")
    <3>1. pc[m] = "install" /\ Goto(m, "up") /\ Same /\ db' = [db EXCEPT !.canonical = db.guard, !.guard = "missing"]
      BY <1>10, <2>2 DEF Install
    <3>3. pc'[m] = "up" /\ UNCHANGED <<origin, rows, outcome, handoff>>
      BY <1>0, <3>1 DEF Goto, Same
    <3>4. /\ db' \in Database /\ db'.schema = db.schema /\ db'.legacy = db.legacy
          /\ db'.version = db.version /\ db'.dirty = db.dirty /\ db'.columns = db.columns
          /\ db'.constraint = db.constraint /\ db'.canonical = db.guard
          /\ db'.guard = "missing"
      BY <1>0, <3>1 DEF Database, Index
    <3>5. FindingsHold(m)'
      BY <1>0, <3>1, <2>2, <3>3, <3>4 DEF Sound, FindingsHold, Holding, Checked, Place, Complete
    <3>6. KeepsOneIndex(m)' /\ (KeysWereUnique => db'.schema /\ db'.columns /\ Unique(db'))
      BY <1>0, <3>1, <2>2, <3>3, <3>4 DEF Sound, KeepsOneIndex, KeysWereUnique, Unique,
            Shared, OneIndexStands, Database, Index
    <3>7. "ok" \notin outcome
      BY <1>0, <3>1, <2>2 DEF Sound, FindsNothingToDo, Shared, SuccessIsLasting
    <3> QED
      BY <3>1, <3>4, <3>5, <3>6, <3>7, Rewriting DEF Checked, Place
  <2> QED
    BY <2>1, <2>2
<1>11. ASSUME Up(m) PROVE MigrationsInv'
  <2>1. CASE db.dirty
    BY <1>11, <2>1, RefusalIsSafe DEF Up
  <2>2. CASE ~db.dirty /\ db.version = latest
    <3>1. pc[m] = "up" /\ Goto(m, "verify") /\ UNCHANGED db /\ Same
      BY <1>11, <2>2 DEF Up
    <3>2. pc'[m] = "verify" /\ UNCHANGED <<origin, rows, outcome, handoff>>
      BY <1>0, <3>1 DEF Goto, Same
    <3>3. FindingsHold(m)' /\ KeepsOneIndex(m)'
      BY <1>0, <2>2, <3>1, <3>2 DEF Sound, FindingsHold, KeepsOneIndex, Holding
    <3>4. FindsNothingToDo(m)' /\ RefusesEarly(m)'
      BY <1>0, <3>1, <3>2 DEF Sound, FindsNothingToDo, RefusesEarly, Holding
    <3> QED
      BY <3>1, <3>3, <3>4, LookingOn DEF Place, Sound
  <2>3. CASE ~db.dirty /\ db.version # latest
    <3> DEFINE v == IF db.version = NilVersion THEN 1 ELSE db.version + 1
               place == IF db.version = NilVersion THEN "initial" ELSE "columns"
    <3>0. db' = [db EXCEPT !.version = v, !.dirty = TRUE]
      BY <1>11, <2>3, Zenon DEF Up
    <3>1. pc[m] = "up" /\ Goto(m, place) /\ Same
      BY <1>11, <2>3 DEF Up
    <3>2. /\ v \in {1, 2} /\ place \in {"initial", "columns"}
          /\ place = "columns" => db.version = 1
      BY <1>0, <2>3, <3>1 DEF Sound, FindingsHold, Checked, Place, Database, NilVersion
    <3>3. v \in {NilVersion} \cup 1..99
      BY <3>2
    <3> HIDE DEF v, place
    <3>4. /\ db' \in Database /\ db'.version = v /\ db'.schema = db.schema
          /\ db'.legacy = db.legacy /\ db'.columns = db.columns
          /\ db'.canonical = db.canonical /\ db'.guard = db.guard
      <4>1. db' \in Database
        BY <1>0, <3>0, <3>3, Zenon DEF Database
      <4>2. db'.version = v /\ db'.schema = db.schema /\ db'.legacy = db.legacy
        BY <1>0, <3>0, Zenon DEF Database
      <4>3. db'.columns = db.columns /\ db'.canonical = db.canonical /\ db'.guard = db.guard
        BY <1>0, <3>0, Zenon DEF Database
      <4> QED
        BY <4>1, <4>2, <4>3, Zenon
    <3>5. pc'[m] = place /\ UNCHANGED <<origin, rows, outcome, handoff>>
      BY <1>0, <3>1 DEF Goto, Same
    <3>6. FindingsHold(m)'
      BY <1>0, <3>1, <3>2, <3>4, <3>5 DEF Sound, FindingsHold, Holding, Checked, Place
    <3>7. KeepsOneIndex(m)' /\ (KeysWereUnique => db'.schema /\ db'.columns /\ Unique(db'))
      BY <1>0, <3>1, <3>2, <3>4, <3>5 DEF Sound, KeepsOneIndex, KeysWereUnique, Unique,
            Shared, OneIndexStands
    <3>8. "ok" \notin outcome
      BY <1>0, <2>3 DEF Shared, SuccessIsLasting
    <3> QED
      BY <3>1, <3>2, <3>4, <3>6, <3>7, <3>8, Rewriting DEF Checked, Place
  <2> QED
    BY <2>1, <2>2, <2>3
<1>12. ASSUME InitialSchema(m) PROVE MigrationsInv'
  <2>1. CASE db.schema
    BY <1>12, <2>1, RefusalIsSafe DEF InitialSchema
  <2>2. CASE ~(db.schema)
    <3>0. db' = [db EXCEPT !.schema = TRUE]
      BY <1>12, <2>2, Zenon DEF InitialSchema
    <3>1. pc[m] = "initial" /\ Goto(m, "clean") /\ Same
      BY <1>12, <2>2 DEF InitialSchema
    <3>3. pc'[m] = "clean" /\ UNCHANGED <<origin, rows, outcome, handoff>>
      BY <1>0, <3>1 DEF Goto, Same
    <3>4. /\ db' \in Database /\ db'.schema /\ db'.legacy = db.legacy
          /\ db'.version = db.version /\ db'.dirty = db.dirty /\ db'.columns = db.columns
          /\ db'.constraint = db.constraint /\ db'.canonical = db.canonical
          /\ db'.guard = db.guard
      <4>1. db'.schema
        BY <1>0, <3>0, Zenon DEF Database
      <4>2. db'.dirty = db.dirty /\ db'.columns = db.columns
        BY <1>0, <3>0, Zenon DEF Database
      <4> QED
        BY <1>0, <3>0, <4>1, <4>2, FlagsWritten, Zenon
    <3>5. FindingsHold(m)'
      BY <1>0, <3>1, <2>2, <3>3, <3>4 DEF Sound, FindingsHold, Holding, Checked, Place, Complete
    <3>6. KeepsOneIndex(m)' /\ (KeysWereUnique => db'.schema /\ db'.columns /\ Unique(db'))
      BY <1>0, <3>1, <2>2, <3>3, <3>4 DEF Sound, KeepsOneIndex, KeysWereUnique, Unique,
            Shared, OneIndexStands, Database, Index
    <3>7. "ok" \notin outcome
      BY <1>0, <3>1, <2>2 DEF Sound, FindsNothingToDo, Shared, SuccessIsLasting
    <3> QED
      BY <3>1, <3>4, <3>5, <3>6, <3>7, Rewriting DEF Checked, Place
  <2> QED
    BY <2>1, <2>2
<1>13. ASSUME AddColumns(m) PROVE MigrationsInv'
  <2>0. db' = [db EXCEPT !.columns = TRUE]
    BY <1>13, Zenon DEF AddColumns
  <2>1. pc[m] = "columns" /\ Goto(m, "constraint") /\ Same
    BY <1>13 DEF AddColumns
  <2>3. pc'[m] = "constraint" /\ UNCHANGED <<origin, rows, outcome, handoff>>
    BY <1>0, <2>1 DEF Goto, Same
  <2>4. /\ db' \in Database /\ db'.schema = db.schema /\ db'.legacy = db.legacy
        /\ db'.version = db.version /\ db'.dirty = db.dirty /\ db'.columns
        /\ db'.constraint = db.constraint /\ db'.canonical = db.canonical
        /\ db'.guard = db.guard
    <3>1. db'.columns
      BY <1>0, <2>0, Zenon DEF Database
    <3>2. db'.dirty = db.dirty /\ db'.schema = db.schema
      BY <1>0, <2>0, Zenon DEF Database
    <3> QED
      BY <1>0, <2>0, <3>1, <3>2, FlagsWritten, Zenon
  <2>5. FindingsHold(m)'
    BY <1>0, <2>1, <2>3, <2>4 DEF Sound, FindingsHold, Holding, Checked, Place, Complete
  <2>6. KeepsOneIndex(m)' /\ (KeysWereUnique => db'.schema /\ db'.columns /\ Unique(db'))
    BY <1>0, <2>1, <2>3, <2>4 DEF Sound, KeepsOneIndex, KeysWereUnique, Unique,
          Shared, OneIndexStands, Database, Index
  <2>7. "ok" \notin outcome
    BY <1>0, <2>1 DEF Sound, FindsNothingToDo, Shared, SuccessIsLasting
  <2> QED
    BY <2>1, <2>4, <2>5, <2>6, <2>7, Rewriting DEF Checked, Place
<1>14. ASSUME AddConstraint(m) PROVE MigrationsInv'
  <2> DEFINE place == IF db.canonical = "missing" THEN "index" ELSE "validate"
  <2>1. pc[m] = "constraint" /\ Goto(m, place) /\ Same /\ db' = [db EXCEPT !.constraint = "unvalidated"]
    BY <1>14 DEF AddConstraint
  <2>2. place \in {"index", "validate"} /\ (place = "index" <=> db.canonical = "missing")
    BY <1>0, <2>1 DEF Database, NilVersion
  <2> HIDE DEF place
  <2>3. pc'[m] = place /\ UNCHANGED <<origin, rows, outcome, handoff>>
    BY <1>0, <2>1 DEF Goto, Same
  <2>4. /\ db' \in Database /\ db'.schema = db.schema /\ db'.legacy = db.legacy
        /\ db'.version = db.version /\ db'.dirty = db.dirty /\ db'.columns = db.columns
        /\ db'.constraint = "unvalidated" /\ db'.canonical = db.canonical
        /\ db'.guard = db.guard
    BY <1>0, <2>1 DEF Database, Index
  <2>5. FindingsHold(m)'
    BY <1>0, <2>1, <2>2, <2>3, <2>4 DEF Sound, FindingsHold, Holding, Checked, Place, Complete
  <2>6. KeepsOneIndex(m)' /\ (KeysWereUnique => db'.schema /\ db'.columns /\ Unique(db'))
    BY <1>0, <2>1, <2>2, <2>3, <2>4 DEF Sound, KeepsOneIndex, KeysWereUnique, Unique,
          Shared, OneIndexStands, Database, Index
  <2>7. "ok" \notin outcome
    BY <1>0, <2>1 DEF Sound, FindsNothingToDo, Shared, SuccessIsLasting
  <2> QED
    BY <2>1, <2>2, <2>4, <2>5, <2>6, <2>7, Rewriting DEF Checked, Place
<1>15. ASSUME CreateIndex(m) PROVE MigrationsInv'
  <2>1. pc[m] = "index" /\ Goto(m, "indexing") /\ Same /\ db' = [db EXCEPT !.canonical = "invalid"]
    BY <1>15 DEF CreateIndex
  <2>3. pc'[m] = "indexing" /\ UNCHANGED <<origin, rows, outcome, handoff>>
    BY <1>0, <2>1 DEF Goto, Same
  <2>4. /\ db' \in Database /\ db'.schema = db.schema /\ db'.legacy = db.legacy
        /\ db'.version = db.version /\ db'.dirty = db.dirty /\ db'.columns = db.columns
        /\ db'.constraint = db.constraint /\ db'.canonical = "invalid"
        /\ db'.guard = db.guard
    BY <1>0, <2>1 DEF Database, Index
  <2>5. FindingsHold(m)'
    BY <1>0, <2>1, <2>3, <2>4 DEF Sound, FindingsHold, Holding, Checked, Place, Complete
  <2>6. KeepsOneIndex(m)' /\ (KeysWereUnique => db'.schema /\ db'.columns /\ Unique(db'))
    BY <1>0, <2>1, <2>3, <2>4 DEF Sound, KeepsOneIndex, KeysWereUnique, Unique,
          Shared, OneIndexStands, Database, Index
  <2>7. "ok" \notin outcome
    BY <1>0, <2>1 DEF Sound, FindsNothingToDo, Shared, SuccessIsLasting
  <2> QED
    BY <2>1, <2>4, <2>5, <2>6, <2>7, Rewriting DEF Checked, Place
<1>16. ASSUME IndexDone(m) PROVE MigrationsInv'
  <2>1. CASE rows > 1
    BY <1>16, <2>1, RefusalIsSafe DEF IndexDone
  <2>2. CASE ~(rows > 1)
    <3>1. pc[m] = "indexing" /\ Goto(m, "validate") /\ Same /\ db' = [db EXCEPT !.canonical = "correct"]
      BY <1>16, <2>2 DEF IndexDone
    <3>3. pc'[m] = "validate" /\ UNCHANGED <<origin, rows, outcome, handoff>>
      BY <1>0, <3>1 DEF Goto, Same
    <3>4. /\ db' \in Database /\ db'.schema = db.schema /\ db'.legacy = db.legacy
          /\ db'.version = db.version /\ db'.dirty = db.dirty /\ db'.columns = db.columns
          /\ db'.constraint = db.constraint /\ db'.canonical = "correct"
          /\ db'.guard = db.guard
      BY <1>0, <3>1 DEF Database, Index
    <3>5. FindingsHold(m)'
      BY <1>0, <3>1, <2>2, <3>3, <3>4 DEF Sound, FindingsHold, Holding, Checked, Place, Complete
    <3>6. KeepsOneIndex(m)' /\ (KeysWereUnique => db'.schema /\ db'.columns /\ Unique(db'))
      BY <1>0, <3>1, <2>2, <3>3, <3>4 DEF Sound, KeepsOneIndex, KeysWereUnique, Unique,
            Shared, OneIndexStands, Database, Index
    <3>7. "ok" \notin outcome
      BY <1>0, <3>1, <2>2 DEF Sound, FindsNothingToDo, Shared, SuccessIsLasting
    <3> QED
      BY <3>1, <3>4, <3>5, <3>6, <3>7, Rewriting DEF Checked, Place
  <2> QED
    BY <2>1, <2>2
<1>17. ASSUME ValidateConstraint(m) PROVE MigrationsInv'
  <2>1. pc[m] = "validate" /\ Goto(m, "clean") /\ Same /\ db' = [db EXCEPT !.constraint = "valid"]
    BY <1>17 DEF ValidateConstraint
  <2>3. pc'[m] = "clean" /\ UNCHANGED <<origin, rows, outcome, handoff>>
    BY <1>0, <2>1 DEF Goto, Same
  <2>4. /\ db' \in Database /\ db'.schema = db.schema /\ db'.legacy = db.legacy
        /\ db'.version = db.version /\ db'.dirty = db.dirty /\ db'.columns = db.columns
        /\ db'.constraint = "valid" /\ db'.canonical = db.canonical
        /\ db'.guard = db.guard
    BY <1>0, <2>1 DEF Database, Index
  <2>5. FindingsHold(m)'
    BY <1>0, <2>1, <2>3, <2>4 DEF Sound, FindingsHold, Holding, Checked, Place, Complete
  <2>6. KeepsOneIndex(m)' /\ (KeysWereUnique => db'.schema /\ db'.columns /\ Unique(db'))
    BY <1>0, <2>1, <2>3, <2>4 DEF Sound, KeepsOneIndex, KeysWereUnique, Unique,
          Shared, OneIndexStands, Database, Index
  <2>7. "ok" \notin outcome
    BY <1>0, <2>1 DEF Sound, FindsNothingToDo, Shared, SuccessIsLasting
  <2> QED
    BY <2>1, <2>4, <2>5, <2>6, <2>7, Rewriting DEF Checked, Place
<1>18. ASSUME MarkClean(m) PROVE MigrationsInv'
  <2>0. db' = [db EXCEPT !.dirty = FALSE]
    BY <1>18, Zenon DEF MarkClean
  <2>1. pc[m] = "clean" /\ Goto(m, "up") /\ Same
    BY <1>18 DEF MarkClean
  <2>3. pc'[m] = "up" /\ UNCHANGED <<origin, rows, outcome, handoff>>
    BY <1>0, <2>1 DEF Goto, Same
  <2>4. /\ db' \in Database /\ db'.schema = db.schema /\ db'.legacy = db.legacy
        /\ db'.version = db.version /\ ~db'.dirty /\ db'.columns = db.columns
        /\ db'.constraint = db.constraint /\ db'.canonical = db.canonical
        /\ db'.guard = db.guard
    <3>1. ~db'.dirty
      BY <1>0, <2>0, Zenon DEF Database
    <3>2. db'.schema = db.schema /\ db'.columns = db.columns
      BY <1>0, <2>0, Zenon DEF Database
    <3> QED
      BY <1>0, <2>0, <3>1, <3>2, FlagsWritten, Zenon
  <2>5. FindingsHold(m)'
    BY <1>0, <2>1, <2>3, <2>4 DEF Sound, FindingsHold, Holding, Checked, Place, Complete
  <2>6. KeepsOneIndex(m)' /\ (KeysWereUnique => db'.schema /\ db'.columns /\ Unique(db'))
    BY <1>0, <2>1, <2>3, <2>4 DEF Sound, KeepsOneIndex, KeysWereUnique, Unique,
          Shared, OneIndexStands, Database, Index
  <2>7. "ok" \notin outcome
    BY <1>0, <2>1 DEF Sound, FindsNothingToDo, Shared, SuccessIsLasting
  <2> QED
    BY <2>1, <2>4, <2>5, <2>6, <2>7, Rewriting DEF Checked, Place
<1>19. ASSUME Verify(m) PROVE MigrationsInv'
  <2>1. CASE ~Complete(db)
    BY <1>19, <2>1, RefusalIsSafe DEF Verify
  <2>2. CASE Complete(db)
    <3> DEFINE place == IF handoff[m] THEN "dropledger" ELSE "success"
    <3>1. pc[m] = "verify" /\ Goto(m, place) /\ UNCHANGED db /\ Same
      BY <1>19, <2>2 DEF Verify
    <3>2. place \in {"dropledger", "success"} /\ (place = "success" <=> ~handoff[m])
      BY <1>0
    <3> HIDE DEF place
    <3>3. pc'[m] = place /\ UNCHANGED <<origin, rows, outcome, handoff>>
      BY <1>0, <3>1 DEF Goto, Same
    <3>4. FindingsHold(m)'
      <4>1. Complete(db')
        BY <2>2, <3>1
      <4> QED
        BY <1>0, <3>1, <3>2, <3>3, <4>1 DEF Sound, FindingsHold, Holding, Checked, Place
    <3>5. FindsNothingToDo(m)' /\ RefusesEarly(m)' /\ KeepsOneIndex(m)'
      BY <1>0, <3>1, <3>2, <3>3 DEF Sound, FindsNothingToDo, RefusesEarly, KeepsOneIndex, Holding
    <3> QED
      BY <3>1, <3>2, <3>4, <3>5, LookingOn DEF Place, Sound
  <2> QED
    BY <2>1, <2>2
<1>20. ASSUME DropLegacyLedger(m) PROVE MigrationsInv'
  <2>1. CASE db.legacy = "none"
    BY <1>20, <2>1, RefusalIsSafe DEF DropLegacyLedger
  <2>2. CASE ~(db.legacy = "none")
    <3>1. pc[m] = "dropledger" /\ Goto(m, "success") /\ Same /\ db' = [db EXCEPT !.legacy = "none"]
      BY <1>20, <2>2 DEF DropLegacyLedger
    <3>3. pc'[m] = "success" /\ UNCHANGED <<origin, rows, outcome, handoff>>
      BY <1>0, <3>1 DEF Goto, Same
    <3>4. /\ db' \in Database /\ db'.schema = db.schema /\ db'.legacy = "none"
          /\ db'.version = db.version /\ db'.dirty = db.dirty /\ db'.columns = db.columns
          /\ db'.constraint = db.constraint /\ db'.canonical = db.canonical
          /\ db'.guard = db.guard
      BY <1>0, <3>1 DEF Database, Index
    <3>5. FindingsHold(m)'
      BY <1>0, <3>1, <2>2, <3>3, <3>4 DEF Sound, FindingsHold, Holding, Checked, Place, Complete
    <3>6. KeepsOneIndex(m)' /\ (KeysWereUnique => db'.schema /\ db'.columns /\ Unique(db'))
      BY <1>0, <3>1, <2>2, <3>3, <3>4 DEF Sound, KeepsOneIndex, KeysWereUnique, Unique,
            Shared, OneIndexStands, Database, Index
    <3>7. "ok" \notin outcome
      BY <1>0, <3>1, <2>2 DEF Sound, FindsNothingToDo, Shared, SuccessIsLasting
    <3> QED
      BY <3>1, <3>4, <3>5, <3>6, <3>7, Rewriting DEF Checked, Place
  <2> QED
    BY <2>1, <2>2
<1>21. ASSUME Succeed(m) PROVE MigrationsInv'
  <2>1. /\ pc[m] = "success" /\ pc' = [pc EXCEPT ![m] = "idle"] /\ lock' = lock \ {m}
        /\ handoff' = [handoff EXCEPT ![m] = FALSE]
        /\ outcome' = outcome \cup {"ok"} /\ UNCHANGED <<origin, db, rows>>
    BY <1>21 DEF Succeed, Return
  <2>2. TypeOK'
    <3>1. handoff' \in [Migrator -> BOOLEAN]
      BY <1>0, <2>1, Zenon
    <3> QED
      BY <2>1, <3>1 DEF MigrationsInv, TypeOK, Place
  <2>3. Shared'
    BY <1>0, <2>1 DEF Sound, FindingsHold, Shared, OneIndexStands, SuccessIsLasting,
          UnsupportedIsUntouched, NoGapInUniqueness, KeysWereUnique, Unique, Complete
  <2>4. Sound(m)'
    BY <1>0, <2>1 DEF Sound, FindingsHold, FindsNothingToDo, RefusesEarly, KeepsOneIndex,
          Holding, Checked
  <2> QED
    BY <2>1, <2>2, <2>3, <2>4, HolderSteps DEF Place
<1>22. ~acquireMigrationLock(m)
  BY DEF Holding, acquireMigrationLock
<1> QED
  BY <1>1, <1>2, <1>3, <1>4, <1>5, <1>6, <1>7, <1>8, <1>9, <1>10, <1>11, <1>12, <1>13, <1>14,
     <1>15, <1>16, <1>17, <1>18, <1>19, <1>20, <1>21, <1>22 DEF Step

\* A migrator without the lock learns nothing and changes nothing.
LEMMA WaitingIsSafe ==
    ASSUME MigrationsInv, NEW m \in Migrator, ~Holding(m), NEW place \in {"idle", "lock"},
           pc' = [pc EXCEPT ![m] = place], handoff' \in [Migrator -> BOOLEAN],
           \A p \in Migrator \ {m} : handoff'[p] = handoff[p],
           lock' = lock \/ lock' = lock \ {m}, UNCHANGED <<origin, db, rows, outcome>>
    PROVE  MigrationsInv'
<1>1. /\ pc'[m] = place /\ \A p \in Migrator \ {m} : pc'[p] = pc[p] /\ handoff'[p] = handoff[p]
  BY DEF MigrationsInv, TypeOK
<1>2. TypeOK'
  BY DEF MigrationsInv, TypeOK, Place
<1>3. LockIsExclusive'
  BY <1>1 DEF MigrationsInv, LockIsExclusive, Holding
<1>4. Sound(m)'
  BY <1>1 DEF Sound, FindingsHold, FindsNothingToDo, RefusesEarly, KeepsOneIndex, Holding, Checked
<1>5. ASSUME NEW p \in Migrator \ {m} PROVE Sound(p)'
  <2>1. Sound(p) /\ pc'[p] = pc[p] /\ handoff'[p] = handoff[p]
    BY <1>1 DEF MigrationsInv
  <2> QED
    BY <2>1 DEF Sound, FindingsHold, FindsNothingToDo, RefusesEarly, KeepsOneIndex, Holding,
                Complete, KeysWereUnique
<1>6. Shared'
  BY DEF MigrationsInv, Shared, OneIndexStands, SuccessIsLasting, UnsupportedIsUntouched,
         NoGapInUniqueness, KeysWereUnique, Unique, Complete
<1> QED
  BY <1>2, <1>3, <1>4, <1>5, <1>6 DEF MigrationsInv

\* The invariant holds at the start.
LEMMA InitSafe == Init => MigrationsInv
<1> SUFFICES ASSUME Init PROVE MigrationsInv
  OBVIOUS
<1>1. /\ origin \in DOMAIN Origin /\ db = Origin[origin] /\ db \in Database /\ Coherent(db)
      /\ rows = 0 /\ pc = [m \in Migrator |-> "idle"] /\ outcome = {}
  BY MigrationsAssumption DEF Init
<1>2. handoff \in [Migrator -> BOOLEAN]
  BY Zenon DEF Init
<1>3. TypeOK /\ LockIsExclusive
  BY <1>1, <1>2 DEF TypeOK, Place, LockIsExclusive, Holding
<1>4. \A m \in Migrator : Sound(m)
  BY <1>1 DEF Sound, FindingsHold, FindsNothingToDo, RefusesEarly, KeepsOneIndex, Holding, Checked
<1>5. Shared
  BY <1>1 DEF Shared, OneIndexStands, SuccessIsLasting, UnsupportedIsUntouched,
              NoGapInUniqueness, KeysWereUnique, Coherent
<1> QED
  BY <1>3, <1>4, <1>5 DEF MigrationsInv

\* Every step keeps the invariant.
LEMMA NextSafe == MigrationsInv /\ [Next]_vars => MigrationsInv'
<1> SUFFICES ASSUME MigrationsInv, [Next]_vars PROVE MigrationsInv'
  OBVIOUS
<1>1. ASSUME NEW m \in Migrator, Start(m) PROVE MigrationsInv'
  BY <1>1, WaitingIsSafe DEF Start, Holding, MigrationsInv, TypeOK
<1>2. ASSUME NEW m \in Migrator, Step(m), Holding(m) PROVE MigrationsInv'
  BY <1>2, StepsOfTheHolder
<1>3. ASSUME NEW m \in Migrator, acquireMigrationLock(m) PROVE MigrationsInv'
  <2>1. /\ pc[m] = "lock" /\ lock = {} /\ lock' = {m} /\ pc' = [pc EXCEPT ![m] = "inspect"]
        /\ UNCHANGED <<origin, db, rows, handoff, outcome>>
    BY <1>3 DEF acquireMigrationLock, LockFree
  <2>2. \A p \in Migrator : ~Holding(p)
    BY <2>1 DEF MigrationsInv, LockIsExclusive
  <2>3. pc'[m] = "inspect" /\ \A p \in Migrator \ {m} : pc'[p] = pc[p] /\ pc[p] \in {"idle", "lock"}
    BY <2>1, <2>2 DEF MigrationsInv, TypeOK, Holding
  <2>4. TypeOK' /\ LockIsExclusive'
    BY <2>1, <2>3 DEF MigrationsInv, TypeOK, Place, LockIsExclusive, Holding
  <2>5. \A p \in Migrator : Sound(p)'
    BY <2>1, <2>3 DEF Sound, FindingsHold, FindsNothingToDo, RefusesEarly, KeepsOneIndex,
          Holding, Checked
  <2>6. Shared'
    BY <2>1 DEF MigrationsInv, Shared, OneIndexStands, SuccessIsLasting, UnsupportedIsUntouched,
                NoGapInUniqueness, KeysWereUnique, Unique, Complete
  <2> QED
    BY <2>4, <2>5, <2>6 DEF MigrationsInv
<1>4. ASSUME NEW m \in Migrator, Crash(m) PROVE MigrationsInv'
  <2>1. /\ pc' = [pc EXCEPT ![m] = "idle"] /\ lock' = lock \ {m}
        /\ handoff' = [handoff EXCEPT ![m] = FALSE] /\ UNCHANGED <<origin, db, rows, outcome>>
    BY <1>4 DEF Crash
  <2>2. handoff' \in [Migrator -> BOOLEAN] /\ \A p \in Migrator \ {m} : handoff'[p] = handoff[p]
    BY <2>1, Zenon DEF MigrationsInv, TypeOK
  <2>3. CASE ~Holding(m)
    BY <2>1, <2>2, <2>3, WaitingIsSafe
  <2>4. CASE Holding(m)
    <3>1. TypeOK'
      BY <2>1, <2>2 DEF MigrationsInv, TypeOK, Place
    <3>2. Sound(m)'
      BY <2>1 DEF MigrationsInv, TypeOK, Sound, FindingsHold, FindsNothingToDo, RefusesEarly,
                  KeepsOneIndex, Holding, Checked
    <3>3. Shared'
      BY <2>1 DEF MigrationsInv, Shared, OneIndexStands, SuccessIsLasting, UnsupportedIsUntouched,
                  NoGapInUniqueness, KeysWereUnique, Unique, Complete
    <3> QED
      BY <2>1, <2>4, <3>1, <3>2, <3>3, HolderSteps DEF Place
  <2> QED
    BY <2>3, <2>4
<1>5. ASSUME OldServerInserts PROVE MigrationsInv'
  <2>1. /\ Origin[origin].columns /\ (rows = 0 \/ ~Unique(db)) /\ rows' = rows + 1
        /\ UNCHANGED <<origin, db, lock, pc, handoff, outcome>>
    BY <1>5 DEF OldServerInserts
  <2>2. TypeOK' /\ LockIsExclusive' /\ \A m \in Migrator : Sound(m)'
    BY <2>1 DEF MigrationsInv, TypeOK, LockIsExclusive, Sound, FindingsHold, FindsNothingToDo,
                RefusesEarly, KeepsOneIndex, Holding, Complete, KeysWereUnique
  <2>3. OneIndexStands' /\ NoGapInUniqueness'
    BY <2>1 DEF MigrationsInv, Shared, OneIndexStands, NoGapInUniqueness, KeysWereUnique, Unique
  <2>4. SuccessIsLasting' /\ UnsupportedIsUntouched'
    BY <2>1 DEF MigrationsInv, Shared, SuccessIsLasting, UnsupportedIsUntouched, Complete
  <2> QED
    BY <2>2, <2>3, <2>4 DEF MigrationsInv, Shared
<1>6. CASE UNCHANGED vars
  BY <1>6 DEF vars, MigrationsInv, TypeOK, LockIsExclusive, Sound, FindingsHold, FindsNothingToDo,
              RefusesEarly, KeepsOneIndex, Holding, Complete, KeysWereUnique, Shared,
              OneIndexStands, NoGapInUniqueness, Unique, SuccessIsLasting, UnsupportedIsUntouched
<1>7. ASSUME NEW m \in Migrator, Step(m) PROVE Holding(m) \/ acquireMigrationLock(m)
  BY <1>7 DEF Step, Holding, Inspect, OpenDriver, prepareLegacyHandoff, ReadVersion, Prepare,
              BuildBegins, BuildEnds, DropGuard, DropCanonical, Install, Up, InitialSchema,
              AddColumns, AddConstraint, CreateIndex, IndexDone, ValidateConstraint, MarkClean,
              Verify, DropLegacyLedger, Succeed
<1> QED
  BY <1>1, <1>2, <1>3, <1>4, <1>5, <1>6, <1>7 DEF Next

-----------------------------------------------------------------------------

\* The invariant holds of every reachable state.
THEOREM MigrationsInvariant == Spec => []MigrationsInv
  BY InitSafe, NextSafe, PTL DEF Spec

\* What Migrate reports is true for good: once a migrator returned nil the schema is and
\* stays complete at the latest version with the old ledger gone, whatever the others do
\* or die at, and a database that Migrate does not support is never touched.
THEOREM OutcomeIsTrueAlways == Spec => []OutcomeIsTrue
<1>1. MigrationsInv => OutcomeIsTrue
  BY DEF MigrationsInv, Shared, OutcomeIsTrue
<1> QED
  BY <1>1, MigrationsInvariant, PTL

\* A database whose submission keys an index made unique keeps them unique: whenever a
\* server inserts while prepareSubmissionIndex replaces that index, one stands.
THEOREM NoGapInUniquenessAlways == Spec => []NoGapInUniqueness
<1>1. MigrationsInv => NoGapInUniqueness
  BY DEF MigrationsInv, Shared
<1> QED
  BY <1>1, MigrationsInvariant, PTL
=============================================================================
