---------------------------- MODULE CommitRepair ----------------------------
(***************************************************************************)
(* "conbench admin repair-commits" (internal/commitrepair, cmd/conbench/   *)
(* admin.go): the operator walks the rows without metadata page by page,   *)
(* every page a process with a backfiller of its own, while other          *)
(* processes submit and repair. The backfiller lives in the server or in   *)
(* one such process. A candidate is its position in the scan's order.      *)
(***************************************************************************)
EXTENDS Backfiller

CONSTANTS
    ScanOrder,          \* every row, in (repository, sha) order: <<repo, commit>>
    Limit,
    MaxPages, MaxOthers     \* bounds: pages of the walk, other processes' writes

ASSUME RepairAssumption ==
    /\ Limit \in Nat \ {0} /\ MaxPages \in Nat /\ MaxOthers \in Nat
    /\ Limit <= MaxCalls       \* the windows of a page have job ids
    /\ ScanOrder \in Seq(Repos \X Commits)
    /\ \A i \in DOMAIN ScanOrder : ScanOrder[i][2] \in Benchmarked[ScanOrder[i][1]]

VARIABLES
    repair,     \* the process: its place, options, page and summary
    filled,     \* history: row -> how often its metadata was written after the insert
    walk,       \* history: the rows the walk owes, and whether it is whole
    pages, others

repairVars == <<repair, filled, walk, pages, others>>
queue == <<state, jobs, worker, wg, ran>>
allVars == <<vars, repairVars>>

NoTally == [scanned |-> 0, repaired |-> 0, would |-> 0, unsupported |-> 0, failed |-> 0,
            already |-> 0, enqueued |-> 0, wouldBackfill |-> 0]

NoRun(place) == [pc |-> place, dry |-> FALSE, backfill |-> FALSE, todo |-> {},
                 next |-> 0, mine |-> {}, tally |-> NoTally]

Rows == {ScanOrder[i] : i \in DOMAIN ScanOrder}
IsUnknown(row) == row[2] \in unknown[row[1]]

RepairInit ==
    /\ Init
    /\ repair \in {NoRun("server"), NoRun("start")}
    /\ filled = [row \in Rows |-> 0]
    /\ walk = [owed |-> {}, whole |-> TRUE] /\ pages = 0 /\ others = 0

-----------------------------------------------------------------------------
(* Run *)

\* SelectUnknownCommitRepairCandidates: the rows after the cursor that still have none.
Candidates(after) == {i \in DOMAIN ScanOrder : after < i /\ IsUnknown(ScanOrder[i])}

\* A page inspects the first of them.
Page(found) == {i \in found : Cardinality({j \in found : j < i}) < Limit}

\* Mutant: the cursor is the extra candidate, which the next page then starts after.
ExtraCandidate(found) == Min(found \ Page(found))

\* The cursor names the last row inspected.
NextCursor(found) == Max(Page(found))

Begin(dry, backfill) ==
    /\ repair.pc = "start" /\ pages < MaxPages /\ pages' = pages + 1
    /\ LET found == Candidates(repair.next) IN
       /\ repair' = [NoRun("row") EXCEPT
              !.dry = dry, !.backfill = backfill, !.todo = Page(found),
              !.next = IF Page(found) # found THEN NextCursor(found) ELSE 0]
       /\ walk' = IF repair.next = 0
                  THEN [owed |-> {row \in Rows : IsUnknown(row)}, whole |-> ~dry]
                  ELSE [walk EXCEPT !.whole = @ /\ ~dry]
    /\ UNCHANGED <<vars, filled, others>>

\* The row that is inspected.
Current == ScanOrder[Min(repair.todo)]

\* On to the next row, with what became of this one.
Counted(counter) == [repair.tally EXCEPT !.scanned = @ + 1, ![counter] = @ + 1]
Tally(counter) == [repair EXCEPT !.tally = Counted(counter), !.todo = @ \ {Min(@)}]

RowUnsupported ==
    /\ repair.pc = "row" /\ repair.todo # {} /\ Current[1] \in Unsupported
    /\ repair' = Tally("unsupported")
    /\ UNCHANGED <<vars, filled, walk, pages, others>>

\* An error of GitHub's, or metadata without a timestamp or fork point.
RowFails ==
    /\ repair.pc = "row" /\ repair.todo # {} /\ Current[1] \notin Unsupported
    /\ faults < MaxFaults /\ faults' = faults + 1
    /\ repair' = Tally("failed") /\ walk' = [walk EXCEPT !.whole = FALSE]
    /\ UNCHANGED <<queue, lifecycle, tracked, unknown, asked, hurt, aborted, calls, filled, pages, others>>

RowEnriched ==
    /\ repair.pc = "row" /\ repair.todo # {} /\ Current[1] \notin Unsupported
    /\ repair' = IF repair.dry
                 THEN [Tally("would") EXCEPT !.tally.wouldBackfill = @ + (IF HasJob(Current[2]) THEN 1 ELSE 0)]
                 ELSE [repair EXCEPT !.pc = "update"]
    /\ UNCHANGED <<vars, filled, walk, pages, others>>

\* Mutant: the update is keyed by the row's id alone.
StillThere(row) == TRUE

\* UpdateUnknownCommit's WHERE.
StillUnknown(row) == IsUnknown(row)

\* A window is enqueued for a row this process repaired, if the operator asked for it.
Enqueues == repair.backfill

\* UpdateUnknownCommit and what follows it. A repaired row names the default branch, and
\* bounds later windows from below whether or not its own was enqueued (hence hurt).
RowUpdated ==
    /\ repair.pc = "update"
    /\ LET row == Current IN
       IF ~StillUnknown(row)
       THEN /\ repair' = [Tally("already") EXCEPT !.pc = "row"]
            /\ UNCHANGED <<vars, filled>>
       ELSE /\ unknown' = [unknown EXCEPT ![row[1]] = @ \ {row[2]}]
            /\ tracked' = [tracked EXCEPT ![row[1]] = @ \cup {row[2]}]
            /\ filled' = [filled EXCEPT ![row] = @ + 1]
            /\ IF HasJob(row[2]) /\ Enqueues
               THEN /\ Enqueue(row[1], row[2])
                    /\ repair' = [Tally("repaired") EXCEPT !.pc = "row", !.mine = @ \cup {Min(repair.todo)},
                                                           !.tally.enqueued = @ + 1]
               ELSE /\ UNCHANGED queue /\ hurt' = hurt \cup {row[1]}
                    /\ repair' = [Tally("repaired") EXCEPT !.pc = "row", !.mine = @ \cup {Min(repair.todo)},
                          !.tally.wouldBackfill = @ + (IF HasJob(row[2]) THEN 1 ELSE 0)]
            /\ UNCHANGED <<lifecycle, asked, aborted, calls, faults>>
    /\ UNCHANGED <<walk, pages, others>>

\* The page is done, the database refuses an update, or the operator interrupts: Run
\* returns what it has counted, and the backfiller, if any, is shut down.
RunReturns ==
    /\ \/ repair.pc = "row" /\ repair.todo = {} /\ UNCHANGED walk
       \/ repair.pc \in {"row", "update"} /\ repair.todo # {} /\ walk' = [walk EXCEPT !.whole = FALSE]
    /\ repair' = [repair EXCEPT !.pc = IF repair.backfill THEN "drain" ELSE "report", !.todo = {}]
    /\ UNCHANGED <<vars, filled, pages, others>>

Drain ==
    /\ repair.pc = "drain" /\ CloseQueue
    /\ UNCHANGED repairVars

Report ==
    /\ repair.pc = "drain" /\ shutdown = "returned"
    /\ repair' = [repair EXCEPT !.pc = "report"]
    /\ UNCHANGED <<vars, filled, walk, pages, others>>

\* The operator goes on with the cursor of the summary: a new process, a new backfiller.
Continue ==
    /\ repair.pc = "report" /\ pages < MaxPages
    /\ repair' = [NoRun("start") EXCEPT !.next = repair.next]
    /\ state' = <<>> /\ jobs' = <<>> /\ worker' = [w \in JobIds |-> NoWorker]
    /\ wg' = 0 /\ ran' = [r \in Repos |-> <<>>]
    /\ closed' = FALSE /\ cancelled' = FALSE /\ shutdown' = "open" /\ timedOut' = FALSE
    /\ aborted' = FALSE
    /\ UNCHANGED <<tracked, unknown, asked, hurt, calls, faults, filled, walk, pages, others>>

-----------------------------------------------------------------------------
(* Other processes *)

\* Another process repairs the row, or a submit that GitHub did not answer makes one.
OtherRepairs(row) ==
    /\ others < MaxOthers /\ row[1] \notin Unsupported /\ IsUnknown(row) /\ others' = others + 1
    /\ unknown' = [unknown EXCEPT ![row[1]] = @ \ {row[2]}]
    /\ tracked' = [tracked EXCEPT ![row[1]] = @ \cup {row[2]}]
    /\ hurt' = hurt \cup {row[1]}
    /\ filled' = [filled EXCEPT ![row] = @ + 1]
    /\ UNCHANGED <<queue, lifecycle, asked, aborted, calls, faults, repair, walk, pages>>

OtherDegrades(row) ==
    /\ calls < MaxCalls /\ ~IsUnknown(row) /\ Degrade(row[1], row[2])
    /\ UNCHANGED repairVars

WalkEnded ==
    /\ repair.pc = "report" /\ pages = MaxPages
    /\ UNCHANGED allVars

RepairStep ==
    \/ \E dry, backfill \in BOOLEAN : Begin(dry, backfill)
    \/ RowUnsupported \/ RowFails \/ RowEnriched \/ RowUpdated \/ RunReturns
    \/ Drain \/ Report \/ Continue \/ WalkEnded

RepairNext ==
    \/ repair.pc = "server" /\ Next /\ UNCHANGED repairVars
    \/ repair.pc # "server" /\ RepairStep
    \/ /\ repair.pc # "server"
       /\ (\E w \in JobIds : WorkerStep(w)) \/ Deadline \/ Return
       /\ UNCHANGED repairVars
    \/ repair.pc # "server" /\ \E row \in Rows : OtherRepairs(row) \/ OtherDegrades(row)

\* The backfiller's fairness, in either process.
RepairSpec ==
    /\ RepairInit /\ [][RepairNext]_allVars
    /\ \A w \in JobIds : WF_allVars(WorkerStep(w) /\ UNCHANGED repairVars)
    /\ WF_allVars(Return /\ UNCHANGED repairVars)

-----------------------------------------------------------------------------
(* Properties *)

\* Metadata is written into a row once: a repair overwrites neither a submit's nor
\* another repair's, though it read the row as unknown before it asked GitHub.
MetadataIsWrittenOnce == \A row \in Rows : filled[row] <= 1

\* The summary is true of the run: Repaired counts the rows this process filled, in a dry
\* run none, and each of them on the default branch has its window enqueued, once and in
\* this order, when backfill was asked for; what others repaired is not enqueued again.
SummaryIsTrue ==
    repair.pc \in {"row", "drain", "report"} =>
        LET t == repair.tally
            windows == {i \in repair.mine : HasJob(ScanOrder[i][2])}
        IN
        /\ t.repaired = Cardinality(repair.mine) /\ (repair.dry => repair.mine = {})
        /\ t.scanned = t.repaired + t.would + t.unsupported + t.failed + t.already
        /\ t.enqueued = Len(jobs)
        /\ Len(jobs) = IF repair.backfill THEN Cardinality(windows) ELSE 0
        /\ repair.backfill => \A i \in windows :
             jobs[Cardinality({j \in windows : j <= i})]
               = [repo |-> ScanOrder[i][1], until |-> ScanOrder[i][2]]

\* What a repair promises: it overwrites nobody's metadata and counts, and enqueues, what
\* it has really repaired.
RepairIsTrue == MetadataIsWrittenOnce /\ SummaryIsTrue

\* A walk that began without a cursor, took every NextCursor, met no failure and ended
\* with none leaves no row unknown that was unknown when it began.
WholeWalkRepairsAll ==
    repair.pc = "report" /\ repair.next = 0 /\ walk.whole =>
        \A row \in walk.owed : row[1] \in Unsupported \/ ~IsUnknown(row)
=============================================================================
