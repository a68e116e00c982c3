------------------------------ MODULE CIReport ------------------------------
(***************************************************************************)
(* The CI report (internal/service/ci_report.go): a request is answered by *)
(* a series of separate SQL statements, none of them in a transaction,     *)
(* while results are submitted and deleted. The reporter selects runs,     *)
(* counts and reads their results, finds a baseline run for each, reads    *)
(* both sides, compares row by row and derives one status.                 *)
(*                                                                         *)
(* Shas, runs and results are numbers: the code orders them as strings.    *)
(* A row's lookback verdict depends on the whole history of its series     *)
(* (module Statistics); here it is any verdict.                            *)
(***************************************************************************)
EXTENDS Naturals, Sequences, FiniteSets

CONSTANTS
    Result,         \* the results that may exist: [Nat -> ResultRow]
    Initial,        \* the sets of results there may be to begin with
    Commit,         \* the commit table: a function from shas to CommitRow
    Queries,        \* the requests made
    AncestorLimit,  \* CIReportBaselineAncestorLimit
    MaxRows,        \* CIReportMaxComparisonRows
    MaxChanges      \* bound: submissions and deletions

NoSha == 0
NoResult == 0
NoRun == 0
NoRepo == "no repository"
NoTime == 0
None == "none"

\* run_tags and run_reason travel together and are one field, reason.
ResultRow == [run : Nat, reason : STRING, repo : STRING, sha : Nat, fp : Nat,
              at : Nat, unit : STRING, error : BOOLEAN]
CommitRow == [repo : STRING, parent : Nat, fork : Nat, time : Nat]

\* Submission looks a result's commit up under the result's own repository
\* (Ingester.resolveCommit), and a table is finite.
ASSUME CIReportAssumption ==
    /\ Result \in [DOMAIN Result -> ResultRow] /\ DOMAIN Result \subseteq Nat \ {NoResult}
    /\ Commit \in [DOMAIN Commit -> CommitRow] /\ DOMAIN Commit \subseteq Nat \ {NoSha}
    /\ \A r \in DOMAIN Result : \/ Result[r].sha = NoSha
                                \/ /\ Result[r].sha \in DOMAIN Commit
                                   /\ Commit[Result[r].sha].repo = Result[r].repo
    /\ \A S \in Initial : S \subseteq DOMAIN Result /\ IsFiniteSet(S)
    /\ AncestorLimit \in Nat \ {0} /\ MaxRows \in Nat /\ MaxChanges \in Nat

VARIABLES
    results,    \* the rows of benchmark_result
    unused,     \* results not submitted yet
    changes,
    rep         \* the request being answered

storeVars == <<results, unused, changes>>
vars == <<results, unused, changes, rep>>

Elements(s) == {s[i] : i \in 1..Len(s)}

NoQuery == [repo |-> NoRepo, sha |-> NoSha, runIDs |-> <<>>, baselineRunIDs |-> <<>>,
            baseline |-> "", thresholds |-> TRUE]

NoGroup == [run |-> NoRun, reason |-> None, repo |-> NoRepo, sha |-> NoSha]

\* A request that has not begun. start is history: the rows there were then.
Idle == [pc |-> "idle", query |-> NoQuery, start |-> {}, runs |-> {}, missing |-> {},
         count |-> 0, fingerprints |-> {}, todo |-> {}, run |-> NoGroup, ancestry |-> <<>>,
         depth |-> 0, meta |-> {}, candidates |-> {}, selections |-> {}, rows |-> {},
         pending |-> {}, comparisons |-> {}, status |-> None]

Init ==
    /\ results \in Initial /\ unused = DOMAIN Result \ results
    /\ changes = 0 /\ rep = Idle

(***************************************************************************)
(* The statements. A group is a row of the run queries (their GROUP BY); a *)
(* key is CIReportRunKey.                                                  *)
(***************************************************************************)

Group(r) == [run |-> Result[r].run, reason |-> Result[r].reason,
             repo |-> Result[r].repo, sha |-> Result[r].sha]

RunsByCommit(repo, sha) ==
    {Group(r) : r \in {x \in results : /\ Result[x].sha = sha /\ sha # NoSha
                                       /\ Commit[sha].repo = repo}}

RunsByIDs(ids) == {Group(r) : r \in {x \in results : Result[x].run \in ids}}

Key(g) == [run |-> g.run, sha |-> g.sha]

RunKeys(groups) == {Key(g) : g \in {x \in groups : x.sha # NoSha}}

KeyOf(r) == Key(Result[r])

\* result_id DESC breaks ties of timestamp DESC.
Newer(r, s) == \/ Result[r].at > Result[s].at
               \/ Result[r].at = Result[s].at /\ r > s

Newest(S) == CHOOSE r \in S : \A s \in S \ {r} : Newer(r, s)

\* Mutant: one row per run and fingerprint on both sides.
LatestContenderIDs(keys) ==
    LET all == {r \in results : KeyOf(r) \in keys}
    IN  {r \in all : r = Newest({s \in all : /\ KeyOf(s) = KeyOf(r)
                                             /\ Result[s].fp = Result[r].fp})}

ContenderIDs(keys) == {r \in results : KeyOf(r) \in keys}

BaselineIDs(keys, fps) ==
    LET side == {r \in results : KeyOf(r) \in keys /\ Result[r].fp \in fps}
    IN  {Newest({s \in side : KeyOf(s) = KeyOf(r) /\ Result[s].fp = Result[r].fp}) : r \in side}

\* The rows of both sides; side is side_order.
SelectCIReportRows(contenders, baselines) ==
    LET ids == ContenderIDs(contenders)
        fps == {Result[r].fp : r \in ids}
    IN  [id : ids, side : {0}] \cup [id : BaselineIDs(baselines, fps), side : {1}]

\* sha = fork_point_sha marks the commits of the default branch.
LatestDefaultCommit(repo) ==
    LET default == {c \in DOMAIN Commit : /\ Commit[c].repo = repo /\ Commit[c].fork = c
                                          /\ Commit[c].time # NoTime}
    IN  IF default = {} THEN NoSha
        ELSE CHOOSE c \in default : \A d \in default \ {c} :
                 \/ Commit[c].time > Commit[d].time
                 \/ Commit[c].time = Commit[d].time /\ c > d

\* The stored first-parent chain from sha on, AncestorLimit commits at most.
BaselineAncestry(repo, sha) ==
    LET stored(c) == c \in DOMAIN Commit /\ Commit[c].repo = repo
        chain[n \in 1..AncestorLimit] ==
            IF n = 1 THEN sha
            ELSE IF stored(chain[n - 1]) THEN Commit[chain[n - 1]].parent ELSE NoSha
        length == Cardinality({n \in 1..AncestorLimit : \A m \in 1..n : stored(chain[m])})
    IN  [n \in 1..length |-> chain[n]]

(***************************************************************************)
(* The request.                                                            *)
(***************************************************************************)

Baselines == {"fork_point", "parent", "latest_default"}

\* What the handler and Report reject before the first statement.
ValidQuery(q) ==
    /\ q.thresholds
    /\ q.baselineRunIDs # <<>> =>
           /\ q.runIDs # <<>> /\ q.baseline = ""
           /\ Len(q.baselineRunIDs) = Len(q.runIDs)
    /\ q.baselineRunIDs = <<>> => q.baseline \in Baselines \cup {""}
    /\ (q.repo = NoRepo) <=> (q.sha = NoSha)
    /\ q.repo = NoRepo => q.runIDs # <<>>

Baseline(q) == IF q.baselineRunIDs # <<>> THEN "explicit_run"
               ELSE IF q.baseline = "" THEN "fork_point" ELSE q.baseline

Answer(status) == [rep EXCEPT !.pc = "answered", !.status = status, !.pending = {}]

Request(q) ==
    /\ rep.pc = "idle"
    /\ rep' = IF ValidQuery(q)
              THEN [rep EXCEPT !.pc = "runs", !.query = q, !.start = results]
              ELSE [rep EXCEPT !.pc = "answered", !.query = q, !.status = "invalid"]
    /\ UNCHANGED storeVars

\* Every run shares one repository and one commit, or none has a commit.
RunsShareCommit(groups) ==
    \A g, h \in groups : /\ g.repo = h.repo /\ g.sha = h.sha
                         /\ g.sha # NoSha => Commit[g.sha].repo = g.repo

\* The runs of the commit, narrowed to the given ids, or the given runs alone.
SelectRuns ==
    /\ rep.pc = "runs"
    /\ LET q == rep.query
           ids == Elements(q.runIDs)
           all == IF q.repo # NoRepo THEN RunsByCommit(q.repo, q.sha) ELSE RunsByIDs(ids)
           groups == IF q.runIDs = <<>> THEN all ELSE {g \in all : g.run \in ids}
           missing == ids \ {g.run : g \in all}
           selected == [rep EXCEPT !.pc = "count", !.runs = groups, !.missing = missing]
       IN  rep' = IF q.repo = NoRepo /\ groups = {} THEN Answer("not_found")
                  ELSE IF q.repo = NoRepo /\ ~RunsShareCommit(groups) THEN Answer("invalid")
                  ELSE IF \A g \in groups : g.sha = NoSha
                  THEN [selected EXCEPT !.pc = "answered", !.status = "action_required"]
                  ELSE selected
    /\ UNCHANGED storeVars

CountRows ==
    /\ rep.pc = "count"
    /\ LET n == Cardinality(ContenderIDs(RunKeys(rep.runs)))
       IN  rep' = CASE n > MaxRows -> Answer("invalid")
                    [] n = 0 -> Answer("action_required")
                    [] OTHER -> [rep EXCEPT !.pc = "contenders", !.count = n]
    /\ UNCHANGED storeVars

\* The fingerprints by run are all that is used of these rows.
SelectContenders ==
    /\ rep.pc = "contenders"
    /\ rep' = [rep EXCEPT
           !.pc = IF rep.query.baselineRunIDs # <<>> THEN "explicit" ELSE "baseline",
           !.fingerprints = {<<Result[r].run, Result[r].fp>> : r \in ContenderIDs(RunKeys(rep.runs))},
           !.todo = rep.runs]
    /\ UNCHANGED storeVars

(***************************************************************************)
(* A baseline for every run. selections is keyed by run id: of two groups  *)
(* with one id the later one's selection stays.                            *)
(***************************************************************************)

NoBaseline(g, error) == [run |-> g.run, sha |-> g.sha, base |-> [run |-> NoRun, sha |-> NoSha],
                         skipped |-> 0, error |-> error]

Chosen(g, key, skipped) == [run |-> g.run, sha |-> g.sha, base |-> key,
                            skipped |-> skipped, error |-> None]

Put(selection) == {s \in rep.selections : s.run # selection.run} \cup {selection}

\* The position of a run id given twice is its last one.
ExplicitBaselineOf(q, run) ==
    LET at == {i \in 1..Len(q.runIDs) : q.runIDs[i] = run}
    IN  IF at = {} THEN NoRun ELSE q.baselineRunIDs[CHOOSE i \in at : \A j \in at : j <= i]

ExplicitSelection(g, groups) ==
    LET base == ExplicitBaselineOf(rep.query, g.run)
        rows == {h \in groups : h.run = base /\ h.repo = g.repo}
        row == CHOOSE h \in rows : TRUE
    IN  IF base = NoRun THEN NoBaseline(g, None)
        ELSE IF rows = {} THEN NoBaseline(g, "explicit_baseline_run_not_found")
        ELSE IF Cardinality(rows) > 1 THEN NoBaseline(g, "ambiguous_baseline_run")
        ELSE IF row.sha = NoSha \/ Commit[row.sha].repo # row.repo
        THEN NoBaseline(g, "missing_commit_metadata")
        ELSE Chosen(g, Key(row), 0)

SelectExplicitBaselines ==
    /\ rep.pc = "explicit"
    /\ LET groups == RunsByIDs(Elements(rep.query.baselineRunIDs))
       IN  rep' = [rep EXCEPT !.pc = "select",
                              !.selections = {ExplicitSelection(g, groups) : g \in rep.runs}]
    /\ UNCHANGED storeVars

BaselineCandidate(baseline, g) ==
    LET c == Commit[g.sha]
        newest == LatestDefaultCommit(g.repo)
    IN  CASE baseline = "parent" ->
               [sha |-> c.parent, error |-> IF c.parent = NoSha THEN "unknown_parent" ELSE None]
          [] baseline = "fork_point" ->
               [sha |-> c.fork, error |-> CASE c.fork = NoSha -> "unknown_fork_point"
                                            [] c.fork = g.sha -> "default_branch_run"
                                            [] OTHER -> None]
          [] baseline = "latest_default" ->
               [sha |-> newest, error |-> IF newest = NoSha THEN "unknown_latest_default" ELSE None]

\* Resolve the commit to search from; the search begins only if it is stored
\* and the run has results.
ResolveBaseline ==
    /\ rep.pc = "baseline"
    /\ \E g \in rep.todo :
         /\ \A h \in rep.todo : g.run <= h.run
         /\ LET found == BaselineCandidate(Baseline(rep.query), g)
                ancestry == BaselineAncestry(g.repo, found.sha)
                failed(error) == [rep EXCEPT !.todo = @ \ {g},
                                             !.selections = Put(NoBaseline(g, error))]
            IN  rep' = CASE found.error # None -> failed(found.error)
                         [] found.error = None /\ ancestry = <<>> -> failed("unknown_baseline_candidate")
                         [] OTHER -> [rep EXCEPT !.pc = "find", !.run = g, !.depth = 1,
                                                 !.ancestry = ancestry, !.candidates = {}]
    /\ UNCHANGED storeVars

Fingerprints(run) == {f[2] : f \in {x \in rep.fingerprints : x[1] = run}}

\* Mutant: the contender is a candidate for its own baseline.
AnyCandidateRun(g, h) == TRUE

CandidateRun(g, h) == ~(h.run = g.run /\ h.sha = g.sha)

\* Mutant: a commit without runs is not passed over.
FindRunsOfSome ==
    /\ rep.pc = "find" /\ rep.depth <= Len(rep.ancestry) /\ Fingerprints(rep.run.run) # {}
    /\ LET groups == {h \in RunsByCommit(rep.run.repo, rep.ancestry[rep.depth]) :
                          CandidateRun(rep.run, h)}
       IN  /\ groups # {}
           /\ rep' = [rep EXCEPT !.pc = "findrows", !.meta = groups]
    /\ UNCHANGED storeVars

\* The runs at this depth. Of two groups with one key either names its reason.
FindRuns ==
    /\ rep.pc = "find" /\ rep.depth <= Len(rep.ancestry) /\ Fingerprints(rep.run.run) # {}
    /\ LET groups == {h \in RunsByCommit(rep.run.repo, rep.ancestry[rep.depth]) :
                          CandidateRun(rep.run, h)}
       IN  \/ /\ groups = {}
              /\ rep' = [rep EXCEPT !.depth = @ + 1]
           \/ /\ groups # {}
              /\ \E meta \in SUBSET groups :
                   /\ \A g \in groups : \E h \in meta : Key(h) = Key(g)
                   /\ \A g, h \in meta : Key(g) = Key(h) => g = h
                   /\ rep' = [rep EXCEPT !.pc = "findrows", !.meta = meta]
    /\ UNCHANGED storeVars

\* Their results of the contender's series; the newest one dates the run.
FindRows ==
    /\ rep.pc = "findrows"
    /\ LET rows(h) == {r \in ContenderIDs({Key(h)}) : Result[r].fp \in Fingerprints(rep.run.run)}
           found == {h \in rep.meta : rows(h) # {}}
       IN  rep' = [rep EXCEPT !.pc = "find", !.depth = @ + 1, !.meta = {},
               !.candidates = @ \cup
                   {[key |-> Key(h), same |-> h.reason = rep.run.reason, depth |-> rep.depth,
                     time |-> Commit[h.sha].time, at |-> Result[Newest(rows(h))].at] : h \in found}]
    /\ UNCHANGED storeVars

\* Same run reason first, then the newest commit (an unknown time last), the
\* newest result, and the ids.
Better(a, b) ==
    IF a.same # b.same THEN a.same
    ELSE IF a.time # b.time THEN a.time > b.time
    ELSE IF a.at # b.at THEN a.at > b.at
    ELSE IF a.key.run # b.key.run THEN a.key.run > b.key.run
    ELSE a.key.sha > b.key.sha

BaselineFound ==
    /\ rep.pc = "find"
    /\ rep.depth > Len(rep.ancestry) \/ Fingerprints(rep.run.run) = {}
    /\ LET best == CHOOSE a \in rep.candidates : \A b \in rep.candidates : ~Better(b, a)
           selection == IF rep.candidates = {} THEN NoBaseline(rep.run, "no_baseline_run")
                        ELSE Chosen(rep.run, best.key, best.depth - 1)
       IN  rep' = [rep EXCEPT !.pc = "baseline", !.todo = @ \ {rep.run}, !.run = NoGroup,
                              !.ancestry = <<>>, !.depth = 0, !.candidates = {},
                              !.selections = Put(selection)]
    /\ UNCHANGED storeVars

(***************************************************************************)
(* The comparisons.                                                        *)
(***************************************************************************)

SelectionOf(run) == CHOOSE s \in rep.selections : s.run = run

BaseKeys == {s.base : s \in {x \in rep.selections : x.base.run # NoRun}}

\* The row a contender row is compared with: the newest of its series in the
\* baseline run among the rows read; NoResult without one.
BaseRow(rows, r) ==
    LET base == SelectionOf(Result[r].run).base
        side == {x.id : x \in {y \in rows : /\ base \in BaseKeys /\ KeyOf(y.id) = base
                                            /\ Result[y.id].fp = Result[r].fp}}
    IN  IF side = {} THEN NoResult ELSE Newest(side)

\* Every row of a contender run is a row of the report, whichever side it was
\* read for.
SelectRows ==
    /\ \/ rep.pc = "select"
       \/ rep.pc = "baseline" /\ rep.todo = {}
    /\ LET rows == SelectCIReportRows(RunKeys(rep.runs), BaseKeys)
           mine == {x \in rows : KeyOf(x.id) \in {Key(s) : s \in rep.selections}}
           errored == {x \in mine : Result[x.id].error}
           alone == {x \in mine \ errored : BaseRow(rows, x.id) = NoResult}
       IN  rep' = [rep EXCEPT !.pc = "compare", !.rows = rows,
               !.comparisons = [row : errored, status : {"errored"}]
                                   \cup [row : alone, status : {"missing_baseline"}],
               !.pending = mine \ (errored \cup alone)]
    /\ UNCHANGED storeVars

\* The order of the rows: side, run, fingerprint, timestamp, id.
First(S) ==
    CHOOSE x \in S : \A y \in S \ {x} :
        LET a == Result[x.id]
            b == Result[y.id]
        IN  \/ x.side < y.side
            \/ x.side = y.side /\ a.run < b.run
            \/ x.side = y.side /\ a.run = b.run /\ a.fp < b.fp
            \/ x.side = y.side /\ a.run = b.run /\ a.fp = b.fp /\ Newer(y.id, x.id)

Verdicts == {"insufficient", "regressed", "improved", "stable"}

\* Compare without the statistics: failed results and different units do not
\* compare; without a time for the baseline commit there is no lookback.
CompareStatus(b, c) ==
    CASE Result[b].error \/ Result[b].unit # Result[c].unit -> {"not_comparable"}
      [] Commit[Result[b].sha].time = NoTime -> {"insufficient"}
      [] OTHER -> Verdicts

\* Compare reads both results again: one deleted meanwhile fails the request.
CompareRow ==
    /\ rep.pc = "compare" /\ rep.pending # {}
    /\ LET x == First(rep.pending)
           base == BaseRow(rep.rows, x.id)
       IN  \/ /\ {base, x.id} \subseteq results
              /\ \E status \in CompareStatus(base, x.id) :
                   rep' = [rep EXCEPT !.pending = @ \ {x},
                                      !.comparisons = @ \cup {[row |-> x, status |-> status]}]
           \/ /\ ~({base, x.id} \subseteq results)
              /\ rep' = Answer("not_found")
    /\ UNCHANGED storeVars

RowsWith(statuses) == {c \in rep.comparisons : c.status \in statuses}

Analyzed == RowsWith({"regressed", "improved", "stable"})

\* Every baseline error but an exhausted search.
BaselineActionErrors ==
    {g \in rep.runs : SelectionOf(g.run).error \notin {None, "no_baseline_run"}}

\* Mutant: a report without analysis is skipped before anything else is looked at.
SkippedFirst == IF Analyzed = {} THEN "skipped"
                ELSE IF RowsWith({"regressed"}) # {} THEN "failure" ELSE "success"

DeriveStatus ==
    IF \/ rep.missing # {} \/ rep.count = 0
       \/ RowsWith({"errored"}) # {} \/ BaselineActionErrors # {} THEN "action_required"
    ELSE IF RowsWith({"regressed"}) # {} THEN "failure"
    ELSE IF Analyzed = {} THEN "skipped" ELSE "success"

Derive ==
    /\ rep.pc = "compare" /\ rep.pending = {}
    /\ rep' = Answer(DeriveStatus)
    /\ UNCHANGED storeVars

\* Any statement may fail: the request is a server error.
Fail ==
    /\ \/ rep.pc \in {"runs", "count", "contenders", "explicit", "findrows", "select"}
       \/ rep.pc = "baseline" /\ rep.todo # {}
       \/ rep.pc = "find" /\ rep.depth <= Len(rep.ancestry)
       \/ rep.pc = "compare" /\ rep.pending # {}
    /\ rep' = Answer("error") /\ UNCHANGED storeVars

(***************************************************************************)
(* Everyone else. Only what happens before the answer matters to it.       *)
(***************************************************************************)

MayChange == changes < MaxChanges /\ rep.pc # "answered"

SubmitResult(r) ==
    /\ MayChange /\ r \in unused
    /\ results' = results \cup {r} /\ unused' = unused \ {r}
    /\ changes' = changes + 1 /\ UNCHANGED rep

DeleteResult(r) ==
    /\ MayChange /\ r \in results
    /\ results' = results \ {r} /\ changes' = changes + 1
    /\ UNCHANGED <<unused, rep>>

ReportStep ==
    \/ SelectRuns \/ CountRows \/ SelectContenders \/ SelectExplicitBaselines
    \/ ResolveBaseline \/ FindRuns \/ FindRows \/ BaselineFound
    \/ SelectRows \/ CompareRow \/ Derive

StoreStep == \E r \in DOMAIN Result : SubmitResult(r) \/ DeleteResult(r)

Next == (\E q \in Queries : Request(q)) \/ ReportStep \/ Fail \/ StoreStep

Spec == Init /\ [][Next]_vars

(***************************************************************************)
(* Properties.                                                             *)
(***************************************************************************)

ReportStatuses == {"success", "failure", "action_required", "skipped"}

TypeOK ==
    /\ results \subseteq DOMAIN Result /\ unused \subseteq DOMAIN Result
    /\ results \cap unused = {} /\ changes \in 0..MaxChanges
    /\ rep.status \in ReportStatuses \cup {None, "invalid", "not_found", "error"}
    /\ \A s, t \in rep.selections : s.run = t.run => s = t
    /\ \A c \in rep.comparisons : c.row \in rep.rows

\* The results the query is about that no one has touched since it was made.
Untouched ==
    LET q == rep.query
        ids == Elements(q.runIDs)
    IN  {r \in rep.start \cap results :
            /\ q.runIDs # <<>> => Result[r].run \in ids
            /\ q.repo # NoRepo => /\ Result[r].sha = q.sha
                                  /\ Commit[q.sha].repo = q.repo}

\* A report is the whole of its runs: whatever is submitted or deleted while
\* its statements run, every result there from the first to the last one is a
\* row of it (commitless runs, which are refused as a whole, aside).
ReportCoversItsRuns ==
    rep.status \in ReportStatuses =>
        {r \in Untouched : Result[r].sha # NoSha} \subseteq {c.row.id : c \in rep.comparisons}

\* The automatic baseline of a run is another run, on a commit of the first-
\* parent chain of the commit the mode names, and one that really has a result
\* of a series the run has.
AutomaticBaselineIsAnAncestorsRun ==
    rep.query.baselineRunIDs = <<>> =>
        \A s \in rep.selections : s.base.run # NoRun =>
            LET candidate == BaselineCandidate(Baseline(rep.query), [sha |-> s.sha, repo |-> Commit[s.sha].repo])
            IN  /\ s.base # Key(s)
                /\ s.base.sha \in Elements(BaselineAncestry(Commit[s.sha].repo, candidate.sha))
                /\ \E r \in DOMAIN Result \ unused :
                     KeyOf(r) = s.base /\ Result[r].fp \in Fingerprints(s.run)

\* A report row represents one contender result.
OneRowPerResult ==
    \A c, d \in rep.comparisons : c.row.id = d.row.id => c = d
=============================================================================
