--------------------------- MODULE ReadSideProofs ---------------------------
(***************************************************************************)
(* Theorems about what the reading endpoints answer while results come and *)
(* go: the CI report and the command that asks for it (modules CIReport    *)
(* and CICommand), the lists (module Reads), and what is computed from the *)
(* results of a series (module Statistics).                                *)
(***************************************************************************)
EXTENDS CICommand, Reads, Statistics, FiniteSetTheorems, WellFoundedInduction, TLAPS

-----------------------------------------------------------------------------
(* Finite sets and orders. *)

\* A set of naturals that is not empty has a least element.
LEMMA LeastNumber ==
    ASSUME NEW T \in SUBSET Nat, T # {}
    PROVE  \E n \in T : \A m \in T : n <= m
<1> DEFINE Less == {p \in Nat \X Nat : p[1] < p[2]}
<1>1. IsWellFoundedOn(Less, Nat)
    BY NatLessThanWellFounded, Zenon DEF OpToRel
<1>2. PICK n \in T : \A m \in T : ~(<<m, n>> \in Less)
    BY <1>1, WFMin
<1>3. \A m \in T : ~(m < n)
  <2>1. \A m \in T : <<m, n>> \in Nat \X Nat
    OBVIOUS
  <2> QED
    BY <1>2, <2>1
<1> QED
    BY <1>3

\* What ORDER BY ... LIMIT 1 relies on: of finitely many rows one is not behind
\* any other. It is the one with the fewest rows ahead of it.
LEMMA FiniteHasFirst ==
    ASSUME NEW S, IsFiniteSet(S), S # {}, NEW R,
           \A x \in S : <<x, x>> \notin R,
           \A x, y, z \in S : <<x, y>> \in R /\ <<y, z>> \in R => <<x, z>> \in R
    PROVE  \E m \in S : \A x \in S : <<x, m>> \notin R
<1> DEFINE Ahead(m) == {x \in S : <<x, m>> \in R}
           Sizes == {Cardinality(Ahead(m)) : m \in S}
<1>1. \A m \in S : IsFiniteSet(Ahead(m)) /\ Cardinality(Ahead(m)) \in Nat
    BY FS_Subset, FS_CardinalityType
<1>2. PICK n \in Sizes : \A k \in Sizes : n <= k
  <2> HIDE DEF Ahead
  <2>1. \A k \in Sizes : k \in Nat
    BY <1>1
  <2>2. Sizes # {}
    <3>1. PICK x \in S : TRUE
      OBVIOUS
    <3>2. Cardinality(Ahead(x)) \in Sizes
      OBVIOUS
    <3> QED
      BY <3>2, Zenon
  <2> HIDE DEF Sizes
  <2> QED
    BY <2>1, <2>2, LeastNumber
<1>3. PICK m \in S : n = Cardinality(Ahead(m))
    OBVIOUS
<1>4. ASSUME NEW x \in S, <<x, m>> \in R PROVE FALSE
  <2>1. Ahead(x) \subseteq Ahead(m) /\ x \in Ahead(m) /\ x \notin Ahead(x)
    BY <1>4
  <2>2. Cardinality(Ahead(x)) <= Cardinality(Ahead(m))
        /\ Cardinality(Ahead(x)) # Cardinality(Ahead(m))
    BY <1>1, <2>1, FS_Subset
  <2>3. Cardinality(Ahead(x)) \in Sizes
    OBVIOUS
  <2>4. n <= Cardinality(Ahead(x))
    BY <1>2, <2>3
  <2> HIDE DEF Ahead
  <2> QED
    BY <1>1, <1>3, <2>2, <2>4
<1> QED
    BY <1>4

\* In a strict total order of finitely many rows the numbers of rows ahead of each are
\* 0, 1, 2 and so on.
LEMMA RanksCountAhead ==
    ASSUME NEW S, IsFiniteSet(S), NEW ahead \in [S -> SUBSET S],
           \A x \in S : x \notin ahead[x],
           \A x, y \in S : y \in ahead[x] => ahead[y] \subseteq ahead[x],
           \A x, y \in S : x # y => x \in ahead[y] \/ y \in ahead[x],
           NEW rank, rank = [x \in S |-> Cardinality(ahead[x])]
    PROVE  rank \in Bijection(S, 0..(Cardinality(S) - 1))
<1> DEFINE size == Cardinality(S)
           T == 0..(size - 1)
<1>1. size \in Nat
    BY FS_CardinalityType
<1>2. \A x \in S : rank[x] = Cardinality(ahead[x]) /\ ahead[x] \subseteq S
    OBVIOUS
<1>3. \A x \in S : rank[x] \in T
  <2> SUFFICES ASSUME NEW x \in S PROVE rank[x] \in T
    OBVIOUS
  <2>1. IsFiniteSet(ahead[x]) /\ Cardinality(ahead[x]) <= size /\ ahead[x] # S
    BY <1>2, FS_Subset
  <2>2. Cardinality(ahead[x]) # size /\ Cardinality(ahead[x]) \in Nat
    BY <1>2, <2>1, FS_Subset, FS_CardinalityType
  <2> QED
    BY <1>1, <1>2, <2>1, <2>2
<1>6. \A x, y \in S : y \in ahead[x] => rank[x] # rank[y]
  <2> SUFFICES ASSUME NEW x \in S, NEW y \in S, y \in ahead[x] PROVE rank[x] # rank[y]
    OBVIOUS
  <2>1. IsFiniteSet(ahead[x]) /\ ahead[y] \subseteq ahead[x] /\ ahead[y] # ahead[x]
    BY <1>2, FS_Subset
  <2> QED
    BY <1>2, <2>1, FS_Subset
<1>7. \A x, y \in S : rank[x] = rank[y] => x = y
    BY <1>6
<1>8. IsFiniteSet(T) /\ Cardinality(T) = size
  <2> HIDE DEF size
  <2>1. 0 \in Int /\ size - 1 \in Int
    BY <1>1
  <2> QED
    BY <1>1, <2>1, FS_Interval
<1> DEFINE Image == {rank[x] : x \in S}
<1>9. Image \subseteq T
    BY <1>3
<1>10. rank \in Bijection(S, Image)
    BY <1>7 DEF Bijection, Injection, Surjection, IsInjective
<1>11. IsFiniteSet(Image) /\ Cardinality(Image) = size
  <2> HIDE DEF Image
  <2>1. ExistsBijection(S, Image)
    BY <1>10 DEF ExistsBijection
  <2> QED
    BY <2>1, FS_Bijection
<1>12. Image = T
  <2> HIDE DEF Image, T
  <2> QED
    BY <1>8, <1>9, <1>11, FS_Subset
<1> QED
    BY <1>10, <1>12

\* An image of a finite set is finite.
LEMMA FiniteImage ==
    ASSUME NEW S, IsFiniteSet(S), NEW f, NEW T, T = {f[x] : x \in S}
    PROVE  IsFiniteSet(T)
<1> DEFINE g == [x \in S |-> f[x]]
<1>1. g \in Surjection(S, T)
    BY DEF Surjection
<1> QED
    BY <1>1, FS_Surjection


-----------------------------------------------------------------------------
(* The CI report: the inductive invariant. *)

GroupRow == [run : Nat, reason : STRING, repo : STRING, sha : Nat]

Places == {"idle", "runs", "count", "contenders", "explicit", "baseline", "find", "findrows",
           "select", "compare", "answered"}

\* rep has the fields of a request.
IsRequest ==
    rep \in [pc : Places, query : {rep.query}, start : {rep.start}, runs : {rep.runs},
             missing : {rep.missing}, count : {rep.count}, fingerprints : {rep.fingerprints},
             todo : {rep.todo}, run : {rep.run}, ancestry : {rep.ancestry}, depth : {rep.depth},
             meta : {rep.meta}, candidates : {rep.candidates}, selections : {rep.selections},
             rows : {rep.rows}, pending : {rep.pending}, comparisons : {rep.comparisons},
             status : {rep.status}]

\* A result that was there when the request was made and is no longer unused was
\* there all along, until it was deleted for good.
StoreInv ==
    /\ results \subseteq DOMAIN Result /\ IsFiniteSet(results) /\ unused \subseteq DOMAIN Result
    /\ results \cap unused = {}
    /\ rep.start \subseteq DOMAIN Result /\ rep.start \cap unused = {}

Searching == rep.pc \in {"baseline", "find", "findrows"}

Running == Searching \/ rep.pc \in {"count", "contenders", "explicit", "select", "compare"}

\* The runs of a request share one stored commit, and the untouched results are theirs.
RunsInv ==
    /\ rep.pc \notin {"idle", "answered"} => ValidQuery(rep.query)
    /\ Running =>
         /\ \A g \in rep.runs :
              /\ g \in GroupRow /\ g.sha \in DOMAIN Commit /\ Commit[g.sha].repo = g.repo
              /\ \A h \in rep.runs : g.sha = h.sha /\ g.repo = h.repo
         /\ \A r \in Untouched : Result[r].sha # NoSha => Group(r) \in rep.runs

Selected(g) == \E s \in rep.selections : s.run = g.run /\ s.sha = g.sha

\* Every run whose turn has come has its selection.
SelectionsInv ==
    /\ Searching =>
         /\ rep.query.baselineRunIDs = <<>> /\ rep.todo \subseteq rep.runs
         /\ \A g \in rep.runs \ rep.todo : Selected(g)
    /\ rep.pc = "explicit" => rep.query.baselineRunIDs # <<>>
    /\ rep.pc = "select" => \A g \in rep.runs : Selected(g)
    /\ rep.pc \in {"find", "findrows"} => rep.run \in rep.todo

\* Every untouched result is compared or waits for it; an answered report has no row waiting.
ComparedInv ==
    /\ rep.pc = "compare" =>
         \A r \in Untouched : Result[r].sha # NoSha =>
             \/ \E x \in rep.pending : x.id = r
             \/ \E c \in rep.comparisons : c.row.id = r
    /\ rep.status \in ReportStatuses => rep.pc = "answered"
    /\ ReportCoversItsRuns
    /\ rep.status \in {"success", "skipped"} =>
         RowsWith({"regressed", "errored"}) = {} /\ rep.missing = {}

\* A baseline key that was found: another run's, on the searched chain, with a result
\* of the contender's series.
Found(g, key) ==
    /\ key # Key(g)
    /\ key.sha \in Elements(BaselineAncestry(g.repo, BaselineCandidate(Baseline(rep.query), g).sha))
    /\ \E r \in DOMAIN Result \ unused : KeyOf(r) = key /\ Result[r].fp \in Fingerprints(g.run)

Candidate == [key : [run : Nat, sha : Nat], same : BOOLEAN, depth : Nat, time : Nat, at : Nat]

SearchInv ==
    /\ rep.pc \in {"find", "findrows"} =>
         /\ rep.ancestry = BaselineAncestry(rep.run.repo, BaselineCandidate(Baseline(rep.query), rep.run).sha)
         /\ rep.depth \in Nat \ {0} /\ IsFiniteSet(rep.candidates)
         /\ \A a \in rep.candidates : a \in Candidate /\ Found(rep.run, a.key)
    /\ rep.pc = "findrows" =>
         /\ rep.depth <= Len(rep.ancestry) /\ IsFiniteSet(rep.meta)
         /\ \A h \in rep.meta : /\ h \in GroupRow /\ CandidateRun(rep.run, h)
                                /\ h.sha = rep.ancestry[rep.depth] /\ h.sha \in DOMAIN Commit
    /\ rep.pc \in {"idle", "runs", "count", "contenders", "explicit"} => rep.selections = {}
    /\ AutomaticBaselineIsAnAncestorsRun

ReportInv ==
    /\ IsRequest /\ StoreInv /\ RunsInv /\ SelectionsInv /\ ComparedInv /\ SearchInv
    /\ rep.pc = "idle" => rep = Idle
    /\ rep.pc \notin {"idle", "answered"} => rep.status = None


\* The program starts with no request under way.
LEMMA ReportInvInit == Init => ReportInv
<1> SUFFICES ASSUME Init PROVE ReportInv
    OBVIOUS
<1> USE CIReportAssumption
<1>1. rep = Idle
    BY DEF Init
<1>2. IsRequest
    BY <1>1, ZenonT(40) DEF IsRequest, Idle, Places
<1>3. rep.pc = "idle" /\ rep.selections = {} /\ rep.status = None /\ rep.start = {}
    BY <1>1 DEF Idle
<1>4. StoreInv
    BY <1>3 DEF StoreInv, Init
<1>5. RunsInv /\ SelectionsInv
    BY <1>3 DEF RunsInv, SelectionsInv, Running, Searching
<1>6. ComparedInv
    BY <1>3 DEF ComparedInv, ReportCoversItsRuns, ReportStatuses, None
<1>7. SearchInv
    BY <1>3 DEF SearchInv, AutomaticBaselineIsAnAncestorsRun
<1> QED
    BY <1>1, <1>2, <1>3, <1>4, <1>5, <1>6, <1>7 DEF ReportInv

-----------------------------------------------------------------------------
(* What every statement of the request leaves alone. *)

\* As long as no one brings back a result, the results untouched since the
\* request become fewer.
LEMMA UntouchedShrinks ==
    ASSUME rep'.query = rep.query, rep'.start = rep.start,
           results' \cap rep.start \subseteq results
    PROVE  Untouched' \subseteq Untouched
    BY DEF Untouched

\* Selections are about the fingerprints and the results that were submitted.
LEMMA SelectionsStay ==
    ASSUME AutomaticBaselineIsAnAncestorsRun, rep'.query = rep.query,
           rep'.selections = rep.selections, rep'.fingerprints = rep.fingerprints,
           unused' \subseteq unused
    PROVE  AutomaticBaselineIsAnAncestorsRun'
    BY DEF AutomaticBaselineIsAnAncestorsRun, Fingerprints, Key, KeyOf

\* An answer that is no report ends the request.
LEMMA AnswerEnds ==
    ASSUME ReportInv, NEW st \in {"invalid", "not_found", "error", "action_required"},
           rep' = Answer(st), UNCHANGED storeVars,
           st = "action_required" => \A r \in Untouched : Result[r].sha = NoSha
    PROVE  ReportInv'
<1>1. rep' = [rep EXCEPT !.pc = "answered", !.status = st, !.pending = {}]
    BY DEF Answer
<1>2. IsRequest /\ StoreInv /\ ComparedInv /\ SearchInv
    BY DEF ReportInv
<1>3. rep'.pc = "answered" /\ rep'.status = st
    BY <1>1, <1>2 DEF IsRequest
<1>4. /\ rep'.query = rep.query /\ rep'.start = rep.start /\ rep'.fingerprints = rep.fingerprints
      /\ rep'.selections = rep.selections
    BY <1>1, <1>2 DEF IsRequest
<1>5. IsRequest'
    BY <1>1, <1>2, ZenonT(40) DEF IsRequest, Places
<1>6. StoreInv'
    BY <1>2, <1>4 DEF StoreInv, storeVars
<1>7. RunsInv' /\ SelectionsInv'
    BY <1>3 DEF RunsInv, SelectionsInv, Running, Searching
<1>8. ReportCoversItsRuns'
    BY <1>3, <1>4 DEF ReportCoversItsRuns, ReportStatuses, Untouched, storeVars
<1>9. ComparedInv'
    BY <1>3, <1>8 DEF ComparedInv
<1>10. SearchInv'
    BY <1>2, <1>3, <1>4, SelectionsStay DEF SearchInv, storeVars
<1> QED
    BY <1>3, <1>5, <1>6, <1>7, <1>9, <1>10 DEF ReportInv


\* A submission or a deletion while the request is answered.
LEMMA StoreStepInv ==
    ASSUME ReportInv, StoreStep
    PROVE  ReportInv'
<1>1. PICK r \in DOMAIN Result : SubmitResult(r) \/ DeleteResult(r)
    BY DEF StoreStep
<1>2. IsRequest /\ StoreInv /\ RunsInv /\ SelectionsInv /\ ComparedInv /\ SearchInv
    BY DEF ReportInv
<1>3. rep' = rep /\ unused' \subseteq unused /\ results' \cap rep.start \subseteq results
    BY <1>1, <1>2 DEF SubmitResult, DeleteResult, StoreInv
<1>4. StoreInv'
  <2>1. IsFiniteSet(results')
    BY <1>1, <1>2, FS_AddElement, FS_RemoveElement DEF SubmitResult, DeleteResult, StoreInv
  <2> QED
    BY <1>1, <1>2, <1>3, <2>1 DEF SubmitResult, DeleteResult, StoreInv
<1>5. Untouched' \subseteq Untouched
    BY <1>3, UntouchedShrinks
<1>6. RunsInv'
    BY <1>2, <1>3, <1>5 DEF RunsInv, Running, Searching
<1>7. SelectionsInv'
    BY <1>2, <1>3 DEF SelectionsInv, Searching, Selected
<1>8. ReportCoversItsRuns'
    BY <1>2, <1>3, <1>5 DEF ComparedInv, ReportCoversItsRuns
<1>9. ComparedInv'
    BY <1>2, <1>3, <1>5, <1>8 DEF ComparedInv, RowsWith
<1>10. SearchInv'
  <2>1. AutomaticBaselineIsAnAncestorsRun'
    BY <1>2, <1>3, SelectionsStay DEF SearchInv
  <2>2. \A g, key : Found(g, key) => Found(g, key)'
    BY <1>3 DEF Found, Fingerprints
  <2> QED
    BY <1>2, <1>3, <2>1, <2>2 DEF SearchInv
<1>11. IsRequest'
    BY <1>2, <1>3 DEF IsRequest
<1> QED
    BY <1>3, <1>4, <1>6, <1>7, <1>9, <1>10, <1>11 DEF ReportInv

\* The request is refused or taken on.
LEMMA RequestInv ==
    ASSUME ReportInv, NEW q, Request(q)
    PROVE  ReportInv'
<1>1. IsRequest /\ StoreInv /\ RunsInv /\ SelectionsInv /\ ComparedInv /\ SearchInv
    BY DEF ReportInv
<1>2. rep.pc = "idle" /\ rep = Idle /\ rep.selections = {} /\ UNCHANGED <<results, unused>>
    BY <1>1 DEF Request, ReportInv, Idle, storeVars
<1>3. CASE ValidQuery(q)
  <2>1. rep' = [rep EXCEPT !.pc = "runs", !.query = q, !.start = results]
    BY <1>3 DEF Request
  <2>2. /\ rep'.pc = "runs" /\ rep'.query = q /\ rep'.start = results /\ rep'.status = None
        /\ rep'.selections = {} /\ rep'.comparisons = {}
    BY <1>2, <2>1 DEF Idle
  <2>3. IsRequest'
    BY <1>2, <2>1, ZenonT(40) DEF IsRequest, Idle, Places
  <2>4. StoreInv'
    BY <1>1, <1>2, <2>2 DEF StoreInv
  <2>5. RunsInv' /\ SelectionsInv'
    BY <1>3, <2>2 DEF RunsInv, SelectionsInv, Running, Searching
  <2>6. ComparedInv'
    BY <2>2 DEF ComparedInv, ReportCoversItsRuns, ReportStatuses, None
  <2>7. SearchInv'
    BY <2>2 DEF SearchInv, AutomaticBaselineIsAnAncestorsRun
  <2> QED
    BY <2>2, <2>3, <2>4, <2>5, <2>6, <2>7 DEF ReportInv
<1>4. CASE ~ValidQuery(q)
  <2>1. rep' = [rep EXCEPT !.pc = "answered", !.query = q, !.status = "invalid"]
    BY <1>4 DEF Request
  <2>2. /\ rep'.pc = "answered" /\ rep'.query = q /\ rep'.start = {} /\ rep'.status = "invalid"
        /\ rep'.selections = {}
    BY <1>2, <2>1 DEF Idle
  <2>3. IsRequest'
    BY <1>2, <2>1, ZenonT(40) DEF IsRequest, Idle, Places
  <2>4. StoreInv'
    BY <1>1, <1>2, <2>2 DEF StoreInv
  <2>5. RunsInv' /\ SelectionsInv'
    BY <2>2 DEF RunsInv, SelectionsInv, Running, Searching
  <2>6. ComparedInv'
    BY <2>2 DEF ComparedInv, ReportCoversItsRuns, ReportStatuses
  <2>7. SearchInv'
    BY <2>2 DEF SearchInv, AutomaticBaselineIsAnAncestorsRun
  <2> QED
    BY <2>2, <2>3, <2>4, <2>5, <2>6, <2>7 DEF ReportInv
<1> QED
    BY <1>3, <1>4

\* A statement failed.
LEMMA FailInv ==
    ASSUME ReportInv, Fail
    PROVE  ReportInv'
    BY AnswerEnds, Zenon DEF Fail

-----------------------------------------------------------------------------
(* The runs and their results. *)

\* Every result of a commit has the group of its run among the commit's runs.
LEMMA RunsOfCommit ==
    ASSUME NEW repo, NEW sha, results \subseteq DOMAIN Result
    PROVE  /\ \A g \in RunsByCommit(repo, sha) :
                  g \in GroupRow /\ g.sha = sha /\ g.repo = repo /\ sha \in DOMAIN Commit
                  /\ Commit[sha].repo = repo
           /\ \A r \in results : Result[r].sha = sha /\ sha # NoSha /\ Commit[sha].repo = repo
                  => Group(r) \in RunsByCommit(repo, sha)
<1> USE CIReportAssumption
<1>1. \A r \in results : Group(r) \in GroupRow
    BY DEF Group, GroupRow, ResultRow
<1>2. ASSUME NEW g \in RunsByCommit(repo, sha)
      PROVE  /\ g \in GroupRow /\ g.sha = sha /\ g.repo = repo /\ sha \in DOMAIN Commit
             /\ Commit[sha].repo = repo
  <2>1. PICK r \in results : /\ g = Group(r) /\ Result[r].sha = sha /\ sha # NoSha
                             /\ Commit[sha].repo = repo
    BY DEF RunsByCommit
  <2> QED
    BY <1>1, <2>1 DEF Group
<1>3. ASSUME NEW r \in results, Result[r].sha = sha, sha # NoSha, Commit[sha].repo = repo
      PROVE  Group(r) \in RunsByCommit(repo, sha)
    BY <1>3 DEF RunsByCommit
<1> QED
    BY <1>2, <1>3

\* Every result of the ids has the group of its run among their runs.
LEMMA RunsOfIDs ==
    ASSUME NEW ids, results \subseteq DOMAIN Result
    PROVE  /\ \A g \in RunsByIDs(ids) :
                  g \in GroupRow /\ (g.sha # NoSha => g.sha \in DOMAIN Commit) /\ g.run \in ids
           /\ \A r \in results : Result[r].run \in ids => Group(r) \in RunsByIDs(ids)
<1> USE CIReportAssumption
<1>1. \A r \in results : Group(r) \in GroupRow
    BY DEF Group, GroupRow, ResultRow
<1>2. ASSUME NEW g \in RunsByIDs(ids)
      PROVE  g \in GroupRow /\ (g.sha # NoSha => g.sha \in DOMAIN Commit) /\ g.run \in ids
  <2>1. PICK r \in results : g = Group(r) /\ Result[r].run \in ids
    BY DEF RunsByIDs
  <2> QED
    BY <1>1, <2>1 DEF Group
<1>3. \A r \in results : Result[r].run \in ids => Group(r) \in RunsByIDs(ids)
    BY DEF RunsByIDs
<1> QED
    BY <1>2, <1>3


\* The runs are selected: every untouched result is one of theirs.
LEMMA SelectRunsInv ==
    ASSUME ReportInv, SelectRuns
    PROVE  ReportInv'
<1> USE CIReportAssumption
<1> DEFINE q == rep.query
           ids == Elements(q.runIDs)
           all == IF q.repo # NoRepo THEN RunsByCommit(q.repo, q.sha) ELSE RunsByIDs(ids)
           groups == IF q.runIDs = <<>> THEN all ELSE {g \in all : g.run \in ids}
           missing == ids \ {g.run : g \in all}
           selected == [rep EXCEPT !.pc = "count", !.runs = groups, !.missing = missing]
<1>1. /\ IsRequest /\ StoreInv /\ RunsInv /\ SelectionsInv /\ ComparedInv /\ SearchInv
      /\ rep.status = None
    BY DEF ReportInv, SelectRuns
<1>2. rep.pc = "runs" /\ ValidQuery(q) /\ UNCHANGED <<results, unused>> /\ rep.selections = {}
    BY <1>1 DEF RunsInv, SearchInv, SelectRuns, storeVars
<1>3. rep' = IF q.repo = NoRepo /\ groups = {} THEN Answer("not_found")
             ELSE IF q.repo = NoRepo /\ ~RunsShareCommit(groups) THEN Answer("invalid")
             ELSE IF \A g \in groups : g.sha = NoSha
             THEN [selected EXCEPT !.pc = "answered", !.status = "action_required"]
             ELSE selected
    BY DEF SelectRuns
<1>4. \A r \in Untouched : Result[r].sha # NoSha => Group(r) \in groups
  <2> SUFFICES ASSUME NEW r \in Untouched, Result[r].sha # NoSha PROVE Group(r) \in groups
      OBVIOUS
  <2>1. r \in results /\ Group(r).run = Result[r].run
      BY DEF Untouched, Group
  <2>2. q.runIDs # <<>> => Result[r].run \in ids
      BY DEF Untouched
  <2>3. CASE q.repo # NoRepo
    <3>1. Result[r].sha = q.sha /\ Commit[q.sha].repo = q.repo
        BY <2>3 DEF Untouched
    <3>2. Group(r) \in all
        BY <1>1, <2>1, <2>3, <3>1, RunsOfCommit DEF StoreInv
    <3> QED
        BY <2>1, <2>2, <3>2
  <2>4. CASE q.repo = NoRepo
    <3>1. q.runIDs # <<>>
        BY <1>2, <2>4 DEF ValidQuery
    <3>2. Group(r) \in all
        BY <1>1, <2>1, <2>2, <2>4, <3>1, RunsOfIDs DEF StoreInv
    <3> QED
        BY <2>1, <2>2, <3>1, <3>2
  <2> QED
      BY <2>3, <2>4
<1>5. groups \subseteq all
    OBVIOUS
<1>6. /\ rep.query = q
      /\ \A r \in Untouched : Result[r].sha # NoSha => Result[r].sha = Group(r).sha
    BY DEF Group
<1>7. CASE q.repo = NoRepo /\ (groups = {} \/ ~RunsShareCommit(groups))
  <2>1. rep' = Answer("not_found") \/ rep' = Answer("invalid")
    BY <1>3, <1>7, Zenon
  <2>2. UNCHANGED storeVars
    BY DEF SelectRuns
  <2> QED
    BY <2>1, <2>2, AnswerEnds
<1>8. CASE ~(q.repo = NoRepo /\ (groups = {} \/ ~RunsShareCommit(groups)))
           /\ \A g \in groups : g.sha = NoSha
  <2> HIDE DEF groups, missing
  <2>1. rep' = [selected EXCEPT !.pc = "answered", !.status = "action_required"]
    BY <1>3, <1>8, Zenon
  <2>2. /\ rep'.pc = "answered" /\ rep'.status = "action_required" /\ rep'.query = rep.query
        /\ rep'.start = rep.start /\ rep'.selections = {} /\ rep'.fingerprints = rep.fingerprints
    BY <1>1, <1>2, <2>1 DEF IsRequest
  <2>3. IsRequest'
    BY <1>1, <2>1, ZenonT(40) DEF IsRequest, Places
  <2>4. StoreInv'
    BY <1>1, <1>2, <2>2 DEF StoreInv
  <2>5. RunsInv' /\ SelectionsInv'
    BY <2>2 DEF RunsInv, SelectionsInv, Running, Searching
  <2>6. Untouched' = Untouched
    BY <1>2, <2>2 DEF Untouched
  <2>7. ComparedInv'
    BY <1>4, <1>6, <1>8, <2>2, <2>6 DEF ComparedInv, ReportCoversItsRuns, ReportStatuses
  <2>8. SearchInv'
    BY <2>2 DEF SearchInv, AutomaticBaselineIsAnAncestorsRun
  <2> QED
    BY <2>2, <2>3, <2>4, <2>5, <2>7, <2>8 DEF ReportInv
<1>9. CASE ~(q.repo = NoRepo /\ (groups = {} \/ ~RunsShareCommit(groups)))
           /\ ~\A g \in groups : g.sha = NoSha
  <2>0. ASSUME NEW g \in groups
        PROVE  /\ g \in GroupRow /\ g.sha \in DOMAIN Commit /\ Commit[g.sha].repo = g.repo
               /\ \A h \in groups : g.sha = h.sha /\ g.repo = h.repo
    <3>1. CASE q.repo # NoRepo
        BY <1>1, <1>5, <3>1, RunsOfCommit DEF StoreInv
    <3>2. CASE q.repo = NoRepo
      <4>1. RunsShareCommit(groups)
        BY <1>9, <3>2
      <4>2. g.sha # NoSha
        BY <1>9, <4>1 DEF RunsShareCommit
      <4>3. g \in GroupRow /\ g.sha \in DOMAIN Commit
        BY <1>1, <1>5, <3>2, <4>2, RunsOfIDs DEF StoreInv
      <4> QED
        BY <4>1, <4>2, <4>3 DEF RunsShareCommit
    <3> QED
        BY <3>1, <3>2
  <2> HIDE DEF groups, missing
  <2>1. rep' = selected
    BY <1>3, <1>9, Zenon
  <2>2. /\ rep'.pc = "count" /\ rep'.status = rep.status /\ rep'.query = rep.query
        /\ rep'.start = rep.start /\ rep'.selections = {} /\ rep'.fingerprints = rep.fingerprints
        /\ rep'.runs = groups
    BY <1>1, <1>2, <2>1 DEF IsRequest
  <2>3. IsRequest'
    BY <1>1, <2>1, ZenonT(40) DEF IsRequest, Places
  <2>4. StoreInv'
    BY <1>1, <1>2, <2>2 DEF StoreInv
  <2>5. Untouched' = Untouched
    BY <1>2, <2>2 DEF Untouched
  <2>6. RunsInv' /\ SelectionsInv'
    BY <1>2, <1>4, <2>0, <2>2, <2>5 DEF RunsInv, SelectionsInv, Running, Searching
  <2>7. ComparedInv'
    BY <1>1, <2>2, <2>5 DEF ComparedInv, ReportCoversItsRuns, ReportStatuses, None
  <2>8. SearchInv'
    BY <2>2 DEF SearchInv, AutomaticBaselineIsAnAncestorsRun
  <2> QED
    BY <1>1, <2>2, <2>3, <2>4, <2>6, <2>7, <2>8 DEF ReportInv
<1> QED
    BY <1>7, <1>8, <1>9

\* No contender row means no untouched result; then the report says so.
LEMMA CountRowsInv ==
    ASSUME ReportInv, CountRows
    PROVE  ReportInv'
<1> DEFINE n == Cardinality(ContenderIDs(RunKeys(rep.runs)))
<1>1. /\ IsRequest /\ StoreInv /\ RunsInv /\ SelectionsInv /\ ComparedInv /\ SearchInv
      /\ rep.pc = "count" /\ rep.status = None
    BY DEF ReportInv, CountRows
<1>2. UNCHANGED storeVars /\ rep' = CASE n > MaxRows -> Answer("invalid")
                                      [] n = 0 -> Answer("action_required")
                                      [] OTHER -> [rep EXCEPT !.pc = "contenders", !.count = n]
    BY DEF CountRows
<1>3. MaxRows \in Nat /\ n \in Nat
  <2>1. IsFiniteSet(ContenderIDs(RunKeys(rep.runs)))
    BY <1>1, FS_Subset DEF ContenderIDs, StoreInv
  <2> QED
    BY <2>1, FS_CardinalityType, CIReportAssumption
<1>4. CASE n > MaxRows
  <2>1. rep' = Answer("invalid")
    <3> HIDE DEF n
    <3> QED
      BY <1>2, <1>3, <1>4
  <2> QED
    BY <1>2, <2>1, AnswerEnds
<1>5. CASE n = 0
  <2>1. rep' = Answer("action_required")
    <3> HIDE DEF n
    <3> QED
      BY <1>2, <1>3, <1>5
  <2>2. ASSUME NEW r \in Untouched, Result[r].sha # NoSha PROVE FALSE
    <3>1. Group(r) \in rep.runs /\ r \in results
      BY <1>1, <2>2 DEF RunsInv, Running, Untouched
    <3>2. Key(Group(r)) \in RunKeys(rep.runs) /\ Key(Group(r)) = KeyOf(r)
      BY <2>2, <3>1 DEF RunKeys, Group, Key, KeyOf
    <3>3. r \in ContenderIDs(RunKeys(rep.runs))
      BY <3>1, <3>2 DEF ContenderIDs
    <3>4. ContenderIDs(RunKeys(rep.runs)) = {}
      BY <1>1, <1>5, FS_Subset, FS_EmptySet DEF ContenderIDs, StoreInv
    <3> QED
      BY <3>3, <3>4
  <2> QED
    BY <1>2, <2>1, <2>2, AnswerEnds
<1>6. CASE ~(n > MaxRows) /\ n # 0
  <2> HIDE DEF n
  <2>1. rep' = [rep EXCEPT !.pc = "contenders", !.count = n]
    BY <1>2, <1>6
  <2>2. /\ rep'.pc = "contenders" /\ rep'.status = rep.status /\ rep'.query = rep.query
        /\ rep'.start = rep.start /\ rep'.selections = rep.selections
        /\ rep'.fingerprints = rep.fingerprints /\ rep'.runs = rep.runs
    BY <1>1, <2>1 DEF IsRequest
  <2>3. IsRequest'
    BY <1>1, <2>1, ZenonT(40) DEF IsRequest, Places
  <2>4. StoreInv'
    BY <1>1, <1>2, <2>2 DEF StoreInv, storeVars
  <2>5. Untouched' = Untouched
    BY <1>2, <2>2 DEF Untouched, storeVars
  <2>6. RunsInv' /\ SelectionsInv'
    BY <1>1, <2>2, <2>5 DEF RunsInv, SelectionsInv, Running, Searching
  <2>7. ComparedInv'
    BY <1>1, <2>2, <2>5 DEF ComparedInv, ReportCoversItsRuns, ReportStatuses, None
  <2>8. SearchInv'
    BY <1>1, <2>2 DEF SearchInv, AutomaticBaselineIsAnAncestorsRun
  <2> QED
    BY <1>1, <2>2, <2>3, <2>4, <2>6, <2>7, <2>8 DEF ReportInv
<1> QED
    BY <1>4, <1>5, <1>6

\* The fingerprints of the runs are read.
LEMMA SelectContendersInv ==
    ASSUME ReportInv, SelectContenders
    PROVE  ReportInv'
<1> DEFINE fps == {<<Result[r].run, Result[r].fp>> : r \in ContenderIDs(RunKeys(rep.runs))}
           next == IF rep.query.baselineRunIDs # <<>> THEN "explicit" ELSE "baseline"
<1>1. /\ IsRequest /\ StoreInv /\ RunsInv /\ SelectionsInv /\ ComparedInv /\ SearchInv
      /\ rep.pc = "contenders" /\ rep.status = None /\ UNCHANGED storeVars
    BY DEF ReportInv, SelectContenders
<1>2. rep' = [rep EXCEPT !.pc = next, !.fingerprints = fps, !.todo = rep.runs]
    BY DEF SelectContenders
<1> HIDE DEF fps
<1>3. /\ rep'.pc = next /\ rep'.status = rep.status /\ rep'.query = rep.query
      /\ rep'.start = rep.start /\ rep'.selections = rep.selections
      /\ rep'.todo = rep.runs /\ rep'.runs = rep.runs
    BY <1>1, <1>2 DEF IsRequest
<1>4. IsRequest'
    BY <1>1, <1>2, ZenonT(40) DEF IsRequest, Places
<1>5. StoreInv'
    BY <1>1, <1>3 DEF StoreInv, storeVars
<1>6. Untouched' = Untouched
    BY <1>1, <1>3 DEF Untouched, storeVars
<1>7. RunsInv' /\ SelectionsInv'
    BY <1>1, <1>3, <1>6 DEF RunsInv, SelectionsInv, Running, Searching
<1>8. ComparedInv'
    BY <1>1, <1>3, <1>6 DEF ComparedInv, ReportCoversItsRuns, ReportStatuses, None
<1>9. SearchInv'
    BY <1>1, <1>3 DEF SearchInv, AutomaticBaselineIsAnAncestorsRun
<1> QED
    BY <1>1, <1>3, <1>4, <1>5, <1>7, <1>8, <1>9 DEF ReportInv


-----------------------------------------------------------------------------
(* The baselines. *)

\* Every run of an explicit pairing has a selection, found or not.
LEMMA SelectExplicitBaselinesInv ==
    ASSUME ReportInv, SelectExplicitBaselines
    PROVE  ReportInv'
<1> DEFINE groups == RunsByIDs(Elements(rep.query.baselineRunIDs))
           chosen == {ExplicitSelection(g, groups) : g \in rep.runs}
<1>1. /\ IsRequest /\ StoreInv /\ RunsInv /\ SelectionsInv /\ ComparedInv /\ SearchInv
      /\ rep.pc = "explicit" /\ rep.status = None /\ UNCHANGED storeVars
    BY DEF ReportInv, SelectExplicitBaselines
<1>2. rep' = [rep EXCEPT !.pc = "select", !.selections = chosen]
    BY DEF SelectExplicitBaselines
<1>3. \A g \in rep.runs : \E s \in chosen : s.run = g.run /\ s.sha = g.sha
  <2> SUFFICES ASSUME NEW g \in rep.runs PROVE \E s \in chosen : s.run = g.run /\ s.sha = g.sha
      OBVIOUS
  <2> DEFINE s == ExplicitSelection(g, groups)
  <2> HIDE DEF groups
  <2>1. s \in chosen
      OBVIOUS
  <2>2. s.run = g.run /\ s.sha = g.sha
      BY DEF ExplicitSelection, NoBaseline, Chosen
  <2> HIDE DEF s, chosen
  <2> QED
      BY <2>1, <2>2
<1>4. rep.query.baselineRunIDs # <<>>
    BY <1>1 DEF SelectionsInv, SelectExplicitBaselines
<1> HIDE DEF chosen
<1>5. /\ rep'.pc = "select" /\ rep'.status = rep.status /\ rep'.query = rep.query
      /\ rep'.start = rep.start /\ rep'.selections = chosen /\ rep'.runs = rep.runs
    BY <1>1, <1>2 DEF IsRequest
<1>6. IsRequest'
    BY <1>1, <1>2, ZenonT(40) DEF IsRequest, Places
<1>7. StoreInv'
    BY <1>1, <1>5 DEF StoreInv, storeVars
<1>8. Untouched' = Untouched
    BY <1>1, <1>5 DEF Untouched, storeVars
<1>9. RunsInv' /\ SelectionsInv'
    BY <1>1, <1>3, <1>5, <1>8 DEF RunsInv, SelectionsInv, Running, Searching, Selected
<1>10. ComparedInv'
    BY <1>1, <1>5, <1>8 DEF ComparedInv, ReportCoversItsRuns, ReportStatuses, None
<1>11. SearchInv'
    BY <1>4, <1>5 DEF SearchInv, AutomaticBaselineIsAnAncestorsRun
<1> QED
    BY <1>1, <1>5, <1>6, <1>7, <1>9, <1>10, <1>11 DEF ReportInv

\* A run's selection replaces the one its run id had, and keeps every other
\* run's: the runs of one id are of one commit.
LEMMA PutSelects ==
    ASSUME NEW g \in rep.runs, NEW s, s.run = g.run, s.sha = g.sha,
           \A h \in rep.runs : h.sha = g.sha,
           NEW h \in rep.runs, h = g \/ Selected(h)
    PROVE  \E t \in Put(s) : t.run = h.run /\ t.sha = h.sha
<1>1. s \in Put(s) /\ \A t \in rep.selections : t.run # s.run => t \in Put(s)
    BY DEF Put
<1>2. CASE h.run = g.run
    BY <1>1, <1>2
<1>3. CASE h.run # g.run
  <2>1. PICK t \in rep.selections : t.run = h.run /\ t.sha = h.sha
    BY <1>3 DEF Selected
  <2> QED
    BY <1>1, <1>3, <2>1
<1> QED
    BY <1>2, <1>3

\* What a search adds to the selections is one that was found, or none.
LEMMA PutFound ==
    ASSUME AutomaticBaselineIsAnAncestorsRun, NEW g, Commit[g.sha].repo = g.repo,
           NEW s, s.run = g.run, s.sha = g.sha,
           s.base.run = NoRun \/ Found(g, s.base),
           rep'.query = rep.query, rep'.fingerprints = rep.fingerprints,
           rep'.selections = Put(s), unused' = unused
    PROVE  AutomaticBaselineIsAnAncestorsRun'
<1> DEFINE Good(t) ==
       LET candidate == BaselineCandidate(Baseline(rep.query),
                                          [sha |-> t.sha, repo |-> Commit[t.sha].repo])
       IN  /\ t.base # Key(t)
           /\ t.base.sha \in Elements(BaselineAncestry(Commit[t.sha].repo, candidate.sha))
           /\ \E r \in DOMAIN Result \ unused :
                KeyOf(r) = t.base /\ Result[r].fp \in Fingerprints(t.run)
<1>1. Key(s) = Key(g)
    BY DEF Key
<1>2. BaselineCandidate(Baseline(rep.query), [sha |-> s.sha, repo |-> Commit[s.sha].repo])
      = BaselineCandidate(Baseline(rep.query), g)
    BY DEF BaselineCandidate
<1>3. s.base.run # NoRun => Good(s)
    BY <1>1, <1>2 DEF Found
<1>4. rep.query.baselineRunIDs = <<>> =>
          \A t \in rep.selections : t.base.run # NoRun => Good(t)
    BY DEF AutomaticBaselineIsAnAncestorsRun
<1>5. rep.query.baselineRunIDs = <<>> =>
          \A t \in rep'.selections : t.base.run # NoRun => Good(t)
  <2> HIDE DEF Good
  <2> QED
    BY <1>3, <1>4 DEF Put
<1>6. \A t : Fingerprints(t)' = Fingerprints(t)
    BY DEF Fingerprints
<1> QED
    BY <1>5, <1>6 DEF AutomaticBaselineIsAnAncestorsRun

\* The chain of first parents is a sequence.
LEMMA AncestryIsSeq ==
    ASSUME NEW repo, NEW sha
    PROVE  LET chain == BaselineAncestry(repo, sha)
           IN  Len(chain) \in Nat /\ \A n \in 1..Len(chain) : chain[n] \in Elements(chain)
<1> DEFINE stored(c) == c \in DOMAIN Commit /\ Commit[c].repo = repo
           parents[n \in 1..AncestorLimit] ==
               IF n = 1 THEN sha
               ELSE IF stored(parents[n - 1]) THEN Commit[parents[n - 1]].parent ELSE NoSha
           walked == {n \in 1..AncestorLimit : \A m \in 1..n : stored(parents[m])}
           length == Cardinality(walked)
           chain == BaselineAncestry(repo, sha)
<1>1. chain = [n \in 1..length |-> parents[n]]
    BY Zenon DEF BaselineAncestry
<1>2. length \in Nat
  <2>1. AncestorLimit \in Nat
    BY CIReportAssumption
  <2>2. IsFiniteSet(1..AncestorLimit)
    BY <2>1, FS_Interval
  <2> HIDE DEF parents
  <2>3. walked \subseteq 1..AncestorLimit
    OBVIOUS
  <2> HIDE DEF walked
  <2>4. IsFiniteSet(walked)
    BY <2>2, <2>3, FS_Subset
  <2> QED
    BY <2>4, FS_CardinalityType
<1> HIDE DEF length, parents, chain
<1>3. chain \in Seq({parents[n] : n \in 1..length})
    BY <1>1, <1>2
<1>4. Len(chain) \in Nat
    BY <1>3
<1>5. \A n \in 1..Len(chain) : chain[n] \in Elements(chain)
    BY DEF Elements
<1> QED
    BY <1>4, <1>5 DEF chain


\* The next run has no commit to search from, or its search begins.
LEMMA ResolveBaselineInv ==
    ASSUME ReportInv, ResolveBaseline
    PROVE  ReportInv'
<1>1. /\ IsRequest /\ StoreInv /\ RunsInv /\ SelectionsInv /\ ComparedInv /\ SearchInv
      /\ rep.pc = "baseline" /\ rep.status = None /\ UNCHANGED storeVars
    BY DEF ReportInv, ResolveBaseline
<1>2. PICK g \in rep.todo :
         LET found == BaselineCandidate(Baseline(rep.query), g)
             ancestry == BaselineAncestry(g.repo, found.sha)
             failed(error) == [rep EXCEPT !.todo = @ \ {g},
                                          !.selections = Put(NoBaseline(g, error))]
         IN  rep' = CASE found.error # None -> failed(found.error)
                      [] found.error = None /\ ancestry = <<>> -> failed("unknown_baseline_candidate")
                      [] OTHER -> [rep EXCEPT !.pc = "find", !.run = g, !.depth = 1,
                                              !.ancestry = ancestry, !.candidates = {}]
    BY DEF ResolveBaseline
<1> DEFINE found == BaselineCandidate(Baseline(rep.query), g)
           ancestry == BaselineAncestry(g.repo, found.sha)
<1>3. /\ g \in rep.runs /\ Commit[g.sha].repo = g.repo /\ \A h \in rep.runs : h.sha = g.sha
      /\ rep.query.baselineRunIDs = <<>> /\ \A h \in rep.runs \ rep.todo : Selected(h)
    BY <1>1 DEF RunsInv, SelectionsInv, Running, Searching
<1>4. \/ \E error : rep' = [rep EXCEPT !.todo = @ \ {g}, !.selections = Put(NoBaseline(g, error))]
      \/ rep' = [rep EXCEPT !.pc = "find", !.run = g, !.depth = 1, !.ancestry = ancestry,
                            !.candidates = {}]
  <2> HIDE DEF found, ancestry
  <2>1. rep' = CASE found.error # None ->
                      [rep EXCEPT !.todo = @ \ {g}, !.selections = Put(NoBaseline(g, found.error))]
                 [] found.error = None /\ ancestry = <<>> ->
                      [rep EXCEPT !.todo = @ \ {g},
                                  !.selections = Put(NoBaseline(g, "unknown_baseline_candidate"))]
                 [] OTHER -> [rep EXCEPT !.pc = "find", !.run = g, !.depth = 1,
                                         !.ancestry = ancestry, !.candidates = {}]
    BY <1>2, Zenon DEF found, ancestry
  <2> QED
    BY <2>1
<1>5. CASE \E error : rep' = [rep EXCEPT !.todo = @ \ {g},
                                         !.selections = Put(NoBaseline(g, error))]
  <2>1. PICK error : rep' = [rep EXCEPT !.todo = @ \ {g},
                                        !.selections = Put(NoBaseline(g, error))]
    BY <1>5
  <2> DEFINE s == NoBaseline(g, error)
  <2>2. s.run = g.run /\ s.sha = g.sha /\ s.base.run = NoRun
    BY DEF NoBaseline
  <2> HIDE DEF s
  <2>3. /\ rep'.pc = "baseline" /\ rep'.status = rep.status /\ rep'.query = rep.query
        /\ rep'.start = rep.start /\ rep'.runs = rep.runs /\ rep'.fingerprints = rep.fingerprints
        /\ rep'.todo = rep.todo \ {g} /\ rep'.selections = Put(s)
    BY <1>1, <2>1 DEF IsRequest, s
  <2>4. IsRequest'
    BY <1>1, <2>1, ZenonT(40) DEF IsRequest, Places
  <2>5. StoreInv'
    BY <1>1, <2>3 DEF StoreInv, storeVars
  <2>6. Untouched' = Untouched
    BY <1>1, <2>3 DEF Untouched, storeVars
  <2>7. RunsInv'
    BY <1>1, <2>3, <2>6 DEF RunsInv, Running, Searching
  <2>8. \A h \in rep.runs \ (rep.todo \ {g}) : \E t \in Put(s) : t.run = h.run /\ t.sha = h.sha
    BY <1>3, <2>2, PutSelects
  <2>9. SelectionsInv'
    BY <1>1, <1>3, <2>3, <2>8 DEF SelectionsInv, Searching, Selected
  <2>10. ComparedInv'
    BY <1>1, <2>3, <2>6 DEF ComparedInv, ReportCoversItsRuns, ReportStatuses, None
  <2>11. AutomaticBaselineIsAnAncestorsRun'
    BY <1>1, <1>3, <2>2, <2>3, PutFound DEF SearchInv, storeVars
  <2>12. SearchInv'
    BY <2>3, <2>11 DEF SearchInv
  <2> QED
    BY <1>1, <2>3, <2>4, <2>5, <2>7, <2>9, <2>10, <2>12 DEF ReportInv
<1>6. CASE rep' = [rep EXCEPT !.pc = "find", !.run = g, !.depth = 1, !.ancestry = ancestry,
                              !.candidates = {}]
  <2> HIDE DEF ancestry
  <2>1. /\ rep'.pc = "find" /\ rep'.status = rep.status /\ rep'.query = rep.query
        /\ rep'.start = rep.start /\ rep'.runs = rep.runs /\ rep'.fingerprints = rep.fingerprints
        /\ rep'.todo = rep.todo /\ rep'.selections = rep.selections /\ rep'.run = g
        /\ rep'.depth = 1 /\ rep'.ancestry = ancestry /\ rep'.candidates = {}
    BY <1>1, <1>6 DEF IsRequest
  <2>2. IsRequest'
    BY <1>1, <1>6, ZenonT(40) DEF IsRequest, Places
  <2>3. StoreInv'
    BY <1>1, <2>1 DEF StoreInv, storeVars
  <2>4. Untouched' = Untouched
    BY <1>1, <2>1 DEF Untouched, storeVars
  <2>5. RunsInv'
    BY <1>1, <2>1, <2>4 DEF RunsInv, Running, Searching
  <2>6. SelectionsInv'
    BY <1>1, <2>1 DEF SelectionsInv, Searching, Selected
  <2>7. ComparedInv'
    BY <1>1, <2>1, <2>4 DEF ComparedInv, ReportCoversItsRuns, ReportStatuses, None
  <2>8. AutomaticBaselineIsAnAncestorsRun'
    BY <1>1, <2>1, SelectionsStay DEF SearchInv, storeVars
  <2>9. rep'.ancestry = BaselineAncestry(rep'.run.repo,
                            BaselineCandidate(Baseline(rep'.query), rep'.run).sha)
    BY <2>1, Zenon DEF ancestry
  <2>10. SearchInv'
    BY <2>1, <2>8, <2>9, FS_EmptySet DEF SearchInv
  <2> QED
    BY <1>1, <2>1, <2>2, <2>3, <2>5, <2>6, <2>7, <2>10 DEF ReportInv
<1> QED
    BY <1>4, <1>5, <1>6

\* The runs of a commit are looked for, one commit further each time.
LEMMA FindRunsInv ==
    ASSUME ReportInv, FindRuns
    PROVE  ReportInv'
<1> DEFINE groups == {h \in RunsByCommit(rep.run.repo, rep.ancestry[rep.depth]) :
                          CandidateRun(rep.run, h)}
<1>1. /\ IsRequest /\ StoreInv /\ RunsInv /\ SelectionsInv /\ ComparedInv /\ SearchInv
      /\ rep.pc = "find" /\ rep.status = None /\ UNCHANGED storeVars /\ rep.depth <= Len(rep.ancestry)
    BY DEF ReportInv, FindRuns
<1>2. \/ rep' = [rep EXCEPT !.depth = @ + 1]
      \/ \E meta \in SUBSET groups : rep' = [rep EXCEPT !.pc = "findrows", !.meta = meta]
    BY DEF FindRuns
<1>3. \A g, key : rep'.query = rep.query /\ rep'.fingerprints = rep.fingerprints
                  /\ Found(g, key) => Found(g, key)'
    BY <1>1 DEF Found, Fingerprints, storeVars, Baseline
<1>4. /\ rep.ancestry = BaselineAncestry(rep.run.repo,
                            BaselineCandidate(Baseline(rep.query), rep.run).sha)
      /\ rep.depth \in Nat \ {0} /\ IsFiniteSet(rep.candidates)
      /\ \A a \in rep.candidates : a \in Candidate /\ Found(rep.run, a.key)
    BY <1>1 DEF SearchInv
<1>5. CASE rep' = [rep EXCEPT !.depth = @ + 1]
  <2>1. /\ rep'.pc = "find" /\ rep'.status = rep.status /\ rep'.query = rep.query
        /\ rep'.start = rep.start /\ rep'.runs = rep.runs /\ rep'.fingerprints = rep.fingerprints
        /\ rep'.todo = rep.todo /\ rep'.selections = rep.selections /\ rep'.run = rep.run
        /\ rep'.depth = rep.depth + 1 /\ rep'.ancestry = rep.ancestry
        /\ rep'.candidates = rep.candidates
    BY <1>1, <1>5 DEF IsRequest
  <2>2. IsRequest'
    BY <1>1, <1>5, ZenonT(40) DEF IsRequest, Places
  <2>3. StoreInv'
    BY <1>1, <2>1 DEF StoreInv, storeVars
  <2>4. Untouched' = Untouched
    BY <1>1, <2>1 DEF Untouched, storeVars
  <2>5. RunsInv'
    BY <1>1, <2>1, <2>4 DEF RunsInv, Running, Searching
  <2>6. SelectionsInv'
    BY <1>1, <2>1 DEF SelectionsInv, Searching, Selected
  <2>7. ComparedInv'
    BY <1>1, <2>1, <2>4 DEF ComparedInv, ReportCoversItsRuns, ReportStatuses, None
  <2>8. AutomaticBaselineIsAnAncestorsRun'
    BY <1>1, <2>1, SelectionsStay DEF SearchInv, storeVars
  <2>9. rep'.depth \in Nat \ {0}
    BY <1>4, <2>1
  <2>10. SearchInv'
    BY <1>3, <1>4, <2>1, <2>8, <2>9 DEF SearchInv, Baseline
  <2> QED
    BY <1>1, <2>1, <2>2, <2>3, <2>5, <2>6, <2>7, <2>10 DEF ReportInv
<1>6. CASE \E meta \in SUBSET groups : rep' = [rep EXCEPT !.pc = "findrows", !.meta = meta]
  <2>0. PICK meta \in SUBSET groups : rep' = [rep EXCEPT !.pc = "findrows", !.meta = meta]
    BY <1>6
  <2>1. IsFiniteSet(meta)
    <3> DEFINE here == {x \in results : /\ Result[x].sha = rep.ancestry[rep.depth]
                                        /\ rep.ancestry[rep.depth] # NoSha
                                        /\ Commit[rep.ancestry[rep.depth]].repo = rep.run.repo}
               row == [x \in here |-> Group(x)]
    <3>1. IsFiniteSet(here)
      BY <1>1, FS_Subset DEF StoreInv
    <3>2. RunsByCommit(rep.run.repo, rep.ancestry[rep.depth]) = {row[x] : x \in here}
      BY Zenon DEF RunsByCommit
    <3> HIDE DEF here, row
    <3>3. IsFiniteSet(RunsByCommit(rep.run.repo, rep.ancestry[rep.depth]))
      BY <3>1, <3>2, FiniteImage
    <3> QED
      BY <3>3, FS_Subset
  <2>2. \A h \in meta : /\ h \in GroupRow /\ CandidateRun(rep.run, h)
                        /\ h.sha = rep.ancestry[rep.depth] /\ h.sha \in DOMAIN Commit
    BY <1>1, RunsOfCommit DEF StoreInv
  <2> HIDE DEF groups
  <2>3. /\ rep'.pc = "findrows" /\ rep'.status = rep.status /\ rep'.query = rep.query
        /\ rep'.start = rep.start /\ rep'.runs = rep.runs /\ rep'.fingerprints = rep.fingerprints
        /\ rep'.todo = rep.todo /\ rep'.selections = rep.selections /\ rep'.run = rep.run
        /\ rep'.depth = rep.depth /\ rep'.ancestry = rep.ancestry
        /\ rep'.candidates = rep.candidates /\ rep'.meta = meta
    BY <1>1, <2>0 DEF IsRequest
  <2>4. IsRequest'
    BY <1>1, <2>0, ZenonT(40) DEF IsRequest, Places
  <2>5. StoreInv'
    BY <1>1, <2>3 DEF StoreInv, storeVars
  <2>6. Untouched' = Untouched
    BY <1>1, <2>3 DEF Untouched, storeVars
  <2>7. RunsInv'
    BY <1>1, <2>3, <2>6 DEF RunsInv, Running, Searching
  <2>8. SelectionsInv'
    BY <1>1, <2>3 DEF SelectionsInv, Searching, Selected
  <2>9. ComparedInv'
    BY <1>1, <2>3, <2>6 DEF ComparedInv, ReportCoversItsRuns, ReportStatuses, None
  <2>10. AutomaticBaselineIsAnAncestorsRun'
    BY <1>1, <2>3, SelectionsStay DEF SearchInv, storeVars
  <2>11. SearchInv'
    BY <1>1, <1>3, <1>4, <2>1, <2>2, <2>3, <2>10 DEF SearchInv, Baseline
  <2> QED
    BY <1>1, <2>3, <2>4, <2>5, <2>7, <2>8, <2>9, <2>11 DEF ReportInv
<1> QED
    BY <1>2, <1>5, <1>6


\* Of results that were submitted the newest is one of them.
LEMMA NewestIs ==
    ASSUME NEW S \in SUBSET DOMAIN Result, IsFiniteSet(S), S # {}
    PROVE  Newest(S) \in S /\ \A s \in S \ {Newest(S)} : Newer(Newest(S), s)
<1> USE CIReportAssumption
<1> DEFINE R == {p \in S \X S : Newer(p[1], p[2])}
<1>1. \A x \in S : x \in Nat /\ Result[x].at \in Nat
    BY DEF ResultRow
<1>2. \A x \in S : <<x, x>> \notin R
    BY <1>1 DEF Newer
<1>3. \A x, y, z \in S : <<x, y>> \in R /\ <<y, z>> \in R => <<x, z>> \in R
    BY <1>1 DEF Newer
<1>4. \A x, y \in S : <<x, y>> \notin R => x = y \/ Newer(y, x)
    BY <1>1 DEF Newer
<1> HIDE DEF R
<1>5. PICK m \in S : \A x \in S : <<x, m>> \notin R
    BY <1>2, <1>3, FiniteHasFirst
<1>6. \A s \in S \ {m} : Newer(m, s)
    BY <1>4, <1>5
<1> QED
    BY <1>6, Zenon DEF Newest

\* Of the candidates there is always one that no other is better than.
LEMMA BestIs ==
    ASSUME NEW S \in SUBSET Candidate, IsFiniteSet(S), S # {}
    PROVE  (CHOOSE a \in S : \A b \in S : ~Better(b, a)) \in S
<1> DEFINE R == {p \in S \X S : Better(p[1], p[2])}
<1>1. \A x \in S : /\ x.same \in BOOLEAN /\ x.time \in Nat /\ x.at \in Nat
                   /\ x.key.run \in Nat /\ x.key.sha \in Nat
    BY DEF Candidate
<1>2. \A x \in S : <<x, x>> \notin R
    BY <1>1 DEF Better
<1>3. \A x, y, z \in S : Better(x, y) /\ Better(y, z) => Better(x, z)
    BY <1>1 DEF Better
<1>4. \A x, y, z \in S : <<x, y>> \in R /\ <<y, z>> \in R => <<x, z>> \in R
    BY <1>3
<1>5. \A x, y \in S : Better(x, y) => <<x, y>> \in R
    OBVIOUS
<1> HIDE DEF R
<1>6. PICK m \in S : \A x \in S : <<x, m>> \notin R
    BY <1>2, <1>4, FiniteHasFirst
<1>7. \A x \in S : ~Better(x, m)
    BY <1>5, <1>6
<1> QED
    BY <1>7, Zenon

\* The runs with results of the contender's series become candidates.
LEMMA FindRowsInv ==
    ASSUME ReportInv, FindRows
    PROVE  ReportInv'
<1> USE CIReportAssumption
<1> DEFINE rows(h) == {r \in ContenderIDs({Key(h)}) : Result[r].fp \in Fingerprints(rep.run.run)}
           found == {h \in rep.meta : rows(h) # {}}
           candidate(h) == [key |-> Key(h), same |-> h.reason = rep.run.reason, depth |-> rep.depth,
                            time |-> Commit[h.sha].time, at |-> Result[Newest(rows(h))].at]
           new == {candidate(h) : h \in found}
<1>1. /\ IsRequest /\ StoreInv /\ RunsInv /\ SelectionsInv /\ ComparedInv /\ SearchInv
      /\ rep.pc = "findrows" /\ rep.status = None /\ UNCHANGED storeVars
    BY DEF ReportInv, FindRows
<1>2. rep' = [rep EXCEPT !.pc = "find", !.depth = @ + 1, !.meta = {}, !.candidates = @ \cup new]
    BY DEF FindRows
<1>3. /\ rep.ancestry = BaselineAncestry(rep.run.repo,
                            BaselineCandidate(Baseline(rep.query), rep.run).sha)
      /\ rep.depth \in Nat \ {0} /\ IsFiniteSet(rep.candidates)
      /\ \A a \in rep.candidates : a \in Candidate /\ Found(rep.run, a.key)
      /\ rep.depth <= Len(rep.ancestry) /\ IsFiniteSet(rep.meta)
      /\ \A h \in rep.meta : /\ h \in GroupRow /\ CandidateRun(rep.run, h)
                             /\ h.sha = rep.ancestry[rep.depth] /\ h.sha \in DOMAIN Commit
    BY <1>1 DEF SearchInv
<1>4. IsFiniteSet(new)
  <2> DEFINE row == [h \in found |-> candidate(h)]
  <2>1. IsFiniteSet(found)
    BY <1>3, FS_Subset
  <2> HIDE DEF found, candidate
  <2>2. new = {row[h] : h \in found}
    BY Zenon
  <2> HIDE DEF new, row
  <2> QED
    BY <2>1, <2>2, FiniteImage
<1>5. ASSUME NEW a \in new PROVE a \in Candidate /\ Found(rep.run, a.key)
  <2>1. PICK h \in found : a = candidate(h)
    OBVIOUS
  <2>2. /\ h \in GroupRow /\ CandidateRun(rep.run, h) /\ h.sha = rep.ancestry[rep.depth]
        /\ h.sha \in DOMAIN Commit /\ rows(h) # {}
    BY <1>3
  <2>3. rows(h) \in SUBSET DOMAIN Result /\ IsFiniteSet(rows(h))
    BY <1>1, FS_Subset DEF ContenderIDs, StoreInv
  <2>4. \A r \in rows(h) : r \in results /\ KeyOf(r) = Key(h) /\ Result[r].fp \in Fingerprints(rep.run.run)
    BY DEF ContenderIDs
  <2> HIDE DEF rows
  <2>5. Newest(rows(h)) \in DOMAIN Result
    BY <2>2, <2>3, NewestIs
  <2>6. a.key = Key(h) /\ a \in Candidate
    <3>1. Result[Newest(rows(h))].at \in Nat /\ Commit[h.sha].time \in Nat
      BY <2>2, <2>5 DEF ResultRow, CommitRow
    <3>2. Key(h) \in [run : Nat, sha : Nat]
      BY <2>2 DEF Key, GroupRow
    <3> QED
      BY <1>3, <2>1, <3>1, <3>2 DEF Candidate
  <2>7. Key(h) # Key(rep.run)
    BY <2>2 DEF CandidateRun, Key
  <2>8. Key(h).sha \in Elements(BaselineAncestry(rep.run.repo,
                                    BaselineCandidate(Baseline(rep.query), rep.run).sha))
    <3>1. Len(rep.ancestry) \in Nat /\ \A n \in 1..Len(rep.ancestry) : rep.ancestry[n] \in Elements(rep.ancestry)
      BY <1>3, AncestryIsSeq
    <3>2. rep.depth \in 1..Len(rep.ancestry)
      BY <1>3, <3>1
    <3>3. h.sha \in Elements(rep.ancestry)
      BY <2>2, <3>1, <3>2
    <3> QED
      BY <1>3, <3>3 DEF Key
  <2>9. \E r \in DOMAIN Result \ unused : KeyOf(r) = Key(h) /\ Result[r].fp \in Fingerprints(rep.run.run)
    BY <1>1, <2>2, <2>4 DEF StoreInv
  <2> QED
    BY <2>6, <2>7, <2>8, <2>9 DEF Found
<1> HIDE DEF new
<1>6. /\ rep'.pc = "find" /\ rep'.status = rep.status /\ rep'.query = rep.query
      /\ rep'.start = rep.start /\ rep'.runs = rep.runs /\ rep'.fingerprints = rep.fingerprints
      /\ rep'.todo = rep.todo /\ rep'.selections = rep.selections /\ rep'.run = rep.run
      /\ rep'.depth = rep.depth + 1 /\ rep'.ancestry = rep.ancestry
      /\ rep'.candidates = rep.candidates \cup new
    BY <1>1, <1>2 DEF IsRequest
<1>7. IsRequest'
    BY <1>1, <1>2, ZenonT(40) DEF IsRequest, Places
<1>8. StoreInv'
    BY <1>1, <1>6 DEF StoreInv, storeVars
<1>9. Untouched' = Untouched
    BY <1>1, <1>6 DEF Untouched, storeVars
<1>10. RunsInv'
    BY <1>1, <1>6, <1>9 DEF RunsInv, Running, Searching
<1>11. SelectionsInv'
    BY <1>1, <1>6 DEF SelectionsInv, Searching, Selected
<1>12. ComparedInv'
    BY <1>1, <1>6, <1>9 DEF ComparedInv, ReportCoversItsRuns, ReportStatuses, None
<1>13. AutomaticBaselineIsAnAncestorsRun'
    BY <1>1, <1>6, SelectionsStay DEF SearchInv, storeVars
<1>14. \A g, key : Found(g, key) => Found(g, key)'
    BY <1>1, <1>6 DEF Found, Fingerprints, storeVars, Baseline
<1>15. rep'.depth \in Nat \ {0} /\ IsFiniteSet(rep'.candidates)
  <2>1. IsFiniteSet(rep.candidates \cup new)
    BY <1>3, <1>4, FS_Union
  <2> QED
    BY <1>3, <1>6, <2>1
<1>16. SearchInv'
    BY <1>3, <1>5, <1>6, <1>13, <1>14, <1>15 DEF SearchInv, Baseline
<1> QED
    BY <1>1, <1>6, <1>7, <1>8, <1>10, <1>11, <1>12, <1>16 DEF ReportInv

\* The search ends with its best candidate, or with none.
LEMMA BaselineFoundInv ==
    ASSUME ReportInv, BaselineFound
    PROVE  ReportInv'
<1> DEFINE g == rep.run
           best == CHOOSE a \in rep.candidates : \A b \in rep.candidates : ~Better(b, a)
           s == IF rep.candidates = {} THEN NoBaseline(g, "no_baseline_run")
                ELSE Chosen(g, best.key, best.depth - 1)
<1>1. /\ IsRequest /\ StoreInv /\ RunsInv /\ SelectionsInv /\ ComparedInv /\ SearchInv
      /\ rep.pc = "find" /\ rep.status = None /\ UNCHANGED storeVars
    BY DEF ReportInv, BaselineFound
<1>2. rep' = [rep EXCEPT !.pc = "baseline", !.todo = @ \ {g}, !.run = NoGroup,
                         !.ancestry = <<>>, !.depth = 0, !.candidates = {},
                         !.selections = Put(s)]
    BY Zenon DEF BaselineFound
<1>3. /\ g \in rep.runs /\ Commit[g.sha].repo = g.repo /\ \A h \in rep.runs : h.sha = g.sha
      /\ rep.query.baselineRunIDs = <<>> /\ \A h \in rep.runs \ rep.todo : Selected(h)
    BY <1>1 DEF RunsInv, SelectionsInv, Running, Searching
<1>4. s.run = g.run /\ s.sha = g.sha
    BY DEF NoBaseline, Chosen
<1>5. s.base.run = NoRun \/ Found(g, s.base)
  <2>1. CASE rep.candidates = {}
    BY <2>1 DEF NoBaseline
  <2>2. CASE rep.candidates # {}
    <3>1. best \in rep.candidates
      BY <1>1, <2>2, BestIs DEF SearchInv
    <3> HIDE DEF best
    <3>2. s.base = best.key
      BY <2>2 DEF Chosen
    <3> QED
      BY <1>1, <3>1, <3>2 DEF SearchInv
  <2> QED
    BY <2>1, <2>2
<1> HIDE DEF s
<1>6. /\ rep'.pc = "baseline" /\ rep'.status = rep.status /\ rep'.query = rep.query
      /\ rep'.start = rep.start /\ rep'.runs = rep.runs /\ rep'.fingerprints = rep.fingerprints
      /\ rep'.todo = rep.todo \ {g} /\ rep'.selections = Put(s)
    BY <1>1, <1>2 DEF IsRequest
<1>7. IsRequest'
    BY <1>1, <1>2, ZenonT(40) DEF IsRequest, Places
<1>8. StoreInv'
    BY <1>1, <1>6 DEF StoreInv, storeVars
<1>9. Untouched' = Untouched
    BY <1>1, <1>6 DEF Untouched, storeVars
<1>10. RunsInv'
    BY <1>1, <1>6, <1>9 DEF RunsInv, Running, Searching
<1>11. \A h \in rep.runs \ (rep.todo \ {g}) : \E t \in Put(s) : t.run = h.run /\ t.sha = h.sha
    BY <1>3, <1>4, PutSelects
<1>12. SelectionsInv'
    BY <1>1, <1>3, <1>6, <1>11 DEF SelectionsInv, Searching, Selected
<1>13. ComparedInv'
    BY <1>1, <1>6, <1>9 DEF ComparedInv, ReportCoversItsRuns, ReportStatuses, None
<1>14. AutomaticBaselineIsAnAncestorsRun'
    BY <1>1, <1>3, <1>4, <1>5, <1>6, PutFound DEF SearchInv, storeVars
<1>15. SearchInv'
    BY <1>6, <1>14 DEF SearchInv
<1> QED
    BY <1>1, <1>6, <1>7, <1>8, <1>10, <1>12, <1>13, <1>15 DEF ReportInv


-----------------------------------------------------------------------------
(* The comparisons. *)

\* Every untouched result is read, and it is an error row, a row without a
\* baseline row, or waits for its comparison.
LEMMA SelectRowsInv ==
    ASSUME ReportInv, SelectRows
    PROVE  ReportInv'
<1> DEFINE rows == SelectCIReportRows(RunKeys(rep.runs), BaseKeys)
           mine == {x \in rows : KeyOf(x.id) \in {Key(s) : s \in rep.selections}}
           errored == {x \in mine : Result[x.id].error}
           alone == {x \in mine \ errored : BaseRow(rows, x.id) = NoResult}
           done == [row : errored, status : {"errored"}]
                       \cup [row : alone, status : {"missing_baseline"}]
           waiting == mine \ (errored \cup alone)
<1>1. /\ IsRequest /\ StoreInv /\ RunsInv /\ SelectionsInv /\ ComparedInv /\ SearchInv
      /\ rep.pc \in {"select", "baseline"} /\ rep.status = None /\ UNCHANGED storeVars
      /\ rep.pc = "baseline" => rep.todo = {}
    BY DEF ReportInv, SelectRows
<1>2. rep' = [rep EXCEPT !.pc = "compare", !.rows = rows, !.comparisons = done, !.pending = waiting]
    BY Zenon DEF SelectRows
<1>3. \A g \in rep.runs : Selected(g)
    BY <1>1 DEF SelectionsInv, Searching
<1>4. ASSUME NEW r \in Untouched, Result[r].sha # NoSha
      PROVE  (\E x \in waiting : x.id = r) \/ (\E c \in done : c.row.id = r)
  <2>1. Group(r) \in rep.runs /\ r \in results
    BY <1>1, <1>4 DEF RunsInv, Running, Searching, Untouched
  <2>2. Key(Group(r)) \in RunKeys(rep.runs) /\ Key(Group(r)) = KeyOf(r)
    BY <1>4, <2>1 DEF RunKeys, Group, Key, KeyOf
  <2>3. r \in ContenderIDs(RunKeys(rep.runs))
    BY <2>1, <2>2 DEF ContenderIDs
  <2>4. PICK s \in rep.selections : s.run = Group(r).run /\ s.sha = Group(r).sha
    BY <1>3, <2>1 DEF Selected
  <2>5. Key(s) = KeyOf(r)
    BY <2>4 DEF Key, KeyOf, Group
  <2> DEFINE x == [id |-> r, side |-> 0]
  <2>6. x \in rows /\ x.id = r
    BY <2>3 DEF SelectCIReportRows
  <2> HIDE DEF rows, x
  <2>7. x \in mine
    BY <2>4, <2>5, <2>6
  <2> HIDE DEF mine
  <2>8. CASE x \in errored
    <3>1. [row |-> x, status |-> "errored"] \in done
      BY <2>8
    <3> QED
      BY <2>6, <3>1
  <2>9. CASE x \in alone
    <3>1. [row |-> x, status |-> "missing_baseline"] \in done
      BY <2>9
    <3> QED
      BY <2>6, <3>1
  <2> QED
    BY <2>6, <2>7, <2>8, <2>9
<1> HIDE DEF rows, done, waiting
<1>5. /\ rep'.pc = "compare" /\ rep'.status = rep.status /\ rep'.query = rep.query
      /\ rep'.start = rep.start /\ rep'.runs = rep.runs /\ rep'.fingerprints = rep.fingerprints
      /\ rep'.selections = rep.selections /\ rep'.comparisons = done /\ rep'.pending = waiting
    BY <1>1, <1>2 DEF IsRequest
<1>6. IsRequest'
    BY <1>1, <1>2, ZenonT(40) DEF IsRequest, Places
<1>7. StoreInv'
    BY <1>1, <1>5 DEF StoreInv, storeVars
<1>8. Untouched' = Untouched
    BY <1>1, <1>5 DEF Untouched, storeVars
<1>9. RunsInv' /\ SelectionsInv'
    BY <1>1, <1>5, <1>8 DEF RunsInv, SelectionsInv, Running, Searching
<1>10. ComparedInv'
    BY <1>1, <1>4, <1>5, <1>8 DEF ComparedInv, ReportCoversItsRuns, ReportStatuses, None
<1>11. AutomaticBaselineIsAnAncestorsRun'
    BY <1>1, <1>5, SelectionsStay DEF SearchInv, storeVars
<1>12. SearchInv'
    BY <1>5, <1>11 DEF SearchInv
<1> QED
    BY <1>1, <1>5, <1>6, <1>7, <1>9, <1>10, <1>12 DEF ReportInv

\* A row goes from those that wait to those compared, or the request fails.
LEMMA CompareRowInv ==
    ASSUME ReportInv, CompareRow
    PROVE  ReportInv'
<1> DEFINE x == First(rep.pending)
<1>1. /\ IsRequest /\ StoreInv /\ RunsInv /\ SelectionsInv /\ ComparedInv /\ SearchInv
      /\ rep.pc = "compare" /\ rep.status = None /\ UNCHANGED storeVars
    BY DEF ReportInv, CompareRow
<1>2. \/ \E status : rep' = [rep EXCEPT !.pending = @ \ {x},
                                        !.comparisons = @ \cup {[row |-> x, status |-> status]}]
      \/ rep' = Answer("not_found")
    BY Zenon DEF CompareRow
<1>3. CASE rep' = Answer("not_found")
    BY <1>1, <1>3, AnswerEnds
<1>4. CASE \E status : rep' = [rep EXCEPT !.pending = @ \ {x},
                                          !.comparisons = @ \cup {[row |-> x, status |-> status]}]
  <2>0. PICK status : rep' = [rep EXCEPT !.pending = @ \ {x},
                                         !.comparisons = @ \cup {[row |-> x, status |-> status]}]
    BY <1>4
  <2> HIDE DEF x
  <2>1. /\ rep'.pc = "compare" /\ rep'.status = rep.status /\ rep'.query = rep.query
        /\ rep'.start = rep.start /\ rep'.runs = rep.runs /\ rep'.fingerprints = rep.fingerprints
        /\ rep'.selections = rep.selections /\ rep'.pending = rep.pending \ {x}
        /\ rep'.comparisons = rep.comparisons \cup {[row |-> x, status |-> status]}
    BY <1>1, <2>0 DEF IsRequest
  <2>2. IsRequest'
    BY <1>1, <2>0, ZenonT(40) DEF IsRequest, Places
  <2>3. StoreInv'
    BY <1>1, <2>1 DEF StoreInv, storeVars
  <2>4. Untouched' = Untouched
    BY <1>1, <2>1 DEF Untouched, storeVars
  <2>5. RunsInv' /\ SelectionsInv'
    BY <1>1, <2>1, <2>4 DEF RunsInv, SelectionsInv, Running, Searching
  <2>6. ASSUME NEW r \in Untouched, Result[r].sha # NoSha
        PROVE  (\E y \in rep'.pending : y.id = r) \/ (\E c \in rep'.comparisons : c.row.id = r)
    <3> DEFINE d == [row |-> x, status |-> status]
    <3>1. d \in rep'.comparisons /\ d.row = x
      BY <2>1
    <3>2. (\E y \in rep.pending : y.id = r) \/ (\E c \in rep.comparisons : c.row.id = r)
      BY <1>1, <2>6 DEF ComparedInv
    <3> HIDE DEF d
    <3> QED
      BY <2>1, <3>1, <3>2
  <2>7. ComparedInv'
    BY <1>1, <2>1, <2>4, <2>6 DEF ComparedInv, ReportCoversItsRuns, ReportStatuses, None
  <2>8. AutomaticBaselineIsAnAncestorsRun'
    BY <1>1, <2>1, SelectionsStay DEF SearchInv, storeVars
  <2>9. SearchInv'
    BY <2>1, <2>8 DEF SearchInv
  <2> QED
    BY <1>1, <2>1, <2>2, <2>3, <2>5, <2>7, <2>9 DEF ReportInv
<1> QED
    BY <1>2, <1>3, <1>4

\* The answer: no row waits, and success and skipped are said of whole runs
\* without a regressed or errored row only.
LEMMA DeriveInv ==
    ASSUME ReportInv, Derive
    PROVE  ReportInv'
<1> DEFINE st == DeriveStatus
<1>1. /\ IsRequest /\ StoreInv /\ RunsInv /\ SelectionsInv /\ ComparedInv /\ SearchInv
      /\ rep.pc = "compare" /\ rep.pending = {} /\ rep.status = None /\ UNCHANGED storeVars
    BY DEF ReportInv, Derive
<1>2. rep' = [rep EXCEPT !.pc = "answered", !.status = st, !.pending = {}]
    BY DEF Derive, Answer
<1>3. st \in ReportStatuses
    BY DEF DeriveStatus, ReportStatuses
<1>4. st \in {"success", "skipped"} => RowsWith({"regressed", "errored"}) = {} /\ rep.missing = {}
    BY DEF DeriveStatus, RowsWith
<1> HIDE DEF st
<1>5. /\ rep'.pc = "answered" /\ rep'.status = st /\ rep'.query = rep.query
      /\ rep'.start = rep.start /\ rep'.fingerprints = rep.fingerprints /\ rep'.missing = rep.missing
      /\ rep'.selections = rep.selections /\ rep'.comparisons = rep.comparisons
    BY <1>1, <1>2 DEF IsRequest
<1>6. IsRequest'
    BY <1>1, <1>2, ZenonT(40) DEF IsRequest, Places
<1>7. StoreInv'
    BY <1>1, <1>5 DEF StoreInv, storeVars
<1>8. Untouched' = Untouched
    BY <1>1, <1>5 DEF Untouched, storeVars
<1>9. RunsInv' /\ SelectionsInv'
    BY <1>5 DEF RunsInv, SelectionsInv, Running, Searching
<1>10. ReportCoversItsRuns'
    BY <1>1, <1>5, <1>8 DEF ComparedInv, ReportCoversItsRuns
<1>11. ComparedInv'
    BY <1>1, <1>4, <1>5, <1>10 DEF ComparedInv, RowsWith
<1>12. AutomaticBaselineIsAnAncestorsRun'
    BY <1>1, <1>5, SelectionsStay DEF SearchInv, storeVars
<1>13. SearchInv'
    BY <1>5, <1>12 DEF SearchInv
<1> QED
    BY <1>5, <1>6, <1>7, <1>9, <1>11, <1>13 DEF ReportInv

\* No step of the server or of the store breaks the invariant.
LEMMA ReportInvStep == ReportInv /\ [Next]_vars => ReportInv'
<1> SUFFICES ASSUME ReportInv, [Next]_vars PROVE ReportInv'
    OBVIOUS
<1>1. CASE \E q \in Queries : Request(q)
    BY <1>1, RequestInv
<1>2. CASE ReportStep
    BY <1>2, SelectRunsInv, CountRowsInv, SelectContendersInv, SelectExplicitBaselinesInv,
       ResolveBaselineInv, FindRunsInv, FindRowsInv, BaselineFoundInv, SelectRowsInv,
       CompareRowInv, DeriveInv DEF ReportStep
<1>3. CASE Fail
    BY <1>3, FailInv
<1>4. CASE StoreStep
    BY <1>4, StoreStepInv
<1>5. CASE UNCHANGED vars
  <2>1. results' = results /\ unused' = unused /\ rep' = rep
    BY <1>5 DEF vars
  <2> QED
    BY <2>1 DEF ReportInv, IsRequest, StoreInv, RunsInv, SelectionsInv, ComparedInv, SearchInv,
        ReportCoversItsRuns, AutomaticBaselineIsAnAncestorsRun, Untouched, Searching, Running,
        Selected, RowsWith, Found, Fingerprints
<1> QED
    BY <1>1, <1>2, <1>3, <1>4, <1>5 DEF Next


-----------------------------------------------------------------------------
(* The command. *)

CliPlaces == {"off", "waiting", "write", "check", "pulls", "comment", "exit", "exited"}

\* How far the command is, it has written the report it was given and published
\* what had to be published by then.
CommandInv ==
    /\ cli \in [pc : CliPlaces, opts : {cli.opts}, exit : {0, 1, 2}, written : {cli.written}]
    /\ cli.pc \in {"write", "check", "pulls", "comment", "exit"} =>
         rep.pc = "answered" /\ rep.status \in ReportStatuses
    /\ cli.pc \in {"check", "pulls", "comment", "exit"} => cli.written = rep.status
    /\ cli.pc = "check" => Publishes(cli.opts)
    /\ cli.pc \in {"pulls", "comment"} => rep.status \in checks
    /\ cli.pc = "exit" => /\ Publishes(cli.opts) => rep.status \in checks
                          /\ cli.opts.comment => rep.status \in comments
    /\ cli.pc = "exited" /\ cli.exit \in {0, 1} => rep.pc = "answered"
    /\ ExitCodeIsTheReport

CmdInv == ReportInv /\ CommandInv

\* The command starts with nothing written, published or asked for.
LEMMA CmdInvInit == CmdInit => CmdInv
<1> SUFFICES ASSUME CmdInit PROVE CmdInv
    OBVIOUS
<1>1. cli = [pc |-> "off", opts |-> NoOptions, exit |-> 0, written |-> None]
    BY DEF CmdInit
<1>2. CommandInv
    BY <1>1 DEF CommandInv, CliPlaces, ExitCodeIsTheReport
<1>3. ReportInv
    BY ReportInvInit DEF CmdInit
<1> QED
    BY <1>2, <1>3 DEF CmdInv

\* A request that is answered stays as it is.
LEMMA AnsweredStays ==
    ASSUME [Next]_vars, rep.pc = "answered"
    PROVE  rep' = rep
<1>1. CASE \E q \in Queries : Request(q)
    BY <1>1 DEF Request
<1>2. ~ReportStep
    BY DEF ReportStep, SelectRuns, CountRows, SelectContenders, SelectExplicitBaselines,
       ResolveBaseline, FindRuns, FindRows, BaselineFound, SelectRows, CompareRow, Derive
<1>3. ~Fail
    BY DEF Fail
<1>4. CASE StoreStep
    BY <1>4 DEF StoreStep, SubmitResult, DeleteResult
<1>5. CASE UNCHANGED vars
    BY <1>5 DEF vars
<1> QED
    BY <1>1, <1>2, <1>3, <1>4, <1>5 DEF Next

\* What the command does is a request to the report, or leaves the server alone.
LEMMA CommandKeepsServer == [CmdNext]_cmdVars => [Next]_vars
<1> SUFFICES ASSUME [CmdNext]_cmdVars PROVE [Next]_vars
    OBVIOUS
<1>1. CASE \E q \in Queries, o \in Options : Invoke(q, o)
    BY <1>1 DEF Invoke, ExitNow, Next, vars
<1>2. CASE CommandStep \/ LoseConnection
    BY <1>2 DEF CommandStep, Receive, WriteReport, FindPullRequest, Leave, CreateCheck,
        CreateComment, LoseConnection, ExitNow, vars
<1>3. CASE UNCHANGED cmdVars
    BY <1>3 DEF cmdVars, vars
<1> QED
    BY <1>1, <1>2, <1>3 DEF CmdNext, Next

\* A step of the command keeps what it knows of the report.
LEMMA CommandInvStep ==
    ASSUME CmdInv, [CmdNext]_cmdVars
    PROVE  CommandInv'
<1> USE DEF CliPlaces
<1>1. CommandInv /\ ReportInv /\ [Next]_vars
    BY CommandKeepsServer DEF CmdInv
<1>2. rep.pc = "answered" => rep' = rep
    BY <1>1, AnsweredStays
<1>3. ASSUME UNCHANGED cliVars PROVE CommandInv'
    BY <1>1, <1>2, <1>3 DEF cliVars, CommandInv, ExitCodeIsTheReport, RowsWith, Publishes
<1>4. ASSUME Exit(2) PROVE CommandInv'
  <2>1. /\ cli'.pc = "exited" /\ cli'.exit = 2
        /\ cli' \in [pc : CliPlaces, opts : {cli'.opts}, exit : {0, 1, 2}, written : {cli'.written}]
    BY <1>1, <1>4 DEF Exit, CommandInv
  <2> QED
    BY <2>1 DEF CommandInv, ExitCodeIsTheReport
<1>5. CASE \E q \in Queries, o \in Options : Invoke(q, o)
  <2>1. PICK q \in Queries, o \in Options : Invoke(q, o)
    BY <1>5
  <2>2. CASE cli' = [cli EXCEPT !.pc = "waiting", !.opts = o]
    BY <1>1, <2>2 DEF CommandInv, ExitCodeIsTheReport
  <2> QED
    BY <1>4, <2>1, <2>2 DEF Invoke, ExitNow
<1>6. CASE Receive
  <2>1. CASE ~ExitNow(2)
    BY <1>1, <1>6, <2>1 DEF Receive, CommandInv, ExitCodeIsTheReport
  <2> QED
    BY <1>4, <2>1 DEF ExitNow
<1>7. CASE LoseConnection
    BY <1>4, <1>7 DEF LoseConnection, ExitNow
<1>8. CASE WriteReport
  <2>1. CASE ~ExitNow(2)
    BY <1>1, <1>8, <2>1 DEF WriteReport, CommandInv, ExitCodeIsTheReport, Publishes
  <2> QED
    BY <1>4, <2>1 DEF ExitNow
<1>9. CASE \E done \in BOOLEAN : CreateCheck(done)
  <2>1. PICK done \in BOOLEAN : CreateCheck(done)
    BY <1>9
  <2>2. rep' = rep /\ comments' = comments
    BY <2>1 DEF CreateCheck
  <2>3. CASE Exit(2)
    BY <1>4, <2>3
  <2>4. CASE ~Exit(2)
    <3>1. rep.status \in checks'
      BY <1>1, <2>1, <2>4 DEF CreateCheck, CommandInv, ReportStatuses, Conclusion
    <3>2. cli' = [cli EXCEPT !.pc = IF ~cli.opts.comment THEN "exit"
                                    ELSE IF cli.opts.pr THEN "comment" ELSE "pulls"]
      BY <2>1, <2>4 DEF CreateCheck
    <3>3. cli.pc = "check"
      BY <2>1 DEF CreateCheck
    <3> QED
      BY <1>1, <2>2, <3>1, <3>2, <3>3 DEF CommandInv, ExitCodeIsTheReport, Publishes
  <2> QED
    BY <2>3, <2>4
<1>10. CASE FindPullRequest
  <2>1. CASE ~ExitNow(2)
    BY <1>1, <1>10, <2>1 DEF FindPullRequest, CommandInv, ExitCodeIsTheReport
  <2> QED
    BY <1>4, <2>1 DEF ExitNow
<1>11. CASE \E done \in BOOLEAN : CreateComment(done)
  <2>1. PICK done \in BOOLEAN : CreateComment(done)
    BY <1>11
  <2>2. rep' = rep /\ checks' = checks
    BY <2>1 DEF CreateComment
  <2>3. CASE Exit(2)
    BY <1>4, <2>3
  <2>4. CASE ~Exit(2)
    BY <1>1, <2>1, <2>2, <2>4 DEF CreateComment, CommandInv, ExitCodeIsTheReport, Publishes
  <2> QED
    BY <2>3, <2>4
<1>12. CASE Leave
  <2>1. /\ cli.pc = "exit" /\ rep' = rep /\ checks' = checks /\ comments' = comments
        /\ cli' = [cli EXCEPT !.pc = "exited", !.exit = ExitCode(rep.status)]
    BY <1>12 DEF Leave, ExitNow, Exit
  <2>2. /\ rep.pc = "answered" /\ rep.status \in ReportStatuses /\ cli.written = rep.status
        /\ Publishes(cli.opts) => rep.status \in checks
        /\ cli.opts.comment => rep.status \in comments
    BY <1>1, <2>1 DEF CommandInv
  <2>3. /\ cli'.pc = "exited" /\ cli'.exit = ExitCode(rep.status) /\ cli'.exit \in {0, 1, 2}
        /\ cli'.written = cli.written /\ cli'.opts = cli.opts
        /\ cli' \in [pc : CliPlaces, opts : {cli'.opts}, exit : {0, 1, 2}, written : {cli'.written}]
    BY <1>1, <2>1 DEF CommandInv, ExitCode
  <2>4. ExitCode(rep.status) = 0 => RowsWith({"regressed", "errored"}) = {} /\ rep.missing = {}
    BY <1>1, <2>2 DEF ExitCode, ReportStatuses, ReportInv, ComparedInv
  <2>5. ExitCodeIsTheReport'
    BY <2>1, <2>2, <2>3, <2>4 DEF ExitCodeIsTheReport, RowsWith, Publishes
  <2> QED
    BY <2>1, <2>2, <2>3, <2>5 DEF CommandInv
<1>13. CASE UNCHANGED cmdVars
    BY <1>3, <1>13 DEF cmdVars, cliVars
<1> QED
    BY <1>3, <1>5, <1>6, <1>7, <1>8, <1>9, <1>10, <1>11, <1>12, <1>13 DEF CmdNext, CommandStep

\* The inductive invariant of the report and of the command that asks for it.
THEOREM CommandInvariant == CmdSpec => []CmdInv
<1>1. CmdInv /\ [CmdNext]_cmdVars => CmdInv'
    BY CommandInvStep, CommandKeepsServer, ReportInvStep DEF CmdInv
<1> QED
    BY <1>1, CmdInvInit, PTL DEF CmdSpec

\* The report alone, whoever asks for it, has the report's part of it.
THEOREM ReportInvariant == Spec => []ReportInv
    BY ReportInvInit, ReportInvStep, PTL DEF Spec

\* A report is the whole of its runs: no result that was there from the first
\* statement to the last is left out, whatever is submitted or deleted meanwhile.
THEOREM ReportCoversItsRunsAlways == CmdSpec => []ReportCoversItsRuns
<1>1. CmdInv => ReportCoversItsRuns
    BY DEF CmdInv, ReportInv, ComparedInv
<1> QED
    BY <1>1, CommandInvariant, PTL

\* An automatic baseline is another run on the first-parent chain of the commit
\* the mode names, with a result of a series of the run it is the baseline of.
THEOREM AutomaticBaselineIsAnAncestorsRunAlways ==
    CmdSpec => []AutomaticBaselineIsAnAncestorsRun
<1>1. CmdInv => AutomaticBaselineIsAnAncestorsRun
    BY DEF CmdInv, ReportInv, SearchInv
<1> QED
    BY <1>1, CommandInvariant, PTL

\* A CI job that passes can be believed, and what it was to publish is on GitHub.
THEOREM ExitCodeIsTheReportAlways == CmdSpec => []ExitCodeIsTheReport
<1>1. CmdInv => ExitCodeIsTheReport
    BY DEF CmdInv, CommandInv
<1> QED
    BY <1>1, CommandInvariant, PTL

\* The server of the command is the report as anyone else may ask for it.
THEOREM CommandImplementsReport == CmdSpec => Spec
<1>1. CmdInit => Init
    BY DEF CmdInit
<1> QED
    BY <1>1, CommandKeepsServer, PTL DEF CmdSpec, Spec

-----------------------------------------------------------------------------
(* The lists (module Reads). *)

\* The first n rows: fewer than n are above each.
LEMMA TopIs ==
    ASSUME NEW S, NEW n, NEW key
    PROVE  \A x : x \in Top(S, n, key) <=>
                      x \in S /\ Cardinality({y \in S : Below(key[x], key[y])}) < n
    BY Zenon DEF Top

\* Keys are pairs of numbers, ordered by time or id.
LEMMA KeysArePairs ==
    ASSUME ListConstants, NEW r \in DOMAIN Row
    PROVE  /\ TimeOf(r) \in Nat
           /\ ResultKey[r] = <<0, r>> /\ ResultKey[r] \in Nat \X Nat
           /\ SeriesKey[r] = <<TimeOf(r), Row[r].fp>> /\ SeriesKey[r] \in Nat \X Nat
           /\ MemberKey[r] = <<TimeOf(r), r>> /\ MemberKey[r] \in Nat \X Nat
           /\ RecentKey[r] = <<Row[r].at, r>> /\ RecentKey[r] \in Nat \X Nat
<1>1. /\ r \in Nat /\ Row[r].commit \in DOMAIN ListCommit /\ Row[r].fp \in Nat /\ Row[r].at \in Nat
    BY DEF ListConstants
<1>2. TimeOf(r) \in Nat
    BY <1>1 DEF ListConstants, TimeOf
<1> QED
    BY <1>1, <1>2 DEF ResultKey, SeriesKey, MemberKey, RecentKey

\* The order of keys is a strict total order.
LEMMA BelowIsOrder ==
    ASSUME NEW a \in Nat \X Nat, NEW b \in Nat \X Nat, NEW c \in Nat \X Nat
    PROVE  /\ ~Below(a, a)
           /\ Below(a, b) /\ Below(b, c) => Below(a, c)
           /\ Below(a, b) => ~Below(b, a)
           /\ a = b \/ Below(a, b) \/ Below(b, a)
    BY DEF Below

\* ORDER BY ... LIMIT n: what is left out is not above what is taken.
LEMMA TopIsOnTop ==
    ASSUME NEW S, IsFiniteSet(S), NEW n \in Nat, NEW key,
           \A x \in S : key[x] \in Nat \X Nat,
           NEW x \in Top(S, n, key), NEW y \in S \ Top(S, n, key)
    PROVE  x \in S /\ ~Below(key[x], key[y])
<1> DEFINE Above(z) == {w \in S : Below(key[z], key[w])}
<1>1. x \in S /\ Cardinality(Above(x)) < n /\ ~(Cardinality(Above(y)) < n)
  <2>1. \A z : z \in Top(S, n, key) <=> z \in S /\ Cardinality(Above(z)) < n
    BY TopIs
  <2> HIDE DEF Above
  <2> QED
    BY <2>1
<1>2. \A z \in S : IsFiniteSet(Above(z)) /\ Cardinality(Above(z)) \in Nat
    BY FS_Subset, FS_CardinalityType
<1>3. ASSUME Below(key[x], key[y]) PROVE Above(y) \subseteq Above(x)
    BY <1>1, <1>3, BelowIsOrder
<1> HIDE DEF Above
<1>4. ASSUME Below(key[x], key[y]) PROVE FALSE
  <2>1. Cardinality(Above(y)) <= Cardinality(Above(x))
    BY <1>1, <1>2, <1>3, <1>4, FS_Subset
  <2> QED
    BY <1>1, <1>2, <2>1
<1> QED
    BY <1>1, <1>4

\* The ranks of finitely many rows with different keys are 0, 1, 2 and so on.
LEMMA RanksCount ==
    ASSUME NEW S, IsFiniteSet(S), NEW key, \A x \in S : key[x] \in Nat \X Nat,
           \A x, y \in S : key[x] = key[y] => x = y,
           NEW rank, rank = [x \in S |-> Cardinality({y \in S : Below(key[x], key[y])})]
    PROVE  rank \in Bijection(S, 0..(Cardinality(S) - 1))
<1> DEFINE ahead == [x \in S |-> {y \in S : Below(key[x], key[y])}]
<1>1. /\ ahead \in [S -> SUBSET S]
      /\ \A x, y \in S : y \in ahead[x] <=> Below(key[x], key[y])
      /\ rank = [x \in S |-> Cardinality(ahead[x])]
    OBVIOUS
<1> HIDE DEF ahead
<1>2. \A x \in S : x \notin ahead[x]
    BY <1>1, BelowIsOrder
<1>3. \A x, y \in S : y \in ahead[x] => ahead[y] \subseteq ahead[x]
    BY <1>1, BelowIsOrder
<1>4. \A x, y \in S : x # y => x \in ahead[y] \/ y \in ahead[x]
    BY <1>1, BelowIsOrder
<1> QED
    BY <1>1, <1>2, <1>3, <1>4, RanksCountAhead

\* A limited list is full if anything is left out, and that comes after it.
LEMMA TopIsFull ==
    ASSUME NEW S, IsFiniteSet(S), NEW n \in Nat, NEW key, \A x \in S : key[x] \in Nat \X Nat,
           \A x, y \in S : key[x] = key[y] => x = y,
           NEW y \in S \ Top(S, n, key)
    PROVE  /\ Cardinality(Top(S, n, key)) = n
           /\ \A x \in Top(S, n, key) : Below(key[y], key[x])
<1> DEFINE rank == [x \in S |-> Cardinality({z \in S : Below(key[x], key[z])})]
           size == Cardinality(S)
           T == Top(S, n, key)
<1>1. rank \in Bijection(S, 0..(size - 1))
    BY RanksCount
<1>2. T = {x \in S : rank[x] < n}
  <2> DEFINE Above(x) == {z \in S : Below(key[x], key[z])}
  <2>1. \A x : x \in T <=> x \in S /\ Cardinality(Above(x)) < n
    BY TopIs
  <2>2. rank = [x \in S |-> Cardinality(Above(x))]
    BY Zenon
  <2> HIDE DEF rank, Above, T
  <2> QED
    BY <2>1, <2>2
<1>3. size \in Nat
    BY FS_CardinalityType
<1>4. \A x \in T : Below(key[y], key[x])
    BY TopIsOnTop, BelowIsOrder, <1>2
<1> HIDE DEF rank, size
<1>5. \A x \in S : rank[x] \in 0..(size - 1)
    BY <1>1 DEF Bijection, Injection
<1>6. n <= size
    BY <1>2, <1>3, <1>5
<1>7. \A k \in 0..(size - 1) : \E x \in S : rank[x] = k
    BY <1>1 DEF Bijection, Surjection
<1>8. \A x, z \in S : rank[x] = rank[z] => x = z
    BY <1>1 DEF Bijection, Injection, IsInjective
<1> DEFINE taken == [x \in T |-> rank[x]]
<1>9. taken \in Bijection(T, 0..(n - 1))
  <2>1. \A x \in T : x \in S /\ rank[x] \in 0..(n - 1)
    BY <1>2, <1>3, <1>5
  <2>2. \A k \in 0..(n - 1) : \E x \in T : rank[x] = k
    BY <1>2, <1>3, <1>6, <1>7
  <2> HIDE DEF T
  <2> QED
    BY <1>8, <2>1, <2>2 DEF Bijection, Injection, Surjection, IsInjective
<1>10. IsFiniteSet(T) /\ Cardinality(0..(n - 1)) = n
  <2>1. IsFiniteSet(T)
    BY <1>2, FS_Subset
  <2>2. Cardinality(0..(n - 1)) = n
    BY FS_Interval
  <2> QED
    BY <2>1, <2>2
<1>11. Cardinality(T) = Cardinality(0..(n - 1))
  <2> HIDE DEF T, taken
  <2>1. ExistsBijection(T, 0..(n - 1))
    BY <1>9 DEF ExistsBijection
  <2> QED
    BY <1>10, <2>1, FS_Bijection
<1> QED
    BY <1>4, <1>10, <1>11

-----------------------------------------------------------------------------
(* The lists: the inductive invariant. *)

Moments == {"idle", "page", "members", "done"}

\* walk has the fields of a walk, its cursor is a key, and its rows exist.
IsWalk ==
    /\ walk \in [pc : Moments, query : {walk.query}, cursor : {walk.cursor}, page : {walk.page},
                 items : {walk.items}, quiet : BOOLEAN, start : {walk.start},
                 touched : {walk.touched}, removed : {walk.removed}, seen : {walk.seen},
                 again : {walk.again}]
    /\ walk.cursor = NoCursor \/ walk.cursor \in Nat \X Nat
    /\ walk.page \subseteq DOMAIN Row /\ IsFiniteSet(walk.page)
    /\ walk.pc = "idle" => walk = NoWalk
    /\ walk.pc # "idle" => walk.query \in ListQueries
    /\ walk.pc = "members" => walk.query.kind = "series"
    /\ walk.pc = "done" => walk.query.kind \in {"results", "series"}
    /\ listRows \subseteq DOMAIN Row /\ IsFiniteSet(listRows) /\ listUnused \subseteq DOMAIN Row
    /\ listRows \cap listUnused = {}

\* What is not written to during a walk stays, and nothing else appears.
HistoryInv ==
    walk.pc # "idle" => /\ walk.start \subseteq DOMAIN Row /\ walk.start \cap listUnused = {}
                        /\ walk.start \subseteq listRows \cup walk.touched
                        /\ listRows \subseteq walk.start \cup walk.touched

\* The rows a series list asks for, wherever the cursor is.
Listable(q, r) ==
    /\ Member(r) /\ Active(q, TimeOf(r)) /\ (q.repo = Unset \/ Row[r].repo = q.repo)
    /\ q.search => CaseOf[Row[r].fp] \in q.cases

Removed(n) == \E r \in walk.removed : Row[r].fp = n

\* A row that is still there keeps its series from being listed again.
Kept(n) ==
    \E r \in listRows : Row[r].fp = n /\ Listable(walk.query, r) /\ ~Past(SeriesKey[r], walk.cursor)

\* What is listed is at or above the cursor, as long as it is there.
SeenInv ==
    /\ walk.pc # "idle" /\ walk.query.kind = "results" =>
         /\ walk.again = {}
         /\ walk.pc = "page" =>
              \A n \in walk.seen : n \in DOMAIN Row /\ ~Past(ResultKey[n], walk.cursor)
    /\ walk.pc # "idle" /\ walk.query.kind = "series" /\ walk.query.fp = Unset =>
         /\ \A n \in walk.again : Removed(n)
         /\ walk.pc \in {"page", "members"} => \A n \in walk.seen : Removed(n) \/ Kept(n)
         /\ walk.pc = "members" =>
              \A r \in walk.page :
                /\ Past(SeriesKey[r], walk.cursor)
                /\ r \in walk.removed \/ (r \in listRows /\ Listable(walk.query, r))
                /\ Row[r].fp \in walk.seen => Removed(Row[r].fp)
    /\ walk.pc # "idle" /\ walk.query.kind \notin {"results", "series"} => walk.again = {}

\* Between the two statements of a page nothing changes but by a write.
AgreeInv ==
    /\ walk.pc = "members" /\ walk.quiet => walk.page = SelectSeriesPage(walk.query, walk.cursor)
    /\ PageAndMembersAgree

\* The series there were at the beginning that no one has written to.
QuietRows ==
    {r \in walk.start : /\ Member(r) /\ \A t \in walk.touched : Row[t].fp # Row[r].fp
                        /\ Active(walk.query, TimeOf(r))
                        /\ walk.query.repo = Unset \/ Row[r].repo = walk.query.repo}

InWindow(q, c) ==
    Cardinality({d \in DefaultCommits(q) : ListCommit[d].time > ListCommit[c].time})
      < (IF q.search THEN QRecentLimit ELSE BrowseLimit)

\* The rows the list of q does not promise.
NotPromised(q, r) ==
    \/ q.fp # Unset /\ (Row[r].fp # q.fp \/ (q.search /\ CaseOf[q.fp] \notin q.cases))
    \/ q.fp = Unset /\ q.search /\ CaseOf[Row[r].fp] \notin q.cases
    \/ /\ q.fp = Unset /\ (q.search => ~seriesQNeedsCompleteSearch(q))
       /\ (q.search => Cardinality(q.cases) > CompleteCaseLimit)
       /\ ~InWindow(q, Row[r].commit)

\* What is to be listed has been, is on the page or comes after it.
Listed(r) == NotPromised(walk.query, r) \/ Row[r].fp \in walk.seen

MissedInv ==
    /\ walk.pc # "idle" /\ walk.query.kind = "results" =>
         \A r \in walk.start \cap listRows :
           walk.query.run = Unset \/ Row[r].run = walk.query.run =>
             \/ r \in walk.seen
             \/ walk.pc = "page" /\ Past(ResultKey[r], walk.cursor)
    /\ walk.pc # "idle" /\ walk.query.kind = "series" =>
         \A r \in Latest(QuietRows) :
           \/ Listed(r)
           \/ walk.pc = "page" /\ Past(SeriesKey[r], walk.cursor)
           \/ walk.pc = "members" /\ r \in walk.page
           \/ walk.pc = "members" /\ Cardinality(walk.page) = PageSize
              /\ \A s \in walk.page : Below(SeriesKey[r], SeriesKey[s])

ListInv ==
    IsWalk /\ HistoryInv /\ SeenInv /\ AgreeInv /\ MissedInv /\ RecentRunsAreTheNewest

-----------------------------------------------------------------------------
(* A page of series. *)

\* The members a series list other than a lookup is made of: of complete
\* searches all, of the others those in the window that were not listed before.
Complete(q) == Cardinality(q.cases) <= CompleteCaseLimit \/ seriesQNeedsCompleteSearch(q)

RecentOnly(q, cursor) ==
    {r \in Members(q) : /\ Row[r].commit \in RecentCommits(DefaultCommits(q), QRecentLimit, cursor, TRUE)
                        /\ CaseOf[Row[r].fp] \in q.cases}

BrowseOnly(q, cursor) == {r \in Members(q) : Row[r].commit \in BrowseCommits(q, cursor)}

Pool(q, cursor) ==
    IF ~q.search THEN NotListed(BrowseOnly(q, cursor), Members(q), cursor)
    ELSE IF Complete(q) THEN {r \in Members(q) : CaseOf[Row[r].fp] \in q.cases}
    ELSE NotListed(RecentOnly(q, cursor), {r \in listRows : Member(r)}, cursor)

Lookup(q, cursor) ==
    {r \in Members(q) : /\ Row[r].fp = q.fp /\ Past(SeriesKey[r], cursor)
                        /\ (~q.search \/ CaseOf[q.fp] \in q.cases)}

\* The rows a page is the first PageSize of.
Source(q, cursor) ==
    IF q.fp # Unset THEN Latest(Lookup(q, cursor))
    ELSE {r \in Latest(Pool(q, cursor)) : Past(SeriesKey[r], cursor)}

\* Whichever query answers, a page is the top of its source.
LEMMA PageIsTop ==
    ASSUME NEW q, NEW cursor
    PROVE  SelectSeriesPage(q, cursor) = Top(Source(q, cursor), PageSize, SeriesKey)
<1>1. CASE q.fp # Unset
  <2>1. SelectSeriesPage(q, cursor) = SelectSeriesPageForFingerprint(q, cursor)
    BY <1>1, Zenon DEF SelectSeriesPage
  <2>2. Source(q, cursor) = Latest(Lookup(q, cursor))
    BY <1>1, Zenon DEF Source
  <2> QED
    BY <2>1, <2>2, Zenon DEF SelectSeriesPageForFingerprint, Lookup
<1>2. CASE q.fp = Unset
  <2>1. \A M : PageOf(M, cursor) = Top({r \in Latest(M) : Past(SeriesKey[r], cursor)}, PageSize, SeriesKey)
    BY Zenon DEF PageOf
  <2>2. Source(q, cursor) = {r \in Latest(Pool(q, cursor)) : Past(SeriesKey[r], cursor)}
    BY <1>2, Zenon DEF Source
  <2>3. SelectSeriesPage(q, cursor) = PageOf(Pool(q, cursor), cursor)
    <3>1. CASE ~q.search
      <4>1. SelectSeriesPage(q, cursor) = SelectSeriesBrowsePage(q, cursor)
        BY <1>2, <3>1, Zenon DEF SelectSeriesPage
      <4> QED
        BY <3>1, <4>1, Zenon DEF SelectSeriesBrowsePage, Pool, BrowseOnly
    <3>2. CASE q.search /\ Complete(q)
      <4>1. SelectSeriesPage(q, cursor) = SelectSeriesPageForQCaseIDs(q, cursor)
        BY <1>2, <3>2, Zenon DEF SelectSeriesPage, Complete
      <4> QED
        BY <3>2, <4>1, Zenon DEF SelectSeriesPageForQCaseIDs, Pool
    <3>3. CASE q.search /\ ~Complete(q)
      <4>1. SelectSeriesPage(q, cursor) = SelectSeriesPageForQRecent(q, cursor)
        BY <1>2, <3>3, Zenon DEF SelectSeriesPage, Complete
      <4> QED
        BY <3>3, <4>1, Zenon DEF SelectSeriesPageForQRecent, Pool, RecentOnly
    <3> QED
      BY <3>1, <3>2, <3>3
  <2> QED
    BY <2>1, <2>2, <2>3, Zenon
<1> QED
    BY <1>1, <1>2

\* With a commit the window has every newer one that is not above the cursor.
LEMMA WindowIsUpward ==
    ASSUME ListConstants, NEW cands \in SUBSET DOMAIN ListCommit, NEW limit, NEW all,
           NEW cursor, cursor = NoCursor \/ cursor \in Nat \X Nat,
           NEW c \in RecentCommits(cands, limit, cursor, all), NEW d \in cands,
           ListCommit[c].time <= ListCommit[d].time,
           cursor # NoCursor => ListCommit[d].time <= cursor[1]
    PROVE  d \in RecentCommits(cands, limit, cursor, all)
<1> DEFINE below == {x \in cands : cursor = NoCursor \/ ListCommit[x].time < cursor[1]}
           seed == Top(below, limit, [x \in below |-> <<ListCommit[x].time, x>>])
<1>1. \A x : x \in RecentCommits(cands, limit, cursor, all) <=>
             /\ x \in cands
             /\ \/ cursor # NoCursor /\ ListCommit[x].time = cursor[1]
                \/ /\ x \in below
                   /\ \/ seed = {} /\ all
                      \/ \E y \in seed : ListCommit[y].time <= ListCommit[x].time
    BY Zenon DEF RecentCommits
<1>2. \A x \in cands : ListCommit[x].time \in Nat
    BY DEF ListConstants
<1>3. \A x \in seed : x \in below
    BY TopIs
<1>4. \A x : x \in below <=> x \in cands /\ (cursor = NoCursor \/ ListCommit[x].time < cursor[1])
    OBVIOUS
<1>5. c \in cands
    BY <1>1, Zenon
<1>8. cursor # NoCursor => cursor[1] \in Nat
    OBVIOUS
<1> HIDE DEF below, seed
<1>6. CASE cursor # NoCursor /\ ListCommit[c].time = cursor[1]
  <2>1. ListCommit[d].time = cursor[1]
    BY <1>2, <1>5, <1>6, <1>8
  <2> QED
    BY <1>1, <1>6, <2>1
<1>7. CASE c \in below /\ ((seed = {} /\ all) \/ \E y \in seed : ListCommit[y].time <= ListCommit[c].time)
  <2>1. CASE cursor # NoCursor /\ ListCommit[d].time = cursor[1]
    BY <1>1, <2>1
  <2>2. CASE cursor = NoCursor \/ ListCommit[d].time # cursor[1]
    <3>1. d \in below
      <4>1. CASE cursor = NoCursor
        BY <1>4, <4>1
      <4>2. CASE cursor # NoCursor
        <5>1. PICK t \in Nat : t = cursor[1]
          BY <1>8, <4>2
        <5>2. PICK u \in Nat : u = ListCommit[d].time
          BY <1>2
        <5>3. u <= t /\ u # t
          BY <2>2, <4>2, <5>1, <5>2, Zenon
        <5>4. u < t
          BY <5>3
        <5> QED
          BY <1>4, <5>1, <5>2, <5>4
      <4> QED
        BY <4>1, <4>2
    <3>2. (\E y \in seed : ListCommit[y].time <= ListCommit[c].time) => \E y \in seed : ListCommit[y].time <= ListCommit[d].time
      BY <1>1, <1>2, <1>3, <1>4
    <3> QED
      BY <1>1, <1>7, <3>1, <3>2
  <2> QED
    BY <2>1, <2>2
<1> QED
    BY <1>1, <1>6, <1>7

\* A commit with fewer than limit newer ones is in the window.
LEMMA WindowHasNewest ==
    ASSUME ListConstants, NEW cands \in SUBSET DOMAIN ListCommit, IsFiniteSet(cands),
           NEW limit \in Nat, NEW all,
           NEW cursor, cursor = NoCursor \/ cursor \in Nat \X Nat, NEW c \in cands,
           cursor # NoCursor => ListCommit[c].time <= cursor[1],
           Cardinality({d \in cands : ListCommit[d].time > ListCommit[c].time}) < limit
    PROVE  c \in RecentCommits(cands, limit, cursor, all)
<1> DEFINE below == {x \in cands : cursor = NoCursor \/ ListCommit[x].time < cursor[1]}
           key == [x \in below |-> <<ListCommit[x].time, x>>]
           seed == Top(below, limit, key)
           newer == {d \in cands : ListCommit[d].time > ListCommit[c].time}
<1>1. \A x : x \in RecentCommits(cands, limit, cursor, all) <=>
             /\ x \in cands
             /\ \/ cursor # NoCursor /\ ListCommit[x].time = cursor[1]
                \/ /\ x \in below
                   /\ \/ seed = {} /\ all
                      \/ \E y \in seed : ListCommit[y].time <= ListCommit[x].time
    BY Zenon DEF RecentCommits
<1>2. \A x \in cands : ListCommit[x].time \in Nat /\ x \in Nat
    BY DEF ListConstants
<1>3. IsFiniteSet(below) /\ IsFiniteSet(newer)
    BY FS_Subset
<1>4. \A x \in below : key[x] \in Nat \X Nat
    BY <1>2
<1>5. \A x, y \in below : key[x] = key[y] => x = y
    BY <1>2
<1>6. CASE cursor # NoCursor /\ ListCommit[c].time = cursor[1]
    BY <1>1, <1>6
<1>8. cursor # NoCursor => cursor[1] \in Nat
    OBVIOUS
<1>7. CASE cursor = NoCursor \/ ListCommit[c].time # cursor[1]
  <2>1. c \in below
    <3>1. CASE cursor = NoCursor
      BY <3>1
    <3>2. CASE cursor # NoCursor
      <4>1. PICK t \in Nat : t = cursor[1]
        BY <1>8, <3>2
      <4>2. PICK u \in Nat : u = ListCommit[c].time
        BY <1>2
      <4>3. u <= t /\ u # t
        BY <1>7, <3>2, <4>1, <4>2, Zenon
      <4>4. u < t
        BY <4>3
      <4> QED
        BY <4>1, <4>2, <4>4
    <3> QED
      BY <3>1, <3>2
  <2>2. seed \subseteq below
    BY TopIs
  <2>3. CASE c \in seed
    <3>1. ListCommit[c].time <= ListCommit[c].time
      BY <1>2
    <3> QED
      BY <1>1, <2>1, <2>3, <3>1, Zenon
  <2>4. CASE c \notin seed
    <3> HIDE DEF below, key
    <3>1. Cardinality(seed) = limit
      BY <1>3, <1>4, <1>5, <2>1, <2>4, TopIsFull
    <3>2. ~(seed \subseteq newer)
      <4>1. Cardinality(newer) < limit /\ Cardinality(newer) \in Nat
        BY <1>3, FS_CardinalityType
      <4> HIDE DEF seed, newer
      <4>2. seed \subseteq newer => Cardinality(seed) <= Cardinality(newer)
        BY <1>3, FS_Subset
      <4> QED
        BY <3>1, <4>1, <4>2
    <3>3. \A x \in below : x \in cands
      BY DEF below
    <3>4. PICK y \in seed : y \notin newer
      BY <3>2
    <3>5. ListCommit[y].time <= ListCommit[c].time
      BY <1>2, <2>2, <3>3, <3>4
    <3> QED
      BY <1>1, <2>1, <3>4, <3>5, Zenon
  <2> QED
    BY <2>3, <2>4
<1> QED
    BY <1>6, <1>7

\* The latest members are one of each series.
LEMMA LatestIsOne ==
    ASSUME ListConstants, NEW M \in SUBSET DOMAIN Row, NEW r \in Latest(M), NEW s \in Latest(M),
           Row[r].fp = Row[s].fp
    PROVE  r = s
<1>1. r \in M /\ s \in M /\ ~NewerMember(s, r) /\ ~NewerMember(r, s)
    BY DEF Latest
<1>2. MemberKey[r] = MemberKey[s]
    BY <1>1, KeysArePairs, BelowIsOrder DEF NewerMember
<1> QED
    BY <1>1, <1>2, KeysArePairs

\* A member that is not newer has a key that is not above.
LEMMA OlderIsPast ==
    ASSUME ListConstants, NEW r \in DOMAIN Row, NEW s \in DOMAIN Row, Row[r].fp = Row[s].fp,
           ~NewerMember(s, r), NEW cursor, cursor = NoCursor \/ cursor \in Nat \X Nat,
           Past(SeriesKey[r], cursor)
    PROVE  Past(SeriesKey[s], cursor)
<1>1. TimeOf(s) <= TimeOf(r)
    BY KeysArePairs DEF NewerMember, Below
<1>2. Row[r].fp \in Nat /\ Row[s].fp \in Nat
    BY DEF ListConstants
<1>3. CASE cursor = NoCursor
    BY <1>3 DEF Past
<1>4. CASE cursor # NoCursor
  <2>1. Below(<<TimeOf(r), Row[r].fp>>, cursor) /\ cursor[1] \in Nat /\ cursor[2] \in Nat
    BY <1>4, KeysArePairs DEF Past
  <2>2. Below(<<TimeOf(s), Row[s].fp>>, cursor)
    BY <1>1, <1>2, <2>1, KeysArePairs DEF Below
  <2> QED
    BY <2>2, KeysArePairs DEF Past
<1> QED
    BY <1>3, <1>4

\* What a page is taken from: listable rows past the cursor, one of each series.
LEMMA SourceRows ==
    ASSUME ListConstants, listRows \subseteq DOMAIN Row, IsFiniteSet(listRows), NEW q, NEW cursor
    PROVE  /\ Source(q, cursor) \subseteq listRows /\ IsFiniteSet(Source(q, cursor))
           /\ \A r \in Source(q, cursor) : Listable(q, r) /\ Past(SeriesKey[r], cursor)
           /\ \A r \in Source(q, cursor) : SeriesKey[r] \in Nat \X Nat
           /\ \A r, s \in Source(q, cursor) : Row[r].fp = Row[s].fp => r = s
           /\ \A r, s \in Source(q, cursor) : SeriesKey[r] = SeriesKey[s] => r = s
<1>1. \A M : \A r \in Latest(M) : r \in M
    BY DEF Latest
<1>2. \A r \in Members(q) :
          /\ r \in listRows /\ Member(r) /\ Active(q, TimeOf(r))
          /\ q.repo = Unset \/ Row[r].repo = q.repo
    BY DEF Members
<1>3. \A r \in Lookup(q, cursor) :
          r \in listRows /\ (q.fp # Unset => Listable(q, r)) /\ Past(SeriesKey[r], cursor)
    BY <1>2 DEF Lookup, Listable
<1>4. \A r \in Pool(q, cursor) : r \in listRows /\ Listable(q, r)
  <2>1. CASE ~q.search
    <3>1. \A r \in Pool(q, cursor) : r \in Members(q)
      BY <2>1 DEF Pool, NotListed, BrowseOnly
    <3> QED
      BY <1>2, <2>1, <3>1 DEF Listable
  <2>2. CASE q.search /\ Complete(q)
    BY <1>2, <2>2 DEF Pool, Listable
  <2>3. CASE q.search /\ ~Complete(q)
    <3>1. \A r \in Pool(q, cursor) : r \in Members(q) /\ CaseOf[Row[r].fp] \in q.cases
      BY <2>3 DEF Pool, NotListed, RecentOnly
    <3> QED
      BY <1>2, <3>1 DEF Listable
  <2> QED
    BY <2>1, <2>2, <2>3
<1>5. \A r \in Source(q, cursor) : r \in listRows /\ Listable(q, r) /\ Past(SeriesKey[r], cursor)
    BY <1>1, <1>3, <1>4 DEF Source
<1>6. \A r \in Source(q, cursor) : SeriesKey[r] \in Nat \X Nat /\ SeriesKey[r] = <<TimeOf(r), Row[r].fp>>
    BY <1>5, KeysArePairs
<1>7. \E M \in SUBSET DOMAIN Row : Source(q, cursor) \subseteq Latest(M)
  <2>1. CASE q.fp # Unset
    <3>1. Lookup(q, cursor) \in SUBSET DOMAIN Row
      BY <1>3
    <3>2. Source(q, cursor) \subseteq Latest(Lookup(q, cursor))
      BY <2>1 DEF Source
    <3> QED
      BY <3>1, <3>2, Zenon
  <2>2. CASE q.fp = Unset
    <3>1. Pool(q, cursor) \in SUBSET DOMAIN Row
      BY <1>4
    <3>2. Source(q, cursor) \subseteq Latest(Pool(q, cursor))
      BY <2>2 DEF Source
    <3> QED
      BY <3>1, <3>2, Zenon
  <2> QED
    BY <2>1, <2>2
<1>8. \A r, s \in Source(q, cursor) : Row[r].fp = Row[s].fp => r = s
    BY <1>7, LatestIsOne
<1>9. \A r, s \in Source(q, cursor) : SeriesKey[r] = SeriesKey[s] => r = s
    BY <1>6, <1>8
<1>10. Source(q, cursor) \subseteq listRows /\ IsFiniteSet(Source(q, cursor))
    BY <1>5, FS_Subset
<1> QED
    BY <1>5, <1>6, <1>8, <1>9, <1>10

\* A series is not listed while a row of it is at or above the cursor.
LEMMA SourceIsNew ==
    ASSUME ListConstants, listRows \subseteq DOMAIN Row, IsFiniteSet(listRows),
           NEW q, q.fp = Unset, NEW cursor, cursor = NoCursor \/ cursor \in Nat \X Nat,
           NEW r \in Source(q, cursor), NEW s \in listRows, Listable(q, s), Row[s].fp = Row[r].fp
    PROVE  Past(SeriesKey[s], cursor)
<1>1. r \in Latest(Pool(q, cursor)) /\ Past(SeriesKey[r], cursor)
    BY DEF Source
<1>2. r \in Pool(q, cursor) /\ \A t \in Pool(q, cursor) : Row[t].fp = Row[r].fp => ~NewerMember(t, r)
    BY <1>1 DEF Latest
<1>3. s \in Members(q) /\ Member(s)
    BY DEF Listable, Members
<1>4. CASE ~q.search
  <2>1. r \in NotListed(BrowseOnly(q, cursor), Members(q), cursor)
    BY <1>2, <1>4 DEF Pool
  <2> QED
    BY <1>3, <2>1 DEF NotListed, Past
<1>5. CASE q.search /\ Complete(q)
  <2>1. s \in Pool(q, cursor)
    BY <1>3, <1>5 DEF Pool, Listable
  <2>2. r \in DOMAIN Row
    BY SourceRows
  <2> QED
    BY <1>1, <1>2, <2>1, <2>2, OlderIsPast
<1>6. CASE q.search /\ ~Complete(q)
  <2>1. r \in NotListed(RecentOnly(q, cursor), {t \in listRows : Member(t)}, cursor)
    BY <1>2, <1>6 DEF Pool
  <2> QED
    BY <1>3, <2>1 DEF NotListed, Past
<1> QED
    BY <1>4, <1>5, <1>6

\* Commits of listable rows are default commits, of which there are finitely many.
LEMMA DefaultCommitsAre ==
    ASSUME ListConstants, NEW q
    PROVE  /\ DefaultCommits(q) \in SUBSET DOMAIN ListCommit /\ IsFiniteSet(DefaultCommits(q))
           /\ \A r \in DOMAIN Row : Member(r) /\ Active(q, TimeOf(r)) =>
                  Row[r].commit \in DefaultCommits(q)
           /\ \A r \in DOMAIN Row : ListCommit[Row[r].commit].time = TimeOf(r)
<1>1. IsFiniteSet(DOMAIN ListCommit)
    BY DEF ListConstants
<1>2. \A r \in DOMAIN Row : Row[r].commit \in DOMAIN ListCommit
    BY DEF ListConstants
<1>3. DefaultCommits(q) \in SUBSET DOMAIN ListCommit
    BY DEF DefaultCommits
<1>4. IsFiniteSet(DefaultCommits(q))
    BY <1>1, <1>3, FS_Subset
<1> QED
    BY <1>2, <1>3, <1>4 DEF DefaultCommits, Member, TimeOf

\* The browse window's commits, and its limit.
BrowseCandidates(q) ==
    {c \in DefaultCommits(q) : \E r \in listRows : /\ Row[r].commit = c /\ ~Row[r].error
                                                  /\ (q.repo = Unset \/ Row[r].repo = q.repo)}

\* The window of the browse list is one over its candidates.
LEMMA BrowseWindow ==
    ASSUME ListConstants, NEW q, NEW cursor
    PROVE  /\ BrowseCommits(q, cursor) =
                RecentCommits(BrowseCandidates(q), seriesBrowseRecentCommitLimit(cursor), cursor, FALSE)
           /\ seriesBrowseRecentCommitLimit(cursor) \in Nat
           /\ BrowseLimit <= seriesBrowseRecentCommitLimit(cursor)
<1>1. BrowseLimit \in Nat /\ ScopedLimit \in Nat
    BY DEF ListConstants
<1>2. BrowseCommits(q, cursor) =
        RecentCommits(BrowseCandidates(q), seriesBrowseRecentCommitLimit(cursor), cursor, FALSE)
    BY Zenon DEF BrowseCommits, BrowseCandidates
<1> QED
    BY <1>1, <1>2 DEF seriesBrowseRecentCommitLimit

\* Without an end date a page shows a series by the newest member it has.
LEMMA SourceIsLatest ==
    ASSUME ListConstants, listRows \subseteq DOMAIN Row, IsFiniteSet(listRows),
           NEW q, q.fp = Unset, q.until = Unset, q.since \in Nat,
           NEW cursor, cursor = NoCursor \/ cursor \in Nat \X Nat,
           NEW r \in Source(q, cursor), NEW s \in listRows, Member(s), Row[s].fp = Row[r].fp
    PROVE  ~NewerMember(s, r)
<1> SUFFICES ASSUME NewerMember(s, r) PROVE FALSE
    OBVIOUS
<1>1. r \in DOMAIN Row /\ s \in DOMAIN Row /\ r \in listRows /\ Listable(q, r)
    BY SourceRows
<1>2. TimeOf(r) \in Nat /\ TimeOf(s) \in Nat /\ TimeOf(r) <= TimeOf(s)
    BY <1>1, KeysArePairs DEF NewerMember, Below
<1>3. Active(q, TimeOf(s))
    BY <1>1, <1>2 DEF Listable, Active
<1>4. Listable(q, s) /\ s \in Members(q)
  <2>1. Row[r].repo = Row[s].repo
    BY <1>1 DEF ListConstants
  <2> QED
    BY <1>1, <1>3, <2>1 DEF Listable, Members
<1>5. r \in Pool(q, cursor) /\ \A t \in Pool(q, cursor) : Row[t].fp = Row[r].fp => ~NewerMember(t, r)
    BY DEF Source, Latest
<1>6. s \notin Pool(q, cursor)
    BY <1>5
<1>7. cursor # NoCursor => TimeOf(s) <= cursor[1]
  <2>1. Past(SeriesKey[s], cursor)
    BY <1>4, SourceIsNew
  <2>2. cursor # NoCursor => Below(<<TimeOf(s), Row[s].fp>>, cursor) /\ cursor[1] \in Nat
    BY <1>1, <2>1, KeysArePairs DEF Past
  <2> QED
    BY <1>2, <2>2 DEF Below
<1>8. /\ Row[r].commit \in DefaultCommits(q) /\ Row[s].commit \in DefaultCommits(q)
      /\ ListCommit[Row[r].commit].time = TimeOf(r) /\ ListCommit[Row[s].commit].time = TimeOf(s)
      /\ DefaultCommits(q) \in SUBSET DOMAIN ListCommit
    BY <1>1, <1>4, DefaultCommitsAre DEF Listable
<1>9. CASE ~q.search
  <2>1. r \in NotListed(BrowseOnly(q, cursor), Members(q), cursor)
    BY <1>5, <1>9 DEF Pool
  <2>2. s \notin NotListed(BrowseOnly(q, cursor), Members(q), cursor)
    BY <1>6, <1>9 DEF Pool
  <2>3. s \notin BrowseOnly(q, cursor) /\ Row[r].commit \in BrowseCommits(q, cursor)
    BY <2>1, <2>2 DEF NotListed, BrowseOnly
  <2>4. Row[s].commit \in BrowseCandidates(q)
    BY <1>4, <1>8 DEF BrowseCandidates, Listable, Member
  <2>5. BrowseCandidates(q) \in SUBSET DOMAIN ListCommit
    BY <1>8 DEF BrowseCandidates
  <2>6. Row[s].commit \in BrowseCommits(q, cursor)
    <3>1. Row[r].commit \in RecentCommits(BrowseCandidates(q), seriesBrowseRecentCommitLimit(cursor),
                                          cursor, FALSE)
      BY <2>3, BrowseWindow, Zenon
    <3>2. Row[s].commit \in RecentCommits(BrowseCandidates(q), seriesBrowseRecentCommitLimit(cursor),
                                          cursor, FALSE)
      BY <1>2, <1>7, <1>8, <2>4, <2>5, <3>1, WindowIsUpward
    <3> QED
      BY <3>2, BrowseWindow, Zenon
  <2> QED
    BY <1>4, <2>3, <2>6 DEF BrowseOnly
<1>10. CASE q.search /\ Complete(q)
    BY <1>4, <1>6, <1>10 DEF Pool, Listable
<1>11. CASE q.search /\ ~Complete(q)
  <2> DEFINE all == {t \in listRows : Member(t)}
  <2>1. r \in NotListed(RecentOnly(q, cursor), all, cursor)
    BY <1>5, <1>11 DEF Pool
  <2>2. s \notin NotListed(RecentOnly(q, cursor), all, cursor)
    BY <1>6, <1>11 DEF Pool
  <2>3. s \notin RecentOnly(q, cursor)
        /\ Row[r].commit \in RecentCommits(DefaultCommits(q), QRecentLimit, cursor, TRUE)
    BY <2>1, <2>2 DEF NotListed, RecentOnly
  <2>4. Row[s].commit \in RecentCommits(DefaultCommits(q), QRecentLimit, cursor, TRUE)
    BY <1>2, <1>7, <1>8, <2>3, WindowIsUpward
  <2> QED
    BY <1>4, <1>11, <2>3, <2>4 DEF RecentOnly, Listable
<1> QED
    BY <1>9, <1>10, <1>11

\* A series the list promises is in the source of a page it is not above of.
LEMMA SourceHasPromised ==
    ASSUME ListConstants, listRows \subseteq DOMAIN Row, IsFiniteSet(listRows), NEW q \in ListQueries,
           NEW cursor, cursor = NoCursor \/ cursor \in Nat \X Nat, NEW r \in Members(q),
           \A s \in Members(q) : Row[s].fp = Row[r].fp => ~NewerMember(s, r),
           Past(SeriesKey[r], cursor), ~NotPromised(q, r)
    PROVE  r \in Source(q, cursor)
<1>1. /\ r \in listRows /\ r \in DOMAIN Row /\ Member(r) /\ Active(q, TimeOf(r))
      /\ q.repo = Unset \/ Row[r].repo = q.repo
    BY DEF Members
<1>2. cursor # NoCursor => TimeOf(r) <= cursor[1]
  <2>1. cursor # NoCursor => Below(<<TimeOf(r), Row[r].fp>>, cursor) /\ cursor[1] \in Nat /\ TimeOf(r) \in Nat
    BY <1>1, KeysArePairs DEF Past
  <2> QED
    BY <2>1 DEF Below
<1>3. /\ Row[r].commit \in DefaultCommits(q) /\ ListCommit[Row[r].commit].time = TimeOf(r)
      /\ DefaultCommits(q) \in SUBSET DOMAIN ListCommit /\ IsFiniteSet(DefaultCommits(q))
    BY <1>1, DefaultCommitsAre
<1> DEFINE newer == {d \in DefaultCommits(q) : ListCommit[d].time > ListCommit[Row[r].commit].time}
<1>4. IsFiniteSet(newer) /\ Cardinality(newer) \in Nat
    BY <1>3, FS_Subset, FS_CardinalityType
<1>5. \A s \in Members(q) : Row[s].fp = Row[r].fp => Past(SeriesKey[s], cursor)
  <2>1. \A s \in Members(q) : s \in DOMAIN Row
    BY DEF Members
  <2> QED
    BY <1>1, <2>1, OlderIsPast
<1>6. CASE q.fp # Unset
  <2>1. r \in Lookup(q, cursor)
    BY <1>6 DEF NotPromised, Lookup
  <2>2. \A s \in Lookup(q, cursor) : s \in Members(q)
    BY DEF Lookup
  <2>3. r \in Latest(Lookup(q, cursor))
    BY <2>1, <2>2 DEF Latest
  <2> QED
    BY <1>6, <2>3 DEF Source
<1>7. CASE q.fp = Unset
  <2>1. (\A s \in Pool(q, cursor) : s \in Members(q)) /\ r \in Pool(q, cursor)
    <3>1. CASE ~q.search
      <4>1. Cardinality(newer) < BrowseLimit
        BY <1>7, <3>1 DEF NotPromised, InWindow
      <4>2. Row[r].commit \in BrowseCandidates(q)
        BY <1>1, <1>3 DEF BrowseCandidates, Member
      <4>3. BrowseCandidates(q) \in SUBSET DOMAIN ListCommit /\ IsFiniteSet(BrowseCandidates(q))
        BY <1>3, FS_Subset DEF BrowseCandidates
      <4>4. Cardinality({d \in BrowseCandidates(q) : ListCommit[d].time > ListCommit[Row[r].commit].time})
              < seriesBrowseRecentCommitLimit(cursor)
        <5> DEFINE some == {d \in BrowseCandidates(q) : ListCommit[d].time > ListCommit[Row[r].commit].time}
        <5>1. some \subseteq newer
          BY DEF BrowseCandidates
        <5> HIDE DEF some, newer
        <5>2. Cardinality(some) <= Cardinality(newer) /\ Cardinality(some) \in Nat
          BY <1>4, <5>1, FS_Subset, FS_CardinalityType
        <5>3. BrowseLimit \in Nat
          BY DEF ListConstants
        <5>4. PICK limit \in Nat : limit = seriesBrowseRecentCommitLimit(cursor) /\ BrowseLimit <= limit
          BY BrowseWindow, Zenon
        <5>5. Cardinality(some) < limit
          BY <1>4, <4>1, <5>2, <5>3, <5>4
        <5> QED
          BY <5>4, <5>5 DEF some
      <4>5. Row[r].commit \in BrowseCommits(q, cursor)
        <5>1. Row[r].commit \in RecentCommits(BrowseCandidates(q), seriesBrowseRecentCommitLimit(cursor),
                                              cursor, FALSE)
          <6>1. seriesBrowseRecentCommitLimit(cursor) \in Nat
            BY BrowseWindow, Zenon
          <6> QED
            BY <1>2, <1>3, <4>2, <4>3, <4>4, <6>1, WindowHasNewest
        <5> QED
          BY <5>1, BrowseWindow, Zenon
      <4>6. r \in NotListed(BrowseOnly(q, cursor), Members(q), cursor)
        BY <1>5, <4>5 DEF NotListed, BrowseOnly, Past
      <4> QED
        BY <3>1, <4>6 DEF Pool, NotListed, BrowseOnly
    <3>2. CASE q.search /\ Complete(q)
      BY <1>7, <3>2 DEF NotPromised, Pool
    <3>3. CASE q.search /\ ~Complete(q)
      <4>1. Cardinality(q.cases) > CompleteCaseLimit /\ ~seriesQNeedsCompleteSearch(q)
        <5>1. Cardinality(q.cases) \in Nat /\ CompleteCaseLimit \in Nat
          <6>1. IsFiniteSet(q.cases)
            BY DEF ListConstants
          <6> QED
            BY <6>1, FS_CardinalityType DEF ListConstants
        <5> QED
          BY <3>3, <5>1 DEF Complete
      <4>2. Cardinality(newer) < QRecentLimit /\ CaseOf[Row[r].fp] \in q.cases
        BY <1>7, <3>3, <4>1 DEF NotPromised, InWindow
      <4>3. Row[r].commit \in RecentCommits(DefaultCommits(q), QRecentLimit, cursor, TRUE)
        <5>1. QRecentLimit \in Nat
          BY DEF ListConstants
        <5> QED
          BY <1>2, <1>3, <4>2, <5>1, WindowHasNewest
      <4>4. \A s \in listRows : Member(s) => s \in Members(q)
        BY <4>1 DEF seriesQNeedsCompleteSearch, Members, Active
      <4>5. r \in NotListed(RecentOnly(q, cursor), {s \in listRows : Member(s)}, cursor)
        BY <1>5, <4>2, <4>3, <4>4 DEF NotListed, RecentOnly, Past
      <4> QED
        BY <3>3, <4>5 DEF Pool, NotListed, RecentOnly
    <3> QED
      BY <3>1, <3>2, <3>3
  <2>2. r \in Latest(Pool(q, cursor))
    BY <2>1 DEF Latest
  <2> QED
    BY <1>7, <2>2 DEF Source
<1> QED
    BY <1>6, <1>7

-----------------------------------------------------------------------------
(* The steps of a walk. *)

\* The program starts without a walk.
LEMMA ListInvInit == ListConstants /\ ListInit => ListInv
<1> SUFFICES ASSUME ListConstants, ListInit PROVE ListInv
    OBVIOUS
<1>1. walk = NoWalk /\ listRows = ListInitial /\ runs = {} /\ listUnused = DOMAIN Row \ ListInitial
    BY DEF ListInit
<1>2. /\ walk.pc = "idle" /\ walk.items = {} /\ walk.page = {} /\ walk.cursor = NoCursor
    BY <1>1 DEF NoWalk
<1>3. IsWalk
  <2>1. IsFiniteSet(ListInitial) /\ ListInitial \subseteq DOMAIN Row
    BY DEF ListConstants
  <2>2. walk \in [pc : Moments, query : {walk.query}, cursor : {walk.cursor}, page : {walk.page},
                  items : {walk.items}, quiet : BOOLEAN, start : {walk.start},
                  touched : {walk.touched}, removed : {walk.removed}, seen : {walk.seen},
                  again : {walk.again}]
    BY <1>1 DEF NoWalk, Moments
  <2> QED
    BY <1>1, <1>2, <2>1, <2>2, FS_EmptySet DEF IsWalk
<1>4. HistoryInv /\ SeenInv /\ MissedInv
    BY <1>2 DEF HistoryInv, SeenInv, MissedInv
<1>5. AgreeInv
    BY <1>2 DEF AgreeInv, PageAndMembersAgree
<1>6. RecentRunsAreTheNewest
    BY <1>1 DEF RecentRunsAreTheNewest
<1> QED
    BY <1>3, <1>4, <1>5, <1>6 DEF ListInv

\* An answer to a page ends the walk, or goes on below its last row.
LEMMA AnsweredIs ==
    ASSUME ListConstants, IsWalk, NEW page, page \subseteq DOMAIN Row, IsFiniteSet(page), NEW items,
           walk' = Answered(walk, page, items)
    PROVE  /\ walk'.query = walk.query /\ walk'.start = walk.start /\ walk'.touched = walk.touched
           /\ walk'.removed = walk.removed /\ walk'.quiet = walk.quiet
           /\ walk'.items = items /\ walk'.page = {}
           /\ walk'.seen = walk.seen \cup {Name(walk.query, r) : r \in page}
           /\ walk'.again = walk.again \cup (walk.seen \cap {Name(walk.query, r) : r \in page})
           /\ walk' \in [pc : {"page", "done"}, query : {walk'.query}, cursor : {walk'.cursor},
                  page : {walk'.page}, items : {walk'.items}, quiet : BOOLEAN, start : {walk'.start},
                  touched : {walk'.touched}, removed : {walk'.removed}, seen : {walk'.seen},
                  again : {walk'.again}]
           /\ \/ walk'.pc = "done" /\ walk'.cursor = NoCursor /\ Cardinality(page) # PageSize
              \/ /\ walk'.pc = "page" /\ Cardinality(page) = PageSize
                 /\ \E last \in page : /\ walk'.cursor = ListKey(walk.query, last)
                                       /\ \A s \in page : ~Below(ListKey(walk.query, s), ListKey(walk.query, last))
<1> DEFINE q == walk.query
           names == {Name(q, r) : r \in page}
           last == NextCursor(walk, page)
           pc == IF last = {} THEN "done" ELSE "page"
           cursor == IF last = {} THEN NoCursor ELSE ListKey(q, CHOOSE r \in last : TRUE)
<1>1. walk' = [walk EXCEPT !.pc = pc, !.cursor = cursor, !.page = {}, !.items = items,
                           !.seen = @ \cup names, !.again = @ \cup (walk.seen \cap names)]
    BY Zenon DEF Answered
<1>2. \A r \in last : /\ r \in page /\ Cardinality(page) = PageSize
                      /\ \A s \in page : ~Below(ListKey(q, s), ListKey(q, r))
    BY DEF NextCursor
<1>3. ASSUME Cardinality(page) = PageSize PROVE last # {}
  <2> DEFINE R == {p \in page \X page : Below(ListKey(q, p[1]), ListKey(q, p[2]))}
  <2>1. page # {}
    BY <1>3, FS_EmptySet DEF ListConstants
  <2>2. \A r \in page : ListKey(q, r) \in Nat \X Nat
    BY KeysArePairs DEF ListKey
  <2>3. \A x \in page : <<x, x>> \notin R
    BY <2>2, BelowIsOrder
  <2>4. \A x, y, z \in page : Below(ListKey(q, x), ListKey(q, y)) /\ Below(ListKey(q, y), ListKey(q, z)) => Below(ListKey(q, x), ListKey(q, z))
    BY <2>2, BelowIsOrder
  <2>5. \A x, y \in page : <<x, y>> \in R <=> Below(ListKey(q, x), ListKey(q, y))
    OBVIOUS
  <2> HIDE DEF R
  <2>6. PICK m \in page : \A x \in page : <<x, m>> \notin R
    BY <2>1, <2>3, <2>4, <2>5, FiniteHasFirst
  <2>7. m \in last
    BY <1>3, <2>5, <2>6 DEF NextCursor
  <2> QED
    BY <2>7
<1>4. CASE last = {}
  <2>1. pc = "done" /\ cursor = NoCursor /\ Cardinality(page) # PageSize
    BY <1>3, <1>4
  <2> HIDE DEF pc, cursor, names, last
  <2> QED
    BY <1>1, <2>1 DEF IsWalk, names
<1>5. CASE last # {}
  <2> DEFINE r == CHOOSE x \in last : TRUE
  <2>1. r \in last
    BY <1>5
  <2>2. pc = "page" /\ cursor = ListKey(q, r)
    BY <1>5
  <2>3. /\ r \in page /\ Cardinality(page) = PageSize
        /\ \A s \in page : ~Below(ListKey(q, s), ListKey(q, r))
    BY <1>2, <2>1
  <2> HIDE DEF pc, cursor, names, last, r
  <2>4. walk'.pc = "page" /\ walk'.cursor = ListKey(q, r)
    BY <1>1, <2>2 DEF IsWalk
  <2> QED
    BY <1>1, <2>2, <2>3, <2>4 DEF IsWalk, names
<1> QED
    BY <1>4, <1>5

\* A walk begins.
LEMMA BeginInv ==
    ASSUME ListConstants, ListInv, NEW q \in ListQueries, Begin(q)
    PROVE  ListInv'
<1>1. /\ walk' = [NoWalk EXCEPT !.pc = "page", !.query = q, !.start = listRows]
      /\ runs' = {} /\ listRows' = listRows /\ listUnused' = listUnused /\ IsWalk
    BY DEF Begin, ListInv
<1>2. /\ walk'.pc = "page" /\ walk'.query = q /\ walk'.start = listRows /\ walk'.cursor = NoCursor
      /\ walk'.page = {} /\ walk'.items = {} /\ walk'.touched = {} /\ walk'.removed = {}
      /\ walk'.seen = {} /\ walk'.again = {}
    BY <1>1 DEF NoWalk
<1>3. IsWalk'
  <2>1. walk' \in [pc : Moments, query : {walk'.query}, cursor : {walk'.cursor}, page : {walk'.page},
                   items : {walk'.items}, quiet : BOOLEAN, start : {walk'.start},
                   touched : {walk'.touched}, removed : {walk'.removed}, seen : {walk'.seen},
                   again : {walk'.again}]
    BY <1>1 DEF NoWalk, Moments
  <2> QED
    BY <1>1, <1>2, <2>1, FS_EmptySet DEF IsWalk
<1>4. HistoryInv'
    BY <1>1, <1>2 DEF HistoryInv, IsWalk
<1>5. SeenInv'
    BY <1>2 DEF SeenInv
<1>6. AgreeInv'
    BY <1>2 DEF AgreeInv, PageAndMembersAgree
<1>7. MissedInv'
    BY <1>2 DEF MissedInv, Past
<1>8. RecentRunsAreTheNewest'
    BY <1>1 DEF RecentRunsAreTheNewest
<1> QED
    BY <1>3, <1>4, <1>5, <1>6, <1>7, <1>8 DEF ListInv

\* A row is submitted or deleted while a walk is under way, or none is.
LEMMA WriteInv ==
    ASSUME ListConstants, ListInv, NEW r \in DOMAIN Row, Write(r),
           \/ r \in listUnused /\ listRows' = listRows \cup {r} /\ listUnused' = listUnused \ {r}
           \/ r \in listRows /\ listRows' = listRows \ {r} /\ listUnused' = listUnused
    PROVE  ListInv'
<1>1. IsWalk /\ HistoryInv /\ SeenInv /\ AgreeInv /\ MissedInv
    BY DEF ListInv
<1>2. /\ listRows' \subseteq DOMAIN Row /\ IsFiniteSet(listRows') /\ listUnused' \subseteq DOMAIN Row
      /\ listRows' \cap listUnused' = {} /\ runs' = {}
    BY <1>1, FS_AddElement, FS_RemoveElement DEF IsWalk, Write
<1>3. RecentRunsAreTheNewest'
    BY <1>2 DEF RecentRunsAreTheNewest
<1>4. CASE walk.pc = "idle"
  <2>1. walk' = walk /\ walk = NoWalk /\ walk.pc = "idle" /\ walk.items = {}
    BY <1>1, <1>4 DEF Write, IsWalk, NoWalk
  <2>2. IsWalk'
    BY <1>1, <1>2, <2>1 DEF IsWalk
  <2>3. HistoryInv' /\ SeenInv' /\ MissedInv'
    BY <2>1 DEF HistoryInv, SeenInv, MissedInv
  <2>4. AgreeInv'
    BY <2>1 DEF AgreeInv, PageAndMembersAgree
  <2> QED
    BY <1>3, <2>2, <2>3, <2>4 DEF ListInv
<1>5. CASE walk.pc # "idle"
  <2>1. walk' = [walk EXCEPT !.quiet = FALSE, !.touched = @ \cup {r},
                             !.removed = IF r \in listRows THEN @ \cup {r} ELSE @]
    BY <1>5 DEF Write
  <2>2. /\ walk'.pc = walk.pc /\ walk'.query = walk.query /\ walk'.start = walk.start
        /\ walk'.cursor = walk.cursor /\ walk'.page = walk.page /\ walk'.items = walk.items
        /\ walk'.seen = walk.seen /\ walk'.again = walk.again /\ walk'.quiet = FALSE
        /\ walk'.touched = walk.touched \cup {r}
        /\ walk'.removed = IF r \in listRows THEN walk.removed \cup {r} ELSE walk.removed
    BY <1>1, <2>1 DEF IsWalk
  <2>3. IsWalk'
    <3>1. walk' \in [pc : Moments, query : {walk'.query}, cursor : {walk'.cursor}, page : {walk'.page},
                     items : {walk'.items}, quiet : BOOLEAN, start : {walk'.start},
                     touched : {walk'.touched}, removed : {walk'.removed}, seen : {walk'.seen},
                     again : {walk'.again}]
      BY <1>1, <2>1 DEF IsWalk
    <3> QED
      BY <1>1, <1>2, <1>5, <2>2, <3>1 DEF IsWalk
  <2>4. HistoryInv'
    BY <1>1, <1>5, <2>2 DEF HistoryInv
  <2>5. SeenInv'
    <3>1. \A n : Removed(n) => Removed(n)'
      BY <2>2 DEF Removed
    <3>2. \A n : Kept(n) => (Removed(n) \/ Kept(n))'
      <4> SUFFICES ASSUME NEW n, Kept(n) PROVE Removed(n)' \/ Kept(n)'
        OBVIOUS
      <4>1. PICK s \in listRows : /\ Row[s].fp = n /\ Listable(walk.query, s)
                                 /\ ~Past(SeriesKey[s], walk.cursor)
        BY DEF Kept
      <4>2. CASE s \in listRows'
        <5>1. Listable(walk'.query, s) /\ ~Past(SeriesKey[s], walk'.cursor)
          BY <2>2, <4>1
        <5> QED
          BY <4>1, <4>2, <5>1 DEF Kept
      <4>3. CASE s \notin listRows'
        BY <2>2, <4>1, <4>3 DEF Removed
      <4> QED
        BY <4>2, <4>3
    <3>3. \A s \in listRows : s \in listRows' \/ s \in walk'.removed
      BY <2>2
    <3>4. walk.removed \subseteq walk'.removed
      BY <2>2
    <3> QED
      BY <1>1, <2>2, <3>1, <3>2, <3>3, <3>4 DEF SeenInv
  <2>6. AgreeInv'
    BY <2>2 DEF AgreeInv, PageAndMembersAgree
  <2>7. \A s \in Latest(QuietRows)' : s \in Latest(QuietRows)
    <3>1. QuietRows' \subseteq QuietRows
      BY <2>2 DEF QuietRows
    <3>2. \A s \in QuietRows', t \in QuietRows : Row[t].fp = Row[s].fp => t \in QuietRows'
      BY <2>2 DEF QuietRows
    <3> QED
      BY <3>1, <3>2 DEF Latest
  <2>8. walk'.start \cap listRows' \subseteq walk.start \cap listRows
    BY <1>1, <1>5, <2>2 DEF HistoryInv
  <2>9. MissedInv'
    BY <1>1, <2>2, <2>7, <2>8 DEF MissedInv, Listed
  <2> QED
    BY <1>3, <2>3, <2>4, <2>5, <2>6, <2>9 DEF ListInv
<1> QED
    BY <1>4, <1>5

\* No key is the empty cursor.
LEMMA KeyIsNoCursor ==
    ASSUME NEW k \in Nat \X Nat
    PROVE  k # NoCursor
    BY DEF NoCursor

\* What was not past a cursor is not past a lower one.
LEMMA CursorSinks ==
    ASSUME NEW cursor, cursor = NoCursor \/ cursor \in Nat \X Nat, NEW k \in Nat \X Nat,
           NEW low \in Nat \X Nat, Past(low, cursor), ~Past(k, cursor)
    PROVE  ~Past(k, low)
<1>1. cursor \in Nat \X Nat /\ Below(low, cursor) /\ ~Below(k, cursor)
    BY DEF Past
<1>2. ~Below(k, low)
    BY <1>1, BelowIsOrder
<1> QED
    BY <1>2, KeyIsNoCursor DEF Past

\* A page of results is listed.
LEMMA ListResultsInv ==
    ASSUME ListConstants, ListInv, ListResults
    PROVE  ListInv'
<1> DEFINE q == walk.query
           cursor == walk.cursor
           S == {r \in listRows : (q.run = Unset \/ Row[r].run = q.run) /\ Past(ResultKey[r], cursor)}
           page == SelectBenchmarkResults(q, cursor)
<1>1. /\ IsWalk /\ HistoryInv /\ SeenInv /\ AgreeInv /\ MissedInv /\ RecentRunsAreTheNewest
      /\ walk.pc = "page" /\ q.kind = "results" /\ walk' = Answered(walk, page, {})
      /\ UNCHANGED <<listRows, listUnused, runs>>
    BY DEF ListInv, ListResults
<1>2. page = Top(S, PageSize, ResultKey) /\ PageSize \in Nat \ {0}
    BY Zenon DEF SelectBenchmarkResults, ListConstants
<1>3. S \subseteq listRows /\ S \subseteq DOMAIN Row /\ IsFiniteSet(S)
    BY <1>1, FS_Subset DEF IsWalk
<1>4. \A r \in DOMAIN Row : ResultKey[r] \in Nat \X Nat /\ ResultKey[r] = <<0, r>>
    BY KeysArePairs
<1>5. \A r \in S : ResultKey[r] \in Nat \X Nat
    BY <1>3, <1>4
<1>6. \A r, s \in S : ResultKey[r] = ResultKey[s] => r = s
    BY <1>3, <1>4
<1>7. \A r \in S : Past(ResultKey[r], cursor)
    OBVIOUS
<1>8. \A r \in listRows : (q.run = Unset \/ Row[r].run = q.run) /\ Past(ResultKey[r], cursor) => r \in S
    OBVIOUS
<1> HIDE DEF S, page
<1>9. page \subseteq S
    BY <1>2, TopIs
<1>10. page \subseteq DOMAIN Row /\ IsFiniteSet(page)
    BY <1>3, <1>9, FS_Subset
<1>11. \A r : Name(q, r) = r /\ ListKey(q, r) = ResultKey[r]
    BY <1>1 DEF Name, ListKey
<1>12. /\ walk'.query = q /\ walk'.start = walk.start /\ walk'.touched = walk.touched
       /\ walk'.removed = walk.removed /\ walk'.items = {} /\ walk'.page = {}
       /\ walk'.seen = walk.seen \cup page
       /\ walk'.again = walk.again \cup (walk.seen \cap page)
       /\ walk' \in [pc : {"page", "done"}, query : {walk'.query}, cursor : {walk'.cursor},
                  page : {walk'.page}, items : {walk'.items}, quiet : BOOLEAN, start : {walk'.start},
                  touched : {walk'.touched}, removed : {walk'.removed}, seen : {walk'.seen},
                  again : {walk'.again}]
       /\ \/ walk'.pc = "done" /\ walk'.cursor = NoCursor /\ Cardinality(page) # PageSize
          \/ /\ walk'.pc = "page"
             /\ \E last \in page : /\ walk'.cursor = ResultKey[last]
                                   /\ \A s \in page : ~Below(ResultKey[s], ResultKey[last])
  <2>1. {Name(q, r) : r \in page} = page
    BY <1>11
  <2> QED
    BY <1>1, <1>10, <1>11, <2>1, AnsweredIs
<1>13. walk'.cursor = NoCursor \/ walk'.cursor \in Nat \X Nat
    BY <1>4, <1>10, <1>12
<1>14. IsWalk'
  <2>1. walk'.pc \in {"page", "done"}
    BY <1>12
  <2>2. walk' \in [pc : Moments, query : {walk'.query}, cursor : {walk'.cursor}, page : {walk'.page},
                   items : {walk'.items}, quiet : BOOLEAN, start : {walk'.start},
                   touched : {walk'.touched}, removed : {walk'.removed}, seen : {walk'.seen},
                   again : {walk'.again}]
    BY <1>12 DEF Moments
  <2> QED
    BY <1>1, <1>12, <1>13, <2>1, <2>2, FS_EmptySet DEF IsWalk
<1>15. HistoryInv'
    BY <1>1, <1>12 DEF HistoryInv
<1>16. walk.again = {} /\ \A n \in walk.seen : n \in DOMAIN Row /\ ~Past(ResultKey[n], cursor)
    BY <1>1 DEF SeenInv
<1>17. walk'.again = {}
    BY <1>7, <1>9, <1>12, <1>16
<1>18. ASSUME walk'.pc = "page", NEW n \in walk'.seen
       PROVE  n \in DOMAIN Row /\ ~Past(ResultKey[n], walk'.cursor)
  <2>1. PICK last \in page : /\ walk'.cursor = ResultKey[last]
                             /\ \A s \in page : ~Below(ResultKey[s], ResultKey[last])
    BY <1>12, <1>18
  <2>2. n \in DOMAIN Row
    BY <1>10, <1>12, <1>16
  <2>3. CASE n \in page
    BY <1>4, <1>10, <2>1, <2>3, KeyIsNoCursor DEF Past
  <2>4. CASE n \in walk.seen
    <3>1. Past(ResultKey[last], cursor)
      BY <1>7, <1>9
    <3>2. ResultKey[last] \in Nat \X Nat /\ ResultKey[n] \in Nat \X Nat
      BY <1>4, <1>10, <2>2
    <3>3. ~Past(ResultKey[n], cursor) /\ (cursor = NoCursor \/ cursor \in Nat \X Nat)
      BY <1>1, <1>16, <2>4 DEF IsWalk
    <3> QED
      BY <2>1, <2>2, <3>1, <3>2, <3>3, CursorSinks
  <2> QED
    BY <1>12, <2>3, <2>4, <2>2
<1>19. SeenInv'
    BY <1>1, <1>12, <1>17, <1>18 DEF SeenInv
<1>20. AgreeInv'
    BY <1>12 DEF AgreeInv, PageAndMembersAgree
<1>21. ASSUME NEW r \in walk'.start \cap listRows, q.run = Unset \/ Row[r].run = q.run
       PROVE  r \in walk'.seen \/ (walk'.pc = "page" /\ Past(ResultKey[r], walk'.cursor))
  <2>1. CASE r \in walk.seen
    BY <1>12, <2>1
  <2>2. CASE r \in page
    BY <1>12, <2>2
  <2>3. CASE r \notin walk.seen /\ r \notin page
    <3>1. Past(ResultKey[r], cursor)
      BY <1>1, <1>12, <1>21, <2>3 DEF MissedInv
    <3>2. r \in S
      BY <1>8, <1>21, <3>1
    <3>3. Cardinality(page) = PageSize /\ \A s \in page : Below(ResultKey[r], ResultKey[s])
      BY <1>2, <1>3, <1>5, <1>6, <2>3, <3>2, TopIsFull
    <3> QED
      BY <1>12, <3>3 DEF Past
  <2> QED
    BY <2>1, <2>2, <2>3
<1>22. MissedInv'
    BY <1>1, <1>12, <1>21 DEF MissedInv
<1>23. RecentRunsAreTheNewest'
    BY <1>1 DEF RecentRunsAreTheNewest
<1> QED
    BY <1>14, <1>15, <1>19, <1>20, <1>22, <1>23 DEF ListInv

\* A page depends on the rows there are.
LEMMA SamePage ==
    ASSUME UNCHANGED listRows
    PROVE  SelectSeriesPage(walk.query, walk.cursor)' = SelectSeriesPage(walk'.query, walk'.cursor)
    BY Zenon DEF SelectSeriesPage, SelectSeriesPageForFingerprint, SelectSeriesPageForQCaseIDs,
       SelectSeriesPageForQRecent, SelectSeriesBrowsePage, BrowseCommits, DefaultCommits, Members

\* The first statement of a series page.
LEMMA ListSeriesInv ==
    ASSUME ListConstants, ListInv, ListSeries
    PROVE  ListInv'
<1> DEFINE q == walk.query
           cursor == walk.cursor
           S == Source(q, cursor)
           page == SelectSeriesPage(q, cursor)
<1>1. /\ IsWalk /\ HistoryInv /\ SeenInv /\ AgreeInv /\ MissedInv /\ RecentRunsAreTheNewest
      /\ walk.pc = "page" /\ q.kind = "series"
      /\ walk' = [walk EXCEPT !.pc = "members", !.quiet = TRUE, !.items = {}, !.page = page]
      /\ listRows' = listRows /\ listUnused' = listUnused /\ runs' = runs
    BY DEF ListInv, ListSeries
<1>2. /\ listRows \subseteq DOMAIN Row /\ IsFiniteSet(listRows) /\ listRows \cap listUnused = {}
      /\ cursor = NoCursor \/ cursor \in Nat \X Nat
      /\ q \in ListQueries
    BY <1>1 DEF IsWalk
<1>3. page = Top(S, PageSize, SeriesKey) /\ PageSize \in Nat
    BY PageIsTop, Zenon DEF ListConstants
<1>4. /\ S \subseteq listRows /\ IsFiniteSet(S)
      /\ \A r \in S : Listable(q, r) /\ Past(SeriesKey[r], cursor)
      /\ \A r \in S : SeriesKey[r] \in Nat \X Nat
      /\ \A r, s \in S : SeriesKey[r] = SeriesKey[s] => r = s
    BY <1>2, SourceRows
<1>5. q.fp = Unset => \A r \in S, s \in listRows :
                      Listable(q, s) /\ Row[s].fp = Row[r].fp => Past(SeriesKey[s], cursor)
    BY <1>2, SourceIsNew
<1>6. \A r \in Members(q) :
        (\A s \in Members(q) : Row[s].fp = Row[r].fp => ~NewerMember(s, r))
          /\ Past(SeriesKey[r], cursor) /\ ~NotPromised(q, r) => r \in S
    BY <1>2, SourceHasPromised
<1> HIDE DEF S, page
<1>7. page \subseteq S
    BY <1>3, TopIs
<1>8. page \subseteq listRows /\ page \subseteq DOMAIN Row /\ IsFiniteSet(page)
    BY <1>2, <1>4, <1>7, FS_Subset
<1>9. /\ walk'.pc = "members" /\ walk'.quiet = TRUE /\ walk'.items = {} /\ walk'.page = page
      /\ walk'.query = q /\ walk'.cursor = cursor /\ walk'.start = walk.start
      /\ walk'.touched = walk.touched /\ walk'.removed = walk.removed
      /\ walk'.seen = walk.seen /\ walk'.again = walk.again
    BY <1>1 DEF IsWalk
<1>10. IsWalk'
  <2>1. walk' \in [pc : Moments, query : {walk'.query}, cursor : {walk'.cursor}, page : {walk'.page},
                   items : {walk'.items}, quiet : BOOLEAN, start : {walk'.start},
                   touched : {walk'.touched}, removed : {walk'.removed}, seen : {walk'.seen},
                   again : {walk'.again}]
    BY <1>1 DEF IsWalk, Moments
  <2> QED
    BY <1>1, <1>2, <1>8, <1>9, <2>1 DEF IsWalk
<1>11. HistoryInv'
    BY <1>1, <1>9 DEF HistoryInv
<1>12. SeenInv'
  <2>1. \A n : Removed(n)' <=> Removed(n)
    BY <1>9 DEF Removed
  <2>2. \A n : Kept(n)' <=> Kept(n)
    BY <1>1, <1>9 DEF Kept
  <2>3. ASSUME q.fp = Unset, NEW r \in page, Row[r].fp \in walk.seen
        PROVE  Removed(Row[r].fp)
    <3>1. Removed(Row[r].fp) \/ Kept(Row[r].fp)
      BY <1>1, <2>3 DEF SeenInv
    <3>2. ~Kept(Row[r].fp)
      BY <1>5, <1>7, <2>3 DEF Kept
    <3> QED
      BY <3>1, <3>2
  <2>4. \A r \in page : Past(SeriesKey[r], cursor) /\ r \in listRows /\ Listable(q, r)
    BY <1>4, <1>7, <1>8
  <2> QED
    BY <1>1, <1>9, <2>1, <2>2, <2>3, <2>4 DEF SeenInv
<1>13. AgreeInv'
  <2>1. walk'.page = SelectSeriesPage(walk.query, walk.cursor)'
    <3>1. walk'.page = SelectSeriesPage(walk'.query, walk'.cursor)
      BY <1>9, Zenon DEF page
    <3> QED
      BY <1>1, <1>9, <3>1, SamePage
  <2> QED
    BY <1>9, <2>1 DEF AgreeInv, PageAndMembersAgree
<1>14. \A r : Listed(r)' <=> Listed(r)
    BY <1>9 DEF Listed
<1>15. Latest(QuietRows)' = Latest(QuietRows)
    BY <1>9 DEF QuietRows, Latest
<1>16. ASSUME NEW r \in Latest(QuietRows), ~Listed(r), r \notin page
       PROVE  Cardinality(page) = PageSize /\ \A s \in page : Below(SeriesKey[r], SeriesKey[s])
  <2>1. Past(SeriesKey[r], cursor)
    BY <1>1, <1>16 DEF MissedInv
  <2>2. r \in QuietRows /\ \A s \in QuietRows : Row[s].fp = Row[r].fp => ~NewerMember(s, r)
    BY <1>16 DEF Latest
  <2>3. /\ r \in walk.start /\ Member(r) /\ \A t \in walk.touched : Row[t].fp # Row[r].fp
        /\ Active(q, TimeOf(r)) /\ (q.repo = Unset \/ Row[r].repo = q.repo)
    BY <2>2 DEF QuietRows
  <2>4. r \in Members(q)
    BY <1>1, <2>3 DEF HistoryInv, Members
  <2>5. \A s \in Members(q) : Row[s].fp = Row[r].fp => s \in QuietRows
    BY <1>1, <2>3 DEF HistoryInv, Members, QuietRows
  <2>6. r \in S \ page
    BY <1>6, <1>16, <2>1, <2>2, <2>4, <2>5 DEF Listed
  <2> QED
    BY <1>3, <1>4, <2>6, TopIsFull
<1>17. MissedInv'
    BY <1>1, <1>9, <1>14, <1>15, <1>16 DEF MissedInv
<1>18. RecentRunsAreTheNewest'
    BY <1>1 DEF RecentRunsAreTheNewest
<1> QED
    BY <1>10, <1>11, <1>12, <1>13, <1>17, <1>18 DEF ListInv

\* Without an end date the members read for a row of an undisturbed page begin with it.
LEMMA TailHasLatest ==
    ASSUME ListConstants, ListInv, walk.pc = "members", walk.quiet, walk.query.until = Unset,
           walk.query.fp = Unset, NEW r \in walk.page
    PROVE  /\ r \in SelectSeriesMembers(Row[r].fp)
           /\ \A s \in SelectSeriesMembers(Row[r].fp) : ~NewerMember(s, r)
<1> DEFINE q == walk.query
           cursor == walk.cursor
           T == {s \in listRows : Member(s) /\ Row[s].fp = Row[r].fp}
           Above(x) == {s \in T : Below(MemberKey[x], MemberKey[s])}
<1>1. /\ listRows \subseteq DOMAIN Row /\ IsFiniteSet(listRows) /\ q \in ListQueries
      /\ cursor = NoCursor \/ cursor \in Nat \X Nat
      /\ walk.page = SelectSeriesPage(q, cursor)
    BY DEF ListInv, IsWalk, AgreeInv
<1>2. r \in Source(q, cursor)
  <2>1. walk.page = Top(Source(q, cursor), PageSize, SeriesKey)
    BY <1>1, PageIsTop, Zenon
  <2>2. \A x \in Top(Source(q, cursor), PageSize, SeriesKey) : x \in Source(q, cursor)
    <3> HIDE DEF q, cursor
    <3> QED
      BY TopIs
  <2> QED
    BY <2>1, <2>2, Zenon
<1>3. q.since \in Nat
    BY <1>1 DEF ListConstants
<1>4. r \in listRows /\ Member(r)
    BY <1>1, <1>2, SourceRows DEF Listable
<1>5. \A s \in T : ~NewerMember(s, r)
    BY <1>1, <1>2, <1>3, SourceIsLatest
<1>6. \A x : x \in SelectSeriesMembers(Row[r].fp) <=> x \in T /\ Cardinality(Above(x)) < TailLimit
  <2>1. SelectSeriesMembers(Row[r].fp) = Top(T, TailLimit, MemberKey)
    BY Zenon DEF SelectSeriesMembers
  <2>2. \A x : x \in Top(T, TailLimit, MemberKey) <=> x \in T /\ Cardinality(Above(x)) < TailLimit
    BY TopIs
  <2> QED
    BY <2>1, <2>2, Zenon
<1>7. r \in T /\ Above(r) = {}
    BY <1>4, <1>5 DEF NewerMember
<1>8. Cardinality(Above(r)) = 0 /\ TailLimit \in Nat \ {0}
  <2>1. TailLimit \in Nat \ {0}
    BY DEF ListConstants
  <2> QED
    BY <1>7, <2>1, FS_EmptySet
<1> HIDE DEF T, Above
<1>9. 0 < TailLimit
    BY <1>8
<1> QED
    BY <1>5, <1>6, <1>7, <1>8, <1>9

\* The second statement of a series page, and its answer.
LEMMA ListSeriesMembersInv ==
    ASSUME ListConstants, ListInv, ListSeriesMembers
    PROVE  ListInv'
<1> DEFINE q == walk.query
           cursor == walk.cursor
           page == walk.page
           items == {[latest |-> r, tail |-> SelectSeriesMembers(Row[r].fp)] : r \in page}
<1>1. /\ IsWalk /\ HistoryInv /\ SeenInv /\ AgreeInv /\ MissedInv /\ RecentRunsAreTheNewest
      /\ walk.pc = "members" /\ q.kind = "series" /\ walk' = Answered(walk, page, items)
      /\ listRows' = listRows /\ listUnused' = listUnused /\ runs' = runs
    BY DEF ListInv, ListSeriesMembers, IsWalk
<1>2. /\ cursor = NoCursor \/ cursor \in Nat \X Nat
      /\ page \subseteq DOMAIN Row /\ IsFiniteSet(page) /\ listRows \subseteq DOMAIN Row
    BY <1>1 DEF IsWalk
<1>3. \A r \in DOMAIN Row : SeriesKey[r] \in Nat \X Nat
    BY KeysArePairs
<1>4. \A i \in items : /\ walk.quiet /\ q.until = Unset /\ q.fp = Unset =>
                            i.latest \in i.tail /\ \A s \in i.tail : ~NewerMember(s, i.latest)
    BY <1>1, TailHasLatest
<1> HIDE DEF items
<1>5. \A r : Name(q, r) = Row[r].fp /\ ListKey(q, r) = SeriesKey[r]
    BY <1>1 DEF Name, ListKey
<1>6. /\ walk'.query = q /\ walk'.start = walk.start /\ walk'.touched = walk.touched
      /\ walk'.removed = walk.removed /\ walk'.quiet = walk.quiet
      /\ walk'.items = items /\ walk'.page = {}
      /\ walk'.seen = walk.seen \cup {Row[r].fp : r \in page}
      /\ walk'.again = walk.again \cup (walk.seen \cap {Row[r].fp : r \in page})
      /\ walk' \in [pc : {"page", "done"}, query : {walk'.query}, cursor : {walk'.cursor},
                  page : {walk'.page}, items : {walk'.items}, quiet : BOOLEAN, start : {walk'.start},
                  touched : {walk'.touched}, removed : {walk'.removed}, seen : {walk'.seen},
                  again : {walk'.again}]
      /\ \/ walk'.pc = "done" /\ walk'.cursor = NoCursor /\ Cardinality(page) # PageSize
         \/ /\ walk'.pc = "page"
            /\ \E last \in page : /\ walk'.cursor = SeriesKey[last]
                                  /\ \A s \in page : ~Below(SeriesKey[s], SeriesKey[last])
  <2>1. {Name(q, r) : r \in page} = {Row[r].fp : r \in page}
    BY <1>5
  <2> HIDE DEF q, page
  <2> QED
    BY <1>1, <1>2, <1>5, <2>1, AnsweredIs DEF q
<1>7. walk'.cursor = NoCursor \/ walk'.cursor \in Nat \X Nat
    BY <1>2, <1>3, <1>6
<1>8. IsWalk'
  <2>1. walk'.pc \in {"page", "done"}
    BY <1>6
  <2>2. walk' \in [pc : Moments, query : {walk'.query}, cursor : {walk'.cursor}, page : {walk'.page},
                   items : {walk'.items}, quiet : BOOLEAN, start : {walk'.start},
                   touched : {walk'.touched}, removed : {walk'.removed}, seen : {walk'.seen},
                   again : {walk'.again}]
    BY <1>6 DEF Moments
  <2> QED
    BY <1>1, <1>6, <1>7, <2>1, <2>2, FS_EmptySet DEF IsWalk
<1>9. HistoryInv'
    BY <1>1, <1>6 DEF HistoryInv
<1>10. SeenInv'
  <2>1. \A n : Removed(n)' <=> Removed(n)
    BY <1>6 DEF Removed
  <2>2. ASSUME q.fp = Unset, NEW r \in page
        PROVE  /\ Past(SeriesKey[r], cursor)
               /\ Removed(Row[r].fp) \/ (r \in listRows /\ Listable(q, r))
               /\ Row[r].fp \in walk.seen => Removed(Row[r].fp)
    BY <1>1, <2>2 DEF SeenInv, Removed
  <2>3. ASSUME q.fp = Unset, NEW n \in walk'.again PROVE Removed(n)
    BY <1>1, <1>6, <2>2, <2>3 DEF SeenInv
  <2>4. ASSUME q.fp = Unset, walk'.pc = "page", NEW n \in walk'.seen
        PROVE  Removed(n) \/ Kept(n)'
    <3>1. PICK last \in page : /\ walk'.cursor = SeriesKey[last]
                               /\ \A s \in page : ~Below(SeriesKey[s], SeriesKey[last])
      BY <1>6, <2>4
    <3>2. CASE n \in walk.seen
      <4>1. Removed(n) \/ Kept(n)
        BY <1>1, <2>4, <3>2 DEF SeenInv
      <4>2. ASSUME Kept(n) PROVE Kept(n)'
        <5>1. PICK s \in listRows : Row[s].fp = n /\ Listable(q, s) /\ ~Past(SeriesKey[s], cursor)
          BY <4>2 DEF Kept
        <5>2. Past(SeriesKey[last], cursor)
          BY <2>2, <2>4
        <5>3. SeriesKey[last] \in Nat \X Nat /\ SeriesKey[s] \in Nat \X Nat
          BY <1>2, <1>3
        <5>4. ~Past(SeriesKey[s], walk'.cursor)
          BY <1>2, <3>1, <5>1, <5>2, <5>3, CursorSinks
        <5>5. Listable(walk'.query, s) /\ s \in listRows'
          BY <1>1, <1>6, <5>1
        <5> QED
          BY <5>1, <5>4, <5>5 DEF Kept
      <4> QED
        BY <4>1, <4>2
    <3>3. CASE n \notin walk.seen
      <4>1. PICK r \in page : n = Row[r].fp
        BY <1>6, <2>4, <3>3
      <4>2. ~Past(SeriesKey[r], walk'.cursor)
        BY <1>2, <1>3, <3>1, KeyIsNoCursor DEF Past
      <4>3. CASE r \in listRows /\ Listable(q, r)
        <5>1. Listable(walk'.query, r) /\ r \in listRows'
          BY <1>1, <1>6, <4>3
        <5> QED
          BY <4>1, <4>2, <5>1 DEF Kept
      <4> QED
        BY <2>2, <2>4, <4>1, <4>3
    <3> QED
      BY <3>2, <3>3
  <2>5. walk'.pc # "members"
    BY <1>6
  <2> QED
    BY <1>1, <1>6, <2>1, <2>3, <2>4, <2>5 DEF SeenInv
<1>11. AgreeInv'
  <2>1. walk'.pc # "members"
    BY <1>6
  <2> QED
    BY <1>4, <1>6, <2>1 DEF AgreeInv, PageAndMembersAgree
<1>12. ASSUME NEW r \in Latest(QuietRows)
       PROVE  Listed(r)' \/ (walk'.pc = "page" /\ Past(SeriesKey[r], walk'.cursor))
  <2>1. CASE Listed(r)
    BY <1>6, <2>1 DEF Listed
  <2>2. CASE r \in page
    BY <1>6, <2>2 DEF Listed
  <2>3. CASE Cardinality(page) = PageSize /\ \A s \in page : Below(SeriesKey[r], SeriesKey[s])
    BY <1>6, <2>3 DEF Past
  <2> QED
    BY <1>1, <1>12, <2>1, <2>2, <2>3 DEF MissedInv
<1>13. Latest(QuietRows)' = Latest(QuietRows)
    BY <1>6 DEF QuietRows, Latest
<1>14. MissedInv'
    BY <1>1, <1>6, <1>12, <1>13 DEF MissedInv
<1>15. RecentRunsAreTheNewest'
    BY <1>1 DEF RecentRunsAreTheNewest
<1> QED
    BY <1>8, <1>9, <1>10, <1>11, <1>14, <1>15 DEF ListInv

-----------------------------------------------------------------------------
(* The recent runs. *)

\* A run with a result in a set of rows has a newest one there.
LEMMA LastOfIs ==
    ASSUME ListConstants, NEW S, S \subseteq DOMAIN Row, IsFiniteSet(S), NEW run,
           \E r \in S : Row[r].run = run
    PROVE  /\ LastOf(run, S) \in S /\ Row[LastOf(run, S)].run = run
           /\ \A s \in S : Row[s].run = run => Row[s].at <= Row[LastOf(run, S)].at
<1> DEFINE T == {r \in S : Row[r].run = run}
           R == {p \in T \X T : Below(RecentKey[p[2]], RecentKey[p[1]])}
<1>1. T # {} /\ IsFiniteSet(T) /\ T \subseteq DOMAIN Row
    BY FS_Subset
<1>2. \A r \in T : RecentKey[r] = <<Row[r].at, r>> /\ RecentKey[r] \in Nat \X Nat
    BY <1>1, KeysArePairs
<1>3. \A x, y \in T : <<x, y>> \in R <=> Below(RecentKey[y], RecentKey[x])
    OBVIOUS
<1>4. \A x \in T : <<x, x>> \notin R
    BY <1>2, BelowIsOrder
<1>5. \A x, y, z \in T : <<x, y>> \in R /\ <<y, z>> \in R => <<x, z>> \in R
    BY <1>2, <1>3, BelowIsOrder
<1> HIDE DEF R
<1>6. PICK m \in T : \A x \in T : <<x, m>> \notin R
  <2> HIDE DEF T
  <2> QED
    BY <1>1, <1>4, <1>5, FiniteHasFirst
<1>7. \E r \in S : Row[r].run = run /\ \A s \in S : Row[s].run = run => ~NewerResult(s, r)
    BY <1>3, <1>6 DEF NewerResult
<1> DEFINE last == LastOf(run, S)
<1>8. last \in S /\ Row[last].run = run /\ \A s \in S : Row[s].run = run => ~NewerResult(s, last)
    BY <1>7, Zenon DEF LastOf
<1>9. ASSUME NEW s \in S, Row[s].run = run PROVE Row[s].at <= Row[last].at
  <2>1. ~Below(RecentKey[last], RecentKey[s])
    BY <1>8, <1>9 DEF NewerResult
  <2>2. s \in T /\ last \in T
    BY <1>8, <1>9
  <2>3. PICK i \in Nat : i = Row[s].at
    BY <1>1, <2>2, KeysArePairs
  <2>4. PICK j \in Nat : j = Row[last].at
    BY <1>1, <2>2, KeysArePairs
  <2>5. RecentKey[s] = <<i, s>> /\ RecentKey[last] = <<j, last>>
    BY <1>2, <2>2, <2>3, <2>4
  <2> HIDE DEF last
  <2> QED
    BY <2>1, <2>3, <2>4, <2>5 DEF Below
<1> QED
    BY <1>8, <1>9

\* A result whose run is not selected is no newer than the newest candidate of a
\* selected run: either it is no candidate, or its run is behind.
LEMMA SelectedIsNewer ==
    ASSUME ListConstants, listRows \subseteq DOMAIN Row, IsFiniteSet(listRows), NEW repo,
           NEW run \in SelectedRuns(repo)
    PROVE  \E l \in listRows :
             /\ Row[l].run = run /\ InRepo(l, repo)
             /\ \A r \in listRows : InRepo(r, repo) /\ Row[r].run \notin SelectedRuns(repo) =>
                                       Row[r].at <= Row[l].at
<1> DEFINE R == {r \in Candidates : InRepo(r, repo)}
           ids == {Row[r].run : r \in R}
           key == [n \in ids |-> <<Row[LastOf(n, R)].at, n>>]
           l == LastOf(run, R)
<1>1. Candidates = Top(listRows, CandidateLimit, RecentKey) /\ CandidateLimit \in Nat
      /\ PageSize \in Nat
    BY Zenon DEF Candidates, ListConstants
<1>2. \A r \in Candidates : r \in listRows
    BY <1>1, TopIs
<1>3. \A r \in DOMAIN Row : RecentKey[r] = <<Row[r].at, r>> /\ RecentKey[r] \in Nat \X Nat
                            /\ Row[r].at \in Nat /\ Row[r].run \in Nat
  <2>1. \A r \in DOMAIN Row : Row[r].at \in Nat /\ Row[r].run \in Nat
    BY DEF ListConstants
  <2> QED
    BY <2>1, KeysArePairs
<1>4. R \subseteq listRows /\ R \subseteq DOMAIN Row /\ IsFiniteSet(R)
    BY <1>2, FS_Subset
<1>5. SelectedRuns(repo) = Top(ids, PageSize, key)
    BY Zenon DEF SelectedRuns
<1>6. IsFiniteSet(ids) /\ ids \subseteq Nat
  <2>1. ids \subseteq Nat
    BY <1>3, <1>4
  <2> DEFINE f == [r \in R |-> Row[r].run]
  <2>2. ids = {f[r] : r \in R}
    OBVIOUS
  <2> HIDE DEF ids, f, R
  <2> QED
    BY <1>4, <2>1, <2>2, FiniteImage
<1> HIDE DEF R
<1>7. \A n \in ids : \E r \in R : Row[r].run = n
    OBVIOUS
<1>8. \A n \in ids : /\ LastOf(n, R) \in R /\ Row[LastOf(n, R)].run = n
                     /\ \A s \in R : Row[s].run = n => Row[s].at <= Row[LastOf(n, R)].at
  <2> HIDE DEF ids
  <2> QED
    BY <1>4, <1>7, LastOfIs
<1>9. \A n \in ids : key[n] = <<Row[LastOf(n, R)].at, n>> /\ key[n] \in Nat \X Nat
    BY <1>3, <1>4, <1>6, <1>8
<1>10. \A s \in R : Row[s].run \in ids
    OBVIOUS
<1> HIDE DEF ids, key
<1>11. run \in Top(ids, PageSize, key) /\ run \in ids
    BY <1>5, TopIs
<1>12. l \in R /\ l \in listRows /\ l \in Candidates /\ Row[l].run = run /\ InRepo(l, repo)
    BY <1>4, <1>8, <1>11 DEF R
<1>13. key[run] = <<Row[l].at, run>> /\ run \in Nat
    BY <1>6, <1>9, <1>11
<1> HIDE DEF l
<1>14. PICK i \in Nat : i = Row[l].at
    BY <1>3, <1>4, <1>12
<1>15. ASSUME NEW r \in listRows, InRepo(r, repo), Row[r].run \notin SelectedRuns(repo)
       PROVE  Row[r].at <= Row[l].at
  <2>1. PICK j \in Nat : j = Row[r].at
    BY <1>3
  <2>2. CASE r \notin Candidates
    <3>1. \A x \in listRows : RecentKey[x] \in Nat \X Nat
      BY <1>3
    <3>2. l \in Top(listRows, CandidateLimit, RecentKey)
          /\ r \in listRows \ Top(listRows, CandidateLimit, RecentKey)
      BY <1>1, <1>12, <2>2, Zenon
    <3>3. ~Below(RecentKey[l], RecentKey[r])
      BY <1>1, <3>1, <3>2, TopIsOnTop
    <3>4. RecentKey[l] = <<i, l>> /\ RecentKey[r] = <<j, r>>
      BY <1>3, <1>12, <1>14, <2>1
    <3> QED
      BY <1>14, <2>1, <3>3, <3>4 DEF Below
  <2>3. CASE r \in Candidates
    <3> DEFINE n == Row[r].run
               m == LastOf(n, R)
    <3>1. r \in R /\ n \in ids
      BY <1>10, <1>15, <2>3 DEF R
    <3>2. m \in R /\ Row[r].at <= Row[m].at /\ key[n] = <<Row[m].at, n>>
      BY <1>8, <1>9, <3>1
    <3>3. n \in ids \ Top(ids, PageSize, key)
      BY <1>5, <1>15, <3>1, Zenon
    <3> HIDE DEF n, m
    <3>4. ~Below(key[run], key[n])
      BY <1>1, <1>6, <1>9, <1>11, <3>3, TopIsOnTop
    <3>5. PICK k \in Nat : k = Row[m].at
      BY <1>3, <1>4, <3>2
    <3>6. ~Below(<<i, run>>, <<k, n>>) /\ j <= k
      BY <1>13, <1>14, <2>1, <3>2, <3>4, <3>5
    <3>7. j <= i
      BY <3>6 DEF Below
    <3> QED
      BY <1>14, <2>1, <3>7
  <2> QED
    BY <2>2, <2>3
<1> QED
    BY <1>12, <1>15

\* The recent runs are listed.
LEMMA ListRecentRunsInv ==
    ASSUME ListConstants, ListInv, NEW repo, ListRecentRuns(repo)
    PROVE  ListInv'
<1> DEFINE rows == {RunRow(run, repo) : run \in SelectedRuns(repo)}
<1>1. /\ IsWalk /\ HistoryInv /\ SeenInv /\ AgreeInv /\ MissedInv /\ walk.pc = "idle"
      /\ listRows' = listRows /\ listUnused' = listUnused /\ walk' = walk
      /\ \E late : runs' = {[repo |-> repo, rows |-> rows, attention |-> late]}
    BY DEF ListInv, ListRecentRuns
<1>2. listRows \subseteq DOMAIN Row /\ IsFiniteSet(listRows) /\ walk = NoWalk /\ walk.items = {}
    BY <1>1 DEF IsWalk, NoWalk
<1>3. IsWalk'
    BY <1>1 DEF IsWalk
<1>4. HistoryInv' /\ SeenInv' /\ MissedInv'
    BY <1>1 DEF HistoryInv, SeenInv, MissedInv
<1>5. AgreeInv'
    BY <1>1, <1>2 DEF AgreeInv, PageAndMembersAgree
<1> DEFINE all == {r \in listRows : InRepo(r, repo)}
           listed == {x.run : x \in rows}
           Of(run) == {r \in listRows : Row[r].run = run /\ InRepo(r, repo)}
<1>6. \A run : /\ RunRow(run, repo).run = run
               /\ RunRow(run, repo).latest = LastOf(run, Of(run))
               /\ RunRow(run, repo).count = Cardinality(Of(run))
    BY DEF RunRow
<1>7. listed = SelectedRuns(repo)
    BY <1>6
<1>8. ASSUME NEW run \in SelectedRuns(repo), NEW r \in all, Row[r].run \notin listed
      PROVE  Row[r].at <= Row[RunRow(run, repo).latest].at
  <2>1. PICK l \in listRows :
          /\ Row[l].run = run /\ InRepo(l, repo)
          /\ \A s \in listRows : InRepo(s, repo) /\ Row[s].run \notin SelectedRuns(repo) =>
                                    Row[s].at <= Row[l].at
    BY <1>2, SelectedIsNewer
  <2>2. Row[r].at <= Row[l].at
    BY <1>7, <1>8, <2>1
  <2>3. Of(run) \subseteq DOMAIN Row /\ Of(run) \subseteq listRows /\ IsFiniteSet(Of(run)) /\ l \in Of(run)
        /\ \A s \in Of(run) : Row[s].run = run
    BY <1>2, <2>1, FS_Subset
  <2> HIDE DEF Of
  <2>4. LastOf(run, Of(run)) \in Of(run) /\ Row[l].at <= Row[LastOf(run, Of(run))].at
    BY <2>1, <2>3, LastOfIs
  <2>5. \A s \in DOMAIN Row : Row[s].at \in Nat
    BY DEF ListConstants
  <2>6. r \in DOMAIN Row /\ l \in DOMAIN Row /\ LastOf(run, Of(run)) \in DOMAIN Row
    BY <1>2, <2>3, <2>4
  <2>7. Row[r].at <= Row[LastOf(run, Of(run))].at
    BY <2>2, <2>4, <2>5, <2>6
  <2> QED
    BY <1>6, <2>7
<1>9. \A run : RunRow(run, repo).count = Cardinality({r \in all : Row[r].run = run})
  <2>1. \A run : {r \in all : Row[r].run = run} = Of(run)
    OBVIOUS
  <2> HIDE DEF all, Of
  <2> QED
    BY <1>6, <2>1
<1>10. RecentRunsAreTheNewest'
  <2> SUFFICES ASSUME NEW a \in runs'
               PROVE  LET al == {r \in listRows' : InRepo(r, a.repo)}
                          li == {x.run : x \in a.rows}
                      IN  /\ \A x \in a.rows, r \in al : Row[r].run \notin li => Row[r].at <= Row[x.latest].at
                          /\ \A x \in a.rows : x.count = Cardinality({r \in al : Row[r].run = x.run})
    BY Zenon DEF RecentRunsAreTheNewest
  <2>1. a.repo = repo /\ a.rows = rows
    BY <1>1
  <2>2. \A x \in rows, r \in all : Row[r].run \notin listed => Row[r].at <= Row[x.latest].at
    BY <1>8
  <2>3. \A x \in rows : x.count = Cardinality({r \in all : Row[r].run = x.run})
    BY <1>6, <1>9
  <2> HIDE DEF rows
  <2> QED
    BY <1>1, <2>1, <2>2, <2>3
<1> QED
    BY <1>3, <1>4, <1>5, <1>10 DEF ListInv

-----------------------------------------------------------------------------
(* What the lists promise. *)

\* Every step of the readers and the writers keeps the invariant.
LEMMA ListInvStep == ListConstants /\ ListInv /\ [ListNext]_listVars => ListInv'
<1> SUFFICES ASSUME ListConstants, ListInv, [ListNext]_listVars PROVE ListInv'
    OBVIOUS
<1>1. ASSUME NEW q \in ListQueries, Begin(q) PROVE ListInv'
    BY <1>1, BeginInv
<1>2. CASE ListResults
    BY <1>2, ListResultsInv
<1>3. CASE ListSeries
    BY <1>3, ListSeriesInv
<1>4. CASE ListSeriesMembers
    BY <1>4, ListSeriesMembersInv
<1>5. ASSUME NEW repo, ListRecentRuns(repo) PROVE ListInv'
    BY <1>5, ListRecentRunsInv
<1>6. CASE SubmitRow
  <2>1. PICK r \in listUnused : listRows' = listRows \cup {r} /\ listUnused' = listUnused \ {r} /\ Write(r)
    BY <1>6 DEF SubmitRow
  <2>2. r \in DOMAIN Row
    BY DEF ListInv, IsWalk
  <2> QED
    BY <2>1, <2>2, WriteInv
<1>7. CASE DeleteRow
  <2>1. PICK r \in listRows : listRows' = listRows \ {r} /\ listUnused' = listUnused /\ Write(r)
    BY <1>7 DEF DeleteRow
  <2>2. r \in DOMAIN Row
    BY DEF ListInv, IsWalk
  <2> QED
    BY <2>1, <2>2, WriteInv
<1>8. CASE UNCHANGED listVars
  <2>1. listRows' = listRows /\ listUnused' = listUnused /\ walk' = walk /\ runs' = runs
    BY <1>8 DEF listVars
  <2>2. IsWalk'
    BY <2>1 DEF ListInv, IsWalk
  <2>3. HistoryInv'
    BY <2>1 DEF ListInv, HistoryInv
  <2>4. SeenInv'
    BY <2>1 DEF ListInv, SeenInv, Removed, Kept
  <2>5. AgreeInv'
    <3>1. SelectSeriesPage(walk.query, walk.cursor)' = SelectSeriesPage(walk.query, walk.cursor)
      BY <2>1, SamePage
    <3> QED
      BY <2>1, <3>1 DEF ListInv, AgreeInv, PageAndMembersAgree
  <2>6. MissedInv'
    BY <2>1 DEF ListInv, MissedInv, Listed, QuietRows, Latest
  <2>7. RecentRunsAreTheNewest'
    BY <2>1 DEF ListInv, RecentRunsAreTheNewest
  <2> QED
    BY <2>2, <2>3, <2>4, <2>5, <2>6, <2>7 DEF ListInv
<1> QED
    BY <1>1, <1>2, <1>3, <1>4, <1>5, <1>6, <1>7, <1>8 DEF ListNext

\* The walks keep their history straight: ListInv relates what has been listed, the
\* cursor and the page between its two statements (ListSeries in service/series.go)
\* to the rows that are left and those written to since the walk began.
THEOREM ListInvariant == ListSpec => []ListInv
<1>1. ListInit => ListInv
    BY ListInvInit, ReadsAssumption
<1>2. ListInv /\ [ListNext]_listVars => ListInv'
    BY ListInvStep, ReadsAssumption
<1> QED
    BY <1>1, <1>2, PTL DEF ListSpec

\* A walk lists no result twice, and no series unless a member of it was deleted
\* meanwhile, whatever is submitted between its pages.
THEOREM NothingListedTwiceAlways == ListSpec => []NothingListedTwice
<1>1. ListInv => NothingListedTwice
  <2> SUFFICES ASSUME ListInv, NEW n \in walk.again, ~(walk.query.kind = "series" /\ walk.query.fp # Unset)
               PROVE  walk.query.kind = "series" /\ Removed(n)
    BY DEF NothingListedTwice, Removed
  <2>1. walk.pc # "idle"
    BY DEF ListInv, IsWalk, NoWalk
  <2> QED
    BY <2>1 DEF ListInv, SeenInv
<1> QED
    BY <1>1, ListInvariant, PTL

\* The two statements of a series page agree when nothing was written in between.
THEOREM PageAndMembersAgreeAlways == ListSpec => []PageAndMembersAgree
<1>1. ListInv => PageAndMembersAgree
    BY DEF ListInv, AgreeInv
<1> QED
    BY <1>1, ListInvariant, PTL

\* A walk that has ended has listed all that was there from its beginning, was not
\* written to and is promised by its query; the recent runs are the newest, with
\* counts over all their results.
THEOREM NothingMissedAlways == ListSpec => []NothingMissed
<1>1. ListInv => PagesMissNothing
  <2> SUFFICES ASSUME ListInv PROVE PagesMissNothing
    OBVIOUS
  <2> DEFINE q == walk.query
  <2>1. CASE walk.pc = "done" /\ q.kind = "results"
    <3>1. \A r \in walk.start \cap listRows : q.run = Unset \/ Row[r].run = q.run => r \in walk.seen
      BY <2>1 DEF ListInv, MissedInv
    <3> QED
      BY <2>1, <3>1 DEF PagesMissNothing
  <2>2. CASE walk.pc = "done" /\ q.kind # "results"
    <3>1. q.kind = "series"
      BY <2>2 DEF ListInv, IsWalk
    <3>2. \A r \in Latest(QuietRows) : Row[r].fp \in walk.seen \/ NotPromised(q, r)
      BY <2>2, <3>1 DEF ListInv, MissedInv, Listed
    <3> DEFINE start == {r \in walk.start :
                 /\ Member(r) /\ (\A t \in walk.touched : Row[t].fp # Row[r].fp) /\ Active(q, TimeOf(r))
                 /\ (q.repo = Unset \/ Row[r].repo = q.repo)}
    <3>3. start = QuietRows
      BY DEF QuietRows
    <3>4. \A c : InWindow(q, c) <=>
            Cardinality({d \in DefaultCommits(q) : ListCommit[d].time > ListCommit[c].time})
                < (IF q.search THEN QRecentLimit ELSE BrowseLimit)
      BY Zenon DEF InWindow
    <3>5. \A r \in Latest(start) : Row[r].fp \in walk.seen \/ NotPromised(q, r)
      BY <3>2, <3>3, Zenon
    <3> HIDE DEF q
    <3> QED
      BY <2>2, <3>4, <3>5 DEF PagesMissNothing, NotPromised, q
  <2> QED
    BY <2>1, <2>2 DEF PagesMissNothing
<1>2. ListInv => NothingMissed
    BY <1>1 DEF ListInv, NothingMissed
<1> QED
    BY <1>2, ListInvariant, PTL

-----------------------------------------------------------------------------
(* The rows of a series and their order. *)

Requests == UNION {Submission[i] : i \in DOMAIN Submission}

Resolved == {resolveStats(s) : s \in Requests}

StoredRow == [id : Nat, commit : DOMAIN SeriesCommit, at : Nat, unit : {d.unit : d \in Resolved},
              data : {d.data : d \in Resolved}, error : {d.error : d \in Resolved},
              aggs : {d.aggs : d \in Resolved}, begins : BOOLEAN]

\* The rows are in the order of their ids, which the requests' numbers are.
RowsInv ==
    /\ seriesRows \in Seq(StoredRow) /\ submitted \in Nat
    /\ \A i \in 1..Len(seriesRows) : seriesRows[i].id <= submitted
    /\ \A i, j \in 1..Len(seriesRows) : i < j => seriesRows[i].id < seriesRows[j].id

\* A row's time is its commit's.
LEMMA TimeIsNumber ==
    ASSUME StatisticsAssumption, NEW r \in StoredRow
    PROVE  Time(r) \in Nat /\ r.id \in Nat /\ r.begins \in BOOLEAN
<1>1. r.commit \in DOMAIN SeriesCommit /\ r.id \in Nat /\ r.begins \in BOOLEAN
    BY DEF StoredRow
<1>2. SeriesCommit[r.commit] \in [time : Nat, default : BOOLEAN]
    BY <1>1 DEF StatisticsAssumption
<1> QED
    BY <1>1, <1>2 DEF Time

\* A set of rows with ids of their own is put in order: the i-th has i - 1 before it.
Ordered(S) == /\ S \subseteq StoredRow /\ IsFiniteSet(S)
              /\ \A r, s \in S : r.id = s.id => r = s

LEMMA InOrderIs ==
    ASSUME StatisticsAssumption, NEW S, Ordered(S)
    PROVE  /\ Cardinality(S) \in Nat /\ DOMAIN InOrder(S) = 1..Cardinality(S)
           /\ \A i \in 1..Cardinality(S) :
                /\ InOrder(S)[i] \in S
                /\ Cardinality({s \in S : Before(s, InOrder(S)[i])}) = i - 1
           /\ \A r \in S : \E i \in 1..Cardinality(S) : InOrder(S)[i] = r
           /\ \A i, j \in 1..Cardinality(S) : InOrder(S)[i] = InOrder(S)[j] => i = j
<1> DEFINE Ahead(r) == {s \in S : Before(s, r)}
           ahead == [r \in S |-> Ahead(r)]
           rank == [r \in S |-> Cardinality(ahead[r])]
           n == Cardinality(S)
           list == InOrder(S)
<1>1. \A r \in S : Time(r) \in Nat /\ r.id \in Nat
    BY TimeIsNumber DEF Ordered
<1>2. \A r, s \in S : ahead[r] = Ahead(r) /\ (s \in ahead[r] <=> Before(s, r))
    OBVIOUS
<1>3. ahead \in [S -> SUBSET S]
    OBVIOUS
<1>4. rank \in Bijection(S, 0..(n - 1))
  <2> HIDE DEF ahead
  <2>1. \A x \in S : x \notin ahead[x]
    BY <1>1, <1>2 DEF Before
  <2>2. \A x, y \in S : y \in ahead[x] => ahead[y] \subseteq ahead[x]
    BY <1>1, <1>2, <1>3 DEF Before
  <2>3. \A x, y \in S : x # y => x \in ahead[y] \/ y \in ahead[x]
    BY <1>1, <1>2 DEF Before, Ordered
  <2>4. IsFiniteSet(S)
    BY DEF Ordered
  <2> QED
    BY <1>3, <2>1, <2>2, <2>3, <2>4, RanksCountAhead
<1>5. n \in Nat
    BY FS_CardinalityType DEF Ordered
<1>6. list = [i \in 1..n |-> CHOOSE r \in S : Cardinality(Ahead(r)) = i - 1]
    BY Zenon DEF InOrder
<1>7. \A r \in S : rank[r] = Cardinality(Ahead(r))
    OBVIOUS
<1> HIDE DEF ahead, rank, n, list, Ahead
<1>8. \A r \in S : rank[r] \in 0..(n - 1)
    BY <1>4 DEF Bijection, Injection
<1>9. \A k \in 0..(n - 1) : \E r \in S : rank[r] = k
    BY <1>4 DEF Bijection, Surjection
<1>10. \A r, s \in S : rank[r] = rank[s] => r = s
    BY <1>4 DEF Bijection, Injection, IsInjective
<1>11. ASSUME NEW i \in 1..n PROVE list[i] \in S /\ Cardinality(Ahead(list[i])) = i - 1
  <2>1. i - 1 \in 0..(n - 1)
    BY <1>5
  <2>2. \E r \in S : Cardinality(Ahead(r)) = i - 1
    BY <1>7, <1>9, <2>1
  <2>3. list[i] = CHOOSE r \in S : Cardinality(Ahead(r)) = i - 1
    BY <1>6
  <2> QED
    BY <2>2, <2>3, Zenon
<1>12. ASSUME NEW r \in S PROVE \E i \in 1..n : list[i] = r
  <2>1. rank[r] + 1 \in 1..n /\ (rank[r] + 1) - 1 = rank[r]
    BY <1>5, <1>8
  <2>2. list[rank[r] + 1] \in S /\ rank[list[rank[r] + 1]] = rank[r]
    BY <1>7, <1>11, <2>1
  <2> QED
    BY <1>10, <2>1, <2>2
<1>13. \A i, j \in 1..n : list[i] = list[j] => i = j
    BY <1>5, <1>11
<1>14. DOMAIN list = 1..n
    BY <1>6
<1> QED
    BY <1>5, <1>11, <1>12, <1>13, <1>14 DEF n, list, Ahead

\* The earlier place is that of the row before.
LEMMA InOrderAscends ==
    ASSUME StatisticsAssumption, NEW S, Ordered(S)
    PROVE  \A i, j \in 1..Cardinality(S) : i < j => Before(InOrder(S)[i], InOrder(S)[j])
<1> DEFINE m == InOrder(S)
           Ahead(r) == {s \in S : Before(s, r)}
<1> SUFFICES ASSUME NEW i \in 1..Cardinality(S), NEW j \in 1..Cardinality(S), i < j,
                    ~Before(m[i], m[j])
             PROVE  FALSE
    OBVIOUS
<1>1. /\ m[i] \in S /\ m[j] \in S /\ m[i] # m[j] /\ Cardinality(S) \in Nat
      /\ Cardinality(Ahead(m[i])) = i - 1 /\ Cardinality(Ahead(m[j])) = j - 1
  <2>1. /\ \A k \in 1..Cardinality(S) : m[k] \in S /\ Cardinality(Ahead(m[k])) = k - 1
        /\ \A k, l \in 1..Cardinality(S) : m[k] = m[l] => k = l
        /\ Cardinality(S) \in Nat
    BY InOrderIs, Zenon
  <2> HIDE DEF m, Ahead
  <2> QED
    BY <2>1
<1>2. \A r \in S : Time(r) \in Nat /\ r.id \in Nat
    BY TimeIsNumber DEF Ordered
<1>3. m[i].id # m[j].id
    BY <1>1 DEF Ordered
<1>4. IsFiniteSet(Ahead(m[i])) /\ Ahead(m[j]) \subseteq Ahead(m[i])
  <2> HIDE DEF m
  <2>1. IsFiniteSet(Ahead(m[i]))
    BY FS_Subset DEF Ordered
  <2>2. \A s \in S : Before(s, m[j]) => Before(s, m[i])
    BY <1>1, <1>2, <1>3, SMTT(40) DEF Before
  <2> QED
    BY <2>1, <2>2
<1> HIDE DEF m, Ahead
<1>5. Cardinality(Ahead(m[j])) <= Cardinality(Ahead(m[i]))
    BY <1>4, FS_Subset
<1> QED
    BY <1>1, <1>5

-----------------------------------------------------------------------------
(* The rolling statistics. *)

\* What RollingStatsForSeries says of a point for a comparison,
LEMMA StatsWithCurrent ==
    ASSUME NEW p
    PROVE  LET s == RollingStatsForSeries(p, TRUE)
               outlier == detectShifts(p).outlier
               excl == meansExcludingThis(p, outlier)
               residual == residuals(p, excl)
           IN  /\ DOMAIN s = DOMAIN p
               /\ \A i \in DOMAIN p :
                    /\ s[i].segment = segment(p, i) /\ s[i].outlier = (i \in outlier)
                    /\ s[i].meanExcludingThis = excl[i] /\ s[i].residual = residual[i]
                    /\ s[i].mean = groupedCommitRollingMean(p, outlier, i, TRUE)
                    /\ s[i].stddev = residualStddev(p, outlier, residual, i, TRUE)
    BY Zenon DEF RollingStatsForSeries, rollingStats

\* and what it says for the history endpoint.
LEMMA StatsBeforeCurrent ==
    ASSUME NEW p
    PROVE  LET s == RollingStatsForSeries(p, FALSE)
               outlier == detectShifts(p).outlier
               excl == meansExcludingThis(p, outlier)
               residual == residuals(p, excl)
           IN  /\ DOMAIN s = DOMAIN p
               /\ \A i \in DOMAIN p :
                    /\ s[i].segment = segment(p, i) /\ s[i].outlier = (i \in outlier)
                    /\ s[i].meanExcludingThis = excl[i] /\ s[i].residual = residual[i]
                    /\ s[i].mean = excl[i]
                    /\ s[i].stddev = residualStddev(p, outlier, residual, i, FALSE)
    BY Zenon DEF RollingStatsForSeries, rollingStats

\* The points of a series have its rows' times.
LEMMA PointsAre ==
    ASSUME NEW m
    PROVE  /\ DOMAIN Points(m) = DOMAIN m
           /\ \A i \in DOMAIN m : /\ Points(m)[i].time = Time(m[i])
                                  /\ Points(m)[i].svs = SingleValueSummary(m[i])
                                  /\ Points(m)[i].begins = m[i].begins
    BY Zenon DEF Points, SinglePoint

SameStats(s, i, j) ==
    /\ s[i].segment = s[j].segment
    /\ ~s[i].outlier /\ ~s[j].outlier => s[i].mean = s[j].mean /\ s[i].stddev = s[j].stddev

\* The statistics of a point depend on its time alone.
LEMMA TiedPointsAgree ==
    ASSUME NEW p, NEW i \in DOMAIN p, NEW j \in DOMAIN p, p[i].time = p[j].time,
           NEW s, s = RollingStatsForSeries(p, TRUE)
    PROVE  SameStats(s, i, j)
<1> DEFINE outlier == detectShifts(p).outlier
           residual == residuals(p, meansExcludingThis(p, outlier))
<1>1. segment(p, i) = segment(p, j)
    BY Zenon DEF segment
<1>2. \A I : rollingCommitRank(p, I, i, TRUE) = rollingCommitRank(p, I, j, TRUE)
    BY Zenon DEF rollingCommitRank, Rank
<1> HIDE DEF outlier, residual
<1>3. i \notin outlier /\ j \notin outlier =>
        groupedCommitRollingMean(p, outlier, i, TRUE) = groupedCommitRollingMean(p, outlier, j, TRUE)
    BY <1>1, <1>2, Zenon DEF groupedCommitRollingMean
<1>4. i \notin outlier /\ j \notin outlier =>
        residualStddev(p, outlier, residual, i, TRUE) = residualStddev(p, outlier, residual, j, TRUE)
    BY <1>2, Zenon DEF residualStddev
<1>5. \A k \in DOMAIN p :
        /\ s[k].segment = segment(p, k) /\ s[k].outlier = (k \in outlier)
        /\ s[k].mean = groupedCommitRollingMean(p, outlier, k, TRUE)
        /\ s[k].stddev = residualStddev(p, outlier, residual, k, TRUE)
    BY StatsWithCurrent, Zenon DEF outlier, residual
<1> QED
    BY <1>1, <1>3, <1>4, <1>5, Zenon DEF SameStats

\* Times are numbers.
Timed(p) == IsFiniteSet(DOMAIN p) /\ \A i \in DOMAIN p : p[i].time \in Nat /\ p[i].begins \in BOOLEAN

\* How many times lie behind: the rows' ranks differ by the times between them.
LEMMA RanksBehind ==
    ASSUME NEW p, Timed(p), NEW I \in SUBSET DOMAIN p, NEW i \in I, NEW j \in I,
           NEW between, between = {p[k].time : k \in {x \in I : /\ p[x].time > p[j].time
                                                                /\ p[x].time <= p[i].time}}
    PROVE  /\ p[j].time > p[i].time => Rank(p, I, i) - Rank(p, I, j) < 0
           /\ p[j].time <= p[i].time =>
                /\ Rank(p, I, i) - Rank(p, I, j) = Cardinality(between)
                /\ IsFiniteSet(between) /\ Cardinality(between) \in Nat
                /\ p[j].time < p[i].time <=> between # {}
<1> DEFINE Times(k) == {p[x].time : x \in {y \in I : p[y].time <= p[k].time}}
<1>1. \A k \in I : p[k].time \in Nat
    BY DEF Timed
<1>2. \A k \in I : Rank(p, I, k) = Cardinality(Times(k))
    BY Zenon DEF Rank
<1>3. \A k \in I : \A t : t \in Times(k) <=> (t <= p[k].time /\ \E x \in I : p[x].time = t)
    OBVIOUS
<1>4. \A t : t \in between <=> (t > p[j].time /\ t <= p[i].time /\ \E x \in I : p[x].time = t)
    OBVIOUS
<1> HIDE DEF Times
<1>5. \A k \in I : IsFiniteSet(Times(k)) /\ Cardinality(Times(k)) \in Nat
  <2> SUFFICES ASSUME NEW k \in I PROVE IsFiniteSet(Times(k)) /\ Cardinality(Times(k)) \in Nat
    OBVIOUS
  <2>1. Times(k) \in SUBSET Nat /\ \A t \in Times(k) : t <= p[k].time
    BY <1>1, <1>3
  <2> QED
    BY <1>1, <2>1, FS_BoundedSetOfNaturals, FS_CardinalityType
<1>6. ASSUME p[j].time > p[i].time PROVE Rank(p, I, i) - Rank(p, I, j) < 0
  <2>1. Times(i) \subseteq Times(j) /\ p[j].time \in Times(j) /\ p[j].time \notin Times(i)
    BY <1>1, <1>3, <1>6
  <2>2. Cardinality(Times(i)) <= Cardinality(Times(j)) /\ Cardinality(Times(i)) # Cardinality(Times(j))
    BY <1>5, <2>1, FS_Subset
  <2> QED
    BY <1>2, <1>5, <2>2
<1>7. ASSUME p[j].time <= p[i].time
      PROVE  /\ Rank(p, I, i) - Rank(p, I, j) = Cardinality(between)
             /\ IsFiniteSet(between) /\ Cardinality(between) \in Nat
             /\ p[j].time < p[i].time <=> between # {}
  <2>1. Times(j) \cup between = Times(i) /\ Times(j) \cap between = {}
    BY <1>1, <1>3, <1>4, <1>7
  <2>2. IsFiniteSet(between) /\ Cardinality(between) \in Nat
    BY <1>5, <2>1, FS_Subset, FS_CardinalityType
  <2>3. Cardinality(Times(i)) = Cardinality(Times(j)) + Cardinality(between)
    <3>1. /\ IsFiniteSet(Times(j)) /\ Cardinality(Times(j)) \in Nat
          /\ Cardinality(Times(j) \cap between) = 0
      BY <1>5, <2>1, FS_EmptySet
    <3>2. Cardinality(Times(j) \cup between) =
            Cardinality(Times(j)) + Cardinality(between) - Cardinality(Times(j) \cap between)
      BY <2>2, <3>1, FS_Union, Zenon
    <3>3. Cardinality(Times(j) \cup between) = Cardinality(Times(i))
      BY <2>1, Zenon
    <3> QED
      BY <2>2, <3>1, <3>2, <3>3
  <2>4. p[j].time < p[i].time <=> between # {}
    BY <1>1, <1>4
  <2> QED
    BY <1>2, <1>5, <2>2, <2>3, <2>4
<1> QED
    BY <1>6, <1>7

BoundaryBetween(p, j, i) ==
    \E k \in DOMAIN p : p[k].begins /\ p[j].time < p[k].time /\ p[k].time <= p[i].time

\* Two rows are in one segment when no boundary is between them.
LEMMA SegmentsAre ==
    ASSUME NEW p, Timed(p), NEW i \in DOMAIN p, NEW j \in DOMAIN p, p[j].time <= p[i].time
    PROVE  segment(p, j) = segment(p, i) <=> ~BoundaryBetween(p, j, i)
<1> DEFINE Flags(x) == {k \in DOMAIN p : p[k].begins /\ p[k].time <= p[x].time}
<1>1. \A x \in DOMAIN p : segment(p, x) = Cardinality(Flags(x)) /\ IsFiniteSet(Flags(x))
    BY FS_Subset DEF segment, Timed
<1>2. Flags(j) \subseteq Flags(i)
    BY DEF Timed
<1>3. Flags(j) = Flags(i) <=> ~BoundaryBetween(p, j, i)
    BY DEF Timed, BoundaryBetween
<1> HIDE DEF Flags
<1>4. Cardinality(Flags(i)) = Cardinality(Flags(j)) <=> Flags(i) = Flags(j)
    BY <1>1, <1>2, FS_Subset
<1> QED
    BY <1>1, <1>3, <1>4

\* The good rows of i's segment up to i's time,
PointsSegment(p, outlier, i, S) ==
    /\ S \subseteq DOMAIN p
    /\ \A j \in DOMAIN p :
         j \in S <=> j \notin outlier /\ p[j].time <= p[i].time /\ ~BoundaryBetween(p, j, i)

\* the times of S that are later than j's, and those rows that have few of them.
PointsWindow(p, S, since, inside) ==
    /\ \A j \in S : \A t : t \in since[j] <=> \E x \in S : p[x].time > p[j].time /\ p[x].time = t
    /\ \A j : j \in inside <=> j \in S /\ Cardinality(since[j]) < DistributionCommits

\* The mean of a good row is over its segment's rows on the last commit times.
LEMMA MeanIs ==
    ASSUME NEW p, Timed(p), DistributionCommits \in Nat \ {0, 1}, NEW outlier,
           NEW i \in DOMAIN p \ outlier,
           NEW segments, PointsSegment(p, outlier, i, segments),
           NEW since, NEW inside, PointsWindow(p, segments, since, inside)
    PROVE  groupedCommitRollingMean(p, outlier, i, TRUE)
             = {SumOf(inside, Summaries(p)) \div Cardinality(inside)}
<1>0. /\ segments \subseteq DOMAIN p
      /\ \A j \in DOMAIN p : j \in segments <=>
            j \notin outlier /\ p[j].time <= p[i].time /\ ~BoundaryBetween(p, j, i)
      /\ \A j \in segments : \A t : t \in since[j] <=>
            \E x \in segments : p[x].time > p[j].time /\ p[x].time = t
      /\ \A j : j \in inside <=> j \in segments /\ Cardinality(since[j]) < DistributionCommits
    BY DEF PointsSegment, PointsWindow
<1> DEFINE I == {j \in DOMAIN p \ outlier : segment(p, j) = segment(p, i)}
           behind(j) == Rank(p, I, i) - Rank(p, I, j)
           between(j) == {p[k].time : k \in {x \in I : p[x].time > p[j].time /\ p[x].time <= p[i].time}}
<1>1. \A j \in DOMAIN p : p[j].time \in Nat
    BY DEF Timed
<1>2. i \in I /\ I \in SUBSET DOMAIN p
    OBVIOUS
<1>3. \A j : j \in segments <=> j \in I /\ p[j].time <= p[i].time
  <2>1. \A j \in DOMAIN p : p[j].time <= p[i].time =>
          (segment(p, j) = segment(p, i) <=> ~BoundaryBetween(p, j, i))
    BY SegmentsAre
  <2> QED
    BY <1>0, <2>1
<1>4. \A j \in I : p[j].time <= p[i].time => between(j) = since[j]
    BY <1>0, <1>3
<1>5. \A j \in I : /\ p[j].time > p[i].time => behind(j) < 0
                   /\ p[j].time <= p[i].time =>
                        /\ behind(j) = Cardinality(between(j)) /\ Cardinality(between(j)) \in Nat
                        /\ p[j].time < p[i].time <=> between(j) # {}
  <2> HIDE DEF I
  <2> QED
    BY <1>2, RanksBehind
<1>6. rollingCommitRank(p, I, i, TRUE) = {j \in I : behind(j) \in 0..(DistributionCommits - 1)}
    BY Zenon DEF rollingCommitRank
<1> HIDE DEF I, behind, between
<1>7. rollingCommitRank(p, I, i, TRUE) = inside
  <2>1. ASSUME NEW j \in I PROVE behind(j) \in 0..(DistributionCommits - 1) <=> j \in inside
    <3>1. CASE p[j].time > p[i].time
      BY <1>0, <1>1, <1>2, <1>3, <1>5, <3>1
    <3>2. CASE ~(p[j].time > p[i].time)
      <4>1. /\ p[j].time <= p[i].time /\ j \in segments
            /\ behind(j) = Cardinality(since[j]) /\ Cardinality(since[j]) \in Nat
        BY <1>1, <1>2, <1>3, <1>4, <1>5, <3>2
      <4> QED
        BY <1>0, <4>1
    <3> QED
      BY <3>1, <3>2
  <2>2. inside \subseteq I
    BY <1>0, <1>3
  <2> QED
    BY <1>6, <2>1, <2>2
<1>8. i \in inside
  <2>1. since[i] = {}
    BY <1>0, <1>1, <1>2, <1>3
  <2>2. Cardinality(since[i]) = 0
    BY <2>1, FS_EmptySet
  <2> QED
    BY <1>0, <1>1, <1>2, <1>3, <2>2
<1>9. groupedCommitRollingMean(p, outlier, i, TRUE)
        = meanSkipNaN(rollingCommitRank(p, I, i, TRUE), Summaries(p))
    BY Zenon DEF groupedCommitRollingMean, I
<1>10. meanSkipNaN(inside, Summaries(p)) = {SumOf(inside, Summaries(p)) \div Cardinality(inside)}
    BY <1>8, Zenon DEF meanSkipNaN
<1> QED
    BY <1>7, <1>9, <1>10, Zenon

\* A pair has at most two elements.
LEMMA PairCount ==
    ASSUME NEW a, NEW b
    PROVE  /\ IsFiniteSet({a, b}) /\ Cardinality({a, b}) \in Nat /\ Cardinality({a, b}) <= 2
           /\ a # b => Cardinality({a, b}) = 2
<1>1. IsFiniteSet({a}) /\ Cardinality({a}) = 1
    BY FS_Singleton, Zenon
<1>2. {a} \cup {b} = {a, b}
    OBVIOUS
<1>3. IsFiniteSet({a, b}) /\ Cardinality({a, b}) = IF b \in {a} THEN 1 ELSE 1 + 1
    BY <1>1, <1>2, FS_AddElement, Zenon
<1>4. b \in {a} <=> a = b
    OBVIOUS
<1> QED
    BY <1>3, <1>4

\* Of several rows one is on the latest commit.
LEMMA LatestOf ==
    ASSUME NEW p, NEW S, S # {}, NEW n \in Nat,
           \A j \in S : p[j].time \in Nat /\ p[j].time <= n
    PROVE  \E a \in S : \A j \in S : p[j].time <= p[a].time
<1> DEFINE T == {n - p[j].time : j \in S}
<1>1. T \in SUBSET Nat /\ T # {}
    OBVIOUS
<1>2. PICK t \in T : \A u \in T : t <= u
    BY <1>1, LeastNumber
<1>3. PICK a \in S : t = n - p[a].time
    OBVIOUS
<1>4. \A j \in S : n - p[a].time <= n - p[j].time
    BY <1>2, <1>3
<1> QED
    BY <1>4

\* Two rows at least on earlier commits leave two at least in a window of two commits
\* or more.
LEMMA WindowOfTwo ==
    ASSUME NEW p, Timed(p), DistributionCommits \in Nat \ {0, 1},
           NEW I \in SUBSET DOMAIN p, NEW i \in I,
           NEW before, before = {j \in I : p[j].time < p[i].time}
    PROVE  /\ IsFiniteSet(rollingCommitRank(p, I, i, FALSE))
           /\ Cardinality(rollingCommitRank(p, I, i, FALSE)) \in Nat
           /\ Cardinality(rollingCommitRank(p, I, i, FALSE)) < 2 <=> Cardinality(before) < 2
           /\ rollingCommitRank(p, I, i, FALSE) = {} <=> before = {}
<1> DEFINE behind(j) == Rank(p, I, i) - Rank(p, I, j)
           between(j) == {p[k].time : k \in {x \in I : p[x].time > p[j].time /\ p[x].time <= p[i].time}}
           window == rollingCommitRank(p, I, i, FALSE)
<1>1. \A j \in DOMAIN p : p[j].time \in Nat
    BY DEF Timed
<1>2. \A j \in I : /\ p[j].time > p[i].time => behind(j) < 0
                   /\ p[j].time <= p[i].time =>
                        /\ behind(j) = Cardinality(between(j)) /\ Cardinality(between(j)) \in Nat
                        /\ IsFiniteSet(between(j))
                        /\ p[j].time < p[i].time <=> between(j) # {}
    BY RanksBehind
<1>3. window = {j \in I : behind(j) \in 1..DistributionCommits}
    BY Zenon DEF rollingCommitRank
<1>4. \A j \in I : \A t : t \in between(j) <=>
        \E x \in I : p[x].time > p[j].time /\ p[x].time <= p[i].time /\ t = p[x].time
    OBVIOUS
<1> HIDE DEF behind, between, window
<1>5. IsFiniteSet(before) /\ Cardinality(before) \in Nat
    BY FS_Subset, FS_CardinalityType DEF Timed
<1>6. window \subseteq before
  <2> SUFFICES ASSUME NEW j \in window PROVE p[j].time < p[i].time
    BY <1>3
  <2>1. j \in I /\ behind(j) \in 1..DistributionCommits
    BY <1>3
  <2>2. CASE p[j].time > p[i].time
    BY <1>2, <2>1, <2>2
  <2>3. CASE p[j].time <= p[i].time
    <3>1. between(j) # {}
      BY <1>2, <2>1, <2>3, FS_EmptySet
    <3> QED
      BY <1>2, <2>1, <2>3, <3>1
  <2> QED
    BY <1>1, <2>1, <2>2, <2>3
<1>7. IsFiniteSet(window) /\ Cardinality(window) \in Nat /\ Cardinality(window) <= Cardinality(before)
    BY <1>5, <1>6, FS_Subset, FS_CardinalityType
<1>8. \A j \in before : j \in I /\ p[j].time \in Nat /\ p[j].time <= p[i].time /\ p[j].time < p[i].time
    BY <1>1
<1>9. p[i].time \in Nat
    BY <1>1
<1>10. ASSUME NEW a \in before, \A j \in before : p[j].time <= p[a].time PROVE a \in window
  <2>1. between(a) = {p[i].time}
    BY <1>1, <1>4, <1>8, <1>10
  <2>2. behind(a) = 1
    BY <1>2, <1>8, <2>1, FS_Singleton
  <2> QED
    BY <1>3, <1>8, <2>2
<1>11. before # {} => \E a \in before : \A j \in before : p[j].time <= p[a].time
    BY <1>8, <1>9, LatestOf
<1>12. ASSUME ~(Cardinality(before) < 2) PROVE ~(Cardinality(window) < 2)
  <2>1. PICK a \in before : \A j \in before : p[j].time <= p[a].time
    BY <1>5, <1>11, <1>12, FS_EmptySet
  <2>2. before \ {a} # {}
    <3>1. before # {a}
      <4>1. Cardinality({a}) = 1
        BY FS_Singleton, Zenon
      <4> QED
        BY <1>12, <4>1
    <3> QED
      BY <3>1
  <2>3. PICK b \in before \ {a} : \A j \in before \ {a} : p[j].time <= p[b].time
    <3>1. \A j \in before \ {a} : p[j].time \in Nat /\ p[j].time <= p[i].time
      BY <1>8
    <3> QED
      BY <1>9, <2>2, <3>1, LatestOf
  <2>4. between(b) \subseteq {p[i].time, p[a].time}
    BY <1>1, <1>4, <1>8, <2>3
  <2>5. Cardinality(between(b)) <= 2 /\ between(b) # {} /\ Cardinality(between(b)) \in Nat
        /\ behind(b) = Cardinality(between(b)) /\ IsFiniteSet(between(b))
    <3>1. IsFiniteSet({p[i].time, p[a].time}) /\ Cardinality({p[i].time, p[a].time}) <= 2
      BY PairCount
    <3>2. /\ between(b) # {} /\ Cardinality(between(b)) \in Nat
          /\ behind(b) = Cardinality(between(b)) /\ IsFiniteSet(between(b))
      BY <1>2, <1>8
    <3>3. Cardinality(between(b)) <= Cardinality({p[i].time, p[a].time})
          /\ Cardinality({p[i].time, p[a].time}) \in Nat
      BY <2>4, <3>1, FS_Subset, FS_CardinalityType
    <3> QED
      BY <3>1, <3>2, <3>3
  <2>6. b \in window
    <3>1. Cardinality(between(b)) # 0
      BY <2>5, FS_EmptySet
    <3> QED
      BY <1>3, <1>8, <2>5, <3>1
  <2>7. a \in window /\ a # b
    BY <1>10, <2>1
  <2>8. Cardinality({a, b}) = 2
    BY <2>7, PairCount
  <2>9. Cardinality({a, b}) <= Cardinality(window)
    BY <1>7, <2>6, <2>7, FS_Subset
  <2> QED
    BY <1>7, <2>8, <2>9
<1>13. window = {} <=> before = {}
    BY <1>6, <1>10, <1>11
<1> QED
  <2>1. Cardinality(window) < 2 <=> Cardinality(before) < 2
    BY <1>5, <1>7, <1>12
  <2> QED
    BY <1>7, <1>13, <2>1, Zenon DEF window

\* Which statistics of the history endpoint are null.
Documented(r, before) ==
    IF r.outlier
    THEN r.mean = {} /\ r.residual = {} /\ r.meanExcludingThis = {} /\ r.stddev = {}
    ELSE /\ r.mean # {} /\ r.residual # {} /\ r.meanExcludingThis # {}
         /\ r.stddev = {} <=> Cardinality(before) < 2

\* The history endpoint's are those.
LEMMA NullsAre ==
    ASSUME NEW p, Timed(p), DistributionCommits \in Nat \ {0, 1}, NEW i \in DOMAIN p,
           NEW s, s = RollingStatsForSeries(p, FALSE),
           NEW before, before = {j \in DOMAIN p : ~s[j].outlier /\ p[j].time < p[i].time}
    PROVE  Documented(s[i], before)
<1> DEFINE outlier == detectShifts(p).outlier
           excl == meansExcludingThis(p, outlier)
           residual == residuals(p, excl)
           mean == groupedCommitRollingMean(p, outlier, i, FALSE)
           good == DOMAIN p \ outlier
           window == rollingCommitRank(p, good, i, FALSE)
           value == [j \in good |-> CHOOSE r \in residual[j] : TRUE]
<1> HIDE DEF outlier, excl, residual
<1>0. \A k \in DOMAIN p :
        /\ s[k].outlier = (k \in outlier)
        /\ s[k].meanExcludingThis = excl[k] /\ s[k].residual = residual[k]
        /\ s[k].mean = excl[k]
        /\ s[k].stddev = residualStddev(p, outlier, residual, k, FALSE)
    BY StatsBeforeCurrent, Zenon DEF outlier, excl, residual
<1>1. \A j \in DOMAIN p : s[j].outlier = (j \in outlier)
    BY <1>0, Zenon
<1>2. /\ s[i].mean = excl[i] /\ s[i].meanExcludingThis = excl[i] /\ s[i].residual = residual[i]
      /\ s[i].stddev = residualStddev(p, outlier, residual, i, FALSE)
    BY <1>0
<1> USE DEF excl, residual
<1>3. excl[i] = IF i \notin outlier /\ mean = {} THEN {p[i].svs} ELSE mean
    BY Zenon DEF meansExcludingThis
<1> HIDE DEF excl
<1>4. residual[i] = {p[i].svs - m : m \in excl[i]}
    BY Zenon DEF residuals
<1>5. i \in outlier => mean = {}
    BY Zenon DEF groupedCommitRollingMean
<1>6. residualStddev(p, outlier, residual, i, FALSE)
        = IF i \in outlier THEN {} ELSE sampleStdSkipNaN(window, value)
    BY Zenon DEF residualStddev
<1>7. sampleStdSkipNaN(window, value) = {} <=> Cardinality(window) < 2
    BY Zenon DEF sampleStdSkipNaN
<1>8. before = {j \in good : p[j].time < p[i].time}
    BY <1>1
<1> HIDE DEF residual, mean, value
<1>9. i \notin outlier => (Cardinality(window) < 2 <=> Cardinality(before) < 2)
    BY <1>8, WindowOfTwo
<1> HIDE DEF window, good
<1>10. CASE i \in outlier
    BY <1>1, <1>2, <1>3, <1>4, <1>5, <1>6, <1>10 DEF Documented
<1>11. CASE i \notin outlier
  <2>1. excl[i] # {} /\ residual[i] # {}
    BY <1>3, <1>4, <1>11
  <2> QED
    BY <1>1, <1>2, <1>6, <1>7, <1>9, <1>11, <2>1 DEF Documented
<1> QED
    BY <1>10, <1>11

-----------------------------------------------------------------------------
(* The series: the inductive invariant. *)

\* An answer of the compare endpoint is what the rows say now.
IsComparison(c) ==
    /\ c.baseline \in StoredRow
    /\ c.lookback = lookbackAnalysis(c.baseline, c.contender)
    /\ c.pairwise = PairwiseVerdict(SingleValueSummary(c.baseline), SingleValueSummary(c.contender),
                                    LessIsBetter(c.contender.unit))

\* So are the other answers, and a comparison that only later commits followed.
AnswersInv ==
    /\ \A h \in history :
         /\ h.members = SelectHistoryForFingerprint
         /\ h.stats = IF h.members # <<>> /\ SingleUnit(h.members)
                      THEN RollingStatsForSeries(Points(h.members), FALSE) ELSE NoStats
    /\ \A s \in series : s.members = SeriesMembers /\ s.status = seriesStatus(s.members)
    /\ \A c \in compare \cup earlier : IsComparison(c)

SeriesInv == RowsInv /\ AnswersInv

\* The rows, and any of them, can be put in order.
LEMMA RowsAreOrdered ==
    ASSUME RowsInv, NEW S \in SUBSET ToSet(seriesRows)
    PROVE  Ordered(S)
<1>1. IsFiniteSet(ToSet(seriesRows)) /\ ToSet(seriesRows) \subseteq StoredRow
  <2> DEFINE T == ToSet(seriesRows)
  <2>1. \A x \in T : \E i \in 1..Len(seriesRows) : seriesRows[i] = x
    BY DEF ToSet, RowsInv
  <2>2. \A i \in 1..Len(seriesRows) : seriesRows[i] \in T /\ seriesRows[i] \in StoredRow
    BY DEF ToSet, RowsInv
  <2>3. IsFiniteSet(1..Len(seriesRows))
    BY FS_Interval DEF RowsInv
  <2> DEFINE f == [i \in 1..Len(seriesRows) |-> seriesRows[i]]
  <2> HIDE DEF T
  <2>4. f \in Surjection(1..Len(seriesRows), T)
    BY <2>1, <2>2 DEF Surjection
  <2>5. IsFiniteSet(T)
    BY <2>3, <2>4, FS_Surjection
  <2> QED
    BY <2>1, <2>2, <2>5 DEF T
<1>2. \A r, s \in ToSet(seriesRows) : r.id = s.id => r = s
  <2> SUFFICES ASSUME NEW i \in 1..Len(seriesRows), NEW j \in 1..Len(seriesRows),
                      seriesRows[i].id = seriesRows[j].id
               PROVE  i = j
    BY DEF ToSet, RowsInv
  <2>1. seriesRows[i].id \in Nat /\ seriesRows[j].id \in Nat
    <3>1. seriesRows[i] \in StoredRow /\ seriesRows[j] \in StoredRow
      BY DEF RowsInv
    <3> QED
      BY <3>1 DEF StoredRow
  <2>2. ~(i < j) /\ ~(j < i)
    BY <2>1 DEF RowsInv
  <2> QED
    BY <2>2
<1> QED
    BY <1>1, <1>2, FS_Subset DEF Ordered

\* The points of ordered rows.
LEMMA PointsAreTimed ==
    ASSUME StatisticsAssumption, NEW S, Ordered(S), NEW m, m = InOrder(S)
    PROVE  Timed(Points(m)) /\ \A i \in DOMAIN m : m[i] \in S
<1>1. DOMAIN m = 1..Cardinality(S) /\ Cardinality(S) \in Nat /\ \A i \in DOMAIN m : m[i] \in S
    BY InOrderIs, ZenonT(40)
<1>2. \A i \in DOMAIN m : Time(m[i]) \in Nat /\ m[i].begins \in BOOLEAN
    BY <1>1, TimeIsNumber DEF Ordered
<1>3. IsFiniteSet(DOMAIN m)
    BY <1>1, FS_Interval
<1>4. /\ DOMAIN Points(m) = DOMAIN m
      /\ \A i \in DOMAIN m : Points(m)[i].time = Time(m[i]) /\ Points(m)[i].begins = m[i].begins
    BY PointsAre, Zenon
<1> QED
    BY <1>1, <1>2, <1>3, <1>4 DEF Timed

\* A sequence of rows in order.
LEMMA InOrderIsSeq ==
    ASSUME StatisticsAssumption, NEW S, Ordered(S)
    PROVE  InOrder(S) \in Seq(StoredRow) /\ Len(InOrder(S)) = Cardinality(S)
<1> DEFINE m == InOrder(S)
           n == Cardinality(S)
<1>1. n \in Nat /\ DOMAIN m = 1..n /\ \A i \in 1..n : m[i] \in S
    BY InOrderIs, Zenon
<1>2. m = [i \in 1..n |-> CHOOSE r \in S : Cardinality({s \in S : Before(s, r)}) = i - 1]
    BY Zenon DEF InOrder
<1>3. \A i \in 1..n : m[i] \in StoredRow
    BY <1>1 DEF Ordered
<1>4. m \in [1..n -> StoredRow]
  <2> DEFINE f(i) == CHOOSE r \in S : Cardinality({s \in S : Before(s, r)}) = i - 1
  <2>1. m = [i \in 1..n |-> f(i)]
    BY <1>2, Zenon
  <2> HIDE DEF f, m, n
  <2> QED
    BY <1>3, <2>1
<1> HIDE DEF m, n
<1>5. m \in Seq(StoredRow) /\ Len(m) = n
    BY <1>1, <1>4
<1> QED
    BY <1>5 DEF m, n

\* Sequences of the same length and elements are the same.
LEMMA SameElements ==
    ASSUME NEW s \in Seq(StoredRow), NEW t \in Seq(StoredRow), Len(s) = Len(t),
           \A i \in 1..Len(s) : s[i] = t[i]
    PROVE  s = t
  OBVIOUS

\* Of two rows at most one is before the other.
LEMMA BeforeOneWay ==
    ASSUME NEW r, NEW s, Time(r) \in Nat, r.id \in Nat, Time(s) \in Nat, s.id \in Nat, Before(r, s)
    PROVE  ~Before(s, r)
    BY DEF Before

\* When the last row has a time of its own, the rows up to the one before it are the
\* rest, in the same order.
LEMMA FrontInOrder ==
    ASSUME StatisticsAssumption, NEW S, Ordered(S), NEW n, n = Cardinality(S), n >= 2,
           NEW m, m = InOrder(S), Time(m[n - 1]) < Time(m[n]),
           NEW T \in SUBSET S, \A r \in S : r \in T <=> Time(r) <= Time(m[n - 1])
    PROVE  InOrder(T) = Front(m) /\ InOrder(T) # <<>>
<1>1. /\ n \in Nat /\ \A i \in 1..n : m[i] \in S
      /\ \A i \in 1..n : Cardinality({s \in S : Before(s, m[i])}) = i - 1
      /\ \A r \in S : \E i \in 1..n : m[i] = r
      /\ \A i, j \in 1..n : m[i] = m[j] => i = j
  <2>1. /\ Cardinality(S) \in Nat
        /\ \A i \in 1..Cardinality(S) :
             /\ InOrder(S)[i] \in S
             /\ Cardinality({s \in S : Before(s, InOrder(S)[i])}) = i - 1
        /\ \A r \in S : \E i \in 1..Cardinality(S) : InOrder(S)[i] = r
        /\ \A i, j \in 1..Cardinality(S) : InOrder(S)[i] = InOrder(S)[j] => i = j
    BY InOrderIs, Zenon
  <2> QED
    BY <2>1, Zenon
<1>2. \A r \in S : Time(r) \in Nat /\ r.id \in Nat
    BY TimeIsNumber DEF Ordered
<1>3. \A i, j \in 1..n : i < j => Before(m[i], m[j])
    BY InOrderAscends, Zenon
<1>4. n \in 1..n /\ n - 1 \in 1..n /\ \A i \in 1..n : i <= n - 1 \/ i = n
    BY <1>1
<1>5. \A i \in 1..(n - 1) : i \in 1..n /\ m[i] \in T
  <2> SUFFICES ASSUME NEW i \in 1..(n - 1) PROVE i \in 1..n /\ m[i] \in T
    OBVIOUS
  <2>1. i \in 1..n /\ (i = n - 1 \/ Before(m[i], m[n - 1]))
    BY <1>1, <1>3, <1>4
  <2>2. Time(m[i]) <= Time(m[n - 1])
    BY <1>1, <1>2, <1>4, <2>1, SMTT(40) DEF Before
  <2> QED
    BY <1>1, <2>1, <2>2
<1>6. m[n] \notin T /\ m[n] \in S
    BY <1>1, <1>2, <1>4
<1>7. T = S \ {m[n]}
  <2>1. \A r \in S : r # m[n] => r \in T
    BY <1>1, <1>4, <1>5
  <2> QED
    BY <1>6, <2>1
<1>8. Cardinality(T) = n - 1 /\ Ordered(T)
  <2>1. IsFiniteSet(S \ {m[n]}) /\ Cardinality(S \ {m[n]}) = Cardinality(S) - 1
    BY <1>6, FS_RemoveElement DEF Ordered
  <2> QED
    BY <1>7, <2>1 DEF Ordered
<1>9. \A i \in 1..(n - 1) : {s \in T : Before(s, m[i])} = {s \in S : Before(s, m[i])}
  <2> SUFFICES ASSUME NEW i \in 1..(n - 1) PROVE ~Before(m[n], m[i])
    BY <1>7
  <2>1. i \in 1..n /\ i < n /\ Before(m[i], m[n])
    BY <1>1, <1>3, <1>4
  <2>2. /\ Time(m[i]) \in Nat /\ m[i].id \in Nat /\ Time(m[n]) \in Nat /\ m[n].id \in Nat
    BY <1>1, <1>2, <1>4, <2>1
  <2> QED
    BY <2>1, <2>2, BeforeOneWay, Zenon
<1> DEFINE f == InOrder(T)
<1>10. /\ \A i \in 1..(n - 1) : f[i] \in T /\ Cardinality({s \in T : Before(s, f[i])}) = i - 1
       /\ f \in Seq(StoredRow) /\ Len(f) = n - 1
  <2>1. \A i \in 1..Cardinality(T) : /\ InOrder(T)[i] \in T
                                      /\ Cardinality({s \in T : Before(s, InOrder(T)[i])}) = i - 1
    <3>1. Ordered(T)
      BY <1>8
    <3> QED
      BY <3>1, InOrderIs, Zenon
  <2>2. f \in Seq(StoredRow) /\ Len(f) = Cardinality(T)
    BY <1>8, InOrderIsSeq, Zenon
  <2> QED
    BY <1>8, <2>1, <2>2, Zenon
<1> HIDE DEF f
<1>11. \A i \in 1..(n - 1) : f[i] = m[i]
  <2> SUFFICES ASSUME NEW i \in 1..(n - 1) PROVE f[i] = m[i]
    OBVIOUS
  <2>1. f[i] \in T /\ f[i] \in S /\ f[i] # m[n] /\ Cardinality({s \in T : Before(s, f[i])}) = i - 1
    BY <1>6, <1>7, <1>10
  <2>2. PICK k \in 1..(n - 1) : m[k] = f[i]
    <3>1. PICK k \in 1..n : m[k] = f[i]
      BY <1>1, <2>1, Zenon
    <3>2. k # n
      BY <2>1, <3>1
    <3> QED
      BY <1>1, <3>1, <3>2
  <2>3. Cardinality({s \in T : Before(s, m[k])}) = k - 1
    BY <1>1, <1>5, <1>9
  <2>4. Cardinality({s \in T : Before(s, f[i])}) = Cardinality({s \in T : Before(s, m[k])})
    BY <2>2
  <2>5. k - 1 = i - 1
    BY <2>1, <2>3, <2>4
  <2> QED
    BY <2>2, <2>5
<1>12. m \in Seq(StoredRow) /\ Len(m) = n
    BY InOrderIsSeq
<1>13. f = Front(m)
  <2>1. Front(m) \in Seq(StoredRow) /\ Len(Front(m)) = n - 1
        /\ \A i \in 1..(n - 1) : Front(m)[i] = m[i]
    BY <1>1, <1>12 DEF Front
  <2>2. Len(f) = Len(Front(m)) /\ \A i \in 1..Len(f) : f[i] = Front(m)[i]
    BY <1>10, <1>11, <2>1
  <2>3. f \in Seq(StoredRow) /\ Front(m) \in Seq(StoredRow)
    BY <1>10, <2>1
  <2> QED
    BY <2>2, <2>3, SameElements, Zenon
<1>14. f # <<>>
    BY <1>1, <1>10
<1> QED
    BY <1>13, <1>14 DEF f

\* What a tail of a sequence has.
LEMMA LengthOfTail ==
    ASSUME NEW s \in Seq(StoredRow), NEW a \in 1..Len(s)
    PROVE  Len(SubSeq(s, a, Len(s))) = Len(s) - a + 1
  OBVIOUS

\* The greater of two numbers.
LEMMA MaxOfTwo ==
    ASSUME NEW a \in Int, NEW b \in Int
    PROVE  Max({a, b}) \in {a, b} /\ Max({a, b}) >= a /\ Max({a, b}) >= b
<1>1. \E x \in {a, b} : \A y \in {a, b} : x >= y
    OBVIOUS
<1>2. Max({a, b}) = CHOOSE x \in {a, b} : \A y \in {a, b} : x >= y
    BY Zenon DEF Max
<1>3. Max({a, b}) \in {a, b} /\ \A y \in {a, b} : Max({a, b}) >= y
    BY <1>1, <1>2, Zenon
<1> QED
    BY <1>3

\* A tail shorter than its limit is the whole series.
LEMMA TailIsAll ==
    ASSUME NEW all \in Seq(StoredRow), NEW limit \in Nat \ {0}, NEW start \in Int,
           start = 1 \/ start = Len(all) - limit + 1, start >= 1, start >= Len(all) - limit + 1,
           Len(SubSeq(all, start, Len(all))) < limit
    PROVE  SubSeq(all, start, Len(all)) = all
<1>1. ASSUME start # 1 PROVE FALSE
  <2>1. start = Len(all) - limit + 1 /\ Len(all) \in Nat /\ start \in 1..Len(all)
    BY <1>1
  <2>2. Len(SubSeq(all, start, Len(all))) = Len(all) - start + 1
    BY <2>1, LengthOfTail, Zenon
  <2> QED
    BY <2>1, <2>2
<1>2. SubSeq(all, 1, Len(all)) = all
    OBVIOUS
<1> QED
    BY <1>1, <1>2

\* A new row goes behind the others, under the number of its request.
LEMMA AppendRow ==
    ASSUME RowsInv, NEW r \in StoredRow, r.id = submitted + 1,
           submitted' = submitted + 1, seriesRows' = Append(seriesRows, r)
    PROVE  RowsInv' /\ ToSet(seriesRows') = ToSet(seriesRows) \cup {r}
<1>1. /\ Len(seriesRows) \in Nat /\ seriesRows' \in Seq(StoredRow)
      /\ Len(seriesRows') = Len(seriesRows) + 1 /\ seriesRows'[Len(seriesRows) + 1] = r
      /\ \A i \in 1..Len(seriesRows) : seriesRows'[i] = seriesRows[i]
    BY DEF RowsInv
<1>2. \A i \in 1..Len(seriesRows) : seriesRows[i].id \in Nat /\ seriesRows[i].id <= submitted
  <2>1. \A i \in 1..Len(seriesRows) : seriesRows[i] \in StoredRow
    BY DEF RowsInv
  <2> QED
    BY <2>1 DEF RowsInv, StoredRow
<1>3. submitted \in Nat
    BY DEF RowsInv
<1>4. RowsInv'
  <2>1. \A i \in 1..Len(seriesRows') : i \in 1..Len(seriesRows) \/ i = Len(seriesRows) + 1
    BY <1>1
  <2>2. \A i \in 1..Len(seriesRows') : seriesRows'[i].id <= submitted + 1
    BY <1>1, <1>2, <1>3, <2>1
  <2>3. ASSUME NEW i \in 1..Len(seriesRows'), NEW j \in 1..Len(seriesRows'), i < j
        PROVE  seriesRows'[i].id < seriesRows'[j].id
    <3>1. i \in 1..Len(seriesRows) /\ seriesRows'[i] = seriesRows[i]
      BY <1>1, <2>1, <2>3
    <3>2. CASE j \in 1..Len(seriesRows)
      BY <1>1, <2>3, <3>1, <3>2 DEF RowsInv
    <3>3. CASE j = Len(seriesRows) + 1
      BY <1>1, <1>2, <1>3, <3>1, <3>3
    <3> QED
      BY <2>1, <3>2, <3>3
  <2> QED
    BY <1>1, <1>3, <2>2, <2>3 DEF RowsInv
<1>5. ToSet(seriesRows') = ToSet(seriesRows) \cup {r}
  <2>1. \A x : x \in ToSet(seriesRows') <=> \E i \in 1..Len(seriesRows') : seriesRows'[i] = x
    BY <1>1 DEF ToSet
  <2>2. \A x : x \in ToSet(seriesRows) <=> \E i \in 1..Len(seriesRows) : seriesRows[i] = x
    BY DEF ToSet, RowsInv
  <2>3. \A i : i \in 1..Len(seriesRows') <=> (i \in 1..Len(seriesRows) \/ i = Len(seriesRows) + 1)
    BY <1>1
  <2>4. \A x : x \in ToSet(seriesRows') <=> x \in ToSet(seriesRows) \/ x = r
    <3> SUFFICES ASSUME NEW x
                 PROVE  x \in ToSet(seriesRows') <=> x \in ToSet(seriesRows) \/ x = r
      OBVIOUS
    <3>1. x \in ToSet(seriesRows') => x \in ToSet(seriesRows) \/ x = r
      BY <1>1, <2>1, <2>2, <2>3
    <3>2. x \in ToSet(seriesRows) => x \in ToSet(seriesRows')
      BY <1>1, <2>1, <2>2, <2>3
    <3>3. r \in ToSet(seriesRows')
      BY <1>1, <2>1, <2>3
    <3> QED
      BY <3>1, <3>2, <3>3
  <2> QED
    BY <2>4
<1> QED
    BY <1>4, <1>5

\* The row of an accepted request.
LEMMA RowOfRequest ==
    ASSUME StatisticsAssumption, NEW n \in DOMAIN Submission, NEW s \in Submission[n], NEW id \in Nat,
           NEW r, r = [id |-> id, commit |-> s.commit, at |-> s.at,
                       unit |-> resolveStats(s).unit, data |-> resolveStats(s).data,
                       error |-> resolveStats(s).error, aggs |-> resolveStats(s).aggs,
                       begins |-> FALSE]
    PROVE  r \in StoredRow /\ r.id = id /\ Time(r) = Time(s) /\ Time(s) \in Nat
<1>1. s \in [commit : DOMAIN SeriesCommit, at : Nat, unit : STRING,
             data : Seq(Int \cup {Null}), error : BOOLEAN]
  <2>1. Submission[n] \in SUBSET [commit : DOMAIN SeriesCommit, at : Nat, unit : STRING,
                                  data : Seq(Int \cup {Null}), error : BOOLEAN]
    BY DEF StatisticsAssumption
  <2> QED
    BY <2>1
<1>2. s.commit \in DOMAIN SeriesCommit /\ s.at \in Nat
    BY <1>1
<1>3. resolveStats(s) \in Resolved
    BY Zenon DEF Resolved, Requests
<1>4. r \in StoredRow
  <2> DEFINE d == resolveStats(s)
  <2>1. /\ d.unit \in {x.unit : x \in Resolved} /\ d.data \in {x.data : x \in Resolved}
        /\ d.error \in {x.error : x \in Resolved} /\ d.aggs \in {x.aggs : x \in Resolved}
    BY <1>3, Zenon
  <2> HIDE DEF d
  <2> QED
    BY <1>2, <2>1 DEF StoredRow, d
<1>5. r.commit = s.commit /\ r.id = id
    OBVIOUS
<1> QED
    BY <1>4, <1>5, TimeIsNumber DEF Time

\* A flag that is set or cleared leaves the ids.
LEMMA UpdateRow ==
    ASSUME RowsInv, UpdateResult
    PROVE  RowsInv'
<1>1. PICK i \in DOMAIN seriesRows : seriesRows' = [seriesRows EXCEPT ![i].begins = ~@]
    BY DEF UpdateResult
<1>2. seriesRows \in Seq(StoredRow) /\ i \in 1..Len(seriesRows) /\ submitted' = submitted
    BY DEF RowsInv, UpdateResult
<1> DEFINE r == seriesRows[i]
           s == [r EXCEPT !.begins = ~r.begins]
<1>3. s \in StoredRow /\ s.id = r.id
  <2>1. r \in StoredRow
    BY <1>2
  <2> HIDE DEF r
  <2> QED
    BY <2>1 DEF StoredRow
<1>4. seriesRows' = [seriesRows EXCEPT ![i] = s]
    BY <1>1, Zenon
<1> HIDE DEF s
<1>5. /\ seriesRows' \in Seq(StoredRow) /\ Len(seriesRows') = Len(seriesRows)
      /\ \A j \in 1..Len(seriesRows) : seriesRows'[j].id = seriesRows[j].id
    BY <1>2, <1>3, <1>4
<1> QED
    BY <1>2, <1>5 DEF RowsInv

\* Nor does a row that is deleted change the order of the others.
LEMMA RemoveRow ==
    ASSUME RowsInv, RemoveResult
    PROVE  RowsInv'
<1>1. PICK i \in DOMAIN seriesRows : seriesRows' = RemoveAt(seriesRows, i)
    BY DEF RemoveResult
<1>2. seriesRows \in Seq(StoredRow) /\ i \in 1..Len(seriesRows) /\ submitted' = submitted
      /\ Len(seriesRows) \in Nat
    BY DEF RowsInv, RemoveResult
<1> DEFINE n == Len(seriesRows)
           from(k) == IF k < i THEN k ELSE k + 1
<1>3. /\ seriesRows' \in Seq(StoredRow) /\ Len(seriesRows') = n - 1
      /\ \A k \in 1..(n - 1) : seriesRows'[k] = seriesRows[from(k)]
  <2> DEFINE a == SubSeq(seriesRows, 1, i - 1)
             b == SubSeq(seriesRows, i + 1, n)
  <2>1. a \in Seq(StoredRow) /\ Len(a) = i - 1 /\ \A k \in 1..(i - 1) : a[k] = seriesRows[k]
    BY <1>2
  <2>2. b \in Seq(StoredRow) /\ Len(b) = n - i /\ \A k \in 1..(n - i) : b[k] = seriesRows[i + k]
    BY <1>2
  <2>3. seriesRows' = a \o b
    BY <1>1, Zenon DEF RemoveAt
  <2> HIDE DEF a, b
  <2>4. /\ a \o b \in Seq(StoredRow) /\ Len(a \o b) = n - 1
        /\ \A k \in 1..(n - 1) : (a \o b)[k] = IF k <= i - 1 THEN a[k] ELSE b[k - (i - 1)]
    BY <1>2, <2>1, <2>2, SMTT(40)
  <2>5. ASSUME NEW k \in 1..(n - 1) PROVE (a \o b)[k] = seriesRows[from(k)]
    <3>1. CASE k < i
      BY <1>2, <2>1, <2>4, <3>1
    <3>2. CASE ~(k < i)
      <4>1. k - (i - 1) \in 1..(n - i) /\ i + (k - (i - 1)) = k + 1 /\ ~(k <= i - 1)
        BY <1>2, <3>2
      <4> QED
        BY <2>2, <2>4, <3>2, <4>1
    <3> QED
      BY <3>1, <3>2
  <2> QED
    BY <2>3, <2>4, <2>5
<1>4. \A k, l \in 1..(n - 1) : /\ from(k) \in 1..n
                               /\ k < l => from(k) < from(l)
    BY <1>2
<1> HIDE DEF from
<1> QED
    BY <1>2, <1>3, <1>4 DEF RowsInv

\* The same rows give the same answers.
LEMMA SameRows ==
    ASSUME seriesRows' = seriesRows
    PROVE  /\ SelectHistoryForFingerprint' = SelectHistoryForFingerprint
           /\ SeriesMembers' = SeriesMembers
           /\ \A c : IsComparison(c) => IsComparison(c)'
<1>1. SelectHistoryForFingerprint' = SelectHistoryForFingerprint
    BY Zenon DEF SelectHistoryForFingerprint
<1>2. SeriesMembers' = SeriesMembers
    BY <1>1, Zenon DEF SeriesMembers
<1>3. ASSUME NEW b, NEW c PROVE lookbackAnalysis(b, c)' = lookbackAnalysis(b, c)
  <2>1. \A t : SelectHistoryForFingerprintAsOf(t)' = SelectHistoryForFingerprintAsOf(t)
    BY Zenon DEF SelectHistoryForFingerprintAsOf
  <2> QED
    BY <2>1, Zenon DEF lookbackAnalysis
<1> QED
    BY <1>1, <1>2, <1>3, Zenon DEF IsComparison

\* A later row leaves the window of a comparison.
LEMMA LaterRow ==
    ASSUME NEW r, ToSet(seriesRows') = ToSet(seriesRows) \cup {r}, Time(r) \in Nat,
           NEW c, Time(r) > Time(c.baseline), IsComparison(c), StatisticsAssumption
    PROVE  IsComparison(c)'
<1> DEFINE t == Time(c.baseline)
<1>0. t \in Nat
    BY TimeIsNumber DEF IsComparison
<1>1. SelectHistoryForFingerprintAsOf(t)' = SelectHistoryForFingerprintAsOf(t)
  <2>1. {x \in ToSet(seriesRows') : InHistory(x) /\ Time(x) <= t}
          = {x \in ToSet(seriesRows) : InHistory(x) /\ Time(x) <= t}
    <3>1. ~(Time(r) <= t)
      BY <1>0
    <3> QED
      BY <3>1, Zenon
  <2> QED
    BY <2>1, Zenon DEF SelectHistoryForFingerprintAsOf
<1>2. lookbackAnalysis(c.baseline, c.contender)' = lookbackAnalysis(c.baseline, c.contender)
    BY <1>1, Zenon DEF lookbackAnalysis
<1> QED
    BY <1>2, Zenon DEF IsComparison

\* There is nothing to begin with,
LEMMA SeriesInvInit == SeriesInit => SeriesInv
  BY DEF SeriesInit, SeriesInv, RowsInv, AnswersInv

\* a request adds its row,
LEMMA SubmitInv ==
    ASSUME StatisticsAssumption, SeriesInv, Submit
    PROVE  SeriesInv'
<1>1. /\ submitted < Len(Submission) /\ submitted' = submitted + 1
      /\ history' = {} /\ compare' = {} /\ series' = {}
    BY DEF Submit, Forget
<1>2. submitted + 1 \in DOMAIN Submission /\ submitted + 1 \in Nat
  <2>1. submitted \in Nat /\ Len(Submission) \in Nat /\ DOMAIN Submission = 1..Len(Submission)
    BY DEF SeriesInv, RowsInv, StatisticsAssumption
  <2> QED
    BY <1>1, <2>1
<1>3. PICK s \in Submission[submitted + 1] :
        /\ seriesRows' = Append(seriesRows,
             [id |-> submitted + 1, commit |-> s.commit, at |-> s.at,
              unit |-> resolveStats(s).unit, data |-> resolveStats(s).data,
              error |-> resolveStats(s).error, aggs |-> resolveStats(s).aggs, begins |-> FALSE])
        /\ earlier' = {c \in IF compare = {} THEN earlier ELSE compare :
                         Time(c.baseline) # NullTime /\ Time(s) > Time(c.baseline)}
    BY Zenon DEF Submit
<1> DEFINE r == [id |-> submitted + 1, commit |-> s.commit, at |-> s.at,
                 unit |-> resolveStats(s).unit, data |-> resolveStats(s).data,
                 error |-> resolveStats(s).error, aggs |-> resolveStats(s).aggs, begins |-> FALSE]
<1>4. r \in StoredRow /\ r.id = submitted + 1 /\ Time(r) = Time(s) /\ Time(s) \in Nat
    BY <1>2, RowOfRequest
<1>5. seriesRows' = Append(seriesRows, r)
    BY <1>3
<1> HIDE DEF r
<1>6. RowsInv' /\ ToSet(seriesRows') = ToSet(seriesRows) \cup {r}
    BY <1>1, <1>4, <1>5, AppendRow DEF SeriesInv
<1>7. ASSUME NEW c \in earlier' PROVE IsComparison(c)'
  <2>1. c \in compare \cup earlier /\ Time(s) > Time(c.baseline)
    BY <1>3
  <2>2. IsComparison(c)
    BY <2>1 DEF SeriesInv, AnswersInv
  <2> QED
    BY <1>4, <1>6, <2>1, <2>2, LaterRow
<1> QED
    BY <1>1, <1>6, <1>7, Zenon DEF SeriesInv, AnswersInv

\* and an edit makes every answer void.
LEMMA EditInv ==
    ASSUME SeriesInv, UpdateResult \/ RemoveResult
    PROVE  SeriesInv'
<1>1. RowsInv'
    BY UpdateRow, RemoveRow DEF SeriesInv
<1>2. history' = {} /\ compare' = {} /\ series' = {} /\ earlier' = {}
    BY DEF UpdateResult, RemoveResult, Forget
<1> QED
    BY <1>1, <1>2, Zenon DEF SeriesInv, AnswersInv

\* The answers are computed from the rows as they are.
LEMMA AnswerInv ==
    ASSUME SeriesInv, History \/ Compare \/ SeriesList
    PROVE  SeriesInv'
<1>1. seriesRows' = seriesRows /\ submitted' = submitted /\ earlier' = earlier
    BY DEF History, Compare, SeriesList
<1>2. RowsInv'
    BY <1>1 DEF SeriesInv, RowsInv
<1>3. /\ SelectHistoryForFingerprint' = SelectHistoryForFingerprint
      /\ SeriesMembers' = SeriesMembers
      /\ \A c : IsComparison(c) => IsComparison(c)'
    BY <1>1, SameRows, Zenon
<1>4. \A c \in compare \cup earlier : IsComparison(c)
    BY DEF SeriesInv, AnswersInv
<1>5. \A s \in series : s.members = SeriesMembers /\ s.status = seriesStatus(s.members)
    BY DEF SeriesInv, AnswersInv
<1>6. CASE History
  <2>1. /\ compare' = {} /\ series' = {}
        /\ history' = {[members |-> SelectHistoryForFingerprint,
                        stats |-> IF /\ SelectHistoryForFingerprint # <<>>
                                     /\ SingleUnit(SelectHistoryForFingerprint)
                                  THEN RollingStatsForSeries(Points(SelectHistoryForFingerprint), FALSE)
                                  ELSE NoStats]}
    BY <1>6, Zenon DEF History
  <2>2. ASSUME NEW h \in history'
        PROVE  /\ h.members = SelectHistoryForFingerprint
               /\ h.stats = IF h.members # <<>> /\ SingleUnit(h.members)
                            THEN RollingStatsForSeries(Points(h.members), FALSE) ELSE NoStats
    <3> DEFINE m == SelectHistoryForFingerprint
               stats == IF m # <<>> /\ SingleUnit(m) THEN RollingStatsForSeries(Points(m), FALSE)
                        ELSE NoStats
    <3>1. h = [members |-> m, stats |-> stats]
      BY <2>1, <2>2, Zenon
    <3> HIDE DEF m, stats
    <3>2. h.members = m /\ h.stats = stats
      BY <3>1
    <3> QED
      BY <3>2, Zenon DEF m, stats
  <2>3. \A c \in compare' \cup earlier' : IsComparison(c)'
    BY <1>1, <1>3, <1>4, <2>1
  <2> QED
    BY <1>2, <1>3, <2>1, <2>2, <2>3, Zenon DEF SeriesInv, AnswersInv
<1>7. CASE Compare
  <2>1. history' = {} /\ series' = series
    BY <1>7 DEF Compare
  <2>2. ASSUME NEW c \in compare' PROVE IsComparison(c)
    <3>1. PICK b \in DOMAIN seriesRows :
            compare' = IF NotComparable(seriesRows[b], Last(seriesRows)) THEN {}
                       ELSE {[baseline |-> seriesRows[b], contender |-> Last(seriesRows),
                              pairwise |-> PairwiseVerdict(SingleValueSummary(seriesRows[b]),
                                                           SingleValueSummary(Last(seriesRows)),
                                                           LessIsBetter(Last(seriesRows).unit)),
                              lookback |-> lookbackAnalysis(seriesRows[b], Last(seriesRows))]}
      BY <1>7, Zenon DEF Compare
    <3>2. c = [baseline |-> seriesRows[b], contender |-> Last(seriesRows),
               pairwise |-> PairwiseVerdict(SingleValueSummary(seriesRows[b]),
                                            SingleValueSummary(Last(seriesRows)),
                                            LessIsBetter(Last(seriesRows).unit)),
               lookback |-> lookbackAnalysis(seriesRows[b], Last(seriesRows))]
      BY <2>2, <3>1, Zenon
    <3>3. seriesRows[b] \in StoredRow
      BY DEF SeriesInv, RowsInv
    <3> QED
      BY <3>2, <3>3, Zenon DEF IsComparison
  <2>3. \A c \in compare' \cup earlier' : IsComparison(c)'
    BY <1>1, <1>3, <1>4, <2>2
  <2> QED
    BY <1>2, <1>3, <1>5, <2>1, <2>3, Zenon DEF SeriesInv, AnswersInv
<1>8. CASE SeriesList
  <2>1. /\ history' = {} /\ compare' = compare
        /\ series' = {[members |-> SeriesMembers, status |-> seriesStatus(SeriesMembers)]}
    BY <1>8, Zenon DEF SeriesList
  <2>2. ASSUME NEW s \in series'
        PROVE  s.members = SeriesMembers /\ s.status = seriesStatus(s.members)
    <3> DEFINE status == seriesStatus(SeriesMembers)
    <3>1. s = [members |-> SeriesMembers, status |-> status]
      BY <2>1, <2>2, Zenon
    <3> HIDE DEF status
    <3>2. s.members = SeriesMembers /\ s.status = status
      BY <3>1
    <3> QED
      BY <3>2, Zenon DEF status
  <2>3. \A c \in compare' \cup earlier' : IsComparison(c)'
    BY <1>1, <1>3, <1>4, <2>1
  <2> QED
    BY <1>2, <1>3, <2>1, <2>2, <2>3, Zenon DEF SeriesInv, AnswersInv
<1> QED
    BY <1>6, <1>7, <1>8

\* The invariant is kept by every step.
LEMMA SeriesInvStep ==
    ASSUME StatisticsAssumption, SeriesInv, [SeriesNext]_seriesVars
    PROVE  SeriesInv'
<1>1. CASE SeriesNext
    BY <1>1, SubmitInv, EditInv, AnswerInv DEF SeriesNext
<1>2. CASE UNCHANGED seriesVars
  <2>1. /\ seriesRows' = seriesRows /\ submitted' = submitted /\ earlier' = earlier
        /\ history' = history /\ compare' = compare /\ series' = series
    BY <1>2 DEF seriesVars
  <2>2. RowsInv'
    BY <2>1 DEF SeriesInv, RowsInv
  <2>3. /\ SelectHistoryForFingerprint' = SelectHistoryForFingerprint
        /\ SeriesMembers' = SeriesMembers
        /\ \A c : IsComparison(c) => IsComparison(c)'
    BY <2>1, SameRows, Zenon
  <2> QED
    BY <2>1, <2>2, <2>3, Zenon DEF SeriesInv, AnswersInv
<1> QED
    BY <1>1, <1>2

-----------------------------------------------------------------------------
(* The series: what the invariant gives. *)

\* Statistics of points in order.
HasStats(m, s) == Timed(Points(m)) /\ s = RollingStatsForSeries(Points(m), TRUE)

\* The window of a comparison is rows in order, and the statistics are theirs.
LEMMA LookbackIs ==
    ASSUME StatisticsAssumption, SeriesInv, NEW c \in compare,
           NEW m, m = c.lookback.members, NEW s, s = c.lookback.stats
    PROVE  \/ DOMAIN m = {} /\ DOMAIN s = {}
           \/ HasStats(m, s) /\ DOMAIN s = DOMAIN m
<1> DEFINE a == SelectHistoryForFingerprintAsOf(Time(c.baseline))
           stats == RollingStatsForSeries(Points(a), TRUE)
<1>1. c.lookback = lookbackAnalysis(c.baseline, c.contender)
    BY DEF SeriesInv, AnswersInv, IsComparison
<1>2. \/ m = <<>> /\ s = <<>>
      \/ m = a /\ s = stats
  <2> DEFINE verdict == LookbackZVerdict(SingleValueSummary(c.contender),
                                         LessIsBetter(c.contender.unit),
                                         BaselineDistribution(Points(a)))
  <2>1. \/ c.lookback = [members |-> <<>>, stats |-> <<>>, verdict |-> NoVerdict]
        \/ c.lookback = [members |-> a, stats |-> stats, verdict |-> verdict]
    BY <1>1, Zenon DEF lookbackAnalysis, NoStats
  <2> HIDE DEF a, stats, verdict
  <2> QED
    BY <2>1
<1>3. Timed(Points(a))
  <2> DEFINE S == {r \in ToSet(seriesRows) : InHistory(r) /\ Time(r) <= Time(c.baseline)}
  <2>1. Ordered(S)
    BY RowsAreOrdered DEF SeriesInv
  <2>2. a = InOrder(S)
    BY Zenon DEF SelectHistoryForFingerprintAsOf
  <2> HIDE DEF a, S
  <2> QED
    BY <2>1, <2>2, PointsAreTimed
<1>4. DOMAIN stats = DOMAIN Points(a) /\ DOMAIN Points(a) = DOMAIN a
    BY StatsWithCurrent, PointsAre, Zenon
<1> HIDE DEF a, stats
<1>5. CASE m = a /\ s = stats
    BY <1>3, <1>4, <1>5, Zenon DEF HasStats, stats
<1>6. CASE m = <<>> /\ s = <<>>
  <2>1. \A x : x = <<>> => DOMAIN x = {}
    OBVIOUS
  <2> QED
    BY <1>6, <2>1, Zenon
<1> QED
    BY <1>2, <1>5, <1>6, Zenon

\* Tied rows agree.
LEMMA TiedRowsDoAgree == StatisticsAssumption /\ SeriesInv => TiedRowsAgree
<1> SUFFICES ASSUME StatisticsAssumption, SeriesInv, NEW c \in compare,
                    NEW i \in DOMAIN c.lookback.stats, NEW j \in DOMAIN c.lookback.stats,
                    Time(c.lookback.members[i]) = Time(c.lookback.members[j])
             PROVE  /\ c.lookback.stats[i].segment = c.lookback.stats[j].segment
                    /\ ~c.lookback.stats[i].outlier /\ ~c.lookback.stats[j].outlier =>
                         /\ c.lookback.stats[i].mean = c.lookback.stats[j].mean
                         /\ c.lookback.stats[i].stddev = c.lookback.stats[j].stddev
    BY Zenon DEF TiedRowsAgree
<1> DEFINE m == c.lookback.members
           s == c.lookback.stats
<1>1. s = RollingStatsForSeries(Points(m), TRUE) /\ DOMAIN s = DOMAIN m
    BY LookbackIs, Zenon DEF HasStats
<1>2. /\ DOMAIN Points(m) = DOMAIN m
      /\ Points(m)[i].time = Time(m[i]) /\ Points(m)[j].time = Time(m[j])
    BY <1>1, PointsAre, Zenon
<1> HIDE DEF m, s
<1>3. i \in DOMAIN Points(m) /\ j \in DOMAIN Points(m) /\ Points(m)[i].time = Points(m)[j].time
    BY <1>1, <1>2 DEF m, s
<1>4. SameStats(s, i, j)
    BY <1>1, <1>3, TiedPointsAgree, Zenon
<1> QED
    BY <1>4, Zenon DEF SameStats, m, s

\* The means of a comparison's statistics.
LEMMA MeansAre ==
    ASSUME NEW p
    PROVE  \A k \in DOMAIN p :
             /\ RollingStatsForSeries(p, TRUE)[k].outlier = (k \in detectShifts(p).outlier)
             /\ RollingStatsForSeries(p, TRUE)[k].mean
                  = groupedCommitRollingMean(p, detectShifts(p).outlier, k, TRUE)
    BY StatsWithCurrent, Zenon

\* The same segment and window, in the words of the property.
RowsSegment(m, s, i, S) ==
    /\ S \subseteq DOMAIN m
    /\ \A j \in DOMAIN m : j \in S <=>
         /\ ~s[j].outlier /\ Time(m[j]) <= Time(m[i])
         /\ ~\E k \in DOMAIN m : m[k].begins /\ Time(m[j]) < Time(m[k]) /\ Time(m[k]) <= Time(m[i])

RowsWindow(m, S, since, inside) ==
    /\ \A j \in S : \A t : t \in since[j] <=> \E x \in S : Time(m[x]) > Time(m[j]) /\ Time(m[x]) = t
    /\ \A j : j \in inside <=> j \in S /\ Cardinality(since[j]) < DistributionCommits

MeanOver(m, inside) ==
    {SumOf(inside, [j \in DOMAIN m |-> SingleValueSummary(m[j])]) \div Cardinality(inside)}

\* The mean of a row of the window.
LEMMA MeanOfRow ==
    ASSUME NEW m, NEW s, HasStats(m, s), NEW i \in DOMAIN m, ~s[i].outlier, DistributionCommits \in Nat \ {0, 1},
           NEW S, RowsSegment(m, s, i, S), NEW since, NEW inside, RowsWindow(m, S, since, inside)
    PROVE  s[i].mean = MeanOver(m, inside)
<1> DEFINE p == Points(m)
           outlier == detectShifts(p).outlier
<1>1. /\ DOMAIN p = DOMAIN m
      /\ \A j \in DOMAIN m : p[j].time = Time(m[j]) /\ p[j].begins = m[j].begins
    BY PointsAre, Zenon
<1>2. \A j \in DOMAIN m : p[j].svs = SingleValueSummary(m[j])
    BY PointsAre, Zenon
<1>3. \A k \in DOMAIN p : /\ s[k].outlier = (k \in outlier)
                          /\ s[k].mean = groupedCommitRollingMean(p, outlier, k, TRUE)
  <2>1. \A k \in DOMAIN p :
          /\ RollingStatsForSeries(p, TRUE)[k].outlier = (k \in outlier)
          /\ RollingStatsForSeries(p, TRUE)[k].mean = groupedCommitRollingMean(p, outlier, k, TRUE)
    BY MeansAre, Zenon
  <2>2. s = RollingStatsForSeries(p, TRUE)
    BY DEF HasStats
  <2> HIDE DEF p, outlier
  <2> QED
    BY <2>1, <2>2
<1>4. Timed(p)
    BY DEF HasStats
<1> HIDE DEF p, outlier
<1>5. Summaries(p) = [j \in DOMAIN m |-> SingleValueSummary(m[j])]
  <2>1. Summaries(p) = [j \in DOMAIN p |-> p[j].svs]
    BY Zenon DEF Summaries
  <2> QED
    BY <1>1, <1>2, <2>1
<1>6. i \in DOMAIN p \ outlier
    BY <1>1, <1>3
<1>7. PointsSegment(p, outlier, i, S)
  <2>1. \A j \in DOMAIN m : BoundaryBetween(p, j, i) <=>
          \E k \in DOMAIN m : m[k].begins /\ Time(m[j]) < Time(m[k]) /\ Time(m[k]) <= Time(m[i])
    BY <1>1 DEF BoundaryBetween
  <2>2. \A j \in DOMAIN m : s[j].outlier <=> j \in outlier
    BY <1>1, <1>3
  <2>3. \A j \in DOMAIN m : p[j].time <= p[i].time <=> Time(m[j]) <= Time(m[i])
    BY <1>1
  <2> QED
    BY <1>1, <2>1, <2>2, <2>3, Zenon DEF PointsSegment, RowsSegment
<1>8. PointsWindow(p, S, since, inside)
  <2>1. S \subseteq DOMAIN m
    BY DEF RowsSegment
  <2>2. \A j \in S : p[j].time = Time(m[j])
    BY <1>1, <2>1
  <2> QED
    BY <2>2 DEF PointsWindow, RowsWindow
<1>9. groupedCommitRollingMean(p, outlier, i, TRUE)
             = {SumOf(inside, Summaries(p)) \div Cardinality(inside)}
    BY <1>4, <1>6, <1>7, <1>8, MeanIs
<1>10. s[i].mean = groupedCommitRollingMean(p, outlier, i, TRUE)
    BY <1>3, <1>6
<1> QED
    BY <1>5, <1>9, <1>10, Zenon DEF MeanOver

\* The means are their windows'.
LEMMA MeanIsTheWindows == StatisticsAssumption /\ SeriesInv => MeanIsOfTheSegmentsWindow
<1> DEFINE m(c) == c.lookback.members
           s(c) == c.lookback.stats
           good(c, i) == {j \in DOMAIN s(c) : ~s(c)[j].outlier /\ Time(m(c)[j]) <= Time(m(c)[i])}
           boundary(c, i, j) == \E k \in DOMAIN m(c) : /\ m(c)[k].begins /\ Time(m(c)[j]) < Time(m(c)[k])
                                                       /\ Time(m(c)[k]) <= Time(m(c)[i])
           segments(c, i) == {j \in good(c, i) : ~boundary(c, i, j)}
           since(c, i, j) == {Time(m(c)[k]) : k \in {x \in segments(c, i) : Time(m(c)[x]) > Time(m(c)[j])}}
           inside(c, i) == {j \in segments(c, i) : Cardinality(since(c, i, j)) < DistributionCommits}
<1> SUFFICES ASSUME StatisticsAssumption, SeriesInv, NEW c \in compare, NEW i \in DOMAIN s(c),
                    ~s(c)[i].outlier
             PROVE  s(c)[i].mean = {SumOf(inside(c, i), [j \in DOMAIN m(c) |-> SingleValueSummary(m(c)[j])])
                                      \div Cardinality(inside(c, i))}
    BY Zenon DEF MeanIsOfTheSegmentsWindow
<1> DEFINE mc == m(c)
           sc == s(c)
           seg == segments(c, i)
           sinceOf == [j \in seg |-> since(c, i, j)]
           in == inside(c, i)
<1>1. HasStats(mc, sc) /\ DOMAIN sc = DOMAIN mc
    BY LookbackIs, Zenon
<1>2. RowsSegment(mc, sc, i, seg)
    BY <1>1 DEF RowsSegment
<1>3. \A j \in seg : sinceOf[j] = {Time(mc[k]) : k \in {x \in seg : Time(mc[x]) > Time(mc[j])}}
    BY Zenon
<1>4. \A j : j \in in <=> j \in seg /\ Cardinality(sinceOf[j]) < DistributionCommits
    BY Zenon
<1>5. DistributionCommits \in Nat \ {0, 1}
    BY DEF StatisticsAssumption
<1>6. i \in DOMAIN mc /\ ~sc[i].outlier
    BY <1>1
<1> HIDE DEF mc, sc, seg, sinceOf, in
<1>7. RowsWindow(mc, seg, sinceOf, in)
    BY <1>3, <1>4 DEF RowsWindow
<1>8. sc[i].mean = MeanOver(mc, in)
    BY <1>1, <1>2, <1>5, <1>6, <1>7, MeanOfRow, Zenon
<1> QED
    BY <1>8, Zenon DEF MeanOver, mc, sc, in

\* The nulls of a history are the documented ones.
LEMMA NullsAreDocumented == StatisticsAssumption /\ SeriesInv => NullsAsDocumented
<1> DEFINE m(h) == h.members
           s(h) == h.stats
           before(h, i) == {j \in DOMAIN s(h) : /\ ~s(h)[j].outlier
                                                /\ Time(m(h)[j]) < Time(m(h)[i])}
<1> SUFFICES ASSUME StatisticsAssumption, SeriesInv, NEW h \in history, NEW i \in DOMAIN s(h)
             PROVE  Documented(s(h)[i], before(h, i))
    BY Zenon DEF NullsAsDocumented, Documented
<1> DEFINE mh == m(h)
           sh == s(h)
           p == Points(mh)
<1>1. /\ mh = SelectHistoryForFingerprint
      /\ sh = RollingStatsForSeries(p, FALSE) \/ sh = <<>>
    BY Zenon DEF SeriesInv, AnswersInv, NoStats
<1>2. sh # <<>>
  <2>1. \A x : x = <<>> => DOMAIN x = {}
    OBVIOUS
  <2> QED
    BY <2>1, Zenon
<1>3. Timed(p)
  <2> DEFINE S == {r \in ToSet(seriesRows) : InHistory(r)}
  <2>1. Ordered(S)
    BY RowsAreOrdered DEF SeriesInv
  <2>2. mh = InOrder(S)
    BY <1>1, Zenon DEF SelectHistoryForFingerprint
  <2> HIDE DEF mh, S
  <2> QED
    BY <2>1, <2>2, PointsAreTimed
<1>4. /\ DOMAIN p = DOMAIN mh /\ \A j \in DOMAIN mh : p[j].time = Time(mh[j])
    BY PointsAre, Zenon
<1>5. DOMAIN RollingStatsForSeries(p, FALSE) = DOMAIN p
    BY StatsBeforeCurrent, Zenon
<1> DEFINE b == before(h, i)
<1>6. b = {j \in DOMAIN sh : ~sh[j].outlier /\ Time(mh[j]) < Time(mh[i])} /\ i \in DOMAIN sh
    OBVIOUS
<1>7. DistributionCommits \in Nat \ {0, 1}
    BY DEF StatisticsAssumption
<1> HIDE DEF mh, sh, p, b
<1>8. sh = RollingStatsForSeries(p, FALSE) /\ DOMAIN sh = DOMAIN p /\ i \in DOMAIN p
    BY <1>1, <1>2, <1>5, <1>6
<1>9. b = {j \in DOMAIN p : ~sh[j].outlier /\ p[j].time < p[i].time}
    BY <1>4, <1>6, <1>8
<1>10. Documented(sh[i], b)
    BY <1>3, <1>7, <1>8, <1>9, NullsAre
<1> QED
    BY <1>10, Zenon DEF sh, b

\* A comparison after results on later commits is the one before them.
LEMMA LaterCommitsDoNotChange == SeriesInv => LaterCommitsChangeNoVerdict
<1> SUFFICES ASSUME SeriesInv, NEW c \in compare, NEW e \in earlier, c.baseline = e.baseline,
                    SingleValueSummary(c.contender) = SingleValueSummary(e.contender),
                    c.contender.unit = e.contender.unit
             PROVE  c.pairwise = e.pairwise /\ c.lookback.verdict = e.lookback.verdict
    BY Zenon DEF LaterCommitsChangeNoVerdict
<1>1. IsComparison(c) /\ IsComparison(e)
    BY Zenon DEF SeriesInv, AnswersInv
<1>2. c.pairwise = e.pairwise
    BY <1>1, Zenon DEF IsComparison
<1>3. lookbackAnalysis(c.baseline, c.contender) = lookbackAnalysis(e.baseline, e.contender)
    BY Zenon DEF lookbackAnalysis
<1> QED
    BY <1>1, <1>2, <1>3, Zenon DEF IsComparison

\* The tail that is the whole series is its rows in order.
LEMMA MembersAre ==
    ASSUME StatisticsAssumption, RowsInv, NEW m, m = SeriesMembers, Len(m) < MembersTailLimit,
           NEW S, S = {r \in ToSet(seriesRows) : InHistory(r)}
    PROVE  Ordered(S) /\ m = InOrder(S) /\ m \in Seq(StoredRow) /\ Len(m) = Cardinality(S)
<1> DEFINE all == InOrder(S)
           limit == MembersTailLimit
           start == Max({1, Len(all) - limit + 1})
<1>1. Ordered(S)
    BY RowsAreOrdered
<1>2. all \in Seq(StoredRow) /\ Len(all) = Cardinality(S)
    BY <1>1, InOrderIsSeq
<1>3. m = SubSeq(all, start, Len(all))
    BY Zenon DEF SeriesMembers, SelectHistoryForFingerprint
<1>4. limit \in Nat \ {0}
    BY DEF StatisticsAssumption
<1> HIDE DEF all, limit
<1>5. Len(all) \in Nat /\ 1 \in Int /\ Len(all) - limit + 1 \in Int
    BY <1>2, <1>4
<1>6. start \in {1, Len(all) - limit + 1} /\ start >= 1 /\ start >= Len(all) - limit + 1
    BY <1>5, MaxOfTwo, Zenon
<1> HIDE DEF start
<1>7. start \in Int /\ (start = 1 \/ start = Len(all) - limit + 1)
    BY <1>5, <1>6
<1>8. Len(SubSeq(all, start, Len(all))) < limit
    BY <1>3 DEF limit
<1>9. m = all
    BY <1>2, <1>3, <1>4, <1>6, <1>7, <1>8, TailIsAll
<1> QED
    BY <1>1, <1>2, <1>9 DEF all

\* The status of a series is the verdict of the comparison of its last two members.
LEMMA StatusIsVerdict ==
    ASSUME StatisticsAssumption, RowsInv, NEW m, m = SeriesMembers, NEW n, n = Len(m),
           n >= 2, n < MembersTailLimit, SingleUnit(m), Time(m[n - 1]) < Time(m[n])
    PROVE  seriesStatus(m) = lookbackAnalysis(m[n - 1], m[n]).verdict
<1> DEFINE S == {r \in ToSet(seriesRows) : InHistory(r)}
           baseline == m[n - 1]
           T == {r \in ToSet(seriesRows) : InHistory(r) /\ Time(r) <= Time(baseline)}
           front == Front(m)
           d == BaselineDistribution(Points(front))
           verdict == LookbackZVerdict(SingleValueSummary(m[n]), LessIsBetter(m[n].unit), d)
<1>1. Ordered(S) /\ m = InOrder(S) /\ m \in Seq(StoredRow) /\ n = Cardinality(S)
    BY MembersAre
<1>2. n \in Nat /\ n \in 1..n /\ n - 1 \in 1..n /\ 1 \in 1..n /\ \A i \in 1..n : m[i] \in S
  <2>1. n \in Nat /\ \A i \in 1..n : m[i] \in S
    <3> HIDE DEF S
    <3>1. Cardinality(S) \in Nat /\ \A i \in 1..Cardinality(S) : InOrder(S)[i] \in S
      BY <1>1, InOrderIs, Zenon
    <3> QED
      BY <1>1, <3>1
  <2> HIDE DEF S
  <2> QED
    BY <2>1
<1>3. T \in SUBSET S /\ \A r \in S : r \in T <=> Time(r) <= Time(m[n - 1])
    BY Zenon
<1>4. baseline \in S /\ InHistory(baseline)
    BY <1>2
<1> HIDE DEF S, T
<1>5. InOrder(T) = front /\ InOrder(T) # <<>>
    BY <1>1, <1>3, FrontInOrder
<1>6. SelectHistoryForFingerprintAsOf(Time(baseline)) = front
    BY <1>5, Zenon DEF SelectHistoryForFingerprintAsOf, T
<1>7. m[1].unit = m[n].unit /\ \A i \in DOMAIN front : front[i].unit = m[n].unit
  <2>1. \A i \in 1..n : m[i].unit = m[1].unit
    BY <1>1 DEF SingleUnit
  <2>2. \A i \in DOMAIN front : i \in 1..n /\ front[i] = m[i]
    BY <1>1, <1>2 DEF Front
  <2> HIDE DEF front
  <2> QED
    BY <1>2, <2>1, <2>2
<1>8. Time(baseline) # NullTime
    BY <1>4 DEF InHistory
<1> HIDE DEF baseline, front, d
<1>9. front # <<>>
    BY <1>5
<1>10. lookbackAnalysis(baseline, m[n])
         = [members |-> front, stats |-> RollingStatsForSeries(Points(front), TRUE),
            verdict |-> verdict]
  <2>1. ~(\/ Time(baseline) = NullTime \/ front = <<>>
          \/ \E i \in DOMAIN front : front[i].unit # m[n].unit)
    BY <1>7, <1>8, <1>9
  <2> HIDE DEF verdict
  <2> QED
    BY <1>6, <2>1, Zenon DEF lookbackAnalysis, verdict, d
<1>11. lookbackAnalysis(baseline, m[n]).verdict = verdict
  <2> DEFINE stats == RollingStatsForSeries(Points(front), TRUE)
  <2> HIDE DEF verdict, stats
  <2>1. lookbackAnalysis(baseline, m[n]) = [members |-> front, stats |-> stats, verdict |-> verdict]
    BY <1>10, Zenon DEF stats
  <2> QED
    BY <2>1
<1>12. seriesStatus(m) = LookbackZVerdict(SingleValueSummary(Last(m)), LessIsBetter(m[1].unit), d)
  <2>1. ~(Len(m) < 2 \/ ~SingleUnit(m))
    BY <1>2
  <2> QED
    BY <2>1, Zenon DEF seriesStatus, d, front
<1>13. Last(m) = m[n]
    BY Zenon DEF Last
<1> QED
    BY <1>7, <1>11, <1>12, <1>13, Zenon DEF baseline

\* The status of the series list is the verdict of the comparison endpoint.
LEMMA StatusIsAComparison == StatisticsAssumption /\ SeriesInv => StatusIsTheComparison
<1> SUFFICES ASSUME StatisticsAssumption, SeriesInv, NEW s \in series, NEW c \in compare,
                    NEW m, m = s.members, NEW n, n = Len(m),
                    n >= 2, n < MembersTailLimit, SingleUnit(m), Time(m[n - 1]) < Time(m[n]),
                    c.baseline = m[n - 1], c.contender = m[n]
             PROVE  s.status = c.lookback.verdict
    BY Zenon DEF StatusIsTheComparison
<1>1. m = SeriesMembers /\ s.status = seriesStatus(m) /\ RowsInv
    BY Zenon DEF SeriesInv, AnswersInv
<1>2. seriesStatus(m) = lookbackAnalysis(m[n - 1], m[n]).verdict
    BY <1>1, StatusIsVerdict
<1>3. c.lookback = lookbackAnalysis(m[n - 1], m[n])
    BY Zenon DEF SeriesInv, AnswersInv, IsComparison
<1> QED
    BY <1>1, <1>2, <1>3, Zenon

-----------------------------------------------------------------------------
(* The series: the theorems. *)

\* Every answer of the reading endpoints is what the rows say, and a comparison that
\* only results on later commits followed is still the one the rows say.
THEOREM SeriesInvariant == SeriesSpec => []SeriesInv
<1>1. SeriesInit => SeriesInv
    BY SeriesInvInit
<1>2. SeriesInv /\ [SeriesNext]_seriesVars => SeriesInv'
    BY SeriesInvStep, StatisticsAssumption
<1> QED
    BY <1>1, <1>2, PTL DEF SeriesSpec

\* The baseline statistics of every comparison and history are as their documentation
\* defines them, whatever ties, outliers and boundaries there are (RollingStatsForSeries).
THEOREM StatisticsAreAlwaysAsDefined == SeriesSpec => []StatisticsAreAsDefined
<1>1. SeriesInv => StatisticsAreAsDefined
    BY TiedRowsDoAgree, MeanIsTheWindows, NullsAreDocumented, StatisticsAssumption, Zenon
       DEF StatisticsAreAsDefined
<1> QED
    BY <1>1, SeriesInvariant, PTL

\* seriesStatus says what Compare says of the last two members of a series, and
\* results on commits later than the baseline's leave a verdict as it was
\* (lookbackAnalysis).
THEOREM VerdictsAlwaysAgree == SeriesSpec => []VerdictsAgree
<1>1. SeriesInv => StatusIsTheComparison
    BY StatusIsAComparison, StatisticsAssumption
<1>2. SeriesInv => LaterCommitsChangeNoVerdict
    BY LaterCommitsDoNotChange
<1>3. SeriesInv => VerdictsAgree
    BY <1>1, <1>2 DEF VerdictsAgree
<1> QED
    BY <1>3, SeriesInvariant, PTL

=============================================================================
