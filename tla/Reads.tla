------------------------------- MODULE Reads -------------------------------
(***************************************************************************)
(* The reading endpoints: result lists and series lists walked page by     *)
(* page with a cursor, and the recent runs (service/list.go, series.go,    *)
(* runs.go and the queries under them). A page is one statement, or two    *)
(* for a series list, and results are submitted and deleted in between.    *)
(*                                                                         *)
(* Ids ascend with their making (UUIDv7), but a row appears when its       *)
(* INSERT commits: results arrive in any order of ids. Fingerprints are    *)
(* numbers: the code orders them as strings. What a series row shows of    *)
(* its members (unit, status, sparkline) is module Statistics.             *)
(*                                                                         *)
(* What this module has in common with CIReport or Statistics is named     *)
(* after the lists, so that one module can extend them all.                *)
(***************************************************************************)
EXTENDS Naturals, FiniteSets

CONSTANTS
    Row,            \* results by id: [run, repo, fp, commit, at, error]
    ListCommit,         \* commits: [time, default]
    CaseOf,         \* the case of a fingerprint
    ListInitial,        \* the results there are to begin with
    ListQueries,        \* the lists asked for
    PageSize,
    CompleteCaseLimit,      \* seriesQCompleteCaseLimit
    QRecentLimit,           \* seriesQRecentCommitLimit
    BrowseLimit,            \* seriesBrowseRecentCommitLimit without a cursor
    ScopedLimit,            \* seriesBrowseScopedCommitLimit
    TailLimit,              \* seriesMembersTailLimit
    CandidateLimit,         \* recentRunsCandidateCount
    AttentionLimit,         \* recentRunsAttentionLimit
    MaxWrites              \* bound: submissions and deletions

Unset == 0
Untimed == 0
NoCursor == <<>>

\* A series is of one repository (its fingerprint is made of it); tables, and the
\* cases a search term matches, are finite; since and until are times or Unset.
ListConstants ==
    /\ Row \in [DOMAIN Row -> [run : Nat, repo : Nat, fp : Nat, commit : DOMAIN ListCommit, at : Nat,
                               error : BOOLEAN]]
    /\ DOMAIN Row \subseteq Nat /\ ListInitial \subseteq DOMAIN Row /\ IsFiniteSet(ListInitial)
    /\ \A r, s \in DOMAIN Row : Row[r].fp = Row[s].fp => Row[r].repo = Row[s].repo
    /\ ListCommit \in [DOMAIN ListCommit -> [time : Nat, default : BOOLEAN]]
    /\ DOMAIN ListCommit \subseteq Nat /\ IsFiniteSet(DOMAIN ListCommit)
    /\ PageSize \in Nat \ {0} /\ TailLimit \in Nat \ {0} /\ CandidateLimit \in Nat
    /\ QRecentLimit \in Nat /\ BrowseLimit \in Nat /\ ScopedLimit \in Nat
    /\ CompleteCaseLimit \in Nat
    /\ \A q \in ListQueries : q.since \in Nat /\ q.until \in Nat /\ IsFiniteSet(q.cases)

ASSUME ReadsAssumption == ListConstants

VARIABLES
    listRows,    \* the rows of benchmark_result
    listUnused, listChanges,
    walk,       \* a client's walk over a list
    runs        \* the answer of the recent-runs endpoint: {} or {answer}

listVars == <<listRows, listUnused, listChanges, walk, runs>>

\* Cursors and keys are pairs in lexicographic order.
Below(k, l) == k[1] < l[1] \/ (k[1] = l[1] /\ k[2] < l[2])

\* ORDER BY key DESC LIMIT n, for a function key on S.
Top(S, n, key) == {x \in S : Cardinality({y \in S : Below(key[x], key[y])}) < n}

\* Mutant: the cursor compares times only.
PastByTime(key, cursor) == cursor = NoCursor \/ key[1] < cursor[1]

Past(key, cursor) == cursor = NoCursor \/ Below(key, cursor)

NoWalk == [pc |-> "idle", query |-> Unset, cursor |-> NoCursor, page |-> {}, items |-> {}, quiet |-> TRUE,
         start |-> {}, touched |-> {}, removed |-> {}, seen |-> {}, again |-> {}]

ListInit ==
    /\ listRows = ListInitial /\ listUnused = DOMAIN Row \ ListInitial /\ listChanges = 0
    /\ walk = NoWalk /\ runs = {}

(***************************************************************************)
(* Results: id DESC, the cursor is the last id.                            *)
(***************************************************************************)

ResultKey == [r \in DOMAIN Row |-> <<0, r>>]

SelectBenchmarkResults(q, cursor) ==
    Top({r \in listRows : (q.run = Unset \/ Row[r].run = q.run) /\ Past(ResultKey[r], cursor)},
        PageSize, ResultKey)

(***************************************************************************)
(* Series: one row per fingerprint, its newest member's commit time and    *)
(* the fingerprint DESC.                                                   *)
(***************************************************************************)

TimeOf(r) == ListCommit[Row[r].commit].time

Active(q, t) == (q.since = Unset \/ t >= q.since) /\ (q.until = Unset \/ t <= q.until)

Member(r) == ~Row[r].error /\ ListCommit[Row[r].commit].default /\ TimeOf(r) # Untimed

Members(q) == {r \in listRows : Member(r) /\ Active(q, TimeOf(r)) /\ (q.repo = Unset \/ Row[r].repo = q.repo)}

SeriesKey == [r \in DOMAIN Row |-> <<TimeOf(r), Row[r].fp>>]

MemberKey == [r \in DOMAIN Row |-> <<TimeOf(r), r>>]

NewerMember(r, s) == Below(MemberKey[s], MemberKey[r])

\* latest: DISTINCT ON (history_fingerprint), newest commit first.
Latest(M) == {r \in M : \A s \in M : Row[s].fp = Row[r].fp => ~NewerMember(s, r)}

PageOf(M, cursor) ==
    Top({r \in Latest(M) : Past(SeriesKey[r], cursor)}, PageSize, SeriesKey)

\* The cursor cuts the members, not the series.
SelectSeriesPageForFingerprint(q, cursor) ==
    Top(Latest({r \in Members(q) : /\ Row[r].fp = q.fp /\ Past(SeriesKey[r], cursor)
                                   /\ (~q.search \/ CaseOf[q.fp] \in q.cases)}),
        PageSize, SeriesKey)

SelectSeriesPageForQCaseIDs(q, cursor) ==
    PageOf({r \in Members(q) : CaseOf[Row[r].fp] \in q.cases}, cursor)

\* The bounded window of recent default commits below the cursor, with those tied
\* with it and those tied with its end.
RecentCommits(candidates, limit, cursor, emptyIsAll) ==
    LET below == {c \in candidates : cursor = NoCursor \/ ListCommit[c].time < cursor[1]}
        seed == Top(below, limit, [c \in below |-> <<ListCommit[c].time, c>>])
    IN  {c \in candidates : \/ cursor # NoCursor /\ ListCommit[c].time = cursor[1]
                            \/ /\ c \in below
                               /\ \/ seed = {} /\ emptyIsAll
                                  \/ \E d \in seed : ListCommit[d].time <= ListCommit[c].time}

DefaultCommits(q) ==
    {c \in DOMAIN ListCommit : ListCommit[c].default /\ ListCommit[c].time # Untimed /\ Active(q, ListCommit[c].time)}

\* Mutant: a series is taken from its older members once its newest is passed.
NoneHidden(M, all, cursor) == M

\* Members of a series that has a member at or above the cursor are left out: that
\* series has been listed.
NotListed(M, all, cursor) ==
    {r \in M : cursor = NoCursor \/
               \A s \in all : Row[s].fp = Row[r].fp => Below(SeriesKey[s], cursor)}

SelectSeriesPageForQRecent(q, cursor) ==
    LET recent == RecentCommits(DefaultCommits(q), QRecentLimit, cursor, TRUE)
        all == {r \in listRows : Member(r)}
    IN  PageOf(NotListed({r \in Members(q) : /\ Row[r].commit \in recent
                                             /\ CaseOf[Row[r].fp] \in q.cases}, all, cursor), cursor)

seriesBrowseRecentCommitLimit(cursor) ==
    IF cursor # NoCursor /\ ScopedLimit > BrowseLimit THEN ScopedLimit ELSE BrowseLimit

\* The browse query counts only commits that carry results it may list.
BrowseCommits(q, cursor) ==
    RecentCommits({c \in DefaultCommits(q) :
                     \E r \in listRows : /\ Row[r].commit = c /\ ~Row[r].error
                                        /\ (q.repo = Unset \/ Row[r].repo = q.repo)},
                  seriesBrowseRecentCommitLimit(cursor), cursor, FALSE)

SelectSeriesBrowsePage(q, cursor) ==
    PageOf(NotListed({r \in Members(q) : Row[r].commit \in BrowseCommits(q, cursor)},
                     Members(q), cursor), cursor)

seriesQNeedsCompleteSearch(q) == q.repo # Unset \/ q.since # Unset \/ q.until # Unset

\* Store.SelectSeriesPage: which of the four queries answers.
SelectSeriesPage(q, cursor) ==
    CASE q.fp # Unset -> SelectSeriesPageForFingerprint(q, cursor)
      [] q.fp = Unset /\ ~q.search -> SelectSeriesBrowsePage(q, cursor)
      [] q.fp = Unset /\ q.search /\ (Cardinality(q.cases) <= CompleteCaseLimit
                                      \/ seriesQNeedsCompleteSearch(q)) ->
            SelectSeriesPageForQCaseIDs(q, cursor)
      [] OTHER -> SelectSeriesPageForQRecent(q, cursor)

\* Mutant: the window's ends confused.
OldestMembers(fp) ==
    LET all == {r \in listRows : Member(r) /\ Row[r].fp = fp}
    IN  {r \in all : Cardinality({s \in all : NewerMember(r, s)}) < TailLimit}

\* The newest TailLimit members of a series.
SelectSeriesMembers(fp) ==
    Top({r \in listRows : Member(r) /\ Row[r].fp = fp}, TailLimit,
        MemberKey)

(***************************************************************************)
(* A walk. Its history: the rows at its start, what was written and what   *)
(* was deleted during it, what it has listed and what it listed again.     *)
(***************************************************************************)

Begin(q) ==
    /\ walk.pc \in {"idle", "done"}
    /\ walk' = [NoWalk EXCEPT !.pc = "page", !.query = q, !.start = listRows]
    /\ runs' = {}
    /\ UNCHANGED <<listRows, listUnused, listChanges>>

ListKey(q, r) == IF q.kind = "results" THEN ResultKey[r] ELSE SeriesKey[r]

Name(q, r) == IF q.kind = "results" THEN r ELSE Row[r].fp

\* The next cursor is the last row's, and there is one only when the page is full.
NextCursor(w, page) ==
    {r \in page : /\ Cardinality(page) = PageSize
                  /\ \A s \in page : ~Below(ListKey(w.query, s), ListKey(w.query, r))}

\* The page is answered: the client asks for the next one, or stops.
Answered(w, page, items) ==
    LET names == {Name(w.query, r) : r \in page}
        last == NextCursor(w, page)
    IN  [w EXCEPT !.pc = IF last = {} THEN "done" ELSE "page",
                  !.cursor = IF last = {} THEN NoCursor ELSE ListKey(w.query, CHOOSE r \in last : TRUE),
                  !.page = {}, !.items = items,
                  !.seen = @ \cup names, !.again = @ \cup (w.seen \cap names)]

ListResults ==
    /\ walk.pc = "page" /\ walk.query.kind = "results"
    /\ walk' = Answered(walk, SelectBenchmarkResults(walk.query, walk.cursor), {})
    /\ UNCHANGED <<listRows, listUnused, listChanges, runs>>

\* ListSeries, first statement: the page, with each series' count of members.
ListSeries ==
    /\ walk.pc = "page" /\ walk.query.kind = "series"
    /\ walk' = [walk EXCEPT !.pc = "members", !.quiet = TRUE, !.items = {},
                            !.page = SelectSeriesPage(walk.query, walk.cursor)]
    /\ UNCHANGED <<listRows, listUnused, listChanges, runs>>

\* Second statement: the members of the page's series, and the answer.
ListSeriesMembers ==
    /\ walk.pc = "members"
    /\ walk' = Answered(walk, walk.page, {[latest |-> r, tail |-> SelectSeriesMembers(Row[r].fp)] : r \in walk.page})
    /\ UNCHANGED <<listRows, listUnused, listChanges, runs>>

(***************************************************************************)
(* Recent runs: the runs of the newest results, aggregated exactly.        *)
(***************************************************************************)

RecentKey == [r \in DOMAIN Row |-> <<Row[r].at, r>>]

NewerResult(r, s) == Below(RecentKey[s], RecentKey[r])

Candidates == Top(listRows, CandidateLimit, RecentKey)

InRepo(r, repo) == repo = Unset \/ Row[r].repo = repo

\* The run's newest result in a set of rows.
LastOf(run, S) == CHOOSE r \in S : Row[r].run = run /\ \A s \in S : Row[s].run = run => ~NewerResult(s, r)

SelectedRuns(repo) ==
    LET rows == {r \in Candidates : InRepo(r, repo)}
        ids == {Row[r].run : r \in rows}
    IN  Top(ids, PageSize, [run \in ids |-> <<Row[LastOf(run, rows)].at, run>>])

RunRow(run, repo) ==
    LET rows == {r \in listRows : Row[r].run = run /\ InRepo(r, repo)}
    IN  [run |-> run, latest |-> LastOf(run, rows), count |-> Cardinality(rows),
         errors |-> Cardinality({r \in rows : Row[r].error}),
         series |-> Cardinality({Row[r].fp : r \in rows})]

\* What the CI report of a run may come to (module CIReport); a run is shown with
\* attention unless its report is fine, missing or only about a default-branch run.
ReportOutcome == {"not_found", "error", "success", "skipped", "failure", "action_required",
                  "default_branch_only"}

recentRunAttention(outcome) ==
    CASE outcome \in {"not_found", "success", "skipped", "default_branch_only"} -> "none"
      [] outcome = "error" -> "action_required"
      [] OTHER -> outcome

\* The runs are one statement; the reports come after it, for the first runs only.
\* Reads do not see each other, so it is enough to have this one before a walk.
ListRecentRuns(repo) ==
    /\ runs = {} /\ walk.pc = "idle"
    /\ LET rows == {RunRow(run, repo) : run \in SelectedRuns(repo)}
           first == Top(rows, AttentionLimit, [x \in rows |-> RecentKey[x.latest]])
       IN  \E outcome \in ReportOutcome :
             runs' = {[repo |-> repo, rows |-> rows,
                       attention |-> {r.run : r \in {x \in first : recentRunAttention(outcome) # "none"}}]}
    /\ UNCHANGED <<listRows, listUnused, listChanges, walk>>

(***************************************************************************)
(* Writers.                                                                *)
(***************************************************************************)

Write(r) ==
    /\ listChanges < MaxWrites /\ listChanges' = listChanges + 1
    /\ runs' = {}
    /\ walk' = IF walk.pc = "idle" THEN walk
               ELSE [walk EXCEPT !.quiet = FALSE, !.touched = @ \cup {r},
                                 !.removed = IF r \in listRows THEN @ \cup {r} ELSE @]

SubmitRow ==
    /\ \E r \in listUnused : /\ listRows' = listRows \cup {r} /\ listUnused' = listUnused \ {r}
                         /\ Write(r)

DeleteRow ==
    /\ \E r \in listRows : listRows' = listRows \ {r} /\ Write(r)
    /\ UNCHANGED listUnused

ListNext ==
    \/ \E q \in ListQueries : Begin(q)
    \/ ListResults \/ ListSeries \/ ListSeriesMembers
    \/ \E repo \in {Unset} \cup {Row[r].repo : r \in DOMAIN Row} : ListRecentRuns(repo)
    \/ SubmitRow \/ DeleteRow

ListSpec == ListInit /\ [][ListNext]_listVars

(***************************************************************************)
(* Properties.                                                             *)
(***************************************************************************)

\* A walk lists no result twice, and no series unless a member of it was deleted
\* meanwhile, whatever is submitted between its pages; a lookup by fingerprint with
\* a cursor is left out.
NothingListedTwice ==
    \A n \in walk.again : \/ walk.query.kind = "series" /\ walk.query.fp # Unset
                          \/ \E r \in walk.removed : walk.query.kind = "series" /\ Row[r].fp = n

\* Store.SelectSeriesPage's "one row per history fingerprint with its newest-commit
\* member", for every query.
OneRowPerFingerprint ==
    \A n \in walk.again : \E r \in walk.removed : Row[r].fp = n

\* A walk that has ended has listed every result, and every series, that was there
\* from its beginning and was not written to: all of a complete search, and of a
\* bounded one those whose newest member is in the window it began with.
PagesMissNothing ==
    LET q == walk.query
        quiet(r) == \A t \in walk.touched : Row[t].fp # Row[r].fp
        start == {r \in walk.start : Member(r) /\ quiet(r) /\ Active(q, TimeOf(r))
                                       /\ (q.repo = Unset \/ Row[r].repo = q.repo)}
        window(c) == Cardinality({d \in DefaultCommits(q) : ListCommit[d].time > ListCommit[c].time})
                       < (IF q.search THEN QRecentLimit ELSE BrowseLimit)
    IN  walk.pc = "done" =>
          IF q.kind = "results"
          THEN {r \in walk.start \cap listRows : q.run = Unset \/ Row[r].run = q.run} \subseteq walk.seen
          ELSE \A r \in Latest(start) :
                 \/ Row[r].fp \in walk.seen
                 \/ q.fp # Unset /\ (Row[r].fp # q.fp \/ (q.search /\ CaseOf[q.fp] \notin q.cases))
                 \/ q.fp = Unset /\ q.search /\ CaseOf[Row[r].fp] \notin q.cases
                 \/ /\ q.fp = Unset /\ (q.search => ~seriesQNeedsCompleteSearch(q))
                    /\ (q.search => Cardinality(q.cases) > CompleteCaseLimit)
                    /\ ~window(Row[r].commit)

\* The two statements of a series page agree when nothing was written in between:
\* the newest of the members read is the member the page shows as the latest, unless
\* the page is cut off by the caller's end date or the fingerprint lookup's cursor.
PageAndMembersAgree ==
    \A i \in walk.items :
      (walk.quiet /\ walk.query.until = Unset /\ walk.query.fp = Unset) =>
        i.latest \in i.tail /\ \A s \in i.tail : ~NewerMember(s, i.latest)

\* No run left out of the recent runs is newer than one listed, and the counts of a
\* listed run cover all its results, also those older than the candidates.
RecentRunsAreTheNewest ==
    \A a \in runs :
      LET all == {r \in listRows : InRepo(r, a.repo)}
          listed == {x.run : x \in a.rows}
      IN  /\ \A x \in a.rows, r \in all : Row[r].run \notin listed => Row[r].at <= Row[x.latest].at
          /\ \A x \in a.rows : x.count = Cardinality({r \in all : Row[r].run = x.run})

\* No list leaves out what it promises to show.
NothingMissed == PagesMissNothing /\ RecentRunsAreTheNewest

=============================================================================
