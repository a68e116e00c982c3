----------------------------- MODULE Statistics -----------------------------
(***************************************************************************)
(* What is computed from the results of one series: the aggregates stored  *)
(* with a result, its single value summary, the rolling statistics of the  *)
(* history endpoint, and the verdicts of compare and of the series list    *)
(* (internal/stats, service/read.go, compare.go, series.go). Results come, *)
(* go and are marked as the beginning of a distribution, and the reading   *)
(* endpoints answer from what there is.                                    *)
(*                                                                         *)
(* Measurements are small integers. A summary is scaled by Scale, which    *)
(* every window's length divides, so that means and residuals are exact; a *)
(* standard deviation is kept as the fraction num/den of its square. A     *)
(* value that may be nil or NaN is a set of one element or none.           *)
(*                                                                         *)
(* What this module has in common with CIReport or Reads is named after    *)
(* the series, so that one module can extend them all.                     *)
(***************************************************************************)
EXTENDS Integers, Sequences, FiniteSets, FiniteSetsExt, SequencesExt

CONSTANTS
    SeriesCommit,           \* commits: [time, default]; NullTime is a null timestamp
    Submission,             \* the n-th request is one of Submission[n]:
                            \* [commit, at, unit, data, error]
    Null,                   \* a missing measurement
    DistributionCommits,    \* DistributionCommitsDefault
    MembersTailLimit,       \* seriesMembersTailLimit
    MaxEdits                \* bound: annotations and deletions

NullTime == 0
Scale == 60
PercentThreshold == 5
ZScoreThreshold == 5

\* The windows are of more than one commit: DistributionCommitsDefault is 100.
ASSUME StatisticsAssumption ==
    /\ SeriesCommit \in [DOMAIN SeriesCommit -> [time : Nat, default : BOOLEAN]]
    /\ Submission \in Seq(SUBSET [commit : DOMAIN SeriesCommit, at : Nat, unit : STRING,
                                  data : Seq(Int \cup {Null}), error : BOOLEAN])
    /\ DistributionCommits \in Nat \ {0, 1} /\ MembersTailLimit \in Nat \ {0}
    /\ MaxEdits \in Nat
    /\ \A k \in DOMAIN Submission : Scale % k = 0

VARIABLES
    seriesRows, \* the results of the series in the order of their ids
    submitted, edits,
    history,    \* what a reader has of these rows: the answer of the history endpoint,
    compare,    \* or those of the compare endpoint
    series,     \* and of the series list; each a set of one answer or none
    earlier     \* the last comparison since when only later commits' results came

seriesVars == <<seriesRows, submitted, edits, history, compare, series, earlier>>

(***************************************************************************)
(* Units and one result's numbers.                                         *)
(***************************************************************************)

known == {"B", "B/s", "s", "ns", "i/s"}
LessIsBetter(unit) == unit \in {"B", "s", "ns"}
LegacyConvert(unit) == IF unit = "b/s" THEN "B/s" ELSE unit

SumOf(S, f) == FoldFunctionOnSet(+, 0, f, S)

looksLikeError(data) == data = <<>> \/ \E i \in DOMAIN data : data[i] = Null

Sorted(s) == SortSeq(s, <)

\* The percentile of a sorted sequence, times 4: q is in quarters.
percentile(s, q) ==
    LET at == q * (Len(s) - 1)
        lo == at \div 4
    IN  IF at % 4 = 0 THEN 4 * s[lo + 1]
        ELSE 4 * s[lo + 1] + (at % 4) * (s[lo + 2] - s[lo + 1])

\* Quartiles times 4, the mean as sum and count; stdev and iqr follow from these.
AggregateOf(s) ==
    [sum |-> SumOf(DOMAIN s, s), n |-> Len(s),
     spread |-> IF Len(s) < 3 THEN {}
                ELSE {[min |-> s[1], q1 |-> percentile(s, 1), median |-> percentile(s, 2),
                       q3 |-> percentile(s, 3), max |-> s[Len(s)]]}]

\* Mutant: the data is not sorted.
AggregateAsGiven(data) == AggregateOf(data)

Aggregate(data) == AggregateOf(Sorted(data))

NoAggregates == [sum |-> 0, n |-> 0, spread |-> {}]

\* resolveStats: an error, or missing data, stores the unit as it was given and
\* the caller's aggregates (none, here); a good result is converted and aggregated.
resolveStats(s) ==
    IF s.error \/ looksLikeError(s.data)
    THEN [unit |-> s.unit, data |-> s.data, error |-> TRUE, aggs |-> NoAggregates]
    ELSE [unit |-> LegacyConvert(s.unit), data |-> s.data, error |-> FALSE,
          aggs |-> Aggregate(s.data)]

Accepted(s) == s.error \/ looksLikeError(s.data) \/ LegacyConvert(s.unit) \in known

\* historySVS, best mode: the member's minimum or maximum by its unit's direction.
SingleValueSummary(row) ==
    LET values == {row.data[i] : i \in DOMAIN row.data}
    IN  Scale * (IF LessIsBetter(row.unit) THEN Min(values) ELSE Max(values))

(***************************************************************************)
(* The rows of a series in the order of the history queries.               *)
(***************************************************************************)

Time(row) == SeriesCommit[row.commit].time

InHistory(row) == ~row.error /\ SeriesCommit[row.commit].default /\ Time(row) # NullTime

Before(a, b) == Time(a) < Time(b) \/ (Time(a) = Time(b) /\ a.id < b.id)

\* ORDER BY commit time, id: the i-th row has i - 1 before it.
InOrder(S) ==
    [i \in 1..Cardinality(S) |-> CHOOSE r \in S : Cardinality({s \in S : Before(s, r)}) = i - 1]

SelectHistoryForFingerprint == InOrder({r \in ToSet(seriesRows) : InHistory(r)})

\* Mutant: the cutoff is forgotten.
WholeHistory(asOf) == InOrder({r \in ToSet(seriesRows) : InHistory(r)})

SelectHistoryForFingerprintAsOf(asOf) ==
    InOrder({r \in ToSet(seriesRows) : InHistory(r) /\ Time(r) <= asOf})

\* SelectSeriesMembers: the newest TailLimit members.
SeriesMembers ==
    LET all == SelectHistoryForFingerprint
    IN  SubSeq(all, Max({1, Len(all) - MembersTailLimit + 1}), Len(all))

SinglePoint(row) == [time |-> Time(row), at |-> row.at, svs |-> SingleValueSummary(row),
                     begins |-> row.begins]

Points(members) == [i \in DOMAIN members |-> SinglePoint(members[i])]

\* seriesUnit and History: a series of several units has no statistics.
SingleUnit(members) == \A i \in DOMAIN members : members[i].unit = members[1].unit

(***************************************************************************)
(* Shifts: differences against the trimmed window of rows before them.     *)
(***************************************************************************)

\* stableOrder with the result's timestamp: positions of p in sorted order.
stableOrder(p) ==
    SortSeq([i \in 1..Len(p) |-> i], LAMBDA i, j :
        \/ p[i].time < p[j].time
        \/ p[i].time = p[j].time /\ p[i].at < p[j].at
        \/ p[i].time = p[j].time /\ p[i].at = p[j].at /\ i < j)

\* quantileLinear times 20, of a sorted sequence; q is in twentieths.
quantileLinear(s, q) ==
    LET at == q * (Len(s) - 1)
        lo == at \div 20
    IN  IF at % 20 = 0 THEN 20 * s[lo + 1]
        ELSE 20 * s[lo + 1] + (at % 20) * (s[lo + 2] - s[lo + 1])

\* |z| > 5 of d against the sample S, f giving its values. No deviation makes z
\* infinite, or NaN when d is the mean; fewer than two values make it NaN.
Shifted(d, S, f) ==
    LET k == Cardinality(S)
        sum == SumOf(S, f)
        squares == SumOf(S, [i \in S |-> f[i] * f[i]])
        off == k * d - sum
    IN  k >= 2 /\ off * off * (k - 1) > 25 * k * (k * squares - sum * sum)

differences(p, order) ==
    [i \in 2..Len(p) |-> (p[order[i]].svs - p[order[i - 1]].svs) \div Scale]

\* The differences that are left when both tails are trimmed.
trimmed(diff) ==
    LET sorted == Sorted([i \in 1..Cardinality(DOMAIN diff) |-> diff[i + 1]])
    IN  {i \in DOMAIN diff : /\ 20 * diff[i] >= quantileLinear(sorted, 1)
                             /\ 20 * diff[i] <= quantileLinear(sorted, 19)}

shifts(diff, kept) ==
    {i \in DOMAIN diff : Shifted(diff[i], {j \in kept : i - DistributionCommits < j /\ j <= i}, diff)}

\* A shift followed by another is an outlier, and the one after it only its end.
shiftFlags(order, shift) ==
    LET reverts == {i \in shift : i + 1 \in shift}
    IN  [outlier |-> {order[i] : i \in reverts},
         step |-> {order[i] : i \in {j \in shift \ reverts : j - 1 \notin reverts}}]

\* The flags of the points of p: steps and outliers.
detectShifts(p) ==
    LET order == stableOrder(p)
        diff == differences(p, order)
    IN  shiftFlags(order, shifts(diff, trimmed(diff)))

(***************************************************************************)
(* Rolling statistics. Points come sorted by commit time: position order.  *)
(***************************************************************************)

Rank(p, I, i) == Cardinality({p[j].time : j \in {k \in I : p[k].time <= p[i].time}})

\* rollingCommitRank: the positions of I on the last DistributionCommits distinct
\* commit times up to i's, i's own included or not.
rollingCommitRank(p, I, i, closedRight) ==
    LET behind(j) == Rank(p, I, i) - Rank(p, I, j)
    IN  {j \in I : IF closedRight THEN behind(j) \in 0..(DistributionCommits - 1)
                   ELSE behind(j) \in 1..DistributionCommits}

\* Every row of a commit counts all the flags up to that commit.
segment(p, i) == Cardinality({j \in DOMAIN p : p[j].begins /\ p[j].time <= p[i].time})

meanSkipNaN(S, f) == IF S = {} THEN {} ELSE {SumOf(S, f) \div Cardinality(S)}

sampleStdSkipNaN(S, f) ==
    LET k == Cardinality(S)
        sum == SumOf(S, f)
    IN  IF k < 2 THEN {}
        ELSE {[num |-> k * SumOf(S, [i \in S |-> f[i] * f[i]]) - sum * sum, den |-> k * (k - 1)]}

Summaries(p) == [i \in DOMAIN p |-> p[i].svs]

\* Mutant: the window of the mean crosses the segment's boundary.
MeanAcrossSegments(p, outlier, i, closedRight) ==
    IF i \in outlier THEN {}
    ELSE meanSkipNaN(rollingCommitRank(p, DOMAIN p \ outlier, i, closedRight),
                     Summaries(p))

groupedCommitRollingMean(p, outlier, i, closedRight) ==
    IF i \in outlier THEN {}
    ELSE LET I == {j \in DOMAIN p \ outlier : segment(p, j) = segment(p, i)}
         IN  meanSkipNaN(rollingCommitRank(p, I, i, closedRight), Summaries(p))

\* The mean of the commits before each point's; its own value where there are none.
meansExcludingThis(p, outlier) ==
    [i \in DOMAIN p |->
        LET mean == groupedCommitRollingMean(p, outlier, i, FALSE)
        IN  IF i \notin outlier /\ mean = {} THEN {p[i].svs} ELSE mean]

residualStddev(p, outlier, residual, i, closedRight) ==
    LET good == DOMAIN p \ outlier
    IN  IF i \in outlier THEN {}
        ELSE sampleStdSkipNaN(rollingCommitRank(p, good, i, closedRight),
                              [j \in good |-> CHOOSE r \in residual[j] : TRUE])

residuals(p, excl) == [i \in DOMAIN p |-> {p[i].svs - m : m \in excl[i]}]

rollingStats(p, flags, excl, residual, includeCurrent) ==
    [i \in DOMAIN p |->
        [segment |-> segment(p, i), outlier |-> i \in flags.outlier, step |-> i \in flags.step,
         meanExcludingThis |-> excl[i],
         mean |-> IF includeCurrent THEN groupedCommitRollingMean(p, flags.outlier, i, TRUE)
                  ELSE excl[i],
         residual |-> residual[i],
         stddev |-> residualStddev(p, flags.outlier, residual, i, includeCurrent)]]

\* RollingStatsForSeries, in input order.
RollingStatsForSeries(p, includeCurrent) ==
    LET flags == detectShifts(p)
        excl == meansExcludingThis(p, flags.outlier)
    IN  rollingStats(p, flags, excl, residuals(p, excl), includeCurrent)

\* The statistics of the first point at the latest commit time.
BaselineDistribution(p) ==
    IF p = <<>> THEN [mean |-> {}, stddev |-> {}]
    ELSE RollingStatsForSeries(p, TRUE)[Min({i \in DOMAIN p : \A j \in DOMAIN p : p[j].time <= p[i].time})]

(***************************************************************************)
(* Verdicts.                                                               *)
(***************************************************************************)

NoVerdict == "none"

\* ZScore and LookbackZVerdict: the squared score against the squared threshold.
LookbackZVerdict(svs, lessIsBetter, d) ==
    IF d.mean = {} \/ d.stddev = {} \/ \E s \in d.stddev : s.num = 0 THEN NoVerdict
    ELSE LET mean == CHOOSE m \in d.mean : TRUE
             std == CHOOSE s \in d.stddev : TRUE
             off == svs - mean
             beyond == off * off * std.den > ZScoreThreshold * ZScoreThreshold * std.num
         IN  CASE ~beyond -> "stable"
               [] beyond /\ (off > 0) = lessIsBetter -> "regressed"
               [] OTHER -> "improved"

PairwiseVerdict(base, svs, lessIsBetter) ==
    IF base = 0 THEN NoVerdict
    ELSE LET change == 100 * (IF lessIsBetter THEN base - svs ELSE svs - base)
         IN  CASE -change > PercentThreshold * base -> "regressed"
               [] change > PercentThreshold * base -> "improved"
               [] OTHER -> "stable"

comparable(row) == ~row.error /\ row.unit \in known /\ ~looksLikeError(row.data)

NoStats == <<>>

\* lookbackAnalysis: the verdict, with the window and the statistics it was read from.
lookbackAnalysis(baseline, contender) ==
    LET members == SelectHistoryForFingerprintAsOf(Time(baseline))
        stats == RollingStatsForSeries(Points(members), TRUE)
    IN  IF \/ Time(baseline) = NullTime \/ members = <<>>
           \/ \E i \in DOMAIN members : members[i].unit # contender.unit
        THEN [members |-> <<>>, stats |-> NoStats, verdict |-> NoVerdict]
        ELSE [members |-> members, stats |-> stats,
              verdict |-> LookbackZVerdict(SingleValueSummary(contender),
                                           LessIsBetter(contender.unit),
                                           BaselineDistribution(Points(members)))]

NotComparable(baseline, contender) ==
    ~comparable(baseline) \/ ~comparable(contender) \/ baseline.unit # contender.unit

\* Mutant: the latest member is part of its own baseline.
StatusAgainstItself(members) ==
    IF Len(members) < 2 \/ ~SingleUnit(members) THEN NoVerdict
    ELSE LookbackZVerdict(SingleValueSummary(Last(members)), LessIsBetter(members[1].unit),
                          BaselineDistribution(Points(members)))

\* seriesStatus; NoVerdict is its status insufficient.
seriesStatus(members) ==
    IF Len(members) < 2 \/ ~SingleUnit(members) THEN NoVerdict
    ELSE LookbackZVerdict(SingleValueSummary(Last(members)), LessIsBetter(members[1].unit),
                          BaselineDistribution(Points(Front(members))))

(***************************************************************************)
(* The life of the series.                                                 *)
(***************************************************************************)

SeriesInit ==
    /\ seriesRows = <<>> /\ submitted = 0 /\ edits = 0
    /\ history = {} /\ compare = {} /\ series = {} /\ earlier = {}

\* Answers are about the rows they were given for.
Forget == history' = {} /\ compare' = {} /\ series' = {}

Submit ==
    /\ submitted < Len(Submission)
    /\ submitted' = submitted + 1
    /\ \E s \in Submission[submitted + 1] :
         /\ Accepted(s)
         /\ LET row == resolveStats(s)
            IN  seriesRows' = Append(seriesRows, [id |-> submitted + 1, commit |-> s.commit, at |-> s.at,
                                      unit |-> row.unit, data |-> row.data, error |-> row.error,
                                      aggs |-> row.aggs, begins |-> FALSE])
         /\ earlier' = {c \in IF compare = {} THEN earlier ELSE compare :
                          Time(c.baseline) # NullTime /\ Time(s) > Time(c.baseline)}
    /\ Forget
    /\ UNCHANGED edits

\* change_annotations: begins_distribution_change set or cleared.
UpdateResult ==
    /\ edits < MaxEdits
    /\ \E i \in DOMAIN seriesRows : seriesRows' = [seriesRows EXCEPT ![i].begins = ~@]
    /\ edits' = edits + 1
    /\ earlier' = {} /\ Forget
    /\ UNCHANGED submitted

RemoveResult ==
    /\ edits < MaxEdits
    /\ \E i \in DOMAIN seriesRows : seriesRows' = RemoveAt(seriesRows, i)
    /\ edits' = edits + 1
    /\ earlier' = {} /\ Forget
    /\ UNCHANGED submitted

\* The history endpoint: no statistics when the units differ.
History ==
    /\ history = {}
    /\ LET members == SelectHistoryForFingerprint
       IN  history' = {[members |-> members,
                        stats |-> IF members # <<>> /\ SingleUnit(members)
                                  THEN RollingStatsForSeries(Points(members), FALSE)
                                  ELSE NoStats]}
    /\ compare' = {} /\ series' = {}
    /\ UNCHANGED <<seriesRows, submitted, edits, earlier>>

\* The compare endpoint, for the newest result and any other.
Compare ==
    /\ seriesRows # <<>>
    /\ \E b \in DOMAIN seriesRows :
         LET baseline == seriesRows[b]
             contender == Last(seriesRows)
             lookback == lookbackAnalysis(baseline, contender)
         IN  compare' = IF NotComparable(baseline, contender) THEN {}
                        ELSE {[baseline |-> baseline, contender |-> contender,
                               pairwise |-> PairwiseVerdict(SingleValueSummary(baseline),
                                                            SingleValueSummary(contender),
                                                            LessIsBetter(contender.unit)),
                               lookback |-> lookback]}
    /\ history' = {}
    /\ UNCHANGED <<seriesRows, submitted, edits, series, earlier>>

\* The series list's answer about this series.
SeriesList ==
    /\ series = {}
    /\ series' = {[members |-> SeriesMembers, status |-> seriesStatus(SeriesMembers)]}
    /\ history' = {}
    /\ UNCHANGED <<seriesRows, submitted, edits, compare, earlier>>

SeriesNext == Submit \/ UpdateResult \/ RemoveResult \/ History \/ Compare \/ SeriesList

SeriesSpec == SeriesInit /\ [][SeriesNext]_seriesVars

(***************************************************************************)
(* Properties.                                                             *)
(***************************************************************************)

\* Rows that share a commit time are in one segment and, outliers apart, have the
\* same baseline statistics wherever the boundary flags are among them: which of
\* them BaselineDistribution reads does not matter (its comment's argument).
TiedRowsAgree ==
    \A c \in compare : \A i, j \in DOMAIN c.lookback.stats :
      LET m == c.lookback.members
          s == c.lookback.stats
      IN  Time(m[i]) = Time(m[j]) =>
            /\ s[i].segment = s[j].segment
            /\ ~s[i].outlier /\ ~s[j].outlier =>
                 s[i].mean = s[j].mean /\ s[i].stddev = s[j].stddev

\* The mean of a row that is no outlier is that of its segment's good rows on the
\* last DistributionCommits distinct commit times: no row beyond a boundary, no row
\* that is too old and none of a later commit is in it, and none is left out.
MeanIsOfTheSegmentsWindow ==
    \A c \in compare : \A i \in DOMAIN c.lookback.stats :
      LET m == c.lookback.members
          s == c.lookback.stats
          good == {j \in DOMAIN s : ~s[j].outlier /\ Time(m[j]) <= Time(m[i])}
          boundary(j) == \E k \in DOMAIN m : /\ m[k].begins /\ Time(m[j]) < Time(m[k])
                                             /\ Time(m[k]) <= Time(m[i])
          segments == {j \in good : ~boundary(j)}
          since(j) == {Time(m[k]) : k \in {x \in segments : Time(m[x]) > Time(m[j])}}
          inside == {j \in segments : Cardinality(since(j)) < DistributionCommits}
      IN  ~s[i].outlier =>
            s[i].mean = {SumOf(inside, [j \in DOMAIN m |-> SingleValueSummary(m[j])]) \div Cardinality(inside)}

\* The nulls of the history endpoint are the documented ones: an outlier has no
\* statistics, every other row has its means and its residual, and only a residual
\* window of fewer than two points leaves it without a deviation.
NullsAsDocumented ==
    \A h \in history : \A i \in DOMAIN h.stats :
      LET s == h.stats[i]
          before == {j \in DOMAIN h.stats : /\ ~h.stats[j].outlier
                                            /\ Time(h.members[j]) < Time(h.members[i])}
      IN  IF s.outlier
          THEN s.mean = {} /\ s.residual = {} /\ s.meanExcludingThis = {} /\ s.stddev = {}
          ELSE /\ s.mean # {} /\ s.residual # {} /\ s.meanExcludingThis # {}
               /\ s.stddev = {} <=> Cardinality(before) < 2

\* The status of the series list is what compare says of the latest member and the
\* one before it, as the comment on seriesStatus claims, as long as the tail is the
\* whole series and the latest member has a commit time of its own.
StatusIsTheComparison ==
    \A s \in series, c \in compare :
      LET n == Len(s.members)
      IN  /\ n >= 2 /\ n < MembersTailLimit /\ SingleUnit(s.members)
          /\ Time(s.members[n - 1]) < Time(s.members[n])
          /\ c.baseline = s.members[n - 1] /\ c.contender = s.members[n]
          => s.status = c.lookback.verdict

\* A comparison is not changed by results on commits later than its baseline's.
LaterCommitsChangeNoVerdict ==
    \A c \in compare, e \in earlier :
      c.baseline = e.baseline /\ SingleValueSummary(c.contender) = SingleValueSummary(e.contender)
        /\ c.contender.unit = e.contender.unit
        => c.pairwise = e.pairwise /\ c.lookback.verdict = e.lookback.verdict

\* A verdict is the same from either endpoint that gives it, and stays so while
\* results come that it is not about.
VerdictsAgree == StatusIsTheComparison /\ LaterCommitsChangeNoVerdict

\* The baseline statistics are what their documentation defines, row by row, whatever
\* ties, outliers and boundaries the history holds.
StatisticsAreAsDefined == TiedRowsAgree /\ MeanIsOfTheSegmentsWindow /\ NullsAsDocumented

\* The summary read from the data of a good result agrees with the aggregates stored
\* when it was submitted.
SummaryMatchesTheAggregates ==
    \A r \in ToSet(seriesRows) : ~r.error =>
      \A s \in r.aggs.spread :
        /\ SingleValueSummary(r) = Scale * (IF LessIsBetter(r.unit) THEN s.min ELSE s.max)
        /\ 4 * s.min <= s.q1 /\ s.q1 <= s.median /\ s.median <= s.q3 /\ s.q3 <= 4 * s.max
        /\ r.aggs.n * s.min <= r.aggs.sum /\ r.aggs.sum <= r.aggs.n * s.max

=============================================================================
