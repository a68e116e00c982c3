# Conbench: TLA+ specifications

Conbench stores benchmark results sent to an HTTP API, groups them into series,
compares runs, evaluates alert rules against CI reports and delivers the alerts
to webhooks, Slack, e-mail or GitHub. The servers, the `conbench admin` jobs and
the command-line tools share nothing but a PostgreSQL database; several of each
may run at once, and most operations are a sequence of separate statements
outside a transaction. These modules specify the parts where that matters,
model-check them on small instances, and prove their safety for every size.

## The system

| component | state | operations | hard part |
|---|---|---|---|
| alert delivery outbox (`service/alert_delivery.go`, `db/store.go`, `db/query/alert.sql`, `cmd/conbench/admin.go`) | `alert_event`, `alert_delivery` (status, attempts, `next_attempt_at`) | enqueue, claim, send, mark delivered or failed; rule deletion cascades | overlapping jobs, lease expiry, a crash between claim and mark, lost answers |
| alert rules and evaluator (`service/alerts.go`, `api/alerts.go`) | `alert_rule` (config, state, enabled), `alert_event` | create, update, delete; list, report, transition, touch | evaluation on a snapshot while the rule is edited; two evaluators |
| result submission (`service/ingest.go`, `db/store.go`) | case, context, info, hardware, commit, `benchmark_result` with `submission_key` | Submit, replay, DELETE | first submissions racing, retries of a key, requests cut short |
| submit command (`cmd/conbench/results.go`) | channels, lines of the report | decode, post, collect, report | outcomes out of order, rings of waits, lost answers |
| result update (`service/update.go`) | `change_annotations` | PUT merges, DELETE removes | read-merge-write without a lock |
| commit provider and backfill (`commit/github.go`, `commit/backfill.go`) | per-repository queue, workers, wait group | Resolve, Enqueue, runLoop, runOne, Shutdown | enqueue against an idling worker and against Shutdown; windows out of order |
| commit repair (`commitrepair/`, `admin repair-commits`) | unknown commit rows, cursor, summary | page, enrich, update, enqueue | other repairs and submissions between read and write; pages over a changing table |
| GitHub client (`commit/github_client.go`, `githubapi/app_token_source.go`) | token index, cached App token | getJSON, rotate, mint, invalidate | shared credentials under concurrent requests, late answers |
| CI report (`service/ci_report.go`) | none between requests | select runs, baselines, rows; compare; derive | a dozen statements while results come and go |
| ci command (`cmd/conbench/ci.go`) | check runs and comments on GitHub | request, write, publish, exit | calls that fail after acting |
| statistics (`stats/`, `service/compare.go`, `read.go`, `series.go`) | none | aggregates, rolling mean and deviation, verdicts | ties, segments, outliers, empty windows |
| reads (`service/list.go`, `series.go`, `runs.go`) | cursors held by clients | pages, members, recent runs | rows written between pages and between statements; bounded windows |
| authentication (`api/auth.go`, `tokens.go`, `codestore.go`, `auth/`, `oidcauth/`) | users, login codes, API tokens, cookies | OIDC login, issue, redeem, create, revoke, stamp | single use across replicas; background writes |
| command-line login (`cmd/conbench/auth.go`, `credentials.go`) | loopback port, credentials file | listen, receive, exchange, save | stale tabs, resent requests, read-modify-write of a file |
| migrations (`db/migrate.go`) | schema, ledger, dirty flag, indexes, advisory lock | Migrate | crash between statements, two migrators, a live old server |
| production clone tooling, dashboard, SDK, seed data | files, browser | | I/O |

Submit calls the commit provider, which calls the GitHub client and enqueues
backfill windows; the backfill workers use the client and store commits beside
the submits and the repairs. Evaluators read results through the CI report,
which compares them by the statistics, and write events; delivery jobs turn
events into requests. All of them meet in the tables.

`PROJECT.json` lists every component with its status, the definitions with the
source lines they stand for, the runs, the hazards with the properties aimed at
them, and the theorems.

## The modules

`AlertDelivery` has one record of state per (event, channel, target) row and one
per delivery job. Time is relative: `due` is what is left until
`next_attempt_at`, `lease` what is left of the lease a job took, `left` what is
left of a request's timeout, and `Tick` takes one from each. A job's actions are
the statements of `Deliver`: `Begin` (clock and select), `Enqueue` (one insert),
`Claim`, `SendRequest` and how it ends, `MarkDelivered`, `MarkFailed`, and
`Abort` for a crash or a store error. `Outbox` is what it promises: an item is
pending until it is delivered or withdrawn, it is delivered only after the
target acted on it, and delivered is final.

`AlertRules` keeps a rule's evaluation columns as one configuration and, for
each configuration, what the CI report would say now. An evaluator lists the
enabled rules (`ListEnabled`), asks for a report per rule (`Report`) and writes
conditionally on the row still matching its snapshot (`Open`, `Resolve`,
`Touch`). A PUT is two steps, `ReadForUpdate` and `UpdateAlertRule`, because the
handler decides on the row it read whether to reset the evaluation.

`Submissions` runs every statement of `Submit` as a step: lookup by key,
validation, select / insert / re-select for each of the five entities, the
commit provider in between, insert of the result, and reconciliation when the
key's index rejects it. Payloads are model values with a natural key per entity,
a hardware hash and a repository; equal payloads have equal canonical hashes.
`info` and, for clusters, hardware have no unique index, so duplicates may appear
there; the fingerprint does not depend on their ids. `IdempotentStore` is what
keyed submission promises. `SubmitStream` puts the submit command in front of
it: a decoder, `--jobs` workers on an unbuffered channel, a buffered channel of
outcomes and a collector. A file is the results it holds and whether decoding
ends in an error after them; the command may be run again on the same files.

`Annotations` is the read and the write of a PUT to `change_annotations`, and
DELETE.

`Backfiller` has the map of queues, the goroutines, the wait group and
Shutdown. A branch is the commits `1..Tip` in timestamp order, so that the
windows are intervals and gaps are visible. A submit's `Resolve` enqueues before
its row is stored by `EndSubmit`; `Benchmarked` are the commits submits are
about, `Forked` those off the default branch. runOne's trim of both ends of
GitHub's list loses the oldest commit of an untracked branch; a test of the
repository pins that behaviour, and the property is stated around it.

`CommitRepair` extends it with `admin repair-commits`: the backfiller lives in
the server or in the repairing process, which stores a row before it enqueues
its window (the other order than Resolve). A row of the scan is its position in
(repository, sha) order, which is what a cursor encodes; a page is the first
`Limit` of the positions found. `walk` remembers which rows a walk over all pages
owes, `filled` how often a row's metadata was written.

`GitHubClient` is getJSON's loop over either kind of credential; which one, and
how many tokens, is settled by `NewGitHubClient` in the initial state. GitHub refuses
a credential while it is in `bad`; any other answer may come at any time.

`CIReport` answers a request statement by statement over a set of results that
changes: `SelectRuns`, `CountRows`, `SelectContenders`, a baseline for every run
(`SelectExplicitBaselines`, or `ResolveBaseline` and the depth-by-depth
`FindRuns`, `FindRows`), `SelectRows`, one `CompareRow` per row and `Derive`. A
row's lookback verdict depends on its series' whole history, which `Statistics`
is about, and is any verdict here. `CICommand` composes it with
`conbench ci report` and with a GitHub that may fail before or after acting.

`Statistics` is one series' life: results come, are annotated and deleted, and
the history, compare and series endpoints answer from what there is. Summaries
are integers scaled so that every mean is exact, a deviation is the fraction of
its square, and a value that may be nil or NaN is a set of one element or none.

`Reads` has a client's walk over a list, with the page and the members of a
series read by two statements, the choice between the four series queries, their
bounded windows of recent commits, and the recent runs.

`Annotations`, `Reads` and `Statistics` name their variables and actions after
themselves, so that one module of proofs can extend several components.

`Auth` is the server's side of logins and tokens with one browser that has as
many tabs as it likes; secrets are the numbers they were made as. `CLILogin`
composes it with login processes that reuse a loopback port, a proxy that may
resend an exchange to another replica, and the credentials file.

`Migrations` is `Migrate` from the advisory lock to the verification. The ledger
and the statements of golang-migrate are external and modelled from how they are
used; an index is missing, correct, loose or invalid.

The `MC` modules hold model values and constant functions only.

## What is checked

| run | question | bounds |
|---|---|---|
| `delivery` | exclusive leases, honest and final `delivered`, refinement of `Outbox`, and in the end delivery | 1 event, 2 jobs on one target, lease 2, timeout 1, 2 failures, 1 abort |
| `delivery_overlap` (violation) | "overlapping runs never send the same delivery twice" | no failures, no aborts |
| `rules` | event history and state agree, events match the report's configuration, rules converge once edits and results stop | 1 rule, 2 configurations, 2 evaluators, 1 editor with 2 edits, 1 new result, 1 fault |
| `submissions` | no forked series, refinement of `IdempotentStore`, lines show their own results, a true exit code, no ring of waits | 2 workers, files of up to 3 results in 6 layouts, 2 runs of the command, 1 fault |
| `annotations` | PUTs that do not overlap merge exactly; a deleted result stays deleted | 2 clients, 2 keys, 2 values, 3 PUTs |
| `backfill` | one worker per repository in order and without gaps, a clean and honest Shutdown, repairs that overwrite and miss nothing; every window taken up, Shutdown returns | 2 repositories (one not on GitHub), 5 commits of which 3 are submitted and 1 is off the branch, 3 windows, 2 pages of 2 rows, 1 fault, 1 write by others |
| `github` | a request alone tries the whole pool, a 401 is final after two tokens, late 401s evict nothing; requests end | pools of up to 3 tokens or an App with 3 mints, 2 requests |
| `ci_report` | a report is the whole of its runs, baselines are real, the exit code can be believed; the command ends | 4 runs with 5 results on 3 commits, 6 queries, 2 submissions or deletions meanwhile, limits of 3 rows and 2 ancestors |
| `statistics` | rolling statistics as defined, the series status is the comparison's, later commits change no verdict, the value compared agrees with the stored aggregates | 5 submissions on 6 commits with ties and a branch, 1 annotation or deletion, windows of 4 commits |
| `reads` | nothing listed twice, nothing promised missed, page and members agree | 7 results in 3 series on 5 commits with a tie and a branch, 8 queries, pages of 1, windows of 2 commits, 3 writes |
| `auth` | codes are single use until they expire, a token is its own login's, a deleted token stays refused, a reported login is saved | 2 logins on 1 port, 1 account, 2 codes, 2 tokens, 2 times, 2 sends of an exchange |
| `migrations` | success is true and lasting and foreign databases are untouched, keys stay unique, the handoff completes | 8 kinds of database, 2 migrators, 3 runs and 2 crashes |

The bounds are the smallest at which the races happen: two actors, enough time
for a lease to pass while a request is under way, one fault more than none, and
a further submission, window or page so that something follows the race. The
code's own limits (rows of a report, ancestors, page and window sizes, tail) are
constants set so low that they are reached. More actors of the same kind add no
new pair of statements to interleave; where a theorem is proved it covers every
number. What the delivery run does not reach is
liveness with a backlog longer than `--limit`: two events with two jobs are too
many states for it.

Several properties are conjunctions of named parts (`HistoryIsSound`,
`QueueIsServed`, `ShutdownIsClean`, `FailuresAreEarned`, `RepairIsTrue`,
`CodesAreSingleUse`, `OutcomeIsTrue`, `StatisticsAreAsDefined`, `VerdictsAgree`,
`NothingMissed`); the parts stand beside them with a comment each. The `TypeOK`
of a module documents its state and is part of the invariant where one is proved.

Fairness. Delivery and evaluation jobs are run again and again by a scheduler
(the documentation asks for a cron job), so each job's steps are weakly fair;
failures and aborts are bounded by the constants, which stands for targets that
recover. Backfill goroutines and the submit command's goroutines are scheduled
and each of their calls has a timeout or an answer; Shutdown's select takes a
ready branch. A GitHub request's context always has a deadline. The statements
of a report and the steps of a running command are weakly fair. A migrator that
has started goes on unless it dies, and is started again up to `MaxRuns` times,
as a restarted server is. Nobody is ever obliged to submit, edit or delete.

Deadlock is checked where the system never rests by itself. It is not in
`submissions`, `ci_report`, `statistics`, `reads`, `auth` and `migrations`, where
everything rests once the bounded requests, changes or runs are used up.

## What the checks show

All properties of the passing runs hold. `delivery_overlap` shows that a lease
covers the time from the claim, but `--timeout` bounds only the request: a job
that stalls between the two sends after its lease has passed, and a second job
sends as well. Delivery is at least once, which is what `Outbox` states.

The properties are stated around behaviours of the code that a reader should
know of. Where the wider statement is in a module, TLC refutes it on a suitable
instance:

* PUT on an alert rule decides on a row read earlier whether to reset the
  evaluation; two overlapping PUTs can leave a rule open under thresholds it was
  not opened for (`AlertRules!OpenedUnderThisConfig`, two editors).
* `change_annotations` loses an update when two PUTs overlap
  (`Annotations!UpdatesMerge`).
* The rotating token index is shared and the rotation count is not: under
  overlap a request can report the pool exhausted without having tried a token
  that has quota (`GitHubClient!QuotaFailureTriedThePool`).
* A result on both sides of a CI report (the baseline run of one run is a
  contender itself) has two rows in it (`CIReport!OneRowPerResult`).
* The series lookup by fingerprint applies its cursor to the members, so it
  answers with the same series again from an older member
  (`Reads!OneRowPerFingerprint`).
* A repaired row bounds later backfill windows from below even when no window of
  its own was enqueued, as does a commit off the default branch that was stored
  as one of it; `QueueIsServed` leaves such repositories out (`hurt`).
* A crash between the creation of the ledger and the first migration on an empty
  database leaves a ledger without a schema, which every later run refuses; a
  dirty version outside a handoff and an interrupted guard index need the
  operator as well. `HandoffCompletes` is about the handoff for that reason.
* When the only file given to the submit command turns out bad after some of its
  results were posted, the command fails with the decoding error and reports no
  line for those that were stored (`Report` in `SubmitStream`).
* Two logins that save at the same time may lose one token from the credentials
  file (`LoggedInMeansSaved` leaves overlapping saves out).

## What is proved

Each `*Proofs` module extends a component and proves its safety properties for
every value of the constants under the component's ASSUMEs: a TLA+ proof that
TLAPS checks, from an inductive invariant. The bounds (`MaxCalls`, `MaxFaults`, ...) are any numbers. The last
step of each theorem is temporal; everything below it is about one step.

`AlertDeliveryProofs`, for every set of events, channels and jobs and every
`--limit`, `--retry-after` and `--timeout` the command accepts:

* `TypeCorrect`: `TypeOK` is invariant.
* `LeaseExclusiveAlways`: no two jobs have a running lease on one delivery. By
  itself this is not inductive: a second claim is harmless only because the row
  shows the first one's lease. `LeaseInv` adds that a job holds a delivery in
  the places between claim and mark (`HoldsWhileWorking`), that what it holds
  was enqueued and rows belong to events (`HeldWasEnqueued`, `RowsHaveEvents`),
  that its lease is never longer than what the row's `due` shows unless the row
  was delivered (`LeaseCovered`), and that a job about to mark a row delivered
  had its request accepted (`MarkedWasAccepted`).
* `DeliveredWasAcceptedAlways` and `DeliveredStaysFinal` follow from the same
  invariant.
* `DeliverImplementsOutbox`: initial states map to initial states and each
  action maps to a step of `Outbox` or leaves its variables unchanged.

`AlertRulesProofs`, for any rules, configurations, evaluators and edits:
`TypeCorrect`, `HistoryIsSoundAlways` and `EventMatchesReportAlways`. `RulesInv`
adds that events belong to evaluation epochs that have begun, so that a reset
leaves no event of the new epoch behind (`EventsAreNotAhead`), and that only a
rule that is there has events (`EventsHaveTheirRule`).

`GitHubClientProofs`, for any number of requests, pool size and App tokens:
`TypeCorrect`, `FailuresAreEarnedAlways` and the action property
`UsableTokenIsKeptAlways`. For the pool, the tokens that a request's own
rotations left behind were tried by it as long as nobody else rotated
(`LeftTokensWereTried`, which counts backwards from the shared index and wraps);
for the token source, a rejected token is neither cached nor sent again
(`RejectedTokenIsGone`), so a second rejection is of another one.

`SubmitStreamProofs`, for any requests, workers, files, keys and payloads:
`SeriesNeverForksAlways`, `LinesAreTheirItemsAlways`, `ExitCodeIsTrueAlways`, and
`SubmitImplementsStore`, the refinement of `IdempotentStore` action by action.
`ServerInv` says that rows of tables with a unique index are unique, that a
request past an entity knows its row, and that a result's rows are there for
good; `StreamInv` says who has each line in hand: one worker, the buffer
(`OwnLines`), or nobody any more, and then its outcome is recorded (`LineOK`).
The module also proves `UpdatesAndDeletesAlwaysHold` for `Annotations`, for any
keys, values and requests: a PUT between its read and its write holds the map it
read unless the stored one has changed since (`UpdaterOK`), and a deleted row is
never written.

`CLILoginProofs`, for any logins, ports, accounts, codes and tokens, and any
number of times an exchange is sent: `CodesAreSingleUseAlways`,
`TokenIsFromItsOwnLoginAlways`, `DeletedTokenIsRefusedAlways` and
`LoggedInMeansSavedAlways`. `LoginInv` needs that a redirect carries the code of
the login whose state it carries, that one exchange of a code wins and only a
winner marks it used (`OneWinner`), that a background write of `last_used_at`
cannot bring a revoked token back (`DeletedIsRevoked`), and what the processes
that are saving hold of the credentials file (`FilesOK`).

`MigrationsProofs`, for any number of migrators, crashes and runs and any
coherent database to begin with, not only the eight kinds of the run:
`OutcomeIsTrueAlways` and `NoGapInUniquenessAlways`. `MigrationsInv` says what
each migrator has found out that still holds because it has the lock
(`FindingsHold`), how far it gets with a database that is not supported, and that
one of the two indexes stands at every step of the replacement
(`KeepsOneIndex`, `OneIndexStands`).

`BackfillerProofs`, for any repositories, branches, submitted commits, commits
off the branch, scan order and page size, in the server or in a repair process:

* `QueueIsServedAlways`: one worker per repository, jobs in the order of their
  acceptance, and an idle repository without gaps. The last part is the hard
  one, because windows are trimmed, run out of order and race with the submits'
  own inserts. The invariant (`DebtsOK`) is that below every commit that is
  stored, about to be stored or the end of an accepted window, each commit is
  covered or somebody still owes it: a pending job or a running window that ends
  between the two, or a worker that has it in its list. A window's lower bound is
  a stored commit, so what lies below is owed by somebody else.
* `ShutdownIsCleanAlways`: the wait group counts the goroutines that are there
  (`WgOK`), so that Shutdown returns when there are none.
* `RepairIsTrueAlways`: a row that was filled in is known, hence never unknown
  again (`FilledOK`), and the summary relates its counters, the rows of this
  process and the jobs of its backfiller position by position (`SummaryOK`).
* `WholeWalkRepairsAllAlways`: a row that the walk owes is known, not supported,
  in the rest of the page, or after its cursor (`WalkOK`); a page that is cut
  off leaves its remainder after its last row (`PageIs`).
* `RepairInvariant` is the conjunction of all this.

`ReadSideProofs`, for what is read and computed from stored results.

The CI report and its command, for any results, commit graph, queries and limits:

* `ReportCoversItsRunsAlways`: every result that no submission or deletion
  touched since the request began, and that its query asks for, is in a selected
  run, then in a row still to be read, then in a comparison. `ReportInv` says
  which of the three it is at each statement (`RunsInv`, `SelectionsInv`,
  `ComparedInv`).
* `AutomaticBaselineIsAnAncestorsRunAlways`: the runs found at a depth of the
  search are of commits on the first-parent chain (`SearchInv`), and the chain is
  one repository's, because a result's commit is stored under its own repository.
* `ExitCodeIsTheReportAlways`: `CommandInv` says how far the command is: what it
  wrote is the report's status, and a check run or comment with that status is on
  GitHub before the command goes past it.
* `CommandImplementsReport`: a step of the composition is a step of the report or
  leaves its variables alone; `ReportInvariant` then carries over to it.

The reads, for any rows, commits, queries, page sizes and windows:

* `NothingListedTwiceAlways` and `NothingMissedAlways`: what a walk has listed is
  on the near side of its cursor (`SeenInv`), and what it owes is listed, on the
  page or beyond the cursor (`MissedInv`). A row that is on neither side lies
  below a page that is full, because the newest n of a set are n unless the set
  has fewer (`TopIsFull`), and a full page has a successor.
* `PageAndMembersAgreeAlways`: between the two statements of a page its series
  are the ones the rows give, unless a write came in between (`AgreeInv`).

The statistics of a series, for any commits, requests and any window of at least
two commits (the code's is 100):

* `StatisticsAreAlwaysAsDefined`: rows of one commit time agree, a good row's mean
  is over exactly the rows of its segment on the last commit times, and a mean or
  deviation is missing only in the documented cases. The operators are taken one
  by one: segments (`SegmentsAre`), the window as the rows whose rank is at most
  so far behind (`RanksBehind`), the mean over it (`MeanIs`), and when it holds
  two values (`WindowOfTwo`).
* `VerdictsAlwaysAgree` (`StatusIsTheComparison` and
  `LaterCommitsChangeNoVerdict`): the verdict of a comparison is computed from the
  rows up to its baseline's commit time, and when the last row has a commit time
  of its own these are the other rows in the same order (`FrontInOrder`), so that
  the series list computes what the compare endpoint does. `SeriesInv` says that
  the rows are in the order of their ids and each answer is what the rows say now,
  as is the last comparison that only later commits followed.

The assumptions that the proofs use and the code gives: a rule has some
configuration; files hold submissions and request ids are positive numbers;
codes and tokens are numbers, which "none" and the operator are not; the ledger's
row is in the ledger and columns are in a table (`Coherent`); `ScanOrder` is a
sequence of benchmarked commits, and the windows of one page fit into the job
ids (`Limit <= MaxCalls`; the ids are the model's, the code has none); tables are
finite, ids, times and limits are natural numbers, and page sizes are positive; a
result's commit is one of its own repository, and a series belongs to one
repository, which its fingerprint is made of.

Only model-checked: all liveness (it needs fairness and ENABLED, outside the
prover), and `SummaryMatchesTheAggregates`: the median is taken from a sorted
sequence and the mean from a fold, and what these compute for every input needs
induction over data. The theorems about the report and the statistics take from
recursive functions only what their defining equations give at one argument.

## Not modelled

* The production clone tooling, the seed data, the generated SDK, the dashboard,
  metrics and static files: I/O, generated code or no state of their own.
* Message texts, HTTP and SMTP framing, JSON shapes, flag parsing and output,
  the encoding of cursors, cryptography.
* Floating-point arithmetic: `Statistics` is exact over small integers, so it
  says nothing about rounding at a threshold.
* The process that evaluates and the one that delivers are separate modules;
  events enter `AlertDelivery` as `AlertRules` produces them. Likewise the
  verdicts of a report are an input of `AlertRules`.
* Commit timestamps on a branch are distinct in `Backfiller`; ties are in
  `Statistics` and `Reads`, where they matter to the result.
* `last_evaluated_at` and other times nothing is decided by.

## What is left

1. A composition of `AlertRules` and `AlertDelivery` over one `alert_event`
   table, so that an alert is followed from a result to its target.
2. Larger instances: a backlog for the delivery jobs, two rules for the
   evaluator, three requests of one key.
