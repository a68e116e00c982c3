----------------------------- MODULE Backfiller -----------------------------
(***************************************************************************)
(* The ancestry backfiller (internal/commit/backfill.go): one worker per   *)
(* repository drains a FIFO queue of windows while submits keep enqueueing *)
(* and storing commits (internal/commit/github.go, Resolve), and Shutdown  *)
(* drains or aborts it (internal/serverapp/app.go).                        *)
(*                                                                         *)
(* A repository's commits are 1..Tip in timestamp order, those in Forked   *)
(* off its default branch; 0 stands for the epoch.                         *)
(***************************************************************************)
EXTENDS Naturals, Sequences, FiniteSets, FiniteSetsExt

CONSTANTS
    Repos,
    Tip,         \* the newest commit
    Benchmarked, \* [Repos -> commits that are ever submitted]
    Unsupported, \* repositories that are not on GitHub
    Forked,      \* those off the default branch; they are submitted with neither
                 \* a branch nor a pull request, as every repair does
    MaxCalls,    \* bound: Enqueue calls
    MaxFaults    \* bound: failing calls while the context is alive

ASSUME BackfillerAssumption ==
    /\ Tip \in Nat \ {0} /\ Benchmarked \in [Repos -> SUBSET (2..Tip)]
    /\ Unsupported \subseteq Repos /\ Forked \subseteq 2..Tip
    /\ MaxCalls \in Nat /\ MaxFaults \in Nat

VARIABLES
    state,     \* repositories with an entry -> pending job ids; an entry's
               \* running flag is set as it is made and never cleared
    jobs,      \* accepted jobs [repo, until]; a job's id is its index
    worker,    \* goroutines, named by the job that started them
    closed, wg, cancelled,
    shutdown,  \* where the Shutdown call is
    timedOut,  \* what it returns
    tracked,   \* [Repos -> commits whose row names the default branch]
    unknown,   \* [Repos -> commits whose row has no metadata]
    asked,     \* [Repos -> commits resolved, row not stored yet]
    ran,       \* history: [Repos -> ids taken up by a worker, in order]
    hurt,      \* history: repositories a fault, an abort or a drop touched
    aborted,   \* history: a call failed because the context was cancelled
    calls, faults

vars == <<state, jobs, worker, closed, wg, cancelled, shutdown, timedOut,
          tracked, unknown, asked, ran, hurt, aborted, calls, faults>>
lifecycle == <<closed, cancelled, shutdown, timedOut>>
history == <<hurt, aborted, faults>>

Commits == 1..Tip
JobIds == 1..MaxCalls
Job == [repo : Repos, until : Commits]
Place == {"none", "since", "fetch", "insert", "next", "exit", "done"}
Worker == [pc : Place, job : 0..MaxCalls, since : 0..Tip, todo : SUBSET Commits]
NoWorker == [pc |-> "none", job |-> 0, since |-> 0, todo |-> {}]

RepoOf(w) == jobs[worker[w].job].repo
UntilOf(w) == jobs[worker[w].job].until

\* In runLoop with its repository's entry still in the map.
Working(w) == worker[w].pc \in {"since", "fetch", "insert", "next"}
Live(w) == worker[w].pc \notin {"none", "done"}

TypeOK ==
    /\ DOMAIN state \subseteq Repos
    /\ \A r \in DOMAIN state : state[r] \in Seq(1..Len(jobs))
    /\ jobs \in Seq(Job) /\ Len(jobs) <= MaxCalls
    /\ worker \in [JobIds -> Worker]
    /\ closed \in BOOLEAN /\ cancelled \in BOOLEAN /\ timedOut \in BOOLEAN
    /\ shutdown \in {"open", "draining", "aborting", "returned"}
    /\ wg \in 0..MaxCalls
    /\ tracked \in [Repos -> SUBSET Commits] /\ unknown \in [Repos -> SUBSET Commits]
    /\ asked \in [Repos -> SUBSET Commits]
    /\ ran \in [Repos -> Seq(1..Len(jobs))]
    /\ hurt \subseteq Repos /\ aborted \in BOOLEAN
    /\ calls \in 0..MaxCalls /\ faults \in 0..MaxFaults

Init ==
    /\ state = <<>> /\ jobs = <<>>
    /\ worker = [w \in JobIds |-> NoWorker]
    /\ closed = FALSE /\ wg = 0 /\ cancelled = FALSE
    /\ shutdown = "open" /\ timedOut = FALSE
    /\ tracked = [r \in Repos |-> {}] /\ unknown = [r \in Repos |-> {}]
    /\ asked = [r \in Repos |-> {}]
    /\ ran = [r \in Repos |-> <<>>]
    /\ hurt = {} /\ aborted = FALSE /\ calls = 0 /\ faults = 0

-----------------------------------------------------------------------------
(* Enqueue *)

Accepts == ~closed

\* Where a job goes when its repository already has one in flight.
Queued(pending, j) == Append(pending, j)

Running(r) == r \in DOMAIN state

Taking(j) == [pc |-> "since", job |-> j, since |-> 0, todo |-> {}]

Queue(r, j) ==
    /\ Running(r)
    /\ state' = [state EXCEPT ![r] = Queued(@, j)]
    /\ UNCHANGED <<worker, wg, ran>>

StartWorker(r, j) ==
    /\ ~Running(r)
    /\ state' = [x \in DOMAIN state \cup {r} |-> IF x = r THEN <<>> ELSE state[x]]
    /\ worker' = [worker EXCEPT ![j] = Taking(j)]
    /\ wg' = wg + 1
    /\ ran' = [ran EXCEPT ![r] = Append(@, j)]

Enqueue(r, until) ==
    IF Accepts
    THEN LET j == Len(jobs) + 1 IN
         /\ jobs' = Append(jobs, [repo |-> r, until |-> until])
         /\ Queue(r, j) \/ StartWorker(r, j)
         /\ UNCHANGED hurt
    ELSE /\ hurt' = hurt \cup {r}
         /\ UNCHANGED <<jobs, state, worker, wg, ran>>

\* Enrich: a commit of the default branch comes with a window to backfill.
HasJob(c) == c \notin Forked

\* A submit that found no row for commit c resolves it and enqueues the window
\* that ends in it; its own insert of the row is a later statement. By now
\* another submit or a worker may have stored the row, so there is no guard.
Resolve(r, c) ==
    /\ calls < MaxCalls /\ r \notin Unsupported
    /\ calls' = calls + 1
    /\ asked' = [asked EXCEPT ![r] = @ \cup {c}]
    /\ IF HasJob(c) THEN Enqueue(r, c) ELSE UNCHANGED <<jobs, state, worker, wg, ran, hurt>>
    /\ UNCHANGED <<lifecycle, tracked, unknown, aborted, faults>>

\* The commits a row is inserted for: ON CONFLICT DO NOTHING keeps a row without metadata.
Stored(r, c) == [tracked EXCEPT ![r] = @ \cup ({c} \ unknown[r])]

\* A fork's row that names the default branch misleads the next window's bound.
HurtBy(r, c) == IF c \in Forked \ unknown[r] THEN hurt \cup {r} ELSE hurt

\* The submit stores the row, or is cut short before it does.
EndSubmit(r, c) ==
    /\ c \in asked[r]
    /\ asked' = [asked EXCEPT ![r] = @ \ {c}]
    /\ \/ tracked' = Stored(r, c) /\ hurt' = HurtBy(r, c)
       \/ UNCHANGED <<tracked, hurt>>
    /\ UNCHANGED <<state, jobs, worker, wg, lifecycle, unknown, ran, aborted, faults, calls>>

\* GitHub is not asked or does not answer the submit in its budget: the row has no metadata, and no
\* window is enqueued.
Degrade(r, c) ==
    /\ calls < MaxCalls /\ calls' = calls + 1
    /\ unknown' = [unknown EXCEPT ![r] = @ \cup ({c} \ tracked[r])]
    /\ UNCHANGED <<state, jobs, worker, wg, lifecycle, tracked, asked, ran, history>>

-----------------------------------------------------------------------------
(* runOne *)

\* Mutant: the submitted commit itself bounds the window.
SinceInclusive(r, until) ==
    LET earlier == {c \in tracked[r] : c <= until} IN
    IF earlier = {} THEN 0 ELSE Max(earlier)

\* The newest tracked commit before until, or the epoch.
Since(r, until) ==
    LET earlier == {c \in tracked[r] : c < until} IN
    IF earlier = {} THEN 0 ELSE Max(earlier)

SinceBound(w) ==
    /\ worker[w].pc = "since"
    /\ worker' = [worker EXCEPT ![w].pc = "fetch",
                                ![w].since = Since(RepoOf(w), UntilOf(w))]
    /\ UNCHANGED <<state, jobs, wg, lifecycle, tracked, unknown, asked, ran, history, calls>>

\* GitHub's list is inclusive on both ends; the first and the last go.
Window(since, until) ==
    LET commits == {c \in Commits \ Forked : since <= c /\ c <= until} IN
    IF Cardinality(commits) <= 2 THEN {} ELSE commits \ {Max(commits), Min(commits)}

FetchWindow(w) ==
    /\ worker[w].pc = "fetch"
    /\ LET todo == Window(worker[w].since, UntilOf(w)) IN
       worker' = [worker EXCEPT ![w].todo = todo, ![w].since = 0,
                                ![w].pc = IF todo = {} THEN "next" ELSE "insert"]
    /\ UNCHANGED <<state, jobs, wg, lifecycle, tracked, unknown, asked, ran, history, calls>>

\* The loop over the window goes on to the next commit, newest first.
PastNewest(w) ==
    LET todo == worker[w].todo \ {Max(worker[w].todo)} IN
    [worker EXCEPT ![w].todo = todo,
                   ![w].pc = IF todo = {} THEN "next" ELSE "insert"]

InsertOne(w) ==
    /\ worker[w].pc = "insert"
    /\ tracked' = Stored(RepoOf(w), Max(worker[w].todo))
    /\ worker' = PastNewest(w)
    /\ UNCHANGED <<state, jobs, wg, lifecycle, unknown, asked, ran, history, calls>>

\* The step's call fails, for a reason of its own or because the context is
\* cancelled: runOne gives up the window, or skips the one commit.
CallFails(w) ==
    /\ worker[w].pc \in {"since", "fetch", "insert"}
    /\ \/ ~cancelled /\ faults < MaxFaults /\ faults' = faults + 1 /\ UNCHANGED aborted
       \/ cancelled /\ aborted' = TRUE /\ UNCHANGED faults
    /\ hurt' = hurt \cup {RepoOf(w)}
    /\ worker' = IF worker[w].pc = "insert" THEN PastNewest(w)
                 ELSE [worker EXCEPT ![w].pc = "next", ![w].since = 0]
    /\ UNCHANGED <<state, jobs, wg, lifecycle, tracked, unknown, asked, ran, calls>>

-----------------------------------------------------------------------------
(* runLoop *)

\* Mutant: an idle repository keeps its entry, running flag and all.
EntryKept(r) == state

WithoutEntry(r) == [x \in DOMAIN state \ {r} |-> state[x]]

Leaving == [NoWorker EXCEPT !.pc = "exit"]

\* The mutex section between two jobs: take the oldest pending job, or leave.
NextJob(w) ==
    /\ worker[w].pc = "next"
    /\ LET r == RepoOf(w) IN
       IF state[r] = <<>>
       THEN /\ state' = WithoutEntry(r)
            /\ worker' = [worker EXCEPT ![w] = Leaving]
            /\ UNCHANGED ran
       ELSE /\ state' = [state EXCEPT ![r] = Tail(@)]
            /\ worker' = [worker EXCEPT ![w] = Taking(Head(state[r]))]
            /\ ran' = [ran EXCEPT ![r] = Append(@, Head(state[r]))]
    /\ UNCHANGED <<jobs, wg, lifecycle, tracked, unknown, asked, history, calls>>

\* Mutant: no deferred wg.Done.
ExitUncounted(w) ==
    /\ worker[w].pc = "exit"
    /\ worker' = [worker EXCEPT ![w].pc = "done"]
    /\ UNCHANGED <<state, jobs, wg, lifecycle, tracked, unknown, asked, ran, history, calls>>

\* The deferred wg.Done.
Exit(w) ==
    /\ worker[w].pc = "exit"
    /\ worker' = [worker EXCEPT ![w].pc = "done"]
    /\ wg' = wg - 1
    /\ UNCHANGED <<state, jobs, lifecycle, tracked, unknown, asked, ran, history, calls>>

WorkerStep(w) ==
    \/ SinceBound(w) \/ FetchWindow(w) \/ InsertOne(w) \/ CallFails(w)
    \/ NextJob(w) \/ Exit(w)

-----------------------------------------------------------------------------
(* Shutdown *)

CloseQueue ==
    /\ shutdown = "open"
    /\ closed' = TRUE /\ shutdown' = "draining"
    /\ UNCHANGED <<state, jobs, worker, wg, cancelled, timedOut, tracked, unknown, asked, ran,
                   history, calls>>

\* The drain deadline passes first: cancel, then keep waiting.
Deadline ==
    /\ shutdown = "draining"
    /\ cancelled' = TRUE /\ timedOut' = TRUE /\ shutdown' = "aborting"
    /\ UNCHANGED <<state, jobs, worker, closed, wg, tracked, unknown, asked, ran, history, calls>>

\* Mutant: after the cancel nobody waits for the goroutines.
DrainedOrAborting == wg = 0 \/ shutdown = "aborting"

Drained == wg = 0

Return ==
    /\ shutdown \in {"draining", "aborting"} /\ Drained
    /\ cancelled' = TRUE /\ shutdown' = "returned"
    /\ UNCHANGED <<state, jobs, worker, closed, wg, timedOut, tracked, unknown, asked, ran,
                   history, calls>>

\* The process ends after Shutdown has returned and the last submit is over.
Ended ==
    /\ shutdown = "returned" /\ calls = MaxCalls /\ \A r \in Repos : asked[r] = {}
    /\ UNCHANGED vars

Next ==
    \/ \E r \in Repos : \E c \in Benchmarked[r] : Resolve(r, c) \/ EndSubmit(r, c) \/ Degrade(r, c)
    \/ \E w \in JobIds : WorkerStep(w)
    \/ CloseQueue \/ Deadline \/ Return \/ Ended

Spec == Init /\ [][Next]_vars

\* Goroutines are scheduled, every call a worker makes has a timeout, and
\* Shutdown's select takes a ready branch. Nobody is obliged to call anything.
FairSpec == Spec /\ (\A w \in JobIds : WF_vars(WorkerStep(w))) /\ WF_vars(Return)

-----------------------------------------------------------------------------
(* Properties *)

\* One job in flight per repository: runLoop is the only goroutine inside its
\* repository's queue, and the map has an entry exactly while there is one,
\* so that Enqueue never queues behind a worker that has left.
OneWorkerPerRepo ==
    \A r \in Repos :
        LET inside == {w \in JobIds : Working(w) /\ RepoOf(w) = r} IN
        Cardinality(inside) = IF r \in DOMAIN state THEN 1 ELSE 0

\* Enqueue drops nothing it accepted and runLoop takes it in that order: what
\* a repository's workers took up, then what is pending, is what was accepted.
AcceptedJobsKeepTheirOrder ==
    \A r \in Repos :
        LET served == ran[r] \o (IF r \in DOMAIN state THEN state[r] ELSE <<>>) IN
        /\ {served[n] : n \in DOMAIN served} = {j \in DOMAIN jobs : jobs[j].repo = r}
        /\ \A m, n \in DOMAIN served : m < n => served[m] < served[n]

\* Where no call failed and none was dropped, an idle repository has every
\* commit between the oldest one, which runOne's trim loses when the branch is
\* untracked, and the newest commit ever submitted, in whatever order the
\* windows came and wherever the submits' own inserts fell between them, if
\* only as a row whose metadata is still missing.
IdleMeansCaughtUp ==
    \A r \in Repos \ hurt : r \notin DOMAIN state =>
        \A j \in 1..Len(jobs) : jobs[j].repo = r =>
            2..(jobs[j].until - 1) \subseteq tracked[r] \cup unknown[r] \cup Forked

\* What the queue promises of a repository: one worker, jobs in the order of
\* their acceptance, and a caught-up branch when there is nothing left to do.
QueueIsServed == OneWorkerPerRepo /\ AcceptedJobsKeepTheirOrder /\ IdleMeansCaughtUp

\* Once Shutdown has returned no goroutine is left and no job is pending, so
\* the pool may be closed after it (serverapp's Run returns).
ReturnedMeansQuiet ==
    shutdown = "returned" => state = <<>> /\ \A w \in JobIds : ~Live(w)

\* Shutdown answers FALSE only when everything accepted was run to its end
\* under a live context: admin repair-commits reports the answer to its user.
UnreportedAbortsNever ==
    shutdown = "returned" /\ ~timedOut =>
        /\ ~aborted
        /\ \A j \in 1..Len(jobs) : \E n \in DOMAIN ran[jobs[j].repo] :
              ran[jobs[j].repo][n] = j

\* What Shutdown promises its caller: quiet, and an honest answer.
ShutdownIsClean == ReturnedMeansQuiet /\ UnreportedAbortsNever

\* Every accepted job is taken up by a worker, even when it was accepted in
\* the moment its repository's worker was about to leave.
EveryJobRuns ==
    \A j \in JobIds :
        j <= Len(jobs) ~> j <= Len(jobs) /\ \E n \in DOMAIN ran[jobs[j].repo] :
                                              ran[jobs[j].repo][n] = j

\* A Shutdown that began returns, whether or not its deadline ever passes.
ShutdownReturns == shutdown = "draining" ~> shutdown = "returned"
=============================================================================
