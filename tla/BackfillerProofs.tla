-------------------------- MODULE BackfillerProofs --------------------------
(***************************************************************************)
(* Theorems about the ancestry backfiller and "admin repair-commits"       *)
(* (Backfiller, CommitRepair), for any repositories, any history of        *)
(* commits, any page size and any bounds.                                  *)
(***************************************************************************)
EXTENDS CommitRepair, FiniteSetTheorems, SequenceTheorems, WellFoundedInduction, TLAPS

(* The parts of the invariant: the queue. *)

Ids == 1..Len(jobs)

PendingOf(r) == IF r \in DOMAIN state THEN state[r] ELSE <<>>
Elements(s) == {s[n] : n \in DOMAIN s}
Increasing(s) == \A m, n \in DOMAIN s : m < n => s[m] < s[n]

JobsOf(r) == {j \in Ids : jobs[j].repo = r}

\* The map's entries are the repositories with a worker inside, one each.
WorkersOK ==
    /\ state = [r \in DOMAIN state |-> state[r]]
    /\ \A w \in JobIds :
         /\ worker[w].pc # "none" => w <= Len(jobs)
         /\ Working(w) => worker[w].job \in Ids /\ RepoOf(w) \in DOMAIN state
         /\ worker[w].pc # "insert" => worker[w].todo = {}
         /\ worker[w].pc = "insert" => worker[w].todo # {}
    /\ \A v, w \in JobIds : Working(v) /\ Working(w) /\ RepoOf(v) = RepoOf(w) => v = w
    /\ \A r \in DOMAIN state : \E w \in JobIds : Working(w) /\ RepoOf(w) = r

\* What was taken up precedes what is pending, and together they are what was accepted.
QueueOK ==
    \A r \in Repos :
      /\ Increasing(ran[r]) /\ Increasing(PendingOf(r))
      /\ \A a \in Elements(ran[r]), b \in Elements(PendingOf(r)) : a < b
      /\ Elements(ran[r]) \cup Elements(PendingOf(r)) = JobsOf(r)

WgOK == wg = Cardinality({w \in JobIds : Live(w)})

(* Shutdown. *)

LifeOK ==
    /\ closed <=> shutdown # "open"
    /\ shutdown \in {"open", "draining"} => ~cancelled /\ ~timedOut
    /\ shutdown = "aborting" => timedOut
    /\ shutdown = "returned" => \A w \in JobIds : ~Live(w)
    /\ aborted => timedOut

(* What the rows and the windows owe one another. *)

Covered(r, g) == g \in tracked[r] \cup unknown[r] \cup Forked

Inserting(r) ==
    UNION {worker[w].todo : w \in {v \in JobIds : worker[v].pc = "insert" /\ RepoOf(v) = r}}

\* Something is still to cover commit g, on the way up to c.
Owing(r, g, c) ==
    \/ \E k \in Elements(PendingOf(r)) : g < jobs[k].until /\ jobs[k].until <= c
    \/ \E w \in JobIds : /\ worker[w].pc \in {"since", "fetch"} /\ RepoOf(w) = r
                         /\ g < UntilOf(w) /\ UntilOf(w) <= c
    \/ g \in Inserting(r)

\* The commits below which nothing may be missing for good.
Marks(r) == tracked[r] \cup {jobs[j].until : j \in JobsOf(r)} \cup Inserting(r)

DebtsOf(r) == \A c \in Marks(r) : \A g \in 2..(c - 1) : Covered(r, g) \/ Owing(r, g, c)

DebtsOK == \A r \in Repos \ hurt : DebtsOf(r)

\* A window ends on the default branch, which all of it is on; its lower bound is a row
\* that was stored, and below the upper one.
BoundsOK ==
    /\ \A j \in Ids : jobs[j].until \in (2..Tip) \ Forked
    /\ \A w \in JobIds : worker[w].todo \cap Forked = {}
    /\ \A w \in JobIds : worker[w].pc = "fetch" =>
         worker[w].since \in tracked[RepoOf(w)] \cup {0} /\ worker[w].since < UntilOf(w)

\* A row is known or unknown; where nobody is hurt, it is on the default branch, and
\* whoever is to store one has enqueued its window.
RowsOK ==
    /\ \A r \in Repos : tracked[r] \cap unknown[r] = {} /\ asked[r] \subseteq 2..Tip
    /\ \A r \in Repos \ hurt :
         /\ tracked[r] \cap Forked = {}
         /\ \A c \in asked[r] \ Forked : \E j \in JobsOf(r) : jobs[j].until = c

WindowsOK == BoundsOK /\ RowsOK /\ DebtsOK

BackfillerInv == TypeOK /\ WorkersOK /\ QueueOK /\ WgOK /\ LifeOK /\ WindowsOK

(* The operator's walk. *)

Positions == DOMAIN ScanOrder
TallyRow == [scanned : Nat, repaired : Nat, would : Nat, unsupported : Nat, failed : Nat,
             already : Nat, enqueued : Nat, wouldBackfill : Nat]
Repair == [pc : {"server", "start", "row", "update", "drain", "report"},
           dry : BOOLEAN, backfill : BOOLEAN, todo : SUBSET Positions,
           next : Positions \cup {0}, mine : SUBSET Positions, tally : TallyRow]

RepairTyped ==
    /\ repair \in Repair
    /\ filled \in [Rows -> Nat]
    /\ walk \in [owed : SUBSET Rows, whole : BOOLEAN]

Reading == repair.pc \in {"row", "update"}

\* The process and its backfiller.
ProcessOK ==
    /\ repair.pc = "server" => Len(jobs) <= calls
    /\ repair.pc # "server" => \A r \in Repos : asked[r] = {}
    /\ repair.pc # "server" /\ repair.backfill = FALSE => jobs = <<>>
    /\ repair.pc = "start" \/ Reading => shutdown = "open"
    /\ repair.pc = "start" => jobs = <<>>
    /\ Reading => Len(jobs) + Cardinality(repair.todo) <= Limit
    /\ repair.pc = "update" => repair.todo # {} /\ repair.dry = FALSE
    /\ repair.pc = "report" => jobs = <<>> \/ shutdown = "returned"

\* Metadata that was filled in is in a row that is known.
FilledOK ==
    \A row \in Rows : filled[row] # 0 => filled[row] = 1 /\ row[2] \in tracked[row[1]]

Mine == {i \in repair.mine : HasJob(ScanOrder[i][2])}
Upto(i) == {j \in Mine : j <= i}

SummaryOK ==
    repair.pc \notin {"server", "start"} =>
        LET t == repair.tally IN
        /\ t.repaired = Cardinality(repair.mine) /\ (repair.dry = TRUE => repair.mine = {})
        /\ t.scanned = t.repaired + t.would + t.unsupported + t.failed + t.already
        /\ t.enqueued = Len(jobs)
        /\ \A i \in repair.mine, j \in repair.todo : i < j
        /\ repair.backfill = TRUE =>
             /\ Len(jobs) = Cardinality(Mine)
             /\ \A i \in Mine : jobs[Cardinality(Upto(i))]
                                  = [repo |-> ScanOrder[i][1], until |-> ScanOrder[i][2]]

\* The rows that the walk has still to come to.
Ahead(i) == (Reading /\ i \in repair.todo) \/ (repair.next # 0 /\ i > repair.next)

WalkOK ==
    /\ \A row \in walk.owed : row[2] \in tracked[row[1]] \cup unknown[row[1]]
    /\ walk.whole = TRUE =>
         /\ Reading => repair.dry = FALSE
         /\ \A i \in Positions : ScanOrder[i] \in walk.owed =>
              ScanOrder[i][1] \in Unsupported \/ ~IsUnknown(ScanOrder[i]) \/ Ahead(i)

RepairInv ==
    BackfillerInv /\ RepairTyped /\ ProcessOK /\ FilledOK /\ SummaryOK /\ WalkOK

-----------------------------------------------------------------------------

(* Numbers and sequences. *)

\* The least of a set of numbers is one of them.
LEMMA MinIsIn ==
    ASSUME NEW S \in SUBSET Nat, S # {}
    PROVE  Min(S) \in S /\ \A x \in S : Min(S) <= x
<1> DEFINE Less == {ss \in Nat \X Nat : ss[1] < ss[2]}
<1>1. IsWellFoundedOn(Less, Nat)
    BY NatLessThanWellFounded, Zenon DEF OpToRel
<1>2. PICK m \in S : \A x \in S : ~(<<x, m>> \in Less)
  <2> HIDE DEF Less
  <2> QED
    BY <1>1, WFMin
<1>3. ASSUME NEW x \in S PROVE m <= x
  <2>1. <<x, m>> \in Nat \X Nat /\ ~(<<x, m>> \in Less)
    BY <1>2
  <2> QED
    BY <2>1
<1> QED
    BY <1>2, <1>3 DEF Min

\* The greatest of a bounded set of numbers is one of them.
LEMMA MaxIsIn ==
    ASSUME NEW n \in Nat, NEW S \in SUBSET (0..n), S # {}
    PROVE  Max(S) \in S /\ \A x \in S : x <= Max(S)
<1> DEFINE T == {n - x : x \in S}
<1>0. \A x \in S : x \in Nat /\ x <= n /\ n - x \in Nat
    OBVIOUS
<1>1. T \in SUBSET Nat /\ T # {}
    BY <1>0
<1>2. PICK m \in T : \A y \in T : m <= y
    BY <1>1, MinIsIn
<1>3. PICK x \in S : m = n - x
    BY <1>2
<1>4. \A y \in S : y <= x
  <2>1. ASSUME NEW y \in S PROVE y <= x
    <3>1. n - y \in T
      OBVIOUS
    <3> QED
      BY <3>1, <1>0, <1>2, <1>3
  <2> QED
    BY <2>1
<1> QED
    BY <1>4 DEF Max

\* What Append does to a sequence's elements.
LEMMA AppendElements ==
    ASSUME NEW S, NEW s \in Seq(S), NEW x
    PROVE  /\ Elements(Append(s, x)) = Elements(s) \cup {x}
           /\ (Increasing(s) /\ s \in Seq(Nat) /\ x \in Nat /\ \A y \in Elements(s) : y < x)
                => Increasing(Append(s, x))
<1>1. /\ Len(Append(s, x)) = Len(s) + 1 /\ Append(s, x)[Len(s) + 1] = x
      /\ \A i \in 1..Len(s) : Append(s, x)[i] = s[i]
    OBVIOUS
<1>2. DOMAIN Append(s, x) = 1..(Len(s) + 1) /\ DOMAIN s = 1..Len(s) /\ Len(s) \in Nat
    OBVIOUS
<1>3. Elements(Append(s, x)) = Elements(s) \cup {x}
    BY <1>1, <1>2 DEF Elements
<1>4. ASSUME Increasing(s), x \in Nat, \A y \in Elements(s) : y < x
      PROVE  Increasing(Append(s, x))
    BY <1>1, <1>2, <1>4 DEF Increasing, Elements
<1> QED
    BY <1>3, <1>4

\* What taking the head of a sequence does to them.
LEMMA HeadElements ==
    ASSUME NEW S, NEW s \in Seq(S), s # <<>>
    PROVE  /\ Head(s) \in S /\ Tail(s) \in Seq(S)
           /\ Elements(s) = {Head(s)} \cup Elements(Tail(s))
           /\ Increasing(s) => Increasing(Tail(s)) /\ \A y \in Elements(Tail(s)) : Head(s) < y
<1>1. /\ Len(s) \in Nat \ {0} /\ DOMAIN s = 1..Len(s) /\ Head(s) = s[1] /\ Tail(s) \in Seq(S)
      /\ DOMAIN Tail(s) = 1..(Len(s) - 1) /\ \A i \in 1..(Len(s) - 1) : Tail(s)[i] = s[i + 1]
    OBVIOUS
<1>2. \A n \in 1..Len(s) : n = 1 \/ (n - 1 \in 1..(Len(s) - 1) /\ s[n] = Tail(s)[n - 1])
    BY <1>1
<1>3. Elements(s) = {Head(s)} \cup Elements(Tail(s))
  <2>1. Elements(s) \subseteq {Head(s)} \cup Elements(Tail(s))
    <3>1. ASSUME NEW n \in DOMAIN s PROVE s[n] \in {Head(s)} \cup Elements(Tail(s))
      <4>1. CASE n = 1
        BY <1>1, <4>1
      <4>2. CASE n - 1 \in DOMAIN Tail(s) /\ s[n] = Tail(s)[n - 1]
        BY <4>2 DEF Elements
      <4> QED
        BY <1>1, <1>2, <4>1, <4>2
    <3> QED
      BY <3>1 DEF Elements
  <2>2. {Head(s)} \cup Elements(Tail(s)) \subseteq Elements(s)
    BY <1>1 DEF Elements
  <2> QED
    BY <2>1, <2>2
<1>4. ASSUME Increasing(s)
      PROVE  Increasing(Tail(s)) /\ \A y \in Elements(Tail(s)) : Head(s) < y
    BY <1>1, <1>4 DEF Increasing, Elements
<1>5. Head(s) \in S
    BY <1>1
<1> QED
    BY <1>1, <1>3, <1>4, <1>5

\* An increasing sequence followed by a later one.
LEMMA ConcatIncreases ==
    ASSUME NEW s \in Seq(Nat), NEW t \in Seq(Nat), Increasing(s), Increasing(t),
           \A a \in Elements(s), b \in Elements(t) : a < b
    PROVE  Increasing(s \o t) /\ Elements(s \o t) = Elements(s) \cup Elements(t)
<1>1. /\ DOMAIN (s \o t) = 1..(Len(s) + Len(t)) /\ Len(s) \in Nat /\ Len(t) \in Nat
      /\ DOMAIN s = 1..Len(s) /\ DOMAIN t = 1..Len(t)
      /\ \A i \in 1..Len(s) : (s \o t)[i] = s[i]
      /\ \A i \in 1..Len(t) : (s \o t)[Len(s) + i] = t[i]
    OBVIOUS
<1>2. \A i \in DOMAIN (s \o t) :
        \/ i \in DOMAIN s /\ (s \o t)[i] = s[i]
        \/ i > Len(s) /\ i - Len(s) \in DOMAIN t /\ (s \o t)[i] = t[i - Len(s)]
  <2>1. ASSUME NEW i \in DOMAIN (s \o t), i > Len(s)
        PROVE  i - Len(s) \in DOMAIN t /\ (s \o t)[i] = t[i - Len(s)]
    <3>1. i - Len(s) \in 1..Len(t) /\ Len(s) + (i - Len(s)) = i
      BY <1>1, <2>1
    <3> QED
      BY <1>1, <3>1
  <2> QED
    BY <1>1, <2>1
<1>3. ASSUME NEW m \in DOMAIN (s \o t), NEW n \in DOMAIN (s \o t), m < n
      PROVE  (s \o t)[m] < (s \o t)[n]
  <2>0. m \in Nat /\ n \in Nat
    BY <1>1
  <2>1. CASE m \in DOMAIN s /\ n \in DOMAIN s
    BY <1>1, <1>3, <2>1 DEF Increasing
  <2>2. CASE m \in DOMAIN s /\ n > Len(s)
    <3>1. s[m] \in Elements(s) /\ n - Len(s) \in DOMAIN t /\ t[n - Len(s)] \in Elements(t)
      BY <1>1, <1>2, <2>2 DEF Elements
    <3> QED
      BY <1>1, <1>2, <2>2, <3>1
  <2>3. CASE m > Len(s) /\ n > Len(s)
    <3>1. m - Len(s) < n - Len(s) /\ m - Len(s) \in DOMAIN t /\ n - Len(s) \in DOMAIN t
      BY <1>1, <1>2, <1>3, <2>0, <2>3
    <3>2. (s \o t)[m] = t[m - Len(s)] /\ (s \o t)[n] = t[n - Len(s)]
      BY <1>1, <1>2, <2>0, <2>3
    <3> QED
      BY <3>1, <3>2 DEF Increasing
  <2> QED
    BY <1>1, <1>3, <2>0, <2>1, <2>2, <2>3
<1>4. Elements(s \o t) \subseteq Elements(s) \cup Elements(t)
    BY <1>2 DEF Elements
<1>5. Elements(s) \cup Elements(t) \subseteq Elements(s \o t)
  <2>1. \A i \in 1..Len(t) : Len(s) + i \in DOMAIN (s \o t)
    BY <1>1
  <2>2. \A i \in 1..Len(s) : i \in DOMAIN (s \o t)
    BY <1>1
  <2> QED
    BY <1>1, <2>1, <2>2 DEF Elements
<1> QED
    BY <1>3, <1>4, <1>5 DEF Increasing

\* A set whose elements are all equal has at most one.
LEMMA OneAtMost ==
    ASSUME NEW S, \A x, y \in S : x = y
    PROVE  IF S = {} THEN Cardinality(S) = 0 ELSE Cardinality(S) = 1
<1>1. CASE S = {}
    BY <1>1, FS_EmptySet
<1>2. CASE S # {}
  <2>1. PICK x : S = {x}
    BY <1>2
  <2> QED
    BY <2>1, FS_Singleton
<1> QED
    BY <1>1, <1>2


-----------------------------------------------------------------------------
(* The queue. *)

QueueTyped ==
    /\ DOMAIN state \subseteq Repos
    /\ \A r \in DOMAIN state : state[r] \in Seq(Ids)
    /\ jobs \in Seq(Job) /\ Len(jobs) <= MaxCalls
    /\ worker \in [JobIds -> Worker]
    /\ ran \in [Repos -> Seq(Ids)]

LifeTyped ==
    /\ closed \in BOOLEAN /\ cancelled \in BOOLEAN /\ timedOut \in BOOLEAN
    /\ shutdown \in {"open", "draining", "aborting", "returned"}
    /\ aborted \in BOOLEAN

RowsTyped ==
    /\ tracked \in [Repos -> SUBSET Commits] /\ unknown \in [Repos -> SUBSET Commits]
    /\ asked \in [Repos -> SUBSET Commits] /\ hurt \subseteq Repos

CountsTyped == calls \in 0..MaxCalls /\ faults \in 0..MaxFaults

LiveOnes == {w \in JobIds : Live(w)}

\* There are at most MaxCalls goroutines.
LEMMA LiveIsFinite ==
    ASSUME BackfillerAssumption
    PROVE  IsFiniteSet(LiveOnes) /\ Cardinality(LiveOnes) \in 0..MaxCalls
<1>1. IsFiniteSet(JobIds) /\ Cardinality(JobIds) = MaxCalls
    BY FS_Interval DEF BackfillerAssumption, JobIds
<1>2. LiveOnes \subseteq JobIds
    BY DEF LiveOnes
<1>3. IsFiniteSet(LiveOnes) /\ Cardinality(LiveOnes) <= Cardinality(JobIds)
    BY <1>1, <1>2, FS_Subset
<1>4. Cardinality(LiveOnes) \in Nat
    BY <1>3, FS_CardinalityType
<1> QED
    BY <1>1, <1>3, <1>4

\* The type invariant in parts; wg's range follows from what it counts.
LEMMA TypeParts ==
    ASSUME BackfillerAssumption
    PROVE  /\ TypeOK => QueueTyped /\ LifeTyped /\ RowsTyped /\ CountsTyped /\ wg \in Nat
           /\ QueueTyped /\ LifeTyped /\ RowsTyped /\ CountsTyped /\ WgOK => TypeOK
<1>1. TypeOK => QueueTyped /\ LifeTyped /\ RowsTyped /\ CountsTyped /\ wg \in Nat
    BY DEF TypeOK, QueueTyped, LifeTyped, RowsTyped, CountsTyped, Ids
<1>2. ASSUME QueueTyped, LifeTyped, RowsTyped, CountsTyped, WgOK
      PROVE  TypeOK
  <2>1. wg \in 0..MaxCalls
    BY <1>2, LiveIsFinite DEF WgOK, LiveOnes
  <2> QED
    BY <1>2, <2>1 DEF TypeOK, QueueTyped, LifeTyped, RowsTyped, CountsTyped, Ids
<1> QED
    BY <1>1, <1>2

\* The same after a step.
LEMMA TypePartsNext ==
    ASSUME BackfillerAssumption, QueueTyped', LifeTyped', RowsTyped', CountsTyped', WgOK'
    PROVE  TypeOK'
<1>1. IsFiniteSet(JobIds) /\ Cardinality(JobIds) = MaxCalls
    BY FS_Interval DEF BackfillerAssumption, JobIds
<1>2. LiveOnes' \subseteq JobIds
    BY DEF LiveOnes
<1>3. IsFiniteSet(LiveOnes') /\ Cardinality(LiveOnes') <= MaxCalls
    BY <1>1, <1>2, FS_Subset
<1>4. wg' \in 0..MaxCalls
    BY <1>3, FS_CardinalityType DEF WgOK, LiveOnes, Live, BackfillerAssumption
<1> QED
    BY <1>4 DEF TypeOK, QueueTyped, LifeTyped, RowsTyped, CountsTyped, Ids, Job, Worker

QueuePart == QueueTyped /\ WorkersOK /\ QueueOK /\ WgOK

\* A job that is accepted gets the next id.
NewJob(r, until) ==
    /\ jobs' = Append(jobs, [repo |-> r, until |-> until])
    /\ Len(jobs') = Len(jobs) + 1 /\ Ids' = Ids \cup {Len(jobs) + 1}
    /\ jobs'[Len(jobs) + 1] = [repo |-> r, until |-> until]
    /\ \A i \in Ids : jobs'[i] = jobs[i]

\* What Enqueue appends to the jobs.
LEMMA JobIsNew ==
    ASSUME jobs \in Seq(Job), NEW r \in Repos, NEW until \in Commits,
           jobs' = Append(jobs, [repo |-> r, until |-> until])
    PROVE  NewJob(r, until) /\ jobs' \in Seq(Job) /\ Len(jobs) \in Nat
<1>1. [repo |-> r, until |-> until] \in Job
    BY DEF Job
<1>2. \A x \in Job : Append(jobs, x) \in Seq(Job) /\ Len(Append(jobs, x)) = Len(jobs) + 1
        /\ Append(jobs, x)[Len(jobs) + 1] = x /\ Len(jobs) \in Nat
        /\ \A i \in 1..Len(jobs) : Append(jobs, x)[i] = jobs[i]
    OBVIOUS
<1>3. jobs' \in Seq(Job) /\ Len(jobs') = Len(jobs) + 1 /\ Len(jobs) \in Nat
        /\ jobs'[Len(jobs) + 1] = [repo |-> r, until |-> until]
        /\ \A i \in 1..Len(jobs) : jobs'[i] = jobs[i]
    BY <1>1, <1>2, Zenon
<1>4. Ids' = Ids \cup {Len(jobs) + 1}
    BY <1>3 DEF Ids
<1> QED
    BY <1>3, <1>4 DEF NewJob, Ids

\* The sequences of ids that there are, are some after a job more is accepted.
LEMMA IdsGrow ==
    ASSUME Ids \subseteq Ids'
    PROVE  Seq(Ids) \subseteq Seq(Ids')
    BY SeqMonotonic DEF Ids

\* A job that finds its repository's worker inside waits for it.
LEMMA QueueStep ==
    ASSUME BackfillerAssumption, QueuePart, NEW r \in Repos, NEW until \in Commits,
           Len(jobs) < MaxCalls, jobs' = Append(jobs, [repo |-> r, until |-> until]),
           Queue(r, Len(jobs) + 1)
    PROVE  /\ QueuePart' /\ NewJob(r, until)
           /\ UNCHANGED <<worker, wg, ran>>
           /\ Elements(PendingOf(r))' = Elements(PendingOf(r)) \cup {Len(jobs) + 1}
           /\ \A x \in Repos \ {r} : PendingOf(x)' = PendingOf(x)
<1> DEFINE j == Len(jobs) + 1
<1>1. NewJob(r, until) /\ jobs' \in Seq(Job) /\ Len(jobs) \in Nat
    BY JobIsNew DEF QueuePart, QueueTyped
<1>2. /\ r \in DOMAIN state /\ state' = [state EXCEPT ![r] = Append(state[r], j)]
      /\ UNCHANGED <<worker, wg, ran>>
    BY DEF Queue, Running, Queued
<1>3. /\ QueueTyped /\ WorkersOK /\ QueueOK /\ WgOK
    BY DEF QueuePart
<1>4. j \in Nat /\ j \in Ids' /\ Ids \subseteq Ids' /\ j \notin Ids /\ (\A i \in Ids : i < j)
    BY <1>1 DEF NewJob, Ids
<1>5. Seq(Ids) \subseteq Seq(Ids') /\ Seq(Ids) \subseteq Seq(Nat)
    BY <1>4, IdsGrow, SeqMonotonic DEF Ids
<1> HIDE DEF j
<1>6. /\ DOMAIN state' = DOMAIN state /\ state'[r] = Append(state[r], j)
      /\ \A x \in DOMAIN state : x # r => state'[x] = state[x]
      /\ state' = [x \in DOMAIN state' |-> state'[x]]
    BY <1>2
<1>7. state[r] \in Seq(Ids) /\ state[r] \in Seq(Ids') /\ state[r] \in Seq(Nat)
    BY <1>2, <1>3, <1>5 DEF QueueTyped
<1>8. state'[r] \in Seq(Ids')
    BY <1>4, <1>6, <1>7, AppendProperties
<1>9. QueueTyped'
  <2>1. \A x \in DOMAIN state' : state'[x] \in Seq(Ids')
    BY <1>3, <1>5, <1>6, <1>8 DEF QueueTyped
  <2>2. ran' \in [Repos -> Seq(Ids')]
    BY <1>2, <1>3, <1>5 DEF QueueTyped
  <2>3. Len(jobs') <= MaxCalls
    BY <1>1 DEF NewJob, BackfillerAssumption
  <2> QED
    BY <1>1, <1>2, <1>3, <1>6, <2>1, <2>2, <2>3 DEF QueueTyped, Worker, Job
<1>10. \A w \in JobIds : Working(w) =>
         worker[w].job \in Ids /\ RepoOf(w)' = RepoOf(w)
  <2>1. \A w \in JobIds : Working(w) => worker[w].job \in Ids
    BY <1>3 DEF WorkersOK
  <2> QED
    BY <1>1, <1>2, <2>1 DEF NewJob, RepoOf
<1>11. \A w \in JobIds : Working(w)' <=> Working(w)
    BY <1>2 DEF Working
<1>12. WorkersOK'
  <2>1. \A w \in JobIds :
          /\ worker'[w].pc # "none" => w <= Len(jobs')
          /\ worker'[w].pc # "insert" => worker'[w].todo = {}
          /\ worker'[w].pc = "insert" => worker'[w].todo # {}
    BY <1>1, <1>2, <1>3 DEF WorkersOK, NewJob, JobIds, BackfillerAssumption
  <2>2. \A w \in JobIds : Working(w)' => worker'[w].job \in Ids' /\ RepoOf(w)' \in DOMAIN state'
    BY <1>2, <1>3, <1>4, <1>6, <1>10, <1>11 DEF WorkersOK
  <2>3. \A v, w \in JobIds : Working(v)' /\ Working(w)' /\ RepoOf(v)' = RepoOf(w)' => v = w
    BY <1>3, <1>10, <1>11 DEF WorkersOK
  <2>4. \A x \in DOMAIN state' : \E w \in JobIds : Working(w)' /\ RepoOf(w)' = x
    BY <1>3, <1>6, <1>10, <1>11 DEF WorkersOK
  <2> QED
    BY <1>6, <2>1, <2>2, <2>3, <2>4 DEF WorkersOK
<1>13. /\ PendingOf(r) = state[r] /\ PendingOf(r)' = Append(state[r], j)
       /\ \A x \in Repos \ {r} : PendingOf(x)' = PendingOf(x)
    BY <1>2, <1>6 DEF PendingOf
<1>14. /\ Elements(Append(state[r], j)) = Elements(state[r]) \cup {j}
       /\ Increasing(state[r]) => Increasing(Append(state[r], j))
       /\ Elements(state[r]) \subseteq Ids /\ Elements(ran[r]) \subseteq Ids
  <2>1. Elements(state[r]) \subseteq Ids /\ Elements(ran[r]) \subseteq Ids
    BY <1>3, <1>7 DEF Elements, QueueTyped
  <2> QED
    BY <2>1, <1>4, <1>7, AppendElements
<1>15. /\ JobsOf(r)' = JobsOf(r) \cup {j}
       /\ \A x \in Repos \ {r} : JobsOf(x)' = JobsOf(x)
  <2>1. jobs'[j].repo = r
    BY <1>1 DEF NewJob, j
  <2>2. Ids' = Ids \cup {j} /\ \A i \in Ids : jobs'[i] = jobs[i]
    BY <1>1 DEF NewJob, j
  <2> QED
    BY <1>4, <2>1, <2>2 DEF JobsOf
<1>16. QueueOK'
  <2>1. ASSUME NEW x \in Repos
        PROVE  /\ Increasing(ran'[x]) /\ Increasing(PendingOf(x)')
               /\ \A a \in Elements(ran'[x]), b \in Elements(PendingOf(x)') : a < b
               /\ Elements(ran'[x]) \cup Elements(PendingOf(x)') = JobsOf(x)'
    <3>1. CASE x = r
      BY <3>1, <1>2, <1>3, <1>4, <1>13, <1>14, <1>15 DEF QueueOK
    <3>2. CASE x # r
      BY <3>2, <1>2, <1>3, <1>13, <1>15 DEF QueueOK
    <3> QED
      BY <3>1, <3>2
  <2> QED
    BY <2>1 DEF QueueOK, Elements, Increasing
<1>17. WgOK'
    BY <1>2, <1>3 DEF WgOK, Live
<1>18. Elements(PendingOf(r))' = Elements(PendingOf(r)) \cup {j}
    BY <1>13, <1>14 DEF Elements
<1> QED
    BY <1>1, <1>2, <1>9, <1>12, <1>13, <1>16, <1>17, <1>18 DEF QueuePart, j


\* A job whose repository is idle starts a worker, which bears its id.
LEMMA StartWorkerStep ==
    ASSUME BackfillerAssumption, QueuePart, NEW r \in Repos, NEW until \in Commits,
           Len(jobs) < MaxCalls, jobs' = Append(jobs, [repo |-> r, until |-> until]),
           StartWorker(r, Len(jobs) + 1)
    PROVE  /\ QueuePart' /\ NewJob(r, until)
           /\ Len(jobs) + 1 \in JobIds /\ worker'[Len(jobs) + 1] = Taking(Len(jobs) + 1)
           /\ worker[Len(jobs) + 1].pc = "none"
           /\ \A w \in JobIds \ {Len(jobs) + 1} : worker'[w] = worker[w]
           /\ \A x \in Repos : PendingOf(x)' = PendingOf(x)
<1>0. PICK j : j = Len(jobs) + 1
    OBVIOUS
<1>1. NewJob(r, until) /\ jobs' \in Seq(Job) /\ Len(jobs) \in Nat
    BY JobIsNew DEF QueuePart, QueueTyped
<1>2. /\ r \notin DOMAIN state
      /\ state' = [x \in DOMAIN state \cup {r} |-> IF x = r THEN <<>> ELSE state[x]]
      /\ worker' = [worker EXCEPT ![j] = Taking(j)]
      /\ wg' = wg + 1
      /\ ran' = [ran EXCEPT ![r] = Append(ran[r], j)]
    BY <1>0 DEF StartWorker, Running
<1>3. /\ QueueTyped /\ WorkersOK /\ QueueOK /\ WgOK
    BY DEF QueuePart
<1>4. /\ j \in Nat /\ j \in Ids' /\ Ids \subseteq Ids' /\ j \notin Ids /\ (\A i \in Ids : i < j)
      /\ j \in JobIds
    BY <1>0, <1>1 DEF NewJob, Ids, JobIds, BackfillerAssumption
<1>5. Seq(Ids) \subseteq Seq(Ids') /\ Seq(Ids) \subseteq Seq(Nat)
    BY <1>4, IdsGrow, SeqMonotonic DEF Ids
<1>6. jobs'[j].repo = r /\ Ids' = Ids \cup {j} /\ \A i \in Ids : jobs'[i] = jobs[i]
  <2>1. jobs'[Len(jobs) + 1].repo = r
    BY <1>1 DEF NewJob
  <2>2. Ids' = Ids \cup {Len(jobs) + 1} /\ \A i \in Ids : jobs'[i] = jobs[i]
    BY <1>1, Zenon DEF NewJob
  <2> QED
    BY <1>0, <2>1, <2>2, Zenon
<1>7. worker[j].pc = "none"
    BY <1>0, <1>1, <1>3, <1>4 DEF WorkersOK
<1>8. Taking(j) \in Worker /\ Taking(j).pc = "since" /\ Taking(j).job = j /\ Taking(j).todo = {}
    BY <1>4 DEF Taking, Worker, Place, JobIds, BackfillerAssumption
<1>9. /\ worker' \in [JobIds -> Worker] /\ worker'[j] = Taking(j)
      /\ \A w \in JobIds \ {j} : worker'[w] = worker[w]
    BY <1>2, <1>3, <1>4, <1>8 DEF QueueTyped
<1>10. /\ DOMAIN state' = DOMAIN state \cup {r} /\ state'[r] = <<>>
       /\ \A x \in DOMAIN state : state'[x] = state[x]
       /\ state' = [x \in DOMAIN state' |-> state'[x]]
    BY <1>2
<1>11. /\ ran[r] \in Seq(Ids) /\ ran[r] \in Seq(Ids') /\ ran[r] \in Seq(Nat)
       /\ ran' \in [Repos -> Seq(Ids')] /\ ran'[r] = Append(ran[r], j)
       /\ \A x \in Repos \ {r} : ran'[x] = ran[x]
  <2>1. ran[r] \in Seq(Ids) /\ ran[r] \in Seq(Ids') /\ ran[r] \in Seq(Nat)
    BY <1>3, <1>5 DEF QueueTyped
  <2>2. Append(ran[r], j) \in Seq(Ids') /\ ran \in [Repos -> Seq(Ids')]
    BY <1>3, <1>4, <1>5, <2>1, AppendProperties DEF QueueTyped
  <2> QED
    BY <1>2, <2>1, <2>2
<1>12. QueueTyped'
  <2>1. \A x \in DOMAIN state' : state'[x] \in Seq(Ids')
    <3>1. <<>> \in Seq(Ids')
      OBVIOUS
    <3> QED
      BY <3>1, <1>3, <1>5, <1>10 DEF QueueTyped
  <2>2. Len(jobs') <= MaxCalls
    BY <1>1 DEF NewJob, BackfillerAssumption
  <2> QED
    BY <1>1, <1>3, <1>9, <1>10, <1>11, <2>1, <2>2 DEF QueueTyped, Worker, Job
<1>13. \A w \in JobIds \ {j} : /\ Working(w)' <=> Working(w)
                               /\ Working(w) => worker[w].job \in Ids /\ RepoOf(w)' = RepoOf(w)
  <2>1. \A w \in JobIds : Working(w) => worker[w].job \in Ids
    BY <1>3 DEF WorkersOK
  <2> QED
    BY <1>6, <1>9, <2>1 DEF Working, RepoOf
<1>14. Working(j)' /\ RepoOf(j)' = r /\ ~Working(j)
  <2>2. worker'[j].pc = "since" /\ worker'[j].job = j
    BY <1>8, <1>9
  <2> QED
    BY <1>6, <2>2, <1>7 DEF Working, RepoOf
<1>15. WorkersOK'
  <2>1. ASSUME NEW w \in JobIds
        PROVE  /\ worker'[w].pc # "none" => w <= Len(jobs')
               /\ worker'[w].pc # "insert" => worker'[w].todo = {}
               /\ worker'[w].pc = "insert" => worker'[w].todo # {}
    <3>1. CASE w = j
      BY <3>1, <1>0, <1>1, <1>8, <1>9 DEF NewJob
    <3>2. CASE w # j
      BY <3>2, <1>1, <1>3, <1>9 DEF NewJob, WorkersOK, JobIds, BackfillerAssumption
    <3> QED
      BY <3>1, <3>2
  <2>2. ASSUME NEW w \in JobIds, Working(w)'
        PROVE  worker'[w].job \in Ids' /\ RepoOf(w)' \in DOMAIN state'
    <3>1. CASE w = j
      BY <3>1, <1>4, <1>8, <1>9, <1>10, <1>14
    <3>2. CASE w # j
      <4>1. Working(w) /\ worker'[w] = worker[w] /\ RepoOf(w)' = RepoOf(w) /\ RepoOf(w) \in DOMAIN state
        BY <2>2, <3>2, <1>3, <1>9, <1>13 DEF WorkersOK
      <4> QED
        BY <4>1, <1>3, <1>4, <1>10 DEF WorkersOK
    <3> QED
      BY <3>1, <3>2
  <2>3. ASSUME NEW v \in JobIds, NEW w \in JobIds, Working(v)', Working(w)', RepoOf(v)' = RepoOf(w)'
        PROVE  v = w
    <3>1. \A x \in JobIds \ {j} : Working(x)' => RepoOf(x)' \in DOMAIN state /\ RepoOf(x)' # r
      BY <1>2, <1>3, <1>13 DEF WorkersOK
    <3>2. CASE v = j \/ w = j
      BY <2>3, <3>1, <3>2, <1>14
    <3>3. CASE v # j /\ w # j
      BY <2>3, <3>3, <1>3, <1>13 DEF WorkersOK
    <3> QED
      BY <3>2, <3>3
  <2>4. ASSUME NEW x \in DOMAIN state'
        PROVE  \E w \in JobIds : Working(w)' /\ RepoOf(w)' = x
    <3>1. CASE x = r
      BY <3>1, <1>4, <1>14
    <3>2. CASE x # r
      <4>1. PICK w \in JobIds : Working(w) /\ RepoOf(w) = x
        BY <2>4, <3>2, <1>3, <1>10 DEF WorkersOK
      <4> QED
        BY <4>1, <1>13, <1>14
    <3> QED
      BY <3>1, <3>2
  <2> QED
    BY <1>10, <2>1, <2>2, <2>3, <2>4 DEF WorkersOK
<1>16. /\ PendingOf(r) = <<>> /\ PendingOf(r)' = <<>>
       /\ \A x \in Repos : PendingOf(x)' = PendingOf(x)
    BY <1>2, <1>10 DEF PendingOf
<1>17. /\ Elements(Append(ran[r], j)) = Elements(ran[r]) \cup {j}
       /\ Increasing(ran[r]) => Increasing(Append(ran[r], j))
  <2>1. Elements(ran[r]) \subseteq Ids
    BY <1>11 DEF Elements
  <2> QED
    BY <2>1, <1>4, <1>11, AppendElements
<1>18. /\ JobsOf(r)' = JobsOf(r) \cup {j}
       /\ \A x \in Repos \ {r} : JobsOf(x)' = JobsOf(x)
    BY <1>4, <1>6 DEF JobsOf
<1>19. QueueOK'
  <2>1. ASSUME NEW x \in Repos
        PROVE  /\ Increasing(ran'[x]) /\ Increasing(PendingOf(x)')
               /\ \A a \in Elements(ran'[x]), b \in Elements(PendingOf(x)') : a < b
               /\ Elements(ran'[x]) \cup Elements(PendingOf(x)') = JobsOf(x)'
    <3>0. Elements(<<>>) = {}
      BY DEF Elements
    <3>1. CASE x = r
      <4>1. Increasing(ran[r]) /\ Elements(ran[r]) \cup Elements(<<>>) = JobsOf(r) /\ Increasing(<<>>)
        BY <1>3, <1>16 DEF QueueOK, Increasing
      <4> QED
        BY <3>0, <3>1, <4>1, <1>11, <1>16, <1>17, <1>18
    <3>2. CASE x # r
      BY <3>2, <1>3, <1>11, <1>16, <1>18 DEF QueueOK
    <3> QED
      BY <3>1, <3>2
  <2> QED
    BY <2>1 DEF QueueOK, Elements, Increasing
<1>20. WgOK'
  <2>1. LiveOnes' = LiveOnes \cup {j} /\ j \notin LiveOnes
    BY <1>4, <1>7, <1>8, <1>9 DEF LiveOnes, Live
  <2>2. Cardinality(LiveOnes') = Cardinality(LiveOnes) + 1
    BY <2>1, LiveIsFinite, FS_AddElement
  <2> QED
    BY <2>2, <1>2, <1>3 DEF WgOK, LiveOnes, Live
<1> QED
    BY <1>0, <1>1, <1>4, <1>7, <1>9, <1>12, <1>15, <1>16, <1>19, <1>20 DEF QueuePart

\* What an accepted Enqueue leaves behind: whatever is at work or pending stays, and the
\* new job waits for a worker or has one.
Enqueued(r, until) ==
    /\ QueuePart' /\ NewJob(r, until)
    /\ \A w \in JobIds : worker[w].pc # "none" => worker'[w] = worker[w]
    /\ \A w \in JobIds : worker'[w].pc \in {"none", "since"} \/ worker'[w] = worker[w]
    /\ \A x \in Repos : Elements(PendingOf(x)) \subseteq Elements(PendingOf(x))'
    /\ \/ Len(jobs) + 1 \in Elements(PendingOf(r))'
       \/ \E w \in JobIds : worker'[w].pc = "since" /\ worker'[w].job = Len(jobs) + 1

\* Enqueue, by either of its branches, keeps the queue in order.
LEMMA EnqueueStep ==
    ASSUME BackfillerAssumption, QueuePart, NEW r \in Repos, NEW until \in Commits,
           Len(jobs) < MaxCalls, Accepts, Enqueue(r, until)
    PROVE  Enqueued(r, until) /\ UNCHANGED hurt
<1>1. /\ jobs' = Append(jobs, [repo |-> r, until |-> until]) /\ UNCHANGED hurt
      /\ Queue(r, Len(jobs) + 1) \/ StartWorker(r, Len(jobs) + 1)
    BY DEF Enqueue
<1>2. CASE Queue(r, Len(jobs) + 1)
  <2>1. /\ QueuePart' /\ NewJob(r, until) /\ UNCHANGED <<worker, wg, ran>>
        /\ Elements(PendingOf(r))' = Elements(PendingOf(r)) \cup {Len(jobs) + 1}
        /\ \A x \in Repos \ {r} : PendingOf(x)' = PendingOf(x)
    BY <1>1, <1>2, QueueStep
  <2>2. ASSUME NEW x \in Repos PROVE Elements(PendingOf(x)) \subseteq Elements(PendingOf(x))'
    <3>1. CASE x = r
      BY <2>1, <3>1
    <3>2. CASE x # r
      BY <2>1, <3>2 DEF Elements
    <3> QED
      BY <3>1, <3>2
  <2> QED
    BY <1>1, <2>1, <2>2 DEF Enqueued
<1>3. CASE StartWorker(r, Len(jobs) + 1)
  <2>1. /\ QueuePart' /\ NewJob(r, until)
        /\ Len(jobs) + 1 \in JobIds /\ worker'[Len(jobs) + 1] = Taking(Len(jobs) + 1)
        /\ worker[Len(jobs) + 1].pc = "none"
        /\ \A w \in JobIds \ {Len(jobs) + 1} : worker'[w] = worker[w]
        /\ \A x \in Repos : PendingOf(x)' = PendingOf(x)
    BY <1>1, <1>3, StartWorkerStep
  <2>2. \A x \in Repos : Elements(PendingOf(x)) \subseteq Elements(PendingOf(x))'
    BY <2>1 DEF Elements
  <2>3. worker'[Len(jobs) + 1].pc = "since" /\ worker'[Len(jobs) + 1].job = Len(jobs) + 1
    BY <2>1 DEF Taking
  <2> QED
    BY <1>1, <2>1, <2>2, <2>3 DEF Enqueued
<1> QED
    BY <1>1, <1>2, <1>3


-----------------------------------------------------------------------------
(* The workers. *)

\* Where map and jobs are left alone, so is the order.
LEMMA QueueStays ==
    ASSUME QueueOK, UNCHANGED <<state, jobs, ran>>
    PROVE  QueueOK'
    BY DEF QueueOK, Increasing, Elements, PendingOf, JobsOf, Ids

InLoop == {"since", "fetch", "insert", "next"}

\* Whatever a worker does within one job leaves the queue alone.
Moved(w, p) ==
    /\ QueuePart' /\ worker'[w] = p
    /\ \A x \in JobIds \ {w} : worker'[x] = worker[x]
    /\ \A x \in JobIds : RepoOf(x)' = RepoOf(x) /\ UntilOf(x)' = UntilOf(x)
    /\ \A x \in Repos : PendingOf(x)' = PendingOf(x)

\* A worker that goes on with its job leaves the queue as it is.
LEMMA WorkerMoves ==
    ASSUME BackfillerAssumption, QueuePart, NEW w \in JobIds, Working(w),
           NEW p \in Worker, p.pc \in InLoop, p.job = worker[w].job,
           p.pc = "insert" <=> p.todo # {},
           worker' = [worker EXCEPT ![w] = p], UNCHANGED <<state, jobs, wg, ran>>
    PROVE  Moved(w, p)
<1>1. QueueTyped /\ WorkersOK /\ QueueOK /\ WgOK
    BY DEF QueuePart
<1>2. /\ worker' \in [JobIds -> Worker] /\ worker'[w] = p
      /\ \A x \in JobIds \ {w} : worker'[x] = worker[x]
    BY <1>1 DEF QueueTyped
<1>3. \A x \in JobIds : worker'[x].job = worker[x].job
    BY <1>2
<1>4. \A x \in JobIds : RepoOf(x)' = RepoOf(x) /\ UntilOf(x)' = UntilOf(x)
    BY <1>3 DEF RepoOf, UntilOf
<1>5. \A x \in JobIds : (Working(x)' <=> Working(x)) /\ (Live(x)' <=> Live(x))
    BY <1>2 DEF Working, Live, InLoop
<1>6. \A x \in Repos : PendingOf(x)' = PendingOf(x)
    BY DEF PendingOf
<1>7. QueueTyped'
    BY <1>1, <1>2 DEF QueueTyped, Ids, Worker, Job
<1>8. WorkersOK'
  <2>1. ASSUME NEW x \in JobIds
        PROVE  /\ worker'[x].pc # "none" => x <= Len(jobs')
               /\ Working(x)' => worker'[x].job \in Ids' /\ RepoOf(x)' \in DOMAIN state'
               /\ worker'[x].pc # "insert" => worker'[x].todo = {}
               /\ worker'[x].pc = "insert" => worker'[x].todo # {}
    <3>1. worker'[x].pc # "none" => worker[x].pc # "none"
      BY <1>2 DEF Working
    <3>2. Working(x)' => worker'[x].job \in Ids' /\ RepoOf(x)' \in DOMAIN state'
      BY <1>1, <1>3, <1>4, <1>5 DEF WorkersOK, Ids
    <3> QED
      BY <3>1, <3>2, <1>1, <1>2 DEF WorkersOK
  <2>2. \A x, y \in JobIds : Working(x)' /\ Working(y)' /\ RepoOf(x)' = RepoOf(y)' => x = y
    BY <1>1, <1>4, <1>5 DEF WorkersOK
  <2>3. \A r \in DOMAIN state' : \E x \in JobIds : Working(x)' /\ RepoOf(x)' = r
    BY <1>1, <1>4, <1>5 DEF WorkersOK
  <2>4. state' = [r \in DOMAIN state' |-> state'[r]]
    BY <1>1 DEF WorkersOK
  <2> QED
    BY <2>1, <2>2, <2>3, <2>4 DEF WorkersOK
<1>9. QueueOK'
    BY <1>1, QueueStays
<1>10. WgOK'
    BY <1>1, <1>5 DEF WgOK
<1> QED
    BY <1>2, <1>4, <1>6, <1>7, <1>8, <1>9, <1>10 DEF Moved, QueuePart

\* The next job is the oldest one that is pending.
LEMMA TakesHead ==
    ASSUME BackfillerAssumption, QueuePart, NEW w \in JobIds, NextJob(w), NEW r, r = RepoOf(w),
           state[r] # <<>>
    PROVE  /\ QueuePart' /\ r \in Repos /\ UNCHANGED jobs
           /\ \E k \in JobsOf(r) :
                /\ worker'[w].pc = "since" /\ worker'[w].job = k
                /\ Elements(PendingOf(r)) = {k} \cup Elements(PendingOf(r)')
           /\ \A x \in JobIds \ {w} : worker'[x] = worker[x]
           /\ \A x \in Repos \ {r} : PendingOf(x)' = PendingOf(x)
<1>1. QueueTyped /\ WorkersOK /\ QueueOK /\ WgOK
    BY DEF QueuePart
<1>2. worker[w].pc = "next" /\ Working(w) /\ Live(w)
    BY DEF NextJob, Working, Live
<1>3. r \in DOMAIN state /\ r \in Repos
    BY <1>1, <1>2 DEF WorkersOK, QueueTyped
<1>4. PICK k : k = Head(state[r])
    OBVIOUS
<1>5. /\ state' = [state EXCEPT ![r] = Tail(state[r])]
      /\ worker' = [worker EXCEPT ![w] = Taking(k)]
      /\ ran' = [ran EXCEPT ![r] = Append(ran[r], k)]
      /\ UNCHANGED <<jobs, wg>>
    BY <1>4 DEF NextJob
<1>6. state[r] \in Seq(Ids)
    BY <1>1, <1>3 DEF QueueTyped
<1>7. /\ k \in Ids /\ Tail(state[r]) \in Seq(Ids)
      /\ Elements(state[r]) = {k} \cup Elements(Tail(state[r]))
      /\ Increasing(state[r]) => Increasing(Tail(state[r]))
                                 /\ \A y \in Elements(Tail(state[r])) : k < y
    BY <1>4, <1>6, HeadElements
<1>8. Ids' = Ids /\ k \in Nat /\ k \in 0..MaxCalls
    BY <1>1, <1>5, <1>7 DEF Ids, QueueTyped, BackfillerAssumption
<1>9. Taking(k) \in Worker /\ Taking(k).pc = "since" /\ Taking(k).job = k /\ Taking(k).todo = {}
    BY <1>8 DEF Taking, Worker, Place, BackfillerAssumption
<1>10. /\ worker' \in [JobIds -> Worker] /\ worker'[w] = Taking(k)
       /\ \A x \in JobIds \ {w} : worker'[x] = worker[x]
    BY <1>1, <1>5, <1>9 DEF QueueTyped
<1>11. /\ DOMAIN state' = DOMAIN state /\ state'[r] = Tail(state[r])
       /\ \A x \in DOMAIN state : x # r => state'[x] = state[x]
       /\ state' = [x \in DOMAIN state' |-> state'[x]]
    BY <1>3, <1>5
<1>12. /\ ran[r] \in Seq(Ids) /\ ran' \in [Repos -> Seq(Ids)] /\ ran'[r] = Append(ran[r], k)
       /\ \A x \in Repos \ {r} : ran'[x] = ran[x]
  <2>1. ran[r] \in Seq(Ids)
    BY <1>1, <1>3 DEF QueueTyped
  <2>2. Append(ran[r], k) \in Seq(Ids)
    BY <1>7, <2>1, AppendProperties
  <2> QED
    BY <1>1, <1>3, <1>5, <2>1, <2>2 DEF QueueTyped
<1>13. /\ PendingOf(r) = state[r] /\ PendingOf(r)' = Tail(state[r])
       /\ \A x \in Repos \ {r} : PendingOf(x)' = PendingOf(x)
  <2>1. PendingOf(r)' = Tail(state[r])
    <3>1. RepoOf(w) = r
      OBVIOUS
    <3> QED
      BY <1>3, <1>11 DEF PendingOf
  <2> QED
    BY <1>3, <1>11, <2>1 DEF PendingOf
<1>14. /\ Increasing(ran[r]) /\ Increasing(state[r])
       /\ \A a \in Elements(ran[r]), b \in Elements(state[r]) : a < b
       /\ Elements(ran[r]) \cup Elements(state[r]) = JobsOf(r)
    BY <1>1, <1>3, <1>13 DEF QueueOK
<1>15. k \in JobsOf(r) /\ jobs[k].repo = r
    BY <1>7, <1>14 DEF JobsOf
<1>16. QueueTyped'
  <2>1. \A x \in DOMAIN state' : state'[x] \in Seq(Ids)
    BY <1>1, <1>7, <1>11 DEF QueueTyped
  <2> QED
    BY <1>1, <1>5, <1>8, <1>10, <1>11, <1>12, <2>1 DEF QueueTyped, Worker, Job
<1>17. \A x \in JobIds : (Working(x)' <=> Working(x)) /\ (Live(x)' <=> Live(x))
    BY <1>2, <1>9, <1>10 DEF Working, Live
<1>18. \A x \in JobIds : RepoOf(x)' = RepoOf(x)
  <2>1. RepoOf(w)' = RepoOf(w)
    BY <1>5, <1>9, <1>10, <1>15 DEF RepoOf
  <2>2. \A x \in JobIds \ {w} : RepoOf(x)' = RepoOf(x)
    BY <1>5, <1>10 DEF RepoOf
  <2> QED
    BY <2>1, <2>2
<1>19. WorkersOK'
  <2>1. ASSUME NEW x \in JobIds
        PROVE  /\ worker'[x].pc # "none" => x <= Len(jobs')
               /\ Working(x)' => worker'[x].job \in Ids' /\ RepoOf(x)' \in DOMAIN state'
               /\ worker'[x].pc # "insert" => worker'[x].todo = {}
               /\ worker'[x].pc = "insert" => worker'[x].todo # {}
    <3>1. CASE x = w
      BY <3>1, <1>1, <1>2, <1>3, <1>5, <1>7, <1>8, <1>9, <1>10, <1>11, <1>18 DEF WorkersOK
    <3>2. CASE x # w
      BY <3>2, <1>1, <1>5, <1>8, <1>10, <1>11, <1>17, <1>18 DEF WorkersOK
    <3> QED
      BY <3>1, <3>2
  <2>2. \A x, y \in JobIds : Working(x)' /\ Working(y)' /\ RepoOf(x)' = RepoOf(y)' => x = y
    BY <1>1, <1>17, <1>18 DEF WorkersOK
  <2>3. \A y \in DOMAIN state' : \E x \in JobIds : Working(x)' /\ RepoOf(x)' = y
    BY <1>1, <1>11, <1>17, <1>18 DEF WorkersOK
  <2> QED
    BY <1>11, <2>1, <2>2, <2>3 DEF WorkersOK
<1>20. QueueOK'
  <2>1. ASSUME NEW x \in Repos
        PROVE  /\ Increasing(ran'[x]) /\ Increasing(PendingOf(x)')
               /\ \A a \in Elements(ran'[x]), b \in Elements(PendingOf(x)') : a < b
               /\ Elements(ran'[x]) \cup Elements(PendingOf(x)') = JobsOf(x)'
    <3>0. JobsOf(x)' = JobsOf(x)
      BY <1>5 DEF JobsOf, Ids
    <3>1. CASE x = r
      <4>0. /\ Seq(Ids) \subseteq Seq(Nat) /\ Elements(ran[r]) \subseteq Nat
            /\ Elements(Tail(state[r])) \subseteq Elements(state[r]) /\ k \in Elements(state[r])
        <5>1. Elements(ran[r]) \subseteq Ids /\ Ids \subseteq Nat
          BY <1>12 DEF Elements, Ids
        <5> QED
          BY <5>1, <1>7, SeqMonotonic
      <4>1. /\ Elements(Append(ran[r], k)) = Elements(ran[r]) \cup {k}
            /\ Increasing(Append(ran[r], k))
        BY <4>0, <1>8, <1>12, <1>14, AppendElements
      <4>2. ran'[x] = Append(ran[r], k) /\ PendingOf(x)' = Tail(state[r])
        BY <3>1, <1>12, <1>13
      <4>3. \A a \in Elements(ran[r]) \cup {k}, b \in Elements(Tail(state[r])) : a < b
        BY <4>0, <1>7, <1>14
      <4>4. Elements(ran[r]) \cup {k} \cup Elements(Tail(state[r])) = JobsOf(r)
        BY <1>7, <1>14
      <4> QED
        BY <3>0, <3>1, <4>1, <4>2, <4>3, <4>4, <1>7, <1>14
    <3>2. CASE x # r
      BY <3>0, <3>2, <1>1, <1>12, <1>13 DEF QueueOK
    <3> QED
      BY <3>1, <3>2
  <2> QED
    BY <2>1 DEF QueueOK, Elements, Increasing
<1>21. WgOK'
    BY <1>1, <1>5, <1>17 DEF WgOK
<1>22. worker'[w].pc = "since" /\ worker'[w].job = k
    BY <1>9, <1>10
<1>23. Elements(PendingOf(r)) = {k} \cup Elements(PendingOf(r)')
    BY <1>7, <1>13
<1> QED
    BY <1>3, <1>5, <1>10, <1>13, <1>15, <1>16, <1>19, <1>20, <1>21, <1>22, <1>23 DEF QueuePart

\* With nothing pending the worker takes its repository's entry with it.
LEMMA LeavesIdle ==
    ASSUME BackfillerAssumption, QueuePart, NEW w \in JobIds, NextJob(w), NEW r, r = RepoOf(w),
           state[r] = <<>>
    PROVE  /\ QueuePart' /\ r \in Repos /\ UNCHANGED jobs
           /\ worker'[w].pc = "exit"
           /\ \A x \in JobIds \ {w} : worker'[x] = worker[x]
           /\ \A x \in Repos : PendingOf(x)' = PendingOf(x)
<1>1. QueueTyped /\ WorkersOK /\ QueueOK /\ WgOK
    BY DEF QueuePart
<1>2. worker[w].pc = "next" /\ Working(w) /\ Live(w)
    BY DEF NextJob, Working, Live
<1>3. r \in DOMAIN state /\ r \in Repos
    BY <1>1, <1>2 DEF WorkersOK, QueueTyped
<1>5. /\ state' = [x \in DOMAIN state \ {r} |-> state[x]]
      /\ worker' = [worker EXCEPT ![w] = Leaving]
      /\ UNCHANGED <<jobs, wg, ran>>
    BY DEF NextJob, WithoutEntry
<1>8. Ids' = Ids
    BY <1>5 DEF Ids
<1>9. Leaving \in Worker /\ Leaving.pc = "exit" /\ Leaving.todo = {}
    BY DEF Leaving, NoWorker, Worker, Place, BackfillerAssumption
<1>10. /\ worker' \in [JobIds -> Worker] /\ worker'[w] = Leaving
       /\ \A x \in JobIds \ {w} : worker'[x] = worker[x]
    BY <1>1, <1>5, <1>9 DEF QueueTyped
<1>11. /\ DOMAIN state' = DOMAIN state \ {r}
       /\ \A x \in DOMAIN state : x # r => state'[x] = state[x]
       /\ state' = [x \in DOMAIN state' |-> state'[x]]
    BY <1>5
<1>13. \A x \in Repos : PendingOf(x)' = PendingOf(x)
    BY <1>3, <1>11 DEF PendingOf
<1>16. QueueTyped'
    BY <1>1, <1>5, <1>8, <1>10, <1>11 DEF QueueTyped, Worker, Job
<1>17. /\ \A x \in JobIds \ {w} : (Working(x)' <=> Working(x)) /\ RepoOf(x)' = RepoOf(x)
       /\ ~Working(w)' /\ (\A x \in JobIds : Live(x)' <=> Live(x))
    BY <1>2, <1>5, <1>9, <1>10 DEF Working, Live, RepoOf
<1>19. WorkersOK'
  <2>1. ASSUME NEW x \in JobIds
        PROVE  /\ worker'[x].pc # "none" => x <= Len(jobs')
               /\ Working(x)' => worker'[x].job \in Ids' /\ RepoOf(x)' \in DOMAIN state'
               /\ worker'[x].pc # "insert" => worker'[x].todo = {}
               /\ worker'[x].pc = "insert" => worker'[x].todo # {}
    <3>1. CASE x = w
      BY <3>1, <1>1, <1>2, <1>5, <1>9, <1>10, <1>17 DEF WorkersOK
    <3>2. CASE x # w
      <4>1. Working(x) => RepoOf(x) # r
        BY <3>2, <1>1, <1>2 DEF WorkersOK
      <4> QED
        BY <3>2, <4>1, <1>1, <1>5, <1>8, <1>10, <1>11, <1>17 DEF WorkersOK
    <3> QED
      BY <3>1, <3>2
  <2>2. \A x, y \in JobIds : Working(x)' /\ Working(y)' /\ RepoOf(x)' = RepoOf(y)' => x = y
    BY <1>1, <1>17 DEF WorkersOK
  <2>3. \A y \in DOMAIN state' : \E x \in JobIds : Working(x)' /\ RepoOf(x)' = y
    BY <1>1, <1>11, <1>17 DEF WorkersOK
  <2> QED
    BY <1>11, <2>1, <2>2, <2>3 DEF WorkersOK
<1>20. QueueOK'
  <2>1. ASSUME NEW x \in Repos
        PROVE  /\ Increasing(ran'[x]) /\ Increasing(PendingOf(x)')
               /\ \A a \in Elements(ran'[x]), b \in Elements(PendingOf(x)') : a < b
               /\ Elements(ran'[x]) \cup Elements(PendingOf(x)') = JobsOf(x)'
    <3>0. JobsOf(x)' = JobsOf(x)
      BY <1>5 DEF JobsOf, Ids
    <3> QED
      BY <3>0, <1>1, <1>5, <1>13 DEF QueueOK
  <2> QED
    BY <2>1 DEF QueueOK, Elements, Increasing
<1>21. WgOK'
    BY <1>1, <1>5, <1>17 DEF WgOK
<1> QED
    BY <1>3, <1>5, <1>9, <1>10, <1>13, <1>16, <1>19, <1>20, <1>21 DEF QueuePart

\* The deferred wg.Done counts the goroutine that is gone.
LEMMA ExitStep ==
    ASSUME BackfillerAssumption, QueuePart, NEW w \in JobIds, Exit(w)
    PROVE  /\ QueuePart' /\ worker'[w].pc = "done" /\ worker[w].pc = "exit"
           /\ UNCHANGED <<state, jobs>>
           /\ \A x \in JobIds \ {w} : worker'[x] = worker[x]
<1>1. QueueTyped /\ WorkersOK /\ QueueOK /\ WgOK
    BY DEF QueuePart
<1>2. worker[w].pc = "exit" /\ Live(w) /\ ~Working(w) /\ worker[w] \in Worker
    BY <1>1 DEF Exit, Live, Working, QueueTyped
<1>3. PICK p : p = [worker[w] EXCEPT !.pc = "done"]
    OBVIOUS
<1>4. p \in Worker /\ p.pc = "done" /\ p.todo = worker[w].todo
    BY <1>2, <1>3 DEF Worker, Place
<1>5. worker' = [worker EXCEPT ![w] = p] /\ wg' = wg - 1 /\ UNCHANGED <<state, jobs, ran>>
    BY <1>3 DEF Exit
<1>6. /\ worker' \in [JobIds -> Worker] /\ worker'[w] = p
      /\ \A x \in JobIds \ {w} : worker'[x] = worker[x]
    BY <1>1, <1>4, <1>5 DEF QueueTyped
<1>7. \A x \in JobIds : /\ Working(x)' <=> Working(x)
                        /\ Working(x) => worker'[x] = worker[x] /\ RepoOf(x)' = RepoOf(x)
    BY <1>2, <1>4, <1>5, <1>6 DEF Working, RepoOf
<1>8. QueueTyped'
    BY <1>1, <1>5, <1>6 DEF QueueTyped, Ids, Worker, Job
<1>9. WorkersOK'
  <2>1. ASSUME NEW x \in JobIds
        PROVE  /\ worker'[x].pc # "none" => x <= Len(jobs')
               /\ Working(x)' => worker'[x].job \in Ids' /\ RepoOf(x)' \in DOMAIN state'
               /\ worker'[x].pc # "insert" => worker'[x].todo = {}
               /\ worker'[x].pc = "insert" => worker'[x].todo # {}
    <3>1. Working(x)' => worker'[x].job \in Ids' /\ RepoOf(x)' \in DOMAIN state'
      BY <1>1, <1>5, <1>7 DEF WorkersOK, Ids
    <3> QED
      BY <3>1, <1>1, <1>2, <1>4, <1>5, <1>6 DEF WorkersOK
  <2>2. \A x, y \in JobIds : Working(x)' /\ Working(y)' /\ RepoOf(x)' = RepoOf(y)' => x = y
    BY <1>1, <1>7 DEF WorkersOK
  <2>3. \A r \in DOMAIN state' : \E x \in JobIds : Working(x)' /\ RepoOf(x)' = r
    BY <1>1, <1>5, <1>7 DEF WorkersOK
  <2>4. state' = [r \in DOMAIN state' |-> state'[r]]
    BY <1>1, <1>5 DEF WorkersOK
  <2> QED
    BY <2>1, <2>2, <2>3, <2>4 DEF WorkersOK
<1>10. QueueOK'
    BY <1>1, <1>5, QueueStays
<1>11. WgOK'
  <2>1. LiveOnes' = LiveOnes \ {w} /\ w \in LiveOnes
    BY <1>2, <1>4, <1>6 DEF LiveOnes, Live
  <2>2. Cardinality(LiveOnes') = Cardinality(LiveOnes) - 1
    BY <2>1, LiveIsFinite, FS_RemoveElement
  <2> QED
    BY <2>2, <1>1, <1>5 DEF WgOK, LiveOnes, Live
<1> QED
    BY <1>2, <1>4, <1>5, <1>6, <1>8, <1>9, <1>10, <1>11 DEF QueuePart


-----------------------------------------------------------------------------
(* The windows. *)

\* What runOne fetches: the default branch's commits strictly between the bounds, and
\* without a lower bound all but the oldest.
LEMMA WindowIs ==
    ASSUME BackfillerAssumption, NEW s \in (0..Tip) \ Forked, NEW u \in (2..Tip) \ Forked, s < u
    PROVE  /\ Window(s, u) \subseteq Commits \ Forked
           /\ \A g \in Commits \ Forked : g \in Window(s, u) <=> s < g /\ 1 < g /\ g < u
<1> DEFINE C == {c \in Commits \ Forked : s <= c /\ c <= u}
           lo == IF s = 0 THEN 1 ELSE s
<1>1. /\ Tip \in Nat /\ s \in Nat /\ u \in Nat /\ lo \in Nat /\ lo < u /\ 1 <= lo
      /\ lo \in C /\ u \in C /\ C \subseteq lo..u /\ C \in SUBSET Nat /\ C \in SUBSET (0..Tip)
    BY DEF BackfillerAssumption, Commits
<1>2. \A g \in Commits \ Forked : (s < g /\ 1 < g /\ g < u) <=> (g \in C /\ g # lo /\ g # u)
    BY <1>1 DEF Commits
<1>3. Window(s, u) = IF Cardinality(C) <= 2 THEN {} ELSE C \ {Max(C), Min(C)}
    BY DEF Window
<1>0. u \in Nat /\ lo \in Nat /\ lo < u
    BY <1>1
<1> HIDE DEF lo, C
<1>4. Max(C) = u
  <2>1. Max(C) \in C /\ u <= Max(C)
    BY <1>1, MaxIsIn
  <2>2. Max(C) \in lo..u
    BY <1>1, <2>1, Zenon
  <2> QED
    BY <1>0, <2>1, <2>2
<1>5. Min(C) = lo
  <2>1. Min(C) \in C /\ Min(C) <= lo
    BY <1>1, MinIsIn
  <2>2. Min(C) \in lo..u
    BY <1>1, <2>1, Zenon
  <2> QED
    BY <1>0, <2>1, <2>2
<1>6. CASE Cardinality(C) <= 2
  <2>1. IsFiniteSet(lo..u) /\ IsFiniteSet(C) /\ Cardinality(C) \in Nat
    <3>1. IsFiniteSet(lo..u)
      BY <1>0, FS_Interval
    <3>2. C \in SUBSET (lo..u)
      BY <1>1
    <3> QED
      BY <3>1, <3>2, FS_Subset, FS_CardinalityType
  <2>2. IsFiniteSet({lo}) /\ Cardinality({lo}) = 1
    BY FS_Singleton
  <2>3. Cardinality({lo} \cup {u}) = 2
    <3>1. u \notin {lo}
      BY <1>0
    <3>2. Cardinality({lo} \cup {u}) = Cardinality({lo}) + 1
      BY <3>1, <2>2, FS_AddElement, Zenon
    <3>3. Cardinality({lo} \cup {u}) = 1 + 1
      BY <3>2, <2>2, Zenon
    <3>4. 1 + 1 = 2
      OBVIOUS
    <3> QED
      BY <3>3, <3>4, Zenon
  <2>4. {lo} \cup {u} \subseteq C
    BY <1>1
  <2>5. C = {lo} \cup {u}
    BY <1>6, <2>1, <2>3, <2>4, FS_Subset
  <2>6. Window(s, u) = {}
    BY <1>3, <1>6
  <2> QED
    BY <1>2, <2>5, <2>6
<1>7. CASE ~(Cardinality(C) <= 2)
  <2>1. Window(s, u) = C \ {u, lo}
    BY <1>3, <1>4, <1>5, <1>7
  <2>2. C \subseteq Commits \ Forked
    BY DEF C
  <2> QED
    BY <1>2, <2>1, <2>2
<1> QED
    BY <1>6, <1>7

\* The lower bound that runOne looks up.
LEMMA SinceIs ==
    ASSUME BackfillerAssumption, RowsTyped, NEW r \in Repos, NEW u \in Commits
    PROVE  Since(r, u) \in tracked[r] \cup {0} /\ Since(r, u) < u /\ Since(r, u) \in 0..Tip
<1> DEFINE earlier == {c \in tracked[r] : c < u}
<1>1. earlier \in SUBSET (0..Tip) /\ Tip \in Nat /\ u \in Nat /\ 0 < u
    BY DEF BackfillerAssumption, RowsTyped, Commits
<1>2. Since(r, u) = IF earlier = {} THEN 0 ELSE Max(earlier)
    BY DEF Since
<1>3. CASE earlier = {}
    BY <1>1, <1>2, <1>3
<1>4. CASE earlier # {}
  <2>1. Max(earlier) \in earlier
    BY <1>1, <1>4, MaxIsIn
  <2> QED
    BY <1>1, <1>2, <1>4, <2>1
<1> QED
    BY <1>3, <1>4

\* A repository's worker is the only one that inserts, or that looks up or fetches.
OwingBy(w, r, g, c) ==
    \/ \E k \in Elements(PendingOf(r)) : g < jobs[k].until /\ jobs[k].until <= c
    \/ worker[w].pc \in {"since", "fetch"} /\ g < UntilOf(w) /\ UntilOf(w) <= c
    \/ g \in worker[w].todo

\* Only a repository's one worker owes it anything besides what is pending.
LEMMA OneOwer ==
    ASSUME WorkersOK, NEW w \in JobIds, Working(w), NEW r, r = RepoOf(w)
    PROVE  /\ Inserting(r) = worker[w].todo
           /\ \A g, c : Owing(r, g, c) <=> OwingBy(w, r, g, c)
<1>1. \A v \in JobIds : worker[v].pc \in {"since", "fetch", "insert"} /\ RepoOf(v) = r => v = w
    BY DEF WorkersOK, Working
<1>2. worker[w].pc # "insert" => worker[w].todo = {}
    BY DEF WorkersOK
<1>3. Inserting(r) = worker[w].todo
    BY <1>1, <1>2 DEF Inserting
<1> QED
    BY <1>1, <1>3 DEF Owing, OwingBy

\* The same after a step.
LEMMA OneOwerNext ==
    ASSUME WorkersOK', NEW w \in JobIds, Working(w)', NEW r, r = RepoOf(w)'
    PROVE  /\ Inserting(r)' = worker'[w].todo
           /\ \A g, c : Owing(r, g, c)' <=> OwingBy(w, r, g, c)'
<1>1. \A v \in JobIds : worker'[v].pc \in {"since", "fetch", "insert"} /\ RepoOf(v)' = r => v = w
    BY DEF WorkersOK, Working
<1>2. worker'[w].pc # "insert" => worker'[w].todo = {}
    BY DEF WorkersOK
<1>3. Inserting(r)' = worker'[w].todo
    BY <1>1, <1>2 DEF Inserting
<1> QED
    BY <1>1, <1>3 DEF Owing, OwingBy


Busy == {"since", "fetch", "insert"}

\* What a worker does to its own repository's debts it does to no other's.
LEMMA OtherRepos ==
    ASSUME NEW w \in JobIds, UNCHANGED jobs, \A y \in JobIds \ {w} : worker'[y] = worker[y],
           NEW x \in Repos, PendingOf(x)' = PendingOf(x),
           worker[w].pc \in Busy => RepoOf(w) # x, worker'[w].pc \in Busy => RepoOf(w)' # x
    PROVE  /\ Inserting(x)' = Inserting(x) /\ JobsOf(x)' = JobsOf(x)
           /\ \A g, c : Owing(x, g, c)' <=> Owing(x, g, c)
<1>1. \A y \in JobIds : /\ worker[y].pc \in Busy /\ RepoOf(y) = x => y # w
                        /\ worker'[y].pc \in Busy /\ RepoOf(y)' = x => y # w
    OBVIOUS
<1>2. \A y \in JobIds \ {w} : worker'[y] = worker[y] /\ RepoOf(y)' = RepoOf(y) /\ UntilOf(y)' = UntilOf(y)
    BY DEF RepoOf, UntilOf
<1>3. {y \in JobIds : worker[y].pc = "insert" /\ RepoOf(y) = x}'
        = {y \in JobIds : worker[y].pc = "insert" /\ RepoOf(y) = x}
    BY <1>1, <1>2 DEF Busy
<1>4. Inserting(x)' = Inserting(x)
  <2>1. \A y \in {y \in JobIds : worker[y].pc = "insert" /\ RepoOf(y) = x} : worker'[y].todo = worker[y].todo
    BY <1>1, <1>2 DEF Busy
  <2> QED
    BY <1>3, <2>1 DEF Inserting
<1>5. JobsOf(x)' = JobsOf(x)
    BY DEF JobsOf, Ids
<1>6. ASSUME NEW g, NEW c
      PROVE  (\E y \in JobIds : /\ worker'[y].pc \in {"since", "fetch"} /\ RepoOf(y)' = x
                                /\ g < UntilOf(y)' /\ UntilOf(y)' <= c)
             <=> (\E y \in JobIds : /\ worker[y].pc \in {"since", "fetch"} /\ RepoOf(y) = x
                                    /\ g < UntilOf(y) /\ UntilOf(y) <= c)
    BY <1>1, <1>2 DEF Busy
<1> QED
    BY <1>4, <1>5, <1>6 DEF Owing, Elements

\* A debt is paid or stays.
LEMMA DebtsKept ==
    ASSUME NEW x \in Repos, DebtsOf(x), Marks(x)' \subseteq Marks(x),
           \A g : Covered(x, g) => Covered(x, g)',
           \A g, c : Owing(x, g, c) => Owing(x, g, c)' \/ Covered(x, g)'
    PROVE  DebtsOf(x)'
<1>1. ASSUME NEW c \in Marks(x)', NEW g \in 2..(c - 1) PROVE Covered(x, g)' \/ Owing(x, g, c)'
    BY DEF DebtsOf
<1> QED
    BY <1>1 DEF DebtsOf

\* The rows stay in order where nothing is written.
LEMMA RowsStay ==
    ASSUME RowsOK, UNCHANGED <<tracked, unknown, asked, jobs>>, hurt \subseteq hurt'
    PROVE  RowsOK'
    BY DEF RowsOK, JobsOf, Ids

\* A worker between two jobs, or leaving, owes nothing of its own.
LEMMA Unburdened ==
    ASSUME WindowsOK, WorkersOK, NEW w \in JobIds, worker[w].pc \notin Busy, worker'[w].pc \notin Busy,
           WorkersOK', \A y \in JobIds \ {w} : worker'[y] = worker[y],
           \A x \in Repos : PendingOf(x)' = PendingOf(x),
           UNCHANGED <<tracked, unknown, asked, jobs, hurt>>
    PROVE  WindowsOK'
<1>1. RowsOK'
    BY RowsStay DEF WindowsOK
<1>2. BoundsOK'
  <2>1. \A j \in Ids' : jobs'[j].until \in (2..Tip) \ Forked
    BY DEF WindowsOK, BoundsOK, Ids
  <2>2. ASSUME NEW y \in JobIds
        PROVE  /\ worker'[y].todo \cap Forked = {}
               /\ worker'[y].pc = "fetch" =>
                    worker'[y].since \in tracked'[RepoOf(y)'] \cup {0} /\ worker'[y].since < UntilOf(y)'
    <3>1. CASE y = w
      BY <3>1 DEF WorkersOK, Busy
    <3>2. CASE y # w
      BY <3>2 DEF WindowsOK, BoundsOK, RepoOf, UntilOf
    <3> QED
      BY <3>1, <3>2
  <2> QED
    BY <2>1, <2>2 DEF BoundsOK
<1>3. DebtsOK'
  <2>1. ASSUME NEW x \in Repos \ hurt PROVE DebtsOf(x)'
    <3>1. /\ Inserting(x)' = Inserting(x) /\ JobsOf(x)' = JobsOf(x)
          /\ \A g, c : Owing(x, g, c)' <=> Owing(x, g, c)
      BY OtherRepos
    <3>2. Marks(x)' = Marks(x) /\ \A g : Covered(x, g)' <=> Covered(x, g)
      BY <3>1 DEF Marks, Covered
    <3>3. DebtsOf(x)
      BY DEF WindowsOK, DebtsOK
    <3> QED
      BY <3>1, <3>2, <3>3, DebtsKept
  <2> QED
    BY <2>1 DEF DebtsOK
<1> QED
    BY <1>1, <1>2, <1>3 DEF WindowsOK


\* The worker's own bounds, where only its record changes.
LEMMA BoundsMoved ==
    ASSUME BoundsOK, NEW w \in JobIds, NEW p, Moved(w, p), UNCHANGED jobs,
           \A x \in Repos : tracked[x] \subseteq tracked'[x],
           \A y \in JobIds : worker[y].pc = "fetch" => RepoOf(y) \in Repos,
           p.todo \cap Forked = {},
           p.pc = "fetch" => p.since \in tracked'[RepoOf(w)] \cup {0} /\ p.since < UntilOf(w)
    PROVE  BoundsOK'
<1>1. \A j \in Ids' : jobs'[j].until \in (2..Tip) \ Forked
    BY DEF BoundsOK, Ids
<1>2. ASSUME NEW y \in JobIds
      PROVE  /\ worker'[y].todo \cap Forked = {}
             /\ worker'[y].pc = "fetch" =>
                  worker'[y].since \in tracked'[RepoOf(y)'] \cup {0} /\ worker'[y].since < UntilOf(y)'
  <2>1. CASE y = w
    BY <2>1 DEF Moved
  <2>2. CASE y # w
    BY <2>2 DEF Moved, BoundsOK
  <2> QED
    BY <2>1, <2>2
<1> QED
    BY <1>1, <1>2 DEF BoundsOK

\* Where a worker's repository and window are.
LEMMA WorkingIn ==
    ASSUME BackfillerAssumption, QueuePart, BoundsOK, NEW w \in JobIds, Working(w)
    PROVE  /\ RepoOf(w) \in Repos /\ UntilOf(w) \in (2..Tip) \ Forked
           /\ worker[w] \in Worker /\ worker[w].job \in Ids
<1>1. QueueTyped /\ WorkersOK
    BY DEF QueuePart
<1>2. RepoOf(w) \in Repos /\ worker[w].job \in Ids
    BY <1>1 DEF WorkersOK, QueueTyped
<1>3. UntilOf(w) \in (2..Tip) \ Forked
    BY <1>2 DEF BoundsOK, UntilOf
<1> QED
    BY <1>1, <1>2, <1>3 DEF QueueTyped

\* Every busy worker is one of a known repository.
LEMMA BusyRepos ==
    ASSUME QueuePart
    PROVE  \A y \in JobIds : worker[y].pc = "fetch" => RepoOf(y) \in Repos
    BY DEF QueuePart, QueueTyped, WorkersOK, Working

\* runOne reads its lower bound: what the window leaves out below it is owed by nobody or covered.
LEMMA SinceBoundStep ==
    ASSUME BackfillerAssumption, QueuePart, RowsTyped, WindowsOK, NEW w \in JobIds, SinceBound(w)
    PROVE  QueuePart' /\ WindowsOK'
<1>1. PICK r : r = RepoOf(w)
    OBVIOUS
<1>2. BoundsOK /\ RowsOK /\ DebtsOK /\ WorkersOK
    BY DEF WindowsOK, QueuePart
<1>3. worker[w].pc = "since" /\ Working(w) /\ UNCHANGED <<state, jobs, wg, ran, tracked, unknown, asked, hurt>>
    BY DEF SinceBound, Working, history
<1>4. /\ r \in Repos /\ UntilOf(w) \in Commits /\ worker[w] \in Worker
  <2>1. r \in Repos /\ UntilOf(w) \in (2..Tip) \ Forked /\ worker[w] \in Worker
    BY <1>1, <1>2, <1>3, WorkingIn
  <2> QED
    BY <2>1 DEF Commits, BackfillerAssumption
<1>5. Since(r, UntilOf(w)) \in tracked[r] \cup {0} /\ Since(r, UntilOf(w)) < UntilOf(w)
      /\ Since(r, UntilOf(w)) \in 0..Tip
    BY <1>4, SinceIs
<1>6. PICK p : p = [worker[w] EXCEPT !.pc = "fetch", !.since = Since(r, UntilOf(w))]
    OBVIOUS
<1>7. /\ p \in Worker /\ p.pc = "fetch" /\ p.since = Since(r, UntilOf(w))
      /\ p.job = worker[w].job /\ p.todo = worker[w].todo
    BY <1>4, <1>5, <1>6 DEF Worker, Place
<1>8. worker' = [worker EXCEPT ![w] = p]
    BY <1>1, <1>6 DEF SinceBound
<1>9. p.todo = {} /\ worker[w].todo = {}
    BY <1>2, <1>3, <1>7 DEF WorkersOK
<1>10. Moved(w, p)
    BY <1>3, <1>7, <1>8, <1>9, WorkerMoves DEF InLoop
<1>11. BoundsOK'
    BY <1>1, <1>2, <1>3, <1>5, <1>7, <1>9, <1>10, BoundsMoved, BusyRepos
<1>12. RowsOK'
    BY <1>2, <1>3, RowsStay
<1>13. DebtsOK'
  <2>1. ASSUME NEW x \in Repos \ hurt PROVE DebtsOf(x)'
    <3>1. DebtsOf(x) /\ PendingOf(x)' = PendingOf(x) /\ JobsOf(x)' = JobsOf(x)
      BY <1>2, <1>3, <1>10 DEF DebtsOK, Moved, JobsOf, Ids
    <3>2. Inserting(x)' = Inserting(x)
      BY <1>3, <1>7, <1>10 DEF Inserting, Moved
    <3>3. \A g, c : Owing(x, g, c) => Owing(x, g, c)'
      <4>1. \A y \in JobIds : worker[y].pc \in {"since", "fetch"} => worker'[y].pc \in {"since", "fetch"}
        BY <1>7, <1>10 DEF Moved
      <4>2. \A y \in JobIds : RepoOf(y)' = RepoOf(y) /\ UntilOf(y)' = UntilOf(y)
        BY <1>10 DEF Moved
      <4> QED
        BY <3>1, <3>2, <4>1, <4>2, <1>3 DEF Owing, Elements
    <3>4. Marks(x)' = Marks(x) /\ \A g : Covered(x, g)' <=> Covered(x, g)
      BY <3>1, <3>2, <1>3 DEF Marks, Covered
    <3> QED
      BY <3>1, <3>3, <3>4, DebtsKept
  <2> QED
    BY <2>1, <1>3 DEF DebtsOK
<1> QED
    BY <1>10, <1>11, <1>12, <1>13 DEF Moved, WindowsOK

\* A worker gives a fault of its own, or what it loses to one, to its repository's charge.
LEMMA HurtMoves ==
    ASSUME BackfillerAssumption, QueuePart, WindowsOK, NEW w \in JobIds, NEW r, r = RepoOf(w),
           NEW p, Moved(w, p), UNCHANGED <<jobs, tracked, unknown, asked>>,
           p.pc = "fetch" => p.since = worker[w].since /\ worker[w].pc = "fetch",
           p.todo \subseteq worker[w].todo, hurt' = hurt \cup {r}
    PROVE  WindowsOK'
<1>1. BoundsOK /\ RowsOK /\ DebtsOK
    BY DEF WindowsOK
<1>2. RowsOK'
    BY <1>1, RowsStay
<1>3. BoundsOK'
    BY <1>1, BoundsMoved, BusyRepos DEF BoundsOK
<1>4. ASSUME NEW x \in Repos \ hurt' PROVE DebtsOf(x)'
  <2>1. x # r /\ x \notin hurt /\ DebtsOf(x) /\ PendingOf(x)' = PendingOf(x) /\ RepoOf(w)' # x
    BY <1>1, <1>4 DEF DebtsOK, Moved
  <2>2. \A y \in JobIds \ {w} : worker'[y] = worker[y]
    BY DEF Moved
  <2>3. /\ Inserting(x)' = Inserting(x) /\ JobsOf(x)' = JobsOf(x)
        /\ \A g, c : Owing(x, g, c)' <=> Owing(x, g, c)
    BY <2>1, <2>2, OtherRepos
  <2>4. Marks(x)' = Marks(x) /\ \A g : Covered(x, g)' <=> Covered(x, g)
    BY <2>3 DEF Marks, Covered
  <2> QED
    BY <2>1, <2>3, <2>4, DebtsKept
<1> QED
    BY <1>2, <1>3, <1>4 DEF WindowsOK, DebtsOK


\* What was owed by the worker that has its window now is in the window, below a row that
\* bounds it, or owed already by a job that is pending.
LEMMA FetchWindowStep ==
    ASSUME BackfillerAssumption, QueuePart, RowsTyped, WindowsOK, NEW w \in JobIds, FetchWindow(w)
    PROVE  QueuePart' /\ WindowsOK'
<1>1. PICK r, u, s : r = RepoOf(w) /\ u = UntilOf(w) /\ s = worker[w].since
    OBVIOUS
<1>2. BoundsOK /\ RowsOK /\ DebtsOK /\ WorkersOK
    BY DEF WindowsOK, QueuePart
<1>3. worker[w].pc = "fetch" /\ Working(w) /\ UNCHANGED <<state, jobs, wg, ran, tracked, unknown, asked, hurt>>
    BY DEF FetchWindow, Working, history
<1>4. r \in Repos /\ u \in (2..Tip) \ Forked /\ worker[w] \in Worker
    BY <1>1, <1>2, <1>3, WorkingIn
<1>5. s \in tracked[r] \cup {0} /\ s < u /\ s \in 0..Tip
    BY <1>1, <1>2, <1>3, <1>4 DEF BoundsOK, Worker
<1>6. PICK todo : todo = Window(s, u)
    OBVIOUS
<1>7. todo \subseteq Commits \ Forked
    BY <1>6 DEF Window
<1>0. PICK place : place = IF todo = {} THEN "next" ELSE "insert"
    OBVIOUS
<1>8. PICK p : p = [worker[w] EXCEPT !.todo = todo, !.since = 0, !.pc = place]
    OBVIOUS
<1>9. /\ p \in Worker /\ p.todo = todo /\ p.job = worker[w].job
      /\ p.pc = IF todo = {} THEN "next" ELSE "insert"
  <2>1. place \in Place /\ 0 \in 0..Tip /\ todo \subseteq Commits
    BY <1>0, <1>7 DEF Place, BackfillerAssumption
  <2>2. p \in Worker /\ p.pc = place /\ p.todo = todo /\ p.job = worker[w].job
    BY <1>4, <1>8, <2>1 DEF Worker
  <2> QED
    BY <2>2, <1>0
<1>10. worker' = [worker EXCEPT ![w] = p]
    BY <1>0, <1>1, <1>6, <1>8 DEF FetchWindow
<1>11. Moved(w, p)
    BY <1>3, <1>9, <1>10, WorkerMoves DEF InLoop
<1>12. BoundsOK'
  <2>1. p.todo \cap Forked = {} /\ p.pc # "fetch"
    BY <1>7, <1>9
  <2> QED
    BY <2>1, <1>2, <1>3, <1>11, BoundsMoved, BusyRepos
<1>13. RowsOK'
    BY <1>2, <1>3, RowsStay
<1>14. ASSUME NEW x \in Repos \ hurt, x # r PROVE DebtsOf(x)'
  <2>1. DebtsOf(x) /\ PendingOf(x)' = PendingOf(x) /\ RepoOf(w)' # x /\ RepoOf(w) # x
    BY <1>1, <1>2, <1>14, <1>11 DEF DebtsOK, Moved
  <2>2. \A y \in JobIds \ {w} : worker'[y] = worker[y]
    BY <1>11 DEF Moved
  <2>3. /\ Inserting(x)' = Inserting(x) /\ JobsOf(x)' = JobsOf(x)
        /\ \A g, c : Owing(x, g, c)' <=> Owing(x, g, c)
    BY <2>1, <2>2, <1>3, OtherRepos
  <2>4. Marks(x)' = Marks(x) /\ \A g : Covered(x, g)' <=> Covered(x, g)
    BY <2>3, <1>3 DEF Marks, Covered
  <2> QED
    BY <2>1, <2>3, <2>4, DebtsKept
<1>15. ASSUME r \notin hurt PROVE DebtsOf(r)'
  <2>0. DebtsOf(r) /\ tracked[r] \cap Forked = {} /\ tracked[r] \subseteq Commits
    BY <1>2, <1>4, <1>15 DEF DebtsOK, RowsOK, RowsTyped
  <2>1. s \in (0..Tip) \ Forked
    BY <1>5, <2>0 DEF BackfillerAssumption
  <2>2. \A g \in Commits \ Forked : g \in todo <=> s < g /\ 1 < g /\ g < u
    BY <1>4, <1>5, <1>6, <2>1, WindowIs
  <2>3. /\ Inserting(r) = {}
        /\ \A g, c : Owing(r, g, c) <=>
             \/ \E k \in Elements(PendingOf(r)) : g < jobs[k].until /\ jobs[k].until <= c
             \/ g < u /\ u <= c
    <3>1. /\ Inserting(r) = worker[w].todo /\ worker[w].todo = {}
          /\ \A g, c : Owing(r, g, c) <=> OwingBy(w, r, g, c)
      BY <1>1, <1>2, <1>3, OneOwer DEF WorkersOK
    <3> QED
      BY <3>1, <1>1, <1>3 DEF OwingBy
  <2>4. Working(w)' /\ RepoOf(w)' = r /\ WorkersOK' /\ PendingOf(r)' = PendingOf(r)
    BY <1>1, <1>4, <1>9, <1>11 DEF Moved, QueuePart, Working
  <2>5. /\ Inserting(r)' = todo
        /\ \A g, c : Owing(r, g, c)' <=>
             \/ \E k \in Elements(PendingOf(r)) : g < jobs[k].until /\ jobs[k].until <= c
             \/ g \in todo
    <3>1. /\ Inserting(r)' = worker'[w].todo
          /\ \A g, c : Owing(r, g, c)' <=> OwingBy(w, r, g, c)'
      BY <2>4, OneOwerNext
    <3>2. worker'[w] = p /\ worker'[w].pc \notin {"since", "fetch"} /\ worker'[w].todo = todo
      BY <1>9, <1>11 DEF Moved
    <3> QED
      BY <2>4, <3>1, <3>2, <1>3 DEF OwingBy, Elements
  <2>6. /\ Marks(r)' = tracked[r] \cup {jobs[j].until : j \in JobsOf(r)} \cup todo
        /\ Marks(r) = tracked[r] \cup {jobs[j].until : j \in JobsOf(r)}
    BY <1>3, <2>3, <2>5 DEF Marks, JobsOf, Ids
  <2>7. \A g : Covered(r, g)' <=> Covered(r, g)
    BY <1>3 DEF Covered
  <2>9. \A k \in Elements(PendingOf(r)) : jobs[k].until \in Nat
    <3>1. Elements(PendingOf(r)) \subseteq Ids
      BY <1>4 DEF QueuePart, QueueOK, JobsOf
    <3> QED
      BY <3>1, <1>2 DEF BoundsOK
  \* Below the window's upper bound and above nothing but the lower one.
  <2>8. ASSUME NEW c \in Nat, NEW g \in Nat, 2 <= g, g < u, s < c
        PROVE  Covered(r, g) \/ Owing(r, g, c)'
    <3>0. s \in Nat /\ u \in Nat /\ Tip \in Nat /\ u <= Tip
      BY <1>4, <1>5 DEF BackfillerAssumption
    <3>1. CASE g > s
      <4>1. g \in Commits
        BY <2>8, <3>0 DEF Commits
      <4>2. g \in Forked \/ g \in todo
        BY <2>2, <2>8, <3>1, <4>1
      <4> QED
        BY <4>2, <2>5 DEF Covered
    <3>2. CASE g = s
      <4>1. g \in tracked[r]
        BY <3>2, <2>8, <1>5
      <4> QED
        BY <4>1 DEF Covered
    <3>3. CASE g < s
      <4>1. s \in Marks(r) /\ g \in 2..(s - 1)
        BY <3>0, <3>3, <2>6, <2>8, <1>5
      <4>2. Covered(r, g) \/ Owing(r, g, s)
        BY <4>1, <2>0 DEF DebtsOf
      <4>3. ASSUME Owing(r, g, s) PROVE Owing(r, g, c)'
        <5>1. PICK k \in Elements(PendingOf(r)) : g < jobs[k].until /\ jobs[k].until <= s
          BY <4>3, <2>3, <1>5, <3>0
        <5>2. jobs[k].until <= c
          BY <5>1, <2>8, <3>0, <2>9
        <5> QED
          BY <5>1, <5>2, <2>5
      <4> QED
        BY <4>2, <4>3
    <3> QED
      BY <3>0, <3>1, <3>2, <3>3
  <2>10. ASSUME NEW c \in Marks(r)', NEW g \in 2..(c - 1) PROVE Covered(r, g)' \/ Owing(r, g, c)'
    <3>0. c \in Nat /\ g \in Nat /\ g < c /\ 2 <= g /\ s \in Nat /\ u \in Nat
      <4>1. tracked[r] \subseteq Nat /\ todo \subseteq Nat
        BY <2>0, <1>7 DEF Commits
      <4>2. \A j \in JobsOf(r) : jobs[j].until \in Nat
        BY <1>2 DEF BoundsOK, JobsOf
      <4>3. c \in Nat
        BY <4>1, <4>2, <2>6, <2>10
      <4> QED
        BY <4>3, <2>10, <1>4, <1>5
    <3>1. CASE c \in todo
      <4>1. s < c /\ c < u
        BY <3>1, <2>2, <1>7
      <4> QED
        BY <4>1, <3>0, <2>7, <2>8
    <3>2. CASE c \in Marks(r)
      <4>1. Covered(r, g) \/ Owing(r, g, c)
        BY <3>2, <2>10, <2>0 DEF DebtsOf
      <4>2. CASE g < u /\ u <= c
        <5>1. s < c
          BY <4>2, <3>0, <1>5
        <5> QED
          BY <5>1, <4>2, <3>0, <2>7, <2>8
      <4>3. CASE \E k \in Elements(PendingOf(r)) : g < jobs[k].until /\ jobs[k].until <= c
        BY <4>3, <2>5
      <4> QED
        BY <4>1, <4>2, <4>3, <2>3, <2>7
    <3> QED
      BY <3>1, <3>2, <2>6, <2>10
  <2> QED
    BY <2>10 DEF DebtsOf
<1> QED
    BY <1>3, <1>11, <1>12, <1>13, <1>14, <1>15 DEF Moved, WindowsOK, DebtsOK


\* The newest of the window is done with.
LEMMA PastNewestIs ==
    ASSUME BackfillerAssumption, QueuePart, NEW w \in JobIds, worker[w].pc = "insert"
    PROVE  \E p \in Worker : \E m \in worker[w].todo :
             /\ m = Max(worker[w].todo) /\ p.pc \in {"next", "insert"} /\ p.job = worker[w].job
             /\ p.todo = worker[w].todo \ {m} /\ (p.pc = "insert" <=> p.todo # {})
             /\ PastNewest(w) = [worker EXCEPT ![w] = p]
<1>1. worker[w] \in Worker /\ worker[w].todo # {}
    BY DEF QueuePart, QueueTyped, WorkersOK
<1>2. worker[w].todo \in SUBSET Commits
    BY <1>1 DEF Worker
<1>3. PICK m \in worker[w].todo : m = Max(worker[w].todo)
  <2>1. Tip \in Nat /\ worker[w].todo \in SUBSET (0..Tip)
    BY <1>2 DEF Commits, BackfillerAssumption
  <2> QED
    BY <1>1, <2>1, MaxIsIn
<1>4. PICK todo : todo = worker[w].todo \ {m}
    OBVIOUS
<1>5. PICK place : place = IF todo = {} THEN "next" ELSE "insert"
    OBVIOUS
<1>6. PICK p : p = [worker[w] EXCEPT !.todo = todo, !.pc = place]
    OBVIOUS
<1>7. p \in Worker /\ p.pc = place /\ p.todo = todo /\ p.job = worker[w].job
  <2>1. place \in Place /\ todo \in SUBSET Commits
    BY <1>2, <1>4, <1>5 DEF Place
  <2> QED
    BY <1>1, <1>6, <2>1 DEF Worker
<1>8. PastNewest(w) = [worker EXCEPT ![w] = p]
    BY <1>3, <1>4, <1>5, <1>6 DEF PastNewest
<1> QED
    BY <1>3, <1>4, <1>5, <1>7, <1>8

\* An insert leaves its row behind, with metadata or, if it was there before, without.
LEMMA InsertOneStep ==
    ASSUME BackfillerAssumption, QueuePart, RowsTyped, WindowsOK, NEW w \in JobIds, InsertOne(w)
    PROVE  QueuePart' /\ WindowsOK' /\ RowsTyped' /\ (\A x \in Repos : tracked[x] \subseteq tracked'[x])
<1>1. PICK r : r = RepoOf(w)
    OBVIOUS
<1>2. BoundsOK /\ RowsOK /\ DebtsOK /\ WorkersOK
    BY DEF WindowsOK, QueuePart
<1>3. worker[w].pc = "insert" /\ Working(w) /\ UNCHANGED <<state, jobs, wg, ran, unknown, asked, hurt>>
    BY DEF InsertOne, Working, history
<1>4. r \in Repos /\ worker[w] \in Worker
    BY <1>1, <1>2, <1>3, WorkingIn
<1>5. PICK p \in Worker, m \in worker[w].todo :
        /\ m = Max(worker[w].todo) /\ p.pc \in {"next", "insert"} /\ p.job = worker[w].job
        /\ p.todo = worker[w].todo \ {m} /\ (p.pc = "insert" <=> p.todo # {})
        /\ PastNewest(w) = [worker EXCEPT ![w] = p]
    BY <1>3, PastNewestIs
<1>6. worker' = [worker EXCEPT ![w] = p]
    BY <1>5 DEF InsertOne
<1>7. Moved(w, p)
    BY <1>3, <1>5, <1>6, WorkerMoves DEF InLoop
<1>8. tracked' = [tracked EXCEPT ![r] = tracked[r] \cup ({m} \ unknown[r])]
    BY <1>1, <1>5 DEF InsertOne, Stored
<1>9. m \in Commits /\ m \notin Forked
    BY <1>2, <1>4, <1>5 DEF BoundsOK, Worker
<1>10. /\ tracked' \in [Repos -> SUBSET Commits] /\ tracked'[r] = tracked[r] \cup ({m} \ unknown[r])
       /\ \A x \in Repos \ {r} : tracked'[x] = tracked[x]
    BY <1>4, <1>8, <1>9 DEF RowsTyped
<1>11. RowsTyped'
    BY <1>3, <1>10 DEF RowsTyped
<1>12. \A x \in Repos : tracked[x] \subseteq tracked'[x]
    BY <1>10
<1>13. BoundsOK'
  <2>1. p.todo \cap Forked = {} /\ p.pc # "fetch"
    BY <1>2, <1>5 DEF BoundsOK
  <2> QED
    BY <2>1, <1>2, <1>3, <1>7, <1>12, BoundsMoved, BusyRepos
<1>14. RowsOK'
  <2>1. \A x \in Repos : tracked'[x] \cap unknown'[x] = {} /\ asked'[x] \subseteq 2..Tip
    BY <1>2, <1>3, <1>10 DEF RowsOK
  <2>2. \A x \in Repos \ hurt' : tracked'[x] \cap Forked = {}
    BY <1>2, <1>3, <1>9, <1>10 DEF RowsOK
  <2>3. \A x \in Repos \ hurt' : \A c \in asked'[x] \ Forked : \E j \in JobsOf(x)' : jobs'[j].until = c
    BY <1>2, <1>3 DEF RowsOK, JobsOf, Ids
  <2> QED
    BY <2>1, <2>2, <2>3 DEF RowsOK
<1>15. ASSUME NEW x \in Repos \ hurt, x # r PROVE DebtsOf(x)'
  <2>1. DebtsOf(x) /\ PendingOf(x)' = PendingOf(x) /\ RepoOf(w)' # x /\ RepoOf(w) # x
    BY <1>1, <1>2, <1>15, <1>7 DEF DebtsOK, Moved
  <2>2. \A y \in JobIds \ {w} : worker'[y] = worker[y]
    BY <1>7 DEF Moved
  <2>3. /\ Inserting(x)' = Inserting(x) /\ JobsOf(x)' = JobsOf(x)
        /\ \A g, c : Owing(x, g, c)' <=> Owing(x, g, c)
    BY <2>1, <2>2, <1>3, OtherRepos
  <2>4. Marks(x)' = Marks(x) /\ \A g : Covered(x, g)' <=> Covered(x, g)
    BY <2>3, <1>3, <1>10, <1>15 DEF Marks, Covered
  <2> QED
    BY <2>1, <2>3, <2>4, DebtsKept
<1>16. ASSUME r \notin hurt PROVE DebtsOf(r)'
  <2>0. DebtsOf(r)
    BY <1>2, <1>4, <1>16 DEF DebtsOK
  <2>1. /\ Inserting(r) = worker[w].todo
        /\ \A g, c : Owing(r, g, c) <=> OwingBy(w, r, g, c)
    BY <1>1, <1>2, <1>3, OneOwer
  <2>2. Working(w)' /\ RepoOf(w)' = r /\ WorkersOK' /\ PendingOf(r)' = PendingOf(r) /\ worker'[w] = p
    BY <1>1, <1>4, <1>5, <1>7 DEF Moved, QueuePart, Working
  <2>3. /\ Inserting(r)' = worker'[w].todo
        /\ \A g, c : Owing(r, g, c)' <=> OwingBy(w, r, g, c)'
    BY <2>2, OneOwerNext
  <2>4. Marks(r)' \subseteq Marks(r)
    <3>1. JobsOf(r)' = JobsOf(r)
      BY <1>3 DEF JobsOf, Ids
    <3> QED
      BY <3>1, <2>1, <2>2, <2>3, <1>3, <1>5, <1>10 DEF Marks
  <2>5. \A g : Covered(r, g) => Covered(r, g)'
    BY <1>3, <1>4, <1>12 DEF Covered
  <2>6. Covered(r, m)'
    BY <1>3, <1>10 DEF Covered
  <2>7. \A g, c : Owing(r, g, c) => Owing(r, g, c)' \/ Covered(r, g)'
    <3>1. ASSUME NEW g, NEW c, OwingBy(w, r, g, c) PROVE OwingBy(w, r, g, c)' \/ Covered(r, g)'
      <4>1. CASE \E k \in Elements(PendingOf(r)) : g < jobs[k].until /\ jobs[k].until <= c
        BY <4>1, <2>2, <1>3 DEF OwingBy, Elements
      <4>2. CASE g \in worker[w].todo
        BY <4>2, <2>2, <2>6, <1>5 DEF OwingBy
      <4> QED
        BY <3>1, <4>1, <4>2, <1>3 DEF OwingBy
    <3> QED
      BY <3>1, <2>1, <2>3
  <2> QED
    BY <1>4, <2>0, <2>4, <2>5, <2>7, DebtsKept
<1> QED
    BY <1>3, <1>7, <1>11, <1>12, <1>13, <1>14, <1>15, <1>16 DEF Moved, WindowsOK, DebtsOK

\* A failing call gives up a window, and its repository is hurt.
LEMMA CallFailsStep ==
    ASSUME BackfillerAssumption, QueuePart, RowsTyped, WindowsOK, NEW w \in JobIds, CallFails(w)
    PROVE  QueuePart' /\ WindowsOK' /\ hurt' \subseteq Repos
<1>1. PICK r : r = RepoOf(w)
    OBVIOUS
<1>2. BoundsOK /\ WorkersOK
    BY DEF WindowsOK, QueuePart
<1>3. /\ worker[w].pc \in {"since", "fetch", "insert"} /\ Working(w) /\ hurt' = hurt \cup {r}
      /\ UNCHANGED <<state, jobs, wg, ran, tracked, unknown, asked>>
    BY <1>1 DEF CallFails, Working
<1>4. r \in Repos /\ worker[w] \in Worker
    BY <1>1, <1>2, <1>3, WorkingIn
<1>5. CASE worker[w].pc = "insert"
  <2>1. PICK p \in Worker, m \in worker[w].todo :
          /\ m = Max(worker[w].todo) /\ p.pc \in {"next", "insert"} /\ p.job = worker[w].job
          /\ p.todo = worker[w].todo \ {m} /\ (p.pc = "insert" <=> p.todo # {})
          /\ PastNewest(w) = [worker EXCEPT ![w] = p]
    BY <1>5, PastNewestIs
  <2>2. worker' = [worker EXCEPT ![w] = p]
    BY <2>1, <1>5 DEF CallFails
  <2>3. Moved(w, p)
    BY <1>3, <2>1, <2>2, WorkerMoves DEF InLoop
  <2>4. WindowsOK'
    BY <1>1, <1>3, <2>1, <2>3, HurtMoves
  <2> QED
    BY <1>3, <1>4, <2>3, <2>4 DEF Moved, RowsTyped
<1>6. CASE worker[w].pc # "insert"
  <2>1. PICK p : p = [worker[w] EXCEPT !.pc = "next", !.since = 0]
    OBVIOUS
  <2>2. p \in Worker /\ p.pc = "next" /\ p.todo = worker[w].todo /\ p.job = worker[w].job
    <3>1. "next" \in Place /\ 0 \in 0..Tip
      BY DEF Place, BackfillerAssumption
    <3> QED
      BY <1>4, <2>1, <3>1 DEF Worker
  <2>3. worker' = [worker EXCEPT ![w] = p]
    BY <1>6, <2>1 DEF CallFails
  <2>4. p.todo = {}
    BY <1>2, <1>6, <2>2 DEF WorkersOK
  <2>5. Moved(w, p)
    BY <1>3, <2>2, <2>3, <2>4, WorkerMoves DEF InLoop
  <2>6. WindowsOK'
    BY <1>1, <1>3, <2>2, <2>5, HurtMoves
  <2> QED
    BY <1>3, <1>4, <2>5, <2>6 DEF Moved, RowsTyped
<1> QED
    BY <1>5, <1>6

\* The mutex section between two jobs: the window taken up was owed while it was pending.
LEMMA NextJobStep ==
    ASSUME BackfillerAssumption, QueuePart, WindowsOK, NEW w \in JobIds, NextJob(w)
    PROVE  QueuePart' /\ WindowsOK'
<1>1. PICK r : r = RepoOf(w)
    OBVIOUS
<1>2. BoundsOK /\ RowsOK /\ DebtsOK /\ WorkersOK
    BY DEF WindowsOK, QueuePart
<1>3. worker[w].pc = "next" /\ Working(w) /\ UNCHANGED <<tracked, unknown, asked, hurt>>
    BY DEF NextJob, Working, history
<1>4. CASE state[r] = <<>>
  <2>1. /\ QueuePart' /\ r \in Repos /\ UNCHANGED jobs
        /\ worker'[w].pc = "exit"
        /\ \A x \in JobIds \ {w} : worker'[x] = worker[x]
        /\ \A x \in Repos : PendingOf(x)' = PendingOf(x)
    BY <1>1, <1>4, LeavesIdle
  <2>2. WorkersOK' /\ worker[w].pc \notin Busy /\ worker'[w].pc \notin Busy
    BY <2>1, <1>3 DEF QueuePart, Busy
  <2> QED
    BY <1>2, <1>3, <2>1, <2>2, Unburdened
<1>5. CASE state[r] # <<>>
  <2>1. /\ QueuePart' /\ r \in Repos /\ UNCHANGED jobs
        /\ \A x \in JobIds \ {w} : worker'[x] = worker[x]
        /\ \A x \in Repos \ {r} : PendingOf(x)' = PendingOf(x)
    BY <1>1, <1>5, TakesHead
  <2>2. PICK k \in JobsOf(r) : /\ worker'[w].pc = "since" /\ worker'[w].job = k
                               /\ Elements(PendingOf(r)) = {k} \cup Elements(PendingOf(r)')
    BY <1>1, <1>5, TakesHead
  <2>3. WorkersOK' /\ Working(w)' /\ RepoOf(w)' = r /\ UntilOf(w)' = jobs[k].until /\ worker'[w].todo = {}
    BY <2>1, <2>2 DEF QueuePart, Working, RepoOf, UntilOf, JobsOf, WorkersOK
  <2>4. RowsOK'
    BY <1>2, <1>3, <2>1, RowsStay
  <2>5. BoundsOK'
    <3>1. \A j \in Ids' : jobs'[j].until \in (2..Tip) \ Forked
      BY <1>2, <2>1 DEF BoundsOK, Ids
    <3>2. \A y \in JobIds \ {w} : RepoOf(y)' = RepoOf(y) /\ UntilOf(y)' = UntilOf(y)
      BY <2>1 DEF RepoOf, UntilOf
    <3>3. ASSUME NEW y \in JobIds
          PROVE  /\ worker'[y].todo \cap Forked = {}
                 /\ worker'[y].pc = "fetch" =>
                      worker'[y].since \in tracked'[RepoOf(y)'] \cup {0} /\ worker'[y].since < UntilOf(y)'
      <4>1. CASE y = w
        BY <4>1, <2>2, <2>3
      <4>2. CASE y # w
        BY <4>2, <1>2, <1>3, <2>1, <3>2 DEF BoundsOK
      <4> QED
        BY <4>1, <4>2
    <3> QED
      BY <3>1, <3>3 DEF BoundsOK
  <2>6. ASSUME NEW x \in Repos \ hurt, x # r PROVE DebtsOf(x)'
    <3>1. DebtsOf(x) /\ PendingOf(x)' = PendingOf(x) /\ RepoOf(w)' # x /\ RepoOf(w) # x
      BY <1>1, <1>2, <2>1, <2>3, <2>6 DEF DebtsOK
    <3>2. /\ Inserting(x)' = Inserting(x) /\ JobsOf(x)' = JobsOf(x)
          /\ \A g, c : Owing(x, g, c)' <=> Owing(x, g, c)
      BY <2>1, <3>1, OtherRepos
    <3>3. Marks(x)' = Marks(x) /\ \A g : Covered(x, g)' <=> Covered(x, g)
      BY <3>2, <1>3, <2>1 DEF Marks, Covered
    <3> QED
      BY <3>1, <3>2, <3>3, DebtsKept
  <2>7. ASSUME r \notin hurt PROVE DebtsOf(r)'
    <3>0. DebtsOf(r)
      BY <1>2, <2>1, <2>7 DEF DebtsOK
    <3>1. /\ Inserting(r) = worker[w].todo /\ worker[w].todo = {}
          /\ \A g, c : Owing(r, g, c) <=> OwingBy(w, r, g, c)
      BY <1>1, <1>2, <1>3, OneOwer DEF WorkersOK
    <3>2. /\ Inserting(r)' = worker'[w].todo
          /\ \A g, c : Owing(r, g, c)' <=> OwingBy(w, r, g, c)'
      BY <2>3, OneOwerNext
    <3>3. Marks(r)' = Marks(r) /\ \A g : Covered(r, g)' <=> Covered(r, g)
      <4>1. JobsOf(r)' = JobsOf(r)
        BY <2>1 DEF JobsOf, Ids
      <4> QED
        BY <4>1, <3>1, <3>2, <2>3, <1>3, <2>1 DEF Marks, Covered
    <3>4. ASSUME NEW g, NEW c, OwingBy(w, r, g, c) PROVE OwingBy(w, r, g, c)'
      <4>1. PICK i \in Elements(PendingOf(r)) : g < jobs[i].until /\ jobs[i].until <= c
        BY <3>1, <3>4, <1>3 DEF OwingBy
      <4>2. CASE i = k
        BY <4>1, <4>2, <2>2, <2>3 DEF OwingBy
      <4>3. CASE i \in Elements(PendingOf(r)')
        BY <4>1, <4>3, <2>1 DEF OwingBy, Elements
      <4> QED
        BY <4>1, <4>2, <4>3, <2>2
    <3> QED
      BY <2>1, <3>0, <3>1, <3>2, <3>3, <3>4, DebtsKept
  <2> QED
    BY <1>3, <2>1, <2>4, <2>5, <2>6, <2>7 DEF WindowsOK, DebtsOK
<1> QED
    BY <1>4, <1>5

\* A goroutine that ends owes nothing.
LEMMA ExitWindows ==
    ASSUME BackfillerAssumption, QueuePart, WindowsOK, NEW w \in JobIds, Exit(w)
    PROVE  QueuePart' /\ WindowsOK'
<1>1. /\ QueuePart' /\ worker'[w].pc = "done" /\ worker[w].pc = "exit"
      /\ UNCHANGED <<state, jobs>>
      /\ \A x \in JobIds \ {w} : worker'[x] = worker[x]
    BY ExitStep
<1>2. UNCHANGED <<tracked, unknown, asked, hurt>>
    BY DEF Exit, history
<1>3. WorkersOK /\ WorkersOK' /\ worker[w].pc \notin Busy /\ worker'[w].pc \notin Busy
    BY <1>1 DEF QueuePart, Busy
<1>4. \A x \in Repos : PendingOf(x)' = PendingOf(x)
    BY <1>1 DEF PendingOf
<1> QED
    BY <1>1, <1>2, <1>3, <1>4, Unburdened


\* Every step of a worker keeps the invariant, and takes no row and no job away.
LEMMA WorkerStepKeeps ==
    ASSUME BackfillerAssumption, BackfillerInv, NEW w \in JobIds, WorkerStep(w)
    PROVE  /\ BackfillerInv' /\ UNCHANGED <<jobs, lifecycle, unknown, asked, calls>>
           /\ \A x \in Repos : tracked[x] \subseteq tracked'[x]
           /\ shutdown # "returned"
<1>1. /\ QueuePart /\ LifeTyped /\ RowsTyped /\ CountsTyped /\ LifeOK /\ WindowsOK
    BY TypeParts DEF BackfillerInv, QueuePart
<1>2. /\ QueuePart' /\ WindowsOK' /\ RowsTyped' /\ (\A x \in Repos : tracked[x] \subseteq tracked'[x])
      /\ UNCHANGED <<jobs, lifecycle, unknown, asked, calls>>
  <2>1. CASE SinceBound(w)
    BY <1>1, <2>1, SinceBoundStep DEF SinceBound, RowsTyped, history
  <2>2. CASE FetchWindow(w)
    BY <1>1, <2>2, FetchWindowStep DEF FetchWindow, RowsTyped, history
  <2>3. CASE InsertOne(w)
    BY <1>1, <2>3, InsertOneStep DEF InsertOne
  <2>4. CASE CallFails(w)
    BY <1>1, <2>4, CallFailsStep DEF CallFails, RowsTyped
  <2>5. CASE NextJob(w)
    BY <1>1, <2>5, NextJobStep DEF NextJob, RowsTyped, history
  <2>6. CASE Exit(w)
    BY <1>1, <2>6, ExitWindows DEF Exit, RowsTyped, history
  <2> QED
    BY <2>1, <2>2, <2>3, <2>4, <2>5, <2>6 DEF WorkerStep
<1>3. Live(w) /\ shutdown # "returned"
  <2>1. Live(w)
    BY DEF WorkerStep, SinceBound, FetchWindow, InsertOne, CallFails, NextJob, Exit, Live
  <2> QED
    BY <1>1, <2>1 DEF LifeOK
<1>4. /\ aborted' \in BOOLEAN /\ faults' \in 0..MaxFaults
      /\ aborted' => timedOut
  <2>1. CASE CallFails(w)
    <3>1. CASE ~cancelled /\ faults < MaxFaults /\ faults' = faults + 1 /\ UNCHANGED aborted
      BY <3>1, <1>1 DEF LifeTyped, CountsTyped, LifeOK, BackfillerAssumption
    <3>2. CASE cancelled /\ aborted' = TRUE /\ UNCHANGED faults
      <4>1. timedOut
        BY <3>2, <1>1, <1>3 DEF LifeTyped, LifeOK
      <4> QED
        BY <3>2, <4>1, <1>1 DEF CountsTyped
    <3> QED
      BY <2>1, <3>1, <3>2 DEF CallFails
  <2>2. CASE ~CallFails(w)
    <3>1. UNCHANGED <<aborted, faults>>
      BY <2>2 DEF WorkerStep, SinceBound, FetchWindow, InsertOne, NextJob, Exit, history
    <3> QED
      BY <3>1, <1>1 DEF LifeTyped, CountsTyped, LifeOK
  <2> QED
    BY <2>1, <2>2
<1>5. LifeTyped' /\ CountsTyped'
    BY <1>1, <1>2, <1>4 DEF LifeTyped, CountsTyped, lifecycle
<1>6. LifeOK'
    BY <1>1, <1>2, <1>3, <1>4 DEF LifeOK, lifecycle
<1>7. TypeOK'
  <2>1. QueueTyped' /\ LifeTyped' /\ RowsTyped' /\ CountsTyped' /\ WgOK'
    BY <1>2, <1>5 DEF QueuePart
  <2> QED
    BY <2>1, TypePartsNext
<1> QED
    BY <1>2, <1>3, <1>6, <1>7 DEF BackfillerInv, QueuePart


-----------------------------------------------------------------------------
(* Submits. *)

\* A new job is owed everything below it; nothing else changes, but for its own commit's
\* row, which a repair has stored by then.
LEMMA EnqueueWindows ==
    ASSUME BackfillerAssumption, QueuePart, WindowsOK, NEW r \in Repos,
           NEW until \in (2..Tip) \ Forked, Enqueued(r, until), UNCHANGED hurt,
           \A x \in Repos : /\ tracked[x] \subseteq tracked'[x]
                            /\ tracked'[x] \subseteq tracked[x] \cup (IF x = r THEN {until} ELSE {})
                            /\ unknown[x] \subseteq tracked'[x] \cup unknown'[x]
    PROVE  /\ BoundsOK' /\ DebtsOK'
           /\ \A x \in Repos : \A i \in JobsOf(x) : i \in JobsOf(x)' /\ jobs'[i] = jobs[i]
           /\ \E i \in JobsOf(r)' : jobs'[i].until = until
<1>1. BoundsOK /\ DebtsOK /\ WorkersOK /\ QueueOK /\ WorkersOK'
    BY DEF WindowsOK, QueuePart, Enqueued
<1>2. PICK j : j = Len(jobs) + 1
    OBVIOUS
<1>3. /\ Ids' = Ids \cup {j} /\ (\A i \in Ids : jobs'[i] = jobs[i])
      /\ jobs'[j].repo = r /\ jobs'[j].until = until
  <2>1. Ids' = Ids \cup {Len(jobs) + 1} /\ (\A i \in Ids : jobs'[i] = jobs[i])
        /\ jobs'[Len(jobs) + 1] = [repo |-> r, until |-> until]
    BY Zenon DEF Enqueued, NewJob
  <2>2. jobs'[j] = [repo |-> r, until |-> until]
    BY <1>2, <2>1, Zenon
  <2>3. jobs'[j].repo = r /\ jobs'[j].until = until
    <3>1. PICK job : job = [repo |-> r, until |-> until]
      OBVIOUS
    <3>2. job.repo = r /\ job.until = until
      BY <3>1
    <3> QED
      BY <2>2, <3>1, <3>2, Zenon
  <2> QED
    BY <1>2, <2>1, <2>3, Zenon
<1>4. /\ \A y \in JobIds : worker[y].pc # "none" => worker'[y] = worker[y]
      /\ \A y \in JobIds : worker'[y].pc \in {"none", "since"} \/ worker'[y] = worker[y]
      /\ \A x \in Repos : Elements(PendingOf(x)) \subseteq Elements(PendingOf(x))'
      /\ \/ j \in Elements(PendingOf(r))'
         \/ \E w \in JobIds : worker'[w].pc = "since" /\ worker'[w].job = j
    BY <1>2 DEF Enqueued
<1>5. \A y \in JobIds : Working(y) => /\ worker'[y] = worker[y] /\ RepoOf(y)' = RepoOf(y)
                                      /\ UntilOf(y)' = UntilOf(y)
  <2>1. \A y \in JobIds : Working(y) => worker'[y] = worker[y] /\ worker[y].job \in Ids
    BY <1>1, <1>4 DEF Working, WorkersOK
  <2> QED
    BY <1>3, <2>1 DEF RepoOf, UntilOf
<1>6. BoundsOK'
  <2>1. \A i \in Ids' : jobs'[i].until \in (2..Tip) \ Forked
    BY <1>1, <1>3 DEF BoundsOK
  <2>2. ASSUME NEW y \in JobIds
        PROVE  /\ worker'[y].todo \cap Forked = {}
               /\ worker'[y].pc = "fetch" =>
                    worker'[y].since \in tracked'[RepoOf(y)'] \cup {0} /\ worker'[y].since < UntilOf(y)'
    <3>1. CASE worker'[y].pc \in {"none", "since"}
      BY <3>1, <1>1 DEF WorkersOK
    <3>2. CASE worker'[y].pc \notin {"none", "since"} /\ worker'[y] = worker[y]
      <4>1. worker'[y].todo \cap Forked = {}
        BY <3>2, <1>1 DEF BoundsOK
      <4>2. ASSUME worker'[y].pc = "fetch"
            PROVE  worker'[y].since \in tracked'[RepoOf(y)'] \cup {0} /\ worker'[y].since < UntilOf(y)'
        <5>1. Working(y) /\ worker[y].pc = "fetch"
          BY <3>2, <4>2 DEF Working
        <5>2. RepoOf(y) \in Repos
          BY <5>1, BusyRepos
        <5> QED
          BY <3>2, <5>1, <5>2, <1>1, <1>5 DEF BoundsOK
      <4> QED
        BY <4>1, <4>2
    <3> QED
      BY <3>1, <3>2, <1>4
  <2> QED
    BY <2>1, <2>2 DEF BoundsOK
<1>7. \A x \in Repos : \A i \in JobsOf(x) : i \in JobsOf(x)' /\ jobs'[i] = jobs[i]
    BY <1>3 DEF JobsOf
<1>8. j \in JobsOf(r)' /\ jobs'[j].until = until
    BY <1>3 DEF JobsOf
<1>9. ASSUME NEW x \in Repos \ hurt PROVE DebtsOf(x)'
  <2>1. DebtsOf(x) /\ Elements(PendingOf(x)) \subseteq Ids
    BY <1>1 DEF DebtsOK, QueueOK, JobsOf
  <2>2. Inserting(x)' = Inserting(x)
    <3>1. \A y \in JobIds : worker'[y].pc = "insert" <=> worker[y].pc = "insert"
      BY <1>4
    <3>2. \A y \in JobIds : worker[y].pc = "insert" => worker'[y] = worker[y] /\ RepoOf(y)' = RepoOf(y)
      BY <1>5 DEF Working
    <3>3. {y \in JobIds : worker[y].pc = "insert" /\ RepoOf(y) = x}'
            = {y \in JobIds : worker[y].pc = "insert" /\ RepoOf(y) = x}
      BY <3>1, <3>2
    <3> QED
      BY <3>2, <3>3 DEF Inserting
  <2>3. \A g, c : Owing(x, g, c) => Owing(x, g, c)'
    <3>1. ASSUME NEW g, NEW c, Owing(x, g, c) PROVE Owing(x, g, c)'
      <4>1. CASE \E k \in Elements(PendingOf(x)) : g < jobs[k].until /\ jobs[k].until <= c
        <5>1. PICK k \in Elements(PendingOf(x)) : g < jobs[k].until /\ jobs[k].until <= c
          BY <4>1
        <5>2. k \in Elements(PendingOf(x))' /\ jobs'[k] = jobs[k]
          BY <5>1, <2>1, <1>3, <1>4
        <5> QED
          BY <5>1, <5>2 DEF Owing
      <4>2. CASE \E w \in JobIds : /\ worker[w].pc \in {"since", "fetch"} /\ RepoOf(w) = x
                                   /\ g < UntilOf(w) /\ UntilOf(w) <= c
        BY <4>2, <1>5 DEF Owing, Working
      <4>3. CASE g \in Inserting(x)
        BY <4>3, <2>2 DEF Owing
      <4> QED
        BY <3>1, <4>1, <4>2, <4>3 DEF Owing
    <3> QED
      BY <3>1
  <2>4. \A g : Covered(x, g) => Covered(x, g)'
    BY DEF Covered
  <2>5. Marks(x)' \subseteq Marks(x) \cup (IF x = r THEN {until} ELSE {})
    <3>1. {jobs[i].until : i \in JobsOf(x)}'
            \subseteq {jobs[i].until : i \in JobsOf(x)} \cup (IF x = r THEN {until} ELSE {})
      BY <1>3 DEF JobsOf
    <3> QED
      BY <2>2, <3>1 DEF Marks
  <2>6. ASSUME x = r, NEW g \in 2..(until - 1) PROVE Owing(x, g, until)'
    <3>1. g < until /\ until <= until
      OBVIOUS
    <3>2. CASE j \in Elements(PendingOf(r))'
      BY <2>6, <3>1, <3>2, <1>3 DEF Owing
    <3>3. CASE \E w \in JobIds : worker'[w].pc = "since" /\ worker'[w].job = j
      <4>1. PICK w \in JobIds : worker'[w].pc = "since" /\ worker'[w].job = j
        BY <3>3
      <4>2. RepoOf(w)' = r /\ UntilOf(w)' = until
        BY <4>1, <1>3 DEF RepoOf, UntilOf
      <4> QED
        BY <2>6, <3>1, <4>1, <4>2 DEF Owing
    <3> QED
      BY <3>2, <3>3, <1>4
  <2>7. ASSUME NEW c \in Marks(x)', NEW g \in 2..(c - 1) PROVE Covered(x, g)' \/ Owing(x, g, c)'
    <3>1. CASE c \in Marks(x)
      BY <3>1, <2>1, <2>3, <2>4, <2>7 DEF DebtsOf
    <3>2. CASE x = r /\ c = until
      BY <3>2, <2>6, <2>7
    <3> QED
      BY <3>1, <3>2, <2>5, <2>7
  <2> QED
    BY <2>7 DEF DebtsOf
<1> QED
    BY <1>6, <1>7, <1>8, <1>9 DEF DebtsOK

\* A row that is stored, or filled in, where nobody is hurt, was owed its window before.
LEMMA RowWrites ==
    ASSUME BackfillerAssumption, QueuePart, RowsTyped, WindowsOK, UNCHANGED <<state, jobs, worker>>,
           RowsTyped', hurt \subseteq hurt',
           \A x \in Repos : /\ tracked[x] \subseteq tracked'[x]
                            /\ unknown[x] \subseteq tracked'[x] \cup unknown'[x]
                            /\ tracked'[x] \cap unknown'[x] = {} /\ asked'[x] \subseteq 2..Tip,
           \A x \in Repos \ hurt' :
              /\ tracked'[x] \subseteq tracked[x] \cup (asked[x] \ Forked) /\ asked'[x] \subseteq asked[x] \cup Forked
    PROVE  WindowsOK'
<1>1. BoundsOK /\ RowsOK /\ DebtsOK
    BY DEF WindowsOK
<1>2. Ids' = Ids /\ (\A x : JobsOf(x)' = JobsOf(x) /\ PendingOf(x)' = PendingOf(x) /\ Inserting(x)' = Inserting(x))
    BY DEF Ids, JobsOf, PendingOf, Inserting, RepoOf
<1>3. BoundsOK'
  <2>1. \A y \in JobIds : worker[y].pc = "fetch" => RepoOf(y) \in Repos
    BY BusyRepos
  <2> QED
    BY <1>1, <1>2, <2>1 DEF BoundsOK, RepoOf, UntilOf
<1>4. RowsOK'
  <2>1. ASSUME NEW x \in Repos \ hurt'
        PROVE  /\ tracked'[x] \cap Forked = {}
               /\ \A c \in asked'[x] \ Forked : \E j \in JobsOf(x)' : jobs'[j].until = c
    BY <1>1, <1>2 DEF RowsOK
  <2> QED
    BY <2>1 DEF RowsOK
<1>5. ASSUME NEW x \in Repos \ hurt' PROVE DebtsOf(x)'
  <2>1. x \in Repos \ hurt /\ DebtsOf(x)
    BY <1>1 DEF DebtsOK
  <2>2. \A c \in asked[x] \ Forked : \E j \in JobsOf(x) : jobs[j].until = c
    BY <1>1, <2>1 DEF RowsOK
  <2>3. Marks(x)' \subseteq Marks(x)
    BY <1>2, <2>2 DEF Marks
  <2>4. \A g : Covered(x, g) => Covered(x, g)'
    BY DEF Covered
  <2>5. \A g, c : Owing(x, g, c) => Owing(x, g, c)'
    BY <1>2 DEF Owing, Elements, RepoOf, UntilOf
  <2> QED
    BY <2>1, <2>3, <2>4, <2>5, DebtsKept
<1> QED
    BY <1>3, <1>4, <1>5 DEF WindowsOK, DebtsOK


\* The invariant, taken apart.
LEMMA InvParts ==
    ASSUME BackfillerAssumption, BackfillerInv
    PROVE  QueuePart /\ LifeTyped /\ RowsTyped /\ CountsTyped /\ LifeOK /\ WindowsOK
    BY TypeParts DEF BackfillerInv, QueuePart

\* The invariant, put together again after a step.
LEMMA InvFromParts ==
    ASSUME BackfillerAssumption, QueuePart', LifeTyped', RowsTyped', CountsTyped', LifeOK', WindowsOK'
    PROVE  BackfillerInv'
<1>1. QueueTyped' /\ WgOK' /\ WorkersOK' /\ QueueOK'
    BY DEF QueuePart
<1>2. TypeOK'
    BY <1>1, TypePartsNext
<1> QED
    BY <1>1, <1>2 DEF BackfillerInv

\* A step that leaves the queue alone keeps what is said of it.
LEMMA QueueSame ==
    ASSUME QueuePart, UNCHANGED <<state, jobs, worker, wg, ran>>
    PROVE  QueuePart'
<1>1. QueueTyped /\ WorkersOK /\ QueueOK /\ WgOK
    BY DEF QueuePart
<1>2. QueueTyped'
    BY <1>1 DEF QueueTyped, Ids
<1>3. WorkersOK'
    BY <1>1 DEF WorkersOK, Working, RepoOf, Ids
<1>4. QueueOK'
    BY <1>1, QueueStays
<1>5. WgOK'
    BY <1>1 DEF WgOK, Live
<1> QED
    BY <1>2, <1>3, <1>4, <1>5 DEF QueuePart

\* A step that leaves Shutdown alone keeps what is said of it.
LEMMA LifeStays ==
    ASSUME LifeTyped, LifeOK, UNCHANGED <<lifecycle, aborted>>, shutdown = "returned" => UNCHANGED worker
    PROVE  LifeTyped' /\ LifeOK'
    BY DEF LifeTyped, LifeOK, lifecycle, Live

\* A submit enqueues its window before it stores its row.
LEMMA ResolveStep ==
    ASSUME BackfillerAssumption, BackfillerInv, Len(jobs) <= calls,
           NEW r \in Repos, NEW c \in Benchmarked[r], Resolve(r, c)
    PROVE  BackfillerInv' /\ Len(jobs') <= calls'
<1>1. QueuePart /\ LifeTyped /\ RowsTyped /\ CountsTyped /\ LifeOK /\ WindowsOK
    BY InvParts
<1>2. /\ calls < MaxCalls /\ calls' = calls + 1 /\ asked' = [asked EXCEPT ![r] = asked[r] \cup {c}]
      /\ UNCHANGED <<lifecycle, tracked, unknown, aborted, faults>>
    BY DEF Resolve
<1>3. c \in 2..Tip /\ c \in Commits /\ Tip \in Nat
    BY DEF BackfillerAssumption, Commits
<1>4. CountsTyped' /\ Len(jobs) \in Nat /\ Len(jobs) < MaxCalls
    BY <1>1, <1>2 DEF CountsTyped, BackfillerAssumption, QueuePart, QueueTyped
<1>5. /\ asked' \in [Repos -> SUBSET Commits] /\ asked'[r] = asked[r] \cup {c}
      /\ \A x \in Repos \ {r} : asked'[x] = asked[x]
    BY <1>1, <1>2, <1>3 DEF RowsTyped
<1>6. \A x \in Repos : asked'[x] \subseteq 2..Tip /\ tracked'[x] = tracked[x] /\ unknown'[x] = unknown[x]
                       /\ tracked[x] \cap unknown[x] = {}
    BY <1>1, <1>2, <1>3, <1>5 DEF WindowsOK, RowsOK
<1>7. CASE HasJob(c) /\ Accepts
  <2>1. Enqueued(r, c) /\ UNCHANGED hurt
    BY <1>1, <1>3, <1>4, <1>7, EnqueueStep DEF Resolve
  <2>2. c \in (2..Tip) \ Forked
    BY <1>3, <1>7 DEF HasJob
  <2>3. /\ BoundsOK' /\ DebtsOK'
        /\ \A x \in Repos : \A i \in JobsOf(x) : i \in JobsOf(x)' /\ jobs'[i] = jobs[i]
        /\ \E i \in JobsOf(r)' : jobs'[i].until = c
    BY <1>1, <1>6, <2>1, <2>2, EnqueueWindows
  <2>4. RowsOK'
    <3>1. ASSUME NEW x \in Repos \ hurt, NEW d \in asked'[x] \ Forked
          PROVE  \E j \in JobsOf(x)' : jobs'[j].until = d
      <4>1. CASE d \in asked[x]
        BY <3>1, <4>1, <1>1, <2>3 DEF WindowsOK, RowsOK
      <4>2. CASE x = r /\ d = c
        BY <4>2, <2>3
      <4> QED
        BY <3>1, <4>1, <4>2, <1>5
    <3>2. \A x \in Repos \ hurt : tracked'[x] \cap Forked = {}
      BY <1>1, <1>6 DEF WindowsOK, RowsOK
    <3> QED
      BY <3>1, <3>2, <1>6, <2>1 DEF RowsOK
  <2>5. RowsTyped'
    BY <1>1, <1>2, <1>5, <2>1 DEF RowsTyped
  <2>6. QueuePart' /\ Len(jobs') = Len(jobs) + 1
    BY <2>1 DEF Enqueued, NewJob
  <2>7. LifeTyped' /\ LifeOK'
    <3>1. shutdown # "returned"
      BY <1>1, <1>7 DEF Accepts, LifeOK
    <3> QED
      BY <3>1, <1>1, <1>2, LifeStays
  <2>8. BackfillerInv'
    BY <1>4, <2>3, <2>4, <2>5, <2>6, <2>7, InvFromParts DEF WindowsOK
  <2>9. Len(jobs') <= calls'
    BY <1>1, <1>2, <1>4, <2>6 DEF CountsTyped
  <2> QED
    BY <2>8, <2>9
<1>8. CASE ~(HasJob(c) /\ Accepts)
  <2>1. /\ UNCHANGED <<state, jobs, worker, wg, ran>> /\ hurt \subseteq hurt' /\ hurt' \subseteq hurt \cup {r}
        /\ r \in hurt' \/ c \in Forked
    BY <1>8 DEF Resolve, Enqueue, HasJob
  <2>2. RowsTyped'
    BY <1>1, <1>2, <1>5, <2>1 DEF RowsTyped
  <2>3. WindowsOK'
    <3>1. ASSUME NEW x \in Repos \ hurt'
          PROVE  /\ tracked'[x] \subseteq tracked[x] \cup (asked[x] \ Forked) /\ asked'[x] \subseteq asked[x] \cup Forked
      BY <2>1, <1>5, <1>6
    <3> QED
      BY <3>1, <2>1, <2>2, <1>1, <1>6, RowWrites
  <2>4. QueuePart'
    BY <1>1, <2>1, QueueSame
  <2>5. LifeTyped' /\ LifeOK'
    BY <1>1, <1>2, <2>1, LifeStays
  <2>6. BackfillerInv'
    BY <1>4, <2>2, <2>3, <2>4, <2>5, InvFromParts
  <2>7. Len(jobs') <= calls'
    BY <1>1, <1>2, <1>4, <2>1 DEF CountsTyped
  <2> QED
    BY <2>6, <2>7
<1> QED
    BY <1>7, <1>8

\* A submit stores its row, below which its window owes what is missing.
LEMMA EndSubmitStep ==
    ASSUME BackfillerAssumption, BackfillerInv, NEW r \in Repos, NEW c \in Benchmarked[r], EndSubmit(r, c)
    PROVE  BackfillerInv' /\ UNCHANGED <<jobs, calls>>
<1>1. QueuePart /\ LifeTyped /\ RowsTyped /\ CountsTyped /\ LifeOK /\ WindowsOK
    BY InvParts
<1>2. /\ c \in asked[r] /\ asked' = [asked EXCEPT ![r] = asked[r] \ {c}]
      /\ UNCHANGED <<state, jobs, worker, wg, lifecycle, unknown, ran, aborted, faults, calls>>
      /\ \/ tracked' = [tracked EXCEPT ![r] = tracked[r] \cup ({c} \ unknown[r])] /\ hurt' = HurtBy(r, c)
         \/ UNCHANGED <<tracked, hurt>>
    BY DEF EndSubmit, Stored
<1>3. c \in Commits
    BY DEF BackfillerAssumption, Commits
<1>4. /\ asked' \in [Repos -> SUBSET Commits] /\ \A x \in Repos : asked'[x] \subseteq asked[x]
    BY <1>1, <1>2 DEF RowsTyped
<1>5. /\ tracked' \in [Repos -> SUBSET Commits] /\ hurt' \subseteq Repos /\ hurt \subseteq hurt'
      /\ \A x \in Repos : /\ tracked[x] \subseteq tracked'[x]
                          /\ tracked'[x] \subseteq tracked[x] \cup (asked[x] \ unknown[x])
                          /\ x \notin hurt' => tracked'[x] \subseteq tracked[x] \cup (asked[x] \ Forked)
  <2>1. CASE tracked' = [tracked EXCEPT ![r] = tracked[r] \cup ({c} \ unknown[r])] /\ hurt' = HurtBy(r, c)
    BY <2>1, <1>1, <1>2, <1>3 DEF RowsTyped, HurtBy
  <2>2. CASE UNCHANGED <<tracked, hurt>>
    BY <2>2, <1>1 DEF RowsTyped
  <2> QED
    BY <2>1, <2>2, <1>2
<1>6. RowsTyped'
    BY <1>1, <1>2, <1>4, <1>5 DEF RowsTyped
<1>7. WindowsOK'
  <2>1. \A x \in Repos : asked[x] \subseteq 2..Tip /\ tracked[x] \cap unknown[x] = {}
    BY <1>1 DEF WindowsOK, RowsOK
  <2>2. \A x \in Repos : /\ tracked[x] \subseteq tracked'[x]
                         /\ unknown[x] \subseteq tracked'[x] \cup unknown'[x]
                         /\ tracked'[x] \cap unknown'[x] = {} /\ asked'[x] \subseteq 2..Tip
    BY <2>1, <1>2, <1>4, <1>5
  <2>3. \A x \in Repos \ hurt' :
          /\ tracked'[x] \subseteq tracked[x] \cup (asked[x] \ Forked) /\ asked'[x] \subseteq asked[x] \cup Forked
    BY <1>4, <1>5
  <2> QED
    BY <2>2, <2>3, <1>1, <1>2, <1>5, <1>6, RowWrites
<1>8. QueuePart' /\ LifeTyped' /\ LifeOK' /\ CountsTyped'
    BY <1>1, <1>2, QueueSame, LifeStays DEF CountsTyped
<1> QED
    BY <1>2, <1>6, <1>7, <1>8, InvFromParts

\* A submit that GitHub did not answer stores a row without metadata.
LEMMA DegradeStep ==
    ASSUME BackfillerAssumption, BackfillerInv, NEW r \in Repos, NEW c \in Benchmarked[r], Degrade(r, c)
    PROVE  BackfillerInv' /\ UNCHANGED <<state, jobs, worker, wg, ran, lifecycle, tracked, asked>> /\ calls' = calls + 1
           /\ unknown' = [unknown EXCEPT ![r] = unknown[r] \cup ({c} \ tracked[r])]
<1>1. QueuePart /\ LifeTyped /\ RowsTyped /\ CountsTyped /\ LifeOK /\ WindowsOK
    BY InvParts
<1>2. /\ calls < MaxCalls /\ calls' = calls + 1
      /\ unknown' = [unknown EXCEPT ![r] = unknown[r] \cup ({c} \ tracked[r])]
      /\ UNCHANGED <<state, jobs, worker, wg, lifecycle, tracked, asked, ran, hurt, aborted, faults>>
    BY DEF Degrade, history
<1>3. c \in Commits
    BY DEF BackfillerAssumption, Commits
<1>4. /\ unknown' \in [Repos -> SUBSET Commits]
      /\ \A x \in Repos : unknown[x] \subseteq unknown'[x] /\ unknown'[x] \cap tracked[x] \subseteq unknown[x]
    BY <1>1, <1>2, <1>3 DEF RowsTyped
<1>5. RowsTyped' /\ CountsTyped'
    BY <1>1, <1>2, <1>4 DEF RowsTyped, CountsTyped, BackfillerAssumption
<1>6. WindowsOK'
  <2>1. \A x \in Repos : asked[x] \subseteq 2..Tip /\ tracked[x] \cap unknown[x] = {}
    BY <1>1 DEF WindowsOK, RowsOK
  <2>2. \A x \in Repos : /\ tracked[x] \subseteq tracked'[x]
                         /\ unknown[x] \subseteq tracked'[x] \cup unknown'[x]
                         /\ tracked'[x] \cap unknown'[x] = {} /\ asked'[x] \subseteq 2..Tip
    BY <2>1, <1>2, <1>4
  <2>3. \A x \in Repos \ hurt' :
          /\ tracked'[x] \subseteq tracked[x] \cup (asked[x] \ Forked) /\ asked'[x] \subseteq asked[x] \cup Forked
    BY <1>2
  <2> QED
    BY <2>2, <2>3, <1>1, <1>2, <1>5, RowWrites
<1>7. QueuePart' /\ LifeTyped' /\ LifeOK'
    BY <1>1, <1>2, QueueSame, LifeStays
<1> QED
    BY <1>2, <1>5, <1>6, <1>7, InvFromParts

\* Where the backfiller's rows, queue and counters stay as they are.
LEMMA OnlyLife ==
    ASSUME BackfillerAssumption, BackfillerInv, LifeTyped', LifeOK',
           UNCHANGED <<state, jobs, worker, wg, tracked, unknown, asked, ran, hurt, faults, calls>>
    PROVE  BackfillerInv'
<1>1. QueuePart /\ RowsTyped /\ CountsTyped /\ WindowsOK
    BY InvParts
<1>2. RowsTyped' /\ CountsTyped'
    BY <1>1 DEF RowsTyped, CountsTyped
<1>3. WindowsOK'
  <2>1. \A x \in Repos : asked[x] \subseteq 2..Tip /\ tracked[x] \cap unknown[x] = {}
    BY <1>1 DEF WindowsOK, RowsOK
  <2> QED
    BY <2>1, <1>1, <1>2, RowWrites
<1>4. QueuePart'
    BY <1>1, QueueSame
<1> QED
    BY <1>2, <1>3, <1>4, InvFromParts

\* The steps of Shutdown; it returns when wg counts nobody.
LEMMA ShutdownStep ==
    ASSUME BackfillerAssumption, BackfillerInv, CloseQueue \/ Deadline \/ Return
    PROVE  /\ BackfillerInv' /\ UNCHANGED <<state, jobs, worker, tracked, unknown, asked, calls>>
           /\ shutdown' # "open" /\ shutdown # "returned"
           /\ shutdown # "open" \/ CloseQueue
<1>1. QueuePart /\ LifeTyped /\ LifeOK
    BY InvParts
<1>2. UNCHANGED <<state, jobs, worker, wg, tracked, unknown, asked, ran, hurt, aborted, faults, calls>>
    BY DEF CloseQueue, Deadline, Return, history
<1>3. CASE CloseQueue
    BY <1>1, <1>2, <1>3, OnlyLife DEF CloseQueue, LifeTyped, LifeOK, Live
<1>4. CASE Deadline
    BY <1>1, <1>2, <1>4, OnlyLife DEF Deadline, LifeTyped, LifeOK, Live
<1>5. CASE Return
  <2>1. LiveOnes = {}
    <3>1. Cardinality(LiveOnes) = 0 /\ IsFiniteSet(LiveOnes)
      BY <1>1, <1>5, LiveIsFinite DEF Return, Drained, QueuePart, WgOK, LiveOnes
    <3> QED
      BY <3>1, FS_EmptySet
  <2>2. \A w \in JobIds : ~Live(w)'
    BY <2>1, <1>2 DEF LiveOnes, Live
  <2>3. LifeTyped' /\ LifeOK'
    BY <2>2, <1>1, <1>2, <1>5 DEF Return, LifeTyped, LifeOK
  <2>4. shutdown # "open" /\ shutdown # "returned" /\ shutdown' # "open"
    BY <1>5 DEF Return
  <2> QED
    BY <2>3, <2>4, <1>2, OnlyLife
<1> QED
    BY <1>3, <1>4, <1>5


-----------------------------------------------------------------------------
(* What the invariant says of the queue and of Shutdown. *)

\* A repository without an entry has nothing pending and nobody at work.
LEMMA IdleOwesNothing ==
    ASSUME WorkersOK, NEW r \in Repos, r \notin DOMAIN state
    PROVE  PendingOf(r) = <<>> /\ Elements(PendingOf(r)) = {} /\ Inserting(r) = {} /\ \A g, c : ~Owing(r, g, c)
<1>1. PendingOf(r) = <<>> /\ Elements(PendingOf(r)) = {}
    BY DEF PendingOf, Elements
<1>2. \A w \in JobIds : worker[w].pc \in Busy => RepoOf(w) # r
    BY DEF WorkersOK, Working, Busy
<1>3. Inserting(r) = {}
    BY <1>2 DEF Inserting, Busy
<1> QED
    BY <1>1, <1>2, <1>3 DEF Owing, Busy

\* Without goroutines the map is empty.
LEMMA QuietMeansEmpty ==
    ASSUME WorkersOK, \A w \in JobIds : ~Live(w)
    PROVE  state = <<>> /\ DOMAIN state = {}
<1>1. DOMAIN state = {}
    BY DEF WorkersOK, Working, Live
<1>2. state = [r \in DOMAIN state |-> state[r]]
    BY DEF WorkersOK
<1> QED
    BY <1>1, <1>2

\* What the invariant says of the queue.
LEMMA InvMeansServed ==
    ASSUME BackfillerAssumption, BackfillerInv
    PROVE  QueueIsServed
<1>1. QueuePart /\ QueueTyped /\ WorkersOK /\ QueueOK /\ WindowsOK
    BY InvParts DEF QueuePart
<1>2. OneWorkerPerRepo
  <2>1. ASSUME NEW r \in Repos
        PROVE  Cardinality({w \in JobIds : Working(w) /\ RepoOf(w) = r}) = IF r \in DOMAIN state THEN 1 ELSE 0
    <3> DEFINE inside == {w \in JobIds : Working(w) /\ RepoOf(w) = r}
    <3>1. \A v, w \in inside : v = w
      BY <1>1 DEF WorkersOK
    <3>2. inside = {} <=> r \notin DOMAIN state
      BY <1>1 DEF WorkersOK
    <3> HIDE DEF inside
    <3>3. Cardinality(inside) = IF r \in DOMAIN state THEN 1 ELSE 0
      BY <3>1, <3>2, OneAtMost
    <3> QED
      BY <3>3 DEF inside
  <2> QED
    BY <2>1 DEF OneWorkerPerRepo
<1>3. AcceptedJobsKeepTheirOrder
  <2>1. ASSUME NEW r \in Repos, NEW served, served = ran[r] \o PendingOf(r)
        PROVE  /\ {served[n] : n \in DOMAIN served} = {j \in DOMAIN jobs : jobs[j].repo = r}
               /\ \A m, n \in DOMAIN served : m < n => served[m] < served[n]
    <3>1. ran[r] \in Seq(Nat) /\ PendingOf(r) \in Seq(Nat)
      <4>1. Seq(Ids) \subseteq Seq(Nat) /\ <<>> \in Seq(Nat)
        BY SeqMonotonic DEF Ids
      <4> QED
        BY <4>1, <1>1 DEF QueueTyped, PendingOf
    <3>2. Increasing(served) /\ Elements(served) = Elements(ran[r]) \cup Elements(PendingOf(r))
      BY <2>1, <3>1, <1>1, ConcatIncreases DEF QueueOK
    <3>3. Elements(served) = JobsOf(r)
      BY <3>2, <1>1 DEF QueueOK
    <3>4. DOMAIN jobs = Ids
      BY <1>1 DEF QueueTyped, Ids
    <3> QED
      BY <3>2, <3>3, <3>4 DEF Elements, Increasing, JobsOf
  <2>2. ASSUME NEW r \in Repos
        PROVE  LET served == ran[r] \o PendingOf(r) IN
               /\ {served[n] : n \in DOMAIN served} = {j \in DOMAIN jobs : jobs[j].repo = r}
               /\ \A m, n \in DOMAIN served : m < n => served[m] < served[n]
    BY <2>1, Zenon
  <2> QED
    BY <2>2, Zenon DEF AcceptedJobsKeepTheirOrder, PendingOf
<1>4. IdleMeansCaughtUp
  <2>1. ASSUME NEW r \in Repos \ hurt, r \notin DOMAIN state, NEW j \in 1..Len(jobs), jobs[j].repo = r,
               NEW g \in 2..(jobs[j].until - 1)
        PROVE  g \in tracked[r] \cup unknown[r] \cup Forked
    <3>1. jobs[j].until \in Marks(r)
      BY <2>1 DEF Marks, JobsOf, Ids
    <3>2. Covered(r, g) \/ Owing(r, g, jobs[j].until)
      BY <3>1, <1>1 DEF WindowsOK, DebtsOK, DebtsOf
    <3> QED
      BY <3>2, <1>1, <2>1, IdleOwesNothing DEF Covered
  <2> QED
    BY <2>1 DEF IdleMeansCaughtUp
<1> QED
    BY <1>2, <1>3, <1>4 DEF QueueIsServed

\* What the invariant says of Shutdown.
LEMMA InvMeansClean ==
    ASSUME BackfillerAssumption, BackfillerInv
    PROVE  ShutdownIsClean
<1>1. QueuePart /\ QueueTyped /\ WorkersOK /\ QueueOK /\ LifeTyped /\ LifeOK
    BY InvParts DEF QueuePart
<1>2. ReturnedMeansQuiet
    BY <1>1, QuietMeansEmpty DEF LifeOK, ReturnedMeansQuiet
<1>3. UnreportedAbortsNever
  <2>1. ASSUME shutdown = "returned", ~timedOut
        PROVE  ~aborted
    BY <1>1, <2>1 DEF LifeOK
  <2>2. ASSUME shutdown = "returned", NEW j \in 1..Len(jobs)
        PROVE  \E n \in DOMAIN ran[jobs[j].repo] : ran[jobs[j].repo][n] = j
    <3>1. PICK r \in Repos : r = jobs[j].repo
      <4>1. jobs[j] \in Job
        BY <1>1, <2>2 DEF QueueTyped
      <4> QED
        BY <4>1 DEF Job
    <3>2. r \notin DOMAIN state
      BY <1>1, <2>2, QuietMeansEmpty DEF LifeOK
    <3>3. Elements(PendingOf(r)) = {}
      BY <1>1, <3>2, IdleOwesNothing
    <3>4. j \in Elements(ran[r])
      BY <1>1, <3>1, <3>3 DEF QueueOK, JobsOf, Ids
    <3> QED
      BY <3>1, <3>4 DEF Elements
  <2> QED
    BY <2>1, <2>2 DEF UnreportedAbortsNever
<1> QED
    BY <1>2, <1>3 DEF ShutdownIsClean


-----------------------------------------------------------------------------
(* The pages. *)

\* The positions of the scan and the rows at them.
LEMMA PositionsAre ==
    ASSUME BackfillerAssumption, RepairAssumption
    PROVE  /\ Len(ScanOrder) \in Nat /\ Positions = 1..Len(ScanOrder) /\ IsFiniteSet(Positions)
           /\ \A i \in Positions : /\ ScanOrder[i] \in Rows /\ ScanOrder[i][1] \in Repos
                                   /\ ScanOrder[i][2] \in Benchmarked[ScanOrder[i][1]]
           /\ \A row \in Rows : /\ row[1] \in Repos /\ row[2] \in Benchmarked[row[1]]
                                /\ row[2] \in 2..Tip /\ row[2] \in Commits
                                /\ \E i \in Positions : ScanOrder[i] = row
<1>1. Len(ScanOrder) \in Nat /\ Positions = 1..Len(ScanOrder) /\ ScanOrder \in Seq(Repos \X Commits)
    BY DEF RepairAssumption, Positions
<1>2. IsFiniteSet(Positions)
  <2>1. 1 \in Int /\ Len(ScanOrder) \in Int
    BY <1>1
  <2>2. IsFiniteSet(1..Len(ScanOrder))
    BY <2>1, FS_Interval
  <2> QED
    BY <1>1, <2>2
<1>3. \A i \in Positions : /\ ScanOrder[i] \in Rows /\ ScanOrder[i][1] \in Repos
                           /\ ScanOrder[i][2] \in Benchmarked[ScanOrder[i][1]]
    BY <1>1 DEF Rows, Positions, RepairAssumption
<1>4. ASSUME NEW row \in Rows
      PROVE  /\ row[1] \in Repos /\ row[2] \in Benchmarked[row[1]]
             /\ row[2] \in 2..Tip /\ row[2] \in Commits
             /\ \E i \in Positions : ScanOrder[i] = row
  <2>1. PICK i \in Positions : ScanOrder[i] = row
    BY <1>4 DEF Rows, Positions
  <2>2. row[1] \in Repos /\ row[2] \in Benchmarked[row[1]]
    BY <2>1, <1>3
  <2>3. row[2] \in 2..Tip
    BY <2>2 DEF BackfillerAssumption
  <2> QED
    BY <2>1, <2>2, <2>3 DEF Commits, BackfillerAssumption
<1> QED
    BY <1>1, <1>2, <1>3, <1>4

\* Sets of positions have sizes.
LEMMA SizesAre ==
    ASSUME BackfillerAssumption, RepairAssumption, NEW S \in SUBSET Positions
    PROVE  /\ IsFiniteSet(S) /\ Cardinality(S) \in Nat /\ S \in SUBSET Nat
           /\ \A T \in SUBSET S : Cardinality(T) <= Cardinality(S) /\ IsFiniteSet(T) /\ Cardinality(T) \in Nat
           /\ S = {} <=> Cardinality(S) = 0
           /\ S # {} => Min(S) \in S /\ Max(S) \in S /\ \A x \in S : Min(S) <= x /\ x <= Max(S)
<1>1. IsFiniteSet(S) /\ Cardinality(S) \in Nat /\ S \in SUBSET Nat /\ S \in SUBSET (0..Len(ScanOrder))
  <2>1. IsFiniteSet(S)
    BY PositionsAre, FS_Subset
  <2> QED
    BY <2>1, PositionsAre, FS_CardinalityType
<1>2. \A T \in SUBSET S : Cardinality(T) <= Cardinality(S) /\ IsFiniteSet(T) /\ Cardinality(T) \in Nat
    BY <1>1, FS_Subset, FS_CardinalityType
<1>3. S = {} <=> Cardinality(S) = 0
    BY <1>1, FS_EmptySet
<1>4. ASSUME S # {} PROVE Min(S) \in S /\ Max(S) \in S /\ \A x \in S : Min(S) <= x /\ x <= Max(S)
    BY <1>1, <1>4, MinIsIn, MaxIsIn, PositionsAre
<1> QED
    BY <1>1, <1>2, <1>3, <1>4

\* A page is the first of what was found, at most Limit of it; the rest is after its last.
LEMMA PageIs ==
    ASSUME BackfillerAssumption, RepairAssumption, NEW found \in SUBSET Positions
    PROVE  /\ Page(found) \subseteq found /\ Cardinality(Page(found)) <= Limit
           /\ Page(found) # found => /\ Page(found) # {} /\ Max(Page(found)) \in Positions
                                     /\ \A i \in found \ Page(found) : i > Max(Page(found))
<1> DEFINE P == Page(found)
           before(i) == {j \in found : j < i}
<1>1. P \subseteq found /\ P = {i \in found : Cardinality(before(i)) < Limit}
    BY DEF Page
<1>2. \A i \in found : before(i) \in SUBSET Positions /\ Cardinality(before(i)) \in Nat
    BY SizesAre
<1>3. Limit \in Nat \ {0} /\ found \in SUBSET Nat
    BY SizesAre DEF RepairAssumption
<1> HIDE DEF P
<1>4. Cardinality(P) <= Limit
  <2>1. CASE P = {}
    BY <2>1, <1>3, FS_EmptySet
  <2>2. CASE P # {}
    <3>1. PICK m \in P : \A x \in P : x <= m
      <4>1. P \in SUBSET Positions
        BY <1>1
      <4>2. Max(P) \in P /\ \A x \in P : x <= Max(P)
        BY <2>2, <4>1, SizesAre
      <4> QED
        BY <4>2
    <3>2. m \in found /\ P \subseteq before(m) \cup {m}
      <4>1. m \in found /\ m \in Nat
        BY <3>1, <1>1, <1>3
      <4>2. ASSUME NEW x \in P PROVE x \in before(m) \cup {m}
        <5>1. x \in found /\ x \in Nat /\ x <= m
          BY <3>1, <1>1, <1>3, <4>2
        <5>2. x < m \/ x = m
          BY <5>1, <4>1
        <5> QED
          BY <5>1, <5>2
      <4> QED
        BY <4>1, <4>2
    <3>3. IsFiniteSet(before(m)) /\ Cardinality(before(m)) \in Nat /\ Cardinality(before(m)) < Limit
      BY <3>1, <3>2, <1>1, <1>2, SizesAre
    <3>4. m \notin before(m)
      BY <3>2, <1>3
    <3>5. Cardinality(before(m) \cup {m}) = Cardinality(before(m)) + 1 /\ IsFiniteSet(before(m) \cup {m})
      <4> HIDE DEF before
      <4> QED
        BY <3>3, <3>4, FS_AddElement
    <3>6. Cardinality(P) <= Cardinality(before(m) \cup {m})
      BY <3>2, <3>5, FS_Subset
    <3>7. Cardinality(P) \in Nat
      BY <1>1, SizesAre
    <3> QED
      <4> HIDE DEF before
      <4> QED
        BY <3>3, <3>5, <3>6, <3>7, <1>3
  <2> QED
    BY <2>1, <2>2
<1>5. ASSUME P # found
      PROVE  /\ P # {} /\ Max(P) \in Positions
             /\ \A i \in found \ P : i > Max(P)
  <2>1. found # {} /\ Min(found) \in found /\ \A x \in found : Min(found) <= x
    BY <1>1, <1>5, SizesAre
  <2>2. before(Min(found)) = {}
    <3>0. PICK least \in Nat : least = Min(found)
      BY <2>1, <1>3
    <3>1. \A x \in found : ~(x < Min(found))
      BY <3>0, <2>1, <1>3
    <3> QED
      BY <3>1
  <2>3. Min(found) \in P
    BY <2>1, <2>2, <1>1, <1>3, FS_EmptySet
  <2>4. Max(P) \in P /\ Max(P) \in found /\ Max(P) \in Positions
    BY <2>3, <1>1, SizesAre
  <2>5. ASSUME NEW i \in found \ P PROVE i > Max(P)
    <3>0. PICK last \in Nat : last = Max(P) /\ i \in Nat
      BY <2>4, <2>5, <1>3
    <3>1. SUFFICES ASSUME i <= last PROVE FALSE
      BY <3>0
    <3>2. before(i) \in SUBSET before(Max(P))
      <4>1. Max(P) \in Nat /\ i \in Nat /\ i <= Max(P)
        BY <3>0, <3>1
      <4>2. \A x \in found : x < i => x < Max(P)
        BY <4>1, <1>3
      <4> QED
        BY <4>2
    <3>3. Cardinality(before(i)) <= Cardinality(before(Max(P)))
      BY <3>2, <2>4, <1>2, SizesAre
    <3>4. Cardinality(before(Max(P))) < Limit /\ ~(Cardinality(before(i)) < Limit)
      BY <2>4, <2>5, <1>1
    <3>5. Cardinality(before(i)) \in Nat /\ Cardinality(before(Max(P))) \in Nat
      BY <2>4, <1>2
    <3> HIDE DEF before
    <3> QED
      BY <3>3, <3>4, <3>5, <1>3
  <2> QED
    BY <2>3, <2>4, <2>5
<1> QED
    BY <1>1, <1>4, <1>5 DEF P


-----------------------------------------------------------------------------
(* The summary. *)

Counters == {"repaired", "would", "unsupported", "failed", "already"}
Total(t) == t.repaired + t.would + t.unsupported + t.failed + t.already

\* A row adds one to what was scanned and one to the counter that is its own.
LEMMA CountedIs ==
    ASSUME repair.tally \in TallyRow, NEW counter \in Counters
    PROVE  /\ Counted(counter) \in TallyRow
           /\ Counted(counter).scanned = repair.tally.scanned + 1
           /\ Total(Counted(counter)) = Total(repair.tally) + 1
           /\ Counted(counter).enqueued = repair.tally.enqueued
           /\ Counted(counter).repaired
                = repair.tally.repaired + (IF counter = "repaired" THEN 1 ELSE 0)
<1>1. PICK t, u : t \in TallyRow /\ t = repair.tally /\ u = Counted(counter)
    OBVIOUS
<1>2. u = [t EXCEPT !.scanned = t.scanned + 1, ![counter] = t[counter] + 1]
    BY <1>1 DEF Counted, TallyRow, Counters
<1>3. /\ t.scanned \in Nat /\ t.repaired \in Nat /\ t.would \in Nat /\ t.unsupported \in Nat
      /\ t.failed \in Nat /\ t.already \in Nat
    BY <1>1 DEF TallyRow
<1>9. PICK a \in Nat, b \in Nat, c \in Nat, d \in Nat, e \in Nat :
        a = t.repaired /\ b = t.would /\ c = t.unsupported /\ d = t.failed /\ e = t.already
    BY <1>3
<1>10. Total(t) = a + b + c + d + e
    BY <1>9, Zenon DEF Total
<1>4. CASE counter = "repaired"
  <2>1. u = [t EXCEPT !.scanned = t.scanned + 1, !.repaired = t.repaired + 1]
    BY <1>2, <1>4
  <2>2. t.scanned + 1 \in Nat /\ t.repaired + 1 \in Nat
    BY <1>3
  <2>3. /\ u \in TallyRow /\ u.scanned = t.scanned + 1 /\ u.enqueued = t.enqueued
        /\ u.repaired = t.repaired + 1 /\ u.would = t.would /\ u.unsupported = t.unsupported
        /\ u.failed = t.failed /\ u.already = t.already
    BY <1>1, <2>1, <2>2, Zenon DEF TallyRow
  <2>4. Total(u) = Total(t) + 1
    <3>1. Total(u) = (a + 1) + b + c + d + e
      BY <1>9, <2>3, Zenon DEF Total
    <3> QED
      BY <1>10, <3>1
  <2> QED
    BY <1>1, <1>3, <1>4, <2>3, <2>4
<1>5. CASE counter = "would"
  <2>1. u = [t EXCEPT !.scanned = t.scanned + 1, !.would = t.would + 1]
    BY <1>2, <1>5
  <2>2. t.scanned + 1 \in Nat /\ t.would + 1 \in Nat
    BY <1>3
  <2>3. /\ u \in TallyRow /\ u.scanned = t.scanned + 1 /\ u.enqueued = t.enqueued
        /\ u.repaired = t.repaired /\ u.would = t.would + 1 /\ u.unsupported = t.unsupported
        /\ u.failed = t.failed /\ u.already = t.already
    BY <1>1, <2>1, <2>2, Zenon DEF TallyRow
  <2>4. Total(u) = Total(t) + 1
    <3>1. Total(u) = a + (b + 1) + c + d + e
      BY <1>9, <2>3, Zenon DEF Total
    <3> QED
      BY <1>10, <3>1
  <2> QED
    BY <1>1, <1>3, <1>5, <2>3, <2>4
<1>6. CASE counter = "unsupported"
  <2>1. u = [t EXCEPT !.scanned = t.scanned + 1, !.unsupported = t.unsupported + 1]
    BY <1>2, <1>6
  <2>2. t.scanned + 1 \in Nat /\ t.unsupported + 1 \in Nat
    BY <1>3
  <2>3. /\ u \in TallyRow /\ u.scanned = t.scanned + 1 /\ u.enqueued = t.enqueued
        /\ u.repaired = t.repaired /\ u.would = t.would /\ u.unsupported = t.unsupported + 1
        /\ u.failed = t.failed /\ u.already = t.already
    BY <1>1, <2>1, <2>2, Zenon DEF TallyRow
  <2>4. Total(u) = Total(t) + 1
    <3>1. Total(u) = a + b + (c + 1) + d + e
      BY <1>9, <2>3, Zenon DEF Total
    <3> QED
      BY <1>10, <3>1
  <2> QED
    BY <1>1, <1>3, <1>6, <2>3, <2>4
<1>7. CASE counter = "failed"
  <2>1. u = [t EXCEPT !.scanned = t.scanned + 1, !.failed = t.failed + 1]
    BY <1>2, <1>7
  <2>2. t.scanned + 1 \in Nat /\ t.failed + 1 \in Nat
    BY <1>3
  <2>3. /\ u \in TallyRow /\ u.scanned = t.scanned + 1 /\ u.enqueued = t.enqueued
        /\ u.repaired = t.repaired /\ u.would = t.would /\ u.unsupported = t.unsupported
        /\ u.failed = t.failed + 1 /\ u.already = t.already
    BY <1>1, <2>1, <2>2, Zenon DEF TallyRow
  <2>4. Total(u) = Total(t) + 1
    <3>1. Total(u) = a + b + c + (d + 1) + e
      BY <1>9, <2>3, Zenon DEF Total
    <3> QED
      BY <1>10, <3>1
  <2> QED
    BY <1>1, <1>3, <1>7, <2>3, <2>4
<1>8. CASE counter = "already"
  <2>1. u = [t EXCEPT !.scanned = t.scanned + 1, !.already = t.already + 1]
    BY <1>2, <1>8
  <2>2. t.scanned + 1 \in Nat /\ t.already + 1 \in Nat
    BY <1>3
  <2>3. /\ u \in TallyRow /\ u.scanned = t.scanned + 1 /\ u.enqueued = t.enqueued
        /\ u.repaired = t.repaired /\ u.would = t.would /\ u.unsupported = t.unsupported
        /\ u.failed = t.failed /\ u.already = t.already + 1
    BY <1>1, <2>1, <2>2, Zenon DEF TallyRow
  <2>4. Total(u) = Total(t) + 1
    <3>1. Total(u) = a + b + c + d + (e + 1)
      BY <1>9, <2>3, Zenon DEF Total
    <3> QED
      BY <1>10, <3>1
  <2> QED
    BY <1>1, <1>3, <1>8, <2>3, <2>4
<1> QED
    BY <1>4, <1>5, <1>6, <1>7, <1>8 DEF Counters

\* The process's record after a row, with place and tally to be filled in.
After(q, place, t) ==
    /\ q \in Repair /\ q.pc = place /\ q.dry = repair.dry /\ q.backfill = repair.backfill
    /\ q.todo = repair.todo \ {Min(repair.todo)} /\ q.next = repair.next
    /\ q.mine = repair.mine /\ q.tally = t

\* The process after a row that it counted.
LEMMA TallyIs ==
    ASSUME repair \in Repair, NEW counter \in Counters
    PROVE  After(Tally(counter), repair.pc, Counted(counter))
<1>1. PICK t : t = Counted(counter)
    OBVIOUS
<1>2. t \in TallyRow
  <2>1. repair.tally \in TallyRow
    BY Zenon DEF Repair
  <2> QED
    BY <1>1, <2>1, CountedIs
<1>3. PICK todo : todo = repair.todo \ {Min(repair.todo)}
    OBVIOUS
<1>4. todo \in SUBSET Positions
  <2>1. repair.todo \in SUBSET Positions
    BY Zenon DEF Repair
  <2> QED
    BY <1>3, <2>1
<1>5. PICK q : q = [repair EXCEPT !.tally = t, !.todo = todo]
    OBVIOUS
<1>6. /\ q \in Repair /\ q.pc = repair.pc /\ q.dry = repair.dry /\ q.backfill = repair.backfill
      /\ q.todo = todo /\ q.next = repair.next /\ q.mine = repair.mine /\ q.tally = t
    BY <1>2, <1>4, <1>5, Zenon DEF Repair
<1>7. Tally(counter) = q
    BY <1>1, <1>3, <1>5, Zenon DEF Tally
<1> QED
    BY <1>1, <1>3, <1>6, <1>7, Zenon DEF After


-----------------------------------------------------------------------------
(* The rows under the walk. *)

\* A row keeps what it has.
RowsGrow ==
    \A x \in Repos : /\ tracked[x] \subseteq tracked'[x]
                     /\ unknown[x] \subseteq tracked'[x] \cup unknown'[x]

\* Metadata is filled into a row that had none and is known from then on.
FillsOnce ==
    \A row \in Rows : \/ filled'[row] = filled[row]
                      \/ filled[row] = 0 /\ filled'[row] = 1 /\ row[2] \in tracked'[row[1]]

\* What was filled in stays known.
LEMMA FilledMoves ==
    ASSUME BackfillerAssumption, RepairAssumption, FilledOK, RowsGrow, FillsOnce
    PROVE  FilledOK'
<1>1. ASSUME NEW row \in Rows, filled'[row] # 0 PROVE filled'[row] = 1 /\ row[2] \in tracked'[row[1]]
    BY <1>1, PositionsAre DEF FilledOK, RowsGrow, FillsOnce
<1> QED
    BY <1>1 DEF FilledOK

\* What is owed is a row, and one that is known stays known.
LEMMA OwedMoves ==
    ASSUME BackfillerAssumption, RepairAssumption, RowsOK', RowsGrow, NEW row \in Rows,
           row[2] \in tracked[row[1]] \cup unknown[row[1]]
    PROVE  /\ row[2] \in tracked'[row[1]] \cup unknown'[row[1]]
           /\ ~IsUnknown(row) => ~IsUnknown(row)'
<1>1. row[1] \in Repos
    BY PositionsAre
<1>2. tracked'[row[1]] \cap unknown'[row[1]] = {}
    BY <1>1 DEF RowsOK
<1> QED
    BY <1>1, <1>2 DEF RowsGrow, IsUnknown

\* A step of others keeps what the walk has still to come to.
LEMMA WalkStays ==
    ASSUME BackfillerAssumption, RepairAssumption, RepairTyped, WalkOK, RowsOK', RowsGrow,
           UNCHANGED <<repair, walk>>
    PROVE  WalkOK'
<1>1. walk.owed \subseteq Rows
    BY Zenon DEF RepairTyped
<1>2. \A row \in walk.owed : row[2] \in tracked[row[1]] \cup unknown[row[1]]
    BY DEF WalkOK
<1>3. \A row \in walk.owed : /\ row[2] \in tracked'[row[1]] \cup unknown'[row[1]]
                             /\ ~IsUnknown(row) => ~IsUnknown(row)'
    BY <1>1, <1>2, OwedMoves
<1>4. walk.whole = TRUE =>
        /\ Reading => repair.dry = FALSE
        /\ \A i \in Positions : ScanOrder[i] \in walk.owed =>
             ScanOrder[i][1] \in Unsupported \/ ~IsUnknown(ScanOrder[i]) \/ Ahead(i)
    BY DEF WalkOK
<1>5. (Reading' <=> Reading) /\ \A i : Ahead(i)' <=> Ahead(i)
    BY DEF Reading, Ahead
<1>6. \A i \in Positions : ScanOrder[i] \in walk.owed =>
        (~IsUnknown(ScanOrder[i]) => ~IsUnknown(ScanOrder[i])')
    BY <1>3
<1>7. walk' = walk /\ repair' = repair
    OBVIOUS
<1> QED
    BY <1>3, <1>4, <1>5, <1>6, <1>7 DEF WalkOK

\* The process rests while the backfiller, or somebody else, takes a step.
LEMMA ProcessRests ==
    ASSUME BackfillerAssumption, RepairAssumption, RepairInv, BackfillerInv', repair.pc # "server",
           UNCHANGED <<repair, walk, jobs, asked>>, filled' \in [Rows -> Nat], RowsGrow, FillsOnce,
           (repair.pc = "start" \/ Reading) => shutdown' = "open",
           shutdown = "returned" => shutdown' = "returned"
    PROVE  RepairInv'
<1>1. RepairTyped /\ ProcessOK /\ FilledOK /\ SummaryOK /\ WalkOK
    BY DEF RepairInv
<1>2. RepairTyped'
    BY <1>1 DEF RepairTyped
<1>3. ProcessOK'
    BY <1>1 DEF ProcessOK, Reading
<1>4. FilledOK'
    BY <1>1, FilledMoves
<1>5. SummaryOK'
    BY <1>1 DEF SummaryOK, Mine, Upto
<1>6. WalkOK'
    BY <1>1, WalkStays DEF BackfillerInv, WindowsOK
<1> QED
    BY <1>2, <1>3, <1>4, <1>5, <1>6 DEF RepairInv

\* The server has no walk to look after.
LEMMA ServerRests ==
    ASSUME BackfillerAssumption, RepairAssumption, RepairInv, BackfillerInv', repair.pc = "server",
           UNCHANGED <<repair, walk, filled>>, RowsGrow, Len(jobs') <= calls'
    PROVE  RepairInv'
<1>1. RepairTyped /\ ProcessOK /\ FilledOK /\ SummaryOK /\ WalkOK
    BY DEF RepairInv
<1>2. RepairTyped'
    BY <1>1 DEF RepairTyped
<1>3. ProcessOK'
    BY <1>1 DEF ProcessOK, Reading
<1>4. FilledOK'
    BY <1>1, FilledMoves DEF FillsOnce
<1>5. SummaryOK'
    BY <1>1 DEF SummaryOK
<1>6. WalkOK'
    BY <1>1, WalkStays DEF BackfillerInv, WindowsOK
<1> QED
    BY <1>2, <1>3, <1>4, <1>5, <1>6 DEF RepairInv

\* The steps of a server.
LEMMA ServerStep ==
    ASSUME BackfillerAssumption, RepairAssumption, RepairInv, repair.pc = "server", Next,
           UNCHANGED repairVars
    PROVE  RepairInv'
<1>1. BackfillerInv /\ Len(jobs) <= calls /\ UNCHANGED <<repair, walk, filled>>
    BY DEF RepairInv, ProcessOK, repairVars
<1>2. jobs \in Seq(Job) /\ Len(jobs) \in Nat /\ calls \in Nat
    BY <1>1 DEF BackfillerInv, TypeOK
<1>3. BackfillerInv' /\ RowsGrow /\ Len(jobs') <= calls'
  <2>1. ASSUME NEW r \in Repos, NEW c \in Benchmarked[r], Resolve(r, c)
        PROVE  BackfillerInv' /\ RowsGrow /\ Len(jobs') <= calls'
    BY <1>1, <2>1, ResolveStep DEF Resolve, RowsGrow
  <2>2. ASSUME NEW r \in Repos, NEW c \in Benchmarked[r], EndSubmit(r, c)
        PROVE  BackfillerInv' /\ RowsGrow /\ Len(jobs') <= calls'
    <3>1. BackfillerInv' /\ UNCHANGED <<jobs, calls>>
      BY <1>1, <2>2, EndSubmitStep
    <3>2. RowsGrow
      <4>1. UNCHANGED unknown /\ (UNCHANGED tracked \/ tracked' = Stored(r, c))
        BY <2>2 DEF EndSubmit
      <4>2. tracked \in [Repos -> SUBSET Commits]
        BY <1>1 DEF BackfillerInv, TypeOK
      <4> QED
        BY <4>1, <4>2 DEF RowsGrow, Stored
    <3> QED
      BY <1>1, <3>1, <3>2
  <2>3. ASSUME NEW r \in Repos, NEW c \in Benchmarked[r], Degrade(r, c)
        PROVE  BackfillerInv' /\ RowsGrow /\ Len(jobs') <= calls'
    <3>1. /\ BackfillerInv' /\ UNCHANGED <<jobs, tracked>> /\ calls' = calls + 1
          /\ unknown' = [unknown EXCEPT ![r] = unknown[r] \cup ({c} \ tracked[r])]
      BY <1>1, <2>3, DegradeStep
    <3>2. RowsGrow
      <4>1. unknown \in [Repos -> SUBSET Commits]
        BY <1>1 DEF BackfillerInv, TypeOK
      <4> QED
        BY <3>1, <4>1 DEF RowsGrow
    <3> QED
      BY <1>1, <1>2, <3>1, <3>2
  <2>4. ASSUME NEW w \in JobIds, WorkerStep(w)
        PROVE  BackfillerInv' /\ RowsGrow /\ Len(jobs') <= calls'
    BY <1>1, <2>4, WorkerStepKeeps DEF RowsGrow
  <2>5. CASE CloseQueue \/ Deadline \/ Return
    BY <1>1, <2>5, ShutdownStep DEF RowsGrow
  <2>6. CASE Ended
    <3>1. UNCHANGED vars
      BY <2>6 DEF Ended
    <3>2. UNCHANGED <<state, jobs, worker, wg, tracked, unknown, asked, ran, hurt, faults, calls, lifecycle, aborted>>
      BY <3>1 DEF vars, lifecycle
    <3>3. LifeTyped' /\ LifeOK'
      BY <1>1, <3>2, InvParts, LifeStays
    <3> QED
      BY <1>1, <3>2, <3>3, OnlyLife DEF RowsGrow
  <2> QED
    BY <2>1, <2>2, <2>3, <2>4, <2>5, <2>6 DEF Next
<1> QED
    BY <1>1, <1>3, ServerRests


-----------------------------------------------------------------------------
(* The other steps beside the process. *)

\* The steps of the backfiller in a repair process.
LEMMA BackfillerRuns ==
    ASSUME BackfillerAssumption, RepairAssumption, RepairInv, repair.pc # "server",
           (\E w \in JobIds : WorkerStep(w)) \/ Deadline \/ Return, UNCHANGED repairVars
    PROVE  RepairInv'
<1>1. BackfillerInv /\ RepairTyped /\ ProcessOK /\ UNCHANGED <<repair, walk, filled>>
    BY DEF RepairInv, repairVars
<1>2. filled' \in [Rows -> Nat] /\ FillsOnce
    BY <1>1 DEF RepairTyped, FillsOnce
<1>3. ASSUME NEW w \in JobIds, WorkerStep(w) PROVE RepairInv'
  <2>1. /\ BackfillerInv' /\ UNCHANGED <<jobs, lifecycle, unknown, asked, calls>> /\ RowsGrow
        /\ shutdown' = shutdown
    BY <1>1, <1>3, WorkerStepKeeps DEF RowsGrow, lifecycle
  <2> QED
    BY <1>1, <1>2, <2>1, ProcessRests DEF ProcessOK
<1>4. CASE Deadline \/ Return
  <2>1. /\ BackfillerInv' /\ UNCHANGED <<jobs, tracked, unknown, asked>> /\ shutdown # "returned"
    BY <1>1, <1>4, ShutdownStep
  <2>2. shutdown # "open"
    BY <1>4 DEF Deadline, Return
  <2>3. RowsGrow
    BY <2>1 DEF RowsGrow
  <2> QED
    BY <1>1, <1>2, <2>1, <2>2, <2>3, ProcessRests DEF ProcessOK
<1> QED
    BY <1>3, <1>4

\* What is filled in was unknown, and so had never been filled in before.
LEMMA FirstFill ==
    ASSUME BackfillerAssumption, RepairAssumption, RepairInv, NEW row \in Rows, IsUnknown(row)
    PROVE  filled[row] = 0
<1>1. row[1] \in Repos
    BY PositionsAre
<1>2. tracked[row[1]] \cap unknown[row[1]] = {}
    BY <1>1 DEF RepairInv, BackfillerInv, WindowsOK, RowsOK
<1> QED
    BY <1>2 DEF RepairInv, FilledOK, IsUnknown

\* A repair that enqueues nothing for its row: the row is known, its repository hurt.
LEMMA FillsIn ==
    ASSUME BackfillerAssumption, RepairAssumption, RepairInv, NEW row \in Rows, IsUnknown(row),
           unknown' = [unknown EXCEPT ![row[1]] = unknown[row[1]] \ {row[2]}],
           tracked' = [tracked EXCEPT ![row[1]] = tracked[row[1]] \cup {row[2]}],
           filled' = [filled EXCEPT ![row] = filled[row] + 1], UNCHANGED asked
    PROVE  /\ filled' \in [Rows -> Nat] /\ FillsOnce /\ RowsGrow
           /\ tracked' \in [Repos -> SUBSET Commits] /\ unknown' \in [Repos -> SUBSET Commits]
           /\ \A x \in Repos : tracked'[x] \cap unknown'[x] = {} /\ asked'[x] \subseteq 2..Tip
           /\ \A x \in Repos \ {row[1]} : tracked'[x] = tracked[x] /\ unknown'[x] = unknown[x]
           /\ tracked'[row[1]] = tracked[row[1]] \cup {row[2]}
           /\ unknown'[row[1]] = unknown[row[1]] \ {row[2]}
<1>1. /\ tracked \in [Repos -> SUBSET Commits] /\ unknown \in [Repos -> SUBSET Commits]
      /\ filled \in [Rows -> Nat]
      /\ \A x \in Repos : tracked[x] \cap unknown[x] = {} /\ asked[x] \subseteq 2..Tip
    BY DEF RepairInv, BackfillerInv, TypeOK, RepairTyped, WindowsOK, RowsOK
<1>2. row[1] \in Repos /\ row[2] \in Commits
    BY PositionsAre
<1>3. filled[row] = 0
    BY FirstFill
<1>4. /\ tracked' \in [Repos -> SUBSET Commits] /\ unknown' \in [Repos -> SUBSET Commits]
      /\ \A x \in Repos \ {row[1]} : tracked'[x] = tracked[x] /\ unknown'[x] = unknown[x]
      /\ tracked'[row[1]] = tracked[row[1]] \cup {row[2]}
      /\ unknown'[row[1]] = unknown[row[1]] \ {row[2]}
    BY <1>1, <1>2
<1>5. RowsGrow
    BY <1>2, <1>4 DEF RowsGrow
<1>6. filled' \in [Rows -> Nat] /\ filled'[row] = 1 /\ \A x \in Rows \ {row} : filled'[x] = filled[x]
    BY <1>1, <1>3
<1>7. FillsOnce
    BY <1>3, <1>4, <1>6 DEF FillsOnce
<1>8. \A x \in Repos : tracked'[x] \cap unknown'[x] = {} /\ asked'[x] \subseteq 2..Tip
    BY <1>1, <1>4
<1> QED
    BY <1>4, <1>5, <1>6, <1>7, <1>8

\* A row filled in without a window: its repository is hurt.
LEMMA FillsInHurt ==
    ASSUME BackfillerAssumption, RepairAssumption, RepairInv, NEW row \in Rows, IsUnknown(row),
           unknown' = [unknown EXCEPT ![row[1]] = unknown[row[1]] \ {row[2]}],
           tracked' = [tracked EXCEPT ![row[1]] = tracked[row[1]] \cup {row[2]}],
           filled' = [filled EXCEPT ![row] = filled[row] + 1],
           hurt' = hurt \cup {row[1]}, UNCHANGED <<queue, lifecycle, asked, aborted, calls, faults>>
    PROVE  BackfillerInv'
<1>1. QueuePart /\ LifeTyped /\ RowsTyped /\ CountsTyped /\ LifeOK /\ WindowsOK
    BY InvParts DEF RepairInv
<1>2. /\ RowsGrow
      /\ tracked' \in [Repos -> SUBSET Commits] /\ unknown' \in [Repos -> SUBSET Commits]
      /\ \A x \in Repos : tracked'[x] \cap unknown'[x] = {} /\ asked'[x] \subseteq 2..Tip
      /\ \A x \in Repos \ {row[1]} : tracked'[x] = tracked[x] /\ unknown'[x] = unknown[x]
    BY FillsIn
<1>3. UNCHANGED <<state, jobs, worker, wg, ran>>
    BY DEF queue
<1>4. row[1] \in Repos
    BY PositionsAre
<1>5. RowsTyped' /\ CountsTyped'
    BY <1>1, <1>2, <1>4 DEF RowsTyped, CountsTyped
<1>6. WindowsOK'
    BY <1>1, <1>2, <1>3, <1>5, RowWrites DEF RowsGrow
<1>7. QueuePart' /\ LifeTyped' /\ LifeOK'
    BY <1>1, <1>3, QueueSame, LifeStays
<1> QED
    BY <1>5, <1>6, <1>7, InvFromParts

\* The writes of other processes.
LEMMA OthersStep ==
    ASSUME BackfillerAssumption, RepairAssumption, RepairInv, repair.pc # "server", NEW row \in Rows,
           OtherRepairs(row) \/ OtherDegrades(row)
    PROVE  RepairInv'
<1>1. BackfillerInv /\ RepairTyped /\ ProcessOK
    BY DEF RepairInv
<1>2. CASE OtherRepairs(row)
  <2>1. /\ IsUnknown(row)
        /\ unknown' = [unknown EXCEPT ![row[1]] = unknown[row[1]] \ {row[2]}]
        /\ tracked' = [tracked EXCEPT ![row[1]] = tracked[row[1]] \cup {row[2]}]
        /\ filled' = [filled EXCEPT ![row] = filled[row] + 1]
        /\ hurt' = hurt \cup {row[1]} /\ UNCHANGED <<queue, lifecycle, asked, aborted, calls, faults>>
        /\ UNCHANGED <<repair, walk>>
    BY <1>2 DEF OtherRepairs
  <2>2. filled' \in [Rows -> Nat] /\ FillsOnce /\ RowsGrow /\ BackfillerInv'
    BY <2>1, FillsIn, FillsInHurt
  <2>3. UNCHANGED <<jobs, shutdown>>
    BY <2>1 DEF queue, lifecycle
  <2> QED
    BY <1>1, <2>1, <2>2, <2>3, ProcessRests DEF ProcessOK
<1>3. CASE OtherDegrades(row)
  <2>0. row[1] \in Repos /\ row[2] \in Benchmarked[row[1]]
    BY PositionsAre
  <2>1. Degrade(row[1], row[2]) /\ UNCHANGED <<repair, walk, filled>>
    BY <1>3 DEF OtherDegrades, repairVars
  <2>2. /\ BackfillerInv' /\ UNCHANGED <<jobs, lifecycle, tracked, asked>>
        /\ unknown' = [unknown EXCEPT ![row[1]] = unknown[row[1]] \cup ({row[2]} \ tracked[row[1]])]
    BY <1>1, <2>0, <2>1, DegradeStep
  <2>3. RowsGrow
    <3>1. unknown \in [Repos -> SUBSET Commits]
      BY <1>1 DEF BackfillerInv, TypeOK
    <3> QED
      BY <3>1, <2>2 DEF RowsGrow
  <2>4. filled' \in [Rows -> Nat] /\ FillsOnce /\ UNCHANGED shutdown
    BY <1>1, <2>1, <2>2 DEF RepairTyped, FillsOnce, lifecycle
  <2> QED
    BY <1>1, <2>1, <2>2, <2>3, <2>4, ProcessRests DEF ProcessOK
<1> QED
    BY <1>2, <1>3


-----------------------------------------------------------------------------
(* The process. *)

\* Where the process alone moves, its backfiller stays as it is.
LEMMA VarsStay ==
    ASSUME BackfillerAssumption, BackfillerInv, UNCHANGED vars
    PROVE  BackfillerInv' /\ RowsGrow /\ UNCHANGED <<jobs, asked, shutdown, tracked, unknown>>
<1>1. UNCHANGED <<state, jobs, worker, wg, tracked, unknown, asked, ran, hurt, faults, calls, lifecycle, aborted>>
    BY DEF vars, lifecycle
<1>2. LifeTyped' /\ LifeOK'
    BY <1>1, InvParts, LifeStays
<1>3. BackfillerInv'
    BY <1>1, <1>2, OnlyLife
<1> QED
    BY <1>1, <1>3 DEF RowsGrow, lifecycle

\* The page's next row is its first one that is left.
LEMMA CurrentIs ==
    ASSUME BackfillerAssumption, RepairAssumption, repair \in Repair, repair.todo # {}
    PROVE  /\ repair.todo \in SUBSET Positions /\ Min(repair.todo) \in repair.todo
           /\ \A x \in repair.todo : Min(repair.todo) <= x
           /\ Min(repair.todo) \in Positions /\ Current = ScanOrder[Min(repair.todo)] /\ Current \in Rows
           /\ Cardinality(repair.todo \ {Min(repair.todo)}) = Cardinality(repair.todo) - 1
           /\ Cardinality(repair.todo) \in Nat \ {0}
<1>1. repair.todo \in SUBSET Positions
    BY Zenon DEF Repair
<1>2. /\ IsFiniteSet(repair.todo) /\ Cardinality(repair.todo) \in Nat /\ Min(repair.todo) \in repair.todo
      /\ Cardinality(repair.todo) # 0
      /\ \A x \in repair.todo : Min(repair.todo) <= x
    BY <1>1, SizesAre
<1>3. Cardinality(repair.todo \ {Min(repair.todo)}) = Cardinality(repair.todo) - 1
    BY <1>2, FS_RemoveElement
<1> QED
    BY <1>1, <1>2, <1>3, PositionsAre DEF Current

\* A row that is not repaired by this process is counted, and that is all.
LEMMA RowCounted ==
    ASSUME BackfillerAssumption, RepairAssumption, RepairInv, Reading, repair.todo # {},
           NEW t \in TallyRow, After(repair', "row", t), t.scanned = repair.tally.scanned + 1,
           Total(t) = Total(repair.tally) + 1, t.enqueued = repair.tally.enqueued,
           t.repaired = repair.tally.repaired, UNCHANGED <<jobs, asked, shutdown>>
    PROVE  repair' \in Repair /\ ProcessOK' /\ SummaryOK'
<1>1. repair \in Repair /\ ProcessOK /\ SummaryOK
    BY DEF RepairInv, RepairTyped
<1>2. /\ repair' \in Repair /\ repair'.pc = "row" /\ repair'.dry = repair.dry
      /\ repair'.backfill = repair.backfill /\ repair'.todo = repair.todo \ {Min(repair.todo)}
      /\ repair'.mine = repair.mine /\ repair'.tally = t
    BY DEF After
<1>3. repair.pc # "server" /\ repair.pc # "start" /\ shutdown = "open"
    BY <1>1 DEF Reading, ProcessOK
<1>4. /\ Cardinality(repair.todo \ {Min(repair.todo)}) = Cardinality(repair.todo) - 1
      /\ Cardinality(repair.todo) \in Nat \ {0}
    BY <1>1, CurrentIs
<1>5. Len(jobs) \in Nat
    BY DEF RepairInv, BackfillerInv, TypeOK
<1>6. ProcessOK'
  <2>1. Reading' => Len(jobs') + Cardinality(repair'.todo) <= Limit
    BY <1>1, <1>2, <1>4, <1>5 DEF ProcessOK, RepairAssumption
  <2>2. repair'.backfill = FALSE => jobs' = <<>>
    BY <1>1, <1>2, <1>3 DEF ProcessOK
  <2>3. \A r \in Repos : asked'[r] = {}
    BY <1>1, <1>3 DEF ProcessOK
  <2> QED
    BY <1>2, <1>3, <2>1, <2>2, <2>3 DEF ProcessOK, Reading
<1>7. SummaryOK'
  <2>1. /\ repair.tally.repaired = Cardinality(repair.mine) /\ (repair.dry = TRUE => repair.mine = {})
        /\ repair.tally.scanned = Total(repair.tally)
        /\ repair.tally.enqueued = Len(jobs)
        /\ \A i \in repair.mine, j \in repair.todo : i < j
        /\ repair.backfill = TRUE =>
             /\ Len(jobs) = Cardinality(Mine)
             /\ \A i \in Mine : jobs[Cardinality(Upto(i))]
                                  = [repo |-> ScanOrder[i][1], until |-> ScanOrder[i][2]]
    BY <1>1, <1>3 DEF SummaryOK, Total
  <2>2. Mine' = Mine /\ \A i : Upto(i)' = Upto(i)
    BY <1>2 DEF Mine, Upto
  <2>3. t.scanned = Total(t)
    BY <2>1
  <2>4. t.scanned = t.repaired + t.would + t.unsupported + t.failed + t.already
    BY <2>3 DEF Total
  <2>5. \A i \in Mine' : jobs'[Cardinality(Upto(i)')] = jobs[Cardinality(Upto(i))]
    BY <2>2
  <2>6. /\ repair'.tally.repaired = Cardinality(repair'.mine) /\ (repair'.dry = TRUE => repair'.mine = {})
        /\ repair'.tally.enqueued = Len(jobs')
        /\ \A i \in repair'.mine, j \in repair'.todo : i < j
    BY <1>2, <2>1
  <2>7. repair'.backfill = TRUE =>
          /\ Len(jobs') = Cardinality(Mine')
          /\ \A i \in Mine' : jobs'[Cardinality(Upto(i)')] = [repo |-> ScanOrder[i][1], until |-> ScanOrder[i][2]]
    BY <1>2, <2>1, <2>2, <2>5
  <2> QED
    BY <1>2, <2>4, <2>6, <2>7, Zenon DEF SummaryOK
<1> QED
    BY <1>2, <1>6, <1>7

\* The walk goes past a row that needs nothing more, or is not whole.
LEMMA WalkCounted ==
    ASSUME BackfillerAssumption, RepairAssumption, RepairInv, Reading, repair.todo # {},
           RowsOK', RowsGrow, NEW row, row = Current, repair'.pc \in {"row", "update"}, repair'.dry = repair.dry,
           repair'.todo \in {repair.todo, repair.todo \ {Min(repair.todo)}}, repair'.next = repair.next,
           walk'.owed = walk.owed, walk'.whole = TRUE => walk.whole = TRUE,
           \/ repair'.todo = repair.todo
           \/ walk'.whole = FALSE \/ (walk.whole = TRUE => repair.dry = TRUE)
           \/ row[1] \in Unsupported \/ ~IsUnknown(row)'
    PROVE  WalkOK'
<1>1. repair \in Repair /\ WalkOK /\ walk.owed \subseteq Rows
  <2>1. walk \in [owed : SUBSET Rows, whole : BOOLEAN]
    BY DEF RepairInv, RepairTyped
  <2> QED
    BY <2>1 DEF RepairInv, RepairTyped
<1>2. \A x \in walk.owed : x[2] \in tracked[x[1]] \cup unknown[x[1]]
    BY <1>1 DEF WalkOK
<1>3. \A x \in walk.owed : /\ x[2] \in tracked'[x[1]] \cup unknown'[x[1]]
                           /\ ~IsUnknown(x) => ~IsUnknown(x)'
    BY <1>1, <1>2, OwedMoves
<1>4. Reading'
    BY DEF Reading
<1>5. ASSUME walk'.whole = TRUE
      PROVE  /\ repair'.dry = FALSE
             /\ \A i \in Positions : ScanOrder[i] \in walk.owed =>
                  ScanOrder[i][1] \in Unsupported \/ ~IsUnknown(ScanOrder[i])' \/ Ahead(i)'
  <2>1. walk.whole = TRUE /\ repair.dry = FALSE
    BY <1>1, <1>5 DEF WalkOK
  <2>2. ASSUME NEW i \in Positions, ScanOrder[i] \in walk.owed
        PROVE  ScanOrder[i][1] \in Unsupported \/ ~IsUnknown(ScanOrder[i])' \/ Ahead(i)'
    <3>1. ScanOrder[i][1] \in Unsupported \/ ~IsUnknown(ScanOrder[i]) \/ Ahead(i)
      BY <1>1, <2>1, <2>2 DEF WalkOK
    <3>2. CASE ~IsUnknown(ScanOrder[i])
      BY <3>2, <2>2, <1>3
    <3>3. CASE repair.next # 0 /\ i > repair.next
      BY <3>3 DEF Ahead
    <3>4. CASE i \in repair.todo
      <4>1. CASE i \in repair'.todo
        BY <4>1, <1>4 DEF Ahead
      <4>2. CASE i \notin repair'.todo
        <5>1. i = Min(repair.todo) /\ repair'.todo # repair.todo
          BY <3>4, <4>2
        <5>2. row = ScanOrder[i]
          BY <5>1 DEF Current
        <5>3. row[1] \in Unsupported \/ ~IsUnknown(row)'
          BY <5>1, <1>5, <2>1
        <5>4. CASE row[1] \in Unsupported
          BY <5>2, <5>4
        <5>5. CASE ~IsUnknown(row)'
          BY <5>2, <5>5 DEF IsUnknown
        <5> QED
          BY <5>3, <5>4, <5>5
      <4> QED
        BY <4>1, <4>2
    <3> QED
      BY <3>1, <3>2, <3>3, <3>4 DEF Ahead
  <2> QED
    BY <2>1, <2>2
<1> QED
    BY <1>3, <1>4, <1>5, Zenon DEF WalkOK


\* A row that is not on GitHub is counted.
LEMMA RowUnsupportedStep ==
    ASSUME BackfillerAssumption, RepairAssumption, RepairInv, RowUnsupported
    PROVE  RepairInv'
<1>1. BackfillerInv /\ RepairTyped /\ FilledOK /\ repair \in Repair /\ repair.tally \in TallyRow
  <2>1. repair \in Repair
    BY DEF RepairInv, RepairTyped
  <2>2. repair.tally \in TallyRow
    BY <2>1, Zenon DEF Repair
  <2> QED
    BY <2>1, <2>2 DEF RepairInv
<1>2. /\ repair.pc = "row" /\ repair.todo # {} /\ Current[1] \in Unsupported
      /\ repair' = Tally("unsupported") /\ UNCHANGED <<vars, filled, walk>>
    BY DEF RowUnsupported
<1>3. BackfillerInv' /\ RowsGrow /\ UNCHANGED <<jobs, asked, shutdown, tracked, unknown>>
    BY <1>1, <1>2, VarsStay
<1>4. After(repair', "row", Counted("unsupported"))
    BY <1>1, <1>2, TallyIs DEF Counters
<1>5. Reading /\ repair'.pc = "row" /\ repair'.dry = repair.dry /\ repair'.next = repair.next
      /\ repair'.todo = repair.todo \ {Min(repair.todo)}
    BY <1>2, <1>4 DEF After, Reading
<1>6. PICK t \in TallyRow : /\ t = Counted("unsupported") /\ t.scanned = repair.tally.scanned + 1
                            /\ Total(t) = Total(repair.tally) + 1 /\ t.enqueued = repair.tally.enqueued
                            /\ t.repaired = repair.tally.repaired
  <2>1. repair.tally.repaired \in Nat
    BY <1>1 DEF TallyRow
  <2> QED
    BY <1>1, <2>1, CountedIs DEF Counters
<1>7. repair' \in Repair /\ ProcessOK' /\ SummaryOK'
    BY <1>2, <1>3, <1>4, <1>5, <1>6, RowCounted
<1>8. PICK row : row = Current
    OBVIOUS
<1>9. WalkOK'
    BY <1>2, <1>3, <1>5, <1>8, WalkCounted DEF BackfillerInv, WindowsOK
<1>10. FilledOK' /\ RepairTyped'
    BY <1>1, <1>2, <1>3, <1>7, FilledMoves DEF FillsOnce, RepairTyped
<1> QED
    BY <1>3, <1>7, <1>9, <1>10 DEF RepairInv

\* A row that GitHub has no answer for is counted, and the walk is not whole.
LEMMA RowFailsStep ==
    ASSUME BackfillerAssumption, RepairAssumption, RepairInv, RowFails
    PROVE  RepairInv'
<1>1. BackfillerInv /\ RepairTyped /\ FilledOK /\ repair \in Repair /\ repair.tally \in TallyRow
  <2>1. repair \in Repair
    BY DEF RepairInv, RepairTyped
  <2>2. repair.tally \in TallyRow
    BY <2>1, Zenon DEF Repair
  <2> QED
    BY <2>1, <2>2 DEF RepairInv
<1>2. /\ repair.pc = "row" /\ repair.todo # {} /\ faults < MaxFaults /\ faults' = faults + 1
      /\ repair' = Tally("failed") /\ walk' = [walk EXCEPT !.whole = FALSE]
      /\ UNCHANGED <<state, jobs, worker, wg, ran, lifecycle, tracked, unknown, asked, hurt, aborted, calls, filled>>
    BY DEF RowFails, queue
<1>3. QueuePart /\ LifeTyped /\ RowsTyped /\ CountsTyped /\ LifeOK /\ WindowsOK
    BY <1>1, InvParts
<1>4. BackfillerInv'
  <2>1. RowsTyped' /\ CountsTyped'
    BY <1>2, <1>3 DEF RowsTyped, CountsTyped, BackfillerAssumption
  <2>2. \A x \in Repos : asked[x] \subseteq 2..Tip /\ tracked[x] \cap unknown[x] = {}
    BY <1>3 DEF WindowsOK, RowsOK
  <2>3. WindowsOK'
    BY <1>2, <1>3, <2>1, <2>2, RowWrites
  <2>4. QueuePart' /\ LifeTyped' /\ LifeOK'
    BY <1>2, <1>3, QueueSame, LifeStays
  <2> QED
    BY <2>1, <2>3, <2>4, InvFromParts
<1>5. RowsGrow /\ UNCHANGED <<jobs, asked, shutdown, tracked, unknown>>
    BY <1>2 DEF RowsGrow, lifecycle
<1>6. After(repair', "row", Counted("failed"))
    BY <1>1, <1>2, TallyIs DEF Counters
<1>7. Reading /\ repair'.pc = "row" /\ repair'.dry = repair.dry /\ repair'.next = repair.next
      /\ repair'.todo = repair.todo \ {Min(repair.todo)}
    BY <1>2, <1>6 DEF After, Reading
<1>8. PICK t \in TallyRow : /\ t = Counted("failed") /\ t.scanned = repair.tally.scanned + 1
                            /\ Total(t) = Total(repair.tally) + 1 /\ t.enqueued = repair.tally.enqueued
                            /\ t.repaired = repair.tally.repaired
  <2>1. repair.tally.repaired \in Nat
    BY <1>1 DEF TallyRow
  <2> QED
    BY <1>1, <2>1, CountedIs DEF Counters
<1>9. repair' \in Repair /\ ProcessOK' /\ SummaryOK'
    BY <1>2, <1>5, <1>6, <1>7, <1>8, RowCounted
<1>10. walk' \in [owed : SUBSET Rows, whole : BOOLEAN] /\ walk'.owed = walk.owed /\ walk'.whole = FALSE
    BY <1>1, <1>2, Zenon DEF RepairTyped
<1>11. PICK row : row = Current
    OBVIOUS
<1>12. WalkOK'
    BY <1>2, <1>4, <1>5, <1>7, <1>10, <1>11, WalkCounted DEF BackfillerInv, WindowsOK
<1>13. FilledOK' /\ RepairTyped'
    BY <1>1, <1>2, <1>5, <1>9, <1>10, FilledMoves DEF FillsOnce, RepairTyped
<1> QED
    BY <1>4, <1>9, <1>12, <1>13 DEF RepairInv

\* A dry run counts the row and what it would backfill; the walk is not whole by it.
LEMMA DryRowStep ==
    ASSUME BackfillerAssumption, RepairAssumption, RepairInv, RowEnriched, repair.dry = TRUE
    PROVE  RepairInv'
<1>1. BackfillerInv /\ RepairTyped /\ FilledOK /\ repair \in Repair /\ repair.tally \in TallyRow
  <2>1. repair \in Repair
    BY DEF RepairInv, RepairTyped
  <2>2. repair.tally \in TallyRow
    BY <2>1, Zenon DEF Repair
  <2> QED
    BY <2>1, <2>2 DEF RepairInv
<1>2. PICK n \in Nat : n = (IF HasJob(Current[2]) THEN 1 ELSE 0)
    OBVIOUS
<1>3. PICK u : u = Tally("would")
    OBVIOUS
<1>4. PICK s : s = Counted("would")
    OBVIOUS
<1>5. /\ repair.pc = "row" /\ repair.todo # {} /\ UNCHANGED <<vars, filled, walk>>
      /\ repair' = [u EXCEPT !.tally.wouldBackfill = @ + n]
    BY <1>2, <1>3 DEF RowEnriched
<1>6. BackfillerInv' /\ RowsGrow /\ UNCHANGED <<jobs, asked, shutdown, tracked, unknown>>
    BY <1>1, <1>5, VarsStay
<1>7. After(u, "row", s)
    BY <1>1, <1>3, <1>4, <1>5, TallyIs DEF Counters
<1>8. /\ s \in TallyRow /\ s.scanned = repair.tally.scanned + 1
      /\ Total(s) = Total(repair.tally) + 1 /\ s.enqueued = repair.tally.enqueued
      /\ s.repaired = repair.tally.repaired
  <2>1. repair.tally.repaired \in Nat
    BY <1>1 DEF TallyRow
  <2> QED
    BY <1>1, <1>4, <2>1, CountedIs DEF Counters
<1>9. PICK t : t = [s EXCEPT !.wouldBackfill = s.wouldBackfill + n]
    OBVIOUS
<1>10. s.wouldBackfill + n \in Nat
    BY <1>8 DEF TallyRow
<1>11. /\ t \in TallyRow /\ t.scanned = s.scanned /\ t.repaired = s.repaired /\ t.would = s.would
       /\ t.unsupported = s.unsupported /\ t.failed = s.failed /\ t.already = s.already
       /\ t.enqueued = s.enqueued
    BY <1>8, <1>9, <1>10, Zenon DEF TallyRow
<1>12. Total(t) = Total(s)
    BY <1>11, Zenon DEF Total
<1>13. u \in Repair /\ u.tally = s
    BY <1>7 DEF After
<1>14. repair' = [u EXCEPT !.tally = t]
    BY <1>5, <1>9, <1>13
<1>15. /\ repair' \in Repair /\ repair'.pc = u.pc /\ repair'.dry = u.dry /\ repair'.backfill = u.backfill
       /\ repair'.todo = u.todo /\ repair'.next = u.next /\ repair'.mine = u.mine /\ repair'.tally = t
  <2>1. PICK q : q = [u EXCEPT !.tally = t]
    OBVIOUS
  <2>2. /\ q \in Repair /\ q.pc = u.pc /\ q.dry = u.dry /\ q.backfill = u.backfill
        /\ q.todo = u.todo /\ q.next = u.next /\ q.mine = u.mine /\ q.tally = t
    BY <1>11, <1>13, <2>1, Zenon DEF Repair
  <2> QED
    BY <1>14, <2>1, <2>2, Zenon
<1>16. After(repair', "row", t)
    BY <1>7, <1>15, Zenon DEF After
<1>17. Reading /\ repair'.pc = "row" /\ repair'.dry = repair.dry /\ repair'.next = repair.next
      /\ repair'.todo = repair.todo \ {Min(repair.todo)}
    BY <1>5, <1>16 DEF After, Reading
<1>18. repair' \in Repair /\ ProcessOK' /\ SummaryOK'
    BY <1>5, <1>6, <1>8, <1>11, <1>12, <1>16, <1>17, RowCounted
<1>19. PICK row : row = Current
    OBVIOUS
<1>20. WalkOK'
    BY <1>5, <1>6, <1>17, <1>19, WalkCounted DEF BackfillerInv, WindowsOK
<1>21. FilledOK' /\ RepairTyped'
    BY <1>1, <1>5, <1>6, <1>18, FilledMoves DEF FillsOnce, RepairTyped
<1> QED
    BY <1>6, <1>18, <1>20, <1>21 DEF RepairInv

\* Otherwise it goes on to the update with what GitHub said.
LEMMA EnrichedStep ==
    ASSUME BackfillerAssumption, RepairAssumption, RepairInv, RowEnriched, repair.dry = FALSE
    PROVE  RepairInv'
<1>1. BackfillerInv /\ RepairTyped /\ FilledOK /\ ProcessOK /\ SummaryOK /\ repair \in Repair
    BY DEF RepairInv, RepairTyped
<1>2. /\ repair.pc = "row" /\ repair.todo # {} /\ UNCHANGED <<vars, filled, walk>>
      /\ repair' = [repair EXCEPT !.pc = "update"]
    BY DEF RowEnriched
<1>3. BackfillerInv' /\ RowsGrow /\ UNCHANGED <<jobs, asked, shutdown, tracked, unknown>>
    BY <1>1, <1>2, VarsStay
<1>4. /\ repair' \in Repair /\ repair'.pc = "update" /\ repair'.dry = repair.dry
      /\ repair'.backfill = repair.backfill /\ repair'.todo = repair.todo /\ repair'.next = repair.next
      /\ repair'.mine = repair.mine /\ repair'.tally = repair.tally
  <2>1. PICK q : q = [repair EXCEPT !.pc = "update"]
    OBVIOUS
  <2>2. /\ q \in Repair /\ q.pc = "update" /\ q.dry = repair.dry
        /\ q.backfill = repair.backfill /\ q.todo = repair.todo /\ q.next = repair.next
        /\ q.mine = repair.mine /\ q.tally = repair.tally
    BY <1>1, <2>1, Zenon DEF Repair
  <2> QED
    BY <1>2, <2>1, <2>2, Zenon
<1>5. Reading /\ Reading'
    BY <1>2, <1>4 DEF Reading
<1>6. ProcessOK'
    BY <1>1, <1>2, <1>3, <1>4, <1>5 DEF ProcessOK
<1>7. SummaryOK'
  <2>1. Mine' = Mine /\ \A i : Upto(i)' = Upto(i)
    BY <1>4 DEF Mine, Upto
  <2> QED
    BY <1>1, <1>2, <1>3, <1>4, <2>1 DEF SummaryOK
<1>8. PICK row : row = Current
    OBVIOUS
<1>9. WalkOK'
    BY <1>2, <1>3, <1>4, <1>5, <1>8, WalkCounted DEF BackfillerInv, WindowsOK
<1>10. FilledOK' /\ RepairTyped'
    BY <1>1, <1>2, <1>3, <1>4, FilledMoves DEF FillsOnce, RepairTyped
<1> QED
    BY <1>3, <1>6, <1>7, <1>9, <1>10 DEF RepairInv


\* Somebody else has filled the row in meanwhile.
LEMMA AlreadyStep ==
    ASSUME BackfillerAssumption, RepairAssumption, RepairInv, RowUpdated, ~StillUnknown(Current)
    PROVE  RepairInv'
<1>1. BackfillerInv /\ RepairTyped /\ FilledOK /\ ProcessOK /\ repair \in Repair /\ repair.tally \in TallyRow
  <2>1. repair \in Repair
    BY DEF RepairInv, RepairTyped
  <2>2. repair.tally \in TallyRow
    BY <2>1, Zenon DEF Repair
  <2> QED
    BY <2>1, <2>2 DEF RepairInv
<1>2. PICK u, t : u = Tally("already") /\ t = Counted("already")
    OBVIOUS
<1>3. /\ repair.pc = "update" /\ repair' = [u EXCEPT !.pc = "row"] /\ UNCHANGED <<vars, filled, walk>>
    BY <1>2 DEF RowUpdated
<1>4. repair.todo # {} /\ Reading
    BY <1>1, <1>3 DEF ProcessOK, Reading
<1>5. BackfillerInv' /\ RowsGrow /\ UNCHANGED <<jobs, asked, shutdown, tracked, unknown>>
    BY <1>1, <1>3, VarsStay
<1>6. After(u, "update", t)
    BY <1>1, <1>2, <1>3, TallyIs DEF Counters
<1>7. After(repair', "row", t)
  <2>1. PICK q : q = [u EXCEPT !.pc = "row"]
    OBVIOUS
  <2>2. u \in Repair
    BY <1>6 DEF After
  <2>3. /\ q \in Repair /\ q.pc = "row" /\ q.dry = u.dry /\ q.backfill = u.backfill /\ q.todo = u.todo
        /\ q.next = u.next /\ q.mine = u.mine /\ q.tally = u.tally
    BY <2>1, <2>2, Zenon DEF Repair
  <2>4. After(q, "row", t)
    BY <1>6, <2>3, Zenon DEF After
  <2> QED
    BY <1>3, <2>1, <2>4
<1>8. repair'.pc = "row" /\ repair'.dry = repair.dry /\ repair'.next = repair.next
      /\ repair'.todo = repair.todo \ {Min(repair.todo)}
    BY <1>7 DEF After
<1>9. /\ t \in TallyRow /\ t.scanned = repair.tally.scanned + 1
      /\ Total(t) = Total(repair.tally) + 1 /\ t.enqueued = repair.tally.enqueued
      /\ t.repaired = repair.tally.repaired
  <2>1. repair.tally.repaired \in Nat
    BY <1>1 DEF TallyRow
  <2> QED
    BY <1>1, <1>2, <2>1, CountedIs DEF Counters
<1>10. repair' \in Repair /\ ProcessOK' /\ SummaryOK'
    BY <1>4, <1>5, <1>7, <1>9, RowCounted
<1>11. PICK row : row = Current
    OBVIOUS
<1>12. ~IsUnknown(row)'
    BY <1>5, <1>11 DEF StillUnknown, IsUnknown
<1>13. WalkOK'
    BY <1>3, <1>4, <1>5, <1>8, <1>11, <1>12, WalkCounted DEF BackfillerInv, WindowsOK
<1>14. FilledOK' /\ RepairTyped'
    BY <1>1, <1>3, <1>5, <1>10, FilledMoves DEF FillsOnce, RepairTyped
<1> QED
    BY <1>5, <1>10, <1>13, <1>14 DEF RepairInv

\* The process's record after it has repaired a row, and enqueued a window for it or not.
Repaired(q, enqueued) ==
    /\ q \in Repair /\ q.pc = "row" /\ q.dry = repair.dry /\ q.backfill = repair.backfill
    /\ q.todo = repair.todo \ {Min(repair.todo)} /\ q.next = repair.next
    /\ q.mine = repair.mine \cup {Min(repair.todo)} /\ q.tally \in TallyRow
    /\ q.tally.scanned = repair.tally.scanned + 1 /\ Total(q.tally) = Total(repair.tally) + 1
    /\ q.tally.repaired = repair.tally.repaired + 1
    /\ q.tally.enqueued = repair.tally.enqueued + enqueued

\* The process after a row that it repaired.
LEMMA RepairedIs ==
    ASSUME BackfillerAssumption, RepairAssumption, repair \in Repair, repair.todo # {}
    PROVE  /\ Repaired([Tally("repaired") EXCEPT !.pc = "row", !.mine = @ \cup {Min(repair.todo)},
                                                 !.tally.enqueued = @ + 1], 1)
           /\ \A n \in Nat :
                Repaired([Tally("repaired") EXCEPT !.pc = "row", !.mine = @ \cup {Min(repair.todo)},
                                                   !.tally.wouldBackfill = @ + n], 0)
<1>1. PICK u, s, m : u = Tally("repaired") /\ s = Counted("repaired") /\ m = Min(repair.todo)
    OBVIOUS
<1>2. After(u, repair.pc, s)
    BY <1>1, TallyIs DEF Counters
<1>3. /\ u \in Repair /\ u.dry = repair.dry /\ u.backfill = repair.backfill
      /\ u.todo = repair.todo \ {m} /\ u.next = repair.next /\ u.mine = repair.mine /\ u.tally = s
    BY <1>1, <1>2, Zenon DEF After
<1>4. /\ s \in TallyRow /\ s.scanned = repair.tally.scanned + 1
      /\ Total(s) = Total(repair.tally) + 1 /\ s.enqueued = repair.tally.enqueued
      /\ s.repaired = repair.tally.repaired + 1
  <2>1. repair.tally \in TallyRow
    BY Zenon DEF Repair
  <2> QED
    BY <1>1, <2>1, CountedIs DEF Counters
<1>5. PICK mine \in SUBSET Positions : mine = repair.mine \cup {m}
  <2>1. m \in Positions
    BY <1>1, CurrentIs
  <2>2. repair.mine \in SUBSET Positions
    BY Zenon DEF Repair
  <2> QED
    BY <2>1, <2>2
\* Whatever becomes of the tally's other fields.
<1>6. ASSUME NEW t \in TallyRow, NEW e, t.scanned = s.scanned, Total(t) = Total(s), t.repaired = s.repaired,
             t.enqueued = repair.tally.enqueued + e
      PROVE  Repaired([u EXCEPT !.pc = "row", !.mine = mine, !.tally = t], e)
  <2>1. PICK q : q = [u EXCEPT !.pc = "row", !.mine = mine, !.tally = t]
    OBVIOUS
  <2>2. /\ q \in Repair /\ q.pc = "row" /\ q.dry = u.dry /\ q.backfill = u.backfill /\ q.todo = u.todo
        /\ q.next = u.next /\ q.mine = mine /\ q.tally = t
    BY <1>3, <2>1, Zenon DEF Repair
  <2>3. Repaired(q, e)
    BY <1>1, <1>3, <1>4, <1>5, <1>6, <2>2, Zenon DEF Repaired
  <2> QED
    BY <2>1, <2>3
<1>7. Repaired([Tally("repaired") EXCEPT !.pc = "row", !.mine = @ \cup {Min(repair.todo)},
                                         !.tally.enqueued = @ + 1], 1)
  <2>1. PICK t : t = [s EXCEPT !.enqueued = s.enqueued + 1]
    OBVIOUS
  <2>2. s.enqueued + 1 \in Nat
    BY <1>4 DEF TallyRow
  <2>3. /\ t \in TallyRow /\ t.scanned = s.scanned /\ t.repaired = s.repaired /\ t.would = s.would
        /\ t.unsupported = s.unsupported /\ t.failed = s.failed /\ t.already = s.already
        /\ t.enqueued = s.enqueued + 1
    BY <1>4, <2>1, <2>2, Zenon DEF TallyRow
  <2>4. Total(t) = Total(s)
    BY <2>3, Zenon DEF Total
  <2>5. Repaired([u EXCEPT !.pc = "row", !.mine = mine, !.tally = t], 1)
    BY <1>4, <1>6, <2>3, <2>4
  <2>6. [u EXCEPT !.pc = "row", !.mine = mine, !.tally = t]
          = [Tally("repaired") EXCEPT !.pc = "row", !.mine = @ \cup {Min(repair.todo)}, !.tally.enqueued = @ + 1]
    BY <1>1, <1>3, <1>5, <2>1
  <2> QED
    BY <2>5, <2>6
<1>8. ASSUME NEW n \in Nat
      PROVE  Repaired([Tally("repaired") EXCEPT !.pc = "row", !.mine = @ \cup {Min(repair.todo)},
                                                !.tally.wouldBackfill = @ + n], 0)
  <2>1. PICK t : t = [s EXCEPT !.wouldBackfill = s.wouldBackfill + n]
    OBVIOUS
  <2>2. s.wouldBackfill + n \in Nat
    BY <1>4 DEF TallyRow
  <2>3. /\ t \in TallyRow /\ t.scanned = s.scanned /\ t.repaired = s.repaired /\ t.would = s.would
        /\ t.unsupported = s.unsupported /\ t.failed = s.failed /\ t.already = s.already
        /\ t.enqueued = s.enqueued
    BY <1>4, <2>1, <2>2, Zenon DEF TallyRow
  <2>4. Total(t) = Total(s)
    BY <2>3, Zenon DEF Total
  <2>5. t.enqueued = repair.tally.enqueued + 0
    <3>1. t.enqueued \in Nat /\ t.enqueued = repair.tally.enqueued
      BY <1>4, <2>3 DEF TallyRow
    <3> QED
      BY <3>1
  <2>6. Repaired([u EXCEPT !.pc = "row", !.mine = mine, !.tally = t], 0)
    BY <1>6, <2>3, <2>4, <2>5
  <2>7. [u EXCEPT !.pc = "row", !.mine = mine, !.tally = t]
          = [Tally("repaired") EXCEPT !.pc = "row", !.mine = @ \cup {Min(repair.todo)}, !.tally.wouldBackfill = @ + n]
    BY <1>1, <1>3, <1>5, <2>1
  <2> QED
    BY <2>6, <2>7
<1> QED
    BY <1>7, <1>8


\* The summary counts the row, and the window, if one was enqueued, as the last so far.
LEMMA RepairedSummary ==
    ASSUME BackfillerAssumption, RepairAssumption, RepairInv, repair.pc = "update",
           NEW e \in {0, 1}, Repaired(repair', e), NEW m, m = Min(repair.todo), UNCHANGED <<asked, shutdown>>,
           \/ /\ e = 1 /\ repair.backfill = TRUE /\ HasJob(ScanOrder[m][2])
              /\ NewJob(ScanOrder[m][1], ScanOrder[m][2])
           \/ e = 0 /\ UNCHANGED jobs /\ ~(repair.backfill = TRUE /\ HasJob(ScanOrder[m][2]))
    PROVE  ProcessOK' /\ SummaryOK'
<1>1. repair \in Repair /\ ProcessOK /\ SummaryOK
    BY DEF RepairInv, RepairTyped
<1>2. /\ repair'.pc = "row" /\ repair'.dry = repair.dry /\ repair'.backfill = repair.backfill
      /\ repair'.todo = repair.todo \ {m} /\ repair'.mine = repair.mine \cup {m}
      /\ repair'.tally.scanned = repair.tally.scanned + 1
      /\ Total(repair'.tally) = Total(repair.tally) + 1
      /\ repair'.tally.repaired = repair.tally.repaired + 1
      /\ repair'.tally.enqueued = repair.tally.enqueued + e
    BY DEF Repaired
<1>3. Reading /\ shutdown = "open" /\ repair.dry = FALSE /\ repair.todo # {}
    BY <1>1 DEF Reading, ProcessOK
<1>4. /\ repair.todo \in SUBSET Positions /\ m \in repair.todo /\ m \in Positions /\ \A x \in repair.todo : m <= x
      /\ Cardinality(repair.todo \ {m}) = Cardinality(repair.todo) - 1 /\ Cardinality(repair.todo) \in Nat \ {0}
    BY <1>1, <1>3, CurrentIs
<1>5. Len(jobs) \in Nat /\ Len(jobs') = Len(jobs) + e
  <2>1. Len(jobs) \in Nat
    BY DEF RepairInv, BackfillerInv, TypeOK
  <2> QED
    BY <2>1 DEF NewJob
<1>6. ProcessOK'
  <2>1. Len(jobs') + Cardinality(repair'.todo) <= Limit
    BY <1>1, <1>2, <1>3, <1>4, <1>5 DEF ProcessOK, RepairAssumption
  <2>2. repair'.backfill = FALSE => jobs' = <<>>
    BY <1>1, <1>2 DEF ProcessOK
  <2>3. \A r \in Repos : asked'[r] = {}
    BY <1>1 DEF ProcessOK
  <2> QED
    BY <1>2, <1>3, <2>1, <2>2, <2>3 DEF ProcessOK, Reading
<1>7. /\ repair.tally.repaired = Cardinality(repair.mine)
      /\ repair.tally.scanned = Total(repair.tally)
      /\ repair.tally.enqueued = Len(jobs)
      /\ \A i \in repair.mine, j \in repair.todo : i < j
      /\ repair.backfill = TRUE =>
           /\ Len(jobs) = Cardinality(Mine)
           /\ \A i \in Mine : jobs[Cardinality(Upto(i))]
                                = [repo |-> ScanOrder[i][1], until |-> ScanOrder[i][2]]
    BY <1>1 DEF SummaryOK, Total
<1>8. repair.mine \in SUBSET Positions /\ repair.mine \in SUBSET Nat /\ Positions \subseteq Nat /\ m \in Nat
  <2>1. repair.mine \in SUBSET Positions
    BY <1>1, Zenon DEF Repair
  <2> QED
    BY <2>1, <1>4, SizesAre
<1>9. /\ m \notin repair.mine /\ \A i \in repair.mine : i < m
    BY <1>4, <1>7, <1>8
<1>10. Cardinality(repair'.mine) = Cardinality(repair.mine) + 1
  <2>1. IsFiniteSet(repair.mine)
    BY <1>8, SizesAre
  <2>2. PICK S : S = repair.mine
    OBVIOUS
  <2>3. IsFiniteSet(S) /\ m \notin S
    BY <1>9, <2>1, <2>2
  <2>4. Cardinality(S \cup {m}) = Cardinality(S) + 1
    BY <2>3, FS_AddElement, Zenon
  <2> QED
    BY <1>2, <2>2, <2>4, Zenon
<1>11. \A i \in repair'.mine, j \in repair'.todo : i < j
  <2>1. ASSUME NEW j \in repair.todo \ {m} PROVE m < j
    <3>1. j \in Nat /\ m <= j /\ j # m
      BY <1>4, <1>8
    <3> QED
      BY <3>1, <1>8
  <2> QED
    BY <1>2, <1>7, <2>1
<1>12. ASSUME repair.backfill = TRUE
       PROVE  /\ Len(jobs') = Cardinality(Mine')
              /\ \A i \in Mine' : jobs'[Cardinality(Upto(i)')] = [repo |-> ScanOrder[i][1], until |-> ScanOrder[i][2]]
  <2>0. Mine \in SUBSET Positions /\ IsFiniteSet(Mine) /\ m \notin Mine /\ (\A i \in Mine : i < m /\ i \in Nat)
    <3>1. Mine \in SUBSET Positions
      BY <1>8 DEF Mine
    <3>2. Mine \subseteq repair.mine
      BY DEF Mine
    <3> QED
      BY <3>1, <3>2, <1>8, <1>9, SizesAre
  <2>1. CASE HasJob(ScanOrder[m][2])
    <3>1. e = 1 /\ NewJob(ScanOrder[m][1], ScanOrder[m][2])
      BY <1>12, <2>1
    <3>2. Mine' = Mine \cup {m}
      BY <1>2, <2>1 DEF Mine, HasJob
    <3>3. Cardinality(Mine') = Cardinality(Mine) + 1
      BY <2>0, <3>2, FS_AddElement
    <3>4. ASSUME NEW i \in Mine'
          PROVE  jobs'[Cardinality(Upto(i)')] = [repo |-> ScanOrder[i][1], until |-> ScanOrder[i][2]]
      <4>1. CASE i = m
        <5>1. Upto(i)' = Mine'
          <6>1. ASSUME NEW j \in Mine' PROVE j <= i
            <7>1. j = m \/ (j < m /\ j \in Nat)
              BY <6>1, <2>0, <3>2
            <7> QED
              BY <7>1, <4>1, <1>8
          <6> QED
            BY <6>1 DEF Upto
        <5>2. Cardinality(Upto(i)') = Len(jobs) + 1
          BY <5>1, <3>3, <1>7, <1>12
        <5>3. jobs'[Len(jobs) + 1] = [repo |-> ScanOrder[m][1], until |-> ScanOrder[m][2]]
          BY <3>1, Zenon DEF NewJob
        <5> QED
          BY <4>1, <5>2, <5>3, Zenon
      <4>2. CASE i \in Mine
        <5>1. Upto(i)' = Upto(i)
          <6>1. i < m /\ i \in Nat
            BY <4>2, <2>0
          <6>2. ~(m <= i)
            BY <6>1, <1>8
          <6> QED
            BY <6>2, <3>2 DEF Upto
        <5>2. Upto(i) \in SUBSET Mine /\ i \in Upto(i)
          BY <4>2, <2>0 DEF Upto
        <5>3. Cardinality(Upto(i)) \in Nat /\ Cardinality(Upto(i)) <= Cardinality(Mine) /\ Cardinality(Upto(i)) # 0
          <6>1. Cardinality(Upto(i)) \in Nat /\ Cardinality(Upto(i)) <= Cardinality(Mine)
            BY <5>2, <2>0, SizesAre
          <6>2. Upto(i) \in SUBSET Positions
            BY <5>2, <2>0
          <6>3. Cardinality(Upto(i)) # 0
            BY <5>2, <6>2, SizesAre
          <6> QED
            BY <6>1, <6>3
        <5>4. Cardinality(Upto(i)) \in Ids
          BY <5>3, <1>5, <1>7, <1>12 DEF Ids
        <5>5. \A k \in Ids : jobs'[k] = jobs[k]
          BY <3>1, Zenon DEF NewJob
        <5>6. jobs[Cardinality(Upto(i))] = [repo |-> ScanOrder[i][1], until |-> ScanOrder[i][2]]
          BY <4>2, <1>7, <1>12, Zenon
        <5> QED
          BY <5>1, <5>4, <5>5, <5>6, Zenon
      <4> QED
        BY <3>2, <3>4, <4>1, <4>2
    <3>5. Len(jobs') = Cardinality(Mine')
      BY <3>1, <3>3, <1>5, <1>7, <1>12
    <3> QED
      BY <3>4, <3>5
  <2>2. CASE ~HasJob(ScanOrder[m][2])
    <3>1. e = 0 /\ jobs' = jobs
      BY <2>2
    <3>2. Mine' = Mine
      BY <1>2, <2>2 DEF Mine, HasJob
    <3>3. \A i : Upto(i)' = Upto(i)
      BY <3>2 DEF Upto
    <3> QED
      BY <3>1, <3>2, <3>3, <1>7, <1>12
  <2> QED
    BY <2>1, <2>2
<1>13. SummaryOK'
  <2>1. /\ repair'.tally.repaired = Cardinality(repair'.mine) /\ (repair'.dry = TRUE => repair'.mine = {})
        /\ repair'.tally.enqueued = Len(jobs')
        /\ repair'.tally.scanned = Total(repair'.tally)
    BY <1>2, <1>3, <1>5, <1>7, <1>10
  <2>2. repair'.backfill = TRUE =>
          /\ Len(jobs') = Cardinality(Mine')
          /\ \A i \in Mine' : jobs'[Cardinality(Upto(i)')] = [repo |-> ScanOrder[i][1], until |-> ScanOrder[i][2]]
    BY <1>2, <1>12
  <2> QED
    BY <1>2, <1>11, <2>1, <2>2, Zenon DEF SummaryOK, Total
<1> QED
    BY <1>6, <1>13

\* An enqueued window is owed everything below the row that is filled in with it.
LEMMA FillsInEnqueued ==
    ASSUME BackfillerAssumption, RepairAssumption, RepairInv, NEW row \in Rows, IsUnknown(row),
           unknown' = [unknown EXCEPT ![row[1]] = unknown[row[1]] \ {row[2]}],
           tracked' = [tracked EXCEPT ![row[1]] = tracked[row[1]] \cup {row[2]}],
           filled' = [filled EXCEPT ![row] = filled[row] + 1],
           Len(jobs) < MaxCalls, shutdown = "open", \A x \in Repos : asked[x] = {},
           HasJob(row[2]), Enqueue(row[1], row[2]), UNCHANGED <<lifecycle, asked, aborted, calls, faults>>
    PROVE  BackfillerInv' /\ NewJob(row[1], row[2])
<1>1. QueuePart /\ LifeTyped /\ RowsTyped /\ CountsTyped /\ LifeOK /\ WindowsOK
    BY InvParts DEF RepairInv
<1>2. /\ RowsGrow
      /\ tracked' \in [Repos -> SUBSET Commits] /\ unknown' \in [Repos -> SUBSET Commits]
      /\ \A x \in Repos : tracked'[x] \cap unknown'[x] = {} /\ asked'[x] \subseteq 2..Tip
      /\ \A x \in Repos \ {row[1]} : tracked'[x] = tracked[x] /\ unknown'[x] = unknown[x]
      /\ tracked'[row[1]] = tracked[row[1]] \cup {row[2]}
    BY FillsIn
<1>3. PICK r \in Repos, c \in (2..Tip) \ Forked : r = row[1] /\ c = row[2] /\ c \in Commits
    BY PositionsAre DEF HasJob
<1>4. Accepts
    BY <1>1 DEF Accepts, LifeOK
<1>5. Enqueued(r, c) /\ UNCHANGED hurt
    BY <1>1, <1>3, <1>4, EnqueueStep
<1>6. BoundsOK' /\ DebtsOK'
  <2>1. \A x \in Repos : /\ tracked[x] \subseteq tracked'[x]
                         /\ tracked'[x] \subseteq tracked[x] \cup (IF x = r THEN {c} ELSE {})
                         /\ unknown[x] \subseteq tracked'[x] \cup unknown'[x]
    BY <1>2, <1>3 DEF RowsGrow
  <2> QED
    BY <2>1, <1>1, <1>5, EnqueueWindows
<1>7. RowsOK'
  <2>1. \A x \in Repos \ hurt : tracked[x] \cap Forked = {}
    BY <1>1 DEF WindowsOK, RowsOK
  <2>2. \A x \in Repos \ hurt : tracked'[x] \cap Forked = {}
    BY <2>1, <1>2, <1>3
  <2>3. \A x \in Repos : asked'[x] = {}
    OBVIOUS
  <2> QED
    BY <1>2, <1>5, <2>2, <2>3 DEF RowsOK
<1>8. RowsTyped' /\ CountsTyped'
    BY <1>1, <1>2, <1>5 DEF RowsTyped, CountsTyped
<1>9. QueuePart' /\ NewJob(row[1], row[2])
    BY <1>3, <1>5 DEF Enqueued
<1>10. LifeTyped' /\ LifeOK'
    BY <1>1, LifeStays
<1> QED
    BY <1>6, <1>7, <1>8, <1>9, <1>10, InvFromParts DEF WindowsOK


\* A row is filled in, its window enqueued if asked for, and both are counted.
LEMMA RepairedStep ==
    ASSUME BackfillerAssumption, RepairAssumption, RepairInv, RowUpdated, StillUnknown(Current)
    PROVE  RepairInv'
<1>1. BackfillerInv /\ RepairTyped /\ FilledOK /\ ProcessOK /\ repair \in Repair
    BY DEF RepairInv, RepairTyped
<1>2. PICK m, row : m = Min(repair.todo) /\ row = Current
    OBVIOUS
<1>3. /\ repair.pc = "update" /\ IsUnknown(row)
      /\ unknown' = [unknown EXCEPT ![row[1]] = unknown[row[1]] \ {row[2]}]
      /\ tracked' = [tracked EXCEPT ![row[1]] = tracked[row[1]] \cup {row[2]}]
      /\ filled' = [filled EXCEPT ![row] = filled[row] + 1]
      /\ UNCHANGED <<lifecycle, asked, aborted, calls, faults>> /\ UNCHANGED walk
    BY <1>2 DEF RowUpdated, StillUnknown
<1>4. repair.todo # {} /\ Reading /\ shutdown = "open" /\ UNCHANGED shutdown /\ \A x \in Repos : asked[x] = {}
    BY <1>1, <1>3 DEF ProcessOK, Reading, lifecycle
<1>5. /\ row \in Rows /\ row = ScanOrder[m] /\ Cardinality(repair.todo) \in Nat \ {0}
    BY <1>1, <1>2, <1>4, CurrentIs
<1>6. Len(jobs) < MaxCalls
  <2>1. Len(jobs) \in Nat
    BY <1>1 DEF BackfillerInv, TypeOK
  <2>2. Len(jobs) + Cardinality(repair.todo) <= Limit
    BY <1>1, <1>4 DEF ProcessOK
  <2> QED
    BY <2>1, <2>2, <1>5 DEF RepairAssumption, BackfillerAssumption
<1>7. /\ filled' \in [Rows -> Nat] /\ FillsOnce /\ RowsGrow
      /\ unknown'[row[1]] = unknown[row[1]] \ {row[2]}
    BY <1>3, <1>5, FillsIn
<1>8. /\ BackfillerInv' /\ ProcessOK' /\ SummaryOK' /\ repair' \in Repair
      /\ repair'.pc = "row" /\ repair'.dry = repair.dry /\ repair'.next = repair.next
      /\ repair'.todo = repair.todo \ {Min(repair.todo)}
  <2>1. CASE HasJob(row[2]) /\ Enqueues
    <3>1. /\ Enqueue(row[1], row[2])
          /\ repair' = [Tally("repaired") EXCEPT !.pc = "row", !.mine = @ \cup {Min(repair.todo)},
                                                 !.tally.enqueued = @ + 1]
      BY <1>2, <1>3, <2>1 DEF RowUpdated, StillUnknown
    <3>2. BackfillerInv' /\ NewJob(row[1], row[2])
      BY <1>3, <1>4, <1>5, <1>6, <2>1, <3>1, FillsInEnqueued
    <3>3. Repaired(repair', 1)
      BY <1>1, <1>4, <3>1, RepairedIs
    <3>4. repair.backfill = TRUE
      <4>1. repair.backfill \in BOOLEAN
        BY <1>1, Zenon DEF Repair
      <4> QED
        BY <2>1, <4>1 DEF Enqueues
    <3>5. ProcessOK' /\ SummaryOK'
      BY <1>2, <1>3, <1>4, <1>5, <2>1, <3>2, <3>3, <3>4, RepairedSummary
    <3> QED
      BY <3>2, <3>3, <3>5 DEF Repaired
  <2>2. CASE ~(HasJob(row[2]) /\ Enqueues)
    <3>0. PICK n \in Nat : n = (IF HasJob(row[2]) THEN 1 ELSE 0)
      OBVIOUS
    <3>1. /\ UNCHANGED queue /\ hurt' = hurt \cup {row[1]}
          /\ repair' = [Tally("repaired") EXCEPT !.pc = "row", !.mine = @ \cup {Min(repair.todo)},
                                                 !.tally.wouldBackfill = @ + n]
      BY <1>2, <1>3, <2>2, <3>0 DEF RowUpdated, StillUnknown
    <3>2. BackfillerInv' /\ UNCHANGED jobs
      BY <1>3, <1>5, <3>1, FillsInHurt DEF queue
    <3>3. Repaired(repair', 0)
      BY <1>1, <1>4, <3>1, RepairedIs
    <3>4. ~(repair.backfill = TRUE /\ HasJob(row[2]))
      BY <2>2 DEF Enqueues
    <3>5. ProcessOK' /\ SummaryOK'
      BY <1>2, <1>3, <1>4, <1>5, <3>2, <3>3, <3>4, RepairedSummary
    <3> QED
      BY <3>2, <3>3, <3>5 DEF Repaired
  <2> QED
    BY <2>1, <2>2
<1>9. ~IsUnknown(row)'
    BY <1>7 DEF IsUnknown
<1>10. WalkOK'
    BY <1>2, <1>3, <1>4, <1>7, <1>8, <1>9, WalkCounted DEF BackfillerInv, WindowsOK
<1>11. FilledOK' /\ RepairTyped'
    BY <1>1, <1>3, <1>7, <1>8, FilledMoves DEF RepairTyped
<1> QED
    BY <1>8, <1>10, <1>11 DEF RepairInv

\* Run returns, early or not; only a page that was finished leaves the walk whole.
LEMMA RunReturnsStep ==
    ASSUME BackfillerAssumption, RepairAssumption, RepairInv, RunReturns
    PROVE  RepairInv'
<1>1. /\ BackfillerInv /\ RepairTyped /\ FilledOK /\ ProcessOK /\ SummaryOK /\ WalkOK /\ repair \in Repair
      /\ walk \in [owed : SUBSET Rows, whole : BOOLEAN]
    BY DEF RepairInv, RepairTyped
<1>2. PICK place : place = IF repair.backfill THEN "drain" ELSE "report"
    OBVIOUS
<1>3. /\ Reading /\ repair' = [repair EXCEPT !.pc = place, !.todo = {}] /\ UNCHANGED <<vars, filled>>
      /\ \/ repair.todo = {} /\ UNCHANGED walk
         \/ walk' = [walk EXCEPT !.whole = FALSE]
    BY <1>2 DEF RunReturns, Reading
<1>4. BackfillerInv' /\ RowsGrow /\ UNCHANGED <<jobs, asked, shutdown, tracked, unknown>>
    BY <1>1, <1>3, VarsStay
<1>5. repair.backfill \in BOOLEAN /\ place \in {"drain", "report"} /\ (place = "report" => repair.backfill = FALSE)
  <2>1. repair.backfill \in BOOLEAN
    BY <1>1, Zenon DEF Repair
  <2> QED
    BY <1>2, <2>1
<1>6. /\ repair' \in Repair /\ repair'.pc = place /\ repair'.dry = repair.dry
      /\ repair'.backfill = repair.backfill /\ repair'.todo = {} /\ repair'.next = repair.next
      /\ repair'.mine = repair.mine /\ repair'.tally = repair.tally
  <2>1. PICK q : q = [repair EXCEPT !.pc = place, !.todo = {}]
    OBVIOUS
  <2>2. place \in {"server", "start", "row", "update", "drain", "report"} /\ {} \in SUBSET Positions
    BY <1>5
  <2>3. /\ q \in Repair /\ q.pc = place /\ q.dry = repair.dry
        /\ q.backfill = repair.backfill /\ q.todo = {} /\ q.next = repair.next
        /\ q.mine = repair.mine /\ q.tally = repair.tally
    BY <1>1, <2>1, <2>2, Zenon DEF Repair
  <2> QED
    BY <1>3, <2>1, <2>3, Zenon
<1>7. repair.pc # "server" /\ repair.pc # "start" /\ ~Reading' /\ repair'.pc \notin {"server", "start"}
    BY <1>3, <1>5, <1>6 DEF Reading
<1>8. ProcessOK'
  <2>1. \A r \in Repos : asked'[r] = {}
    BY <1>1, <1>4, <1>7 DEF ProcessOK
  <2>2. repair'.backfill = FALSE => jobs' = <<>>
    BY <1>1, <1>4, <1>6, <1>7 DEF ProcessOK
  <2>3. repair'.pc = "report" => jobs' = <<>>
    BY <1>5, <1>6, <2>2
  <2> QED
    BY <1>7, <2>1, <2>2, <2>3 DEF ProcessOK, Reading
<1>9. SummaryOK'
  <2>1. Mine' = Mine /\ \A i : Upto(i)' = Upto(i)
    BY <1>6 DEF Mine, Upto
  <2>2. \A i \in repair'.mine, j \in repair'.todo : i < j
    BY <1>6
  <2> QED
    BY <1>1, <1>4, <1>6, <1>7, <2>1, <2>2 DEF SummaryOK
<1>10. walk' \in [owed : SUBSET Rows, whole : BOOLEAN] /\ walk'.owed = walk.owed
       /\ (walk'.whole = TRUE => walk.whole = TRUE /\ repair.todo = {})
  <2>1. CASE repair.todo = {} /\ UNCHANGED walk
    BY <2>1, <1>1
  <2>2. CASE walk' = [walk EXCEPT !.whole = FALSE]
    BY <2>2, <1>1, Zenon
  <2> QED
    BY <2>1, <2>2, <1>3
<1>11. WalkOK'
  <2>1. \A row \in walk'.owed : row[2] \in tracked'[row[1]] \cup unknown'[row[1]]
    BY <1>1, <1>4, <1>10 DEF WalkOK
  <2>2. ASSUME walk'.whole = TRUE, NEW i \in Positions, ScanOrder[i] \in walk'.owed
        PROVE  ScanOrder[i][1] \in Unsupported \/ ~IsUnknown(ScanOrder[i])' \/ Ahead(i)'
    <3>1. ScanOrder[i][1] \in Unsupported \/ ~IsUnknown(ScanOrder[i]) \/ Ahead(i)
      BY <1>1, <1>10, <2>2 DEF WalkOK
    <3>2. CASE Ahead(i)
      BY <3>2, <1>6, <1>10, <2>2 DEF Ahead
    <3>3. CASE ~IsUnknown(ScanOrder[i])
      BY <3>3, <1>4 DEF IsUnknown
    <3> QED
      BY <3>1, <3>2, <3>3
  <2> QED
    BY <1>7, <2>1, <2>2 DEF WalkOK
<1>12. FilledOK' /\ RepairTyped'
    BY <1>1, <1>3, <1>4, <1>6, <1>10, FilledMoves DEF FillsOnce, RepairTyped
<1> QED
    BY <1>4, <1>8, <1>9, <1>11, <1>12 DEF RepairInv

\* The process shuts its backfiller down.
LEMMA DrainStep ==
    ASSUME BackfillerAssumption, RepairAssumption, RepairInv, Drain
    PROVE  RepairInv'
<1>1. BackfillerInv /\ RepairTyped /\ repair.pc = "drain" /\ CloseQueue /\ UNCHANGED <<repair, walk, filled>>
    BY DEF RepairInv, Drain, repairVars
<1>2. BackfillerInv' /\ UNCHANGED <<jobs, tracked, unknown, asked>> /\ shutdown # "returned"
    BY <1>1, ShutdownStep
<1>3. filled' \in [Rows -> Nat] /\ FillsOnce /\ RowsGrow
    BY <1>1, <1>2 DEF RepairTyped, FillsOnce, RowsGrow
<1>4. ~(repair.pc = "start" \/ Reading) /\ repair.pc # "server"
    BY <1>1 DEF Reading
<1> QED
    BY <1>1, <1>2, <1>3, <1>4, ProcessRests

\* The process reports when Shutdown has returned.
LEMMA ReportStep ==
    ASSUME BackfillerAssumption, RepairAssumption, RepairInv, Report
    PROVE  RepairInv'
<1>1. /\ BackfillerInv /\ RepairTyped /\ FilledOK /\ ProcessOK /\ SummaryOK /\ WalkOK /\ repair \in Repair
    BY DEF RepairInv, RepairTyped
<1>2. /\ repair.pc = "drain" /\ shutdown = "returned" /\ repair' = [repair EXCEPT !.pc = "report"]
      /\ UNCHANGED <<vars, filled, walk>>
    BY DEF Report
<1>3. BackfillerInv' /\ RowsGrow /\ UNCHANGED <<jobs, asked, shutdown, tracked, unknown>>
    BY <1>1, <1>2, VarsStay
<1>4. /\ repair' \in Repair /\ repair'.pc = "report" /\ repair'.dry = repair.dry
      /\ repair'.backfill = repair.backfill /\ repair'.todo = repair.todo /\ repair'.next = repair.next
      /\ repair'.mine = repair.mine /\ repair'.tally = repair.tally
  <2>1. PICK q : q = [repair EXCEPT !.pc = "report"]
    OBVIOUS
  <2>2. /\ q \in Repair /\ q.pc = "report" /\ q.dry = repair.dry
        /\ q.backfill = repair.backfill /\ q.todo = repair.todo /\ q.next = repair.next
        /\ q.mine = repair.mine /\ q.tally = repair.tally
    BY <1>1, <2>1, Zenon DEF Repair
  <2> QED
    BY <1>2, <2>1, <2>2, Zenon
<1>5. ProcessOK'
    BY <1>1, <1>2, <1>3, <1>4 DEF ProcessOK, Reading
<1>6. SummaryOK'
  <2>1. Mine' = Mine /\ \A i : Upto(i)' = Upto(i)
    BY <1>4 DEF Mine, Upto
  <2> QED
    BY <1>1, <1>2, <1>3, <1>4, <2>1 DEF SummaryOK
<1>7. WalkOK'
  <2>1. ~Reading /\ ~Reading' /\ \A i : Ahead(i)' <=> Ahead(i)
    BY <1>2, <1>4 DEF Reading, Ahead
  <2>2. \A i \in Positions : IsUnknown(ScanOrder[i])' <=> IsUnknown(ScanOrder[i])
    BY <1>3 DEF IsUnknown
  <2> QED
    BY <1>1, <1>2, <1>3, <2>1, <2>2 DEF WalkOK
<1>8. FilledOK' /\ RepairTyped'
    BY <1>1, <1>2, <1>3, <1>4, FilledMoves DEF FillsOnce, RepairTyped
<1> QED
    BY <1>3, <1>5, <1>6, <1>7, <1>8 DEF RepairInv


\* A process that has inspected nothing.
LEMMA BlankRun ==
    ASSUME NEW place \in {"server", "start", "row"}
    PROVE  /\ NoRun(place) \in Repair /\ NoRun(place).pc = place /\ NoRun(place).dry = FALSE
           /\ NoRun(place).backfill = FALSE /\ NoRun(place).todo = {} /\ NoRun(place).next = 0
           /\ NoRun(place).mine = {} /\ NoRun(place).tally = NoTally
<1>1. NoTally \in TallyRow
    BY DEF NoTally, TallyRow
<1> HIDE DEF NoTally
<1>2. {} \in SUBSET Positions /\ 0 \in Positions \cup {0} /\ FALSE \in BOOLEAN
      /\ place \in {"server", "start", "row", "update", "drain", "report"}
    OBVIOUS
<1> QED
    BY <1>1, <1>2, Zenon DEF NoRun, Repair

\* The page that a process begins with is what is left of the walk, up to its cursor.
LEMMA BeginStep ==
    ASSUME BackfillerAssumption, RepairAssumption, RepairInv,
           NEW dry \in BOOLEAN, NEW backfill \in BOOLEAN, Begin(dry, backfill)
    PROVE  RepairInv'
<1>1. /\ BackfillerInv /\ RepairTyped /\ FilledOK /\ ProcessOK /\ WalkOK /\ repair \in Repair
      /\ walk \in [owed : SUBSET Rows, whole : BOOLEAN]
    BY DEF RepairInv, RepairTyped
<1>2. PICK found : found = Candidates(repair.next)
    OBVIOUS
<1>3. PICK after : after = IF Page(found) # found THEN NextCursor(found) ELSE 0
    OBVIOUS
<1>4. /\ repair.pc = "start" /\ UNCHANGED <<vars, filled>>
      /\ repair' = [NoRun("row") EXCEPT !.dry = dry, !.backfill = backfill, !.todo = Page(found), !.next = after]
      /\ walk' = IF repair.next = 0
                 THEN [owed |-> {row \in Rows : IsUnknown(row)}, whole |-> ~dry]
                 ELSE [walk EXCEPT !.whole = walk.whole /\ ~dry]
    BY <1>2, <1>3 DEF Begin
<1>5. BackfillerInv' /\ RowsGrow /\ UNCHANGED <<jobs, asked, shutdown, tracked, unknown>>
    BY <1>1, <1>4, VarsStay
<1>6. found \in SUBSET Positions /\ \A i \in Positions : i \in found <=> repair.next < i /\ IsUnknown(ScanOrder[i])
    BY <1>2 DEF Candidates, Positions
<1>7. /\ Page(found) \in SUBSET found /\ Page(found) \in SUBSET Positions /\ Cardinality(Page(found)) <= Limit
      /\ Cardinality(Page(found)) \in Nat
      /\ after \in Positions \cup {0}
      /\ \A i \in found \ Page(found) : after # 0 /\ i > after
  <2>1. /\ Page(found) \in SUBSET found /\ Cardinality(Page(found)) <= Limit
        /\ Page(found) # found => /\ Max(Page(found)) \in Positions
                                  /\ \A i \in found \ Page(found) : i > Max(Page(found))
    BY <1>6, PageIs
  <2>2. Page(found) \in SUBSET Positions
    BY <2>1, <1>6
  <2>3. Cardinality(Page(found)) \in Nat
    BY <2>2, SizesAre
  <2>4. Page(found) # found => after = Max(Page(found)) /\ after # 0
    BY <1>3, <2>1, PositionsAre DEF NextCursor
  <2> QED
    BY <1>3, <2>1, <2>2, <2>3, <2>4
<1>8. PICK page \in SUBSET Positions : page = Page(found)
    BY <1>7
<1>9. /\ repair' \in Repair /\ repair'.pc = "row" /\ repair'.dry = dry
      /\ repair'.backfill = backfill /\ repair'.todo = page /\ repair'.next = after
      /\ repair'.mine = {} /\ repair'.tally = NoTally
  <2>1. PICK p : p = NoRun("row")
    OBVIOUS
  <2>2. p \in Repair /\ p.pc = "row" /\ p.mine = {} /\ p.tally = NoTally
    BY <2>1, BlankRun
  <2>3. PICK q : q = [p EXCEPT !.dry = dry, !.backfill = backfill, !.todo = page, !.next = after]
    OBVIOUS
  <2>4. /\ q \in Repair /\ q.pc = p.pc /\ q.dry = dry /\ q.backfill = backfill /\ q.todo = page /\ q.next = after
        /\ q.mine = p.mine /\ q.tally = p.tally
    BY <1>7, <2>2, <2>3, Zenon DEF Repair
  <2>5. repair' = q
    BY <1>4, <1>8, <2>1, <2>3
  <2> QED
    BY <2>2, <2>4, <2>5, Zenon
<1>10. jobs = <<>> /\ jobs' = <<>> /\ Len(jobs') = 0 /\ shutdown' = "open" /\ \A r \in Repos : asked'[r] = {}
    BY <1>1, <1>4, <1>5 DEF ProcessOK
<1>11. ProcessOK'
  <2>1. Len(jobs') + Cardinality(repair'.todo) <= Limit
    BY <1>7, <1>8, <1>9, <1>10
  <2> QED
    BY <1>9, <1>10, <2>1 DEF ProcessOK, Reading
<1>12. SummaryOK'
  <2>1. Mine' = {}
    BY <1>9 DEF Mine
  <2>2. NoTally.scanned = 0 /\ NoTally.repaired = 0 /\ NoTally.would = 0 /\ NoTally.unsupported = 0
        /\ NoTally.failed = 0 /\ NoTally.already = 0 /\ NoTally.enqueued = 0
    BY DEF NoTally
  <2>3. Cardinality({}) = 0
    BY FS_EmptySet
  <2> HIDE DEF NoTally
  <2> QED
    BY <1>9, <1>10, <2>1, <2>2, <2>3 DEF SummaryOK
<1>13. /\ walk' \in [owed : SUBSET Rows, whole : BOOLEAN] /\ (walk'.whole = TRUE => dry = FALSE)
       /\ repair.next = 0 => walk'.owed = {row \in Rows : IsUnknown(row)}
       /\ repair.next # 0 => walk'.owed = walk.owed /\ (walk'.whole = TRUE => walk.whole = TRUE)
  <2>1. CASE repair.next = 0
    <3>1. PICK owed \in SUBSET Rows : owed = {row \in Rows : IsUnknown(row)}
      OBVIOUS
    <3>2. walk' = [owed |-> owed, whole |-> ~dry]
      BY <2>1, <1>4, <3>1
    <3>3. PICK h \in BOOLEAN : h = ~dry
      OBVIOUS
    <3>4. walk' \in [owed : SUBSET Rows, whole : BOOLEAN] /\ walk'.whole = h /\ walk'.owed = owed
      BY <3>2, <3>3
    <3> QED
      BY <2>1, <3>1, <3>3, <3>4
  <2>2. CASE repair.next # 0
    <3>1. walk.whole \in BOOLEAN
      BY <1>1, Zenon
    <3>2. PICK h \in BOOLEAN : h = (walk.whole /\ ~dry)
      BY <3>1
    <3>3. walk' = [walk EXCEPT !.whole = h]
      BY <2>2, <1>4, <3>2
    <3>4. walk' \in [owed : SUBSET Rows, whole : BOOLEAN] /\ walk'.whole = h /\ walk'.owed = walk.owed
      BY <3>3, <1>1, Zenon
    <3>5. h = TRUE => dry = FALSE /\ walk.whole = TRUE
      BY <3>1, <3>2
    <3> QED
      BY <2>2, <3>4, <3>5
  <2> QED
    BY <2>1, <2>2
<1>14. WalkOK'
  <2>1. \A row \in walk'.owed : row[2] \in tracked'[row[1]] \cup unknown'[row[1]]
    <3>1. CASE repair.next = 0
      BY <3>1, <1>5, <1>13 DEF IsUnknown
    <3>2. CASE repair.next # 0
      BY <3>2, <1>1, <1>5, <1>13 DEF WalkOK
    <3> QED
      BY <3>1, <3>2
  <2>2. ASSUME walk'.whole = TRUE, NEW i \in Positions, ScanOrder[i] \in walk'.owed, IsUnknown(ScanOrder[i])',
               ScanOrder[i][1] \notin Unsupported
        PROVE  Ahead(i)'
    <3>1. IsUnknown(ScanOrder[i])
      BY <2>2, <1>5 DEF IsUnknown
    <3>2. repair.next < i
      <4>1. CASE repair.next = 0
        BY <4>1, PositionsAre
      <4>2. CASE repair.next # 0
        <5>1. Ahead(i)
          BY <4>2, <2>2, <3>1, <1>1, <1>13 DEF WalkOK
        <5>2. repair.next \in Positions /\ repair.next \in Nat /\ i \in Nat
          <6>1. repair.next \in Positions \cup {0}
            BY <1>1, Zenon DEF Repair
          <6> QED
            BY <6>1, <4>2, PositionsAre
        <5> QED
          BY <5>1, <5>2, <1>4 DEF Ahead, Reading
      <4> QED
        BY <4>1, <4>2
    <3>3. i \in found
      BY <3>1, <3>2, <1>6
    <3> QED
      BY <3>3, <1>7, <1>8, <1>9 DEF Ahead, Reading
  <2>3. walk'.whole = TRUE => repair'.dry = FALSE
    BY <1>9, <1>13
  <2> QED
    BY <2>1, <2>2, <2>3 DEF WalkOK
<1>15. FilledOK' /\ RepairTyped'
    BY <1>1, <1>4, <1>5, <1>9, <1>13, FilledMoves DEF FillsOnce, RepairTyped
<1> QED
    BY <1>5, <1>11, <1>12, <1>14, <1>15 DEF RepairInv


\* The backfiller of a process that begins.
EmptyQueue ==
    /\ state = <<>> /\ jobs = <<>> /\ worker = [w \in JobIds |-> NoWorker]
    /\ wg = 0 /\ ran = [r \in Repos |-> <<>>]

Served ==
    QueuePart /\ Len(jobs) = 0 /\ Ids = {} /\ \A w \in JobIds : worker[w] = NoWorker

\* It has everything in its place.
LEMMA EmptyIsServed ==
    EmptyQueue => Served
<1> SUFFICES ASSUME EmptyQueue PROVE Served
    OBVIOUS
<1>1. /\ DOMAIN state = {} /\ Len(jobs) = 0 /\ jobs \in Seq(Job) /\ Ids = {}
      /\ state = [r \in DOMAIN state |-> state[r]]
    BY DEF EmptyQueue, Ids
<1>2. \A w \in JobIds : worker[w] = NoWorker /\ worker[w].pc = "none" /\ worker[w].todo = {}
    BY DEF EmptyQueue, NoWorker
<1>3. QueueTyped
  <2>1. NoWorker \in Worker /\ MaxCalls \in Nat
    BY BackfillerAssumption DEF NoWorker, Worker, Place
  <2> QED
    BY <1>1, <2>1 DEF QueueTyped, EmptyQueue
<1>4. WorkersOK
    BY <1>1, <1>2 DEF WorkersOK, Working
<1>5. QueueOK
  <2>1. ASSUME NEW r \in Repos
        PROVE  ran[r] = <<>> /\ PendingOf(r) = <<>> /\ JobsOf(r) = {}
    BY <1>1 DEF EmptyQueue, PendingOf, JobsOf
  <2>2. Elements(<<>>) = {} /\ Increasing(<<>>)
    BY DEF Elements, Increasing
  <2> QED
    BY <2>1, <2>2 DEF QueueOK
<1>6. WgOK
  <2>1. {w \in JobIds : Live(w)} = {}
    BY <1>2 DEF Live
  <2> QED
    BY <2>1, FS_EmptySet DEF WgOK, EmptyQueue
<1> QED
    BY <1>1, <1>2, <1>3, <1>4, <1>5, <1>6 DEF QueuePart, Served

\* The same after a step.
LEMMA EmptyIsServedNext == EmptyQueue' => Served'
    BY EmptyIsServed, PTL

\* A new process: its backfiller is empty, and the last one's left nothing undone.
LEMMA ContinueStep ==
    ASSUME BackfillerAssumption, RepairAssumption, RepairInv, Continue
    PROVE  RepairInv'
<1>1. /\ BackfillerInv /\ RepairTyped /\ FilledOK /\ ProcessOK /\ WalkOK /\ repair \in Repair
      /\ QueuePart /\ LifeOK /\ RowsTyped /\ CountsTyped /\ WindowsOK
    BY InvParts DEF RepairInv, RepairTyped
<1>2. /\ repair.pc = "report" /\ repair' = [NoRun("start") EXCEPT !.next = repair.next] /\ EmptyQueue'
      /\ closed' = FALSE /\ cancelled' = FALSE /\ shutdown' = "open" /\ timedOut' = FALSE /\ aborted' = FALSE
      /\ UNCHANGED <<tracked, unknown, asked, hurt, calls, faults, filled, walk>>
    BY DEF Continue, EmptyQueue
<1>3. QueuePart' /\ Ids' = {} /\ \A w \in JobIds : worker'[w] = NoWorker
    BY <1>2, EmptyIsServedNext DEF Served
<1>4. \A w \in JobIds : worker'[w].pc = "none" /\ worker'[w].todo = {}
    BY <1>3 DEF NoWorker
<1>5. \A w \in JobIds : ~Live(w)
  <2>1. CASE jobs = <<>>
    BY <2>1, <1>1 DEF QueuePart, WorkersOK, Live, JobIds
  <2>2. CASE shutdown = "returned"
    BY <2>2, <1>1 DEF LifeOK
  <2> QED
    BY <2>1, <2>2, <1>1, <1>2 DEF ProcessOK
<1>6. \A r \in Repos : asked[r] = {} /\ asked'[r] = {}
    BY <1>1, <1>2 DEF ProcessOK
<1>7. \A r \in Repos : \A g, c : ~Owing(r, g, c)
    BY <1>1, <1>5, QuietMeansEmpty, IdleOwesNothing DEF QueuePart
<1>8. WindowsOK'
  <2>1. BoundsOK'
    BY <1>3, <1>4 DEF BoundsOK
  <2>2. RowsOK'
    BY <1>1, <1>2, <1>6 DEF WindowsOK, RowsOK
  <2>3. ASSUME NEW r \in Repos \ hurt PROVE DebtsOf(r)'
    <3>1. Inserting(r)' = {} /\ JobsOf(r)' = {}
      BY <1>3, <1>4 DEF Inserting, JobsOf
    <3>2. Marks(r)' = tracked[r] /\ tracked[r] \subseteq Marks(r)
      BY <3>1, <1>2 DEF Marks
    <3>3. DebtsOf(r)
      BY <1>1 DEF WindowsOK, DebtsOK
    <3>4. ASSUME NEW c \in Marks(r)', NEW g \in 2..(c - 1) PROVE Covered(r, g)'
      <4>1. Covered(r, g)
        BY <3>2, <3>3, <3>4, <1>7 DEF DebtsOf
      <4> QED
        BY <4>1, <1>2 DEF Covered
    <3> QED
      BY <3>4 DEF DebtsOf
  <2> QED
    BY <1>2, <2>1, <2>2, <2>3 DEF WindowsOK, DebtsOK
<1>9. BackfillerInv'
  <2>1. RowsTyped' /\ CountsTyped'
    BY <1>1, <1>2 DEF RowsTyped, CountsTyped
  <2>2. LifeTyped' /\ LifeOK'
    BY <1>2, <1>4 DEF LifeTyped, LifeOK
  <2> QED
    BY <1>3, <1>8, <2>1, <2>2, InvFromParts
<1>10. repair' \in Repair /\ repair'.pc = "start" /\ repair'.next = repair.next
  <2>1. PICK p : p = NoRun("start")
    OBVIOUS
  <2>2. p \in Repair /\ p.pc = "start"
    BY <2>1, BlankRun
  <2>3. PICK q : q = [p EXCEPT !.next = repair.next]
    OBVIOUS
  <2>4. repair.next \in Positions \cup {0}
    BY <1>1, Zenon DEF Repair
  <2>5. q \in Repair /\ q.pc = p.pc /\ q.next = repair.next
    BY <2>2, <2>3, <2>4, Zenon DEF Repair
  <2>6. repair' = q
    BY <1>2, <2>1, <2>3
  <2> QED
    BY <2>2, <2>5, <2>6, Zenon
<1>11. ProcessOK'
    BY <1>2, <1>6, <1>10 DEF ProcessOK, Reading, EmptyQueue
<1>12. SummaryOK'
    BY <1>10 DEF SummaryOK
<1>13. RowsGrow /\ FillsOnce
    BY <1>2 DEF RowsGrow, FillsOnce
<1>14. WalkOK'
  <2>1. ~Reading /\ ~Reading' /\ \A i : Ahead(i)' <=> Ahead(i)
    BY <1>2, <1>10 DEF Reading, Ahead
  <2>2. \A i \in Positions : IsUnknown(ScanOrder[i])' <=> IsUnknown(ScanOrder[i])
    BY <1>2 DEF IsUnknown
  <2> QED
    BY <1>1, <1>2, <2>1, <2>2 DEF WalkOK
<1>15. FilledOK' /\ RepairTyped'
    BY <1>1, <1>2, <1>10, <1>13, FilledMoves DEF RepairTyped
<1> QED
    BY <1>9, <1>11, <1>12, <1>14, <1>15 DEF RepairInv

\* Nothing happens.
LEMMA NothingStep ==
    ASSUME BackfillerAssumption, RepairAssumption, RepairInv, UNCHANGED allVars
    PROVE  RepairInv'
<1>1. UNCHANGED vars /\ UNCHANGED <<repair, filled, walk>>
    BY DEF allVars, repairVars
<1>2. BackfillerInv /\ RepairTyped /\ ProcessOK
    BY DEF RepairInv
<1>3. BackfillerInv' /\ RowsGrow /\ UNCHANGED <<jobs, asked, shutdown, tracked, unknown>>
    BY <1>1, <1>2, VarsStay
<1>4. UNCHANGED calls
    BY <1>1 DEF vars
<1>5. filled' \in [Rows -> Nat] /\ FillsOnce
    BY <1>1, <1>2 DEF RepairTyped, FillsOnce
<1>6. CASE repair.pc = "server"
    BY <1>1, <1>2, <1>3, <1>4, <1>6, ServerRests DEF ProcessOK
<1>7. CASE repair.pc # "server"
    BY <1>1, <1>2, <1>3, <1>5, <1>7, ProcessRests DEF ProcessOK
<1> QED
    BY <1>6, <1>7

-----------------------------------------------------------------------------
(* The theorems. *)

\* The invariant holds at the start.
LEMMA RepairStarts ==
    ASSUME BackfillerAssumption, RepairAssumption, RepairInit
    PROVE  RepairInv
<1>1. Init /\ EmptyQueue /\ (repair = NoRun("server") \/ repair = NoRun("start"))
      /\ filled = [row \in Rows |-> 0] /\ walk = [owed |-> {}, whole |-> TRUE]
    BY DEF RepairInit, Init, EmptyQueue
<1>2. QueuePart /\ Ids = {} /\ Len(jobs) = 0 /\ \A w \in JobIds : worker[w] = NoWorker
    BY <1>1, EmptyIsServed DEF Served
<1>3. \A w \in JobIds : worker[w].pc = "none" /\ worker[w].todo = {}
    BY <1>2 DEF NoWorker
<1>4. BackfillerInv
  <2>0. LifeTyped /\ RowsTyped
    BY <1>1 DEF Init, LifeTyped, RowsTyped
  <2>1. CountsTyped
    BY <1>1 DEF Init, CountsTyped, BackfillerAssumption
  <2>2. TypeOK
    BY <1>2, <2>0, <2>1, TypeParts DEF QueuePart
  <2>3. LifeOK
    BY <1>1, <1>3 DEF LifeOK, Init, Live
  <2>4. BoundsOK /\ RowsOK
    BY <1>1, <1>2, <1>3 DEF BoundsOK, RowsOK, Init
  <2>5. ASSUME NEW r \in Repos PROVE Marks(r) = {}
    BY <1>1, <1>2, <1>3 DEF Marks, Inserting, JobsOf, Init
  <2>6. DebtsOK
    BY <2>5 DEF DebtsOK, DebtsOf
  <2> QED
    BY <1>2, <2>2, <2>3, <2>4, <2>6 DEF BackfillerInv, QueuePart, WindowsOK
<1>5. repair \in Repair /\ repair.pc \in {"server", "start"} /\ repair.next = 0
  <2>1. CASE repair = NoRun("server")
    BY <2>1, BlankRun
  <2>2. CASE repair = NoRun("start")
    BY <2>2, BlankRun
  <2> QED
    BY <1>1, <2>1, <2>2
<1>6. RepairTyped /\ walk.owed = {}
  <2>1. walk \in [owed : SUBSET Rows, whole : BOOLEAN] /\ walk.owed = {}
    BY <1>1, Zenon
  <2> QED
    BY <1>1, <1>5, <2>1 DEF RepairTyped
<1>7. ProcessOK
  <2>1. jobs = <<>> /\ shutdown = "open" /\ calls = 0 /\ \A r \in Repos : asked[r] = {}
    BY <1>1 DEF Init
  <2> QED
    BY <1>2, <1>5, <2>1 DEF ProcessOK, Reading
<1>8. FilledOK /\ SummaryOK
    BY <1>1, <1>5 DEF FilledOK, SummaryOK
<1>9. WalkOK
    BY <1>5, <1>6 DEF WalkOK, Reading
<1> QED
    BY <1>4, <1>6, <1>7, <1>8, <1>9 DEF RepairInv

\* Every step keeps the invariant.
LEMMA RepairKeeps ==
    ASSUME BackfillerAssumption, RepairAssumption, RepairInv, [RepairNext]_allVars
    PROVE  RepairInv'
<1>1. CASE repair.pc = "server" /\ Next /\ UNCHANGED repairVars
    BY <1>1, ServerStep
<1>2. CASE repair.pc # "server" /\ RepairStep
  <2>1. ASSUME NEW dry \in BOOLEAN, NEW backfill \in BOOLEAN, Begin(dry, backfill) PROVE RepairInv'
    BY <2>1, BeginStep
  <2>2. CASE RowUnsupported
    BY <2>2, RowUnsupportedStep
  <2>3. CASE RowFails
    BY <2>3, RowFailsStep
  <2>4. CASE RowEnriched
    <3>1. repair.dry \in BOOLEAN
      BY Zenon DEF RepairInv, RepairTyped, Repair
    <3> QED
      BY <2>4, <3>1, DryRowStep, EnrichedStep
  <2>5. CASE RowUpdated
    BY <2>5, AlreadyStep, RepairedStep
  <2>6. CASE RunReturns
    BY <2>6, RunReturnsStep
  <2>7. CASE Drain
    BY <2>7, DrainStep
  <2>8. CASE Report
    BY <2>8, ReportStep
  <2>9. CASE Continue
    BY <2>9, ContinueStep
  <2>10. CASE WalkEnded
    BY <2>10, NothingStep DEF WalkEnded
  <2> QED
    BY <1>2, <2>1, <2>2, <2>3, <2>4, <2>5, <2>6, <2>7, <2>8, <2>9, <2>10 DEF RepairStep
<1>3. CASE /\ repair.pc # "server"
           /\ (\E w \in JobIds : WorkerStep(w)) \/ Deadline \/ Return
           /\ UNCHANGED repairVars
    BY <1>3, BackfillerRuns
<1>4. CASE repair.pc # "server" /\ \E row \in Rows : OtherRepairs(row) \/ OtherDegrades(row)
    BY <1>4, OthersStep
<1>5. CASE UNCHANGED allVars
    BY <1>5, NothingStep
<1> QED
    BY <1>1, <1>2, <1>3, <1>4, <1>5 DEF RepairNext

\* What the walk's invariant says of the repair: no metadata is overwritten, and the
\* summary counts what this process repaired.
LEMMA InvMeansTrue ==
    ASSUME RepairInv
    PROVE  RepairIsTrue
<1>1. MetadataIsWrittenOnce
  <2>1. ASSUME NEW row \in Rows PROVE filled[row] <= 1
    BY DEF RepairInv, FilledOK
  <2> QED
    BY <2>1 DEF MetadataIsWrittenOnce
<1>2. SummaryIsTrue
  <2>1. SUFFICES ASSUME repair.pc \in {"row", "drain", "report"}
                 PROVE  LET t == repair.tally
                            windows == {i \in repair.mine : HasJob(ScanOrder[i][2])}
                        IN
                        /\ t.repaired = Cardinality(repair.mine) /\ (repair.dry => repair.mine = {})
                        /\ t.scanned = t.repaired + t.would + t.unsupported + t.failed + t.already
                        /\ t.enqueued = Len(jobs)
                        /\ Len(jobs) = IF repair.backfill THEN Cardinality(windows) ELSE 0
                        /\ repair.backfill => \A i \in windows :
                             jobs[Cardinality({j \in windows : j <= i})]
                               = [repo |-> ScanOrder[i][1], until |-> ScanOrder[i][2]]
    BY DEF SummaryIsTrue
  <2>2. SummaryOK /\ ProcessOK /\ repair \in Repair
    BY DEF RepairInv, RepairTyped
  <2>3. repair.dry \in BOOLEAN /\ repair.backfill \in BOOLEAN
    BY <2>2, Zenon DEF Repair
  <2>4. repair.backfill = FALSE => Len(jobs) = 0
    BY <2>1, <2>2 DEF ProcessOK
  <2>5. Mine = {i \in repair.mine : HasJob(ScanOrder[i][2])}
    BY DEF Mine
  <2>6. \A i : Upto(i) = {j \in Mine : j <= i}
    BY DEF Upto
  <2> HIDE DEF Mine
  <2> QED
    BY <2>1, <2>2, <2>3, <2>4, <2>5, <2>6 DEF SummaryOK
<1> QED
    BY <1>1, <1>2 DEF RepairIsTrue

\* What it says of a walk that ended: nothing is ahead of it any more.
LEMMA InvMeansWhole ==
    ASSUME BackfillerAssumption, RepairAssumption, RepairInv
    PROVE  WholeWalkRepairsAll
<1>1. SUFFICES ASSUME repair.pc = "report", repair.next = 0, walk.whole, NEW row \in walk.owed
               PROVE  row[1] \in Unsupported \/ ~IsUnknown(row)
    BY DEF WholeWalkRepairsAll
<1>2. walk \in [owed : SUBSET Rows, whole : BOOLEAN] /\ WalkOK
    BY DEF RepairInv, RepairTyped
<1>3. row \in Rows /\ walk.whole = TRUE
  <2>1. walk.owed \in SUBSET Rows /\ walk.whole \in BOOLEAN
    BY <1>2, Zenon
  <2> QED
    BY <1>1, <2>1
<1>4. PICK i \in Positions : ScanOrder[i] = row
    BY <1>3, PositionsAre
<1> QED
    BY <1>1, <1>2, <1>3, <1>4 DEF WalkOK, Ahead, Reading

\* The invariant of the backfiller in the server or in a repair process: the queue and its
\* workers (Enqueue, runLoop), Shutdown, the windows still owed to the rows, and the walk.
THEOREM RepairInvariant == RepairSpec => []RepairInv
<1>1. RepairInit => RepairInv
    BY RepairStarts, BackfillerAssumption, RepairAssumption
<1>2. RepairInv /\ [RepairNext]_allVars => RepairInv'
    BY RepairKeeps, BackfillerAssumption, RepairAssumption
<1> QED
    BY <1>1, <1>2, PTL DEF RepairSpec

\* One worker per repository takes the accepted windows in their order, and an idle
\* repository that no fault touched is caught up (Enqueue, runLoop, runOne).
THEOREM QueueIsServedAlways == RepairSpec => []QueueIsServed
<1>1. RepairInv => QueueIsServed
    BY InvMeansServed, BackfillerAssumption DEF RepairInv
<1> QED
    BY <1>1, RepairInvariant, PTL

\* Shutdown returns when no goroutine is left, and answers FALSE only if everything that
\* was accepted ran to its end.
THEOREM ShutdownIsCleanAlways == RepairSpec => []ShutdownIsClean
<1>1. RepairInv => ShutdownIsClean
    BY InvMeansClean, BackfillerAssumption DEF RepairInv
<1> QED
    BY <1>1, RepairInvariant, PTL

\* A repair overwrites nobody's metadata; its summary counts, and its backfiller was given,
\* what it has really repaired (Run, UpdateUnknownCommit).
THEOREM RepairIsTrueAlways == RepairSpec => []RepairIsTrue
<1>1. RepairInv => RepairIsTrue
    BY InvMeansTrue
<1> QED
    BY <1>1, RepairInvariant, PTL

\* A walk that took every cursor and met no failure leaves no row unknown that was unknown
\* when it began, whatever other processes did meanwhile (Run, NextCursor).
THEOREM WholeWalkRepairsAllAlways == RepairSpec => []WholeWalkRepairsAll
<1>1. RepairInv => WholeWalkRepairsAll
    BY InvMeansWhole, BackfillerAssumption, RepairAssumption
<1> QED
    BY <1>1, RepairInvariant, PTL
=============================================================================
