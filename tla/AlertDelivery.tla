--------------------------- MODULE AlertDelivery ---------------------------
(***************************************************************************)
(* The durable alert-delivery outbox: AlertDeliveryDispatcher.Deliver      *)
(* (internal/service/alert_delivery.go) over the alert_event and           *)
(* alert_delivery tables (internal/db/store.go, internal/db/query/         *)
(* alert.sql).                                                             *)
(*                                                                         *)
(* A dispatcher is one scheduled `conbench admin alerts deliver` job.  It  *)
(* runs Deliver again and again for its own (channel, target) pair; jobs   *)
(* with the same pair overlap freely.  Every store call is one atomic SQL  *)
(* statement, hence one action; everything between two calls interleaves.  *)
(*                                                                         *)
(* Time is modelled by timers that Tick decrements: due[d] is the time     *)
(* left until next_attempt_at of row d (0: NULL or already past).          *)
(***************************************************************************)
EXTENDS Naturals, FiniteSets

CONSTANTS
    Events,        \* alert_event ids, numbered in (created_at, id) order
    RuleOf,        \* alert_event.rule_id
    RepoOf,        \* alert_event.repository
    Dests,         \* the (channel, target) pairs jobs are configured with
    RepoScope,     \* the only repository a github-* target takes, or AnyRepo
    AnyRepo,       \* scope of the webhook, slack and email channels
    Dispatchers,   \* delivery jobs
    DestOf,        \* the pair each job is configured with
    Limit,         \* --limit
    RetryAfter,    \* --retry-after
    Timeout,       \* --timeout
    MaxFailures,   \* bound: send attempts that fail
    MaxAborts      \* bound: jobs cut short (crash, database error, cancel)

\* What `conbench admin alerts deliver` enforces of its flags, and the types.
ASSUME FlagAssumption ==
    /\ Limit \in Nat \ {0}
    /\ Timeout \in Nat \ {0}
    /\ RetryAfter \in Nat
    /\ RetryAfter > Timeout

ASSUME ConstantAssumption ==
    /\ Events \subseteq Nat
    /\ DestOf \in [Dispatchers -> Dests]
    /\ MaxFailures \in Nat
    /\ MaxAborts \in Nat

VARIABLES
    event,      \* [Events -> "none" | "live" | "gone"]: alert_event rows
    status,     \* [Delivery -> "absent" | alert_delivery.status]
    attempts,   \* alert_delivery.attempt_count
    due,        \* time left until alert_delivery.next_attempt_at
    created,    \* alert_delivery.created_at, as the rank of the Deliver run
    clock,      \* rank of the latest Deliver run that had rows to enqueue
    pc,         \* where each job's Deliver run is
    stamp,      \* the rank of the run: `now` at the top of Deliver
    todo,       \* events still to be inserted by EnqueueAlertDeliveries
    remaining,  \* claims the run may still make
    held,       \* the delivery the run has claimed
    left,       \* time left before the client gives the request up
    lease,      \* time left of the lease the run took (not read by the code)
    requests,   \* requests started per delivery (not read by the code)
    accepted,   \* the target has acted on the delivery (not read by the code)
    failures,   \* failed attempts so far
    aborts      \* aborted runs so far

db   == <<event, status, attempts, due, created>>
run  == <<clock, pc, stamp, todo, remaining, held, left, lease>>
hist == <<requests, accepted>>
vars == <<event, status, attempts, due, created, clock, pc, stamp, todo,
          remaining, held, left, lease, requests, accepted, failures, aborts>>

Delivery == Events \X Dests       \* UNIQUE (event_id, channel, target)
NoDelivery == <<>>
Status == {"absent", "pending", "failed", "delivered"}
Place == {"idle", "enqueue", "claim", "send", "sending",
          "markFailed", "markDelivered"}
Holding == {"send", "sending", "markFailed", "markDelivered"}

TypeOK ==
    /\ event \in [Events -> {"none", "live", "gone"}]
    /\ status \in [Delivery -> Status]
    /\ attempts \in [Delivery -> Nat]
    /\ due \in [Delivery -> 0..RetryAfter]
    /\ created \in [Delivery -> Nat]
    /\ clock \in Nat
    /\ pc \in [Dispatchers -> Place]
    /\ stamp \in [Dispatchers -> Nat]
    /\ todo \in [Dispatchers -> SUBSET Events]
    /\ remaining \in [Dispatchers -> 0..Limit]
    /\ held \in [Dispatchers -> Delivery \cup {NoDelivery}]
    /\ left \in [Dispatchers -> 0..Timeout]
    /\ lease \in [Dispatchers -> 0..RetryAfter]
    /\ requests \in [Delivery -> Nat]
    /\ accepted \in [Delivery -> BOOLEAN]
    /\ failures \in 0..MaxFailures
    /\ aborts \in 0..MaxAborts

Init ==
    /\ event = [e \in Events |-> "none"]
    /\ status = [d \in Delivery |-> "absent"]
    /\ attempts = [d \in Delivery |-> 0]
    /\ due = [d \in Delivery |-> 0]
    /\ created = [d \in Delivery |-> 0]
    /\ clock = 0
    /\ pc = [p \in Dispatchers |-> "idle"]
    /\ stamp = [p \in Dispatchers |-> 0]
    /\ todo = [p \in Dispatchers |-> {}]
    /\ remaining = [p \in Dispatchers |-> 0]
    /\ held = [p \in Dispatchers |-> NoDelivery]
    /\ left = [p \in Dispatchers |-> 0]
    /\ lease = [p \in Dispatchers |-> 0]
    /\ requests = [d \in Delivery |-> 0]
    /\ accepted = [d \in Delivery |-> FALSE]
    /\ failures = 0
    /\ aborts = 0

-----------------------------------------------------------------------------
(* The tables as the other components change them. *)

\* TransitionAlertRule records an event.
CreateEvent(e) ==
    /\ event[e] = "none"
    /\ \A f \in Events : f < e => event[f] # "none"
    /\ event' = [event EXCEPT ![e] = "live"]
    /\ UNCHANGED <<status, attempts, due, created, run, hist, failures, aborts>>

\* DeleteAlertRule: both foreign keys are ON DELETE CASCADE, so the rule's
\* events and their deliveries go with it.
DeleteRule(r) ==
    LET gone == {e \in Events : RuleOf[e] = r /\ event[e] = "live"} IN
    /\ gone # {}
    /\ event' = [e \in Events |-> IF e \in gone THEN "gone" ELSE event[e]]
    /\ status' = [d \in Delivery |-> IF d[1] \in gone THEN "absent" ELSE status[d]]
    /\ attempts' = [d \in Delivery |-> IF d[1] \in gone THEN 0 ELSE attempts[d]]
    /\ due' = [d \in Delivery |-> IF d[1] \in gone THEN 0 ELSE due[d]]
    /\ created' = [d \in Delivery |-> IF d[1] \in gone THEN 0 ELSE created[d]]
    /\ UNCHANGED <<run, hist, failures, aborts>>

-----------------------------------------------------------------------------
(* One Deliver run. *)

\* The run returns: its locals are dead.
Return(p) ==
    /\ pc' = [pc EXCEPT ![p] = "idle"]
    /\ stamp' = [stamp EXCEPT ![p] = 0]
    /\ todo' = [todo EXCEPT ![p] = {}]
    /\ remaining' = [remaining EXCEPT ![p] = 0]
    /\ held' = [held EXCEPT ![p] = NoDelivery]
    /\ left' = [left EXCEPT ![p] = 0]
    /\ lease' = [lease EXCEPT ![p] = 0]

\* The next turn of the claim loop.
NextClaim(p) ==
    /\ pc' = [pc EXCEPT ![p] = "claim"]
    /\ held' = [held EXCEPT ![p] = NoDelivery]
    /\ left' = [left EXCEPT ![p] = 0]
    /\ lease' = [lease EXCEPT ![p] = 0]
    /\ UNCHANGED <<stamp, todo, remaining>>

\* The WHERE clause and ORDER BY ... LIMIT of SelectAlertEventsWithoutDelivery.
AlertEventsWithoutDelivery(dst) ==
    LET missing == {e \in Events : /\ event[e] = "live"
                                   /\ status[<<e, dst>>] = "absent"
                                   /\ RepoScope[dst] \in {AnyRepo, RepoOf[e]}}
    IN  {e \in missing : Cardinality({f \in missing : f < e}) < Limit}

\* Top of Deliver: read the clock, then select the events to enqueue.
Begin(p) ==
    LET rows == AlertEventsWithoutDelivery(DestOf[p]) IN
    /\ pc[p] = "idle"
    /\ pc' = [pc EXCEPT ![p] = IF rows = {} THEN "claim" ELSE "enqueue"]
    /\ todo' = [todo EXCEPT ![p] = rows]
    /\ clock' = IF rows = {} THEN clock ELSE clock + 1
    /\ stamp' = [stamp EXCEPT ![p] = clock']
    /\ remaining' = [remaining EXCEPT ![p] = Limit]
    /\ UNCHANGED <<db, held, left, lease, hist, failures, aborts>>

\* One turn of the insert loop of EnqueueAlertDeliveries: the insert does
\* nothing when another run won the race for this row, and fails the whole
\* run when the event was deleted since it was selected (foreign key).
Enqueue(p) ==
    \E e \in todo[p] :
        LET d == <<e, DestOf[p]>> IN
        /\ pc[p] = "enqueue"
        /\ \A f \in todo[p] : e <= f
        /\ IF event[e] # "live"
           THEN /\ Return(p)
                /\ UNCHANGED <<status, attempts, due, created>>
           ELSE /\ IF status[d] = "absent"
                   THEN /\ status' = [status EXCEPT ![d] = "pending"]
                        /\ created' = [created EXCEPT ![d] = stamp[p]]
                   ELSE UNCHANGED <<status, created>>
                /\ todo' = [todo EXCEPT ![p] = @ \ {e}]
                /\ pc' = [pc EXCEPT ![p] = IF todo[p] = {e} THEN "claim" ELSE @]
                /\ UNCHANGED <<attempts, due, stamp, remaining, held, left, lease>>
        /\ UNCHANGED <<event, clock, hist, failures, aborts>>

\* Mutant: failed rows are never due again.
EligibleOnlyPending(dst) ==
    {d \in Delivery : d[2] = dst /\ status[d] = "pending" /\ due[d] = 0}

\* The eligible CTE of ClaimPendingAlertDeliveries.
Eligible(dst) ==
    {d \in Delivery : /\ d[2] = dst
                      /\ status[d] \in {"pending", "failed"}
                      /\ due[d] = 0}

\* ORDER BY d.created_at, d.id: rows of one run get ids in event order.
Older(d, f) ==
    created[d] < created[f] \/ (created[d] = created[f] /\ d[1] <= f[1])

\* The condition of Deliver's claim loop.
MayClaim(p) == remaining[p] > 0

\* attempt_count after a claim.
AttemptsOnClaim(d) == attempts[d] + 1

\* Mutant: the claim does not lease the row.
NoLease(d) == due[d]

\* next_attempt_at after a claim: lease_until.
LeaseUntil(d) == RetryAfter

\* Claim one due delivery and lease it by pushing next_attempt_at ahead.
Claim(p) ==
    /\ pc[p] = "claim"
    /\ MayClaim(p)
    /\ \E d \in Eligible(DestOf[p]) :
         /\ \A f \in Eligible(DestOf[p]) : Older(d, f)
         /\ attempts' = [attempts EXCEPT ![d] = AttemptsOnClaim(d)]
         /\ due' = [due EXCEPT ![d] = LeaseUntil(d)]
         /\ held' = [held EXCEPT ![p] = d]
         /\ lease' = [lease EXCEPT ![p] = RetryAfter]
    /\ remaining' = [remaining EXCEPT ![p] = @ - 1]
    /\ pc' = [pc EXCEPT ![p] = "send"]
    /\ UNCHANGED <<event, status, created, clock, stamp, todo, left, hist,
                   failures, aborts>>

\* The loop ends: the limit is used up or nothing is due.
Finish(p) ==
    /\ pc[p] = "claim"
    /\ ~MayClaim(p) \/ Eligible(DestOf[p]) = {}
    /\ Return(p)
    /\ UNCHANGED <<db, clock, hist, failures, aborts>>

\* The sender starts the request; the client gives it Timeout.
SendRequest(p) ==
    /\ pc[p] = "send"
    /\ pc' = [pc EXCEPT ![p] = "sending"]
    /\ left' = [left EXCEPT ![p] = Timeout]
    /\ requests' = [requests EXCEPT ![held[p]] = @ + 1]
    /\ UNCHANGED <<db, clock, stamp, todo, remaining, held, lease, accepted,
                   failures, aborts>>

\* Mutant: the error of SendAlertDelivery is dropped.
AfterSendUnchecked(ok) == "markDelivered"

\* The `if err := SendAlertDelivery(...)` of Deliver.
AfterSend(ok) == IF ok THEN "markDelivered" ELSE "markFailed"

\* The sender refuses the payload before any request (no commit sha, a
\* target that does not parse).
RefuseSend(p) ==
    /\ pc[p] = "send"
    /\ failures < MaxFailures
    /\ failures' = failures + 1
    /\ pc' = [pc EXCEPT ![p] = AfterSend(FALSE)]
    /\ UNCHANGED <<db, clock, stamp, todo, remaining, held, left, lease, hist,
                   aborts>>

\* The target acted on the request and answered 2xx in time.
SendAccepted(p) ==
    /\ pc[p] = "sending"
    /\ accepted' = [accepted EXCEPT ![held[p]] = TRUE]
    /\ pc' = [pc EXCEPT ![p] = AfterSend(TRUE)]
    /\ left' = [left EXCEPT ![p] = 0]
    /\ UNCHANGED <<db, clock, stamp, todo, remaining, held, lease, requests,
                   failures, aborts>>

\* The sender returns an error (refused, unreachable, timed out); a target
\* whose answer was lost may have acted all the same.
SendFailed(p) ==
    /\ pc[p] = "sending"
    /\ failures < MaxFailures
    /\ failures' = failures + 1
    /\ \E acted \in BOOLEAN :
         accepted' = [accepted EXCEPT ![held[p]] = @ \/ acted]
    /\ pc' = [pc EXCEPT ![p] = AfterSend(FALSE)]
    /\ left' = [left EXCEPT ![p] = 0]
    /\ UNCHANGED <<db, clock, stamp, todo, remaining, held, lease, requests,
                   aborts>>

\* MarkAlertDeliveryDelivered updates by id alone; ErrNotFound ends the run.
MarkDelivered(p) ==
    LET d == held[p] IN
    /\ pc[p] = "markDelivered"
    /\ IF status[d] = "absent"
       THEN Return(p) /\ UNCHANGED <<status, due>>
       ELSE /\ status' = [status EXCEPT ![d] = "delivered"]
            /\ due' = [due EXCEPT ![d] = 0]
            /\ NextClaim(p)
    /\ UNCHANGED <<event, attempts, created, clock, hist, failures, aborts>>

\* Mutant: MarkAlertDeliveryFailed updates by id alone.
MayFailByID(d) == status[d] # "absent"

\* The rows MarkAlertDeliveryFailed updates.
MayFail(d) == status[d] \in {"pending", "failed"}

\* MarkAlertDeliveryFailed leaves a delivered row alone; then, and when the
\* row is gone, it reports ErrNotFound, which ends the run.
MarkFailed(p) ==
    LET d == held[p] IN
    /\ pc[p] = "markFailed"
    /\ IF MayFail(d)
       THEN /\ status' = [status EXCEPT ![d] = "failed"]
            /\ due' = [due EXCEPT ![d] = RetryAfter]
            /\ NextClaim(p)
       ELSE Return(p) /\ UNCHANGED <<status, due>>
    /\ UNCHANGED <<event, attempts, created, clock, hist, failures, aborts>>

\* The job dies, or a store call fails: Deliver returns with the tables as
\* they are.  A request in flight may still reach its target.
Abort(p) ==
    /\ pc[p] # "idle"
    /\ aborts < MaxAborts
    /\ aborts' = aborts + 1
    /\ \E acted \in BOOLEAN :
         accepted' = IF pc[p] = "sending"
                     THEN [accepted EXCEPT ![held[p]] = @ \/ acted]
                     ELSE accepted
    /\ Return(p)
    /\ UNCHANGED <<db, clock, requests, failures>>

Down(n) == IF n = 0 THEN 0 ELSE n - 1

\* Time passes, except past the deadline of a request in flight.
Tick ==
    /\ \A p \in Dispatchers : pc[p] = "sending" => left[p] > 0
    /\ \/ \E d \in Delivery : due[d] > 0
       \/ \E p \in Dispatchers : left[p] > 0
    /\ due' = [d \in Delivery |-> Down(due[d])]
    /\ left' = [p \in Dispatchers |-> Down(left[p])]
    /\ lease' = [p \in Dispatchers |-> Down(lease[p])]
    /\ UNCHANGED <<event, status, attempts, created, clock, pc, stamp, todo,
                   remaining, held, hist, failures, aborts>>

Step(p) ==
    \/ Begin(p) \/ Enqueue(p) \/ Claim(p) \/ Finish(p)
    \/ SendRequest(p) \/ RefuseSend(p) \/ SendAccepted(p) \/ SendFailed(p)
    \/ MarkDelivered(p) \/ MarkFailed(p)

Next ==
    \/ \E e \in Events : CreateEvent(e)
    \/ \E e \in Events : DeleteRule(RuleOf[e])
    \/ \E p \in Dispatchers : Step(p) \/ Abort(p)
    \/ Tick

Spec == Init /\ [][Next]_vars

\* A scheduler keeps starting the jobs, a started job keeps running, and
\* time passes; nothing obliges a send to fail, a job to die, an event to be
\* recorded or a rule to be deleted.
Fairness ==
    /\ \A p \in Dispatchers : WF_vars(Step(p))
    /\ WF_vars(Tick)

FairSpec == Spec /\ Fairness

-----------------------------------------------------------------------------
(* Properties. *)

\* Two overlapping Deliver runs hold the same delivery only after the lease
\* of one of them has run out (the lease that ClaimPendingAlertDeliveries
\* takes by pushing next_attempt_at to lease_until, and that a late
\* MarkAlertDeliveryFailed of another run must not cut short).
LeaseExclusive ==
    \A p, q \in Dispatchers :
        (p # q /\ held[p] # NoDelivery /\ held[p] = held[q])
            => (lease[p] = 0 \/ lease[q] = 0)

\* A row is marked delivered only if its target acted on a request for it,
\* whichever runs raced, failed or died on the way (Deliver marks a row
\* delivered only after SendAlertDelivery returned nil).
DeliveredWasAccepted ==
    \A d \in Delivery : status[d] = "delivered" => accepted[d]

\* Once marked delivered, a row is neither failed by a slower run
\* (MarkAlertDeliveryFailed's status <> 'delivered') nor claimed again; it
\* leaves the table only with its event.
DeliveredIsFinal ==
    [][\A d \in Delivery :
         status[d] = "delivered" =>
            \/ status'[d] = "delivered" /\ attempts'[d] = attempts[d]
            \/ status'[d] = "absent" /\ event'[d[1]] = "gone"]_vars

\* Every live event reaches every configured target it is in scope for,
\* unless its rule is deleted first: no crash, lost race, failed attempt,
\* --limit or lease strands a row (Deliver's enqueue, claim and retry).
EveryEventIsDelivered ==
    \A e \in Events, p \in Dispatchers :
        (event[e] = "live" /\ RepoScope[DestOf[p]] \in {AnyRepo, RepoOf[e]})
            ~> (status[<<e, DestOf[p]>>] = "delivered" \/ event[e] = "gone")

\* The outbox seen as Outbox sees it: rows of deleted events are dropped.
boxOf == [d \in Delivery |->
             CASE event[d[1]] = "gone"              -> "dropped"
               [] status[d] = "delivered"           -> "done"
               [] status[d] \in {"pending", "failed"} -> "queued"
               [] OTHER                             -> "new"]
gotOf == {d \in Delivery : accepted[d]}

Abstract == INSTANCE Outbox WITH Item <- Delivery, box <- boxOf, got <- gotOf

\* The jobs, leases, races and crashes of Deliver together implement the
\* at-least-once outbox.
ImplementsOutbox == Abstract!OutboxSpec

\* docs/site/alerting.md: "leased via next_attempt_at before any delivery
\* request, so overlapping runs never send the same delivery twice": no two
\* runs are past the start of a request for the same delivery at once.
OverlappingRunsNeverSendTwice ==
    \A p, q \in Dispatchers :
        (p # q /\ held[p] # NoDelivery /\ held[p] = held[q])
            => {pc[p], pc[q]} \cap {"send", "markFailed"} # {}
=============================================================================
