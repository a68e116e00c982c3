------------------------------- MODULE Outbox -------------------------------
(***************************************************************************)
(* What docs/site/alerting.md promises of the delivery outbox, without     *)
(* jobs, leases or time: at-least-once notification.  An item is put into  *)
(* the outbox once, its target may act on it any number of times from then *)
(* on, it is recorded as done only after the target has acted on it, and   *)
(* a done item stays done until it is dropped with its alert rule; a       *)
(* dropped item never comes back.                                          *)
(***************************************************************************)
CONSTANT Item

VARIABLES
    box,   \* [Item -> "new" | "queued" | "done" | "dropped"]
    got    \* the items whose target has acted on them

OutboxInit ==
    /\ box = [i \in Item |-> "new"]
    /\ got = {}

Put(i) ==
    /\ box[i] = "new"
    /\ box' = [box EXCEPT ![i] = "queued"]
    /\ UNCHANGED got

\* A request that left while the item was in the outbox may be acted on late.
Act(i) ==
    /\ box[i] # "new"
    /\ got' = got \cup {i}
    /\ UNCHANGED box

Record(i) ==
    /\ box[i] \in {"queued", "done"}
    /\ i \in got
    /\ box' = [box EXCEPT ![i] = "done"]
    /\ UNCHANGED got

\* Dropping a rule drops the items of all its events, enqueued or not.
Drop(I) ==
    /\ box' = [i \in Item |-> IF i \in I THEN "dropped" ELSE box[i]]
    /\ UNCHANGED got

OutboxNext ==
    \/ \E i \in Item : Put(i) \/ Act(i) \/ Record(i)
    \/ \E I \in SUBSET Item : Drop(I)

OutboxSpec == OutboxInit /\ [][OutboxNext]_<<box, got>>
=============================================================================
