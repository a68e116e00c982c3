------------------------ MODULE AlertDeliveryProofs ------------------------
(***************************************************************************)
(* Theorems about AlertDelivery, for any set of events, targets and jobs   *)
(* and any flags the command accepts.                                      *)
(***************************************************************************)
EXTENDS AlertDelivery, TLAPS

(* The parts of the inductive invariant. *)

\* A run holds a delivery exactly between claiming it and recording the
\* outcome.
HoldsWhileWorking ==
    \A p \in Dispatchers : (pc[p] \in Holding) <=> (held[p] \in Delivery)

\* A row exists only while its event does (foreign key, cascade).
RowsHaveEvents ==
    \A d \in Delivery : status[d] # "absent" => event[d[1]] = "live"

\* A held delivery was enqueued; if its row is missing, its event is gone,
\* so nothing can insert the row again.
HeldWasEnqueued ==
    \A p \in Dispatchers : held[p] \in Delivery =>
        status[held[p]] # "absent" \/ event[held[p][1]] = "gone"

\* While a row can still be claimed, its next_attempt_at covers the lease of
\* every run that holds it.
LeaseCovered ==
    \A p \in Dispatchers :
        (held[p] \in Delivery /\ status[held[p]] \in {"pending", "failed"})
            => lease[p] <= due[held[p]]

\* A run about to mark a row delivered was answered by its target.
MarkedWasAccepted ==
    \A p \in Dispatchers : pc[p] = "markDelivered" => accepted[held[p]]

LeaseInv ==
    /\ HoldsWhileWorking
    /\ RowsHaveEvents
    /\ HeldWasEnqueued
    /\ LeaseCovered
    /\ LeaseExclusive
    /\ MarkedWasAccepted
    /\ DeliveredWasAccepted

-----------------------------------------------------------------------------

\* The empty tuple that stands for "no delivery" is not a delivery.
LEMMA NoDeliveryIsNone == NoDelivery \notin Delivery
BY DEF NoDelivery, Delivery

\* A timer stays in its range when time passes, and two timers keep their
\* order.
LEMMA DownBounds ==
    ASSUME NEW m \in Nat, NEW n \in 0..m
    PROVE  /\ Down(n) \in 0..m
           /\ \A k \in 0..m : n <= k => Down(n) <= Down(k)
           /\ n = 0 => Down(n) = 0
BY DEF Down

\* Type correctness: every value stays in the range its column or local
\* variable allows; in particular timers never underflow and a run never
\* claims more than --limit rows.
THEOREM TypeCorrect == Spec => []TypeOK
<1> USE FlagAssumption, ConstantAssumption
<1>1. Init => TypeOK
  BY DEF Init, TypeOK, Status, Place, Delivery
<1>2. TypeOK /\ [Next]_vars => TypeOK'
  <2> SUFFICES ASSUME TypeOK, [Next]_vars PROVE TypeOK'
    OBVIOUS
  <2> USE DEF TypeOK, Status, Place, db, run, hist, Return, NextClaim
  <2>1. ASSUME NEW e \in Events, CreateEvent(e) PROVE TypeOK'
    BY <2>1 DEF CreateEvent
  <2>2. ASSUME NEW e \in Events, DeleteRule(RuleOf[e]) PROVE TypeOK'
    BY <2>2 DEF DeleteRule
  <2>3. ASSUME NEW p \in Dispatchers, Begin(p) PROVE TypeOK'
    BY <2>3 DEF Begin, AlertEventsWithoutDelivery
  <2>4. ASSUME NEW p \in Dispatchers, Enqueue(p) PROVE TypeOK'
    <3>1. PICK e \in todo[p] : Enqueue(p)!(e)
      BY <2>4 DEF Enqueue
    <3>2. CASE event[e] # "live"
      <4>1. Return(p) /\ UNCHANGED <<event, status, attempts, due, created,
                                     clock, requests, accepted, failures, aborts>>
        BY <3>1, <3>2
      <4>2. /\ pc' \in [Dispatchers -> Place] /\ stamp' \in [Dispatchers -> Nat]
            /\ todo' \in [Dispatchers -> SUBSET Events]
            /\ remaining' \in [Dispatchers -> 0..Limit]
        BY <4>1
      <4>3. /\ held' \in [Dispatchers -> Delivery \cup {NoDelivery}]
            /\ left' \in [Dispatchers -> 0..Timeout]
            /\ lease' \in [Dispatchers -> 0..RetryAfter]
        BY <4>1
      <4> QED
        BY <4>1, <4>2, <4>3
    <3>3. CASE event[e] = "live"
      <4>1. status' \in [Delivery -> Status] /\ created' \in [Delivery -> Nat]
        BY <3>1, <3>3, ZenonT(40)
      <4>2. pc' \in [Dispatchers -> Place] /\ todo' \in [Dispatchers -> SUBSET Events]
        <5>1. /\ todo' = [todo EXCEPT ![p] = @ \ {e}]
              /\ pc' = [pc EXCEPT ![p] = IF todo[p] = {e} THEN "claim" ELSE @]
          BY <3>1, <3>3
        <5>2. pc[p] \in Place /\ "claim" \in Place /\ todo[p] \ {e} \in SUBSET Events
          OBVIOUS
        <5> QED
          BY <5>1, <5>2
      <4> QED
        BY <3>1, <3>3, <4>1, <4>2
    <3> QED
      BY <3>2, <3>3
  <2>5. ASSUME NEW p \in Dispatchers, Claim(p) PROVE TypeOK'
    BY <2>5 DEF Claim, MayClaim, Eligible, AttemptsOnClaim, LeaseUntil
  <2>6. ASSUME NEW p \in Dispatchers, Finish(p) PROVE TypeOK'
    BY <2>6 DEF Finish
  <2>7. ASSUME NEW p \in Dispatchers, SendRequest(p) PROVE TypeOK'
    <3>1. requests' \in [Delivery -> Nat]
      <4>1. CASE held[p] \in Delivery
        BY <2>7, <4>1 DEF SendRequest
      <4>2. CASE held[p] \notin Delivery
        BY <2>7, <4>2, Zenon DEF SendRequest
      <4> QED
        BY <4>1, <4>2
    <3> QED
      BY <2>7, <3>1 DEF SendRequest
  <2>8. ASSUME NEW p \in Dispatchers, RefuseSend(p) PROVE TypeOK'
    BY <2>8 DEF RefuseSend, AfterSend
  <2>9. ASSUME NEW p \in Dispatchers, SendAccepted(p) PROVE TypeOK'
    <3>1. accepted' \in [Delivery -> BOOLEAN]
      BY <2>9, Zenon DEF SendAccepted
    <3> QED
      BY <2>9, <3>1 DEF SendAccepted, AfterSend
  <2>10. ASSUME NEW p \in Dispatchers, SendFailed(p) PROVE TypeOK'
    <3>1. accepted' \in [Delivery -> BOOLEAN]
      BY <2>10, Zenon DEF SendFailed
    <3> QED
      BY <2>10, <3>1 DEF SendFailed, AfterSend
  <2>11. ASSUME NEW p \in Dispatchers, MarkDelivered(p) PROVE TypeOK'
    <3>1. CASE status[held[p]] = "absent"
      <4>1. Return(p) /\ UNCHANGED <<event, status, attempts, due, created,
                                     clock, requests, accepted, failures, aborts>>
        BY <2>11, <3>1 DEF MarkDelivered
      <4> QED
        BY <4>1
    <3>2. CASE status[held[p]] # "absent"
      <4>1. /\ status' = [status EXCEPT ![held[p]] = "delivered"]
            /\ due' = [due EXCEPT ![held[p]] = 0]
            /\ NextClaim(p)
            /\ UNCHANGED <<event, attempts, created, clock, requests, accepted,
                           failures, aborts>>
        BY <2>11, <3>2 DEF MarkDelivered
      <4>2. "delivered" \in Status /\ 0 \in 0..RetryAfter
        OBVIOUS
      <4>3. status' \in [Delivery -> Status]
        BY <4>1, <4>2, Zenon
      <4>4. due' \in [Delivery -> 0..RetryAfter]
        BY <4>1, <4>2, Zenon
      <4> QED
        BY <4>1, <4>3, <4>4
    <3> QED
      BY <3>1, <3>2
  <2>12. ASSUME NEW p \in Dispatchers, MarkFailed(p) PROVE TypeOK'
    <3>1. CASE ~MayFail(held[p])
      <4>1. Return(p) /\ UNCHANGED <<event, status, attempts, due, created,
                                     clock, requests, accepted, failures, aborts>>
        BY <2>12, <3>1 DEF MarkFailed
      <4> QED
        BY <4>1
    <3>2. CASE MayFail(held[p])
      <4>1. /\ status' = [status EXCEPT ![held[p]] = "failed"]
            /\ due' = [due EXCEPT ![held[p]] = RetryAfter]
            /\ NextClaim(p)
            /\ UNCHANGED <<event, attempts, created, clock, requests, accepted,
                           failures, aborts>>
        BY <2>12, <3>2 DEF MarkFailed
      <4>2. "failed" \in Status /\ RetryAfter \in 0..RetryAfter
        OBVIOUS
      <4>3. status' \in [Delivery -> Status]
        BY <4>1, <4>2, Zenon
      <4>4. due' \in [Delivery -> 0..RetryAfter]
        BY <4>1, <4>2, Zenon
      <4> QED
        BY <4>1, <4>3, <4>4
    <3> QED
      BY <3>1, <3>2
  <2>13. ASSUME NEW p \in Dispatchers, Abort(p) PROVE TypeOK'
    <3>1. accepted' \in [Delivery -> BOOLEAN]
      BY <2>13, Zenon DEF Abort
    <3> QED
      BY <2>13, <3>1 DEF Abort
  <2>14. CASE Tick
    <3>1. due' \in [Delivery -> 0..RetryAfter]
      BY <2>14, DownBounds DEF Tick
    <3>2. left' \in [Dispatchers -> 0..Timeout]
      BY <2>14, DownBounds DEF Tick
    <3>3. lease' \in [Dispatchers -> 0..RetryAfter]
      BY <2>14, DownBounds DEF Tick
    <3> QED
      BY <2>14, <3>1, <3>2, <3>3 DEF Tick
  <2>15. CASE UNCHANGED vars
    BY <2>15 DEF vars
  <2> QED
    BY <2>1, <2>2, <2>3, <2>4, <2>5, <2>6, <2>7, <2>8, <2>9, <2>10, <2>11,
       <2>12, <2>13, <2>14, <2>15 DEF Next, Step
<1> QED
  BY <1>1, <1>2, PTL DEF Spec

-----------------------------------------------------------------------------

\* A run that lets go of its delivery and leaves the tables alone preserves
\* the invariant.
LEMMA LetGoStep ==
    ASSUME TypeOK, TypeOK', LeaseInv, NEW p \in Dispatchers,
           Return(p) \/ NextClaim(p), UNCHANGED <<event, status, due, accepted>>
    PROVE  LeaseInv'
<1>1. /\ held' = [held EXCEPT ![p] = NoDelivery]
      /\ lease' = [lease EXCEPT ![p] = 0]
      /\ \A q \in Dispatchers : q # p => pc'[q] = pc[q]
      /\ pc'[p] \in {"idle", "claim"}
  BY DEF Return, NextClaim, TypeOK
<1> QED
  BY <1>1, NoDeliveryIsNone
     DEF TypeOK, Holding, LeaseInv, HoldsWhileWorking, RowsHaveEvents,
         HeldWasEnqueued, LeaseCovered, LeaseExclusive, MarkedWasAccepted,
         DeliveredWasAccepted

\* A run that records an outcome for the row it holds preserves it: a failed
\* row gets a next_attempt_at as long as a lease can be, a delivered row
\* needs its target's answer.
LEMMA OutcomeStep ==
    ASSUME TypeOK, TypeOK', LeaseInv, NEW p \in Dispatchers, NextClaim(p),
           UNCHANGED <<event, accepted>>,
           NEW d \in Delivery, held[p] = d, status[d] # "absent",
           NEW outcome \in {"failed", "delivered"}, NEW next \in 0..RetryAfter,
           status' = [status EXCEPT ![d] = outcome],
           due' = [due EXCEPT ![d] = next],
           outcome = "failed" => next = RetryAfter,
           outcome = "delivered" => accepted[d]
    PROVE  LeaseInv'
<1> USE FlagAssumption, NoDeliveryIsNone
<1> USE DEF TypeOK, LeaseInv
<1>1. /\ held' = [held EXCEPT ![p] = NoDelivery]
      /\ lease' = [lease EXCEPT ![p] = 0]
      /\ pc' = [pc EXCEPT ![p] = "claim"]
  BY DEF NextClaim
<1>2. HoldsWhileWorking' /\ MarkedWasAccepted'
  BY <1>1 DEF HoldsWhileWorking, MarkedWasAccepted, Holding
<1>3. RowsHaveEvents' /\ HeldWasEnqueued' /\ DeliveredWasAccepted'
  BY <1>1 DEF RowsHaveEvents, HeldWasEnqueued, DeliveredWasAccepted
<1>4. LeaseCovered'
  BY <1>1 DEF LeaseCovered
<1>5. LeaseExclusive'
  BY <1>1 DEF LeaseExclusive
<1> QED
  BY <1>2, <1>3, <1>4, <1>5

\* Every step of the system preserves the invariant.
LEMMA LeaseInvStep ==
    ASSUME TypeOK, TypeOK', LeaseInv, [Next]_vars
    PROVE  LeaseInv'
<1> USE FlagAssumption, ConstantAssumption, NoDeliveryIsNone
<1> USE DEF TypeOK, Holding, LeaseInv, HoldsWhileWorking, RowsHaveEvents,
            HeldWasEnqueued, LeaseCovered, LeaseExclusive, MarkedWasAccepted,
            DeliveredWasAccepted, db, run, hist
<1>0. \A d \in Delivery : d[1] \in Events /\ d[2] \in Dests /\ d = <<d[1], d[2]>>
  BY DEF Delivery
<1>1. ASSUME NEW e \in Events, CreateEvent(e) PROVE LeaseInv'
  BY <1>0, <1>1 DEF CreateEvent
<1>2. ASSUME NEW e \in Events, DeleteRule(RuleOf[e]) PROVE LeaseInv'
  BY <1>0, <1>2 DEF DeleteRule
<1>3. ASSUME NEW p \in Dispatchers, Begin(p) PROVE LeaseInv'
  <2>1. UNCHANGED <<event, status, due, held, lease, accepted>>
    BY <1>3 DEF Begin
  <2>2. /\ \A q \in Dispatchers : q # p => pc'[q] = pc[q]
        /\ pc'[p] \notin Holding
    BY <1>3 DEF Begin
  <2>3. pc[p] \notin Holding
    BY <1>3 DEF Begin
  <2> QED
    BY <2>1, <2>2, <2>3
<1>4. ASSUME NEW p \in Dispatchers, Enqueue(p) PROVE LeaseInv'
  <2>1. PICK e \in todo[p] : Enqueue(p)!(e)
    BY <1>4 DEF Enqueue
  <2>2. CASE event[e] # "live"
    BY <2>1, <2>2, LetGoStep
  <2>3. CASE event[e] = "live" /\ status[<<e, DestOf[p]>>] # "absent"
    <3>1. /\ UNCHANGED <<event, status, due, held, lease, accepted>>
          /\ \A q \in Dispatchers : q # p => pc'[q] = pc[q]
          /\ pc[p] = "enqueue" /\ pc'[p] \in {"enqueue", "claim"}
      BY <2>1, <2>3
    <3> QED
      BY <3>1
  <2>4. CASE event[e] = "live" /\ status[<<e, DestOf[p]>>] = "absent"
    <3> DEFINE d == <<e, DestOf[p]>>
    <3>1. d \in Delivery /\ d[1] = e /\ status[d] = "absent" /\ event[d[1]] = "live"
      BY <2>4 DEF Delivery
    <3>3. /\ status' = [status EXCEPT ![d] = "pending"]
          /\ pc[p] = "enqueue" /\ pc' \in [Dispatchers -> Place]
          /\ \A q \in Dispatchers : q # p => pc'[q] = pc[q]
          /\ pc'[p] \in {"enqueue", "claim"}
          /\ UNCHANGED <<event, due, held, lease, accepted>>
      BY <2>1, <2>4
    <3> HIDE DEF d
    <3>2. \A q \in Dispatchers : held[q] # d
      BY <3>1
    <3>4. HoldsWhileWorking' /\ MarkedWasAccepted'
      BY <3>3
    <3>5. RowsHaveEvents' /\ HeldWasEnqueued' /\ DeliveredWasAccepted'
      BY <1>0, <2>4, <3>1, <3>2, <3>3
    <3>6. LeaseCovered' /\ LeaseExclusive'
      BY <1>0, <3>1, <3>2, <3>3
    <3> QED
      BY <3>4, <3>5, <3>6
  <2> QED
    BY <2>2, <2>3, <2>4
<1>5. ASSUME NEW p \in Dispatchers, Claim(p) PROVE LeaseInv'
  BY <1>0, <1>5 DEF Claim, Eligible, LeaseUntil
<1>6. ASSUME NEW p \in Dispatchers, Finish(p) PROVE LeaseInv'
  BY <1>0, <1>6 DEF Finish, Return
<1>7. ASSUME NEW p \in Dispatchers, SendRequest(p) PROVE LeaseInv'
  BY <1>0, <1>7 DEF SendRequest
<1>8. ASSUME NEW p \in Dispatchers, RefuseSend(p) PROVE LeaseInv'
  BY <1>0, <1>8 DEF RefuseSend, AfterSend
<1>9. ASSUME NEW p \in Dispatchers, SendAccepted(p) PROVE LeaseInv'
  BY <1>0, <1>9 DEF SendAccepted, AfterSend
<1>10. ASSUME NEW p \in Dispatchers, SendFailed(p) PROVE LeaseInv'
  BY <1>0, <1>10 DEF SendFailed, AfterSend
<1>11. ASSUME NEW p \in Dispatchers, MarkDelivered(p) PROVE LeaseInv'
  <2>1. held[p] \in Delivery /\ accepted[held[p]]
    BY <1>11 DEF MarkDelivered
  <2>2. CASE status[held[p]] = "absent"
    BY <1>11, <2>2, LetGoStep DEF MarkDelivered
  <2>3. CASE status[held[p]] # "absent"
    <3>1. /\ status' = [status EXCEPT ![held[p]] = "delivered"]
          /\ due' = [due EXCEPT ![held[p]] = 0]
          /\ NextClaim(p) /\ UNCHANGED <<event, accepted>>
      BY <1>11, <2>3 DEF MarkDelivered
    <3>2. 0 \in 0..RetryAfter
      OBVIOUS
    <3> HIDE DEF TypeOK, LeaseInv
    <3> QED
      BY <2>1, <2>3, <3>1, <3>2, OutcomeStep
  <2> QED
    BY <2>2, <2>3
<1>12. ASSUME NEW p \in Dispatchers, MarkFailed(p) PROVE LeaseInv'
  <2>1. held[p] \in Delivery
    BY <1>12 DEF MarkFailed
  <2>2. CASE ~MayFail(held[p])
    BY <1>12, <2>2, LetGoStep DEF MarkFailed
  <2>3. CASE MayFail(held[p])
    <3>1. /\ status' = [status EXCEPT ![held[p]] = "failed"]
          /\ due' = [due EXCEPT ![held[p]] = RetryAfter]
          /\ NextClaim(p) /\ UNCHANGED <<event, accepted>>
          /\ status[held[p]] # "absent"
      BY <1>12, <2>3 DEF MarkFailed, MayFail
    <3>2. RetryAfter \in 0..RetryAfter
      OBVIOUS
    <3> HIDE DEF TypeOK, LeaseInv
    <3> QED
      BY <2>1, <3>1, <3>2, OutcomeStep
  <2> QED
    BY <2>2, <2>3
<1>13. ASSUME NEW p \in Dispatchers, Abort(p) PROVE LeaseInv'
  BY <1>0, <1>13 DEF Abort, Return
<1>14. CASE Tick
  BY <1>0, <1>14, DownBounds DEF Tick
<1>15. CASE UNCHANGED vars
  BY <1>15 DEF vars
<1> QED
  BY <1>1, <1>2, <1>3, <1>4, <1>5, <1>6, <1>7, <1>8, <1>9, <1>10, <1>11,
     <1>12, <1>13, <1>14, <1>15 DEF Next, Step

\* The invariant holds in every reachable state.
THEOREM LeaseInvariant == Spec => []LeaseInv
<1>1. Init => LeaseInv
  BY NoDeliveryIsNone
     DEF Init, LeaseInv, HoldsWhileWorking, RowsHaveEvents, HeldWasEnqueued,
         LeaseCovered, LeaseExclusive, MarkedWasAccepted, DeliveredWasAccepted,
         Holding
<1>2. TypeOK /\ TypeOK' /\ LeaseInv /\ [Next]_vars => LeaseInv'
  BY LeaseInvStep
<1> QED
  BY <1>1, <1>2, TypeCorrect, PTL DEF Spec

\* No two overlapping Deliver runs hold one delivery under running leases.
THEOREM LeaseExclusiveAlways == Spec => []LeaseExclusive
<1>1. LeaseInv => LeaseExclusive
  BY DEF LeaseInv
<1> QED
  BY <1>1, LeaseInvariant, PTL

\* A row is marked delivered only after its target acted on a request.
THEOREM DeliveredWasAcceptedAlways == Spec => []DeliveredWasAccepted
<1>1. LeaseInv => DeliveredWasAccepted
  BY DEF LeaseInv
<1> QED
  BY <1>1, LeaseInvariant, PTL

\* A delivered row is never failed or claimed again, only dropped with its
\* event.
THEOREM DeliveredStaysFinal == Spec => DeliveredIsFinal
<1> DEFINE A == \A d \in Delivery :
                   status[d] = "delivered" =>
                      \/ status'[d] = "delivered" /\ attempts'[d] = attempts[d]
                      \/ status'[d] = "absent" /\ event'[d[1]] = "gone"
<1>1. TypeOK /\ [Next]_vars => A
  <2> SUFFICES ASSUME TypeOK, [Next]_vars, NEW d \in Delivery,
                      status[d] = "delivered"
               PROVE  \/ status'[d] = "delivered" /\ attempts'[d] = attempts[d]
                      \/ status'[d] = "absent" /\ event'[d[1]] = "gone"
    OBVIOUS
  <2>0. d[1] \in Events
    BY DEF Delivery
  <2> USE DEF TypeOK
  <2>1. ASSUME NEW e \in Events, CreateEvent(e) PROVE UNCHANGED <<status, attempts>>
    BY <2>1 DEF CreateEvent
  <2>2. ASSUME NEW e \in Events, DeleteRule(RuleOf[e])
        PROVE  \/ status'[d] = "delivered" /\ attempts'[d] = attempts[d]
               \/ status'[d] = "absent" /\ event'[d[1]] = "gone"
    BY <2>0, <2>2 DEF DeleteRule
  <2>3. ASSUME NEW p \in Dispatchers,
               \/ Begin(p) \/ Finish(p) \/ SendRequest(p) \/ RefuseSend(p)
               \/ SendAccepted(p) \/ SendFailed(p) \/ Abort(p)
        PROVE  UNCHANGED <<status, attempts>>
    BY <2>3 DEF Begin, Finish, SendRequest, RefuseSend, SendAccepted,
                SendFailed, Abort, db
  <2>4. ASSUME NEW p \in Dispatchers, Enqueue(p)
        PROVE  status'[d] = "delivered" /\ attempts'[d] = attempts[d]
    BY <2>4 DEF Enqueue
  <2>5. ASSUME NEW p \in Dispatchers, Claim(p)
        PROVE  status'[d] = "delivered" /\ attempts'[d] = attempts[d]
    BY <2>5 DEF Claim, Eligible
  <2>6. ASSUME NEW p \in Dispatchers, MarkDelivered(p)
        PROVE  status'[d] = "delivered" /\ attempts'[d] = attempts[d]
    BY <2>6 DEF MarkDelivered
  <2>7. ASSUME NEW p \in Dispatchers, MarkFailed(p)
        PROVE  status'[d] = "delivered" /\ attempts'[d] = attempts[d]
    BY <2>7 DEF MarkFailed, MayFail
  <2>8. CASE Tick \/ UNCHANGED vars
    BY <2>8 DEF Tick, vars
  <2> QED
    BY <2>1, <2>2, <2>3, <2>4, <2>5, <2>6, <2>7, <2>8 DEF Next, Step
<1>2. TypeOK /\ [Next]_vars => [A]_vars
  BY <1>1
<1> QED
  BY <1>2, TypeCorrect, PTL DEF Spec, DeliveredIsFinal

-----------------------------------------------------------------------------

\* Every step of the system is a step of the abstract outbox, or changes
\* nothing that the outbox shows.
LEMMA OutboxStep ==
    ASSUME TypeOK, TypeOK', LeaseInv, [Next]_vars
    PROVE  [Abstract!OutboxNext]_<<boxOf, gotOf>>
<1> USE NoDeliveryIsNone
<1> USE DEF TypeOK
<1>0. \A d \in Delivery : d[1] \in Events
  BY DEF Delivery
<1> DEFINE Same == UNCHANGED <<boxOf, gotOf>>
<1>1. ASSUME UNCHANGED <<event, status, accepted>> PROVE Same
  BY <1>1 DEF boxOf, gotOf
<1>2. ASSUME NEW e \in Events, CreateEvent(e) PROVE Same
  <2>1. /\ event[e] = "none" /\ event' = [event EXCEPT ![e] = "live"]
        /\ UNCHANGED <<status, accepted>>
    BY <1>2 DEF CreateEvent, hist
  <2>2. boxOf' = boxOf
    BY <1>0, <2>1 DEF boxOf
  <2> QED
    BY <2>1, <2>2 DEF gotOf
<1>3. ASSUME NEW e \in Events, DeleteRule(RuleOf[e]) PROVE Abstract!OutboxNext
  <2> DEFINE gone == {f \in Events : RuleOf[f] = RuleOf[e] /\ event[f] = "live"}
             I == {d \in Delivery : d[1] \in gone}
  <2>1. /\ event' = [f \in Events |-> IF f \in gone THEN "gone" ELSE event[f]]
        /\ status' = [d \in Delivery |-> IF d[1] \in gone THEN "absent" ELSE status[d]]
        /\ accepted' = accepted
    BY <1>3 DEF DeleteRule, hist
  <2> HIDE DEF gone
  <2>2. boxOf' = [d \in Delivery |-> IF d \in I THEN "dropped" ELSE boxOf[d]]
    BY <1>0, <2>1 DEF boxOf
  <2>3. gotOf' = gotOf
    BY <2>1 DEF gotOf
  <2>4. Abstract!Drop(I)
    BY <2>2, <2>3 DEF Abstract!Drop
  <2>5. I \in SUBSET Delivery
    OBVIOUS
  <2> QED
    BY <2>4, <2>5 DEF Abstract!OutboxNext
<1>4. ASSUME NEW p \in Dispatchers,
             \/ Begin(p) \/ Claim(p) \/ Finish(p) \/ SendRequest(p) \/ RefuseSend(p)
      PROVE  Same
  <2>1. UNCHANGED <<event, status, accepted>>
    BY <1>4 DEF Begin, Claim, Finish, SendRequest, RefuseSend, db, hist
  <2> QED
    BY <1>1, <2>1
<1>5. ASSUME NEW p \in Dispatchers, Enqueue(p) PROVE Same \/ Abstract!OutboxNext
  <2>1. PICK e \in todo[p] : Enqueue(p)!(e)
    BY <1>5 DEF Enqueue
  <2> DEFINE d == <<e, DestOf[p]>>
  <2>2. CASE event[e] # "live" \/ status[d] # "absent"
    <3>1. UNCHANGED <<event, status, accepted>>
      BY <2>1, <2>2 DEF hist
    <3> QED
      BY <1>1, <3>1
  <2>3. CASE event[e] = "live" /\ status[d] = "absent"
    <3>1. d \in Delivery /\ d[1] = e
      BY ConstantAssumption DEF Delivery
    <3>2. /\ status' = [status EXCEPT ![d] = "pending"]
          /\ UNCHANGED <<event, accepted>>
      BY <2>1, <2>3 DEF hist
    <3>3. boxOf[d] = "new"
      BY <2>3, <3>1 DEF boxOf
    <3> HIDE DEF d
    <3>4. boxOf' = [boxOf EXCEPT ![d] = "queued"]
      <4>1. boxOf'[d] = "queued"
        BY <2>3, <3>1, <3>2 DEF boxOf
      <4>2. \A f \in Delivery : f # d => boxOf'[f] = boxOf[f]
        BY <3>1, <3>2 DEF boxOf
      <4>3. /\ DOMAIN boxOf = Delivery /\ boxOf = [f \in DOMAIN boxOf |-> boxOf[f]]
            /\ DOMAIN boxOf' = Delivery /\ boxOf' = [f \in DOMAIN boxOf' |-> boxOf'[f]]
        BY DEF boxOf
      <4> QED
        BY <3>1, <4>1, <4>2, <4>3
    <3>5. gotOf' = gotOf
      BY <3>2 DEF gotOf
    <3>6. Abstract!Put(d)
      BY <3>3, <3>4, <3>5 DEF Abstract!Put
    <3> QED
      BY <3>1, <3>6 DEF Abstract!OutboxNext
  <2> QED
    BY <2>2, <2>3
<1>6. ASSUME NEW p \in Dispatchers, pc[p] = "sending", NEW acted \in BOOLEAN,
             accepted' = [accepted EXCEPT ![held[p]] = @ \/ acted],
             UNCHANGED <<event, status>>
      PROVE  Same \/ Abstract!OutboxNext
  <2> DEFINE d == held[p]
  <2>1. d \in Delivery /\ boxOf[d] # "new"
    BY <1>6 DEF LeaseInv, HoldsWhileWorking, HeldWasEnqueued, Holding, boxOf, Status
  <2>2. boxOf' = boxOf
    BY <1>6 DEF boxOf
  <2> HIDE DEF d
  <2>3. CASE acted
    <3>1. gotOf' = gotOf \cup {d}
      <4>1. accepted'[d] /\ \A f \in Delivery : f # d => accepted'[f] = accepted[f]
        BY <1>6, <2>1, <2>3 DEF d
      <4> QED
        BY <2>1, <4>1, Zenon DEF gotOf
    <3>2. Abstract!Act(d)
      BY <2>1, <2>2, <3>1 DEF Abstract!Act
    <3> QED
      BY <2>1, <3>2 DEF Abstract!OutboxNext
  <2>4. CASE ~acted
    <3>1. gotOf' = gotOf
      BY <1>6, <2>1, <2>4 DEF gotOf, d
    <3> QED
      BY <2>2, <3>1
  <2> QED
    BY <2>3, <2>4
<1>7. ASSUME NEW p \in Dispatchers, SendAccepted(p) PROVE Same \/ Abstract!OutboxNext
  <2>1. held[p] \in Delivery
    BY <1>7 DEF SendAccepted, LeaseInv, HoldsWhileWorking, Holding
  <2>2. accepted' = [accepted EXCEPT ![held[p]] = @ \/ TRUE]
    BY <1>7, <2>1 DEF SendAccepted
  <2> QED
    BY <1>6, <1>7, <2>2 DEF SendAccepted, db
<1>8. ASSUME NEW p \in Dispatchers, SendFailed(p) PROVE Same \/ Abstract!OutboxNext
  BY <1>6, <1>8 DEF SendFailed, db
<1>9. ASSUME NEW p \in Dispatchers, Abort(p) PROVE Same \/ Abstract!OutboxNext
  <2>1. CASE pc[p] = "sending"
    BY <1>6, <1>9, <2>1 DEF Abort, db
  <2>2. CASE pc[p] # "sending"
    BY <1>1, <1>9, <2>2 DEF Abort, db
  <2> QED
    BY <2>1, <2>2
<1>10. ASSUME NEW p \in Dispatchers, MarkDelivered(p) PROVE Same \/ Abstract!OutboxNext
  <2> DEFINE d == held[p]
  <2>1. d \in Delivery /\ accepted[d]
    BY <1>10 DEF MarkDelivered, LeaseInv, HoldsWhileWorking, MarkedWasAccepted, Holding
  <2>2. UNCHANGED <<event, accepted>>
    BY <1>10 DEF MarkDelivered, hist
  <2>3. CASE status[d] = "absent"
    <3>1. status' = status
      BY <1>10, <2>3 DEF MarkDelivered
    <3> QED
      BY <1>1, <2>2, <3>1
  <2>4. CASE status[d] # "absent"
    <3>1. status' = [status EXCEPT ![d] = "delivered"]
      BY <1>10, <2>4 DEF MarkDelivered
    <3> HIDE DEF d
    <3>2. event[d[1]] = "live" /\ boxOf[d] \in {"queued", "done"}
      BY <2>1, <2>4 DEF LeaseInv, RowsHaveEvents, boxOf, Status
    <3>3. boxOf' = [boxOf EXCEPT ![d] = "done"]
      <4>1. boxOf'[d] = "done"
        BY <2>1, <2>2, <3>1, <3>2 DEF boxOf
      <4>2. \A f \in Delivery : f # d => boxOf'[f] = boxOf[f]
        BY <2>1, <2>2, <3>1 DEF boxOf
      <4>3. /\ DOMAIN boxOf = Delivery /\ boxOf = [f \in DOMAIN boxOf |-> boxOf[f]]
            /\ DOMAIN boxOf' = Delivery /\ boxOf' = [f \in DOMAIN boxOf' |-> boxOf'[f]]
        BY DEF boxOf
      <4> QED
        BY <2>1, <4>1, <4>2, <4>3
    <3>4. gotOf' = gotOf /\ d \in gotOf
      BY <2>1, <2>2 DEF gotOf
    <3>5. Abstract!Record(d)
      BY <3>2, <3>3, <3>4 DEF Abstract!Record
    <3> QED
      BY <2>1, <3>5 DEF Abstract!OutboxNext
  <2> QED
    BY <2>3, <2>4
<1>11. ASSUME NEW p \in Dispatchers, MarkFailed(p) PROVE Same
  <2> DEFINE d == held[p]
  <2>1. d \in Delivery
    BY <1>11 DEF MarkFailed, LeaseInv, HoldsWhileWorking, Holding
  <2>2. UNCHANGED <<event, accepted>>
    BY <1>11 DEF MarkFailed, hist
  <2>3. status' = status \/ (MayFail(d) /\ status' = [status EXCEPT ![d] = "failed"])
    BY <1>11 DEF MarkFailed
  <2> HIDE DEF d
  <2>4. boxOf' = boxOf
    BY <2>1, <2>2, <2>3 DEF boxOf, MayFail
  <2> QED
    BY <2>2, <2>4 DEF gotOf
<1>12. CASE Tick \/ UNCHANGED vars
  <2>1. UNCHANGED <<event, status, accepted>>
    BY <1>12 DEF Tick, vars, hist
  <2> QED
    BY <1>1, <2>1
<1> QED
  BY <1>2, <1>3, <1>4, <1>5, <1>7, <1>8, <1>9, <1>10, <1>11, <1>12 DEF Next, Step

\* Deliver, with its races, leases and crashes, implements the at-least-once
\* outbox: the refinement that the race run checks on a small instance.
THEOREM DeliverImplementsOutbox == Spec => ImplementsOutbox
<1>1. Init => Abstract!OutboxInit
  <2> SUFFICES ASSUME Init PROVE Abstract!OutboxInit
    OBVIOUS
  <2>0. \A d \in Delivery : d[1] \in Events
    BY DEF Delivery
  <2>1. boxOf = [d \in Delivery |-> "new"]
    BY <2>0 DEF Init, boxOf
  <2>2. gotOf = {}
    BY DEF Init, gotOf
  <2> QED
    BY <2>1, <2>2 DEF Abstract!OutboxInit
<1>2. TypeOK /\ TypeOK' /\ LeaseInv /\ [Next]_vars
        => [Abstract!OutboxNext]_<<boxOf, gotOf>>
  BY OutboxStep
<1> QED
  BY <1>1, <1>2, TypeCorrect, LeaseInvariant, PTL
     DEF Spec, ImplementsOutbox, Abstract!OutboxSpec
=============================================================================
