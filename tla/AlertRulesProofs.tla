-------------------------- MODULE AlertRulesProofs --------------------------
(***************************************************************************)
(* Theorems about AlertRules, for any set of rules, configurations,        *)
(* evaluator jobs and edits in progress.                                   *)
(***************************************************************************)
EXTENDS AlertRules, WellFoundedInduction, TLAPS

(* The parts of the inductive invariant besides the type. *)

\* A job about to write is at a rule of its snapshot.
WritesARule == \A v \in Evaluators : pc[v] = "write" => todo[v] # {}

\* Events belong to evaluation epochs that have begun, so a reset leaves no
\* event of the new epoch behind.
EventsAreNotAhead ==
    \A r \in Rules : \A i \in DOMAIN events[r] : events[r][i].epoch <= epoch[r]

\* Only a rule that is there has events (foreign key, cascade).
EventsHaveTheirRule == \A r \in Rules : ~Live(r) => events[r] = <<>>

RulesInv ==
    /\ EventsAreNotAhead
    /\ EventsHaveTheirRule
    /\ EventsAlternate
    /\ StateMatchesHistory
    /\ EventMatchesReport

-----------------------------------------------------------------------------

\* The loop of Evaluate always has a next rule: a set of rule numbers that is
\* not empty has a least one.
LEMMA LeastRule ==
    ASSUME NEW T, T \subseteq Nat, T # {}
    PROVE  \E r \in T : \A q \in T : r <= q
<1> DEFINE Less == {ss \in Nat \X Nat : ss[1] < ss[2]}
<1>1. IsWellFoundedOn(Less, Nat)
  BY NatLessThanWellFounded, Zenon DEF OpToRel
<1>2. PICK r \in T : \A q \in T : ~(<<q, r>> \in Less)
  BY <1>1, WFMin
<1>3. ASSUME NEW q \in T PROVE ~(q < r)
  <2>1. <<q, r>> \in Nat \X Nat
    OBVIOUS
  <2>2. ~(<<q, r>> \in Less)
    BY <1>2
  <2> QED
    BY <2>1, <2>2
<1>4. \A q \in T : r <= q
  BY <1>3
<1> QED
  BY <1>4

\* The rule an evaluator is at is one of its snapshot.
LEMMA CurrentIsListed ==
    ASSUME TypeOK, NEW v \in Evaluators, todo[v] # {}
    PROVE  Current(v) \in todo[v] /\ Current(v) \in Rules
<1>1. todo[v] \subseteq Rules /\ todo[v] \subseteq Nat
  BY RulesAssumption DEF TypeOK
<1>2. \E r \in todo[v] : \A q \in todo[v] : r <= q
  BY <1>1, LeastRule
<1>3. Current(v) \in todo[v]
  BY <1>2 DEF Current
<1> QED
  BY <1>1, <1>3

\* The rows of alert_event are events.
LEMMA EventTyped ==
    ASSUME NEW s \in Seq(Event), NEW i \in DOMAIN s
    PROVE  /\ s[i] \in Event
           /\ s[i].kind \in {"opened", "resolved"} /\ s[i].epoch \in Nat
<1>1. s[i] \in Event
  OBVIOUS
<1> QED
  BY <1>1 DEF Event

\* What the loop's moving on does to the evaluators' own variables.
LEMMA AdvanceType ==
    ASSUME TypeOK, WritesARule, NEW v \in Evaluators, todo[v] # {}, Advance(v)
    PROVE  /\ pc' \in [Evaluators -> {"idle", "next", "write"}]
           /\ snap' \in [Evaluators -> [Rules -> Snapshot]]
           /\ todo' \in [Evaluators -> SUBSET Rules]
           /\ found' \in [Evaluators -> Verdict]
           /\ WritesARule'
BY DEF TypeOK, WritesARule, Advance, Verdict

\* The same at the end of a run.
LEMMA EndRunType ==
    ASSUME TypeOK, WritesARule, NEW v \in Evaluators, EndRun(v)
    PROVE  /\ pc' \in [Evaluators -> {"idle", "next", "write"}]
           /\ snap' \in [Evaluators -> [Rules -> Snapshot]]
           /\ todo' \in [Evaluators -> SUBSET Rules]
           /\ found' \in [Evaluators -> Verdict]
           /\ WritesARule'
<1>1. BlankSnapshot \in [Rules -> Snapshot]
  BY RulesAssumption DEF BlankSnapshot, Snapshot, RowState, AnyConfig
<1> QED
  BY <1>1 DEF TypeOK, WritesARule, EndRun, Verdict

\* TransitionAlertRule writes a row state and a well-formed event, or nothing.
LEMMA TransitionType ==
    ASSUME TypeOK, NEW v \in Evaluators, Current(v) \in Rules,
           NEW to \in RowState, NEW k \in {"opened", "resolved"}, Transition(v, to, k)
    PROVE  /\ state' \in [Rules -> RowState \cup {"absent", "deleted"}]
           /\ evaluated' \in [Rules -> BOOLEAN]
           /\ events' \in [Rules -> Seq(Event)]
<1> DEFINE r == Current(v)
           e == [kind |-> k, config |-> config[r], basis |-> snap[v][r].config,
                 epoch |-> epoch[r]]
<1>1. e \in Event
  BY DEF TypeOK, Event, Snapshot
<1>2. Append(events[r], e) \in Seq(Event)
  BY <1>1 DEF TypeOK
<1> HIDE DEF e
<1>3. events' \in [Rules -> Seq(Event)]
  BY <1>2 DEF TypeOK, Transition, e
<1>4. state' \in [Rules -> RowState \cup {"absent", "deleted"}]
  BY DEF TypeOK, Transition
<1>5. evaluated' \in [Rules -> BOOLEAN]
  BY Zenon DEF TypeOK, Transition
<1> QED
  BY <1>3, <1>4, <1>5

-----------------------------------------------------------------------------

\* Type correctness of the rules, their history and the evaluators; in
\* particular an evaluator that writes is at a rule of its snapshot.
THEOREM TypeCorrect == Spec => [](TypeOK /\ WritesARule)
<1> USE RulesAssumption
<1>1. Init => TypeOK /\ WritesARule
  <2> SUFFICES ASSUME Init PROVE TypeOK /\ WritesARule
    OBVIOUS
  <2>1. BlankSnapshot \in [Rules -> Snapshot] /\ AnyConfig \in Configs
    BY DEF BlankSnapshot, Snapshot, RowState, AnyConfig
  <2>2. WritesARule
    BY DEF Init, WritesARule
  <2>3. events \in [Rules -> Seq(Event)]
    BY DEF Init
  <2> QED
    BY <2>1, <2>2, <2>3 DEF Init, TypeOK, Verdict
<1>2. TypeOK /\ WritesARule /\ [Next]_vars => TypeOK' /\ WritesARule'
  <2> SUFFICES ASSUME TypeOK, WritesARule, [Next]_vars
               PROVE  TypeOK' /\ WritesARule'
    OBVIOUS
  <2> USE DEF rows, jobs, budget
  <2>1. ASSUME NEW r \in Rules, NEW c \in Configs, NEW on \in BOOLEAN, CreateRule(r, c, on)
        PROVE  TypeOK' /\ WritesARule'
    <3>1. enabled' \in [Rules -> BOOLEAN]
      BY <2>1, Zenon DEF CreateRule, TypeOK
    <3> QED
      BY <2>1, <3>1 DEF CreateRule, TypeOK, WritesARule, RowState
  <2>2. ASSUME NEW r \in Rules, NEW c \in Configs, NEW on \in BOOLEAN, NEW u \in Editors,
               ReadForUpdate(u, r, c, on)
        PROVE  TypeOK' /\ WritesARule'
    <3>1. EvaluationConfigChanged(r, c) \in BOOLEAN
      BY Zenon DEF EvaluationConfigChanged
    <3>2. edit' \in [Editors -> Edit \cup {NoEdit}]
      BY <2>2, <3>1, Zenon DEF ReadForUpdate, TypeOK, Edit
    <3> QED
      BY <2>2, <3>2 DEF ReadForUpdate, TypeOK, WritesARule
  <2>3. ASSUME NEW u \in Editors, UpdateAlertRule(u) PROVE TypeOK' /\ WritesARule'
    <3> DEFINE e == edit[u]
    <3>1. e \in Edit /\ e.rule \in Rules /\ e.config \in Configs /\ e.enabled \in BOOLEAN
      BY <2>3 DEF UpdateAlertRule, TypeOK, Edit
    <3>2. edit' \in [Editors -> Edit \cup {NoEdit}] /\ config' \in [Rules -> Configs]
      BY <2>3, <3>1 DEF UpdateAlertRule, TypeOK
    <3>3. enabled' \in [Rules -> BOOLEAN] /\ evaluated' \in [Rules -> BOOLEAN]
      BY <2>3, <3>1, Zenon DEF UpdateAlertRule, TypeOK
    <3>4. state' \in [Rules -> RowState \cup {"absent", "deleted"}]
      BY <2>3, <3>1 DEF UpdateAlertRule, TypeOK, StateAfterUpdate, RowState
    <3>5. epoch' \in [Rules -> Nat]
      BY <2>3, <3>1 DEF UpdateAlertRule, TypeOK
    <3> QED
      BY <2>3, <3>2, <3>3, <3>4, <3>5 DEF UpdateAlertRule, TypeOK, WritesARule
  <2>4. ASSUME NEW r \in Rules, DeleteAlertRule(r) PROVE TypeOK' /\ WritesARule'
    BY <2>4 DEF DeleteAlertRule, TypeOK, WritesARule
  <2>5. ASSUME NEW c \in Configs, ChangeVerdict(c) PROVE TypeOK' /\ WritesARule'
    BY <2>5 DEF ChangeVerdict, TypeOK, WritesARule
  <2>6. ASSUME NEW v \in Evaluators, ListEnabled(v) PROVE TypeOK' /\ WritesARule'
    <3> DEFINE on == {r \in Rules : Listed(r)}
               shot == [r \in Rules |-> IF r \in on
                                        THEN [state |-> state[r], config |-> config[r]]
                                        ELSE BlankSnapshot[r]]
    <3>1. BlankSnapshot \in [Rules -> Snapshot]
      BY DEF BlankSnapshot, Snapshot, RowState, AnyConfig
    <3>2. ASSUME NEW r \in on PROVE [state |-> state[r], config |-> config[r]] \in Snapshot
      BY DEF Listed, Live, Snapshot, TypeOK
    <3>3. shot \in [Rules -> Snapshot]
      BY <3>1, <3>2
    <3>4. snap' = [snap EXCEPT ![v] = shot] /\ todo' = [todo EXCEPT ![v] = on]
      BY <2>6 DEF ListEnabled
    <3> HIDE DEF on, shot
    <3>5. snap' \in [Evaluators -> [Rules -> Snapshot]]
      BY <3>3, <3>4 DEF TypeOK
    <3>6. todo' \in [Evaluators -> SUBSET Rules]
      BY <3>4 DEF TypeOK, on
    <3> QED
      BY <2>6, <3>4, <3>5, <3>6 DEF ListEnabled, TypeOK, WritesARule
  <2>7. ASSUME NEW v \in Evaluators, Report(v) PROVE TypeOK' /\ WritesARule'
    <3>1. Current(v) \in Rules
      BY <2>7, CurrentIsListed DEF Report
    <3>2. found' \in [Evaluators -> Verdict]
      <4>1. snap[v][Current(v)] \in Snapshot
        BY <3>1 DEF TypeOK
      <4>2. snap[v][Current(v)].config \in Configs
        BY <4>1 DEF Snapshot
      <4>3. verdict[snap[v][Current(v)].config] \in Verdict
        BY <4>2 DEF TypeOK
      <4> QED
        BY <2>7, <4>3, Zenon DEF Report, TypeOK
    <3>3. /\ pc' = [pc EXCEPT ![v] = "write"] /\ todo[v] # {}
          /\ UNCHANGED <<rows, events, epoch, verdict, snap, todo, edit, budget>>
      BY <2>7 DEF Report
    <3>4. TypeOK'
      BY <3>2, <3>3 DEF TypeOK, rows
    <3>5. WritesARule'
      BY <3>3 DEF TypeOK, WritesARule
    <3> QED
      BY <3>4, <3>5
  <2>8. ASSUME NEW v \in Evaluators, ReportError(v) PROVE TypeOK' /\ WritesARule'
    <3>1. todo[v] # {} /\ Advance(v)
      BY <2>8 DEF ReportError
    <3> QED
      <4>1. /\ pc' \in [Evaluators -> {"idle", "next", "write"}]
            /\ snap' \in [Evaluators -> [Rules -> Snapshot]]
            /\ todo' \in [Evaluators -> SUBSET Rules]
            /\ found' \in [Evaluators -> Verdict]
            /\ WritesARule'
        BY <3>1, AdvanceType, Zenon
      <4>2. /\ faults < MaxFaults /\ faults' = faults + 1
            /\ UNCHANGED <<rows, events, epoch, verdict, edit, edits, changes>>
        BY <2>8 DEF ReportError
      <4> QED
        BY <4>1, <4>2 DEF TypeOK, rows
  <2>9. ASSUME NEW v \in Evaluators, Open(v) PROVE TypeOK' /\ WritesARule'
    <3>1. todo[v] # {} /\ Advance(v)
      BY <2>9 DEF Open, WritesARule
    <3>2. Current(v) \in Rules
      BY <3>1, CurrentIsListed
    <3>3. /\ state' \in [Rules -> RowState \cup {"absent", "deleted"}]
          /\ evaluated' \in [Rules -> BOOLEAN]
          /\ events' \in [Rules -> Seq(Event)]
      BY <2>9, <3>2, TransitionType DEF Open, RowState
    <3> QED
      BY <2>9, <3>1, <3>3, AdvanceType DEF Open, TypeOK
  <2>10. ASSUME NEW v \in Evaluators, Resolve(v) PROVE TypeOK' /\ WritesARule'
    <3>1. todo[v] # {} /\ Advance(v)
      BY <2>10 DEF Resolve, WritesARule
    <3>2. Current(v) \in Rules
      BY <3>1, CurrentIsListed
    <3>3. /\ state' \in [Rules -> RowState \cup {"absent", "deleted"}]
          /\ evaluated' \in [Rules -> BOOLEAN]
          /\ events' \in [Rules -> Seq(Event)]
      BY <2>10, <3>2, TransitionType DEF Resolve, RowState
    <3> QED
      BY <2>10, <3>1, <3>3, AdvanceType DEF Resolve, TypeOK
  <2>11. ASSUME NEW v \in Evaluators, Touch(v) PROVE TypeOK' /\ WritesARule'
    <3>1. todo[v] # {} /\ Advance(v)
      BY <2>11 DEF Touch, WritesARule
    <3>2. evaluated' \in [Rules -> BOOLEAN]
      BY <2>11, Zenon DEF Touch, TypeOK
    <3> QED
      BY <2>11, <3>1, <3>2, AdvanceType DEF Touch, TypeOK
  <2>12. ASSUME NEW v \in Evaluators, Finish(v) PROVE TypeOK' /\ WritesARule'
    BY <2>12, EndRunType DEF Finish, TypeOK
  <2>13. ASSUME NEW v \in Evaluators, Die(v) PROVE TypeOK' /\ WritesARule'
    BY <2>13, EndRunType DEF Die, TypeOK
  <2>14. CASE UNCHANGED vars
    BY <2>14 DEF vars, TypeOK, WritesARule
  <2> QED
    BY <2>1, <2>2, <2>3, <2>4, <2>5, <2>6, <2>7, <2>8, <2>9, <2>10, <2>11, <2>12,
       <2>13, <2>14 DEF Next, Edits, Evaluate
<1> QED
  BY <1>1, <1>2, PTL DEF Spec

-----------------------------------------------------------------------------

\* An event that TransitionAlertRule records continues the rule's history: it
\* opens a rule that is inactive, or resolves one that is open, in the epoch
\* the rule is in.
LEMMA TransitionKeepsHistory ==
    ASSUME TypeOK, RulesInv, NEW v \in Evaluators, Current(v) \in Rules,
           NEW from \in RowState, NEW to \in RowState, NEW k \in {"opened", "resolved"},
           snap[v][Current(v)].state = from,
           \/ from = "inactive" /\ to = "open" /\ k = "opened"
           \/ from = "open" /\ to = "inactive" /\ k = "resolved",
           Transition(v, to, k), UNCHANGED epoch
    PROVE  RulesInv'
<1> DEFINE r == Current(v)
           e == [kind |-> k, config |-> config[r], basis |-> snap[v][r].config,
                 epoch |-> epoch[r]]
           old == events[r]
<1>1. CASE ~MatchesSnapshot(v, r)
  BY <1>1 DEF Transition, RulesInv, EventsAreNotAhead, EventsHaveTheirRule,
              EventsAlternate, StateMatchesHistory, EventMatchesReport, Live
<1>2. CASE MatchesSnapshot(v, r)
  <2>1. state[r] = from /\ config[r] = snap[v][r].config
    BY <1>2 DEF MatchesSnapshot
  <2>2. /\ state' = [state EXCEPT ![r] = to]
        /\ events' = [events EXCEPT ![r] = Append(old, e)]
    BY <1>2 DEF Transition
  <2>3. e \in Event /\ old \in Seq(Event)
    BY DEF TypeOK, Event, Snapshot
  <2>4. /\ e.kind = k /\ e.epoch = epoch[r] /\ e.config = e.basis
    BY <2>1
  <2> HIDE DEF e
  <2>5. /\ Len(Append(old, e)) = Len(old) + 1
        /\ DOMAIN Append(old, e) = 1..(Len(old) + 1)
        /\ \A i \in 1..Len(old) : Append(old, e)[i] = old[i]
        /\ Append(old, e)[Len(old) + 1] = e
        /\ Append(old, e) # <<>>
        /\ Len(old) \in Nat /\ DOMAIN old = 1..Len(old)
    BY <2>3
  <2>6. /\ events'[r] = Append(old, e)
        /\ \A q \in Rules \ {r} : events'[q] = events[q] /\ state'[q] = state[q]
        /\ state'[r] = to
    BY <2>2 DEF TypeOK
  <2> HIDE DEF old, r
  <2>7. from = "open" <=> (old # <<>> /\ old[Len(old)].kind = "opened"
                                       /\ old[Len(old)].epoch = epoch[r])
    BY <2>1 DEF RulesInv, StateMatchesHistory, Live, old, r
  <2>8. EventsAreNotAhead'
    <3>1. \A i \in 1..(Len(old) + 1) : Append(old, e)[i].epoch <= epoch[r]
      <4>1. \A i \in 1..Len(old) : old[i].epoch <= epoch[r]
        BY <2>5 DEF RulesInv, EventsAreNotAhead, old, r
      <4>2. epoch[r] \in Nat
        BY DEF TypeOK, r
      <4> QED
        BY <2>4, <2>5, <4>1, <4>2
    <3> QED
      BY <2>5, <2>6, <3>1 DEF RulesInv, EventsAreNotAhead
  <2>9. EventsHaveTheirRule'
    BY <2>6 DEF RulesInv, EventsHaveTheirRule, Live
  <2>10. EventsAlternate'
    <3> DEFINE s == Append(old, e)
               Starts(t, i) == i = 1 \/ t[i - 1].epoch # t[i].epoch
               Alternates(t, i) == t[i].kind = "opened" <=>
                                     (Starts(t, i) \/ t[i - 1].kind = "resolved")
    <3>1. ASSUME NEW i \in 1..Len(old) PROVE Alternates(old, i)
      <4>1. i \in DOMAIN events[Current(v)]
        BY <2>5 DEF old, r
      <4> QED
        BY <4>1 DEF RulesInv, EventsAlternate, old, r
    <3>2. \A i \in 1..Len(old) : Alternates(s, i)
      <4> SUFFICES ASSUME NEW i \in 1..Len(old) PROVE Alternates(s, i)
        OBVIOUS
      <4>1. s[i] = old[i] /\ (i # 1 => s[i - 1] = old[i - 1])
        BY <2>5
      <4> QED
        BY <3>1, <4>1
    <3>3. Alternates(s, Len(old) + 1)
      <4>1. CASE old = <<>>
        <5>1. Len(old) = 0 /\ k = "opened"
          BY <2>7, <4>1
        <5> QED
          BY <2>4, <2>5, <5>1
      <4>2. CASE old # <<>>
        <5>1. Len(old) \in 1..Len(old) /\ (Len(old) + 1) - 1 = Len(old) /\ Len(old) + 1 # 1
          BY <2>3, <4>2
        <5>2. s[(Len(old) + 1) - 1] = old[Len(old)] /\ s[Len(old) + 1] = e
          BY <2>5, <5>1
        <5>3. old[Len(old)].kind \in {"opened", "resolved"}
          BY <2>3, <2>5, <5>1, EventTyped
        <5>4. k = "opened" <=> (old[Len(old)].epoch # epoch[r] \/ old[Len(old)].kind = "resolved")
          BY <2>7, <4>2, <5>3
        <5> HIDE DEF s
        <5> QED
          BY <2>4, <5>1, <5>2, <5>4
      <4> QED
        BY <4>1, <4>2
    <3>4. \A i \in DOMAIN s : Alternates(s, i)
      <4> HIDE DEF Alternates
      <4> QED
        BY <2>5, <3>2, <3>3
    <3>5. \A q \in Rules : \A i \in DOMAIN events'[q] : Alternates(events'[q], i)
      <4>1. CASE r \in Rules
        <5> SUFFICES ASSUME NEW q \in Rules, NEW i \in DOMAIN events'[q]
                     PROVE  Alternates(events'[q], i)
          OBVIOUS
        <5>1. CASE q = r
          <6> HIDE DEF Alternates
          <6> QED
            BY <2>6, <3>4, <5>1
        <5>2. CASE q # r
          BY <2>6, <5>2 DEF RulesInv, EventsAlternate
        <5> QED
          BY <5>1, <5>2
      <4> QED
        BY <4>1 DEF r
    <3> QED
      BY <3>5 DEF EventsAlternate
  <2>11. StateMatchesHistory'
    <3>1. to = "open" <=> k = "opened"
      OBVIOUS
    <3> QED
      BY <2>4, <2>5, <2>6, <3>1 DEF RulesInv, StateMatchesHistory, Live
  <2>12. EventMatchesReport'
    <3>1. \A i \in 1..(Len(old) + 1) : Append(old, e)[i].config = Append(old, e)[i].basis
      BY <2>4, <2>5 DEF RulesInv, EventMatchesReport, old, r
    <3> QED
      BY <2>5, <2>6, <3>1 DEF RulesInv, EventMatchesReport
  <2> QED
    BY <2>8, <2>9, <2>10, <2>11, <2>12 DEF RulesInv
<1> QED
  BY <1>1, <1>2

\* Every rule's history is sound and every event is the outcome of a report on
\* the configuration it is recorded for, whatever evaluators, edits and deaths
\* interleave.
THEOREM RulesInvariant == Spec => []RulesInv
<1> USE RulesAssumption
<1>1. Init => RulesInv
  BY DEF Init, RulesInv, EventsAreNotAhead, EventsHaveTheirRule, EventsAlternate,
         StateMatchesHistory, EventMatchesReport, Live, RowState
<1>2. TypeOK /\ WritesARule /\ RulesInv /\ [Next]_vars => RulesInv'
  <2> SUFFICES ASSUME TypeOK, WritesARule, RulesInv, [Next]_vars PROVE RulesInv'
    OBVIOUS
  <2> USE DEF rows, jobs, budget
  <2>1. CASE UNCHANGED <<state, events, epoch>>
    BY <2>1 DEF RulesInv, EventsAreNotAhead, EventsHaveTheirRule, EventsAlternate,
                StateMatchesHistory, EventMatchesReport, Live
  <2>2. ASSUME NEW r \in Rules, NEW c \in Configs, NEW on \in BOOLEAN, CreateRule(r, c, on)
        PROVE  RulesInv'
    <3>1. events[r] = <<>> /\ state' = [state EXCEPT ![r] = "inactive"]
                           /\ UNCHANGED <<events, epoch>>
      BY <2>2 DEF CreateRule, RulesInv, EventsHaveTheirRule, Live, RowState
    <3>2. state'[r] = "inactive" /\ \A q \in Rules \ {r} : state'[q] = state[q]
      BY <3>1 DEF TypeOK
    <3>3. EventsHaveTheirRule'
      BY <3>1, <3>2 DEF RulesInv, EventsHaveTheirRule, Live
    <3>4. StateMatchesHistory'
      <4> SUFFICES ASSUME NEW q \in Rules, Live(q)'
                   PROVE  state'[q] = "open" <=>
                            /\ events[q] # <<>>
                            /\ events[q][Len(events[q])].kind = "opened"
                            /\ events[q][Len(events[q])].epoch = epoch[q]
        BY <3>1 DEF StateMatchesHistory
      <4>1. CASE q = r
        BY <3>1, <3>2, <4>1
      <4>2. CASE q # r
        BY <3>2, <4>2 DEF RulesInv, StateMatchesHistory, Live
      <4> QED
        BY <4>1, <4>2
    <3> QED
      BY <3>1, <3>3, <3>4 DEF RulesInv, EventsAreNotAhead, EventsAlternate, EventMatchesReport
  <2>3. ASSUME NEW u \in Editors, UpdateAlertRule(u) PROVE RulesInv'
    <3> DEFINE r == edit[u].rule
    <3>1. CASE ~Live(r)
      BY <2>1, <2>3, <3>1 DEF UpdateAlertRule
    <3>2. CASE Live(r) /\ ~edit[u].reset
      <4>1. UNCHANGED <<state, events, epoch>>
        BY <2>3, <3>2 DEF UpdateAlertRule, StateAfterUpdate, TypeOK
      <4> QED
        BY <2>1, <4>1
    <3>3. CASE Live(r) /\ edit[u].reset
      <4>1. r \in Rules
        BY <2>3 DEF UpdateAlertRule, TypeOK, Edit
      <4>2. /\ state' = [state EXCEPT ![r] = "inactive"]
            /\ epoch' = [epoch EXCEPT ![r] = epoch[r] + 1]
            /\ UNCHANGED events
        BY <2>3, <3>3 DEF UpdateAlertRule, StateAfterUpdate
      <4>3. /\ state'[r] = "inactive" /\ epoch'[r] = epoch[r] + 1
            /\ \A q \in Rules \ {r} : state'[q] = state[q] /\ epoch'[q] = epoch[q]
            /\ epoch[r] \in Nat
        BY <4>1, <4>2 DEF TypeOK
      <4>4. \A i \in DOMAIN events[r] : events[r][i].epoch \in Nat
                                        /\ events[r][i].epoch <= epoch[r]
        BY <4>1, EventTyped DEF RulesInv, EventsAreNotAhead, TypeOK
      <4> HIDE DEF r
      <4>5. EventsAreNotAhead'
        <5>1. ASSUME NEW q \in Rules, NEW i \in DOMAIN events[q] PROVE events[q][i].epoch <= epoch'[q]
          <6>1. CASE q = r
            <7>1. PICK n \in Nat : n = events[r][i].epoch /\ n <= epoch[r]
              BY <4>4, <5>1, <6>1
            <7> QED
              BY <4>3, <6>1, <7>1
          <6>2. CASE q # r
            BY <4>3, <5>1, <6>2 DEF RulesInv, EventsAreNotAhead
          <6> QED
            BY <6>1, <6>2
        <5> QED
          BY <4>2, <5>1 DEF EventsAreNotAhead
      <4>6. EventsHaveTheirRule'
        BY <3>3, <4>1, <4>2, <4>3 DEF RulesInv, EventsHaveTheirRule, Live, RowState
      <4>7. StateMatchesHistory'
        <5>1. events[r] # <<>> => Len(events[r]) \in DOMAIN events[r]
          BY <4>1 DEF TypeOK
        <5>2. events[r] # <<>> => events[r][Len(events[r])].epoch # epoch[r] + 1
          BY <4>3, <4>4, <5>1
        <5> QED
          BY <4>1, <4>2, <4>3, <5>2 DEF RulesInv, StateMatchesHistory, Live
      <4> QED
        BY <4>2, <4>5, <4>6, <4>7 DEF RulesInv, EventsAlternate, EventMatchesReport
    <3> QED
      BY <3>1, <3>2, <3>3
  <2>4. ASSUME NEW r \in Rules, DeleteAlertRule(r) PROVE RulesInv'
    <3>1. /\ state'[r] = "deleted" /\ events'[r] = <<>> /\ UNCHANGED epoch
          /\ \A q \in Rules \ {r} : state'[q] = state[q] /\ events'[q] = events[q]
      BY <2>4 DEF DeleteAlertRule, TypeOK
    <3>2. ASSUME NEW q \in Rules, NEW i \in DOMAIN events'[q]
          PROVE  q \in Rules \ {r} /\ events'[q] = events[q]
      <4>1. DOMAIN <<>> = {}
        OBVIOUS
      <4> QED
        BY <3>1, <4>1, Zenon
    <3>3. EventsAreNotAhead'
      BY <3>2, <3>1, Zenon DEF RulesInv, EventsAreNotAhead
    <3>4. EventsHaveTheirRule'
      <4>1. ASSUME NEW q \in Rules, ~Live(q)' PROVE events'[q] = <<>>
        BY <3>1, <4>1 DEF RulesInv, EventsHaveTheirRule, Live
      <4> QED
        BY <4>1 DEF EventsHaveTheirRule
    <3>5. EventsAlternate' /\ EventMatchesReport'
      <4>1. EventMatchesReport'
        BY <3>2, Zenon DEF RulesInv, EventMatchesReport
      <4>2. ASSUME NEW q \in Rules, NEW i \in DOMAIN events'[q]
            PROVE  events'[q][i].kind = "opened" <=>
                      ((i = 1 \/ events'[q][i - 1].epoch # events'[q][i].epoch)
                         \/ events'[q][i - 1].kind = "resolved")
        <5>1. events'[q] = events[q] /\ i \in DOMAIN events[q]
          BY <3>2, <4>2, Zenon
        <5>2. events[q][i].kind = "opened" <=>
                 ((i = 1 \/ events[q][i - 1].epoch # events[q][i].epoch)
                    \/ events[q][i - 1].kind = "resolved")
          BY <5>1, Zenon DEF RulesInv, EventsAlternate
        <5> QED
          BY <5>1, <5>2
      <4>3. EventsAlternate'
        BY <4>2, Zenon DEF EventsAlternate
      <4> QED
        BY <4>1, <4>3
    <3>6. StateMatchesHistory'
      BY <3>1 DEF RulesInv, StateMatchesHistory, Live, RowState
    <3> QED
      BY <3>3, <3>5, <3>6, <3>4 DEF RulesInv
  <2>5. ASSUME NEW v \in Evaluators, Open(v) PROVE RulesInv'
    <3>1. Current(v) \in Rules
      BY <2>5, CurrentIsListed DEF Open, WritesARule
    <3>2. /\ snap[v][Current(v)].state = "inactive"
          /\ Transition(v, "open", "opened") /\ UNCHANGED epoch
      BY <2>5 DEF Open
    <3> QED
      BY <3>1, <3>2, TransitionKeepsHistory DEF RowState
  <2>6. ASSUME NEW v \in Evaluators, Resolve(v) PROVE RulesInv'
    <3>1. Current(v) \in Rules
      BY <2>6, CurrentIsListed DEF Resolve, WritesARule
    <3>2. /\ snap[v][Current(v)].state = "open"
          /\ Transition(v, "inactive", "resolved") /\ UNCHANGED epoch
      BY <2>6 DEF Resolve
    <3> QED
      BY <3>1, <3>2, TransitionKeepsHistory DEF RowState
  <2>7. ASSUME NEW v \in Evaluators,
               ListEnabled(v) \/ Report(v) \/ Touch(v) \/ Finish(v) \/ ReportError(v) \/ Die(v)
        PROVE  RulesInv'
    BY <2>1, <2>7 DEF ListEnabled, Report, Touch, Finish, ReportError, Die
  <2>8. ASSUME NEW r \in Rules, NEW c \in Configs, NEW on \in BOOLEAN, NEW u \in Editors,
               ReadForUpdate(u, r, c, on)
        PROVE  RulesInv'
    BY <2>1, <2>8 DEF ReadForUpdate
  <2>9. ASSUME NEW c \in Configs, ChangeVerdict(c) PROVE RulesInv'
    BY <2>1, <2>9 DEF ChangeVerdict
  <2>10. CASE UNCHANGED vars
    BY <2>1, <2>10 DEF vars
  <2> QED
    BY <2>2, <2>3, <2>4, <2>5, <2>6, <2>7, <2>8, <2>9, <2>10 DEF Next, Edits, Evaluate
<1> QED
  BY <1>1, <1>2, TypeCorrect, PTL DEF Spec

\* A rule and its event history never part (TransitionAlertRule's
\* compare-and-set), for any number of overlapping evaluators and edits.
THEOREM HistoryIsSoundAlways == Spec => []HistoryIsSound
<1>1. RulesInv => HistoryIsSound
  BY DEF RulesInv, HistoryIsSound
<1> QED
  BY <1>1, RulesInvariant, PTL

\* An event is recorded only for the configuration its report was made with.
THEOREM EventMatchesReportAlways == Spec => []EventMatchesReport
<1>1. RulesInv => EventMatchesReport
  BY DEF RulesInv
<1> QED
  BY <1>1, RulesInvariant, PTL
=============================================================================
