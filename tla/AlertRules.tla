----------------------------- MODULE AlertRules -----------------------------
(***************************************************************************)
(* Alert rules: the evaluator (internal/service/alerts.go) that opens and  *)
(* resolves them, the HTTP handlers (internal/api/alerts.go) that edit     *)
(* them, and the alert_rule and alert_event tables they share.             *)
(*                                                                         *)
(* Evaluator jobs overlap each other and the edits.  Evaluate works on a   *)
(* snapshot of the rules; what it writes is one conditional statement.  A  *)
(* PUT reads the rule, decides from that read whether to reset the         *)
(* evaluation, and writes in a second statement.                           *)
(***************************************************************************)
EXTENDS Naturals, Sequences

CONSTANTS
    Rules,        \* alert_rule ids, numbered in (created_at, id) order
    Configs,      \* (repository, baseline, threshold, threshold_z, run_reason)
    Evaluators,   \* `conbench admin alerts evaluate` jobs
    Editors,      \* PUT /api/alert-rules/{id} requests in progress
    MaxEdits,     \* bound: PUT requests
    MaxChanges,   \* bound: changes of what the CI report says
    MaxFaults     \* bound: failed reports and dead jobs

ASSUME RulesAssumption ==
    /\ Rules \subseteq Nat /\ Configs # {}
    /\ MaxEdits \in Nat /\ MaxChanges \in Nat /\ MaxFaults \in Nat

VARIABLES
    state,      \* [Rules -> "absent" | alert_rule.state | "deleted"]
    config,     \* the evaluation columns of alert_rule
    enabled,    \* alert_rule.enabled
    evaluated,  \* alert_rule.last_evaluated_at is not NULL
    events,     \* [Rules -> Seq(Event)]: alert_event rows, oldest first
    epoch,      \* resets of the evaluation so far (not read by the code)
    verdict,    \* [Configs -> Verdict]: what the CI report would say now
    pc,         \* where each evaluator is
    snap,       \* its snapshot of the rules: [Rules -> [state, config]]
    todo,       \* the snapshot's rules it has still to evaluate
    found,      \* the report's verdict on the rule it is evaluating
    edit,       \* the PUT each editor is between reading and writing, or none
    edits, changes, faults

rows == <<state, config, enabled, evaluated>>
jobs == <<pc, snap, todo, found>>
budget == <<edits, changes, faults>>
vars == <<state, config, enabled, evaluated, events, epoch, verdict,
          pc, snap, todo, found, edit, edits, changes, faults>>

\* "undecided": no candidate run, or a report that is skipped or
\* action_required, or whose rows all begin a distribution change.
Verdict == {"failure", "success", "undecided"}
RowState == {"inactive", "open"}
Live(r) == state[r] \in RowState

Event == [kind : {"opened", "resolved"}, config : Configs, basis : Configs,
          epoch : Nat]
NoEdit == <<>>
Edit == [rule : Rules, config : Configs, enabled : BOOLEAN, reset : BOOLEAN]
Snapshot == [state : RowState, config : Configs]
AnyConfig == CHOOSE c \in Configs : TRUE

TypeOK ==
    /\ state \in [Rules -> RowState \cup {"absent", "deleted"}]
    /\ config \in [Rules -> Configs]
    /\ enabled \in [Rules -> BOOLEAN]
    /\ evaluated \in [Rules -> BOOLEAN]
    /\ events \in [Rules -> Seq(Event)]
    /\ epoch \in [Rules -> Nat]
    /\ verdict \in [Configs -> Verdict]
    /\ pc \in [Evaluators -> {"idle", "next", "write"}]
    /\ snap \in [Evaluators -> [Rules -> Snapshot]]
    /\ todo \in [Evaluators -> SUBSET Rules]
    /\ found \in [Evaluators -> Verdict]
    /\ edit \in [Editors -> Edit \cup {NoEdit}]
    /\ edits \in 0..MaxEdits /\ changes \in 0..MaxChanges /\ faults \in 0..MaxFaults

BlankSnapshot == [r \in Rules |-> [state |-> "inactive", config |-> AnyConfig]]

Init ==
    /\ state = [r \in Rules |-> "absent"]
    /\ config = [r \in Rules |-> AnyConfig]
    /\ enabled = [r \in Rules |-> FALSE]
    /\ evaluated = [r \in Rules |-> FALSE]
    /\ events = [r \in Rules |-> <<>>]
    /\ epoch = [r \in Rules |-> 0]
    /\ verdict \in [Configs -> Verdict]
    /\ pc = [v \in Evaluators |-> "idle"]
    /\ snap = [v \in Evaluators |-> BlankSnapshot]
    /\ todo = [v \in Evaluators |-> {}]
    /\ found = [v \in Evaluators |-> "undecided"]
    /\ edit = [u \in Editors |-> NoEdit]
    /\ edits = 0 /\ changes = 0 /\ faults = 0

-----------------------------------------------------------------------------
(* The API handlers. *)

\* POST /api/alert-rules: rules are numbered in the order of creation.
CreateRule(r, c, on) ==
    /\ state[r] = "absent"
    /\ \A q \in Rules : q < r => state[q] # "absent"
    /\ state' = [state EXCEPT ![r] = "inactive"]
    /\ config' = [config EXCEPT ![r] = c]
    /\ enabled' = [enabled EXCEPT ![r] = on]
    /\ UNCHANGED <<evaluated, events, epoch, verdict, jobs, edit, budget>>

\* alertRuleEvaluationConfigChanged, on the row that the handler has read.
EvaluationConfigChanged(r, c) == config[r] # c

\* First half of PUT: read the rule (a missing one is 404) and compare it
\* with the body.
ReadForUpdate(u, r, c, on) ==
    /\ edit[u] = NoEdit
    /\ edits < MaxEdits
    /\ edits' = edits + 1
    /\ Live(r)
    /\ edit' = [edit EXCEPT ![u] =
                  [rule |-> r, config |-> c, enabled |-> on,
                   reset |-> EvaluationConfigChanged(r, c)]]
    /\ UNCHANGED <<rows, events, epoch, verdict, jobs, changes, faults>>

\* Mutant: the update resets the evaluation time but not the state.
StateKept(r, reset) == state[r]

\* The CASE expression for state in UpdateAlertRule.
StateAfterUpdate(r, reset) == IF reset THEN "inactive" ELSE state[r]

\* Second half: the UPDATE, with the reset decided by the first half; a rule
\* deleted in between is 404.
UpdateAlertRule(u) ==
    LET e == edit[u]
        r == e.rule
    IN
    /\ e # NoEdit
    /\ edit' = [edit EXCEPT ![u] = NoEdit]
    /\ IF Live(r)
       THEN /\ config' = [config EXCEPT ![r] = e.config]
            /\ enabled' = [enabled EXCEPT ![r] = e.enabled]
            /\ state' = [state EXCEPT ![r] = StateAfterUpdate(r, e.reset)]
            /\ evaluated' = [evaluated EXCEPT ![r] = @ /\ ~e.reset]
            /\ epoch' = [epoch EXCEPT ![r] = IF e.reset THEN @ + 1 ELSE @]
       ELSE UNCHANGED <<rows, epoch>>
    /\ UNCHANGED <<events, verdict, jobs, budget>>

\* DELETE /api/alert-rules/{id}; the events go with the rule.
DeleteAlertRule(r) ==
    /\ Live(r)
    /\ state' = [state EXCEPT ![r] = "deleted"]
    /\ events' = [events EXCEPT ![r] = <<>>]
    /\ UNCHANGED <<config, enabled, evaluated, epoch, verdict, jobs, edit, budget>>

\* New results arrive: the report for a configuration changes.
ChangeVerdict(c) ==
    /\ changes < MaxChanges
    /\ changes' = changes + 1
    /\ \E w \in Verdict \ {verdict[c]} : verdict' = [verdict EXCEPT ![c] = w]
    /\ UNCHANGED <<rows, events, epoch, jobs, edit, edits, faults>>

-----------------------------------------------------------------------------
(* The evaluator. *)

\* Mutant: open rules are not evaluated any more.
ListedUntilOpen(r) == state[r] = "inactive" /\ enabled[r]

\* The WHERE clause of ListEnabledAlertRules.
Listed(r) == Live(r) /\ enabled[r]

\* ListEnabledAlertRules: the snapshot the whole run works on.
ListEnabled(v) ==
    LET on == {r \in Rules : Listed(r)} IN
    /\ pc[v] = "idle"
    /\ pc' = [pc EXCEPT ![v] = "next"]
    /\ todo' = [todo EXCEPT ![v] = on]
    /\ snap' = [snap EXCEPT ![v] =
                  [r \in Rules |-> IF r \in on
                                   THEN [state |-> state[r], config |-> config[r]]
                                   ELSE BlankSnapshot[r]]]
    /\ UNCHANGED <<rows, events, epoch, verdict, found, edit, budget>>

\* The rule the loop of Evaluate is at.
Current(v) == CHOOSE r \in todo[v] : \A q \in todo[v] : r <= q

\* SelectLatestAlertRun, Report and automatedAlertReport for the snapshot's
\* configuration.
Report(v) ==
    /\ pc[v] = "next"
    /\ todo[v] # {}
    /\ found' = [found EXCEPT ![v] = verdict[snap[v][Current(v)].config]]
    /\ pc' = [pc EXCEPT ![v] = "write"]
    /\ UNCHANGED <<rows, events, epoch, verdict, snap, todo, edit, budget>>

\* The loop moves on to the next rule.
Advance(v) ==
    /\ pc' = [pc EXCEPT ![v] = "next"]
    /\ todo' = [todo EXCEPT ![v] = @ \ {Current(v)}]
    /\ found' = [found EXCEPT ![v] = "undecided"]
    /\ UNCHANGED snap

\* A report that fails is counted, and the loop goes on with the next rule.
ReportError(v) ==
    /\ pc[v] = "next"
    /\ todo[v] # {}
    /\ faults < MaxFaults
    /\ faults' = faults + 1
    /\ Advance(v)
    /\ UNCHANGED <<rows, events, epoch, verdict, edit, edits, changes>>

\* Mutant: the conditional update does not compare the evaluation columns.
MatchesWithoutConfig(v, r) ==
    /\ enabled[r]
    /\ state[r] = snap[v][r].state

\* The WHERE clause that TransitionAlertRule and TouchAlertRuleEvaluation
\* share: the row is still the one the snapshot shows.
MatchesSnapshot(v, r) ==
    /\ enabled[r]
    /\ state[r] = snap[v][r].state
    /\ config[r] = snap[v][r].config

\* TransitionAlertRule: update the rule and insert the event, or neither.
\* No match reads the rule again; whether that finds it or not (the rule's
\* failure is counted), the loop goes on.
Transition(v, to, kind) ==
    LET r == Current(v) IN
    IF MatchesSnapshot(v, r)
    THEN /\ state' = [state EXCEPT ![r] = to]
         /\ evaluated' = [evaluated EXCEPT ![r] = TRUE]
         /\ events' = [events EXCEPT ![r] = Append(@,
                         [kind |-> kind, config |-> config[r],
                          basis |-> snap[v][r].config, epoch |-> epoch[r]])]
    ELSE UNCHANGED <<state, evaluated, events>>

\* openIfNeeded on a rule the snapshot shows inactive.
Open(v) ==
    /\ pc[v] = "write"
    /\ found[v] = "failure"
    /\ snap[v][Current(v)].state = "inactive"
    /\ Transition(v, "open", "opened")
    /\ Advance(v)
    /\ UNCHANGED <<config, enabled, epoch, verdict, edit, budget>>

\* resolveIfNeeded on a rule the snapshot shows open.
Resolve(v) ==
    /\ pc[v] = "write"
    /\ found[v] = "success"
    /\ snap[v][Current(v)].state = "open"
    /\ Transition(v, "inactive", "resolved")
    /\ Advance(v)
    /\ UNCHANGED <<config, enabled, epoch, verdict, edit, budget>>

\* Nothing to change: touchRule records the evaluation time only.
Touch(v) ==
    LET r == Current(v) IN
    /\ pc[v] = "write"
    /\ \/ found[v] = "undecided"
       \/ found[v] = "failure" /\ snap[v][r].state = "open"
       \/ found[v] = "success" /\ snap[v][r].state # "open"
    /\ evaluated' = [evaluated EXCEPT ![r] = @ \/ MatchesSnapshot(v, r)]
    /\ Advance(v)
    /\ UNCHANGED <<state, config, enabled, events, epoch, verdict, edit, budget>>

EndRun(v) ==
    /\ pc' = [pc EXCEPT ![v] = "idle"]
    /\ todo' = [todo EXCEPT ![v] = {}]
    /\ found' = [found EXCEPT ![v] = "undecided"]
    /\ snap' = [snap EXCEPT ![v] = BlankSnapshot]

Finish(v) ==
    /\ pc[v] = "next"
    /\ todo[v] = {}
    /\ EndRun(v)
    /\ UNCHANGED <<rows, events, epoch, verdict, edit, budget>>

\* The job dies between two statements.
Die(v) ==
    /\ pc[v] # "idle"
    /\ faults < MaxFaults
    /\ faults' = faults + 1
    /\ EndRun(v)
    /\ UNCHANGED <<rows, events, epoch, verdict, edit, edits, changes>>

Evaluate(v) ==
    \/ ListEnabled(v) \/ Report(v) \/ Open(v) \/ Resolve(v) \/ Touch(v)
    \/ Finish(v)

Edits ==
    \/ \E r \in Rules, c \in Configs, on \in BOOLEAN :
         \/ CreateRule(r, c, on)
         \/ \E u \in Editors : ReadForUpdate(u, r, c, on)
    \/ \E u \in Editors : UpdateAlertRule(u)
    \/ \E r \in Rules : DeleteAlertRule(r)

Next ==
    \/ Edits
    \/ \E c \in Configs : ChangeVerdict(c)
    \/ \E v \in Evaluators : Evaluate(v) \/ ReportError(v) \/ Die(v)

Spec == Init /\ [][Next]_vars

\* A scheduler keeps running the evaluator jobs, and a handler that has read
\* the rule goes on to write it.
Fairness ==
    /\ \A v \in Evaluators : WF_vars(Evaluate(v))
    /\ \A u \in Editors : WF_vars(UpdateAlertRule(u))

FairSpec == Spec /\ Fairness

-----------------------------------------------------------------------------
(* Properties. *)

\* Within one evaluation epoch (from creation or a reset to the next reset)
\* a rule's events alternate opened, resolved, opened, ...: overlapping
\* evaluators never record the same transition twice (TransitionAlertRule's
\* compare-and-set on state).
EventsAlternate ==
    \A r \in Rules : \A i \in DOMAIN events[r] :
        LET first == i = 1 \/ events[r][i - 1].epoch # events[r][i].epoch IN
        events[r][i].kind = "opened" <=>
            (first \/ events[r][i - 1].kind = "resolved")

\* A rule is open exactly when the latest event of its current epoch opened
\* it: state and history never part, whatever edits and evaluators
\* interleave.
StateMatchesHistory ==
    \A r \in Rules : Live(r) =>
        (state[r] = "open" <=>
            /\ events[r] # <<>>
            /\ events[r][Len(events[r])].kind = "opened"
            /\ events[r][Len(events[r])].epoch = epoch[r])

\* A rule and its event history never part: openings and resolutions alternate, and the
\* last of them is the state the rule is in.
HistoryIsSound == EventsAlternate /\ StateMatchesHistory

\* An event is recorded only for the configuration its report was made with:
\* an edit between the report and the write voids the write (the evaluation
\* columns in TransitionAlertRule's WHERE clause).
EventMatchesReport ==
    \A r \in Rules : \A i \in DOMAIN events[r] :
        events[r][i].config = events[r][i].basis

\* Once edits, new results and faults stop, every enabled rule ends up, and
\* stays, in the state its report calls for: no stale snapshot of an
\* overlapping evaluator sticks.
RulesConverge ==
    \A r \in Rules :
        <>[](Live(r) /\ enabled[r] =>
               /\ verdict[config[r]] = "failure" => state[r] = "open"
               /\ verdict[config[r]] = "success" => state[r] = "inactive")

\* storage.go: "ResetEvaluation clears stale state when the selector or
\* thresholds change": an open rule was opened under the configuration it
\* now has.
OpenedUnderThisConfig ==
    \A r \in Rules : state[r] = "open" =>
        events[r] # <<>> /\ events[r][Len(events[r])].config = config[r]
=============================================================================
