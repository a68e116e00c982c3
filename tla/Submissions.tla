---------------------------- MODULE Submissions ----------------------------
(***************************************************************************)
(* Result submission: Ingester.Submit and DeleteResult                     *)
(* (internal/service/ingest.go, update.go) over the store's get-or-create  *)
(* helpers and the submission-key index (internal/db/store.go).            *)
(*                                                                         *)
(* Submit runs as a sequence of separate statements on the shared tables,  *)
(* so concurrent requests, retries of one request and requests cut short   *)
(* interleave between any two of them.                                     *)
(***************************************************************************)
EXTENDS Naturals, FiniteSets

CONSTANTS
    Requests,      \* server-side requests in progress
    Keys, NoKey,   \* submission keys; NoKey: the field is empty
    Payloads,      \* canonical payloads (equal hash: equal payload)
    Valid,         \* the payloads that pass validation
    NaturalKey,    \* [Payloads -> [Kinds -> natural key]]
    NoSha,         \* commit "key" of a payload without a commit sha
    Hash,          \* [Payloads -> hardware hash]
    RepoURL,       \* [Payloads -> normalized repository]
    UniqueKinds,   \* entity kinds whose table has a unique index
    MaxFaults      \* bound: DELETE requests and requests cut short

\* The entities Submit gets or creates, in this order.
Kinds == {"case", "context", "info", "hardware", "commit"}

After(k) == CASE k = "case" -> "context"  [] k = "context" -> "info"
              [] k = "info" -> "hardware" [] k = "hardware" -> "commit"

ASSUME SubmissionsAssumption ==
    /\ NoKey \notin Keys
    /\ Valid \subseteq Payloads
    /\ {"case", "context", "commit"} \subseteq UniqueKinds
    /\ UniqueKinds \subseteq Kinds
    /\ MaxFaults \in Nat

VARIABLES
    table,     \* [Kinds -> set of [id, key]]: the entity tables
    results,   \* benchmark_result rows: [id, key, payload, fingerprint]
    lastId,    \* ids given out so far
    pc,        \* where each request is
    sub,       \* its [key, payload]
    kind,      \* the entity it is at
    refs,      \* the entity ids it has so far
    reply,     \* the id its client is answered with; NoRef: an error
    answers,   \* results returned to clients: [id, key, payload]
    conflicts, \* <<key, payload>> pairs answered with 409
    faults

server == <<table, results, lastId, pc, sub, kind, refs, reply, answers,
            conflicts, faults>>

Place == {"idle", "lookup", "validate", "select", "provider", "create",
          "insert", "reselect", "store", "reconcile"}
NoRef == 0
NoRefs == [k \in Kinds |-> NoRef]
Submission == [key : Keys \cup {NoKey}, payload : Payloads]
NoSubmission == <<>>
Fingerprint == [case : Nat \ {0}, context : Nat \ {0}, hash : {Hash[p] : p \in Payloads},
                repo : {RepoURL[p] : p \in Payloads}]
Row == [id : Nat \ {0}, key : {NaturalKey[p][k] : p \in Payloads, k \in Kinds}]
Result == [id : Nat \ {0}, key : Keys \cup {NoKey}, payload : Payloads,
           fingerprint : Fingerprint]

TypeOK ==
    /\ table \in [Kinds -> SUBSET Row]
    /\ results \subseteq Result
    /\ answers \subseteq [id : Nat \ {0}, key : Keys \cup {NoKey}, payload : Payloads]
    /\ lastId \in Nat
    /\ pc \in [Requests -> Place]
    /\ sub \in [Requests -> Submission \cup {NoSubmission}]
    /\ kind \in [Requests -> Kinds]
    /\ refs \in [Requests -> [Kinds -> Nat]]
    /\ reply \in [Requests -> Nat]
    /\ faults \in 0..MaxFaults

Init ==
    /\ table = [k \in Kinds |-> {}]
    /\ results = {}
    /\ lastId = 0
    /\ pc = [c \in Requests |-> "idle"]
    /\ sub = [c \in Requests |-> NoSubmission]
    /\ kind = [c \in Requests |-> "case"]
    /\ refs = [c \in Requests |-> NoRefs]
    /\ reply = [c \in Requests |-> NoRef]
    /\ answers = {}
    /\ conflicts = {}
    /\ faults = 0

-----------------------------------------------------------------------------

\* Submit begins.  A client that got no answer may send the same key and
\* payload again, so nothing ties a submission to one request.
Begin(c, key, payload) ==
    /\ pc[c] = "idle"
    /\ sub' = [sub EXCEPT ![c] = [key |-> key, payload |-> payload]]
    /\ pc' = [pc EXCEPT ![c] = IF key = NoKey THEN "validate" ELSE "lookup"]
    /\ UNCHANGED <<table, results, lastId, kind, refs, reply, answers, conflicts,
                   faults>>

\* Submit returns an id, or an error (NoRef); its locals are dead.
Return(c, id) ==
    /\ reply' = [reply EXCEPT ![c] = id]
    /\ pc' = [pc EXCEPT ![c] = "idle"]
    /\ sub' = [sub EXCEPT ![c] = NoSubmission]
    /\ kind' = [kind EXCEPT ![c] = "case"]
    /\ refs' = [refs EXCEPT ![c] = NoRefs]

\* GetBenchmarkResultBySubmissionKey.
StoredUnder(key) == {r \in results : r.key = key}

\* replaySubmission: the stored result, or 409 for other content.
ReplaySubmission(c, r) ==
    IF r.payload = sub[c].payload
    THEN /\ Return(c, r.id)
         /\ answers' = answers \cup {[id |-> r.id, key |-> r.key, payload |-> r.payload]}
         /\ UNCHANGED conflicts
    ELSE /\ Return(c, NoRef)
         /\ conflicts' = conflicts \cup {<<r.key, sub[c].payload>>}
         /\ UNCHANGED answers

\* The key is looked up before anything else is checked.
Lookup(c) ==
    /\ pc[c] = "lookup"
    /\ \/ /\ StoredUnder(sub[c].key) = {}
          /\ pc' = [pc EXCEPT ![c] = "validate"]
          /\ UNCHANGED <<sub, kind, refs, reply, answers, conflicts>>
       \/ \E r \in StoredUnder(sub[c].key) : ReplaySubmission(c, r)
    /\ UNCHANGED <<table, results, lastId, faults>>

\* validateHardware, error/stats presence, splitTags and resolveStats: an
\* invalid payload is answered 422 before any row is written.
Validate(c) ==
    /\ pc[c] = "validate"
    /\ IF sub[c].payload \in Valid
       THEN pc' = [pc EXCEPT ![c] = "select"] /\ UNCHANGED <<sub, kind, refs, reply>>
       ELSE Return(c, NoRef)
    /\ UNCHANGED <<table, results, lastId, answers, conflicts, faults>>

-----------------------------------------------------------------------------
(* get-or-create of one entity. *)

KeyFor(c) == NaturalKey[sub[c].payload][kind[c]]
Found(c) == {row \in table[kind[c]] : row.key = KeyFor(c)}

\* The entity is there: go on with the next one, or store the result.
Use(c, id) ==
    /\ refs' = [refs EXCEPT ![c][kind[c]] = id]
    /\ IF kind[c] = "commit"
       THEN pc' = [pc EXCEPT ![c] = "store"] /\ UNCHANGED kind
       ELSE /\ pc' = [pc EXCEPT ![c] = "select"]
            /\ kind' = [kind EXCEPT ![c] = After(kind[c])]

\* The first SELECT of getOrCreate, and GetCommitID for a commit.  A request
\* without a sha has no commit; a commit that is not stored goes to the
\* provider.
Select(c) ==
    /\ pc[c] = "select"
    /\ \/ /\ kind[c] = "commit" /\ KeyFor(c) = NoSha
          /\ Use(c, NoRef)
       \/ /\ KeyFor(c) # NoSha
          /\ \E row \in Found(c) : Use(c, row.id)
       \/ /\ KeyFor(c) # NoSha
          /\ Found(c) = {}
          /\ pc' = [pc EXCEPT ![c] = IF kind[c] = "commit" THEN "provider" ELSE "insert"]
          /\ UNCHANGED <<kind, refs>>
    /\ UNCHANGED <<table, results, lastId, sub, reply, answers, conflicts, faults>>

\* commits.Resolve returned the commit to store.
Provide(c) ==
    /\ pc[c] = "provider"
    /\ pc' = [pc EXCEPT ![c] = "create"]
    /\ UNCHANGED <<table, results, lastId, sub, kind, refs, reply, answers, conflicts, faults>>

\* GetOrCreateCommit selects again: the provider call may have been slow.
SelectAgain(c) ==
    /\ pc[c] = "create"
    /\ \/ \E row \in Found(c) : Use(c, row.id)
       \/ /\ Found(c) = {}
          /\ pc' = [pc EXCEPT ![c] = "insert"]
          /\ UNCHANGED <<kind, refs>>
    /\ UNCHANGED <<table, results, lastId, sub, reply, answers, conflicts, faults>>

\* Mutant: no table has a unique index to lose a race on.
NeverLost(c) == FALSE

\* INSERT ... ON CONFLICT DO NOTHING returns no row.
LostRace(c) == kind[c] \in UniqueKinds /\ Found(c) # {}

Insert(c) ==
    LET id == Cardinality(table[kind[c]]) + 1 IN
    /\ pc[c] = "insert"
    /\ IF LostRace(c)
       THEN pc' = [pc EXCEPT ![c] = "reselect"] /\ UNCHANGED <<table, kind, refs>>
       ELSE /\ table' = [table EXCEPT ![kind[c]] = @ \cup {[id |-> id, key |-> KeyFor(c)]}]
            /\ Use(c, id)
    /\ UNCHANGED <<results, lastId, sub, reply, answers, conflicts, faults>>

\* The row another request won the race with.
Reselect(c) ==
    /\ pc[c] = "reselect"
    /\ \E row \in Found(c) : Use(c, row.id)
    /\ UNCHANGED <<table, results, lastId, sub, reply, answers, conflicts, faults>>

-----------------------------------------------------------------------------

\* stats.HistoryFingerprint(caseID, contextID, hwHash, repoURL).
FingerprintOf(c) ==
    [case |-> refs[c]["case"], context |-> refs[c]["context"],
     hash |-> Hash[sub[c].payload], repo |-> RepoURL[sub[c].payload]]

\* Mutant: the submission key has no unique index.
NoIndex(key) == FALSE

\* benchmark_result_submission_key_index rejects the insert.
KeyTaken(key) == key # NoKey /\ StoredUnder(key) # {}

\* InsertBenchmarkResult; losing the race for the key is ErrConflict.
Store(c) ==
    LET s == sub[c]
        id == lastId + 1
    IN
    /\ pc[c] = "store"
    /\ IF KeyTaken(s.key)
       THEN /\ pc' = [pc EXCEPT ![c] = "reconcile"]
            /\ UNCHANGED <<results, lastId, sub, kind, refs, reply, answers>>
       ELSE /\ lastId' = id
            /\ results' = results \cup {[id |-> id, key |-> s.key, payload |-> s.payload,
                                         fingerprint |-> FingerprintOf(c)]}
            /\ answers' = answers \cup {[id |-> id, key |-> s.key, payload |-> s.payload]}
            /\ Return(c, id)
    /\ UNCHANGED <<table, conflicts, faults>>

\* After ErrConflict the winner is looked up and replayed; when it has been
\* deleted meanwhile the request fails.
Reconcile(c) ==
    /\ pc[c] = "reconcile"
    /\ \/ /\ StoredUnder(sub[c].key) = {}
          /\ Return(c, NoRef)
          /\ UNCHANGED <<answers, conflicts>>
       \/ \E r \in StoredUnder(sub[c].key) : ReplaySubmission(c, r)
    /\ UNCHANGED <<table, results, lastId, faults>>

\* A store call or the commit provider fails, or the server stops: Submit
\* returns an error and leaves the rows it has created.
Abort(c) ==
    /\ pc[c] # "idle"
    /\ faults < MaxFaults
    /\ faults' = faults + 1
    /\ Return(c, NoRef)
    /\ UNCHANGED <<table, results, lastId, answers, conflicts>>

\* DeleteResult: a hard delete, which frees the key.
DeleteResult(r) ==
    /\ faults < MaxFaults
    /\ faults' = faults + 1
    /\ results' = results \ {r}
    /\ UNCHANGED <<table, lastId, pc, sub, kind, refs, reply, answers, conflicts>>

Submit(c) ==
    \/ Lookup(c) \/ Validate(c) \/ Select(c) \/ Provide(c) \/ SelectAgain(c)
    \/ Insert(c) \/ Reselect(c) \/ Store(c) \/ Reconcile(c)

-----------------------------------------------------------------------------
(* Properties. *)

\* Two results in the same series (same case, context, hardware hash and
\* repository) carry the same history fingerprint even when concurrent
\* first submissions race to create the case and context rows: a series
\* never forks (getOrCreate's ON CONFLICT and re-select).
SeriesNeverForks ==
    \A r, q \in results :
        LET Series(x) == <<NaturalKey[x.payload]["case"], NaturalKey[x.payload]["context"],
                           Hash[x.payload], RepoURL[x.payload]>>
        IN  Series(r) = Series(q) => r.fingerprint = q.fingerprint

\* For keyed submissions the interleaved statements of Submit implement the
\* atomic store of IdempotentStore.
Keyed(rs) == {[key |-> r.key, content |-> r.payload, id |-> r.id] :
                 r \in {x \in rs : x.key # NoKey}}

Abstract == INSTANCE IdempotentStore WITH
    Key <- Keys, Content <- Payloads, Id <- Nat,
    kept <- Keyed(results), answered <- Keyed(answers), refused <- conflicts

\* The refinement of IdempotentStore.
ImplementsStore == Abstract!StoreSpec
=============================================================================
