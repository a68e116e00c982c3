------------------------- MODULE SubmitStreamProofs -------------------------
(***************************************************************************)
(* Theorems about Submissions and SubmitStream, for any number of requests *)
(* in progress, workers, files, keys and faults: the series do not fork,   *)
(* Submit implements the atomic IdempotentStore, every line of the report  *)
(* is its own result's, and the exit code is what happened. At the end, a  *)
(* theorem about the later changes of a stored result (Annotations).       *)
(***************************************************************************)
EXTENDS SubmitStream, Annotations, SequenceTheorems, FiniteSetTheorems, WellFoundedInduction, TLAPS

-----------------------------------------------------------------------------
(* The server. *)

\* The entity row of kind k that payload p gets, or got, has this id.
HasRow(k, p, id) == [id |-> id, key |-> NaturalKey[p][k]] \in table[k]

Busy(c) == pc[c] # "idle"

\* A request knows the rows of the entities it is past.
RequestOK(c) ==
    /\ Busy(c) => sub[c] \in Submission
    /\ pc[c] \in {"lookup", "reconcile"} => sub[c].key # NoKey
    /\ pc[c] \in {"idle", "lookup", "validate"} => kind[c] = "case"
    /\ pc[c] \in {"store", "reconcile"} => kind[c] = "commit"
    /\ Busy(c) /\ kind[c] # "case" => HasRow("case", sub[c].payload, refs[c]["case"])
    /\ Busy(c) /\ kind[c] \notin {"case", "context"} =>
          HasRow("context", sub[c].payload, refs[c]["context"])

\* The rows a stored result was made with are there for good.
ResultOK(r) ==
    /\ r.id <= lastId
    /\ HasRow("case", r.payload, r.fingerprint.case)
    /\ HasRow("context", r.payload, r.fingerprint.context)
    /\ r.fingerprint.hash = Hash[r.payload] /\ r.fingerprint.repo = RepoURL[r.payload]

\* ON CONFLICT: one row per natural key where the table has a unique index.
RowsAreUnique == \A k \in UniqueKinds : \A r, q \in table[k] : r.key = q.key => r = q

\* An id, and a submission key, is one result's.
ResultsAreUnique ==
    \A r, q \in results : r.id = q.id \/ (r.key = q.key /\ r.key # NoKey) => r = q

ServerInv ==
    /\ TypeOK
    /\ \A k \in Kinds : IsFiniteSet(table[k])
    /\ RowsAreUnique /\ ResultsAreUnique
    /\ \A r \in results : ResultOK(r)
    /\ \A a \in answers : a.id <= lastId
    /\ \A c \in Requests : RequestOK(c)

\* The invariant of the server holds at the start.
LEMMA ServerInit == Init => ServerInv
<1> SUFFICES ASSUME Init PROVE ServerInv
  OBVIOUS
<1>1. TypeOK
  BY SubmissionsAssumption DEF Init, TypeOK, Place, Kinds, NoRefs, NoRef
<1>2. \A k \in Kinds : IsFiniteSet(table[k])
  BY FS_EmptySet DEF Init
<1> QED
  BY <1>1, <1>2, SubmissionsAssumption DEF Init, ServerInv, RowsAreUnique, ResultsAreUnique, RequestOK, Busy

\* A request goes on while the tables only grow and the results stay: the other
\* requests do not notice.
LEMMA OneRequestMoves ==
    ASSUME ServerInv, NEW c \in Requests, RequestOK(c)', TypeOK',
           \A k \in Kinds : table[k] \subseteq table'[k] /\ IsFiniteSet(table'[k]),
           RowsAreUnique', UNCHANGED <<results, lastId>>,
           \A a \in answers' \ answers : a.id <= lastId,
           \A p \in Requests \ {c} : /\ pc'[p] = pc[p] /\ sub'[p] = sub[p]
                                     /\ kind'[p] = kind[p] /\ refs'[p] = refs[p]
    PROVE  ServerInv'
<1>1. ASSUME NEW p \in Requests \ {c} PROVE RequestOK(p)'
  BY DEF ServerInv, RequestOK, Busy, HasRow, Kinds
<1>2. ResultsAreUnique' /\ \A r \in results' : ResultOK(r)'
  BY DEF ServerInv, ResultsAreUnique, ResultOK, HasRow, Kinds
<1> QED
  BY <1>1, <1>2 DEF ServerInv

\* Submit returns to its client.
LEMMA RequestReturns ==
    ASSUME ServerInv, NEW c \in Requests, NEW id \in Nat, Return(c, id),
           UNCHANGED <<table, results, lastId>>, faults' \in 0..MaxFaults,
           answers' \subseteq [id : Nat \ {0}, key : Keys \cup {NoKey}, payload : Payloads],
           \A a \in answers' \ answers : a.id <= lastId
    PROVE  ServerInv'
<1>1. /\ pc'[c] = "idle" /\ kind'[c] = "case"
      /\ \A p \in Requests \ {c} : /\ pc'[p] = pc[p] /\ sub'[p] = sub[p]
                                   /\ kind'[p] = kind[p] /\ refs'[p] = refs[p]
  BY DEF ServerInv, TypeOK, Return
<1>2. TypeOK'
  BY DEF ServerInv, TypeOK, Return, Place, Kinds, NoRefs, NoRef
<1>3. RequestOK(c)'
  BY <1>1 DEF RequestOK, Busy
<1>4. RowsAreUnique' /\ \A k \in Kinds : table[k] \subseteq table'[k] /\ IsFiniteSet(table'[k])
  BY DEF ServerInv, RowsAreUnique
<1> QED
  BY <1>1, <1>2, <1>3, <1>4, OneRequestMoves

\* Submit goes on to its next statement.
LEMMA RequestGoesOn ==
    ASSUME ServerInv, NEW c \in Requests, NEW place \in Place, pc[c] # "idle",
           pc' = [pc EXCEPT ![c] = place],
           pc[c] \in {"lookup", "validate"} \/ place \notin {"idle", "lookup", "validate"},
           place \in {"store", "reconcile"} => kind[c] = "commit",
           place = "reconcile" => sub[c].key # NoKey, place # "lookup",
           UNCHANGED <<table, results, lastId, sub, kind, refs, reply, answers, faults>>
    PROVE  ServerInv'
<1>1. /\ pc'[c] = place
      /\ \A p \in Requests \ {c} : /\ pc'[p] = pc[p] /\ sub'[p] = sub[p]
                                   /\ kind'[p] = kind[p] /\ refs'[p] = refs[p]
  BY DEF ServerInv, TypeOK
<1>2. TypeOK'
  BY DEF ServerInv, TypeOK
<1>3. RequestOK(c)'
  BY <1>1 DEF ServerInv, RequestOK, Busy, HasRow
<1>4. RowsAreUnique' /\ \A k \in Kinds : table[k] \subseteq table'[k] /\ IsFiniteSet(table'[k])
  BY DEF ServerInv, RowsAreUnique
<1> QED
  BY <1>1, <1>2, <1>3, <1>4, OneRequestMoves

\* The entity's row is found or made, and Submit goes on with the next entity.
LEMMA RequestUsesARow ==
    ASSUME ServerInv, NEW c \in Requests, NEW id \in Nat, Use(c, id),
           pc[c] \notin {"idle", "lookup", "validate", "store", "reconcile"},
           kind[c] # "commit" => [id |-> id, key |-> KeyFor(c)] \in table'[kind[c]],
           table' \in [Kinds -> SUBSET Row],
           \A k \in Kinds : table[k] \subseteq table'[k] /\ IsFiniteSet(table'[k]),
           RowsAreUnique', UNCHANGED <<results, lastId, sub, reply, answers, faults>>
    PROVE  ServerInv'
<1> DEFINE next == IF kind[c] = "commit" THEN "commit" ELSE After(kind[c])
           place == IF kind[c] = "commit" THEN "store" ELSE "select"
<1>1. /\ After("case") = "context" /\ After("context") = "info"
      /\ After("info") = "hardware" /\ After("hardware") = "commit"
  BY Zenon DEF After
<1>2. kind[c] \in Kinds /\ next \in Kinds /\ next # "case" /\ (next = "context" => kind[c] = "case")
  BY <1>1 DEF ServerInv, TypeOK, Kinds
<1>3. /\ kind' = [kind EXCEPT ![c] = next] /\ pc' = [pc EXCEPT ![c] = place]
      /\ refs' = [refs EXCEPT ![c][kind[c]] = id]
  BY DEF Use, ServerInv, TypeOK
<1> HIDE DEF next
<1>4. /\ pc'[c] = place /\ kind'[c] = next /\ sub'[c] = sub[c]
      /\ \A k \in Kinds : refs'[c][k] = IF k = kind[c] THEN id ELSE refs[c][k]
      /\ \A p \in Requests \ {c} : /\ pc'[p] = pc[p] /\ sub'[p] = sub[p]
                                   /\ kind'[p] = kind[p] /\ refs'[p] = refs[p]
  BY <1>2, <1>3 DEF ServerInv, TypeOK
<1>5. TypeOK'
  BY <1>2, <1>3 DEF ServerInv, TypeOK, Place
<1>6. RequestOK(c)'
  <2>1. /\ RequestOK(c) /\ "case" \in Kinds /\ "context" \in Kinds
        /\ \A k \in {"case", "context"} : table[k] \subseteq table'[k]
    BY DEF ServerInv, Kinds
  <2>2. HasRow("case", sub[c].payload, refs[c]["case"])'
    BY <1>2, <1>4, <2>1 DEF RequestOK, Busy, HasRow, KeyFor
  <2>3. kind'[c] # "context" => HasRow("context", sub[c].payload, refs[c]["context"])'
    BY <1>1, <1>2, <1>4, <2>1 DEF RequestOK, Busy, HasRow, Kinds, KeyFor, next
  <2>4. (pc'[c] = "store" => kind'[c] = "commit") /\ pc'[c] \in {"store", "select"}
    BY <1>4 DEF next
  <2> QED
    BY <1>2, <1>4, <2>1, <2>2, <2>3, <2>4 DEF RequestOK, Busy
<1> QED
  BY <1>4, <1>5, <1>6, OneRequestMoves

\* What a step of the whole system is to the server: a statement of a request, a DELETE,
\* or at most a client that takes its answer or loses it.
Quiet ==
    /\ UNCHANGED <<table, results, lastId, pc, sub, kind, refs, answers, conflicts>>
    /\ reply' \in [Requests -> Nat] /\ faults' \in 0..MaxFaults

ServerNext ==
    \/ \E c \in Requests, s \in Submission : Begin(c, s.key, s.payload)
    \/ \E c \in Requests : Submit(c) \/ Abort(c)
    \/ \E r \in results : DeleteResult(r)
    \/ Quiet

\* The stored result, or 409.
LEMMA ReplayIsSafe ==
    ASSUME ServerInv, NEW c \in Requests, NEW r \in results, ReplaySubmission(c, r),
           UNCHANGED <<table, results, lastId, faults>>
    PROVE  ServerInv'
<1>1. r \in Result /\ r.id \in Nat \ {0} /\ r.id <= lastId /\ faults' \in 0..MaxFaults
  BY DEF ServerInv, TypeOK, ResultOK, Result
<1>2. CASE r.payload = sub[c].payload
  <2>1. Return(c, r.id) /\ answers' = answers \cup {[id |-> r.id, key |-> r.key, payload |-> r.payload]}
    BY <1>2 DEF ReplaySubmission
  <2>2. answers' \subseteq [id : Nat \ {0}, key : Keys \cup {NoKey}, payload : Payloads]
    BY <1>1, <2>1 DEF ServerInv, TypeOK, Result
  <2> QED
    BY <1>1, <2>1, <2>2, RequestReturns
<1>3. CASE r.payload # sub[c].payload
  <2>1. Return(c, NoRef) /\ UNCHANGED answers
    BY <1>3 DEF ReplaySubmission
  <2>2. answers' \subseteq [id : Nat \ {0}, key : Keys \cup {NoKey}, payload : Payloads] /\ NoRef \in Nat
    BY <2>1 DEF ServerInv, TypeOK, NoRef
  <2> QED
    BY <1>1, <2>1, <2>2, RequestReturns
<1> QED
  BY <1>2, <1>3

\* An error is returned and nothing is written.
LEMMA ErrorIsSafe ==
    ASSUME ServerInv, NEW c \in Requests, Return(c, NoRef),
           UNCHANGED <<table, results, lastId, answers>>, faults' \in 0..MaxFaults
    PROVE  ServerInv'
<1>1. answers' \subseteq [id : Nat \ {0}, key : Keys \cup {NoKey}, payload : Payloads] /\ NoRef \in Nat
  BY DEF ServerInv, TypeOK, NoRef
<1> QED
  BY <1>1, RequestReturns

\* A row that was found is the row of the request's payload.
LEMMA FoundIsSafe ==
    ASSUME ServerInv, NEW c \in Requests, NEW row \in Found(c), Use(c, row.id),
           pc[c] \in {"select", "create", "reselect"},
           UNCHANGED <<table, results, lastId, sub, reply, answers, faults>>
    PROVE  ServerInv'
<1>1. row \in table[kind[c]] /\ row.key = KeyFor(c) /\ kind[c] \in Kinds /\ table \in [Kinds -> SUBSET Row]
  BY DEF Found, ServerInv, TypeOK
<1>2. row \in Row /\ row.id \in Nat /\ row = [id |-> row.id, key |-> KeyFor(c)]
  BY <1>1 DEF Row
<1>3. RowsAreUnique' /\ \A k \in Kinds : table[k] \subseteq table'[k] /\ IsFiniteSet(table'[k])
  BY DEF ServerInv, RowsAreUnique
<1> QED
  BY <1>1, <1>2, <1>3, RequestUsesARow

\* The insert of a row that the result refers to keeps it.
LEMMA InsertIsSafe ==
    ASSUME ServerInv, NEW c \in Requests, Insert(c)
    PROVE  ServerInv'
<1> DEFINE id == Cardinality(table[kind[c]]) + 1
           row == [id |-> id, key |-> KeyFor(c)]
<1>1. kind[c] \in Kinds /\ pc[c] = "insert" /\ RequestOK(c) /\ sub[c].payload \in Payloads
  BY DEF ServerInv, TypeOK, Insert, RequestOK, Busy, Submission
<1>2. CASE LostRace(c)
  BY <1>1, <1>2, RequestGoesOn DEF Insert, Place
<1>3. CASE ~LostRace(c)
  <2>1. /\ table' = [table EXCEPT ![kind[c]] = @ \cup {row}] /\ Use(c, id)
        /\ UNCHANGED <<results, lastId, sub, reply, answers, faults>>
    BY <1>3 DEF Insert
  <2>2. id \in Nat \ {0} /\ row \in Row
    <3>1. Cardinality(table[kind[c]]) \in Nat
      BY <1>1, FS_CardinalityType DEF ServerInv
    <3> QED
      BY <1>1, <3>1 DEF Row, KeyFor
  <2> HIDE DEF id
  <2>3. /\ table' \in [Kinds -> SUBSET Row]
        /\ \A k \in Kinds : table'[k] = IF k = kind[c] THEN table[k] \cup {row} ELSE table[k]
    BY <1>1, <2>1, <2>2 DEF ServerInv, TypeOK
  <2>4. \A k \in Kinds : table[k] \subseteq table'[k] /\ IsFiniteSet(table'[k])
    <3>1. \A k \in Kinds : IsFiniteSet(table[k] \cup {row})
      BY FS_AddElement DEF ServerInv
    <3> QED
      BY <2>3, <3>1 DEF ServerInv
  <2>5. RowsAreUnique'
    BY <1>1, <1>3, <2>3, SubmissionsAssumption DEF ServerInv, RowsAreUnique, LostRace, Found
  <2> QED
    BY <1>1, <2>1, <2>2, <2>3, <2>4, <2>5, RequestUsesARow
<1> QED
  BY <1>2, <1>3

\* The insert of the result keeps it.
LEMMA StoreIsSafe ==
    ASSUME ServerInv, NEW c \in Requests, Store(c)
    PROVE  ServerInv'
<1> DEFINE id == lastId + 1
           r == [id |-> id, key |-> sub[c].key, payload |-> sub[c].payload,
                 fingerprint |-> FingerprintOf(c)]
           a == [id |-> id, key |-> sub[c].key, payload |-> sub[c].payload]
<1>1. /\ pc[c] = "store" /\ RequestOK(c) /\ kind[c] = "commit" /\ sub[c] \in Submission
      /\ sub[c].payload \in Payloads /\ sub[c].key \in Keys \cup {NoKey}
      /\ HasRow("case", sub[c].payload, refs[c]["case"])
      /\ HasRow("context", sub[c].payload, refs[c]["context"])
  BY DEF ServerInv, Store, RequestOK, Busy, Submission
<1>2. CASE KeyTaken(sub[c].key)
  BY <1>1, <1>2, RequestGoesOn DEF Store, Place, KeyTaken
<1>3. CASE ~KeyTaken(sub[c].key)
  <2>1. /\ lastId' = id /\ results' = results \cup {r} /\ answers' = answers \cup {a}
        /\ Return(c, id) /\ UNCHANGED <<table, faults>>
    BY <1>3 DEF Store
  <2>2. id \in Nat \ {0} /\ id > lastId /\ a.id = id
    BY DEF ServerInv, TypeOK
  <2>3. FingerprintOf(c) \in Fingerprint
    <3>1. refs[c]["case"] \in Nat \ {0} /\ refs[c]["context"] \in Nat \ {0}
      BY <1>1 DEF HasRow, ServerInv, TypeOK, Row, Kinds
    <3> QED
      BY <1>1, <3>1 DEF FingerprintOf, Fingerprint
  <2>4. r \in Result
    BY <1>1, <2>2, <2>3 DEF Result
  <2>5. ASSUME NEW q, q = r PROVE ResultOK(q)'
    BY <1>1, <2>1, <2>2, <2>5 DEF ResultOK, HasRow, FingerprintOf
  <2>6. /\ pc'[c] = "idle" /\ kind'[c] = "case"
        /\ \A p \in Requests \ {c} : /\ pc'[p] = pc[p] /\ sub'[p] = sub[p]
                                     /\ kind'[p] = kind[p] /\ refs'[p] = refs[p]
    BY <2>1 DEF ServerInv, TypeOK, Return
  <2>7. TypeOK'
    BY <1>1, <2>1, <2>2, <2>4 DEF ServerInv, TypeOK, Return, Place, Kinds, NoRefs, NoRef
  <2>8. ResultsAreUnique'
    <3>1. \A q \in results : q.id # r.id /\ ~(q.key = r.key /\ q.key # NoKey)
      BY <1>3, <2>2 DEF ServerInv, TypeOK, Result, ResultOK, KeyTaken, StoredUnder
    <3> QED
      BY <2>1, <3>1 DEF ServerInv, ResultsAreUnique
  <2>9. \A q \in results' : ResultOK(q)'
    <3>1. ASSUME NEW q \in results PROVE ResultOK(q)'
      BY <2>1, <2>2 DEF ServerInv, TypeOK, Result, ResultOK, HasRow
    <3> QED
      BY <2>1, <2>5, <3>1
  <2>10. \A q \in answers' : q.id <= lastId'
    BY <2>1, <2>2 DEF ServerInv, TypeOK
  <2>11. \A p \in Requests : RequestOK(p)'
    BY <2>1, <2>6 DEF ServerInv, RequestOK, Busy, HasRow
  <2> QED
    BY <2>1, <2>7, <2>8, <2>9, <2>10, <2>11 DEF ServerInv, RowsAreUnique
<1> QED
  BY <1>2, <1>3

\* Every step of the server keeps it.
LEMMA ServerStep == ServerInv /\ ServerNext => ServerInv'
<1> SUFFICES ASSUME ServerInv, ServerNext PROVE ServerInv'
  OBVIOUS
<1>1. ASSUME NEW c \in Requests, NEW s \in Submission, Begin(c, s.key, s.payload) PROVE ServerInv'
  <2>1. [key |-> s.key, payload |-> s.payload] = s
    BY DEF Submission
  <2>2. /\ sub'[c] = s /\ pc'[c] = IF s.key = NoKey THEN "validate" ELSE "lookup"
        /\ kind'[c] = kind[c] /\ kind[c] = "case"
        /\ \A p \in Requests \ {c} : /\ pc'[p] = pc[p] /\ sub'[p] = sub[p]
                                     /\ kind'[p] = kind[p] /\ refs'[p] = refs[p]
    BY <1>1, <2>1 DEF Begin, ServerInv, TypeOK, RequestOK
  <2>3. TypeOK'
    BY <1>1, <2>1 DEF Begin, ServerInv, TypeOK, Place
  <2>4. RequestOK(c)'
    BY <2>2 DEF RequestOK, Busy
  <2>5. RowsAreUnique' /\ \A k \in Kinds : table[k] \subseteq table'[k] /\ IsFiniteSet(table'[k])
    BY <1>1 DEF Begin, ServerInv, RowsAreUnique
  <2> QED
    BY <1>1, <2>2, <2>3, <2>4, <2>5, OneRequestMoves DEF Begin
<1>2. ASSUME NEW c \in Requests, Lookup(c) PROVE ServerInv'
  BY <1>2, RequestGoesOn, ReplayIsSafe DEF Lookup, StoredUnder, Place
<1>3. ASSUME NEW c \in Requests, Validate(c) PROVE ServerInv'
  <2>1. faults \in 0..MaxFaults
    BY DEF ServerInv, TypeOK
  <2> QED
    BY <1>3, <2>1, RequestGoesOn, ErrorIsSafe DEF Validate, Place
<1>4. ASSUME NEW c \in Requests, Select(c) PROVE ServerInv'
  <2>1. CASE \E row \in Found(c) : Use(c, row.id)
    BY <1>4, <2>1, FoundIsSafe DEF Select
  <2>2. CASE kind[c] = "commit" /\ Use(c, NoRef)
    <3>1. /\ table' \in [Kinds -> SUBSET Row] /\ RowsAreUnique' /\ NoRef \in Nat
          /\ \A k \in Kinds : table[k] \subseteq table'[k] /\ IsFiniteSet(table'[k])
      BY <1>4 DEF Select, ServerInv, RowsAreUnique, TypeOK, NoRef
    <3> QED
      BY <1>4, <2>2, <3>1, RequestUsesARow DEF Select
  <2>3. CASE /\ pc' = [pc EXCEPT ![c] = IF kind[c] = "commit" THEN "provider" ELSE "insert"]
             /\ UNCHANGED <<kind, refs>>
    BY <1>4, <2>3, RequestGoesOn DEF Select, Place
  <2> QED
    BY <1>4, <2>1, <2>2, <2>3 DEF Select
<1>5. ASSUME NEW c \in Requests, Provide(c) PROVE ServerInv'
  BY <1>5, RequestGoesOn DEF Provide, Place
<1>6. ASSUME NEW c \in Requests, SelectAgain(c) PROVE ServerInv'
  BY <1>6, RequestGoesOn, FoundIsSafe DEF SelectAgain, Place
<1>7. ASSUME NEW c \in Requests, Reselect(c) PROVE ServerInv'
  BY <1>7, FoundIsSafe DEF Reselect
<1>8. ASSUME NEW c \in Requests, Reconcile(c) PROVE ServerInv'
  <2>1. faults \in 0..MaxFaults
    BY DEF ServerInv, TypeOK
  <2> QED
    BY <1>8, <2>1, ErrorIsSafe, ReplayIsSafe DEF Reconcile, StoredUnder
<1>9. ASSUME NEW c \in Requests, Abort(c) PROVE ServerInv'
  <2>1. faults' \in 0..MaxFaults
    BY <1>9, SubmissionsAssumption DEF Abort, ServerInv, TypeOK
  <2> QED
    BY <1>9, <2>1, ErrorIsSafe DEF Abort
<1>10. ASSUME NEW r \in results, DeleteResult(r) PROVE ServerInv'
  <2>1. TypeOK'
    BY <1>10, SubmissionsAssumption DEF DeleteResult, ServerInv, TypeOK
  <2> QED
    BY <1>10, <2>1 DEF DeleteResult, ServerInv, RowsAreUnique, ResultsAreUnique, ResultOK, HasRow,
          RequestOK, Busy
<1>11. ASSUME Quiet PROVE ServerInv'
  <2>1. TypeOK'
    BY <1>11 DEF Quiet, ServerInv, TypeOK
  <2> QED
    BY <1>11, <2>1 DEF Quiet, ServerInv, RowsAreUnique, ResultsAreUnique, ResultOK, HasRow,
          RequestOK, Busy
<1> QED
  BY <1>1, <1>2, <1>3, <1>4, <1>5, <1>6, <1>7, <1>8, <1>9, <1>10, <1>11, InsertIsSafe, StoreIsSafe
     DEF ServerNext, Submit

\* One row per case and per context: the fingerprints of a series agree.
LEMMA SeriesFollow == ServerInv => SeriesNeverForks
<1> SUFFICES ASSUME ServerInv, NEW r \in results, NEW q \in results,
                    NaturalKey[r.payload]["case"] = NaturalKey[q.payload]["case"],
                    NaturalKey[r.payload]["context"] = NaturalKey[q.payload]["context"],
                    Hash[r.payload] = Hash[q.payload], RepoURL[r.payload] = RepoURL[q.payload]
             PROVE  r.fingerprint = q.fingerprint
  BY DEF SeriesNeverForks
<1>1. "case" \in UniqueKinds /\ "context" \in UniqueKinds /\ ResultOK(r) /\ ResultOK(q)
  BY SubmissionsAssumption DEF ServerInv
<1>2. r.fingerprint.case = q.fingerprint.case /\ r.fingerprint.context = q.fingerprint.context
  BY <1>1 DEF ServerInv, RowsAreUnique, ResultOK, HasRow
<1>3. r.fingerprint \in Fingerprint /\ q.fingerprint \in Fingerprint
  BY DEF ServerInv, TypeOK, Result
<1> QED
  BY <1>1, <1>2, <1>3 DEF ResultOK, Fingerprint

-----------------------------------------------------------------------------
(* The server implements IdempotentStore. *)

StoreStep == [Abstract!StoreNext]_<<Keyed(results), Keyed(answers), conflicts>>

\* A result as the abstract store has it.
Image(r) == [key |-> r.key, content |-> r.payload, id |-> r.id]

\* A result with a key is in the store.
LEMMA ImageIsKept ==
    ASSUME NEW r \in results, r.key # NoKey PROVE Image(r) \in Keyed(results)
  BY DEF Image, Keyed

\* A new result with a key is a new entry of the store.
LEMMA KeyedAdds ==
    ASSUME NEW S, NEW x, x.key # NoKey PROVE Keyed(S \cup {x}) = Keyed(S) \cup {Image(x)}
<1>1. {y \in S \cup {x} : y.key # NoKey} = {y \in S : y.key # NoKey} \cup {x}
  OBVIOUS
<1> QED
  BY <1>1, Zenon DEF Keyed, Image

\* An answer from a stored result is a replay of the store.
LEMMA ReplayImplements ==
    ASSUME ServerInv, NEW c \in Requests, NEW r \in results, r.key # NoKey,
           sub[c].payload \in Payloads, ReplaySubmission(c, r), UNCHANGED results
    PROVE  StoreStep
<1>1. Image(r) \in Keyed(results) /\ Keyed(results)' = Keyed(results)
  BY ImageIsKept DEF Keyed
<1>2. CASE r.payload = sub[c].payload
  <2>1. /\ answers' = answers \cup {[id |-> r.id, key |-> r.key, payload |-> r.payload]}
        /\ UNCHANGED conflicts
    BY <1>2 DEF ReplaySubmission
  <2>2. Keyed(answers)' = Keyed(answers) \cup {Image(r)}
    <3> DEFINE a == [id |-> r.id, key |-> r.key, payload |-> r.payload]
    <3>1. a.key # NoKey /\ Image(a) = Image(r)
      BY DEF Image
    <3>2. answers' = answers \cup {a} /\ Keyed(answers)' = Keyed(answers')
      BY <2>1 DEF Keyed
    <3> HIDE DEF a
    <3> QED
      BY <3>1, <3>2, KeyedAdds
  <2>3. Abstract!Replay(Image(r))
    BY <1>1, <2>1, <2>2 DEF Abstract!Replay
  <2> QED
    BY <1>1, <2>3 DEF StoreStep, Abstract!StoreNext
<1>3. CASE r.payload # sub[c].payload
  <2>1. conflicts' = conflicts \cup {<<r.key, sub[c].payload>>} /\ UNCHANGED answers
    BY <1>3 DEF ReplaySubmission
  <2>2. Keyed(answers)' = Keyed(answers)
    BY <2>1 DEF Keyed
  <2>3. Abstract!Refuse(Image(r), sub[c].payload)
    BY <1>1, <1>3, <2>1, <2>2 DEF Abstract!Refuse, Image
  <2> QED
    BY <1>1, <2>3 DEF StoreStep, Abstract!StoreNext
<1> QED
  BY <1>2, <1>3

\* The insert of a result is a put of the store, or nothing to it.
LEMMA StoreImplements ==
    ASSUME ServerInv, NEW c \in Requests, Store(c)
    PROVE  StoreStep
<1> DEFINE id == lastId + 1
           r == [id |-> id, key |-> sub[c].key, payload |-> sub[c].payload,
                 fingerprint |-> FingerprintOf(c)]
           a == [id |-> id, key |-> sub[c].key, payload |-> sub[c].payload]
<1>1. sub[c].payload \in Payloads /\ sub[c].key \in Keys \cup {NoKey} /\ lastId \in Nat
  BY DEF ServerInv, TypeOK, Store, RequestOK, Busy, Submission
<1>2. CASE KeyTaken(sub[c].key)
  BY <1>2 DEF Store, StoreStep, Keyed
<1>3. CASE ~KeyTaken(sub[c].key)
  <2>1. results' = results \cup {r} /\ answers' = answers \cup {a} /\ UNCHANGED conflicts
    BY <1>3 DEF Store
  <2>2. CASE sub[c].key = NoKey
    <3>1. Keyed(results)' = Keyed(results) /\ Keyed(answers)' = Keyed(answers)
      BY <2>1, <2>2 DEF Keyed
    <3> QED
      BY <2>1, <3>1 DEF StoreStep
  <2>3. CASE sub[c].key # NoKey
    <3> DEFINE k == [key |-> sub[c].key, content |-> sub[c].payload, id |-> id]
    <3>1. Keyed(results)' = Keyed(results) \cup {k} /\ Keyed(answers)' = Keyed(answers) \cup {k}
      <4>1. /\ r.key # NoKey /\ a.key # NoKey /\ Image(r) = k /\ Image(a) = k
            /\ Keyed(results)' = Keyed(results') /\ Keyed(answers)' = Keyed(answers')
        BY <2>3 DEF Image, Keyed
      <4> HIDE DEF k, r, a
      <4> QED
        BY <2>1, <4>1, KeyedAdds
    <3>2. \A q \in Keyed(results) : q.key # sub[c].key
      BY <1>3, <2>3 DEF Keyed, KeyTaken, StoredUnder
    <3>3. \A q \in Keyed(answers) : q.id # id
      BY <1>1 DEF Keyed, ServerInv, TypeOK
    <3>4. k \in [key : Keys, content : Payloads, id : Nat]
      BY <1>1, <2>3
    <3>5. Abstract!Keep(k)
      BY <2>1, <3>1, <3>2, <3>3, <3>4 DEF Abstract!Keep
    <3>6. k \in Keyed(results)'
      BY <3>1
    <3> HIDE DEF k
    <3> QED
      BY <3>5, <3>6 DEF StoreStep, Abstract!StoreNext
  <2> QED
    BY <2>2, <2>3
<1> QED
  BY <1>2, <1>3

\* A deleted result is a delete of the store, or nothing to it.
LEMMA DeleteImplements ==
    ASSUME ServerInv, NEW r \in results, DeleteResult(r)
    PROVE  StoreStep
<1>1. results' = results \ {r} /\ UNCHANGED <<answers, conflicts>>
  BY DEF DeleteResult
<1>2. Keyed(answers)' = Keyed(answers)
  BY <1>1 DEF Keyed
<1>3. CASE r.key = NoKey
  <2>1. Keyed(results)' = Keyed(results)
    BY <1>1, <1>3 DEF Keyed
  <2> QED
    BY <1>1, <1>2, <2>1 DEF StoreStep
<1>4. CASE r.key # NoKey
  <2>1. Keyed(results)' = Keyed(results) \ {Image(r)}
    BY <1>1, <1>4 DEF Keyed, Image, ServerInv, ResultsAreUnique
  <2>2. Image(r) \in Keyed(results)
    BY <1>4, ImageIsKept
  <2>3. Abstract!Free(Image(r))
    BY <1>1, <1>2, <2>1, <2>2 DEF Abstract!Free
  <2> QED
    BY <2>2, <2>3 DEF StoreStep, Abstract!StoreNext
<1> QED
  BY <1>3, <1>4

\* Every step of the server is a step of the store or none.
LEMMA ServerImplements == ServerInv /\ ServerNext => StoreStep
<1> SUFFICES ASSUME ServerInv, ServerNext PROVE StoreStep
  OBVIOUS
<1>1. UNCHANGED <<results, answers, conflicts>> => StoreStep
  BY DEF StoreStep, Keyed
<1>2. ASSUME NEW c \in Requests, Lookup(c) \/ Reconcile(c) PROVE StoreStep
  <2>1. sub[c].key # NoKey /\ sub[c].payload \in Payloads /\ UNCHANGED results
    BY <1>2 DEF Lookup, Reconcile, ServerInv, RequestOK, Busy, Submission
  <2>2. \/ UNCHANGED <<answers, conflicts>>
        \/ \E r \in results : r.key = sub[c].key /\ ReplaySubmission(c, r)
    BY <1>2 DEF Lookup, Reconcile, StoredUnder
  <2> QED
    BY <1>1, <2>1, <2>2, ReplayImplements
<1>3. ASSUME NEW c \in Requests, Submit(c), ~Lookup(c), ~Reconcile(c), ~Store(c)
      PROVE  UNCHANGED <<results, answers, conflicts>>
  BY <1>3 DEF Submit, Validate, Select, Provide, SelectAgain, Insert, Reselect
<1>4. ASSUME NEW c \in Requests, Abort(c) PROVE UNCHANGED <<results, answers, conflicts>>
  BY <1>4 DEF Abort
<1>5. ASSUME NEW c \in Requests, NEW s \in Submission, Begin(c, s.key, s.payload)
      PROVE  UNCHANGED <<results, answers, conflicts>>
  BY <1>5 DEF Begin
<1>6. ASSUME Quiet PROVE UNCHANGED <<results, answers, conflicts>>
  BY <1>6 DEF Quiet
<1> QED
  BY <1>1, <1>2, <1>3, <1>4, <1>5, <1>6, StoreImplements, DeleteImplements DEF ServerNext

-----------------------------------------------------------------------------
(* The command. *)

File == [items : Seq(Submission), ok : BOOLEAN]
Line == [item : Submission \cup {NoItem}, id : Nat]

CommandTypeOK ==
    /\ stage \in {"idle", "decode", "wait", "collect", "exited"}
    /\ files \in Seq(File) /\ (stage # "idle" => files # <<>>)
    /\ at \in [file : Nat \ {0}, item : Nat]
    /\ stage = "decode" => at.file <= Len(files)
    /\ lines \in Seq(Line) /\ undecoded \in BOOLEAN
    /\ worker \in [Workers -> [step : {"ready", "call", "await", "report"}, line : Nat,
                               slot : Requests \cup {NoSlot}, id : Nat]]
    /\ buffer \in Seq([line : Nat, id : Nat])
    /\ exit \in {"none", "ok", "failed"} /\ errors \subseteq Nat

\* What is, or will be, on line k is an error or an id the line's own item was given.
Right(k, id) ==
    id # NoRef => \E a \in answers : /\ a.id = id /\ a.key = lines[k].item.key
                                     /\ a.payload = lines[k].item.payload

\* Line k waits for its outcome.
Open(k) == k \in DOMAIN lines /\ lines[k].id = NoRef

Working(w) == worker[w].step # "ready"

\* A worker that waits for the server has a request of its own, which is about its line.
WorkerOK(w) ==
    LET k == worker[w].line
        c == worker[w].slot
    IN
    /\ Working(w) => Open(k) /\ lines[k].item \in Submission
    /\ worker[w].step \in {"call", "await"} => k \notin errors
    /\ worker[w].step = "await" => /\ c \in Requests
                                   /\ Busy(c) => sub[c] = lines[k].item
                                   /\ ~Busy(c) => Right(k, reply[c])
    /\ worker[w].step # "await" => c = NoSlot
    /\ worker[w].step = "report" => /\ Right(k, worker[w].id)
                                    /\ worker[w].id = NoRef <=> k \in errors

\* An outcome in the results channel.
MessageOK(b) ==
    Open(b.line) /\ Right(b.line, b.id) /\ (b.id = NoRef <=> b.line \in errors)

BufferOK == \A i \in 1..Len(buffer) : MessageOK(buffer[i])

\* Nobody shares a line or a request.
OwnLines ==
    /\ \A w, v \in Workers : Working(w) /\ Working(v) /\ w # v => worker[w].line # worker[v].line
    /\ \A w, v \in Workers :
          worker[w].step = "await" /\ worker[v].step = "await" /\ w # v =>
              worker[w].slot # worker[v].slot
    /\ \A i, j \in 1..Len(buffer) : i # j => buffer[i].line # buffer[j].line
    /\ \A w \in Workers, i \in 1..Len(buffer) : Working(w) => worker[w].line # buffer[i].line

InFlight(k) ==
    \/ \E w \in Workers : Working(w) /\ worker[w].line = k
    \/ \E i \in 1..Len(buffer) : buffer[i].line = k

LineOK(k) ==
    /\ Right(k, lines[k].id)
    /\ lines[k].id # NoRef => k \notin errors
    /\ lines[k].id = NoRef => k \in errors \/ InFlight(k)

\* wg.Wait and the collector's end: nothing is on its way when the lines are read.
Quiescent ==
    /\ stage \in {"idle", "collect", "exited"} => \A w \in Workers : ~Working(w)
    /\ stage \in {"idle", "exited"} => buffer = <<>>
    /\ stage # "exited" => errors \subseteq 1..Len(lines)

FilesOK ==
    /\ stage = "decode" =>
          ~undecoded /\ (errors # {} \/ \A i \in 1..(at.file - 1) : files[i].ok)
    /\ stage \in {"wait", "collect"} =>
          /\ undecoded => \E i \in 1..Len(files) : ~files[i].ok
          /\ errors # {} \/ undecoded \/ \A i \in 1..Len(files) : files[i].ok

StreamInv ==
    /\ ServerInv /\ CommandTypeOK
    /\ \A w \in Workers : WorkerOK(w)
    /\ BufferOK /\ OwnLines
    /\ \A k \in 1..Len(lines) : LineOK(k)
    /\ Quiescent /\ FilesOK /\ ExitCodeIsTrue

-----------------------------------------------------------------------------
(* What the steps of the server are to the command. *)

\* A request stays the request it is, until it is answered with an error or with an id
\* that its own submission was given.
Answers(c) ==
    /\ Busy(c)' => Busy(c) /\ sub'[c] = sub[c]
    /\ ~Busy(c) => reply'[c] = reply[c]
    /\ Busy(c) /\ ~Busy(c)' /\ reply'[c] # NoRef =>
          \E a \in answers' : a.id = reply'[c] /\ a.key = sub[c].key /\ a.payload = sub[c].payload

\* A request that goes on answers nothing.
LEMMA GoingOnAnswers ==
    ASSUME ServerInv, NEW c \in Requests, NEW place, pc[c] # "idle", place # "idle",
           pc' = [pc EXCEPT ![c] = place], UNCHANGED <<sub, reply>>
    PROVE  \A p \in Requests : Answers(p)
  BY DEF ServerInv, TypeOK, Answers, Busy

\* A request that returns a result answers with the one it stands for.
LEMMA ReturnAnswers ==
    ASSUME ServerInv, NEW c \in Requests, NEW id, pc[c] # "idle", Return(c, id),
           id # NoRef => \E a \in answers' :
                            a.id = id /\ a.key = sub[c].key /\ a.payload = sub[c].payload
    PROVE  \A p \in Requests : Answers(p)
<1>1. /\ pc'[c] = "idle" /\ reply'[c] = id
      /\ \A p \in Requests \ {c} : pc'[p] = pc[p] /\ sub'[p] = sub[p] /\ reply'[p] = reply[p]
  BY DEF ServerInv, TypeOK, Return
<1> QED
  BY <1>1 DEF Answers, Busy

\* So does one that replays.
LEMMA ReplayAnswers ==
    ASSUME ServerInv, NEW c \in Requests, pc[c] # "idle", NEW r \in StoredUnder(sub[c].key),
           ReplaySubmission(c, r)
    PROVE  answers \subseteq answers' /\ \A p \in Requests : Answers(p)
<1>1. CASE r.payload = sub[c].payload
  <2> DEFINE a == [id |-> r.id, key |-> r.key, payload |-> r.payload]
  <2>1. Return(c, r.id) /\ answers' = answers \cup {a} /\ r.key = sub[c].key
    BY <1>1 DEF ReplaySubmission, StoredUnder
  <2>2. a \in answers' /\ a.id = r.id /\ a.key = sub[c].key /\ a.payload = sub[c].payload
    BY <1>1, <2>1
  <2> HIDE DEF a
  <2> QED
    BY <2>1, <2>2, ReturnAnswers
<1>2. CASE r.payload # sub[c].payload
  BY <1>2, ReturnAnswers DEF ReplaySubmission
<1> QED
  BY <1>1, <1>2

\* One that found a row goes on.
LEMMA UseAnswers ==
    ASSUME ServerInv, NEW c \in Requests, NEW id, pc[c] # "idle", Use(c, id),
           UNCHANGED <<sub, reply>>
    PROVE  \A p \in Requests : Answers(p)
  BY GoingOnAnswers DEF Use

\* Every answer is for what the request submitted.
LEMMA RequestsAnswer ==
    ASSUME ServerInv,
           \/ \E c \in Requests : Submit(c) \/ Abort(c)
           \/ \E r \in results : DeleteResult(r)
    PROVE  answers \subseteq answers' /\ \A c \in Requests : Answers(c)
<1>1. ASSUME NEW c \in Requests, Lookup(c) \/ Reconcile(c)
      PROVE  answers \subseteq answers' /\ \A p \in Requests : Answers(p)
  BY <1>1, GoingOnAnswers, ReturnAnswers, ReplayAnswers DEF Lookup, Reconcile
<1>2. ASSUME NEW c \in Requests, Validate(c) \/ Provide(c) \/ Abort(c)
      PROVE  answers \subseteq answers' /\ \A p \in Requests : Answers(p)
  BY <1>2, GoingOnAnswers, ReturnAnswers DEF Validate, Provide, Abort
<1>3. ASSUME NEW c \in Requests, Select(c) \/ SelectAgain(c) \/ Reselect(c)
      PROVE  answers \subseteq answers' /\ \A p \in Requests : Answers(p)
  BY <1>3, GoingOnAnswers, UseAnswers DEF Select, SelectAgain, Reselect
<1>4. ASSUME NEW c \in Requests, Insert(c)
      PROVE  answers \subseteq answers' /\ \A p \in Requests : Answers(p)
  BY <1>4, GoingOnAnswers, UseAnswers DEF Insert
<1>5. ASSUME NEW c \in Requests, Store(c)
      PROVE  answers \subseteq answers' /\ \A p \in Requests : Answers(p)
  <2>1. CASE KeyTaken(sub[c].key)
    BY <1>5, <2>1, GoingOnAnswers DEF Store
  <2>2. CASE ~KeyTaken(sub[c].key)
    <3> DEFINE id == lastId + 1
               a == [id |-> id, key |-> sub[c].key, payload |-> sub[c].payload]
    <3>1. pc[c] = "store" /\ Return(c, id) /\ answers' = answers \cup {a}
      BY <1>5, <2>2 DEF Store
    <3>2. a \in answers' /\ a.id = id /\ a.key = sub[c].key /\ a.payload = sub[c].payload
      BY <3>1
    <3> HIDE DEF id, a
    <3> QED
      BY <3>1, <3>2, ReturnAnswers
  <2> QED
    BY <2>1, <2>2
<1>6. ASSUME NEW r \in results, DeleteResult(r)
      PROVE  answers \subseteq answers' /\ \A p \in Requests : Answers(p)
  BY <1>6 DEF DeleteResult, Answers, Busy
<1> QED
  BY <1>1, <1>2, <1>3, <1>4, <1>5, <1>6 DEF Submit

-----------------------------------------------------------------------------
(* The invariant of the command, action by action. *)

\* The invariant of the stream holds at the start.
LEMMA StreamStart == StreamInit => StreamInv
<1> SUFFICES ASSUME StreamInit PROVE StreamInv
  OBVIOUS
<1>1. ServerInv
  BY ServerInit DEF StreamInit
<1>2. CommandTypeOK
  <2>1. undecoded \in BOOLEAN
    BY Zenon DEF StreamInit
  <2>2. /\ files = <<>> /\ stage = "idle" /\ lines = <<>> /\ buffer = <<>> /\ errors = {}
        /\ exit = "none" /\ at = [file |-> 1, item |-> 0]
        /\ worker = [w \in Workers |-> [step |-> "ready", line |-> 0, slot |-> NoSlot, id |-> 0]]
    BY DEF StreamInit, Start, Ready, NoRef
  <2> QED
    BY <2>1, <2>2 DEF CommandTypeOK
<1>3. \A w \in Workers : WorkerOK(w) /\ ~Working(w)
  BY DEF StreamInit, WorkerOK, Working, Ready
<1>4. buffer = <<>> /\ lines = <<>> /\ stage = "idle" /\ errors = {}
  BY DEF StreamInit
<1>5. Len(buffer) = 0 /\ Len(lines) = 0
  BY <1>4
<1>6. BufferOK /\ OwnLines /\ \A k \in 1..Len(lines) : LineOK(k)
  BY <1>3, <1>5 DEF BufferOK, MessageOK, OwnLines, Working
<1>7. Quiescent /\ FilesOK /\ ExitCodeIsTrue
  BY <1>3, <1>4 DEF Quiescent, FilesOK, ExitCodeIsTrue
<1> QED
  BY <1>1, <1>2, <1>3, <1>6, <1>7 DEF StreamInv

\* A statement of a request, or a DELETE.
LEMMA ServerSteps ==
    ASSUME StreamInv, UNCHANGED command,
           \/ \E c \in Requests : Submit(c) \/ Abort(c)
           \/ \E r \in results : DeleteResult(r)
    PROVE  StreamInv'
<1>1. ServerInv'
  BY ServerStep DEF StreamInv, ServerNext
<1>2. answers \subseteq answers' /\ \A c \in Requests : Answers(c)
  BY RequestsAnswer DEF StreamInv
<1>3. /\ stage' = stage /\ files' = files /\ at' = at /\ lines' = lines /\ undecoded' = undecoded
      /\ worker' = worker /\ buffer' = buffer /\ exit' = exit /\ errors' = errors
  BY DEF command
<1>4. \A k, id : Right(k, id) => Right(k, id)'
  BY <1>2, <1>3 DEF Right
<1>5. ASSUME NEW w \in Workers PROVE WorkerOK(w)'
  <2>1. WorkerOK(w)
    BY DEF StreamInv
  <2>2. ASSUME NEW k, NEW c, k = worker[w].line, c = worker[w].slot, worker[w].step = "await"
        PROVE  /\ c \in Requests
               /\ Busy(c)' => sub'[c] = lines[k].item
               /\ ~Busy(c)' => Right(k, reply[c])'
    <3>1. /\ c \in Requests /\ Answers(c)
          /\ Busy(c) => sub[c] = lines[k].item
          /\ ~Busy(c) => Right(k, reply[c])
      BY <1>2, <2>1, <2>2 DEF WorkerOK
    <3>2. CASE ~Busy(c)
      BY <1>4, <3>1, <3>2 DEF Answers, Right
    <3>3. CASE Busy(c)
      BY <1>3, <3>1, <3>3 DEF Answers, Right
    <3> QED
      BY <3>1, <3>2, <3>3
  <2> QED
    BY <1>3, <1>4, <2>1, <2>2 DEF WorkerOK, Working, Open
<1>6. BufferOK'
  BY <1>3, <1>4 DEF StreamInv, BufferOK, MessageOK, Open
<1>7. \A k \in 1..Len(lines') : LineOK(k)'
  BY <1>3, <1>4 DEF StreamInv, LineOK, InFlight, Working
<1>8. CommandTypeOK' /\ OwnLines' /\ Quiescent' /\ FilesOK' /\ ExitCodeIsTrue'
  BY <1>3 DEF StreamInv, CommandTypeOK, OwnLines, Quiescent, FilesOK, ExitCodeIsTrue, Working
<1> QED
  BY <1>1, <1>5, <1>6, <1>7, <1>8 DEF StreamInv

\* Steps of the command alone.
LEMMA ServerStays ==
    ASSUME ServerInv, UNCHANGED server
    PROVE  ServerInv' /\ \A c \in Requests : Busy(c)' <=> Busy(c)
<1>1. Quiet
  BY DEF server, Quiet, ServerInv, TypeOK
<1> QED
  BY <1>1, ServerStep DEF ServerNext, Quiet, Busy

\* The command begins.
LEMMA InvokeIsSafe ==
    ASSUME StreamInv, NEW list \in FileLists, Invoke(list)
    PROVE  StreamInv'
<1>1. /\ stage \in {"idle", "exited"} /\ stage' = "decode" /\ files' = list /\ lines' = <<>>
      /\ at' = [file |-> 1, item |-> 0] /\ exit' = "none" /\ errors' = {}
      /\ worker' = worker /\ buffer' = buffer /\ UNCHANGED server
  BY DEF Invoke, Start
<1>2. undecoded' \in BOOLEAN /\ ~undecoded'
  BY Zenon DEF Invoke
<1>3. ServerInv'
  BY <1>1, ServerStays DEF StreamInv
<1>4. list # <<>> /\ list \in Seq(File) /\ Len(list) >= 1
  <2>1. list # <<>> /\ list \in Seq(File)
    BY StreamAssumption, Zenon DEF File
  <2> QED
    BY <2>1, EmptySeq
<1>5. CommandTypeOK'
  BY <1>1, <1>2, <1>4 DEF StreamInv, CommandTypeOK
<1>6. /\ \A w \in Workers : ~Working(w) /\ worker[w].slot = NoSlot /\ worker'[w].step = "ready"
      /\ buffer' = <<>>
  BY <1>1 DEF StreamInv, Quiescent, WorkerOK, Working
<1>7. \A w \in Workers : WorkerOK(w)' /\ ~Working(w)'
  BY <1>1, <1>6 DEF WorkerOK, Working
<1>8. Len(buffer') = 0 /\ Len(lines') = 0
  BY <1>1, <1>6
<1>9. BufferOK' /\ OwnLines' /\ \A k \in 1..Len(lines') : LineOK(k)'
  BY <1>7, <1>8 DEF BufferOK, MessageOK, OwnLines, Working
<1>10. Quiescent' /\ FilesOK' /\ ExitCodeIsTrue'
  BY <1>1, <1>2, <1>7 DEF Quiescent, FilesOK, ExitCodeIsTrue
<1> QED
  BY <1>3, <1>5, <1>7, <1>9, <1>10 DEF StreamInv

\* A line is added: what is on its way keeps its line, and the line what it had.
LEMMA LinesGrow ==
    ASSUME StreamInv, UNCHANGED server, lines' \in Seq(Line), Len(lines) <= Len(lines'),
           \A k \in 1..Len(lines) : lines'[k] = lines[k] /\ (k \in errors' <=> k \in errors)
    PROVE  /\ \A k : Open(k) => /\ Open(k)' /\ k \in 1..Len(lines) /\ lines'[k] = lines[k]
                                /\ k \in errors' <=> k \in errors
           /\ \A k \in 1..Len(lines) : \A id : Right(k, id) => Right(k, id)'
           /\ \A w \in Workers : worker'[w] = worker[w] => WorkerOK(w)'
           /\ buffer' = buffer => BufferOK'
<1>1. lines \in Seq(Line) /\ answers' = answers /\ sub' = sub /\ reply' = reply /\ pc' = pc
  BY DEF StreamInv, CommandTypeOK, server
<1>2. ASSUME NEW k, Open(k)
      PROVE  Open(k)' /\ k \in 1..Len(lines) /\ lines'[k] = lines[k] /\ (k \in errors' <=> k \in errors)
  BY <1>1, <1>2 DEF Open
<1>3. ASSUME NEW k \in 1..Len(lines), NEW id, Right(k, id) PROVE Right(k, id)'
  BY <1>1, <1>3 DEF Right
<1>4. ASSUME NEW w \in Workers, worker'[w] = worker[w] PROVE WorkerOK(w)'
  <2>1. WorkerOK(w)
    BY DEF StreamInv
  <2> QED
    BY <1>1, <1>2, <1>3, <1>4, <2>1 DEF WorkerOK, Working, Busy
<1>5. ASSUME buffer' = buffer PROVE BufferOK'
  BY <1>2, <1>3, <1>5 DEF StreamInv, BufferOK, MessageOK
<1> QED
  BY <1>2, <1>3, <1>4, <1>5

\* A worker other than w, and what it carries, is as it was.
OtherWorkers(w) == \A v \in Workers \ {w} : worker'[v] = worker[v]

\* The reader hands an item to a worker.
LEMMA YieldIsSafe ==
    ASSUME StreamInv, NEW w \in Workers, Yield(w)
    PROVE  StreamInv'
<1> DEFINE item == files[at.file].items[at.item + 1]
           n == Len(lines) + 1
<1>1. /\ stage = "decode" /\ More /\ worker[w].step = "ready"
      /\ lines' = Append(lines, [item |-> item, id |-> NoRef])
      /\ at' = [file |-> at.file, item |-> at.item + 1]
      /\ UNCHANGED <<stage, files, undecoded, buffer, exit, errors, server>>
  BY DEF Yield
<1>2. item \in Submission
  <2>1. /\ files \in Seq(File) /\ at.file \in 1..Len(files) /\ at.item \in Nat
        /\ at.item < Len(files[at.file].items)
    BY <1>1 DEF StreamInv, CommandTypeOK, More
  <2>2. files[at.file] \in File
    BY <2>1, ElementOfSeq
  <2>3. files[at.file].items \in Seq(Submission)
    BY <2>2 DEF File
  <2> QED
    BY <2>1, <2>3, ElementOfSeq
<1>3. [item |-> item, id |-> NoRef] \in Line /\ lines \in Seq(Line)
  BY <1>2 DEF Line, NoRef, StreamInv, CommandTypeOK
<1> HIDE DEF item
<1>4. /\ lines' \in Seq(Line) /\ Len(lines') = n /\ n \in Nat /\ lines'[n] = [item |-> item, id |-> NoRef]
      /\ \A k \in 1..Len(lines) : lines'[k] = lines[k]
  BY <1>1, <1>3, AppendProperties
<1>5. /\ worker'[w] = [step |-> "call", line |-> n, slot |-> NoSlot, id |-> NoRef]
      /\ OtherWorkers(w) /\ worker \in [Workers -> [step : {"ready", "call", "await", "report"},
                                line : Nat, slot : Requests \cup {NoSlot}, id : Nat]]
  BY <1>4 DEF Yield, StreamInv, CommandTypeOK, Ready, OtherWorkers
<1>6. n \notin 1..Len(lines) /\ n \notin errors
  BY <1>1, <1>3, <1>4 DEF StreamInv, Quiescent
<1>7. CommandTypeOK'
  <2>1. worker' \in [Workers -> [step : {"ready", "call", "await", "report"},
                                 line : Nat, slot : Requests \cup {NoSlot}, id : Nat]]
    BY <1>4, <1>5 DEF Yield, NoRef, Ready
  <2>2. at' \in [file : Nat \ {0}, item : Nat] /\ at'.file = at.file
    BY <1>1 DEF StreamInv, CommandTypeOK
  <2> QED
    BY <1>1, <1>4, <2>1, <2>2 DEF StreamInv, CommandTypeOK
<1>8. /\ \A k : Open(k) => /\ Open(k)' /\ k \in 1..Len(lines) /\ lines'[k] = lines[k]
      /\ \A k \in 1..Len(lines) : \A id : Right(k, id) => Right(k, id)'
      /\ \A v \in Workers \ {w} : WorkerOK(v)'
      /\ BufferOK'
  BY <1>1, <1>4, <1>5, LinesGrow DEF OtherWorkers
<1>9. WorkerOK(w)' /\ Working(w)'
  BY <1>1, <1>2, <1>4, <1>5, <1>6 DEF WorkerOK, Working, Open
<1>10. OwnLines'
  <2>1. \A v \in Workers : Working(v) => worker[v].line \in 1..Len(lines)
    BY <1>3 DEF StreamInv, WorkerOK, Open
  <2>2. \A i \in 1..Len(buffer) : buffer[i].line \in 1..Len(lines)
    BY <1>3 DEF StreamInv, BufferOK, MessageOK, Open
  <2>3. /\ worker'[w].line = n /\ worker'[w].step = "call" /\ buffer' = buffer
        /\ \A v \in Workers \ {w} : worker'[v] = worker[v]
    BY <1>1, <1>5 DEF OtherWorkers
  <2>4. \A v, u \in Workers : Working(v)' /\ Working(u)' /\ v # u => worker'[v].line # worker'[u].line
    BY <1>6, <2>1, <2>3 DEF StreamInv, OwnLines, Working
  <2>5. \A v \in Workers, i \in 1..Len(buffer') : Working(v)' => worker'[v].line # buffer'[i].line
    BY <1>6, <2>2, <2>3 DEF StreamInv, OwnLines, Working
  <2> QED
    BY <2>3, <2>4, <2>5 DEF StreamInv, OwnLines
<1>11. ASSUME NEW k \in 1..Len(lines') PROVE LineOK(k)'
  <2>1. CASE k = n
    BY <1>4, <1>5, <1>9, <2>1 DEF LineOK, Right, InFlight
  <2>2. CASE k \in 1..Len(lines)
    <3>1. LineOK(k) /\ Right(k, lines[k].id)'
      BY <1>4, <1>8, <2>2 DEF StreamInv, LineOK
    <3>2. InFlight(k) => InFlight(k)'
      BY <1>1, <1>5 DEF InFlight, Working, OtherWorkers
    <3> QED
      BY <1>1, <1>4, <2>2, <3>1, <3>2 DEF LineOK, Right
  <2> QED
    BY <1>3, <1>4, <2>1, <2>2
<1>12. Quiescent' /\ FilesOK' /\ ExitCodeIsTrue'
  BY <1>1, <1>3, <1>4, <1>7 DEF StreamInv, CommandTypeOK, Quiescent, FilesOK, ExitCodeIsTrue
<1> QED
  BY <1>1, <1>7, <1>8, <1>9, <1>10, <1>11, <1>12, ServerStays DEF StreamInv

\* The reader is through with a file.
LEMMA EndOfFileIsSafe ==
    ASSUME StreamInv, EndOfFile
    PROVE  StreamInv'
<1> DEFINE file == files[at.file]
           alone == Len(files) = 1
           n == Len(lines) + 1
<1>1. /\ stage = "decode" /\ files \in Seq(File) /\ at.file \in 1..Len(files)
      /\ at \in [file : Nat \ {0}, item : Nat] /\ lines \in Seq(Line)
      /\ worker' = worker /\ buffer' = buffer /\ files' = files /\ exit' = exit /\ UNCHANGED server
  BY DEF EndOfFile, StreamInv, CommandTypeOK
<1>2. /\ file.ok \in BOOLEAN
      /\ undecoded' \in BOOLEAN /\ (undecoded' <=> ~file.ok /\ alone)
  <2>1. file \in File
    BY <1>1, ElementOfSeq
  <2>2. undecoded' = (~file.ok /\ alone)
    BY Zenon DEF EndOfFile
  <2> QED
    BY <2>1, <2>2, Zenon DEF File
<1>3. /\ file.ok \/ alone => lines' = lines /\ errors' = errors
      /\ ~(file.ok \/ alone) => /\ lines' = Append(lines, [item |-> NoItem, id |-> NoRef])
                                /\ errors' = errors \cup {n}
  BY DEF EndOfFile
<1>4. IF at.file = Len(files) THEN stage' = "wait" /\ at' = at
      ELSE at' = [file |-> at.file + 1, item |-> 0] /\ stage' = "decode"
  BY <1>1 DEF EndOfFile
<1> HIDE DEF file
<1>5. /\ lines' \in Seq(Line) /\ Len(lines') \in {Len(lines), n} /\ n \notin 1..Len(lines)
      /\ Len(lines) \in Nat
      /\ \A k \in 1..Len(lines) : lines'[k] = lines[k] /\ (k \in errors' <=> k \in errors)
      /\ Len(lines') = n => lines'[n] = [item |-> NoItem, id |-> NoRef] /\ n \in errors'
      /\ errors \subseteq errors' /\ errors' \subseteq 1..Len(lines')
  <2>1. [item |-> NoItem, id |-> NoRef] \in Line /\ errors \subseteq 1..Len(lines) /\ Len(lines) \in Nat
    BY <1>1 DEF Line, NoRef, StreamInv, Quiescent
  <2>2. CASE file.ok \/ alone
    <3>1. lines' = lines /\ errors' = errors
      BY <1>3, <2>2, Zenon
    <3> QED
      BY <1>1, <2>1, <3>1
  <2>3. CASE ~(file.ok \/ alone)
    <3>1. lines' = Append(lines, [item |-> NoItem, id |-> NoRef]) /\ errors' = errors \cup {n}
      BY <1>3, <2>3, Zenon
    <3>2. /\ lines' \in Seq(Line) /\ Len(lines') = n /\ lines'[n] = [item |-> NoItem, id |-> NoRef]
          /\ \A k \in 1..Len(lines) : lines'[k] = lines[k]
      BY <1>1, <2>1, <3>1, AppendProperties
    <3>3. n \notin 1..Len(lines) /\ n \in 1..n /\ 1..Len(lines) \subseteq 1..n
      BY <2>1
    <3> HIDE DEF n
    <3> QED
      BY <2>1, <3>1, <3>2, <3>3
  <2> QED
    BY <2>2, <2>3
<1>6. /\ \A k \in 1..Len(lines) : \A id : Right(k, id) => Right(k, id)'
      /\ \A w \in Workers : WorkerOK(w)'
      /\ BufferOK'
  BY <1>1, <1>5, LinesGrow
<1>7. CommandTypeOK'
  BY <1>1, <1>2, <1>4, <1>5 DEF StreamInv, CommandTypeOK
<1>8. OwnLines'
  BY <1>1 DEF StreamInv, OwnLines, Working
<1>9. ASSUME NEW k \in 1..Len(lines') PROVE LineOK(k)'
  <2>1. CASE k \in 1..Len(lines)
    <3>1. LineOK(k) /\ Right(k, lines[k].id)'
      BY <1>5, <1>6, <2>1 DEF StreamInv, LineOK
    <3> QED
      BY <1>1, <1>5, <2>1, <3>1 DEF LineOK, InFlight, Working
  <2>2. CASE k \notin 1..Len(lines)
    <3>1. k = n /\ Len(lines') = n
      BY <1>5, <2>2
    <3> QED
      BY <1>5, <3>1 DEF LineOK, Right
  <2> QED
    BY <2>1, <2>2
<1>10. Quiescent' /\ ExitCodeIsTrue'
  BY <1>4, <1>5 DEF Quiescent, ExitCodeIsTrue
<1>11. FilesOK'
  <2>1. errors # {} \/ \A i \in 1..(at.file - 1) : files[i].ok
    BY <1>1 DEF StreamInv, FilesOK
  <2>2. errors' # {} \/ undecoded' \/ \A i \in 1..at.file : files[i].ok
    <3>1. CASE file.ok
      <4>1. \A i \in 1..at.file : i \in 1..(at.file - 1) \/ i = at.file
        BY <1>1
      <4>2. errors \subseteq errors'
        BY <1>5
      <4> QED
        BY <2>1, <3>1, <4>1, <4>2, Zenon DEF file
    <3>2. CASE ~file.ok
      BY <1>2, <1>3, <3>2, Zenon
    <3> QED
      BY <3>1, <3>2
  <2>3. CASE at.file = Len(files)
    BY <1>1, <1>2, <1>4, <2>2, <2>3 DEF FilesOK, file
  <2>4. CASE at.file # Len(files)
    <3>1. ~undecoded' /\ at'.file - 1 = at.file /\ stage' = "decode"
      <4>1. at' = [file |-> at.file + 1, item |-> 0] /\ stage' = "decode"
        BY <1>4, <2>4, Zenon
      <4>2. Len(files) # 1
        <5>1. at.file \in 1..Len(files) /\ Len(files) \in Nat
          BY <1>1, LenProperties
        <5>2. \A l \in Nat : \A i \in 1..l : i # l => l # 1
          OBVIOUS
        <5> QED
          BY <2>4, <5>1, <5>2, Zenon
      <4>3. ~undecoded'
        BY <1>2, <4>2, Zenon
      <4> QED
        BY <1>1, <4>1, <4>3
    <3> QED
      BY <1>1, <2>2, <3>1 DEF FilesOK
  <2> QED
    BY <2>3, <2>4
<1> QED
  BY <1>1, <1>6, <1>7, <1>8, <1>9, <1>10, <1>11, ServerStays DEF StreamInv

\* The last worker is done.
LEMMA CloseResultsIsSafe ==
    ASSUME StreamInv, CloseResults
    PROVE  StreamInv'
<1>1. /\ stage = "wait" /\ stage' = "collect" /\ \A w \in Workers : worker[w].step = "ready"
      /\ files' = files /\ at' = at /\ lines' = lines /\ undecoded' = undecoded
      /\ worker' = worker /\ buffer' = buffer /\ exit' = exit /\ errors' = errors
      /\ UNCHANGED server
  BY DEF CloseResults
<1>2. (\A w \in Workers : WorkerOK(w)') /\ BufferOK'
  BY <1>1, LinesGrow DEF StreamInv, CommandTypeOK
<1>3. \A k \in 1..Len(lines') : LineOK(k)'
  BY <1>1 DEF StreamInv, LineOK, Right, InFlight, Working, server
<1>4. CommandTypeOK' /\ OwnLines' /\ Quiescent' /\ FilesOK' /\ ExitCodeIsTrue'
  BY <1>1 DEF StreamInv, CommandTypeOK, OwnLines, Working, Quiescent, FilesOK, ExitCodeIsTrue
<1> QED
  BY <1>1, <1>2, <1>3, <1>4, ServerStays DEF StreamInv

\* The server takes the result up in a request nobody waits for.
LEMMA FreeSlotTaken ==
    ASSUME FreeSlots # {}
    PROVE  (CHOOSE c \in FreeSlots : \A d \in FreeSlots : c <= d) \in FreeSlots
<1> DEFINE Less == {ss \in Nat \X Nat : ss[1] < ss[2]}
<1>1. FreeSlots \subseteq Nat
  BY StreamAssumption DEF FreeSlots
<1>2. IsWellFoundedOn(Less, Nat)
  BY NatLessThanWellFounded, Zenon DEF OpToRel
<1>3. PICK c \in FreeSlots : \A d \in FreeSlots : ~(<<d, c>> \in Less)
  <2> HIDE DEF Less
  <2>1. PICK x : x \in FreeSlots
    OBVIOUS
  <2> QED
    BY <1>1, <1>2, <2>1, WFMin
<1>4. ASSUME NEW d \in FreeSlots PROVE c <= d
  <2>1. <<d, c>> \in Nat \X Nat /\ ~(<<d, c>> \in Less)
    BY <1>1, <1>3
  <2> QED
    BY <2>1
<1> QED
  BY <1>4

\* A worker posts its item.
LEMMA PostIsSafe ==
    ASSUME StreamInv, NEW w \in Workers, Post(w)
    PROVE  StreamInv'
<1> DEFINE item == lines[worker[w].line].item
<1>1. PICK c \in FreeSlots : /\ Begin(c, item.key, item.payload)
                             /\ worker' = [worker EXCEPT ![w].step = "await", ![w].slot = c]
  BY FreeSlotTaken DEF Post
<1>2. /\ worker[w].step = "call" /\ stage' = stage /\ files' = files /\ at' = at /\ lines' = lines
      /\ undecoded' = undecoded /\ buffer' = buffer /\ exit' = exit /\ errors' = errors
  BY DEF Post
<1>3. item \in Submission /\ c \in Requests /\ ~Busy(c) /\ \A v \in Workers : worker[v].slot # c
  BY <1>2 DEF StreamInv, WorkerOK, Working, FreeSlots, Busy
<1>4. ServerInv'
  BY <1>1, <1>3, ServerStep DEF StreamInv, ServerNext
<1>5. /\ sub'[c] = item /\ pc'[c] # "idle" /\ answers' = answers /\ reply' = reply
      /\ \A d \in Requests \ {c} : pc'[d] = pc[d] /\ sub'[d] = sub[d]
  <2>1. [key |-> item.key, payload |-> item.payload] = item
    BY <1>3 DEF Submission
  <2> HIDE DEF item
  <2> QED
    BY <1>1, <1>3, <2>1 DEF Begin, StreamInv, ServerInv, TypeOK
<1>6. /\ worker'[w].step = "await" /\ worker'[w].slot = c /\ worker'[w].line = worker[w].line
      /\ \A v \in Workers \ {w} : worker'[v] = worker[v]
      /\ worker' \in [Workers -> [step : {"ready", "call", "await", "report"}, line : Nat,
                                  slot : Requests \cup {NoSlot}, id : Nat]]
  BY <1>1, <1>3 DEF StreamInv, CommandTypeOK
<1>7. WorkerOK(w)'
  BY <1>2, <1>3, <1>5, <1>6 DEF StreamInv, WorkerOK, Working, Open, Busy
<1>8. ASSUME NEW v \in Workers \ {w} PROVE WorkerOK(v)'
  <2>1. WorkerOK(v) /\ worker'[v] = worker[v] /\ worker[v].slot # c
    BY <1>3, <1>6 DEF StreamInv
  <2> QED
    BY <1>2, <1>5, <2>1 DEF WorkerOK, Working, Open, Right, Busy
<1>9. CommandTypeOK' /\ BufferOK'
  <2>1. CommandTypeOK'
    BY <1>2, <1>6, Zenon DEF StreamInv, CommandTypeOK
  <2>2. \A m : MessageOK(m) => MessageOK(m)'
    BY <1>2, <1>5, Zenon DEF MessageOK, Open, Right
  <2>3. BufferOK
    BY DEF StreamInv
  <2> QED
    BY <1>2, <2>1, <2>2, <2>3, Zenon DEF BufferOK
<1>10. \A v \in Workers : (Working(v)' <=> Working(v)) /\ worker'[v].line = worker[v].line
  BY <1>2, <1>6 DEF Working
<1>11. OwnLines'
  <2>1. \A v, u \in Workers : worker'[v].step = "await" /\ worker'[u].step = "await" /\ v # u =>
                                 worker'[v].slot # worker'[u].slot
    BY <1>3, <1>6 DEF StreamInv, OwnLines
  <2> QED
    BY <1>2, <1>10, <2>1 DEF StreamInv, OwnLines
<1>12. \A k \in 1..Len(lines') : LineOK(k)'
  BY <1>2, <1>5, <1>10 DEF StreamInv, LineOK, Right, InFlight
<1>13. Quiescent' /\ FilesOK' /\ ExitCodeIsTrue'
  BY <1>2, <1>10 DEF StreamInv, Quiescent, FilesOK, ExitCodeIsTrue
<1> QED
  BY <1>4, <1>7, <1>8, <1>9, <1>11, <1>12, <1>13 DEF StreamInv

\* A worker has its request's outcome, or has lost it; the line is its own, so no one
\* else's is marked.
LEMMA OutcomeIsSafe ==
    ASSUME StreamInv, NEW w \in Workers, NEW id \in Nat, worker[w].step = "await",
           Outcome(w, id), Right(worker[w].line, id),
           reply' = [reply EXCEPT ![worker[w].slot] = NoRef], faults' \in 0..MaxFaults,
           UNCHANGED <<table, results, lastId, pc, sub, kind, refs, answers, conflicts,
                       stage, files, at, lines, undecoded, buffer, exit>>
    PROVE  StreamInv'
<1> DEFINE k == worker[w].line
           c == worker[w].slot
<1>1. /\ WorkerOK(w) /\ Open(k) /\ k \notin errors /\ c \in Requests /\ lines[k].item \in Submission
      /\ lines \in Seq(Line) /\ k \in 1..Len(lines)
  BY DEF StreamInv, CommandTypeOK, WorkerOK, Working, Open
<1>2. ServerInv'
  <2>1. Quiet
    BY <1>1 DEF Quiet, StreamInv, ServerInv, TypeOK, NoRef
  <2> QED
    BY <2>1, ServerStep DEF StreamInv, ServerNext
<1>3. /\ worker'[w].step = "report" /\ worker'[w].slot = NoSlot /\ worker'[w].line = k
      /\ worker'[w].id = id /\ \A v \in Workers \ {w} : worker'[v] = worker[v]
      /\ worker' \in [Workers -> [step : {"ready", "call", "await", "report"}, line : Nat,
                                  slot : Requests \cup {NoSlot}, id : Nat]]
  <2> DEFINE Record == [step : {"ready", "call", "await", "report"}, line : Nat,
                        slot : Requests \cup {NoSlot}, id : Nat]
  <2>1. /\ worker \in [Workers -> Record] /\ worker[w] \in Record
        /\ worker' = [worker EXCEPT ![w].step = "report", ![w].slot = NoSlot, ![w].id = id]
    BY DEF Outcome, StreamInv, CommandTypeOK
  <2>2. worker'[w] = [[[worker[w] EXCEPT !.step = "report"] EXCEPT !.slot = NoSlot] EXCEPT !.id = id]
    BY <2>1, Zenon
  <2>3. worker'[w].step = "report" /\ worker'[w].slot = NoSlot
    BY <2>1, <2>2
  <2>4. worker'[w].line = k /\ worker'[w].id = id
    BY <2>1, <2>2
  <2>5. \A v \in Workers \ {w} : worker'[v] = worker[v]
    BY <2>1
  <2>6. worker' \in [Workers -> Record]
    BY <2>1
  <2> QED
    BY <2>3, <2>4, <2>5, <2>6
<1>4. errors' = IF id = NoRef THEN errors \cup {k} ELSE errors
  BY DEF Outcome
<1>5. \A d \in Requests \ {c} : reply'[d] = reply[d]
  BY <1>1 DEF StreamInv, ServerInv, TypeOK
<1>6. \A v \in Workers : (Working(v)' <=> Working(v)) /\ worker'[v].line = worker[v].line
  BY <1>3 DEF Working
<1>7. \A v \in Workers \ {w} : /\ Working(v) => worker[v].line # k
                               /\ worker[v].step = "await" => worker[v].slot # c
  BY DEF StreamInv, OwnLines, Working
<1>8. \A i \in 1..Len(buffer) : buffer[i].line # k
  BY DEF StreamInv, OwnLines, Working
<1>9. \A j, x : (Right(j, x)' <=> Right(j, x)) /\ (Open(j)' <=> Open(j))
  BY DEF Right, Open
<1>10. stage \in {"decode", "wait"} /\ stage' = stage
  BY DEF StreamInv, Quiescent, CommandTypeOK, Working
<1>11. WorkerOK(w)'
  <2>1. Right(k, id) /\ (id = NoRef <=> k \in errors') /\ lines' = lines
    BY <1>1, <1>4
  <2> HIDE DEF k, c
  <2> QED
    BY <1>1, <1>3, <1>9, <2>1 DEF WorkerOK, Working
<1>12. ASSUME NEW v \in Workers \ {w} PROVE WorkerOK(v)'
  <2>1. /\ WorkerOK(v) /\ worker'[v] = worker[v]
        /\ Working(v) => (worker[v].line \in errors' <=> worker[v].line \in errors)
        /\ worker[v].step = "await" => reply'[worker[v].slot] = reply[worker[v].slot]
    BY <1>3, <1>4, <1>5, <1>7 DEF StreamInv, WorkerOK
  <2> HIDE DEF k, c
  <2> QED
    BY <1>9, <2>1 DEF WorkerOK, Working, Busy
<1>13. BufferOK'
  BY <1>4, <1>8, <1>9 DEF StreamInv, BufferOK, MessageOK
<1>14. CommandTypeOK'
  BY <1>1, <1>3, <1>4 DEF StreamInv, CommandTypeOK
<1>15. OwnLines'
  <2>1. \A v, u \in Workers : worker'[v].step = "await" /\ worker'[u].step = "await" /\ v # u =>
                                 worker'[v].slot # worker'[u].slot
    BY <1>3 DEF StreamInv, OwnLines
  <2> QED
    BY <1>6, <2>1 DEF StreamInv, OwnLines
<1>16. ASSUME NEW j \in 1..Len(lines') PROVE LineOK(j)'
  <2>1. LineOK(j) /\ (InFlight(j) => InFlight(j)') /\ (lines[j].id # NoRef => j # k)
    BY <1>1, <1>6 DEF StreamInv, InFlight, Open
  <2>2. Right(j, lines[j].id)'
    BY <1>9, <2>1 DEF LineOK
  <2> HIDE DEF k, c
  <2> QED
    BY <1>4, <2>1, <2>2 DEF LineOK
<1>17. Quiescent' /\ FilesOK' /\ ExitCodeIsTrue'
  <2>1. errors \subseteq errors' /\ (errors \subseteq 1..Len(lines) => errors' \subseteq 1..Len(lines'))
    BY <1>1, <1>4
  <2> HIDE DEF k, c
  <2> QED
    BY <1>6, <1>10, <2>1 DEF StreamInv, Quiescent, FilesOK, ExitCodeIsTrue
<1> QED
  BY <1>2, <1>11, <1>12, <1>13, <1>14, <1>15, <1>16, <1>17 DEF StreamInv

\* A worker has, or loses, its answer.
LEMMA AnsweredIsSafe ==
    ASSUME StreamInv, NEW w \in Workers, Answered(w) \/ LoseAnswer(w)
    PROVE  StreamInv'
<1>1. worker[w].step = "await" /\ WorkerOK(w) /\ worker[w].slot \in Requests
  BY DEF StreamInv, WorkerOK, Answered, LoseAnswer
<1>2. CASE Answered(w)
  <2>1. Right(worker[w].line, reply[worker[w].slot]) /\ reply[worker[w].slot] \in Nat
    BY <1>1, <1>2 DEF Answered, WorkerOK, Busy, StreamInv, ServerInv, TypeOK
  <2>2. faults' \in 0..MaxFaults
    BY <1>2 DEF Answered, StreamInv, ServerInv, TypeOK
  <2> QED
    BY <1>1, <1>2, <2>1, <2>2, OutcomeIsSafe DEF Answered
<1>3. CASE LoseAnswer(w)
  <2>1. Right(worker[w].line, NoRef) /\ NoRef \in Nat
    BY DEF Right, NoRef
  <2>2. faults' \in 0..MaxFaults
    BY <1>3, SubmissionsAssumption DEF LoseAnswer, StreamInv, ServerInv, TypeOK
  <2> QED
    BY <1>1, <1>3, <2>1, <2>2, OutcomeIsSafe DEF LoseAnswer
<1> QED
  BY <1>2, <1>3

\* A worker sends its line.
LEMMA SendResultIsSafe ==
    ASSUME StreamInv, NEW w \in Workers, SendResult(w)
    PROVE  StreamInv'
<1> DEFINE k == worker[w].line
           b == [line |-> k, id |-> worker[w].id]
           n == Len(buffer) + 1
           Message == [line : Nat, id : Nat]
<1>1. /\ worker[w].step = "report" /\ buffer' = Append(buffer, b)
      /\ worker' = [worker EXCEPT ![w] = Ready]
      /\ stage' = stage /\ files' = files /\ at' = at /\ lines' = lines /\ undecoded' = undecoded
      /\ exit' = exit /\ errors' = errors /\ UNCHANGED server
  BY DEF SendResult
<1>2. /\ WorkerOK(w) /\ Working(w) /\ Open(k) /\ Right(k, worker[w].id)
      /\ worker[w].id = NoRef <=> k \in errors
  BY <1>1 DEF StreamInv, WorkerOK, Working
<1>3. b \in Message /\ buffer \in Seq(Message) /\ b.line = k /\ b.id = worker[w].id
  BY <1>1 DEF StreamInv, CommandTypeOK
<1> HIDE DEF b
<1>4. /\ buffer' \in Seq(Message) /\ Len(buffer') = n /\ Len(buffer) \in Nat /\ buffer'[n] = b
      /\ \A i \in 1..Len(buffer) : buffer'[i] = buffer[i]
  BY <1>1, <1>3, AppendProperties
<1>5. /\ worker'[w] = Ready /\ ~Working(w)' /\ \A v \in Workers \ {w} : worker'[v] = worker[v]
      /\ worker' \in [Workers -> [step : {"ready", "call", "await", "report"}, line : Nat,
                                  slot : Requests \cup {NoSlot}, id : Nat]]
  BY <1>1 DEF StreamInv, CommandTypeOK, Working, Ready, NoRef
<1>6. \A v \in Workers \ {w} : WorkerOK(v)'
  BY <1>1, <1>5, LinesGrow DEF StreamInv, CommandTypeOK
<1>7. WorkerOK(w)'
  BY <1>5 DEF WorkerOK, Working, Ready
<1>8. \A j, x : (Right(j, x)' <=> Right(j, x)) /\ (Open(j)' <=> Open(j))
  BY <1>1 DEF Right, Open, server
<1>9. BufferOK'
  <2>1. ASSUME NEW m PROVE MessageOK(m) => MessageOK(m)'
    BY <1>1, <1>8 DEF MessageOK
  <2>2. MessageOK(b)
    BY <1>2, <1>3 DEF MessageOK
  <2>3. ASSUME NEW i \in 1..Len(buffer') PROVE MessageOK(buffer'[i])
    <3>1. i = n \/ i \in 1..Len(buffer)
      BY <1>4
    <3> QED
      BY <1>4, <2>2, <3>1 DEF StreamInv, BufferOK
  <2> QED
    BY <2>1, <2>3 DEF BufferOK
<1>10. \A v \in Workers : Working(v)' => Working(v) /\ v # w /\ worker'[v] = worker[v]
  BY <1>5 DEF Working
<1>11. OwnLines'
  <2>1. \A v \in Workers \ {w} : Working(v) => worker[v].line # k
    BY <1>2 DEF StreamInv, OwnLines
  <2>2. \A i \in 1..Len(buffer) : buffer[i].line # k
    BY <1>2 DEF StreamInv, OwnLines
  <2>3. \A i \in 1..Len(buffer') :
           \/ i = n /\ buffer'[i].line = k
           \/ i \in 1..Len(buffer) /\ buffer'[i].line = buffer[i].line
    <3>1. \A i \in 1..Len(buffer') : i = n \/ i \in 1..Len(buffer)
      BY <1>4
    <3> QED
      BY <1>3, <1>4, <3>1
  <2> HIDE DEF n, k
  <2>4. \A i, j \in 1..Len(buffer') : i # j => buffer'[i].line # buffer'[j].line
    BY <2>2, <2>3 DEF StreamInv, OwnLines
  <2>5. \A v \in Workers, i \in 1..Len(buffer') : Working(v)' => worker'[v].line # buffer'[i].line
    BY <1>10, <2>1, <2>3 DEF StreamInv, OwnLines
  <2>6. \A v \in Workers : worker'[v].step = "await" => v # w /\ worker'[v] = worker[v]
    BY <1>5 DEF Ready
  <2> QED
    BY <1>10, <2>4, <2>5, <2>6 DEF StreamInv, OwnLines
<1>12. ASSUME NEW j \in 1..Len(lines') PROVE LineOK(j)'
  <2>1. LineOK(j) /\ Right(j, lines[j].id)'
    BY <1>1, <1>8 DEF StreamInv, LineOK
  <2>2. InFlight(j) => InFlight(j)'
    <3>1. n \in 1..Len(buffer') /\ 1..Len(buffer) \subseteq 1..Len(buffer')
      BY <1>4
    <3>2. \A v \in Workers \ {w} : Working(v) => Working(v)' /\ worker'[v].line = worker[v].line
      BY <1>5 DEF Working
    <3> QED
      BY <1>3, <1>4, <3>1, <3>2 DEF InFlight
  <2> QED
    BY <1>1, <2>1, <2>2 DEF LineOK
<1>13. stage \in {"decode", "wait"}
  BY <1>2 DEF StreamInv, Quiescent, CommandTypeOK
<1>14. CommandTypeOK' /\ Quiescent' /\ FilesOK' /\ ExitCodeIsTrue'
  BY <1>1, <1>4, <1>5, <1>13 DEF StreamInv, CommandTypeOK, Quiescent, FilesOK, ExitCodeIsTrue
<1> QED
  BY <1>1, <1>6, <1>7, <1>9, <1>11, <1>12, <1>14, ServerStays DEF StreamInv

\* What taking the head of a sequence leaves.
LEMMA FirstOf ==
    ASSUME NEW S, NEW s \in Seq(S), s # <<>>
    PROVE  /\ Head(s) \in S /\ Head(s) = s[1] /\ 1 \in 1..Len(s) /\ Len(s) \in Nat
           /\ Tail(s) \in Seq(S) /\ Len(Tail(s)) = Len(s) - 1
           /\ \A i \in 1..Len(Tail(s)) : Tail(s)[i] = s[i + 1] /\ i + 1 \in 1..Len(s)
<1>1. Len(s) \in Nat \ {0}
  BY EmptySeq
<1> QED
  BY <1>1, HeadTailProperties

\* What replacing one element of a sequence leaves.
LEMMA Replaced ==
    ASSUME NEW S, NEW s \in Seq(S), NEW i \in 1..Len(s), NEW e \in S, NEW t, t = [s EXCEPT ![i] = e]
    PROVE  /\ t \in Seq(S) /\ Len(t) = Len(s) /\ t[i] = e
           /\ \A j \in 1..Len(s) : j # i => t[j] = s[j]
  OBVIOUS

\* The collector takes a line.
LEMMA CollectIsSafe ==
    ASSUME StreamInv, Collect
    PROVE  StreamInv'
<1> DEFINE b == Head(buffer)
           k == b.line
           Message == [line : Nat, id : Nat]
<1>1. /\ stage \notin {"idle", "exited"} /\ buffer # <<>> /\ buffer' = Tail(buffer)
      /\ stage' = stage /\ files' = files /\ at' = at /\ undecoded' = undecoded
      /\ worker' = worker /\ exit' = exit /\ errors' = errors /\ UNCHANGED server
  BY DEF Collect, Collects
<1>2. /\ buffer \in Seq(Message) /\ b \in Message /\ b = buffer[1] /\ 1 \in 1..Len(buffer)
      /\ buffer' \in Seq(Message) /\ Len(buffer') = Len(buffer) - 1 /\ Len(buffer) \in Nat
      /\ \A i \in 1..Len(buffer') : buffer'[i] = buffer[i + 1] /\ i + 1 \in 1..Len(buffer)
  <2>1. buffer \in Seq(Message)
    BY DEF StreamInv, CommandTypeOK
  <2> HIDE DEF Message
  <2> QED
    BY <1>1, <2>1, FirstOf
<1>3. /\ Open(k) /\ Right(k, b.id) /\ (b.id = NoRef <=> k \in errors) /\ b.id \in Nat
      /\ lines \in Seq(Line) /\ k \in 1..Len(lines)
  <2>1. MessageOK(b)
    BY <1>2, Zenon DEF StreamInv, BufferOK
  <2>2. lines \in Seq(Line)
    BY DEF StreamInv, CommandTypeOK
  <2>3. b.id \in Nat
    BY <1>2, Zenon DEF Message
  <2>4. k \in DOMAIN lines
    BY <2>1, Zenon DEF MessageOK, Open
  <2>5. k \in 1..Len(lines)
    <3> HIDE DEF k
    <3> QED
      BY <2>2, <2>4
  <2> QED
    BY <2>1, <2>2, <2>3, <2>5, Zenon DEF MessageOK
<1> HIDE DEF b
<1>4. /\ lines' \in Seq(Line) /\ Len(lines') = Len(lines) /\ lines'[k].id = b.id
      /\ \A j \in 1..Len(lines) : lines'[j].item = lines[j].item
      /\ \A j \in 1..Len(lines) : j # k => lines'[j] = lines[j]
  <2> DEFINE e == [lines[k] EXCEPT !.id = b.id]
  <2>1. lines' = [lines EXCEPT ![k] = e]
    BY Zenon DEF Collect, LineIndex, b
  <2>2. e \in Line /\ e.id = b.id /\ e.item = lines[k].item
    <3>1. lines[k] \in Line
      BY <1>3, ElementOfSeq
    <3> QED
      BY <1>3, <3>1, Zenon DEF Line
  <2> HIDE DEF e, k
  <2>3. /\ lines' \in Seq(Line) /\ Len(lines') = Len(lines) /\ lines'[k] = e
        /\ \A j \in 1..Len(lines) : j # k => lines'[j] = lines[j]
    BY <1>3, <2>1, <2>2, Replaced
  <2> QED
    BY <1>3, <2>2, <2>3
<1>5. /\ \A i \in 1..Len(buffer') : buffer'[i].line # k
      /\ \A w \in Workers : Working(w) => worker[w].line # k
  <2>1. /\ \A i, j \in 1..Len(buffer) : i # j => buffer[i].line # buffer[j].line
        /\ \A w \in Workers, i \in 1..Len(buffer) : Working(w) => worker[w].line # buffer[i].line
    BY Zenon DEF StreamInv, OwnLines
  <2>2. ASSUME NEW i \in 1..Len(buffer') PROVE buffer'[i].line # k
    <3>1. buffer'[i] = buffer[i + 1] /\ i + 1 \in 1..Len(buffer)
      BY <1>2, Zenon
    <3>2. i + 1 # 1
      OBVIOUS
    <3> QED
      BY <1>2, <2>1, <3>1, <3>2, Zenon
  <2>3. \A w \in Workers : Working(w) => worker[w].line # k
    BY <1>2, <2>1, Zenon
  <2> QED
    BY <2>2, <2>3
<1>6. /\ \A j \in 1..Len(lines) : \A x : Right(j, x) => Right(j, x)'
      /\ \A j : Open(j) /\ j # k => Open(j)' /\ j \in 1..Len(lines) /\ lines'[j] = lines[j]
  BY <1>1, <1>3, <1>4, SMTT(40) DEF Right, Open, server
<1>7. ASSUME NEW w \in Workers PROVE WorkerOK(w)'
  <2>1. WorkerOK(w) /\ (Working(w) => worker[w].line # k)
    BY <1>5 DEF StreamInv
  <2> HIDE DEF k
  <2> QED
    BY <1>1, <1>6, <2>1 DEF WorkerOK, Working, Busy, server
<1>8. BufferOK'
  BY <1>1, <1>2, <1>5, <1>6 DEF StreamInv, BufferOK, MessageOK
<1>9. CommandTypeOK'
  BY <1>1, <1>2, <1>4 DEF StreamInv, CommandTypeOK
<1>10. OwnLines'
  <2>1. \A i, j \in 1..Len(buffer') : i # j => i + 1 # j + 1
    OBVIOUS
  <2>2. OwnLines /\ worker' = worker /\ (\A w \in Workers : Working(w)' = Working(w))
    BY <1>1 DEF StreamInv, Working
  <2>3. \A i \in 1..Len(buffer') : buffer'[i] = buffer[i + 1] /\ i + 1 \in 1..Len(buffer)
    BY <1>2, Zenon
  <2>4. \A i, j \in 1..Len(buffer') : i # j => buffer'[i].line # buffer'[j].line
    BY <2>1, <2>2, <2>3, Zenon DEF OwnLines
  <2>5. \A w \in Workers, i \in 1..Len(buffer') : Working(w) => worker[w].line # buffer'[i].line
    BY <2>2, <2>3, Zenon DEF OwnLines
  <2> QED
    BY <2>2, <2>4, <2>5, Zenon DEF OwnLines
<1>11. ASSUME NEW j \in 1..Len(lines') PROVE LineOK(j)'
  <2>1. j \in 1..Len(lines) /\ LineOK(j)
    BY <1>4 DEF StreamInv
  <2>2. CASE j = k
    <3>1. Right(k, b.id) => Right(j, lines[j].id)'
      BY <1>1, <1>4, <2>2 DEF Right, server
    <3> QED
      BY <1>1, <1>3, <1>4, <2>2, <3>1 DEF LineOK
  <2>3. CASE j # k
    <3>1. Right(j, lines[j].id)' /\ lines'[j] = lines[j]
      BY <1>4, <1>6, <2>1, <2>3 DEF LineOK
    <3>2. InFlight(j) => InFlight(j)'
      <4>1. ASSUME NEW i \in 1..Len(buffer), buffer[i].line = j PROVE InFlight(j)'
        <5>1. i # 1 /\ i - 1 \in 1..Len(buffer') /\ (i - 1) + 1 = i
          BY <1>2, <2>3, <4>1
        <5>2. buffer'[i - 1] = buffer[i]
          BY <1>2, <5>1
        <5> QED
          BY <4>1, <5>1, <5>2 DEF InFlight
      <4>2. ASSUME NEW w \in Workers, Working(w), worker[w].line = j PROVE InFlight(j)'
        BY <1>1, <4>2 DEF InFlight, Working
      <4> QED
        BY <4>1, <4>2 DEF InFlight
    <3> QED
      BY <1>1, <2>1, <3>1, <3>2 DEF LineOK
  <2> QED
    BY <2>2, <2>3
<1>12. Quiescent' /\ FilesOK' /\ ExitCodeIsTrue'
  BY <1>1, <1>4 DEF StreamInv, Quiescent, FilesOK, ExitCodeIsTrue, Working
<1> QED
  BY <1>1, <1>7, <1>8, <1>9, <1>10, <1>11, <1>12, ServerStays DEF StreamInv

\* The lines are read when nothing is on its way: a line without an id is an error, and an
\* error is a line without an id.
LEMMA ReportIsSafe ==
    ASSUME StreamInv, Report
    PROVE  StreamInv'
<1>1. /\ stage = "collect" /\ buffer = <<>> /\ stage' = "exited" /\ exit' = ExitCode
      /\ lines' = IF undecoded THEN <<>> ELSE lines
      /\ files' = files /\ at' = at /\ undecoded' = undecoded
      /\ worker' = worker /\ buffer' = buffer /\ errors' = errors /\ UNCHANGED server
  BY DEF Report
<1>2. /\ \A w \in Workers : ~Working(w) /\ worker[w].step = "ready" /\ worker[w].slot = NoSlot
      /\ Len(buffer) = 0 /\ errors \subseteq 1..Len(lines) /\ lines \in Seq(Line)
  BY <1>1 DEF StreamInv, Quiescent, Working, WorkerOK, CommandTypeOK
<1>3. \A w \in Workers : WorkerOK(w)' /\ ~Working(w)'
  BY <1>1, <1>2 DEF WorkerOK, Working
<1>4. BufferOK' /\ OwnLines'
  BY <1>1, <1>2, <1>3 DEF BufferOK, OwnLines, Working
<1>5. \A k \in 1..Len(lines) : lines[k].id = NoRef <=> k \in errors
  BY <1>2 DEF StreamInv, LineOK, InFlight
<1>6. exit' \in {"ok", "failed"} /\ (exit' = "failed" <=> undecoded \/ errors # {})
  <2>1. (\E k \in DOMAIN lines : lines[k].id = NoRef) <=> errors # {}
    <3>1. DOMAIN lines = 1..Len(lines)
      BY <1>2, LenProperties
    <3> QED
      BY <1>2, <1>5, <3>1, Zenon
  <2> QED
    BY <1>1, <2>1, Zenon DEF ExitCode
<1>7. ExitCodeIsTrue'
  <2>1. /\ undecoded => \E i \in 1..Len(files) : ~files[i].ok
        /\ errors # {} \/ undecoded \/ \A i \in 1..Len(files) : files[i].ok
    BY <1>1 DEF StreamInv, FilesOK
  <2>2. DOMAIN files' = 1..Len(files) /\ files' = files /\ errors' = errors
    BY <1>1, LenProperties DEF StreamInv, CommandTypeOK
  <2>3. exit' = "ok" <=> ~(exit' = "failed")
    BY <1>6
  <2>4. exit' = "ok" <=> ~undecoded /\ errors = {}
    BY <1>6, <2>3, Zenon
  <2>5. exit' = "ok" <=> errors = {} /\ \A i \in 1..Len(files) : files[i].ok
    BY <2>1, <2>4, Zenon
  <2> QED
    BY <2>2, <2>5, Zenon DEF ExitCodeIsTrue
<1>8. /\ lines' \in Seq(Line) /\ Len(lines') \in {0, Len(lines)}
      /\ Len(lines') # 0 => lines' = lines
  BY <1>1, <1>2, EmptySeq
<1>9. \A k \in 1..Len(lines') : LineOK(k)'
  <2>1. CASE Len(lines') = 0
    BY <2>1
  <2>2. CASE Len(lines') # 0
    BY <1>1, <1>5, <1>8, <2>2 DEF StreamInv, LineOK, Right, server
  <2> QED
    BY <2>1, <2>2
<1>10. CommandTypeOK'
  BY <1>1, <1>6, <1>8 DEF StreamInv, CommandTypeOK
<1>11. Quiescent' /\ FilesOK'
  BY <1>1, <1>3 DEF Quiescent, FilesOK
<1> QED
  BY <1>1, <1>3, <1>4, <1>7, <1>9, <1>10, <1>11, ServerStays DEF StreamInv

\* Every step keeps the invariant.
LEMMA StreamStep == StreamInv /\ [StreamNext]_vars => StreamInv'
<1> SUFFICES ASSUME StreamInv, [StreamNext]_vars PROVE StreamInv'
  OBVIOUS
<1>1. CASE UNCHANGED vars
  <2>1. /\ stage' = stage /\ files' = files /\ at' = at /\ lines' = lines /\ undecoded' = undecoded
        /\ worker' = worker /\ buffer' = buffer /\ exit' = exit /\ errors' = errors
        /\ UNCHANGED server
    BY <1>1 DEF vars, command
  <2>2. (\A w \in Workers : WorkerOK(w)') /\ BufferOK'
    BY <2>1, LinesGrow DEF StreamInv, CommandTypeOK
  <2>3. \A k \in 1..Len(lines') : LineOK(k)'
    BY <2>1 DEF StreamInv, LineOK, Right, InFlight, Working, server
  <2>4. CommandTypeOK' /\ OwnLines' /\ Quiescent' /\ FilesOK' /\ ExitCodeIsTrue'
    BY <2>1 DEF StreamInv, CommandTypeOK, OwnLines, Working, Quiescent, FilesOK, ExitCodeIsTrue
  <2> QED
    BY <2>1, <2>2, <2>3, <2>4, ServerStays DEF StreamInv
<1>2. ASSUME Stream PROVE StreamInv'
  BY <1>2, EndOfFileIsSafe, CloseResultsIsSafe, CollectIsSafe, ReportIsSafe DEF Stream
<1>3. ASSUME NEW w \in Workers, Work(w) \/ LoseAnswer(w) PROVE StreamInv'
  BY <1>3, YieldIsSafe, PostIsSafe, AnsweredIsSafe, SendResultIsSafe DEF Work
<1> QED
  BY <1>1, <1>2, <1>3, InvokeIsSafe, ServerSteps DEF StreamNext

\* Every step of the whole system is one of the abstract store, or leaves it alone.
LEMMA StreamImplements == StreamInv /\ [StreamNext]_vars => StoreStep
<1> SUFFICES ASSUME StreamInv, [StreamNext]_vars PROVE StoreStep
  OBVIOUS
<1>1. UNCHANGED <<results, answers, conflicts>> => StoreStep
  BY DEF StoreStep, Keyed
<1>2. ASSUME NEW w \in Workers, Work(w) \/ LoseAnswer(w) PROVE UNCHANGED <<results, answers, conflicts>>
  BY <1>2 DEF Work, LoseAnswer, Yield, Post, Answered, SendResult, Begin, server
<1>3. ASSUME Stream \/ \E list \in FileLists : Invoke(list)
      PROVE  UNCHANGED <<results, answers, conflicts>>
  BY <1>3 DEF Stream, EndOfFile, CloseResults, Collect, Report, Invoke, server
<1>4. ASSUME \/ \E c \in Requests : Submit(c) \/ Abort(c)
             \/ \E r \in results : DeleteResult(r)
      PROVE  StoreStep
  BY <1>4, ServerImplements DEF ServerNext, StreamInv
<1>5. CASE UNCHANGED vars
  BY <1>1, <1>5 DEF vars, server
<1> QED
  BY <1>1, <1>2, <1>3, <1>4, <1>5 DEF StreamNext

-----------------------------------------------------------------------------

\* The invariant of the command and the server holds of every reachable state.
THEOREM StreamInvariant == StreamSpec => []StreamInv
  BY StreamStart, StreamStep, PTL DEF StreamSpec

\* A series never forks: however first submissions race, getOrCreate's unique indexes and
\* its second SELECT give two results of one series the same history fingerprint.
THEOREM SeriesNeverForksAlways == StreamSpec => []SeriesNeverForks
<1>1. StreamInv => SeriesNeverForks
  BY SeriesFollow DEF StreamInv
<1> QED
  BY <1>1, StreamInvariant, PTL

\* Submit's statements, interleaved, retried and cut short, implement the atomic store that
\* a submission key promises: one result per key, the same answer to the same content.
THEOREM SubmitImplementsStore == StreamSpec => ImplementsStore
<1>1. StreamInit => Abstract!StoreInit
  BY DEF StreamInit, Init, Abstract!StoreInit, Keyed
<1>2. StreamInv /\ [StreamNext]_vars =>
         [Abstract!StoreNext]_<<Keyed(results), Keyed(answers), conflicts>>
  BY StreamImplements DEF StoreStep
<1> QED
  BY <1>1, <1>2, StreamInvariant, PTL DEF StreamSpec, ImplementsStore, Abstract!StoreSpec

\* Every line of submit's report shows the id that its own result was given.
THEOREM LinesAreTheirItemsAlways == StreamSpec => []LinesAreTheirItems
<1>1. ASSUME StreamInv PROVE LinesAreTheirItems
  <2>1. DOMAIN lines = 1..Len(lines)
    BY <1>1 DEF StreamInv, CommandTypeOK
  <2>2. \A k \in DOMAIN lines : Right(k, lines[k].id)
    BY <1>1, <2>1 DEF StreamInv, LineOK
  <2> QED
    BY <2>2 DEF Right, LinesAreTheirItems
<1>2. StreamInv => LinesAreTheirItems
  BY <1>1
<1> QED
  BY <1>2, StreamInvariant, PTL

\* The command exits 0 exactly when every file was read to its end and every result stored.
THEOREM ExitCodeIsTrueAlways == StreamSpec => []ExitCodeIsTrue
<1>1. StreamInv => ExitCodeIsTrue
  BY DEF StreamInv
<1> QED
  BY <1>1, StreamInvariant, PTL


-----------------------------------------------------------------------------
(* PUT and DELETE of a stored result (module Annotations). *)

\* A PUT that is not stale read the map that is stored now.
UpdaterOK(u) == putAt[u] = "update" /\ present /\ u \notin stale => old[u] = stored

\* The inductive invariant: a deleted row has no map, and an update is lost only by
\* a PUT whose read is older than another one's write.
ChangesInv ==
    /\ putAt \in [Updaters -> {"idle", "load", "update"}]
    /\ old \in [Updaters -> {old[u] : u \in Updaters}]
    /\ present \in BOOLEAN
    /\ UpdatesMergeUnlessOverlapped
    /\ \A u \in Updaters : UpdaterOK(u)

\* A request that ends leaves the others as they are.
LEMMA IdleKeepsOthers ==
    ASSUME ChangesInv, NEW u \in Updaters, Idle(u), present' = present, stored' = stored
    PROVE  /\ putAt' \in [Updaters -> {"idle", "load", "update"}]
           /\ old' \in [Updaters -> {old'[v] : v \in Updaters}]
           /\ \A v \in Updaters : UpdaterOK(v)'
<1>1. /\ putAt' = [putAt EXCEPT ![u] = "idle"] /\ old' = [old EXCEPT ![u] = Empty]
      /\ stale' = stale \ {u}
    BY DEF Idle
<1>2. putAt' \in [Updaters -> {"idle", "load", "update"}] /\ putAt'[u] = "idle"
    BY <1>1 DEF ChangesInv
<1>3. old' \in [Updaters -> {old'[v] : v \in Updaters}]
    BY <1>1 DEF ChangesInv
<1>4. ASSUME NEW v \in Updaters PROVE UpdaterOK(v)'
  <2>1. CASE v = u
    BY <1>2, <2>1 DEF UpdaterOK
  <2>2. CASE v # u
    BY <1>1, <2>2 DEF ChangesInv, UpdaterOK
  <2> QED
    BY <2>1, <2>2
<1> QED
    BY <1>2, <1>3, <1>4

\* Every step of a PUT or a DELETE keeps the invariant.
LEMMA ChangesStep == ChangesInv /\ [PutNext]_putVars => ChangesInv'
<1> SUFFICES ASSUME ChangesInv, [PutNext]_putVars PROVE ChangesInv'
    OBVIOUS
<1>1. ASSUME NEW u \in Updaters, NEW body, Put(u, body) PROVE ChangesInv'
  <2>1. /\ putAt' = [putAt EXCEPT ![u] = "load"] /\ present' = present /\ stored' = stored /\ old' = old
        /\ serial' = serial /\ stale' = stale /\ lost' = lost
    BY <1>1 DEF Put
  <2>2. \A v \in Updaters : UpdaterOK(v)'
    BY <2>1 DEF ChangesInv, UpdaterOK
  <2> QED
    BY <2>1, <2>2 DEF ChangesInv, UpdatesMergeUnlessOverlapped
<1>2. ASSUME NEW u \in Updaters, Load(u) PROVE ChangesInv'
  <2>1. present' = present /\ stored' = stored /\ serial' = serial /\ lost' = lost
    BY <1>2 DEF Load
  <2>2. CASE present
    <3>1. /\ putAt' = [putAt EXCEPT ![u] = "update"] /\ old' = [old EXCEPT ![u] = stored]
          /\ stale' = stale
      BY <1>2, <2>2 DEF Load
    <3>2. old'[u] = stored /\ \A v \in Updaters : v # u => old'[v] = old[v] /\ putAt'[v] = putAt[v]
      BY <3>1 DEF ChangesInv
    <3>3. \A v \in Updaters : UpdaterOK(v)'
      BY <2>1, <3>1, <3>2 DEF ChangesInv, UpdaterOK
    <3> QED
      BY <2>1, <3>1, <3>3 DEF ChangesInv, UpdatesMergeUnlessOverlapped
  <2>3. CASE ~present
    <3>1. Idle(u)
      BY <1>2, <2>3 DEF Load
    <3> QED
      BY <2>1, <3>1, IdleKeepsOthers DEF ChangesInv, UpdatesMergeUnlessOverlapped
  <2> QED
    BY <2>2, <2>3 DEF ChangesInv
<1>3. ASSUME NEW u \in Updaters, Update(u) PROVE ChangesInv'
  <2>1. CASE present
    <3>1. /\ stored' = Merged(old[u], given[u]) /\ present'
          /\ serial' = FilterNullValues([k \in AnnotationKeys |->
                          IF given[u][k] = Absent THEN serial[k] ELSE given[u][k]])
          /\ lost' = (lost \/ u \in stale)
          /\ putAt' = [putAt EXCEPT ![u] = "idle"] /\ old' = [old EXCEPT ![u] = Empty]
          /\ stale' = {v \in Updaters \ {u} : putAt[v] = "update"} /\ present' \in BOOLEAN
          /\ putAt[u] = "update"
      BY <1>3, <2>1 DEF Update, WriteFinds
    <3>2. ASSUME ~lost' PROVE stored' = serial'
      <4>1. ~lost /\ u \notin stale
        BY <3>1, <3>2
      <4>2. old[u] = serial
        BY <2>1, <3>1, <4>1 DEF ChangesInv, UpdaterOK, UpdatesMergeUnlessOverlapped
      <4> QED
        BY <3>1, <4>2, Zenon DEF Merged
    <3>3. ASSUME NEW v \in Updaters PROVE UpdaterOK(v)'
      <4>1. putAt'[v] = "update" => v # u /\ putAt[v] = "update"
        BY <3>1 DEF ChangesInv
      <4> QED
        BY <3>1, <4>1 DEF UpdaterOK
    <3>4. putAt' \in [Updaters -> {"idle", "load", "update"}]
          /\ old' \in [Updaters -> {old'[v] : v \in Updaters}]
      BY <3>1 DEF ChangesInv
    <3> QED
      BY <3>1, <3>2, <3>3, <3>4 DEF ChangesInv, UpdatesMergeUnlessOverlapped
  <2>2. CASE ~present
    <3>1. Idle(u) /\ present' = present /\ stored' = stored /\ serial' = serial /\ lost' = lost
      BY <1>3, <2>2 DEF Update, WriteFinds
    <3> QED
      BY <3>1, IdleKeepsOthers DEF ChangesInv, UpdatesMergeUnlessOverlapped
  <2> QED
    BY <2>1, <2>2 DEF ChangesInv
<1>4. CASE DeleteRow
  <2>1. /\ present' = FALSE /\ stored' = serial' /\ putAt' = putAt /\ old' = old
    BY <1>4 DEF DeleteRow
  <2> QED
    BY <2>1 DEF ChangesInv, UpdaterOK, UpdatesMergeUnlessOverlapped
<1>5. CASE UNCHANGED putVars
  <2>1. /\ present' = present /\ stored' = stored /\ putAt' = putAt /\ old' = old /\ serial' = serial
        /\ stale' = stale /\ lost' = lost
    BY <1>5 DEF putVars
  <2> QED
    BY <2>1 DEF ChangesInv, UpdaterOK, UpdatesMergeUnlessOverlapped
<1> QED
    BY <1>1, <1>2, <1>3, <1>4, <1>5 DEF PutNext, Rest

\* For any PUTs of any keys and values: unless one PUT writes over a map that changed
\* after its read (UpdateChangeAnnotations in service/update.go), the stored map is
\* what the accepted bodies give one after another; and no PUT brings back a result
\* that was deleted between its read and its write.
THEOREM UpdatesAndDeletesAlwaysHold == PutSpec => UpdatesAndDeletesHold
<1>1. PutInit => ChangesInv
  <2> SUFFICES ASSUME PutInit PROVE ChangesInv
    OBVIOUS
  <2>1. /\ present = TRUE /\ stored = Empty /\ serial = Empty
        /\ putAt = [u \in Updaters |-> "idle"] /\ old = [u \in Updaters |-> Empty]
    BY DEF PutInit
  <2> QED
    BY <2>1 DEF ChangesInv, UpdaterOK, UpdatesMergeUnlessOverlapped
<1>2. ChangesInv /\ [PutNext]_putVars => ChangesInv'
    BY ChangesStep
<1>3. ChangesInv /\ ChangesInv' /\ [PutNext]_putVars
        => [DeletedStaysDeleted /\ UpdatesMergeUnlessOverlapped']_putVars
  <2> SUFFICES ASSUME ChangesInv, ChangesInv', PutNext
               PROVE  DeletedStaysDeleted /\ UpdatesMergeUnlessOverlapped'
    OBVIOUS
  <2>1. UpdatesMergeUnlessOverlapped'
    BY DEF ChangesInv
  <2>2. DeletedStaysDeleted
    <3> SUFFICES ASSUME ~present, present' PROVE FALSE
      BY DEF DeletedStaysDeleted
    <3>1. \A u \in Updaters : ~Update(u) \/ ~present'
      BY DEF Update, WriteFinds
    <3>2. \A u \in Updaters : ~Load(u) \/ ~present'
      BY DEF Load
    <3>3. \A u \in Updaters, b \in Body : ~Put(u, b) \/ ~present'
      BY DEF Put
    <3>4. ~DeleteRow /\ (~Rest \/ ~present')
      BY DEF DeleteRow, Rest, putVars
    <3> QED
      BY <3>1, <3>2, <3>3, <3>4 DEF PutNext
  <2> QED
    BY <2>1, <2>2
<1> QED
    BY <1>1, <1>2, <1>3, PTL DEF PutSpec, UpdatesAndDeletesHold
=============================================================================
