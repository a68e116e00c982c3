---------------------------- MODULE Annotations ----------------------------
(***************************************************************************)
(* PUT and DELETE of one benchmark result: UpdateChangeAnnotations reads   *)
(* the row, merges in memory and writes the whole map back                 *)
(* (internal/service/update.go); DeleteResult removes the row. Nothing     *)
(* holds the row between the read and the write.                           *)
(***************************************************************************)
EXTENDS Naturals

CONSTANTS
    Updaters,       \* concurrent PUT requests
    AnnotationKeys, Values,
    Null,           \* the JSON null; a stored map never holds it
    Absent,         \* the key is not in the map
    MaxUpdates      \* bound: PUT requests

ASSUME AnnotationsAssumption ==
    /\ MaxUpdates \in Nat
    /\ Null # Absent /\ Null \notin Values /\ Absent \notin Values

VARIABLES
    present,   \* the result exists
    stored,    \* its change_annotations
    putAt, given, old,   \* per request: place, body, the map it read
    serial,    \* history: the accepted bodies merged one after another
    stale,     \* history: requests whose read is older than the last write
    lost,      \* history: such a request has written
    updates

putVars == <<present, stored, putAt, given, old, serial, stale, lost, updates>>

Map == [AnnotationKeys -> Values \cup {Absent}]
Body == [AnnotationKeys -> Values \cup {Null, Absent}]
Empty == [k \in AnnotationKeys |-> Absent]

PutTypeOK ==
    /\ present \in BOOLEAN /\ stored \in Map
    /\ putAt \in [Updaters -> {"idle", "load", "update"}]
    /\ given \in [Updaters -> Body] /\ old \in [Updaters -> Map]
    /\ serial \in Map /\ stale \subseteq Updaters /\ lost \in BOOLEAN
    /\ updates \in 0..MaxUpdates

PutInit ==
    /\ present = TRUE /\ stored = Empty
    /\ putAt = [u \in Updaters |-> "idle"]
    /\ given = [u \in Updaters |-> Empty] /\ old = [u \in Updaters |-> Empty]
    /\ serial = Empty /\ stale = {} /\ lost = FALSE /\ updates = 0

\* A null value deletes its key.
FilterNullValues(m) == [k \in AnnotationKeys |-> IF m[k] = Null THEN Absent ELSE m[k]]

\* Mutant: the stored value wins.
OldWins(m, body) ==
    FilterNullValues([k \in AnnotationKeys |-> IF m[k] = Absent THEN body[k] ELSE m[k]])

\* The given keys over the stored ones.
Merged(m, body) ==
    FilterNullValues([k \in AnnotationKeys |-> IF body[k] = Absent THEN m[k] ELSE body[k]])

Idle(u) ==
    /\ putAt' = [putAt EXCEPT ![u] = "idle"]
    /\ given' = [given EXCEPT ![u] = Empty] /\ old' = [old EXCEPT ![u] = Empty]
    /\ stale' = stale \ {u}

Put(u, body) ==
    /\ putAt[u] = "idle" /\ updates < MaxUpdates
    /\ updates' = updates + 1
    /\ putAt' = [putAt EXCEPT ![u] = "load"] /\ given' = [given EXCEPT ![u] = body]
    /\ UNCHANGED <<present, stored, old, serial, stale, lost>>

\* Reads the row, or answers 404.
Load(u) ==
    /\ putAt[u] = "load"
    /\ IF present
       THEN /\ old' = [old EXCEPT ![u] = stored]
            /\ putAt' = [putAt EXCEPT ![u] = "update"]
            /\ UNCHANGED <<given, stale>>
       ELSE Idle(u)
    /\ UNCHANGED <<present, stored, serial, lost, updates>>

\* UPDATE ... WHERE id: no row, no write.
WriteFinds(u) == present

\* Merges and writes the whole map, or answers 404.
Update(u) ==
    /\ putAt[u] = "update"
    /\ IF WriteFinds(u)
       THEN /\ present' = TRUE
            /\ stored' = Merged(old[u], given[u])
            /\ serial' = FilterNullValues([k \in AnnotationKeys |->
                             IF given[u][k] = Absent THEN serial[k] ELSE given[u][k]])
            /\ lost' = (lost \/ u \in stale)
            /\ putAt' = [putAt EXCEPT ![u] = "idle"]
            /\ given' = [given EXCEPT ![u] = Empty] /\ old' = [old EXCEPT ![u] = Empty]
            /\ stale' = {v \in Updaters \ {u} : putAt[v] = "update"}
       ELSE Idle(u) /\ UNCHANGED <<present, stored, serial, lost>>
    /\ UNCHANGED updates

DeleteRow ==
    /\ present /\ present' = FALSE
    /\ stored' = Empty /\ serial' = Empty
    /\ UNCHANGED <<putAt, given, old, stale, lost, updates>>

\* No request is left to come.
Rest == updates = MaxUpdates /\ (\A u \in Updaters : putAt[u] = "idle") /\ UNCHANGED putVars

PutNext ==
    \/ \E u \in Updaters : (\E b \in Body : Put(u, b)) \/ Load(u) \/ Update(u)
    \/ DeleteRow \/ Rest

PutSpec == PutInit /\ [][PutNext]_putVars

-----------------------------------------------------------------------------
(* Properties *)

\* The API's contract, "new keys merge over stored ones and a null value
\* deletes a key", for every interleaving of PUTs: the stored map is what the
\* accepted bodies give one after another.
UpdatesMerge == stored = serial

\* The same while no PUT has written over a map that changed after its read.
UpdatesMergeUnlessOverlapped == ~lost => stored = serial

\* A PUT that loaded the row before a DELETE does not bring the result back.
DeletedStaysDeleted == ~present => ~present'

\* What the API keeps of its contract: updates that do not overlap merge, and a deleted
\* result stays deleted.
UpdatesAndDeletesHold == [][DeletedStaysDeleted /\ UpdatesMergeUnlessOverlapped']_putVars
=============================================================================
