--------------------------- MODULE IdempotentStore ---------------------------
(***************************************************************************)
(* What a submission key promises a client of POST /api/benchmark-results: *)
(* an atomic store.  The first submission under a key is kept, the same    *)
(* content under the same key is answered with the same result, other      *)
(* content under the key is refused, and deleting the result frees the key.*)
(***************************************************************************)
CONSTANTS Key, Content, Id

VARIABLES
    kept,       \* the results now stored: [key, content, id] records
    answered,   \* [key, content, id] answers given to clients
    refused     \* <<key, content>> pairs refused to clients

StoreInit == kept = {} /\ answered = {} /\ refused = {}

\* The id is new: no client has been answered with it.
Keep(r) ==
    /\ r \in [key : Key, content : Content, id : Id]
    /\ \A q \in kept : q.key # r.key
    /\ \A a \in answered : a.id # r.id
    /\ kept' = kept \cup {r}
    /\ answered' = answered \cup {r}
    /\ UNCHANGED refused

Replay(r) ==
    /\ r \in kept
    /\ answered' = answered \cup {r}
    /\ UNCHANGED <<kept, refused>>

Refuse(r, content) ==
    /\ r \in kept
    /\ r.content # content
    /\ refused' = refused \cup {<<r.key, content>>}
    /\ UNCHANGED <<kept, answered>>

Free(r) ==
    /\ r \in kept
    /\ kept' = kept \ {r}
    /\ UNCHANGED <<answered, refused>>

StoreNext ==
    \/ \E r \in kept' : Keep(r)
    \/ \E r \in kept : Replay(r) \/ Free(r)
    \/ \E r \in kept, c \in Content : Refuse(r, c)

StoreSpec == StoreInit /\ [][StoreNext]_<<kept, answered, refused>>
=============================================================================
