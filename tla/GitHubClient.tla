---------------------------- MODULE GitHubClient ----------------------------
(***************************************************************************)
(* The commit client's request loop (internal/commit/github_client.go,     *)
(* getJSON, attempt, token, handle403) with the credentials concurrent     *)
(* requests share: the pool of static tokens behind one atomic index, or   *)
(* the App installation token cached by internal/githubapi's               *)
(* AppTokenSource. What GitHub answers is an environment choice.           *)
(***************************************************************************)
EXTENDS Naturals, FiniteSets

CONSTANTS
    Requests,     \* concurrent getJSON calls
    MaxTokens,    \* bound: static tokens in GITHUB_API_TOKEN
    MaxMints      \* bound: installation tokens GitHub hands out

ASSUME GitHubClientAssumption ==
    MaxTokens \in Nat /\ MaxMints \in Nat

VARIABLES
    usesSource,  \* c.tokenSource # nil, as the client was constructed
    poolSize,    \* len(c.tokens), likewise
    cur,         \* the rotating index, kept modulo the pool size
    cached,      \* AppTokenSource.token
    expiring,    \* its expiry is inside the refresh window
    minted,      \* installation tokens handed out so far: 1..minted
    bad,         \* credentials GitHub refuses now: no quota left, or revoked
    pc, tok, rotations, refreshed, expired, outcome,  \* one per request
    tried,       \* history: pool tokens a request was answered for
    others,      \* history: another request rotated while this one ran
    rejected     \* history: installation tokens a request got a 401 for

vars == <<usesSource, poolSize, cur, cached, expiring, minted, bad, pc, tok,
          rotations, refreshed, expired, outcome, tried, others, rejected>>
client == <<usesSource, poolSize>>
source == <<client, cached, expiring, minted>>
history == <<tried, others, rejected>>

Pool == 1..poolSize
None == 0
Credentials == 0..(IF usesSource THEN MaxMints ELSE poolSize)
Place == {"idle", "token", "sent", "refused", "backoff", "done"}
Outcome == {"none", "ok", "quota", "unauthorized", "permanent", "budget", "mint"}

TypeOK ==
    /\ usesSource \in BOOLEAN /\ poolSize \in 0..MaxTokens
    /\ cur \in Nat /\ (poolSize > 0 => cur < poolSize)
    /\ cached \in 0..minted /\ minted \in 0..MaxMints /\ expiring \in BOOLEAN
    /\ bad \subseteq Credentials
    /\ pc \in [Requests -> Place] /\ tok \in [Requests -> Credentials]
    /\ rotations \in [Requests -> 0..(poolSize + 1)]
    /\ refreshed \in [Requests -> BOOLEAN] /\ expired \in [Requests -> BOOLEAN]
    /\ outcome \in [Requests -> Outcome]
    /\ tried \in [Requests -> SUBSET Pool] /\ others \in [Requests -> BOOLEAN]
    /\ rejected \in [Requests -> SUBSET (1..MaxMints)]

\* The two constructors: a pool, possibly empty, or a token source.
NewGitHubClient ==
    \/ usesSource = FALSE /\ poolSize \in 0..MaxTokens
    \/ usesSource = TRUE /\ poolSize = 0

Init ==
    /\ NewGitHubClient
    /\ cur = 0 /\ cached = None /\ expiring = FALSE /\ minted = 0 /\ bad = {}
    /\ pc = [q \in Requests |-> "idle"] /\ tok = [q \in Requests |-> None]
    /\ rotations = [q \in Requests |-> 0] /\ refreshed = [q \in Requests |-> FALSE]
    /\ expired = [q \in Requests |-> FALSE] /\ outcome = [q \in Requests |-> "none"]
    /\ tried = [q \in Requests |-> {}] /\ others = [q \in Requests |-> FALSE]
    /\ rejected = [q \in Requests |-> {}]

InFlight(q) == pc[q] \notin {"idle", "done"}

Goto(q, place) == pc' = [pc EXCEPT ![q] = place] /\ UNCHANGED outcome
End(q, how) ==
    /\ pc' = [pc EXCEPT ![q] = "done"]
    /\ outcome' = [outcome EXCEPT ![q] = how]

-----------------------------------------------------------------------------
(* The request loop *)

Start(q) ==
    /\ pc[q] = "idle"
    /\ Goto(q, "token")
    /\ UNCHANGED <<cur, source, bad, tok, rotations, refreshed, expired, history>>

\* attempt, static credentials: the token under the index as it is now.
PoolToken(q) ==
    /\ pc[q] = "token" /\ ~usesSource
    /\ tok' = [tok EXCEPT ![q] = IF poolSize = 0 THEN None ELSE cur + 1]
    /\ Goto(q, "sent")
    /\ UNCHANGED <<cur, source, bad, rotations, refreshed, expired, history>>

CacheUsable == cached # None /\ ~expiring

\* attempt, AppTokenSource.Token: one mutex section, the mint included.
CachedToken(q) ==
    /\ pc[q] = "token" /\ usesSource /\ CacheUsable
    /\ tok' = [tok EXCEPT ![q] = cached]
    /\ Goto(q, "sent")
    /\ UNCHANGED <<cur, source, bad, rotations, refreshed, expired, history>>

Mint(q) ==
    /\ pc[q] = "token" /\ usesSource /\ ~CacheUsable
    /\ \/ /\ minted < MaxMints /\ ~expired[q]
          /\ minted' = minted + 1
          /\ cached' = minted + 1 /\ expiring' = FALSE
          /\ tok' = [tok EXCEPT ![q] = minted + 1]
          /\ Goto(q, "sent")
       \/ /\ End(q, "mint")
          /\ UNCHANGED <<source, tok>>
    /\ UNCHANGED <<client, cur, bad, rotations, refreshed, expired, history>>

Answered(q) == tried' = [tried EXCEPT ![q] = @ \cup ({tok[q]} \cap Pool)]

\* 200, or a status that is neither retried nor 401 nor 403.
Concludes(q) ==
    /\ pc[q] = "sent" /\ ~expired[q]
    /\ \/ tok[q] \notin bad /\ End(q, "ok")
       \/ End(q, "permanent")
    /\ Answered(q)
    /\ UNCHANGED <<cur, source, bad, tok, rotations, refreshed, expired, others, rejected>>

\* A network error, a 5xx or a 403 with quota left. An expired context makes
\* the request fail the same way.
Retryable(q) ==
    /\ pc[q] = "sent"
    /\ Goto(q, "backoff")
    /\ UNCHANGED <<cur, source, bad, tok, rotations, refreshed, expired, history>>

\* handle403: whether rotation number n is followed by another try.
Rotates(n) == n <= poolSize

\* Mutant: the index is not advanced.
NotRotated == cur

Rotated == (cur + 1) % poolSize

\* handle403 with no quota left for the token used.
Exhausted(q) ==
    /\ pc[q] = "sent" /\ ~expired[q] /\ tok[q] \in bad /\ ~usesSource
    /\ IF poolSize > 1
       THEN /\ cur' = Rotated
            /\ rotations' = [rotations EXCEPT ![q] = @ + 1]
            /\ others' = [p \in Requests |-> others[p] \/ (p # q /\ InFlight(p))]
            /\ IF Rotates(rotations[q] + 1) THEN Goto(q, "backoff") ELSE End(q, "quota")
       ELSE End(q, "quota") /\ UNCHANGED <<cur, rotations, others>>
    /\ Answered(q)
    /\ UNCHANGED <<source, bad, tok, refreshed, expired, rejected>>

\* An App installation's own quota is exhausted: there is no pool to rotate.
SourceExhausted(q) ==
    /\ pc[q] = "sent" /\ ~expired[q] /\ usesSource
    /\ End(q, "quota")
    /\ UNCHANGED <<cur, source, bad, tok, rotations, refreshed, expired, history>>

\* 401. A static token is not renewed.
Unauthorized(q) ==
    /\ pc[q] = "sent" /\ ~expired[q] /\ tok[q] \in bad
    /\ IF usesSource
       THEN /\ rejected' = [rejected EXCEPT ![q] = @ \cup {tok[q]}]
            /\ IF refreshed[q] THEN End(q, "unauthorized") ELSE Goto(q, "refused")
       ELSE End(q, "unauthorized") /\ UNCHANGED rejected
    /\ UNCHANGED <<cur, source, bad, tok, rotations, refreshed, expired, tried, others>>

\* Mutant: whatever is cached is discarded.
DiscardsAnything(q) == TRUE

\* Invalidate compares before it discards.
Discards(q) == cached = tok[q]

\* getJSON hands the rejected token to Invalidate and tries again at once.
Invalidate(q) ==
    /\ pc[q] = "refused"
    /\ IF Discards(q) THEN cached' = None /\ expiring' = FALSE
                      ELSE UNCHANGED <<cached, expiring>>
    /\ refreshed' = [refreshed EXCEPT ![q] = TRUE]
    /\ Goto(q, "token")
    /\ UNCHANGED <<client, cur, minted, bad, tok, rotations, expired, history>>

\* Mutant: the wait does not watch the context.
BackoffUnbounded(q) ==
    /\ pc[q] = "backoff"
    /\ Goto(q, "token")
    /\ UNCHANGED <<cur, source, bad, tok, rotations, refreshed, expired, history>>

\* The wait between attempts ends with the timer or with the context.
Backoff(q) ==
    /\ pc[q] = "backoff"
    /\ IF expired[q] THEN End(q, "budget") ELSE Goto(q, "token")
    /\ UNCHANGED <<cur, source, bad, tok, rotations, refreshed, expired, history>>

Step(q) ==
    \/ PoolToken(q) \/ CachedToken(q) \/ Mint(q)
    \/ Concludes(q) \/ Retryable(q) \/ Exhausted(q) \/ SourceExhausted(q)
    \/ Unauthorized(q) \/ Invalidate(q) \/ Backoff(q)

-----------------------------------------------------------------------------
(* The environment *)

\* The request's time budget runs out.
Expire(q) ==
    /\ InFlight(q) /\ ~expired[q]
    /\ expired' = [expired EXCEPT ![q] = TRUE]
    /\ UNCHANGED <<cur, source, bad, pc, tok, rotations, refreshed, outcome, history>>

\* GitHub stops accepting a credential in use, or resets a static one's quota.
InUse == CASE usesSource -> 1..minted [] poolSize > 0 -> Pool [] OTHER -> {None}
CredentialTurns(t) ==
    /\ \/ t \notin bad /\ bad' = bad \cup {t}
       \/ t \in bad /\ ~usesSource /\ bad' = bad \ {t}
    /\ UNCHANGED <<cur, source, pc, tok, rotations, refreshed, expired, outcome, history>>

NearsExpiry ==
    /\ cached # None /\ ~expiring /\ expiring' = TRUE
    /\ UNCHANGED <<client, cur, cached, minted, bad, pc, tok, rotations, refreshed,
                   expired, outcome, history>>

\* Every call has returned.
Rest == (\A q \in Requests : pc[q] = "done") /\ UNCHANGED vars

Next ==
    \/ \E q \in Requests : Start(q) \/ Step(q) \/ Expire(q)
    \/ \E t \in InUse : CredentialTurns(t)
    \/ NearsExpiry \/ Rest

Spec == Init /\ [][Next]_vars

\* A request's goroutine is scheduled and its deadline passes: every caller
\* hands getJSON a context with one (the resolve budget or the page timeout).
FairSpec == Spec /\ \A q \in Requests : WF_vars(Step(q)) /\ WF_vars(Expire(q))

-----------------------------------------------------------------------------
(* Properties *)

\* A request that no other rotated under gives up on quota only after each
\* token of the pool was answered for it at least once.
QuotaFailureAloneTriedThePool ==
    \A q \in Requests : outcome[q] = "quota" /\ ~others[q] /\ ~usesSource => tried[q] = Pool

\* handle403's comment, for every request: retries "until every token has
\* been tried once, then fails permanently".
QuotaFailureTriedThePool ==
    \A q \in Requests : outcome[q] = "quota" /\ ~usesSource => tried[q] = Pool

\* A 401 is final, with an App, only for a request that had it from two
\* different tokens: late answers of others never cost it its retry.
UnauthorizedTwice ==
    \A q \in Requests : outcome[q] = "unauthorized" /\ usesSource => Cardinality(rejected[q]) = 2

\* A request gives up for good only on what it has really been answered: each token of
\* the pool out of quota, or two App tokens rejected.
FailuresAreEarned == QuotaFailureAloneTriedThePool /\ UnauthorizedTwice

\* A cached token is dropped only when GitHub rejected that very token or it
\* nears its expiry: a late 401 for an older one does not evict it.
UsableTokenIsKept ==
    [][CacheUsable /\ cached' # cached => \E q \in Requests : cached \in rejected[q]]_vars

\* Every request ends, however GitHub answers.
RequestsEnd == \A q \in Requests : InFlight(q) ~> pc[q] = "done"
=============================================================================
