------------------------- MODULE GitHubClientProofs -------------------------
(***************************************************************************)
(* Theorems about GitHubClient, for any number of concurrent requests, any *)
(* size of the token pool and any number of installation tokens.           *)
(***************************************************************************)
EXTENDS GitHubClient, FiniteSetTheorems, TLAPS

(* The parts of the inductive invariant besides the type. *)

\* A request has an outcome only when it has returned, and one that has not
\* begun has nothing behind it.
ProgressIsOrderly ==
    \A q \in Requests :
        /\ pc[q] # "done" => outcome[q] = "none" /\ rotations[q] <= poolSize
        /\ pc[q] = "idle" => rotations[q] = 0 /\ ~refreshed[q] /\ rejected[q] = {}

\* A client has a pool or a token source.
OneKindOfCredential == usesSource => poolSize = 0

\* Nobody else having rotated, the index is still at the token a request sent.
AloneIndexStays ==
    \A q \in Requests :
        pc[q] = "sent" /\ ~others[q] /\ ~usesSource =>
            tok[q] = IF poolSize = 0 THEN None ELSE cur + 1

\* How many rotations ago the index left token t.
Ago(t) == IF t <= cur THEN cur - t + 1 ELSE cur - t + 1 + poolSize

\* The tokens that the request's own rotations have left behind were tried.
LeftTokensWereTried ==
    \A q \in Requests :
        InFlight(q) /\ ~others[q] /\ ~usesSource =>
            \A t \in Pool : Ago(t) <= rotations[q] => t \in tried[q]

\* With an App, what a request sends is a token that GitHub handed out.
SentTokenWasMinted ==
    usesSource => \A q \in Requests :
        pc[q] \in {"sent", "refused"} => tok[q] \in 1..minted

\* Before its one refresh, a request has no rejection but the one it is about
\* to report to the token source.
FirstRejection ==
    \A q \in Requests :
        /\ pc[q] = "refused" => usesSource /\ ~refreshed[q]
        /\ InFlight(q) /\ ~refreshed[q] /\ usesSource =>
              rejected[q] = IF pc[q] = "refused" THEN {tok[q]} ELSE {}

\* After it, the rejected token is not cached any more, nor what is sent.
RejectedTokenIsGone ==
    usesSource => \A q \in Requests : InFlight(q) /\ refreshed[q] =>
        \E t \in 1..minted :
            /\ rejected[q] = {t}
            /\ cached # t
            /\ pc[q] = "sent" => tok[q] # t

Typed ==
    /\ TypeOK
    /\ ProgressIsOrderly
    /\ OneKindOfCredential
    /\ SentTokenWasMinted

\* The static pool.
PoolInv ==
    /\ AloneIndexStays
    /\ LeftTokensWereTried
    /\ QuotaFailureAloneTriedThePool

\* The token source.
SourceInv ==
    /\ FirstRejection
    /\ RejectedTokenIsGone
    /\ UnauthorizedTwice

-----------------------------------------------------------------------------

\* The rotating index stays inside the pool; it wraps after the last token.
LEMMA RotatedInPool ==
    ASSUME TypeOK, poolSize > 1
    PROVE  Rotated = (IF cur + 1 = poolSize THEN 0 ELSE cur + 1)
<1>1. cur \in Nat /\ poolSize \in Nat /\ cur < poolSize
  BY GitHubClientAssumption DEF TypeOK
<1> QED
  BY <1>1 DEF Rotated

\* Type correctness: the index never leaves the pool, and no request is sent
\* with a credential that the client has not got.
THEOREM TypeCorrect == Spec => []Typed
<1> USE GitHubClientAssumption DEF Typed, client, source, history, Goto, End, InFlight
<1>1. Init => Typed
  <2> SUFFICES ASSUME Init PROVE Typed
    OBVIOUS
  <2> USE DEF Init, NewGitHubClient, None
  <2>1. usesSource \in BOOLEAN /\ expiring \in BOOLEAN
    BY Zenon
  <2>2. /\ poolSize \in 0..MaxTokens
        /\ cur \in Nat /\ (poolSize > 0 => cur < poolSize)
        /\ cached \in 0..minted /\ minted \in 0..MaxMints
    OBVIOUS
  <2>3. bad \subseteq Credentials /\ 0 \in Credentials /\ 0 \in 0..(poolSize + 1)
    BY <2>2 DEF Credentials
  <2>4. TypeOK
    BY <2>1, <2>2, <2>3 DEF TypeOK, Place, Outcome
  <2> QED
    BY <2>1, <2>4 DEF ProgressIsOrderly, OneKindOfCredential, SentTokenWasMinted
<1>2. Typed /\ [Next]_vars => Typed'
  <2> SUFFICES ASSUME Typed, [Next]_vars PROVE Typed'
    OBVIOUS
  <2> USE DEF TypeOK, ProgressIsOrderly, OneKindOfCredential, SentTokenWasMinted, Place, Outcome, Credentials, Pool, None
  <2>1. ASSUME NEW q \in Requests, Start(q) PROVE Typed'
    BY <2>1 DEF Start
  <2>2. ASSUME NEW q \in Requests, PoolToken(q) PROVE Typed'
    BY <2>2 DEF PoolToken
  <2>3. ASSUME NEW q \in Requests, CachedToken(q) PROVE Typed'
    BY <2>3 DEF CachedToken, CacheUsable
  <2>4. ASSUME NEW q \in Requests, Mint(q) PROVE Typed'
    <3>1. CASE minted' = minted + 1
      <4>1. /\ minted < MaxMints /\ minted + 1 \in Nat /\ usesSource /\ pc[q] = "token"
            /\ cached' = minted + 1 /\ expiring' = FALSE
            /\ tok' = [tok EXCEPT ![q] = minted + 1]
            /\ pc' = [pc EXCEPT ![q] = "sent"]
            /\ UNCHANGED <<usesSource, poolSize, cur, bad, rotations, refreshed, expired, tried,
                           others, rejected, outcome>>
        BY <2>4, <3>1 DEF Mint
      <4>2. tok' \in [Requests -> Credentials'] /\ Credentials' = Credentials
        BY <4>1
      <4> QED
        <5>1. expiring' \in BOOLEAN
          BY <4>1, Zenon
        <5>2. \A p \in Requests : pc'[p] \in {"sent", "refused"} => tok'[p] \in 1..minted'
          BY <3>1, <4>1
        <5>3. cached' \in 0..minted' /\ minted' \in 0..MaxMints
          BY <3>1, <4>1
        <5>4. ProgressIsOrderly'
          BY <4>1
        <5> QED
          BY <4>1, <4>2, <5>1, <5>2, <5>3, <5>4
    <3>2. CASE minted' # minted + 1
      BY <2>4, <3>2 DEF Mint
    <3> QED
      BY <3>1, <3>2
  <2>5. ASSUME NEW q \in Requests, Concludes(q) PROVE Typed'
    BY <2>5 DEF Concludes, Answered
  <2>6. ASSUME NEW q \in Requests, Retryable(q) PROVE Typed'
    BY <2>6 DEF Retryable
  <2>7. ASSUME NEW q \in Requests, Exhausted(q) PROVE Typed'
    <3>1. CASE poolSize > 1
      <4>1. cur' \in Nat /\ cur' < poolSize
        BY <2>7, <3>1, RotatedInPool DEF Exhausted
      <4>2. others' \in [Requests -> BOOLEAN]
        BY <2>7, <3>1, Zenon DEF Exhausted
      <4> QED
        BY <2>7, <3>1, <4>1, <4>2 DEF Exhausted, Answered, Rotates
    <3>2. CASE ~(poolSize > 1)
      BY <2>7, <3>2 DEF Exhausted, Answered
    <3> QED
      BY <3>1, <3>2
  <2>8. ASSUME NEW q \in Requests, SourceExhausted(q) PROVE Typed'
    BY <2>8 DEF SourceExhausted
  <2>9. ASSUME NEW q \in Requests, Unauthorized(q) PROVE Typed'
    <3>1. CASE usesSource
      <4>1. tok[q] \in 1..MaxMints
        BY <2>9, <3>1 DEF Unauthorized
      <4> QED
        BY <2>9, <3>1, <4>1 DEF Unauthorized
    <3>2. CASE ~usesSource
      BY <2>9, <3>2 DEF Unauthorized
    <3> QED
      BY <3>1, <3>2
  <2>10. ASSUME NEW q \in Requests, Invalidate(q) PROVE Typed'
    <3>1. refreshed' \in [Requests -> BOOLEAN]
      BY <2>10, Zenon DEF Invalidate
    <3>2. cached' \in 0..minted'
      BY <2>10 DEF Invalidate
    <3>3. expiring' \in BOOLEAN
      BY <2>10, Zenon DEF Invalidate
    <3> QED
      BY <2>10, <3>1, <3>2, <3>3 DEF Invalidate
  <2>11. ASSUME NEW q \in Requests, Backoff(q) PROVE Typed'
    BY <2>11 DEF Backoff
  <2>12. ASSUME NEW q \in Requests, Expire(q) PROVE Typed'
    BY <2>12 DEF Expire
  <2>13. ASSUME NEW t \in InUse, CredentialTurns(t) PROVE Typed'
    BY <2>13 DEF CredentialTurns, InUse
  <2>14. CASE NearsExpiry
    BY <2>14 DEF NearsExpiry
  <2>15. CASE UNCHANGED vars
    BY <2>15 DEF vars
  <2> QED
    BY <2>1, <2>2, <2>3, <2>4, <2>5, <2>6, <2>7, <2>8, <2>9, <2>10, <2>11, <2>12, <2>13,
       <2>14, <2>15 DEF Next, Step, Rest
<1> QED
  BY <1>1, <1>2, PTL DEF Spec

-----------------------------------------------------------------------------

\* A rotation takes the index one further from every token it has left, and
\* leaves the token it was at, in a pool that a client with no source has.
LEMMA AgoAfterRotation ==
    ASSUME TypeOK, poolSize > 1, cur' = Rotated, UNCHANGED poolSize, NEW t \in Pool
    PROVE  /\ Ago(t) \in 1..poolSize
           /\ t # cur + 1 => Ago(t)' = Ago(t) + 1
<1>1. cur \in Nat /\ poolSize \in Nat /\ cur < poolSize /\ t \in 1..poolSize
  BY GitHubClientAssumption DEF TypeOK, Pool
<1>2. cur' = IF cur + 1 = poolSize THEN 0 ELSE cur + 1
  BY RotatedInPool
<1> QED
  BY <1>1, <1>2 DEF Ago

\* What a request that no other rotated under has tried, by the number of its
\* own rotations: when it gives up on quota it has tried the whole pool.
THEOREM PoolInvariant == Spec => []PoolInv
<1> USE GitHubClientAssumption DEF client, source, history, Goto, End, InFlight, None
<1>1. Init => PoolInv
  BY DEF Init, PoolInv, AloneIndexStays, LeftTokensWereTried, QuotaFailureAloneTriedThePool
<1>2. Typed /\ PoolInv /\ [Next]_vars => PoolInv'
  <2> SUFFICES ASSUME Typed, PoolInv, [Next]_vars PROVE PoolInv'
    OBVIOUS
  <2>0. /\ pc \in [Requests -> Place] /\ tok \in [Requests -> Credentials]
        /\ outcome \in [Requests -> Outcome] /\ rotations \in [Requests -> 0..(poolSize + 1)]
        /\ tried \in [Requests -> SUBSET Pool] /\ others \in [Requests -> BOOLEAN]
        /\ poolSize \in Nat /\ cur \in Nat /\ (poolSize > 0 => cur < poolSize)
    BY DEF Typed, TypeOK
  <2> USE <2>0
  <2> USE DEF PoolInv, AloneIndexStays, LeftTokensWereTried, QuotaFailureAloneTriedThePool, Pool, Ago
  <2>1. ASSUME NEW q \in Requests, Start(q) PROVE PoolInv'
    <3>1. rotations[q] = 0
      BY <2>1 DEF Start, Typed, ProgressIsOrderly
    <3> QED
      BY <2>1, <3>1 DEF Start
  <2>2. ASSUME NEW q \in Requests, PoolToken(q) PROVE PoolInv'
    BY <2>2 DEF PoolToken
  <2>3. ASSUME NEW q \in Requests, CachedToken(q) PROVE PoolInv'
    BY <2>3 DEF CachedToken
  <2>4. ASSUME NEW q \in Requests, Mint(q) PROVE PoolInv'
    BY <2>4 DEF Mint
  <2>5. ASSUME NEW q \in Requests, Concludes(q) PROVE PoolInv'
    BY <2>5 DEF Concludes, Answered
  <2>6. ASSUME NEW q \in Requests, Retryable(q) PROVE PoolInv'
    BY <2>6 DEF Retryable
  <2>7. ASSUME NEW q \in Requests, Exhausted(q) PROVE PoolInv'
    <3>0. /\ pc[q] = "sent" /\ ~usesSource /\ UNCHANGED <<usesSource, poolSize, tok>>
          /\ tried' = [tried EXCEPT ![q] = @ \cup ({tok[q]} \cap Pool)]
          /\ outcome[q] = "none" /\ rotations[q] <= poolSize
      BY <2>7 DEF Exhausted, Answered, Typed, ProgressIsOrderly
    <3>1. CASE poolSize > 1
      <4>1. AloneIndexStays'
        BY <2>7, <3>1 DEF Exhausted
      <4>a. /\ cur' = Rotated /\ UNCHANGED poolSize
            /\ rotations' = [rotations EXCEPT ![q] = @ + 1]
            /\ others' = [p \in Requests |-> others[p] \/ (p # q /\ InFlight(p))]
            /\ IF Rotates(rotations[q] + 1) THEN Goto(q, "backoff") ELSE End(q, "quota")
        BY <2>7, <3>1, Zenon DEF Exhausted
      <4>2. /\ cur' = Rotated /\ UNCHANGED poolSize
            /\ rotations' = [rotations EXCEPT ![q] = @ + 1]
            /\ \A p \in Requests : ~others'[p] => ~others[p] /\ (p = q \/ ~InFlight(p))
            /\ \/ rotations[q] + 1 <= poolSize /\ pc' = [pc EXCEPT ![q] = "backoff"]
                  /\ UNCHANGED outcome
               \/ rotations[q] + 1 > poolSize /\ pc' = [pc EXCEPT ![q] = "done"]
                  /\ outcome' = [outcome EXCEPT ![q] = "quota"]
        <5>1. \A p \in Requests : ~others'[p] => ~others[p] /\ (p = q \/ ~InFlight(p))
          BY <4>a, Zenon
        <5>2. Rotates(rotations[q] + 1) <=> rotations[q] + 1 <= poolSize
          BY DEF Rotates
        <5>3. rotations[q] + 1 <= poolSize \/ rotations[q] + 1 > poolSize
          BY <2>0
        <5> QED
          BY <4>a, <5>1, <5>2, <5>3, Zenon
      <4>3. ASSUME NEW p \in Requests, ~others[p]', InFlight(p)', p # q PROVE FALSE
        <5>1. InFlight(p)
          BY <4>2, <4>3
        <5> QED
          BY <4>2, <4>3, <5>1
      <4>4. ~others[q]' => tok[q] = cur + 1 /\ ~others[q]
        BY <3>0, <3>1, <4>2
      <4>5. \A t \in Pool : Ago(t) \in 1..poolSize /\ (t # cur + 1 => Ago(t)' = Ago(t) + 1)
        BY <3>1, <4>2, AgoAfterRotation DEF Typed
      <4> USE <3>0 DEF Typed
      <4> HIDE DEF Ago
      <4>6. ASSUME ~others[q]', NEW t \in Pool, Ago(t)' <= rotations[q] + 1
            PROVE  t \in tried'[q]
        <5>1. CASE t = cur + 1
          BY <3>0, <4>4, <4>6, <5>1
        <5>2. CASE t # cur + 1
          <6>1. Ago(t) <= rotations[q] /\ rotations[q] \in Nat
            BY <4>5, <4>6, <5>2
          <6>2. t \in tried[q]
            BY <3>0, <4>4, <4>6, <6>1
          <6> QED
            BY <3>0, <6>2
        <5> QED
          BY <5>1, <5>2
      <4>7. LeftTokensWereTried'
        <5> SUFFICES ASSUME NEW p \in Requests, InFlight(p)', ~others[p]', NEW t \in Pool,
                            Ago(t)' <= rotations'[p]
                     PROVE  t \in tried'[p]
          BY <3>0
        <5>1. p = q /\ rotations'[q] = rotations[q] + 1
          BY <4>2, <4>3
        <5> QED
          BY <4>6, <5>1
      <4>8. QuotaFailureAloneTriedThePool'
        <5> SUFFICES ASSUME NEW p \in Requests, outcome'[p] = "quota", ~others[p]'
                     PROVE  tried'[p] = Pool
          BY <3>0
        <5>1. CASE p # q
          BY <3>0, <4>2, <5>1
        <5>2. CASE p = q
          <6>1. rotations[q] = poolSize
            BY <3>0, <4>2, <5>2
          <6>2. ASSUME NEW t \in Pool PROVE t \in tried[q]
            <7>1. Ago(t) <= rotations[q] /\ ~others[q]
              BY <4>4, <4>5, <5>2, <6>1
            <7> QED
              BY <3>0, <7>1
          <6> QED
            BY <3>0, <5>2, <6>2
        <5> QED
          BY <5>1, <5>2
      <4> QED
        BY <4>1, <4>7, <4>8
    <3>2. CASE ~(poolSize > 1)
      <4>1. UNCHANGED <<cur, rotations, others>> /\ pc' = [pc EXCEPT ![q] = "done"]
            /\ outcome' = [outcome EXCEPT ![q] = "quota"]
        BY <2>7, <3>2 DEF Exhausted
      <4>2. LeftTokensWereTried'
        BY <3>0, <4>1
      <4>3. ~others[q] => tried'[q] = Pool
        <5>1. CASE poolSize = 0
          BY <3>0, <5>1
        <5>2. CASE poolSize = 1
          <6>1. Pool = {1} /\ (~others[q] => tok[q] = 1)
            BY <3>0, <5>2
          <6> QED
            BY <3>0, <6>1
        <5> QED
          BY <3>2, <5>1, <5>2
      <4>4. QuotaFailureAloneTriedThePool'
        BY <3>0, <4>1, <4>3
      <4> QED
        BY <3>0, <4>1, <4>2, <4>4
    <3> QED
      BY <3>1, <3>2
  <2>8. ASSUME NEW q \in Requests, SourceExhausted(q) PROVE PoolInv'
    BY <2>8 DEF SourceExhausted
  <2>9. ASSUME NEW q \in Requests, Unauthorized(q) PROVE PoolInv'
    BY <2>9 DEF Unauthorized
  <2>10. ASSUME NEW q \in Requests, Invalidate(q) PROVE PoolInv'
    BY <2>10 DEF Invalidate
  <2>11. ASSUME NEW q \in Requests, Backoff(q) PROVE PoolInv'
    BY <2>11 DEF Backoff
  <2>12. ASSUME NEW q \in Requests, Expire(q) PROVE PoolInv'
    BY <2>12 DEF Expire
  <2>13. ASSUME NEW t \in InUse, CredentialTurns(t) PROVE PoolInv'
    BY <2>13 DEF CredentialTurns
  <2>14. CASE NearsExpiry
    BY <2>14 DEF NearsExpiry
  <2>15. CASE UNCHANGED vars
    BY <2>15 DEF vars
  <2> QED
    BY <2>1, <2>2, <2>3, <2>4, <2>5, <2>6, <2>7, <2>8, <2>9, <2>10, <2>11, <2>12, <2>13,
       <2>14, <2>15 DEF Next, Step, Rest
<1> QED
  BY <1>1, <1>2, TypeCorrect, PTL DEF Spec

\* A request that has returned keeps what it was told, and steps that touch
\* neither its own state nor the cache leave the App part of the invariant.
LEMMA SourceKept ==
    ASSUME Typed, SourceInv, UNCHANGED <<usesSource, rejected, refreshed>>,
           minted' \in Nat, minted <= minted',
           NEW q \in Requests,
           \A p \in Requests : p # q => pc'[p] = pc[p] /\ tok'[p] = tok[p] /\ outcome'[p] = outcome[p],
           pc[q] # "refused", pc'[q] # "refused", InFlight(q) \/ pc[q] = "idle",
           outcome'[q] # "unauthorized",
           usesSource => \A t \in 1..minted : cached # t => cached' # t,
           usesSource /\ pc'[q] = "sent" => tok'[q] = cached' \/ (pc[q] = "sent" /\ tok'[q] = tok[q])
    PROVE  SourceInv'
<1> USE DEF InFlight
<1>1. FirstRejection'
  <2> SUFFICES ASSUME NEW p \in Requests
               PROVE  /\ pc'[p] = "refused" => usesSource /\ ~refreshed[p]
                      /\ InFlight(p)' /\ ~refreshed[p] /\ usesSource =>
                            rejected[p] = IF pc'[p] = "refused" THEN {tok'[p]} ELSE {}
    BY DEF FirstRejection
  <2>1. CASE p # q
    BY <2>1 DEF SourceInv, FirstRejection
  <2>2. CASE p = q
    BY <2>2 DEF SourceInv, FirstRejection, Typed, ProgressIsOrderly
  <2> QED
    BY <2>1, <2>2
<1>2. RejectedTokenIsGone'
  <2> SUFFICES ASSUME usesSource, NEW p \in Requests, InFlight(p)', refreshed[p]
               PROVE  \E t \in 1..minted' : /\ rejected[p] = {t}
                                            /\ cached' # t
                                            /\ pc'[p] = "sent" => tok'[p] # t
    BY DEF RejectedTokenIsGone
  <2>1. InFlight(p)
    BY DEF Typed, ProgressIsOrderly
  <2>2. PICK t \in 1..minted : rejected[p] = {t} /\ cached # t /\ (pc[p] = "sent" => tok[p] # t)
    BY <2>1 DEF SourceInv, RejectedTokenIsGone
  <2>3. cached' # t /\ t \in 1..minted'
    BY <2>2 DEF Typed, TypeOK
  <2> QED
    BY <2>2, <2>3
<1>3. UnauthorizedTwice'
  BY DEF SourceInv, UnauthorizedTwice
<1> QED
  BY <1>1, <1>2, <1>3 DEF SourceInv

\* A request that an App's tokens are refused to has had two of them refused:
\* the token it reported to the source never comes back to it.
THEOREM SourceInvariant == Spec => []SourceInv
<1> USE GitHubClientAssumption DEF client, source, history, Goto, End, None
<1>1. Init => SourceInv
  BY DEF Init, SourceInv, FirstRejection, RejectedTokenIsGone, UnauthorizedTwice, InFlight
<1>2. Typed /\ SourceInv /\ [Next]_vars => SourceInv'
  <2> SUFFICES ASSUME Typed, SourceInv, [Next]_vars PROVE SourceInv'
    OBVIOUS
  <2>0. /\ pc \in [Requests -> Place] /\ tok \in [Requests -> Credentials]
        /\ outcome \in [Requests -> Outcome] /\ refreshed \in [Requests -> BOOLEAN]
        /\ rejected \in [Requests -> SUBSET (1..MaxMints)]
        /\ minted \in Nat /\ cached \in 0..minted
        /\ \A q \in Requests : pc[q] # "done" => outcome[q] = "none"
    BY DEF Typed, TypeOK, ProgressIsOrderly
  <2>1. ASSUME NEW q \in Requests, Start(q) PROVE SourceInv'
    BY <2>0, <2>1, SourceKept DEF Start
  <2>2. ASSUME NEW q \in Requests, PoolToken(q) PROVE SourceInv'
    BY <2>0, <2>2, SourceKept DEF PoolToken, InFlight
  <2>3. ASSUME NEW q \in Requests, CachedToken(q) PROVE SourceInv'
    BY <2>0, <2>3, SourceKept DEF CachedToken, InFlight
  <2>4. ASSUME NEW q \in Requests, Mint(q) PROVE SourceInv'
    BY <2>0, <2>4, SourceKept DEF Mint, InFlight
  <2>5. ASSUME NEW q \in Requests, Concludes(q) PROVE SourceInv'
    BY <2>0, <2>5, SourceKept DEF Concludes, InFlight
  <2>6. ASSUME NEW q \in Requests, Retryable(q) PROVE SourceInv'
    BY <2>0, <2>6, SourceKept DEF Retryable, InFlight
  <2>7. ASSUME NEW q \in Requests, Exhausted(q) PROVE SourceInv'
    <3>1. ~usesSource /\ pc[q] = "sent"
      BY <2>7 DEF Exhausted
    <3>2. /\ pc' = [pc EXCEPT ![q] = "backoff"] \/ pc' = [pc EXCEPT ![q] = "done"]
          /\ outcome' = outcome \/ outcome' = [outcome EXCEPT ![q] = "quota"]
          /\ UNCHANGED <<usesSource, rejected, refreshed, minted, cached, tok>>
      BY <2>7 DEF Exhausted
    <3> QED
      BY <2>0, <3>1, <3>2, SourceKept DEF InFlight
  <2>8. ASSUME NEW q \in Requests, SourceExhausted(q) PROVE SourceInv'
    BY <2>0, <2>8, SourceKept DEF SourceExhausted, InFlight
  <2>9. ASSUME NEW q \in Requests, Unauthorized(q) PROVE SourceInv'
    <3>1. CASE usesSource /\ refreshed[q]
      <4>1. PICK t \in 1..minted : rejected[q] = {t} /\ tok[q] # t
        BY <2>9, <3>1 DEF Unauthorized, SourceInv, RejectedTokenIsGone, InFlight
      <4>2. rejected'[q] = {t} \cup {tok[q]} /\ rejected' = [rejected EXCEPT ![q] = @ \cup {tok[q]}]
        BY <2>0, <2>9, <3>1, <4>1 DEF Unauthorized
      <4>3. Cardinality(rejected'[q]) = 2
        <5>1. IsFiniteSet({t}) /\ Cardinality({t}) = 1 /\ tok[q] \notin {t}
          BY <4>1, FS_Singleton
        <5>2. Cardinality({t} \cup {tok[q]}) = Cardinality({t}) + 1
          BY <5>1, FS_AddElement
        <5> QED
          BY <4>2, <5>1, <5>2
      <4>4. /\ pc' = [pc EXCEPT ![q] = "done"]
            /\ UNCHANGED <<usesSource, refreshed, minted, cached, tok>>
            /\ outcome' = [outcome EXCEPT ![q] = "unauthorized"]
        BY <2>9, <3>1 DEF Unauthorized
      <4>5. FirstRejection'
        BY <2>0, <4>2, <4>4 DEF SourceInv, FirstRejection, InFlight
      <4>6. RejectedTokenIsGone'
        BY <2>0, <4>2, <4>4 DEF SourceInv, RejectedTokenIsGone, InFlight
      <4>7. UnauthorizedTwice'
        BY <2>0, <4>2, <4>3, <4>4 DEF SourceInv, UnauthorizedTwice
      <4> QED
        BY <4>5, <4>6, <4>7 DEF SourceInv
    <3>2. CASE usesSource /\ ~refreshed[q]
      <4>1. /\ pc' = [pc EXCEPT ![q] = "refused"] /\ pc[q] = "sent"
            /\ rejected' = [rejected EXCEPT ![q] = @ \cup {tok[q]}]
            /\ UNCHANGED <<usesSource, refreshed, minted, cached, tok, outcome>>
        BY <2>9, <3>2 DEF Unauthorized
      <4>2. rejected'[q] = {tok[q]}
        BY <2>0, <3>2, <4>1 DEF SourceInv, FirstRejection, InFlight
      <4>3. FirstRejection'
        BY <2>0, <3>2, <4>1, <4>2 DEF SourceInv, FirstRejection, InFlight
      <4>4. RejectedTokenIsGone'
        BY <2>0, <3>2, <4>1 DEF SourceInv, RejectedTokenIsGone, InFlight
      <4>5. UnauthorizedTwice'
        BY <2>0, <4>1 DEF SourceInv, UnauthorizedTwice
      <4> QED
        BY <4>3, <4>4, <4>5 DEF SourceInv
    <3>3. CASE ~usesSource
      <4>1. /\ pc' = [pc EXCEPT ![q] = "done"] /\ pc[q] = "sent"
            /\ UNCHANGED <<usesSource, refreshed, minted, cached, tok, rejected>>
        BY <2>9, <3>3 DEF Unauthorized
      <4> QED
        BY <2>0, <3>3, <4>1 DEF SourceInv, FirstRejection, RejectedTokenIsGone,
                                UnauthorizedTwice, InFlight
    <3> QED
      BY <3>1, <3>2, <3>3
  <2>10. ASSUME NEW q \in Requests, Invalidate(q) PROVE SourceInv'
    <3>1. usesSource /\ ~refreshed[q] /\ rejected[q] = {tok[q]} /\ tok[q] \in 1..minted
      BY <2>10 DEF Invalidate, SourceInv, FirstRejection, InFlight, Typed, SentTokenWasMinted
    <3>2. /\ pc' = [pc EXCEPT ![q] = "token"] /\ pc[q] = "refused"
          /\ refreshed' = [refreshed EXCEPT ![q] = TRUE]
          /\ UNCHANGED <<usesSource, minted, tok, rejected, outcome>>
          /\ IF cached = tok[q] THEN cached' = None ELSE cached' = cached
      BY <2>10 DEF Invalidate, Discards
    <3>3. FirstRejection'
      BY <2>0, <3>1, <3>2 DEF SourceInv, FirstRejection, InFlight
    <3>4. RejectedTokenIsGone'
      <4> SUFFICES ASSUME NEW p \in Requests, InFlight(p)', refreshed'[p]
                   PROVE  \E t \in 1..minted : /\ rejected[p] = {t}
                                               /\ cached' # t
                                               /\ pc'[p] = "sent" => tok[p] # t
        BY <3>2 DEF RejectedTokenIsGone
      <4>1. CASE p = q
        BY <2>0, <3>1, <3>2, <4>1
      <4>2. CASE p # q
        <5>1. InFlight(p) /\ refreshed[p] /\ pc'[p] = pc[p]
          BY <2>0, <3>2, <4>2 DEF InFlight
        <5>2. PICK t \in 1..minted : rejected[p] = {t} /\ cached # t /\ (pc[p] = "sent" => tok[p] # t)
          BY <3>1, <5>1 DEF SourceInv, RejectedTokenIsGone
        <5> QED
          BY <2>0, <3>2, <5>1, <5>2
      <4> QED
        BY <4>1, <4>2
    <3>5. UnauthorizedTwice'
      BY <3>2 DEF SourceInv, UnauthorizedTwice
    <3> QED
      BY <3>3, <3>4, <3>5 DEF SourceInv
  <2>11. ASSUME NEW q \in Requests, Backoff(q) PROVE SourceInv'
    BY <2>0, <2>11, SourceKept DEF Backoff, InFlight
  <2>12. CASE UNCHANGED <<usesSource, minted, cached, pc, tok, refreshed, outcome, rejected>>
    BY <2>12 DEF SourceInv, FirstRejection, RejectedTokenIsGone, UnauthorizedTwice, InFlight
  <2>13. ASSUME NEW q \in Requests, Expire(q) PROVE SourceInv'
    BY <2>12, <2>13 DEF Expire
  <2>14. ASSUME NEW t \in InUse, CredentialTurns(t) PROVE SourceInv'
    BY <2>12, <2>14 DEF CredentialTurns
  <2>15. CASE NearsExpiry
    BY <2>12, <2>15 DEF NearsExpiry
  <2>16. CASE UNCHANGED vars
    BY <2>12, <2>16 DEF vars
  <2> QED
    BY <2>1, <2>2, <2>3, <2>4, <2>5, <2>6, <2>7, <2>8, <2>9, <2>10, <2>11, <2>13, <2>14,
       <2>15, <2>16 DEF Next, Step, Rest
<1> QED
  BY <1>1, <1>2, TypeCorrect, PTL DEF Spec

-----------------------------------------------------------------------------

\* A request gives up for good only on what it has really been answered: each
\* token of the pool out of quota (handle403's rotation), or two App tokens
\* rejected (getJSON's one refresh).
THEOREM FailuresAreEarnedAlways == Spec => []FailuresAreEarned
<1>1. PoolInv /\ SourceInv => FailuresAreEarned
  BY DEF PoolInv, SourceInv, FailuresAreEarned
<1> QED
  BY <1>1, PoolInvariant, SourceInvariant, PTL

\* A late 401 for an older installation token never evicts the cached one
\* (Invalidate compares before it discards).
THEOREM UsableTokenIsKeptAlways == Spec => UsableTokenIsKept
<1>1. SourceInv /\ [Next]_vars =>
        [CacheUsable /\ cached' # cached => \E q \in Requests : cached \in rejected[q]]_vars
  <2> SUFFICES ASSUME SourceInv, Next, CacheUsable, cached' # cached
               PROVE  \E q \in Requests : cached \in rejected[q]
    OBVIOUS
  <2>1. PICK q \in Requests : Mint(q) \/ Invalidate(q)
    BY DEF Next, Step, Start, PoolToken, CachedToken, Concludes, Retryable, Exhausted,
           SourceExhausted, Unauthorized, Backoff, Expire, CredentialTurns, NearsExpiry,
           Rest, vars, source
  <2>2. Invalidate(q)
    BY <2>1 DEF Mint
  <2>3. cached = tok[q] /\ pc[q] = "refused"
    BY <2>2 DEF Invalidate, Discards
  <2>4. tok[q] \in rejected[q]
    BY <2>2, <2>3 DEF SourceInv, FirstRejection, InFlight
  <2> QED
    BY <2>3, <2>4
<1> QED
  BY <1>1, SourceInvariant, PTL DEF Spec, UsableTokenIsKept
=============================================================================
