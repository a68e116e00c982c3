-------------------------------- MODULE Auth --------------------------------
(***************************************************************************)
(* Sessions, API tokens and CLI login codes: internal/auth, api/auth.go,   *)
(* api/tokens.go, api/codestore.go and the tables under them. Any replica  *)
(* may serve any request, so each statement is a step on the shared        *)
(* tables; there is one browser, with as many tabs as it likes.            *)
(*                                                                         *)
(* Secrets are names: a code, a token or an OIDC state is the number it    *)
(* was made as, and a signature or a hash either matches or does not. A    *)
(* user is its email (unique in the table). An OIDC state, nonce and       *)
(* verifier are made together and are one number here.                     *)
(***************************************************************************)
EXTENDS Naturals, FiniteSets

CONSTANTS
    Email,
    Login,                  \* logins of the command line (module CLILogin)
    Port,                   \* loopback ports
    OIDC,                   \* whether OIDC is configured
    authDisabled,
    codeTTL, SessionMaxAge, pendingMaxAge,
    MaxCodes, MaxTokens, MaxStates, MaxNow,     \* bounds
    MaxRequests,            \* bound: requests about tokens, and logouts
    None,
    Operator                \* the principal with no user: static token, auth disabled

ASSUME AuthAssumption ==
    /\ OIDC \in BOOLEAN /\ authDisabled \in BOOLEAN
    /\ {None, Operator} \cap Email = {}
    /\ None \notin Nat /\ Operator \notin Nat     \* codes and tokens are numbers
    /\ None \notin Port
    /\ {codeTTL, SessionMaxAge, pendingMaxAge, MaxCodes, MaxTokens, MaxStates, MaxNow,
        MaxRequests} \subseteq Nat

VARIABLES
    now,
    users,          \* "user": emails
    codes,          \* cli_login_code: code -> [user, expires, redeemed]
    issued,         \* every code there was: code -> [user, expires, login]
    tokens,         \* api_token: token -> [user, revoked, used]
    touches,        \* touchLastUsed goroutines: [token, row]
    deleting,       \* DELETE /api/tokens/{id} handlers past their ownership check
    deleted,        \* tokens whose DELETE was answered 204
    session,        \* the browser's cookies
    pending,
    tabs,           \* tabs at the identity provider: [state]
    states,         \* states handed out
    requests,       \* requests about tokens so far
    redirects       \* loopback redirects the browser was sent: [port, state, code]

serverVars == <<users, codes, issued, tokens, touches, deleting, deleted, requests>>
browserVars == <<session, pending, tabs, states, redirects>>
authVars == <<now, users, codes, issued, tokens, touches, deleting, deleted, session, pending, tabs,
              states, requests, redirects>>

AuthInit ==
    /\ now = 0 /\ users = {} /\ codes = <<>> /\ issued = <<>> /\ tokens = <<>>
    /\ touches = {} /\ deleting = {} /\ deleted = {}
    /\ session = None /\ pending = None /\ tabs = {} /\ states = 0 /\ redirects = {}
    /\ requests = 0

Tick ==
    /\ now < MaxNow /\ now' = now + 1
    /\ UNCHANGED <<serverVars, browserVars>>

(***************************************************************************)
(* Login codes.                                                            *)
(***************************************************************************)

\* A table without the rows of S, and with one more row.
Without(t, S) == [k \in DOMAIN t \ S |-> t[k]]
With(t, k, row) == [j \in DOMAIN t \cup {k} |-> IF j = k THEN row ELSE t[j]]

DeleteExpiredCLILoginCodes == {c \in DOMAIN codes : codes[c].expires < now}

\* DBCodeStore.Issue: the expired codes are swept and a new one is stored.
Issue(user, l, code) ==
    /\ Cardinality(DOMAIN issued) < MaxCodes /\ code = Cardinality(DOMAIN issued) + 1
    /\ codes' = With(Without(codes, DeleteExpiredCLILoginCodes), code,
                     [user |-> user, expires |-> now + codeTTL, redeemed |-> FALSE])
    /\ issued' = With(issued, code, [user |-> user, expires |-> now + codeTTL, login |-> l])

\* Mutant: whether the code was used is not part of the update's condition.
RedeemableAgain(code, at) == code \in DOMAIN codes /\ codes[code].expires >= at

\* RedeemCLILoginCode: one conditional update, with the time the handler read before it.
Redeemable(code, at) ==
    code \in DOMAIN codes /\ ~codes[code].redeemed /\ codes[code].expires >= at

(***************************************************************************)
(* Who a request is from.                                                  *)
(***************************************************************************)

\* SessionSigner.Verify of the browser's cookie, which the browser drops by then too.
sessionUser == IF session # None /\ now <= session.expires THEN session.user ELSE None

resolveDBToken(t) == IF t \in DOMAIN tokens /\ ~tokens[t].revoked THEN tokens[t].user ELSE None

resolveBearer(t) == IF t = Operator THEN Operator ELSE resolveDBToken(t)

\* ResolvePrincipal of a request with a bearer token (or None) and the cookie (or None).
ResolvePrincipal(bearer, cookie) ==
    CASE authDisabled -> Operator
      [] ~authDisabled /\ resolveBearer(bearer) # None -> resolveBearer(bearer)
      [] OTHER -> cookie

shouldTouchLastUsed(t) == t \in DOMAIN tokens /\ ~tokens[t].revoked /\ ~tokens[t].used /\ ~authDisabled

\* What every authenticated request does besides its own work.
Authenticate(bearer) ==
    touches' = IF shouldTouchLastUsed(bearer)
               THEN touches \cup {[token |-> bearer, row |-> tokens[bearer]]} ELSE touches

\* The bearer tokens and cookies a request may carry.
Bearer == DOMAIN tokens \cup {None, Operator}

(***************************************************************************)
(* The browser's login.                                                    *)
(***************************************************************************)

\* beginOIDC: the pending cookie replaces the one of an earlier tab.
beginOIDC(l, port) ==
    /\ OIDC /\ states < MaxStates /\ states' = states + 1
    /\ pending' = [state |-> states', login |-> l, port |-> port, expires |-> now + pendingMaxAge]
    /\ tabs' = tabs \cup {states'}
    /\ UNCHANGED <<serverVars, session, redirects>>

login ==
    /\ beginOIDC(None, None)
    /\ UNCHANGED now

redirectToLoopback(user, l, port) ==
    /\ \E code \in 1..MaxCodes :
         /\ Issue(user, l, code)
         /\ redirects' = redirects \cup {[port |-> port, state |-> l, code |-> code]}

\* The URL of a command-line login is opened, by it or by hand. A session is enough;
\* without one the identity provider is asked.
cliStart(l, port) ==
    /\ \/ /\ sessionUser # None
          /\ redirectToLoopback(sessionUser, l, port)
          /\ pending' = None
          /\ UNCHANGED <<users, tokens, touches, deleting, deleted, requests, session, tabs, states>>
       \/ sessionUser = None /\ beginOIDC(l, port)
    /\ UNCHANGED now

readPending(state) == pending # None /\ pending.expires >= now /\ pending.state = state

\* The provider answers for an account; the code it sends belongs to the tab's state.
callback(state, email) ==
    /\ state \in tabs /\ tabs' = tabs \ {state}
    /\ readPending(state)
    /\ users' = users \cup {email}
    /\ session' = [user |-> email, expires |-> now + SessionMaxAge]
    /\ pending' = None
    /\ IF pending.port # None
       THEN redirectToLoopback(email, pending.login, pending.port)
       ELSE UNCHANGED <<codes, issued, redirects>>
    /\ UNCHANGED <<now, tokens, touches, deleting, deleted, requests, states>>

\* No cookie, another tab's state, an exchange that fails, an address not verified.
callbackRefused(state) ==
    /\ state \in tabs /\ tabs' = tabs \ {state}
    /\ UNCHANGED <<now, serverVars, session, pending, states, redirects>>

Counted == requests < MaxRequests /\ requests' = requests + 1

logout ==
    /\ Counted
    /\ session # None /\ session' = None
    /\ UNCHANGED <<now, users, codes, issued, tokens, touches, deleting, deleted, pending, tabs, states, redirects>>

(***************************************************************************)
(* Tokens.                                                                 *)
(***************************************************************************)

CreateAPIToken(user, t) ==
    /\ Cardinality(DOMAIN tokens) < MaxTokens /\ t = Cardinality(DOMAIN tokens) + 1
    /\ tokens' = With(tokens, t, [user |-> user, revoked |-> FALSE, used |-> FALSE])

\* TokenHandler.principal: a user, not the operator.
principal(p) == p \notin {None, Operator}

createToken(bearer, cookie) ==
    /\ Counted
    /\ principal(ResolvePrincipal(bearer, cookie))
    /\ \E t \in 1..MaxTokens : CreateAPIToken(ResolvePrincipal(bearer, cookie), t)
    /\ Authenticate(bearer)
    /\ UNCHANGED <<now, users, codes, issued, deleting, deleted, browserVars>>

\* conbench admin tokens create, on the server's host.
adminCreateToken(email) ==
    /\ Counted
    /\ users' = users \cup {email}
    /\ \E t \in 1..MaxTokens : CreateAPIToken(email, t)
    /\ UNCHANGED <<now, codes, issued, touches, deleting, deleted, browserVars>>

\* Any other authenticated request.
request(bearer) ==
    /\ Counted
    /\ ResolvePrincipal(bearer, sessionUser) # None
    /\ Authenticate(bearer) /\ touches' # touches
    /\ UNCHANGED <<now, users, codes, issued, tokens, deleting, deleted, browserVars>>

\* Delete: the row is read and its owner compared, and then it is revoked.
deleteToken(bearer, cookie, t) ==
    /\ Counted
    /\ principal(ResolvePrincipal(bearer, cookie))
    /\ t \in DOMAIN tokens /\ tokens[t].user = ResolvePrincipal(bearer, cookie)
    /\ deleting' = deleting \cup {t}
    /\ Authenticate(bearer)
    /\ UNCHANGED <<now, users, codes, issued, tokens, deleted, browserVars>>

RevokeAPIToken(t) ==
    /\ t \in deleting /\ deleting' = deleting \ {t}
    /\ tokens' = [tokens EXCEPT ![t].revoked = TRUE]
    /\ deleted' = deleted \cup {t}
    /\ UNCHANGED <<now, users, codes, issued, touches, requests, browserVars>>

\* Mutant: the row as it was read is written back.
WrittenBack(t, row) == [row EXCEPT !.used = TRUE]

TouchAPITokenLastUsed(t, row) == [tokens[t] EXCEPT !.used = TRUE]

\* The background write lands, or fails and is only logged.
touchLastUsed(g) ==
    /\ touches' = touches \ {g}
    /\ \/ tokens' = [tokens EXCEPT ![g.token] = TouchAPITokenLastUsed(g.token, g.row)]
       \/ UNCHANGED tokens
    /\ UNCHANGED <<now, users, codes, issued, deleting, deleted, requests, browserVars>>

AuthNext ==
    \/ Tick
    \/ login \/ logout
    \/ \E s \in tabs : callbackRefused(s) \/ \E e \in Email : callback(s, e)
    \/ \E b \in Bearer, c \in {None, sessionUser} :
         createToken(b, c) \/ \E t \in DOMAIN tokens : deleteToken(b, c, t)
    \/ \E b \in Bearer : request(b)
    \/ \E t \in deleting : RevokeAPIToken(t)
    \/ \E e \in Email : adminCreateToken(e)
    \/ \E g \in touches : touchLastUsed(g)

(***************************************************************************)
(* Properties.                                                             *)
(***************************************************************************)

\* Once DELETE /api/tokens/{id} was answered 204 the token authenticates nobody, also
\* when a request that used the token before is still to stamp its last_used_at.
DeletedTokenIsRefused == \A t \in deleted : resolveDBToken(t) = None

=============================================================================
