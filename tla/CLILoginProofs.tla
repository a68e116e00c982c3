--------------------------- MODULE CLILoginProofs ---------------------------
(***************************************************************************)
(* Theorems about Auth and CLILogin, for any number of command-line        *)
(* logins, ports, accounts, codes and tokens, and any bound on how often   *)
(* an exchange request is sent.                                            *)
(***************************************************************************)
EXTENDS CLILogin, FiniteSetTheorems, TLAPS

(* The shapes of the rows, cookies and processes. *)

MaybeLogin == Login \cup {None}
MaybePort == Port \cup {None}
MaybeNumber == Nat \cup {None}

CodeRow == [user : Email, expires : Nat, redeemed : BOOLEAN]
IssuedRow == [user : Email, expires : Nat, login : MaybeLogin]
TokenRow == [user : Email, revoked : BOOLEAN, used : BOOLEAN]
Touch == [token : Nat, row : TokenRow]
Cookie == [user : Email, expires : Nat]
Pending == [state : Nat, login : MaybeLogin, port : MaybePort, expires : Nat]
Redirect == [port : MaybePort, state : MaybeLogin, code : Nat]
File == [Server -> MaybeNumber]
Process == [pc : {"off", "waiting", "exchanging", "save", "write", "done", "failed"},
            port : MaybePort, code : MaybeNumber, token : MaybeNumber,
            file : File \cup {None}, alone : BOOLEAN]
Handler == [login : Login, n : Nat, at : Nat,
            pc : {"redeem", "create", "created", "refused", "error"},
            user : Email \cup {None}, token : MaybeNumber]

\* Codes and tokens are numbered in the order they were made.
CodesTyped ==
    /\ \E n \in Nat : DOMAIN issued = 1..n
    /\ codes \in [DOMAIN codes -> CodeRow] /\ DOMAIN codes \subseteq DOMAIN issued
    /\ issued \in [DOMAIN issued -> IssuedRow]

TokensTyped ==
    /\ \E n \in Nat : DOMAIN tokens = 1..n
    /\ tokens \in [DOMAIN tokens -> TokenRow]
    /\ touches \subseteq Touch

BrowserTyped ==
    /\ session \in Cookie \cup {None} /\ pending \in Pending \cup {None}
    /\ states \in Nat /\ redirects \subseteq Redirect

AuthTyped == now \in Nat /\ CodesTyped /\ TokensTyped /\ BrowserTyped

ClientTyped ==
    /\ cli \in [Login -> Process]
    /\ handlers \subseteq Handler /\ IsFiniteSet(handlers)
    /\ creds \in File

TypeOK == AuthTyped /\ ClientTyped

(* The parts of the inductive invariant besides the type. *)

\* The table holds what was issued, and lacks only what has expired.
CodesAreAsIssued ==
    /\ \A c \in DOMAIN codes : codes[c].user = issued[c].user /\ codes[c].expires = issued[c].expires
    /\ \A c \in DOMAIN issued \ DOMAIN codes : issued[c].expires < now

\* A redirect brings the code of the login whose state it carries.
RedirectsAreAsIssued ==
    \A r \in redirects : r.code \in DOMAIN issued /\ issued[r.code].login = r.state

\* A deleted token is revoked; who is still to write to a token has an existing one.
DeletedIsRevoked ==
    /\ deleting \subseteq DOMAIN tokens
    /\ \A g \in touches : g.token \in DOMAIN tokens
    /\ \A t \in deleted : t \in DOMAIN tokens /\ tokens[t].revoked = TRUE

AuthOK == CodesAreAsIssued /\ RedirectsAreAsIssued /\ DeletedIsRevoked

\* A process takes only codes of its own, and has a token only after its exchange.
ProcessesOK ==
    \A l \in Login :
      /\ cli[l].code # None => cli[l].code \in DOMAIN issued /\ issued[cli[l].code].login = l
      /\ cli[l].pc \in {"off", "waiting", "exchanging"} => cli[l].token = None
      /\ cli[l].pc \in {"save", "write", "done"} => cli[l].token # None
      /\ cli[l].pc = "off" => cli[l].code = None
      /\ cli[l].pc \in {"exchanging", "save", "write", "done"} => cli[l].code # None
      /\ cli[l].token # None =>
           /\ cli[l].code # None /\ cli[l].token \in DOMAIN tokens
           /\ tokens[cli[l].token].user = issued[cli[l].code].user

\* The exchange requests that used their code.
Won(h) == h.pc \in {"create", "created", "error"}

\* What an exchange handler knows is true of the code of the process that sent it.
HandlerOK(h) ==
    LET c == cli[h.login].code
    IN  /\ c # None
        /\ h.at <= now
        /\ h.pc = "created" <=> h.token # None
        /\ h.pc = "create" => h.user = issued[c].user
        /\ h.pc = "created" => h.token \in DOMAIN tokens /\ tokens[h.token].user = issued[c].user
        /\ Won(h) /\ c \in DOMAIN codes => codes[c].redeemed = TRUE
        /\ h.pc = "refused" =>
             issued[c].expires < h.at \/ \E g \in handlers : Won(g) /\ g.login = h.login

\* One exchange of a process wins, and a code is marked used only by one that won.
OneWinner ==
    /\ \A g, h \in handlers : Won(g) /\ Won(h) /\ g.login = h.login => g = h
    /\ \A c \in DOMAIN codes : codes[c].redeemed = TRUE =>
         \E g \in handlers : Won(g) /\ cli[g.login].code = c

ExchangesOK == (\A h \in handlers : HandlerOK(h)) /\ OneWinner

\* The tokens that logins to server s have.
TokensFor(s) == {cli[m].token : m \in {k \in Login : ServerOf[k] = s}} \ {None}

\* Two saves that overlap both know; what a save holds, and what is in the file, has the
\* token of every server that a save which met no other has written.
FilesOK ==
    /\ \A l \in Login : cli[l].pc = "write" => cli[l].file \in File
    /\ \A k, l \in Saving : k # l => cli[l].alone = FALSE
    /\ \A l \in Login : cli[l].pc = "done" /\ cli[l].alone = TRUE =>
         /\ creds[ServerOf[l]] \in TokensFor(ServerOf[l])
         /\ \A k \in Saving : cli[k].file[ServerOf[l]] \in TokensFor(ServerOf[l])

LoginInv == TypeOK /\ AuthOK /\ ProcessesOK /\ ExchangesOK /\ FilesOK

-----------------------------------------------------------------------------

(* What the shared tables keep, whoever changes them. *)

\* No code and no token is taken back or given to somebody else, and a code that is
\* stored has not changed; new ones are unused.
TablesKept ==
    /\ now <= now'
    /\ \A c \in DOMAIN issued : c \in DOMAIN issued' /\ issued'[c] = issued[c]
    /\ \A t \in DOMAIN tokens : t \in DOMAIN tokens' /\ tokens'[t].user = tokens[t].user
    /\ \A c \in DOMAIN codes' :
         \/ c \in DOMAIN codes /\ codes'[c] = codes[c]
         \/ c \notin DOMAIN issued /\ codes'[c].redeemed = FALSE

\* A number past those in use is a new one.
LEMMA NextIsNew ==
    ASSUME NEW S, NEW n \in Nat, S = 1..n
    PROVE  /\ Cardinality(S) = n /\ Cardinality(S) + 1 \notin S
           /\ S \cup {Cardinality(S) + 1} = 1..(n + 1)
<1>1. Cardinality(S) = n
    BY FS_Interval, SMT
<1> QED
    BY <1>1, SMT

\* A row of the right shape keeps the table's shape.
LEMMA WithTyped ==
    ASSUME NEW t, NEW k, NEW row, NEW R, t \in [DOMAIN t -> R], row \in R
    PROVE  With(t, k, row) \in [DOMAIN With(t, k, row) -> R]
    BY DEF With

\* The user of a request that needs one is an account.
LEMMA PrincipalIsAnAccount ==
    ASSUME AuthTyped, NEW b \in Bearer, NEW c \in {None, sessionUser},
           principal(ResolvePrincipal(b, c))
    PROVE  ResolvePrincipal(b, c) \in Email
<1>1. sessionUser \in Email \cup {None}
    BY DEF AuthTyped, BrowserTyped, sessionUser, Cookie
<1>2. resolveBearer(b) \in Email \cup {None, Operator}
    BY DEF AuthTyped, TokensTyped, resolveBearer, resolveDBToken, TokenRow
<1>3. CASE authDisabled
    BY <1>3, Zenon DEF ResolvePrincipal, principal
<1>4. CASE ~authDisabled /\ resolveBearer(b) # None
  <2>1. ResolvePrincipal(b, c) = resolveBearer(b)
    BY <1>4, Zenon DEF ResolvePrincipal
  <2> QED
    BY <2>1, <1>2 DEF principal
<1>5. CASE ~authDisabled /\ resolveBearer(b) = None
  <2>1. ResolvePrincipal(b, c) = c
    BY <1>5, Zenon DEF ResolvePrincipal
  <2> QED
    BY <2>1, <1>1 DEF principal
<1> QED
    BY <1>3, <1>4, <1>5

\* A new code: the sweep takes only what has expired.
LEMMA IssueStep ==
    ASSUME AuthAssumption, AuthTyped, AuthOK, NEW user \in Email, NEW l \in MaybeLogin,
           NEW code, Issue(user, l, code), now' = now
    PROVE  /\ CodesTyped'
           /\ CodesAreAsIssued'
           /\ code \in DOMAIN issued' /\ code \in Nat /\ issued'[code].login = l
           /\ \A c \in DOMAIN issued : c \in DOMAIN issued' /\ issued'[c] = issued[c]
           /\ \A c \in DOMAIN codes' :
                \/ c \in DOMAIN codes /\ codes'[c] = codes[c]
                \/ c \notin DOMAIN issued /\ codes'[c].redeemed = FALSE
<1> DEFINE crow == [user |-> user, expires |-> now + codeTTL, redeemed |-> FALSE]
           irow == [user |-> user, expires |-> now + codeTTL, login |-> l]
           kept == Without(codes, DeleteExpiredCLILoginCodes)
<1>1. PICK n \in Nat : DOMAIN issued = 1..n
    BY DEF AuthTyped, CodesTyped
<1>2. code = Cardinality(DOMAIN issued) + 1
    BY DEF Issue
<1>3. code \in Nat /\ code \notin DOMAIN issued /\ DOMAIN issued \cup {code} = 1..(n + 1)
  <2>1. /\ Cardinality(DOMAIN issued) = n /\ Cardinality(DOMAIN issued) + 1 \notin DOMAIN issued
        /\ DOMAIN issued \cup {Cardinality(DOMAIN issued) + 1} = 1..(n + 1)
    BY <1>1, NextIsNew, Zenon
  <2>2. n + 1 \in Nat
    OBVIOUS
  <2> QED
    BY <2>1, <2>2, <1>2, Zenon
<1>4. crow \in CodeRow /\ irow \in IssuedRow
    BY DEF CodeRow, IssuedRow, AuthAssumption, AuthTyped
<1>5. codes' = With(kept, code, crow) /\ issued' = With(issued, code, irow)
    BY DEF Issue
<1> HIDE DEF crow, irow
<1>6. /\ DOMAIN kept = DOMAIN codes \ DeleteExpiredCLILoginCodes
      /\ \A c \in DOMAIN kept : kept[c] = codes[c]
      /\ kept \in [DOMAIN kept -> CodeRow]
    BY DEF Without, AuthTyped, CodesTyped
<1> HIDE DEF kept
<1>7. /\ DOMAIN codes' = DOMAIN kept \cup {code} /\ codes'[code] = crow
      /\ \A c \in DOMAIN kept \ {code} : codes'[c] = codes[c]
  <2>1. /\ DOMAIN With(kept, code, crow) = DOMAIN kept \cup {code}
        /\ With(kept, code, crow)[code] = crow
        /\ \A c \in DOMAIN kept \ {code} : With(kept, code, crow)[c] = kept[c]
    BY DEF With
  <2> QED
    BY <2>1, <1>5, <1>6
<1>8. /\ DOMAIN issued' = DOMAIN issued \cup {code} /\ issued'[code] = irow
      /\ \A c \in DOMAIN issued \ {code} : issued'[c] = issued[c]
  <2>1. /\ DOMAIN With(issued, code, irow) = DOMAIN issued \cup {code}
        /\ With(issued, code, irow)[code] = irow
        /\ \A c \in DOMAIN issued \ {code} : With(issued, code, irow)[c] = issued[c]
    BY DEF With
  <2> QED
    BY <2>1, <1>5, <1>6
<1>9. codes' \in [DOMAIN codes' -> CodeRow] /\ issued' \in [DOMAIN issued' -> IssuedRow]
  <2>1. codes' \in [DOMAIN codes' -> CodeRow]
    BY <1>4, <1>5, <1>6, WithTyped
  <2>2. issued \in [DOMAIN issued -> IssuedRow]
    BY DEF AuthTyped, CodesTyped
  <2>3. issued' \in [DOMAIN issued' -> IssuedRow]
    BY <2>2, <1>4, <1>5, WithTyped
  <2> QED
    BY <2>1, <2>3
<1>10. DOMAIN codes \subseteq DOMAIN issued
    BY DEF AuthTyped, CodesTyped
<1>11. CodesAreAsIssued'
  <2>1. /\ crow.user = irow.user /\ crow.expires = irow.expires
    BY DEF crow, irow
  <2>2. \A c \in DOMAIN codes' : codes'[c].user = issued'[c].user
                                 /\ codes'[c].expires = issued'[c].expires
    BY <2>1, <1>3, <1>6, <1>7, <1>8, <1>10, Zenon DEF AuthOK, CodesAreAsIssued
  <2>3. ASSUME NEW c \in DOMAIN issued' \ DOMAIN codes'
        PROVE  issued'[c].expires < now'
    <3>1. c \in DOMAIN issued /\ c # code /\ c \notin DOMAIN kept /\ issued'[c] = issued[c]
      BY <2>3, <1>7, <1>8
    <3>2. CASE c \in DOMAIN codes
      BY <3>1, <3>2, <1>6 DEF AuthOK, CodesAreAsIssued, DeleteExpiredCLILoginCodes
    <3>3. CASE c \notin DOMAIN codes
      BY <3>1, <3>3 DEF AuthOK, CodesAreAsIssued
    <3> QED
      BY <3>2, <3>3
  <2> QED
    BY <2>2, <2>3, Zenon DEF CodesAreAsIssued
<1>12. crow.redeemed = FALSE /\ irow.login = l
    BY DEF crow, irow
<1>13. \E m \in Nat : DOMAIN issued' = 1..m
    BY <1>3, <1>8, n + 1 \in Nat, Zenon
<1>14. DOMAIN codes' \subseteq DOMAIN issued'
    BY <1>6, <1>7, <1>8, <1>10
<1>15. \A c \in DOMAIN codes' :
                \/ c \in DOMAIN codes /\ codes'[c] = codes[c]
                \/ c \notin DOMAIN issued /\ codes'[c].redeemed = FALSE
    BY <1>3, <1>6, <1>7, <1>12, Zenon
<1>16. \A c \in DOMAIN issued : c \in DOMAIN issued' /\ issued'[c] = issued[c]
    BY <1>3, <1>8, Zenon
<1>17. code \in DOMAIN issued' /\ code \in Nat /\ issued'[code].login = l
    BY <1>3, <1>8, <1>12, Zenon
<1> QED
    BY <1>9, <1>11, <1>13, <1>14, <1>15, <1>16, <1>17, Zenon DEF CodesTyped


\* A new token, with a number of its own.
LEMMA CreateStep ==
    ASSUME TokensTyped, NEW user \in Email, NEW t, CreateAPIToken(user, t)
    PROVE  /\ \E n \in Nat : DOMAIN tokens' = 1..n
           /\ tokens' \in [DOMAIN tokens' -> TokenRow]
           /\ t \in DOMAIN tokens' /\ t \in Nat /\ tokens'[t].user = user
           /\ \A s \in DOMAIN tokens : s \in DOMAIN tokens' /\ tokens'[s] = tokens[s]
<1> DEFINE row == [user |-> user, revoked |-> FALSE, used |-> FALSE]
<1>1. PICK n \in Nat : DOMAIN tokens = 1..n
    BY DEF TokensTyped
<1>2. t \in Nat /\ t \notin DOMAIN tokens /\ DOMAIN tokens \cup {t} = 1..(n + 1)
  <2>1. /\ Cardinality(DOMAIN tokens) = n /\ Cardinality(DOMAIN tokens) + 1 \notin DOMAIN tokens
        /\ DOMAIN tokens \cup {Cardinality(DOMAIN tokens) + 1} = 1..(n + 1)
    BY <1>1, NextIsNew, Zenon
  <2>2. n + 1 \in Nat
    OBVIOUS
  <2> QED
    BY <2>1, <2>2, Zenon DEF CreateAPIToken
<1>3. row \in TokenRow /\ row.user = user
    BY DEF TokenRow
<1>4. tokens' = With(tokens, t, row)
    BY DEF CreateAPIToken
<1> HIDE DEF row
<1>5. /\ DOMAIN tokens' = DOMAIN tokens \cup {t} /\ tokens'[t] = row
      /\ \A s \in DOMAIN tokens \ {t} : tokens'[s] = tokens[s]
    BY <1>4 DEF With
<1>6. tokens' \in [DOMAIN tokens' -> TokenRow]
  <2>1. tokens \in [DOMAIN tokens -> TokenRow]
    BY DEF TokensTyped
  <2> QED
    BY <2>1, <1>3, <1>4, WithTyped
<1>7. \E m \in Nat : DOMAIN tokens' = 1..m
    BY <1>2, <1>5, n + 1 \in Nat, Zenon
<1>8. \A s \in DOMAIN tokens : s \in DOMAIN tokens' /\ tokens'[s] = tokens[s]
    BY <1>2, <1>5, Zenon
<1> QED
    BY <1>2, <1>3, <1>5, <1>6, <1>7, <1>8, Zenon

\* An authenticated request leaves a stamp to be written to a token that exists.
LEMMA AuthenticateStep ==
    ASSUME TokensTyped, DeletedIsRevoked, NEW b, Authenticate(b)
    PROVE  touches' \subseteq Touch /\ \A g \in touches' : g.token \in DOMAIN tokens
<1>1. CASE shouldTouchLastUsed(b)
  <2>1. touches' = touches \cup {[token |-> b, row |-> tokens[b]]}
    BY <1>1 DEF Authenticate
  <2>2. b \in DOMAIN tokens /\ tokens[b] \in TokenRow /\ b \in Nat
    BY <1>1 DEF shouldTouchLastUsed, TokensTyped
  <2>3. [token |-> b, row |-> tokens[b]] \in Touch
    BY <2>2 DEF Touch
  <2> QED
    BY <2>1, <2>2, <2>3 DEF TokensTyped, DeletedIsRevoked
<1>2. CASE ~shouldTouchLastUsed(b)
    BY <1>2 DEF Authenticate, TokensTyped, DeletedIsRevoked
<1> QED
    BY <1>1, <1>2

\* A step that touches no code keeps what is true of the codes, at any later time.
LEMMA CodesIdle ==
    ASSUME AuthTyped, AuthOK, now' \in Nat, now <= now', UNCHANGED <<codes, issued, redirects>>
    PROVE  CodesTyped' /\ CodesAreAsIssued' /\ RedirectsAreAsIssued'
<1>1. CodesTyped'
    BY DEF AuthTyped, CodesTyped
<1>2. CodesAreAsIssued'
  <2>1. \A c \in DOMAIN issued : issued[c].expires \in Nat
    BY DEF AuthTyped, CodesTyped, IssuedRow
  <2> QED
    BY <2>1 DEF AuthOK, CodesAreAsIssued, AuthTyped
<1>3. RedirectsAreAsIssued'
    BY DEF AuthOK, RedirectsAreAsIssued
<1> QED
    BY <1>1, <1>2, <1>3

\* A step that changes no token keeps what is true of the tokens.
LEMMA TokensIdle ==
    ASSUME AuthTyped, AuthOK, UNCHANGED <<tokens, touches, deleting, deleted>>
    PROVE  TokensTyped' /\ DeletedIsRevoked'
    BY DEF AuthTyped, AuthOK, TokensTyped, DeletedIsRevoked

\* The parts make the whole.
LEMMA AuthParts ==
    ASSUME now' \in Nat, CodesTyped', TokensTyped', BrowserTyped',
           CodesAreAsIssued', RedirectsAreAsIssued', DeletedIsRevoked'
    PROVE  AuthTyped' /\ AuthOK'
    BY DEF AuthTyped, AuthOK

\* The redirect of a command-line login, and the code it brings.
LEMMA RedirectStep ==
    ASSUME AuthAssumption, AuthTyped, AuthOK, NEW user \in Email, NEW l \in MaybeLogin,
           NEW port \in MaybePort, redirectToLoopback(user, l, port), now' = now
    PROVE  /\ CodesTyped' /\ CodesAreAsIssued' /\ RedirectsAreAsIssued'
           /\ redirects' \subseteq Redirect
           /\ \A c \in DOMAIN issued : c \in DOMAIN issued' /\ issued'[c] = issued[c]
           /\ \A c \in DOMAIN codes' :
                \/ c \in DOMAIN codes /\ codes'[c] = codes[c]
                \/ c \notin DOMAIN issued /\ codes'[c].redeemed = FALSE
<1>1. PICK code \in 1..MaxCodes :
        /\ Issue(user, l, code)
        /\ redirects' = redirects \cup {[port |-> port, state |-> l, code |-> code]}
    BY DEF redirectToLoopback
<1>2. /\ CodesTyped' /\ CodesAreAsIssued'
      /\ code \in DOMAIN issued' /\ code \in Nat /\ issued'[code].login = l
      /\ \A c \in DOMAIN issued : c \in DOMAIN issued' /\ issued'[c] = issued[c]
      /\ \A c \in DOMAIN codes' :
           \/ c \in DOMAIN codes /\ codes'[c] = codes[c]
           \/ c \notin DOMAIN issued /\ codes'[c].redeemed = FALSE
  <2>1. Issue(user, l, code)
    BY <1>1
  <2> QED
    BY <2>1, IssueStep, ZenonT(60)
<1>3. redirects' \subseteq Redirect
    BY <1>1, <1>2 DEF AuthTyped, BrowserTyped, Redirect
<1>4. RedirectsAreAsIssued'
    BY <1>1, <1>2 DEF AuthOK, RedirectsAreAsIssued
<1> QED
    BY <1>2, <1>3, <1>4, Zenon


\* Opening a command-line login's URL.
LEMMA CLIStartStep ==
    ASSUME AuthAssumption, AuthTyped, AuthOK, NEW l \in MaybeLogin, NEW port \in MaybePort,
           cliStart(l, port)
    PROVE  AuthTyped' /\ AuthOK' /\ TablesKept
<1>0. now' = now /\ now \in Nat
    BY DEF cliStart, AuthTyped
<1>1. CASE sessionUser # None /\ redirectToLoopback(sessionUser, l, port) /\ pending' = None
           /\ UNCHANGED <<users, tokens, touches, deleting, deleted, requests, session, tabs, states>>
  <2>1. sessionUser \in Email
    BY <1>1 DEF AuthTyped, BrowserTyped, sessionUser, Cookie
  <2>2. /\ CodesTyped' /\ CodesAreAsIssued' /\ RedirectsAreAsIssued'
        /\ redirects' \subseteq Redirect
        /\ \A c \in DOMAIN issued : c \in DOMAIN issued' /\ issued'[c] = issued[c]
        /\ \A c \in DOMAIN codes' :
             \/ c \in DOMAIN codes /\ codes'[c] = codes[c]
             \/ c \notin DOMAIN issued /\ codes'[c].redeemed = FALSE
    BY <1>0, <1>1, <2>1, RedirectStep, Zenon
  <2>3. TokensTyped' /\ DeletedIsRevoked'
    BY <1>1, TokensIdle
  <2>4. BrowserTyped'
    BY <1>1, <2>2 DEF AuthTyped, BrowserTyped
  <2>5. TablesKept
    BY <1>0, <1>1, <2>2 DEF TablesKept
  <2> QED
    BY <1>0, <2>2, <2>3, <2>4, <2>5, AuthParts
<1>2. CASE beginOIDC(l, port)
  <2>1. UNCHANGED <<codes, issued, tokens, touches, deleting, deleted, redirects, session>>
    BY <1>2 DEF beginOIDC, serverVars
  <2>2. BrowserTyped'
    <3>1. states' \in Nat /\ pending' = [state |-> states', login |-> l, port |-> port,
                                         expires |-> now + pendingMaxAge]
      BY <1>2 DEF beginOIDC, AuthTyped, BrowserTyped
    <3>2. pending' \in Pending
      BY <3>1, <1>0 DEF Pending, AuthAssumption
    <3> QED
      BY <3>1, <3>2, <2>1 DEF BrowserTyped, AuthTyped
  <2>3. TablesKept
    BY <1>0, <2>1 DEF TablesKept
  <2> QED
    BY <1>0, <2>1, <2>2, <2>3, AuthParts, CodesIdle, TokensIdle
<1> QED
    BY <1>1, <1>2 DEF cliStart

\* A request to delete a token is let through: nothing is revoked yet.
LEMMA DeleteTokenStep ==
    ASSUME AuthTyped, AuthOK, NEW b, NEW c, NEW t, deleteToken(b, c, t)
    PROVE  AuthTyped' /\ AuthOK' /\ TablesKept
<1>1. /\ now' = now /\ now \in Nat /\ t \in DOMAIN tokens /\ deleting' = deleting \cup {t}
      /\ Authenticate(b)
      /\ UNCHANGED <<codes, issued, tokens, deleted, session, pending, states, redirects>>
    BY DEF deleteToken, AuthTyped, browserVars
<1>2. touches' \subseteq Touch /\ \A g \in touches' : g.token \in DOMAIN tokens
    BY <1>1, AuthenticateStep DEF AuthTyped, AuthOK
<1>3. TokensTyped' /\ DeletedIsRevoked'
    BY <1>1, <1>2 DEF AuthTyped, AuthOK, TokensTyped, DeletedIsRevoked
<1>4. BrowserTyped'
    BY <1>1 DEF AuthTyped, BrowserTyped
<1>5. TablesKept
    BY <1>1 DEF TablesKept
<1> QED
    BY <1>1, <1>3, <1>4, <1>5, AuthParts, CodesIdle

\* The identity provider sends the browser back.
LEMMA CallbackStep ==
    ASSUME AuthAssumption, AuthTyped, AuthOK, NEW s \in tabs, NEW e \in Email, callback(s, e)
    PROVE  AuthTyped' /\ AuthOK' /\ TablesKept
<1>1. /\ now' = now /\ now \in Nat
      /\ session' = [user |-> e, expires |-> now + SessionMaxAge] /\ pending' = None
      /\ UNCHANGED <<tokens, touches, deleting, deleted, states>>
    BY DEF callback, AuthTyped
<1>2. session' \in Cookie
    BY <1>1 DEF Cookie, AuthAssumption
<1>3. TokensTyped' /\ DeletedIsRevoked'
    BY <1>1, TokensIdle
<1>4. CASE pending.port # None /\ redirectToLoopback(e, pending.login, pending.port)
  <2>1. pending \in Pending
    BY DEF callback, readPending, AuthTyped, BrowserTyped
  <2>2. pending.login \in MaybeLogin /\ pending.port \in MaybePort
    BY <2>1 DEF Pending
  <2>3. /\ CodesTyped' /\ CodesAreAsIssued' /\ RedirectsAreAsIssued'
        /\ redirects' \subseteq Redirect
        /\ \A c \in DOMAIN issued : c \in DOMAIN issued' /\ issued'[c] = issued[c]
        /\ \A c \in DOMAIN codes' :
             \/ c \in DOMAIN codes /\ codes'[c] = codes[c]
             \/ c \notin DOMAIN issued /\ codes'[c].redeemed = FALSE
    BY <1>1, <1>4, <2>2, RedirectStep, Zenon
  <2>4. BrowserTyped'
    BY <1>1, <1>2, <2>3 DEF AuthTyped, BrowserTyped
  <2>5. TablesKept
    BY <1>1, <2>3 DEF TablesKept
  <2> QED
    BY <1>1, <1>3, <2>3, <2>4, <2>5, AuthParts
<1>5. CASE UNCHANGED <<codes, issued, redirects>>
  <2>1. BrowserTyped'
    BY <1>1, <1>2, <1>5 DEF AuthTyped, BrowserTyped
  <2>2. TablesKept
    BY <1>1, <1>5 DEF TablesKept
  <2>3. now <= now' /\ now' \in Nat
    BY <1>1
  <2> QED
    BY <1>3, <1>5, <2>1, <2>2, <2>3, AuthParts, CodesIdle
<1> QED
    BY <1>4, <1>5 DEF callback

\* A step about tokens only.
LEMMA TokensOnly ==
    ASSUME AuthTyped, AuthOK, now' = now,
           UNCHANGED <<codes, issued, session, pending, states, redirects>>,
           TokensTyped', DeletedIsRevoked',
           \A t \in DOMAIN tokens : t \in DOMAIN tokens' /\ tokens'[t].user = tokens[t].user
    PROVE  AuthTyped' /\ AuthOK' /\ TablesKept
<1>1. now' \in Nat /\ now <= now'
    BY DEF AuthTyped
<1>2. BrowserTyped'
    BY DEF AuthTyped, BrowserTyped
<1>3. TablesKept
    BY <1>1 DEF TablesKept
<1> QED
    BY <1>1, <1>2, <1>3, AuthParts, CodesIdle

\* The token requests, and the background writes.
LEMMA TokenStep ==
    ASSUME AuthTyped, AuthOK,
           \/ \E b \in Bearer, c \in {None, sessionUser} : createToken(b, c)
           \/ \E b \in Bearer : request(b)
           \/ \E t \in deleting : RevokeAPIToken(t)
           \/ \E e \in Email : adminCreateToken(e)
           \/ \E g \in touches : touchLastUsed(g)
    PROVE  AuthTyped' /\ AuthOK' /\ TablesKept
<1>0. TokensTyped /\ DeletedIsRevoked
    BY DEF AuthTyped, AuthOK
<1>1. ASSUME NEW b \in Bearer, NEW c \in {None, sessionUser}, createToken(b, c)
      PROVE  AuthTyped' /\ AuthOK' /\ TablesKept
  <2>1. /\ now' = now /\ Authenticate(b)
        /\ UNCHANGED <<codes, issued, deleting, deleted, session, pending, states, redirects>>
    BY <1>1 DEF createToken, browserVars
  <2>2. PICK t \in 1..MaxTokens : CreateAPIToken(ResolvePrincipal(b, c), t)
    BY <1>1 DEF createToken
  <2>3. ResolvePrincipal(b, c) \in Email
    BY <1>1, PrincipalIsAnAccount DEF createToken
  <2>4. /\ \E n \in Nat : DOMAIN tokens' = 1..n
        /\ tokens' \in [DOMAIN tokens' -> TokenRow]
        /\ \A s \in DOMAIN tokens : s \in DOMAIN tokens' /\ tokens'[s] = tokens[s]
    BY <1>0, <2>2, <2>3, CreateStep, Zenon
  <2>5. touches' \subseteq Touch /\ \A g \in touches' : g.token \in DOMAIN tokens
    BY <1>0, <2>1, AuthenticateStep
  <2>6. TokensTyped' /\ DeletedIsRevoked'
    BY <1>0, <2>1, <2>4, <2>5 DEF TokensTyped, DeletedIsRevoked
  <2> QED
    BY <2>1, <2>4, <2>6, TokensOnly
<1>2. ASSUME NEW b \in Bearer, request(b)
      PROVE  AuthTyped' /\ AuthOK' /\ TablesKept
  <2>1. /\ now' = now /\ Authenticate(b)
        /\ UNCHANGED <<codes, issued, tokens, deleting, deleted, session, pending, states, redirects>>
    BY <1>2 DEF request, browserVars
  <2>2. touches' \subseteq Touch /\ \A g \in touches' : g.token \in DOMAIN tokens
    BY <1>0, <2>1, AuthenticateStep
  <2>3. TokensTyped' /\ DeletedIsRevoked'
    BY <1>0, <2>1, <2>2 DEF TokensTyped, DeletedIsRevoked
  <2> QED
    BY <2>1, <2>3, TokensOnly
<1>3. ASSUME NEW t \in deleting, RevokeAPIToken(t)
      PROVE  AuthTyped' /\ AuthOK' /\ TablesKept
  <2>1. /\ now' = now /\ deleting' = deleting \ {t} /\ deleted' = deleted \cup {t}
        /\ tokens' = [tokens EXCEPT ![t] = [tokens[t] EXCEPT !.revoked = TRUE]]
        /\ UNCHANGED <<codes, issued, touches, session, pending, states, redirects>>
    BY <1>3, Zenon DEF RevokeAPIToken, browserVars
  <2>2. t \in DOMAIN tokens /\ tokens[t] \in TokenRow
    BY <1>0 DEF TokensTyped, DeletedIsRevoked
  <2> DEFINE row == [tokens[t] EXCEPT !.revoked = TRUE]
  <2>3. row \in TokenRow /\ row.revoked = TRUE /\ row.user = tokens[t].user
    BY <2>2, Zenon DEF TokenRow
  <2> HIDE DEF row
  <2>4. tokens' = [tokens EXCEPT ![t] = row]
    BY <2>1, Zenon DEF row
  <2>5. /\ DOMAIN tokens' = DOMAIN tokens /\ tokens'[t] = row
        /\ \A s \in DOMAIN tokens \ {t} : tokens'[s] = tokens[s]
        /\ tokens' \in [DOMAIN tokens' -> TokenRow]
    BY <1>0, <2>2, <2>3, <2>4 DEF TokensTyped
  <2>6. TokensTyped' /\ DeletedIsRevoked'
    BY <1>0, <2>1, <2>2, <2>3, <2>5 DEF TokensTyped, DeletedIsRevoked
  <2>7. \A s \in DOMAIN tokens : s \in DOMAIN tokens' /\ tokens'[s].user = tokens[s].user
    BY <2>3, <2>5
  <2> QED
    BY <2>1, <2>6, <2>7, TokensOnly
<1>4. ASSUME NEW e \in Email, adminCreateToken(e)
      PROVE  AuthTyped' /\ AuthOK' /\ TablesKept
  <2>1. /\ now' = now
        /\ UNCHANGED <<codes, issued, touches, deleting, deleted, session, pending, states, redirects>>
    BY <1>4 DEF adminCreateToken, browserVars
  <2>2. PICK t \in 1..MaxTokens : CreateAPIToken(e, t)
    BY <1>4 DEF adminCreateToken
  <2>4. /\ \E n \in Nat : DOMAIN tokens' = 1..n
        /\ tokens' \in [DOMAIN tokens' -> TokenRow]
        /\ \A s \in DOMAIN tokens : s \in DOMAIN tokens' /\ tokens'[s] = tokens[s]
    BY <1>0, <2>2, CreateStep, Zenon
  <2>6. TokensTyped' /\ DeletedIsRevoked'
    BY <1>0, <2>1, <2>4 DEF TokensTyped, DeletedIsRevoked
  <2> QED
    BY <2>1, <2>4, <2>6, TokensOnly
<1>5. ASSUME NEW g \in touches, touchLastUsed(g)
      PROVE  AuthTyped' /\ AuthOK' /\ TablesKept
  <2>1. /\ now' = now /\ touches' = touches \ {g}
        /\ UNCHANGED <<codes, issued, deleting, deleted, session, pending, states, redirects>>
    BY <1>5 DEF touchLastUsed, browserVars
  <2>2. g.token \in DOMAIN tokens /\ tokens[g.token] \in TokenRow
    BY <1>0 DEF TokensTyped, DeletedIsRevoked
  <2> DEFINE row == [tokens[g.token] EXCEPT !.used = TRUE]
  <2>3. /\ row \in TokenRow /\ row.revoked = tokens[g.token].revoked
        /\ row.user = tokens[g.token].user
    BY <2>2, Zenon DEF TokenRow
  <2> HIDE DEF row
  <2>4. tokens' = [tokens EXCEPT ![g.token] = row] \/ tokens' = tokens
    BY <1>5, Zenon DEF row, touchLastUsed, TouchAPITokenLastUsed
  <2>5. /\ DOMAIN tokens' = DOMAIN tokens
        /\ \A s \in DOMAIN tokens : tokens'[s].user = tokens[s].user
                                    /\ tokens'[s].revoked = tokens[s].revoked
        /\ tokens' \in [DOMAIN tokens' -> TokenRow]
    BY <1>0, <2>2, <2>3, <2>4 DEF TokensTyped
  <2>6. TokensTyped' /\ DeletedIsRevoked'
    BY <1>0, <2>1, <2>2, <2>5 DEF TokensTyped, DeletedIsRevoked
  <2> QED
    BY <2>1, <2>5, <2>6, TokensOnly
<1> QED
    BY <1>1, <1>2, <1>3, <1>4, <1>5

\* Every step of the server and the browser.
LEMMA AuthStep ==
    ASSUME AuthAssumption, AuthTyped, AuthOK, AuthNext
    PROVE  AuthTyped' /\ AuthOK' /\ TablesKept
<1>0. now \in Nat
    BY DEF AuthTyped
<1>1. CASE Tick \/ logout \/ \E s \in tabs : callbackRefused(s)
  <2>1. /\ now' \in Nat /\ now <= now'
        /\ UNCHANGED <<codes, issued, tokens, touches, deleting, deleted, pending, states, redirects>>
        /\ session' \in {session, None}
    BY <1>0, <1>1 DEF Tick, logout, Counted, callbackRefused, serverVars, browserVars
  <2>2. BrowserTyped'
    BY <2>1 DEF AuthTyped, BrowserTyped
  <2>3. TablesKept
    BY <2>1 DEF TablesKept
  <2> QED
    BY <2>1, <2>2, <2>3, AuthParts, CodesIdle, TokensIdle
<1>2. CASE login
  <2>1. now' = now /\ beginOIDC(None, None)
    BY <1>2 DEF login
  <2>2. UNCHANGED <<codes, issued, tokens, touches, deleting, deleted, redirects, session>>
    BY <2>1 DEF beginOIDC, serverVars
  <2>3. BrowserTyped'
    <3>1. states' \in Nat /\ pending' = [state |-> states', login |-> None, port |-> None,
                                         expires |-> now + pendingMaxAge]
      BY <2>1 DEF beginOIDC, AuthTyped, BrowserTyped
    <3>2. pending' \in Pending
      BY <3>1, <1>0 DEF Pending, AuthAssumption, MaybeLogin, MaybePort
    <3> QED
      BY <3>1, <3>2, <2>2 DEF BrowserTyped, AuthTyped
  <2>4. TablesKept
    BY <1>0, <2>1, <2>2 DEF TablesKept
  <2> QED
    BY <1>0, <2>1, <2>2, <2>3, <2>4, AuthParts, CodesIdle, TokensIdle
<1>3. CASE \E s \in tabs, e \in Email : callback(s, e)
    BY <1>3, CallbackStep
<1>4. CASE \E b \in Bearer, c \in {None, sessionUser}, t \in DOMAIN tokens : deleteToken(b, c, t)
    BY <1>4, DeleteTokenStep
<1> QED
    BY <1>1, <1>2, <1>3, <1>4, TokenStep DEF AuthNext


-----------------------------------------------------------------------------

\* The command lines know of the tables only what the tables keep.
LEMMA ClientIdle ==
    ASSUME LoginInv, AuthTyped', AuthOK', TablesKept, UNCHANGED <<cli, handlers, creds>>
    PROVE  LoginInv'
<1>1. TypeOK'
    BY DEF LoginInv, TypeOK, ClientTyped
<1>2. \A l \in Login : cli[l].code # None =>
        cli[l].code \in DOMAIN issued /\ issued'[cli[l].code] = issued[cli[l].code]
        /\ cli[l].code \in DOMAIN issued'
    BY DEF LoginInv, ProcessesOK, TablesKept
<1>3. ProcessesOK'
    BY <1>2 DEF LoginInv, ProcessesOK, TablesKept
<1>4. ASSUME NEW h \in handlers
      PROVE  HandlerOK(h)'
  <2> DEFINE c == cli[h.login].code
  <2>1. h.login \in Login /\ h \in Handler
    BY DEF LoginInv, TypeOK, ClientTyped, Handler
  <2>2. HandlerOK(h)
    BY DEF LoginInv, ExchangesOK
  <2>3. c # None /\ c \in DOMAIN issued /\ issued'[c] = issued[c]
    BY <1>2, <2>1, <2>2 DEF HandlerOK
  <2>4. h.at <= now'
    BY <2>1, <2>2 DEF HandlerOK, TablesKept, Handler, LoginInv, TypeOK, AuthTyped
  <2>5. c \in DOMAIN codes' => c \in DOMAIN codes /\ codes'[c] = codes[c]
    BY <2>3 DEF TablesKept
  <2>6. h.pc = "created" => h.token \in DOMAIN tokens' /\ tokens'[h.token].user = issued'[c].user
    BY <2>2, <2>3 DEF HandlerOK, TablesKept
  <2> QED
    BY <2>2, <2>3, <2>4, <2>5, <2>6 DEF HandlerOK, Won
<1>5. OneWinner'
  <2>1. ASSUME NEW c \in DOMAIN codes', codes'[c].redeemed = TRUE
        PROVE  c \in DOMAIN codes /\ codes'[c] = codes[c]
    BY <2>1, Zenon DEF TablesKept
  <2> QED
    BY <2>1 DEF LoginInv, ExchangesOK, OneWinner, Won
<1>6. FilesOK'
    BY DEF LoginInv, FilesOK, Saving, TokensFor, File
<1> QED
    BY <1>1, <1>3, <1>4, <1>5, <1>6 DEF LoginInv, ExchangesOK

\* What the processes and handlers know of the tables they share, when a step of
\* process l changes nothing but that process.
LEMMA FilesIdle ==
    ASSUME FilesOK, creds' = creds, NEW l \in Login,
           \A m \in Login \ {l} : cli'[m] = cli[m],
           cli[l].pc \notin {"write", "done"}, cli'[l].pc \notin {"write", "done"},
           cli'[l].token # cli[l].token => cli[l].token = None
    PROVE  FilesOK'
<1>1. Saving' = Saving /\ l \notin Saving
    BY DEF Saving
<1>2. \A s : TokensFor(s) \subseteq TokensFor(s)'
    BY DEF TokensFor
<1>3. \A m \in Login : cli'[m].pc \in {"write", "done"} => m # l /\ cli'[m] = cli[m]
    OBVIOUS
<1>4. \A m \in Saving : cli'[m] = cli[m]
    BY <1>1 DEF Saving
<1>5. \A k, m \in Saving' : k # m => cli'[k].alone = FALSE
    BY <1>1, <1>4 DEF FilesOK
<1>6. \A m \in Login : cli'[m].pc = "write" => cli'[m].file \in File'
    BY <1>3 DEF FilesOK, File
<1>7. ASSUME NEW m \in Login, cli'[m].pc = "done", cli'[m].alone = TRUE
      PROVE  /\ creds'[ServerOf[m]] \in TokensFor(ServerOf[m])'
             /\ \A k \in Saving' : cli'[k].file[ServerOf[m]] \in TokensFor(ServerOf[m])'
    BY <1>1, <1>2, <1>3, <1>4, <1>7 DEF FilesOK
<1> QED
    BY <1>5, <1>6, <1>7 DEF FilesOK

\* A step that leaves the code of every process that has one, and that neither the
\* handlers nor the tables take part in.
LEMMA ExchangesIdle ==
    ASSUME LoginInv, UNCHANGED <<now, codes, issued, tokens, handlers>>,
           \A m \in Login : cli[m].code # None => cli'[m].code = cli[m].code
    PROVE  ExchangesOK'
<1>1. \A h \in handlers : h.login \in Login /\ cli[h.login].code # None
                          /\ cli'[h.login].code = cli[h.login].code
    BY DEF LoginInv, TypeOK, ClientTyped, Handler, ExchangesOK, HandlerOK
<1>2. \A h \in handlers : HandlerOK(h)'
    BY <1>1 DEF LoginInv, ExchangesOK, HandlerOK, Won
<1>3. OneWinner'
    BY <1>1 DEF LoginInv, ExchangesOK, OneWinner, Won
<1> QED
    BY <1>2, <1>3 DEF ExchangesOK

\* The tables as they were.
LEMMA AuthIdle ==
    ASSUME LoginInv, UNCHANGED authVars
    PROVE  AuthTyped' /\ AuthOK'
<1>1. AuthTyped /\ AuthOK
    BY DEF LoginInv, TypeOK
<1>2. now' \in Nat /\ now <= now'
    BY <1>1 DEF authVars, AuthTyped
<1>3. BrowserTyped'
    BY <1>1 DEF authVars, AuthTyped, BrowserTyped
<1> QED
    BY <1>1, <1>2, <1>3, AuthParts, CodesIdle, TokensIdle DEF authVars

\* A process begins to listen, gets a code, or gives up.
LEMMA WaitingStep ==
    ASSUME LoginInv, NEW l \in Login,
           \/ \E port \in Port : startLoopback(l, port)
           \/ \E r \in redirects : handleCallback(l, r)
           \/ Fail(l)
    PROVE  LoginInv'
<1>1. cli[l] \in Process /\ cli \in [Login -> Process]
    BY DEF LoginInv, TypeOK, ClientTyped
<1>2. UNCHANGED <<authVars, handlers, creds>>
    BY Zenon DEF startLoopback, handleCallback, Fail
<1> DEFINE Waits(p) ==
        /\ cli' = [cli EXCEPT ![l] = p] /\ p \in Process
        /\ p.token = cli[l].token /\ p.pc \in {"waiting", "failed"}
        /\ cli[l].pc \in {"off", "waiting", "exchanging"}
        /\ \/ p.code = cli[l].code
           \/ cli[l].code = None /\ \E r \in redirects : r.state = l /\ p.code = r.code
<1>3. PICK p : Waits(p)
  <2>1. ASSUME NEW port \in Port, startLoopback(l, port)
        PROVE  \E p : Waits(p)
    <3> DEFINE q == [cli[l] EXCEPT !.pc = "waiting", !.port = port]
    <3>1. cli' = [cli EXCEPT ![l] = q]
      BY <1>1, <2>1, Zenon DEF Process, startLoopback
    <3>2. /\ q \in Process /\ q.pc = "waiting" /\ q.code = cli[l].code /\ q.token = cli[l].token
      BY <1>1, Zenon DEF Process, MaybePort
    <3>3. cli[l].pc = "off"
      BY <2>1, Zenon DEF startLoopback
    <3> HIDE DEF q
    <3>9. Waits(q)
      BY <3>1, <3>2, <3>3
    <3> QED
      BY <3>9, Zenon
  <2>2. ASSUME NEW r \in redirects, handleCallback(l, r)
        PROVE  \E p : Waits(p)
    <3> DEFINE q == [cli[l] EXCEPT !.code = r.code]
    <3>1. cli' = [cli EXCEPT ![l] = q]
      BY <1>1, <2>2, Zenon DEF Process, handleCallback
    <3>0. r.code \in Nat
      BY DEF LoginInv, TypeOK, AuthTyped, BrowserTyped, Redirect
    <3>2. /\ q \in Process /\ q.pc = cli[l].pc /\ q.code = r.code /\ q.token = cli[l].token
      BY <1>1, <3>0, Zenon DEF Process, MaybeNumber
    <3>3. /\ cli[l].pc \in {"waiting", "exchanging", "save", "write"} /\ r.state = l
          /\ cli[l].code = None
      BY <2>2, Zenon DEF handleCallback, Running, StateMatches
    <3>4. cli[l].pc = "waiting"
      BY <3>3 DEF LoginInv, ProcessesOK
    <3> HIDE DEF q
    <3>9. Waits(q)
      BY <3>1, <3>2, <3>3, <3>4
    <3> QED
      BY <3>9, Zenon
  <2>3. ASSUME Fail(l)
        PROVE  \E p : Waits(p)
    <3> DEFINE q == [cli[l] EXCEPT !.pc = "failed"]
    <3>1. cli' = [cli EXCEPT ![l] = q]
      BY <1>1, <2>3, Zenon DEF Process, Fail
    <3>2. /\ q \in Process /\ q.pc = "failed" /\ q.code = cli[l].code /\ q.token = cli[l].token
      BY <1>1, Zenon DEF Process
    <3>3. cli[l].pc \in {"waiting", "exchanging"}
      BY <2>3, Zenon DEF Fail
    <3> HIDE DEF q
    <3>9. Waits(q)
      BY <3>1, <3>2, <3>3
    <3> QED
      BY <3>9, Zenon
  <2> QED
    BY <2>1, <2>2, <2>3, Zenon
<1>4. cli'[l] = p /\ cli' \in [Login -> Process] /\ \A m \in Login \ {l} : cli'[m] = cli[m]
    BY <1>1, <1>3
<1>5. AuthTyped' /\ AuthOK'
    BY <1>2, AuthIdle
<1>6. TypeOK'
    BY <1>2, <1>4, <1>5 DEF LoginInv, TypeOK, ClientTyped, File
<1>7. ProcessesOK'
  <2>1. UNCHANGED <<tokens, issued>>
    BY <1>2 DEF authVars
  <2>2. \A r \in redirects : r.code \in DOMAIN issued /\ issued[r.code].login = r.state
    BY DEF LoginInv, AuthOK, RedirectsAreAsIssued
  <2>3. ProcessesOK
    BY DEF LoginInv
  <2>4. ASSUME NEW m \in Login
        PROVE  /\ cli'[m].code # None => cli'[m].code \in DOMAIN issued' /\ issued'[cli'[m].code].login = m
               /\ cli'[m].pc \in {"off", "waiting", "exchanging"} => cli'[m].token = None
               /\ cli'[m].pc \in {"save", "write", "done"} => cli'[m].token # None
               /\ cli'[m].pc = "off" => cli'[m].code = None
               /\ cli'[m].pc \in {"exchanging", "save", "write", "done"} => cli'[m].code # None
               /\ cli'[m].token # None =>
                    /\ cli'[m].code # None /\ cli'[m].token \in DOMAIN tokens'
                    /\ tokens'[cli'[m].token].user = issued'[cli'[m].code].user
    <3>1. CASE m = l
      BY <3>1, <1>3, <1>4, <2>1, <2>2, <2>3 DEF ProcessesOK
    <3>2. CASE m # l
      BY <3>2, <1>4, <2>1, <2>3 DEF ProcessesOK
    <3> QED
      BY <3>1, <3>2
  <2> QED
    BY <2>4 DEF ProcessesOK
<1>8. ExchangesOK'
  <2>1. \A m \in Login : cli[m].code # None => cli'[m].code = cli[m].code
    BY <1>3, <1>4
  <2> QED
    BY <1>2, <2>1, ExchangesIdle DEF authVars
<1>9. FilesOK'
    BY <1>2, <1>3, <1>4, FilesIdle DEF LoginInv
<1> QED
    BY <1>5, <1>6, <1>7, <1>8, <1>9 DEF LoginInv

\* An exchange request reaches the server.
LEMMA NewHandler ==
    ASSUME LoginInv, NEW l \in Login, NEW n \in Nat, cli[l].code # None,
           handlers' = handlers \cup {[login |-> l, n |-> n, at |-> now, pc |-> "redeem",
                                       user |-> None, token |-> None]},
           UNCHANGED <<now, codes, issued, tokens>>,
           \A m \in Login : cli'[m].code = cli[m].code
    PROVE  handlers' \subseteq Handler /\ IsFiniteSet(handlers') /\ ExchangesOK'
<1>0. PICK f : f = [login |-> l, n |-> n, at |-> now, pc |-> "redeem", user |-> None, token |-> None]
    OBVIOUS
<1>1. f \in Handler
    BY <1>0 DEF Handler, LoginInv, TypeOK, AuthTyped, MaybeNumber
<1>2. f.login = l /\ f.at = now /\ f.pc = "redeem" /\ f.token = None
    BY <1>0
<1>3. handlers' = handlers \cup {f}
    BY <1>0
<1>4. handlers' \subseteq Handler
    BY <1>1, <1>3 DEF LoginInv, TypeOK, ClientTyped
<1>5. IsFiniteSet(handlers')
  <2>1. IsFiniteSet(handlers)
    BY DEF LoginInv, TypeOK, ClientTyped
  <2>2. IsFiniteSet(handlers \cup {f})
    BY <2>1, FS_AddElement, Zenon
  <2> QED
    BY <1>3, <2>2, Zenon
<1>6. \A h \in handlers : h.login \in Login /\ cli'[h.login].code = cli[h.login].code
    BY DEF LoginInv, TypeOK, ClientTyped, Handler
<1>7. ~Won(f)
    BY <1>2 DEF Won
<1>8. \A h \in handlers : HandlerOK(h)'
    BY <1>3, <1>6 DEF LoginInv, ExchangesOK, HandlerOK, Won
<1>9. HandlerOK(f)'
  <2>1. f.at <= now' /\ cli'[f.login].code # None
    BY <1>2 DEF LoginInv, TypeOK, AuthTyped
  <2> QED
    BY <2>1, <1>2, <1>7 DEF HandlerOK, Won
<1>10. OneWinner'
  <2>1. \A g \in handlers' : Won(g) => g \in handlers
    BY <1>3, <1>7
  <2> QED
    BY <1>3, <1>6, <2>1 DEF LoginInv, ExchangesOK, OneWinner, Won
<1> QED
    BY <1>3, <1>4, <1>5, <1>8, <1>9, <1>10 DEF ExchangesOK

\* What is true of the processes, when one goes on with the code and the token it has.
LEMMA ProcessesGoOn ==
    ASSUME LoginInv, UNCHANGED <<tokens, issued>>, NEW l \in Login,
           \A m \in Login \ {l} : cli'[m] = cli[m],
           cli'[l].code = cli[l].code, cli'[l].token = cli[l].token,
           cli'[l].pc \in {"off", "waiting", "exchanging"} => cli[l].token = None,
           cli'[l].pc \in {"save", "write", "done"} => cli[l].token # None,
           cli'[l].pc \in {"exchanging", "save", "write", "done"} => cli[l].code # None,
           cli'[l].pc # "off"
    PROVE  ProcessesOK'
<1>1. ProcessesOK
    BY DEF LoginInv
<1>2. ASSUME NEW m \in Login
      PROVE  /\ cli'[m].code # None => cli'[m].code \in DOMAIN issued' /\ issued'[cli'[m].code].login = m
             /\ cli'[m].pc \in {"off", "waiting", "exchanging"} => cli'[m].token = None
             /\ cli'[m].pc \in {"save", "write", "done"} => cli'[m].token # None
             /\ cli'[m].pc = "off" => cli'[m].code = None
             /\ cli'[m].pc \in {"exchanging", "save", "write", "done"} => cli'[m].code # None
             /\ cli'[m].token # None =>
                  /\ cli'[m].code # None /\ cli'[m].token \in DOMAIN tokens'
                  /\ tokens'[cli'[m].token].user = issued'[cli'[m].code].user
  <2>1. CASE m = l
    BY <2>1, <1>1 DEF ProcessesOK
  <2>2. CASE m # l
    BY <2>2, <1>1 DEF ProcessesOK
  <2> QED
    BY <2>1, <2>2
<1> QED
    BY <1>2 DEF ProcessesOK

\* A process takes the code of the channel and asks for its exchange.
LEMMA TakeCodeStep ==
    ASSUME LoginInv, NEW l \in Login, TakeCode(l)
    PROVE  LoginInv'
<1>1. cli[l] \in Process /\ cli \in [Login -> Process]
    BY DEF LoginInv, TypeOK, ClientTyped
<1>2. /\ cli[l].pc = "waiting" /\ cli[l].code # None
      /\ handlers' = handlers \cup {[login |-> l, n |-> 1, at |-> now, pc |-> "redeem",
                                     user |-> None, token |-> None]}
      /\ UNCHANGED <<authVars, creds>>
    BY Zenon DEF TakeCode
<1> DEFINE p == [cli[l] EXCEPT !.pc = "exchanging"]
<1>3. cli' = [cli EXCEPT ![l] = p]
    BY <1>1, Zenon DEF TakeCode, Process
<1>4. /\ p \in Process /\ p.pc = "exchanging" /\ p.code = cli[l].code /\ p.token = cli[l].token
    BY <1>1, Zenon DEF Process
<1> HIDE DEF p
<1>5. cli'[l] = p /\ cli' \in [Login -> Process] /\ \A m \in Login \ {l} : cli'[m] = cli[m]
    BY <1>1, <1>3, <1>4
<1>6. \A m \in Login : cli'[m].code = cli[m].code
    BY <1>4, <1>5
<1>7. handlers' \subseteq Handler /\ IsFiniteSet(handlers') /\ ExchangesOK'
  <2>1. UNCHANGED <<now, codes, issued, tokens>>
    BY <1>2, Zenon DEF authVars
  <2> QED
    BY <1>2, <1>6, <2>1, 1 \in Nat, NewHandler, Zenon
<1>8. AuthTyped' /\ AuthOK'
    BY <1>2, AuthIdle
<1>9. TypeOK'
    BY <1>2, <1>5, <1>7, <1>8 DEF LoginInv, TypeOK, ClientTyped, File
<1>10. cli[l].token = None
    BY <1>2 DEF LoginInv, ProcessesOK
<1>11. ProcessesOK'
    BY <1>2, <1>4, <1>5, <1>10, ProcessesGoOn DEF authVars
<1>12. FilesOK'
    BY <1>2, <1>4, <1>5, FilesIdle DEF LoginInv
<1> QED
    BY <1>7, <1>8, <1>9, <1>11, <1>12 DEF LoginInv

\* The exchange request arrives once more.
LEMMA ResendStep ==
    ASSUME LoginInv, NEW l \in Login, Resend(l)
    PROVE  LoginInv'
<1> DEFINE n == Cardinality({h \in handlers : h.login = l})
<1>1. /\ cli[l].pc = "exchanging"
      /\ handlers' = handlers \cup {[login |-> l, n |-> n + 1, at |-> now, pc |-> "redeem",
                                     user |-> None, token |-> None]}
      /\ UNCHANGED <<authVars, cli, creds>>
    BY Zenon DEF Resend
<1>2. n \in Nat
  <2>1. IsFiniteSet({h \in handlers : h.login = l})
    BY FS_Subset DEF LoginInv, TypeOK, ClientTyped
  <2> QED
    BY <2>1, FS_CardinalityType
<1> HIDE DEF n
<1>3. n + 1 \in Nat
    BY <1>2
<1>4. cli[l].code # None
    BY <1>1 DEF LoginInv, ProcessesOK
<1>5. handlers' \subseteq Handler /\ IsFiniteSet(handlers') /\ ExchangesOK'
  <2>1. UNCHANGED <<now, codes, issued, tokens, cli>>
    BY <1>1, Zenon DEF authVars
  <2> QED
    BY <1>1, <1>3, <1>4, <2>1, NewHandler, Zenon
<1>6. AuthTyped' /\ AuthOK'
    BY <1>1, AuthIdle
<1>7. TypeOK' /\ FilesOK'
    BY <1>1, <1>5, <1>6 DEF LoginInv, TypeOK, ClientTyped, File, FilesOK, Saving, TokensFor
<1>8. ProcessesOK'
    BY <1>1 DEF LoginInv, ProcessesOK, authVars
<1> QED
    BY <1>5, <1>6, <1>7, <1>8 DEF LoginInv


\* A handler goes on: it keeps what it has won, and marks at most its own code as used.
LEMMA HandlerBecomes ==
    ASSUME LoginInv, NEW h \in handlers, NEW f \in Handler, f.login = h.login,
           Won(h) => Won(f), handlers' = (handlers \ {h}) \cup {f},
           UNCHANGED <<now, issued, cli>>,
           \A t \in DOMAIN tokens : t \in DOMAIN tokens' /\ tokens'[t].user = tokens[t].user,
           DOMAIN codes' = DOMAIN codes,
           \A d \in DOMAIN codes :
             \/ codes'[d].redeemed = codes[d].redeemed
             \/ codes'[d].redeemed = TRUE /\ d = cli[h.login].code /\ Won(f),
           Won(f) => Won(h) \/ \A g \in handlers : Won(g) => g.login # h.login,
           HandlerOK(f)'
    PROVE  handlers' \subseteq Handler /\ IsFiniteSet(handlers') /\ ExchangesOK'
<1>1. handlers' \subseteq Handler
    BY DEF LoginInv, TypeOK, ClientTyped
<1>2. IsFiniteSet(handlers')
  <2>1. IsFiniteSet(handlers \ {h})
    BY FS_RemoveElement DEF LoginInv, TypeOK, ClientTyped
  <2> QED
    BY <2>1, FS_AddElement
<1>3. /\ \A g \in handlers : HandlerOK(g)
      /\ \A g, k \in handlers : Won(g) /\ Won(k) /\ g.login = k.login => g = k
      /\ \A c \in DOMAIN codes : codes[c].redeemed = TRUE =>
           \E g \in handlers : Won(g) /\ cli[g.login].code = c
    BY DEF LoginInv, ExchangesOK, OneWinner
<1>4. ASSUME NEW k \in handlers, Won(k)
      PROVE  \E g \in handlers' : Won(g) /\ g.login = k.login
    BY <1>4
<1>5. ASSUME NEW g \in handlers
      PROVE  HandlerOK(g)'
  <2> DEFINE c == cli[g.login].code
  <2>1. HandlerOK(g)
    BY <1>3
  <2>2. Won(g) /\ c \in DOMAIN codes' => codes'[c].redeemed = TRUE
    BY <2>1 DEF HandlerOK
  <2>3. g.pc = "created" => g.token \in DOMAIN tokens' /\ tokens'[g.token].user = issued[c].user
    BY <2>1 DEF HandlerOK
  <2>4. g.pc = "refused" =>
          issued[c].expires < g.at \/ \E k \in handlers' : Won(k) /\ k.login = g.login
    <3>1. g.pc = "refused" =>
            issued[c].expires < g.at \/ \E k \in handlers : Won(k) /\ k.login = g.login
      BY <2>1 DEF HandlerOK
    <3>2. ASSUME NEW k \in handlers, Won(k), k.login = g.login
          PROVE  \E j \in handlers' : Won(j) /\ j.login = g.login
      BY <3>2, <1>4
    <3> QED
      BY <3>1, <3>2, Zenon
  <2> QED
    BY <2>1, <2>2, <2>3, <2>4 DEF HandlerOK, Won
<1>6. \A g \in handlers' : HandlerOK(g)'
    BY <1>5
<1>7. \A g, k \in handlers' : Won(g) /\ Won(k) /\ g.login = k.login => g = k
  <2>1. ASSUME NEW k \in handlers \ {h}, Won(k), Won(f), f.login = k.login
        PROVE  FALSE
    BY <1>3, <2>1
  <2> QED
    BY <1>3, <2>1
<1>8. ASSUME NEW c \in DOMAIN codes', codes'[c].redeemed = TRUE
      PROVE  \E g \in handlers' : Won(g) /\ cli[g.login].code = c
  <2>1. CASE codes[c].redeemed = TRUE
    <3>1. PICK k \in handlers : Won(k) /\ cli[k.login].code = c
      BY <1>3, <2>1
    <3>2. PICK g \in handlers' : Won(g) /\ g.login = k.login
      BY <3>1, <1>4
    <3> QED
      BY <3>1, <3>2
  <2>2. CASE codes[c].redeemed # TRUE
    <3>1. c = cli[h.login].code /\ Won(f)
      BY <2>2, <1>8, Zenon
    <3> QED
      BY <3>1
  <2> QED
    BY <2>1, <2>2
<1>9. OneWinner'
    BY <1>7, <1>8 DEF OneWinner, Won
<1> QED
    BY <1>1, <1>2, <1>6, <1>9 DEF ExchangesOK

\* The code is redeemed, or refused.
LEMMA RedeemStep ==
    ASSUME LoginInv, NEW h \in handlers, Redeem(h)
    PROVE  LoginInv'
<1> DEFINE c == cli[h.login].code
<1>1. /\ h.pc = "redeem"
      /\ UNCHANGED <<now, users, issued, tokens, touches, deleting, deleted, requests, browserVars,
                     cli, creds>>
      /\ IF Redeemable(c, h.at)
         THEN /\ codes' = [codes EXCEPT ![c].redeemed = TRUE]
              /\ handlers' = (handlers \ {h}) \cup {[h EXCEPT !.pc = "create", !.user = codes[c].user]}
         ELSE /\ handlers' = (handlers \ {h}) \cup {[h EXCEPT !.pc = "refused", !.at = now]}
              /\ UNCHANGED codes
    BY Zenon DEF Redeem, Becomes
<1>2. /\ h \in Handler /\ h.login \in Login /\ h.at \in Nat /\ h.at <= now /\ now \in Nat
      /\ HandlerOK(h) /\ c # None /\ h.token = None
    BY <1>1 DEF LoginInv, TypeOK, AuthTyped, ClientTyped, Handler, ExchangesOK, HandlerOK
<1>3. c \in DOMAIN issued /\ issued[c].login = h.login /\ issued[c] \in IssuedRow
    BY <1>2 DEF LoginInv, TypeOK, AuthTyped, CodesTyped, ProcessesOK
<1>4. ~Won(h)
    BY <1>1 DEF Won
<1>5. /\ AuthTyped /\ AuthOK /\ ProcessesOK /\ OneWinner
      /\ codes \in [DOMAIN codes -> CodeRow] /\ DOMAIN codes \subseteq DOMAIN issued
    BY DEF LoginInv, TypeOK, AuthTyped, CodesTyped, ExchangesOK
<1>6. \A g \in handlers : g.login \in Login /\ cli[g.login].code # None
                          /\ issued[cli[g.login].code].login = g.login
    BY DEF LoginInv, TypeOK, ClientTyped, Handler, ExchangesOK, HandlerOK, ProcessesOK
<1>7. \A t \in DOMAIN tokens : t \in DOMAIN tokens' /\ tokens'[t].user = tokens[t].user
    BY <1>1
<1>8. /\ handlers' \subseteq Handler /\ IsFiniteSet(handlers') /\ ExchangesOK'
      /\ CodesTyped' /\ CodesAreAsIssued'
  <2>1. CASE Redeemable(c, h.at)
    <3>0. c \in DOMAIN codes /\ codes[c] \in CodeRow /\ codes[c].redeemed # TRUE
          /\ codes[c].user = issued[c].user
      BY <2>1, <1>5 DEF Redeemable, AuthOK, CodesAreAsIssued
    <3>1. PICK row : row = [codes[c] EXCEPT !.redeemed = TRUE]
      OBVIOUS
    <3>2. /\ row \in CodeRow /\ row.redeemed = TRUE /\ row.user = codes[c].user
          /\ row.expires = codes[c].expires
      BY <3>0, <3>1, Zenon DEF CodeRow
    <3>3. codes' = [codes EXCEPT ![c] = row]
      BY <1>1, <2>1, <3>1, Zenon
    <3>4. /\ DOMAIN codes' = DOMAIN codes /\ codes'[c] = row
          /\ \A d \in DOMAIN codes \ {c} : codes'[d] = codes[d]
          /\ codes' \in [DOMAIN codes' -> CodeRow]
      BY <3>0, <3>2, <3>3, <1>5
    <3>5. CodesTyped'
      BY <3>4, <1>1, <1>5 DEF AuthTyped, CodesTyped
    <3>6. CodesAreAsIssued'
      BY <3>2, <3>4, <1>1, <1>5 DEF AuthOK, CodesAreAsIssued
    <3>7. PICK f : f = [h EXCEPT !.pc = "create", !.user = codes[c].user]
      OBVIOUS
    <3>8. codes[c].user \in Email
      BY <3>0 DEF CodeRow
    <3>9. /\ f \in Handler /\ f.pc = "create" /\ f.user = issued[c].user
          /\ f.login = h.login /\ f.at = h.at /\ f.token = h.token
      BY <3>0, <3>7, <3>8, <1>2 DEF Handler
    <3>10. Won(f)
      BY <3>9 DEF Won
    <3>11. HandlerOK(f)'
      BY <3>2, <3>4, <3>9, <1>1, <1>2 DEF HandlerOK
    <3>12. \A g \in handlers : Won(g) => g.login # h.login
      <4>1. ASSUME NEW g \in handlers, Won(g), g.login = h.login
            PROVE  FALSE
        <5>1. HandlerOK(g)
          BY DEF LoginInv, ExchangesOK
        <5> QED
          BY <4>1, <5>1, <3>0 DEF HandlerOK
      <4> QED
        BY <4>1
    <3>13. handlers' = (handlers \ {h}) \cup {f}
      BY <1>1, <2>1, <3>7, Zenon
    <3>14. \A d \in DOMAIN codes :
             \/ codes'[d].redeemed = codes[d].redeemed
             \/ codes'[d].redeemed = TRUE /\ d = cli[h.login].code /\ Won(f)
      BY <3>2, <3>4, <3>10, Zenon
    <3>15. UNCHANGED <<now, issued, cli>>
      BY <1>1
    <3>16. handlers' \subseteq Handler /\ IsFiniteSet(handlers') /\ ExchangesOK'
      BY <3>4, <3>9, <3>10, <3>11, <3>12, <3>13, <3>14, <3>15, <1>7, HandlerBecomes, Zenon
    <3> QED
      BY <3>5, <3>6, <3>16
  <2>2. CASE ~Redeemable(c, h.at)
    <3>1. codes' = codes
      BY <1>1, <2>2
    <3>2. PICK f : f = [h EXCEPT !.pc = "refused", !.at = now]
      OBVIOUS
    <3>3. /\ f \in Handler /\ f.pc = "refused" /\ f.at = now
          /\ f.login = h.login /\ f.token = h.token
      BY <3>2, <1>2 DEF Handler
    <3>4. handlers' = (handlers \ {h}) \cup {f}
      BY <1>1, <2>2, <3>2, Zenon
    <3>5. ~Won(f)
      BY <3>3 DEF Won
    <3>6. issued[c].expires < now \/ \E g \in handlers' : Won(g) /\ g.login = h.login
      <4>1. CASE c \notin DOMAIN codes
        BY <4>1, <1>3, <1>5 DEF AuthOK, CodesAreAsIssued
      <4>2. CASE c \in DOMAIN codes /\ codes[c].redeemed = TRUE
        <5>1. PICK g \in handlers : Won(g) /\ cli[g.login].code = c
          BY <4>2, <1>5 DEF OneWinner
        <5>2. g.login = h.login /\ g # h
          BY <5>1, <1>3, <1>4, <1>6
        <5> QED
          BY <5>1, <5>2, <3>4
      <4>3. CASE c \in DOMAIN codes /\ ~(codes[c].expires >= h.at)
        <5>1. codes[c].expires = issued[c].expires /\ issued[c].expires \in Nat
          BY <4>3, <1>3, <1>5 DEF AuthOK, CodesAreAsIssued, IssuedRow
        <5> QED
          BY <4>3, <5>1, <1>2
      <4> QED
        BY <2>2, <4>1, <4>2, <4>3, Zenon DEF Redeemable
    <3>7. HandlerOK(f)'
      BY <3>3, <3>5, <3>6, <1>1, <1>2 DEF HandlerOK, Won
    <3>8. UNCHANGED <<now, issued, cli>> /\ DOMAIN codes' = DOMAIN codes
          /\ \A d \in DOMAIN codes :
               \/ codes'[d].redeemed = codes[d].redeemed
               \/ codes'[d].redeemed = TRUE /\ d = cli[h.login].code /\ Won(f)
      BY <1>1, <3>1, Zenon
    <3>9. handlers' \subseteq Handler /\ IsFiniteSet(handlers') /\ ExchangesOK'
      BY <3>3, <3>4, <3>5, <3>7, <3>8, <1>4, <1>7, HandlerBecomes, Zenon
    <3>10. CodesTyped' /\ CodesAreAsIssued'
      BY <3>1, <1>1, <1>5 DEF AuthTyped, AuthOK, CodesTyped, CodesAreAsIssued
    <3> QED
      BY <3>9, <3>10
  <2> QED
    BY <2>1, <2>2
<1>9. TokensTyped' /\ DeletedIsRevoked'
    BY <1>1, <1>5, TokensIdle
<1>10. BrowserTyped' /\ RedirectsAreAsIssued' /\ now' \in Nat
    BY <1>1, <1>2, <1>5 DEF browserVars, AuthTyped, BrowserTyped, AuthOK, RedirectsAreAsIssued
<1>11. AuthTyped' /\ AuthOK'
    BY <1>8, <1>9, <1>10, AuthParts
<1>12. TypeOK' /\ ProcessesOK' /\ FilesOK'
    BY <1>1, <1>8, <1>11 DEF LoginInv, TypeOK, ClientTyped, File, ProcessesOK, FilesOK, Saving, TokensFor
<1> QED
    BY <1>8, <1>11, <1>12 DEF LoginInv


\* The token is made, or the handler fails after it used the code.
LEMMA ExchangeCreates ==
    ASSUME LoginInv, NEW h \in handlers, Create(h)
    PROVE  LoginInv'
<1> DEFINE c == cli[h.login].code
<1>1. /\ h.pc = "create"
      /\ UNCHANGED <<now, users, codes, issued, touches, deleting, deleted, requests, browserVars,
                     cli, creds>>
    BY Zenon DEF Create
<1>2. /\ h \in Handler /\ h.login \in Login /\ h.at <= now /\ now \in Nat
      /\ HandlerOK(h) /\ c # None /\ h.token = None /\ h.user = issued[c].user
      /\ ProcessesOK
    BY <1>1 DEF LoginInv, TypeOK, AuthTyped, ClientTyped, Handler, ExchangesOK, HandlerOK
<1>3. AuthTyped /\ AuthOK /\ TokensTyped /\ DeletedIsRevoked
    BY DEF LoginInv, TypeOK, AuthTyped, AuthOK
<1>4. c \in DOMAIN issued /\ h.user \in Email
    BY <1>2, <1>3 DEF AuthTyped, CodesTyped, IssuedRow, ProcessesOK
<1>5. Won(h)
    BY <1>1 DEF Won
<1>6. /\ AuthTyped' /\ AuthOK' /\ TablesKept
      /\ handlers' \subseteq Handler /\ IsFiniteSet(handlers') /\ ExchangesOK'
  <2>1. ASSUME NEW t \in 1..MaxTokens, CreateAPIToken(h.user, t),
               Becomes(h, [h EXCEPT !.pc = "created", !.token = t])
        PROVE  /\ AuthTyped' /\ AuthOK' /\ TablesKept
               /\ handlers' \subseteq Handler /\ IsFiniteSet(handlers') /\ ExchangesOK'
    <3>1. /\ \E n \in Nat : DOMAIN tokens' = 1..n
          /\ tokens' \in [DOMAIN tokens' -> TokenRow]
          /\ t \in DOMAIN tokens' /\ t \in Nat /\ tokens'[t].user = h.user
          /\ \A s \in DOMAIN tokens : s \in DOMAIN tokens' /\ tokens'[s] = tokens[s]
      BY <1>3, <1>4, <2>1, CreateStep, Zenon
    <3>2. TokensTyped' /\ DeletedIsRevoked'
      BY <1>1, <1>3, <3>1 DEF TokensTyped, DeletedIsRevoked
    <3>3. /\ now' = now /\ UNCHANGED <<codes, issued, session, pending, states, redirects>>
          /\ \A s \in DOMAIN tokens : s \in DOMAIN tokens' /\ tokens'[s].user = tokens[s].user
      BY <1>1, <3>1 DEF browserVars
    <3>4. AuthTyped' /\ AuthOK' /\ TablesKept
      BY <1>3, <3>2, <3>3, TokensOnly, Zenon
    <3>5. PICK f : f = [h EXCEPT !.pc = "created", !.token = t]
      OBVIOUS
    <3>6. /\ f \in Handler /\ f.pc = "created" /\ f.token = t
          /\ f.login = h.login /\ f.at = h.at
      BY <3>1, <3>5, <1>2 DEF Handler, MaybeNumber
    <3>7. handlers' = (handlers \ {h}) \cup {f}
      BY <2>1, <3>5 DEF Becomes
    <3>8. Won(f)
      BY <3>6 DEF Won
    <3>9. t # None
      BY <3>1, AuthAssumption DEF AuthAssumption
    <3>10. HandlerOK(f)'
      BY <1>1, <1>2, <1>5, <3>1, <3>6, <3>8, <3>9 DEF HandlerOK
    <3>11. /\ UNCHANGED <<now, issued, cli>> /\ DOMAIN codes' = DOMAIN codes
           /\ \A d \in DOMAIN codes :
                \/ codes'[d].redeemed = codes[d].redeemed
                \/ codes'[d].redeemed = TRUE /\ d = cli[h.login].code /\ Won(f)
      BY <1>1, Zenon
    <3>12. handlers' \subseteq Handler /\ IsFiniteSet(handlers') /\ ExchangesOK'
      BY <3>3, <3>6, <3>7, <3>8, <3>10, <3>11, <1>5, HandlerBecomes, Zenon
    <3> QED
      BY <3>4, <3>12
  <2>2. ASSUME Becomes(h, [h EXCEPT !.pc = "error"]), UNCHANGED tokens
        PROVE  /\ AuthTyped' /\ AuthOK' /\ TablesKept
               /\ handlers' \subseteq Handler /\ IsFiniteSet(handlers') /\ ExchangesOK'
    <3>1. TokensTyped' /\ DeletedIsRevoked'
      BY <1>1, <1>3, <2>2, TokensIdle
    <3>2. /\ now' = now /\ UNCHANGED <<codes, issued, session, pending, states, redirects>>
          /\ \A s \in DOMAIN tokens : s \in DOMAIN tokens' /\ tokens'[s].user = tokens[s].user
      BY <1>1, <2>2 DEF browserVars
    <3>3. AuthTyped' /\ AuthOK' /\ TablesKept
      BY <1>3, <3>1, <3>2, TokensOnly, Zenon
    <3>4. PICK f : f = [h EXCEPT !.pc = "error"]
      OBVIOUS
    <3>5. /\ f \in Handler /\ f.pc = "error" /\ f.token = None
          /\ f.login = h.login /\ f.at = h.at
      BY <3>4, <1>2 DEF Handler
    <3>6. handlers' = (handlers \ {h}) \cup {f}
      BY <2>2, <3>4 DEF Becomes
    <3>7. Won(f)
      BY <3>5 DEF Won
    <3>8. HandlerOK(f)'
      BY <1>1, <1>2, <1>5, <3>5, <3>7 DEF HandlerOK
    <3>9. /\ UNCHANGED <<now, issued, cli>> /\ DOMAIN codes' = DOMAIN codes
          /\ \A d \in DOMAIN codes :
               \/ codes'[d].redeemed = codes[d].redeemed
               \/ codes'[d].redeemed = TRUE /\ d = cli[h.login].code /\ Won(f)
      BY <1>1, Zenon
    <3>10. handlers' \subseteq Handler /\ IsFiniteSet(handlers') /\ ExchangesOK'
      BY <3>2, <3>5, <3>6, <3>7, <3>8, <3>9, <1>5, HandlerBecomes, Zenon
    <3> QED
      BY <3>3, <3>10
  <2> QED
    BY <2>1, <2>2, Zenon DEF Create
<1>7. TypeOK' /\ FilesOK'
    BY <1>1, <1>6 DEF LoginInv, TypeOK, ClientTyped, File, FilesOK, Saving, TokensFor
<1>8. ProcessesOK'
    BY <1>1, <1>2, <1>6 DEF ProcessesOK, TablesKept
<1> QED
    BY <1>6, <1>7, <1>8 DEF LoginInv

\* One of the answers reaches the process.
LEMMA AnswerStep ==
    ASSUME LoginInv, NEW h \in handlers, exchangeCode(h)
    PROVE  LoginInv'
<1> DEFINE l == h.login
<1>1. /\ h \in Handler /\ l \in Login /\ HandlerOK(h)
      /\ cli[l] \in Process /\ cli \in [Login -> Process] /\ ProcessesOK
    BY DEF LoginInv, TypeOK, ClientTyped, Handler, ExchangesOK
<1>2. /\ h.pc \in {"created", "refused", "error"} /\ cli[l].pc = "exchanging"
      /\ UNCHANGED <<authVars, handlers, creds>>
    BY Zenon DEF exchangeCode
<1>3. PICK pc : pc = IF h.pc = "created" THEN "save" ELSE "failed"
    OBVIOUS
<1>4. PICK p : p = [cli[l] EXCEPT !.pc = pc, !.token = h.token]
    OBVIOUS
<1>5. cli' = [cli EXCEPT ![l] = p]
    BY <1>1, <1>3, <1>4, Zenon DEF exchangeCode, Process
<1>6. pc \in {"save", "failed"} /\ h.token \in MaybeNumber
    BY <1>1, <1>3 DEF Handler
<1>7. p \in Process /\ p.pc = pc /\ p.token = h.token /\ p.code = cli[l].code
  <2>1. pc \in {"off", "waiting", "exchanging", "save", "write", "done", "failed"}
    BY <1>6
  <2> QED
    BY <1>1, <1>4, <1>6, <2>1, Zenon DEF Process
<1>8. cli'[l] = p /\ cli' \in [Login -> Process] /\ \A m \in Login \ {l} : cli'[m] = cli[m]
    BY <1>1, <1>5, <1>7
<1>9. AuthTyped' /\ AuthOK'
    BY <1>2, AuthIdle
<1>10. TypeOK'
    BY <1>2, <1>8, <1>9 DEF LoginInv, TypeOK, ClientTyped, File
<1>11. /\ cli[l].token = None /\ cli[l].code # None
       /\ h.token # None => pc = "save" /\ h.token \in DOMAIN tokens
                            /\ tokens[h.token].user = issued[cli[l].code].user
       /\ pc = "save" => h.token # None
    BY <1>1, <1>2, <1>3 DEF ProcessesOK, HandlerOK
<1>12. ProcessesOK'
  <2>1. UNCHANGED <<tokens, issued>>
    BY <1>2, Zenon DEF authVars
  <2>2. ASSUME NEW m \in Login
        PROVE  /\ cli'[m].code # None => cli'[m].code \in DOMAIN issued' /\ issued'[cli'[m].code].login = m
               /\ cli'[m].pc \in {"off", "waiting", "exchanging"} => cli'[m].token = None
               /\ cli'[m].pc \in {"save", "write", "done"} => cli'[m].token # None
               /\ cli'[m].pc = "off" => cli'[m].code = None
               /\ cli'[m].pc \in {"exchanging", "save", "write", "done"} => cli'[m].code # None
               /\ cli'[m].token # None =>
                    /\ cli'[m].code # None /\ cli'[m].token \in DOMAIN tokens'
                    /\ tokens'[cli'[m].token].user = issued'[cli'[m].code].user
    <3>1. CASE m = l
      BY <3>1, <2>1, <1>1, <1>6, <1>7, <1>8, <1>11 DEF ProcessesOK
    <3>2. CASE m # l
      BY <3>2, <2>1, <1>1, <1>8 DEF ProcessesOK
    <3> QED
      BY <3>1, <3>2
  <2> QED
    BY <2>2 DEF ProcessesOK
<1>13. ExchangesOK'
  <2>1. \A m \in Login : cli[m].code # None => cli'[m].code = cli[m].code
    BY <1>7, <1>8
  <2>2. UNCHANGED <<now, codes, issued, tokens, handlers>>
    BY <1>2, Zenon DEF authVars
  <2> QED
    BY <2>1, <2>2, ExchangesIdle
<1>14. FilesOK'
  <2>1. FilesOK /\ creds' = creds
    BY <1>2 DEF LoginInv
  <2> QED
    BY <2>1, <1>1, <1>2, <1>6, <1>7, <1>8, <1>11, FilesIdle
<1> QED
    BY <1>9, <1>10, <1>12, <1>13, <1>14 DEF LoginInv


\* A process reads the credentials file; whoever is between its own read and write
\* learns that it is not alone.
LEMMA LoadFileStep ==
    ASSUME LoginInv, NEW l \in Login, LoadFile(l)
    PROVE  LoginInv'
<1>1. /\ cli \in [Login -> Process] /\ creds \in File /\ ProcessesOK /\ FilesOK
      /\ cli[l] \in Process
    BY DEF LoginInv, TypeOK, ClientTyped
<1>2. cli[l].pc = "save" /\ UNCHANGED <<authVars, handlers, creds>> /\ l \notin Saving
    BY DEF LoadFile, Saving
<1>3. PICK alone \in BOOLEAN : alone = (Saving = {})
    OBVIOUS
<1>4. PICK p : p = [cli[l] EXCEPT !.pc = "write", !.file = creds, !.alone = alone]
    OBVIOUS
<1>5. /\ p \in Process /\ p.pc = "write" /\ p.file = creds /\ p.alone = alone
      /\ p.code = cli[l].code /\ p.token = cli[l].token
    BY <1>1, <1>3, <1>4, Zenon DEF Process
<1>6. cli' = [m \in Login |-> IF m = l THEN p ELSE IF m \in Saving
                              THEN [cli[m] EXCEPT !.alone = FALSE] ELSE cli[m]]
    BY <1>3, <1>4, Zenon DEF LoadFile, loadCredentials
<1>7. cli'[l] = p
    BY <1>6
<1>8. ASSUME NEW m \in Saving
      PROVE  /\ m \in Login /\ cli'[m] \in Process /\ cli'[m].pc = "write" /\ cli'[m].alone = FALSE
             /\ cli'[m].code = cli[m].code /\ cli'[m].token = cli[m].token
             /\ cli'[m].file = cli[m].file
  <2>1. m \in Login /\ cli[m].pc = "write" /\ cli[m] \in Process
    BY <1>1, <1>8 DEF Saving
  <2>2. PICK q : q = [cli[m] EXCEPT !.alone = FALSE]
    OBVIOUS
  <2>3. cli'[m] = q
    BY <1>2, <1>6, <1>8, <2>1, <2>2, Zenon
  <2>4. /\ q \in Process /\ q.pc = cli[m].pc /\ q.alone = FALSE
        /\ q.code = cli[m].code /\ q.token = cli[m].token /\ q.file = cli[m].file
    BY <2>1, <2>2, Zenon DEF Process
  <2> QED
    BY <2>1, <2>3, <2>4
<1>9. \A m \in Login \ Saving : m # l => cli'[m] = cli[m]
    BY <1>6
<1>10. \A m \in Login : cli'[m].code = cli[m].code /\ cli'[m].token = cli[m].token
    BY <1>5, <1>7, <1>8, <1>9, Zenon
<1>11. cli' \in [Login -> Process]
  <2>1. \A m \in Login : cli'[m] \in Process
    BY <1>1, <1>5, <1>7, <1>8, <1>9
  <2>2. cli' = [m \in Login |-> cli'[m]]
    BY <1>6
  <2> QED
    BY <2>1, <2>2
<1>12. \A m \in Login : m # l => cli'[m].pc = cli[m].pc
    BY <1>8, <1>9 DEF Saving
<1>13. AuthTyped' /\ AuthOK'
    BY <1>2, AuthIdle
<1>14. TypeOK'
    BY <1>2, <1>11, <1>13 DEF LoginInv, TypeOK, ClientTyped, File
<1>15. ProcessesOK'
  <2>1. UNCHANGED <<tokens, issued>>
    BY <1>2, Zenon DEF authVars
  <2>2. cli'[l].pc = "write" /\ cli[l].token # None /\ cli[l].code # None
    BY <1>1, <1>2, <1>5, <1>7 DEF ProcessesOK
  <2> QED
    BY <1>1, <1>10, <1>12, <2>1, <2>2 DEF ProcessesOK
<1>16. ExchangesOK'
    BY <1>2, <1>10, ExchangesIdle DEF authVars
<1>17. FilesOK'
  <2>1. Saving' = Saving \cup {l}
    BY <1>5, <1>7, <1>12 DEF Saving
  <2>2. \A m \in Login : cli'[m].pc = "write" => cli'[m].file \in File'
    <3>1. \A m \in Login : cli'[m].pc = "write" => m = l \/ m \in Saving
      BY <1>12 DEF Saving
    <3> QED
      BY <3>1, <1>1, <1>5, <1>7, <1>8 DEF FilesOK, File, Saving
  <2>3. \A k, m \in Saving' : k # m => cli'[k].alone = FALSE
    BY <2>1, <1>3, <1>5, <1>7, <1>8
  <2>4. \A s : TokensFor(s)' = TokensFor(s)
    BY <1>10 DEF TokensFor
  <2>5. ASSUME NEW m \in Login, cli'[m].pc = "done", cli'[m].alone = TRUE
        PROVE  /\ creds'[ServerOf[m]] \in TokensFor(ServerOf[m])'
               /\ \A k \in Saving' : cli'[k].file[ServerOf[m]] \in TokensFor(ServerOf[m])'
    <3>1. m # l /\ m \notin Saving /\ cli'[m] = cli[m]
      BY <2>5, <1>5, <1>7, <1>8, <1>9
    <3>2. /\ creds[ServerOf[m]] \in TokensFor(ServerOf[m])
          /\ \A k \in Saving : cli[k].file[ServerOf[m]] \in TokensFor(ServerOf[m])
      BY <3>1, <2>5, <1>1 DEF FilesOK
    <3>3. \A k \in Saving' : cli'[k].file = IF k = l THEN creds ELSE cli[k].file
      BY <1>2, <2>1, <1>5, <1>7, <1>8
    <3> QED
      BY <3>2, <3>3, <2>1, <2>4, <1>2
  <2> QED
    BY <2>2, <2>3, <2>5 DEF FilesOK
<1> QED
    BY <1>13, <1>14, <1>15, <1>16, <1>17 DEF LoginInv

\* A process writes back what it read with its own token, or fails to.
LEMMA WriteFileStep ==
    ASSUME LoginInv, NEW l \in Login, WriteFile(l)
    PROVE  LoginInv'
<1>1. /\ cli \in [Login -> Process] /\ creds \in File /\ ProcessesOK /\ FilesOK
      /\ cli[l] \in Process
    BY DEF LoginInv, TypeOK, ClientTyped
<1>2. /\ cli[l].pc = "write" /\ UNCHANGED <<authVars, handlers>>
      /\ l \in Saving /\ cli[l].file \in File /\ cli[l].token # None /\ cli[l].code # None
      /\ cli[l].token \in MaybeNumber /\ ServerOf[l] \in Server
    BY <1>1 DEF WriteFile, Saving, FilesOK, ProcessesOK, Process, Server
<1>3. PICK pc \in {"done", "failed"} :
        /\ cli' = [cli EXCEPT ![l].pc = pc, ![l].file = None]
        /\ pc = "done" => creds' = [cli[l].file EXCEPT ![ServerOf[l]] = cli[l].token]
        /\ pc = "failed" => creds' = creds
    BY Zenon DEF WriteFile
<1>4. PICK p : p = [cli[l] EXCEPT !.pc = pc, !.file = None]
    OBVIOUS
<1>5. cli' = [cli EXCEPT ![l] = p]
    BY <1>1, <1>3, <1>4, Zenon DEF Process
<1>6. /\ p \in Process /\ p.pc = pc /\ p.code = cli[l].code /\ p.token = cli[l].token
      /\ p.alone = cli[l].alone
  <2>1. pc \in {"off", "waiting", "exchanging", "save", "write", "done", "failed"}
    BY <1>3
  <2> QED
    BY <1>1, <1>4, <2>1, Zenon DEF Process
<1>7. cli'[l] = p /\ cli' \in [Login -> Process] /\ \A m \in Login \ {l} : cli'[m] = cli[m]
    BY <1>1, <1>5, <1>6
<1>8. \A m \in Login : cli'[m].code = cli[m].code /\ cli'[m].token = cli[m].token
    BY <1>6, <1>7
<1>9. creds' \in File /\ \A s \in Server : s # ServerOf[l] => creds'[s] \in {creds[s], cli[l].file[s]}
    BY <1>1, <1>2, <1>3 DEF File
<1>10. AuthTyped' /\ AuthOK'
    BY <1>2, AuthIdle
<1>11. TypeOK'
    BY <1>2, <1>7, <1>9, <1>10 DEF LoginInv, TypeOK, ClientTyped, File
<1>12. ProcessesOK'
    BY <1>2, <1>3, <1>6, <1>7, ProcessesGoOn DEF authVars
<1>13. ExchangesOK'
    BY <1>2, <1>8, ExchangesIdle DEF authVars
<1>14. FilesOK'
  <2>1. Saving' = Saving \ {l}
    BY <1>3, <1>6, <1>7 DEF Saving
  <2>2. \A k \in Saving' : k # l /\ k \in Login /\ cli'[k] = cli[k]
    BY <1>7, <2>1 DEF Saving
  <2>3. \A m \in Login : cli'[m].pc = "write" => cli'[m].file \in File'
    BY <1>1, <1>3, <1>6, <1>7 DEF FilesOK, File
  <2>4. \A k, m \in Saving' : k # m => cli'[k].alone = FALSE
    BY <1>1, <2>1, <2>2 DEF FilesOK
  <2>5. \A s : TokensFor(s)' = TokensFor(s)
    BY <1>8 DEF TokensFor
  <2>6. cli[l].token \in TokensFor(ServerOf[l])
    BY <1>2 DEF TokensFor
  <2>7. ASSUME NEW m \in Login, cli'[m].pc = "done", cli'[m].alone = TRUE
        PROVE  /\ creds'[ServerOf[m]] \in TokensFor(ServerOf[m])
               /\ \A k \in Saving' : cli'[k].file[ServerOf[m]] \in TokensFor(ServerOf[m])
    <3>1. CASE m = l
      <4>1. pc = "done" /\ cli[l].alone = TRUE
        BY <3>1, <2>7, <1>6, <1>7
      <4>2. creds'[ServerOf[l]] = cli[l].token
        BY <4>1, <1>2, <1>3 DEF File
      <4>3. Saving' = {}
        BY <4>1, <1>1, <1>2, <2>1 DEF FilesOK
      <4> QED
        BY <3>1, <4>2, <4>3, <2>6
    <3>2. CASE m # l
      <4>1. /\ creds[ServerOf[m]] \in TokensFor(ServerOf[m])
            /\ \A k \in Saving : cli[k].file[ServerOf[m]] \in TokensFor(ServerOf[m])
        BY <3>2, <2>7, <1>1, <1>7 DEF FilesOK
      <4>2. creds'[ServerOf[m]] \in TokensFor(ServerOf[m])
        <5>1. ServerOf[m] \in Server
          BY DEF Server
        <5>2. CASE ServerOf[m] # ServerOf[l]
          BY <5>1, <5>2, <4>1, <1>2, <1>9
        <5>3. CASE ServerOf[m] = ServerOf[l]
          <6>1. creds'[ServerOf[l]] \in {creds[ServerOf[l]], cli[l].token}
            BY <1>2, <1>3 DEF File
          <6> QED
            BY <5>3, <6>1, <4>1, <2>6
        <5> QED
          BY <5>2, <5>3
      <4> QED
        BY <4>1, <4>2, <2>1, <2>2
    <3> QED
      BY <3>1, <3>2
  <2> QED
    BY <2>3, <2>4, <2>5, <2>7 DEF FilesOK
<1> QED
    BY <1>10, <1>11, <1>12, <1>13, <1>14 DEF LoginInv


-----------------------------------------------------------------------------

\* The invariant holds at the start.
LEMMA LoginInvInit ==
    ASSUME Init
    PROVE  LoginInv
<1>1. /\ now = 0 /\ codes = <<>> /\ issued = <<>> /\ tokens = <<>>
      /\ touches = {} /\ deleting = {} /\ deleted = {}
      /\ session = None /\ pending = None /\ states = 0 /\ redirects = {}
      /\ cli = [l \in Login |-> Off] /\ handlers = {} /\ creds = [s \in Server |-> None]
    BY DEF Init, AuthInit
<1>2. DOMAIN codes = {} /\ DOMAIN issued = 1..0 /\ DOMAIN tokens = 1..0 /\ DOMAIN issued = {}
      /\ DOMAIN tokens = {}
    BY <1>1
<1>3. CodesTyped
    BY <1>2, 0 \in Nat DEF CodesTyped
<1>4. TokensTyped
    BY <1>1, <1>2, 0 \in Nat DEF TokensTyped
<1>5. AuthTyped
    BY <1>1, <1>3, <1>4 DEF AuthTyped, BrowserTyped
<1>6. Off \in Process
    BY DEF Off, Process, MaybePort, MaybeNumber
<1>7. ClientTyped
    BY <1>1, <1>6, FS_EmptySet DEF ClientTyped, File, MaybeNumber
<1>8. AuthOK
    BY <1>1, <1>2 DEF AuthOK, CodesAreAsIssued, RedirectsAreAsIssued, DeletedIsRevoked
<1>9. \A l \in Login : cli[l].pc = "off" /\ cli[l].code = None /\ cli[l].token = None
    BY <1>1 DEF Off
<1>10. ProcessesOK /\ FilesOK
    BY <1>9 DEF ProcessesOK, FilesOK, Saving
<1>11. ExchangesOK
    BY <1>1, <1>2 DEF ExchangesOK, OneWinner
<1> QED
    BY <1>5, <1>7, <1>8, <1>10, <1>11 DEF LoginInv, TypeOK

\* Every step of the server, the browser and the command line keeps the invariant.
LEMMA LoginInvStep ==
    ASSUME LoginInv, [Next]_vars
    PROVE  LoginInv'
<1>0. AuthTyped /\ AuthOK
    BY DEF LoginInv, TypeOK
<1>1. CASE AuthNext /\ UNCHANGED <<cli, handlers, creds>>
    BY <1>0, <1>1, AuthStep, ClientIdle, AuthAssumption
<1>2. ASSUME NEW l \in Login, OpenURL(l)
      PROVE  LoginInv'
  <2>1. /\ cliStart(l, cli[l].port) /\ UNCHANGED <<cli, handlers, creds>>
        /\ l \in MaybeLogin /\ cli[l].port \in MaybePort
    BY <1>2 DEF OpenURL, MaybeLogin, LoginInv, TypeOK, ClientTyped, Process
  <2> QED
    BY <1>0, <2>1, CLIStartStep, ClientIdle, AuthAssumption
<1>3. ASSUME NEW l \in Login,
             \/ \E port \in Port : startLoopback(l, port)
             \/ \E r \in redirects : handleCallback(l, r)
             \/ Fail(l)
      PROVE  LoginInv'
    BY <1>3, WaitingStep
<1>4. ASSUME NEW l \in Login, TakeCode(l) \/ Resend(l) \/ LoadFile(l) \/ WriteFile(l)
      PROVE  LoginInv'
    BY <1>4, TakeCodeStep, ResendStep, LoadFileStep, WriteFileStep
<1>5. ASSUME NEW h \in handlers, Redeem(h) \/ Create(h) \/ exchangeCode(h)
      PROVE  LoginInv'
    BY <1>5, RedeemStep, ExchangeCreates, AnswerStep
<1>6. ASSUME NEW s \in Server, NEW t \in DOMAIN tokens, revokeToken(s, t)
      PROVE  LoginInv'
    BY <1>0, <1>6, DeleteTokenStep, ClientIdle DEF revokeToken
<1>7. CASE UNCHANGED vars
  <2>1. AuthTyped' /\ AuthOK'
    BY <1>7, AuthIdle DEF vars
  <2>2. TablesKept /\ UNCHANGED <<cli, handlers, creds>>
    BY <1>0, <1>7 DEF TablesKept, vars, authVars, AuthTyped
  <2> QED
    BY <2>1, <2>2, ClientIdle
<1> QED
    BY <1>1, <1>2, <1>3, <1>4, <1>5, <1>6, <1>7, Zenon DEF Next

\* In every reachable state the tables, the handlers and the processes have the
\* expected shapes and agree with one another.
THEOREM LoginInvariant == Spec => []LoginInv
<1>1. Init => LoginInv
    BY LoginInvInit
<1>2. LoginInv /\ [Next]_vars => LoginInv'
    BY LoginInvStep
<1> QED
    BY <1>1, <1>2, PTL DEF Spec

\* A set whose elements are all equal has at most one.
LEMMA AtMostOne ==
    ASSUME NEW S, \A x, y \in S : x = y
    PROVE  Cardinality(S) <= 1
<1>1. CASE S = {}
    BY <1>1, FS_EmptySet
<1>2. CASE S # {}
  <2>1. PICK x : S = {x}
    BY <1>2
  <2> QED
    BY <2>1, FS_Singleton
<1> QED
    BY <1>1, <1>2

\* RedeemCLILoginCode's one conditional update makes a code usable exactly once, and
\* until its time has passed, whatever replicas the exchange requests reach.
THEOREM CodesAreSingleUseAlways == Spec => []CodesAreSingleUse
<1>1. LoginInv => CodesAreSingleUse
  <2> SUFFICES ASSUME LoginInv PROVE CodesAreSingleUse
    OBVIOUS
  <2>1. \A h \in handlers : HandlerOK(h) /\ h.login \in Login
    BY DEF LoginInv, TypeOK, ClientTyped, Handler, ExchangesOK
  <2>2. OneTokenPerCode
    <3> SUFFICES ASSUME NEW l \in Login, NEW m \in Login, cli[l].code # None,
                        cli[l].code = cli[m].code
                 PROVE  Cardinality({h \in handlers : h.login \in {l, m}
                                                      /\ h.pc \in {"create", "created"}}) <= 1
      BY DEF OneTokenPerCode
    <3>1. l = m
      BY DEF LoginInv, ProcessesOK
    <3>2. \A g, h \in {x \in handlers : x.login \in {l, m} /\ x.pc \in {"create", "created"}} : g = h
      BY <3>1 DEF LoginInv, ExchangesOK, OneWinner, Won
    <3> QED
      BY <3>2, AtMostOne
  <2>3. RefusedOnlyIfUsedOrLate
    <3> SUFFICES ASSUME NEW h \in handlers, h.pc = "refused"
                 PROVE  \/ issued[cli[h.login].code].expires < h.at
                        \/ \E g \in handlers : g # h /\ g.pc \in {"create", "created", "error"}
                                               /\ cli[g.login].code = cli[h.login].code
      BY DEF RefusedOnlyIfUsedOrLate
    <3>1. CASE issued[cli[h.login].code].expires < h.at
      BY <3>1
    <3>2. ASSUME NEW g \in handlers, Won(g), g.login = h.login
          PROVE  g # h /\ g.pc \in {"create", "created", "error"}
                 /\ cli[g.login].code = cli[h.login].code
      BY <3>2 DEF Won
    <3> QED
      BY <3>1, <3>2, <2>1 DEF HandlerOK
  <2> QED
    BY <2>2, <2>3 DEF CodesAreSingleUse
<1> QED
    BY <1>1, LoginInvariant, PTL

\* The loopback listener's check of the state keeps a code of an older tab out: the token
\* a login has was made for the code its own URL led to, and for that code's user.
THEOREM TokenIsFromItsOwnLoginAlways == Spec => []TokenIsFromItsOwnLogin
<1>1. LoginInv => TokenIsFromItsOwnLogin
    BY DEF LoginInv, ProcessesOK, TokenIsFromItsOwnLogin
<1> QED
    BY <1>1, LoginInvariant, PTL

\* A token whose DELETE was answered stays refused: what a request that used it before
\* writes later stamps last_used_at alone.
THEOREM DeletedTokenIsRefusedAlways == Spec => []DeletedTokenIsRefused
<1>1. LoginInv => DeletedTokenIsRefused
    BY DEF LoginInv, AuthOK, DeletedIsRevoked, DeletedTokenIsRefused, resolveDBToken
<1> QED
    BY <1>1, LoginInvariant, PTL

\* saveToken's read of the file and its write of the whole of it keep the entries of
\* other servers, but for saves that overlap.
THEOREM LoggedInMeansSavedAlways == Spec => []LoggedInMeansSaved
<1>1. LoginInv => LoggedInMeansSaved
  <2> SUFFICES ASSUME LoginInv, NEW l \in Login, cli[l].pc = "done"
               PROVE  \/ creds[ServerOf[l]] \in {cli[m].token : m \in {k \in Login : ServerOf[k] = ServerOf[l]}} \ {None}
                      \/ ~cli[l].alone
    BY DEF LoggedInMeansSaved
  <2>1. CASE cli[l].alone = TRUE
    BY <2>1 DEF LoginInv, FilesOK, TokensFor
  <2>2. CASE cli[l].alone # TRUE
    BY <2>2
  <2> QED
    BY <2>1, <2>2
<1> QED
    BY <1>1, LoginInvariant, PTL
=============================================================================
