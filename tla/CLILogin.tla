------------------------------ MODULE CLILogin ------------------------------
(***************************************************************************)
(* conbench auth login: a process listens on a loopback port, has a        *)
(* browser open cli-start, waits for the code, exchanges it for a token    *)
(* and saves it in the credentials file (cmd/conbench/auth.go,             *)
(* credentials.go), against module Auth. A port is free again when its     *)
(* process ends, while old tabs still point at it. A process's state       *)
(* parameter is its name.                                                  *)
(***************************************************************************)
EXTENDS Auth

CONSTANTS
    ServerOf,       \* the server URL a login was given
    MaxSends        \* bound: how often one exchange request reaches the server

VARIABLES
    cli,        \* processes
    handlers,   \* cliExchange handlers: [login, n, at, pc, user, token]
    creds       \* the credentials file: server URL -> token

vars == <<authVars, cli, handlers, creds>>

Off == [pc |-> "off", port |-> None, code |-> None, token |-> None,
        file |-> None, alone |-> TRUE]

Server == {ServerOf[l] : l \in Login}

Init ==
    /\ AuthInit
    /\ cli = [l \in Login |-> Off]
    /\ handlers = {}
    /\ creds = [s \in Server |-> None]

Running(l) == cli[l].pc \in {"waiting", "exchanging", "save", "write"}

startLoopback(l, port) ==
    /\ cli[l].pc = "off" /\ \A m \in Login : Running(m) => cli[m].port # port
    /\ cli' = [cli EXCEPT ![l].pc = "waiting", ![l].port = port]
    /\ UNCHANGED <<authVars, handlers, creds>>

\* The URL stays in the terminal: it may be opened again, also after the process ended.
OpenURL(l) ==
    /\ cli[l].pc # "off"
    /\ cliStart(l, cli[l].port)
    /\ UNCHANGED <<cli, handlers, creds>>

\* Mutant: any code that arrives is taken.
AnyState(l, r) == TRUE

StateMatches(l, r) == r.state = l

\* The browser is at a redirect (again): whoever has the port now answers. The channel
\* holds one code and drops the next. Another state makes the process fail (Fail).
handleCallback(l, r) ==
    /\ Running(l) /\ cli[l].port = r.port
    /\ StateMatches(l, r) /\ cli[l].code = None
    /\ cli' = [cli EXCEPT ![l].code = r.code]
    /\ UNCHANGED <<authVars, handlers, creds>>

\* The select takes the code, though an error may be there too.
TakeCode(l) ==
    /\ cli[l].pc = "waiting" /\ cli[l].code # None
    /\ cli' = [cli EXCEPT ![l].pc = "exchanging"]
    /\ handlers' = handlers \cup {[login |-> l, n |-> 1, at |-> now, pc |-> "redeem", user |-> None, token |-> None]}
    /\ UNCHANGED <<authVars, creds>>

Fail(l) ==
    /\ \/ cli[l].pc = "waiting"          \* a callback with another state, or loopbackTimeout
       \/ cli[l].pc = "exchanging"       \* the exchange's own timeout
    /\ cli' = [cli EXCEPT ![l].pc = "failed"]
    /\ UNCHANGED <<authVars, handlers, creds>>

\* A proxy may send the exchange request to a second replica.
Resend(l) ==
    /\ cli[l].pc = "exchanging"
    /\ LET n == Cardinality({h \in handlers : h.login = l})
       IN  /\ n < MaxSends
           /\ handlers' = handlers \cup {[login |-> l, n |-> n + 1, at |-> now, pc |-> "redeem",
                                          user |-> None, token |-> None]}
    /\ UNCHANGED <<authVars, cli, creds>>

Becomes(h, f) == handlers' = (handlers \ {h}) \cup {f}

\* cliExchange: the code is redeemed, or refused,
Redeem(h) ==
    /\ h.pc = "redeem"
    /\ LET c == cli[h.login].code
       IN  IF Redeemable(c, h.at)
           THEN /\ codes' = [codes EXCEPT ![c].redeemed = TRUE]
                /\ Becomes(h, [h EXCEPT !.pc = "create", !.user = codes[c].user])
           ELSE /\ Becomes(h, [h EXCEPT !.pc = "refused", !.at = now])
                /\ UNCHANGED codes
    /\ UNCHANGED <<now, users, issued, tokens, touches, deleting, deleted, requests, browserVars, cli, creds>>

\* and the token is made, which may fail.
Create(h) ==
    /\ h.pc = "create"
    /\ \/ \E t \in 1..MaxTokens : CreateAPIToken(h.user, t) /\ Becomes(h, [h EXCEPT !.pc = "created", !.token = t])
       \/ Becomes(h, [h EXCEPT !.pc = "error"]) /\ UNCHANGED tokens
    /\ UNCHANGED <<now, users, codes, issued, touches, deleting, deleted, requests, browserVars, cli, creds>>

\* exchangeCode returns with one of the answers.
exchangeCode(h) ==
    /\ h.pc \in {"created", "refused", "error"} /\ cli[h.login].pc = "exchanging"
    /\ cli' = [cli EXCEPT ![h.login].pc = IF h.pc = "created" THEN "save" ELSE "failed",
                          ![h.login].token = h.token]
    /\ UNCHANGED <<authVars, handlers, creds>>

\* Mutant: the file is started afresh.
NoFile == [s \in Server |-> None]

loadCredentials == creds

Saving == {l \in Login : cli[l].pc = "write"}

\* saveToken reads the file,
LoadFile(l) ==
    /\ cli[l].pc = "save"
    /\ cli' = [m \in Login |->
                 IF m = l THEN [cli[l] EXCEPT !.pc = "write", !.file = loadCredentials, !.alone = Saving = {}]
                 ELSE IF m \in Saving THEN [cli[m] EXCEPT !.alone = FALSE] ELSE cli[m]]
    /\ UNCHANGED <<authVars, handlers, creds>>

\* and writes all of it back with the new token, or fails.
WriteFile(l) ==
    /\ cli[l].pc = "write"
    /\ \/ /\ creds' = [cli[l].file EXCEPT ![ServerOf[l]] = cli[l].token]
          /\ cli' = [cli EXCEPT ![l].pc = "done", ![l].file = None]
       \/ /\ cli' = [cli EXCEPT ![l].pc = "failed", ![l].file = None]
          /\ UNCHANGED creds
    /\ UNCHANGED <<authVars, handlers>>

\* conbench auth token revoke <id>, with the token of the credentials file.
revokeToken(s, t) ==
    /\ creds[s] # None
    /\ deleteToken(creds[s], None, t)
    /\ UNCHANGED <<cli, handlers, creds>>

Next ==
    \/ AuthNext /\ UNCHANGED <<cli, handlers, creds>>
    \/ \E l \in Login :
         \/ \E port \in Port : startLoopback(l, port)
         \/ OpenURL(l) \/ TakeCode(l) \/ Fail(l) \/ Resend(l) \/ LoadFile(l) \/ WriteFile(l)
         \/ \E r \in redirects : handleCallback(l, r)
    \/ \E h \in handlers : Redeem(h) \/ Create(h) \/ exchangeCode(h)
    \/ \E s \in Server, t \in DOMAIN tokens : revokeToken(s, t)

Spec == Init /\ [][Next]_vars

(***************************************************************************)
(* Properties.                                                             *)
(***************************************************************************)

\* A login code makes one token at most, on whichever replicas and however often its
\* exchange arrives, also while the first redemption is still making the token.
OneTokenPerCode ==
    \A l, m \in Login : (cli[l].code # None /\ cli[l].code = cli[m].code) =>
      Cardinality({h \in handlers : h.login \in {l, m} /\ h.pc \in {"create", "created"}}) <= 1

\* A code is refused only when an earlier exchange used it or when its time had passed:
\* no sweep, by whichever replica's clock, takes a code away before that.
RefusedOnlyIfUsedOrLate ==
    \A h \in handlers : h.pc = "refused" =>
      \/ issued[cli[h.login].code].expires < h.at
      \/ \E g \in handlers : g # h /\ g.pc \in {"create", "created", "error"}
                             /\ cli[g.login].code = cli[h.login].code

\* A login code can be used exactly once, and until its time has passed.
CodesAreSingleUse == OneTokenPerCode /\ RefusedOnlyIfUsedOrLate

\* The token a login saves was made for the code that its own URL led to, not for one an
\* older tab brings to the same port.
TokenIsFromItsOwnLogin ==
    \A l \in Login : cli[l].token # None =>
      /\ issued[cli[l].code].login = l
      /\ tokens[cli[l].token].user = issued[cli[l].code].user

\* A login that reported success is in the credentials file, unless a later login to the
\* same server replaced it or its save overlapped another process's.
LoggedInMeansSaved ==
    \A l \in Login : cli[l].pc = "done" =>
      \/ creds[ServerOf[l]] \in {cli[m].token : m \in {k \in Login : ServerOf[k] = ServerOf[l]}} \ {None}
      \/ ~cli[l].alone

=============================================================================
