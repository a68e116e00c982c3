----------------------------- MODULE CICommand ------------------------------
(***************************************************************************)
(* conbench ci report (cmd/conbench/ci.go): it asks the server for a       *)
(* report, writes it, creates a GitHub check and a pull-request comment if *)
(* asked to, and ends with an exit code a CI job is decided by. GitHub is  *)
(* external: a call may fail before or after it took effect.               *)
(***************************************************************************)
EXTENDS CIReport

CONSTANTS
    Options     \* the publishing flags used: [check, comment, pr : BOOLEAN]

VARIABLES
    cli,        \* [pc, opts, exit, written]
    checks,     \* the conclusions of the check runs on GitHub
    comments    \* the check each comment on the pull request links to

cliVars == <<cli, checks, comments>>
cmdVars == <<results, unused, changes, rep, cli, checks, comments>>

NoOptions == [check |-> FALSE, comment |-> FALSE, pr |-> FALSE]

CmdInit ==
    /\ Init /\ checks = {} /\ comments = {}
    /\ cli = [pc |-> "off", opts |-> NoOptions, exit |-> 0, written |-> None]

Publishes(o) == o.check \/ o.comment

\* The flags as the command checks them before it calls anyone.
UsageOK(q, o) == ValidQuery(q) /\ (Publishes(o) => q.repo # NoRepo)

Exit(code) == cli' = [cli EXCEPT !.pc = "exited", !.exit = code]

ExitNow(code) == Exit(code) /\ UNCHANGED <<results, unused, changes, rep, checks, comments>>

\* A usage error, no bearer token, or a request.
Invoke(q, o) ==
    /\ cli.pc = "off" /\ rep.pc = "idle"
    /\ \/ /\ UsageOK(q, o) /\ Request(q)
          /\ cli' = [cli EXCEPT !.pc = "waiting", !.opts = o]
          /\ UNCHANGED <<checks, comments>>
       \/ ExitNow(2)

\* The answer, or the loss of it: the server goes on regardless.
Receive ==
    /\ cli.pc = "waiting"
    /\ \/ /\ rep.pc = "answered" /\ rep.status \in ReportStatuses
          /\ cli' = [cli EXCEPT !.pc = "write"]
          /\ UNCHANGED <<results, unused, changes, rep, checks, comments>>
       \/ rep.pc = "answered" /\ rep.status \notin ReportStatuses /\ ExitNow(2)

LoseConnection == cli.pc = "waiting" /\ ExitNow(2)

WriteReport ==
    /\ cli.pc = "write"
    /\ \/ /\ cli' = [cli EXCEPT !.pc = IF Publishes(cli.opts) THEN "check" ELSE "exit",
                                !.written = rep.status]
          /\ UNCHANGED <<results, unused, changes, rep, checks, comments>>
       \/ ExitNow(2)

\* The conclusion of the check is the report's status.
Conclusion(status) ==
    IF status \in {"action_required", "failure", "skipped"} THEN status ELSE "success"

\* done: GitHub made the check. Without a reply the command fails either way.
CreateCheck(done) ==
    /\ cli.pc = "check"
    /\ checks' = IF done THEN checks \cup {Conclusion(rep.status)} ELSE checks
    /\ \/ /\ done /\ cli' = [cli EXCEPT !.pc = IF ~cli.opts.comment THEN "exit"
                                               ELSE IF cli.opts.pr THEN "comment" ELSE "pulls"]
       \/ Exit(2)
    /\ UNCHANGED <<results, unused, changes, rep, comments>>

\* Without --github-pr-number the commit must have exactly one pull request.
FindPullRequest ==
    /\ cli.pc = "pulls"
    /\ \/ /\ cli' = [cli EXCEPT !.pc = "comment"]
          /\ UNCHANGED <<results, unused, changes, rep, checks, comments>>
       \/ ExitNow(2)

CreateComment(done) ==
    /\ cli.pc = "comment"
    /\ comments' = IF done THEN comments \cup checks ELSE comments
    /\ \/ done /\ cli' = [cli EXCEPT !.pc = "exit"]
       \/ Exit(2)
    /\ UNCHANGED <<results, unused, changes, rep, checks>>

\* A failed or incomplete report fails the job.
ExitCode(status) == IF status \in {"failure", "action_required"} THEN 1 ELSE 0

Leave == cli.pc = "exit" /\ ExitNow(ExitCode(rep.status))

CommandStep ==
    \/ Receive \/ WriteReport \/ FindPullRequest \/ Leave
    \/ \E done \in BOOLEAN : CreateCheck(done) \/ CreateComment(done)

CmdNext ==
    \/ \E q \in Queries, o \in Options : Invoke(q, o)
    \/ CommandStep \/ LoseConnection
    \/ /\ \E q \in Queries : cli.pc = "off" /\ Request(q)     \* another API client
       /\ UNCHANGED cliVars
    \/ ReportStep /\ UNCHANGED cliVars
    \/ Fail /\ UNCHANGED cliVars
    \/ StoreStep /\ UNCHANGED cliVars

\* Statements return, and a command that is run goes on to its end.
CmdSpec ==
    /\ CmdInit /\ [][CmdNext]_cmdVars
    /\ WF_cmdVars(ReportStep /\ UNCHANGED cliVars) /\ WF_cmdVars(CommandStep)

\* A CI job that passes can be believed: with exit code 0 the report was
\* written, no run it was asked for is missing, none of its rows regressed or
\* errored, and with 0 or 1 what was to be published is on GitHub, the check
\* with the status of the report and the comment linking to it.
ExitCodeIsTheReport ==
    cli.pc = "exited" /\ cli.exit \in {0, 1} =>
        /\ cli.written = rep.status
        /\ cli.exit = 0 => RowsWith({"regressed", "errored"}) = {} /\ rep.missing = {}
        /\ Publishes(cli.opts) => rep.status \in checks
        /\ cli.opts.comment => rep.status \in comments

\* A command that is started ends, whatever is submitted or deleted meanwhile.
CommandExits == cli.pc # "off" ~> cli.pc = "exited"
=============================================================================
