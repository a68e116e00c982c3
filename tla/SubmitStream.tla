---------------------------- MODULE SubmitStream ----------------------------
(***************************************************************************)
(* `conbench results submit` (cmd/conbench/results.go) in front of the     *)
(* server of Submissions.  The command decodes its files one result at a   *)
(* time and hands each to a pool of workers over an unbuffered channel;    *)
(* every worker posts what it gets to the server and sends the outcome to  *)
(* a buffered channel, from which a collector fills in the lines of the    *)
(* report.  A file is abstracted to the results it holds and to whether    *)
(* decoding it ends in an error after them (unreadable or empty: no        *)
(* results; an array with a bad entry: those before it).                   *)
(***************************************************************************)
EXTENDS Submissions, Sequences

CONSTANTS
    Workers,     \* --jobs goroutines, numbered
    FileLists,   \* the lists of files the command may be given
    MaxRuns      \* bound: runs of the command

ASSUME StreamAssumption ==
    /\ Workers \subseteq Nat /\ IsFiniteSet(Workers) /\ Workers # {}
    /\ Requests \subseteq Nat \ {0}
    /\ MaxRuns \in Nat
    /\ \A list \in FileLists :
          list # <<>> /\ list \in Seq([items : Seq(Submission), ok : BOOLEAN])

VARIABLES
    stage,     \* where streamSubmitWork is
    files,     \* the expanded arguments
    at,        \* [file, item]: the file being decoded, results it has yielded
    lines,     \* stream.lines: [item, id]; id is NoRef unless the line is OK
    undecoded, \* the only file failed to decode: streamSubmitWork's error
    worker,    \* [Workers -> [step, line, slot, id]]
    buffer,    \* the results channel: [line, id]
    exit,      \* the exit code
    errors,    \* lines whose call failed, or files that did (history only)
    runs

command == <<stage, files, at, lines, undecoded, worker, buffer, exit, errors, runs>>
vars == <<server, command>>

Jobs == Cardinality(Workers)
NoItem == <<>>
NoSlot == 0
Ready == [step |-> "ready", line |-> 0, slot |-> NoSlot, id |-> NoRef]
Start == [file |-> 1, item |-> 0]

StreamInit ==
    /\ Init
    /\ stage = "idle"
    /\ files = <<>>
    /\ at = Start
    /\ lines = <<>>
    /\ undecoded = FALSE
    /\ worker = [w \in Workers |-> Ready]
    /\ buffer = <<>>
    /\ exit = "none"
    /\ errors = {}
    /\ runs = 0

\* The command is run, or run again on the same files: a CI job that is
\* retried.
Invoke(list) ==
    /\ stage \in {"idle", "exited"}
    /\ stage = "exited" => list = files
    /\ runs < MaxRuns
    /\ runs' = runs + 1
    /\ stage' = "decode"
    /\ files' = list
    /\ at' = Start
    /\ lines' = <<>>
    /\ undecoded' = FALSE
    /\ exit' = "none"
    /\ errors' = {}
    /\ UNCHANGED <<worker, buffer, server>>

-----------------------------------------------------------------------------
(* The decoder. *)

\* The decoder has another result before the file's end or its first bad
\* entry.
More == at.item < Len(files[at.file].items)

\* The next result gets its line, and the send on the unbuffered work channel
\* meets a worker's receive.  Nobody reads the line before that, so the two
\* are one step; which of the waiting workers it is makes no difference, so
\* it is the first.
Yield(w) ==
    /\ stage = "decode" /\ More
    /\ worker[w].step = "ready"
    /\ \A v \in Workers : worker[v].step = "ready" => w <= v
    /\ lines' = Append(lines, [item |-> files[at.file].items[at.item + 1], id |-> NoRef])
    /\ at' = [file |-> at.file, item |-> at.item + 1]
    /\ worker' = [worker EXCEPT ![w] = [Ready EXCEPT !.step = "call", !.line = Len(lines')]]
    /\ UNCHANGED <<stage, files, undecoded, buffer, exit, errors, runs, server>>

\* The file is used up.  A decoding error is a line of the report, unless
\* this is the only file: then it is all there will be of the report.  After
\* the last file, finish closes the work channel.
EndOfFile ==
    LET file == files[at.file]
        alone == Len(files) = 1
    IN
    /\ stage = "decode" /\ ~More
    /\ undecoded' = (~file.ok /\ alone)
    /\ IF file.ok \/ alone
       THEN UNCHANGED <<lines, errors>>
       ELSE /\ lines' = Append(lines, [item |-> NoItem, id |-> NoRef])
            /\ errors' = errors \cup {Len(lines) + 1}
    /\ IF at.file = Len(files)
       THEN stage' = "wait" /\ UNCHANGED at
       ELSE at' = [file |-> at.file + 1, item |-> 0] /\ UNCHANGED stage
    /\ UNCHANGED <<files, worker, buffer, exit, runs, server>>

\* finish: wg.Wait returns when every worker has found the channel closed;
\* close(results).
CloseResults ==
    /\ stage = "wait" /\ \A w \in Workers : worker[w].step = "ready"
    /\ stage' = "collect"
    /\ UNCHANGED <<files, at, lines, undecoded, worker, buffer, exit, errors, runs, server>>

-----------------------------------------------------------------------------
(* A worker and its request. *)

FreeSlots == {c \in Requests : pc[c] = "idle" /\ \A w \in Workers : worker[w].slot # c}

\* submitBody posts the result; the server takes it up in one of its
\* requests.
Post(w) ==
    /\ worker[w].step = "call" /\ FreeSlots # {}
    /\ LET c == CHOOSE c \in FreeSlots : \A d \in FreeSlots : c <= d
           item == lines[worker[w].line].item
       IN  /\ Begin(c, item.key, item.payload)
           /\ worker' = [worker EXCEPT ![w].step = "await", ![w].slot = c]
    /\ UNCHANGED <<stage, files, at, lines, undecoded, buffer, exit, errors, runs>>

\* What submitBody returns for an answer with this id.
Outcome(w, id) ==
    /\ worker' = [worker EXCEPT ![w].step = "report", ![w].slot = NoSlot, ![w].id = id]
    /\ errors' = IF id = NoRef THEN errors \cup {worker[w].line} ELSE errors

\* The server has answered: 201 with the id, or an error.
Answered(w) ==
    LET c == worker[w].slot IN
    /\ worker[w].step = "await" /\ pc[c] = "idle"
    /\ Outcome(w, reply[c])
    /\ reply' = [reply EXCEPT ![c] = NoRef]
    /\ UNCHANGED <<table, results, lastId, pc, sub, kind, refs, answers, conflicts,
                   faults, stage, files, at, lines, undecoded, buffer, exit, runs>>

\* The connection breaks: the worker sees an error, the request goes on.
LoseAnswer(w) ==
    /\ worker[w].step = "await"
    /\ faults < MaxFaults
    /\ faults' = faults + 1
    /\ Outcome(w, NoRef)
    /\ reply' = [reply EXCEPT ![worker[w].slot] = NoRef]
    /\ UNCHANGED <<table, results, lastId, pc, sub, kind, refs, answers, conflicts,
                   stage, files, at, lines, undecoded, buffer, exit, runs>>

\* The outcome goes to the results channel once there is room for it.
SendResult(w) ==
    /\ worker[w].step = "report" /\ Len(buffer) < Jobs
    /\ buffer' = Append(buffer, [line |-> worker[w].line, id |-> worker[w].id])
    /\ worker' = [worker EXCEPT ![w] = Ready]
    /\ UNCHANGED <<stage, files, at, lines, undecoded, exit, errors, runs, server>>

-----------------------------------------------------------------------------
(* The collector and the report. *)

\* Mutant: outcomes are listed in the order in which they arrive.
NextBlank(outcome) ==
    CHOOSE k \in DOMAIN lines :
        /\ lines[k].id = NoRef
        /\ \A j \in 1..(k - 1) : lines[j].id # NoRef

\* The line an outcome belongs to.
LineIndex(outcome) == outcome.line

\* Mutant: the collector is started once the work is done.
CollectsLast == stage = "collect"

\* The collector runs from before the first file to the end.
Collects == stage \notin {"idle", "exited"}

Collect ==
    /\ Collects /\ buffer # <<>>
    /\ lines' = [lines EXCEPT ![LineIndex(Head(buffer))].id = Head(buffer).id]
    /\ buffer' = Tail(buffer)
    /\ UNCHANGED <<stage, files, at, undecoded, worker, exit, errors, runs, server>>

\* Mutant: only results that were submitted count, not unreadable files.
ExitCodeOfSubmitted ==
    IF undecoded \/ \E k \in DOMAIN lines : lines[k].item # NoItem /\ lines[k].id = NoRef
    THEN "failed" ELSE "ok"

\* runSubmitConfig: the decoding error, or any line that is not OK.
ExitCode == IF undecoded \/ \E k \in DOMAIN lines : lines[k].id = NoRef THEN "failed" ELSE "ok"

\* finish has seen the collector end: the lines are printed.  When the only
\* file failed to decode, streamSubmitWork returns no lines.
Report ==
    /\ stage = "collect" /\ buffer = <<>>
    /\ stage' = "exited"
    /\ exit' = ExitCode
    /\ lines' = IF undecoded THEN <<>> ELSE lines
    /\ UNCHANGED <<files, at, undecoded, worker, buffer, errors, runs, server>>

-----------------------------------------------------------------------------

Stream == EndOfFile \/ CloseResults \/ Collect \/ Report

Work(w) == Yield(w) \/ Post(w) \/ Answered(w) \/ SendResult(w)

StreamNext ==
    \/ \E list \in FileLists : Invoke(list)
    \/ Stream
    \/ \E w \in Workers : Work(w) \/ LoseAnswer(w)
    \/ /\ \/ \E c \in Requests : Submit(c) \/ Abort(c)
          \/ \E r \in results : DeleteResult(r)
       /\ UNCHANGED command

StreamSpec == StreamInit /\ [][StreamNext]_vars

\* Goroutines that can run do, and a server that is up goes on with its
\* requests.
StreamFairness ==
    /\ WF_vars(Stream)
    /\ \A w \in Workers : WF_vars(Work(w))
    /\ \A c \in Requests : WF_vars(Submit(c) /\ UNCHANGED command)

FairStreamSpec == StreamSpec /\ StreamFairness

-----------------------------------------------------------------------------
(* Properties. *)

\* The id on a line was given to the very result the line stands for, in
\* whatever order the workers' answers came (the line index that travels
\* with the task): a line never shows another result's id.
LinesAreTheirItems ==
    \A k \in DOMAIN lines : lines[k].id # NoRef =>
        \E a \in answers : /\ a.id = lines[k].id
                           /\ a.key = lines[k].item.key
                           /\ a.payload = lines[k].item.payload

\* The command exits 0 exactly when every file was decoded to its end and
\* no submission was refused, failed or lost its answer: finish waits for
\* the last outcome to be on its line before the lines are read.
ExitCodeIsTrue ==
    stage = "exited" =>
        (exit = "ok" <=> errors = {} /\ \A i \in DOMAIN files : files[i].ok)

\* The command ends: decoder, workers and collector never wait for each
\* other in a ring, with more results than workers and buffer places.
StreamEnds == stage \notin {"idle", "exited"} ~> stage = "exited"
=============================================================================
