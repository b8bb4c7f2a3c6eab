---------------------------- MODULE RunnerBridge ----------------------------
(***************************************************************************)
(* One execution of a workflow: `execute` with its sessions, the child     *)
(* process that runs the workflow's code, the pipe between the two, and    *)
(* the journal of steps.                                                   *)
(*                                                                         *)
(* The child (runner_shim) asks for one call at a time, of a tool or of    *)
(* the model, and blocks for its answer; nobody compares the ids of the    *)
(* two.  The parent (runner) reads a line under the run's deadline,        *)
(* performs the call under the tool's own, or asks the model up to four    *)
(* times under the model's, journals the step, answers, and kills the      *)
(* child whatever way it leaves.  A server may act late or for nothing.    *)
(***************************************************************************)
EXTENDS Integers, Sequences, FiniteSets

CONSTANTS
    MaxCalls,      \* bound on the calls of the workflow
    RunTimeout,    \* DEFAULT_TIMEOUT_SECONDS, in ticks
    ToolTimeout,   \* DEFAULT_TOOL_TIMEOUT_SECONDS, in ticks
    ModelTimeout,  \* the timeout of one request to the model, in ticks
    MaxTime,       \* bound on the clock
    Faults         \* which of BridgeFaults may happen

(* child: its process dies.  journal: insert_step raises.  close: a session *)
(* cannot be closed.  cancel: the task is cancelled.  crash: the Runlace    *)
(* process is killed.                                                       *)
BridgeFaults == {"child", "journal", "close", "cancel", "crash"}

ASSUME BridgeAssumption ==
    /\ MaxCalls \in Nat
    /\ RunTimeout \in Nat \ {0}
    /\ ToolTimeout \in Nat
    /\ ModelTimeout \in Nat
    /\ MaxTime \in Nat
    /\ Faults \subseteq BridgeFaults

VARIABLES
    now,
    child,         \* the child process
    asked,         \* Channel._next_id
    heard,         \* history: the answer the child took last, and what it had asked
    up, down,      \* the two pipes
    parent,        \* where execute() / run_code() / _serve() / _respond() stand
    deadline,      \* _serve's local deadline
    current,       \* the request in hand, 0 for none
    callBy,        \* when the call, or the request to the model, times out
    question,      \* the request to the model
    good,          \* the call in hand succeeded
    sent,          \* calls that reached a server
    performed,     \* calls whose effect took place there
    bill,          \* how many answers the model has charged each call for
    steps,         \* run_code's list of steps
    journal,       \* the rows of `steps` in the database
    outcome,       \* how _serve ended
    report         \* the `code` execute() answers with

childVars  == <<child, asked, heard>>
pipeVars   == <<up, down>>
callVars   == <<current, callBy, question, good>>
serverVars == <<sent, performed, bill>>
stepVars   == <<steps, journal>>
endVars    == <<outcome, report>>
bridgeVars == <<now, childVars, pipeVars, parent, deadline, callVars, serverVars,
                stepVars, endVars>>

-----------------------------------------------------------------------------
ChildPcs  == {"unborn", "running", "waiting", "exited"}
ParentPcs == {"opening", "reading", "resolving", "calling", "consulting", "asking", "journaling",
              "answering", "closing", "leaving", "over", "gone"}
Outcomes  == {"none", "completed", "failed", "timeout", "died", "raised", "cancelled"}
Reports   == {"none", "completed", "workflow-failed", "invalid-output",
              "connector-unreachable"}

Kinds == {"call", "ai"}

\* `fits`: the line is within the 64 KiB that readline() takes.
Request(kind, i, fits) == [kind |-> kind, id |-> i, status |-> "none", fits |-> fits]
Finished(how, fits) == [kind |-> "finished", id |-> 0, status |-> how, fits |-> fits]
Messages == [kind : Kinds \cup {"finished"}, id : 0..MaxCalls,
             status : {"none", "completed", "failed"}, fits : BOOLEAN]
\* `tokens`: how many charged answers the row counts the tokens of.
StepRows == [seq : 1..MaxCalls, id : 1..MaxCalls, ok : BOOLEAN, tokens : 0..2]

\* shaped: the step has a schema.  hinted: it is sent along as response_format.
Questions == [attempt : {1, 2}, shaped : BOOLEAN, hinted : BOOLEAN]
FirstQuestion(shaped) == [attempt |-> 1, shaped |-> shaped, hinted |-> shaped]

Ids(rows) == {rows[k].id : k \in DOMAIN rows}
Alive     == child \in {"running", "waiting"}
InServe   == parent \in {"reading", "resolving", "calling", "consulting", "asking",
                        "journaling", "answering"}

\* Where _serve goes with a request.
Handler(m) == IF m.kind = "ai" THEN "consulting" ELSE "resolving"

BridgeInit ==
    /\ now = 0
    /\ child = "unborn" /\ asked = 0 /\ heard = [asked |-> 0, got |-> 0]
    /\ up = <<>> /\ down = <<>>
    /\ parent = "opening"
    /\ deadline = 0
    /\ current = 0 /\ callBy = 0 /\ good = FALSE
    /\ question = FirstQuestion(FALSE)
    /\ sent = {} /\ performed = {}
    /\ bill = [i \in 1..MaxCalls |-> 0]
    /\ steps = <<>> /\ journal = <<>>
    /\ outcome = "none" /\ report = "none"

\* _serve is left, for whatever reason; its finally clause comes next.
LeaveServe(how) == parent' = "closing" /\ outcome' = how

-----------------------------------------------------------------------------
\* Bugs this code could have had; not part of BridgeNext.

\* The deadline is looked at only once a line has come.
TimeOutOnLine ==
    /\ parent = "reading"
    /\ now >= deadline /\ up # <<>>
    /\ LeaveServe("timeout")
    /\ UNCHANGED <<now, childVars, pipeVars, deadline, callVars, serverVars, stepVars, report>>

\* The timeout is a line's, not the run's ...
ReadLineAnew ==
    /\ parent = "reading" /\ now < deadline /\ up # <<>>
    /\ up' = Tail(up)
    /\ deadline' = now + RunTimeout
    /\ IF Head(up).kind \in Kinds
         THEN parent' = Handler(Head(up)) /\ current' = Head(up).id /\ UNCHANGED outcome
         ELSE LeaveServe(Head(up).status) /\ UNCHANGED current
    /\ UNCHANGED <<now, childVars, down, callBy, question, good, serverVars, stepVars, report>>

\* An unknown tool is answered on the spot and once more by the loop.
RefuseCallTwice ==
    /\ parent = "resolving"
    /\ parent' = "answering"
    /\ good' = FALSE
    /\ down' = Append(down, current)
    /\ UNCHANGED <<now, childVars, up, deadline, current, callBy, question, serverVars, stepVars, endVars>>

\* A journal that cannot be written does not stop the run.
SwallowJournalError ==
    /\ "journal" \in Faults
    /\ parent = "journaling"
    /\ parent' = "answering"
    /\ UNCHANGED <<now, childVars, pipeVars, deadline, callVars, serverVars, stepVars, endVars>>

\* A cancelled run leaves before it has killed its child.
TerminateUnlessCancelled ==
    /\ parent = "closing"
    /\ parent' = "leaving"
    /\ child' = IF outcome = "cancelled" THEN child ELSE "exited"
    /\ up' = <<>> /\ down' = <<>>
    /\ UNCHANGED <<now, asked, heard, deadline, callVars, serverVars, stepVars, endVars>>

-----------------------------------------------------------------------------
(* The parent: execute, run_code, _serve, _respond.                        *)

\* Every session is open: the child is spawned and the clock of the run starts.
OpenAndSpawn ==
    /\ parent = "opening"
    /\ parent' = "reading"
    /\ child' = "running"
    /\ deadline' = now + RunTimeout
    /\ UNCHANGED <<now, asked, heard, pipeVars, callVars, serverVars, stepVars, endVars>>

\* A server does not answer: no child, no call.
FailToOpen ==
    /\ parent = "opening"
    /\ parent' = "over"
    /\ report' = "connector-unreachable"
    /\ UNCHANGED <<now, childVars, pipeVars, deadline, callVars, serverVars, stepVars, outcome>>

\* remaining <= 0, or wait_for gave up.
TimeOut ==
    /\ parent = "reading"
    /\ now >= deadline
    /\ LeaveServe("timeout")
    /\ UNCHANGED <<now, childVars, pipeVars, deadline, callVars, serverVars, stepVars, report>>

\* readline() returned a line, or raised because there is no end to it.
ReadLine ==
    /\ parent = "reading"
    /\ now < deadline
    /\ up # <<>>
    /\ up' = Tail(up)
    /\ LET m == Head(up) IN
         CASE ~m.fits -> LeaveServe("raised") /\ UNCHANGED current
           [] m.fits /\ m.kind = "finished" -> LeaveServe(m.status) /\ UNCHANGED current
           [] m.fits /\ m.kind \in Kinds ->
                parent' = Handler(m) /\ current' = m.id /\ UNCHANGED outcome
    /\ UNCHANGED <<now, childVars, down, deadline, callBy, question, good, serverVars, stepVars, report>>

\* An empty line: the child is gone and said nothing.
SeeChildGone ==
    /\ parent = "reading"
    /\ now < deadline
    /\ up = <<>> /\ ~Alive
    /\ LeaveServe("died")
    /\ UNCHANGED <<now, childVars, pipeVars, deadline, callVars, serverVars, stepVars, report>>

\* find_tool_by_method finds the tool, and the call goes out.
SendCall ==
    /\ parent = "resolving"
    /\ parent' = "calling"
    /\ sent' = sent \cup {current}
    /\ callBy' = now + ToolTimeout
    /\ UNCHANGED <<now, childVars, pipeVars, deadline, current, question, good, performed, bill,
                   stepVars, endVars>>

\* ... or does not: answered, and not a step.  So is a question to no model.
RefuseCall ==
    /\ parent \in {"resolving", "consulting"}
    /\ parent' = "answering"
    /\ good' = FALSE
    /\ UNCHANGED <<now, childVars, pipeVars, deadline, current, callBy, question, serverVars, stepVars, endVars>>

\* The step is counted as soon as the call is over, well or badly.
EndCall(ok, tokens) ==
    /\ parent' = "journaling"
    /\ good' = ok
    /\ steps' = Append(steps, [seq |-> Len(steps) + 1, id |-> current, ok |-> ok, tokens |-> tokens])
    /\ UNCHANGED <<now, childVars, pipeVars, deadline, current, callBy, question, journal, endVars>>

GetResult ==
    /\ parent = "calling" /\ current \in performed
    /\ EndCall(TRUE, 0) /\ UNCHANGED serverVars

GetError ==
    /\ parent = "calling"
    /\ EndCall(FALSE, 0) /\ UNCHANGED serverVars

CallTimesOut ==
    /\ parent = "calling" /\ now >= callBy
    /\ EndCall(FALSE, 0) /\ UNCHANGED serverVars

\* A request to the model leaves, with as long to go as any other.
Post(q) ==
    /\ parent' = "asking"
    /\ question' = q
    /\ callBy' = now + ModelTimeout
    /\ UNCHANGED <<now, childVars, pipeVars, deadline, current, good, sent, performed,
                   stepVars, endVars>>

Consult ==
    /\ parent = "consulting"
    /\ \E shaped \in BOOLEAN : Post(FirstQuestion(shaped))
    /\ UNCHANGED bill

\* A ${VAR} of model.json is not set.
FailToResolve ==
    /\ parent = "consulting"
    /\ EndCall(FALSE, 0) /\ UNCHANGED serverVars

\* complete: 400 or above.  It may be the hint that is not understood.
DropHint ==
    /\ parent = "asking" /\ question.hinted
    /\ Post([question EXCEPT !.hinted = FALSE])
    /\ UNCHANGED bill

\* Text that the schema takes, if there is one: both attempts are counted.
AnswerWell ==
    /\ parent = "asking"
    /\ bill' = [bill EXCEPT ![current] = @ + 1]
    /\ EndCall(TRUE, question.attempt)
    /\ UNCHANGED <<sent, performed>>

\* Text that it does not take: the model is told what is wrong with it, once.
AskAgain ==
    /\ parent = "asking" /\ question.shaped /\ question.attempt = 1
    /\ bill' = [bill EXCEPT ![current] = @ + 1]
    /\ Post([attempt |-> 2, shaped |-> TRUE, hinted |-> TRUE])

GiveUpOnShape ==
    /\ parent = "asking" /\ question.shaped /\ question.attempt = 2
    /\ bill' = [bill EXCEPT ![current] = @ + 1]
    /\ EndCall(FALSE, 0)
    /\ UNCHANGED <<sent, performed>>

\* No connection, 400 or above without a hint, or an answer with nothing in it.
FailToAsk ==
    /\ parent = "asking"
    /\ EndCall(FALSE, 0) /\ UNCHANGED serverVars

\* The model may have been answering all the same.
ModelTimesOut ==
    /\ parent = "asking" /\ now >= callBy
    /\ \E charged \in {0, 1} : bill' = [bill EXCEPT ![current] = @ + charged]
    /\ EndCall(FALSE, 0)
    /\ UNCHANGED <<sent, performed>>

\* on_step: insert_step and its commit.
JournalStep ==
    /\ parent = "journaling"
    /\ journal' = Append(journal, steps[Len(steps)])
    /\ parent' = "answering"
    /\ UNCHANGED <<now, childVars, pipeVars, deadline, callVars, serverVars, steps, endVars>>

\* The database stays locked for longer than busy_timeout.
FailToJournal ==
    /\ "journal" \in Faults
    /\ parent = "journaling"
    /\ LeaveServe("raised")
    /\ UNCHANGED <<now, childVars, pipeVars, deadline, callVars, serverVars, stepVars, report>>

\* stdin.write and drain.  Whether a dead child is noticed here is a race.
Answer ==
    /\ parent = "answering"
    /\ \/ parent' = "reading" /\ UNCHANGED outcome
       \/ ~Alive /\ LeaveServe("raised")
    /\ down' = IF Alive THEN Append(down, current) ELSE down
    /\ current' = 0
    /\ UNCHANGED <<now, childVars, up, deadline, callBy, question, good, serverVars, stepVars, report>>

\* The finally clause: kill, then wait.
Terminate ==
    /\ parent = "closing"
    /\ parent' = "leaving"
    /\ child' = "exited"
    /\ up' = <<>> /\ down' = <<>>
    /\ UNCHANGED <<now, asked, heard, deadline, callVars, serverVars, stepVars, endVars>>

\* open_sessions is left and execute() concludes.  Anything run_code raised
\* is taken for a server that would not talk.
Conclude ==
    /\ parent = "leaving"
    /\ parent' = "over"
    /\ report' \in CASE outcome = "raised" -> {"connector-unreachable"}
                     [] outcome = "completed" -> {"completed", "invalid-output"}
                     [] outcome = "cancelled" -> {"none"}
                     [] OTHER -> {"workflow-failed"}
    /\ UNCHANGED <<now, childVars, pipeVars, deadline, callVars, serverVars, stepVars, outcome>>

\* A session raises on its way out: so is that, whatever the run came to.
FailToClose ==
    /\ "close" \in Faults
    /\ parent = "leaving"
    /\ parent' = "over"
    /\ report' = "connector-unreachable"
    /\ UNCHANGED <<now, childVars, pipeVars, deadline, callVars, serverVars, stepVars, outcome>>

\* CancelledError at an await.  No `except Exception` stops it; the finally
\* clause has killed the child before it can be interrupted itself.
Cancel ==
    /\ "cancel" \in Faults
    /\ \/ parent \in {"reading", "calling", "asking", "answering"} /\ parent' = "closing"
       \/ parent \in {"opening", "leaving"} /\ parent' = "over"
    /\ outcome' = "cancelled"
    /\ UNCHANGED <<now, childVars, pipeVars, deadline, callVars, serverVars, stepVars, report>>

\* The process is killed: both pipes are closed and nobody kills the child.
Crash ==
    /\ "crash" \in Faults
    /\ InServe \/ parent \in {"opening", "closing", "leaving"}
    /\ parent' = "gone"
    /\ up' = <<>> /\ down' = <<>>
    /\ UNCHANGED <<now, childVars, deadline, callVars, serverVars, stepVars, endVars>>

-----------------------------------------------------------------------------
(* The child: Channel.call and main.                                       *)

\* The arguments are not JSON: the id is used up, nothing is written, and the
\* workflow may catch the error and go on.
AskInVain ==
    /\ child = "running"
    /\ asked < MaxCalls
    /\ asked' = asked + 1
    /\ UNCHANGED <<now, child, heard, pipeVars, parent, deadline, callVars, serverVars,
                   stepVars, endVars>>

\* The request is written and the child blocks in _read.
Ask(kind, fits) ==
    /\ child = "running" /\ parent # "gone"
    /\ asked < MaxCalls
    /\ asked' = asked + 1
    /\ up' = Append(up, Request(kind, asked', fits))
    /\ child' = "waiting"
    /\ UNCHANGED <<now, heard, down, parent, deadline, callVars, serverVars, stepVars, endVars>>

\* The next line is the answer.  An error may be caught by the workflow.
Hear ==
    /\ child = "waiting"
    /\ down # <<>>
    /\ heard' = [asked |-> asked, got |-> Head(down)]
    /\ down' = Tail(down)
    /\ child' = "running"
    /\ UNCHANGED <<now, asked, up, parent, deadline, callVars, serverVars, stepVars, endVars>>

\* run() returned or raised: main reports it and the process exits.
Finish(how, fits) ==
    /\ child = "running" /\ parent # "gone"
    /\ up' = Append(up, Finished(how, fits))
    /\ child' = "exited"
    /\ UNCHANGED <<now, asked, heard, down, parent, deadline, callVars, serverVars, stepVars, endVars>>

\* Killed, out of memory, or its report could not be written.
Die ==
    /\ "child" \in Faults
    /\ Alive
    /\ child' = "exited"
    /\ UNCHANGED <<now, asked, heard, pipeVars, parent, deadline, callVars, serverVars, stepVars, endVars>>

\* "the Runlace process closed the connection", now or at the next write.
SeeParentGone ==
    /\ parent = "gone" /\ Alive
    /\ child' = "exited"
    /\ UNCHANGED <<now, asked, heard, pipeVars, parent, deadline, callVars, serverVars, stepVars, endVars>>

-----------------------------------------------------------------------------
(* The MCP server and the clock.                                           *)

\* A call takes effect, perhaps after the parent gave up on it.
Perform(i) ==
    /\ i \in sent \ performed
    /\ performed' = performed \cup {i}
    /\ UNCHANGED <<now, childVars, pipeVars, parent, deadline, callVars, sent, bill, stepVars, endVars>>

\* Timers fire on time, and the parent's own statements take none.
Tick ==
    /\ now < MaxTime
    /\ \/ parent = "reading" /\ now < deadline
       \/ parent \in {"calling", "asking"} /\ now < callBy
    /\ now' = now + 1
    /\ UNCHANGED <<childVars, pipeVars, parent, deadline, callVars, serverVars, stepVars, endVars>>

ParentStep ==
    \/ OpenAndSpawn \/ FailToOpen \/ TimeOut \/ ReadLine \/ SeeChildGone
    \/ SendCall \/ RefuseCall \/ GetResult \/ GetError \/ CallTimesOut
    \/ Consult \/ FailToResolve \/ DropHint \/ AnswerWell \/ AskAgain
    \/ GiveUpOnShape \/ FailToAsk \/ ModelTimesOut
    \/ JournalStep \/ FailToJournal \/ Answer \/ Terminate \/ Conclude
    \/ FailToClose \/ Cancel \/ Crash

ChildStep ==
    \/ \E kind \in Kinds, fits \in BOOLEAN : Ask(kind, fits)
    \/ AskInVain \/ Hear
    \/ \E how \in {"completed", "failed"}, fits \in BOOLEAN : Finish(how, fits)
    \/ Die \/ SeeParentGone

BridgeNext == ParentStep \/ ChildStep \/ (\E i \in sent : Perform(i)) \/ Tick

BridgeSpec == BridgeInit /\ [][BridgeNext]_bridgeVars

\* The parent's event loop runs and its timers fire.  Nothing is asked of the
\* child, which may loop for ever, or of the server, which may never answer.
BridgeFairness ==
    /\ WF_bridgeVars(OpenAndSpawn) /\ WF_bridgeVars(TimeOut) /\ WF_bridgeVars(ReadLine)
    /\ WF_bridgeVars(SendCall) /\ WF_bridgeVars(CallTimesOut) /\ WF_bridgeVars(JournalStep)
    /\ WF_bridgeVars(Consult) /\ WF_bridgeVars(ModelTimesOut)
    /\ WF_bridgeVars(Answer) /\ WF_bridgeVars(Terminate) /\ WF_bridgeVars(Conclude)
    /\ WF_bridgeVars(Tick)

BridgeFairSpec == BridgeSpec /\ BridgeFairness

-----------------------------------------------------------------------------
BridgeTypeOK ==
    /\ now \in 0..MaxTime
    /\ child \in ChildPcs /\ asked \in 0..MaxCalls
    /\ heard \in [asked : 0..MaxCalls, got : 0..MaxCalls]
    /\ up \in Seq(Messages) /\ down \in Seq(1..MaxCalls)
    /\ parent \in ParentPcs
    /\ deadline \in Nat /\ current \in 0..MaxCalls /\ callBy \in Nat /\ good \in BOOLEAN
    /\ question \in Questions
    /\ sent \subseteq 1..MaxCalls /\ performed \subseteq sent
    /\ bill \in [1..MaxCalls -> 0..2]
    /\ steps \in Seq(StepRows) /\ journal \in Seq(StepRows)
    /\ outcome \in Outcomes /\ report \in Reports

(* The answer a call takes is its own (runner_shim.py:104: the next line   *)
(* is the answer, no id is compared, and ids are used up by calls that are *)
(* never sent): at any time one party has the ball, and nothing the child  *)
(* did not ask for is on its way to it.                                    *)
LockStep ==
    /\ Len(up) + Len(down) <= 1
    /\ heard.got = heard.asked
    /\ Alive /\ parent \in {"calling", "asking"} => child = "waiting" /\ current = asked

(* The journal is complete: a call that reached a server, or that the      *)
(* model charged for, has its row, but for the one in hand, and rows are   *)
(* numbered in the order of the calls.  A killed or cancelled run leaves   *)
(* at most one side effect untold, and a result is in the database before  *)
(* the workflow can act on it (runs.py:373-390, db.py:427).                *)
JournalTellsAll ==
    /\ (sent \cup {i \in DOMAIN bill : bill[i] > 0}) \ Ids(journal) \subseteq {current}
    /\ \A k \in DOMAIN journal : journal[k].seq = k
    /\ \A j, k \in DOMAIN journal : j < k => journal[j].id < journal[k].id

(* What a successful step cost is in its row: the tokens of every answer   *)
(* it was charged for, and never of more than two ("one rather than        *)
(* several", ai.py:154-160, ai.py:205).                                    *)
CostIsTold ==
    /\ \A k \in DOMAIN steps : steps[k].ok => steps[k].tokens = bill[steps[k].id]
    /\ \A i \in DOMAIN bill : bill[i] <= 2

(* The steps the caller is told of are the steps in the journal.           *)
ToldIsJournaled ==
    report \in {"completed", "workflow-failed", "invalid-output"} => steps = journal

(* The journal, and what is told from it, is what happened.                *)
JournalIsTrue == BridgeTypeOK /\ JournalTellsAll /\ CostIsTold /\ ToldIsJournaled

(* No way out of run_code, cancellation included, leaves the workflow's    *)
(* process behind to ask for more (runner.py:256).                         *)
ChildIsGone == parent \in {"leaving", "over"} => ~Alive

(* The run is over no later than one call after its deadline, one request  *)
(* to the model being asked at most four times: the deadline is the run's, *)
(* not a line's (runner.py:36-41).                                         *)
OverrunIsBounded ==
    InServe => \E last \in {ToolTimeout, 4 * ModelTimeout} : now <= RunTimeout + last

(* No call leaves after the deadline, nor once the run's end is decided;   *)
(* and no first question to the model does.                                *)
LeavesInTime ==
    \/ \E i \in sent' : i \notin sent
    \/ parent = "consulting" /\ parent' = "asking"
    => now < deadline /\ outcome = "none"

(* The deadline is one for the whole run: what can still leave is decided  *)
(* by it, and what has left is waited for once (runner.py:214-220).        *)
DeadlineHolds == [][OverrunIsBounded' /\ LeavesInTime]_bridgeVars

(* A workflow that loops for ever, or a server that never answers, does    *)
(* not hang the caller (runner.py:36-41), unless its own process is killed.*)
ExecutionEnds == (parent = "reading") ~> (parent \in {"over", "gone"})

(* An execution is a ledger of its calls: each step of it is one of the    *)
(* ledger or none.  What the caller is told are run_code's steps.          *)
Ledger == INSTANCE CallLedger WITH
    Calls <- 1..MaxCalls, Rows <- StepRows,
    open <- InServe \/ parent = "opening", hand <- current,
    left <- sent, done <- performed, cost <- bill, rows <- journal,
    known <- heard.got,
    told <- IF report \in {"completed", "workflow-failed", "invalid-output"} THEN {steps} ELSE {}

(* One call at a time, its row before its answer, nothing that left kept   *)
(* from whoever is told, whatever dies, times out, is cancelled or cannot  *)
(* be written, and in whatever order (runs.py:373-390, runner.py:204-258). *)
ImplementsLedger == Ledger!LedgerSpec

-----------------------------------------------------------------------------
(* "Every session is opened up front rather than on first use, so a server *)
(* that is down fails the run before any workflow code has executed and    *)
(* before any side effect has happened." (sessions.py:5): a run reported   *)
(* as connector-unreachable has no step that went through.                 *)
UnreachableMeansUntouched ==
    report = "connector-unreachable" => \A k \in DOMAIN steps : ~steps[k].ok
=============================================================================
