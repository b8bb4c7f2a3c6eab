------------------------------ MODULE RunQueue ------------------------------
(***************************************************************************)
(* The `runs` table of one Runlace home, seen as a queue, and everybody    *)
(* who moves a row of it:                                                  *)
(*                                                                         *)
(*   - callers, one per run: `run_workflow` passes the gates (`admit`),    *)
(*     then executes the run itself or waits for a daemon to do it;        *)
(*   - daemons: `Worker.drain` claims queued runs, executes them           *)
(*     concurrently, expires parked ones, stops, crashes, comes back;      *)
(*   - answerers: the developer's product calling `approve` or `reject`.   *)
(*                                                                         *)
(* One action is one statement (or one transaction) on the database, so    *)
(* that everything another process can do between two of them is here.     *)
(* Which daemon holds the drain lock is left open: `live` is any answer    *)
(* `has_live_worker` can give, and any number of daemons may drain.  The   *)
(* queue has to be safe without the lock; module RunlaceHome adds it.      *)
(***************************************************************************)
EXTENDS Integers, FiniteSets

CONSTANTS
    Runs,          \* run ids
    Requests,      \* what callers may ask for; see RequestType
    Workers,       \* daemons of this home (`runlace serve --http`)
    Answerers,     \* processes that call approve() / reject()
    Inline,        \* the executor standing for every caller's own process
    NoRun,         \* what a worker has selected between two claims
    Nobody,        \* what an answerer is deciding between two answers
    Concurrency,   \* Worker.concurrency
    Ttl,           \* approval_ttl_seconds, in ticks of the clock
    MaxTime,       \* bound on the clock, for model checking
    Faults         \* which of FaultKinds may happen

\* crash: any process is killed.  abandon: a task ends without finishing its
\* row.  stop: a daemon is told to stop, and stops in order.
FaultKinds == {"crash", "abandon", "stop"}

(* What the gates read about one call of run_workflow before they write    *)
(* anything: whether the workflow, its inputs and its pinned tools are in  *)
(* order (flaw), the caller's flags, the developer's approval mode (ask),  *)
(* whether side_effects_of() named any tool (acts), and whether the caller *)
(* waits for ever (wait=None).                                             *)
Flaws == {"none", "unknown-workflow", "invalid-inputs", "schema-drift"}

RequestType ==
    [flaw: Flaws, confirm: BOOLEAN, dry: BOOLEAN, ask: BOOLEAN,
     acts: BOOLEAN, forever: BOOLEAN]

ASSUME RequestAssumption == Requests \subseteq RequestType
ASSUME ActorAssumption ==
    /\ Inline \notin Workers
    /\ NoRun \notin Runs
    /\ Nobody \notin {"approve", "reject"} \X Runs
ASSUME BoundAssumption ==
    /\ Concurrency \in Nat \ {0}
    /\ Ttl \in Nat
    /\ MaxTime \in Nat
    /\ Faults \subseteq FaultKinds

VARIABLES
    now,           \* the wall clock, in ticks
    status,        \* runs.status, "absent" before insert_run
    startedAt,     \* runs.started_at
    queuedAt,      \* runs.queued_at
    approved,      \* runs.approved_at IS NOT NULL
    req,           \* the call each run comes from
    handed,        \* run_workflow's local handed_over
    caller,        \* where the call of run_workflow stands
    answer,        \* what it returned
    phase,         \* where each daemon's drain() stands
    selected,      \* the run claim_queued_run has SELECTed and not yet taken
    expiring,      \* the runs expire() has SELECTed and not yet closed
    claimed,       \* tasks created, workflow code not started
    executing,     \* workflow code running
    deciding,      \* the approve()/reject() past its _parked() test
    told,          \* history: the approve()/reject() calls answered ok
    starts,        \* history: how often the run's code was started
    acted          \* history: the run really performed a side effect

rowVars    == <<status, startedAt, queuedAt, approved>>
callerVars == <<req, handed, caller, answer>>
workerVars == <<phase, selected, expiring>>
execVars   == <<claimed, executing>>
answerVars == <<deciding, told>>
history    == <<starts, acted>>
vars == <<now, rowVars, callerVars, workerVars, execVars, answerVars, history>>

-----------------------------------------------------------------------------
\* queue.py:38-52
Terminal == {"completed", "failed", "rejected", "expired"}
Statuses == {"absent", "running", "queued", "awaiting_approval"} \cup Terminal

Verbs     == {"approve", "reject"}
Executors == Workers \cup {Inline}
Phases    == {"off", "standby", "draining", "stopping"}
CallerPcs == {"idle", "looked", "opened", "inline", "waiting", "answered", "dead"}
Answers   == {"none", "refused", "awaiting_approval", "not-finished"} \cup Terminal

\* Bugs this code could have had.  Nothing below uses these definitions: each is
\* put in the place of the one it names to see a property fail.
NeedsHumanInverted(q) == q.acts /\ ~q.confirm /\ q.dry /\ q.ask
StaleParkedInverted == {r \in Runs : status[r] = "awaiting_approval" /\ startedAt[r] >= now - Ttl}
DropKeepingSlot(e, r) == claimed' = [claimed EXCEPT ![e] = @ \ {r}] /\ UNCHANGED executing

\* Gate 3 of admit: this call may not proceed on the agent's word alone.
NeedsHuman(q) == q.acts /\ ~q.confirm /\ ~q.dry /\ q.ask

\* What the gates turn away with a row marked failed.
TurnedAway(r) ==
    \/ req[r].flaw # "none"
    \/ NeedsHuman(req[r]) /\ ~handed[r]

Held(e) == claimed[e] \cup executing[e]

\* A daemon's loop body runs without an await: while it is between two of its
\* own statements none of its tasks moves and it does not look at `stop`.
Busy(e) == e \in Workers /\ (selected[e] # NoRun \/ expiring[e] # {})

\* ORDER BY queued_at LIMIT 1.  rowid settles a tie within one second; which
\* of two rows was inserted first is not kept, so either may come first.
OldestQueued ==
    {r \in Runs : /\ status[r] = "queued"
                  /\ \A s \in Runs : status[s] = "queued" => queuedAt[r] <= queuedAt[s]}

\* list_parked_runs with a cutoff: parked, and opened longer than Ttl ago.
StaleParked == {r \in Runs : status[r] = "awaiting_approval" /\ startedAt[r] < now - Ttl}

\* UPDATE runs SET status = to WHERE id = r AND status = from
UpdateStatus(r, from, to) ==
    status' = IF status[r] = from THEN [status EXCEPT ![r] = to] ELSE status

\* The caller's call is over and returned `what`.
Return(r, what) ==
    /\ caller' = [caller EXCEPT ![r] = "answered"]
    /\ answer' = [answer EXCEPT ![r] = what]

\* A task is over, or gone: it holds no slot any more.
Drop(e, r) ==
    /\ claimed' = [claimed EXCEPT ![e] = @ \ {r}]
    /\ executing' = [executing EXCEPT ![e] = @ \ {r}]

-----------------------------------------------------------------------------
Init ==
    /\ now = 0
    /\ status = [r \in Runs |-> "absent"]
    /\ startedAt = [r \in Runs |-> 0]
    /\ queuedAt = [r \in Runs |-> 0]
    /\ approved = [r \in Runs |-> FALSE]
    /\ req \in [Runs -> Requests]
    /\ handed = [r \in Runs |-> FALSE]
    /\ caller = [r \in Runs |-> "idle"]
    /\ answer = [r \in Runs |-> "none"]
    /\ phase = [w \in Workers |-> "off"]
    /\ selected = [w \in Workers |-> NoRun]
    /\ expiring = [w \in Workers |-> {}]
    /\ claimed = [e \in Executors |-> {}]
    /\ executing = [e \in Executors |-> {}]
    /\ deciding = [a \in Answerers |-> Nobody]
    /\ told = {}
    /\ starts = [r \in Runs |-> 0]
    /\ acted = [r \in Runs |-> FALSE]

-----------------------------------------------------------------------------
\* More bugs this code could have had, in whole actions; not part of Next.

\* A lost daemon's runs are put back in line.
CrashAndRequeue(w) ==
    /\ "crash" \in Faults
    /\ phase[w] # "off"
    /\ phase' = [phase EXCEPT ![w] = "off"]
    /\ selected' = [selected EXCEPT ![w] = NoRun]
    /\ expiring' = [expiring EXCEPT ![w] = {}]
    /\ status' = [r \in Runs |-> IF r \in Held(w) THEN "queued" ELSE status[r]]
    /\ claimed' = [claimed EXCEPT ![w] = {}]
    /\ executing' = [executing EXCEPT ![w] = {}]
    /\ UNCHANGED <<now, startedAt, queuedAt, approved, callerVars, answerVars, history>>

\* The loop tests for a free slot with <= .
ClaimSelectOneMore(w) ==
    /\ phase[w] = "draining"
    /\ ~Busy(w)
    /\ Cardinality(Held(w)) <= Concurrency
    /\ \E r \in OldestQueued : selected' = [selected EXCEPT ![w] = r]
    /\ UNCHANGED <<now, rowVars, callerVars, phase, expiring, execVars, answerVars, history>>

\* The claim trusts the row it SELECTed.
ClaimUpdateTrusting(w) ==
    LET r == selected[w] IN
    /\ r # NoRun
    /\ selected' = [selected EXCEPT ![w] = NoRun]
    /\ status' = [status EXCEPT ![r] = "running"]
    /\ claimed' = [claimed EXCEPT ![w] = @ \cup {r}]
    /\ UNCHANGED <<now, startedAt, queuedAt, approved, callerVars, phase, expiring,
                   executing, answerVars, history>>

\* close_parked_run closes whatever list_parked_runs found a moment ago.
ExpireCloseTrusting(w) ==
    /\ expiring[w] # {}
    /\ status' = [r \in Runs |-> IF r \in expiring[w] THEN "expired" ELSE status[r]]
    /\ expiring' = [expiring EXCEPT ![w] = {}]
    /\ UNCHANGED <<now, startedAt, queuedAt, approved, callerVars, phase, selected,
                   execVars, answerVars, history>>

-----------------------------------------------------------------------------
(* The caller: run_workflow and admit.                                     *)

\* handed_over = ... has_live_worker(conn).  An injected call_tool forces FALSE.
Look(r, live) ==
    /\ caller[r] = "idle"
    /\ caller' = [caller EXCEPT ![r] = "looked"]
    /\ handed' = [handed EXCEPT ![r] = live]
    /\ UNCHANGED <<now, rowVars, req, answer, workerVars, execVars, answerVars, history>>

\* No such workflow or version, or its code is gone: answered without a row.
AnswerUnknown(r) ==
    /\ caller[r] = "looked"
    /\ req[r].flaw = "unknown-workflow"
    /\ Return(r, "refused")
    /\ UNCHANGED <<now, rowVars, req, handed, workerVars, execVars, answerVars, history>>

\* insert_run: the row is opened as `running` whatever the gates will say.
OpenRun(r) ==
    /\ caller[r] = "looked"
    /\ req[r].flaw # "unknown-workflow"
    /\ status' = [status EXCEPT ![r] = "running"]
    /\ startedAt' = [startedAt EXCEPT ![r] = now]
    /\ caller' = [caller EXCEPT ![r] = "opened"]
    /\ UNCHANGED <<now, queuedAt, approved, req, handed, answer, workerVars,
                   execVars, answerVars, history>>

\* Gates 1, 2 and, without a daemon, 3: _fail closes the row.
RefuseRun(r) ==
    /\ caller[r] = "opened"
    /\ TurnedAway(r)
    /\ status' = [status EXCEPT ![r] = "failed"]
    /\ Return(r, "failed")
    /\ UNCHANGED <<now, startedAt, queuedAt, approved, req, handed, workerVars,
                   execVars, answerVars, history>>

\* Gate 3 with a daemon to come back to: park_run.
ParkRun(r) ==
    /\ caller[r] = "opened"
    /\ ~TurnedAway(r)
    /\ NeedsHuman(req[r])
    /\ UpdateStatus(r, "running", "awaiting_approval")
    /\ Return(r, "awaiting_approval")
    /\ UNCHANGED <<now, startedAt, queuedAt, approved, req, handed, workerVars,
                   execVars, answerVars, history>>

\* Every gate passed and a daemon was seen: enqueue_run, then _wait_for.
EnqueueRun(r) ==
    /\ caller[r] = "opened"
    /\ ~TurnedAway(r)
    /\ ~NeedsHuman(req[r])
    /\ handed[r]
    /\ UpdateStatus(r, "running", "queued")
    /\ queuedAt' = IF status[r] = "running" THEN [queuedAt EXCEPT ![r] = now] ELSE queuedAt
    /\ caller' = [caller EXCEPT ![r] = "waiting"]
    /\ UNCHANGED <<now, startedAt, approved, req, handed, answer, workerVars,
                   execVars, answerVars, history>>

\* Every gate passed and nobody drains: this process executes the run itself.
AdmitInline(r) ==
    /\ caller[r] = "opened"
    /\ ~TurnedAway(r)
    /\ ~handed[r]
    /\ claimed' = [claimed EXCEPT ![Inline] = @ \cup {r}]
    /\ caller' = [caller EXCEPT ![r] = "inline"]
    /\ UNCHANGED <<now, rowVars, req, handed, answer, workerVars, executing,
                   answerVars, history>>

\* _wait_for sees the run over and reports the row.
SeeItOver(r) ==
    /\ caller[r] = "waiting"
    /\ status[r] \in Terminal
    /\ Return(r, status[r])
    /\ UNCHANGED <<now, rowVars, req, handed, workerVars, execVars, answerVars, history>>

\* The caller's `wait` runs out first.  wait=None never does.
StopWaiting(r) ==
    /\ caller[r] = "waiting"
    /\ ~req[r].forever
    /\ Return(r, "not-finished")
    /\ UNCHANGED <<now, rowVars, req, handed, workerVars, execVars, answerVars, history>>

\* The caller's process dies, and what it was executing with it.
CrashCaller(r) ==
    /\ "crash" \in Faults
    /\ caller[r] \in {"looked", "opened", "inline", "waiting"}
    /\ caller' = [caller EXCEPT ![r] = "dead"]
    /\ claimed' = [claimed EXCEPT ![Inline] = @ \ {r}]
    /\ executing' = [executing EXCEPT ![Inline] = @ \ {r}]
    /\ UNCHANGED <<now, rowVars, req, handed, answer, workerVars, answerVars, history>>

-----------------------------------------------------------------------------
(* Execution: `execute`, in a caller's process (Inline) or a daemon task.  *)

\* finish_run carries no test of the status it overwrites.
FinishRun(r, outcome) == status' = [status EXCEPT ![r] = outcome]

\* execute() returned to run_workflow, which returns to the caller.
HandBack(e, r, outcome) ==
    IF e = Inline THEN Return(r, outcome) ELSE UNCHANGED <<caller, answer>>

\* The run is rebuilt from its row, its servers answer, its code starts.
Begin(e, r) ==
    /\ r \in claimed[e]
    /\ ~Busy(e)
    /\ claimed' = [claimed EXCEPT ![e] = @ \ {r}]
    /\ executing' = [executing EXCEPT ![e] = @ \cup {r}]
    /\ starts' = [starts EXCEPT ![r] = @ + 1]
    /\ UNCHANGED <<now, rowVars, callerVars, workerVars, answerVars, acted>>

\* A connector is no longer configured, or its server does not answer.
RefuseToStart(e, r) ==
    /\ r \in claimed[e]
    /\ ~Busy(e)
    /\ FinishRun(r, "failed")
    /\ Drop(e, r)
    /\ HandBack(e, r, "failed")
    /\ UNCHANGED <<now, startedAt, queuedAt, approved, req, handed, workerVars,
                   answerVars, history>>

\* A side-effecting tool is really called; a dry run gets a stand-in instead.
Act(e, r) ==
    /\ r \in executing[e]
    /\ ~Busy(e)
    /\ req[r].acts
    /\ ~req[r].dry
    /\ acted' = [acted EXCEPT ![r] = TRUE]
    /\ UNCHANGED <<now, rowVars, callerVars, workerVars, execVars, answerVars, starts>>

\* The code returned, raised, died or timed out, and its output was checked.
Finish(e, r) ==
    /\ r \in executing[e]
    /\ ~Busy(e)
    /\ \E outcome \in {"completed", "failed"} :
          /\ FinishRun(r, outcome)
          /\ HandBack(e, r, outcome)
    /\ Drop(e, r)
    /\ UNCHANGED <<now, startedAt, queuedAt, approved, req, handed, workerVars,
                   answerVars, history>>

\* The version or its code cannot be read back, or execute() raised (a locked
\* database, an unreadable policy): logged, and the row is left as it is.
Abandon(e, r) ==
    /\ "abandon" \in Faults
    /\ r \in Held(e)
    /\ ~Busy(e)
    /\ Drop(e, r)
    /\ caller' = IF e = Inline THEN [caller EXCEPT ![r] = "dead"] ELSE caller
    /\ UNCHANGED <<now, rowVars, req, handed, answer, workerVars, answerVars, history>>

-----------------------------------------------------------------------------
(* The daemon: Worker.drain and Worker._loop.                              *)

\* drain() got the queue lock and enters its loop ...
StartDraining(w) ==
    /\ phase[w] = "off"
    /\ phase' = [phase EXCEPT ![w] = "draining"]
    /\ UNCHANGED <<now, rowVars, callerVars, selected, expiring, execVars, answerVars, history>>

\* ... or did not, and returns: this server answers questions only.
StandBy(w) ==
    /\ phase[w] = "off"
    /\ phase' = [phase EXCEPT ![w] = "standby"]
    /\ UNCHANGED <<now, rowVars, callerVars, selected, expiring, execVars, answerVars, history>>

\* stop.set(), seen at the top of the loop.
Stop(w) ==
    /\ "stop" \in Faults
    /\ \/ phase[w] = "draining" /\ ~Busy(w) /\ phase' = [phase EXCEPT ![w] = "stopping"]
       \/ phase[w] = "standby" /\ phase' = [phase EXCEPT ![w] = "off"]
    /\ UNCHANGED <<now, rowVars, callerVars, selected, expiring, execVars, answerVars, history>>

\* gather(*running): drain() returns only when its last task has.
Exit(w) ==
    /\ phase[w] = "stopping"
    /\ Held(w) = {}
    /\ phase' = [phase EXCEPT ![w] = "off"]
    /\ UNCHANGED <<now, rowVars, callerVars, selected, expiring, execVars, answerVars, history>>

\* The daemon is killed.  Its tasks are gone, and no row says so.
CrashWorker(w) ==
    /\ "crash" \in Faults
    /\ phase[w] # "off"
    /\ phase' = [phase EXCEPT ![w] = "off"]
    /\ selected' = [selected EXCEPT ![w] = NoRun]
    /\ expiring' = [expiring EXCEPT ![w] = {}]
    /\ claimed' = [claimed EXCEPT ![w] = {}]
    /\ executing' = [executing EXCEPT ![w] = {}]
    /\ UNCHANGED <<now, rowVars, callerVars, answerVars, history>>

\* claim_queued_run, the SELECT: with a free slot, the oldest queued run.
ClaimSelect(w) ==
    /\ phase[w] = "draining"
    /\ ~Busy(w)
    /\ Cardinality(Held(w)) < Concurrency
    /\ \E r \in OldestQueued : selected' = [selected EXCEPT ![w] = r]
    /\ UNCHANGED <<now, rowVars, callerVars, phase, expiring, execVars, answerVars, history>>

\* claim_queued_run, the UPDATE: it carries its own status = 'queued' test.
ClaimUpdate(w) ==
    LET r == selected[w] IN
    /\ r # NoRun
    /\ selected' = [selected EXCEPT ![w] = NoRun]
    /\ UpdateStatus(r, "queued", "running")
    /\ claimed' = IF status[r] = "queued" THEN [claimed EXCEPT ![w] = @ \cup {r}] ELSE claimed
    /\ UNCHANGED <<now, startedAt, queuedAt, approved, callerVars, phase, expiring,
                   executing, answerVars, history>>

\* expire(), list_parked_runs: what has been parked longer than the window.
ExpireSelect(w) ==
    /\ phase[w] = "draining"
    /\ ~Busy(w)
    /\ StaleParked # {}
    /\ expiring' = [expiring EXCEPT ![w] = StaleParked]
    /\ UNCHANGED <<now, rowVars, callerVars, phase, selected, execVars, answerVars, history>>

\* expire(), close_parked_run for each, in one transaction.
ExpireClose(w) ==
    /\ expiring[w] # {}
    /\ status' = [r \in Runs |-> IF r \in expiring[w] /\ status[r] = "awaiting_approval"
                                 THEN "expired" ELSE status[r]]
    /\ expiring' = [expiring EXCEPT ![w] = {}]
    /\ UNCHANGED <<now, startedAt, queuedAt, approved, callerVars, phase, selected,
                   execVars, answerVars, history>>

-----------------------------------------------------------------------------
(* The answerer: queue.approve and queue.reject.                           *)

\* A bug this code could have had: any run that is not over yet can be answered.
SeeItPending(a, verb, r) ==
    /\ deciding[a] = Nobody
    /\ status[r] \in {"awaiting_approval", "queued"}
    /\ deciding' = [deciding EXCEPT ![a] = <<verb, r>>]
    /\ UNCHANGED <<now, rowVars, callerVars, workerVars, execVars, told, history>>

\* _parked() found the run waiting.  Otherwise the call returns ok=False.
SeeItParked(a, verb, r) ==
    /\ deciding[a] = Nobody
    /\ status[r] = "awaiting_approval"
    /\ deciding' = [deciding EXCEPT ![a] = <<verb, r>>]
    /\ UNCHANGED <<now, rowVars, callerVars, workerVars, execVars, told, history>>

\* approve_run: its UPDATE is guarded, its result is not looked at.
Approve(a, r) ==
    /\ deciding[a] = <<"approve", r>>
    /\ UpdateStatus(r, "awaiting_approval", "queued")
    /\ IF status[r] = "awaiting_approval"
         THEN /\ queuedAt' = [queuedAt EXCEPT ![r] = now]
              /\ approved' = [approved EXCEPT ![r] = TRUE]
         ELSE UNCHANGED <<queuedAt, approved>>
    /\ deciding' = [deciding EXCEPT ![a] = Nobody]
    /\ told' = told \cup {<<"approve", r>>}
    /\ UNCHANGED <<now, startedAt, callerVars, workerVars, execVars, history>>

\* close_parked_run(REJECTED): likewise.
Reject(a, r) ==
    /\ deciding[a] = <<"reject", r>>
    /\ UpdateStatus(r, "awaiting_approval", "rejected")
    /\ deciding' = [deciding EXCEPT ![a] = Nobody]
    /\ told' = told \cup {<<"reject", r>>}
    /\ UNCHANGED <<now, startedAt, queuedAt, approved, callerVars, workerVars,
                   execVars, history>>

Tick ==
    /\ now < MaxTime
    /\ now' = now + 1
    /\ UNCHANGED <<rowVars, callerVars, workerVars, execVars, answerVars, history>>

-----------------------------------------------------------------------------
CallerStep(r) ==
    \/ \E live \in BOOLEAN : Look(r, live)
    \/ AnswerUnknown(r) \/ OpenRun(r) \/ RefuseRun(r) \/ ParkRun(r)
    \/ EnqueueRun(r) \/ AdmitInline(r) \/ SeeItOver(r) \/ StopWaiting(r)
    \/ CrashCaller(r)

ExecutorStep(e, r) ==
    Begin(e, r) \/ RefuseToStart(e, r) \/ Act(e, r) \/ Finish(e, r) \/ Abandon(e, r)

WorkerStep(w) ==
    \/ StartDraining(w) \/ StandBy(w) \/ Stop(w) \/ Exit(w) \/ CrashWorker(w)
    \/ ClaimSelect(w) \/ ClaimUpdate(w) \/ ExpireSelect(w) \/ ExpireClose(w)

AnswererStep(a) ==
    \/ \E verb \in Verbs, r \in Runs : SeeItParked(a, verb, r)
    \/ \E r \in Runs : Approve(a, r) \/ Reject(a, r)

Next ==
    \/ \E r \in Runs : CallerStep(r)
    \/ \E e \in Executors, r \in Runs : ExecutorStep(e, r)
    \/ \E w \in Workers : WorkerStep(w)
    \/ \E a \in Answerers : AnswererStep(a)
    \/ Tick

Spec == Init /\ [][Next]_vars

(* What the code schedules by itself: a call of admit goes on once it has  *)
(* begun; a polling caller polls; a daemon's loop goes round; a started    *)
(* task is driven to its end, which the 300 s deadline of run_code bounds. *)
(* Starting and stopping daemons, answering and giving up are free.        *)
Gates(r) == AnswerUnknown(r) \/ OpenRun(r) \/ RefuseRun(r) \/ ParkRun(r)
            \/ EnqueueRun(r) \/ AdmitInline(r)

Fairness ==
    /\ \A r \in Runs : WF_vars(Gates(r)) /\ WF_vars(SeeItOver(r))
    /\ \A e \in Executors, r \in Runs :
          WF_vars(Begin(e, r) \/ RefuseToStart(e, r)) /\ WF_vars(Finish(e, r))
    /\ \A w \in Workers :
          /\ WF_vars(ClaimSelect(w)) /\ WF_vars(ClaimUpdate(w))
          /\ WF_vars(ExpireSelect(w)) /\ WF_vars(ExpireClose(w)) /\ WF_vars(Exit(w))
    /\ WF_vars(Tick)

FairSpec == Spec /\ Fairness

-----------------------------------------------------------------------------
\* The shape of the state: columns of the row, program counters, histories.
TypeOK ==
    /\ now \in 0..MaxTime
    /\ status \in [Runs -> Statuses]
    /\ startedAt \in [Runs -> 0..MaxTime]
    /\ queuedAt \in [Runs -> 0..MaxTime]
    /\ approved \in [Runs -> BOOLEAN]
    /\ req \in [Runs -> Requests]
    /\ handed \in [Runs -> BOOLEAN]
    /\ caller \in [Runs -> CallerPcs]
    /\ answer \in [Runs -> Answers]
    /\ phase \in [Workers -> Phases]
    /\ selected \in [Workers -> Runs \cup {NoRun}]
    /\ expiring \in [Workers -> SUBSET Runs]
    /\ claimed \in [Executors -> SUBSET Runs]
    /\ executing \in [Executors -> SUBSET Runs]
    /\ deciding \in [Answerers -> (Verbs \X Runs) \cup {Nobody}]
    /\ told \subseteq Verbs \X Runs
    /\ starts \in [Runs -> Nat]
    /\ acted \in [Runs -> BOOLEAN]

(* A run is in the hands of at most one executor, whatever daemons are     *)
(* draining, and its row says `running` as long as it is.  finish_run      *)
(* (db.py:630) overwrites whatever status it finds: this is what makes     *)
(* that safe, and claim_queued_run (db.py:551) is what makes this true.    *)
OneExecutor ==
    \A r \in Runs, e \in Executors :
        r \in Held(e) =>
            /\ status[r] = "running"
            /\ \A f \in Executors : r \in Held(f) => f = e

(* The code of a run is started at most once: not by two daemons, not by a *)
(* caller and a daemon, not again after a crash or an approval             *)
(* (worker.py:15-18, SPEC.md:360-362).                                     *)
StartedAtMostOnce == \A r \in Runs : starts[r] <= 1

(* No real side effect without consent: a run acts only outside a dry run, *)
(* and only if the caller confirmed, or the developer lifted the gate, or  *)
(* a human's approval is on the row (runs.py:302-314, db.py:581).          *)
NothingActsUnapproved ==
    \A r \in Runs : acted[r] =>
        /\ ~req[r].dry
        /\ req[r].confirm \/ ~req[r].ask \/ approved[r]

(* What was turned away at the gates, refused by a human or given up on    *)
(* has not executed and is in nobody's hands: neither the race between     *)
(* approve, reject and expire nor the one between admit and a claim lets   *)
(* it through (runs.py:218-221).                                           *)
RefusedNeverRuns ==
    \A r \in Runs :
        (status[r] \in {"rejected", "expired"} \/ TurnedAway(r)) =>
            /\ starts[r] = 0
            /\ \A e \in Executors : r \notin Held(e)

(* Once an approval is on the row the run goes on: a rejection or an       *)
(* expiry decided on an earlier look at the row cannot take it back.       *)
ApprovalSticks ==
    \A r \in Runs : approved[r] => status[r] \in {"queued", "running", "completed", "failed"}

(* What was decided about a run holds, whoever decides at the same time:   *)
(* turned away, it never runs, and approved, it goes on.                   *)
DecisionsHold == RefusedNeverRuns /\ ApprovalSticks

(* A caller told how its run ended was told what the row says, then and    *)
(* ever after: the inline answer is shaped in memory (runs.py:445-494),    *)
(* the queued one is read back (runs.py:553-558).                          *)
AnswerIsTheRow ==
    \A r \in Runs : answer[r] \in Terminal => status[r] = answer[r]

(* approve and reject do not look at what their UPDATE changed             *)
(* (queue.py:114, queue.py:125), so an ok may be of an answer that came    *)
(* too late.  What an ok still says: a run that was only ever rejected     *)
(* never executes ("It never executes.", queue.py:120), and one that was   *)
(* only ever approved has its approval, unless the clock got there first.  *)
(* Only an approve and a reject of one run that overlap are both told ok.  *)
LoneAnswerHolds ==
    \A r \in Runs :
        /\ <<"reject", r>> \in told /\ <<"approve", r>> \notin told
             => status[r] \in {"rejected", "expired"} /\ starts[r] = 0
        /\ <<"approve", r>> \in told /\ <<"reject", r>> \notin told
             => approved[r] \/ status[r] = "expired"

(* A daemon never has more than Concurrency runs in flight                 *)
(* (worker.py:125-131), even right after a claim it lost to another.       *)
WithinConcurrency ==
    \A w \in Workers : Cardinality(Held(w)) <= Concurrency

(* A run that is over stays as it is: no late finish_run, answer or expiry *)
(* rewrites the outcome in the journal.                                    *)
TerminalIsFinal ==
    [][\A r \in Runs : status[r] \in Terminal => status'[r] = status[r]]_vars

-----------------------------------------------------------------------------
(* Why the invariants above hold: each part rules out one way of reaching  *)
(* a run that is already elsewhere.                                        *)

\* The gates, and a human where one is needed, have let the run through.
Cleared(r) == req[r].flaw = "none" /\ (NeedsHuman(req[r]) => approved[r])

\* Who has a run in hand has it alone, cleared, and past its caller's gates;
\* its code has been started once if it is executing and not before.
InHandInv ==
    \A r \in Runs, e \in Executors :
        /\ r \in Held(e) =>
             /\ status[r] = "running"
             /\ caller[r] \notin {"idle", "looked", "opened"}
             /\ Cleared(r)
             /\ \A f \in Executors : r \in Held(f) => f = e
        /\ r \in claimed[e] => starts[r] = 0
        /\ r \in executing[e] => starts[r] = 1

\* There is no row before the gates open it, and while they decide the row is
\* `running` and nobody else's.
GatesInv ==
    \A r \in Runs :
        /\ caller[r] \in {"idle", "looked"} => status[r] = "absent"
        /\ caller[r] = "opened" => status[r] = "running" /\ starts[r] = 0 /\ ~approved[r]

\* What a row can say about consent and about the past.
RowInv ==
    \A r \in Runs :
        /\ status[r] \notin {"running", "completed", "failed"} => starts[r] = 0
        /\ status[r] = "queued" => Cleared(r)
        /\ status[r] = "awaiting_approval" =>
             req[r].flaw = "none" /\ handed[r] /\ ~approved[r]
        /\ approved[r] =>
             /\ req[r].flaw = "none"
             /\ handed[r]
             /\ status[r] \in {"queued", "running", "completed", "failed"}
        /\ starts[r] <= 1
        /\ starts[r] > 0 => Cleared(r)
        /\ acted[r] => starts[r] > 0 /\ req[r].acts /\ ~req[r].dry

(* The conjunction is inductive: no state that satisfies it, reachable or  *)
(* not, has a step out of it.  It is the strengthening the proofs of       *)
(* RunQueueProofs rest on.                                                 *)
QueueInv == InHandInv /\ GatesInv /\ RowInv /\ AnswerIsTheRow

-----------------------------------------------------------------------------
\* Some daemon drains without interruption from some point on.
SomeDaemonStays == \E w \in Workers : <>[](phase[w] = "draining")

(* If some daemon stays up, a queued run does not wait for ever, whatever  *)
(* other daemons crash with runs in flight: the slots come back.           *)
QueuedIsTaken ==
    SomeDaemonStays => \A r \in Runs : (status[r] = "queued") ~> (status[r] # "queued")

(* A parked run nobody answers does not stay parked once its window is     *)
(* over, if some daemon stays up (queue.py:149).  A run opened less than   *)
(* Ttl before the bound on the clock is outside the model.                 *)
ParkedIsGivenUp ==
    SomeDaemonStays =>
        \A r \in Runs : (status[r] = "awaiting_approval" /\ startedAt[r] < MaxTime - Ttl)
                            ~> (status[r] # "awaiting_approval")

-----------------------------------------------------------------------------
(* The refinement mapping into RunLifecycle.  `running` means three things *)
(* in the table, and only the processes know which: the gates are still    *)
(* deciding, somebody has the run in hand, or nobody does any more.        *)
StageOf(r) ==
    CASE status[r] \in Terminal -> "over"
      [] status[r] = "absent" -> "absent"
      [] status[r] = "queued" -> "in line"
      [] status[r] = "awaiting_approval" -> "parked"
      [] \E e \in Executors : r \in Held(e) -> "in hand"
      [] caller[r] = "opened" -> "deciding"
      [] OTHER -> "lost"

Life == INSTANCE RunLifecycle WITH
    stage   <- [r \in Runs |-> StageOf(r)],
    consent <- approved,
    needs   <- [r \in Runs |-> NeedsHuman(req[r])],
    ran     <- [r \in Runs |-> starts[r] > 0],
    effect  <- acted

(* Every step of callers, daemons and answerers is a step of the run's     *)
(* life, or invisible there: no second claim, no way back from over or     *)
(* lost, no way into the line past a human.                                *)
ImplementsLifecycle == Life!LifeSpec

=============================================================================
