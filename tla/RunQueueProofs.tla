--------------------------- MODULE RunQueueProofs ---------------------------
(***************************************************************************)
(* For any number of runs, daemons and answerers, any concurrency, window  *)
(* and faults: the safety of RunQueue.                                     *)
(***************************************************************************)
EXTENDS RunQueue, FiniteSetTheorems, TLAPS

LEMMA InitTyping == Init => TypeOK
BY BoundAssumption DEF Init, TypeOK, Statuses, CallerPcs, Answers, Phases, Verbs

LEMMA Typing == Spec => []TypeOK
<1>1. Init => TypeOK
  BY InitTyping
<1>2. TypeOK /\ [Next]_vars => TypeOK'
  <2> SUFFICES ASSUME TypeOK, [Next]_vars PROVE TypeOK'
    OBVIOUS
  <2> USE BoundAssumption DEF TypeOK, Statuses, CallerPcs, Answers, Phases, Terminal,
          rowVars, callerVars, workerVars, execVars, answerVars, history
  <2>1. ASSUME NEW r \in Runs, CallerStep(r) PROVE TypeOK'
    <3>1. ASSUME NEW live \in BOOLEAN, Look(r, live) PROVE TypeOK'
      BY <3>1 DEF Look
    <3>2. CASE AnswerUnknown(r)
      BY <3>2 DEF AnswerUnknown, Return
    <3>3. CASE OpenRun(r)
      BY <3>3 DEF OpenRun
    <3>4. CASE RefuseRun(r)
      BY <3>4 DEF RefuseRun, Return
    <3>5. CASE ParkRun(r)
      BY <3>5 DEF ParkRun, Return, UpdateStatus
    <3>6. CASE EnqueueRun(r)
      BY <3>6 DEF EnqueueRun, UpdateStatus
    <3>7. CASE AdmitInline(r)
      BY <3>7 DEF AdmitInline, Executors
    <3>8. CASE SeeItOver(r)
      BY <3>8 DEF SeeItOver, Return
    <3>9. CASE StopWaiting(r)
      BY <3>9 DEF StopWaiting, Return
    <3>10. CASE CrashCaller(r)
      BY <3>10 DEF CrashCaller, Executors
    <3> QED BY <2>1, <3>1, <3>2, <3>3, <3>4, <3>5, <3>6, <3>7, <3>8, <3>9, <3>10 DEF CallerStep
  <2>2. ASSUME NEW e \in Executors, NEW r \in Runs, ExecutorStep(e, r) PROVE TypeOK'
    <3>1. CASE Begin(e, r)
      BY <3>1 DEF Begin
    <3>2. CASE RefuseToStart(e, r)
      BY <3>2 DEF RefuseToStart, Drop, FinishRun, HandBack, Return
    <3>3. CASE Act(e, r)
      BY <3>3 DEF Act
    <3>4. CASE Finish(e, r)
      BY <3>4 DEF Finish, Drop, FinishRun, HandBack, Return
    <3>5. CASE Abandon(e, r)
      BY <3>5 DEF Abandon, Drop
    <3> QED BY <2>2, <3>1, <3>2, <3>3, <3>4, <3>5 DEF ExecutorStep
  <2>3. ASSUME NEW w \in Workers, WorkerStep(w) PROVE TypeOK'
    <3>1. CASE StartDraining(w) \/ StandBy(w) \/ Stop(w) \/ Exit(w)
      BY <3>1 DEF StartDraining, StandBy, Stop, Exit
    <3>2. CASE CrashWorker(w)
      BY <3>2 DEF CrashWorker, Executors
    <3>3. CASE ClaimSelect(w)
      BY <3>3 DEF ClaimSelect, OldestQueued
    <3>4. CASE ClaimUpdate(w)
      BY <3>4 DEF ClaimUpdate, UpdateStatus, Executors
    <3>5. CASE ExpireSelect(w)
      BY <3>5 DEF ExpireSelect, StaleParked
    <3>6. CASE ExpireClose(w)
      BY <3>6 DEF ExpireClose
    <3> QED BY <2>3, <3>1, <3>2, <3>3, <3>4, <3>5, <3>6 DEF WorkerStep
  <2>4. ASSUME NEW a \in Answerers, AnswererStep(a) PROVE TypeOK'
    <3>1. ASSUME NEW verb \in Verbs, NEW r \in Runs, SeeItParked(a, verb, r) PROVE TypeOK'
      BY <3>1 DEF SeeItParked
    <3>2. ASSUME NEW r \in Runs, Approve(a, r) PROVE TypeOK'
      <4>1. /\ queuedAt' \in [Runs -> 0..MaxTime]
            /\ approved' \in [Runs -> BOOLEAN]
            /\ status' \in [Runs -> Statuses]
        BY <3>2 DEF Approve, UpdateStatus
      <4>2. told' \subseteq Verbs \X Runs
        BY <3>2 DEF Approve, Verbs
      <4> QED BY <3>2, <4>1, <4>2 DEF Approve
    <3>3. ASSUME NEW r \in Runs, Reject(a, r) PROVE TypeOK'
      BY <3>3 DEF Reject, UpdateStatus, Verbs
    <3> QED BY <2>4, <3>1, <3>2, <3>3 DEF AnswererStep
  <2>5. CASE Tick
    BY <2>5 DEF Tick
  <2>6. CASE UNCHANGED vars
    BY <2>6 DEF vars
  <2> QED BY <2>1, <2>2, <2>3, <2>4, <2>5, <2>6 DEF Next
<1> QED BY <1>1, <1>2, PTL DEF Spec

-----------------------------------------------------------------------------
\* What QueueInv looks at; a step that leaves it alone preserves QueueInv.
LEMMA Frame ==
  ASSUME QueueInv,
         UNCHANGED <<status, approved, req, handed, caller, answer,
                     claimed, executing, starts, acted>>
  PROVE  QueueInv'
BY DEF QueueInv, InHandInv, GatesInv, RowInv, AnswerIsTheRow, Held, Cleared

LEMMA InitInv == Init => QueueInv
BY DEF Init, QueueInv, InHandInv, GatesInv, RowInv, AnswerIsTheRow, Held, Cleared, Terminal

LEMMA Inductive == Spec => []QueueInv
<1>1. Init => QueueInv
  BY InitInv
<1>2. TypeOK /\ QueueInv /\ [Next]_vars => QueueInv'
  <2> SUFFICES ASSUME TypeOK, QueueInv, [Next]_vars PROVE QueueInv'
    OBVIOUS
  <2> USE DEF TypeOK, Terminal, Held, Cleared, rowVars, callerVars, workerVars,
              execVars, answerVars, history
  <2>1. ASSUME NEW r \in Runs, CallerStep(r) PROVE QueueInv'
    <3>1. ASSUME NEW live \in BOOLEAN, Look(r, live) PROVE QueueInv'
      <4>1. InHandInv'
        BY <3>1 DEF Look, QueueInv, Executors, InHandInv
      <4>2. GatesInv'
        BY <3>1 DEF Look, QueueInv, Executors, GatesInv
      <4>3. RowInv'
        BY <3>1 DEF Look, QueueInv, Executors, RowInv, GatesInv
      <4>4. AnswerIsTheRow'
        BY <3>1 DEF Look, QueueInv, Executors, AnswerIsTheRow
      <4> QED BY <4>1, <4>2, <4>3, <4>4 DEF QueueInv
    <3>2. CASE AnswerUnknown(r)
      <4>1. InHandInv'
        BY <3>2 DEF AnswerUnknown, Return, QueueInv, Executors, InHandInv
      <4>2. GatesInv'
        BY <3>2 DEF AnswerUnknown, Return, QueueInv, Executors, GatesInv
      <4>3. RowInv'
        BY <3>2 DEF AnswerUnknown, Return, QueueInv, Executors, RowInv
      <4>4. AnswerIsTheRow'
        BY <3>2 DEF AnswerUnknown, Return, QueueInv, Executors, AnswerIsTheRow
      <4> QED BY <4>1, <4>2, <4>3, <4>4 DEF QueueInv
    <3>3. CASE OpenRun(r)
      <4>1. InHandInv'
        BY <3>3 DEF OpenRun, QueueInv, Executors, InHandInv
      <4>2. GatesInv'
        BY <3>3 DEF OpenRun, QueueInv, Executors, GatesInv, RowInv
      <4>3. RowInv'
        BY <3>3 DEF OpenRun, QueueInv, Executors, RowInv
      <4>4. AnswerIsTheRow'
        BY <3>3 DEF OpenRun, QueueInv, Executors, AnswerIsTheRow, GatesInv
      <4> QED BY <4>1, <4>2, <4>3, <4>4 DEF QueueInv
    <3>4. CASE RefuseRun(r)
      <4>1. InHandInv'
        BY <3>4 DEF RefuseRun, Return, QueueInv, Executors, InHandInv
      <4>2. GatesInv'
        BY <3>4 DEF RefuseRun, Return, QueueInv, Executors, GatesInv
      <4>3. RowInv'
        BY <3>4 DEF RefuseRun, Return, QueueInv, Executors, RowInv
      <4>4. AnswerIsTheRow'
        BY <3>4 DEF RefuseRun, Return, QueueInv, Executors, AnswerIsTheRow
      <4> QED BY <4>1, <4>2, <4>3, <4>4 DEF QueueInv
    <3>5. CASE ParkRun(r)
      <4>1. InHandInv'
        BY <3>5 DEF ParkRun, Return, UpdateStatus, TurnedAway, QueueInv, Executors, InHandInv
      <4>2. GatesInv'
        BY <3>5 DEF ParkRun, Return, UpdateStatus, TurnedAway, QueueInv, Executors, GatesInv
      <4>3. RowInv'
        BY <3>5 DEF ParkRun, Return, UpdateStatus, TurnedAway, QueueInv, Executors, RowInv, GatesInv
      <4>4. AnswerIsTheRow'
        BY <3>5 DEF ParkRun, Return, UpdateStatus, TurnedAway, QueueInv, Executors, AnswerIsTheRow
      <4> QED BY <4>1, <4>2, <4>3, <4>4 DEF QueueInv
    <3>6. CASE EnqueueRun(r)
      <4>1. InHandInv'
        BY <3>6 DEF EnqueueRun, UpdateStatus, TurnedAway, QueueInv, Executors, InHandInv
      <4>2. GatesInv'
        BY <3>6 DEF EnqueueRun, UpdateStatus, TurnedAway, QueueInv, Executors, GatesInv
      <4>3. RowInv'
        BY <3>6 DEF EnqueueRun, UpdateStatus, TurnedAway, QueueInv, Executors, RowInv, GatesInv
      <4>4. AnswerIsTheRow'
        BY <3>6 DEF EnqueueRun, UpdateStatus, TurnedAway, QueueInv, Executors, AnswerIsTheRow
      <4> QED BY <4>1, <4>2, <4>3, <4>4 DEF QueueInv
    <3>7. CASE AdmitInline(r)
      <4>1. InHandInv'
        BY <3>7 DEF AdmitInline, TurnedAway, Executors, QueueInv, InHandInv, GatesInv
      <4>2. GatesInv'
        BY <3>7 DEF AdmitInline, TurnedAway, Executors, QueueInv, GatesInv
      <4>3. RowInv'
        BY <3>7 DEF AdmitInline, TurnedAway, Executors, QueueInv, RowInv
      <4>4. AnswerIsTheRow'
        BY <3>7 DEF AdmitInline, TurnedAway, Executors, QueueInv, AnswerIsTheRow
      <4> QED BY <4>1, <4>2, <4>3, <4>4 DEF QueueInv
    <3>8. CASE SeeItOver(r)
      <4>1. InHandInv'
        BY <3>8 DEF SeeItOver, Return, QueueInv, Executors, InHandInv
      <4>2. GatesInv'
        BY <3>8 DEF SeeItOver, Return, QueueInv, Executors, GatesInv
      <4>3. RowInv'
        BY <3>8 DEF SeeItOver, Return, QueueInv, Executors, RowInv
      <4>4. AnswerIsTheRow'
        BY <3>8 DEF SeeItOver, Return, QueueInv, Executors, AnswerIsTheRow
      <4> QED BY <4>1, <4>2, <4>3, <4>4 DEF QueueInv
    <3>9. CASE StopWaiting(r)
      <4>1. InHandInv'
        BY <3>9 DEF StopWaiting, Return, QueueInv, Executors, InHandInv
      <4>2. GatesInv'
        BY <3>9 DEF StopWaiting, Return, QueueInv, Executors, GatesInv
      <4>3. RowInv'
        BY <3>9 DEF StopWaiting, Return, QueueInv, Executors, RowInv
      <4>4. AnswerIsTheRow'
        BY <3>9 DEF StopWaiting, Return, QueueInv, Executors, AnswerIsTheRow
      <4> QED BY <4>1, <4>2, <4>3, <4>4 DEF QueueInv
    <3>10. CASE CrashCaller(r)
      <4>1. InHandInv'
        BY <3>10 DEF CrashCaller, Executors, QueueInv, InHandInv
      <4>2. GatesInv'
        BY <3>10 DEF CrashCaller, Executors, QueueInv, GatesInv
      <4>3. RowInv'
        BY <3>10 DEF CrashCaller, Executors, QueueInv, RowInv
      <4>4. AnswerIsTheRow'
        BY <3>10 DEF CrashCaller, Executors, QueueInv, AnswerIsTheRow
      <4> QED BY <4>1, <4>2, <4>3, <4>4 DEF QueueInv
    <3> QED BY <2>1, <3>1, <3>2, <3>3, <3>4, <3>5, <3>6, <3>7, <3>8, <3>9, <3>10 DEF CallerStep
  <2>2. ASSUME NEW e \in Executors, NEW r \in Runs, ExecutorStep(e, r) PROVE QueueInv'
    <3>1. CASE Begin(e, r)
      <4>1. InHandInv'
        BY <3>1 DEF Begin, QueueInv, InHandInv
      <4>2. GatesInv'
        BY <3>1 DEF Begin, QueueInv, GatesInv, InHandInv
      <4>3. RowInv'
        BY <3>1 DEF Begin, QueueInv, RowInv, InHandInv
      <4>4. AnswerIsTheRow'
        BY <3>1 DEF Begin, QueueInv, AnswerIsTheRow
      <4> QED BY <4>1, <4>2, <4>3, <4>4 DEF QueueInv
    <3>2. CASE RefuseToStart(e, r)
      <4>1. InHandInv'
        BY <3>2 DEF RefuseToStart, Drop, FinishRun, HandBack, Return, QueueInv, InHandInv
      <4>2. GatesInv'
        BY <3>2 DEF RefuseToStart, Drop, FinishRun, HandBack, Return, QueueInv, GatesInv, InHandInv
      <4>3. RowInv'
        BY <3>2 DEF RefuseToStart, Drop, FinishRun, HandBack, Return, QueueInv, RowInv
      <4>4. AnswerIsTheRow'
        BY <3>2 DEF RefuseToStart, Drop, FinishRun, HandBack, Return, QueueInv, AnswerIsTheRow, InHandInv
      <4> QED BY <4>1, <4>2, <4>3, <4>4 DEF QueueInv
    <3>3. CASE Act(e, r)
      <4>1. InHandInv'
        BY <3>3 DEF Act, QueueInv, InHandInv
      <4>2. GatesInv'
        BY <3>3 DEF Act, QueueInv, GatesInv
      <4>3. RowInv'
        BY <3>3 DEF Act, QueueInv, RowInv, InHandInv
      <4>4. AnswerIsTheRow'
        BY <3>3 DEF Act, QueueInv, AnswerIsTheRow
      <4> QED BY <4>1, <4>2, <4>3, <4>4 DEF QueueInv
    <3>4. CASE Finish(e, r)
      <4>1. InHandInv'
        BY <3>4 DEF Finish, Drop, FinishRun, HandBack, Return, QueueInv, InHandInv
      <4>2. GatesInv'
        BY <3>4 DEF Finish, Drop, FinishRun, HandBack, Return, QueueInv, GatesInv, InHandInv
      <4>3. RowInv'
        BY <3>4 DEF Finish, Drop, FinishRun, HandBack, Return, QueueInv, RowInv
      <4>4. AnswerIsTheRow'
        BY <3>4 DEF Finish, Drop, FinishRun, HandBack, Return, QueueInv, AnswerIsTheRow, InHandInv
      <4> QED BY <4>1, <4>2, <4>3, <4>4 DEF QueueInv
    <3>5. CASE Abandon(e, r)
      <4>1. InHandInv'
        BY <3>5 DEF Abandon, Drop, QueueInv, InHandInv
      <4>2. GatesInv'
        BY <3>5 DEF Abandon, Drop, QueueInv, GatesInv
      <4>3. RowInv'
        BY <3>5 DEF Abandon, Drop, QueueInv, RowInv
      <4>4. AnswerIsTheRow'
        BY <3>5 DEF Abandon, Drop, QueueInv, AnswerIsTheRow
      <4> QED BY <4>1, <4>2, <4>3, <4>4 DEF QueueInv
    <3> QED BY <2>2, <3>1, <3>2, <3>3, <3>4, <3>5 DEF ExecutorStep
  <2>3. ASSUME NEW w \in Workers, WorkerStep(w) PROVE QueueInv'
    <3>1. CASE StartDraining(w) \/ StandBy(w) \/ Stop(w) \/ Exit(w)
      BY <3>1, Frame DEF StartDraining, StandBy, Stop, Exit
    <3>2. CASE ClaimSelect(w) \/ ExpireSelect(w)
      BY <3>2, Frame DEF ClaimSelect, ExpireSelect
    <3>3. CASE CrashWorker(w)
      <4>1. InHandInv'
        BY <3>3 DEF CrashWorker, QueueInv, Executors, InHandInv
      <4>2. GatesInv'
        BY <3>3 DEF CrashWorker, QueueInv, Executors, GatesInv
      <4>3. RowInv'
        BY <3>3 DEF CrashWorker, QueueInv, Executors, RowInv
      <4>4. AnswerIsTheRow'
        BY <3>3 DEF CrashWorker, QueueInv, Executors, AnswerIsTheRow
      <4> QED BY <4>1, <4>2, <4>3, <4>4 DEF QueueInv
    <3>4. CASE ClaimUpdate(w)
      <4>1. InHandInv'
        <5>1. CASE status[selected[w]] # "queued"
          BY <3>4, <5>1 DEF ClaimUpdate, UpdateStatus, QueueInv, InHandInv
        <5>2. CASE status[selected[w]] = "queued"
          <6> DEFINE r == selected[w]
          <6>1. /\ r \in Runs
                /\ \A e \in Executors : r \notin claimed[e] /\ r \notin executing[e]
                /\ Cleared(r) /\ starts[r] = 0
                /\ caller[r] \notin {"idle", "looked", "opened"}
            BY <3>4, <5>2 DEF ClaimUpdate, QueueInv, InHandInv, RowInv, GatesInv
          <6>2. /\ status' = [status EXCEPT ![r] = "running"]
                /\ claimed' = [claimed EXCEPT ![w] = @ \cup {r}]
                /\ UNCHANGED <<executing, starts, caller, req, approved>>
            BY <3>4, <5>2 DEF ClaimUpdate, UpdateStatus
          <6> QED BY <6>1, <6>2 DEF QueueInv, InHandInv, Executors
        <5> QED BY <5>1, <5>2
      <4>2. GatesInv'
        BY <3>4 DEF ClaimUpdate, UpdateStatus, QueueInv, Executors, GatesInv
      <4>3. RowInv'
        BY <3>4 DEF ClaimUpdate, UpdateStatus, QueueInv, Executors, RowInv
      <4>4. AnswerIsTheRow'
        BY <3>4 DEF ClaimUpdate, UpdateStatus, QueueInv, Executors, AnswerIsTheRow
      <4> QED BY <4>1, <4>2, <4>3, <4>4 DEF QueueInv
    <3>5. CASE ExpireClose(w)
      <4>1. InHandInv'
        BY <3>5 DEF ExpireClose, QueueInv, InHandInv
      <4>2. GatesInv'
        BY <3>5 DEF ExpireClose, QueueInv, GatesInv
      <4>3. RowInv'
        BY <3>5 DEF ExpireClose, QueueInv, RowInv
      <4>4. AnswerIsTheRow'
        BY <3>5 DEF ExpireClose, QueueInv, AnswerIsTheRow
      <4> QED BY <4>1, <4>2, <4>3, <4>4 DEF QueueInv
    <3> QED BY <2>3, <3>1, <3>2, <3>3, <3>4, <3>5 DEF WorkerStep
  <2>4. ASSUME NEW a \in Answerers, AnswererStep(a) PROVE QueueInv'
    <3>1. ASSUME NEW verb \in Verbs, NEW r \in Runs, SeeItParked(a, verb, r) PROVE QueueInv'
      BY <3>1, Frame DEF SeeItParked
    <3>2. ASSUME NEW r \in Runs, Approve(a, r) PROVE QueueInv'
      <4>1. InHandInv'
        BY <3>2 DEF Approve, UpdateStatus, QueueInv, InHandInv
      <4>2. GatesInv'
        BY <3>2 DEF Approve, UpdateStatus, QueueInv, GatesInv
      <4>3. RowInv'
        BY <3>2 DEF Approve, UpdateStatus, QueueInv, RowInv
      <4>4. AnswerIsTheRow'
        BY <3>2 DEF Approve, UpdateStatus, QueueInv, AnswerIsTheRow
      <4> QED BY <4>1, <4>2, <4>3, <4>4 DEF QueueInv
    <3>3. ASSUME NEW r \in Runs, Reject(a, r) PROVE QueueInv'
      <4>1. InHandInv'
        BY <3>3 DEF Reject, UpdateStatus, QueueInv, InHandInv
      <4>2. GatesInv'
        BY <3>3 DEF Reject, UpdateStatus, QueueInv, GatesInv
      <4>3. RowInv'
        BY <3>3 DEF Reject, UpdateStatus, QueueInv, RowInv
      <4>4. AnswerIsTheRow'
        BY <3>3 DEF Reject, UpdateStatus, QueueInv, AnswerIsTheRow
      <4> QED BY <4>1, <4>2, <4>3, <4>4 DEF QueueInv
    <3> QED BY <2>4, <3>1, <3>2, <3>3 DEF AnswererStep
  <2>5. CASE Tick
    BY <2>5, Frame DEF Tick
  <2>6. CASE UNCHANGED vars
    BY <2>6, Frame DEF vars
  <2> QED BY <2>1, <2>2, <2>3, <2>4, <2>5, <2>6 DEF Next
<1> QED BY <1>1, <1>2, Typing, PTL DEF Spec

-----------------------------------------------------------------------------
(* A run is never in two hands, and only a `running` row is in any         *)
(* (claim_queued_run, finish_run).                                         *)
THEOREM OneExecutorAlways == Spec => []OneExecutor
<1>1. QueueInv => OneExecutor
  BY DEF QueueInv, InHandInv, OneExecutor
<1> QED BY <1>1, Inductive, PTL

(* No code of a run is ever started a second time.                         *)
THEOREM StartedAtMostOnceAlways == Spec => []StartedAtMostOnce
<1>1. QueueInv => StartedAtMostOnce
  BY DEF QueueInv, RowInv, StartedAtMostOnce
<1> QED BY <1>1, Inductive, PTL

(* No real side effect without confirm, approval="allow" or an approval    *)
(* on the row, and none in a dry run.                                      *)
THEOREM NothingActsUnapprovedAlways == Spec => []NothingActsUnapproved
<1>1. TypeOK /\ QueueInv => NothingActsUnapproved
  <2> SUFFICES ASSUME TypeOK, QueueInv, NEW r \in Runs, acted[r]
               PROVE  ~req[r].dry /\ (req[r].confirm \/ ~req[r].ask \/ approved[r])
    BY DEF NothingActsUnapproved
  <2>1. starts[r] > 0 /\ req[r].acts /\ ~req[r].dry
    BY DEF QueueInv, RowInv
  <2>2. Cleared(r)
    BY <2>1 DEF QueueInv, RowInv
  <2> QED BY <2>1, <2>2 DEF Cleared, NeedsHuman
<1> QED BY <1>1, Typing, Inductive, PTL

(* What the gates, a human or the clock turned away has not run and is     *)
(* not about to.                                                           *)
THEOREM RefusedNeverRunsAlways == Spec => []RefusedNeverRuns
<1>1. TypeOK /\ QueueInv => RefusedNeverRuns
  <2> SUFFICES ASSUME TypeOK, QueueInv, NEW r \in Runs,
                      status[r] \in {"rejected", "expired"} \/ TurnedAway(r)
               PROVE  starts[r] = 0 /\ \A e \in Executors : r \notin Held(e)
    BY DEF RefusedNeverRuns
  <2>1. Cleared(r) => ~TurnedAway(r)
    BY DEF QueueInv, RowInv, Cleared, TurnedAway
  <2>2. starts[r] = 0
    BY <2>1 DEF QueueInv, RowInv, TypeOK
  <2>3. \A e \in Executors : r \notin Held(e)
    BY <2>1 DEF QueueInv, InHandInv
  <2> QED BY <2>2, <2>3
<1> QED BY <1>1, Typing, Inductive, PTL

(* An approval that took effect is not taken back.                         *)
THEOREM ApprovalSticksAlways == Spec => []ApprovalSticks
<1>1. QueueInv => ApprovalSticks
  BY DEF QueueInv, RowInv, ApprovalSticks
<1> QED BY <1>1, Inductive, PTL

(* So whatever a gate, a human or the clock decided of a run holds,        *)
(* however approve, reject, expire, admit and claim interleave.            *)
THEOREM DecisionsAlwaysHold == Spec => []DecisionsHold
BY RefusedNeverRunsAlways, ApprovalSticksAlways, PTL DEF DecisionsHold

(* What a caller was told of the end of its run is what the row says.      *)
THEOREM AnswerIsTheRowAlways == Spec => []AnswerIsTheRow
<1>1. QueueInv => AnswerIsTheRow
  BY DEF QueueInv
<1> QED BY <1>1, Inductive, PTL

(* No step rewrites the outcome of a run that is over, although finish_run *)
(* tests nothing.                                                          *)
THEOREM TerminalIsFinalAlways == Spec => TerminalIsFinal
<1>1. TypeOK /\ QueueInv /\ [Next]_vars
        => [\A r \in Runs : status[r] \in Terminal => status'[r] = status[r]]_vars
  <2> SUFFICES ASSUME TypeOK, QueueInv, Next, NEW q \in Runs, status[q] \in Terminal
               PROVE  status'[q] = status[q]
    BY DEF vars
  <2> USE DEF TypeOK, Terminal, rowVars, callerVars, workerVars, execVars, answerVars, history
  <2>0. /\ caller[q] \notin {"idle", "looked", "opened"}
        /\ \A e \in Executors : q \notin claimed[e] /\ q \notin executing[e]
    BY DEF QueueInv, GatesInv, InHandInv, Held
  <2>1. ASSUME NEW r \in Runs, CallerStep(r) PROVE status'[q] = status[q]
    BY <2>0, <2>1 DEF CallerStep, Look, AnswerUnknown, OpenRun, RefuseRun, ParkRun, EnqueueRun,
       AdmitInline, SeeItOver, StopWaiting, CrashCaller, UpdateStatus
  <2>2. ASSUME NEW e \in Executors, NEW r \in Runs, ExecutorStep(e, r) PROVE status'[q] = status[q]
    BY <2>0, <2>2 DEF ExecutorStep, Begin, RefuseToStart, Act, Finish, Abandon, FinishRun, Held
  <2>3. ASSUME NEW w \in Workers, WorkerStep(w) PROVE status'[q] = status[q]
    BY <2>3 DEF WorkerStep, StartDraining, StandBy, Stop, Exit, CrashWorker, ClaimSelect,
       ClaimUpdate, ExpireSelect, ExpireClose, UpdateStatus
  <2>4. ASSUME NEW a \in Answerers, AnswererStep(a) PROVE status'[q] = status[q]
    BY <2>4 DEF AnswererStep, SeeItParked, Approve, Reject, UpdateStatus
  <2>5. CASE Tick
    BY <2>5 DEF Tick
  <2> QED BY <2>1, <2>2, <2>3, <2>4, <2>5 DEF Next
<1> QED BY <1>1, Typing, Inductive, PTL DEF Spec, TerminalIsFinal

-----------------------------------------------------------------------------
\* An answer underway is of a run that was parked when it was looked at, and
\* what became of the run since is known to those who were told.
AnswerInv ==
    /\ \A a \in Answerers, verb \in Verbs, r \in Runs :
          deciding[a] = <<verb, r>> =>
              approved[r] \/ status[r] \in {"awaiting_approval", "rejected", "expired"}
    /\ \A r \in Runs :
          /\ approved[r] => <<"approve", r>> \in told
          /\ status[r] = "rejected" => <<"reject", r>> \in told
          /\ <<"reject", r>> \in told /\ <<"approve", r>> \notin told
               => status[r] \in {"rejected", "expired"}
          /\ <<"approve", r>> \in told /\ <<"reject", r>> \notin told
               => approved[r] \/ status[r] = "expired"

\* A step of nobody who answers: the clock may end what is parked, no more.
LEMMA OthersKeepAnswers ==
  ASSUME TypeOK, AnswerInv, UNCHANGED <<approved, answerVars>>,
         \A q \in Runs :
            \/ status'[q] = status[q]
            \/ status[q] = "awaiting_approval" /\ status'[q] = "expired"
            \/ /\ status[q] \notin {"awaiting_approval", "rejected", "expired"}
               /\ status'[q] # "rejected"
  PROVE  AnswerInv'
<1>1. ASSUME NEW a \in Answerers, NEW verb \in Verbs, NEW r \in Runs, deciding'[a] = <<verb, r>>
      PROVE  approved'[r] \/ status'[r] \in {"awaiting_approval", "rejected", "expired"}
  BY <1>1 DEF AnswerInv, answerVars
<1>2. ASSUME NEW r \in Runs
      PROVE  /\ approved'[r] => <<"approve", r>> \in told'
             /\ status'[r] = "rejected" => <<"reject", r>> \in told'
             /\ <<"reject", r>> \in told' /\ <<"approve", r>> \notin told'
                  => status'[r] \in {"rejected", "expired"}
             /\ <<"approve", r>> \in told' /\ <<"reject", r>> \notin told'
                  => approved'[r] \/ status'[r] = "expired"
  BY DEF AnswerInv, answerVars
<1> QED BY <1>1, <1>2 DEF AnswerInv

LEMMA AnswersInductive == Spec => []AnswerInv
<1>1. Init => AnswerInv
  <2> SUFFICES ASSUME Init PROVE AnswerInv
    OBVIOUS
  <2>1. \A a \in Answerers, verb \in Verbs, r \in Runs : deciding[a] # <<verb, r>>
    BY ActorAssumption DEF Init, Verbs
  <2>2. \A r \in Runs : status[r] = "absent" /\ ~approved[r] /\ told = {}
    BY DEF Init
  <2> QED BY <2>1, <2>2 DEF AnswerInv
<1>2. TypeOK /\ QueueInv /\ AnswerInv /\ [Next]_vars => AnswerInv'
  <2> SUFFICES ASSUME TypeOK, QueueInv, AnswerInv, [Next]_vars PROVE AnswerInv'
    OBVIOUS
  <2> USE DEF TypeOK, rowVars
  <2>1. ASSUME NEW r \in Runs, CallerStep(r) PROVE AnswerInv'
    <3>1. caller[r] \in {"idle", "looked"} => status[r] = "absent"
      BY DEF QueueInv, GatesInv
    <3>2. caller[r] = "opened" => status[r] = "running"
      BY DEF QueueInv, GatesInv
    <3> QED BY <2>1, <3>1, <3>2, OthersKeepAnswers DEF CallerStep, Look, AnswerUnknown, OpenRun,
         RefuseRun, ParkRun, EnqueueRun, AdmitInline, SeeItOver, StopWaiting, CrashCaller,
         UpdateStatus
  <2>2. ASSUME NEW e \in Executors, NEW r \in Runs, ExecutorStep(e, r) PROVE AnswerInv'
    <3>1. r \in Held(e) => status[r] = "running"
      BY DEF QueueInv, InHandInv
    <3> QED BY <2>2, <3>1, OthersKeepAnswers DEF ExecutorStep, Begin, RefuseToStart, Act, Finish,
         Abandon, FinishRun, Held
  <2>3. ASSUME NEW w \in Workers, WorkerStep(w) PROVE AnswerInv'
    BY <2>3, OthersKeepAnswers DEF WorkerStep, StartDraining, StandBy, Stop, Exit, CrashWorker,
       ClaimSelect, ClaimUpdate, ExpireSelect, ExpireClose, UpdateStatus
  <2>4. ASSUME NEW a \in Answerers, AnswererStep(a) PROVE AnswerInv'
    <3>1. ASSUME NEW verb \in Verbs, NEW r \in Runs, SeeItParked(a, verb, r) PROVE AnswerInv'
      BY <3>1 DEF SeeItParked, AnswerInv, Verbs
    <3>2. ASSUME NEW r \in Runs, Approve(a, r) PROVE AnswerInv'
      BY <3>2, ActorAssumption DEF Approve, UpdateStatus, AnswerInv, Verbs
    <3>3. ASSUME NEW r \in Runs, Reject(a, r) PROVE AnswerInv'
      BY <3>3, ActorAssumption DEF Reject, UpdateStatus, AnswerInv, Verbs
    <3> QED BY <2>4, <3>1, <3>2, <3>3 DEF AnswererStep
  <2>5. CASE Tick
    BY <2>5, OthersKeepAnswers DEF Tick
  <2>6. CASE UNCHANGED vars
    BY <2>6, OthersKeepAnswers DEF vars
  <2> QED BY <2>1, <2>2, <2>3, <2>4, <2>5, <2>6 DEF Next
<1> QED BY <1>1, <1>2, Typing, Inductive, PTL DEF Spec

(* Although approve and reject ignore what their UPDATE changed, an ok is  *)
(* wrong only where an approve and a reject of one run were both told ok.  *)
THEOREM LoneAnswerHoldsAlways == Spec => []LoneAnswerHolds
<1>1. QueueInv /\ AnswerInv => LoneAnswerHolds
  BY DEF QueueInv, RowInv, AnswerInv, LoneAnswerHolds
<1> QED BY <1>1, Inductive, AnswersInductive, PTL

-----------------------------------------------------------------------------
(* A daemon never has more runs in flight than Worker.concurrency allows,  *)
(* whatever claims are lost to other daemons.                              *)

\* A run that is SELECTed and not yet taken has its slot.
SlotInv ==
    \A w \in Workers :
        /\ IsFiniteSet(Held(w))
        /\ Cardinality(Held(w)) <= Concurrency
        /\ selected[w] # NoRun => Cardinality(Held(w)) < Concurrency

LEMMA SlotInit == Init => SlotInv
BY FS_EmptySet, BoundAssumption DEF Init, SlotInv, Held, Executors

\* A step that gives no daemon a run, and selects none, preserves SlotInv.
LEMMA HeldShrinks ==
  ASSUME SlotInv,
         \A w \in Workers : Held(w)' \subseteq Held(w) /\ selected'[w] \in {selected[w], NoRun}
  PROVE  SlotInv'
<1> SUFFICES ASSUME NEW w \in Workers
             PROVE  /\ IsFiniteSet(Held(w)')
                    /\ Cardinality(Held(w)') <= Concurrency
                    /\ selected'[w] # NoRun => Cardinality(Held(w)') < Concurrency
  BY DEF SlotInv
<1>1. IsFiniteSet(Held(w)') /\ Cardinality(Held(w)') <= Cardinality(Held(w))
  BY FS_Subset DEF SlotInv
<1>2. Cardinality(Held(w)) \in Nat /\ Cardinality(Held(w)') \in Nat
  BY <1>1, FS_CardinalityType DEF SlotInv
<1> QED BY <1>1, <1>2, BoundAssumption DEF SlotInv

LEMMA SlotStep == TypeOK /\ SlotInv /\ [Next]_vars => SlotInv'
<1> SUFFICES ASSUME TypeOK, SlotInv, [Next]_vars PROVE SlotInv'
  OBVIOUS
<1> USE DEF TypeOK, Executors, rowVars, callerVars, workerVars, execVars, answerVars, history
<1>1. ASSUME NEW r \in Runs, CallerStep(r) PROVE SlotInv'
  <2>1. \A w \in Workers : Held(w)' \subseteq Held(w) /\ selected'[w] = selected[w]
    BY <1>1, ActorAssumption DEF CallerStep, Look, AnswerUnknown, OpenRun, RefuseRun, ParkRun, EnqueueRun,
       AdmitInline, SeeItOver, StopWaiting, CrashCaller, Held
  <2> QED BY <2>1, HeldShrinks
<1>2. ASSUME NEW e \in Executors, NEW r \in Runs, ExecutorStep(e, r) PROVE SlotInv'
  <2>1. \A w \in Workers : Held(w)' \subseteq Held(w) /\ selected'[w] = selected[w]
    BY <1>2 DEF ExecutorStep, Begin, RefuseToStart, Act, Finish, Abandon, Drop, Held
  <2> QED BY <2>1, HeldShrinks
<1>3. ASSUME NEW w \in Workers, WorkerStep(w) PROVE SlotInv'
  <2>1. CASE StartDraining(w) \/ StandBy(w) \/ Stop(w) \/ Exit(w) \/ CrashWorker(w)
             \/ ExpireSelect(w) \/ ExpireClose(w)
    <3>1. \A v \in Workers : Held(v)' \subseteq Held(v) /\ selected'[v] \in {selected[v], NoRun}
      BY <2>1 DEF StartDraining, StandBy, Stop, Exit, CrashWorker, ExpireSelect, ExpireClose, Held
    <3> QED BY <3>1, HeldShrinks
  <2>2. CASE ClaimSelect(w)
    <3>1. /\ Cardinality(Held(w)) < Concurrency
          /\ \A v \in Workers : Held(v)' = Held(v) /\ (v # w => selected'[v] = selected[v])
      BY <2>2 DEF ClaimSelect, Held
    <3> QED BY <3>1 DEF SlotInv
  <2>3. CASE ClaimUpdate(w)
    <3>1. PICK r : r = selected[w] /\ r # NoRun
      BY <2>3 DEF ClaimUpdate
    <3>2. /\ Held(w)' \subseteq Held(w) \cup {r}
          /\ selected'[w] = NoRun
          /\ \A v \in Workers : v # w => Held(v)' = Held(v) /\ selected'[v] = selected[v]
      BY <2>3, <3>1 DEF ClaimUpdate, Held
    <3>3. /\ IsFiniteSet(Held(w)) /\ Cardinality(Held(w)) \in Nat
          /\ Cardinality(Held(w)) < Concurrency
      BY <3>1, FS_CardinalityType DEF SlotInv
    <3>4. /\ IsFiniteSet(Held(w) \cup {r})
          /\ Cardinality(Held(w) \cup {r}) \in Nat
          /\ Cardinality(Held(w) \cup {r}) <= Concurrency
      <4>1. /\ IsFiniteSet(Held(w) \cup {r})
            /\ \/ Cardinality(Held(w) \cup {r}) = Cardinality(Held(w))
               \/ Cardinality(Held(w) \cup {r}) = Cardinality(Held(w)) + 1
        <5> HIDE DEF TypeOK
        <5> DEFINE S == Held(w)
        <5>1. IsFiniteSet(S)
          BY <3>3
        <5> HIDE DEF S
        <5>2. /\ IsFiniteSet(S \cup {r})
              /\ Cardinality(S \cup {r}) = IF r \in S THEN Cardinality(S) ELSE Cardinality(S) + 1
          BY <5>1, FS_AddElement
        <5> QED BY <5>2 DEF S
      <4> QED BY <3>3, <4>1, BoundAssumption
    <3>5. /\ IsFiniteSet(Held(w)')
          /\ Cardinality(Held(w)') <= Cardinality(Held(w) \cup {r})
      BY <3>2, <3>4, FS_Subset
    <3>6. Cardinality(Held(w)') \in Nat
      BY <3>5, FS_CardinalityType
    <3>7. IsFiniteSet(Held(w)') /\ Cardinality(Held(w)') <= Concurrency
      BY <3>4, <3>5, <3>6, BoundAssumption
    <3> QED BY <3>2, <3>7 DEF SlotInv
  <2> QED BY <1>3, <2>1, <2>2, <2>3 DEF WorkerStep
<1>4. ASSUME NEW a \in Answerers, AnswererStep(a) PROVE SlotInv'
  <2>1. \A w \in Workers : Held(w)' = Held(w) /\ selected'[w] = selected[w]
    BY <1>4 DEF AnswererStep, SeeItParked, Approve, Reject, Held
  <2> QED BY <2>1, HeldShrinks
<1>5. CASE Tick
  BY <1>5, HeldShrinks DEF Tick, Held
<1>6. CASE UNCHANGED vars
  BY <1>6, HeldShrinks DEF vars, Held
<1> QED BY <1>1, <1>2, <1>3, <1>4, <1>5, <1>6 DEF Next

(* No daemon has more runs in flight than it may (worker.py:125): neither  *)
(* a claim it lost nor a task that ends between two claims miscounts.      *)
THEOREM WithinConcurrencyAlways == Spec => []WithinConcurrency
<1>1. SlotInv => WithinConcurrency
  BY DEF SlotInv, WithinConcurrency
<1> QED BY <1>1, SlotInit, SlotStep, Typing, PTL DEF Spec
=============================================================================
