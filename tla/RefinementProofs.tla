-------------------------- MODULE RefinementProofs --------------------------
(***************************************************************************)
(* What is proved of the queue and of the lock holds of a home, which is   *)
(* made of their steps; and RunQueue implements RunLifecycle:              *)
(* every step of a caller, a daemon or an answerer is one step of one      *)
(* run's life (of several, when a process dies or a window closes), or is  *)
(* not seen there at all.                                                  *)
(***************************************************************************)
EXTENDS RunlaceHome, RunQueueProofs

-----------------------------------------------------------------------------
(* RunQueue implements RunLifecycle.                                       *)

\* The stage of a run depends on nothing else.
LEMMA StageFrame ==
  ASSUME NEW q \in Runs,
         status'[q] = status[q],
         \A e \in Executors : (q \in Held(e))' <=> q \in Held(e),
         caller'[q] = "opened" <=> caller[q] = "opened"
  PROVE  StageOf(q)' = StageOf(q)
BY DEF StageOf

\* The stages, read off a state.
LEMMA StageFacts ==
  ASSUME TypeOK, QueueInv, NEW r \in Runs
  PROVE  /\ status[r] \in Terminal => StageOf(r) = "over"
         /\ status[r] = "absent" => StageOf(r) = "absent"
         /\ status[r] = "queued" => StageOf(r) = "in line"
         /\ status[r] = "awaiting_approval" => StageOf(r) = "parked"
         /\ \A e \in Executors : r \in Held(e) => StageOf(r) = "in hand"
         /\ caller[r] = "opened" => StageOf(r) = "deciding"
         /\ (status[r] = "running" /\ caller[r] # "opened"
               /\ \A e \in Executors : r \notin Held(e)) => StageOf(r) = "lost"
BY DEF StageOf, QueueInv, InHandInv, GatesInv, Terminal

LEMMA NextStageFacts ==
  ASSUME TypeOK', QueueInv', NEW r \in Runs
  PROVE  /\ status'[r] \in Terminal => StageOf(r)' = "over"
         /\ status'[r] = "absent" => StageOf(r)' = "absent"
         /\ status'[r] = "queued" => StageOf(r)' = "in line"
         /\ status'[r] = "awaiting_approval" => StageOf(r)' = "parked"
         /\ \A e \in Executors : (r \in Held(e))' => StageOf(r)' = "in hand"
         /\ caller'[r] = "opened" => StageOf(r)' = "deciding"
         /\ (status'[r] = "running" /\ caller'[r] # "opened"
               /\ \A e \in Executors : (r \notin Held(e))') => StageOf(r)' = "lost"
BY DEF StageOf, QueueInv, InHandInv, GatesInv, Terminal

\* One run changes stage and no other does: Life!Move.
LEMMA OneMoves ==
  ASSUME NEW r \in Runs, NEW from, NEW to,
         StageOf(r) = from, StageOf(r)' = to,
         \A q \in Runs \ {r} : StageOf(q)' = StageOf(q)
  PROVE  Life!Move(r, from, to)
BY DEF Life!Move

\* No run changes stage.
LEMMA NoneMoves ==
  ASSUME \A q \in Runs : StageOf(q)' = StageOf(q)
  PROVE  UNCHANGED [r \in Runs |-> StageOf(r)]
OBVIOUS

\* Steps the abstract specification does not see.
LEMMA Stutter ==
  ASSUME UNCHANGED <<status, approved, req, starts, acted>>,
         \A q \in Runs, e \in Executors : (q \in Held(e))' <=> q \in Held(e),
         \A q \in Runs : caller'[q] = "opened" <=> caller[q] = "opened"
  PROVE  UNCHANGED Life!lifeVars
<1>1. \A q \in Runs : StageOf(q)' = StageOf(q)
  BY StageFrame
<1> QED BY <1>1, NoneMoves DEF Life!lifeVars

LEMMA InitMaps == Init => Life!LifeInit
<1> SUFFICES ASSUME Init PROVE Life!LifeInit
  OBVIOUS
<1>1. \A r \in Runs : StageOf(r) = "absent"
  BY InitTyping, InitInv, StageFacts DEF Init
<1>2. \A r \in Runs : NeedsHuman(req[r]) \in BOOLEAN
  BY DEF NeedsHuman
<1>3. \A r \in Runs : (starts[r] > 0) = FALSE
  BY DEF Init
<1>4. [r \in Runs |-> StageOf(r)] = [r \in Runs |-> "absent"]
  BY <1>1
<1>5. [r \in Runs |-> starts[r] > 0] = [r \in Runs |-> FALSE]
  BY <1>3
<1>6. [r \in Runs |-> NeedsHuman(req[r])] \in [Runs -> BOOLEAN]
  BY <1>2
<1> QED BY <1>4, <1>5, <1>6 DEF Init, Life!LifeInit

-----------------------------------------------------------------------------
\* The state a step starts and ends in, and what other runs may rely on.
Here == TypeOK /\ QueueInv /\ TypeOK' /\ QueueInv'

LEMMA CallerMaps ==
  ASSUME Here, NEW r \in Runs, CallerStep(r)
  PROVE  Life!LifeNext \/ UNCHANGED Life!lifeVars
<1> USE DEF rowVars, callerVars, workerVars, execVars, answerVars, history
<1> DEFINE Others == \A q \in Runs \ {r} : StageOf(q)' = StageOf(q)
<1>1. CASE (\E live \in BOOLEAN : Look(r, live)) \/ AnswerUnknown(r) \/ SeeItOver(r) \/ StopWaiting(r)
  BY <1>1, Stutter DEF Look, AnswerUnknown, SeeItOver, StopWaiting, Return, Held, Here, TypeOK
<1>2. CASE OpenRun(r)
  <2>1. Others
    BY <1>2, StageFrame DEF OpenRun, Held, Here, TypeOK
  <2>2. StageOf(r) = "absent" /\ StageOf(r)' = "deciding"
    BY <1>2, StageFacts, NextStageFacts DEF OpenRun, Here, QueueInv, GatesInv, TypeOK
  <2>3. Life!Submit(r)
    BY <1>2, <2>1, <2>2, OneMoves DEF OpenRun, Life!Submit
  <2> QED BY <2>3 DEF Life!LifeNext
<1>3. CASE RefuseRun(r)
  <2>1. Others
    BY <1>3, StageFrame DEF RefuseRun, Return, Held, Here, TypeOK
  <2>2. StageOf(r) = "deciding" /\ StageOf(r)' = "over"
    BY <1>3, StageFacts, NextStageFacts DEF RefuseRun, Here, TypeOK, Terminal
  <2>3. Life!Decide(r)
    BY <1>3, <2>1, <2>2, OneMoves DEF RefuseRun, Life!Decide
  <2> QED BY <2>3 DEF Life!LifeNext
<1>4. CASE ParkRun(r)
  <2>1. Others
    BY <1>4, StageFrame DEF ParkRun, UpdateStatus, Return, Held, Here, TypeOK
  <2>2. StageOf(r) = "deciding" /\ StageOf(r)' = "parked"
    BY <1>4, StageFacts, NextStageFacts DEF ParkRun, UpdateStatus, Here, TypeOK, QueueInv, GatesInv
  <2>3. Life!Decide(r)
    BY <1>4, <2>1, <2>2, OneMoves DEF ParkRun, Life!Decide
  <2> QED BY <2>3 DEF Life!LifeNext
<1>5. CASE EnqueueRun(r)
  <2>1. Others
    BY <1>5, StageFrame DEF EnqueueRun, UpdateStatus, Held, Here, TypeOK
  <2>2. StageOf(r) = "deciding" /\ StageOf(r)' = "in line"
    BY <1>5, StageFacts, NextStageFacts DEF EnqueueRun, UpdateStatus, Here, TypeOK, QueueInv, GatesInv
  <2>3. Life!Decide(r)
    BY <1>5, <2>1, <2>2, OneMoves DEF EnqueueRun, Life!Decide
  <2> QED BY <2>3 DEF Life!LifeNext
<1>6. CASE AdmitInline(r)
  <2>1. Others
    BY <1>6, StageFrame DEF AdmitInline, Held, Here, TypeOK, Executors
  <2>2. StageOf(r) = "deciding"
    BY <1>6, StageFacts DEF AdmitInline, Here
  <2>3. (r \in Held(Inline))'
    BY <1>6 DEF AdmitInline, Held, Here, TypeOK, Executors
  <2>4. StageOf(r)' = "in hand"
    BY <2>3, NextStageFacts DEF Here, Executors
  <2>5. Life!Decide(r)
    BY <1>6, <2>1, <2>2, <2>4, OneMoves DEF AdmitInline, TurnedAway, Life!Decide
  <2> QED BY <2>5 DEF Life!LifeNext
<1>7. CASE CrashCaller(r)
  <2>1. Others
    BY <1>7, StageFrame DEF CrashCaller, Held, Here, TypeOK, Executors
  <2>2. CASE StageOf(r)' = StageOf(r)
    BY <1>7, <2>1, <2>2, NoneMoves DEF CrashCaller, Life!lifeVars
  <2>3. CASE StageOf(r)' # StageOf(r)
    <3>1. caller[r] = "opened" \/ r \in Held(Inline)
      BY <1>7, <2>3, StageFrame DEF CrashCaller, Held, Here, TypeOK, Executors
    <3>2. StageOf(r) \in {"deciding", "in hand"}
      BY <3>1, StageFacts DEF Here, Executors
    <3>3. status[r] = "running"
      BY <3>1 DEF Here, QueueInv, GatesInv, InHandInv, Executors
    <3>4. \A e \in Executors : (r \notin Held(e))'
      BY <1>7, <3>1 DEF CrashCaller, Held, Here, TypeOK, QueueInv, InHandInv, Executors
    <3>5. StageOf(r)' = "lost"
      BY <1>7, <3>3, <3>4, NextStageFacts DEF CrashCaller, Here, TypeOK
    <3>6. Life!Lose({r})
      BY <1>7, <2>1, <3>2, <3>5 DEF CrashCaller, Life!Lose
    <3> QED BY <3>6 DEF Life!LifeNext
  <2> QED BY <2>2, <2>3
<1> QED BY <1>1, <1>2, <1>3, <1>4, <1>5, <1>6, <1>7 DEF CallerStep

LEMMA ExecutorMaps ==
  ASSUME Here, NEW e \in Executors, NEW r \in Runs, ExecutorStep(e, r)
  PROVE  Life!LifeNext \/ UNCHANGED Life!lifeVars
<1> USE DEF rowVars, callerVars, workerVars, execVars, answerVars, history
<1>a. r \in Held(e)
  BY DEF ExecutorStep, Begin, RefuseToStart, Act, Finish, Abandon, Held
<1>b. /\ status[r] = "running"
      /\ caller[r] # "opened"
      /\ \A f \in Executors : r \in Held(f) => f = e
      /\ StageOf(r) = "in hand"
  BY <1>a, StageFacts DEF Here, QueueInv, InHandInv
<1>1. CASE Begin(e, r)
  <2>1. \A q \in Runs : StageOf(q)' = StageOf(q)
    BY <1>1, StageFrame DEF Begin, Held, Here, TypeOK
  <2>2. starts[r] = 0
    BY <1>1 DEF Begin, Here, QueueInv, InHandInv
  <2>3. /\ ~(starts[r] > 0)
        /\ (starts[r] > 0)' = TRUE
        /\ \A q \in Runs \ {r} : (starts[q] > 0)' = (starts[q] > 0)
    BY <1>1, <2>2 DEF Begin, Here, TypeOK
  <2>4. [q \in Runs |-> starts[q] > 0]' = [[q \in Runs |-> starts[q] > 0] EXCEPT ![r] = TRUE]
    BY <2>3
  <2>5. [q \in Runs |-> StageOf(q)][r] = "in hand" /\ ~[q \in Runs |-> starts[q] > 0][r]
    BY <1>b, <2>3
  <2>6. UNCHANGED [q \in Runs |-> StageOf(q)]
    BY <2>1, NoneMoves
  <2>7. UNCHANGED <<approved, req, acted>>
    BY <1>1 DEF Begin
  <2>8. Life!RunCode(r)
    BY <2>4, <2>5, <2>6, <2>7 DEF Life!RunCode
  <2> QED BY <2>8 DEF Life!LifeNext
<1>2. CASE RefuseToStart(e, r) \/ Finish(e, r)
  <2>1. \A q \in Runs \ {r} : StageOf(q)' = StageOf(q)
    BY <1>2, StageFrame DEF RefuseToStart, Finish, FinishRun, Drop, HandBack, Return, Held, Here, TypeOK
  <2>2. StageOf(r)' = "over"
    BY <1>2, NextStageFacts DEF RefuseToStart, Finish, FinishRun, Here, TypeOK, Terminal
  <2>3. Life!EndRun(r)
    BY <1>2, <1>b, <2>1, <2>2, OneMoves DEF RefuseToStart, Finish, Life!EndRun
  <2> QED BY <2>3 DEF Life!LifeNext
<1>3. CASE Act(e, r)
  <2>1. \A q \in Runs : StageOf(q)' = StageOf(q)
    BY <1>3, StageFrame DEF Act, Held, Here, TypeOK
  <2>2. starts[r] > 0
    BY <1>3 DEF Act, Here, QueueInv, InHandInv
  <2>3. Life!Affect(r)
    BY <1>3, <1>b, <2>1, <2>2 DEF Act, Life!Affect
  <2> QED BY <2>3 DEF Life!LifeNext
<1>4. CASE Abandon(e, r)
  <2>1. \A q \in Runs \ {r} : StageOf(q)' = StageOf(q)
    BY <1>4, StageFrame DEF Abandon, Drop, Held, Here, TypeOK
  <2>2. \A f \in Executors : (r \notin Held(f))'
    BY <1>4, <1>b DEF Abandon, Drop, Held, Here, TypeOK
  <2>3. StageOf(r)' = "lost"
    BY <1>4, <1>b, <2>2, NextStageFacts DEF Abandon, Here, TypeOK
  <2>4. Life!Lose({r})
    BY <1>4, <1>b, <2>1, <2>3 DEF Abandon, Life!Lose
  <2> QED BY <2>4 DEF Life!LifeNext
<1> QED BY <1>1, <1>2, <1>3, <1>4 DEF ExecutorStep

LEMMA WorkerMaps ==
  ASSUME Here, NEW w \in Workers, WorkerStep(w)
  PROVE  Life!LifeNext \/ UNCHANGED Life!lifeVars
<1> USE DEF rowVars, callerVars, workerVars, execVars, answerVars, history
<1>1. CASE StartDraining(w) \/ StandBy(w) \/ Stop(w) \/ Exit(w) \/ ClaimSelect(w) \/ ExpireSelect(w)
  BY <1>1, Stutter DEF StartDraining, StandBy, Stop, Exit, ClaimSelect, ExpireSelect, Held
<1>2. CASE CrashWorker(w)
  <2> DEFINE S == Held(w)
  <2>1. S \in SUBSET Runs
    BY DEF Held, Here, TypeOK, Executors
  <2>2. \A q \in Runs \ S : StageOf(q)' = StageOf(q)
    BY <1>2, StageFrame DEF CrashWorker, Held, Here, TypeOK, Executors
  <2>3. \A q \in S : StageOf(q) = "in hand" /\ status[q] = "running" /\ caller[q] # "opened"
    BY <2>1, StageFacts DEF Here, QueueInv, InHandInv, Executors
  <2>4. \A q \in S : \A e \in Executors : (q \notin Held(e))'
    BY <1>2, <2>1 DEF CrashWorker, Held, Here, TypeOK, QueueInv, InHandInv, Executors
  <2>5. \A q \in S : StageOf(q)' = "lost"
    BY <1>2, <2>1, <2>3, <2>4, NextStageFacts DEF CrashWorker, Here
  <2>6. Life!Lose(S)
    BY <1>2, <2>1, <2>2, <2>3, <2>5 DEF CrashWorker, Life!Lose
  <2> QED BY <2>1, <2>6 DEF Life!LifeNext
<1>3. CASE ClaimUpdate(w)
  <2>1. PICK r \in Runs : r = selected[w]
    BY <1>3 DEF ClaimUpdate, Here, TypeOK
  <2>2. CASE status[r] = "queued"
    <3>1. /\ status' = [status EXCEPT ![r] = "running"]
          /\ claimed' = [claimed EXCEPT ![w] = @ \cup {r}]
          /\ UNCHANGED <<executing, starts, caller, req, approved, acted>>
      BY <1>3, <2>1, <2>2 DEF ClaimUpdate, UpdateStatus
    <3>2. \A q \in Runs \ {r} : StageOf(q)' = StageOf(q)
      BY <2>1, <3>1, StageFrame DEF Held, Here, TypeOK, Executors
    <3>3. (r \in Held(w))'
      BY <3>1 DEF Held, Here, TypeOK, Executors
    <3>4. StageOf(r) = "in line" /\ StageOf(r)' = "in hand"
      BY <2>1, <2>2, <3>3, StageFacts, NextStageFacts DEF Here, Executors
    <3>5. Life!TakeUp(r)
      BY <2>1, <3>1, <3>2, <3>4, OneMoves DEF Life!TakeUp
    <3> QED BY <2>1, <3>5 DEF Life!LifeNext
  <2>3. CASE status[r] # "queued"
    BY <1>3, <2>1, <2>3, Stutter DEF ClaimUpdate, UpdateStatus, Held
  <2> QED BY <2>2, <2>3
<1>4. CASE ExpireClose(w)
  <2> DEFINE S == {r \in expiring[w] : status[r] = "awaiting_approval"}
  <2>1. S \in SUBSET Runs
    BY DEF Here, TypeOK
  <2>2. \A q \in Runs \ S : StageOf(q)' = StageOf(q)
    BY <1>4, StageFrame DEF ExpireClose, Held
  <2>3. \A q \in S : StageOf(q) = "parked" /\ StageOf(q)' = "over"
    BY <1>4, <2>1, StageFacts, NextStageFacts DEF ExpireClose, Here, Terminal
  <2>4. Life!GiveUp(S)
    BY <1>4, <2>1, <2>2, <2>3 DEF ExpireClose, Life!GiveUp
  <2> QED BY <2>1, <2>4 DEF Life!LifeNext
<1> QED BY <1>1, <1>2, <1>3, <1>4 DEF WorkerStep

LEMMA AnswererMaps ==
  ASSUME Here, NEW a \in Answerers, AnswererStep(a)
  PROVE  Life!LifeNext \/ UNCHANGED Life!lifeVars
<1> USE DEF rowVars, callerVars, workerVars, execVars, answerVars, history
<1>1. ASSUME NEW verb \in Verbs, NEW r \in Runs, SeeItParked(a, verb, r)
      PROVE  UNCHANGED Life!lifeVars
  BY <1>1, Stutter DEF SeeItParked, Held
<1>2. ASSUME NEW r \in Runs, Approve(a, r)
      PROVE  Life!LifeNext \/ UNCHANGED Life!lifeVars
  <2>1. CASE status[r] = "awaiting_approval"
    <3>1. /\ status' = [status EXCEPT ![r] = "queued"]
          /\ approved' = [approved EXCEPT ![r] = TRUE]
      BY <1>2, <2>1 DEF Approve, UpdateStatus
    <3>2. \A q \in Runs \ {r} : StageOf(q)' = StageOf(q)
      BY <1>2, <3>1, StageFrame DEF Approve, Held, Here, TypeOK
    <3>3. StageOf(r) = "parked" /\ StageOf(r)' = "in line"
      BY <2>1, <3>1, StageFacts, NextStageFacts DEF Here, TypeOK
    <3>4. Life!Consent(r)
      BY <1>2, <3>1, <3>2, <3>3, OneMoves DEF Approve, Life!Consent
    <3> QED BY <3>4 DEF Life!LifeNext
  <2>2. CASE status[r] # "awaiting_approval"
    BY <1>2, <2>2, Stutter DEF Approve, UpdateStatus, Held
  <2> QED BY <2>1, <2>2
<1>3. ASSUME NEW r \in Runs, Reject(a, r)
      PROVE  Life!LifeNext \/ UNCHANGED Life!lifeVars
  <2>1. CASE status[r] = "awaiting_approval"
    <3>1. status' = [status EXCEPT ![r] = "rejected"]
      BY <1>3, <2>1 DEF Reject, UpdateStatus
    <3>2. \A q \in Runs \ {r} : StageOf(q)' = StageOf(q)
      BY <1>3, <3>1, StageFrame DEF Reject, Held, Here, TypeOK
    <3>3. StageOf(r) = "parked" /\ StageOf(r)' = "over"
      BY <2>1, <3>1, StageFacts, NextStageFacts DEF Here, TypeOK, Terminal
    <3>4. Life!GiveUp({r})
      BY <1>3, <3>1, <3>2, <3>3 DEF Reject, Life!GiveUp
    <3> QED BY <3>4 DEF Life!LifeNext
  <2>2. CASE status[r] # "awaiting_approval"
    BY <1>3, <2>2, Stutter DEF Reject, UpdateStatus, Held
  <2> QED BY <2>1, <2>2
<1> QED BY <1>1, <1>2, <1>3 DEF AnswererStep

(* Every step of the queue is a step of the runs' lives or invisible       *)
(* there.                                                                  *)
THEOREM QueueImplementsLifecycle == Spec => ImplementsLifecycle
<1>1. Here /\ [Next]_vars => [Life!LifeNext]_(Life!lifeVars)
  <2> SUFFICES ASSUME Here, [Next]_vars
               PROVE  Life!LifeNext \/ UNCHANGED Life!lifeVars
    OBVIOUS
  <2>1. CASE Tick \/ UNCHANGED vars
    BY <2>1, Stutter DEF Tick, vars, Held, rowVars, callerVars, execVars, history
  <2>2. CASE Next /\ ~Tick
    BY <2>2, CallerMaps, ExecutorMaps, WorkerMaps, AnswererMaps DEF Next
  <2> QED BY <2>1, <2>2
<1> QED BY <1>1, InitMaps, Typing, Inductive, PTL DEF Spec, Here, ImplementsLifecycle, Life!LifeSpec

-----------------------------------------------------------------------------
(* A home is made of the steps of its queue and of its lock.               *)

(* Every step of a home is one of its queue, or moves the lock only.       *)
LEMMA HomeTakesQueueSteps == HomeSpec => Spec
<1>1. HomeInit => Init
  BY DEF HomeInit
<1>2. [HomeNext]_homeVars => [Next]_vars
  <2> SUFFICES ASSUME [HomeNext]_homeVars PROVE [Next]_vars
    OBVIOUS
  <2>1. ASSUME NEW r \in Runs, LookAtLock(r) PROVE Next
    <3>1. PICK live \in BOOLEAN : Look(r, live)
      BY <2>1 DEF LookAtLock, Lock!HasLiveWorker
    <3> QED BY <3>1 DEF Next, CallerStep
  <2>2. ASSUME NEW w \in Workers, StartDaemon(w) PROVE Next
    BY <2>2 DEF StartDaemon, Next, WorkerStep
  <2>3. ASSUME NEW w \in Workers, HeartbeatAndExpire(w) PROVE [Next]_vars
    <3>1. CASE StaleParked = {}
      BY <2>3, <3>1 DEF HeartbeatAndExpire, Lock!Beat, queueOnly, vars, workerVars
    <3>2. CASE StaleParked # {}
      BY <2>3, <3>2 DEF HeartbeatAndExpire, Next, WorkerStep
    <3> QED BY <3>1, <3>2
  <2>4. ASSUME NEW w \in Workers, StopInOrder(w) PROVE Next
    BY <2>4 DEF StopInOrder, Next, WorkerStep
  <2>5. ASSUME NEW w \in Workers, ExitAndRelease(w) PROVE Next
    BY <2>5 DEF ExitAndRelease, Next, WorkerStep
  <2>6. ASSUME NEW w \in Workers, KillDaemon(w) PROVE Next
    BY <2>6 DEF KillDaemon, Next, WorkerStep
  <2>7. CASE QueueStep
    BY <2>7 DEF QueueStep, Next, CallerStep, WorkerStep
  <2>8. CASE TimePasses
    BY <2>8 DEF TimePasses, Next
  <2>9. CASE UNCHANGED homeVars
    BY <2>9 DEF homeVars
  <2> QED BY <2>1, <2>2, <2>3, <2>4, <2>5, <2>6, <2>7, <2>8, <2>9 DEF HomeNext
<1> QED BY <1>1, <1>2, PTL DEF HomeSpec, Spec

(* Every step of a home is one of its lock, or does not touch it.          *)
LEMMA HomeTakesLockSteps == HomeSpec => Lock!LockSpec
<1>1. HomeInit => Lock!LockInit
  BY DEF HomeInit, Init, Lock!LockInit
<1>2. [HomeNext]_homeVars => [Lock!LockNext]_(Lock!lockVars)
  <2> SUFFICES ASSUME [HomeNext]_homeVars PROVE [Lock!LockNext]_(Lock!lockVars)
    OBVIOUS
  <2>1. ASSUME NEW r \in Runs, LookAtLock(r) PROVE UNCHANGED Lock!lockVars
    BY <2>1 DEF LookAtLock, Look, Lock!lockVars, workerVars
  <2>2. ASSUME NEW w \in Workers,
               StartDaemon(w) \/ HeartbeatAndExpire(w) \/ StopInOrder(w)
                 \/ ExitAndRelease(w) \/ KillDaemon(w)
        PROVE  Lock!LockNext
    BY <2>2 DEF StartDaemon, HeartbeatAndExpire, StopInOrder, ExitAndRelease, KillDaemon,
                Lock!LockNext
  <2>3. CASE QueueStep
    <3> USE DEF Lock!lockVars, workerVars
    <3>1. UNCHANGED <<lock, lastBeat>>
      BY <2>3 DEF QueueStep
    <3>2. ASSUME NEW r \in Runs, CallerStep(r) PROVE UNCHANGED <<now, phase>>
      BY <3>2 DEF CallerStep, Look, AnswerUnknown, OpenRun, RefuseRun, ParkRun, EnqueueRun,
         AdmitInline, SeeItOver, StopWaiting, CrashCaller
    <3>3. ASSUME NEW e \in Executors, NEW r \in Runs, ExecutorStep(e, r)
          PROVE  UNCHANGED <<now, phase>>
      BY <3>3 DEF ExecutorStep, Begin, RefuseToStart, Act, Finish, Abandon
    <3>4. ASSUME NEW w \in Workers, ClaimSelect(w) \/ ClaimUpdate(w) \/ ExpireClose(w)
          PROVE  UNCHANGED <<now, phase>>
      BY <3>4 DEF ClaimSelect, ClaimUpdate, ExpireClose
    <3>5. ASSUME NEW a \in Answerers, AnswererStep(a) PROVE UNCHANGED <<now, phase>>
      BY <3>5 DEF AnswererStep, SeeItParked, Approve, Reject
    <3> QED BY <2>3, <3>1, <3>2, <3>3, <3>4, <3>5 DEF QueueStep, CallerStep
  <2>4. CASE TimePasses
    BY <2>4 DEF TimePasses, Lock!LockNext
  <2>5. CASE UNCHANGED homeVars
    BY <2>5 DEF homeVars, vars, workerVars, Lock!lockVars
  <2> QED BY <2>1, <2>2, <2>3, <2>4, <2>5 DEF HomeNext
<1> QED BY <1>1, <1>2, PTL DEF HomeSpec, Lock!LockSpec
-----------------------------------------------------------------------------
\* A daemon is between the two statements of a claim only in its loop.
ClaimersDrain == \A w \in Workers : selected[w] # NoRun => phase[w] = "draining"

LEMMA ClaimersDrainAlways == Spec => []ClaimersDrain
<1>1. Init => ClaimersDrain
  BY DEF Init, ClaimersDrain
<1>2. TypeOK /\ ClaimersDrain /\ [Next]_vars => ClaimersDrain'
  <2> SUFFICES ASSUME TypeOK, ClaimersDrain, [Next]_vars PROVE ClaimersDrain'
    OBVIOUS
  <2> USE DEF TypeOK, ClaimersDrain, workerVars
  <2>1. ASSUME NEW r \in Runs, CallerStep(r) PROVE UNCHANGED workerVars
    BY <2>1 DEF CallerStep, Look, AnswerUnknown, OpenRun, RefuseRun, ParkRun, EnqueueRun,
       AdmitInline, SeeItOver, StopWaiting, CrashCaller
  <2>2. ASSUME NEW e \in Executors, NEW r \in Runs, ExecutorStep(e, r) PROVE UNCHANGED workerVars
    BY <2>2 DEF ExecutorStep, Begin, RefuseToStart, Act, Finish, Abandon
  <2>3. ASSUME NEW w \in Workers, WorkerStep(w) PROVE ClaimersDrain'
    BY <2>3 DEF WorkerStep, StartDraining, StandBy, Stop, Exit, CrashWorker, ClaimSelect,
       ClaimUpdate, ExpireSelect, ExpireClose, Busy
  <2>4. ASSUME NEW a \in Answerers, AnswererStep(a) PROVE UNCHANGED workerVars
    BY <2>4 DEF AnswererStep, SeeItParked, Approve, Reject
  <2>5. CASE Tick \/ UNCHANGED vars
    BY <2>5 DEF Tick, vars
  <2> QED BY <2>1, <2>2, <2>3, <2>4, <2>5 DEF Next
<1> QED BY <1>1, <1>2, Typing, PTL DEF Spec

\* The theorems of the lock, for a home's daemons.
LockP == INSTANCE QueueLockProofs WITH Daemons <- Workers

LEMMA HomeHasOneDrainer ==
  ASSUME MaxStall <= StaleAfter
  PROVE  HomeSpec => []LockP!SingleDrainer
<1>1. Lock!LockInit => LockP!LockInit
  BY DEF Lock!LockInit, LockP!LockInit
<1>2. [Lock!LockNext]_(Lock!lockVars) => [LockP!LockNext]_(LockP!lockVars)
  BY DEF Lock!LockNext, LockP!LockNext, Lock!lockVars, LockP!lockVars, Lock!Start, LockP!Start,
     Lock!Beat, LockP!Beat, Lock!StopDaemon, LockP!StopDaemon, Lock!ExitDaemon, LockP!ExitDaemon,
     Lock!Kill, LockP!Kill, Lock!Advance, LockP!Advance, Lock!TakeLock, LockP!TakeLock,
     Lock!ReleaseLock, LockP!ReleaseLock, Lock!MayTake, LockP!MayTake, Lock!Stale, LockP!Stale
<1>3. LockP!LockSpec => []LockP!SingleDrainer
  BY LockP!SingleDrainerAlways, HomeAssumption DEF Lock!LockAssumption, LockP!LockAssumption
<1> QED BY <1>1, <1>2, <1>3, HomeTakesLockSteps, PTL
        DEF Lock!LockSpec, LockP!LockSpec

(* If no loop is held up for longer than a lock stays fresh, two daemons   *)
(* are never both between the SELECT and the UPDATE of claim_queued_run.   *)
THEOREM OneClaimerAlways ==
  ASSUME MaxStall <= StaleAfter
  PROVE  HomeSpec => []OneClaimer
<1>1. ClaimersDrain /\ LockP!SingleDrainer => OneClaimer
  BY DEF ClaimersDrain, LockP!SingleDrainer, OneClaimer
<1>2. HomeSpec => []LockP!SingleDrainer
  BY HomeHasOneDrainer
<1>3. HomeSpec => []ClaimersDrain
  BY HomeTakesQueueSteps, ClaimersDrainAlways
<1> QED BY <1>1, <1>2, <1>3, PTL

(* What is proved of the queue alone holds of a home: its runs live the    *)
(* lives of RunLifecycle, each executed by one worker, once, and only what *)
(* was approved (worker.py:95-139, runs.py:174-331, db.py:463-505).        *)
THEOREM HomeKeepsTheQueuesPromises ==
  HomeSpec => /\ ImplementsLifecycle
              /\ [](OneExecutor /\ StartedAtMostOnce /\ NothingActsUnapproved /\ WithinConcurrency)
BY HomeTakesQueueSteps, QueueImplementsLifecycle, OneExecutorAlways, StartedAtMostOnceAlways,
   NothingActsUnapprovedAlways, WithinConcurrencyAlways
=============================================================================
