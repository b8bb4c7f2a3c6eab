---------------------------- MODULE RunlaceHome ----------------------------
(***************************************************************************)
(* One Runlace home: the queue and the lock of its drainer together.       *)
(*                                                                         *)
(* RunQueue leaves open what has_live_worker answers and which daemons     *)
(* drain; here both are read off the one row of queue_lock.  Actions of    *)
(* RunQueue are taken over whole, each with what it does to the lock.      *)
(***************************************************************************)
EXTENDS RunQueue

CONSTANTS
    NoLock, Gone, Heartbeat, StaleAfter, MaxStall   \* see QueueLock

VARIABLES lock, lastBeat

Lock == INSTANCE QueueLock WITH Daemons <- Workers

ASSUME HomeAssumption == Lock!LockAssumption

queueOnly == <<rowVars, callerVars, selected, expiring, execVars, answerVars, history>>
homeVars  == <<vars, lock, lastBeat>>

HomeInit == Init /\ lock = NoLock /\ lastBeat = [w \in Workers |-> 0]

-----------------------------------------------------------------------------
\* Bugs this code could have had; not part of HomeNext.

\* A caller takes it for granted that a daemon is there.
LookHopefully(r) == Look(r, TRUE) /\ UNCHANGED <<lock, lastBeat>>

-----------------------------------------------------------------------------
\* run_workflow asks the lock, unless an injected call_tool makes it moot.
LookAtLock(r) ==
    /\ \E live \in {Lock!HasLiveWorker, FALSE} : Look(r, live)
    /\ UNCHANGED <<lock, lastBeat>>

\* drain(): the lock decides between the loop and standing by.
StartDaemon(w) ==
    /\ Lock!Start(w)
    /\ StartDraining(w) \/ StandBy(w)

\* _loop, once in a Heartbeat: renew, then expire what has been parked too long.
HeartbeatAndExpire(w) ==
    /\ ~Busy(w)
    /\ Lock!Beat(w)
    /\ IF StaleParked = {} THEN UNCHANGED queueOnly ELSE ExpireSelect(w)

StopInOrder(w) == Stop(w) /\ Lock!StopDaemon(w)

ExitAndRelease(w) == Exit(w) /\ Lock!ExitDaemon(w)

KillDaemon(w) == CrashWorker(w) /\ Lock!Kill(w)

TimePasses == Tick /\ Lock!Advance

\* What neither reads nor writes the lock.
QueueStep ==
    /\ \/ \E r \in Runs :
             \/ AnswerUnknown(r) \/ OpenRun(r) \/ RefuseRun(r) \/ ParkRun(r)
             \/ EnqueueRun(r) \/ AdmitInline(r) \/ SeeItOver(r) \/ StopWaiting(r)
             \/ CrashCaller(r)
       \/ \E e \in Executors, r \in Runs : ExecutorStep(e, r)
       \/ \E w \in Workers : ClaimSelect(w) \/ ClaimUpdate(w) \/ ExpireClose(w)
       \/ \E a \in Answerers : AnswererStep(a)
    /\ UNCHANGED <<lock, lastBeat>>

HomeNext ==
    \/ \E r \in Runs : LookAtLock(r)
    \/ \E w \in Workers :
          \/ StartDaemon(w) \/ HeartbeatAndExpire(w) \/ StopInOrder(w)
          \/ ExitAndRelease(w) \/ KillDaemon(w)
    \/ QueueStep
    \/ TimePasses

HomeSpec == HomeInit /\ [][HomeNext]_homeVars

\* As in RunQueue and QueueLock: loops go round, tasks end, time passes.
HomeFairness ==
    /\ \A r \in Runs : WF_homeVars(Gates(r) /\ UNCHANGED <<lock, lastBeat>>)
                       /\ WF_homeVars(SeeItOver(r) /\ UNCHANGED <<lock, lastBeat>>)
    /\ \A e \in Executors, r \in Runs :
          WF_homeVars((Begin(e, r) \/ RefuseToStart(e, r) \/ Finish(e, r))
                         /\ UNCHANGED <<lock, lastBeat>>)
    /\ \A w \in Workers :
          /\ WF_homeVars((ClaimSelect(w) \/ ClaimUpdate(w) \/ ExpireClose(w))
                            /\ UNCHANGED <<lock, lastBeat>>)
          /\ WF_homeVars(HeartbeatAndExpire(w))
    /\ WF_homeVars(TimePasses)

HomeFairSpec == HomeSpec /\ HomeFairness

-----------------------------------------------------------------------------
(* With loops that are never held up beyond StaleAfter, two daemons are    *)
(* never both between the two statements of a claim: the claim's own test  *)
(* is then a second line of defence (worker.py:15-18).                     *)
OneClaimer ==
    \A v, w \in Workers : selected[v] # NoRun /\ selected[w] # NoRun => v = w

\* The daemon that drains is neither stopped nor killed.
DrainerStaysUp ==
    [](/\ \A w \in Workers : phase[w] # "stopping"
       /\ lock # NoLock => lock.owner # Gone)

(* A caller that waits for ever (wait=None) hangs on one look at the lock, *)
(* taken before the gates and never repeated (runs.py:174).  Still, as     *)
(* long as no daemon is killed or stopped, it is told how its run ended,   *)
(* unless the task that had the run failed and left the row `running`      *)
(* (worker.py:146-150): then nobody has it and nobody will tell.  A run    *)
(* is never handed over to a daemon that stands by.                        *)
HandedOverIsServed ==
    DrainerStaysUp =>
        \A r \in Runs : (caller[r] = "waiting")
                            ~> (caller[r] \in {"answered", "dead"} \/ StageOf(r) = "lost")
=============================================================================
