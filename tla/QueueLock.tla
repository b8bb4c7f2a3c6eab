----------------------------- MODULE QueueLock -----------------------------
(***************************************************************************)
(* The one row of `queue_lock`: which daemon may drain the queue of a home.*)
(*                                                                         *)
(* drain() takes the lock once, when it starts; its loop renews it every   *)
(* Heartbeat ticks and does not look at whether it still has it; a lock    *)
(* not renewed for more than StaleAfter ticks may be taken by whoever      *)
(* asks.  A daemon that is refused at start answers questions and never    *)
(* asks again.  A daemon told to stop waits for its runs without renewing. *)
(***************************************************************************)
EXTENDS Integers

CONSTANTS
    Daemons,       \* processes that call Worker.drain; a restart is a new pid
    NoLock,        \* the table is empty (or holds the unowned row, heartbeat '')
    Gone,          \* the pid of a process that was killed
    Heartbeat,     \* HEARTBEAT_SECONDS
    StaleAfter,    \* STALE_AFTER_SECONDS
    MaxStall,      \* the longest a draining loop goes without trying to renew
    MaxTime,       \* bound on the clock, for model checking
    Faults         \* "crash": daemons may be killed; "stop": told to stop

ASSUME LockAssumption ==
    /\ Gone \notin Daemons
    /\ Heartbeat \in Nat \ {0}
    /\ StaleAfter \in Nat
    /\ MaxStall \in Nat /\ Heartbeat <= MaxStall
    /\ MaxTime \in Nat
    /\ NoLock \notin [owner : Daemons \cup {Gone}, beat : 0..MaxTime]

VARIABLES
    now,           \* the wall clock, in ticks
    phase,         \* where each daemon's drain() stands
    lock,          \* the row: its owner and its heartbeat
    lastBeat       \* Worker._loop's local last_beat

lockVars == <<now, phase, lock, lastBeat>>

-----------------------------------------------------------------------------
DaemonPhases == {"off", "standby", "draining", "stopping"}

\* heartbeat < stale_before(), to the second
Stale == now - lock.beat > StaleAfter

\* has_live_worker: is somebody draining, as far as the lock can tell?
HasLiveWorker == lock # NoLock /\ ~Stale

\* Bugs this code could have had; nothing below uses these definitions.
MayAlwaysTake(d)    == TRUE
MayNeverTakeOver(d) == lock = NoLock \/ lock.owner = d
ExitKeepingLock(d) ==
    /\ phase[d] = "stopping"
    /\ phase' = [phase EXCEPT ![d] = "off"]
    /\ UNCHANGED <<now, lock, lastBeat>>

\* The WHERE of take_queue_lock's UPDATE.
MayTake(d) == lock = NoLock \/ lock.owner = d \/ Stale

\* take_queue_lock: one transaction, and a renewal when the lock is ours.
TakeLock(d) == lock' = IF MayTake(d) THEN [owner |-> d, beat |-> now] ELSE lock

\* release_queue_lock: DELETE ... WHERE owner_pid = ? AND hostname = ?
ReleaseLock(d) == lock' = IF lock # NoLock /\ lock.owner = d THEN NoLock ELSE lock

LockInit ==
    /\ now = 0
    /\ phase = [d \in Daemons |-> "off"]
    /\ lock = NoLock
    /\ lastBeat = [d \in Daemons |-> 0]

-----------------------------------------------------------------------------
\* drain(): the first heartbeat decides between draining and standing by.
\* Standing by, the `finally` releases a lock this daemon does not have.
Start(d) ==
    /\ phase[d] = "off"
    /\ IF MayTake(d)
         THEN /\ TakeLock(d)
              /\ phase' = [phase EXCEPT ![d] = "draining"]
              /\ lastBeat' = [lastBeat EXCEPT ![d] = now]
         ELSE /\ ReleaseLock(d)
              /\ phase' = [phase EXCEPT ![d] = "standby"]
              /\ UNCHANGED lastBeat
    /\ UNCHANGED now

\* _loop: the heartbeat is due.  Whether it worked is not looked at.
Beat(d) ==
    /\ phase[d] = "draining"
    /\ now - lastBeat[d] >= Heartbeat
    /\ lastBeat' = [lastBeat EXCEPT ![d] = now]
    /\ TakeLock(d)
    /\ UNCHANGED <<now, phase>>

\* stop is set: a draining daemon waits for its runs, another just ends.
StopDaemon(d) ==
    /\ "stop" \in Faults
    /\ \/ phase[d] = "draining" /\ phase' = [phase EXCEPT ![d] = "stopping"]
       \/ phase[d] = "standby" /\ phase' = [phase EXCEPT ![d] = "off"]
    /\ UNCHANGED <<now, lock, lastBeat>>

\* drain() returns: its runs are over and the lock is let go.
ExitDaemon(d) ==
    /\ phase[d] = "stopping"
    /\ phase' = [phase EXCEPT ![d] = "off"]
    /\ ReleaseLock(d)
    /\ UNCHANGED <<now, lastBeat>>

\* Killed: the row stays, under a pid no live process has.
Kill(d) ==
    /\ "crash" \in Faults
    /\ phase[d] # "off"
    /\ phase' = [phase EXCEPT ![d] = "off"]
    /\ lock' = IF lock # NoLock /\ lock.owner = d THEN [lock EXCEPT !.owner = Gone] ELSE lock
    /\ UNCHANGED <<now, lastBeat>>

\* Time passes.  No draining loop is held up for longer than MaxStall.
Advance ==
    /\ now < MaxTime
    /\ \A d \in Daemons : phase[d] = "draining" => now - lastBeat[d] < MaxStall
    /\ now' = now + 1
    /\ UNCHANGED <<phase, lock, lastBeat>>

LockNext ==
    \/ \E d \in Daemons :
          Start(d) \/ Beat(d) \/ StopDaemon(d) \/ ExitDaemon(d) \/ Kill(d)
    \/ Advance

LockSpec == LockInit /\ [][LockNext]_lockVars

\* Time passes by itself; the rest is up to daemons nobody need start or stop.
LockFairSpec == LockSpec /\ WF_lockVars(Advance) /\ \A d \in Daemons : WF_lockVars(Beat(d))

-----------------------------------------------------------------------------
LockTypeOK ==
    /\ now \in 0..MaxTime
    /\ phase \in [Daemons -> DaemonPhases]
    /\ lock \in [owner : Daemons \cup {Gone}, beat : 0..MaxTime] \cup {NoLock}
    /\ lastBeat \in [Daemons -> 0..MaxTime]

(* Exactly one process drains the queue (db.py:126, SPEC.md:310).  Holds   *)
(* as long as no loop is held up for longer than StaleAfter, whatever      *)
(* daemons start, stand by, stop and are killed in the meantime.           *)
SingleDrainer ==
    \A d, e \in Daemons : phase[d] = "draining" /\ phase[e] = "draining" => d = e

(* A lock whose process is alive is the lock of one that still has runs or *)
(* still claims them: no way of ending leaves a daemon's row behind, and   *)
(* callers are not told of a live worker that has left (worker.py:104-107).*)
OwnerIsAtWork ==
    lock # NoLock /\ lock.owner # Gone => phase[lock.owner] \in {"draining", "stopping"}

(* The loop never looks at what take_queue_lock answers (worker.py:116).   *)
(* It need not while no loop is held up beyond StaleAfter: a daemon that   *)
(* has just asked for the lock and goes on draining has it (db.py:463).    *)
(* With MaxStall > StaleAfter this is false.                               *)
DrainsWithTheLock ==
    \A d \in Daemons :
        phase[d] = "draining" /\ lastBeat[d] = now => lock # NoLock /\ lock.owner = d

(* A daemon that was killed does not lock the queue for ever               *)
(* (db.py:466-468): its row is deleted, retaken or goes stale.  A row      *)
(* written less than StaleAfter before the bound on the clock is outside   *)
(* the model.                                                              *)
KilledOwnerGivesWay ==
    (lock # NoLock /\ lock.owner = Gone /\ lock.beat < MaxTime - StaleAfter)
        ~> ((\A d \in Daemons : MayTake(d)) \/ lock.owner \in Daemons)
=============================================================================
