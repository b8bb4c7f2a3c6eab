-------------------------- MODULE QueueLockProofs --------------------------
(***************************************************************************)
(* For any number of daemons and any heartbeat, staleness and clock: who   *)
(* the lock belongs to, and when that makes the drainer unique.            *)
(***************************************************************************)
EXTENDS QueueLock, TLAPS

\* A draining daemon owns the row, and what it wrote there is not stale.
HoldsFreshLock ==
    \A d \in Daemons :
        phase[d] = "draining" =>
            /\ lock = [owner |-> d, beat |-> lastBeat[d]]
            /\ now - lastBeat[d] <= MaxStall

LEMMA LockTyping == LockSpec => []LockTypeOK
<1>1. LockInit => LockTypeOK
  BY LockAssumption DEF LockInit, LockTypeOK, DaemonPhases
<1>2. LockTypeOK /\ [LockNext]_lockVars => LockTypeOK'
  <2> SUFFICES ASSUME LockTypeOK, [LockNext]_lockVars PROVE LockTypeOK'
    OBVIOUS
  <2> USE LockAssumption DEF LockTypeOK, DaemonPhases
  <2>1. ASSUME NEW d \in Daemons, Start(d) PROVE LockTypeOK'
    BY <2>1 DEF Start, TakeLock, ReleaseLock
  <2>2. ASSUME NEW d \in Daemons, Beat(d) PROVE LockTypeOK'
    BY <2>2 DEF Beat, TakeLock
  <2>3. ASSUME NEW d \in Daemons, StopDaemon(d) PROVE LockTypeOK'
    BY <2>3 DEF StopDaemon
  <2>4. ASSUME NEW d \in Daemons, ExitDaemon(d) PROVE LockTypeOK'
    BY <2>4 DEF ExitDaemon, ReleaseLock
  <2>5. ASSUME NEW d \in Daemons, Kill(d) PROVE LockTypeOK'
    <3>1. lock' \in [owner : Daemons \cup {Gone}, beat : 0..MaxTime] \cup {NoLock}
      BY <2>5 DEF Kill
    <3> QED BY <2>5, <3>1 DEF Kill
  <2>6. CASE Advance
    BY <2>6 DEF Advance
  <2>7. CASE UNCHANGED lockVars
    BY <2>7 DEF lockVars
  <2> QED BY <2>1, <2>2, <2>3, <2>4, <2>5, <2>6, <2>7 DEF LockNext
<1> QED BY <1>1, <1>2, PTL DEF LockSpec

(* No way of starting, renewing, stopping or dying leaves a row behind     *)
(* whose process is alive but not at work.                                 *)
THEOREM OwnerIsAtWorkAlways == LockSpec => []OwnerIsAtWork
<1>1. LockInit => OwnerIsAtWork
  BY DEF LockInit, OwnerIsAtWork
<1>2. LockTypeOK /\ OwnerIsAtWork /\ [LockNext]_lockVars => OwnerIsAtWork'
  <2> SUFFICES ASSUME LockTypeOK, OwnerIsAtWork, [LockNext]_lockVars PROVE OwnerIsAtWork'
    OBVIOUS
  <2> USE LockAssumption DEF LockTypeOK, OwnerIsAtWork
  <2>1. ASSUME NEW d \in Daemons, Start(d) PROVE OwnerIsAtWork'
    BY <2>1 DEF Start, TakeLock, ReleaseLock
  <2>2. ASSUME NEW d \in Daemons, Beat(d) PROVE OwnerIsAtWork'
    BY <2>2 DEF Beat, TakeLock
  <2>3. ASSUME NEW d \in Daemons, StopDaemon(d) PROVE OwnerIsAtWork'
    BY <2>3 DEF StopDaemon
  <2>4. ASSUME NEW d \in Daemons, ExitDaemon(d) PROVE OwnerIsAtWork'
    BY <2>4 DEF ExitDaemon, ReleaseLock
  <2>5. ASSUME NEW d \in Daemons, Kill(d) PROVE OwnerIsAtWork'
    BY <2>5 DEF Kill
  <2>6. CASE Advance \/ UNCHANGED lockVars
    BY <2>6 DEF Advance, lockVars
  <2> QED BY <2>1, <2>2, <2>3, <2>4, <2>5, <2>6 DEF LockNext
<1> QED BY <1>1, <1>2, LockTyping, PTL DEF LockSpec

\* With loops that come back while their lock is fresh, nobody takes it over.
LEMMA FreshLock ==
  ASSUME MaxStall <= StaleAfter
  PROVE  LockSpec => []HoldsFreshLock
<1>1. LockInit => HoldsFreshLock
  BY DEF LockInit, HoldsFreshLock
<1>2. LockTypeOK /\ OwnerIsAtWork /\ HoldsFreshLock /\ [LockNext]_lockVars => HoldsFreshLock'
  <2> SUFFICES ASSUME LockTypeOK, OwnerIsAtWork, HoldsFreshLock, [LockNext]_lockVars
               PROVE  HoldsFreshLock'
    OBVIOUS
  <2> USE LockAssumption DEF LockTypeOK, HoldsFreshLock
  <2>0. \A d, e \in Daemons : phase[e] = "draining" /\ MayTake(d) => d = e
    BY DEF MayTake, Stale
  <2>1. ASSUME NEW d \in Daemons, Start(d) PROVE HoldsFreshLock'
    BY <2>0, <2>1 DEF Start, TakeLock, ReleaseLock
  <2>2. ASSUME NEW d \in Daemons, Beat(d) PROVE HoldsFreshLock'
    BY <2>0, <2>2 DEF Beat, TakeLock, MayTake
  <2>3. ASSUME NEW d \in Daemons, StopDaemon(d) PROVE HoldsFreshLock'
    BY <2>3 DEF StopDaemon
  <2>4. ASSUME NEW d \in Daemons, ExitDaemon(d) PROVE HoldsFreshLock'
    BY <2>4 DEF ExitDaemon, ReleaseLock
  <2>5. ASSUME NEW d \in Daemons, Kill(d) PROVE HoldsFreshLock'
    BY <2>5 DEF Kill
  <2>6. CASE Advance
    BY <2>6 DEF Advance
  <2>7. CASE UNCHANGED lockVars
    BY <2>7 DEF lockVars
  <2> QED BY <2>1, <2>2, <2>3, <2>4, <2>5, <2>6, <2>7 DEF LockNext
<1> QED BY <1>1, <1>2, LockTyping, OwnerIsAtWorkAlways, PTL DEF LockSpec

(* If no loop is ever held up for longer than a lock stays fresh, at most  *)
(* one process drains the queue.                                           *)
THEOREM SingleDrainerAlways ==
  ASSUME MaxStall <= StaleAfter
  PROVE  LockSpec => []SingleDrainer
<1>1. HoldsFreshLock => SingleDrainer
  BY DEF HoldsFreshLock, SingleDrainer
<1> QED BY <1>1, FreshLock, PTL

(* ... and a daemon that has just renewed the lock has it, although _loop  *)
(* does not look at what take_queue_lock answers (worker.py:116).          *)
THEOREM DrainsWithTheLockAlways ==
  ASSUME MaxStall <= StaleAfter
  PROVE  LockSpec => []DrainsWithTheLock
<1>1. LockTypeOK /\ HoldsFreshLock => DrainsWithTheLock
  BY LockAssumption DEF LockTypeOK, HoldsFreshLock, DrainsWithTheLock
<1> QED BY <1>1, LockTyping, FreshLock, PTL
=============================================================================
