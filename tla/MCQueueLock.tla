---------------------------- MODULE MCQueueLock ----------------------------
(* Instances of QueueLock for TLC.                                         *)
EXTENDS QueueLock
=============================================================================
