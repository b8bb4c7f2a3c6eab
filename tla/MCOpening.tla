----------------------------- MODULE MCOpening -----------------------------
(* Three processes, the last of an older Runlace; the third migration is     *)
(* the one that says IF NOT EXISTS.                                          *)
EXTENDS Opening

CONSTANTS p1, p2, p3

MCLevel == [p \in Procs |-> IF p = p3 THEN 3 ELSE 5]
=============================================================================
