----------------------------- MODULE MCRunQueue -----------------------------
(* Instances of RunQueue for TLC.                                          *)
EXTENDS RunQueue, TLC

Call(flaw, confirm, dry, ask, acts, forever) ==
    [flaw |-> flaw, confirm |-> confirm, dry |-> dry, ask |-> ask,
     acts |-> acts, forever |-> forever]

\* A side-effecting call nobody confirmed: parked, or refused inline.
Unconfirmed == Call("none", FALSE, FALSE, TRUE, TRUE, FALSE)
\* The same one confirmed: acts at once, inline or queued; waits for ever.
Confirmed   == Call("none", TRUE, FALSE, TRUE, TRUE, TRUE)
\* A read-only call, waited for only so long.
Reading     == Call("none", FALSE, FALSE, TRUE, FALSE, FALSE)
\* A call of no workflow.
Unknown     == Call("unknown-workflow", FALSE, FALSE, TRUE, FALSE, FALSE)

MixedRequests == {Unconfirmed, Confirmed}
QueuedRequests == {Unconfirmed, Reading, Unknown}
=============================================================================
