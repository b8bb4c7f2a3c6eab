--------------------------- MODULE MCRunlaceHome ---------------------------
(* Instances of RunlaceHome for TLC.                                       *)
EXTENDS RunlaceHome, TLC

Call(flaw, confirm, dry, ask, acts, forever) ==
    [flaw |-> flaw, confirm |-> confirm, dry |-> dry, ask |-> ask,
     acts |-> acts, forever |-> forever]

\* A side-effecting call nobody confirmed, the same one as a rehearsal, under
\* approval="allow", a read-only call waited for, and two that are turned away.
Unconfirmed == Call("none", FALSE, FALSE, TRUE, TRUE, FALSE)
Rehearsal   == Call("none", FALSE, TRUE, TRUE, TRUE, FALSE)
Allowed     == Call("none", FALSE, FALSE, FALSE, TRUE, TRUE)
Reading     == Call("none", FALSE, FALSE, TRUE, FALSE, TRUE)
Drifted     == Call("schema-drift", TRUE, FALSE, TRUE, TRUE, FALSE)
Unknown     == Call("unknown-workflow", FALSE, FALSE, TRUE, FALSE, FALSE)
HomeRequests == {Unconfirmed, Rehearsal, Allowed, Reading, Drifted, Unknown}
=============================================================================
