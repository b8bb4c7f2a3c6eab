-------------------------- MODULE MCWorkflowStore --------------------------
(* Instances of WorkflowStore for TLC.                                     *)
EXTENDS WorkflowStore, TLC

CONSTANTS k1, k2, h1, h2

\* Code that fits both schemas, and code that fits only one of them.
TwoCodes == k1 :> {h1, h2} @@ k2 :> {h1}

StoreSymmetry == {f @@ g : f \in Permutations(Procs), g \in Permutations(Syncs)}
=============================================================================
