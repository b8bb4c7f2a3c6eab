---------------------------- MODULE RunLifecycle ----------------------------
(***************************************************************************)
(* What a home promises about each run, with no row, process or clock in   *)
(* sight: a run is decided on once; if it needs a human it waits for one;  *)
(* it is taken up by one executor, at most once, and what ended stays      *)
(* ended.  A run may be lost -- whoever had it in hand is gone -- and a    *)
(* lost run is never taken up again: Runlace does not retry side effects   *)
(* that may already have happened (SPEC.md:360).                           *)
(*                                                                         *)
(* RunQueue implements this; its refinement mapping is at its end.         *)
(***************************************************************************)
EXTENDS Naturals

CONSTANTS Runs

VARIABLES
    stage,         \* where each run stands
    consent,       \* a human's approval took effect
    needs,         \* the run may not act without one
    ran,           \* its code was started
    effect         \* it performed a real side effect

lifeVars == <<stage, consent, needs, ran, effect>>

Stages == {"absent", "deciding", "parked", "in line", "in hand", "lost", "over"}

LifeInit ==
    /\ stage = [r \in Runs |-> "absent"]
    /\ consent = [r \in Runs |-> FALSE]
    /\ needs \in [Runs -> BOOLEAN]
    /\ ran = [r \in Runs |-> FALSE]
    /\ effect = [r \in Runs |-> FALSE]

Move(r, from, to) ==
    /\ stage[r] = from
    /\ stage' = [stage EXCEPT ![r] = to]

Submit(r) ==
    Move(r, "absent", "deciding") /\ UNCHANGED <<consent, needs, ran, effect>>

\* The gates end it, set it aside for a human, or let it through.
Decide(r) ==
    /\ \/ Move(r, "deciding", "over")
       \/ needs[r] /\ Move(r, "deciding", "parked")
       \/ ~needs[r] /\ Move(r, "deciding", "in line")
       \/ ~needs[r] /\ Move(r, "deciding", "in hand")
    /\ UNCHANGED <<consent, needs, ran, effect>>

\* A human says yes.
Consent(r) ==
    /\ Move(r, "parked", "in line")
    /\ consent' = [consent EXCEPT ![r] = TRUE]
    /\ UNCHANGED <<needs, ran, effect>>

TakeUp(r) ==
    Move(r, "in line", "in hand") /\ UNCHANGED <<consent, needs, ran, effect>>

RunCode(r) ==
    /\ stage[r] = "in hand"
    /\ ~ran[r]
    /\ ran' = [ran EXCEPT ![r] = TRUE]
    /\ UNCHANGED <<stage, consent, needs, effect>>

Affect(r) ==
    /\ stage[r] = "in hand"
    /\ ran[r]
    /\ effect' = [effect EXCEPT ![r] = TRUE]
    /\ UNCHANGED <<stage, consent, needs, ran>>

EndRun(r) ==
    Move(r, "in hand", "over") /\ UNCHANGED <<consent, needs, ran, effect>>

\* One human's no, or one look at the clock, may end several parked runs.
GiveUp(S) ==
    /\ \A r \in S : stage[r] = "parked"
    /\ stage' = [r \in Runs |-> IF r \in S THEN "over" ELSE stage[r]]
    /\ UNCHANGED <<consent, needs, ran, effect>>

\* One process dies with everything it had in hand.
Lose(S) ==
    /\ \A r \in S : stage[r] \in {"deciding", "in hand"}
    /\ stage' = [r \in Runs |-> IF r \in S THEN "lost" ELSE stage[r]]
    /\ UNCHANGED <<consent, needs, ran, effect>>

LifeNext ==
    \/ \E r \in Runs : Submit(r) \/ Decide(r) \/ Consent(r) \/ TakeUp(r)
                       \/ RunCode(r) \/ Affect(r) \/ EndRun(r)
    \/ \E S \in SUBSET Runs : GiveUp(S) \/ Lose(S)

LifeSpec == LifeInit /\ [][LifeNext]_lifeVars
=============================================================================
