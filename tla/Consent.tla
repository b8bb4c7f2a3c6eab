------------------------------ MODULE Consent ------------------------------
(***************************************************************************)
(* What a run was let through for, and what the world is when it acts.     *)
(*                                                                         *)
(* A workflow is compiled against the tools table, which discovery rewrites*)
(* from what the servers say; the version pins each tool's schema and risk.*)
(* The gates compare the pins with the table, and work out from the pins,  *)
(* policy.yaml and model.json which tools would act.  The run then waits   *)
(* for a worker or a human, while the table, the policy, the model and the *)
(* servers change under it, and at last it executes and calls its tools.   *)
(*                                                                         *)
(* All tools are on one connector.  The gates read files and tables in one *)
(* stretch without an await: that is one step here.  How runs are claimed, *)
(* refused and expired is module RunQueue's.                               *)
(***************************************************************************)
EXTENDS Naturals, FiniteSets

CONSTANTS
    Runs,          \* each run with a workflow version of its own
    Tools,         \* the tools of the connector
    Schemas,       \* schema hashes
    Ai,            \* "ai.complete", as it stands in a list of side effects
    Absent,        \* no such tool
    NoSync,        \* no discovery is in progress
    Null,          \* side_effects_json IS NULL
    Edits          \* bound on the edits of policy, model, config and servers

Risks  == {"read_only", "side_effect"}
Models == {"local", "remote"}      \* by where base_url points: Model.is_local

ASSUME ConsentAssumption ==
    /\ Ai \notin Tools
    /\ Tools \cap Models = {}
    /\ Edits \in Nat
    /\ \A h \in Schemas, k \in Risks : Absent # [schema |-> h, risk |-> k]
    /\ \A effects \in SUBSET (Tools \cup {Ai}) : Null # effects

VARIABLES
    server,        \* what the server offers: schema, and risk by its annotations
    known,         \* the tools table
    configured,    \* the connector is in config.json
    policy,        \* policy.yaml: overrides by tool, and by model for the AI
    model,         \* model.json
    syncing,       \* config and policy as a discovery in progress read them
    edits,         \* how many edits there have been
    stage,         \* where each run stands
    pins,          \* tools_used of the version: schema and risk of each tool
    usesAi,        \* workflow_versions.uses_ai
    dry,           \* runs.dry_run
    consent,       \* runs.confirmed, or approved_at IS NOT NULL
    seen,          \* history: the side effects as the gates saw them
    stored,        \* runs.side_effects_json
    acting,        \* Admitted.side_effects as execute() has it
    asks,          \* what its AI bridge reaches
    calls,         \* history: what the code asked for and was not stood in for;
                   \* `at` is the schema, or Absent where nothing was called
    news           \* history: what changed since a run's admission:
                   \* rows of the table, policies, and Ai for model.json

worldVars == <<server, configured, policy, model>>
runVars   == <<pins, usesAi, dry, consent, seen, stored>>
execVars  == <<acting, asks, calls>>
vars == <<worldVars, known, syncing, edits, stage, runVars, execVars, news>>

-----------------------------------------------------------------------------
Rows   == [schema : Schemas, risk : Risks]
Stages == {"new", "written", "admitted", "queued", "parked", "executing", "over"}


Uses(r) == {t \in Tools : pins[r][t] # Absent}

\* Policy.risk_for: the override if there is one.
RiskFor(pol, x, default) == IF pol[x] = "unset" THEN default ELSE pol[x]

\* _effective_risk: the stricter of the pin and the policy of today.
Acts(pol, r, t) ==
    \/ pins[r][t].risk = "side_effect"
    \/ RiskFor(pol, t, "read_only") = "side_effect"

\* _ai_risk_under: distance decides, unless the policy names the model.
AiActs(pol, m) ==
    m # "none" /\ RiskFor(pol, m, IF m = "local" THEN "read_only" ELSE "side_effect")
                    = "side_effect"

SideEffectsOf(pol, m, r) ==
    {t \in Uses(r) : Acts(pol, r, t)} \cup (IF usesAi[r] /\ AiActs(pol, m) THEN {Ai} ELSE {})

\* A bug this code could have had: a tool that is gone has nothing to compare.
DriftedInHash(r) == \E t \in Uses(r) : known[t] # Absent /\ known[t].schema # pins[r][t].schema

\* schema_drift: a pinned tool is missing, or hashes to something else.
Drifted(r) ==
    \E t \in Uses(r) : known[t] = Absent \/ known[t].schema # pins[r][t].schema

Init ==
    /\ server \in [Tools -> Rows]
    /\ known = server
    /\ configured = TRUE
    /\ policy = [x \in Tools \cup Models |-> "unset"]
    /\ model \in {"none"} \cup Models
    /\ syncing = NoSync
    /\ edits = 0
    /\ stage = [r \in Runs |-> "new"]
    /\ pins = [r \in Runs |-> [t \in Tools |-> Absent]]
    /\ usesAi = [r \in Runs |-> FALSE]
    /\ dry = [r \in Runs |-> FALSE]
    /\ consent = [r \in Runs |-> FALSE]
    /\ seen = [r \in Runs |-> {}]
    /\ stored = [r \in Runs |-> Null]
    /\ acting = [r \in Runs |-> {}]
    /\ asks = [r \in Runs |-> "none"]
    /\ calls = {}
    /\ news = [r \in Runs |-> {}]

-----------------------------------------------------------------------------
(* The world around Runlace.                                               *)

\* A change of `things` is news to the runs that have been let through.
Tell(things) ==
    news' = [r \in Runs |-> IF stage[r] \in {"new", "written"}
                            THEN news[r] ELSE news[r] \cup things]

Edit ==
    /\ edits < Edits
    /\ edits' = edits + 1
    /\ UNCHANGED <<known, stage, runVars, execVars>>

ServerChanges(t) ==
    /\ Edit
    /\ \E row \in (Rows \cup {Absent}) \ {server[t]} : server' = [server EXCEPT ![t] = row]
    /\ UNCHANGED <<configured, policy, model, syncing, news>>

EditPolicy(x) ==
    /\ Edit
    /\ \E v \in (Risks \cup {"unset"}) \ {policy[x]} : policy' = [policy EXCEPT ![x] = v]
    /\ Tell({x})
    /\ UNCHANGED <<server, configured, model, syncing>>

SetModel ==
    /\ Edit
    /\ \E m \in Models \ {model} : model' = m
    /\ Tell({Ai})
    /\ UNCHANGED <<server, configured, policy, syncing>>

\* `runlace sync`: config and policy are read, then the servers are asked.
StartSync ==
    /\ syncing = NoSync
    /\ syncing' = [conf |-> configured, pol |-> policy]
    /\ UNCHANGED <<worldVars, known, edits, stage, runVars, execVars, news>>

\* `runlace connect` and `disconnect`: the config is written and synced with.
Reconfigure ==
    /\ Edit
    /\ syncing = NoSync
    /\ configured' = ~configured
    /\ syncing' = [conf |-> configured', pol |-> policy]
    /\ UNCHANGED <<server, policy, model, news>>

\* prune and replace_connector, in one transaction.  A server that does not
\* answer loses its tools.
FinishSync(reachable) ==
    /\ syncing # NoSync
    /\ known' = [t \in Tools |->
                    IF syncing.conf /\ reachable /\ server[t] # Absent
                    THEN [server[t] EXCEPT !.risk = RiskFor(syncing.pol, t, @)]
                    ELSE Absent]
    /\ syncing' = NoSync
    /\ Tell({t \in Tools : known'[t] # known[t]})
    /\ UNCHANGED <<worldVars, edits, stage, runVars, execVars>>

-----------------------------------------------------------------------------
(* The life of a run.                                                      *)

\* create_workflow: the tools the code names are pinned as the table has them.
Create(r) ==
    /\ stage[r] = "new"
    /\ \E used \in SUBSET {t \in Tools : known[t] # Absent}, ai \in BOOLEAN :
          /\ ai => model # "none"
          /\ pins' = [pins EXCEPT ![r] = [t \in Tools |-> IF t \in used THEN known[t] ELSE Absent]]
          /\ usesAi' = [usesAi EXCEPT ![r] = ai]
    /\ stage' = [stage EXCEPT ![r] = "written"]
    /\ UNCHANGED <<worldVars, known, syncing, edits, dry, consent, seen, stored, execVars, news>>

\* insert_run: a run without side effects has NULL in side_effects_json.
Stored(effects) == IF effects = {} THEN Null ELSE effects

\* admit, up to its verdict.  `daemon`: somebody drains the queue.
Admit(r, confirm, rehearse, daemon) ==
    LET effects == SideEffectsOf(policy, model, r)
        asked   == effects # {} /\ ~confirm /\ ~rehearse
    IN
    /\ stage[r] = "written"
    /\ dry' = [dry EXCEPT ![r] = rehearse]
    /\ consent' = [consent EXCEPT ![r] = confirm]
    /\ seen' = [seen EXCEPT ![r] = effects]
    /\ stored' = [stored EXCEPT ![r] = Stored(effects)]
    /\ stage' = [stage EXCEPT ![r] =
                    CASE Drifted(r) -> "over"
                      [] ~Drifted(r) /\ asked -> IF daemon THEN "parked" ELSE "over"
                      [] ~Drifted(r) /\ ~asked -> IF daemon THEN "queued" ELSE "admitted"]
    /\ UNCHANGED <<worldVars, known, syncing, edits, pins, usesAi, execVars, news>>

Approve(r) ==
    /\ stage[r] = "parked"
    /\ stage' = [stage EXCEPT ![r] = "queued"]
    /\ consent' = [consent EXCEPT ![r] = TRUE]
    /\ UNCHANGED <<worldVars, known, syncing, edits, pins, usesAi, dry, seen, stored, execVars, news>>

\* A bug this code could have had: a worker always works them out again.
ActingOfToday(r) == SideEffectsOf(policy, "none", r)

\* Admitted.side_effects: what admit handed over, or what _reconstitute makes
\* of the row -- recomputed where it is NULL, and then without the model.
Acting(r) ==
    CASE stage[r] = "admitted" -> seen[r]
      [] stage[r] # "admitted" /\ stored[r] # Null -> stored[r]
      [] stage[r] # "admitted" /\ stored[r] = Null -> SideEffectsOf(policy, "none", r)

\* execute: the connectors are there, the sessions open, the model is read.
Start(r) ==
    LET needed == IF dry[r] THEN Uses(r) \ Acting(r) ELSE Uses(r) IN
    /\ stage[r] \in {"admitted", "queued"}
    /\ needed # {} => configured
    /\ stage' = [stage EXCEPT ![r] = "executing"]
    /\ acting' = [acting EXCEPT ![r] = Acting(r)]
    /\ asks' = [asks EXCEPT ![r] = IF dry[r] /\ Ai \in Acting(r) THEN "invented" ELSE model]
    /\ UNCHANGED <<worldVars, known, syncing, edits, runVars, calls, news>>

\* ... or the connector has gone from config.json, or does not answer.
RefuseToStart(r) ==
    /\ stage[r] \in {"admitted", "queued"}
    /\ stage' = [stage EXCEPT ![r] = "over"]
    /\ UNCHANGED <<worldVars, known, syncing, edits, runVars, execVars, news>>

\* What a rehearsal answers instead of calling.
StandIns(r) == IF dry[r] THEN acting[r] \ {Ai} ELSE {}

\* One tool call: looked up in the table as it is now.
Call(r, t) ==
    /\ stage[r] = "executing"
    /\ t \in Uses(r)
    /\ calls' = calls \cup
          CASE known[t] = Absent -> {[run |-> r, what |-> t, at |-> Absent]}
            [] known[t] # Absent /\ t \in StandIns(r) -> {}
            [] known[t] # Absent /\ t \notin StandIns(r) ->
                 {[run |-> r, what |-> t, at |-> known[t].schema]}
    /\ UNCHANGED <<worldVars, known, syncing, edits, stage, runVars, acting, asks, news>>

\* One ctx.ai call, to the model the bridge was bound to.
CallAi(r) ==
    /\ stage[r] = "executing"
    /\ usesAi[r]
    /\ asks[r] \in Models
    /\ calls' = calls \cup {[run |-> r, what |-> Ai, at |-> asks[r]]}
    /\ UNCHANGED <<worldVars, known, syncing, edits, stage, runVars, acting, asks, news>>

End(r) ==
    /\ stage[r] = "executing"
    /\ stage' = [stage EXCEPT ![r] = "over"]
    /\ UNCHANGED <<worldVars, known, syncing, edits, runVars, execVars, news>>

-----------------------------------------------------------------------------
WorldStep ==
    \/ \E t \in Tools : ServerChanges(t)
    \/ \E x \in Tools \cup Models : EditPolicy(x)
    \/ SetModel \/ StartSync \/ Reconfigure
    \/ \E reachable \in BOOLEAN : FinishSync(reachable)

RunStep(r) ==
    \/ Create(r)
    \/ \E confirm, rehearse, daemon \in BOOLEAN : Admit(r, confirm, rehearse, daemon)
    \/ Approve(r) \/ Start(r) \/ RefuseToStart(r)
    \/ \E t \in Tools : Call(r, t)
    \/ CallAi(r) \/ End(r)

Next == WorldStep \/ \E r \in Runs : RunStep(r)

Spec == Init /\ [][Next]_vars

-----------------------------------------------------------------------------
TypeOK ==
    /\ server \in [Tools -> Rows \cup {Absent}]
    /\ known \in [Tools -> Rows \cup {Absent}]
    /\ configured \in BOOLEAN
    /\ policy \in [Tools \cup Models -> Risks \cup {"unset"}]
    /\ model \in {"none"} \cup Models
    /\ syncing \in [conf : BOOLEAN, pol : [Tools \cup Models -> Risks \cup {"unset"}]] \cup {NoSync}
    /\ edits \in 0..Edits
    /\ stage \in [Runs -> Stages]
    /\ pins \in [Runs -> [Tools -> Rows \cup {Absent}]]
    /\ usesAi \in [Runs -> BOOLEAN] /\ dry \in [Runs -> BOOLEAN] /\ consent \in [Runs -> BOOLEAN]
    /\ seen \in [Runs -> SUBSET (Tools \cup {Ai})]
    /\ stored \in [Runs -> ((SUBSET (Tools \cup {Ai})) \ {{}}) \cup {Null}]
    /\ acting \in [Runs -> SUBSET (Tools \cup {Ai})]
    /\ asks \in [Runs -> Models \cup {"none", "invented"}]
    /\ \A c \in calls : c.run \in Runs /\ c.what \in Tools \cup {Ai}
    /\ news \in [Runs -> SUBSET (Tools \cup Models \cup {Ai})]

(* A tool that was a side effect when the version was compiled, or when    *)
(* the gates looked, is really called only by a run that is no rehearsal   *)
(* and that somebody said yes to -- whatever discovery, policy.yaml and a  *)
(* recomputation in the worker made of it since (runs.py:710-718).         *)
RiskyCallsAreConsented ==
    \A c \in calls :
        c.what \in Tools /\ c.at # Absent
          /\ (c.what \in seen[c.run] \/ pins[c.run][c.what].risk = "side_effect")
            => consent[c.run] /\ ~dry[c.run]

(* Whoever executes the run knows at least of the side effects the gates   *)
(* knew of, by whatever way the list reached it (worker.py:154-162).       *)
NothingForgotten ==
    \A r \in Runs : stage[r] = "executing" => seen[r] \subseteq acting[r]

(* What a yes was given to is all that happens, and all of it is known to  *)
(* whoever executes.                                                       *)
ConsentHolds == TypeOK /\ RiskyCallsAreConsented /\ NothingForgotten

(* What the gates judged holds until something changes.  "If any tool the  *)
(* version was pinned to no longer hashes to the same schema, the run is   *)
(* refused" (README.md:202) and "remote models go through the confirm gate *)
(* by default" (SECURITY.md:64) are decided by admit and never again       *)
(* (runs.py:291, runs.py:656, runner.py:323): a call under another schema  *)
(* than the pin, or of a tool that is gone, or of a remote model nobody    *)
(* said yes to, is of a run that waited while a discovery rewrote that row *)
(* or model.json or the model's policy was edited.  Nothing else lets one  *)
(* through.                                                                *)
OnlyNewsEscapes ==
    \A c \in calls :
        /\ c.what \in Tools /\ c.at # pins[c.run][c.what].schema => c.what \in news[c.run]
        /\ c.what = Ai /\ c.at = "remote" /\ policy["remote"] = "unset"
             => \/ consent[c.run] /\ ~dry[c.run]
                \/ news[c.run] \cap {Ai, "remote"} # {}
=============================================================================
