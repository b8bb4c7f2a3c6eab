---------------------------- MODULE ConsentProofs ----------------------------
(***************************************************************************)
(* What a yes was given to is all that happens, and what the gates judged  *)
(* holds until news of it: for any number of runs, tools and edits.        *)
(***************************************************************************)
EXTENDS Consent, TLAPS

\* The gates have looked at the run, whatever they said.
Judged(r) == stage[r] \notin {"new", "written"}

\* ... and have not sent it away, and it is not over.
Alive(r) == stage[r] \in {"admitted", "queued", "parked", "executing"}

\* ... and nobody has to be asked any more.
LetThrough(r) == stage[r] \in {"admitted", "queued", "executing"}

\* Nothing that concerns the AI's risk has changed since the run's admission.
AiUntouched(r) == news[r] \cap {Ai, "remote"} = {} /\ policy["remote"] = "unset"

\* The row keeps what the gates saw, and they saw every pin that acts.
RowTellsAll ==
    \A r \in Runs : Judged(r) =>
        /\ stored[r] = Stored(seen[r])
        /\ \A t \in Uses(r) : pins[r][t].risk = "side_effect" => t \in seen[r]

\* Who has side effects has a yes, or rehearses.
YesOrRehearsal == \A r \in Runs : LetThrough(r) /\ seen[r] # {} => consent[r] \/ dry[r]

\* What has had no news is as it was pinned.
PinsHoldUntilNews ==
    \A r \in Runs : Alive(r) =>
        \A t \in Uses(r) \ news[r] : known[t] # Absent /\ known[t].schema = pins[r][t].schema

\* A remote model was seen by the gates, and is not asked without a yes.
RemoteWasSeen ==
    \A r \in Runs : usesAi[r] /\ AiUntouched(r) =>
        /\ Alive(r) /\ model = "remote" => Ai \in seen[r]
        /\ stage[r] = "executing" /\ asks[r] = "remote" => consent[r] /\ ~dry[r]

\* A call is of a run that started, and of something its version names.
CallsAreOfRuns ==
    \A c \in calls : stage[c.run] \in {"executing", "over"} /\ c.what \in Uses(c.run) \cup {Ai}

ConsentInv ==
    /\ ConsentHolds
    /\ OnlyNewsEscapes
    /\ RowTellsAll
    /\ YesOrRehearsal
    /\ PinsHoldUntilNews
    /\ RemoteWasSeen
    /\ CallsAreOfRuns

-----------------------------------------------------------------------------
(* Type correctness.                                                       *)

LEMMA EffectsAreTyped ==
  ASSUME NEW pol, NEW m, NEW r
  PROVE  SideEffectsOf(pol, m, r) \in SUBSET (Tools \cup {Ai})
BY DEF SideEffectsOf, Uses

LEMMA ConsentInit == Init => TypeOK
BY ConsentAssumption DEF Init, TypeOK, Rows, Risks, Models, Stages

LEMMA ConsentTypeStep == TypeOK /\ [Next]_vars => TypeOK'
<1> SUFFICES ASSUME TypeOK, [Next]_vars PROVE TypeOK'
  OBVIOUS
<1> USE DEF TypeOK, Stages, worldVars, runVars, execVars
<1>1. ASSUME NEW t \in Tools, ServerChanges(t) PROVE TypeOK'
  BY <1>1, ConsentAssumption DEF ServerChanges, Edit
<1>2. ASSUME NEW x \in Tools \cup Models, EditPolicy(x) PROVE TypeOK'
  BY <1>2, ConsentAssumption DEF EditPolicy, Edit, Tell
<1>3. CASE SetModel
  BY <1>3, ConsentAssumption DEF SetModel, Edit, Tell
<1>4. CASE StartSync
  BY <1>4 DEF StartSync
<1>5. CASE Reconfigure
  BY <1>5, ConsentAssumption DEF Reconfigure, Edit
<1>6. ASSUME NEW reachable \in BOOLEAN, FinishSync(reachable) PROVE TypeOK'
  <2>1. syncing.pol \in [Tools \cup Models -> Risks \cup {"unset"}]
    BY <1>6 DEF FinishSync
  <2>2. known' \in [Tools -> Rows \cup {Absent}]
    BY <1>6, <2>1 DEF FinishSync, RiskFor, Rows, Risks
  <2>3. news' \in [Runs -> SUBSET (Tools \cup Models \cup {Ai})]
    BY <1>6 DEF FinishSync, Tell
  <2> QED BY <1>6, <2>2, <2>3 DEF FinishSync
<1>7. ASSUME NEW r \in Runs, Create(r) PROVE TypeOK'
  BY <1>7 DEF Create
<1>8. ASSUME NEW r \in Runs, NEW confirm \in BOOLEAN, NEW rehearse \in BOOLEAN, NEW daemon \in BOOLEAN,
             Admit(r, confirm, rehearse, daemon)
      PROVE  TypeOK'
  <2>1. SideEffectsOf(policy, model, r) \in SUBSET (Tools \cup {Ai})
    BY EffectsAreTyped
  <2>2. Stored(SideEffectsOf(policy, model, r)) \in ((SUBSET (Tools \cup {Ai})) \ {{}}) \cup {Null}
    BY <2>1 DEF Stored
  <2>3. stage' \in [Runs -> Stages]
    BY <1>8 DEF Admit
  <2> QED BY <1>8, <2>1, <2>2, <2>3 DEF Admit
<1>9. ASSUME NEW r \in Runs, Approve(r) \/ RefuseToStart(r) \/ End(r) PROVE TypeOK'
  BY <1>9 DEF Approve, RefuseToStart, End
<1>10. ASSUME NEW r \in Runs, Start(r) PROVE TypeOK'
  <2>1. Acting(r) \in SUBSET (Tools \cup {Ai})
    BY EffectsAreTyped DEF Acting
  <2> QED BY <1>10, <2>1 DEF Start
<1>11. ASSUME NEW r \in Runs, NEW t \in Tools, Call(r, t) PROVE TypeOK'
  BY <1>11 DEF Call
<1>12. ASSUME NEW r \in Runs, CallAi(r) PROVE TypeOK'
  BY <1>12 DEF CallAi
<1>13. CASE UNCHANGED vars
  BY <1>13 DEF vars
<1> QED BY <1>1, <1>2, <1>3, <1>4, <1>5, <1>6, <1>7, <1>8, <1>9, <1>10, <1>11, <1>12, <1>13
        DEF Next, WorldStep, RunStep

-----------------------------------------------------------------------------
(* What a change of the world leaves alone.                                *)

LEMMA TellOnlyAdds ==
  ASSUME TypeOK, NEW things, Tell(things)
  PROVE  \A r \in Runs : /\ news[r] \subseteq news'[r]
                         /\ Judged(r) => things \subseteq news'[r]
BY DEF Tell, Judged, TypeOK

\* What the runs' own conjuncts need to know of a change of the world.
WorldIsToldOf ==
    /\ UNCHANGED <<stage, runVars, execVars>>
    /\ \A r \in Runs : news[r] \subseteq news'[r]
    /\ \A r \in Runs : Judged(r) =>
          /\ \A t \in Tools : known'[t] # known[t] => t \in news'[r]
          /\ policy'["remote"] # policy["remote"] => "remote" \in news'[r]
          /\ model' # model => Ai \in news'[r]

LEMMA WorldTells == TypeOK /\ WorldStep => WorldIsToldOf
<1> SUFFICES ASSUME TypeOK, WorldStep PROVE WorldIsToldOf
  OBVIOUS
<1> USE DEF WorldIsToldOf, worldVars, runVars, execVars
<1>1. ASSUME NEW t \in Tools, ServerChanges(t) PROVE WorldIsToldOf
  BY <1>1 DEF ServerChanges, Edit
<1>2. ASSUME NEW x \in Tools \cup Models, EditPolicy(x) PROVE WorldIsToldOf
  <2>1. \A r \in Runs : news[r] \subseteq news'[r] /\ (Judged(r) => x \in news'[r])
    BY <1>2, TellOnlyAdds DEF EditPolicy
  <2>2. policy'["remote"] # policy["remote"] => x = "remote"
    BY <1>2 DEF EditPolicy, TypeOK, Models
  <2> QED BY <1>2, <2>1, <2>2 DEF EditPolicy, Edit
<1>3. CASE SetModel
  <2>1. \A r \in Runs : news[r] \subseteq news'[r] /\ (Judged(r) => Ai \in news'[r])
    BY <1>3, TellOnlyAdds DEF SetModel
  <2> QED BY <1>3, <2>1 DEF SetModel, Edit
<1>4. CASE StartSync
  BY <1>4 DEF StartSync
<1>5. CASE Reconfigure
  BY <1>5 DEF Reconfigure, Edit
<1>6. ASSUME NEW reachable \in BOOLEAN, FinishSync(reachable) PROVE WorldIsToldOf
  <2>1. \A r \in Runs : /\ news[r] \subseteq news'[r]
                        /\ Judged(r) => {t \in Tools : known'[t] # known[t]} \subseteq news'[r]
    BY <1>6, TellOnlyAdds DEF FinishSync
  <2> QED BY <1>6, <2>1 DEF FinishSync
<1> QED BY <1>1, <1>2, <1>3, <1>4, <1>5, <1>6 DEF WorldStep

\* However the world turns, the invariant of the runs survives it.
LEMMA WorldPreserves == TypeOK /\ TypeOK' /\ ConsentInv /\ WorldIsToldOf => ConsentInv'
<1> SUFFICES ASSUME TypeOK, TypeOK', ConsentInv, WorldIsToldOf PROVE ConsentInv'
  OBVIOUS
<1> USE DEF ConsentInv, WorldIsToldOf, runVars, execVars
<1>1. ConsentHolds'
  BY DEF ConsentHolds, RiskyCallsAreConsented, NothingForgotten
<1>2. OnlyNewsEscapes'
  <2> SUFFICES ASSUME NEW c \in calls
               PROVE  (/\ c.what \in Tools /\ c.at # pins[c.run][c.what].schema => c.what \in news[c.run]
                       /\ c.what = Ai /\ c.at = "remote" /\ policy["remote"] = "unset"
                            => \/ consent[c.run] /\ ~dry[c.run]
                               \/ news[c.run] \cap {Ai, "remote"} # {})'
    BY DEF OnlyNewsEscapes
  <2>1. c.run \in Runs /\ Judged(c.run)
    BY DEF TypeOK, CallsAreOfRuns, Judged
  <2> QED BY <2>1 DEF OnlyNewsEscapes
<1>3. RowTellsAll'
  BY DEF RowTellsAll, Judged, Uses, Stored
<1>4. YesOrRehearsal'
  BY DEF YesOrRehearsal, LetThrough
<1>5. PinsHoldUntilNews'
  <2> SUFFICES ASSUME NEW r \in Runs, Alive(r), NEW t \in Uses(r), t \notin news'[r]
               PROVE  known'[t] # Absent /\ known'[t].schema = pins[r][t].schema
    BY DEF PinsHoldUntilNews, Alive, Uses
  <2>1. Judged(r) /\ t \in Tools /\ t \notin news[r]
    BY DEF Alive, Judged, Uses
  <2> QED BY <2>1 DEF PinsHoldUntilNews
<1>6. RemoteWasSeen'
  <2> SUFFICES ASSUME NEW r \in Runs, usesAi[r], AiUntouched(r)'
               PROVE  (/\ Alive(r) /\ model = "remote" => Ai \in seen[r]
                       /\ stage[r] = "executing" /\ asks[r] = "remote" => consent[r] /\ ~dry[r])'
    BY DEF RemoteWasSeen
  <2>1. ASSUME Alive(r) PROVE Judged(r) /\ AiUntouched(r) /\ model' = model
    BY <2>1 DEF AiUntouched, Judged, Alive
  <2> QED BY <2>1 DEF RemoteWasSeen, Alive
<1>7. CallsAreOfRuns'
  BY DEF CallsAreOfRuns, Uses
<1> QED BY <1>1, <1>2, <1>3, <1>4, <1>5, <1>6, <1>7

-----------------------------------------------------------------------------
(* The steps of a run.                                                     *)

\* Before the gates: there is nothing to keep but what other runs have.
LEMMA CreatePreserves ==
  ASSUME TypeOK, TypeOK', ConsentInv, NEW r \in Runs, Create(r)
  PROVE  ConsentInv'
<1> USE DEF ConsentInv, worldVars, runVars, execVars
<1>1. /\ stage[r] = "new" /\ stage'[r] = "written"
      /\ \A q \in Runs \ {r} : stage'[q] = stage[q] /\ pins'[q] = pins[q] /\ usesAi'[q] = usesAi[q]
      /\ UNCHANGED <<known, policy, model, dry, consent, seen, stored, acting, asks, calls, news>>
  BY DEF Create, TypeOK
<1>2. \A c \in calls : c.run \in Runs \ {r}
  BY <1>1 DEF TypeOK, CallsAreOfRuns
<1>3. \A q \in Runs \ {r} : Uses(q)' = Uses(q)
  BY <1>1 DEF Uses
<1>4. ConsentHolds'
  BY <1>1, <1>2 DEF ConsentHolds, RiskyCallsAreConsented, NothingForgotten
<1>5. OnlyNewsEscapes'
  BY <1>1, <1>2 DEF OnlyNewsEscapes
<1>6. RowTellsAll' /\ PinsHoldUntilNews'
  BY <1>1, <1>3 DEF RowTellsAll, PinsHoldUntilNews, Judged, Alive, Stored
<1>7. YesOrRehearsal' /\ RemoteWasSeen'
  BY <1>1 DEF YesOrRehearsal, RemoteWasSeen, LetThrough, Alive, AiUntouched
<1>8. CallsAreOfRuns'
  BY <1>1, <1>2, <1>3 DEF CallsAreOfRuns
<1> QED BY <1>4, <1>5, <1>6, <1>7, <1>8

\* The gates: what they see is what the pins, the policy and the model say.
LEMMA AdmitPreserves ==
  ASSUME TypeOK, TypeOK', ConsentInv, NEW r \in Runs,
         NEW confirm \in BOOLEAN, NEW rehearse \in BOOLEAN, NEW daemon \in BOOLEAN,
         Admit(r, confirm, rehearse, daemon)
  PROVE  ConsentInv'
<1> DEFINE effects == SideEffectsOf(policy, model, r)
<1> USE DEF ConsentInv, worldVars, runVars, execVars
<1>1. /\ stage[r] = "written"
      /\ dry'[r] = rehearse /\ consent'[r] = confirm
      /\ seen'[r] = effects /\ stored'[r] = Stored(effects)
      /\ \A q \in Runs \ {r} : /\ stage'[q] = stage[q] /\ dry'[q] = dry[q] /\ consent'[q] = consent[q]
                               /\ seen'[q] = seen[q] /\ stored'[q] = stored[q]
      /\ UNCHANGED <<known, policy, model, pins, usesAi, acting, asks, calls, news>>
  BY DEF Admit, TypeOK
<1>2. /\ stage'[r] \in {"over", "parked", "queued", "admitted"}
      /\ Alive(r)' => ~Drifted(r)
      /\ LetThrough(r)' => effects = {} \/ confirm \/ rehearse
  BY DEF Admit, TypeOK, Alive, LetThrough
<1>3. \A c \in calls : c.run \in Runs \ {r}
  BY <1>1 DEF TypeOK, CallsAreOfRuns
<1>4. \A q \in Runs : Uses(q)' = Uses(q)
  BY <1>1 DEF Uses
<1>5. ConsentHolds'
  BY <1>1, <1>2, <1>3 DEF ConsentHolds, RiskyCallsAreConsented, NothingForgotten
<1>6. OnlyNewsEscapes'
  BY <1>1, <1>3 DEF OnlyNewsEscapes
<1>7. RowTellsAll'
  <2>1. \A t \in Uses(r) : pins[r][t].risk = "side_effect" => t \in effects
    BY DEF SideEffectsOf, Acts
  <2> QED BY <1>1, <1>4, <2>1 DEF RowTellsAll, Judged, Stored
<1>8. YesOrRehearsal'
  BY <1>1, <1>2 DEF YesOrRehearsal, LetThrough
<1>9. PinsHoldUntilNews'
  <2>1. Alive(r)' => \A t \in Uses(r) : known[t] # Absent /\ known[t].schema = pins[r][t].schema
    BY <1>2 DEF Drifted
  <2> QED BY <1>1, <1>4, <2>1 DEF PinsHoldUntilNews, Alive
<1>10. RemoteWasSeen'
  <2>1. usesAi[r] /\ AiUntouched(r) /\ model = "remote" => Ai \in effects
    BY DEF SideEffectsOf, AiActs, RiskFor, AiUntouched
  <2> QED BY <1>1, <1>2, <2>1 DEF RemoteWasSeen, Alive, AiUntouched
<1>11. CallsAreOfRuns'
  BY <1>1, <1>3, <1>4 DEF CallsAreOfRuns
<1> QED BY <1>5, <1>6, <1>7, <1>8, <1>9, <1>10, <1>11

LEMMA ApprovePreserves ==
  ASSUME TypeOK, TypeOK', ConsentInv, NEW r \in Runs, Approve(r)
  PROVE  ConsentInv'
<1> USE DEF ConsentInv, worldVars, runVars, execVars
<1>1. /\ stage[r] = "parked" /\ stage'[r] = "queued" /\ consent'[r] = TRUE
      /\ \A q \in Runs \ {r} : stage'[q] = stage[q] /\ consent'[q] = consent[q]
      /\ UNCHANGED <<known, policy, model, pins, usesAi, dry, seen, stored, acting, asks, calls, news>>
  BY DEF Approve, TypeOK
<1>2. \A c \in calls : c.run \in Runs \ {r}
  BY <1>1 DEF TypeOK, CallsAreOfRuns
<1>3. \A q \in Runs : Uses(q)' = Uses(q)
  BY <1>1 DEF Uses
<1>4. ConsentHolds' /\ OnlyNewsEscapes'
  BY <1>1, <1>2 DEF ConsentHolds, RiskyCallsAreConsented, NothingForgotten, OnlyNewsEscapes
<1>5. RowTellsAll' /\ PinsHoldUntilNews'
  BY <1>1, <1>3 DEF RowTellsAll, PinsHoldUntilNews, Judged, Alive, Stored
<1>6. YesOrRehearsal' /\ RemoteWasSeen'
  BY <1>1 DEF YesOrRehearsal, RemoteWasSeen, LetThrough, Alive, AiUntouched
<1>7. CallsAreOfRuns'
  BY <1>1, <1>2, <1>3 DEF CallsAreOfRuns
<1> QED BY <1>4, <1>5, <1>6, <1>7

\* By whatever way the list reached it, who executes knows all that was seen.
LEMMA ActingIsSeen ==
  ASSUME TypeOK, RowTellsAll, NEW r \in Runs, stage[r] \in {"admitted", "queued"}
  PROVE  seen[r] \subseteq Acting(r)
<1>1. Judged(r)
  BY DEF Judged
<1>2. stored[r] = Null => seen[r] = {}
  BY <1>1, ConsentAssumption DEF RowTellsAll, Stored, TypeOK
<1>3. stored[r] # Null => stored[r] = seen[r]
  BY <1>1 DEF RowTellsAll, Stored
<1> QED BY <1>2, <1>3 DEF Acting

LEMMA StartPreserves ==
  ASSUME TypeOK, TypeOK', ConsentInv, NEW r \in Runs, Start(r)
  PROVE  ConsentInv'
<1> USE DEF ConsentInv, worldVars, runVars, execVars
<1>1. /\ stage[r] \in {"admitted", "queued"} /\ stage'[r] = "executing"
      /\ acting'[r] = Acting(r)
      /\ asks'[r] = IF dry[r] /\ Ai \in Acting(r) THEN "invented" ELSE model
      /\ \A q \in Runs \ {r} : stage'[q] = stage[q] /\ acting'[q] = acting[q] /\ asks'[q] = asks[q]
      /\ UNCHANGED <<known, policy, model, pins, usesAi, dry, consent, seen, stored, calls, news>>
  BY DEF Start, TypeOK
<1>2. seen[r] \subseteq Acting(r)
  BY <1>1, ActingIsSeen
<1>3. \A c \in calls : c.run \in Runs \ {r}
  BY <1>1 DEF TypeOK, CallsAreOfRuns
<1>4. \A q \in Runs : Uses(q)' = Uses(q)
  BY <1>1 DEF Uses
<1>5. ConsentHolds' /\ OnlyNewsEscapes'
  BY <1>1, <1>2, <1>3 DEF ConsentHolds, RiskyCallsAreConsented, NothingForgotten, OnlyNewsEscapes
<1>6. RowTellsAll' /\ PinsHoldUntilNews' /\ YesOrRehearsal'
  BY <1>1, <1>4 DEF RowTellsAll, PinsHoldUntilNews, YesOrRehearsal, Judged, Alive, LetThrough, Stored
<1>7. RemoteWasSeen'
  <2>1. ASSUME usesAi[r], AiUntouched(r)
        PROVE  /\ model = "remote" => Ai \in seen[r]
               /\ asks'[r] = "remote" => consent[r] /\ ~dry[r]
    BY <1>1, <1>2, <2>1 DEF RemoteWasSeen, YesOrRehearsal, Alive, LetThrough, TypeOK
  <2> QED BY <1>1, <2>1 DEF RemoteWasSeen, Alive, AiUntouched
<1>8. CallsAreOfRuns'
  BY <1>1, <1>3, <1>4 DEF CallsAreOfRuns
<1> QED BY <1>5, <1>6, <1>7, <1>8

LEMMA GoingOverPreserves ==
  ASSUME TypeOK, TypeOK', ConsentInv, NEW r \in Runs, RefuseToStart(r) \/ End(r)
  PROVE  ConsentInv'
<1> USE DEF ConsentInv, worldVars, runVars, execVars
<1>1. /\ stage[r] \in {"admitted", "queued", "executing"} /\ stage'[r] = "over"
      /\ \A q \in Runs \ {r} : stage'[q] = stage[q]
      /\ UNCHANGED <<known, policy, model, pins, usesAi, dry, consent, seen, stored, acting, asks, calls, news>>
  BY DEF RefuseToStart, End, TypeOK
<1>2. \A q \in Runs : Uses(q)' = Uses(q)
  BY <1>1 DEF Uses
<1>3. ConsentHolds' /\ OnlyNewsEscapes'
  BY <1>1 DEF ConsentHolds, RiskyCallsAreConsented, NothingForgotten, OnlyNewsEscapes
<1>4. RowTellsAll' /\ PinsHoldUntilNews' /\ YesOrRehearsal'
  BY <1>1, <1>2 DEF RowTellsAll, PinsHoldUntilNews, YesOrRehearsal, Judged, Alive, LetThrough, Stored
<1>5. RemoteWasSeen' /\ CallsAreOfRuns'
  BY <1>1, <1>2 DEF RemoteWasSeen, CallsAreOfRuns, TypeOK, Alive, AiUntouched
<1> QED BY <1>3, <1>4, <1>5

\* A call is of this run: the four facts that are about calls.
LEMMA CallPreserves ==
  ASSUME TypeOK, TypeOK', ConsentInv, NEW r \in Runs, NEW t \in Tools, Call(r, t)
  PROVE  ConsentInv'
<1> USE DEF ConsentInv, worldVars, runVars, execVars
<1>1. /\ stage[r] = "executing" /\ t \in Uses(r)
      /\ UNCHANGED <<known, policy, model, stage, pins, usesAi, dry, consent, seen, stored, acting, asks, news>>
  BY DEF Call
<1>2. ASSUME NEW c \in calls', c \notin calls
      PROVE  /\ c.run = r /\ c.what = t
             /\ \/ c.at = Absent /\ known[t] = Absent
                \/ c.at = known[t].schema /\ known[t] # Absent /\ t \notin StandIns(r)
  BY <1>2 DEF Call
<1>3. calls \subseteq calls'
  BY DEF Call
<1>4. \A q \in Runs : Uses(q)' = Uses(q)
  BY <1>1 DEF Uses
<1>5. t \in seen[r] \/ pins[r][t].risk = "side_effect" => t \in acting[r] /\ (consent[r] \/ dry[r])
  BY <1>1 DEF RowTellsAll, YesOrRehearsal, ConsentHolds, NothingForgotten, Judged, LetThrough
<1>6. (t \in seen[r] \/ pins[r][t].risk = "side_effect") /\ t \notin StandIns(r) => consent[r] /\ ~dry[r]
  BY <1>5, ConsentAssumption DEF StandIns
<1>7. RiskyCallsAreConsented'
  BY <1>1, <1>2, <1>6 DEF ConsentHolds, RiskyCallsAreConsented
<1>8. OnlyNewsEscapes'
  <2>1. t \notin news[r] => known[t] # Absent /\ known[t].schema = pins[r][t].schema
    BY <1>1 DEF PinsHoldUntilNews, Alive
  <2> QED BY <1>1, <1>2, <2>1, ConsentAssumption DEF OnlyNewsEscapes
<1>9. RowTellsAll' /\ PinsHoldUntilNews' /\ YesOrRehearsal' /\ RemoteWasSeen' /\ NothingForgotten'
  BY <1>1, <1>4 DEF RowTellsAll, PinsHoldUntilNews, YesOrRehearsal, RemoteWasSeen, ConsentHolds, NothingForgotten,
     Judged, Alive, LetThrough, Stored, AiUntouched
<1>10. CallsAreOfRuns'
  BY <1>1, <1>2, <1>4 DEF CallsAreOfRuns, TypeOK
<1> QED BY <1>7, <1>8, <1>9, <1>10 DEF ConsentHolds

LEMMA CallAiPreserves ==
  ASSUME TypeOK, TypeOK', ConsentInv, NEW r \in Runs, CallAi(r)
  PROVE  ConsentInv'
<1> USE DEF ConsentInv, worldVars, runVars, execVars
<1>1. /\ stage[r] = "executing" /\ usesAi[r]
      /\ UNCHANGED <<known, policy, model, stage, pins, usesAi, dry, consent, seen, stored, acting, asks, news>>
      /\ calls' = calls \cup {[run |-> r, what |-> Ai, at |-> asks[r]]}
  BY DEF CallAi
<1>2. \A q \in Runs : Uses(q)' = Uses(q)
  BY <1>1 DEF Uses
<1>3. RiskyCallsAreConsented'
  BY <1>1, ConsentAssumption DEF ConsentHolds, RiskyCallsAreConsented
<1>4. OnlyNewsEscapes'
  <2>1. asks[r] = "remote" /\ policy["remote"] = "unset"
          => (consent[r] /\ ~dry[r]) \/ news[r] \cap {Ai, "remote"} # {}
    BY <1>1 DEF RemoteWasSeen, AiUntouched
  <2> QED BY <1>1, <2>1, ConsentAssumption DEF OnlyNewsEscapes
<1>5. RowTellsAll' /\ PinsHoldUntilNews' /\ YesOrRehearsal' /\ RemoteWasSeen' /\ NothingForgotten'
  BY <1>1, <1>2 DEF RowTellsAll, PinsHoldUntilNews, YesOrRehearsal, RemoteWasSeen, ConsentHolds, NothingForgotten,
     Judged, Alive, LetThrough, Stored, AiUntouched
<1>6. CallsAreOfRuns'
  BY <1>1, <1>2 DEF CallsAreOfRuns, TypeOK
<1> QED BY <1>3, <1>4, <1>5, <1>6 DEF ConsentHolds

-----------------------------------------------------------------------------
LEMMA ConsentStep == ConsentInv /\ [Next]_vars => ConsentInv'
<1> SUFFICES ASSUME ConsentInv, [Next]_vars PROVE ConsentInv'
  OBVIOUS
<1>1. TypeOK /\ TypeOK'
  BY ConsentTypeStep DEF ConsentInv, ConsentHolds
<1>2. CASE WorldStep
  BY <1>1, <1>2, WorldTells, WorldPreserves
<1>3. ASSUME NEW r \in Runs, RunStep(r) PROVE ConsentInv'
  BY <1>1, <1>3, CreatePreserves, AdmitPreserves, ApprovePreserves, StartPreserves, GoingOverPreserves,
     CallPreserves, CallAiPreserves DEF RunStep
<1>4. CASE UNCHANGED vars
  <2>1. WorldIsToldOf
    BY <1>4 DEF vars, worldVars, WorldIsToldOf
  <2> QED BY <1>1, <2>1, WorldPreserves
<1> QED BY <1>2, <1>3, <1>4 DEF Next

THEOREM ConsentInvariant == Spec => []ConsentInv
<1>1. Init => ConsentInv
  <2> SUFFICES ASSUME Init PROVE ConsentInv
    OBVIOUS
  <2>1. ConsentHolds
    BY ConsentInit DEF Init, ConsentHolds, RiskyCallsAreConsented, NothingForgotten
  <2>2. OnlyNewsEscapes /\ CallsAreOfRuns
    BY DEF Init, OnlyNewsEscapes, CallsAreOfRuns
  <2>3. RowTellsAll /\ YesOrRehearsal /\ PinsHoldUntilNews /\ RemoteWasSeen
    BY DEF Init, RowTellsAll, YesOrRehearsal, PinsHoldUntilNews, RemoteWasSeen, Judged, Alive, LetThrough
  <2> QED BY <2>1, <2>2, <2>3 DEF ConsentInv
<1> QED BY <1>1, ConsentStep, PTL DEF Spec

(* What a yes was given to is all that happens: a tool that was a side     *)
(* effect for the compiler or the gates is really called only after a yes, *)
(* and whoever executes knows of all they saw (runs.py:710-718,            *)
(* worker.py:154-162).                                                     *)
THEOREM ConsentAlwaysHolds == Spec => []ConsentHolds
BY ConsentInvariant, PTL DEF ConsentInv

(* What admit judged holds until news of it: a call under another schema   *)
(* than the pin, or of a remote model nobody said yes to, is of a run that *)
(* waited while discovery, model.json or the policy changed that very      *)
(* thing (runs.py:291, runs.py:656, runner.py:323).                        *)
THEOREM OnlyNewsEverEscapes == Spec => []OnlyNewsEscapes
BY ConsentInvariant, PTL DEF ConsentInv
=============================================================================
