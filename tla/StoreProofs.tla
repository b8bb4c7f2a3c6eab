---------------------------- MODULE StoreProofs -----------------------------
(***************************************************************************)
(* What is stored: for any number of processes, codes, tools, schemas and  *)
(* discoveries, and whoever is killed at whatever moment.                  *)
(***************************************************************************)
EXTENDS WorkflowStore, TLAPS

\* Who has begun a call has a code; who has not has neither code nor pins.
Calls ==
    \A p \in Procs : /\ pc[p] # "idle" => code[p] \in Codes
                     /\ pc[p] \in {"idle", "given"} => pins[p] = Bare

\* Two processes that store one code contest it.
Contests ==
    /\ \A p, q \in Procs : p # q /\ Storing(p) /\ Storing(q) /\ code[p] = code[q] => code[p] \in contested
    /\ \A p \in Procs : Storing(p) => versions[code[p]] = Absent \/ code[p] \in contested

\* The file is written before the row.
FileComesFirst ==
    \A p \in Procs : pc[p] = "inserting" => files[code[p]] = "whole" \/ code[p] \in contested

\* While the last discovery to commit is the only one at it, stubs and table are its
\* own, as far as the stubs are written.
OneDiscovery ==
    lone =>
        /\ \A d, e \in Syncs : Midway(d) /\ Midway(e) => d = e
        /\ (\A d \in Syncs : ~Midway(d)) => stubs = table
        /\ \A d \in Syncs : sync[d] = "committed" => table = found[d]
        /\ \A d \in Syncs, t \in Tools : sync[d] = "unlinked" =>
              IF found[d][t] # Absent THEN table[t] = found[d][t] ELSE table[t] = stubs[t]

\* What a calm process typechecked against is the table, until it has its pins.
CalmMeansStill ==
    \A p \in Procs : pc[p] = "typed" /\ calm[p] =>
        \A t \in Tools : table[t] \in Fits[code[p]]

StoreInv ==
    /\ TypeOK
    /\ Calls
    /\ Contests
    /\ FileComesFirst
    /\ VersionIsReadable
    /\ NoEmptyWorkflow
    /\ OkIsStored
    /\ OneDiscovery
    /\ CalmMeansStill
    /\ CheckedAsPinned

-----------------------------------------------------------------------------
(* The steps, sorted by what they touch.                                   *)

\* A call is over, and the store is as it was.
EndsEmpty(p) ==
    FailTypecheck(p) \/ (\E t \in Tools : FailToPin(p, t)) \/ InsertWorkflowTooLate(p)
      \/ InsertVersionTooLate(p) \/ GiveUpOnLock(p) \/ Kill(p)

\* A process goes on, and nothing but it and the lock has changed.
GoesOn(p) == FindWorkflow(p) \/ InsertWorkflow(p) \/ Describe(p)

LEMMA StoreStepsAre ==
  ASSUME Next
  PROVE  \/ \E d \in Syncs : SyncStep(d)
         \/ \E p \in Procs :
               \/ \E c \in Codes : Begin(p, c)
               \/ Typecheck(p) \/ \E t \in Tools : Pin(p, t)
               \/ EndsEmpty(p) \/ GoesOn(p)
               \/ FindVersion(p) \/ FindNoVersion(p) \/ OpenFile(p) \/ WriteFile(p) \/ InsertVersion(p)
BY DEF Next, CompileStep, StoreStep, Create, Edit, EndsEmpty, GoesOn

LEMMA EndsEmptyTouches ==
  ASSUME TypeOK, NEW p \in Procs, EndsEmpty(p)
  PROVE  /\ Return(p, Nobody)
         /\ UNCHANGED <<syncVars, exists, latest, versions, diskVars>>
<1>1. FailTypecheck(p) \/ (\E t \in Tools : FailToPin(p, t)) \/ InsertWorkflowTooLate(p)
      \/ InsertVersionTooLate(p) \/ GiveUpOnLock(p) \/ Kill(p) => Refuse(p)
  BY DEF FailTypecheck, FailToPin, InsertWorkflowTooLate, InsertVersionTooLate, GiveUpOnLock, Kill
<1> QED BY <1>1 DEF EndsEmpty, Refuse

LEMMA SyncTouches ==
  ASSUME NEW d \in Syncs, SyncStep(d)
  PROVE  UNCHANGED <<pc, code, pins, rowVars, diskVars, told>>
BY DEF SyncStep, CommitTable, UnlinkStubs, WriteStub, EndSync, KillSync, procVars

LEMMA GoesOnTouches ==
  ASSUME TypeOK, NEW p \in Procs, GoesOn(p)
  PROVE  /\ pc[p] \in {"typed", "new", "known"}
         /\ \E next \in {"new", "known", "looking"} : pc' = [pc EXCEPT ![p] = next]
         /\ writer' \in Procs \cup {Nobody}
         /\ UNCHANGED <<syncVars, code, pins, calm, exists, latest, versions, diskVars, told>>
BY DEF GoesOn, FindWorkflow, InsertWorkflow, Describe, Goto, TypeOK, rowVars

-----------------------------------------------------------------------------
(* Type correctness.                                                       *)

LEMMA BareIsSeen == Bare \in Seen
BY DEF Bare, Seen

LEMMA StoreInit == Init => StoreInv
<1> SUFFICES ASSUME Init PROVE StoreInv
  OBVIOUS
<1> USE StoreAssumption DEF Init, Seen, Bare
<1>1. TypeOK
  <2>1. table \in Seen /\ stubs \in Seen /\ found \in [Syncs -> Seen]
    BY BareIsSeen
  <2>2. versions \in [Codes -> Seen \cup {Absent}] /\ pins \in [Procs -> Seen]
    BY BareIsSeen
  <2>3. committed \in 0..Discoveries /\ lone \in BOOLEAN
    OBVIOUS
  <2>4. told \in Oks \cup {Nobody} /\ writer \in Procs \cup {Nobody} /\ contested \subseteq Codes
    OBVIOUS
  <2>5. /\ sync \in [Syncs -> SyncPcs]
        /\ pc \in [Procs -> Pcs] /\ code \in [Procs -> Codes \cup {Nobody}] /\ calm \in [Procs -> BOOLEAN]
        /\ exists \in BOOLEAN /\ latest \in Codes \cup {Nobody}
        /\ files \in [Codes -> {"none", "empty", "whole"}]
    BY DEF SyncPcs, Pcs
  <2> HIDE DEF Init, Seen, Bare
  <2> QED BY <2>1, <2>2, <2>3, <2>4, <2>5 DEF TypeOK
<1>2. Calls /\ Contests /\ FileComesFirst /\ VersionIsReadable /\ NoEmptyWorkflow /\ OkIsStored
  BY DEF Calls, Contests, Storing, FileComesFirst, VersionIsReadable, NoEmptyWorkflow, OkIsStored
<1>3. OneDiscovery /\ CalmMeansStill /\ CheckedAsPinned
  BY DEF OneDiscovery, Midway, CalmMeansStill, CheckedAsPinned
<1> QED BY <1>1, <1>2, <1>3 DEF StoreInv

LEMMA StoreTypeStep == ASSUME TypeOK, Calls, Next PROVE TypeOK'
<1> USE DEF syncVars, procVars, rowVars, diskVars, Goto
<1>1. ASSUME NEW d \in Syncs, SyncStep(d) PROVE TypeOK'
  <2>1. ASSUME NEW answer \in Seen, CommitTable(d, answer) PROVE TypeOK'
    <3>1. committed' \in 0..Discoveries
      BY <2>1, StoreAssumption DEF CommitTable, TypeOK
    <3> QED BY <2>1, <3>1 DEF CommitTable, TypeOK, SyncPcs
  <2>2. CASE UnlinkStubs(d) \/ EndSync(d) \/ KillSync(d)
    BY <2>2, BareIsSeen DEF UnlinkStubs, EndSync, KillSync, TypeOK, SyncPcs
  <2>3. ASSUME NEW t \in Tools, WriteStub(d, t) PROVE TypeOK'
    <3>1. found[d] \in Seen /\ [found[d] EXCEPT ![t] = Absent] \in Seen /\ stubs' \in Seen
      BY <2>3 DEF WriteStub, TypeOK, Seen
    <3>2. found' = [found EXCEPT ![d] = [found[d] EXCEPT ![t] = Absent]]
      BY <2>3 DEF WriteStub
    <3> QED BY <2>3, <3>1, <3>2 DEF WriteStub, TypeOK
  <2> QED BY <1>1, <2>1, <2>2, <2>3 DEF SyncStep
<1>2. ASSUME NEW p \in Procs, NEW c \in Codes, Begin(p, c) PROVE TypeOK'
  BY <1>2 DEF Begin, TypeOK, Pcs
<1>3. ASSUME NEW p \in Procs, Typecheck(p) PROVE TypeOK'
  BY <1>3 DEF Typecheck, TypeOK, Pcs
<1>4. ASSUME NEW p \in Procs, NEW t \in Tools, Pin(p, t) PROVE TypeOK'
  BY <1>4 DEF Pin, TypeOK, Seen
<1>5. ASSUME NEW p \in Procs, EndsEmpty(p) PROVE TypeOK'
  <2>1. Return(p, Nobody) /\ UNCHANGED <<syncVars, exists, latest, versions, diskVars>>
    BY <1>5, EndsEmptyTouches
  <2> QED BY <2>1, BareIsSeen DEF Return, TypeOK, Pcs
<1>6. ASSUME NEW p \in Procs, GoesOn(p) PROVE TypeOK'
  BY <1>6, GoesOnTouches DEF TypeOK, Pcs
<1>7. ASSUME NEW p \in Procs, FindVersion(p) PROVE TypeOK'
  <2>1. [code |-> code[p], pins |-> pins[p], created |-> FALSE] \in Oks
    BY <1>7 DEF FindVersion, TypeOK, Calls, Oks
  <2> QED BY <1>7, <2>1 DEF FindVersion, Return, TypeOK, Pcs, Seen, Bare
<1>8. ASSUME NEW p \in Procs, FindNoVersion(p) \/ OpenFile(p) \/ WriteFile(p) PROVE TypeOK'
  <2>1. code[p] \in Codes
    BY <1>8 DEF FindNoVersion, OpenFile, WriteFile, Calls
  <2> QED BY <1>8, <2>1 DEF FindNoVersion, OpenFile, WriteFile, TypeOK, Pcs
<1>9. ASSUME NEW p \in Procs, InsertVersion(p) PROVE TypeOK'
  <2>1. code[p] \in Codes /\ [code |-> code[p], pins |-> pins[p], created |-> TRUE] \in Oks
    BY <1>9 DEF InsertVersion, TypeOK, Calls, Oks
  <2> QED BY <1>9, <2>1 DEF InsertVersion, Return, TypeOK, Pcs, Seen, Bare
<1> QED BY <1>1, <1>2, <1>3, <1>4, <1>5, <1>6, <1>7, <1>8, <1>9, StoreStepsAre

-----------------------------------------------------------------------------
(* A version, once stored, stays.                                          *)

\* Versions and files, as a step of the store leaves them.
LEMMA VersionsTouched ==
  ASSUME TypeOK, Calls, Next
  PROVE  \/ versions' = versions
         \/ \E p \in Procs : InsertVersion(p)
<1> USE DEF rowVars
<1>1. ASSUME NEW d \in Syncs, SyncStep(d) PROVE versions' = versions
  BY <1>1, SyncTouches
<1>2. ASSUME NEW p \in Procs, EndsEmpty(p) \/ GoesOn(p) PROVE versions' = versions
  BY <1>2, EndsEmptyTouches, GoesOnTouches
<1> QED BY <1>1, <1>2, StoreStepsAre DEF Begin, Typecheck, Pin, FindVersion, FindNoVersion, OpenFile, WriteFile

LEMMA Immutable ==
  ASSUME TypeOK, Calls, Next, NEW c \in Codes, versions[c] # Absent
  PROVE  versions'[c] = versions[c]
BY VersionsTouched DEF InsertVersion, TypeOK

\* What is inserted is a version.
LEMMA InsertIs ==
  ASSUME TypeOK, Calls, NEW p \in Procs, InsertVersion(p)
  PROVE  /\ code[p] \in Codes
         /\ versions[code[p]] = Absent
         /\ versions' = [versions EXCEPT ![code[p]] = pins[p]]
         /\ pins[p] # Absent
BY StoreAssumption DEF InsertVersion, TypeOK, Calls, Seen

-----------------------------------------------------------------------------
(* Each part of the invariant is preserved.                                *)

LEMMA CallsStep == ASSUME TypeOK, Calls, Next PROVE Calls'
<1> USE DEF syncVars, procVars, rowVars, diskVars, Goto
<1>1. ASSUME NEW d \in Syncs, SyncStep(d) PROVE Calls'
  BY <1>1, SyncTouches DEF Calls
<1>2. ASSUME NEW p \in Procs, EndsEmpty(p) PROVE Calls'
  <2>1. Return(p, Nobody)
    BY <1>2, EndsEmptyTouches
  <2> QED BY <2>1 DEF Return, Calls, TypeOK
<1>3. ASSUME NEW p \in Procs, GoesOn(p) PROVE Calls'
  BY <1>3, GoesOnTouches DEF Calls, TypeOK
<1>4. ASSUME NEW p \in Procs, NEW c \in Codes, Begin(p, c) PROVE Calls'
  BY <1>4 DEF Begin, Calls, TypeOK
<1>5. ASSUME NEW p \in Procs, NEW t \in Tools, Pin(p, t) PROVE Calls'
  BY <1>5 DEF Pin, Calls, TypeOK
<1>6. ASSUME NEW p \in Procs, Typecheck(p) \/ FindNoVersion(p) \/ OpenFile(p) \/ WriteFile(p) PROVE Calls'
  BY <1>6 DEF Typecheck, FindNoVersion, OpenFile, WriteFile, Calls, TypeOK
<1>7. ASSUME NEW p \in Procs, FindVersion(p) \/ InsertVersion(p) PROVE Calls'
  BY <1>7 DEF FindVersion, InsertVersion, Return, Calls, TypeOK
<1> QED BY <1>1, <1>2, <1>3, <1>4, <1>5, <1>6, <1>7, StoreStepsAre

\* A step that sets nobody storing, and neither stores nor clears a code,
\* leaves the files as they have to be.
LEMMA FilesFrame ==
  ASSUME Contests, FileComesFirst, VersionIsReadable,
         UNCHANGED <<versions, files, contested>>,
         \A p \in Procs : Storing(p)' => pc'[p] = pc[p] /\ code'[p] = code[p]
  PROVE  Contests' /\ FileComesFirst' /\ VersionIsReadable'
BY DEF Contests, FileComesFirst, VersionIsReadable, Storing

LEMMA FilesStep ==
  ASSUME TypeOK, Calls, Contests, FileComesFirst, VersionIsReadable, Next
  PROVE  Contests' /\ FileComesFirst' /\ VersionIsReadable'
<1> USE DEF syncVars, procVars, rowVars, diskVars, Goto
<1>1. ASSUME NEW d \in Syncs, SyncStep(d)
      PROVE  Contests' /\ FileComesFirst' /\ VersionIsReadable'
  <2>1. UNCHANGED <<pc, code, versions, files, contested>>
    BY <1>1, SyncTouches
  <2> QED BY <2>1, FilesFrame
<1>2. ASSUME NEW p \in Procs, EndsEmpty(p)
      PROVE  Contests' /\ FileComesFirst' /\ VersionIsReadable'
  <2>1. Return(p, Nobody) /\ UNCHANGED <<versions, files, contested>>
    BY <1>2, EndsEmptyTouches
  <2>2. \A q \in Procs : Storing(q)' => pc'[q] = pc[q] /\ code'[q] = code[q]
    BY <2>1 DEF Return, Storing, TypeOK
  <2> QED BY <2>1, <2>2, FilesFrame
<1>3. ASSUME NEW p \in Procs, GoesOn(p)
      PROVE  Contests' /\ FileComesFirst' /\ VersionIsReadable'
  <2>1. UNCHANGED <<code, versions, files, contested>>
        /\ \E next \in {"new", "known", "looking"} : pc' = [pc EXCEPT ![p] = next]
    BY <1>3, GoesOnTouches
  <2>2. \A q \in Procs : Storing(q)' => pc'[q] = pc[q]
    BY <2>1 DEF Storing, TypeOK
  <2> QED BY <2>1, <2>2, FilesFrame
<1>4. ASSUME NEW p \in Procs,
             (\E c \in Codes : Begin(p, c)) \/ Typecheck(p) \/ (\E t \in Tools : Pin(p, t)) \/ FindVersion(p)
      PROVE  Contests' /\ FileComesFirst' /\ VersionIsReadable'
  <2>1. UNCHANGED <<versions, files, contested>>
    BY <1>4 DEF Begin, Typecheck, Pin, FindVersion
  <2>2. \A q \in Procs : Storing(q)' => pc'[q] = pc[q] /\ code'[q] = code[q]
    BY <1>4 DEF Begin, Typecheck, Pin, FindVersion, Return, Storing, TypeOK
  <2> QED BY <2>1, <2>2, FilesFrame
<1>5. ASSUME NEW p \in Procs, FindNoVersion(p)
      PROVE  Contests' /\ FileComesFirst' /\ VersionIsReadable'
  <2>1. /\ pc[p] = "looking" /\ pc' = [pc EXCEPT ![p] = "writing"]
        /\ versions[code[p]] = Absent
        /\ UNCHANGED <<code, versions, files>>
        /\ contested \subseteq contested'
        /\ (\E q \in Procs : Storing(q) /\ code[q] = code[p]) => code[p] \in contested'
    BY <1>5 DEF FindNoVersion
  <2>2. \A q \in Procs : q # p => (Storing(q)' <=> Storing(q)) /\ pc'[q] = pc[q]
    BY <2>1 DEF Storing, TypeOK
  <2>3. ~Storing(p) /\ pc'[p] = "writing"
    BY <2>1 DEF Storing, TypeOK
  <2> QED BY <2>1, <2>2, <2>3 DEF Contests, FileComesFirst, VersionIsReadable
<1>6. ASSUME NEW p \in Procs, OpenFile(p) \/ WriteFile(p)
      PROVE  Contests' /\ FileComesFirst' /\ VersionIsReadable'
  <2>1. /\ Storing(p) /\ Storing(p)' /\ code[p] \in Codes
        /\ \A q \in Procs : q # p => pc'[q] = pc[q]
        /\ UNCHANGED <<code, versions, contested>>
    BY <1>6 DEF OpenFile, WriteFile, Storing, TypeOK, Calls
  <2>2. \A q \in Procs : Storing(q)' <=> Storing(q)
    BY <2>1 DEF Storing
  <2>3. Contests'
    BY <2>1, <2>2 DEF Contests
  <2>4. CASE OpenFile(p)
    <3>1. pc'[p] = "flushing" /\ \A c \in Codes : c # code[p] => files'[c] = files[c]
      BY <2>1, <2>4 DEF OpenFile, TypeOK
    <3>2. VersionIsReadable'
      BY <2>1, <3>1 DEF VersionIsReadable, Contests
    <3>3. FileComesFirst'
      <4> SUFFICES ASSUME NEW q \in Procs, pc'[q] = "inserting"
                   PROVE  files'[code[q]] = "whole" \/ code[q] \in contested
        BY <2>1 DEF FileComesFirst
      <4>1. q # p /\ pc[q] = "inserting" /\ Storing(q) /\ code[q] \in Codes
        BY <2>1, <3>1 DEF Storing, Calls
      <4> QED BY <2>1, <3>1, <4>1 DEF FileComesFirst, Contests
    <3> QED BY <2>3, <3>2, <3>3
  <2>5. CASE WriteFile(p)
    <3>1. \A c \in Codes : files'[c] = IF c = code[p] THEN "whole" ELSE files[c]
      BY <2>1, <2>5 DEF WriteFile, TypeOK
    <3>2. VersionIsReadable'
      BY <2>1, <3>1 DEF VersionIsReadable
    <3>3. FileComesFirst'
      <4> SUFFICES ASSUME NEW q \in Procs, pc'[q] = "inserting"
                   PROVE  files'[code[q]] = "whole" \/ code[q] \in contested
        BY <2>1 DEF FileComesFirst
      <4>1. CASE q = p
        BY <2>1, <3>1, <4>1
      <4>2. CASE q # p
        <5>1. pc[q] = "inserting" /\ code[q] \in Codes
          BY <2>1, <4>2 DEF Calls
        <5> QED BY <3>1, <5>1 DEF FileComesFirst
      <4> QED BY <4>1, <4>2
    <3> QED BY <2>3, <3>2, <3>3
  <2> QED BY <1>6, <2>4, <2>5
<1>7. ASSUME NEW p \in Procs, InsertVersion(p)
      PROVE  Contests' /\ FileComesFirst' /\ VersionIsReadable'
  <2>1. /\ pc[p] = "inserting" /\ Storing(p) /\ code[p] \in Codes
        /\ ~Storing(p)' /\ pc'[p] = "idle"
        /\ \A q \in Procs : q # p => pc'[q] = pc[q] /\ code'[q] = code[q] /\ (Storing(q)' <=> Storing(q))
        /\ \A c \in Codes : c # code[p] => versions'[c] = versions[c]
        /\ UNCHANGED <<files, contested>>
    BY <1>7 DEF InsertVersion, Return, Storing, TypeOK, Calls
  <2>2. VersionIsReadable'
    BY <2>1 DEF VersionIsReadable, FileComesFirst
  <2>3. FileComesFirst'
    BY <2>1 DEF FileComesFirst
  <2>4. Contests'
    <3>1. \A q \in Procs : Storing(q) => code[q] \in Codes
      BY DEF Storing, Calls
    <3> QED BY <2>1, <3>1 DEF Contests
  <2> QED BY <2>2, <2>3, <2>4
<1> QED BY <1>1, <1>2, <1>3, <1>4, <1>5, <1>6, <1>7, StoreStepsAre

\* The row of the workflow and the latest version, and what was last told.
LEMMA AnswersTouched ==
  ASSUME TypeOK, Calls, Next
  PROVE  \/ UNCHANGED <<exists, latest, versions>> /\ told' \in {told, Nobody}
         \/ \E p \in Procs : FindVersion(p) \/ InsertVersion(p)
<1> USE DEF syncVars, rowVars
<1>1. ASSUME NEW d \in Syncs, SyncStep(d) PROVE UNCHANGED <<exists, latest, versions, told>>
  BY <1>1, SyncTouches
<1>2. ASSUME NEW p \in Procs, EndsEmpty(p) PROVE UNCHANGED <<exists, latest, versions>> /\ told' = Nobody
  BY <1>2, EndsEmptyTouches DEF Return
<1>3. ASSUME NEW p \in Procs, GoesOn(p) PROVE UNCHANGED <<exists, latest, versions, told>>
  BY <1>3, GoesOnTouches
<1>4. ASSUME NEW p \in Procs,
             (\E c \in Codes : Begin(p, c)) \/ Typecheck(p) \/ (\E t \in Tools : Pin(p, t))
               \/ FindNoVersion(p) \/ OpenFile(p) \/ WriteFile(p)
      PROVE  UNCHANGED <<exists, latest, versions>> /\ told' \in {told, Nobody}
  BY <1>4 DEF Begin, Typecheck, Pin, FindNoVersion, OpenFile, WriteFile
<1> QED BY <1>1, <1>2, <1>3, <1>4, StoreStepsAre

LEMMA AnswersStep ==
  ASSUME TypeOK, TypeOK', Calls, NoEmptyWorkflow, OkIsStored, Next
  PROVE  NoEmptyWorkflow' /\ OkIsStored'
<1>1. CASE UNCHANGED <<exists, latest, versions>> /\ told' \in {told, Nobody}
  BY <1>1 DEF NoEmptyWorkflow, OkIsStored
<1>2. ASSUME NEW p \in Procs, FindVersion(p) PROVE NoEmptyWorkflow' /\ OkIsStored'
  BY <1>2 DEF FindVersion, Return, NoEmptyWorkflow, OkIsStored
<1>3. ASSUME NEW p \in Procs, InsertVersion(p) PROVE NoEmptyWorkflow' /\ OkIsStored'
  <2>1. /\ code[p] \in Codes /\ pins[p] # Absent
        /\ versions' = [versions EXCEPT ![code[p]] = pins[p]]
    BY <1>3, InsertIs
  <2>2. versions'[code[p]] = pins[p]
    BY <2>1 DEF TypeOK
  <2>3. /\ exists' = TRUE /\ latest' = code[p]
        /\ told' = [code |-> code[p], pins |-> pins[p], created |-> TRUE]
    BY <1>3 DEF InsertVersion, Return
  <2> QED BY <2>1, <2>2, <2>3, StoreAssumption DEF NoEmptyWorkflow, OkIsStored
<1> QED BY <1>1, <1>2, <1>3, AnswersTouched

LEMMA DiscoveryStep ==
  ASSUME TypeOK, OneDiscovery, Next
  PROVE  OneDiscovery'
<1> USE DEF syncVars
<1>1. ASSUME NEW d \in Syncs, NEW answer \in Seen, CommitTable(d, answer) PROVE OneDiscovery'
  <2>1. /\ table' = answer /\ found'[d] = answer
        /\ sync'[d] = "committed"
        /\ \A e \in Syncs : e # d => sync'[e] = sync[e]
        /\ lone' => \A e \in Syncs : ~Midway(e)
    BY <1>1 DEF CommitTable, TypeOK
  <2> QED BY <2>1 DEF OneDiscovery, Midway
<1>2. ASSUME NEW d \in Syncs, UnlinkStubs(d) PROVE OneDiscovery'
  <2>1. /\ sync[d] = "committed" /\ sync'[d] = "unlinked"
        /\ \A e \in Syncs : e # d => sync'[e] = sync[e]
        /\ \A t \in Tools : stubs'[t] = Absent
        /\ UNCHANGED <<table, found, lone>>
    BY <1>2 DEF UnlinkStubs, TypeOK, Bare
  <2> QED BY <2>1 DEF OneDiscovery, Midway
<1>3. ASSUME NEW d \in Syncs, NEW t \in Tools, WriteStub(d, t) PROVE OneDiscovery'
  <2>1. /\ sync[d] = "unlinked" /\ found[d][t] # Absent
        /\ stubs'[t] = found[d][t] /\ found'[d][t] = Absent
        /\ \A u \in Tools : u # t => stubs'[u] = stubs[u] /\ found'[d][u] = found[d][u]
        /\ UNCHANGED <<sync, table, lone>>
    BY <1>3 DEF WriteStub, TypeOK, Seen
  <2> SUFFICES ASSUME lone PROVE OneDiscovery'
    BY <2>1 DEF OneDiscovery
  <2>2. \A e \in Syncs : e # d => sync[e] = "idle"
    BY <2>1 DEF OneDiscovery, Midway
  <2>3. \A u \in Tools : IF found'[d][u] # Absent THEN table[u] = found'[d][u] ELSE table[u] = stubs'[u]
    BY <2>1 DEF OneDiscovery
  <2> QED BY <2>1, <2>2, <2>3 DEF OneDiscovery, Midway
<1>4. ASSUME NEW d \in Syncs, EndSync(d) PROVE OneDiscovery'
  <2>1. /\ sync[d] = "unlinked" /\ sync'[d] = "idle"
        /\ \A e \in Syncs : e # d => sync'[e] = sync[e]
        /\ \A t \in Tools : found[d][t] = Absent
        /\ UNCHANGED <<table, stubs, found, lone>>
    BY <1>4 DEF EndSync, TypeOK, Bare
  <2> SUFFICES ASSUME lone PROVE OneDiscovery'
    BY <2>1 DEF OneDiscovery
  <2>2. \A t \in Tools : table[t] = stubs[t]
    BY <2>1 DEF OneDiscovery
  <2>3. stubs = table
    BY <2>2 DEF TypeOK, Seen
  <2> QED BY <2>1, <2>3 DEF OneDiscovery, Midway
<1>5. ASSUME NEW d \in Syncs, KillSync(d) PROVE OneDiscovery'
  BY <1>5 DEF KillSync, OneDiscovery
<1>6. ASSUME NEW p \in Procs, EndsEmpty(p) \/ GoesOn(p) PROVE UNCHANGED syncVars
  BY <1>6, EndsEmptyTouches, GoesOnTouches
<1>7. CASE UNCHANGED syncVars
  BY <1>7 DEF OneDiscovery, Midway
<1> QED BY <1>1, <1>2, <1>3, <1>4, <1>5, <1>6, <1>7, StoreStepsAre
        DEF SyncStep, Begin, Typecheck, Pin, FindVersion, FindNoVersion, OpenFile, WriteFile, InsertVersion

LEMMA CalmStep ==
  ASSUME TypeOK, Calls, OneDiscovery, CalmMeansStill, CheckedAsPinned, Next
  PROVE  CalmMeansStill' /\ CheckedAsPinned'
<1> USE DEF syncVars, procVars, rowVars, diskVars, Goto
<1>1. ASSUME NEW d \in Syncs, NEW answer \in Seen, CommitTable(d, answer)
      PROVE  CalmMeansStill' /\ CheckedAsPinned'
  <2>1. \A p \in Procs : calm'[p] = (calm[p] /\ pc[p] # "typed")
    BY <1>1 DEF CommitTable
  <2> QED BY <1>1, <2>1 DEF CommitTable, CalmMeansStill, CheckedAsPinned
<1>2. ASSUME NEW d \in Syncs,
             UnlinkStubs(d) \/ EndSync(d) \/ KillSync(d) \/ \E t \in Tools : WriteStub(d, t)
      PROVE  CalmMeansStill' /\ CheckedAsPinned'
  BY <1>2 DEF UnlinkStubs, WriteStub, EndSync, KillSync, CalmMeansStill, CheckedAsPinned
<1>3. ASSUME NEW p \in Procs, EndsEmpty(p) \/ FindVersion(p) \/ InsertVersion(p)
      PROVE  CalmMeansStill' /\ CheckedAsPinned'
  <2>1. /\ pc' = [pc EXCEPT ![p] = "idle"] /\ code' = [code EXCEPT ![p] = Nobody]
        /\ pins' = [pins EXCEPT ![p] = Bare] /\ calm' = [calm EXCEPT ![p] = TRUE]
        /\ UNCHANGED syncVars
    BY <1>3, EndsEmptyTouches DEF FindVersion, InsertVersion, Return
  <2>2. \A t \in Tools : Bare[t] = Absent
    BY DEF Bare
  <2> QED BY <2>1, <2>2 DEF CalmMeansStill, CheckedAsPinned, TypeOK
<1>4. ASSUME NEW p \in Procs, GoesOn(p) PROVE CalmMeansStill' /\ CheckedAsPinned'
  BY <1>4, GoesOnTouches DEF CalmMeansStill, CheckedAsPinned, TypeOK
<1>5. ASSUME NEW p \in Procs, NEW c \in Codes, Begin(p, c) PROVE CalmMeansStill' /\ CheckedAsPinned'
  <2>1. pins[p] = Bare
    BY <1>5 DEF Begin, Calls
  <2>2. \A t \in Tools : Bare[t] = Absent
    BY DEF Bare
  <2> QED BY <1>5, <2>1, <2>2 DEF Begin, CalmMeansStill, CheckedAsPinned, TypeOK
<1>6. ASSUME NEW p \in Procs, Typecheck(p) PROVE CalmMeansStill' /\ CheckedAsPinned'
  <2>1. pins[p] = Bare
    BY <1>6 DEF Typecheck, Calls
  <2>2. \A t \in Tools : Bare[t] = Absent
    BY DEF Bare
  <2>3. calm'[p] => \A t \in Tools : table[t] \in Fits[code[p]]
    BY <1>6 DEF Typecheck, OneDiscovery, TypeOK
  <2> QED BY <1>6, <2>1, <2>2, <2>3 DEF Typecheck, CalmMeansStill, CheckedAsPinned, TypeOK
<1>7. ASSUME NEW p \in Procs, NEW t \in Tools, Pin(p, t) PROVE CalmMeansStill' /\ CheckedAsPinned'
  <2>1. calm[p] => table[t] \in Fits[code[p]]
    BY <1>7 DEF Pin, CalmMeansStill, OneDiscovery
  <2>2. \A q \in Procs, s \in Tools : pins'[q][s] = IF q = p /\ s = t THEN table[t] ELSE pins[q][s]
    BY <1>7 DEF Pin, TypeOK, Seen
  <2> QED BY <1>7, <2>1, <2>2 DEF Pin, CalmMeansStill, CheckedAsPinned
<1>8. ASSUME NEW p \in Procs, FindNoVersion(p) \/ OpenFile(p) \/ WriteFile(p)
      PROVE  CalmMeansStill' /\ CheckedAsPinned'
  BY <1>8 DEF FindNoVersion, OpenFile, WriteFile, CalmMeansStill, CheckedAsPinned, TypeOK
<1> QED BY <1>1, <1>2, <1>3, <1>4, <1>5, <1>6, <1>7, <1>8, StoreStepsAre DEF SyncStep

-----------------------------------------------------------------------------
LEMMA StoreInductive == Spec => []StoreInv
<1>1. ASSUME StoreInv, Next PROVE StoreInv'
  <2>1. TypeOK' /\ Calls'
    BY <1>1, StoreTypeStep, CallsStep DEF StoreInv
  <2> QED BY <1>1, <2>1, FilesStep, AnswersStep, DiscoveryStep, CalmStep DEF StoreInv
<1>2. ASSUME StoreInv, UNCHANGED vars PROVE StoreInv'
  <2> USE <1>2 DEF vars, syncVars, procVars, rowVars, diskVars
  <2>1. TypeOK' /\ Calls' /\ Contests' /\ FileComesFirst' /\ VersionIsReadable'
    BY DEF StoreInv, TypeOK, Calls, Contests, Storing, FileComesFirst, VersionIsReadable
  <2>2. NoEmptyWorkflow' /\ OkIsStored' /\ OneDiscovery' /\ CalmMeansStill' /\ CheckedAsPinned'
    BY DEF StoreInv, NoEmptyWorkflow, OkIsStored, OneDiscovery, Midway, CalmMeansStill, CheckedAsPinned
  <2> QED BY <2>1, <2>2 DEF StoreInv
<1> QED BY <1>1, <1>2, StoreInit, PTL DEF Spec

(* Whoever reads the store finds workflows with versions with files,       *)
(* whoever was killed, but where one code was stored by two processes at   *)
(* once (workflows.py:262-313).                                            *)
THEOREM StoreIsAlwaysWhole == Spec => []StoreIsWhole
BY StoreInductive, PTL DEF StoreInv, StoreIsWhole

(* An answer of ok names a version that is stored, and one that says it    *)
(* was created the pins it is stored with (workflows.py:315-323).          *)
THEOREM OkIsAlwaysStored == Spec => []OkIsStored
BY StoreInductive, PTL DEF StoreInv

(* Code that no discovery disturbed is pinned to schemas it typechecks     *)
(* against (compiler.py:99-140, init_cmd.py:163-205).                      *)
THEOREM CheckedAsPinnedAlways == Spec => []CheckedAsPinned
BY StoreInductive, PTL DEF StoreInv

(* A stored version keeps its pins for ever (db.py:344).                   *)
THEOREM VersionsStayAsTheyAre == Spec => VersionsAreImmutable
<1>1. ASSUME StoreInv, Next PROVE \A c \in Codes : versions[c] # Absent => versions'[c] = versions[c]
  BY <1>1, Immutable DEF StoreInv
<1> QED BY <1>1, StoreInductive, PTL DEF Spec, VersionsAreImmutable

-----------------------------------------------------------------------------
(* The store implements the archive.                                       *)

\* What the mapping needs besides: who is past its pins has all of them.
AllPinned ==
    \A p \in Procs : pc[p] \notin {"idle", "given", "typed"} => pins[p] \in [Tools -> Schemas]

LEMMA AllPinnedStep == ASSUME TypeOK, Calls, AllPinned, Next PROVE AllPinned'
<1> USE DEF syncVars, procVars, rowVars, diskVars, Goto
<1>1. ASSUME NEW d \in Syncs, SyncStep(d) PROVE AllPinned'
  BY <1>1, SyncTouches DEF AllPinned
<1>2. ASSUME NEW p \in Procs, EndsEmpty(p) \/ FindVersion(p) \/ InsertVersion(p) PROVE AllPinned'
  <2>1. pc' = [pc EXCEPT ![p] = "idle"] /\ pins' = [pins EXCEPT ![p] = Bare]
    BY <1>2, EndsEmptyTouches DEF FindVersion, InsertVersion, Return
  <2> QED BY <2>1 DEF AllPinned, TypeOK
<1>3. ASSUME NEW p \in Procs, FindWorkflow(p) PROVE AllPinned'
  <2>1. pins[p] \in [Tools -> Schemas]
    BY <1>3, StoreAssumption DEF FindWorkflow, TypeOK, Seen
  <2> QED BY <1>3, <2>1 DEF FindWorkflow, AllPinned, TypeOK
<1>4. ASSUME NEW p \in Procs, InsertWorkflow(p) \/ Describe(p) PROVE AllPinned'
  BY <1>4 DEF InsertWorkflow, Describe, AllPinned, TypeOK
<1>5. ASSUME NEW p \in Procs, (\E c \in Codes : Begin(p, c)) \/ Typecheck(p) PROVE AllPinned'
  BY <1>5 DEF Begin, Typecheck, AllPinned, TypeOK
<1>6. ASSUME NEW p \in Procs, NEW t \in Tools, Pin(p, t) PROVE AllPinned'
  BY <1>6 DEF Pin, AllPinned, TypeOK
<1>7. ASSUME NEW p \in Procs, FindNoVersion(p) \/ OpenFile(p) \/ WriteFile(p) PROVE AllPinned'
  BY <1>7 DEF FindNoVersion, OpenFile, WriteFile, AllPinned, TypeOK
<1> QED BY <1>1, <1>2, <1>3, <1>4, <1>5, <1>6, <1>7, StoreStepsAre DEF GoesOn

LEMMA AllPinnedAlways == Spec => []AllPinned
<1>1. Init => AllPinned
  BY DEF Init, AllPinned
<1>2. StoreInv /\ AllPinned /\ [Next]_vars => AllPinned'
  <2>1. ASSUME UNCHANGED vars, AllPinned PROVE AllPinned'
    BY <2>1 DEF vars, procVars, AllPinned
  <2> QED BY <2>1, AllPinnedStep DEF StoreInv
<1> QED BY <1>1, <1>2, StoreInductive, PTL DEF Spec

ArchiveStep == Archive!ArchiveNext \/ UNCHANGED Archive!archiveVars

LEMMA StoreStepMaps ==
  ASSUME StoreInv, AllPinned, Next
  PROVE  ArchiveStep
<1> USE DEF syncVars, procVars, rowVars, diskVars, Goto, Archive!archiveVars
<1>0. TypeOK /\ Calls
  BY DEF StoreInv
<1>1. ASSUME NEW d \in Syncs, SyncStep(d) PROVE ArchiveStep
  BY <1>1, SyncTouches DEF ArchiveStep
<1>2. ASSUME NEW p \in Procs, EndsEmpty(p) \/ \E c \in Codes : Begin(p, c) PROVE ArchiveStep
  <2>1. Archive!Refuse
    BY <1>0, <1>2, EndsEmptyTouches DEF Begin, Return, Archive!Refuse
  <2> QED BY <2>1 DEF ArchiveStep, Archive!ArchiveNext
<1>3. ASSUME NEW p \in Procs,
             Typecheck(p) \/ (\E t \in Tools : Pin(p, t)) \/ GoesOn(p)
      PROVE  ArchiveStep
  BY <1>0, <1>3, GoesOnTouches DEF Typecheck, Pin, ArchiveStep
<1>4. ASSUME NEW p \in Procs, FindVersion(p) PROVE ArchiveStep
  <2>1. code[p] \in Codes /\ pins[p] \in [Tools -> Schemas]
    BY <1>4 DEF FindVersion, StoreInv, Calls, AllPinned
  <2>2. Archive!Find(code[p], pins[p])
    BY <1>4 DEF FindVersion, Return, Archive!Find, Archive!Answer
  <2> QED BY <2>1, <2>2 DEF ArchiveStep, Archive!ArchiveNext
<1>5. ASSUME NEW p \in Procs, FindNoVersion(p) PROVE ArchiveStep
  <2>1. code[p] \in Codes
    BY <1>5 DEF FindNoVersion, StoreInv, Calls
  <2>2. Archive!Contest(code[p]) \/ UNCHANGED Archive!archiveVars
    BY <1>5 DEF FindNoVersion, Archive!Contest
  <2> QED BY <2>1, <2>2 DEF ArchiveStep, Archive!ArchiveNext
<1>6. ASSUME NEW p \in Procs, OpenFile(p) \/ WriteFile(p) PROVE ArchiveStep
  <2>1. code[p] \in Codes /\ (versions[code[p]] = Absent \/ code[p] \in contested)
    BY <1>6 DEF OpenFile, WriteFile, StoreInv, Calls, Contests, Storing
  <2>2. Archive!Rewrite(code[p])
    BY <1>6, <2>1 DEF OpenFile, WriteFile, Archive!Rewrite
  <2> QED BY <2>1, <2>2 DEF ArchiveStep, Archive!ArchiveNext
<1>7. ASSUME NEW p \in Procs, InsertVersion(p) PROVE ArchiveStep
  <2>1. /\ code[p] \in Codes /\ pins[p] \in [Tools -> Schemas]
        /\ files[code[p]] = "whole" \/ code[p] \in contested
    BY <1>7 DEF InsertVersion, StoreInv, Calls, AllPinned, FileComesFirst
  <2>2. Archive!Keep(code[p], pins[p])
    BY <1>7, <2>1 DEF InsertVersion, Return, Archive!Keep, Archive!Answer
  <2> QED BY <2>1, <2>2 DEF ArchiveStep, Archive!ArchiveNext
<1> QED BY <1>1, <1>2, <1>3, <1>4, <1>5, <1>6, <1>7, StoreStepsAre

(* Whoever reads the store sees an archive: a version is kept once, with    *)
(* all its pins and a whole text nobody writes again unless its code was    *)
(* contested, and what an answer names is kept (workflows.py:262-323,       *)
(* db.py:344).                                                              *)
THEOREM StoreImplementsArchive == Spec => ImplementsArchive
<1>1. Init => Archive!ArchiveInit
  BY DEF Init, Archive!ArchiveInit
<1>2. StoreInv /\ AllPinned /\ [Next]_vars => [Archive!ArchiveNext]_(Archive!archiveVars)
  <2>1. ASSUME UNCHANGED vars PROVE UNCHANGED Archive!archiveVars
    BY <2>1 DEF vars, rowVars, diskVars, Archive!archiveVars
  <2> QED BY <2>1, StoreStepMaps DEF ArchiveStep
<1> QED BY <1>1, <1>2, StoreInductive, AllPinnedAlways, PTL DEF Spec, ImplementsArchive, Archive!ArchiveSpec
=============================================================================
