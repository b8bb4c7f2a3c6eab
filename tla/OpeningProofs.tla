--------------------------- MODULE OpeningProofs ---------------------------
(***************************************************************************)
(* The proofs about Opening, for any number of processes, any versions of   *)
(* Runlace and any list of migrations.                                      *)
(***************************************************************************)
EXTENDS Opening, TLAPS

\* The statements are in the file without a gap, and at least as many as the
\* version row says.
FileInv ==
    /\ \A k \in applied : 0 .. k \subseteq applied
    /\ version > 0 => 0 .. version - 1 \subseteq applied

\* What an opening has behind it.
ProgressInv ==
    \A p \in Procs :
        /\ pc[p] \in {"created", "migrating", "open"} => 0 \in applied
        /\ pc[p] = "migrating" => 0 .. next[p] - 1 \subseteq applied
        /\ pc[p] = "migrating" /\ ~lowered /\ next[p] > Level[p] => version >= next[p]
        /\ pc[p] = "migrating" /\ ~lowered /\ p \notin overlapped => next[p] >= version

\* Two openings at once know of each other.
OverlapInv ==
    \A p, q \in Busy : p # q => p \in overlapped

OpeningInv ==
    /\ TypeOK
    /\ FileInv
    /\ ProgressInv
    /\ OverlapInv
    /\ OpenedIsWhole
    /\ UnrecordedIsInHand

\* Every reachable state is of its type.
LEMMA OpeningTyping == TypeOK /\ [Next]_vars => TypeOK'
<1> SUFFICES ASSUME TypeOK, [Next]_vars PROVE TypeOK'
    OBVIOUS
<1> USE LevelAssumption DEF TypeOK, Place
<1>1. CASE UNCHANGED vars
    BY <1>1 DEF vars
<1>2. ASSUME NEW p \in Procs, Create(p) PROVE TypeOK'
    BY <1>2 DEF Create, Busy
<1>3. ASSUME NEW p \in Procs, ReadVersion(p) PROVE TypeOK'
    BY <1>3 DEF ReadVersion, file, past
<1>4. ASSUME NEW p \in Procs, Apply(p) PROVE TypeOK'
    <2>1. next[p] \in applied' \ {0} /\ next[p] + 1 \in Nat \ {0}
        BY <1>4 DEF Apply
    <2> QED BY <1>4, <2>1 DEF Apply, past
<1>5. ASSUME NEW p \in Procs, Duplicate(p) PROVE TypeOK'
    BY <1>5 DEF Duplicate, file, past
<1>6. ASSUME NEW p \in Procs, Stamp(p) PROVE TypeOK'
    BY <1>6 DEF Stamp
<1>7. ASSUME NEW p \in Procs, Interrupt(p) PROVE TypeOK'
    <2>1. torn' \in BOOLEAN
        BY <1>7 DEF Interrupt
    <2> QED BY <1>7, <2>1 DEF Interrupt, file, Busy
<1>8. ASSUME NEW p \in Procs, Close(p) PROVE TypeOK'
    BY <1>8 DEF Close, file, past
<1> QED BY <1>1, <1>2, <1>3, <1>4, <1>5, <1>6, <1>7, <1>8 DEF Next

\* No statement is applied over a gap: the file only grows, by the next one.
LEMMA FileStep == OpeningInv /\ [Next]_vars => FileInv'
<1> SUFFICES ASSUME OpeningInv, [Next]_vars PROVE FileInv'
    OBVIOUS
<1> USE LevelAssumption DEF OpeningInv, TypeOK, FileInv
<1>1. CASE UNCHANGED vars
    BY <1>1 DEF vars
<1>2. ASSUME NEW p \in Procs, Create(p) PROVE FileInv'
    BY <1>2 DEF Create
<1>3. ASSUME NEW p \in Procs, Apply(p) PROVE FileInv'
    <2>1. 0 .. next[p] - 1 \subseteq applied
        BY <1>3 DEF Apply, ProgressInv
    <2>2. next[p] \in Nat /\ 0 .. next[p] \subseteq applied'
        BY <1>3, <2>1 DEF Apply
    <2>3. \A k \in applied' : 0 .. k \subseteq applied'
        BY <1>3, <2>2 DEF Apply
    <2> QED BY <1>3, <2>3 DEF Apply
<1>4. ASSUME NEW p \in Procs, Stamp(p) PROVE FileInv'
    <2>1. 0 .. Level[p] - 1 \subseteq applied
        BY <1>4 DEF Stamp, ProgressInv
    <2> QED BY <1>4, <2>1 DEF Stamp
<1>5. ASSUME NEW p \in Procs, ReadVersion(p) \/ Duplicate(p) \/ Interrupt(p) \/ Close(p)
      PROVE FileInv'
    BY <1>5 DEF ReadVersion, Duplicate, Interrupt, Close, file
<1> QED BY <1>1, <1>2, <1>3, <1>4, <1>5 DEF Next

\* Two openings that are both between their first and last statement are both
\* marked, from the step the later of them started.
LEMMA OverlapStep == OpeningInv /\ [Next]_vars => OverlapInv'
<1> SUFFICES ASSUME OpeningInv, [Next]_vars PROVE OverlapInv'
    OBVIOUS
<1> USE DEF OpeningInv, TypeOK, OverlapInv, Busy
<1>1. CASE UNCHANGED vars
    BY <1>1 DEF vars
<1>2. ASSUME NEW p \in Procs, Create(p) PROVE OverlapInv'
    BY <1>2 DEF Create
<1>3. ASSUME NEW p \in Procs, ReadVersion(p) \/ Duplicate(p) \/ Interrupt(p) \/ Close(p)
      PROVE OverlapInv'
    BY <1>3 DEF ReadVersion, Duplicate, Interrupt, Close, past
<1>4. ASSUME NEW p \in Procs, Apply(p) \/ Stamp(p) PROVE OverlapInv'
    BY <1>4 DEF Apply, Stamp, past
<1> QED BY <1>1, <1>2, <1>3, <1>4 DEF Next

\* An opening has applied what it is past, and was not overtaken unless it
\* shared the file.
LEMMA ProgressStep == OpeningInv /\ [Next]_vars => ProgressInv'
<1> SUFFICES ASSUME OpeningInv, [Next]_vars PROVE ProgressInv'
    OBVIOUS
<1> USE LevelAssumption DEF OpeningInv, TypeOK, ProgressInv
<1>1. CASE UNCHANGED vars
    BY <1>1 DEF vars
<1>2. ASSUME NEW p \in Procs, Create(p) PROVE ProgressInv'
    BY <1>2 DEF Create
<1>3. ASSUME NEW p \in Procs, ReadVersion(p) PROVE ProgressInv'
    <2>1. next'[p] \in Nat /\ 0 .. next'[p] - 1 \subseteq applied
        BY <1>3 DEF ReadVersion, FileInv
    <2> QED BY <1>3, <2>1 DEF ReadVersion, file, past
<1>4. ASSUME NEW p \in Procs, Apply(p) PROVE ProgressInv'
    BY <1>4 DEF Apply, past
<1>5. ASSUME NEW p \in Procs, Stamp(p) PROVE ProgressInv'
    <2>1. ASSUME NEW q \in Procs, q # p, pc[q] = "migrating" PROVE q \in overlapped
        BY <1>5, <2>1 DEF Stamp, OverlapInv, Busy
    <2>2. ASSUME NEW q \in Procs, q # p, pc'[q] = "migrating", ~lowered'
          PROVE /\ next'[q] > Level[q] => version' >= next'[q]
                /\ q \notin overlapped' => next'[q] >= version'
        BY <1>5, <2>1, <2>2 DEF Stamp
    <2> QED BY <1>5, <2>2 DEF Stamp
<1>6. ASSUME NEW p \in Procs, Duplicate(p) \/ Interrupt(p) \/ Close(p) PROVE ProgressInv'
    BY <1>6 DEF Duplicate, Interrupt, Close, file, past
<1> QED BY <1>1, <1>2, <1>3, <1>4, <1>5, <1>6 DEF Next

\* A connection that was returned keeps its schema: nothing is ever dropped.
LEMMA WholeStep == OpeningInv /\ [Next]_vars => OpenedIsWhole'
<1> SUFFICES ASSUME OpeningInv, [Next]_vars PROVE OpenedIsWhole'
    OBVIOUS
<1> USE LevelAssumption DEF OpeningInv, TypeOK, OpenedIsWhole
<1>1. CASE UNCHANGED vars
    BY <1>1 DEF vars
<1>2. ASSUME NEW p \in Procs, Stamp(p) PROVE OpenedIsWhole'
    <2>1. 0 .. Level[p] - 1 \subseteq applied
        BY <1>2 DEF Stamp, ProgressInv
    <2> QED BY <1>2, <2>1 DEF Stamp
<1>3. ASSUME NEW p \in Procs, Create(p) \/ Apply(p) PROVE OpenedIsWhole'
    BY <1>3 DEF Create, Apply
<1>4. ASSUME NEW p \in Procs, ReadVersion(p) \/ Duplicate(p) \/ Interrupt(p) \/ Close(p)
      PROVE OpenedIsWhole'
    BY <1>4 DEF ReadVersion, Duplicate, Interrupt, Close, file
<1> QED BY <1>1, <1>2, <1>3, <1>4 DEF Next

\* The opening that holds unrecorded statements passes them on only by
\* recording them, by being interrupted, or to the opening that applies the next.
LEMMA InHandStep == OpeningInv /\ [Next]_vars => UnrecordedIsInHand'
<1> SUFFICES ASSUME OpeningInv, [Next]_vars PROVE UnrecordedIsInHand'
    OBVIOUS
<1> USE LevelAssumption DEF OpeningInv, TypeOK
<1> DEFINE Holds(q) == pc[q] = "migrating" /\ \A k \in applied : k < next[q]
<1>1. CASE UNCHANGED vars
    BY <1>1 DEF vars, UnrecordedIsInHand, Unrecorded
<1>2. ASSUME NEW p \in Procs, Create(p) PROVE UnrecordedIsInHand'
    BY <1>2 DEF Create, UnrecordedIsInHand, Unrecorded
<1>3. ASSUME NEW p \in Procs, ReadVersion(p) PROVE UnrecordedIsInHand'
    BY <1>3 DEF ReadVersion, file, past, UnrecordedIsInHand, Unrecorded
<1>4. ASSUME NEW p \in Procs, Apply(p) PROVE UnrecordedIsInHand'
    <2>1. CASE next[p] \in applied
        <3>1. applied' = applied /\ Unrecorded' = Unrecorded
            BY <1>4, <2>1 DEF Apply, Unrecorded
        <3> QED BY <1>4, <3>1 DEF Apply, past, UnrecordedIsInHand
    <2>2. CASE next[p] \notin applied
        <3>1. \A k \in applied : k < next[p]
            BY <1>4, <2>2 DEF Apply, FileInv
        <3>2. pc'[p] = "migrating" /\ \A k \in applied' : k < next'[p]
            BY <1>4, <3>1 DEF Apply
        <3> QED BY <3>2 DEF UnrecordedIsInHand
    <2> QED BY <2>1, <2>2
<1>5. ASSUME NEW p \in Procs, Duplicate(p) PROVE UnrecordedIsInHand'
    BY <1>5 DEF Duplicate, file, past, UnrecordedIsInHand, Unrecorded
<1>6. ASSUME NEW p \in Procs, Stamp(p) PROVE UnrecordedIsInHand'
    <2> SUFFICES ASSUME Unrecorded' # {}, ~torn', ~lowered'
                 PROVE \E q \in Procs : Holds(q)'
        BY DEF UnrecordedIsInHand
    <2>0. ~(Level[p] < version) /\ ~torn /\ ~lowered
        BY <1>6, Zenon DEF Stamp
    <2>1. version' >= version /\ ~torn /\ ~lowered
        BY <1>6, <2>0 DEF Stamp
    <2>2. Unrecorded' \subseteq Unrecorded
        <3>1. applied' = applied /\ version' \in Nat
            BY <1>6 DEF Stamp
        <3>2. ASSUME NEW k \in applied, k >= version' PROVE k >= version
            BY <2>1, <3>1, <3>2
        <3> QED BY <3>1, <3>2 DEF Unrecorded
    <2>3. PICK q \in Procs : Holds(q)
        BY <2>1, <2>2 DEF UnrecordedIsInHand
    <2>4. CASE q = p
        <3>1. ~(next[p] > Level[p])
            BY <1>6, <2>0, <2>1 DEF Stamp, ProgressInv
        <3>2. next[p] = Level[p]
            BY <1>6, <3>1 DEF Stamp
        <3>3. \A k \in applied' : ~(k >= version')
            BY <1>6, <2>3, <2>4, <3>2 DEF Stamp
        <3> QED BY <3>3 DEF Unrecorded
    <2>5. CASE q # p
        BY <1>6, <2>3, <2>5 DEF Stamp
    <2> QED BY <2>4, <2>5
<1>7. ASSUME NEW p \in Procs, Interrupt(p) PROVE UnrecordedIsInHand'
    <2> SUFFICES ASSUME Unrecorded' # {}, ~torn', ~lowered'
                 PROVE \E q \in Procs : Holds(q)'
        BY DEF UnrecordedIsInHand
    <2>1. Unrecorded' = Unrecorded /\ ~torn /\ ~lowered
        BY <1>7 DEF Interrupt, file, Unrecorded
    <2>2. PICK q \in Procs : Holds(q)
        BY <2>1 DEF UnrecordedIsInHand
    <2>3. q # p
        BY <1>7, <2>1, <2>2 DEF Interrupt, Unrecorded
    <2> QED BY <1>7, <2>2, <2>3 DEF Interrupt, file
<1>8. ASSUME NEW p \in Procs, Close(p) PROVE UnrecordedIsInHand'
    BY <1>8 DEF Close, file, past, UnrecordedIsInHand, Unrecorded
<1> QED BY <1>1, <1>2, <1>3, <1>4, <1>5, <1>6, <1>7, <1>8, Zenon DEF Next

LEMMA OpeningInductive == Spec => []OpeningInv
<1>1. Init => OpeningInv
    <2> SUFFICES ASSUME Init PROVE OpeningInv
        OBVIOUS
    <2> USE LevelAssumption DEF Init
    <2>1. TypeOK
        <3>1. pc \in [Procs -> Place] /\ next \in [Procs -> Nat \ {0}]
            BY DEF Place
        <3>2. torn \in BOOLEAN /\ lowered \in BOOLEAN
            BY Zenon
        <3> QED BY <3>1, <3>2 DEF TypeOK
    <2>2. FileInv
        BY DEF FileInv
    <2>3. \A p \in Procs : pc[p] = "closed"
        OBVIOUS
    <2>4. ProgressInv /\ OpenedIsWhole /\ OverlapInv
        BY ONLY <2>3 DEF ProgressInv, OpenedIsWhole, OverlapInv, Busy
    <2>5. UnrecordedIsInHand
        <3>1. ~(\E k \in Unrecorded : TRUE)
            BY DEF Unrecorded
        <3> QED BY <3>1, Zenon DEF UnrecordedIsInHand
    <2> QED BY <2>1, <2>2, <2>4, <2>5, Zenon DEF OpeningInv
<1>2. OpeningInv /\ [Next]_vars => OpeningInv'
    BY OpeningTyping, FileStep, ProgressStep, OverlapStep, WholeStep, InHandStep DEF OpeningInv
<1> QED BY <1>1, <1>2, PTL DEF Spec

\* Whatever was raced, killed or migrated by another Runlace, a connection that
\* connect() returns has every table and column its own Runlace knows.
THEOREM AnOpenHomeIsWhole == Spec => []OpenedIsWhole
BY OpeningInductive, PTL DEF OpeningInv

\* Only an interruption or an older Runlace leaves statements in the file that
\* no opening is about to record.
THEOREM UnrecordedStatementsAreInHand == Spec => []UnrecordedIsInHand
BY OpeningInductive, PTL DEF OpeningInv

\* A lone opening of a home that was never torn or lowered never meets a column
\* it was about to add.
THEOREM OnlyTornHomesFail == Spec => FailureHasAReason
<1>1. OpeningInv /\ [Next]_vars
        => [\A p \in Procs : Duplicate(p) => torn \/ lowered \/ p \in overlapped]_vars
    <2> SUFFICES ASSUME OpeningInv, NEW p \in Procs, Duplicate(p), ~torn, ~lowered,
                        p \notin overlapped
                 PROVE FALSE
        OBVIOUS
    <2> USE LevelAssumption DEF OpeningInv, TypeOK
    <2>1. pc[p] = "migrating" /\ next[p] \in applied /\ next[p] >= version
        BY DEF Duplicate, ProgressInv
    <2>2. next[p] \in Unrecorded
        BY <2>1 DEF Unrecorded
    <2>3. PICK q \in Procs : pc[q] = "migrating" /\ \A k \in applied : k < next[q]
        BY <2>2 DEF UnrecordedIsInHand
    <2>4. q # p
        BY <2>1, <2>3
    <2> QED BY <2>1, <2>3, <2>4 DEF OverlapInv, Busy
<1> QED BY <1>1, OpeningInductive, PTL DEF Spec, FailureHasAReason

=============================================================================
