------------------------------ MODULE Opening ------------------------------
(***************************************************************************)
(* Opening a Runlace home: db.connect and db._migrate.  Every command, the  *)
(* MCP server and the daemon open the same SQLite file on their own, each   *)
(* with the list of migrations of the Runlace it was installed with.  A     *)
(* statement that changes the schema is committed by itself; the version    *)
(* row is written after the last of them, unconditionally.                  *)
(***************************************************************************)
EXTENDS Integers, FiniteSets

CONSTANTS Procs,        \* the processes that open the home
          Level,        \* Level[p]: SCHEMA_VERSION of the Runlace p runs
          Idempotent    \* the migrations that say IF NOT EXISTS (queue_lock)

ASSUME LevelAssumption == Level \in [Procs -> Nat \ {0}]
ASSUME IdempotentAssumption == Idempotent \subseteq Nat \ {0}

VARIABLES applied,      \* the schema statements in the file: 0 is SCHEMA,
                        \* k > 0 the k-th of MIGRATIONS
          version,      \* the meta row schema_version, 0 when there is none
          pc,           \* where each opening stands
          next,         \* the statement of MIGRATIONS an opening is at
          \* What happened, for the properties only:
          overlapped,   \* the openings that shared the file with another one
          torn,         \* an opening stopped between an ALTER and its version row
          lowered       \* an older Runlace wrote its version over a newer one's

file == <<applied, version>>
past == <<overlapped, torn, lowered>>
vars == <<applied, version, pc, next, overlapped, torn, lowered>>

Place == {"closed", "created", "migrating", "open", "failed"}

\* Between the first statement of connect() and its return or exception.
Busy == {p \in Procs : pc[p] \in {"created", "migrating"}}

\* Statements in the file that the version row does not account for.
Unrecorded == {k \in applied : k >= version /\ k > 0}

Init ==
    /\ applied = {}
    /\ version = 0
    /\ pc = [p \in Procs |-> "closed"]
    /\ next = [p \in Procs |-> 1]
    /\ overlapped = {}
    /\ torn = FALSE
    /\ lowered = FALSE

\* executescript(SCHEMA): every statement of it says IF NOT EXISTS.
Create(p) ==
    /\ pc[p] = "closed"
    /\ applied' = applied \cup {0}
    /\ pc' = [pc EXCEPT ![p] = "created"]
    /\ overlapped' = IF Busy = {} THEN overlapped \ {p}
                     ELSE overlapped \cup Busy \cup {p}
    /\ UNCHANGED <<version, next, torn, lowered>>

\* A variant: the slice MIGRATIONS[current:], one statement late.
SkipsOne(p) ==
    /\ pc[p] = "created"
    /\ next' = [next EXCEPT ![p] = IF version = 0 THEN 1 ELSE version + 1]
    /\ pc' = [pc EXCEPT ![p] = "migrating"]
    /\ UNCHANGED <<file, past>>

\* _migrate reads the version row: without one the database is at version 1.
ReadVersion(p) ==
    /\ pc[p] = "created"
    /\ next' = [next EXCEPT ![p] = IF version = 0 THEN 1 ELSE version]
    /\ pc' = [pc EXCEPT ![p] = "migrating"]
    /\ UNCHANGED <<file, past>>

\* One statement of MIGRATIONS[current - 1:], committed by itself.
Apply(p) ==
    /\ pc[p] = "migrating"
    /\ next[p] < Level[p]
    /\ next[p] \notin applied \/ next[p] \in Idempotent
    /\ applied' = applied \cup {next[p]}
    /\ next' = [next EXCEPT ![p] = @ + 1]
    /\ UNCHANGED <<version, pc, past>>

\* ALTER TABLE ADD COLUMN of a column that is there raises, and connect with it.
Duplicate(p) ==
    /\ pc[p] = "migrating"
    /\ next[p] < Level[p]
    /\ next[p] \in applied \ Idempotent
    /\ pc' = [pc EXCEPT ![p] = "failed"]
    /\ UNCHANGED <<file, next, past>>

\* A variant: the version row is written only by the opening that created the database.
StampOnce(p) ==
    /\ pc[p] = "migrating"
    /\ next[p] >= Level[p]
    /\ version' = IF version = 0 THEN Level[p] ELSE version
    /\ lowered' = lowered
    /\ pc' = [pc EXCEPT ![p] = "open"]
    /\ UNCHANGED <<applied, next, overlapped, torn>>

\* The version row becomes this Runlace's own version, whatever it was.
Stamp(p) ==
    /\ pc[p] = "migrating"
    /\ next[p] >= Level[p]
    /\ version' = Level[p]
    /\ lowered' = IF Level[p] < version THEN TRUE ELSE lowered
    /\ pc' = [pc EXCEPT ![p] = "open"]
    /\ UNCHANGED <<applied, next, overlapped, torn>>

\* The process is killed, or the write lock was not free within busy_timeout.
Interrupt(p) ==
    /\ p \in Busy
    /\ pc' = [pc EXCEPT ![p] = "failed"]
    /\ torn' = IF pc[p] = "migrating" /\ \E k \in Unrecorded : k < next[p]
               THEN TRUE ELSE torn
    /\ UNCHANGED <<file, next, overlapped, lowered>>

\* The command ends, and the next one opens the home again.
Close(p) ==
    /\ pc[p] \in {"open", "failed"}
    /\ pc' = [pc EXCEPT ![p] = "closed"]
    /\ UNCHANGED <<file, next, past>>

Next ==
    \E p \in Procs :
        \/ Create(p)    \/ ReadVersion(p)
        \/ Apply(p)     \/ Duplicate(p)
        \/ Stamp(p)     \/ Interrupt(p)
        \/ Close(p)

Spec == Init /\ [][Next]_vars

-----------------------------------------------------------------------------
(* Properties *)

TypeOK ==
    /\ applied \subseteq Nat
    /\ version \in Nat
    /\ pc \in [Procs -> Place]
    /\ next \in [Procs -> Nat \ {0}]
    /\ overlapped \subseteq Procs
    /\ torn \in BOOLEAN
    /\ lowered \in BOOLEAN

\* A connection connect() returned finds every table and column its Runlace
\* knows, whoever migrated the file, raced for it or was killed over it.
OpenedIsWhole ==
    \A p \in Procs : pc[p] = "open" => 0 .. Level[p] - 1 \subseteq applied

\* Statements that the version row does not record are always in the hands of
\* an opening that is past the last of them and will record it, unless one was
\* interrupted or an older Runlace lowered the version: only those two leave a
\* home that every later opening of the newer Runlace fails on.
UnrecordedIsInHand ==
    Unrecorded # {} /\ ~torn /\ ~lowered =>
        \E p \in Procs : /\ pc[p] = "migrating"
                         /\ \A k \in applied : k < next[p]

\* An opening that nothing shared the file with fails only on a home that was
\* torn or lowered before.
FailureHasAReason ==
    [][\A p \in Procs : Duplicate(p) => torn \/ lowered \/ p \in overlapped]_vars

=============================================================================
