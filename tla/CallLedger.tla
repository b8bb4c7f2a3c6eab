----------------------------- MODULE CallLedger -----------------------------
(***************************************************************************)
(* What one execution promises about the calls its workflow makes, with no *)
(* child, pipe, clock or session in sight: one call is in hand at a time,  *)
(* it leaves for a server once, its row is written before the workflow     *)
(* learns what came of it, a row that says ok is of a call that took       *)
(* effect and says what it cost, and whoever is told how the execution     *)
(* went is told of everything that left (runs.py:373-390).  It may stop at *)
(* any moment: then at most the call in hand has left untold.              *)
(*                                                                         *)
(* RunnerBridge implements this; its refinement mapping is at its end.     *)
(***************************************************************************)
EXTENDS Naturals, Sequences

CONSTANTS
    Calls,         \* the calls a workflow may make, numbered from 1
    Rows           \* what a row may say: seq, id, ok and tokens, among others

VARIABLES
    open,          \* calls may leave and rows may be written
    hand,          \* the call in hand, 0 for none
    left,          \* calls that left for a server
    done,          \* calls that took effect there
    cost,          \* how many answers of the model each call was charged for
    rows,          \* the log
    known,         \* the last call the workflow has the answer of, 0 for none
    told           \* the log as its caller was told it, if it was

ledgerVars == <<open, hand, left, done, cost, rows, known, told>>

Logged(i) == \E k \in DOMAIN rows : rows[k].id = i
Left(i) == i \in left \/ (i \in Calls /\ cost[i] > 0)

LedgerInit ==
    /\ open = TRUE /\ hand = 0
    /\ left = {} /\ done = {} /\ cost = [i \in Calls |-> 0]
    /\ rows = <<>> /\ known = 0 /\ told = {}

\* Calls are taken up in their order, each once.  Not every number is a call's.
TakeUp(i) ==
    /\ open /\ hand = 0
    /\ i > known /\ ~Left(i) /\ \A k \in DOMAIN rows : rows[k].id < i
    /\ hand' = i
    /\ UNCHANGED <<open, left, done, cost, rows, known, told>>

Send ==
    /\ open /\ hand # 0
    /\ ~Left(hand) /\ ~Logged(hand)
    /\ left' = left \cup {hand}
    /\ UNCHANGED <<open, hand, done, cost, rows, known, told>>

\* The effect may come late, or when all is over, or never.
TakeEffect(i) ==
    /\ i \in left
    /\ done' = done \cup {i}
    /\ UNCHANGED <<open, hand, left, cost, rows, known, told>>

\* The model answers; it is asked again once at most.
Charge ==
    /\ open /\ hand \in Calls
    /\ ~Logged(hand) /\ cost[hand] < 2
    /\ cost' = [cost EXCEPT ![hand] = @ + 1]
    /\ UNCHANGED <<open, hand, left, done, rows, known, told>>

\* The row of the call in hand, true in what it says.
Enter(row) ==
    /\ open /\ hand # 0
    /\ ~Logged(hand)
    /\ row.id = hand /\ row.seq = Len(rows) + 1
    /\ row.ok => (hand \in done \/ cost[hand] > 0) /\ row.tokens = cost[hand]
    /\ rows' = Append(rows, row)
    /\ UNCHANGED <<open, hand, left, done, cost, known, told>>

\* What left is put down only when it is in the log; that there is no workflow left
\* to tell may be noticed on the way ...
PutDown ==
    /\ open /\ hand # 0
    /\ Left(hand) => Logged(hand)
    /\ hand' = 0
    /\ open' \in BOOLEAN
    /\ UNCHANGED <<left, done, cost, rows, known, told>>

\* ... and the workflow learns of it, and of nothing later, after all that left so
\* far is in the log, even if all is being closed.
Learn(i) ==
    /\ hand = 0
    /\ i > known
    /\ \A j \in Calls : j <= i /\ Left(j) => Logged(j)
    /\ known' = i
    /\ UNCHANGED <<open, hand, left, done, cost, rows, told>>

\* The end, or a fault, with or without a call in hand.
Close ==
    /\ open /\ open' = FALSE
    /\ UNCHANGED <<hand, left, done, cost, rows, known, told>>

\* Nothing that left is kept from the one who is told.
Tell ==
    /\ ~open /\ told = {}
    /\ \A i \in Calls : Left(i) => Logged(i)
    /\ told' = {rows}
    /\ UNCHANGED <<open, hand, left, done, cost, rows, known>>

LedgerNext ==
    \/ \E i \in Calls : TakeUp(i) \/ TakeEffect(i) \/ Learn(i)
    \/ Send \/ Charge \/ PutDown \/ Close \/ Tell
    \/ \E row \in Rows : Enter(row)

LedgerSpec == LedgerInit /\ [][LedgerNext]_ledgerVars
=============================================================================
