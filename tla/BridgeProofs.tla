---------------------------- MODULE BridgeProofs -----------------------------
(***************************************************************************)
(* One execution: who has the ball, what the journal tells, how late a run *)
(* can be; for any number of calls and whatever the timeouts are.          *)
(***************************************************************************)
EXTENDS RunnerBridge, TLAPS

\* A call nothing has come of yet.
Untried(i) == i \notin sent /\ bill[i] = 0 /\ i \notin Ids(steps)

\* The calls that reached a server or were charged for.
Tried == sent \cup {i \in DOMAIN bill : bill[i] > 0}

\* Where the child and the request it waits for can be.
Ball ==
    /\ heard.got <= asked /\ heard.got = heard.asked
    /\ current \in {0, asked}
    /\ child = "unborn" => asked = 0 /\ up = <<>> /\ down = <<>>
    /\ child = "running" => up = <<>> /\ down = <<>> /\ current = 0
    /\ child = "waiting" =>
          /\ heard.got < asked
          /\ \/ up = <<>> /\ down = <<>> /\ (current = asked \/ parent \in {"closing", "gone"})
             \/ up # <<>> /\ Head(up).kind \in Kinds /\ down = <<>> /\ current = 0
             \/ up = <<>> /\ down = <<asked>> /\ current = 0
    /\ child = "exited" => Len(up) + Len(down) + (IF current = 0 THEN 0 ELSE 1) <= 1
    /\ Len(up) + Len(down) <= 1
    /\ up # <<>> /\ Head(up).kind \in Kinds => Head(up).id = asked /\ asked > 0 /\ Untried(asked)

\* What the parent's place says of the rest.
Places ==
    /\ parent = "opening" => child = "unborn" /\ current = 0 /\ now = 0
    /\ child = "unborn" => parent \in {"opening", "over", "gone"}
    /\ InServe => (parent = "reading" <=> current = 0)
    /\ InServe \/ parent = "opening" => outcome = "none"
    /\ parent # "over" => report = "none"
    /\ ChildIsGone

\* Steps are of the calls asked so far, in their order and numbered so.
StepsInOrder ==
    /\ \A k \in DOMAIN steps : steps[k].seq = k /\ steps[k].id >= k /\ steps[k].id <= asked
    /\ \A j, k \in DOMAIN steps : j < k => steps[j].id < steps[k].id

\* The journal has all of them, but for one that is, or could not be, written.
JournalKeepsUp ==
    \/ /\ steps = journal
       /\ parent # "journaling"
    \/ /\ \E row \in StepRows : steps = Append(journal, row) /\ row.id = current
       /\ \/ parent = "journaling"
          \/ parent \in {"closing", "leaving"} /\ outcome = "raised"
          \/ parent = "over" /\ report \in {"none", "connector-unreachable"}
          \/ parent = "gone"

\* What can have become of the call in hand.
CallInHand ==
    /\ \A i \in Tried : i <= asked
    /\ Tried \ Ids(journal) \subseteq {current}
    /\ parent \in {"resolving", "consulting"} => Untried(current)
    /\ parent \in {"calling", "asking"} => current \notin Ids(steps)
    /\ parent = "calling" => bill[current] = 0
    /\ parent = "asking" => bill[current] = question.attempt - 1
    /\ parent = "answering" => current \in Ids(journal) \/ Untried(current)
    /\ CostIsTold

\* How many requests the model may have been sent for one call, this one included.
Posted == 2 * (question.attempt - 1) + (IF question.hinted THEN 1 ELSE 2)

\* What is under way left in time.
InTime ==
    /\ InServe => deadline = RunTimeout
    /\ parent \in {"resolving", "consulting"} => now < RunTimeout
    /\ parent = "calling" => now <= callBy /\ callBy <= RunTimeout + ToolTimeout
    /\ parent = "asking" => now <= callBy /\ callBy <= RunTimeout + Posted * ModelTimeout
    /\ OverrunIsBounded

BridgeInv ==
    /\ BridgeTypeOK
    /\ Ball
    /\ Places
    /\ StepsInOrder
    /\ JournalKeepsUp
    /\ CallInHand
    /\ InTime

-----------------------------------------------------------------------------
(* Type correctness.  A step's number fits because ids only grow.          *)

LEMMA RoomForAStep ==
  ASSUME BridgeTypeOK, StepsInOrder, Ball, current # 0, current \notin Ids(steps)
  PROVE  /\ Len(steps) \in Nat /\ Len(steps) + 1 \in 1..MaxCalls /\ Len(steps) + 1 <= current
         /\ \A k \in DOMAIN steps : steps[k].id < current
<1>1. current = asked /\ current \in 1..MaxCalls
  BY DEF Ball, BridgeTypeOK
<1>2. Len(steps) \in Nat /\ DOMAIN steps = 1..Len(steps) /\ \A k \in 1..Len(steps) : steps[k].id \in Nat
  <2>1. \A k \in 1..Len(steps) : steps[k] \in StepRows
    BY DEF BridgeTypeOK
  <2> QED BY <2>1, BridgeAssumption DEF BridgeTypeOK, StepRows
<1>3. \A k \in DOMAIN steps : steps[k].id < current /\ steps[k].id >= k
  BY <1>1, <1>2 DEF StepsInOrder, Ids
<1>4. Len(steps) + 1 <= current
  <2>1. CASE Len(steps) = 0
    BY <1>1, <2>1
  <2>2. CASE Len(steps) # 0
    <3>1. Len(steps) \in DOMAIN steps
      BY <1>2, <2>2
    <3> QED BY <1>1, <1>2, <1>3, <3>1
  <2> QED BY <2>1, <2>2
<1> QED BY <1>1, <1>2, <1>3, <1>4, BridgeAssumption

\* The row that the end of the call in hand adds.
NewRow(ok, tokens) == [seq |-> Len(steps) + 1, id |-> current, ok |-> ok, tokens |-> tokens]

\* Where a call can end.
Ending == parent \in {"calling", "asking", "consulting"}

LEMMA CallIsNew ==
  ASSUME BridgeInv, Ending
  PROVE  current \in 1..MaxCalls /\ current \notin Ids(steps)
<1>1. current # 0 /\ current \notin Ids(steps)
  BY DEF BridgeInv, Places, Ending, InServe, CallInHand, Untried
<1> QED BY <1>1, BridgeAssumption DEF BridgeInv, BridgeTypeOK

LEMMA RowIsTyped ==
  ASSUME BridgeInv, Ending, NEW ok \in BOOLEAN, NEW tokens \in 0..2
  PROVE  NewRow(ok, tokens) \in StepRows
<1>1. Len(steps) + 1 \in 1..MaxCalls /\ current \in 1..MaxCalls
  BY CallIsNew, RoomForAStep DEF BridgeInv
<1> QED BY <1>1 DEF NewRow, StepRows

\* Whatever a call comes to, its end is this.
EndOfCall(ok, tokens) ==
    /\ Ending
    /\ ok \in BOOLEAN /\ tokens \in 0..2
    /\ EndCall(ok, tokens)
    /\ sent' = sent /\ performed' = performed
    /\ \/ bill' = bill
       \/ parent = "asking" /\ bill' = [bill EXCEPT ![current] = @ + 1]
    /\ ok => tokens = bill'[current] /\ (current \in performed \/ tokens > 0)

\* A request to the model.
PostIt(q) ==
    /\ parent \in {"consulting", "asking"}
    /\ q \in Questions
    /\ Post(q)
    /\ \/ /\ parent = "consulting"
          /\ q.attempt = 1 /\ bill' = bill
       \/ /\ parent = "asking" /\ question.hinted /\ ~q.hinted
          /\ q.attempt = question.attempt /\ bill' = bill
       \/ /\ parent = "asking" /\ question.attempt = 1 /\ q.attempt = 2 /\ q.hinted
          /\ bill' = [bill EXCEPT ![current] = @ + 1]

\* The actions of one call, by what they do to it.
CallStep ==
    \/ GetResult \/ GetError \/ CallTimesOut \/ FailToResolve \/ AnswerWell \/ GiveUpOnShape
    \/ FailToAsk \/ ModelTimesOut \/ Consult \/ DropHint \/ AskAgain

LEMMA CallStepsAre ==
  ASSUME BridgeInv, CallStep
  PROVE  \/ \E ok \in BOOLEAN, tokens \in 0..2 : EndOfCall(ok, tokens)
         \/ \E q \in Questions : PostIt(q)
<1> USE DEF EndOfCall, Ending, EndCall, serverVars
<1>1. question \in Questions /\ question.attempt \in {1, 2} /\ bill \in [1..MaxCalls -> 0..2]
  BY DEF BridgeInv, BridgeTypeOK, Questions
<1>2. ASSUME parent \in {"calling", "asking", "consulting"} PROVE current \in 1..MaxCalls
  BY <1>2, CallIsNew
<1>3. CASE GetResult
  <2>1. EndOfCall(TRUE, 0)
    BY <1>3 DEF GetResult, BridgeInv, CallInHand
  <2> QED BY <2>1
<1>4. CASE GetError \/ CallTimesOut \/ FailToResolve \/ FailToAsk
  <2>1. EndOfCall(FALSE, 0)
    BY <1>4 DEF GetError, CallTimesOut, FailToResolve, FailToAsk
  <2> QED BY <2>1
<1>5. CASE AnswerWell
  <2>1. bill'[current] = question.attempt
    BY <1>1, <1>2, <1>5 DEF AnswerWell, BridgeInv, CallInHand
  <2>2. EndOfCall(TRUE, question.attempt)
    BY <1>1, <1>5, <2>1 DEF AnswerWell
  <2> QED BY <1>1, <2>2
<1>6. CASE GiveUpOnShape
  <2>1. EndOfCall(FALSE, 0)
    BY <1>6 DEF GiveUpOnShape
  <2> QED BY <2>1
<1>7. CASE ModelTimesOut
  <2>1. PICK charged \in {0, 1} : bill' = [bill EXCEPT ![current] = @ + charged]
    BY <1>7 DEF ModelTimesOut
  <2>2. bill' = bill \/ bill' = [bill EXCEPT ![current] = @ + 1]
    <3>1. current \in 1..MaxCalls
      BY <1>2, <1>7 DEF ModelTimesOut
    <3>2. CASE charged = 0
      BY <1>1, <2>1, <3>1, <3>2
    <3>3. CASE charged = 1
      BY <2>1, <3>3
    <3> QED BY <3>2, <3>3
  <2>3. EndOfCall(FALSE, 0)
    BY <1>7, <2>2 DEF ModelTimesOut
  <2> QED BY <2>3
<1>8. CASE Consult
  <2>1. PICK shaped \in BOOLEAN : Post(FirstQuestion(shaped))
    BY <1>8 DEF Consult
  <2>2. PostIt(FirstQuestion(shaped))
    BY <1>8, <2>1 DEF Consult, PostIt, FirstQuestion, Questions
  <2> QED BY <2>2 DEF PostIt
<1>9. CASE DropHint
  <2>1. PostIt([question EXCEPT !.hinted = FALSE])
    BY <1>1, <1>9 DEF DropHint, PostIt, Questions
  <2> QED BY <2>1 DEF PostIt
<1>10. CASE AskAgain
  <2>1. PostIt([attempt |-> 2, shaped |-> TRUE, hinted |-> TRUE])
    BY <1>10 DEF AskAgain, PostIt, Questions
  <2> QED BY <2>1 DEF PostIt
<1> QED BY <1>3, <1>4, <1>5, <1>6, <1>7, <1>8, <1>9, <1>10 DEF CallStep

-----------------------------------------------------------------------------
(* The steps, sorted by what they touch.                                   *)

\* The parent moves on, and nothing else does.
Move ==
    \/ TimeOut \/ SeeChildGone \/ FailToJournal \/ Conclude \/ FailToClose \/ FailToOpen
    \/ Cancel \/ RefuseCall

\* The child ends, and nothing else does.
ChildGoes == Die \/ SeeParentGone

LEMMA StepsAre ==
  ASSUME BridgeNext
  PROVE  \/ CallStep \/ Move \/ ChildGoes
         \/ OpenAndSpawn \/ ReadLine \/ SendCall \/ JournalStep \/ Answer \/ Terminate \/ Crash
         \/ \E kind \in Kinds, fits \in BOOLEAN : Ask(kind, fits)
         \/ AskInVain \/ Hear
         \/ \E how \in {"completed", "failed"}, fits \in BOOLEAN : Finish(how, fits)
         \/ \E i \in sent : Perform(i)
         \/ Tick
BY DEF BridgeNext, ParentStep, ChildStep, CallStep, Move, ChildGoes

LEMMA MoveTouches ==
  ASSUME BridgeInv, Move
  PROVE  /\ UNCHANGED <<now, child, asked, heard, up, down, deadline, current, callBy, question,
                        sent, performed, bill, steps, journal>>
         /\ parent \notin {"closing", "gone", "over"}
         /\ parent' \in {"over", "closing", "answering"} /\ outcome' \in Outcomes /\ report' \in Reports
         /\ good' \in BOOLEAN
         /\ parent' = "answering" => parent \in {"resolving", "consulting"} /\ outcome' = outcome
         /\ parent' = "closing" => /\ InServe /\ report' = report
                                   /\ parent = "journaling" => outcome' = "raised"
         /\ parent' = "over" => parent \in {"opening", "leaving"}
         /\ parent = "leaving" /\ outcome = "raised" => report' \in {"none", "connector-unreachable"}
         /\ parent' # "over" => report' = report
<1> USE DEF childVars, pipeVars, callVars, serverVars, stepVars, endVars, BridgeInv, BridgeTypeOK,
        Outcomes, Reports, InServe
<1>1. CASE TimeOut \/ SeeChildGone \/ FailToJournal
  BY <1>1 DEF TimeOut, SeeChildGone, FailToJournal, LeaveServe
<1>2. CASE Conclude
  BY <1>2 DEF Conclude, Places
<1>3. CASE FailToClose \/ FailToOpen
  BY <1>3 DEF FailToClose, FailToOpen
<1>4. CASE Cancel
  BY <1>4 DEF Cancel, Places
<1>5. CASE RefuseCall
  BY <1>5 DEF RefuseCall
<1> QED BY <1>1, <1>2, <1>3, <1>4, <1>5 DEF Move

\* A line is read: the parent leaves _serve, or has the child's request in hand.
LEMMA ReadLineIs ==
  ASSUME BridgeInv, ReadLine
  PROVE  /\ parent = "reading" /\ current = 0 /\ now < deadline
         /\ Tail(up) = <<>> /\ up' = <<>> /\ down = <<>> /\ child \notin {"unborn", "running"}
         /\ \/ parent' = "closing" /\ current' = current /\ outcome' \in Outcomes
            \/ /\ parent' \in {"resolving", "consulting"} /\ current' = asked /\ asked > 0
               /\ Untried(asked) /\ outcome' = outcome
         /\ UNCHANGED <<now, child, asked, heard, deadline, callBy, question, good,
                        sent, performed, bill, steps, journal, report>>
<1> USE DEF childVars, serverVars, stepVars
<1>0. BridgeTypeOK /\ Ball /\ Places
  BY DEF BridgeInv
<1>1. Head(up) \in Messages /\ up # <<>>
  BY <1>0 DEF ReadLine, BridgeTypeOK
<1>2. /\ parent = "reading" /\ current = 0 /\ now < deadline
      /\ Tail(up) = <<>> /\ up' = <<>> /\ down = <<>> /\ child \notin {"unborn", "running"}
  BY <1>0 DEF ReadLine, Places, InServe, Ball, BridgeTypeOK
<1>3. CASE ~Head(up).fits
  BY <1>2, <1>3 DEF ReadLine, LeaveServe, Outcomes
<1>4. CASE Head(up).fits /\ Head(up).kind = "finished"
  BY <1>1, <1>2, <1>4 DEF ReadLine, LeaveServe, Kinds, Messages, Outcomes
<1>5. CASE Head(up).fits /\ Head(up).kind \in Kinds
  <2>1. Head(up).id = asked /\ asked > 0 /\ Untried(asked)
    BY <1>0, <1>1, <1>5 DEF Ball
  <2> QED BY <1>2, <1>5, <2>1 DEF ReadLine, Handler, Kinds
<1> QED BY <1>1, <1>3, <1>4, <1>5 DEF Messages, Kinds

-----------------------------------------------------------------------------
(* Type correctness.                                                       *)

LEMMA BridgeTypeStep == ASSUME BridgeInv, BridgeNext PROVE BridgeTypeOK'
<1> USE BridgeAssumption DEF BridgeTypeOK, childVars, pipeVars, callVars, serverVars, stepVars, endVars
<1>0. BridgeTypeOK
  BY DEF BridgeInv
<1>1. ASSUME NEW ok \in BOOLEAN, NEW tokens \in 0..2, EndOfCall(ok, tokens) PROVE BridgeTypeOK'
  <2>1. NewRow(ok, tokens) \in StepRows /\ current \in 1..MaxCalls
    BY <1>1, CallIsNew, RowIsTyped DEF EndOfCall
  <2>2. steps' \in Seq(StepRows)
    BY <1>0, <1>1, <2>1 DEF EndOfCall, EndCall, NewRow
  <2>3. bill' \in [1..MaxCalls -> 0..2]
    <3>1. parent = "asking" => bill[current] \in {0, 1}
      BY <1>0 DEF BridgeInv, CallInHand, Questions
    <3> QED BY <1>0, <1>1, <2>1, <3>1 DEF EndOfCall
  <2> QED BY <1>0, <1>1, <2>2, <2>3 DEF EndOfCall, EndCall, ParentPcs
<1>2. ASSUME NEW q \in Questions, PostIt(q) PROVE BridgeTypeOK'
  <2>1. current \in 1..MaxCalls
    BY <1>2, CallIsNew DEF PostIt, Ending
  <2>2. bill' \in [1..MaxCalls -> 0..2]
    <3>1. parent = "asking" => bill[current] \in {0, 1}
      BY <1>0 DEF BridgeInv, CallInHand, Questions
    <3> QED BY <1>0, <1>2, <2>1, <3>1 DEF PostIt
  <2> QED BY <1>0, <1>2, <2>2 DEF PostIt, Post, ParentPcs
<1>3. CASE Move
  BY <1>0, <1>3, MoveTouches DEF ParentPcs
<1>4. CASE ChildGoes
  BY <1>0, <1>4 DEF ChildGoes, Die, SeeParentGone, ChildPcs
<1>5. CASE OpenAndSpawn
  BY <1>0, <1>5 DEF OpenAndSpawn, ChildPcs, ParentPcs
<1>6. CASE ReadLine
  <2>1. up' \in Seq(Messages)
    <3>1. up' = <<>>
      BY <1>6, ReadLineIs
    <3> QED BY <3>1
  <2>2. parent' \in ParentPcs /\ outcome' \in Outcomes /\ current' \in 0..MaxCalls
    BY <1>0, <1>6, ReadLineIs DEF ParentPcs
  <2>3. UNCHANGED <<now, child, asked, heard, down, deadline, callBy, question, good,
                    sent, performed, bill, steps, journal, report>>
    BY <1>6, ReadLineIs DEF ReadLine
  <2> QED BY <1>0, <2>1, <2>2, <2>3
<1>7. CASE SendCall
  <2>1. current \in 1..MaxCalls
    BY <1>0, <1>7 DEF SendCall, BridgeInv, Places, InServe
  <2> QED BY <1>0, <1>7, <2>1 DEF SendCall, ParentPcs
<1>8. CASE JournalStep
  <2>1. steps[Len(steps)] \in StepRows
    BY <1>0, <1>8 DEF JournalStep, BridgeInv, JournalKeepsUp
  <2> QED BY <1>0, <1>8, <2>1 DEF JournalStep, ParentPcs
<1>9. CASE Answer
  <2>1. current \in 1..MaxCalls
    BY <1>0, <1>9 DEF Answer, BridgeInv, Places, InServe
  <2>2. down' \in Seq(1..MaxCalls) /\ current' \in 0..MaxCalls
    <3>1. Append(down, current) \in Seq(1..MaxCalls)
      BY <1>0, <2>1
    <3>2. down' \in {Append(down, current), down} /\ current' = 0
      BY <1>9 DEF Answer
    <3>3. down' \in Seq(1..MaxCalls)
      BY <1>0, <3>1, <3>2
    <3>4. current' \in 0..MaxCalls
      BY <3>2
    <3> QED BY <3>3, <3>4
  <2>3. parent' \in ParentPcs /\ outcome' \in Outcomes
    BY <1>0, <1>9 DEF Answer, LeaveServe, ParentPcs, Outcomes
  <2> QED BY <1>0, <1>9, <2>2, <2>3 DEF Answer
<1>10. CASE Terminate \/ Crash
  <2>1. up' = <<>> /\ down' = <<>> /\ parent' \in ParentPcs /\ child' \in ChildPcs
    BY <1>0, <1>10 DEF Terminate, Crash, ParentPcs, ChildPcs
  <2>2. up' \in Seq(Messages) /\ down' \in Seq(1..MaxCalls)
    BY <2>1
  <2> QED BY <1>0, <1>10, <2>1, <2>2 DEF Terminate, Crash
<1>11. ASSUME NEW kind \in Kinds, NEW fits \in BOOLEAN, Ask(kind, fits) PROVE BridgeTypeOK'
  <2>1. asked' \in 0..MaxCalls
    BY <1>0, <1>11 DEF Ask
  <2>2. Request(kind, asked', fits) \in Messages
    BY <2>1 DEF Request, Messages
  <2>3. up' \in Seq(Messages)
    BY <1>0, <1>11, <2>2 DEF Ask, Request
  <2> QED BY <1>0, <1>11, <2>1, <2>3 DEF Ask, ChildPcs
<1>12. CASE Hear
  <2>1. Head(down) \in 1..MaxCalls /\ Tail(down) \in Seq(1..MaxCalls)
    BY <1>0, <1>12 DEF Hear
  <2>2. heard' \in [asked : 0..MaxCalls, got : 0..MaxCalls]
    BY <1>0, <1>12, <2>1 DEF Hear
  <2> QED BY <1>0, <1>12, <2>1, <2>2 DEF Hear, ChildPcs
<1>13. ASSUME NEW how \in {"completed", "failed"}, NEW fits \in BOOLEAN, Finish(how, fits) PROVE BridgeTypeOK'
  <2>1. Finished(how, fits) \in Messages
    BY DEF Finished, Messages
  <2> QED BY <1>0, <1>13, <2>1 DEF Finish, ChildPcs
<1>14. ASSUME NEW i \in sent, Perform(i) PROVE BridgeTypeOK'
  BY <1>0, <1>14 DEF Perform
<1>15. CASE Tick
  BY <1>0, <1>15 DEF Tick
<1>16. CASE AskInVain
  BY <1>0, <1>16 DEF AskInVain
<1> QED BY <1>1, <1>2, <1>3, <1>4, <1>5, <1>6, <1>7, <1>8, <1>9, <1>10, <1>11, <1>12, <1>13, <1>14, <1>15, <1>16,
        CallStepsAre, StepsAre

-----------------------------------------------------------------------------
(* The ball.                                                               *)

\* While the parent has a request in hand, nothing is on its way.
LEMMA NothingOnItsWay ==
  ASSUME BridgeTypeOK, Ball, current # 0
  PROVE  up = <<>> /\ down = <<>> /\ child # "running"
<1>1. Len(up) \in Nat /\ Len(down) \in Nat /\ child \in ChildPcs
  BY DEF BridgeTypeOK
<1>2. CASE child = "exited"
  <2>1. Len(up) = 0 /\ Len(down) = 0
    BY <1>1, <1>2 DEF Ball
  <2> QED BY <1>2, <2>1 DEF BridgeTypeOK
<1>3. CASE child # "exited"
  BY <1>1, <1>3 DEF Ball, ChildPcs
<1> QED BY <1>2, <1>3

LEMMA InHand ==
  ASSUME BridgeInv, InServe, parent # "reading"
  PROVE  current = asked /\ current # 0 /\ up = <<>> /\ down = <<>> /\ child \in {"waiting", "exited"}
BY NothingOnItsWay DEF BridgeInv, Ball, Places, InServe, BridgeTypeOK, ChildPcs

LEMMA BallStep == ASSUME BridgeInv, BridgeNext PROVE Ball'
<1> USE BridgeAssumption DEF childVars, pipeVars, callVars, serverVars, stepVars, endVars
<1>0. BridgeTypeOK /\ Ball
  BY DEF BridgeInv
<1>1. ASSUME NEW ok \in BOOLEAN, NEW tokens \in 0..2, EndOfCall(ok, tokens) PROVE Ball'
  BY <1>0, <1>1, InHand DEF EndOfCall, EndCall, Ending, InServe, Ball
<1>2. ASSUME NEW q \in Questions, PostIt(q) PROVE Ball'
  BY <1>0, <1>2, InHand DEF PostIt, Post, InServe, Ball
<1>3. CASE Move
  BY <1>0, <1>3, MoveTouches DEF Ball, Untried, Ids
<1>4. CASE ChildGoes
  <2>1. Len(up) + Len(down) + (IF current = 0 THEN 0 ELSE 1) <= 1
    BY <1>0, <1>4, NothingOnItsWay DEF ChildGoes, Die, SeeParentGone, Alive, Ball
  <2> QED BY <1>0, <1>4, <2>1 DEF ChildGoes, Die, SeeParentGone, Ball, Untried, Ids
<1>5. CASE OpenAndSpawn
  <2>1. heard.got = 0 /\ child = "unborn" /\ current = 0 /\ asked = 0
    BY <1>0, <1>5 DEF OpenAndSpawn, BridgeInv, Places, Ball, BridgeTypeOK
  <2> QED BY <1>0, <1>5, <2>1 DEF OpenAndSpawn, Ball
<1>6. CASE ReadLine
  <2>1. /\ child' = child /\ child \in {"waiting", "exited"}
        /\ current = 0 /\ asked \in Nat
        /\ (current' = 0 /\ parent' = "closing") \/ current' = asked
    BY <1>0, <1>6, ReadLineIs DEF BridgeTypeOK, ChildPcs
  <2>2. up' = <<>> /\ down = <<>> /\ UNCHANGED <<asked, heard, down>>
    BY <1>6, ReadLineIs DEF ReadLine
  <2>3. Len(up') = 0 /\ Len(down') = 0
    BY <2>2
  <2> QED BY <1>0, <2>1, <2>2, <2>3 DEF Ball
<1>7. CASE SendCall
  BY <1>0, <1>7, InHand DEF SendCall, InServe, Ball
<1>8. CASE JournalStep
  BY <1>0, <1>8, InHand DEF JournalStep, InServe, Ball
<1>9. CASE Answer
  <2>1. current = asked /\ current # 0 /\ up = <<>> /\ down = <<>> /\ child \in {"waiting", "exited"}
    BY <1>9, InHand DEF Answer, InServe
  <2>2. CASE child = "waiting"
    <3>1. down' = <<asked>> /\ up' = <<>> /\ current' = 0
      BY <1>9, <2>1, <2>2 DEF Answer, Alive
    <3> QED BY <1>0, <1>9, <2>1, <2>2, <3>1 DEF Answer, Ball
  <2>3. CASE child = "exited"
    BY <1>0, <1>9, <2>1, <2>3 DEF Answer, Alive, Ball
  <2> QED BY <2>1, <2>2, <2>3
<1>10. CASE Terminate \/ Crash
  <2>1. up' = <<>> /\ down' = <<>> /\ Len(up') = 0 /\ Len(down') = 0
    BY <1>10 DEF Terminate, Crash
  <2>2. CASE Terminate
    BY <1>0, <2>1, <2>2 DEF Terminate, Ball, BridgeTypeOK
  <2>3. CASE Crash
    BY <1>0, <2>1, <2>3 DEF Crash, Ball, BridgeTypeOK
  <2> QED BY <1>10, <2>2, <2>3
<1>11. ASSUME NEW kind \in Kinds, NEW fits \in BOOLEAN, Ask(kind, fits) PROVE Ball'
  <2>1. up = <<>> /\ down = <<>> /\ current = 0 /\ heard.got < asked + 1
    BY <1>0, <1>11 DEF Ask, Ball, BridgeTypeOK
  <2>2. up' = <<Request(kind, asked + 1, fits)>> /\ asked' = asked + 1
    BY <1>0, <1>11, <2>1 DEF Ask, Request
  <2>3. Len(up') = 1 /\ Head(up').kind = kind /\ Head(up').id = asked'
    BY <2>2 DEF Request
  <2>4. Untried(asked)'
    <3>1. asked + 1 \in 1..MaxCalls /\ asked \in Nat
      BY <1>0, <1>11 DEF Ask, BridgeTypeOK
    <3>2. \A i \in Tried \cup Ids(steps) : i <= asked
      BY DEF BridgeInv, CallInHand, StepsInOrder, Ids
    <3>3. asked + 1 \notin Tried \cup Ids(steps)
      BY <3>1, <3>2
    <3>4. Untried(asked + 1)
      BY <1>0, <3>1, <3>3 DEF Untried, Tried, BridgeTypeOK
    <3> QED BY <1>11, <2>2, <3>4 DEF Ask, Untried, Ids
  <2> QED BY <1>0, <1>11, <2>1, <2>2, <2>3, <2>4 DEF Ask, Ball, BridgeTypeOK
<1>12. CASE Hear
  <2>1. up = <<>> /\ down = <<asked>> /\ current = 0
    BY <1>0, <1>12 DEF Hear, Ball
  <2>2. heard' = [asked |-> asked, got |-> asked] /\ down' = <<>>
    BY <1>0, <1>12, <2>1 DEF Hear
  <2>3. heard'.got = asked /\ heard'.asked = asked
    BY <2>2
  <2> QED BY <1>0, <1>12, <2>1, <2>2, <2>3 DEF Hear, Ball, BridgeTypeOK
<1>13. ASSUME NEW how \in {"completed", "failed"}, NEW fits \in BOOLEAN, Finish(how, fits) PROVE Ball'
  <2>1. up = <<>> /\ down = <<>> /\ current = 0
    BY <1>0, <1>13 DEF Finish, Ball
  <2>2. up' = <<Finished(how, fits)>>
    BY <1>0, <1>13, <2>1 DEF Finish, Finished
  <2>3. Len(up') = 1 /\ Head(up').kind \notin Kinds
    BY <2>2 DEF Finished, Kinds
  <2> QED BY <1>0, <1>13, <2>1, <2>3 DEF Finish, Ball, BridgeTypeOK
<1>14. ASSUME NEW i \in sent, Perform(i) PROVE Ball'
  BY <1>0, <1>14 DEF Perform, Ball, Untried, Ids
<1>15. CASE Tick
  BY <1>0, <1>15 DEF Tick, Ball, Untried, Ids
<1>16. CASE AskInVain
  <2>1. up = <<>> /\ down = <<>> /\ current = 0 /\ asked' = asked + 1 /\ heard.got <= asked
    BY <1>0, <1>16 DEF AskInVain, Ball
  <2> QED BY <1>0, <1>16, <2>1 DEF AskInVain, Ball, BridgeTypeOK
<1> QED BY <1>1, <1>2, <1>3, <1>4, <1>5, <1>6, <1>7, <1>8, <1>9, <1>10, <1>11, <1>12, <1>13, <1>14, <1>15, <1>16,
        CallStepsAre, StepsAre

-----------------------------------------------------------------------------
(* The parent's place.                                                     *)

LEMMA PlacesStep == ASSUME BridgeInv, BridgeNext PROVE Places'
<1> USE DEF childVars, pipeVars, callVars, serverVars, stepVars, endVars, InServe, ChildIsGone, Alive
<1>0. BridgeTypeOK /\ Ball /\ Places
  BY DEF BridgeInv
<1>1. ASSUME NEW ok \in BOOLEAN, NEW tokens \in 0..2, EndOfCall(ok, tokens) PROVE Places'
  BY <1>0, <1>1 DEF EndOfCall, EndCall, Ending, Places
<1>2. ASSUME NEW q \in Questions, PostIt(q) PROVE Places'
  BY <1>0, <1>2 DEF PostIt, Post, Places
<1>3. CASE Move
  <2>1. /\ parent' \in {"over", "closing", "answering"}
        /\ UNCHANGED <<child, current, now>>
        /\ parent' = "answering" => parent \in {"resolving", "consulting"} /\ outcome' = outcome
        /\ parent' = "closing" => InServe
        /\ parent' = "over" => parent \in {"opening", "leaving"}
        /\ parent' # "over" => report' = report
        /\ parent' # "over" => parent # "opening"
        /\ parent # "over"
    BY <1>3, MoveTouches
  <2> QED BY <1>0, <2>1 DEF Places
<1>4. CASE ChildGoes
  BY <1>0, <1>4 DEF ChildGoes, Die, SeeParentGone, Places
<1>5. CASE OpenAndSpawn
  BY <1>0, <1>5 DEF OpenAndSpawn, Places
<1>6. CASE ReadLine
  BY <1>0, <1>6, ReadLineIs DEF Places, BridgeTypeOK
<1>7. CASE SendCall
  BY <1>0, <1>7 DEF SendCall, Places
<1>8. CASE JournalStep
  BY <1>0, <1>8 DEF JournalStep, Places
<1>9. CASE Answer
  BY <1>0, <1>9 DEF Answer, LeaveServe, Places
<1>10. CASE Terminate \/ Crash
  BY <1>0, <1>10 DEF Terminate, Crash, Places
<1>11. ASSUME NEW kind \in Kinds, NEW fits \in BOOLEAN, Ask(kind, fits) PROVE Places'
  BY <1>0, <1>11 DEF Ask, Places
<1>12. CASE Hear
  BY <1>0, <1>12 DEF Hear, Places
<1>13. ASSUME NEW how \in {"completed", "failed"}, NEW fits \in BOOLEAN, Finish(how, fits) PROVE Places'
  BY <1>0, <1>13 DEF Finish, Places
<1>14. ASSUME NEW i \in sent, Perform(i) PROVE Places'
  BY <1>0, <1>14 DEF Perform, Places
<1>15. CASE Tick
  BY <1>0, <1>15 DEF Tick, Places
<1>16. CASE AskInVain
  BY <1>0, <1>16 DEF AskInVain, Places
<1> QED BY <1>1, <1>2, <1>3, <1>4, <1>5, <1>6, <1>7, <1>8, <1>9, <1>10, <1>11, <1>12, <1>13, <1>14, <1>15, <1>16,
        CallStepsAre, StepsAre

-----------------------------------------------------------------------------
(* The steps and the journal.                                              *)

\* Only the end of a call adds a step.
LEMMA StepsTouched ==
  ASSUME BridgeInv, BridgeNext
  PROVE  \/ steps' = steps /\ (asked' = asked \/ asked' = asked + 1)
         \/ \E ok \in BOOLEAN, tokens \in 0..2 : EndOfCall(ok, tokens)
<1> USE DEF childVars, stepVars
<1>1. ASSUME NEW q \in Questions, PostIt(q) PROVE steps' = steps /\ asked' = asked
  BY <1>1 DEF PostIt, Post
<1>2. CASE ChildGoes \/ OpenAndSpawn \/ ReadLine \/ SendCall \/ JournalStep \/ Answer \/ Terminate \/ Crash
  BY <1>2 DEF ChildGoes, Die, SeeParentGone, OpenAndSpawn, ReadLine, SendCall, JournalStep, Answer, Terminate, Crash
<1>3. ASSUME NEW kind \in Kinds, NEW fits \in BOOLEAN, Ask(kind, fits)
      PROVE  steps' = steps /\ asked' = asked + 1
  BY <1>3 DEF Ask
<1>4. CASE Hear \/ (\E i \in sent : Perform(i)) \/ Tick
  BY <1>4 DEF Hear, Perform, Tick
<1>5. ASSUME NEW how \in {"completed", "failed"}, NEW fits \in BOOLEAN, Finish(how, fits)
      PROVE  steps' = steps /\ asked' = asked
  BY <1>5 DEF Finish
<1>6. CASE AskInVain
  BY <1>6 DEF AskInVain
<1> QED BY <1>1, <1>2, <1>3, <1>4, <1>5, <1>6, MoveTouches, CallStepsAre, StepsAre

LEMMA StepsInOrderStep == ASSUME BridgeInv, BridgeNext PROVE StepsInOrder'
<1>0. BridgeTypeOK /\ StepsInOrder
  BY DEF BridgeInv
<1>1. ASSUME NEW ok \in BOOLEAN, NEW tokens \in 0..2, EndOfCall(ok, tokens) PROVE StepsInOrder'
  <2>1. /\ Len(steps) \in Nat /\ Len(steps) + 1 <= current
        /\ \A k \in DOMAIN steps : steps[k].id < current
    BY <1>1, CallIsNew, RoomForAStep DEF BridgeInv, EndOfCall
  <2>2. current = asked /\ asked' = asked /\ asked \in Nat
    BY <1>0, <1>1, InHand DEF EndOfCall, EndCall, childVars, Ending, InServe, BridgeTypeOK
  <2>3. /\ DOMAIN steps' = 1..(Len(steps) + 1)
        /\ \A k \in DOMAIN steps : steps'[k] = steps[k]
        /\ steps'[Len(steps) + 1].seq = Len(steps) + 1
        /\ steps'[Len(steps) + 1].id = current
    BY <1>0, <1>1 DEF EndOfCall, EndCall, BridgeTypeOK
  <2>4. DOMAIN steps = 1..Len(steps) /\ \A k \in DOMAIN steps' : k \in DOMAIN steps \/ k = Len(steps) + 1
    BY <1>0, <2>1, <2>3 DEF BridgeTypeOK
  <2>5. \A k \in DOMAIN steps' : steps'[k].seq = k /\ steps'[k].id >= k /\ steps'[k].id <= asked'
    BY <1>0, <2>1, <2>2, <2>3, <2>4 DEF StepsInOrder
  <2>6. ASSUME NEW j \in DOMAIN steps', NEW k \in DOMAIN steps', j < k
        PROVE  steps'[j].id < steps'[k].id
    <3>1. j \in DOMAIN steps
      BY <2>1, <2>3, <2>4, <2>6
    <3> QED BY <1>0, <2>1, <2>3, <2>4, <2>6, <3>1 DEF StepsInOrder
  <2> QED BY <2>5, <2>6 DEF StepsInOrder
<1>2. CASE steps' = steps /\ (asked' = asked \/ asked' = asked + 1)
  <2>1. asked \in Nat /\ \A k \in DOMAIN steps : steps[k] \in StepRows
    BY <1>0 DEF BridgeTypeOK
  <2>2. \A k \in DOMAIN steps : steps[k].id \in Nat
    BY <2>1, BridgeAssumption DEF StepRows
  <2> QED BY <1>0, <1>2, <2>1, <2>2 DEF StepsInOrder
<1> QED BY <1>1, <1>2, StepsTouched

LEMMA JournalKeepsUpStep == ASSUME BridgeInv, BridgeNext PROVE JournalKeepsUp'
<1> USE DEF pipeVars, callVars, serverVars, stepVars, endVars
<1>0. BridgeTypeOK /\ Ball /\ Places /\ JournalKeepsUp
  BY DEF BridgeInv
<1>1. ASSUME NEW ok \in BOOLEAN, NEW tokens \in 0..2, EndOfCall(ok, tokens) PROVE JournalKeepsUp'
  <2>1. NewRow(ok, tokens) \in StepRows /\ NewRow(ok, tokens).id = current
    BY <1>1, RowIsTyped DEF EndOfCall, NewRow
  <2>2. steps = journal
    BY <1>0, <1>1 DEF JournalKeepsUp, EndOfCall, Ending
  <2>3. /\ steps' = Append(journal', NewRow(ok, tokens)) /\ current' = current /\ parent' = "journaling"
    BY <1>1, <2>2 DEF EndOfCall, EndCall, NewRow
  <2> QED BY <2>1, <2>3 DEF JournalKeepsUp
<1>2. ASSUME NEW q \in Questions, PostIt(q) PROVE JournalKeepsUp'
  BY <1>0, <1>2 DEF PostIt, Post, JournalKeepsUp
<1>3. CASE Move
  BY <1>0, <1>3, MoveTouches DEF JournalKeepsUp, InServe
<1>4. CASE ChildGoes \/ Hear \/ (\E i \in sent : Perform(i)) \/ Tick
  BY <1>0, <1>4 DEF ChildGoes, Die, SeeParentGone, Hear, Perform, Tick, JournalKeepsUp
<1>5. CASE OpenAndSpawn \/ SendCall
  BY <1>0, <1>5 DEF OpenAndSpawn, SendCall, JournalKeepsUp
<1>6. CASE ReadLine
  <2>1. steps = journal
    BY <1>0, <1>6 DEF ReadLine, JournalKeepsUp
  <2>2. parent' # "journaling"
    BY <1>6, ReadLineIs
  <2> QED BY <1>6, <2>1, <2>2 DEF ReadLine, JournalKeepsUp
<1>7. CASE JournalStep
  <2>1. PICK row \in StepRows : steps = Append(journal, row)
    BY <1>0, <1>7 DEF JournalStep, JournalKeepsUp
  <2>2. steps[Len(steps)] = row
    BY <1>0, <2>1 DEF BridgeTypeOK
  <2> QED BY <1>7, <2>1, <2>2 DEF JournalStep, JournalKeepsUp
<1>8. CASE Answer
  BY <1>0, <1>8 DEF Answer, LeaveServe, JournalKeepsUp
<1>9. CASE Terminate \/ Crash
  BY <1>0, <1>9 DEF Terminate, Crash, JournalKeepsUp
<1>10. ASSUME NEW kind \in Kinds, NEW fits \in BOOLEAN, Ask(kind, fits) PROVE JournalKeepsUp'
  BY <1>0, <1>10 DEF Ask, JournalKeepsUp
<1>11. ASSUME NEW how \in {"completed", "failed"}, NEW fits \in BOOLEAN, Finish(how, fits) PROVE JournalKeepsUp'
  BY <1>0, <1>11 DEF Finish, JournalKeepsUp
<1>12. CASE AskInVain
  BY <1>0, <1>12 DEF AskInVain, JournalKeepsUp
<1> QED BY <1>1, <1>2, <1>3, <1>4, <1>5, <1>6, <1>7, <1>8, <1>9, <1>10, <1>11, <1>12, CallStepsAre, StepsAre

-----------------------------------------------------------------------------
(* What has become of the call in hand.                                    *)

LEMMA CallInHandStep == ASSUME BridgeInv, BridgeNext PROVE CallInHand'
<1> USE DEF childVars, pipeVars, callVars, serverVars, stepVars, endVars
<1>0. BridgeTypeOK /\ Ball /\ Places /\ StepsInOrder /\ CallInHand
  BY DEF BridgeInv
<1>1. ASSUME NEW ok \in BOOLEAN, NEW tokens \in 0..2, EndOfCall(ok, tokens) PROVE CallInHand'
  <2>1. /\ current \in 1..MaxCalls /\ current = asked /\ current \notin Ids(steps)
        /\ parent' = "journaling"
        /\ UNCHANGED <<asked, current, sent, journal>>
    BY <1>1, CallIsNew, InHand DEF EndOfCall, EndCall, Ending, InServe
  <2>2. /\ DOMAIN bill' = DOMAIN bill
        /\ \A i \in DOMAIN bill : i # current => bill'[i] = bill[i]
    BY <1>0, <1>1 DEF EndOfCall, BridgeTypeOK
  <2>3. Tried' \subseteq Tried \cup {current}
    BY <1>0, <2>1, <2>2 DEF Tried
  <2>4. CostIsTold'
    <3>1. \A i \in DOMAIN bill' : bill'[i] <= 2
      <4>1. bill' \in [1..MaxCalls -> 0..2]
        BY BridgeTypeStep DEF BridgeTypeOK
      <4> QED BY <4>1
    <3>2. /\ DOMAIN steps' = 1..(Len(steps) + 1) /\ DOMAIN steps = 1..Len(steps) /\ Len(steps) \in Nat
          /\ \A k \in DOMAIN steps : steps'[k] = steps[k]
          /\ steps'[Len(steps) + 1] = NewRow(ok, tokens)
      BY <1>0, <1>1 DEF EndOfCall, EndCall, NewRow, BridgeTypeOK
    <3>3. ASSUME NEW k \in DOMAIN steps', steps'[k].ok PROVE steps'[k].tokens = bill'[steps'[k].id]
      <4>1. CASE k \in DOMAIN steps
        <5>1. steps[k].id # current /\ steps[k].id \in DOMAIN bill
          <6>1. steps[k] \in StepRows
            BY <1>0, <4>1 DEF BridgeTypeOK
          <6> QED BY <1>0, <2>1, <4>1, <6>1 DEF BridgeTypeOK, StepRows, Ids
        <5>2. steps[k].tokens = bill[steps[k].id]
          BY <1>0, <3>2, <3>3, <4>1 DEF CallInHand, CostIsTold
        <5> QED BY <2>2, <3>2, <4>1, <5>1, <5>2
      <4>2. CASE k \notin DOMAIN steps
        <5>1. steps'[k] = NewRow(ok, tokens)
          BY <3>2, <4>2
        <5> QED BY <1>1, <3>3, <5>1 DEF EndOfCall, NewRow
      <4> QED BY <4>1, <4>2
    <3> QED BY <3>1, <3>3 DEF CostIsTold
  <2> QED BY <1>0, <2>1, <2>3, <2>4 DEF CallInHand, BridgeTypeOK
<1>2. ASSUME NEW q \in Questions, PostIt(q) PROVE CallInHand'
  <2>1. /\ current \in 1..MaxCalls /\ current = asked /\ current \notin Ids(steps)
        /\ parent' = "asking" /\ question' = q
        /\ UNCHANGED <<asked, current, sent, steps, journal>>
    BY <1>2, CallIsNew, InHand DEF PostIt, Post, Ending, InServe
  <2>2. /\ DOMAIN bill' = DOMAIN bill
        /\ \A i \in DOMAIN bill : i # current => bill'[i] = bill[i]
    <3>1. bill \in [1..MaxCalls -> 0..2]
      BY <1>0 DEF BridgeTypeOK
    <3>2. bill' = bill \/ bill' = [bill EXCEPT ![current] = @ + 1]
      BY <1>2 DEF PostIt
    <3> QED BY <3>1, <3>2
  <2>3. bill'[current] = q.attempt - 1
    <3>1. bill \in [1..MaxCalls -> 0..2] /\ question.attempt \in {1, 2}
      BY <1>0 DEF BridgeTypeOK, Questions
    <3>2. parent = "consulting" => bill[current] = 0
      BY <1>0 DEF CallInHand, Untried
    <3>3. parent = "asking" => bill[current] = question.attempt - 1
      BY <1>0 DEF CallInHand
    <3>4. CASE parent = "consulting"
      BY <1>2, <3>2, <3>4 DEF PostIt
    <3>5. CASE parent = "asking" /\ bill' = bill
      <4>1. q.attempt = question.attempt
        BY <1>2, <2>1, <3>1, <3>5 DEF PostIt
      <4> QED BY <3>3, <3>5, <4>1
    <3>6. CASE parent = "asking" /\ bill' # bill
      <4>1. question.attempt = 1 /\ q.attempt = 2 /\ bill' = [bill EXCEPT ![current] = @ + 1]
        BY <1>2, <3>6 DEF PostIt
      <4> QED BY <2>1, <3>1, <3>3, <3>6, <4>1
    <3> QED BY <1>2, <3>4, <3>5, <3>6 DEF PostIt
  <2>4. Tried' \subseteq Tried \cup {current}
    BY <1>0, <2>1, <2>2 DEF Tried
  <2>5. CostIsTold'
    <3>1. \A i \in DOMAIN bill' : bill'[i] <= 2
      <4>1. bill' \in [1..MaxCalls -> 0..2]
        BY BridgeTypeStep DEF BridgeTypeOK
      <4> QED BY <4>1
    <3>2. \A k \in DOMAIN steps : steps[k].id # current /\ steps[k].id \in DOMAIN bill
      <4>1. \A k \in DOMAIN steps : steps[k] \in StepRows
        BY <1>0 DEF BridgeTypeOK
      <4> QED BY <1>0, <2>1, <4>1 DEF BridgeTypeOK, StepRows, Ids
    <3> QED BY <1>0, <2>1, <2>2, <3>1, <3>2 DEF CallInHand, CostIsTold
  <2> QED BY <1>0, <2>1, <2>3, <2>4, <2>5 DEF CallInHand, BridgeTypeOK, Ids
<1>3. CASE Move
  BY <1>0, <1>3, MoveTouches DEF CallInHand, CostIsTold, Tried, Untried, Ids
<1>4. CASE ChildGoes \/ Hear \/ Tick
  BY <1>0, <1>4 DEF ChildGoes, Die, SeeParentGone, Hear, Tick, CallInHand, CostIsTold, Tried, Untried, Ids
<1>5. CASE OpenAndSpawn
  BY <1>0, <1>5 DEF OpenAndSpawn, CallInHand, CostIsTold, Tried, Untried, Ids
<1>6. CASE ReadLine
  <2>1. 0 \notin Tried
    BY <1>0 DEF Tried, BridgeTypeOK
  <2>2. Tried \ Ids(journal) \subseteq {current'}
    BY <1>0, <1>6, <2>1, ReadLineIs DEF CallInHand
  <2> QED BY <1>0, <1>6, <2>2, ReadLineIs DEF CallInHand, CostIsTold, Tried, Untried, Ids
<1>7. CASE SendCall
  <2>1. current = asked /\ current \in 1..MaxCalls /\ Untried(current)
    BY <1>0, <1>7, InHand DEF SendCall, InServe, CallInHand, BridgeTypeOK
  <2>2. Tried' = Tried \cup {current}
    BY <1>7 DEF SendCall, Tried
  <2>3. parent' = "calling" /\ UNCHANGED <<asked, current, bill, steps, journal>>
    BY <1>7 DEF SendCall
  <2> QED BY <1>0, <2>1, <2>2, <2>3 DEF CallInHand, CostIsTold, Untried, Ids, BridgeTypeOK
<1>8. CASE JournalStep
  <2>1. PICK row \in StepRows : steps = Append(journal, row) /\ row.id = current
    BY <1>8 DEF BridgeInv, JournalStep, JournalKeepsUp
  <2>2. journal' = Append(journal, row) /\ journal \in Seq(StepRows)
    BY <1>0, <1>8, <2>1 DEF JournalStep, BridgeTypeOK
  <2>3. Ids(journal) \subseteq Ids(journal)' /\ current \in Ids(journal)'
    <3>1. /\ DOMAIN journal' = 1..(Len(journal) + 1) /\ DOMAIN journal = 1..Len(journal)
          /\ Len(journal) \in Nat /\ journal'[Len(journal) + 1] = row
          /\ \A k \in DOMAIN journal : journal'[k] = journal[k]
      BY <2>2
    <3> QED BY <2>1, <3>1 DEF Ids
  <2>4. parent' = "answering" /\ UNCHANGED <<asked, current, sent, bill, steps>>
    BY <1>8 DEF JournalStep
  <2> QED BY <1>0, <2>3, <2>4 DEF CallInHand, CostIsTold, Tried
<1>9. CASE Answer
  <2>1. Tried \subseteq Ids(journal)
    BY <1>0, <1>9 DEF Answer, CallInHand, Untried, Tried
  <2>2. parent' \in {"reading", "closing"} /\ UNCHANGED <<asked, sent, bill, steps, journal>>
    BY <1>9 DEF Answer, LeaveServe
  <2> QED BY <1>0, <2>1, <2>2 DEF CallInHand, CostIsTold, Tried, Ids
<1>10. CASE Terminate \/ Crash
  BY <1>0, <1>10 DEF Terminate, Crash, CallInHand, CostIsTold, Tried, Untried, Ids
<1>11. ASSUME NEW kind \in Kinds, NEW fits \in BOOLEAN, Ask(kind, fits) PROVE CallInHand'
  <2>1. asked' = asked + 1 /\ asked \in Nat
    BY <1>0, <1>11 DEF Ask, BridgeTypeOK
  <2>2. UNCHANGED <<parent, current, question, sent, bill, steps, journal>>
    BY <1>11 DEF Ask
  <2>3. \A i \in Tried : i \in Nat
    BY <1>0 DEF Tried, BridgeTypeOK
  <2> QED BY <1>0, <2>1, <2>2, <2>3 DEF CallInHand, CostIsTold, Tried, Untried, Ids
<1>12. ASSUME NEW how \in {"completed", "failed"}, NEW fits \in BOOLEAN, Finish(how, fits) PROVE CallInHand'
  BY <1>0, <1>12 DEF Finish, CallInHand, CostIsTold, Tried, Untried, Ids
<1>13. ASSUME NEW i \in sent, Perform(i) PROVE CallInHand'
  BY <1>0, <1>13 DEF Perform, CallInHand, CostIsTold, Tried, Untried, Ids
<1>14. CASE AskInVain
  <2>1. asked' = asked + 1 /\ asked \in Nat
    BY <1>0, <1>14 DEF AskInVain, BridgeTypeOK
  <2>2. UNCHANGED <<parent, current, question, sent, bill, steps, journal>>
    BY <1>14 DEF AskInVain
  <2>3. \A i \in Tried : i \in Nat
    BY <1>0 DEF Tried, BridgeTypeOK
  <2> QED BY <1>0, <1>14, <2>1, <2>2, <2>3 DEF CallInHand, CostIsTold, Tried, Untried, Ids
<1> QED BY <1>1, <1>2, <1>3, <1>4, <1>5, <1>6, <1>7, <1>8, <1>9, <1>10, <1>11, <1>12, <1>13, <1>14,
        CallStepsAre, StepsAre

-----------------------------------------------------------------------------
(* Time.                                                                   *)

LEMMA FourAtMost ==
  ASSUME NEW m \in Nat, NEW p \in 1..4
  PROVE  /\ p * m \in Nat /\ p * m <= 4 * m /\ m <= p * m
         /\ \A q \in 1..4 : p < q => p * m + m <= q * m
<1>1. p \in {1, 2, 3, 4}
  OBVIOUS
<1>2. 1 * m = m /\ 2 * m = m + m /\ 3 * m = m + m + m /\ 4 * m = m + m + m + m
  OBVIOUS
<1>3. \A q \in 1..4 : q \in {1, 2, 3, 4}
  OBVIOUS
<1> QED BY <1>1, <1>2, <1>3

LEMMA PostedIs ==
  ASSUME BridgeTypeOK
  PROVE  Posted \in 1..4
BY DEF Posted, BridgeTypeOK, Questions

LEMMA InTimeStep == ASSUME BridgeInv, BridgeNext PROVE InTime'
<1> USE BridgeAssumption DEF childVars, pipeVars, callVars, serverVars, stepVars, endVars, InServe
<1>0. BridgeTypeOK /\ Places /\ InTime
  BY DEF BridgeInv
<1>1. ASSUME NEW ok \in BOOLEAN, NEW tokens \in 0..2, EndOfCall(ok, tokens) PROVE InTime'
  BY <1>0, <1>1 DEF EndOfCall, EndCall, Ending, InTime, OverrunIsBounded
<1>2. ASSUME NEW q \in Questions, PostIt(q) PROVE InTime'
  <2>1. /\ parent \in {"consulting", "asking"} /\ parent' = "asking" /\ callBy' = now + ModelTimeout
        /\ question' = q /\ UNCHANGED <<now, deadline>> /\ now \in Nat
    BY <1>0, <1>2 DEF PostIt, Post, BridgeTypeOK
  <2>2. Posted' \in 1..4 /\ Posted \in 1..4
    BY <1>0, <2>1, PostedIs DEF Posted, Questions
  <2>3. parent = "asking" => Posted < Posted'
    BY <1>0, <1>2, <2>1 DEF PostIt, Posted, BridgeTypeOK, Questions
  <2>4. callBy' <= RunTimeout + Posted' * ModelTimeout
    <3>1. CASE parent = "consulting"
      <4>1. now < RunTimeout
        BY <1>0, <3>1 DEF InTime
      <4>2. Posted' * ModelTimeout \in Nat /\ ModelTimeout <= Posted' * ModelTimeout
        BY <2>2, FourAtMost
      <4> QED BY <2>1, <4>1, <4>2
    <3>2. CASE parent = "asking"
      <4>1. now <= callBy /\ callBy <= RunTimeout + Posted * ModelTimeout /\ callBy \in Nat
        BY <1>0, <3>2 DEF InTime, BridgeTypeOK
      <4>2. /\ Posted * ModelTimeout \in Nat /\ Posted' * ModelTimeout \in Nat
            /\ Posted * ModelTimeout + ModelTimeout <= Posted' * ModelTimeout
        BY <2>2, <2>3, <3>2, FourAtMost
      <4> QED BY <2>1, <4>1, <4>2
    <3> QED BY <2>1, <3>1, <3>2
  <2> QED BY <1>0, <2>1, <2>4 DEF InTime, OverrunIsBounded
<1>3. CASE Move
  BY <1>0, <1>3, MoveTouches DEF InTime, OverrunIsBounded
<1>4. CASE ChildGoes \/ Hear \/ (\E i \in sent : Perform(i))
  BY <1>0, <1>4 DEF ChildGoes, Die, SeeParentGone, Hear, Perform, InTime, OverrunIsBounded, Posted
<1>5. CASE OpenAndSpawn
  BY <1>0, <1>5 DEF OpenAndSpawn, Places, InTime, OverrunIsBounded
<1>6. CASE ReadLine
  BY <1>0, <1>6, ReadLineIs DEF InTime, OverrunIsBounded
<1>7. CASE SendCall
  BY <1>0, <1>7 DEF SendCall, InTime, OverrunIsBounded, BridgeTypeOK
<1>8. CASE JournalStep \/ Terminate \/ Crash
  BY <1>0, <1>8 DEF JournalStep, Terminate, Crash, InTime, OverrunIsBounded
<1>9. CASE Answer
  BY <1>0, <1>9 DEF Answer, LeaveServe, InTime, OverrunIsBounded
<1>10. ASSUME NEW kind \in Kinds, NEW fits \in BOOLEAN, Ask(kind, fits) PROVE InTime'
  BY <1>0, <1>10 DEF Ask, InTime, OverrunIsBounded, Posted
<1>11. ASSUME NEW how \in {"completed", "failed"}, NEW fits \in BOOLEAN, Finish(how, fits) PROVE InTime'
  BY <1>0, <1>11 DEF Finish, InTime, OverrunIsBounded, Posted
<1>12. CASE Tick
  <2>1. now' = now + 1 /\ now \in Nat /\ callBy \in Nat /\ UNCHANGED <<parent, deadline, callBy, question>>
    BY <1>0, <1>12 DEF Tick, BridgeTypeOK
  <2>2. CASE parent = "reading"
    BY <1>0, <1>12, <2>1, <2>2 DEF Tick, InTime, OverrunIsBounded
  <2>3. CASE parent = "calling"
    BY <1>0, <1>12, <2>1, <2>3 DEF Tick, InTime, OverrunIsBounded
  <2>4. CASE parent = "asking"
    <3>1. now' <= callBy /\ callBy <= RunTimeout + Posted * ModelTimeout
      BY <1>0, <1>12, <2>1, <2>4 DEF Tick, InTime
    <3>2. Posted * ModelTimeout \in Nat /\ Posted * ModelTimeout <= 4 * ModelTimeout /\ 4 * ModelTimeout \in Nat
      BY <1>0, PostedIs, FourAtMost
    <3>3. now' <= RunTimeout + 4 * ModelTimeout
      BY <2>1, <3>1, <3>2
    <3> QED BY <1>0, <2>1, <2>4, <3>1, <3>3 DEF InTime, OverrunIsBounded, Posted
  <2> QED BY <1>12, <2>2, <2>3, <2>4 DEF Tick
<1>13. CASE AskInVain
  BY <1>0, <1>13 DEF AskInVain, InTime, OverrunIsBounded, Posted
<1> QED BY <1>1, <1>2, <1>3, <1>4, <1>5, <1>6, <1>7, <1>8, <1>9, <1>10, <1>11, <1>12, <1>13, CallStepsAre, StepsAre

-----------------------------------------------------------------------------
LEMMA BridgeStep == BridgeInv /\ [BridgeNext]_bridgeVars => BridgeInv'
<1>1. ASSUME BridgeInv, BridgeNext PROVE BridgeInv'
  BY <1>1, BridgeTypeStep, BallStep, PlacesStep, StepsInOrderStep, JournalKeepsUpStep, CallInHandStep, InTimeStep
     DEF BridgeInv
<1>2. ASSUME BridgeInv, UNCHANGED bridgeVars PROVE BridgeInv'
  <2> USE <1>2 DEF bridgeVars, childVars, pipeVars, callVars, serverVars, stepVars, endVars
  <2>1. BridgeTypeOK' /\ Ball' /\ Places'
    BY DEF BridgeInv, BridgeTypeOK, Ball, Untried, Ids, Places, InServe, ChildIsGone, Alive
  <2>2. StepsInOrder' /\ JournalKeepsUp'
    BY DEF BridgeInv, StepsInOrder, JournalKeepsUp
  <2>3. CallInHand' /\ InTime'
    BY DEF BridgeInv, CallInHand, CostIsTold, Tried, Untried, Ids, InTime, InServe, OverrunIsBounded, Posted
  <2> QED BY <2>1, <2>2, <2>3 DEF BridgeInv
<1> QED BY <1>1, <1>2

THEOREM BridgeInvariant == BridgeSpec => []BridgeInv
<1>1. BridgeInit => BridgeInv
  <2> SUFFICES ASSUME BridgeInit PROVE BridgeInv
    OBVIOUS
  <2> USE BridgeAssumption DEF BridgeInit
  <2>1. BridgeTypeOK
    <3>1. /\ heard \in [asked : 0..MaxCalls, got : 0..MaxCalls] /\ up \in Seq(Messages) /\ down \in Seq(1..MaxCalls)
          /\ steps \in Seq(StepRows) /\ journal \in Seq(StepRows)
      OBVIOUS
    <3>2. question \in Questions /\ bill \in [1..MaxCalls -> 0..2]
      BY DEF FirstQuestion, Questions
    <3>3. now \in 0..MaxTime /\ asked \in 0..MaxCalls /\ current \in 0..MaxCalls
      OBVIOUS
    <3>4. child \in ChildPcs /\ parent \in ParentPcs /\ outcome \in Outcomes /\ report \in Reports
      BY DEF ChildPcs, ParentPcs, Outcomes, Reports
    <3>5. deadline \in Nat /\ callBy \in Nat /\ good \in BOOLEAN /\ sent \subseteq 1..MaxCalls /\ performed \subseteq sent
      OBVIOUS
    <3> QED BY <3>1, <3>2, <3>3, <3>4, <3>5 DEF BridgeTypeOK
  <2>2. Ball /\ Places /\ StepsInOrder /\ JournalKeepsUp
    BY DEF Ball, Places, InServe, ChildIsGone, Alive, StepsInOrder, JournalKeepsUp
  <2>3. CallInHand /\ InTime
    BY DEF CallInHand, CostIsTold, Tried, InTime, InServe, OverrunIsBounded
  <2> QED BY <2>1, <2>2, <2>3 DEF BridgeInv
<1> QED BY <1>1, BridgeStep, PTL DEF BridgeSpec

(* The answer a call takes is its own, and at any time one party has the   *)
(* ball, though nobody compares an id (runner_shim.py:104).                *)
THEOREM InLockStep == BridgeSpec => []LockStep
<1>1. BridgeInv => LockStep
  BY InHand DEF BridgeInv, Ball, LockStep, InServe, Alive
<1> QED BY <1>1, BridgeInvariant, PTL

(* No way out of run_code leaves the workflow's process behind             *)
(* (runner.py:256).                                                        *)
THEOREM NoChildIsLeft == BridgeSpec => []ChildIsGone
<1>1. BridgeInv => ChildIsGone
  BY DEF BridgeInv, Places
<1> QED BY <1>1, BridgeInvariant, PTL

(* The journal, and what is told from it, is what happened, whatever dies, *)
(* is cancelled or fails to be written (runs.py:373-390, db.py:427).       *)
THEOREM JournalIsAlwaysTrue == BridgeSpec => []JournalIsTrue
<1>1. BridgeInv => JournalIsTrue
  <2> SUFFICES ASSUME BridgeInv PROVE JournalIsTrue
    OBVIOUS
  <2>1. \/ steps = journal
        \/ \E row \in StepRows : steps = Append(journal, row)
    BY DEF BridgeInv, JournalKeepsUp
  <2>2. /\ DOMAIN journal \subseteq DOMAIN steps
        /\ \A k \in DOMAIN journal : journal[k] = steps[k]
    <3>1. CASE steps = journal
      BY <3>1
    <3>2. ASSUME NEW row \in StepRows, steps = Append(journal, row)
          PROVE  /\ DOMAIN journal \subseteq DOMAIN steps
                 /\ \A k \in DOMAIN journal : journal[k] = steps[k]
      <4>1. journal \in Seq(StepRows)
        BY DEF BridgeInv, BridgeTypeOK
      <4> QED BY <3>2, <4>1
    <3> QED BY <2>1, <3>1, <3>2
  <2>3. JournalTellsAll
    BY <2>2 DEF BridgeInv, StepsInOrder, CallInHand, Tried, JournalTellsAll
  <2>4. ToldIsJournaled
    BY DEF BridgeInv, JournalKeepsUp, Places, ToldIsJournaled
  <2> QED BY <2>3, <2>4 DEF BridgeInv, CallInHand, JournalIsTrue
<1> QED BY <1>1, BridgeInvariant, PTL

(* The deadline is the whole run's: no call and no first question leaves   *)
(* after it, and what had left by then is waited for once                  *)
(* (runner.py:214-220).                                                    *)
THEOREM DeadlineAlwaysHolds == BridgeSpec => DeadlineHolds
<1>1. ASSUME BridgeInv, BridgeNext PROVE LeavesInTime
  <2> DEFINE Quiet == sent' = sent /\ ~(parent = "consulting" /\ parent' = "asking")
  <2> USE DEF serverVars, callVars
  <2>1. CASE SendCall
    BY <1>1, <2>1 DEF SendCall, LeavesInTime, BridgeInv, InTime, Places, InServe
  <2>2. ASSUME NEW q \in Questions, PostIt(q) PROVE LeavesInTime
    BY <1>1, <2>2 DEF PostIt, Post, LeavesInTime, BridgeInv, InTime, Places, InServe
  <2>3. ASSUME NEW ok \in BOOLEAN, NEW tokens \in 0..2, EndOfCall(ok, tokens) PROVE Quiet
    BY <2>3 DEF EndOfCall, EndCall
  <2>4. ASSUME Move PROVE Quiet
    BY <1>1, <2>4, MoveTouches
  <2>5. ASSUME ReadLine PROVE Quiet
    BY <1>1, <2>5, ReadLineIs
  <2>6. ASSUME ChildGoes \/ OpenAndSpawn \/ JournalStep \/ Answer \/ Terminate \/ Crash
                 \/ AskInVain \/ Hear \/ Tick
        PROVE  Quiet
    BY <2>6 DEF ChildGoes, AskInVain, Die, SeeParentGone, OpenAndSpawn, JournalStep, Answer, Terminate, Crash, Hear, Tick
  <2>7. ASSUME NEW kind \in Kinds, NEW fits \in BOOLEAN, Ask(kind, fits) PROVE Quiet
    BY <2>7 DEF Ask
  <2>8. ASSUME NEW how \in {"completed", "failed"}, NEW fits \in BOOLEAN, Finish(how, fits) PROVE Quiet
    BY <2>8 DEF Finish
  <2>9. ASSUME NEW i \in sent, Perform(i) PROVE Quiet
    BY <2>9 DEF Perform
  <2>10. Quiet => LeavesInTime
    BY DEF LeavesInTime
  <2> QED BY <1>1, <2>1, <2>2, <2>3, <2>4, <2>5, <2>6, <2>7, <2>8, <2>9, <2>10, CallStepsAre, StepsAre
<1>2. BridgeInv => OverrunIsBounded
  BY DEF BridgeInv, InTime
<1> QED BY <1>1, <1>2, BridgeInvariant, BridgeStep, PTL DEF BridgeSpec, DeadlineHolds

-----------------------------------------------------------------------------
(* The execution implements the ledger.                                    *)

\* What the mapping needs besides: a row that says ok is of a call that took effect;
\* an execution whose end is decided has no call in hand; a request that was not read
\* yet is one the child has no answer to, and a report says how it ended.
OkIsReal == \A k \in DOMAIN steps : steps[k].ok => steps[k].id \in performed \/ bill[steps[k].id] > 0
Decided == {"completed", "failed", "timeout", "died"}
EndIsDecided ==
    /\ outcome \in Decided => current = 0
    /\ parent \in {"closing", "leaving"} => outcome # "none"
LineIsSound ==
    up # <<>> => IF Head(up).kind \in Kinds THEN heard.got < asked ELSE Head(up).status # "none"

LedgerInv == OkIsReal /\ EndIsDecided /\ LineIsSound

\* A bill only grows.
LEMMA BillGrows ==
  ASSUME BridgeInv, current \in 1..MaxCalls, bill' = bill \/ bill' = [bill EXCEPT ![current] = @ + 1]
  PROVE  \A i \in 1..MaxCalls : bill[i] > 0 => bill'[i] > 0
<1>1. bill \in [1..MaxCalls -> 0..2]
  BY DEF BridgeInv, BridgeTypeOK
<1>2. ASSUME NEW i \in 1..MaxCalls, bill' = [bill EXCEPT ![current] = @ + 1], bill[i] > 0 PROVE bill'[i] > 0
  <2>1. bill'[i] = IF i = current THEN bill[i] + 1 ELSE bill[i]
    BY <1>1, <1>2
  <2> QED BY <1>1, <1>2, <2>1
<1> QED BY <1>2

LEMMA OkIsRealStep == ASSUME BridgeInv, OkIsReal, BridgeNext PROVE OkIsReal'
<1> USE BridgeAssumption DEF childVars, pipeVars, callVars, serverVars, stepVars, endVars
<1>0. /\ BridgeTypeOK
      /\ \A k \in DOMAIN steps : steps[k].id \in 1..MaxCalls
  <2>1. \A k \in DOMAIN steps : steps[k] \in StepRows
    BY DEF BridgeInv, BridgeTypeOK
  <2> QED BY <2>1 DEF BridgeInv, BridgeTypeOK, StepRows
<1>1. ASSUME NEW ok \in BOOLEAN, NEW tokens \in 0..2, EndOfCall(ok, tokens) PROVE OkIsReal'
  <2>1. /\ DOMAIN steps' = 1..(Len(steps) + 1) /\ DOMAIN steps = 1..Len(steps) /\ Len(steps) \in Nat
        /\ \A k \in DOMAIN steps : steps'[k] = steps[k]
        /\ steps'[Len(steps) + 1].ok = ok
        /\ steps'[Len(steps) + 1].id = current
    BY <1>0, <1>1 DEF EndOfCall, EndCall, BridgeTypeOK
  <2>2. current \in 1..MaxCalls
    BY <1>1, CallIsNew DEF EndOfCall
  <2>3. \A i \in 1..MaxCalls : bill[i] > 0 => bill'[i] > 0
    BY <1>1, <2>2, BillGrows DEF EndOfCall
  <2>4. ok => current \in performed \/ bill'[current] > 0
    BY <1>1 DEF EndOfCall
  <2>5. ASSUME NEW k \in DOMAIN steps', steps'[k].ok
        PROVE  steps'[k].id \in performed \/ bill'[steps'[k].id] > 0
    <3>1. CASE k = Len(steps) + 1
      BY <2>1, <2>4, <2>5, <3>1
    <3>2. CASE k \in DOMAIN steps
      BY <1>0, <2>1, <2>3, <2>5, <3>2 DEF OkIsReal
    <3> QED BY <2>1, <3>1, <3>2
  <2> QED BY <1>1, <2>5 DEF OkIsReal, EndOfCall
<1>2. ASSUME steps' = steps, performed \subseteq performed',
             \A i \in 1..MaxCalls : bill[i] > 0 => bill'[i] > 0
      PROVE  OkIsReal'
  BY <1>0, <1>2 DEF OkIsReal
<1>3. ASSUME NEW q \in Questions, PostIt(q) PROVE OkIsReal'
  <2>1. current \in 1..MaxCalls
    BY <1>3, CallIsNew DEF PostIt, Ending
  <2>2. \A i \in 1..MaxCalls : bill[i] > 0 => bill'[i] > 0
    BY <1>3, <2>1, BillGrows DEF PostIt
  <2> QED BY <1>2, <1>3, <2>2 DEF PostIt, Post
<1>4. CASE Move
  BY <1>2, <1>4, MoveTouches
<1>5. CASE ReadLine
  BY <1>2, <1>5, ReadLineIs
<1>6. CASE ChildGoes \/ OpenAndSpawn \/ SendCall \/ JournalStep \/ Answer \/ Terminate \/ Crash \/ Hear \/ Tick
  BY <1>2, <1>6 DEF ChildGoes, Die, SeeParentGone, OpenAndSpawn, SendCall, JournalStep, Answer, Terminate, Crash,
                    Hear, Tick
<1>7. ASSUME NEW kind \in Kinds, NEW fits \in BOOLEAN, Ask(kind, fits) PROVE OkIsReal'
  BY <1>2, <1>7 DEF Ask
<1>8. ASSUME NEW how \in {"completed", "failed"}, NEW fits \in BOOLEAN, Finish(how, fits) PROVE OkIsReal'
  BY <1>2, <1>8 DEF Finish
<1>9. ASSUME NEW i \in sent, Perform(i) PROVE OkIsReal'
  BY <1>2, <1>9 DEF Perform
<1>10. CASE AskInVain
  BY <1>2, <1>10 DEF AskInVain
<1> QED BY <1>1, <1>3, <1>4, <1>5, <1>6, <1>7, <1>8, <1>9, <1>10, CallStepsAre, StepsAre

LEMMA EndIsDecidedStep == ASSUME BridgeInv, EndIsDecided, LineIsSound, BridgeNext PROVE EndIsDecided'
<1> USE DEF childVars, pipeVars, callVars, serverVars, stepVars, endVars
<1>0. BridgeTypeOK /\ Places /\ (InServe => (parent = "reading" <=> current = 0))
      /\ (InServe \/ parent = "opening" => outcome = "none")
  BY DEF BridgeInv, Places
<1>1. ASSUME NEW ok \in BOOLEAN, NEW tokens \in 0..2, EndOfCall(ok, tokens) PROVE EndIsDecided'
  BY <1>0, <1>1 DEF EndOfCall, EndCall, Ending, InServe, EndIsDecided, Decided
<1>2. ASSUME NEW q \in Questions, PostIt(q) PROVE EndIsDecided'
  BY <1>0, <1>2 DEF PostIt, Post, InServe, EndIsDecided, Decided
<1>3. CASE Move
  <2>1. CASE TimeOut \/ SeeChildGone \/ FailToJournal
    BY <1>0, <2>1 DEF TimeOut, SeeChildGone, FailToJournal, LeaveServe, InServe, EndIsDecided, Decided
  <2>2. CASE Conclude \/ FailToClose \/ FailToOpen \/ Cancel \/ RefuseCall
    BY <1>0, <2>2 DEF Conclude, FailToClose, FailToOpen, Cancel, RefuseCall, InServe, EndIsDecided, Decided
  <2> QED BY <1>3, <2>1, <2>2 DEF Move
<1>4. CASE ReadLine
  <2>1. outcome' # "none" \/ parent' \in {"resolving", "consulting"}
    <3>1. up # <<>> /\ Head(up) \in Messages
      BY <1>0, <1>4 DEF ReadLine, BridgeTypeOK
    <3>2. CASE Head(up).kind \in Kinds
      BY <1>4, <3>1, <3>2 DEF ReadLine, LeaveServe, Messages, Kinds, Handler
    <3>3. CASE Head(up).kind = "finished"
      BY <1>4, <3>1, <3>3 DEF ReadLine, LeaveServe, LineIsSound, Kinds
    <3> QED BY <3>1, <3>2, <3>3 DEF Messages
  <2> QED BY <1>0, <1>4, <2>1, ReadLineIs DEF InServe, EndIsDecided, Decided
<1>5. CASE ChildGoes \/ OpenAndSpawn \/ SendCall \/ JournalStep \/ Hear \/ Tick \/ Terminate \/ Crash
  BY <1>0, <1>5 DEF ChildGoes, Die, SeeParentGone, OpenAndSpawn, SendCall, JournalStep, Terminate, Crash,
                    Hear, Tick, InServe, EndIsDecided, Decided
<1>6. CASE Answer
  BY <1>0, <1>6 DEF Answer, LeaveServe, InServe, EndIsDecided, Decided
<1>7. ASSUME NEW kind \in Kinds, NEW fits \in BOOLEAN, Ask(kind, fits) PROVE EndIsDecided'
  BY <1>7 DEF Ask, EndIsDecided
<1>8. ASSUME NEW how \in {"completed", "failed"}, NEW fits \in BOOLEAN, Finish(how, fits) PROVE EndIsDecided'
  BY <1>8 DEF Finish, EndIsDecided
<1>9. ASSUME NEW i \in sent, Perform(i) PROVE EndIsDecided'
  BY <1>9 DEF Perform, EndIsDecided
<1>10. CASE AskInVain
  BY <1>10 DEF AskInVain, EndIsDecided
<1> QED BY <1>1, <1>2, <1>3, <1>4, <1>5, <1>6, <1>7, <1>8, <1>9, <1>10, CallStepsAre, StepsAre

LEMMA LineIsSoundStep == ASSUME BridgeInv, LineIsSound, BridgeNext PROVE LineIsSound'
<1> USE DEF childVars, pipeVars, callVars, serverVars, stepVars, endVars
<1>0. BridgeTypeOK /\ Ball /\ asked \in Nat /\ heard.got \in Nat
  BY BridgeAssumption DEF BridgeInv, BridgeTypeOK
<1>1. ASSUME NEW ok \in BOOLEAN, NEW tokens \in 0..2, EndOfCall(ok, tokens) PROVE LineIsSound'
  BY <1>1 DEF EndOfCall, EndCall, LineIsSound
<1>2. ASSUME NEW q \in Questions, PostIt(q) PROVE LineIsSound'
  BY <1>2 DEF PostIt, Post, LineIsSound
<1>3. CASE Move
  BY <1>3, MoveTouches DEF LineIsSound
<1>4. CASE ReadLine \/ Terminate
  BY <1>4, ReadLineIs DEF Terminate, LineIsSound
<1>5. CASE ChildGoes \/ OpenAndSpawn \/ SendCall \/ JournalStep \/ Answer \/ Tick \/ Crash
  BY <1>5 DEF ChildGoes, Die, SeeParentGone, OpenAndSpawn, SendCall, JournalStep, Answer, Tick, Crash, LineIsSound
<1>6. CASE Hear
  BY <1>0, <1>6 DEF Hear, Ball, LineIsSound
<1>7. ASSUME NEW kind \in Kinds, NEW fits \in BOOLEAN, Ask(kind, fits) PROVE LineIsSound'
  <2>1. up' = <<Request(kind, asked', fits)>> /\ heard.got < asked' /\ heard' = heard
    BY <1>0, <1>7 DEF Ask, Ball
  <2> QED BY <2>1 DEF Request, LineIsSound
<1>8. ASSUME NEW how \in {"completed", "failed"}, NEW fits \in BOOLEAN, Finish(how, fits) PROVE LineIsSound'
  <2>1. up' = <<Finished(how, fits)>>
    BY <1>0, <1>8 DEF Finish, Ball
  <2> QED BY <2>1 DEF Finished, Kinds, LineIsSound
<1>9. ASSUME NEW i \in sent, Perform(i) PROVE LineIsSound'
  BY <1>9 DEF Perform, LineIsSound
<1>10. CASE AskInVain
  BY <1>0, <1>10 DEF AskInVain, Ball, LineIsSound
<1> QED BY <1>1, <1>2, <1>3, <1>4, <1>5, <1>6, <1>7, <1>8, <1>9, <1>10, CallStepsAre, StepsAre

LEMMA LedgerInvAlways == BridgeSpec => []LedgerInv
<1>1. BridgeInit => LedgerInv
  BY DEF BridgeInit, LedgerInv, OkIsReal, EndIsDecided, Decided, LineIsSound
<1>2. BridgeInv /\ LedgerInv /\ [BridgeNext]_bridgeVars => LedgerInv'
  <2>1. ASSUME BridgeInv, LedgerInv, BridgeNext PROVE LedgerInv'
    BY <2>1, OkIsRealStep, EndIsDecidedStep, LineIsSoundStep DEF LedgerInv
  <2>2. ASSUME LedgerInv, UNCHANGED bridgeVars PROVE LedgerInv'
    BY <2>2 DEF bridgeVars, childVars, pipeVars, callVars, serverVars, stepVars, endVars,
                LedgerInv, OkIsReal, EndIsDecided, LineIsSound
  <2> QED BY <2>1, <2>2
<1> QED BY <1>1, <1>2, BridgeInvariant, PTL DEF BridgeSpec

-----------------------------------------------------------------------------
\* What the mapping looks at, but for the calls themselves.
Open == InServe \/ parent = "opening"
Reported == report \in {"completed", "workflow-failed", "invalid-output"}
LedgerStep == Ledger!LedgerNext \/ UNCHANGED Ledger!ledgerVars

\* A step that leaves all of it alone.
LEMMA LedgerStutters ==
  ASSUME UNCHANGED <<current, sent, performed, bill, journal, heard>>,
         Open' <=> Open, ~Reported, ~Reported'
  PROVE  UNCHANGED Ledger!ledgerVars
BY DEF Ledger!ledgerVars, Open, Reported

\* While calls are open, nobody was told.
LEMMA OpenIsUntold ==
  ASSUME BridgeInv
  PROVE  /\ parent # "over" => ~Reported
         /\ Open => parent # "over"
         /\ parent = "over" => ~Open
BY DEF BridgeInv, Places, InServe, Open, Reported

\* Where nothing waits to be written, the steps are the journal.
LEMMA StepsAreJournal ==
  ASSUME BridgeInv, InServe, parent # "journaling"
  PROVE  steps = journal
BY DEF BridgeInv, JournalKeepsUp, InServe

LEMMA LeftIsTried ==
  ASSUME BridgeInv, NEW i, Ledger!Left(i)
  PROVE  i \in Tried
BY DEF Ledger!Left, BridgeInv, BridgeTypeOK, Tried

LEMMA LoggedIsInJournal ==
  ASSUME NEW i
  PROVE  Ledger!Logged(i) <=> i \in Ids(journal)
BY DEF Ledger!Logged, Ids

LEMMA CallStepMaps ==
  ASSUME BridgeInv, BridgeInv', CallStep
  PROVE  LedgerStep
<1> USE BridgeAssumption DEF childVars, pipeVars, callVars, serverVars, stepVars, endVars
<1>1. ASSUME Ending, current' = current, sent' = sent, performed' = performed, journal' = journal, heard' = heard,
             Open', parent' # "over",
             bill' = bill \/ (parent = "asking" /\ bill' = [bill EXCEPT ![current] = @ + 1])
      PROVE  LedgerStep
  <2>1. Open /\ ~Reported /\ ~Reported'
    BY <1>1, OpenIsUntold DEF Ending, Open, InServe, BridgeInv, Places, Reported
  <2>2. CASE bill' = bill
    BY <1>1, <2>1, <2>2, LedgerStutters DEF LedgerStep
  <2>3. CASE parent = "asking" /\ bill' = [bill EXCEPT ![current] = @ + 1]
    <3>1. current \in 1..MaxCalls /\ ~Ledger!Logged(current)
      BY <1>1, CallIsNew, StepsAreJournal, LoggedIsInJournal DEF Ending, InServe
    <3>2. bill[current] < 2
      BY <2>3 DEF BridgeInv, BridgeTypeOK, CallInHand, Questions
    <3>3. Ledger!Charge
      BY <1>1, <2>1, <2>3, <3>1, <3>2 DEF Ledger!Charge, Open, Reported
    <3> QED BY <3>3 DEF LedgerStep, Ledger!LedgerNext
  <2> QED BY <1>1, <2>2, <2>3
<1>2. ASSUME NEW ok \in BOOLEAN, NEW tokens \in 0..2, EndOfCall(ok, tokens) PROVE LedgerStep
  BY <1>1, <1>2 DEF EndOfCall, EndCall, Open, InServe
<1>3. ASSUME NEW q \in Questions, PostIt(q) PROVE LedgerStep
  BY <1>1, <1>3 DEF PostIt, Post, Ending, Open, InServe
<1> QED BY <1>2, <1>3, CallStepsAre

LEMMA MoveMaps ==
  ASSUME BridgeInv, LedgerInv, Move
  PROVE  LedgerStep
<1> USE DEF childVars, pipeVars, callVars, serverVars, stepVars, endVars
<1>1. /\ UNCHANGED <<heard, current, sent, performed, bill, steps, journal>>
      /\ parent \notin {"closing", "gone", "over"} /\ ~Reported
  BY MoveTouches, OpenIsUntold
<1>2. CASE parent' = "answering"
  <2>1. parent \in {"resolving", "consulting"} /\ report' = report
    BY <1>2, MoveTouches
  <2> QED BY <1>1, <1>2, <2>1, LedgerStutters DEF Open, InServe, Reported, LedgerStep
<1>3. ASSUME Open, ~Open', ~Reported' PROVE LedgerStep
  <2>1. Ledger!Close
    BY <1>1, <1>3 DEF Ledger!Close, Open, Reported
  <2> QED BY <2>1 DEF LedgerStep, Ledger!LedgerNext
<1>4. CASE parent' = "closing"
  <2>1. Open /\ ~Open' /\ ~Reported'
    BY <1>1, <1>4, MoveTouches DEF Open, InServe, Reported
  <2> QED BY <1>3, <2>1
<1>5. CASE parent' = "over" /\ ~Conclude
  <2>1. ~Reported'
    BY <1>1, <1>5 DEF Move, TimeOut, SeeChildGone, FailToJournal, LeaveServe, FailToOpen, FailToClose, Cancel,
                      RefuseCall, Reported
  <2>2. ~Open' /\ parent \in {"opening", "leaving"}
    BY <1>5, MoveTouches DEF Open, InServe
  <2>3. CASE parent = "opening"
    BY <1>3, <2>1, <2>2, <2>3 DEF Open
  <2>4. CASE parent = "leaving"
    BY <1>1, <2>1, <2>2, <2>4, LedgerStutters DEF Open, InServe, LedgerStep
  <2> QED BY <2>2, <2>3, <2>4
<1>6. CASE Conclude
  <2>1. parent = "leaving" /\ ~Open /\ ~Open'
    BY <1>6 DEF Conclude, Open, InServe
  <2>2. CASE ~Reported'
    BY <1>1, <2>1, <2>2, LedgerStutters DEF LedgerStep
  <2>3. CASE Reported'
    <3>1. outcome \in Decided
      BY <1>6, <2>1, <2>3 DEF Conclude, Reported, Decided, BridgeInv, BridgeTypeOK, Outcomes, LedgerInv, EndIsDecided
    <3>2. current = 0
      BY <3>1 DEF LedgerInv, EndIsDecided
    <3>3. steps = journal
      BY <2>1, <3>1 DEF BridgeInv, JournalKeepsUp, Decided
    <3>4. \A i \in 1..MaxCalls : Ledger!Left(i) => Ledger!Logged(i)
      <4>1. Tried \ Ids(journal) \subseteq {0}
        BY <3>2 DEF BridgeInv, CallInHand
      <4> QED BY <4>1, LeftIsTried, LoggedIsInJournal, BridgeAssumption
    <3>5. Ledger!Tell
      BY <1>1, <2>1, <2>3, <3>3, <3>4 DEF Ledger!Tell, Open, Reported
    <3> QED BY <3>5 DEF LedgerStep, Ledger!LedgerNext
  <2> QED BY <2>2, <2>3
<1> QED BY <1>2, <1>4, <1>5, <1>6, MoveTouches

\* The request that was read becomes the call in hand.
LEMMA ReadLineMaps ==
  ASSUME BridgeInv, LedgerInv, ReadLine
  PROVE  LedgerStep
<1>1. /\ parent = "reading" /\ current = 0
      /\ UNCHANGED <<heard, sent, performed, bill, steps, journal, report>>
      /\ Open /\ ~Reported /\ ~Reported'
  BY ReadLineIs, OpenIsUntold DEF Open, InServe, Reported
<1>2. CASE parent' = "closing" /\ current' = current
  <2>1. Ledger!Close
    BY <1>1, <1>2 DEF Ledger!Close, Open, InServe, Reported
  <2> QED BY <2>1 DEF LedgerStep, Ledger!LedgerNext
<1>3. CASE parent' \in {"resolving", "consulting"} /\ current' = asked /\ asked > 0 /\ Untried(asked)
  <2>1. asked \in 1..MaxCalls
    BY <1>3, BridgeAssumption DEF BridgeInv, BridgeTypeOK
  <2>2. asked > heard.got
    <3>1. up # <<>> /\ Head(up).kind \in Kinds
      <4>1. up # <<>> /\ Head(up) \in Messages
        BY DEF ReadLine, BridgeInv, BridgeTypeOK
      <4> QED BY <1>3, <4>1 DEF ReadLine, LeaveServe, Messages
    <3> QED BY <3>1, <2>1 DEF LedgerInv, LineIsSound, BridgeInv, BridgeTypeOK
  <2>3. ~Ledger!Left(asked)
    BY <1>3, <2>1, LeftIsTried DEF Untried, Ledger!Left, BridgeInv, BridgeTypeOK
  <2>4. \A k \in DOMAIN journal : journal[k].id < asked
    <3>1. steps = journal
      BY <1>1, StepsAreJournal DEF InServe
    <3>2. \A k \in DOMAIN journal : journal[k].id <= asked /\ journal[k].id # asked
      BY <1>3, <3>1 DEF BridgeInv, StepsInOrder, Untried, Ids
    <3>3. \A k \in DOMAIN journal : journal[k].id \in 1..MaxCalls
      <4>1. \A k \in DOMAIN journal : journal[k] \in StepRows
        BY DEF BridgeInv, BridgeTypeOK
      <4> QED BY <4>1 DEF StepRows
    <3> QED BY <2>1, <3>2, <3>3
  <2>5. Ledger!TakeUp(asked)
    BY <1>1, <1>3, <2>2, <2>3, <2>4 DEF Ledger!TakeUp, Open, InServe, Reported
  <2> QED BY <2>1, <2>5 DEF LedgerStep, Ledger!LedgerNext
<1> QED BY <1>2, <1>3, ReadLineIs

\* The row that is written is of the call in hand, and true.
LEMMA JournalStepMaps ==
  ASSUME BridgeInv, LedgerInv, JournalStep
  PROVE  LedgerStep
<1> USE DEF childVars, pipeVars, callVars, serverVars, stepVars, endVars
<1>1. /\ parent = "journaling" /\ parent' = "answering"
      /\ UNCHANGED <<heard, current, sent, performed, bill, steps, report>>
      /\ Open /\ Open' /\ ~Reported /\ ~Reported'
  BY OpenIsUntold DEF JournalStep, Open, InServe, Reported
<1>2. PICK row \in StepRows : steps = Append(journal, row) /\ row.id = current
  BY <1>1 DEF BridgeInv, JournalKeepsUp
<1>3. /\ Len(journal) \in Nat /\ DOMAIN journal = 1..Len(journal)
      /\ Len(steps) = Len(journal) + 1 /\ steps[Len(steps)] = row /\ DOMAIN steps = 1..Len(steps)
      /\ \A k \in DOMAIN journal : steps[k] = journal[k]
  BY <1>2 DEF BridgeInv, BridgeTypeOK
<1>4. journal' = Append(journal, row)
  BY <1>3 DEF JournalStep
<1>5. row.seq = Len(journal) + 1
  BY <1>3 DEF BridgeInv, StepsInOrder
<1>6. current # 0
  BY <1>1, InHand DEF InServe
<1>7. ~Ledger!Logged(current)
  <2>1. \A k \in DOMAIN journal : steps[k].id < steps[Len(steps)].id
    BY <1>3 DEF BridgeInv, StepsInOrder
  <2>2. \A k \in DOMAIN journal : journal[k].id < current /\ current \in Nat
    BY <1>2, <1>3, <2>1, BridgeAssumption DEF BridgeInv, BridgeTypeOK
  <2> QED BY <2>2 DEF Ledger!Logged
<1>8. row.ok => (current \in performed \/ bill[current] > 0) /\ row.tokens = bill[current]
  <2>1. Len(steps) \in DOMAIN steps
    BY <1>3
  <2> QED BY <1>2, <1>3, <2>1 DEF LedgerInv, OkIsReal, BridgeInv, CallInHand, CostIsTold
<1>9. Ledger!Enter(row)
  BY <1>1, <1>2, <1>4, <1>5, <1>6, <1>7, <1>8 DEF Ledger!Enter, Open, Reported
<1> QED BY <1>9 DEF LedgerStep, Ledger!LedgerNext

\* The rest.
LEMMA StepMaps ==
  ASSUME BridgeInv, BridgeInv', LedgerInv, BridgeNext
  PROVE  LedgerStep
<1> USE BridgeAssumption DEF childVars, pipeVars, callVars, serverVars, stepVars, endVars
<1>1. CASE CallStep \/ Move \/ ReadLine \/ JournalStep
  BY <1>1, CallStepMaps, MoveMaps, ReadLineMaps, JournalStepMaps
<1>2. CASE OpenAndSpawn
  BY <1>2, LedgerStutters, OpenIsUntold DEF OpenAndSpawn, Open, InServe, Reported, LedgerStep
<1>3. CASE SendCall
  <2>1. current # 0 /\ Untried(current) /\ current \in 1..MaxCalls
    BY <1>3, InHand DEF SendCall, InServe, BridgeInv, CallInHand, BridgeTypeOK
  <2>2. ~Ledger!Left(current) /\ ~Ledger!Logged(current)
    BY <1>3, <2>1, StepsAreJournal, LoggedIsInJournal
       DEF SendCall, InServe, Untried, Ledger!Left, BridgeInv, BridgeTypeOK
  <2>3. Ledger!Send
    BY <1>3, <2>1, <2>2, OpenIsUntold DEF SendCall, Ledger!Send, Open, InServe, Reported
  <2> QED BY <2>3 DEF LedgerStep, Ledger!LedgerNext
<1>4. CASE Answer
  <2>1. current # 0 /\ Open /\ ~Reported /\ ~Reported'
    BY <1>4, InHand, OpenIsUntold DEF Answer, Open, InServe, Reported
  <2>2. Ledger!Left(current) => Ledger!Logged(current)
    BY <1>4, LeftIsTried, LoggedIsInJournal DEF Answer, BridgeInv, CallInHand, Untried, Tried
  <2>3. Open' \in BOOLEAN
    BY DEF Open, InServe
  <2>4. Ledger!PutDown
    BY <1>4, <2>1, <2>2, <2>3 DEF Answer, Ledger!PutDown, Open, Reported
  <2> QED BY <2>4 DEF LedgerStep, Ledger!LedgerNext
<1>5. CASE Terminate
  BY <1>5, LedgerStutters, OpenIsUntold DEF Terminate, Open, InServe, Reported, LedgerStep
<1>6. CASE Crash
  <2>1. ~Open' /\ ~Reported /\ ~Reported' /\ UNCHANGED <<heard, current, sent, performed, bill, journal>>
    BY <1>6, OpenIsUntold DEF Crash, Open, InServe, Reported
  <2>2. CASE Open
    <3>1. Ledger!Close
      BY <2>1, <2>2 DEF Ledger!Close, Open, Reported
    <3> QED BY <3>1 DEF LedgerStep, Ledger!LedgerNext
  <2>3. CASE ~Open
    BY <2>1, <2>3, LedgerStutters DEF LedgerStep
  <2> QED BY <2>2, <2>3
<1>7. ASSUME UNCHANGED <<parent, report, steps, current, sent, performed, bill, journal, heard>> PROVE LedgerStep
  BY <1>7 DEF Ledger!ledgerVars, InServe, LedgerStep
<1>8. CASE ChildGoes \/ Tick
  BY <1>7, <1>8 DEF ChildGoes, Die, SeeParentGone, Tick
<1>9. ASSUME NEW kind \in Kinds, NEW fits \in BOOLEAN, Ask(kind, fits) PROVE LedgerStep
  BY <1>7, <1>9 DEF Ask
<1>10. ASSUME NEW how \in {"completed", "failed"}, NEW fits \in BOOLEAN, Finish(how, fits) PROVE LedgerStep
  BY <1>7, <1>10 DEF Finish
<1>11. CASE Hear
  <2>1. /\ down = <<asked>> /\ current = 0 /\ asked \in 1..MaxCalls /\ heard.got < asked
        /\ heard' = [asked |-> asked, got |-> asked]
    BY <1>11 DEF Hear, BridgeInv, BridgeTypeOK, Ball
  <2>2. \A j \in 1..MaxCalls : Ledger!Left(j) => Ledger!Logged(j)
    BY <2>1, LeftIsTried, LoggedIsInJournal DEF BridgeInv, CallInHand
  <2>3. heard'.got = asked
    BY <2>1
  <2>4. Ledger!Learn(asked)
    BY <1>11, <2>1, <2>2, <2>3 DEF Hear, Ledger!Learn, InServe
  <2> QED BY <2>1, <2>4 DEF LedgerStep, Ledger!LedgerNext
<1>12. ASSUME NEW i \in sent, Perform(i) PROVE LedgerStep
  <2>1. Ledger!TakeEffect(i) /\ i \in 1..MaxCalls
    BY <1>12 DEF Perform, Ledger!TakeEffect, InServe, BridgeInv, BridgeTypeOK
  <2> QED BY <2>1 DEF LedgerStep, Ledger!LedgerNext
<1>13. CASE AskInVain
  BY <1>7, <1>13 DEF AskInVain
<1> QED BY <1>1, <1>2, <1>3, <1>4, <1>5, <1>6, <1>8, <1>9, <1>10, <1>11, <1>12, <1>13, StepsAre

(* An execution is a ledger of its calls: whatever dies, times out, is      *)
(* cancelled or cannot be written, a call leaves once, its row is there     *)
(* before its answer, and whoever is told is told of everything that left   *)
(* (runs.py:373-390, runner.py:204-258).                                    *)
THEOREM ExecutionImplementsLedger == BridgeSpec => ImplementsLedger
<1>1. BridgeInit => Ledger!LedgerInit
  BY DEF BridgeInit, Ledger!LedgerInit, InServe
<1>2. BridgeInv /\ BridgeInv' /\ LedgerInv /\ [BridgeNext]_bridgeVars => [Ledger!LedgerNext]_(Ledger!ledgerVars)
  <2>1. ASSUME UNCHANGED bridgeVars PROVE UNCHANGED Ledger!ledgerVars
    BY <2>1 DEF bridgeVars, childVars, pipeVars, callVars, serverVars, stepVars, endVars, Ledger!ledgerVars, InServe
  <2> QED BY <2>1, StepMaps DEF LedgerStep
<1> QED BY <1>1, <1>2, BridgeInvariant, LedgerInvAlways, PTL DEF BridgeSpec, ImplementsLedger, Ledger!LedgerSpec
=============================================================================
