--------------------------- MODULE ActionQueueProofs ---------------------------
(***************************************************************************)
(* Proofs about ActionQueue for any number of applies.  OrderInv is the    *)
(* inductive invariant behind the order of tasks; it holds whatever time   *)
(* limits and restarts do.  QuietInv adds what holds as long as no helper  *)
(* outlives its task.                                                      *)
(***************************************************************************)
EXTENDS ActionQueue, WellFoundedInduction, TLAPS

OrderInv == TypeOK /\ Places /\ HelpersBelong /\ AnswersBelong /\ TasksInOrder

LEMMA InitOrder == Init => OrderInv
BY
     DEF Init, OrderInv, TypeOK, Places, HelpersBelong, AnswersBelong,
         TasksInOrder, Contents, NoOne, Over, Settled

(* A task whose turn it is has only tasks that are over before it: its     *)
(* predecessor is over, so, inductively, is everything before that.        *)
LEMMA TurnMeansAllOver ==
    ASSUME OrderInv, NEW r \in Requests, task[r] = "waiting", MyTurn(r)
    PROVE  \A q \in Requests : 0 < place[q] /\ place[q] < place[r] => Over(q)
<1> SUFFICES ASSUME NEW q \in Requests, 0 < place[q], place[q] < place[r]
             PROVE  Over(q)
  OBVIOUS
<1>1. place[q] \in Nat /\ place[r] \in Nat /\ enqueued \in Nat /\ place[r] <= enqueued
  BY DEF OrderInv, TypeOK, Places
<1>2. PICK p \in Requests : place[p] = place[r] - 1
  BY <1>1 DEF OrderInv, Places
<1>3. Over(p)
  BY <1>1, <1>2 DEF MyTurn
<1>4. CASE p = q
  BY <1>3, <1>4
<1>5. CASE p # q
  <2>1. place[q] < place[p]
    BY <1>1, <1>2, <1>5 DEF OrderInv, Places
  <2>2. QED
    BY <1>3, <2>1 DEF OrderInv, TasksInOrder, Over, Settled
<1>6. QED
  BY <1>4, <1>5

LEMMA StepOrder == OrderInv /\ [Next]_vars => OrderInv'
<1> SUFFICES ASSUME OrderInv, [Next]_vars PROVE OrderInv'
  OBVIOUS
<1> USE DEF OrderInv, Contents, NoOne
<1>1. ASSUME NEW r \in Requests, Enqueue(r) PROVE OrderInv'
  <2>1. /\ place' = [place EXCEPT ![r] = enqueued + 1] /\ enqueued' = enqueued + 1
        /\ task' = [task EXCEPT ![r] = "waiting"] /\ task[r] = "none" /\ place[r] = 0
        /\ UNCHANGED helper
    BY <1>1 DEF Enqueue, Places
  <2>2. TypeOK'
    BY <1>1 DEF Enqueue, TypeOK
  <2>3. Places'
    <3>1. \A q, s \in Requests : place'[q] = place'[s] /\ place'[s] > 0 => q = s
      BY <2>1 DEF TypeOK, Places
    <3>2. \A q \in Requests : (place'[q] = 0 <=> task'[q] = "none") /\ place'[q] <= enqueued'
      BY <2>1 DEF TypeOK, Places
    <3>3. ASSUME NEW n \in 1 .. enqueued' PROVE \E q \in Requests : place'[q] = n
      <4>1. CASE n = enqueued + 1
        BY <2>1, <4>1 DEF TypeOK
      <4>2. CASE n # enqueued + 1
        <5>1. PICK q \in Requests : place[q] = n
          BY <2>1, <3>3, <4>2 DEF TypeOK, Places
        <5>2. q # r
          BY <2>1, <3>3, <5>1
        <5>3. QED
          BY <2>1, <5>1, <5>2 DEF TypeOK
      <4>3. QED
        BY <4>1, <4>2
    <3>4. QED
      BY <3>1, <3>2, <3>3 DEF Places
  <2>4. HelpersBelong'
    BY <2>1 DEF HelpersBelong, TypeOK
  <2>5. TasksInOrder'
    BY <2>1 DEF TasksInOrder, TypeOK, Places, Over, Settled
  <2>6. AnswersBelong'
    BY <1>1, <2>1 DEF Enqueue, NodeFree, AnswersBelong, TypeOK, Settled
  <2>7. QED
    BY <2>2, <2>3, <2>4, <2>5, <2>6
<1>2. ASSUME NEW r \in Requests, Detect(r) PROVE OrderInv'
  <2>1. \A q \in Requests : 0 < place[q] /\ place[q] < place[r] => Over(q)
    BY <1>2, TurnMeansAllOver DEF Detect
  <2>2. TypeOK' /\ Places' /\ HelpersBelong'
    BY <1>2 DEF Detect, TypeOK, Places, HelpersBelong
  <2>3. TasksInOrder'
    BY <1>2, <2>1 DEF Detect, TypeOK, TasksInOrder, Over, Settled
  <2>4. AnswersBelong'
    BY <1>2 DEF Detect, NodeFree, AnswersBelong, TypeOK, Settled
  <2>5. QED
    BY <2>2, <2>3, <2>4
<1>3. ASSUME NEW r \in Requests, SpawnHelper(r) PROVE OrderInv'
  BY <1>3
     DEF NodeFree, SpawnHelper, TypeOK, Places, HelpersBelong,
         AnswersBelong, TasksInOrder, Over, Settled
<1>4. ASSUME NEW r \in Requests, Throw(r) PROVE OrderInv'
  BY <1>4
     DEF NodeFree, Throw, Settle, TypeOK, Places, HelpersBelong,
         AnswersBelong, TasksInOrder, Over, Settled
<1>5. ASSUME NEW r \in Requests, Return(r) PROVE OrderInv'
  BY <1>5
     DEF NodeFree, Return, Exited, Settle, TypeOK, Places, HelpersBelong,
         AnswersBelong, TasksInOrder, Over, Settled
<1>6. ASSUME NEW r \in Requests, ReadBackTimesOut(r) PROVE OrderInv'
  BY <1>6
     DEF NodeFree, ReadBackTimesOut, Settle, TypeOK, Places,
         HelpersBelong, AnswersBelong, TasksInOrder, Over, Settled
<1>7. ASSUME NEW r \in Requests, TimeOut(r) PROVE OrderInv'
  BY <1>7
     DEF NodeFree, TimeOut, HelperRuns, CutOff, Settle, TypeOK, Places,
         HelpersBelong, AnswersBelong, TasksInOrder,
              Over, Settled
<1>8. ASSUME NEW r \in Requests, Reply(r) PROVE OrderInv'
  BY <1>8, OriginalIsNoRequest
     DEF Reply, recordAudit, TypeOK, Places, HelpersBelong, AnswersBelong,
         TasksInOrder, Over, Settled
<1>9. ASSUME NEW r \in Requests, HelperStep(r) PROVE OrderInv'
  BY <1>9 DEF HelperStep, BackUp, Write, Keep, BreakOff, RollBack, CutOff, HelperRuns, TypeOK, Places, HelpersBelong, AnswersBelong,
              TasksInOrder, Over, Settled
<1>10. CASE Restart
  BY <1>10
     DEF Restart, HelperRuns, CutOff, TypeOK, Places, HelpersBelong,
         AnswersBelong, TasksInOrder, Over, Settled
<1>11. CASE UNCHANGED vars
  BY <1>11 DEF vars, TypeOK, Places, HelpersBelong, AnswersBelong, TasksInOrder, Over, Settled
<1>12. QED
  BY <1>1, <1>2, <1>3, <1>4, <1>5, <1>6, <1>7, <1>8, <1>9, <1>10, <1>11 DEF Next, NodeStep

(* The inductive invariant of the chain.                                   *)
THEOREM OrderHolds == Spec => []OrderInv
<1>1. QED
  BY InitOrder, StepOrder, PTL DEF Spec

(* The variables keep their types.                                         *)
THEOREM TypeCorrect == Spec => []TypeOK
<1>1. OrderInv => TypeOK
  BY DEF OrderInv
<1>2. QED
  BY <1>1, OrderHolds, PTL

(* For any number of applies, however many fail, hang, are killed or are   *)
(* forgotten in a restart: tasks begin in the order of their enqueue, each *)
(* after the one before it is over.                                        *)
THEOREM InOrder == Spec => []TasksInOrder
<1>1. OrderInv => TasksInOrder
  BY DEF OrderInv
<1>2. QED
  BY <1>1, OrderHolds, PTL

(* An audit entry that says success is about a kept change; this needs no  *)
(* assumption on time limits or restarts either.                           *)
SuccessInv == OrderInv /\ SuccessIsReal

THEOREM SuccessHolds == Spec => []SuccessIsReal
<1>1. Init => SuccessInv
  BY InitOrder DEF SuccessInv, SuccessIsReal, Init
<1>2. SuccessInv /\ [Next]_vars => SuccessInv'
  <2> SUFFICES ASSUME SuccessInv, [Next]_vars PROVE SuccessIsReal'
    BY StepOrder DEF SuccessInv
  <2> USE DEF SuccessInv, SuccessIsReal, OrderInv, TypeOK
  <2>1. ASSUME NEW r \in Requests, Reply(r) PROVE SuccessIsReal'
    BY <2>1 DEF Reply, recordAudit, HelpersBelong
  <2>2. ASSUME NEW r \in Requests, SpawnHelper(r) PROVE SuccessIsReal'
    BY <2>2 DEF SpawnHelper, HelpersBelong
  <2>3. ASSUME NEW r \in Requests, HelperStep(r) PROVE SuccessIsReal'
    BY <2>3 DEF HelperStep, BackUp, Write, Keep, BreakOff, RollBack, CutOff, HelperRuns
  <2>4. ASSUME NEW r \in Requests,
               Enqueue(r) \/ Detect(r) \/ Throw(r) \/ Return(r) \/ ReadBackTimesOut(r)
        PROVE  SuccessIsReal'
    BY <2>4 DEF Enqueue, Detect, Throw, Return, ReadBackTimesOut, Settle
  <2>5. ASSUME NEW r \in Requests, TimeOut(r) PROVE SuccessIsReal'
    BY <2>5 DEF TimeOut, Settle, HelperRuns, CutOff
  <2>6. CASE Restart
    BY <2>6 DEF Restart, HelperRuns, CutOff
  <2>7. CASE UNCHANGED vars
    BY <2>7 DEF vars
  <2>8. QED
    BY <2>1, <2>2, <2>3, <2>4, <2>5, <2>6, <2>7 DEF Next, NodeStep
<1>3. SuccessInv => SuccessIsReal
  BY DEF SuccessInv
<1>4. QED
  BY <1>1, <1>2, <1>3, PTL DEF Spec

--------------------------------------------------------------------------------
(* Two tasks that have both begun, neither over, are one.                  *)
LEMMA OneTaskBegun ==
    ASSUME OrderInv, NEW q \in Requests, NEW r \in Requests, InTask(q), InTask(r)
    PROVE  q = r
<1>1. place[q] \in Nat \ {0} /\ place[r] \in Nat \ {0}
  BY DEF OrderInv, TypeOK, Places, InTask
<1>2. ~(place[q] < place[r]) /\ ~(place[r] < place[q])
  BY <1>1 DEF OrderInv, TasksInOrder, InTask, Over, Settled
<1>3. QED
  BY <1>1, <1>2 DEF OrderInv, Places

(* As long as the kernel refuses no SIGTERM, no helper outlives its task.  *)
QuietInv == OrderInv /\ HelpersAwaited /\ DetectIsFresh

LEMMA QuietMeansOneHelper == QuietInv => OneHelperAtATime
BY OneTaskBegun DEF QuietInv, HelpersAwaited, OneHelperAtATime, InTask

LEMMA StepQuiet ==
    ASSUME "refused" \notin Timeouts, QuietInv, [Next]_vars
    PROVE  QuietInv'
<1> USE DEF QuietInv, HelpersAwaited, DetectIsFresh, HelperRuns
<1>1. OrderInv'
  BY StepOrder
<1>2. TypeOK /\ HelpersBelong
  BY DEF OrderInv
<1>3. ASSUME NEW r \in Requests,
             Enqueue(r) \/ Detect(r) \/ SpawnHelper(r) \/ Throw(r) \/ Return(r)
                \/ ReadBackTimesOut(r) \/ Reply(r)
      PROVE  HelpersAwaited' /\ DetectIsFresh'
  BY <1>2, <1>3 DEF Enqueue, Detect, SpawnHelper, Throw, Return, ReadBackTimesOut, Reply, recordAudit,
                    Settle, Exited, TypeOK, HelpersBelong
<1>4. ASSUME NEW r \in Requests, TimeOut(r) PROVE HelpersAwaited' /\ DetectIsFresh'
  BY <1>2, <1>4 DEF TimeOut, CutOff, Settle, TypeOK, HelpersBelong
<1>5. ASSUME NEW r \in Requests, HelperStep(r) PROVE HelpersAwaited' /\ DetectIsFresh'
  <2>1. InTask(r) /\ HelperRuns(r)
    BY <1>5 DEF HelperStep, BackUp, Write, Keep, BreakOff, RollBack, CutOff, HelperRuns, InTask
  <2>2. \A q \in Requests \ {r} : ~InTask(q) /\ ~HelperRuns(q)
    BY <2>1, OneTaskBegun DEF InTask
  <2>3. QED
    BY <1>2, <1>5, <2>1, <2>2
       DEF HelperStep, BackUp, Write, Keep, BreakOff, RollBack, CutOff, HelperRuns, TypeOK, InTask
<1>6. ASSUME Restart PROVE HelpersAwaited' /\ DetectIsFresh'
  BY <1>2, <1>6 DEF Restart, CutOff, TypeOK, HelpersBelong
<1>7. ASSUME UNCHANGED vars PROVE HelpersAwaited' /\ DetectIsFresh'
  BY <1>7 DEF vars
<1>8. QED
  BY <1>1, <1>3, <1>4, <1>5, <1>6, <1>7 DEF Next, NodeStep

THEOREM QuietHolds ==
    ASSUME "refused" \notin Timeouts
    PROVE  Spec => []QuietInv
<1>1. Init => QuietInv
  BY InitOrder DEF QuietInv, HelpersAwaited, DetectIsFresh, HelperRuns, Init
<1>2. QuietInv /\ [Next]_vars => QuietInv'
  BY StepQuiet
<1>3. QED
  BY <1>1, <1>2, PTL DEF Spec

(* The claim of queue.js:2-4, for any number of applies and any number of  *)
(* restarts, on the one condition that a helper never outlives the time    *)
(* limit of its task.                                                      *)
THEOREM OneHelper ==
    ASSUME "refused" \notin Timeouts
    PROVE  Spec => []OneHelperAtATime
<1>1. QED
  BY QuietHolds, QuietMeansOneHelper, PTL

(* On the same condition nothing changes between the detect of a task and  *)
(* the write of its helper.                                                *)
THEOREM DetectFresh ==
    ASSUME "refused" \notin Timeouts
    PROVE  Spec => []DetectIsFresh
<1>1. QuietInv => DetectIsFresh
  BY DEF QuietInv
<1>2. QED
  BY <1>1, QuietHolds, PTL

--------------------------------------------------------------------------------
(* A task that has settled is being answered or was answered.              *)
AnswersFollow == \A r \in Requests : Settled(r) => (turn = r <=> logged[r] = "none")

LiveInv == OrderInv /\ AnswersFollow

(* Each step keeps the answers in order.                                   *)
LEMMA StepAnswers == LiveInv /\ [Next]_vars => AnswersFollow'
<1> SUFFICES ASSUME LiveInv, [Next]_vars PROVE AnswersFollow'
  OBVIOUS
<1> USE DEF LiveInv, AnswersFollow, OrderInv, TypeOK, NodeFree, NoOne, Settled, Contents
<1>1. ASSUME NEW r \in Requests, Enqueue(r) PROVE AnswersFollow'
  BY <1>1 DEF Enqueue, AnswersBelong
<1>2. ASSUME NEW r \in Requests, Detect(r) \/ SpawnHelper(r) PROVE AnswersFollow'
  BY <1>2 DEF Detect, SpawnHelper
<1>3. ASSUME NEW r \in Requests, Throw(r) \/ Return(r) \/ ReadBackTimesOut(r) \/ TimeOut(r)
      PROVE  AnswersFollow'
  <2>1. /\ task[r] \in {"detected", "running"} /\ turn' = r /\ turn = Original
        /\ \E outcome \in {"fulfilled", "rejected"} : task' = [task EXCEPT ![r] = outcome]
        /\ \A q \in Requests : q # r => helper'[q] = helper[q]
        /\ UNCHANGED logged
    BY <1>3 DEF Throw, Return, ReadBackTimesOut, TimeOut, Settle
  <2>2. logged[r] = "none"
    BY <2>1 DEF AnswersBelong
  <2>3. QED
    BY <2>1, <2>2, OriginalIsNoRequest
<1>4. ASSUME NEW r \in Requests, Reply(r) PROVE AnswersFollow'
  BY <1>4, OriginalIsNoRequest DEF Reply, recordAudit
<1>5. ASSUME NEW r \in Requests, HelperStep(r) PROVE AnswersFollow'
  BY <1>5 DEF HelperStep, BackUp, Write, Keep, BreakOff, RollBack, CutOff, HelperRuns
<1>6. CASE Restart
  BY <1>6, OriginalIsNoRequest DEF Restart, AnswersBelong
<1>7. CASE UNCHANGED vars
  BY <1>7 DEF vars
<1>8. QED
  BY <1>1, <1>2, <1>3, <1>4, <1>5, <1>6, <1>7 DEF Next, NodeStep

(* The invariant behind the two.                                           *)
THEOREM LiveHolds == Spec => []LiveInv
<1>1. Init => LiveInv
  BY InitOrder DEF LiveInv, Init, AnswersFollow, Settled
<1>2. LiveInv /\ [Next]_vars => LiveInv'
  BY StepOrder, StepAnswers DEF LiveInv
<1>3. QED
  BY <1>1, <1>2, PTL DEF Spec

--------------------------------------------------------------------------------
(* No helper outlives its time limit: what the serial view needs.          *)
SerialInv == QuietInv /\ AnswersFollow /\ WritesAreWhole

LEMMA StepSerial ==
    ASSUME "refused" \notin Timeouts, SerialInv, [Next]_vars
    PROVE  SerialInv'
<1> USE DEF SerialInv, WritesAreWhole
<1>1. QuietInv' /\ AnswersFollow'
  BY StepQuiet, StepAnswers DEF LiveInv, QuietInv
<1>2. TypeOK /\ HelpersBelong /\ OrderInv /\ HelpersAwaited /\ DetectIsFresh
  BY DEF QuietInv, OrderInv
<1>3. ASSUME NEW r \in Requests, Detect(r) PROVE WritesAreWhole'
  BY <1>2, <1>3 DEF Detect, TypeOK, HelpersBelong
<1>4. ASSUME NEW r \in Requests,
             Enqueue(r) \/ SpawnHelper(r) \/ Throw(r) \/ Return(r) \/ ReadBackTimesOut(r) \/ Reply(r)
      PROVE  WritesAreWhole'
  BY <1>2, <1>4 DEF Enqueue, SpawnHelper, Throw, Return, ReadBackTimesOut, Reply, recordAudit,
                    Settle, TypeOK, HelpersBelong
<1>5. ASSUME NEW r \in Requests, TimeOut(r) PROVE WritesAreWhole'
  BY <1>2, <1>5 DEF TimeOut, Settle, CutOff, TypeOK
<1>6. ASSUME NEW r \in Requests, HelperStep(r) PROVE WritesAreWhole'
  <2>1. task[r] = "running" /\ HelperRuns(r)
    BY <1>2, <1>6 DEF HelperStep, BackUp, Write, Keep, BreakOff, RollBack, HelpersAwaited, HelperRuns
  <2>2. \A q \in Requests \ {r} : ~HelperRuns(q)
    BY <2>1, QuietMeansOneHelper DEF OneHelperAtATime
  <2>3. helper[r] \in {"started", "backedUp"} => seen[r] = conf
    BY <1>2 DEF DetectIsFresh
  <2>4. QED
    BY <1>2, <1>6, <2>1, <2>2, <2>3
       DEF HelperStep, BackUp, Write, Keep, BreakOff, RollBack, CutOff, TypeOK, HelperRuns
<1>7. ASSUME Restart PROVE WritesAreWhole'
  BY <1>2, <1>7 DEF Restart, CutOff, HelperRuns, TypeOK
<1>8. ASSUME UNCHANGED vars PROVE WritesAreWhole'
  BY <1>8 DEF vars
<1>9. QED
  BY <1>1, <1>3, <1>4, <1>5, <1>6, <1>7, <1>8 DEF Next, NodeStep

THEOREM SerialHolds ==
    ASSUME "refused" \notin Timeouts
    PROVE  Spec => []SerialInv
<1>1. Init => SerialInv
  BY InitOrder
     DEF SerialInv, QuietInv, HelpersAwaited, DetectIsFresh, WritesAreWhole, HelperRuns, Init,
         AnswersFollow, Settled
<1>2. SerialInv /\ [Next]_vars => SerialInv'
  BY StepSerial
<1>3. QED
  BY <1>1, <1>2, PTL DEF Spec

(* The content of the serial view while r's write is not yet validated,    *)
(* and while nothing is being validated.                                   *)
LEMMA ContentWhileWritten ==
    ASSUME OneHelperAtATime, NEW r \in Requests, helper[r] = "written"
    PROVE  ContentBar = backup[r]
BY DEF OneHelperAtATime, HelperRuns, ContentBar

LEMMA ContentOtherwise ==
    ASSUME \A r \in Requests : helper[r] # "written"
    PROVE  ContentBar = conf
BY DEF ContentBar

(* The content, the outcomes and what they are based on stay while no      *)
(* helper exits and none is at its write.                                  *)
LEMMA EffectStays ==
    ASSUME TypeOK, UNCHANGED <<backup, conf>>,
           \A r \in Requests : /\ helper'[r] = "written" <=> helper[r] = "written"
                               /\ helper'[r] \in Exited \/ helper[r] \in Exited
                                     => helper'[r] = helper[r] /\ seen'[r] = seen[r]
    PROVE  UNCHANGED <<ContentBar, OutcomeBar, BasisBar>>
<1>1. ContentBar' = ContentBar
  BY DEF ContentBar
<1>2. \A r \in Requests : OutcomeOf(helper'[r]) = OutcomeOf(helper[r])
  BY DEF OutcomeOf, Exited
<1>3. OutcomeBar' = OutcomeBar
  BY <1>2 DEF OutcomeBar, OutcomeOf
<1>4. BasisBar' = BasisBar
  BY DEF BasisBar
<1>5. QED
  BY <1>1, <1>3, <1>4

(* The steps that neither bring a helper on nor report.                    *)
LEMMA QuietStepStutters ==
    ASSUME SerialInv, NEW r \in Requests,
           Enqueue(r) \/ Detect(r) \/ SpawnHelper(r) \/ Throw(r) \/ Return(r) \/ ReadBackTimesOut(r)
    PROVE  UNCHANGED Serial!vars
<1>1. TypeOK /\ HelpersBelong
  BY DEF SerialInv, QuietInv, OrderInv
<1>2. UNCHANGED <<backup, conf, logged>>
  BY DEF Enqueue, Detect, SpawnHelper, Throw, Return, ReadBackTimesOut, Settle
<1>3. \A q \in Requests : /\ helper'[q] = "written" <=> helper[q] = "written"
                          /\ helper'[q] \in Exited \/ helper[q] \in Exited
                                => helper'[q] = helper[q] /\ seen'[q] = seen[q]
  BY <1>1 DEF Enqueue, Detect, SpawnHelper, Throw, Return, ReadBackTimesOut, Settle, TypeOK,
              HelpersBelong, Exited
<1>4. QED
  BY <1>1, <1>2, <1>3, EffectStays DEF Serial!vars

(* The audit entry is the report.                                          *)
LEMMA ReplyReports ==
    ASSUME SerialInv, NEW r \in Requests, Reply(r)
    PROVE  Serial!Report(r, "success") \/ Serial!Report(r, "failure")
<1>1. TypeOK /\ HelpersBelong /\ AnswersBelong /\ AnswersFollow
  BY DEF SerialInv, QuietInv, OrderInv
<1>2. UNCHANGED <<ContentBar, OutcomeBar, BasisBar>>
  BY <1>1, EffectStays DEF Reply
<1>3. logged[r] = "none"
  BY <1>1, OriginalIsNoRequest DEF Reply, AnswersBelong, AnswersFollow, NoOne
<1>4. CASE task[r] = "fulfilled"
  <2>1. OutcomeBar[r] = "done"
    BY <1>1, <1>4 DEF HelpersBelong, OutcomeBar, OutcomeOf
  <2>2. logged' = [logged EXCEPT ![r] = "success"]
    BY <1>4 DEF Reply, recordAudit
  <2>3. QED
    BY <1>2, <1>3, <2>1, <2>2 DEF Serial!Report
<1>5. CASE task[r] # "fulfilled"
  <2>1. logged' = [logged EXCEPT ![r] = "failure"]
    BY <1>5 DEF Reply, recordAudit
  <2>2. QED
    BY <1>2, <1>3, <2>1 DEF Serial!Report
<1>6. QED
  BY <1>4, <1>5

(* The helper of r exits, by itself or not, and leaves the file as it is   *)
(* or puts its backup back: one of the three effects of the serial view.   *)
LEMMA ExitTakesEffect ==
    ASSUME SerialInv, NEW r \in Requests, HelperRuns(r), NEW state \in Exited,
           helper' = [helper EXCEPT ![r] = state],
           UNCHANGED <<seen, backup, logged>>,
           \/ helper[r] = "written" /\ state \in {"ok", "kept"} /\ conf' = conf
           \/ helper[r] = "written" /\ state = "failed" /\ conf' = backup[r]
           \/ helper[r] # "written" /\ state = "failed" /\ conf' = conf
    PROVE  Serial!Next
<1>1. TypeOK /\ WritesAreWhole /\ HelpersAwaited /\ AnswersBelong /\ DetectIsFresh
        /\ OneHelperAtATime
  BY QuietMeansOneHelper DEF SerialInv, QuietInv, OrderInv
<1>2. logged[r] = "none"
  BY <1>1 DEF HelpersAwaited, AnswersBelong, Settled, TypeOK
<1>3. \A q \in Requests \ {r} : helper[q] # "written" /\ helper'[q] = helper[q]
  BY <1>1 DEF OneHelperAtATime, HelperRuns, TypeOK
<1>4. helper[r] \notin Exited /\ helper'[r] = state /\ state # "written"
  BY <1>1 DEF HelperRuns, Exited, TypeOK
<1>5. ContentBar' = conf'
  BY <1>3, <1>4 DEF ContentBar
<1>6. ContentBar = seen[r]
  <2>1. CASE helper[r] = "written"
    BY <1>1, <2>1, ContentWhileWritten DEF WritesAreWhole
  <2>2. CASE helper[r] # "written"
    <3>1. ContentBar = conf
      BY <1>3, <2>2, ContentOtherwise
    <3>2. seen[r] = conf
      BY <1>1, <2>2 DEF HelperRuns, DetectIsFresh
    <3>3. QED
      BY <3>1, <3>2
  <2>3. QED
    BY <2>1, <2>2
<1>7. OutcomeBar[r] = "none" /\ OutcomeBar' = [OutcomeBar EXCEPT ![r] = OutcomeOf(state)]
  BY <1>1, <1>3, <1>4 DEF OutcomeBar, OutcomeOf, Exited, TypeOK
<1>8. BasisBar' = [BasisBar EXCEPT ![r] = ContentBar]
  BY <1>1, <1>3, <1>4, <1>6 DEF BasisBar, TypeOK
<1>9. CASE helper[r] = "written" /\ state = "ok"
  <2>1. OutcomeOf(state) = "done" /\ ContentBar' = r
    BY <1>1, <1>5, <1>9 DEF OutcomeOf, WritesAreWhole
  <2>2. Serial!Succeed(r)
    BY <1>2, <1>7, <1>8, <2>1 DEF Serial!Succeed, Serial!TakeEffect
  <2>3. QED
    BY <2>2 DEF Serial!Next
<1>10. CASE helper[r] = "written" /\ state = "kept"
  <2>1. OutcomeOf(state) = "left" /\ ContentBar' = r
    BY <1>1, <1>5, <1>10 DEF OutcomeOf, WritesAreWhole
  <2>2. Serial!Leave(r)
    BY <1>2, <1>7, <1>8, <2>1 DEF Serial!Leave, Serial!TakeEffect
  <2>3. QED
    BY <2>2 DEF Serial!Next
<1>11. CASE state = "failed"
  <2>1. OutcomeOf(state) = "undone"
    BY <1>11 DEF OutcomeOf
  <2>2. ContentBar' = ContentBar
    BY <1>1, <1>3, <1>5, <1>11, ContentWhileWritten, ContentOtherwise
  <2>3. Serial!Fail(r)
    BY <1>2, <1>7, <1>8, <2>1, <2>2 DEF Serial!Fail, Serial!TakeEffect
  <2>4. QED
    BY <2>3 DEF Serial!Next
<1>12. QED
  BY <1>9, <1>10, <1>11 DEF Exited

LEMMA HelperStepSerial ==
    ASSUME SerialInv, NEW r \in Requests, HelperStep(r)
    PROVE  [Serial!Next]_Serial!vars
<1>1. TypeOK /\ WritesAreWhole /\ OneHelperAtATime
  BY QuietMeansOneHelper DEF SerialInv, QuietInv, OrderInv
<1>2. HelperRuns(r)
  BY DEF HelperStep, BackUp, Write, Keep, BreakOff, RollBack, HelperRuns
<1>3. \A q \in Requests \ {r} : helper[q] # "written"
  BY <1>1, <1>2 DEF OneHelperAtATime, HelperRuns
<1>4. CASE BackUp(r) \/ Write(r)
  <2>1. /\ UNCHANGED <<seen, logged>>
        /\ helper[r] \notin Exited /\ helper'[r] \notin Exited
        /\ \A q \in Requests \ {r} : helper'[q] = helper[q]
    BY <1>1, <1>4 DEF BackUp, Write, Exited, TypeOK
  <2>2. \A q \in Requests : OutcomeOf(helper'[q]) = OutcomeOf(helper[q])
    BY <2>1 DEF OutcomeOf, Exited
  <2>3. OutcomeBar' = OutcomeBar /\ BasisBar' = BasisBar
    BY <2>1, <2>2 DEF OutcomeBar, OutcomeOf, BasisBar
  <2>4. ContentBar = conf
    BY <1>3, <1>4 DEF BackUp, Write, ContentBar
  <2>5. ContentBar' = conf
    <3>1. CASE BackUp(r)
      BY <1>1, <1>3, <3>1 DEF BackUp, ContentBar, TypeOK
    <3>2. CASE Write(r)
      <4>1. helper'[r] = "written" /\ \A q \in Requests \ {r} : helper'[q] # "written"
        BY <1>1, <1>3, <3>2 DEF Write, TypeOK
      <4>2. ContentBar' = backup'[r]
        BY <4>1 DEF ContentBar
      <4>3. QED
        BY <1>1, <3>2, <4>2 DEF Write, WritesAreWhole
    <3>3. QED
      BY <1>4, <3>1, <3>2
  <2>6. QED
    BY <2>1, <2>3, <2>4, <2>5 DEF Serial!vars
<1>5. CASE Keep(r)
  BY <1>2, <1>5, ExitTakesEffect DEF Keep, Exited
<1>6. CASE BreakOff(r)
  BY <1>2, <1>6, ExitTakesEffect DEF BreakOff, Exited, CutOff
<1>7. CASE RollBack(r)
  BY <1>2, <1>7, ExitTakesEffect DEF RollBack, Exited
<1>8. QED
  BY <1>4, <1>5, <1>6, <1>7 DEF HelperStep

(* A time limit that is reached ends the helper where it is; so does a     *)
(* restart, with at most one helper under way.                             *)
LEMMA TimeOutSerial ==
    ASSUME "refused" \notin Timeouts, SerialInv, NEW r \in Requests, TimeOut(r)
    PROVE  Serial!Next
<1>1. /\ HelperRuns(r) /\ helper' = [helper EXCEPT ![r] = CutOff(helper[r])]
      /\ UNCHANGED <<seen, backup, conf, logged>>
  BY DEF TimeOut, Settle
<1>2. QED
  BY <1>1, ExitTakesEffect DEF Exited, CutOff

LEMMA RestartSerial ==
    ASSUME SerialInv, Restart
    PROVE  [Serial!Next]_Serial!vars
<1>1. TypeOK /\ OneHelperAtATime
  BY QuietMeansOneHelper DEF SerialInv, QuietInv, OrderInv
<1>2. UNCHANGED <<seen, backup, conf, logged>>
  BY DEF Restart
<1>3. ASSUME NEW r \in Requests, HelperRuns(r)
      PROVE  Serial!Next
  <2>1. helper' = [helper EXCEPT ![r] = CutOff(helper[r])]
    BY <1>1, <1>3 DEF Restart, OneHelperAtATime, TypeOK
  <2>2. QED
    BY <1>2, <1>3, <2>1, ExitTakesEffect DEF Exited, CutOff
<1>4. CASE \A r \in Requests : ~HelperRuns(r)
  <2>1. \A r \in Requests : helper'[r] = helper[r]
    BY <1>4 DEF Restart
  <2>2. QED
    BY <1>1, <1>2, <2>1, EffectStays DEF Serial!vars
<1>5. QED
  BY <1>3, <1>4

LEMMA StepImplements ==
    ASSUME "refused" \notin Timeouts, SerialInv, [Next]_vars
    PROVE  [Serial!Next]_Serial!vars
<1>1. ASSUME NEW r \in Requests, Reply(r) PROVE Serial!Next
  BY <1>1, ReplyReports DEF Serial!Next
<1>2. ASSUME UNCHANGED vars PROVE UNCHANGED Serial!vars
  BY <1>2 DEF vars, ContentBar, OutcomeBar, OutcomeOf, BasisBar, Serial!vars
<1>3. QED
  BY <1>1, <1>2, QuietStepStutters, HelperStepSerial, TimeOutSerial, RestartSerial
     DEF Next, NodeStep

(* As long as no helper outlives its time limit, any number of applies     *)
(* take effect one at a time, each decided on what it changes: the chain   *)
(* of queue.js and the helpers' rollback together, through failing         *)
(* commands, kills and restarts.  What SerialApplies excepts is excepted.  *)
THEOREM Implements ==
    ASSUME "refused" \notin Timeouts
    PROVE  Spec => ImplementsSerialApplies
<1>1. Init => Serial!Init
  BY DEF Init, Serial!Init, ContentBar, OutcomeBar, OutcomeOf, BasisBar, Exited
<1>2. SerialInv /\ [Next]_vars => [Serial!Next]_Serial!vars
  BY StepImplements
<1>3. QED
  BY <1>1, <1>2, SerialHolds, PTL DEF Spec, ImplementsSerialApplies, Serial!Spec

--------------------------------------------------------------------------------
(* What can be proved of progress.  Liveness itself is beyond the prover,  *)
(* but not what it rests on: as long as an apply waits, some task in front *)
(* of it, or its own, has a step to take; and no step is ever taken back,  *)
(* so that a task has only so many.                                        *)

(* The conditions under which Node or the helper goes on with r.           *)
CanGoOn(r) ==
    \/ turn = r
    \/ NodeFree /\ task[r] = "waiting" /\ MyTurn(r)
    \/ NodeFree /\ task[r] = "detected"
    \/ NodeFree /\ task[r] = "running" /\ helper[r] \in Exited
    \/ task[r] = "running" /\ HelperRuns(r)

(* Whoever waits is behind somebody who can go on, or can itself: a failed *)
(* apply does not wedge the queue (queue.js:10-11).                        *)
NobodyIsStuck ==
    \A r \in Requests : task[r] = "waiting" =>
        \E q \in Requests : 0 < place[q] /\ place[q] <= place[r] /\ CanGoOn(q)

(* How far the promise of r is, counting its answer, and how far its       *)
(* helper.                                                                 *)
StageOfTask(state, entry) ==
    CASE state = "none"                                              -> 0
      [] state = "waiting"                                           -> 1
      [] state = "detected"                                          -> 2
      [] state = "running"                                           -> 3
      [] state \in {"fulfilled", "rejected"} /\ entry = "none"       -> 4
      [] state \in {"fulfilled", "rejected"} /\ entry # "none"       -> 5
      [] state = "lost"                                              -> 6

StageOfHelper(state) ==
    CASE state = "none"                       -> 0
      [] state = "started"                    -> 1
      [] state = "backedUp"                   -> 2
      [] state = "written"                    -> 3
      [] state \in {"ok", "failed", "kept"} -> 4

TaskStage(r) == StageOfTask(task[r], logged[r])
HelperStage(r) == StageOfHelper(helper[r])

(* Each step of Node or a helper brings its task or helper further, and    *)
(* none brings any task back (catalogRoutes.js:44-87).                     *)
StagesOnlyRise ==
    [][\A r \in Requests :
          /\ TaskStage(r) <= TaskStage(r)' /\ HelperStage(r) <= HelperStage(r)'
          /\ NodeStep(r) => TaskStage(r) < TaskStage(r)'
          /\ HelperStep(r) => HelperStage(r) < HelperStage(r)']_vars

(* Every apply that has settled, well or not, has its audit entry by the   *)
(* time Node turns to anything else (catalogRoutes.js:62-83).              *)
THEOREM SettledIsAudited == Spec => [](NodeFree => \A r \in Requests : Settled(r) => logged[r] # "none")
<1>1. LiveInv => (NodeFree => \A r \in Requests : Settled(r) => logged[r] # "none")
  BY OriginalIsNoRequest DEF LiveInv, AnswersFollow, NodeFree, NoOne
<1>2. QED
  BY <1>1, LiveHolds, PTL

(* A set of naturals has a least member.                                   *)
LEMMA LeastPlace ==
    ASSUME NEW T \in SUBSET Nat, T # {}
    PROVE  \E n \in T : \A m \in T : n <= m
<1> DEFINE R == OpToRel(<, Nat)
<1>1. IsWellFoundedOn(R, Nat)
  BY NatLessThanWellFounded
<1>2. PICK n \in T : \A m \in T : <<m, n>> \notin R
  <2> HIDE DEF R
  <2>1. QED
    BY <1>1, WFMin
<1>3. \A m \in T : ~(m < n)
  BY <1>2 DEF OpToRel
<1>4. QED
  BY <1>3

(* The first of the tasks that are not over can go on, whoever it is.      *)
LEMMA FirstCanGoOn ==
    ASSUME LiveInv, NEW q \in Requests, task[q] # "none", ~Over(q) \/ turn = q,
           NodeFree \/ turn = q \/ (task[q] = "running" /\ HelperRuns(q)),
           \A p \in Requests : 0 < place[p] /\ place[p] < place[q] => Over(p)
    PROVE  CanGoOn(q)
<1> USE DEF LiveInv, OrderInv, TypeOK
<1>1. CASE turn = q
  BY <1>1 DEF CanGoOn
<1>2. CASE turn # q
  <2>1. task[q] \in {"waiting", "detected", "running"}
    BY <1>2 DEF Over, Settled
  <2>2. CASE task[q] = "waiting"
    <3>1. NodeFree
      BY <1>2, <2>2
    <3>2. \A p \in Requests : place[p] + 1 = place[q] /\ place[p] > 0 => Over(p)
      BY DEF Places
    <3>3. QED
      BY <2>2, <3>1, <3>2 DEF CanGoOn, MyTurn
  <2>3. CASE task[q] = "detected"
    BY <1>2, <2>3 DEF CanGoOn
  <2>4. CASE task[q] = "running"
    BY <1>2, <2>4 DEF CanGoOn, HelpersBelong, HelperRuns, Exited
  <2>5. QED
    BY <2>1, <2>2, <2>3, <2>4
<1>3. QED
  BY <1>1, <1>2

(* The safety part of EveryApplyIsAnswered, for any number of applies: an  *)
(* apply waits only behind a task that can go on, after any number of      *)
(* failed, hanging and lost ones (queue.js:10-11).                         *)
THEOREM NeverWedged == Spec => []NobodyIsStuck
<1>1. LiveInv => NobodyIsStuck
  <2> SUFFICES ASSUME LiveInv, NEW r \in Requests, task[r] = "waiting"
               PROVE  \E q \in Requests : 0 < place[q] /\ place[q] <= place[r] /\ CanGoOn(q)
    BY DEF NobodyIsStuck
  <2> USE DEF LiveInv, OrderInv, TypeOK
  <2>1. place[r] \in Nat \ {0}
    BY DEF Places
  <2>2. CASE turn # NoOne
    <3>1. turn \in Requests /\ Settled(turn)
      BY <2>2 DEF AnswersBelong, Contents, NoOne
    <3>2. place[turn] \in Nat \ {0}
      BY <3>1 DEF Places, Settled
    <3>3. ~(place[r] < place[turn])
      BY <2>1, <3>1 DEF TasksInOrder, Settled, Over
    <3>4. QED
      BY <2>1, <3>1, <3>2, <3>3 DEF CanGoOn
  <2>3. CASE turn = NoOne
    <3> DEFINE T == {place[q] : q \in {p \in Requests : 0 < place[p] /\ place[p] <= place[r] /\ ~Over(p)}}
    <3>1. T \in SUBSET Nat /\ place[r] \in T
      BY <2>1 DEF Over, Settled
    <3>2. \E n \in T : \A m \in T : n <= m
      <4> HIDE DEF T
      <4>1. QED
        BY <3>1, LeastPlace
    <3>3. PICK q \in Requests : /\ 0 < place[q] /\ place[q] <= place[r] /\ ~Over(q)
                                /\ \A m \in T : place[q] <= m
      BY <3>2
    <3>4. ASSUME NEW p \in Requests, 0 < place[p], place[p] < place[q] PROVE Over(p)
      <4>1. place[p] \in Nat /\ place[q] \in Nat /\ place[p] <= place[r]
        BY <2>1, <3>3, <3>4
      <4>2. ~(place[q] <= place[p])
        BY <3>4, <4>1
      <4>3. place[p] \notin T
        <5> HIDE DEF T
        <5>1. QED
          BY <3>3, <4>2
      <4>4. QED
        BY <3>4, <4>1, <4>3
    <3>5. task[q] # "none" /\ NodeFree
      BY <2>3, <3>3 DEF Places, NodeFree
    <3>6. QED
      BY <3>3, <3>4, <3>5, FirstCanGoOn
  <2>4. QED
    BY <2>2, <2>3
<1>2. QED
  BY <1>1, LiveHolds, PTL

(* The stages, state by state.                                             *)
LEMMA Stages ==
    /\ \A e : /\ StageOfTask("none", e) = 0 /\ StageOfTask("waiting", e) = 1
             /\ StageOfTask("detected", e) = 2 /\ StageOfTask("running", e) = 3
             /\ StageOfTask("lost", e) = 6
    /\ \A t \in {"fulfilled", "rejected"} : /\ StageOfTask(t, "none") = 4
                                           /\ \A e : e # "none" => StageOfTask(t, e) = 5
    /\ StageOfHelper("none") = 0 /\ StageOfHelper("started") = 1 /\ StageOfHelper("backedUp") = 2
    /\ StageOfHelper("written") = 3
    /\ \A h \in {"ok", "failed", "kept"} : StageOfHelper(h) = 4
<1>1. \A e : StageOfTask("none", e) = 0 /\ StageOfTask("waiting", e) = 1
  BY DEF StageOfTask
<1>2. \A e : StageOfTask("detected", e) = 2 /\ StageOfTask("running", e) = 3
  BY DEF StageOfTask
<1>3. \A e : StageOfTask("lost", e) = 6
  BY DEF StageOfTask
<1>4. \A t \in {"fulfilled", "rejected"} : StageOfTask(t, "none") = 4
  BY DEF StageOfTask
<1>5. \A t \in {"fulfilled", "rejected"} : \A e : e # "none" => StageOfTask(t, e) = 5
  BY DEF StageOfTask
<1>6. StageOfHelper("none") = 0 /\ StageOfHelper("started") = 1 /\ StageOfHelper("backedUp") = 2
  BY DEF StageOfHelper
<1>7. StageOfHelper("written") = 3 /\ \A h \in {"ok", "failed", "kept"} : StageOfHelper(h) = 4
  BY DEF StageOfHelper
<1>8. QED
  BY <1>1, <1>2, <1>3, <1>4, <1>5, <1>6, <1>7

(* No step of Node or of a helper is taken back or taken twice, whatever   *)
(* time limits and restarts do: a task has at most five steps of Node and  *)
(* four of its helper (catalogRoutes.js:44-87, sudoExec.js:24-50).         *)
THEOREM StepsAreFinite == Spec => StagesOnlyRise
<1>1. ASSUME LiveInv, [Next]_vars, NEW r \in Requests
      PROVE  /\ TaskStage(r) <= TaskStage(r)' /\ HelperStage(r) <= HelperStage(r)'
             /\ NodeStep(r) => TaskStage(r) < TaskStage(r)'
             /\ HelperStep(r) => HelperStage(r) < HelperStage(r)'
  <2> DEFINE t == TaskStage(r)
             t1 == StageOfTask(task'[r], logged'[r])
             h == HelperStage(r)
             h1 == StageOfHelper(helper'[r])
  <2> USE <1>1, Stages DEF LiveInv, OrderInv, TypeOK, TaskStage, HelperStage
  <2>0. t \in 0 .. 6 /\ h \in 0 .. 4
    BY DEF AnswersFollow
  <2>1. ASSUME NEW q \in Requests, Enqueue(q) PROVE t <= t1 /\ h <= h1
    BY <2>1, <2>0 DEF Enqueue
  <2>2. ASSUME NEW q \in Requests, NodeStep(q) PROVE t <= t1 /\ h <= h1 /\ (q = r => t < t1)
    <3>1. CASE Detect(q) \/ SpawnHelper(q)
      BY <3>1, <2>0 DEF Detect, SpawnHelper, HelpersBelong
    <3>2. CASE Throw(q) \/ Return(q) \/ ReadBackTimesOut(q) \/ TimeOut(q)
      <4>1. /\ task[q] \in {"detected", "running"}
            /\ \E outcome \in {"fulfilled", "rejected"} : task' = [task EXCEPT ![q] = outcome]
            /\ \/ helper' = helper
               \/ HelperRuns(q) /\ helper' = [helper EXCEPT ![q] = CutOff(@)]
            /\ logged[q] = "none" /\ logged' = logged
        BY <3>2 DEF AnswersBelong, Settled, Throw, Return, ReadBackTimesOut, TimeOut, Settle
      <4>2. t <= t1 /\ (q = r => t < t1)
        BY <4>1, <2>0
      <4>3. h <= h1
        BY <4>1, <2>0 DEF HelperRuns, CutOff
      <4>4. QED
        BY <4>2, <4>3
    <3>3. CASE Reply(q)
      <4>1. Settled(q) /\ logged[q] = "none"
        BY <3>3, OriginalIsNoRequest DEF Reply, AnswersBelong, AnswersFollow, NoOne
      <4>2. QED
        BY <3>3, <4>1, <2>0 DEF Reply, recordAudit, Settled
    <3>4. QED
      BY <2>2, <3>1, <3>2, <3>3 DEF NodeStep
  <2>3. ASSUME NEW q \in Requests, HelperStep(q) PROVE t <= t1 /\ h <= h1 /\ (q = r => h < h1)
    BY <2>3, <2>0 DEF HelperStep, BackUp, Write, Keep, BreakOff, RollBack, CutOff, HelperRuns
  <2>4. ASSUME Restart PROVE t <= t1 /\ h <= h1
    BY <2>4, <2>0 DEF Restart, HelperRuns, CutOff, AnswersBelong, Settled
  <2>5. ASSUME UNCHANGED vars PROVE t <= t1 /\ h <= h1
    BY <2>5, <2>0 DEF vars
  <2> HIDE DEF t, t1, h, h1
  <2>6. t <= t1 /\ h <= h1
    BY <1>1, <2>1, <2>2, <2>3, <2>4, <2>5 DEF Next
  <2>7. TaskStage(r)' = t1 /\ HelperStage(r)' = h1 /\ TaskStage(r) = t /\ HelperStage(r) = h
    BY DEF t, t1, h, h1, TaskStage, HelperStage, StageOfTask, StageOfHelper
  <2>8. QED
    BY <2>2, <2>3, <2>6, <2>7
<1>2. LiveInv /\ [Next]_vars =>
        [\A r \in Requests :
            /\ TaskStage(r) <= TaskStage(r)' /\ HelperStage(r) <= HelperStage(r)'
            /\ NodeStep(r) => TaskStage(r) < TaskStage(r)'
            /\ HelperStep(r) => HelperStage(r) < HelperStage(r)']_vars
  BY <1>1
<1>3. QED
  BY <1>2, LiveHolds, PTL DEF Spec, StagesOnlyRise
================================================================================
