------------------------- MODULE ConsumerRunProofs -------------------------
(***************************************************************************)
(* How often RedisConsumer executes a message and how long its loop lives, *)
(* for every number of messages and jobs, messages that share a job        *)
(* included, and every bound on faults, crashes and shutdowns.             *)
(***************************************************************************)
EXTENDS ConsumerProofs

-----------------------------------------------------------------------------
(* The frame: which messages the lists of the consumer task hold.  All of  *)
(* them were handed out; outside a walk the lists are empty; the message   *)
(* in hand has left the list, and in a batch no message is parsed twice.   *)

\* A message is in hand and may still be left without processing it.
AtDoor == Screening \ {"next"}

\* _process_message is past its early returns.
InProcess == InTry \union {"exec", "fin"}

\* No list of messages is being walked.
BetweenLists == Over \union {"off", "setup", "pending", "loop", "read"}

ListsHandedOut ==
  /\ delivered \subseteq 1 .. enqueued /\ pel \subseteq delivered
  /\ todo \subseteq delivered /\ batch \subseteq delivered /\ parsed \subseteq delivered
  /\ pc \in NeedsMsg => msg \in delivered
  /\ \A m \in Msgs : dpc[m] # "none" => m \in delivered

ListsWalked ==
  /\ pc \in BetweenLists => mode = "none" /\ todo = {} /\ batch = {}
  /\ pc = "got" => mode = "none" /\ batch = todo
  /\ mode # "batch" => parsed = {}
  /\ mode = "batch" => CanBatch /\ pc \in Screening \union {"bExec", "bRun"}
  /\ pc \in {"bExec", "bRun"} => mode = "batch" /\ todo \subseteq parsed
  /\ pc \in NeedsMsg => msg \notin todo
  /\ pc \in Screening => todo \intersect parsed = {}
  /\ pc \in AtDoor => msg \notin parsed

ListInv == ListsHandedOut /\ ListsWalked

\* At first there are no lists.
LEMMA ListInit == Init => ListInv
  BY DEF Init, ListInv, ListsHandedOut, ListsWalked, BetweenLists, Screening, AtDoor,
         NeedsMsg, InTry, Over

\* The calls in progress are left: the lists are gone with their frame.
LEMMA ListDrop ==
  ASSUME ListInv, DropFrame, pc' \in BetweenLists,
         delivered \subseteq delivered', delivered' \subseteq 1 .. enqueued,
         pel' \subseteq delivered', enqueued' = enqueued,
         \A m \in Msgs : dpc'[m] # "none" => dpc[m] # "none" \/ m \in delivered
  PROVE  ListInv'
  BY DEF DropFrame, ListInv, ListsHandedOut, ListsWalked, BetweenLists, Screening, AtDoor,
         NeedsMsg, InTry, Over

\* The task moves on with the lists as they are, within the checks of a
\* message, within _process_message, or away from it.
LEMMA ListMove ==
  ASSUME ListInv, UNCHANGED <<mode, msg, todo, batch, parsed, delivered, enqueued>>,
         pel' \subseteq pel,
         \A m \in Msgs : dpc'[m] # "none" => dpc[m] # "none" \/ m \in delivered,
         \/ pc' = pc
         \/ pc \in InProcess /\ pc' \in InProcess
         \/ pc \in AtDoor /\ pc' \in AtDoor
         \/ pc \in AtDoor \union InProcess /\ pc' = "next"
         \/ pc = "flag" /\ pc' = "exec" /\ mode # "batch"
         \/ pc \in BetweenLists /\ pc' \in BetweenLists
         \/ pc = "bExec" /\ pc' = "bRun"
  PROVE  ListInv'
  BY DEF ListInv, ListsHandedOut, ListsWalked, BetweenLists, Screening, AtDoor,
         NeedsMsg, InTry, Over, InProcess

\* An error that ends in consume_loop's handlers leaves no list.
LEMMA ListFaultRaised ==
  ASSUME ListInv, NEW K, FaultRaised(K)
  PROVE  ListInv'
<1>1. DropFrame /\ pc' \in {"loop", "crashed"}
  BY DEF FaultRaised, Raise
<1>2. UNCHANGED <<delivered, pel, enqueued, dpc>>
  BY DEF FaultRaised, aroundVars, cloudVars, dlvVars, redisVars
<1>. QED  BY <1>1, <1>2, ListDrop DEF BetweenLists, Over, ListInv, ListsHandedOut

\* An error inside _process_message leaves the lists as they are.
LEMMA ListFaultInside ==
  ASSUME ListInv, NEW K, FaultInTry(K) \/ FaultInHandler(K), pc \in InTry
  PROVE  ListInv'
<1>1. UNCHANGED <<mode, msg, todo, batch, parsed, delivered, pel, enqueued, dpc>>
  BY DEF FaultInTry, FaultInHandler, GoTo, otherVars, aroundVars, cloudVars, dlvVars,
         redisVars, frameVars
<1>2. pc' \in {"errChk", "fin"}
  BY DEF FaultInTry, FaultInHandler, GoTo
<1>. QED  BY <1>1, <1>2, ListMove DEF InProcess, InTry

\* Passing an await or writing a status there leaves the lists as they are.
LEMMA ListPass ==
  ASSUME ListInv, NEW p, NEW q, NEW s, Pass(p, q) \/ WriteStatus(p, s, q),
         \/ p \in InProcess /\ q \in InProcess
         \/ p \in AtDoor /\ q \in AtDoor \union {"next"}
         \/ p \in BetweenLists /\ q \in BetweenLists
         \/ p = "bExec" /\ q = "bRun"
  PROVE  ListInv'
<1>1. /\ pc = p /\ pc' = q
      /\ UNCHANGED <<mode, msg, todo, batch, parsed, delivered, pel, enqueued, dpc>>
  BY DEF Pass, WriteStatus, At, GoTo, otherVars, aroundVars, cloudVars, dlvVars,
         redisVars, frameVars
<1>. QED  BY <1>1, ListMove

\* setup, recover_pending and consume_loop: lists come from the pending
\* entries or from a read, and are walked from the front.
LEMMA ListLoopStep ==
  ASSUME TypeInv, ListInv, LoopStep
  PROVE  ListInv'
<1>. USE DEF BetweenLists, Over
<1>1. CASE Setup \/ LoopTest
  BY <1>1, ListPass, ListFaultRaised DEF Setup, LoopTest
<1>2. CASE FetchPending
  <2>1. CASE FaultRaised(ErrKinds)
    BY <2>1, ListFaultRaised
  <2>2. CASE ~FaultRaised(ErrKinds)
    <3>1. /\ pc = "pending" /\ pc' = "next" /\ mode' = "recover" /\ todo' \subseteq pel
          /\ UNCHANGED <<batch, parsed, delivered, pel, enqueued, dpc>>
      BY <1>2, <2>2
      DEF FetchPending, FirstOf, At, otherVars, aroundVars, cloudVars, dlvVars, redisVars
    <3>. QED
      BY <3>1
      DEF ListInv, ListsHandedOut, ListsWalked, Screening, AtDoor, NeedsMsg, InTry
  <2>. QED  BY <2>1, <2>2
<1>3. CASE NextMessage
  <2>1. pc = "next" /\ UNCHANGED <<delivered, pel, enqueued, dpc>>
    BY <1>3 DEF NextMessage, At, aroundVars, cloudVars, dlvVars, redisVars
  <2>2. ASSUME NEW m \in todo,
               msg' = m /\ todo' = todo \ {m},
               pc' = IF mode = "recover" THEN "xrange" ELSE ScreenFrom(m),
               UNCHANGED <<ctx, mode, batch, parsed, idle>>
        PROVE  ListInv'
    BY <2>1, <2>2
    DEF ScreenFrom, ListInv, ListsHandedOut, ListsWalked, Screening, AtDoor, NeedsMsg, InTry
  <2>3. CASE /\ mode = "batch" /\ todo' = parsed /\ pc' = "bExec"
             /\ UNCHANGED <<ctx, mode, msg, batch, parsed>>
    BY <2>1, <2>3
    DEF ListInv, ListsHandedOut, ListsWalked, Screening, AtDoor, NeedsMsg, InTry
  <2>4. CASE pc' = "loop" /\ DropFrame
    BY <2>1, <2>4, ListDrop DEF ListInv, ListsHandedOut
  <2>. QED  BY <1>3, <2>2, <2>3, <2>4 DEF NextMessage
<1>4. CASE FetchRecovered
  BY <1>4, ListPass, ListFaultRaised DEF FetchRecovered, ScreenFrom, AtDoor, Screening
<1>5. CASE ReadGroup
  <2>. DEFINE new == FirstOf(Unread, ReadCount)
  <2>1. new \subseteq 1 .. enqueued
    BY DEF FirstOf, Unread
  <2>2. /\ delivered \subseteq delivered' /\ delivered' \subseteq 1 .. enqueued
        /\ pel' \subseteq delivered'
    BY <1>5, <2>1 DEF ReadGroup, ListInv, ListsHandedOut
  <2>3. pc = "read" /\ UNCHANGED <<enqueued, dpc>>
    BY <1>5 DEF ReadGroup, At, aroundVars, cloudVars, dlvVars
  <2>4. CASE DropFrame /\ pc' \in {"loop", "crashed"}
    BY <2>2, <2>3, <2>4, ListDrop
  <2>5. CASE /\ todo' = new /\ batch' = new /\ pc' = "got"
             /\ new \subseteq delivered' /\ UNCHANGED <<mode, msg, parsed>>
    BY <2>2, <2>3, <2>5
    DEF ListInv, ListsHandedOut, ListsWalked, Screening, AtDoor, NeedsMsg, InTry
  <2>. QED  BY <1>5, <2>4, <2>5 DEF ReadGroup, Raise
<1>6. CASE Dispatch
  <2>1. /\ pc = "got"
        /\ UNCHANGED <<msg, todo, batch, parsed, delivered, pel, enqueued, dpc>>
    BY <1>6 DEF Dispatch, At, cloudVars, redisVars
  <2>2. \/ pc' = "next" /\ mode' = "single"
        \/ pc' = "next" /\ mode' = "batch" /\ CanBatch
        \/ todo = {} /\ pc' \in {"loop", "pending"} /\ mode' = mode
    BY <1>6 DEF Dispatch, AfterEmptyRead
  <2>. QED
    BY <2>1, <2>2
    DEF ListInv, ListsHandedOut, ListsWalked, Screening, AtDoor, NeedsMsg, InTry
<1>7. CASE DispatchRaises
  <2>1. DropFrame /\ pc' \in {"loop", "crashed"} /\ UNCHANGED <<delivered, pel, enqueued, dpc>>
    BY <1>7 DEF DispatchRaises, Raise, aroundVars, cloudVars, dlvVars, redisVars
  <2>. QED  BY <2>1, ListDrop DEF ListInv, ListsHandedOut
<1>. QED  BY <1>1, <1>2, <1>3, <1>4, <1>5, <1>6, <1>7 DEF LoopStep

\* The checks of a message: in a batch it joins the parsed ones at most once.
LEMMA ListScreenStep ==
  ASSUME TypeInv, ListInv, ScreenStep
  PROVE  ListInv'
<1>. USE DEF AtDoor, Screening
<1>1. CASE GetStatus
  BY <1>1, ListPass, ListFaultRaised DEF GetStatus
<1>2. CASE GetFlag
  <2>1. CASE FaultRaised(ErrKinds) \/ Pass("flag", "markEarly")
    BY <2>1, ListPass, ListFaultRaised
  <2>2. CASE /\ At("flag") /\ mode = "batch"
             /\ \/ pc' = "ackEarly" /\ UNCHANGED parsed
                \/ pc' = "next" /\ parsed' = parsed \union {msg}
             /\ UNCHANGED <<otherVars, ctx, exc, mode, msg, todo, batch, faults>>
    <3>1. pc = "flag" /\ UNCHANGED <<delivered, pel, enqueued, dpc>>
      BY <2>2 DEF At, otherVars, aroundVars, cloudVars, dlvVars, redisVars
    <3>. QED
      BY <2>2, <3>1 DEF ListInv, ListsHandedOut, ListsWalked, NeedsMsg, InTry, BetweenLists,
                        Over
  <2>3. CASE /\ At("flag") /\ mode # "batch"
             /\ GoTo("exec")
             /\ UNCHANGED <<aroundVars, redisVars, backoffVars, running, faults>>
    BY <2>3, ListMove DEF At, GoTo, frameVars, aroundVars, cloudVars, dlvVars, redisVars
  <2>. QED  BY <1>2, <2>1, <2>2, <2>3 DEF GetFlag
<1>3. CASE MarkEarly
  BY <1>3, ListPass, ListFaultRaised DEF MarkEarly
<1>4. CASE AckEarly
  <2>1. CASE FaultRaised({"other"})
    BY <2>1, ListFaultRaised
  <2>2. CASE ~FaultRaised({"other"})
    <3>1. /\ pc = "ackEarly" /\ pc' = "next" /\ pel' \subseteq pel
          /\ UNCHANGED <<mode, msg, todo, batch, parsed, delivered, enqueued, dpc>>
      BY <1>4, <2>2
      DEF AckEarly, SafeXAck, At, GoTo, frameVars, aroundVars, cloudVars, dlvVars
    <3>. QED  BY <3>1, ListMove
  <2>. QED  BY <2>1, <2>2
<1>. QED  BY <1>1, <1>2, <1>3, <1>4 DEF ScreenStep

\* _process_message leaves the list it was called from alone.
LEMMA ListProcessStep ==
  ASSUME TypeInv, ListInv, ProcessStep
  PROVE  ListInv'
<1>. USE DEF InProcess, InTry
<1>1. CASE MarkExecuting
  BY <1>1, ListPass, ListFaultRaised DEF MarkExecuting
<1>2. CASE ExecutorFinishes
  <2>1. CASE Pass("run", "errChk")
    BY <2>1, ListPass
  <2>2. CASE ~Pass("run", "errChk")
    <3>1. /\ pc = "run" /\ pc' = "chkRun"
          /\ UNCHANGED <<mode, msg, todo, batch, parsed, delivered, pel, enqueued, dpc>>
      BY <1>2, <2>2
      DEF ExecutorFinishes, At, GoTo, frameVars, cloudVars, dlvVars, redisVars
    <3>. QED  BY <3>1, ListMove
  <2>. QED  BY <2>1, <2>2
<1>3. CASE PollCancel \/ RequestRunnerCancel \/ ReapRunTask
  BY <1>3, ListPass, ListFaultInside DEF PollCancel, RequestRunnerCancel, ReapRunTask, At
<1>4. ASSUME NEW p \in InTry, NEW q \in InTry, CheckCancel(p, q)
      PROVE  ListInv'
  BY <1>4, ListPass, ListFaultInside DEF CheckCancel, At
<1>5. CASE MarkCompleted \/ CheckCancelOnError \/ MarkCancelled \/ MarkFailed
  BY <1>5, ListPass, ListFaultInside
  DEF MarkCompleted, CheckCancelOnError, MarkCancelled, MarkFailed, At
<1>6. CASE SendResult \/ SendError
  <2>1. /\ pc \in InTry /\ pc' \in {"fin", "errChk"}
        /\ UNCHANGED <<mode, msg, todo, batch, parsed, delivered, pel, enqueued, dpc>>
    BY <1>6
    DEF SendResult, SendError, At, GoTo, frameVars, cloudVars, dlvVars, redisVars
  <2>. QED  BY <2>1, ListMove
<1>7. CASE FinallyBlock
  <2>1. CASE FaultRaised({"other"})
    BY <2>1, ListFaultRaised
  <2>2. CASE ~FaultRaised({"other"})
    <3>1. /\ pc = "fin" /\ pel' \subseteq pel /\ UNCHANGED <<delivered, enqueued, dpc>>
      BY <1>7, <2>2 DEF FinallyBlock, SafeXAck, At, aroundVars, cloudVars, dlvVars
    <3>2. CASE GoTo("next")
      BY <3>1, <3>2, ListMove DEF GoTo, frameVars
    <3>3. CASE DropFrame /\ pc' \in {"loop", "crashed", "ended"}
      BY <3>1, <3>3, ListDrop DEF BetweenLists, Over, ListInv, ListsHandedOut
    <3>. QED  BY <1>7, <2>2, <3>2, <3>3 DEF FinallyBlock, Raise
  <2>. QED  BY <2>1, <2>2
<1>. QED
  BY <1>1, <1>2, <1>3, <1>4, <1>5, <1>6, <1>7 DEF ProcessStep

\* _process_batch walks the parsed messages, then hands all of them over or
\* starts again with the list as it was read.
LEMMA ListBatchStep ==
  ASSUME TypeInv, ListInv, BatchStep
  PROVE  ListInv'
<1>1. CASE BatchMarkExecuting
  <2>1. CASE FaultRaised({"other"})
    BY <2>1, ListFaultRaised
  <2>2. CASE ~FaultRaised({"other"})
    <3>1. /\ pc = "bExec" /\ todo' \subseteq todo
          /\ UNCHANGED <<pc, mode, msg, batch, parsed, delivered, pel, enqueued, dpc>>
      BY <1>1, <2>2 DEF BatchMarkExecuting, At, aroundVars, cloudVars, dlvVars
    <3>. QED
      BY <3>1
      DEF ListInv, ListsHandedOut, ListsWalked, Screening, AtDoor, NeedsMsg, InTry,
          BetweenLists, Over
  <2>. QED  BY <2>1, <2>2
<1>2. CASE BatchStart
  BY <1>2, ListPass DEF BatchStart
<1>3. CASE BatchSucceeds
  <2>1. DropFrame /\ pc' = "loop" /\ UNCHANGED <<delivered, pel, enqueued>>
    BY <1>3 DEF BatchSucceeds, cloudVars, redisVars
  <2>2. \A m \in Msgs : dpc'[m] # "none" => dpc[m] # "none" \/ m \in delivered
    BY <1>3 DEF BatchSucceeds, ListInv, ListsHandedOut
  <2>. QED  BY <2>1, <2>2, ListDrop DEF BetweenLists, ListInv, ListsHandedOut
<1>4. CASE BatchFallsBack
  <2>1. /\ pc = "bRun" /\ pc' = "next" /\ mode' = "single" /\ todo' = batch /\ parsed' = {}
        /\ UNCHANGED <<msg, batch, delivered, pel, enqueued, dpc>>
    BY <1>4 DEF BatchFallsBack, At, otherVars, aroundVars, cloudVars, dlvVars, redisVars
  <2>. QED
    BY <2>1
    DEF ListInv, ListsHandedOut, ListsWalked, Screening, AtDoor, NeedsMsg, InTry,
        BetweenLists, Over
<1>. QED  BY <1>1, <1>2, <1>3, <1>4 DEF BatchStep

\* A delivery of message m: what it leaves alone.
LEMMA DeliveryLeaves ==
  ASSUME TypeInv, NEW m \in Msgs, DeliveryStep(m)
  PROVE  /\ dpc[m] # "none" /\ pel' \subseteq pel
         /\ \A x \in Msgs : x # m => dpc'[x] = dpc[x]
         /\ UNCHANGED <<taskVars, cloudVars, lifeVars, backoffVars, delivered, runs, running>>
<1>1. /\ dpc[m] # "none" /\ pel' \subseteq pel
      /\ UNCHANGED <<taskVars, cloudVars, lifeVars, backoffVars, delivered, runs, running>>
  BY DEF DeliveryStep, DeliveryChecks, DeliveryMarks, DeliverySends, DeliveryAcks,
         DeliveryFrame, SafeXAck
<1>2. \A x \in Msgs : x # m => dpc'[x] = dpc[x]
  BY DEF DeliveryStep, DeliveryChecks, DeliveryMarks, DeliverySends, DeliveryAcks,
         DeliveryGoesTo, DeliveryRaises, TypeInv, TypeOK
<1>. QED  BY <1>1, <1>2

\* The deliveries do not touch the lists.
LEMMA ListDeliveryStep ==
  ASSUME TypeInv, ListInv, NEW m \in Msgs, DeliveryStep(m)
  PROVE  ListInv'
<1>1. /\ UNCHANGED <<pc, mode, msg, todo, batch, parsed, delivered, enqueued>>
      /\ pel' \subseteq pel /\ dpc[m] # "none"
      /\ \A x \in Msgs : x # m => dpc'[x] = dpc[x]
  BY DeliveryLeaves DEF taskVars, frameVars, cloudVars
<1>. QED  BY <1>1, ListMove

\* Shutdown, crash, restart and the cloud.
LEMMA ListOutsideStep ==
  ASSUME TypeInv, IdleInv, ListInv,
         \/ StopRequested \/ DrainStep \/ Exit \/ Crash \/ Boot \/ Enqueue
         \/ \E j \in Jobs : RequestCancel(j)
         \/ \E m \in Msgs : Trim(m)
         \/ UNCHANGED vars
  PROVE  ListInv'
<1>. USE DEF taskVars, frameVars, cloudVars, redisVars, dlvVars, BetweenLists, Over
<1>1. CASE StopRequested
  BY <1>1, ListMove DEF StopRequested
<1>2. CASE DrainStep
  <2>1. CancelConsumer
    BY <1>2 DEF DrainStep, DrainClean, DrainRaises, DrainTimesOut
  <2>2. /\ UNCHANGED <<delivered, enqueued>> /\ pel' \subseteq pel
        /\ \A m \in Msgs : dpc'[m] # "none" => dpc[m] # "none"
    BY <2>1 DEF CancelConsumer
  <2>3. \/ DropFrame /\ pc' = "ended"
        \/ /\ UNCHANGED frameVars
           /\ pc' = pc \/ (pc \in InProcess /\ pc' \in InProcess)
    BY <2>1 DEF CancelConsumer, InProcess, InTry
  <2>. QED  BY <2>2, <2>3, ListMove, ListDrop DEF ListInv, ListsHandedOut
<1>3. CASE Exit \/ Crash
  <2>1. DropFrame /\ pc' = "off" /\ UNCHANGED <<delivered, pel, enqueued>>
        /\ \A m \in Msgs : dpc'[m] = "none"
    BY <1>3 DEF Exit, Crash, ProcessDies
  <2>. QED  BY <2>1, ListDrop DEF ListInv, ListsHandedOut
<1>4. CASE Boot
  BY <1>4
  DEF Boot, IdleInv, Down, ListInv, ListsHandedOut, ListsWalked, Screening, AtDoor,
      NeedsMsg, InTry
<1>5. CASE Enqueue
  <2>1. /\ enqueued' = enqueued + 1 /\ enqueued \in Nat
        /\ UNCHANGED <<pc, mode, msg, todo, batch, parsed, delivered, pel, dpc>>
    BY <1>5 DEF Enqueue, CloudFrame, TypeInv, TypeOK
  <2>2. delivered \subseteq 1 .. enqueued'
    BY <2>1 DEF ListInv, ListsHandedOut
  <2>. QED  BY <2>1, <2>2 DEF ListInv, ListsHandedOut, ListsWalked
<1>6. CASE \/ \E j \in Jobs : RequestCancel(j)
           \/ \E m \in Msgs : Trim(m)
           \/ UNCHANGED vars
  BY <1>6, ListMove DEF RequestCancel, Trim, CloudFrame, vars, otherVars, aroundVars
<1>. QED  BY <1>1, <1>2, <1>3, <1>4, <1>5, <1>6

\* Every step keeps the invariant about the lists.
LEMMA ListInductive ==
  ASSUME TypeInv, IdleInv, ListInv, [Next]_vars
  PROVE  ListInv'
  BY ListLoopStep, ListScreenStep, ListProcessStep, ListBatchStep, ListDeliveryStep,
     ListOutsideStep
  DEF Next, ConsumerStep

\* The invariant about the lists holds throughout.
LEMMA ListCorrect == Spec => []ListInv
<1>1. Init => ListInv
  BY ListInit
<1>2. TypeInv /\ IdleInv /\ ListInv /\ [Next]_vars => ListInv'
  BY ListInductive
<1>. QED  BY <1>1, <1>2, TypeCorrect, IdleCorrect, PTL DEF Spec

-----------------------------------------------------------------------------
(* Results.  Every fault, crash and shutdown may cost one more execution.  *)
(*                                                                         *)
(* A message whose result is being reported may have run once more than    *)
(* has been paid for, any other pending message may not: the step from the *)
(* one to the other is a fault, a crash, or a shutdown that cuts the       *)
(* report.  The shutdown is counted when it is requested, so what may      *)
(* still run in the closing process has to make do with one less.          *)

Causes == faults + crashes + stops

Closing == sd \in {"draining", "joining"}

Due == IF Closing THEN Causes - 1 ELSE Causes

\* The executor has not returned yet for the message in hand, or has.
Unexecuted == AtDoor \union {"exec", "run", "hook", "reap"}
Executed == InProcess \ Unexecuted

InLine(m) ==
  \/ m \in todo \union parsed
  \/ mode = "batch" /\ m \in batch
  \/ pc \in Unexecuted /\ msg = m

Reporting(m) == (pc \in Executed /\ msg = m) \/ dpc[m] # "none"

Waiting(m) == m \in pel /\ ~Reporting(m)

\* This process may still ask Redis for messages.
ReadsAgain == pc \in {"setup", "pending", "read", "got"} \/ (pc = "loop" /\ running)

StopCounted ==
  /\ Closing => stops > 0 /\ ~running
  /\ sd = "up" => running

RunBound(m) ==
  /\ m \notin delivered => runs[m] = 0
  /\ InLine(m) => runs[m] <= Due
  /\ Reporting(m) => runs[m] <= Due + 1
  /\ Waiting(m) => runs[m] <= Causes /\ (ReadsAgain => runs[m] <= Due)
  /\ runs[m] <= Causes + 1

RunInv == StopCounted /\ \A m \in Msgs : RunBound(m)

\* At first nothing has run.
LEMMA RunInit == Init => RunInv
  BY DEF Init, RunInv, StopCounted, RunBound, InLine, Reporting, Waiting, Due, Causes, Closing,
         Unexecuted, Executed, InProcess, InTry, AtDoor, Screening

\* What is counted, and what is due while a shutdown is in progress.
LEMMA DueFacts ==
  ASSUME TypeInv, StopCounted
  PROVE  /\ Causes \in Nat /\ Due \in Nat
         /\ Closing => Causes = Due + 1
         /\ ~Closing => Causes = Due
  BY ConstantsAssumption DEF TypeInv, TypeOK, StopCounted, Due, Causes

\* A step that costs nothing: a message gets in line from the pending ones of
\* a process that still reads, or as a new one, and is reported once it ran.
LEMMA RunFree ==
  ASSUME TypeInv, RunInv, StopCounted', Causes' = Causes, Due' = Due,
         \A m \in Msgs :
           /\ runs'[m] = runs[m] \/ (InLine(m) /\ runs'[m] = runs[m] + 1 /\ ~InLine(m)'
                                      /\ Reporting(m)' /\ m \in delivered)
           /\ m \notin delivered' => m \notin delivered
           /\ InLine(m)' => InLine(m) \/ (Waiting(m) /\ ReadsAgain) \/ m \notin delivered
           /\ Reporting(m)' => Reporting(m) \/ InLine(m)
           /\ Waiting(m)' => \/ Waiting(m) \/ InLine(m) \/ m \notin delivered
                             \/ Reporting(m) /\ Closing /\ ~ReadsAgain',
         ReadsAgain' => ReadsAgain \/ ~Closing
  PROVE  RunInv'
<1>1. /\ Causes \in Nat /\ Due \in Nat
      /\ Closing => Causes = Due + 1
      /\ ~Closing => Causes = Due
  BY DueFacts DEF RunInv
<1>2. ASSUME NEW m \in Msgs
      PROVE  RunBound(m)'
  <2>1. runs[m] \in Nat /\ RunBound(m)
    BY DEF TypeInv, TypeOK, RunInv
  <2>2. CASE runs'[m] = runs[m]
    BY <1>1, <2>1, <2>2 DEF RunBound
  <2>3. CASE /\ InLine(m) /\ runs'[m] = runs[m] + 1 /\ ~InLine(m)'
             /\ Reporting(m)' /\ m \in delivered
    BY <1>1, <2>1, <2>3 DEF RunBound, Waiting
  <2>. QED  BY <2>2, <2>3
<1>. QED  BY <1>2 DEF RunInv

\* A step that pays for one more execution of every message it touches.
LEMMA RunPaid ==
  ASSUME TypeInv, RunInv, StopCounted', Causes' = Causes + 1, Due' = Due + 1,
         \A m \in Msgs :
           /\ runs'[m] = runs[m]
           /\ m \notin delivered' => m \notin delivered
           /\ InLine(m)' \/ Reporting(m)' \/ Waiting(m)'
                => InLine(m) \/ Reporting(m) \/ Waiting(m) \/ m \notin delivered
  PROVE  RunInv'
<1>1. /\ Causes \in Nat /\ Due \in Nat
      /\ Closing => Causes = Due + 1
      /\ ~Closing => Causes = Due
  BY DueFacts DEF RunInv
<1>2. ASSUME NEW m \in Msgs
      PROVE  RunBound(m)'
  <2>1. runs[m] \in Nat /\ RunBound(m)
    BY DEF TypeInv, TypeOK, RunInv
  <2>. QED  BY <1>1, <2>1 DEF RunBound
<1>. QED  BY <1>2 DEF RunInv

\* A Redis call that raises is counted.
LEMMA LoseCounts ==
  ASSUME TypeInv, NEW k, Lose(k)
  PROVE  faults' = faults + 1 /\ faults \in Nat
  BY ConstantsAssumption DEF Lose, TypeInv, TypeOK

\* A call of the task or of a delivery that succeeds costs nothing, one that
\* raises is counted.
LEMMA CallCounts ==
  ASSUME TypeInv, StopCounted, UNCHANGED <<lifeVars, running>>
  PROVE  /\ StopCounted'
         /\ faults' = faults => Causes' = Causes /\ Due' = Due
         /\ faults' = faults + 1 => Causes' = Causes + 1 /\ Due' = Due + 1
<1>1. faults \in Nat /\ crashes \in Nat /\ stops \in Nat
  BY ConstantsAssumption DEF TypeInv, TypeOK
<1>. QED  BY <1>1 DEF StopCounted, Due, Causes, Closing, lifeVars

\* The task moves on with its lists as they are.
LEMMA RunMove ==
  ASSUME TypeInv, RunInv, UNCHANGED <<runs, delivered, dpc, lifeVars, running, frameVars>>,
         pel' \subseteq pel, faults' = faults \/ faults' = faults + 1,
         pc' \in Unexecuted => pc \in Unexecuted,
         pc' \in Executed => pc \in Executed \union Unexecuted,
         pc \in Executed => pc' \in Executed,
         ReadsAgain' => ReadsAgain \/ ~Closing
  PROVE  RunInv'
<1>1. \A m \in Msgs :
        /\ runs'[m] = runs[m] /\ (m \notin delivered' => m \notin delivered)
        /\ InLine(m)' => InLine(m)
        /\ Reporting(m)' => Reporting(m) \/ InLine(m)
        /\ Waiting(m)' => Waiting(m)
  BY DEF InLine, Reporting, Waiting, frameVars
<1>. QED  BY <1>1, CallCounts, RunFree, RunPaid DEF RunInv

\* A step that raises in consume_loop at a cost.
LEMMA RunDrop ==
  ASSUME TypeInv, RunInv, UNCHANGED <<runs, delivered, pel, dpc, lifeVars, running>>,
         faults' = faults + 1, DropFrame, pc' \in {"loop", "crashed"}
  PROVE  RunInv'
<1>1. \A m \in Msgs : ~InLine(m)' /\ (Reporting(m)' => Reporting(m))
  BY DEF DropFrame, InLine, Reporting, Unexecuted, AtDoor, Screening, Executed, InProcess,
         InTry
<1>2. \A m \in Msgs : Waiting(m)' => Waiting(m) \/ Reporting(m)
  BY DEF Waiting
<1>. QED  BY <1>1, <1>2, CallCounts, RunPaid DEF RunInv

\* A Redis error that ends in consume_loop's handlers.
LEMMA RunFaultRaised ==
  ASSUME TypeInv, RunInv, NEW K, FaultRaised(K)
  PROVE  RunInv'
<1>1. PICK k : Lose(k) /\ Raise(k)
  BY DEF FaultRaised
<1>2. faults' = faults + 1
  BY <1>1, LoseCounts
<1>3. UNCHANGED <<runs, delivered, pel, dpc, lifeVars, running>>
  BY DEF FaultRaised, aroundVars, dlvVars, redisVars, ownVars
<1>4. DropFrame /\ pc' \in {"loop", "crashed"}
  BY <1>1 DEF Raise
<1>. QED  BY <1>2, <1>3, <1>4, RunDrop

\* Passing an await or writing a status there, and an error inside
\* _process_message.
LEMMA RunPass ==
  ASSUME TypeInv, RunInv, NEW p, NEW q, NEW s, NEW K,
         \/ Pass(p, q) \/ WriteStatus(p, s, q)
         \/ At(p) /\ FaultInTry(K) /\ q = "errChk"
         \/ At(p) /\ FaultInHandler(K) /\ q = "fin",
         q \in Unexecuted => p \in Unexecuted,
         q \in Executed => p \in Executed \union Unexecuted,
         p \in Executed => q \in Executed,
         q \notin {"setup", "pending", "loop", "read", "got"}
  PROVE  RunInv'
<1>1. faults' = faults \/ faults' = faults + 1
  BY LoseCounts DEF Pass, WriteStatus, SafeHSet, FaultInTry, FaultInHandler
<1>2. /\ pc = p /\ pc' = q
      /\ UNCHANGED <<runs, delivered, pel, dpc, lifeVars, running, frameVars>>
  BY DEF Pass, WriteStatus, FaultInTry, FaultInHandler, At, GoTo, otherVars, aroundVars,
         dlvVars, redisVars, ownVars
<1>3. ~ReadsAgain'
  BY <1>2 DEF ReadsAgain
<1>. QED  BY <1>1, <1>2, <1>3, RunMove

\* A step of the task that neither fails nor ends an execution: lists that
\* it makes or extends hold new messages, messages in line, or pending ones
\* of a process that still reads.
LEMMA RunList ==
  ASSUME TypeInv, RunInv, UNCHANGED <<runs, dpc, lifeVars, running, faults>>,
         delivered \subseteq delivered', pel' \subseteq pel \union (delivered' \ delivered),
         pc \notin Executed \/ pel' = pel \ {msg}, pc' \notin Executed,
         \A m \in Msgs :
           InLine(m)' => InLine(m) \/ (Waiting(m) /\ ReadsAgain) \/ m \notin delivered,
         ReadsAgain' => ReadsAgain \/ ~Closing
  PROVE  RunInv'
<1>1. \A m \in Msgs : Reporting(m)' => Reporting(m)
  BY DEF Reporting
<1>2. \A m \in Msgs : Waiting(m)' => Waiting(m) \/ m \notin delivered
  BY DEF Waiting, Reporting
<1>. QED  BY <1>1, <1>2, CallCounts, RunFree DEF RunInv

\* setup, recover_pending and consume_loop: a list holds what Redis has just
\* given out or still keeps as pending.
LEMMA RunLoopStep ==
  ASSUME TypeInv, IdleInv, ListInv, RunInv, LoopStep
  PROVE  RunInv'
<1>. USE DEF Unexecuted, Executed, InProcess, InTry, AtDoor, Screening
<1>1. CASE Setup
  <2>1. CASE FaultRaised(ErrKinds)
    BY <2>1, RunFaultRaised
  <2>2. CASE Pass("setup", "pending")
    BY <2>2, RunMove DEF Pass, At, GoTo, ReadsAgain, otherVars, aroundVars, dlvVars, redisVars,
                         ownVars
  <2>. QED  BY <1>1, <2>1, <2>2 DEF Setup
<1>2. CASE LoopTest
  <2>1. /\ pc = "loop" /\ pc' = (IF running THEN "read" ELSE "ended")
        /\ UNCHANGED <<runs, delivered, pel, dpc, lifeVars, running, frameVars, faults>>
    BY <1>2 DEF LoopTest, Pass, At, GoTo, otherVars, aroundVars, dlvVars, redisVars, ownVars
  <2>2. ReadsAgain' => ReadsAgain
    BY <2>1 DEF ReadsAgain
  <2>. QED  BY <2>1, <2>2, RunMove
<1>3. CASE FetchPending
  <2>1. CASE FaultRaised(ErrKinds)
    BY <2>1, RunFaultRaised
  <2>2. CASE ~FaultRaised(ErrKinds)
    <3>1. /\ pc = "pending" /\ pc' = "next" /\ mode' = "recover" /\ todo' \subseteq pel
          /\ UNCHANGED <<batch, parsed, delivered, pel, dpc, runs, lifeVars, running, faults>>
      BY <1>3, <2>2
      DEF FetchPending, FirstOf, At, otherVars, aroundVars, dlvVars, redisVars, ownVars
    <3>2. \A m \in Msgs : dpc[m] = "none"
      BY <3>1 DEF IdleInv, Owned, Apart, Over, ErrKinds
    <3>3. \A m \in Msgs : InLine(m)' => InLine(m) \/ (Waiting(m) /\ ReadsAgain)
      BY <3>1, <3>2 DEF InLine, Waiting, Reporting, ReadsAgain
    <3>4. ~ReadsAgain'
      BY <3>1 DEF ReadsAgain
    <3>. QED  BY <3>1, <3>3, <3>4, RunList
  <2>. QED  BY <2>1, <2>2
<1>4. CASE NextMessage
  <2>1. pc = "next" /\ UNCHANGED <<delivered, pel, dpc, runs, lifeVars, running, faults>>
    BY <1>4 DEF NextMessage, At, aroundVars, dlvVars, redisVars
  <2>2. \A m \in Msgs : InLine(m)' => InLine(m)
    <3>1. ASSUME NEW m \in todo,
                 msg' = m /\ todo' = todo \ {m},
                 UNCHANGED <<ctx, mode, batch, parsed, idle>>
          PROVE  \A x \in Msgs : InLine(x)' => InLine(x)
      BY <3>1 DEF InLine
    <3>2. CASE /\ todo' = parsed /\ pc' = "bExec"
               /\ UNCHANGED <<ctx, mode, msg, batch, parsed>>
      BY <3>2 DEF InLine
    <3>3. CASE pc' = "loop" /\ DropFrame
      BY <3>3 DEF InLine, DropFrame
    <3>. QED  BY <1>4, <3>1, <3>2, <3>3 DEF NextMessage
  <2>3. pc' \notin Executed /\ (ReadsAgain' => running)
    BY <1>4, <2>1 DEF NextMessage, ScreenFrom, ReadsAgain
  <2>. QED  BY <2>1, <2>2, <2>3, RunList DEF RunInv, StopCounted
<1>5. CASE FetchRecovered
  <2>1. CASE FaultRaised(ErrKinds)
    BY <2>1, RunFaultRaised
  <2>2. ASSUME NEW q \in {"next", "ackEarly", "status"}, Pass("xrange", q)
        PROVE  RunInv'
    BY <2>2, RunPass
  <2>. QED  BY <1>5, <2>1, <2>2 DEF FetchRecovered, ScreenFrom
<1>6. CASE ReadGroup
  <2>. DEFINE new == FirstOf(Unread, ReadCount)
  <2>1. new \intersect delivered = {}
    BY DEF FirstOf, Unread
  <2>2. pc = "read" /\ UNCHANGED <<runs, dpc, lifeVars, running>>
    BY <1>6 DEF ReadGroup, At, aroundVars, dlvVars, ownVars
  <2>3. /\ delivered \subseteq delivered' /\ pel' \subseteq pel \union (delivered' \ delivered)
    BY <1>6, <2>1 DEF ReadGroup
  <2>4. CASE \E k \in FaultKinds : Lose(k) /\ Raise(k)
    <3>1. PICK k : Lose(k) /\ Raise(k)
      BY <2>4
    <3>2. faults' = faults + 1
      BY <3>1, LoseCounts
    <3>3. DropFrame /\ pc' \in {"loop", "crashed"}
      BY <3>1 DEF Raise
    <3>4. \A m \in Msgs : ~InLine(m)' /\ (Reporting(m)' => Reporting(m))
      BY <2>2, <3>3 DEF DropFrame, InLine, Reporting
    <3>5. \A m \in Msgs : Waiting(m)' => Waiting(m) \/ Reporting(m) \/ m \notin delivered
      BY <2>3 DEF Waiting
    <3>. QED  BY <2>2, <2>3, <3>2, <3>4, <3>5, CallCounts, RunPaid DEF RunInv
  <2>5. CASE /\ todo' = new /\ batch' = new /\ pc' = "got"
             /\ UNCHANGED <<mode, msg, parsed, faults>>
    <3>1. \A m \in Msgs : InLine(m)' => InLine(m) \/ m \notin delivered
      BY <2>1, <2>5 DEF InLine
    <3>2. ReadsAgain
      BY <2>2 DEF ReadsAgain
    <3>. QED  BY <2>2, <2>3, <2>5, <3>1, <3>2, RunList
  <2>. QED  BY <1>6, <2>4, <2>5 DEF ReadGroup
<1>7. CASE Dispatch
  <2>1. /\ pc = "got" /\ pc' \in {"next", "loop", "pending"}
        /\ UNCHANGED <<msg, todo, batch, parsed, delivered, pel, dpc, runs, lifeVars, running,
                       faults>>
    BY <1>7 DEF Dispatch, AfterEmptyRead, At, redisVars, ownVars
  <2>2. batch = todo
    BY <2>1 DEF ListInv, ListsWalked
  <2>3. \A m \in Msgs : InLine(m)' => InLine(m)
    BY <2>1, <2>2 DEF InLine
  <2>4. ReadsAgain
    BY <2>1 DEF ReadsAgain
  <2>. QED  BY <2>1, <2>3, <2>4, RunList
<1>8. CASE DispatchRaises
  <2>1. /\ pc = "got" /\ DropFrame /\ pc' \in {"loop", "crashed"}
        /\ UNCHANGED <<delivered, pel, dpc, runs, lifeVars, running, faults>>
    BY <1>8 DEF DispatchRaises, Raise, At, aroundVars, dlvVars, redisVars, ownVars
  <2>2. \A m \in Msgs : ~InLine(m)'
    BY <2>1 DEF InLine, DropFrame
  <2>3. ReadsAgain
    BY <2>1 DEF ReadsAgain
  <2>. QED  BY <2>1, <2>2, <2>3, RunList
<1>. QED  BY <1>1, <1>2, <1>3, <1>4, <1>5, <1>6, <1>7, <1>8 DEF LoopStep

\* The checks of a message put nothing in line that was not there.
LEMMA RunScreenStep ==
  ASSUME TypeInv, RunInv, ScreenStep
  PROVE  RunInv'
<1>. USE DEF Unexecuted, Executed, InProcess, InTry, AtDoor, Screening
<1>1. CASE GetStatus \/ MarkEarly
  BY <1>1, RunPass, RunFaultRaised DEF GetStatus, MarkEarly
<1>2. CASE GetFlag
  <2>1. CASE FaultRaised(ErrKinds) \/ Pass("flag", "markEarly")
    BY <2>1, RunPass, RunFaultRaised
  <2>2. CASE /\ At("flag") /\ mode = "batch"
             /\ \/ pc' = "ackEarly" /\ UNCHANGED parsed
                \/ pc' = "next" /\ parsed' = parsed \union {msg}
             /\ UNCHANGED <<otherVars, ctx, exc, mode, msg, todo, batch, faults>>
    <3>1. /\ pc = "flag" /\ UNCHANGED <<delivered, pel, dpc, runs, lifeVars, running, faults>>
      BY <2>2 DEF At, otherVars, aroundVars, dlvVars, redisVars, ownVars
    <3>2. \A m \in Msgs : InLine(m)' => InLine(m)
      BY <2>2, <3>1 DEF InLine
    <3>3. ~ReadsAgain'
      BY <2>2 DEF ReadsAgain
    <3>. QED  BY <2>2, <3>1, <3>2, <3>3, RunList
  <2>3. CASE /\ At("flag") /\ GoTo("exec")
             /\ UNCHANGED <<aroundVars, redisVars, backoffVars, running, faults>>
    <3>1. /\ pc = "flag" /\ pc' = "exec"
          /\ UNCHANGED <<delivered, pel, dpc, runs, lifeVars, running, frameVars, faults>>
      BY <2>3 DEF At, GoTo, aroundVars, dlvVars, redisVars
    <3>. QED  BY <3>1, RunMove DEF ReadsAgain
  <2>. QED  BY <1>2, <2>1, <2>2, <2>3 DEF GetFlag
<1>3. CASE AckEarly
  <2>1. CASE FaultRaised({"other"})
    BY <2>1, RunFaultRaised
  <2>2. CASE ~FaultRaised({"other"})
    <3>1. /\ pc = "ackEarly" /\ pc' = "next" /\ pel' \subseteq pel
          /\ UNCHANGED <<delivered, dpc, runs, lifeVars, running, frameVars>>
      BY <1>3, <2>2 DEF AckEarly, SafeXAck, At, GoTo, aroundVars, dlvVars, ownVars
    <3>2. faults' = faults \/ faults' = faults + 1
      BY <1>3, <2>2, LoseCounts DEF AckEarly, SafeXAck
    <3>. QED  BY <3>1, <3>2, RunMove DEF ReadsAgain
  <2>. QED  BY <2>1, <2>2
<1>. QED  BY <1>1, <1>2, <1>3 DEF ScreenStep

\* _process_message: one execution for a message that is in line, and no way
\* back in line from a result but by an error that is counted.
LEMMA RunProcessStep ==
  ASSUME TypeInv, ListInv, RunInv, ProcessStep
  PROVE  RunInv'
<1>. USE DEF Unexecuted, Executed, InProcess, InTry, AtDoor, Screening
<1>1. CASE MarkExecuting
  BY <1>1, RunPass, RunFaultRaised DEF MarkExecuting
<1>2. CASE ExecutorFinishes
  <2>1. CASE Pass("run", "errChk")
    BY <2>1, RunPass
  <2>2. CASE ~Pass("run", "errChk")
    <3>1. /\ pc = "run" /\ pc' = "chkRun" /\ runs' = [runs EXCEPT ![msg] = @ + 1]
          /\ UNCHANGED <<delivered, pel, dpc, lifeVars, running, frameVars, faults>>
      BY <1>2, <2>2
      DEF ExecutorFinishes, At, GoTo, dlvVars, redisVars, ownVars
    <3>2. /\ msg \in Msgs /\ msg \in delivered /\ msg \notin todo /\ parsed = {}
          /\ mode # "batch"
      BY <3>1 DEF ListInv, ListsHandedOut, ListsWalked, NeedsMsg, TypeInv, FrameOK
    <3>3. \A m \in Msgs :
            /\ m # msg => runs'[m] = runs[m] /\ (InLine(m)' => InLine(m))
                           /\ (Reporting(m)' => Reporting(m)) /\ (Waiting(m)' => Waiting(m))
            /\ m = msg => InLine(m) /\ runs'[m] = runs[m] + 1 /\ ~InLine(m)' /\ Reporting(m)'
                          /\ ~Waiting(m)'
      BY <3>1, <3>2 DEF InLine, Reporting, Waiting, frameVars, TypeInv, TypeOK
    <3>4. ~ReadsAgain'
      BY <3>1 DEF ReadsAgain
    <3>. QED  BY <3>1, <3>2, <3>3, <3>4, CallCounts, RunFree DEF RunInv
  <2>. QED  BY <2>1, <2>2
<1>3. CASE PollCancel \/ RequestRunnerCancel \/ ReapRunTask
  BY <1>3, RunPass DEF PollCancel, RequestRunnerCancel, ReapRunTask
<1>4. ASSUME NEW p \in Executed, NEW q \in Executed, CheckCancel(p, q)
      PROVE  RunInv'
  BY <1>4, RunPass DEF CheckCancel
<1>5. CASE MarkCompleted \/ CheckCancelOnError \/ MarkCancelled \/ MarkFailed
  BY <1>5, RunPass DEF MarkCompleted, CheckCancelOnError, MarkCancelled, MarkFailed
<1>6. CASE SendResult \/ SendError
  <2>1. /\ pc \in Executed /\ pc' \in {"fin", "errChk"}
        /\ UNCHANGED <<runs, delivered, pel, dpc, lifeVars, running, frameVars, faults>>
    BY <1>6 DEF SendResult, SendError, At, GoTo, dlvVars, redisVars, ownVars
  <2>. QED  BY <2>1, RunMove DEF ReadsAgain
<1>7. CASE FinallyBlock
  <2>1. CASE FaultRaised({"other"})
    BY <2>1, RunFaultRaised
  <2>2. CASE ~FaultRaised({"other"})
    <3>1. /\ pc = "fin" /\ UNCHANGED <<delivered, dpc, runs, lifeVars, running>>
          /\ SafeXAck(msg)
          /\ \/ pc' = "next" /\ UNCHANGED frameVars
             \/ pc' \in {"loop", "crashed", "ended"} /\ DropFrame
      BY <1>7, <2>2 DEF FinallyBlock, Raise, At, GoTo, aroundVars, dlvVars
    <3>2. \A m \in Msgs : InLine(m)' => InLine(m)
      BY <3>1 DEF InLine, DropFrame, frameVars
    <3>3. pc' \notin Executed /\ (ReadsAgain' => running)
      BY <3>1 DEF ReadsAgain
    <3>4. CASE pel' = pel \ {msg} /\ faults' = faults
      BY <3>1, <3>2, <3>3, <3>4, RunList DEF RunInv, StopCounted
    <3>5. CASE faults' = faults + 1 /\ pel' \subseteq pel
      <4>1. \A m \in Msgs : /\ Reporting(m)' => Reporting(m)
                            /\ Waiting(m)' => Waiting(m) \/ Reporting(m)
        BY <3>1, <3>3, <3>5 DEF Reporting, Waiting
      <4>. QED  BY <3>1, <3>2, <3>5, <4>1, CallCounts, RunPaid DEF RunInv
    <3>. QED  BY <3>1, <3>4, <3>5, LoseCounts DEF SafeXAck
  <2>. QED  BY <2>1, <2>2
<1>. QED
  BY <1>1, <1>2, <1>3, <1>4, <1>5, <1>6, <1>7 DEF ProcessStep

\* _process_batch: one execution for each parsed message, whose results the
\* deliveries then report; or none, and all of them stay in line.
LEMMA RunBatchStep ==
  ASSUME TypeInv, IdleInv, ListInv, RunInv, BatchStep
  PROVE  RunInv'
<1>. USE DEF Unexecuted, Executed, InProcess, InTry, AtDoor, Screening
<1>1. CASE BatchMarkExecuting
  <2>1. CASE FaultRaised({"other"})
    BY <2>1, RunFaultRaised
  <2>2. CASE ~FaultRaised({"other"})
    <3>1. /\ pc = "bExec" /\ todo' \subseteq todo
          /\ UNCHANGED <<pc, mode, msg, batch, parsed, delivered, pel, dpc, runs, lifeVars,
                         running>>
      BY <1>1, <2>2 DEF BatchMarkExecuting, At, aroundVars, dlvVars, ownVars
    <3>2. faults' = faults \/ faults' = faults + 1
      BY <1>1, <2>2, LoseCounts DEF BatchMarkExecuting, SafeHSet
    <3>3. \A m \in Msgs : /\ InLine(m)' => InLine(m)
                          /\ Reporting(m)' => Reporting(m)
                          /\ Waiting(m)' => Waiting(m)
      BY <3>1 DEF InLine, Reporting, Waiting
    <3>4. ~ReadsAgain'
      BY <3>1 DEF ReadsAgain
    <3>. QED  BY <3>1, <3>2, <3>3, <3>4, CallCounts, RunFree, RunPaid DEF RunInv
  <2>. QED  BY <2>1, <2>2
<1>2. CASE BatchStart
  <2>1. Pass("bExec", "bRun")
    BY <1>2 DEF BatchStart
  <2>. QED  BY <2>1, RunPass
<1>3. CASE BatchSucceeds
  <2>1. /\ pc = "bRun" /\ pc' = "loop" /\ DropFrame
        /\ UNCHANGED <<delivered, pel, lifeVars, running, faults>>
    BY <1>3 DEF BatchSucceeds, At, redisVars
  <2>2. /\ \A m \in Msgs : ~InLine(m)'
        /\ ReadsAgain' => ~Closing
    BY <2>1 DEF InLine, DropFrame, ReadsAgain, RunInv, StopCounted
  <2>3. CASE /\ dpc' = [m \in Msgs |-> IF m \in parsed THEN "chk1" ELSE "none"]
             /\ runs' = [m \in Msgs |-> IF m \in parsed THEN runs[m] + 1 ELSE runs[m]]
    <3>1. \A m \in Msgs :
            /\ m \notin parsed => runs'[m] = runs[m] /\ ~Reporting(m)'
            /\ m \in parsed => /\ InLine(m) /\ m \in delivered /\ Reporting(m)'
                               /\ ~Waiting(m)' /\ runs'[m] = runs[m] + 1
      BY <2>1, <2>3 DEF InLine, Reporting, Waiting, ListInv, ListsHandedOut
    <3>2. \A m \in Msgs : Waiting(m)' => Waiting(m)
      BY <2>1 DEF Waiting, Reporting, IdleInv, Apart, Owned, Over, ErrKinds
    <3>. QED  BY <2>1, <2>2, <3>1, <3>2, CallCounts, RunFree DEF RunInv
  <2>4. CASE UNCHANGED <<dpc, runs>>
    BY <2>1, <2>2, <2>4, RunList
  <2>. QED  BY <1>3, <2>3, <2>4 DEF BatchSucceeds
<1>4. CASE BatchFallsBack
  <2>1. /\ pc = "bRun" /\ pc' = "next" /\ mode' = "single" /\ todo' = batch /\ parsed' = {}
        /\ UNCHANGED <<msg, batch, delivered, pel, dpc, runs, lifeVars, running, faults>>
    BY <1>4 DEF BatchFallsBack, At, otherVars, aroundVars, dlvVars, redisVars, ownVars
  <2>2. mode = "batch"
    BY <2>1 DEF ListInv, ListsWalked
  <2>3. \A m \in Msgs : InLine(m)' => InLine(m)
    BY <2>1, <2>2 DEF InLine
  <2>4. ~ReadsAgain'
    BY <2>1 DEF ReadsAgain
  <2>. QED  BY <2>1, <2>3, <2>4, RunList
<1>. QED  BY <1>1, <1>2, <1>3, <1>4 DEF BatchStep

\* A delivery costs nothing when it returns with its message acknowledged,
\* and is paid for when it fails.
LEMMA RunDeliveryStep ==
  ASSUME TypeInv, RunInv, NEW m \in Msgs, DeliveryStep(m)
  PROVE  RunInv'
<1>1. /\ dpc[m] # "none" /\ pel' \subseteq pel
      /\ \A x \in Msgs : x # m => dpc'[x] = dpc[x]
      /\ UNCHANGED <<pc, frameVars, lifeVars, delivered, runs, running>>
  BY DeliveryLeaves DEF taskVars
<1>2. \A x \in Msgs : /\ InLine(x)' => InLine(x)
                      /\ Reporting(x)' => Reporting(x)
                      /\ x # m => (Waiting(x)' => Waiting(x))
  BY <1>1 DEF InLine, Reporting, Waiting, frameVars
<1>3. ReadsAgain' => ReadsAgain
  BY <1>1 DEF ReadsAgain
<1>4. CASE faults' = faults /\ (dpc'[m] # "none" \/ m \notin pel')
  <2>1. ~Waiting(m)'
    BY <1>4 DEF Waiting, Reporting
  <2>. QED  BY <1>1, <1>2, <1>3, <1>4, <2>1, CallCounts, RunFree DEF RunInv
<1>5. CASE faults' = faults + 1
  <2>1. \A x \in Msgs : Waiting(x)' => Waiting(x) \/ Reporting(x)
    BY <1>1 DEF Waiting
  <2>. QED  BY <1>1, <1>2, <1>5, <2>1, CallCounts, RunPaid DEF RunInv
<1>6. ASSUME NEW K, DeliveryRaises(m, K)
      PROVE  faults' = faults + 1
  BY <1>6, LoseCounts DEF DeliveryRaises
<1>7. ASSUME NEW p, DeliveryGoesTo(m, p)
      PROVE  dpc'[m] = p
  BY <1>7 DEF DeliveryGoesTo, TypeInv, TypeOK
<1>8. \/ faults' = faults /\ (dpc'[m] # "none" \/ m \notin pel')
      \/ faults' = faults + 1
  <2>1. CASE DeliveryChecks(m)
    BY <1>6, <1>7, <2>1 DEF DeliveryChecks
  <2>2. CASE DeliveryMarks(m)
    BY <1>6, <1>7, <2>2, LoseCounts DEF DeliveryMarks, SafeHSet
  <2>3. CASE DeliverySends(m)
    BY <1>7, <2>3 DEF DeliverySends
  <2>4. CASE DeliveryAcks(m)
    BY <1>6, <2>4, LoseCounts DEF DeliveryAcks, SafeXAck
  <2>. QED  BY <2>1, <2>2, <2>3, <2>4 DEF DeliveryStep
<1>. QED  BY <1>4, <1>5, <1>8

\* A shutdown pays when it is requested, a crash when it happens.
LEMMA RunOutsideStep ==
  ASSUME TypeInv, IdleInv, RunInv,
         \/ StopRequested \/ DrainStep \/ Exit \/ Crash \/ Boot \/ Enqueue
         \/ \E j \in Jobs : RequestCancel(j)
         \/ \E m \in Msgs : Trim(m)
         \/ UNCHANGED vars
  PROVE  RunInv'
<1>. USE DEF Unexecuted, Executed, InProcess, InTry, AtDoor, Screening
<1>0. /\ faults \in Nat /\ crashes \in Nat /\ stops \in Nat
      /\ Causes \in Nat /\ Due \in Nat
      /\ Closing => Causes = Due + 1
      /\ ~Closing => Causes = Due
      /\ \A m \in Msgs : runs[m] \in Nat /\ RunBound(m)
  BY ConstantsAssumption, DueFacts DEF TypeInv, TypeOK, RunInv
<1>1. CASE StopRequested
  <2>1. /\ ~Closing /\ Closing' /\ stops' = stops + 1 /\ running' = FALSE
        /\ UNCHANGED <<pc, frameVars, pel, delivered, dpc, runs, faults, crashes>>
    BY <1>1 DEF StopRequested, Closing, taskVars, redisVars, dlvVars
  <2>2. StopCounted'
    BY <1>0, <1>1, <2>1 DEF StopCounted, StopRequested
  <2>3. Causes' = Causes + 1 /\ Due' = Due
    BY <1>0, <2>1 DEF Due, Causes
  <2>4. \A m \in Msgs : /\ InLine(m)' => InLine(m)
                        /\ Reporting(m)' => Reporting(m)
                        /\ Waiting(m)' => Waiting(m)
    BY <2>1 DEF InLine, Reporting, Waiting, frameVars
  <2>5. \A m \in Msgs : RunBound(m)'
    BY <1>0, <2>1, <2>3, <2>4 DEF RunBound
  <2>. QED  BY <2>2, <2>5 DEF RunInv
<1>2. CASE DrainStep
  <2>1. CancelConsumer /\ Closing /\ Closing' /\ sd' = "joining"
    BY <1>2 DEF DrainStep, DrainClean, DrainRaises, DrainTimesOut, DrainDue, Closing
  <2>2. UNCHANGED <<delivered, runs, faults, crashes, stops, running>> /\ pel' \subseteq pel
    BY <2>1 DEF CancelConsumer
  <2>3. StopCounted' /\ Causes' = Causes /\ Due' = Due
    BY <2>1, <2>2 DEF RunInv, StopCounted, Due, Causes
  <2>4. \A m \in Msgs : dpc'[m] # "none" => dpc[m] # "none"
    BY <2>1 DEF CancelConsumer
  <2>5. \/ pc' \in {"fin", "mark"} /\ pc \in InTry /\ UNCHANGED frameVars
        \/ pc' \in Over /\ pc' = pc /\ UNCHANGED frameVars
        \/ pc' = "ended" /\ DropFrame
    BY <2>1 DEF CancelConsumer
  <2>6. ~ReadsAgain'
    BY <2>5 DEF ReadsAgain, Over
  <2>7. \A m \in Msgs : /\ InLine(m)' => InLine(m)
                        /\ Reporting(m)' => Reporting(m) \/ InLine(m)
    BY <2>4, <2>5 DEF InLine, Reporting, frameVars, DropFrame, Over
  <2>8. \A m \in Msgs : Waiting(m)' => Waiting(m) \/ Reporting(m)
    BY <2>2 DEF Waiting
  <2>. QED  BY <2>1, <2>2, <2>3, <2>6, <2>7, <2>8, RunFree
<1>3. CASE Exit \/ Crash
  <2>1. /\ pc' = "off" /\ DropFrame /\ (\A m \in Msgs : dpc'[m] = "none")
        /\ UNCHANGED <<pel, delivered, runs, faults, stops>> /\ sd' = "down"
    BY <1>3 DEF Exit, Crash, ProcessDies, redisVars
  <2>2. StopCounted' /\ Due' = Causes'
    BY <2>1 DEF StopCounted, Due, Closing
  <2>3. \/ Closing /\ Causes' = Causes
        \/ Causes' = Causes + 1
    BY <1>0, <1>3, <2>1 DEF Exit, Crash, Causes, Closing
  <2>4. \A m \in Msgs : ~InLine(m)' /\ ~Reporting(m)' /\ (Waiting(m)' => Waiting(m) \/ Reporting(m))
    BY <2>1 DEF InLine, Reporting, Waiting, DropFrame
  <2>5. \A m \in Msgs : RunBound(m)'
    BY <1>0, <2>1, <2>2, <2>3, <2>4 DEF RunBound
  <2>. QED  BY <2>2, <2>5 DEF RunInv
<1>4. CASE Boot
  <2>1. /\ pc = "off" /\ pc' = "setup" /\ UNCHANGED frameVars /\ sd = "down" /\ sd' = "up"
        /\ UNCHANGED <<pel, delivered, dpc, runs, faults, stops, crashes>> /\ running' = TRUE
    BY <1>4 DEF Boot, redisVars, dlvVars, IdleInv, Down
  <2>2. StopCounted' /\ Causes' = Causes /\ Due' = Due /\ ~Closing
    BY <2>1 DEF StopCounted, Due, Causes, Closing
  <2>3. \A m \in Msgs : /\ InLine(m)' => InLine(m)
                        /\ Reporting(m)' => Reporting(m)
                        /\ Waiting(m)' => Waiting(m)
    BY <2>1 DEF InLine, Reporting, Waiting, frameVars
  <2>. QED  BY <2>1, <2>2, <2>3, RunFree
<1>5. CASE \/ Enqueue
           \/ \E j \in Jobs : RequestCancel(j)
           \/ \E m \in Msgs : Trim(m)
           \/ UNCHANGED vars
  <2>1. UNCHANGED <<pc, frameVars, runs, delivered, pel, dpc, lifeVars, running, faults>>
    BY <1>5
    DEF Enqueue, RequestCancel, Trim, CloudFrame, vars, otherVars, aroundVars, taskVars,
        redisVars, dlvVars, ownVars
  <2>2. ReadsAgain' => ReadsAgain
    BY <2>1 DEF ReadsAgain
  <2>. QED  BY <2>1, <2>2, RunMove
<1>. QED  BY <1>1, <1>2, <1>3, <1>4, <1>5

\* The invariant about results holds throughout.
LEMMA RunCorrect == Spec => []RunInv
<1>1. Init => RunInv
  BY RunInit
<1>2. TypeInv /\ IdleInv /\ ListInv /\ RunInv /\ [Next]_vars => RunInv'
  BY RunLoopStep, RunScreenStep, RunProcessStep, RunBatchStep, RunDeliveryStep,
     RunOutsideStep
  DEF Next, ConsumerStep
<1>. QED  BY <1>1, <1>2, TypeCorrect, IdleCorrect, ListCorrect, PTL DEF Spec

\* A message is executed a second time only for a cause: there are at most as
\* many extra results as failed Redis calls, crashes and shutdowns together,
\* whatever the webhooks, the executor and the batches do.
THEOREM RerunsHaveCauses == Spec => []RerunNeedsCause
<1>1. TypeInv /\ RunInv => RerunNeedsCause
  <2>. SUFFICES ASSUME TypeInv, RunInv, NEW m \in Msgs
                PROVE  runs[m] <= 1 + faults + crashes + stops
    BY DEF RerunNeedsCause
  <2>1. runs[m] \in Nat /\ faults \in Nat /\ crashes \in Nat /\ stops \in Nat
    BY ConstantsAssumption DEF TypeInv, TypeOK
  <2>2. runs[m] <= Causes + 1
    BY DEF RunInv, RunBound
  <2>. QED  BY <2>1, <2>2 DEF Causes
<1>. QED  BY <1>1, TypeCorrect, RunCorrect, PTL

-----------------------------------------------------------------------------
(* A job cancelled in the queue.  Past the check of the cancel flag there  *)
(* is no message whose job was asked to be cancelled before it was handed  *)
(* out, in the list of a batch no more than in hand.                       *)

TurnedAway(m) ==
  /\ JobOf[m] \in cancelFlag /\ runs[m] = 0
  /\ m \notin parsed
  /\ ~(msg = m /\ pc \in {"exec", "run"})

\* A step that executes nothing and admits no message.
LEMMA NothingAdmitted ==
  ASSUME NEW m \in Msgs, TurnedAway(m),
         cancelFlag \subseteq cancelFlag', runs' = runs, parsed' \subseteq parsed,
         pc' \in {"exec", "run"} => pc \in {"exec", "run"} /\ msg' = msg
  PROVE  TurnedAway(m)'
  BY DEF TurnedAway

\* A message that is turned away stays so.
LEMMA TurnedAwayForGood ==
  ASSUME NEW m \in Msgs, TypeInv, ListInv, TurnedAway(m), [Next]_vars
  PROVE  TurnedAway(m)'
<1>. USE DEF otherVars, aroundVars, cloudVars, frameVars
<1>1. CASE LoopStep
  <2>1. UNCHANGED <<runs, cancelFlag>> /\ parsed' \subseteq parsed
    BY <1>1
    DEF LoopStep, Setup, FetchPending, NextMessage, FetchRecovered, LoopTest, ReadGroup,
        Dispatch, DispatchRaises, Pass, GoTo, FaultRaised, Raise, DropFrame
  <2>2. pc' \notin {"exec", "run"}
    BY <1>1
    DEF LoopStep, Setup, FetchPending, NextMessage, FetchRecovered, LoopTest, ReadGroup,
        Dispatch, DispatchRaises, Pass, GoTo, FaultRaised, Raise, ScreenFrom, AfterEmptyRead
  <2>. QED  BY <2>1, <2>2, NothingAdmitted
<1>2. CASE GetFlag
  <2>1. UNCHANGED <<runs, cancelFlag>>
    BY <1>2 DEF GetFlag, Pass, FaultRaised
  <2>2. \/ parsed' \subseteq parsed /\ pc' \notin {"exec", "run"}
        \/ parsed' = parsed \union {msg} /\ ~Flagged(msg) /\ pc' = "next"
        \/ parsed' = parsed /\ ~Flagged(msg) /\ msg' = msg
    BY <1>2 DEF GetFlag, Pass, GoTo, FaultRaised, Raise, DropFrame
  <2>. QED  BY <2>1, <2>2 DEF TurnedAway, Flagged
<1>3. CASE GetStatus \/ MarkEarly \/ AckEarly
  <2>1. /\ UNCHANGED <<runs, cancelFlag>> /\ parsed' \subseteq parsed
        /\ pc' \notin {"exec", "run"}
    BY <1>3
    DEF GetStatus, MarkEarly, AckEarly, Pass, WriteStatus, GoTo, FaultRaised, Raise, DropFrame
  <2>. QED  BY <2>1, NothingAdmitted
<1>4. CASE ExecutorFinishes
  <2>1. /\ pc = "run" /\ pc' \in {"errChk", "chkRun"}
        /\ UNCHANGED <<cancelFlag, parsed, msg>>
        /\ runs' = runs \/ runs' = [runs EXCEPT ![msg] = @ + 1]
    BY <1>4 DEF ExecutorFinishes, Pass, At, GoTo
  <2>2. runs'[m] = runs[m]
    BY <2>1 DEF TurnedAway, TypeInv, TypeOK
  <2>. QED  BY <2>1, <2>2 DEF TurnedAway
<1>5. CASE MarkExecuting
  <2>1. /\ UNCHANGED <<runs, cancelFlag>> /\ parsed' \subseteq parsed
        /\ pc = "exec" /\ (pc' \in {"exec", "run"} => msg' = msg)
    BY <1>5 DEF MarkExecuting, WriteStatus, At, GoTo, FaultRaised, Raise, DropFrame
  <2>. QED  BY <2>1, NothingAdmitted
<1>6. CASE \/ PollCancel \/ RequestRunnerCancel \/ ReapRunTask
           \/ CheckCancel("chkRun", "chkDone") \/ CheckCancel("chkDone", "done")
           \/ CheckCancel("chkSend", "send") \/ CheckCancelOnError
           \/ MarkCompleted \/ MarkCancelled \/ MarkFailed
  <2>1. /\ UNCHANGED <<runs, cancelFlag, parsed>> /\ pc' \notin {"exec", "run"}
    BY <1>6
    DEF PollCancel, RequestRunnerCancel, ReapRunTask, CheckCancel, CheckCancelOnError,
        MarkCompleted, MarkCancelled, MarkFailed, Pass, WriteStatus, GoTo, FaultInTry,
        FaultInHandler
  <2>. QED  BY <2>1, NothingAdmitted
<1>7. CASE SendResult \/ SendError \/ FinallyBlock
  <2>1. /\ UNCHANGED <<runs, cancelFlag>> /\ parsed' \subseteq parsed
        /\ pc' \notin {"exec", "run"}
    BY <1>7
    DEF SendResult, SendError, FinallyBlock, GoTo, FaultRaised, Raise, DropFrame
  <2>. QED  BY <2>1, NothingAdmitted
<1>8. CASE BatchStep
  <2>1. /\ cancelFlag' = cancelFlag /\ parsed' \subseteq parsed
        /\ pc' \notin {"exec", "run"}
    BY <1>8
    DEF BatchStep, BatchMarkExecuting, BatchStart, BatchSucceeds, BatchFallsBack, Pass, At,
        GoTo, FaultRaised, Raise, DropFrame
  <2>2. runs'[m] = runs[m]
    BY <1>8
    DEF BatchStep, BatchMarkExecuting, BatchStart, BatchSucceeds, BatchFallsBack, Pass,
        FaultRaised, TurnedAway
  <2>. QED  BY <2>1, <2>2 DEF TurnedAway
<1>9. ASSUME NEW x \in Msgs, DeliveryStep(x)
      PROVE  TurnedAway(m)'
  <2>1. UNCHANGED <<runs, cancelFlag, parsed, pc, msg>>
    BY <1>9, DeliveryLeaves DEF taskVars
  <2>. QED  BY <2>1, NothingAdmitted
<1>10. CASE DrainStep
  <2>1. CancelConsumer
    BY <1>10 DEF DrainStep, DrainClean, DrainRaises, DrainTimesOut
  <2>2. /\ UNCHANGED <<runs, cancelFlag>> /\ parsed' \subseteq parsed
        /\ pc' \notin {"exec", "run"}
    BY <2>1 DEF CancelConsumer, DropFrame, Over
  <2>. QED  BY <2>2, NothingAdmitted
<1>11. CASE Exit \/ Crash
  <2>1. /\ UNCHANGED <<runs, cancelFlag>> /\ parsed' \subseteq parsed /\ pc' = "off"
    BY <1>11 DEF Exit, Crash, ProcessDies, DropFrame
  <2>. QED  BY <2>1, NothingAdmitted
<1>12. CASE StopRequested \/ Boot
  <2>1. /\ UNCHANGED <<runs, cancelFlag, parsed, msg>> /\ (pc' = pc \/ pc' = "setup")
    BY <1>12 DEF StopRequested, Boot, taskVars
  <2>. QED  BY <2>1, NothingAdmitted
<1>13. CASE \/ Enqueue
            \/ \E j \in Jobs : RequestCancel(j)
            \/ \E x \in Msgs : Trim(x)
            \/ UNCHANGED vars
  <2>1. /\ UNCHANGED <<runs, parsed, msg, pc>> /\ cancelFlag \subseteq cancelFlag'
    BY <1>13 DEF Enqueue, RequestCancel, Trim, CloudFrame, taskVars, vars
  <2>. QED  BY <2>1, NothingAdmitted
<1>. QED
  BY <1>1, <1>2, <1>3, <1>4, <1>5, <1>6, <1>7, <1>8, <1>9, <1>10, <1>11, <1>12, <1>13
  DEF Next, ConsumerStep, ScreenStep, ProcessStep

\* A job that the cloud asks to cancel before its message is handed out is
\* never executed, by no path of the code and after no crash or fallback.
THEOREM CancelledInQueueNeverRuns == Spec => CancelledWhileQueuedNeverRuns
<1>1. ASSUME NEW m \in Msgs
      PROVE  Spec => [](JobOf[m] \in cancelFlag /\ m \notin delivered => [](runs[m] = 0))
  <2>1. ListInv /\ RunInv /\ JobOf[m] \in cancelFlag /\ m \notin delivered => TurnedAway(m)
    BY DEF ListInv, ListsHandedOut, RunInv, RunBound, TurnedAway, NeedsMsg, InTry
  <2>2. TypeInv /\ ListInv /\ TurnedAway(m) /\ [Next]_vars => TurnedAway(m)'
    BY TurnedAwayForGood
  <2>3. TurnedAway(m) => runs[m] = 0
    BY DEF TurnedAway
  <2>. QED  BY <2>1, <2>2, <2>3, TypeCorrect, ListCorrect, RunCorrect, PTL DEF Spec
<1>. QED  BY <1>1 DEF CancelledWhileQueuedNeverRuns

-----------------------------------------------------------------------------
(* Errors in a row.  A connection that is lost is counted at most once in  *)
(* failures, an exception that waits for the finally block not yet; the    *)
(* error of a delivery can be raised again and again, but each time right  *)
(* after a read that has reset the count.                                  *)

LoopInv ==
  /\ failures <= faults
  /\ pc = "got" => failures = 0
  /\ exc \in ErrKinds => failures < faults
  /\ dtask = "conn" => faults > 0
  /\ LoopOutlivesErrors

\* At first nothing has failed.
LEMMA LoopInit == Init => LoopInv
  BY DEF Init, LoopInv, LoopOutlivesErrors, ErrKinds

\* A step that raises nothing in consume_loop.
LEMMA LoopKeep ==
  ASSUME TypeInv, LoopInv, TypeInv',
         failures' = failures \/ failures' = 0, faults' >= faults,
         pc' = "got" => failures' = 0,
         exc' \in ErrKinds => exc \in ErrKinds \/ faults' > faults,
         dtask' = "conn" => dtask = "conn" \/ faults' > faults,
         pc' = "crashed" => pc = "crashed" /\ ctx' = ctx
  PROVE  LoopInv'
  BY ConstantsAssumption DEF LoopInv, LoopOutlivesErrors, TypeInv, TypeOK

\* A step that raises in consume_loop an error not counted so far.
LEMMA LoopRaise ==
  ASSUME TypeInv, LoopInv, TypeInv', NEW k, Raise(k),
         faults' >= faults, k = "conn" => failures < faults',
         dtask' = "conn" => faults' > 0
  PROVE  LoopInv'
<1>1. failures \in Nat /\ faults \in Nat /\ faults' \in Nat /\ PowLimit \in Nat
  BY ConstantsAssumption DEF TypeInv, TypeOK
<1>2. pc' # "got" /\ exc' = "none"
  BY DEF Raise
<1>3. failures' <= faults'
  BY <1>1 DEF Raise, LoopInv
<1>4. LoopOutlivesErrors'
  BY <1>1 DEF Raise, LoopInv, LoopOutlivesErrors, BackoffOverflows, TypeInv, TypeOK
<1>. QED  BY <1>2, <1>3, <1>4 DEF LoopInv, ErrKinds

\* A Redis error that ends in consume_loop's handlers.
LEMMA LoopFaultRaised ==
  ASSUME TypeInv, LoopInv, TypeInv', NEW K, FaultRaised(K)
  PROVE  LoopInv'
<1>1. PICK k : Lose(k) /\ Raise(k)
  BY DEF FaultRaised
<1>2. faults' = faults + 1 /\ faults \in Nat /\ failures \in Nat
  BY <1>1, LoseCounts DEF TypeInv, TypeOK
<1>3. dtask' = dtask
  BY DEF FaultRaised, aroundVars, dlvVars
<1>. QED  BY <1>1, <1>2, <1>3, LoopRaise DEF LoopInv

\* The steps of the consumer task.
LEMMA LoopTaskStep ==
  ASSUME TypeInv, LoopInv, TypeInv', ConsumerStep
  PROVE  LoopInv'
<1>. USE DEF aroundVars, otherVars, backoffVars, dlvVars
<1>0. faults \in Nat /\ faults' \in Nat /\ failures \in Nat
  BY ConstantsAssumption DEF TypeInv, TypeOK
<1>1. ASSUME NEW p, NEW q, Pass(p, q), q \notin {"got", "crashed"}
      PROVE  LoopInv'
  BY <1>0, <1>1, LoopKeep DEF Pass, GoTo
<1>2. ASSUME NEW p, NEW s, NEW q, WriteStatus(p, s, q), q \notin {"got", "crashed"}
      PROVE  LoopInv'
  <2>1. faults' >= faults
    BY <1>0, <1>2, LoseCounts DEF WriteStatus, SafeHSet
  <2>. QED  BY <1>2, <2>1, LoopKeep DEF WriteStatus, GoTo
<1>3. ASSUME NEW K, FaultInTry(K) \/ FaultInHandler(K)
      PROVE  LoopInv'
  <2>1. faults' > faults
    BY <1>0, <1>3, LoseCounts DEF FaultInTry, FaultInHandler
  <2>. QED  BY <1>0, <1>3, <2>1, LoopKeep DEF FaultInTry, FaultInHandler, GoTo
<1>4. ASSUME NEW m, SafeXAck(m)
      PROVE  faults' >= faults
  BY <1>0, <1>4, LoseCounts DEF SafeXAck
<1>5. CASE ReadGroup
  <2>1. dtask' = dtask
    BY <1>5 DEF ReadGroup
  <2>2. CASE \E k \in FaultKinds : Lose(k) /\ Raise(k)
    <3>1. PICK k : Lose(k) /\ Raise(k)
      BY <2>2
    <3>2. faults' = faults + 1
      BY <3>1, LoseCounts
    <3>. QED  BY <1>0, <2>1, <3>1, <3>2, LoopRaise DEF LoopInv
  <2>3. CASE pc' = "got" /\ failures' = 0 /\ UNCHANGED <<exc, faults>>
    BY <1>0, <2>1, <2>3, LoopKeep
  <2>. QED  BY <1>5, <2>2, <2>3 DEF ReadGroup
<1>6. CASE DispatchRaises
  <2>1. /\ dtask \in ErrKinds /\ Raise(dtask) /\ UNCHANGED <<dtask, faults>>
        /\ failures = 0
    BY <1>6 DEF DispatchRaises, At, LoopInv
  <2>. QED  BY <1>0, <2>1, LoopRaise DEF LoopInv
<1>7. CASE FinallyBlock
  <2>1. CASE FaultRaised({"other"})
    BY <2>1, LoopFaultRaised
  <2>2. CASE ~FaultRaised({"other"})
    <3>1. dtask' = dtask /\ faults' >= faults
      BY <1>4, <1>7, <2>2 DEF FinallyBlock
    <3>2. CASE exc \in ErrKinds /\ Raise(exc)
      BY <1>0, <3>1, <3>2, LoopRaise DEF LoopInv
    <3>3. CASE exc' \notin ErrKinds /\ pc' \in {"next", "ended"} /\ failures' = failures
      BY <3>1, <3>3, LoopKeep
    <3>. QED  BY <1>7, <2>2, <3>2, <3>3 DEF FinallyBlock, GoTo, ErrKinds
  <2>. QED  BY <2>1, <2>2
<1>8. CASE LoopStep
  <2>1. CASE Setup \/ LoopTest \/ FetchRecovered
    BY <1>1, <2>1, LoopFaultRaised DEF Setup, LoopTest, FetchRecovered, ScreenFrom
  <2>2. CASE FetchPending
    BY <1>0, <2>2, LoopKeep, LoopFaultRaised DEF FetchPending
  <2>3. CASE NextMessage
    BY <1>0, <2>3, LoopKeep DEF NextMessage, ScreenFrom
  <2>4. CASE Dispatch
    BY <1>0, <2>4, LoopKeep DEF Dispatch, AfterEmptyRead
  <2>. QED  BY <1>5, <1>6, <1>8, <2>1, <2>2, <2>3, <2>4 DEF LoopStep
<1>9. CASE ScreenStep
  <2>1. CASE GetStatus \/ MarkEarly
    BY <1>1, <1>2, <2>1, LoopFaultRaised DEF GetStatus, MarkEarly
  <2>2. CASE GetFlag
    BY <1>0, <2>2, <1>1, LoopKeep, LoopFaultRaised DEF GetFlag, GoTo
  <2>3. CASE AckEarly
    BY <1>0, <1>4, <2>3, LoopKeep, LoopFaultRaised DEF AckEarly, GoTo
  <2>. QED  BY <1>9, <2>1, <2>2, <2>3 DEF ScreenStep
<1>10. CASE ProcessStep
  <2>1. CASE MarkExecuting \/ MarkCompleted \/ MarkCancelled \/ MarkFailed
    BY <1>2, <1>3, <2>1, LoopFaultRaised
    DEF MarkExecuting, MarkCompleted, MarkCancelled, MarkFailed
  <2>2. CASE ExecutorFinishes
    BY <1>0, <1>1, <2>2, LoopKeep DEF ExecutorFinishes, GoTo
  <2>3. CASE PollCancel \/ RequestRunnerCancel \/ ReapRunTask \/ CheckCancelOnError
    BY <1>1, <1>3, <2>3 DEF PollCancel, RequestRunnerCancel, ReapRunTask, CheckCancelOnError
  <2>4. ASSUME NEW p, NEW q \in InTry, CheckCancel(p, q)
        PROVE  LoopInv'
    BY <1>1, <1>3, <2>4 DEF CheckCancel, InTry
  <2>5. CASE SendResult \/ SendError
    BY <1>0, <2>5, LoopKeep DEF SendResult, SendError, GoTo
  <2>. QED
    BY <1>7, <1>10, <2>1, <2>2, <2>3, <2>4, <2>5 DEF ProcessStep, InTry
<1>11. CASE BatchStep
  <2>1. CASE BatchMarkExecuting
    <3>1. CASE FaultRaised({"other"})
      BY <3>1, LoopFaultRaised
    <3>2. CASE ~FaultRaised({"other"})
      <4>1. faults' >= faults
        BY <1>0, <2>1, <3>2, LoseCounts DEF BatchMarkExecuting, SafeHSet
      <4>. QED  BY <2>1, <3>2, <4>1, LoopKeep DEF BatchMarkExecuting, At
    <3>. QED  BY <3>1, <3>2
  <2>2. CASE BatchStart
    BY <1>1, <2>2 DEF BatchStart
  <2>3. CASE BatchSucceeds \/ BatchFallsBack
    BY <1>0, <2>3, LoopKeep DEF BatchSucceeds, BatchFallsBack
  <2>. QED  BY <1>11, <2>1, <2>2, <2>3 DEF BatchStep
<1>. QED  BY <1>8, <1>9, <1>10, <1>11 DEF ConsumerStep

\* A delivery counts the error that it leaves for the loop.
LEMMA LoopDeliveryStep ==
  ASSUME TypeInv, LoopInv, TypeInv', NEW m \in Msgs, DeliveryStep(m)
  PROVE  LoopInv'
<1>0. faults \in Nat
  BY ConstantsAssumption DEF TypeInv, TypeOK
<1>1. UNCHANGED <<pc, ctx, exc, failures>>
  BY DeliveryLeaves DEF taskVars, backoffVars
<1>2. ASSUME NEW K, DeliveryRaises(m, K)
      PROVE  faults' > faults
  BY <1>0, <1>2, LoseCounts DEF DeliveryRaises
<1>3. ASSUME NEW p, DeliveryGoesTo(m, p)
      PROVE  dtask' = "conn" => dtask = "conn"
  BY <1>3 DEF DeliveryGoesTo
<1>4. ASSUME NEW j, NEW s, SafeHSet(j, s)
      PROVE  faults' >= faults
  BY <1>0, <1>4, LoseCounts DEF SafeHSet
<1>5. ASSUME NEW x, SafeXAck(x)
      PROVE  faults' >= faults
  BY <1>0, <1>5, LoseCounts DEF SafeXAck
<1>6. \/ faults' > faults
      \/ faults' >= faults /\ (dtask' = "conn" => dtask = "conn")
  <2>1. CASE DeliveryChecks(m) \/ DeliverySends(m)
    BY <1>0, <1>2, <1>3, <2>1 DEF DeliveryChecks, DeliverySends
  <2>2. CASE DeliveryMarks(m)
    BY <1>2, <1>3, <1>4, <2>2 DEF DeliveryMarks
  <2>3. CASE DeliveryAcks(m)
    BY <1>2, <1>3, <1>5, <2>3 DEF DeliveryAcks
  <2>. QED  BY <2>1, <2>2, <2>3 DEF DeliveryStep
<1>7. faults' \in Nat
  BY ConstantsAssumption DEF TypeInv, TypeOK
<1>8. faults' >= faults
  BY <1>0, <1>6, <1>7
<1>. QED  BY <1>1, <1>6, <1>8, LoopKeep DEF LoopInv

\* Shutdown, crash, restart and the cloud raise nothing in consume_loop.
LEMMA LoopOutsideStep ==
  ASSUME TypeInv, LoopInv, TypeInv',
         \/ StopRequested \/ DrainStep \/ Exit \/ Crash \/ Boot \/ Enqueue
         \/ \E j \in Jobs : RequestCancel(j)
         \/ \E m \in Msgs : Trim(m)
         \/ UNCHANGED vars
  PROVE  LoopInv'
<1>. USE DEF taskVars, backoffVars, dlvVars
<1>0. faults \in Nat
  BY ConstantsAssumption DEF TypeInv, TypeOK
<1>1. CASE DrainStep
  <2>1. CancelConsumer /\ (dtask' = "conn" => dtask = "conn")
    BY <1>1 DEF DrainStep, DrainClean, DrainRaises, DrainTimesOut
  <2>2. UNCHANGED <<failures, faults, ctx>>
    BY <2>1 DEF CancelConsumer
  <2>3. /\ pc' = "crashed" => pc = "crashed"
        /\ pc' # "got" /\ (exc' \in ErrKinds => exc \in ErrKinds)
    BY <2>1 DEF CancelConsumer, ErrKinds, Over, InTry
  <2>. QED  BY <1>0, <2>1, <2>2, <2>3, LoopKeep
<1>2. CASE StopRequested \/ Boot
  BY <1>0, <1>2, LoopKeep DEF StopRequested, Boot, LoopInv
<1>3. CASE Exit \/ Crash
  BY <1>0, <1>3, LoopKeep DEF Exit, Crash, ProcessDies, ErrKinds
<1>4. CASE \/ Enqueue
           \/ \E j \in Jobs : RequestCancel(j)
           \/ \E m \in Msgs : Trim(m)
           \/ UNCHANGED vars
  BY <1>0, <1>4, LoopKeep
  DEF Enqueue, RequestCancel, Trim, CloudFrame, vars, otherVars, aroundVars, LoopInv
<1>. QED  BY <1>1, <1>2, <1>3, <1>4

\* Whatever fails in whatever order, once consume_loop has been entered its
\* task dies of nothing but more lost connections than the backoff can count.
THEOREM LoopSurvives == Spec => []LoopOutlivesErrors
<1>1. Init => LoopInv
  BY LoopInit
<1>2. TypeInv /\ LoopInv /\ [Next]_vars => LoopInv'
  BY TypeInductive, LoopTaskStep, LoopDeliveryStep, LoopOutsideStep DEF Next
<1>3. LoopInv => LoopOutlivesErrors
  BY DEF LoopInv
<1>. QED  BY <1>1, <1>2, <1>3, TypeCorrect, PTL DEF Spec

=============================================================================
