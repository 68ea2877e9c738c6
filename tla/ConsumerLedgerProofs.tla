------------------------ MODULE ConsumerLedgerProofs ------------------------
(***************************************************************************)
(* RedisConsumer implements the job ledger, and settles and reports what   *)
(* it acknowledges, for every number of messages and jobs and every bound  *)
(* on faults, crashes and shutdowns, when every job has one message: its   *)
(* identifier is unique (docs/jobs/INDEX.md).  The consumer does not check *)
(* it, and with two messages for one job none of it holds: a failed job is *)
(* executed again from its second message, and in a batch the cancel flag  *)
(* may rise between the reports of the one and the other.                  *)
(***************************************************************************)
EXTENDS ConsumerRunProofs

\* Every job has one message.
DistinctJobs == \A m, n \in Msgs : JobOf[m] = JobOf[n] => m = n

-----------------------------------------------------------------------------
(* The status of a job in hand.  It is read once, when the message is      *)
(* looked at; what follows relies on it until the job is reported.         *)

St(m) == status[JobOf[m]]

\* The task is between the look at the status and the end of the execution.
Unfinished == {"flag", "markEarly", "exec", "run", "hook", "reap", "chkRun", "chkDone", "done"}

TaskOrder ==
  /\ pc \in Unfinished => St(msg) \notin Finished
  /\ pc \in InTry => St(msg) # "cancelled"
  /\ pc \in {"hook", "reap", "mark", "markEarly"} => Flagged(msg)
  /\ \A m \in parsed : St(m) \notin Finished

DeliveryOrder ==
  \A m \in Msgs :
    /\ dpc[m] \in {"chk1", "done"} => St(m) \notin Finished
    /\ dpc[m] \in {"chk2", "send", "mark"} => St(m) # "cancelled"
    /\ dpc[m] = "mark" => Flagged(m)

OrderInv == TaskOrder /\ DeliveryOrder

\* At first no job is in hand.
LEMMA OrderInit == Init => OrderInv
  BY DEF Init, OrderInv, TaskOrder, DeliveryOrder, Unfinished, InTry

\* While the task handles a message, or a batch, no delivery is in progress.
LEMMA TaskAlone ==
  ASSUME IdleInv, pc \in Busy \union Screening \union {"pending"}
  PROVE  \A m \in Msgs : dpc[m] = "none"
  BY DEF IdleInv, Apart, Owned, Busy, InTry, Screening, Over, ErrKinds

\* A step that writes no status.
LEMMA OrderKeep ==
  ASSUME OrderInv, status' = status, cancelFlag \subseteq cancelFlag', parsed' \subseteq parsed,
         \A m \in Msgs : dpc'[m] = dpc[m] \/ dpc'[m] = "none",
         pc' \in Unfinished \union InTry => msg' = msg,
         pc' \in Unfinished => pc \in Unfinished \/ St(msg) \notin Finished,
         pc' \in InTry => pc \in Unfinished \union InTry,
         pc' \in {"hook", "reap", "mark", "markEarly"} =>
           pc \in {"hook", "reap", "mark", "markEarly"} \/ Flagged(msg)
  PROVE  OrderInv'
<1>1. TaskOrder'
  BY DEF OrderInv, TaskOrder, St, Flagged, Unfinished, InTry, Finished
<1>2. DeliveryOrder'
  BY DEF OrderInv, DeliveryOrder, St, Flagged
<1>. QED  BY <1>1, <1>2 DEF OrderInv

\* The task writes the status of the job in hand, or tries to.
LEMMA OrderWrite ==
  ASSUME DistinctJobs, TypeInv, IdleInv, ListInv, OrderInv,
         NEW p \in AtDoor \union InProcess, NEW s \in States, NEW q,
         q \in Unfinished => p \in Unfinished /\ s \notin Finished,
         q \in InTry => p \in Unfinished \union InTry /\ s # "cancelled",
         q \notin {"hook", "reap", "mark", "markEarly"},
         WriteStatus(p, s, q)
  PROVE  OrderInv'
<1>. USE DEF AtDoor, InProcess, InTry, Screening
<1>1. /\ pc = p /\ pc' = q /\ UNCHANGED <<msg, parsed, dpc, cancelFlag>>
      /\ status' \in {status, [status EXCEPT ![JobOf[msg]] = s]}
  BY DEF WriteStatus, SafeHSet, At, GoTo, frameVars, aroundVars, dlvVars, cloudVars, job
<1>2. msg \in Msgs /\ msg \notin parsed /\ (\A m \in Msgs : JobOf[m] \in Jobs)
  BY <1>1, ConstantsAssumption
  DEF ListInv, ListsWalked, TypeInv, FrameOK, NeedsMsg
<1>3. \A m \in Msgs : dpc[m] = "none"
  BY <1>1, TaskAlone DEF Busy
<1>4. \A m \in Msgs : m # msg => St(m)' = St(m)
  BY <1>1, <1>2 DEF St, DistinctJobs, TypeInv, TypeOK
<1>5. St(msg)' \in {St(msg), s}
  BY <1>1, <1>2 DEF St, TypeInv, TypeOK
<1>6. TaskOrder'
  <2>1. \A m \in parsed' : m \in Msgs /\ m # msg /\ m \in parsed
    BY <1>1, <1>2 DEF TypeInv, TypeOK
  <2>2. \A m \in parsed' : St(m)' \notin Finished
    BY <1>4, <2>1 DEF OrderInv, TaskOrder
  <2>. QED  BY <1>1, <1>5, <2>2 DEF OrderInv, TaskOrder, Unfinished, Finished
<1>7. DeliveryOrder'
  BY <1>1, <1>3 DEF DeliveryOrder
<1>. QED  BY <1>6, <1>7 DEF OrderInv

\* An error that ends in consume_loop's handlers, and a step that only moves
\* on or fails inside _process_message.
LEMMA OrderFaultRaised ==
  ASSUME OrderInv, NEW K, FaultRaised(K)
  PROVE  OrderInv'
<1>1. UNCHANGED <<status, cancelFlag, dpc>> /\ parsed' = {} /\ pc' \in {"loop", "crashed"}
  BY DEF FaultRaised, Raise, DropFrame, aroundVars, cloudVars, dlvVars, redisVars
<1>. QED  BY <1>1, OrderKeep DEF Unfinished, InTry

\* Passing an await, or an error inside _process_message.
LEMMA OrderPass ==
  ASSUME OrderInv, NEW p, NEW q, NEW K,
         \/ Pass(p, q)
         \/ At(p) /\ FaultInTry(K) /\ q = "errChk"
         \/ At(p) /\ FaultInHandler(K) /\ q = "fin",
         q \in Unfinished => p \in Unfinished \/ St(msg) \notin Finished,
         q \in InTry => p \in Unfinished \union InTry,
         q \in {"hook", "reap", "mark", "markEarly"} =>
           p \in {"hook", "reap", "mark", "markEarly"} \/ Flagged(msg)
  PROVE  OrderInv'
<1>1. /\ pc = p /\ pc' = q /\ UNCHANGED <<status, cancelFlag, dpc, parsed, msg>>
  BY DEF Pass, FaultInTry, FaultInHandler, At, GoTo, otherVars, aroundVars, cloudVars,
         dlvVars, redisVars, frameVars
<1>. QED  BY <1>1, OrderKeep

\* The steps of the consumer task but those of a batch.
LEMMA OrderTaskStep ==
  ASSUME DistinctJobs, TypeInv, IdleInv, ListInv, OrderInv,
         LoopStep \/ ScreenStep \/ ProcessStep
  PROVE  OrderInv'
<1>. USE DEF Unfinished, InTry
<1>1. CASE LoopStep
  <2>1. UNCHANGED <<status, cancelFlag, dpc>> /\ parsed' \subseteq parsed
    BY <1>1
    DEF LoopStep, Setup, FetchPending, NextMessage, FetchRecovered, LoopTest, ReadGroup,
        Dispatch, DispatchRaises, Pass, GoTo, FaultRaised, Raise, DropFrame, otherVars,
        aroundVars, redisVars, cloudVars, dlvVars, frameVars
  <2>2. pc' \notin Unfinished \union InTry
    BY <1>1
    DEF LoopStep, Setup, FetchPending, NextMessage, FetchRecovered, LoopTest, ReadGroup,
        Dispatch, DispatchRaises, Pass, GoTo, FaultRaised, Raise, ScreenFrom, AfterEmptyRead
  <2>. QED  BY <2>1, <2>2, OrderKeep
<1>2. CASE GetStatus
  BY <1>2, OrderPass, OrderFaultRaised DEF GetStatus, St, job
<1>3. CASE GetFlag
  <2>1. CASE FaultRaised(ErrKinds)
    BY <2>1, OrderFaultRaised
  <2>2. CASE Flagged(msg) /\ Pass("flag", "markEarly")
    BY <2>2, OrderPass
  <2>3. CASE /\ At("flag") /\ ~Flagged(msg) /\ mode = "batch"
             /\ \/ pc' = "ackEarly" /\ UNCHANGED parsed
                \/ pc' = "next" /\ parsed' = parsed \union {msg}
             /\ UNCHANGED <<otherVars, ctx, exc, mode, msg, todo, batch, faults>>
    <3>1. /\ pc = "flag" /\ pc' \in {"ackEarly", "next"}
          /\ parsed' \subseteq parsed \union {msg} /\ UNCHANGED <<status, dpc, cancelFlag>>
      BY <2>3 DEF At, otherVars, aroundVars, redisVars, cloudVars, dlvVars
    <3>. QED  BY <3>1 DEF OrderInv, TaskOrder, DeliveryOrder, St, Flagged
  <2>4. CASE /\ At("flag") /\ GoTo("exec")
             /\ UNCHANGED <<aroundVars, redisVars, backoffVars, running, faults>>
    <3>1. pc = "flag" /\ pc' = "exec" /\ UNCHANGED <<status, dpc, cancelFlag, parsed, msg>>
      BY <2>4 DEF At, GoTo, frameVars, aroundVars, redisVars, cloudVars, dlvVars
    <3>. QED  BY <3>1, OrderKeep
  <2>. QED  BY <1>3, <2>1, <2>2, <2>3, <2>4 DEF GetFlag
<1>4. CASE MarkEarly
  BY <1>4, OrderWrite, OrderFaultRaised DEF MarkEarly, AtDoor, Screening, States
<1>5. CASE AckEarly
  <2>1. CASE FaultRaised({"other"})
    BY <2>1, OrderFaultRaised
  <2>2. CASE ~FaultRaised({"other"})
    <3>1. pc' = "next" /\ UNCHANGED <<status, dpc, cancelFlag, parsed>>
      BY <1>5, <2>2 DEF AckEarly, GoTo, frameVars, aroundVars, cloudVars, dlvVars
    <3>. QED  BY <3>1, OrderKeep
  <2>. QED  BY <2>1, <2>2
<1>6. CASE MarkExecuting
  BY <1>6, OrderWrite, OrderFaultRaised DEF MarkExecuting, InProcess, States, Finished
<1>7. CASE ExecutorFinishes
  <2>1. pc = "run" /\ pc' \in {"errChk", "chkRun"}
        /\ UNCHANGED <<status, dpc, cancelFlag, parsed, msg>>
    BY <1>7
    DEF ExecutorFinishes, Pass, At, GoTo, frameVars, otherVars, aroundVars, redisVars,
        cloudVars, dlvVars
  <2>. QED  BY <2>1, OrderKeep
<1>8. CASE PollCancel \/ RequestRunnerCancel \/ ReapRunTask \/ CheckCancelOnError
  BY <1>8, OrderPass DEF PollCancel, RequestRunnerCancel, ReapRunTask, CheckCancelOnError
<1>9. ASSUME NEW p \in InTry, NEW q \in InTry \ {"hook", "reap", "mark"},
             q \in Unfinished => p \in Unfinished, CheckCancel(p, q)
      PROVE  OrderInv'
  BY <1>9, OrderPass DEF CheckCancel
<1>10. CASE MarkCompleted \/ MarkFailed \/ MarkCancelled
  BY <1>10, OrderWrite, OrderPass
  DEF MarkCompleted, MarkFailed, MarkCancelled, InProcess, States
<1>11. CASE SendResult \/ SendError
  <2>1. /\ pc \in {"send", "sendErr"} /\ pc' \in {"fin", "errChk"}
        /\ UNCHANGED <<status, dpc, cancelFlag, parsed, msg>>
    BY <1>11 DEF SendResult, SendError, At, GoTo, frameVars, redisVars, cloudVars, dlvVars
  <2>. QED  BY <2>1, OrderKeep
<1>12. CASE FinallyBlock
  <2>1. CASE FaultRaised({"other"})
    BY <2>1, OrderFaultRaised
  <2>2. CASE ~FaultRaised({"other"})
    <3>1. /\ pc' \in {"next", "loop", "crashed", "ended"} /\ parsed' \subseteq parsed
          /\ UNCHANGED <<status, dpc, cancelFlag>>
      BY <1>12, <2>2
      DEF FinallyBlock, Raise, DropFrame, GoTo, frameVars, aroundVars, cloudVars, dlvVars
    <3>. QED  BY <3>1, OrderKeep
  <2>. QED  BY <2>1, <2>2
<1>13. CASE ScreenStep
  BY <1>2, <1>3, <1>4, <1>5, <1>13 DEF ScreenStep
<1>14. CASE ProcessStep
  BY <1>6, <1>7, <1>8, <1>9, <1>10, <1>11, <1>12, <1>14 DEF ProcessStep
<1>. QED  BY <1>1, <1>13, <1>14

\* A batch marks unfinished jobs as executing and hands them over unfinished.
LEMMA OrderBatchStep ==
  ASSUME DistinctJobs, TypeInv, IdleInv, ListInv, OrderInv, BatchStep
  PROVE  OrderInv'
<1>. USE DEF Unfinished, InTry
<1>0. pc \in {"bExec", "bRun"} /\ \A m \in Msgs : dpc[m] = "none"
  <2>1. pc \in {"bExec", "bRun"}
    BY DEF BatchStep, BatchMarkExecuting, BatchStart, BatchSucceeds, BatchFallsBack, Pass, At
  <2>. QED  BY <2>1, TaskAlone DEF Busy
<1>1. CASE BatchMarkExecuting
  <2>1. CASE FaultRaised({"other"})
    BY <2>1, OrderFaultRaised
  <2>2. CASE ~FaultRaised({"other"})
    <3>1. PICK m \in todo : SafeHSet(JobOf[m], "executing")
      BY <1>1, <2>2 DEF BatchMarkExecuting
    <3>2. UNCHANGED <<pc, msg, parsed, dpc, cancelFlag>>
      BY <1>1, <2>2 DEF BatchMarkExecuting, aroundVars, cloudVars, dlvVars
    <3>3. \A x \in parsed : x \in Msgs /\ JobOf[x] \in Jobs
      BY ConstantsAssumption DEF TypeInv, TypeOK
    <3>4. \A x \in parsed : St(x)' \in {St(x), "executing"}
      BY <3>1, <3>3 DEF SafeHSet, St, TypeInv, TypeOK
    <3>5. TaskOrder'
      BY <1>0, <3>2, <3>4 DEF OrderInv, TaskOrder, Finished
    <3>. QED  BY <1>0, <3>2, <3>5 DEF OrderInv, DeliveryOrder
  <2>. QED  BY <2>1, <2>2
<1>2. CASE BatchStart \/ BatchFallsBack
  <2>1. pc' \in {"bRun", "next"} /\ parsed' \subseteq parsed /\ UNCHANGED <<status, cancelFlag, dpc>>
    BY <1>2
    DEF BatchStart, BatchFallsBack, Pass, GoTo, frameVars, otherVars, aroundVars, redisVars,
        cloudVars, dlvVars
  <2>. QED  BY <2>1, OrderKeep
<1>3. CASE BatchSucceeds
  <2>1. pc' = "loop" /\ parsed' = {} /\ UNCHANGED <<status, cancelFlag>>
    BY <1>3 DEF BatchSucceeds, DropFrame, redisVars, cloudVars
  <2>2. \A m \in Msgs : \/ dpc'[m] = "none"
                        \/ m \in parsed /\ dpc'[m] = "chk1"
    BY <1>0, <1>3 DEF BatchSucceeds
  <2>. QED  BY <2>1, <2>2 DEF OrderInv, TaskOrder, DeliveryOrder, St
<1>. QED  BY <1>1, <1>2, <1>3 DEF BatchStep

\* Where a delivery goes, and what it may write on the way.
LEMMA DeliveryMoves ==
  ASSUME TypeInv, NEW m \in Msgs, DeliveryStep(m)
  PROVE  \/ /\ dpc'[m] = "none" /\ faults' = faults + 1
            /\ UNCHANGED <<status, hooks, hookFaults, pel>>
         \/ /\ dpc[m] \in {"chk1", "chk2"} /\ UNCHANGED <<status, hooks, hookFaults, pel, faults>>
            /\ dpc'[m] = IF Flagged(m) THEN "mark" ELSE IF dpc[m] = "chk1" THEN "done" ELSE "send"
         \/ /\ dpc[m] = "done" /\ dpc'[m] = "chk2" /\ SafeHSet(JobOf[m], "completed")
            /\ UNCHANGED <<hooks, hookFaults, pel>>
         \/ /\ dpc[m] = "mark" /\ dpc'[m] = "ack" /\ SafeHSet(JobOf[m], "cancelled")
            /\ UNCHANGED <<hooks, hookFaults, pel>>
         \/ /\ dpc[m] = "send" /\ dpc'[m] = "ack" /\ UNCHANGED <<status, pel, faults>>
            /\ PostAccepted(JobOf[m], "completed") \/ PostRaises(JobOf[m], "completed")
         \/ /\ dpc[m] = "ack" /\ dpc'[m] = "none" /\ SafeXAck(m)
            /\ UNCHANGED <<status, hooks, hookFaults>>
<1>1. ASSUME NEW K, DeliveryRaises(m, K)
      PROVE  dpc'[m] = "none" /\ faults' = faults + 1
  BY <1>1, LoseCounts DEF DeliveryRaises, TypeInv, TypeOK
<1>2. ASSUME NEW p, DeliveryGoesTo(m, p)
      PROVE  dpc'[m] = p
  BY <1>2 DEF DeliveryGoesTo, TypeInv, TypeOK
<1>3. CASE DeliveryChecks(m)
  BY <1>1, <1>2, <1>3 DEF DeliveryChecks, hookVars
<1>4. CASE DeliveryMarks(m)
  BY <1>1, <1>2, <1>4 DEF DeliveryMarks, hookVars
<1>5. CASE DeliverySends(m)
  BY <1>2, <1>5 DEF DeliverySends
<1>6. CASE DeliveryAcks(m)
  BY <1>1, <1>2, <1>6 DEF DeliveryAcks, hookVars
<1>. QED  BY <1>3, <1>4, <1>5, <1>6 DEF DeliveryStep

\* A delivery writes the status of its own job only.
LEMMA OrderDeliveryStep ==
  ASSUME DistinctJobs, TypeInv, IdleInv, ListInv, OrderInv, NEW m \in Msgs, DeliveryStep(m)
  PROVE  OrderInv'
<1>1. /\ dpc[m] # "none" /\ \A x \in Msgs : x # m => dpc'[x] = dpc[x]
      /\ UNCHANGED <<pc, msg, parsed, cancelFlag>>
  BY DeliveryLeaves DEF taskVars, frameVars, cloudVars
<1>2. pc \notin Busy \union Screening /\ parsed = {}
  BY <1>1, TaskAlone DEF Busy, ListInv, ListsWalked
<1>3. \A x \in Msgs : x # m => St(x)' = St(x)
  <2>1. status' = status \/ \E s : status' = [status EXCEPT ![JobOf[m]] = s]
    BY DeliveryMoves DEF SafeHSet
  <2>. QED  BY <2>1, ConstantsAssumption DEF St, DistinctJobs, TypeInv, TypeOK
<1>4. ASSUME NEW s, SafeHSet(JobOf[m], s)
      PROVE  St(m)' \in {St(m), s}
  BY <1>4, ConstantsAssumption DEF SafeHSet, St, TypeInv, TypeOK
<1>5. /\ dpc'[m] \in {"chk1", "done"} => St(m)' \notin Finished
      /\ dpc'[m] \in {"chk2", "send", "mark"} => St(m)' # "cancelled"
      /\ dpc'[m] = "mark" => Flagged(m)'
  BY <1>1, <1>4, DeliveryMoves DEF OrderInv, DeliveryOrder, Flagged, St, Finished
<1>6. DeliveryOrder'
  BY <1>1, <1>3, <1>5 DEF OrderInv, DeliveryOrder, Flagged
<1>7. TaskOrder'
  BY <1>1, <1>2 DEF TaskOrder, Busy, InTry, Screening, Unfinished
<1>. QED  BY <1>6, <1>7 DEF OrderInv

\* Shutdown, crash, restart and the cloud.
LEMMA OrderOutsideStep ==
  ASSUME DistinctJobs, TypeInv, IdleInv, ListInv, OrderInv,
         \/ StopRequested \/ DrainStep \/ Exit \/ Crash \/ Boot \/ Enqueue
         \/ \E j \in Jobs : RequestCancel(j)
         \/ \E m \in Msgs : Trim(m)
         \/ UNCHANGED vars
  PROVE  OrderInv'
<1>. USE DEF taskVars, frameVars, cloudVars, redisVars, dlvVars, Unfinished, InTry
<1>1. CASE DrainStep
  <2>1. CancelConsumer
    BY <1>1 DEF DrainStep, DrainClean, DrainRaises, DrainTimesOut
  <2>2. cancelFlag' = cancelFlag /\ (\A m \in Msgs : dpc'[m] = dpc[m] \/ dpc'[m] = "none")
    BY <2>1 DEF CancelConsumer
  <2>3. CASE status' = status
    <3>1. \/ pc' = "fin" /\ UNCHANGED <<msg, parsed>>
          \/ pc = "reap" /\ pc' = "mark" /\ UNCHANGED <<msg, parsed>>
          \/ pc' \in Over /\ parsed' \subseteq parsed
      BY <2>1 DEF CancelConsumer, DropFrame, Over
    <3>. QED  BY <2>2, <2>3, <3>1, OrderKeep DEF Over
  <2>4. CASE pc = "exec" /\ pc' = "ended" /\ DropFrame
    <3>1. \A m \in Msgs : dpc'[m] = "none"
      BY <2>2, <2>4, TaskAlone DEF Busy
    <3>. QED  BY <2>4, <3>1 DEF DropFrame, OrderInv, TaskOrder, DeliveryOrder
  <2>. QED  BY <2>1, <2>3, <2>4 DEF CancelConsumer
<1>2. CASE Exit \/ Crash
  <2>1. pc' = "off" /\ parsed' = {} /\ (\A m \in Msgs : dpc'[m] = "none")
        /\ UNCHANGED <<status, cancelFlag>>
    BY <1>2 DEF Exit, Crash, ProcessDies, DropFrame
  <2>. QED  BY <2>1, OrderKeep
<1>3. CASE StopRequested \/ Boot
  <2>1. (pc' = pc \/ pc' = "setup") /\ UNCHANGED <<msg, parsed, dpc, status, cancelFlag>>
    BY <1>3 DEF StopRequested, Boot
  <2>. QED  BY <2>1, OrderKeep
<1>4. CASE \/ Enqueue
           \/ \E j \in Jobs : RequestCancel(j)
           \/ \E m \in Msgs : Trim(m)
           \/ UNCHANGED vars
  <2>1. UNCHANGED <<pc, msg, parsed, dpc, status>> /\ cancelFlag \subseteq cancelFlag'
    BY <1>4 DEF Enqueue, RequestCancel, Trim, CloudFrame, vars, otherVars, aroundVars
  <2>. QED  BY <2>1, OrderKeep
<1>. QED  BY <1>1, <1>2, <1>3, <1>4

\* The invariant about the status of jobs in hand holds throughout.
LEMMA OrderCorrect ==
  ASSUME DistinctJobs
  PROVE  Spec => []OrderInv
<1>1. Init => OrderInv
  BY OrderInit
<1>2. TypeInv /\ IdleInv /\ ListInv /\ OrderInv /\ [Next]_vars => OrderInv'
  BY DistinctJobs, OrderTaskStep, OrderBatchStep, OrderDeliveryStep, OrderOutsideStep
  DEF Next, ConsumerStep
<1>. QED  BY <1>1, <1>2, TypeCorrect, IdleCorrect, ListCorrect, PTL DEF Spec

-----------------------------------------------------------------------------
(* What is acknowledged is settled, while Redis answers and nobody stops   *)
(* the node.  A message in hand is still pending, or its job is finished;  *)
(* that also covers a message that was acknowledged in a batch and is      *)
(* looked at again when the batch falls back to one job after the other.   *)

Calm == faults = 0 /\ stops = 0

\* The message m is pending, or its job finished, or nobody waits for it.
Open(m) == m \in pel \/ ~Reportable(m)
Closed(m) == St(m) \in Finished \/ ~Reportable(m)

\* The awaits at which the message in hand is not acknowledged yet.
Keeping == InTry \union {"flag", "markEarly", "exec"}

ListsSettle ==
  /\ \A m \in todo : Open(m) \/ Closed(m)
  /\ mode = "batch" => \A m \in batch : Open(m) \/ Closed(m)
  /\ \A m \in parsed : Open(m)

HandSettles ==
  /\ pc \in {"xrange", "status"} => Open(msg) \/ Closed(msg)
  /\ pc \in Keeping => Open(msg)
  /\ pc = "ackEarly" => Closed(msg)
  /\ pc \in {"chkSend", "send"} => St(msg) = "completed"
  /\ pc = "sendErr" => St(msg) = "failed"
  /\ pc = "fin" => St(msg) \in Finished \union {"failed"}

DeliverySettles ==
  \A m \in Msgs :
    /\ dpc[m] # "none" => Open(m)
    /\ dpc[m] \in {"chk2", "send"} => St(m) = "completed"
    /\ dpc[m] = "ack" => St(m) \in Finished

AllSettled == \A m \in Msgs : Acked(m) /\ Reportable(m) => St(m) \in Finished \union {"failed"}

SettleInv == Calm => ListsSettle /\ HandSettles /\ DeliverySettles /\ AllSettled

\* At first nothing is acknowledged.
LEMMA SettleInit == Init => SettleInv
  BY DEF Init, SettleInv, ListsSettle, HandSettles, DeliverySettles, AllSettled, Acked,
         Keeping, InTry

\* The first fault or shutdown ends the calm.
LEMMA CalmBefore ==
  ASSUME TypeInv, faults' = faults \/ faults' = faults + 1, stops' = stops
  PROVE  /\ Calm' => Calm /\ faults' = faults
         /\ faults' = faults + 1 => ~Calm'
<1>1. faults \in Nat
  BY ConstantsAssumption DEF TypeInv, TypeOK
<1>. QED  BY <1>1 DEF Calm

\* An error of a Redis call ends the calm, wherever it is handled.
LEMMA FaultEndsCalm ==
  ASSUME TypeInv, NEW K, FaultRaised(K) \/ FaultInTry(K) \/ FaultInHandler(K)
  PROVE  ~Calm'
<1>1. faults' = faults + 1 /\ faults \in Nat
  BY LoseCounts DEF FaultRaised, FaultInTry, FaultInHandler
<1>. QED  BY <1>1 DEF Calm

\* A step that writes and acknowledges nothing.
LEMMA SettleKeep ==
  ASSUME SettleInv, Calm' => Calm, status' = status, pel \subseteq pel',
         \A m \in Msgs : Acked(m)' => Acked(m),
         \A m \in Msgs : dpc'[m] = dpc[m] \/ dpc'[m] = "none",
         Calm' /\ ListsSettle /\ HandSettles => ListsSettle' /\ HandSettles'
  PROVE  SettleInv'
<1>. SUFFICES ASSUME Calm', Calm
              PROVE  ListsSettle' /\ HandSettles' /\ DeliverySettles' /\ AllSettled'
  BY DEF SettleInv
<1>1. \A m \in Msgs : St(m)' = St(m) /\ (Open(m) => Open(m)')
  BY DEF St, Open, Reportable
<1>2. DeliverySettles'
  BY <1>1 DEF SettleInv, DeliverySettles
<1>3. AllSettled'
  BY <1>1 DEF SettleInv, AllSettled
<1>. QED  BY <1>2, <1>3 DEF SettleInv

\* Passing an await.
LEMMA SettlePass ==
  ASSUME TypeInv, SettleInv, NEW p, NEW q, Pass(p, q),
         q = "status" => p = "xrange",
         q \in Keeping => p \in Keeping \/ (p = "status" /\ St(msg) \notin Finished),
         q = "ackEarly" => Closed(msg),
         q \in {"chkSend", "send"} => p = "chkSend",
         q \notin {"xrange", "sendErr", "fin"}
  PROVE  SettleInv'
<1>1. /\ pc = p /\ pc' = q
      /\ UNCHANGED <<status, pel, delivered, dpc, faults, stops, mode, msg, todo, batch, parsed>>
  BY DEF Pass, At, GoTo, otherVars, aroundVars, lifeVars, dlvVars, redisVars, frameVars
<1>2. Calm' => Calm
  BY <1>1 DEF Calm
<1>3. /\ ListsSettle => ListsSettle'
      /\ HandSettles => HandSettles'
  BY <1>1 DEF ListsSettle, HandSettles, Open, Closed, St, Reportable
<1>4. \A m \in Msgs : Acked(m)' => Acked(m)
  BY <1>1 DEF Acked
<1>. QED  BY <1>1, <1>2, <1>3, <1>4, SettleKeep

\* The task writes the status of the job in hand.
LEMMA SettleWrite ==
  ASSUME DistinctJobs, TypeInv, IdleInv, ListInv, SettleInv,
         NEW p \in {"markEarly", "exec", "done", "mark", "fail"}, NEW s \in States, NEW q,
         p = "markEarly" => s \in Finished,
         q \in {"ackEarly", "chkSend", "sendErr", "fin", "run", "errChk"},
         q = "ackEarly" => s \in Finished,
         q = "chkSend" => s = "completed",
         q = "sendErr" => s = "failed",
         q = "fin" => s \in Finished,
         WriteStatus(p, s, q)
  PROVE  SettleInv'
<1>. USE DEF Keeping, InTry
<1>1. /\ pc = p /\ pc' = q
      /\ UNCHANGED <<mode, msg, todo, batch, parsed, dpc, delivered, pel, stops>>
      /\ faults' = faults \/ faults' = faults + 1
      /\ faults' = faults + 1 \/ status' = [status EXCEPT ![JobOf[msg]] = s]
  BY LoseCounts
  DEF WriteStatus, SafeHSet, At, GoTo, frameVars, aroundVars, dlvVars, lifeVars, job
<1>2. CASE ~Calm'
  BY <1>2 DEF SettleInv
<1>3. CASE Calm'
  <2>1. Calm /\ status' = [status EXCEPT ![JobOf[msg]] = s]
    BY <1>1, <1>3, CalmBefore
  <2>2. /\ msg \in Msgs /\ msg \notin todo /\ msg \notin parsed
        /\ mode = "batch" => pc = "markEarly"
    BY <1>1 DEF ListInv, ListsWalked, AtDoor, Screening, TypeInv, FrameOK, NeedsMsg
  <2>3. \A m \in Msgs : dpc[m] = "none"
    BY <1>1, TaskAlone DEF Busy, Screening
  <2>4. \A m \in Msgs : m # msg => St(m)' = St(m)
    BY <2>1, <2>2, ConstantsAssumption DEF St, DistinctJobs, TypeInv, TypeOK
  <2>5. St(msg)' = s /\ Open(msg)
    BY <1>1, <2>1, <2>2, ConstantsAssumption
    DEF St, TypeInv, TypeOK, SettleInv, HandSettles
  <2>6. \A m \in Msgs : Open(m)' <=> Open(m)
    BY <1>1 DEF Open, Reportable
  <2>7. \A m \in Msgs : (Acked(m)' <=> Acked(m)) /\ (m # msg /\ Closed(m) => Closed(m)')
    BY <1>1, <2>4 DEF Acked, Closed, Reportable
  <2>8. ListsSettle'
    <3>1. \A m \in todo' : Open(m)' \/ Closed(m)'
      BY <1>1, <2>1, <2>2, <2>6, <2>7 DEF SettleInv, ListsSettle, TypeInv, TypeOK
    <3>2. mode' = "batch" => \A m \in batch' : Open(m)' \/ Closed(m)'
      BY <1>1, <2>1, <2>5, <2>6, <2>7 DEF SettleInv, ListsSettle, TypeInv, TypeOK
    <3>3. \A m \in parsed' : Open(m)'
      BY <1>1, <2>1, <2>6 DEF SettleInv, ListsSettle, TypeInv, TypeOK
    <3>. QED  BY <3>1, <3>2, <3>3 DEF ListsSettle
  <2>9. Open(msg)' /\ St(msg)' = s
    BY <1>1, <2>5 DEF Open, Reportable
  <2>10. HandSettles'
    BY <1>1, <2>9 DEF HandSettles, Closed
  <2>11. DeliverySettles'
    BY <1>1, <2>3 DEF DeliverySettles
  <2>12. AllSettled'
    <3>1. Reportable(msg) => ~Acked(msg)
      BY <2>5 DEF Open, Acked
    <3>. QED  BY <2>1, <2>4, <2>7, <3>1 DEF SettleInv, AllSettled, Reportable
  <2>. QED  BY <2>8, <2>10, <2>11, <2>12 DEF SettleInv
<1>. QED  BY <1>2, <1>3

\* The task acknowledges the message in hand and leaves it.
LEMMA SettleAck ==
  ASSUME TypeInv, IdleInv, ListInv, SettleInv,
         pc \in {"ackEarly", "fin"}, pc' \in {"next", "loop", "crashed", "ended"},
         SafeXAck(msg), UNCHANGED <<status, delivered, dpc, stops>>,
         UNCHANGED frameVars \/ DropFrame
  PROVE  SettleInv'
<1>. USE DEF Keeping, InTry
<1>1. /\ faults' = faults \/ faults' = faults + 1
      /\ faults' = faults + 1 \/ pel' = pel \ {msg}
  BY LoseCounts DEF SafeXAck
<1>2. CASE ~Calm'
  BY <1>2 DEF SettleInv
<1>3. CASE Calm'
  <2>1. Calm /\ pel' = pel \ {msg}
    BY <1>1, <1>3, CalmBefore
  <2>2. /\ msg \in Msgs /\ msg \notin todo /\ msg \notin parsed
        /\ mode = "batch" => pc = "ackEarly"
    BY DEF ListInv, ListsWalked, AtDoor, Screening, TypeInv, FrameOK, NeedsMsg
  <2>3. \A m \in Msgs : dpc[m] = "none"
    BY TaskAlone DEF Busy, Screening
  <2>4. \A m \in Msgs : /\ m # msg => (Open(m)' <=> Open(m)) /\ (Acked(m)' <=> Acked(m))
                        /\ (Closed(m)' <=> Closed(m)) /\ St(m)' = St(m)
    BY <2>1 DEF Open, Closed, Acked, St, Reportable
  <2>5. ListsSettle'
    <3>1. CASE DropFrame
      BY <3>1 DEF DropFrame, ListsSettle
    <3>2. CASE UNCHANGED frameVars
      <4>1. /\ \A m \in todo' : m \in Msgs /\ m # msg /\ (Open(m) \/ Closed(m))
            /\ \A m \in parsed' : m \in Msgs /\ m # msg /\ Open(m)
            /\ mode' = "batch" =>
                 \A m \in batch' : m \in Msgs /\ (m # msg \/ Closed(m)) /\ (Open(m) \/ Closed(m))
        BY <2>1, <2>2, <3>2
        DEF frameVars, SettleInv, ListsSettle, HandSettles, TypeInv, TypeOK
      <4>. QED  BY <2>4, <4>1 DEF ListsSettle
    <3>. QED  BY <3>1, <3>2
  <2>6. HandSettles'
    BY DEF HandSettles
  <2>7. DeliverySettles'
    BY <2>3 DEF DeliverySettles
  <2>8. AllSettled'
    <3>1. Reportable(msg) => St(msg) \in Finished \union {"failed"}
      BY <2>1 DEF SettleInv, HandSettles, Closed
    <3>. QED  BY <2>1, <2>4, <3>1 DEF SettleInv, AllSettled, Reportable
  <2>. QED  BY <2>5, <2>6, <2>7, <2>8 DEF SettleInv
<1>. QED  BY <1>2, <1>3

\* setup, recover_pending and consume_loop.
LEMMA SettleLoopStep ==
  ASSUME TypeInv, IdleInv, ListInv, SettleInv, LoopStep
  PROVE  SettleInv'
<1>. USE DEF Keeping, InTry
<1>0. ASSUME NEW K, FaultRaised(K)
      PROVE  SettleInv'
  BY <1>0, FaultEndsCalm DEF SettleInv
<1>1. CASE Setup \/ LoopTest
  BY <1>0, <1>1, SettlePass DEF Setup, LoopTest
<1>2. CASE FetchPending
  <2>1. CASE ~FaultRaised(ErrKinds)
    <3>1. /\ pc = "pending" /\ pc' = "next" /\ mode' = "recover" /\ todo' \subseteq pel
          /\ UNCHANGED <<msg, batch, parsed, delivered, pel, status, dpc, stops, faults>>
      BY <1>2, <2>1
      DEF FetchPending, FirstOf, At, otherVars, aroundVars, lifeVars, dlvVars, redisVars
    <3>2. ListsSettle /\ HandSettles => ListsSettle' /\ HandSettles'
      BY <3>1 DEF ListsSettle, HandSettles, Open, Reportable
    <3>3. (Calm' => Calm) /\ \A m \in Msgs : Acked(m)' => Acked(m)
      BY <3>1 DEF Calm, Acked
    <3>. QED  BY <3>1, <3>2, <3>3, SettleKeep
  <2>. QED  BY <1>0, <2>1
<1>3. CASE NextMessage
  <2>1. pc = "next" /\ UNCHANGED <<delivered, pel, status, dpc, stops, faults>>
    BY <1>3 DEF NextMessage, At, aroundVars, lifeVars, dlvVars, redisVars
  <2>2. (Calm' => Calm) /\ \A m \in Msgs : Acked(m)' => Acked(m)
    BY <2>1 DEF Calm, Acked
  <2>3. \A m \in Msgs : (Open(m)' <=> Open(m)) /\ (Closed(m)' <=> Closed(m))
    BY <2>1 DEF Open, Closed, Reportable, St
  <2>4. /\ \A m \in todo : m \in Msgs
        /\ \A m \in batch : m \in Msgs
        /\ \A m \in parsed : m \in Msgs
    BY DEF TypeInv, TypeOK
  <2>5. ASSUME NEW m \in todo,
               msg' = m /\ todo' = todo \ {m},
               pc' = IF mode = "recover" THEN "xrange" ELSE ScreenFrom(m),
               UNCHANGED <<ctx, mode, batch, parsed, idle>>,
               ListsSettle
        PROVE  ListsSettle' /\ HandSettles'
    <3>1. ListsSettle'
      BY <2>3, <2>4, <2>5 DEF ListsSettle
    <3>2. /\ pc' \in {"xrange", "status", "ackEarly"}
          /\ pc' = "ackEarly" => Kind[m] = "noKeys"
      BY <2>5 DEF ScreenFrom
    <3>3. Open(m) \/ Closed(m)
      BY <2>5 DEF ListsSettle
    <3>4. pc' = "ackEarly" => Closed(m)
      BY <3>2 DEF Closed, Reportable
    <3>5. (Open(msg)' <=> Open(m)) /\ (Closed(msg)' <=> Closed(m))
      BY <2>1, <2>5 DEF Open, Closed, Reportable, St
    <3>6. HandSettles'
      BY <3>2, <3>3, <3>4, <3>5 DEF HandSettles
    <3>. QED  BY <3>1, <3>6
  <2>6. CASE /\ todo' = parsed /\ pc' = "bExec"
             /\ UNCHANGED <<ctx, mode, msg, batch, parsed>>
    <3>1. ListsSettle => ListsSettle'
      BY <2>3, <2>4, <2>6 DEF ListsSettle
    <3>. QED  BY <2>1, <2>2, <2>6, <3>1, SettleKeep DEF HandSettles
  <2>7. CASE pc' = "loop" /\ DropFrame
    BY <2>1, <2>2, <2>7, SettleKeep DEF ListsSettle, HandSettles, DropFrame
  <2>8. CASE \E m \in todo : /\ msg' = m /\ todo' = todo \ {m}
                             /\ pc' = IF mode = "recover" THEN "xrange" ELSE ScreenFrom(m)
                             /\ UNCHANGED <<ctx, mode, batch, parsed, idle>>
    <3>1. ListsSettle => ListsSettle' /\ HandSettles'
      BY <2>5, <2>8
    <3>. QED  BY <2>1, <2>2, <3>1, SettleKeep
  <2>. QED  BY <1>3, <2>6, <2>7, <2>8 DEF NextMessage
<1>4. CASE FetchRecovered
  <2>1. ASSUME Pass("xrange", "ackEarly"), Kind[msg] = "noKeys"
        PROVE  SettleInv'
    BY <2>1, SettlePass DEF Closed, Reportable
  <2>2. ASSUME NEW q \in {"next", "status"}, Pass("xrange", q)
        PROVE  SettleInv'
    BY <2>2, SettlePass
  <2>. QED  BY <1>0, <1>4, <2>1, <2>2 DEF FetchRecovered, ScreenFrom
<1>5. CASE ReadGroup
  <2>. DEFINE new == FirstOf(Unread, ReadCount)
  <2>1. CASE \E k \in FaultKinds : Lose(k) /\ Raise(k)
    <3>1. faults' = faults + 1 /\ faults \in Nat
      BY <2>1, LoseCounts
    <3>. QED  BY <3>1 DEF SettleInv, Calm
  <2>2. CASE /\ delivered' = delivered \union new /\ pel' = pel \union new
             /\ todo' = new /\ batch' = new /\ pc' = "got"
             /\ UNCHANGED <<mode, msg, parsed, faults>>
    <3>1. pc = "read" /\ UNCHANGED <<status, dpc, stops>>
      BY <1>5 DEF ReadGroup, At, aroundVars, dlvVars, lifeVars
    <3>2. mode # "batch" /\ parsed = {}
      BY <3>1 DEF ListInv, ListsWalked, BetweenLists
    <3>3. (Calm' => Calm) /\ \A m \in Msgs : Acked(m)' => Acked(m)
      BY <2>2, <3>1 DEF Calm, Acked
    <3>4. ListsSettle' /\ HandSettles'
      BY <2>2, <3>2 DEF ListsSettle, HandSettles, Open
    <3>. QED  BY <2>2, <3>1, <3>3, <3>4, SettleKeep
  <2>. QED  BY <1>5, <2>1, <2>2 DEF ReadGroup
<1>6. CASE Dispatch
  <2>1. /\ pc = "got" /\ pc' \in {"next", "loop", "pending"}
        /\ UNCHANGED <<msg, todo, batch, parsed, delivered, pel, status, dpc, faults, stops>>
    BY <1>6 DEF Dispatch, AfterEmptyRead, At, redisVars, lifeVars
  <2>2. batch = todo
    BY <2>1 DEF ListInv, ListsWalked
  <2>3. (Calm' => Calm) /\ \A m \in Msgs : Acked(m)' => Acked(m)
    BY <2>1 DEF Calm, Acked
  <2>4. ListsSettle => ListsSettle' /\ HandSettles'
    BY <2>1, <2>2 DEF ListsSettle, HandSettles, Open, Closed, Reportable, St
  <2>. QED  BY <2>1, <2>3, <2>4, SettleKeep
<1>7. CASE DispatchRaises
  <2>1. /\ DropFrame /\ pc' \in {"loop", "crashed"}
        /\ UNCHANGED <<delivered, pel, status, dpc, stops, faults>>
    BY <1>7 DEF DispatchRaises, Raise, aroundVars, dlvVars, redisVars, lifeVars
  <2>2. (Calm' => Calm) /\ \A m \in Msgs : Acked(m)' => Acked(m)
    BY <2>1 DEF Calm, Acked
  <2>3. ListsSettle' /\ HandSettles'
    BY <2>1 DEF ListsSettle, HandSettles, DropFrame
  <2>. QED  BY <2>1, <2>2, <2>3, SettleKeep
<1>. QED  BY <1>1, <1>2, <1>3, <1>4, <1>5, <1>6, <1>7 DEF LoopStep

\* The checks of a message, and _process_message.
LEMMA SettleTaskStep ==
  ASSUME DistinctJobs, TypeInv, IdleInv, ListInv, SettleInv, ScreenStep \/ ProcessStep
  PROVE  SettleInv'
<1>. USE DEF Keeping, InTry
<1>0. ASSUME NEW K, FaultRaised(K) \/ FaultInTry(K) \/ FaultInHandler(K)
      PROVE  SettleInv'
  BY <1>0, FaultEndsCalm DEF SettleInv
<1>1. CASE GetStatus
  <2>1. ASSUME Pass("status", "ackEarly"), St(msg) \in Finished
        PROVE  SettleInv'
    BY <2>1, SettlePass DEF Closed
  <2>2. ASSUME Pass("status", "flag"), St(msg) \notin Finished
        PROVE  SettleInv'
    BY <2>2, SettlePass
  <2>. QED  BY <1>0, <1>1, <2>1, <2>2 DEF GetStatus, St, job
<1>2. CASE GetFlag
  <2>1. CASE Pass("flag", "markEarly")
    BY <2>1, SettlePass
  <2>2. CASE /\ At("flag") /\ mode = "batch"
             /\ \/ pc' = "ackEarly" /\ Kind[msg] = "badIR" /\ UNCHANGED parsed
                \/ pc' = "next" /\ parsed' = parsed \union {msg}
             /\ UNCHANGED <<otherVars, ctx, exc, mode, msg, todo, batch, faults>>
    <3>1. /\ pc = "flag" /\ UNCHANGED <<delivered, pel, status, dpc, stops, faults>>
      BY <2>2 DEF At, otherVars, aroundVars, lifeVars, dlvVars, redisVars
    <3>2. (Calm' => Calm) /\ \A m \in Msgs : Acked(m)' => Acked(m)
      BY <3>1 DEF Calm, Acked
    <3>3. Kind[msg] = "badIR" => ~Reportable(msg)
      BY <2>2 DEF Reportable, ListInv, ListsWalked
    <3>4. ListsSettle /\ HandSettles => ListsSettle' /\ HandSettles'
      BY <2>2, <3>1, <3>3 DEF ListsSettle, HandSettles, Open, Closed, Reportable, St
    <3>. QED  BY <3>1, <3>2, <3>4, SettleKeep
  <2>3. CASE /\ At("flag") /\ GoTo("exec")
             /\ UNCHANGED <<aroundVars, redisVars, backoffVars, running, faults>>
    <3>1. /\ pc = "flag" /\ pc' = "exec"
          /\ UNCHANGED <<delivered, pel, status, dpc, stops, faults, mode, msg, todo, batch, parsed>>
      BY <2>3 DEF At, GoTo, frameVars, aroundVars, lifeVars, dlvVars, redisVars
    <3>2. (Calm' => Calm) /\ \A m \in Msgs : Acked(m)' => Acked(m)
      BY <3>1 DEF Calm, Acked
    <3>3. ListsSettle /\ HandSettles => ListsSettle' /\ HandSettles'
      BY <3>1 DEF ListsSettle, HandSettles, Open, Closed, Reportable, St
    <3>. QED  BY <3>1, <3>2, <3>3, SettleKeep
  <2>. QED  BY <1>0, <1>2, <2>1, <2>2, <2>3 DEF GetFlag
<1>3. CASE MarkEarly \/ MarkExecuting \/ MarkCompleted \/ MarkCancelled \/ MarkFailed
  <2>1. CASE WriteStatus("markEarly", "cancelled", "ackEarly")
    BY <2>1, SettleWrite DEF States, Finished
  <2>2. ASSUME NEW q \in {"errChk", "run"}, WriteStatus("exec", "executing", q)
        PROVE  SettleInv'
    BY <2>2, SettleWrite DEF States
  <2>3. CASE WriteStatus("done", "completed", "chkSend")
    BY <2>3, SettleWrite DEF States
  <2>4. CASE WriteStatus("mark", "cancelled", "fin")
    BY <2>4, SettleWrite DEF States, Finished
  <2>5. CASE WriteStatus("fail", "failed", "sendErr")
    BY <2>5, SettleWrite DEF States
  <2>. QED
    BY <1>0, <1>3, <2>1, <2>2, <2>3, <2>4, <2>5
    DEF MarkEarly, MarkExecuting, MarkCompleted, MarkCancelled, MarkFailed
<1>4. CASE AckEarly \/ FinallyBlock
  <2>1. CASE ~FaultRaised({"other"})
    <3>1. /\ pc \in {"ackEarly", "fin"} /\ pc' \in {"next", "loop", "crashed", "ended"}
          /\ SafeXAck(msg) /\ UNCHANGED <<status, delivered, dpc, stops>>
          /\ UNCHANGED frameVars \/ DropFrame
      BY <1>4, <2>1
      DEF AckEarly, FinallyBlock, Raise, At, GoTo, aroundVars, dlvVars, lifeVars
    <3>. QED  BY <3>1, SettleAck
  <2>. QED  BY <1>0, <2>1
<1>5. CASE ExecutorFinishes
  <2>1. CASE Pass("run", "errChk")
    BY <2>1, SettlePass
  <2>2. CASE ~Pass("run", "errChk")
    <3>1. /\ pc = "run" /\ pc' = "chkRun"
          /\ UNCHANGED <<delivered, pel, status, dpc, stops, faults, mode, msg, todo, batch, parsed>>
      BY <1>5, <2>2
      DEF ExecutorFinishes, At, GoTo, frameVars, lifeVars, dlvVars, redisVars
    <3>2. (Calm' => Calm) /\ \A m \in Msgs : Acked(m)' => Acked(m)
      BY <3>1 DEF Calm, Acked
    <3>3. ListsSettle /\ HandSettles => ListsSettle' /\ HandSettles'
      BY <3>1 DEF ListsSettle, HandSettles, Open, Closed, Reportable, St
    <3>. QED  BY <3>1, <3>2, <3>3, SettleKeep
  <2>. QED  BY <2>1, <2>2
<1>6. CASE PollCancel \/ RequestRunnerCancel \/ ReapRunTask \/ CheckCancelOnError
  BY <1>0, <1>6, SettlePass
  DEF PollCancel, RequestRunnerCancel, ReapRunTask, CheckCancelOnError
<1>7. ASSUME NEW p \in InTry, NEW q \in {"chkDone", "done", "send"},
             q = "send" => p = "chkSend", CheckCancel(p, q)
      PROVE  SettleInv'
  BY <1>0, <1>7, SettlePass DEF CheckCancel
<1>8. CASE SendResult \/ SendError
  <2>1. /\ \/ pc = "send" /\ pc' \in {"fin", "errChk"}
           \/ pc = "sendErr" /\ pc' = "fin"
        /\ UNCHANGED <<delivered, pel, status, dpc, stops, faults, mode, msg, todo, batch, parsed>>
    BY <1>8 DEF SendResult, SendError, At, GoTo, frameVars, lifeVars, dlvVars, redisVars
  <2>2. (Calm' => Calm) /\ \A m \in Msgs : Acked(m)' => Acked(m)
    BY <2>1 DEF Calm, Acked
  <2>3. ListsSettle /\ HandSettles => ListsSettle' /\ HandSettles'
    BY <2>1 DEF ListsSettle, HandSettles, Open, Closed, Reportable, St, Finished
  <2>. QED  BY <2>1, <2>2, <2>3, SettleKeep
<1>9. CASE ScreenStep
  BY <1>1, <1>2, <1>3, <1>4, <1>9 DEF ScreenStep
<1>10. CASE ProcessStep
  BY <1>3, <1>4, <1>5, <1>6, <1>7, <1>8, <1>10 DEF ProcessStep
<1>. QED  BY <1>9, <1>10

\* A batch: its messages are pending until it hands them over.
LEMMA SettleBatchStep ==
  ASSUME DistinctJobs, TypeInv, IdleInv, ListInv, SettleInv, BatchStep
  PROVE  SettleInv'
<1>. USE DEF Keeping, InTry
<1>0. ASSUME NEW K, FaultRaised(K)
      PROVE  SettleInv'
  BY <1>0, FaultEndsCalm DEF SettleInv
<1>1. CASE BatchMarkExecuting
  <2>1. CASE ~FaultRaised({"other"})
    <3>1. PICK m \in todo : SafeHSet(JobOf[m], "executing") /\ todo' = todo \ {m}
      BY <1>1, <2>1 DEF BatchMarkExecuting
    <3>2. pc = "bExec" /\ UNCHANGED <<pc, mode, msg, batch, parsed, dpc, delivered, pel, stops>>
      BY <1>1, <2>1 DEF BatchMarkExecuting, At, aroundVars, dlvVars, lifeVars
    <3>3. m \in Msgs /\ m \in parsed
      BY <3>2 DEF ListInv, ListsWalked, TypeInv, TypeOK
    <3>4. CASE ~Calm'
      BY <3>4 DEF SettleInv
    <3>5. CASE Calm'
      <4>1. faults' = faults \/ faults' = faults + 1
        BY <3>1, LoseCounts DEF SafeHSet
      <4>2. Calm /\ faults' = faults
        BY <3>2, <3>5, <4>1, CalmBefore
      <4>3. faults \in Nat
        BY ConstantsAssumption DEF TypeInv, TypeOK
      <4>4. status' = [status EXCEPT ![JobOf[m]] = "executing"]
        BY <3>1, <4>2, <4>3, LoseCounts DEF SafeHSet
      <4>5. \A x \in Msgs : /\ (Open(x)' <=> Open(x)) /\ (Acked(x)' <=> Acked(x))
                            /\ x # m => St(x)' = St(x) /\ (Closed(x)' <=> Closed(x))
        BY <3>2, <3>3, <4>4, ConstantsAssumption
        DEF Open, Acked, Closed, St, Reportable, DistinctJobs, TypeInv, TypeOK
      <4>6. Open(m)
        BY <3>3, <4>2 DEF SettleInv, ListsSettle
      <4>7. ListsSettle'
        BY <3>1, <3>2, <4>2, <4>5, <4>6 DEF SettleInv, ListsSettle, TypeInv, TypeOK
      <4>8. HandSettles'
        BY <3>2 DEF HandSettles
      <4>9. DeliverySettles'
        BY <3>2, TaskAlone DEF Busy, DeliverySettles
      <4>10. Reportable(m) => ~Acked(m)
        BY <4>6 DEF Open, Acked
      <4>11. AllSettled'
        BY <4>2, <4>5, <4>10 DEF SettleInv, AllSettled, Reportable
      <4>. QED  BY <4>7, <4>8, <4>9, <4>11 DEF SettleInv
    <3>. QED  BY <3>4, <3>5
  <2>. QED  BY <1>0, <2>1
<1>2. CASE BatchStart
  <2>1. Pass("bExec", "bRun")
    BY <1>2 DEF BatchStart
  <2>. QED  BY <2>1, SettlePass
<1>3. CASE BatchSucceeds
  <2>1. /\ pc = "bRun" /\ pc' = "loop" /\ DropFrame
        /\ UNCHANGED <<delivered, pel, status, faults, stops>>
        /\ \A m \in Msgs : dpc'[m] = dpc[m] \/ dpc'[m] = "none"
                           \/ (m \in parsed /\ dpc'[m] = "chk1")
    BY <1>3 DEF BatchSucceeds, At, redisVars, lifeVars
  <2>2. \A m \in Msgs : /\ St(m)' = St(m) /\ (Open(m)' <=> Open(m)) /\ (Acked(m)' <=> Acked(m))
    BY <2>1 DEF St, Open, Acked, Reportable
  <2>3. Calm' => Calm
    BY <2>1 DEF Calm
  <2>4. ListsSettle' /\ HandSettles'
    BY <2>1 DEF ListsSettle, HandSettles, DropFrame
  <2>5. Calm => DeliverySettles'
    BY <2>1, <2>2 DEF SettleInv, ListsSettle, DeliverySettles
  <2>6. Calm => AllSettled'
    BY <2>2 DEF SettleInv, AllSettled, Reportable
  <2>. QED  BY <2>3, <2>4, <2>5, <2>6 DEF SettleInv
<1>4. CASE BatchFallsBack
  <2>1. /\ pc = "bRun" /\ pc' = "next" /\ mode' = "single" /\ todo' = batch /\ parsed' = {}
        /\ UNCHANGED <<msg, batch, delivered, pel, status, dpc, stops, faults>>
    BY <1>4 DEF BatchFallsBack, At, otherVars, aroundVars, lifeVars, dlvVars, redisVars
  <2>2. mode = "batch"
    BY <2>1 DEF ListInv, ListsWalked
  <2>3. (Calm' => Calm) /\ \A m \in Msgs : Acked(m)' => Acked(m)
    BY <2>1 DEF Calm, Acked
  <2>4. ListsSettle => ListsSettle' /\ HandSettles'
    BY <2>1, <2>2 DEF ListsSettle, HandSettles, Open, Closed, Reportable, St
  <2>. QED  BY <2>1, <2>3, <2>4, SettleKeep
<1>. QED  BY <1>1, <1>2, <1>3, <1>4 DEF BatchStep

\* A delivery settles its job before it acknowledges the message.
LEMMA SettleDeliveryStep ==
  ASSUME DistinctJobs, TypeInv, IdleInv, ListInv, SettleInv, NEW m \in Msgs, DeliveryStep(m)
  PROVE  SettleInv'
<1>1. /\ dpc[m] # "none" /\ \A x \in Msgs : x # m => dpc'[x] = dpc[x]
      /\ UNCHANGED <<pc, mode, msg, todo, batch, parsed, delivered, stops>>
  BY DeliveryLeaves DEF taskVars, frameVars, lifeVars
<1>2. pc \notin Busy \union Screening /\ mode # "batch" /\ parsed = {}
  BY <1>1, TaskAlone DEF Busy, ListInv, ListsWalked
<1>3. CASE ~Calm'
  BY <1>3 DEF SettleInv
<1>4. CASE Calm'
  <2>1. faults \in Nat
    BY ConstantsAssumption DEF TypeInv, TypeOK
  <2>2. faults' = faults \/ faults' = faults + 1
    BY DeliveryMoves, LoseCounts DEF SafeHSet, SafeXAck
  <2>3. Calm /\ faults' = faults
    BY <1>1, <1>4, <2>2, CalmBefore
  <2>4. \/ /\ dpc[m] \in {"chk1", "chk2"} /\ UNCHANGED <<status, pel>>
           /\ dpc'[m] \in {"mark", "done"} \/ (dpc[m] = "chk2" /\ dpc'[m] = "send")
        \/ /\ dpc[m] = "done" /\ dpc'[m] = "chk2" /\ pel' = pel
           /\ status' = [status EXCEPT ![JobOf[m]] = "completed"]
        \/ /\ dpc[m] = "mark" /\ dpc'[m] = "ack" /\ pel' = pel
           /\ status' = [status EXCEPT ![JobOf[m]] = "cancelled"]
        \/ dpc[m] = "send" /\ dpc'[m] = "ack" /\ UNCHANGED <<status, pel>>
        \/ dpc[m] = "ack" /\ dpc'[m] = "none" /\ UNCHANGED status /\ pel' = pel \ {m}
    BY <2>1, <2>3, DeliveryMoves, LoseCounts DEF SafeHSet, SafeXAck
  <2>5. \A x \in Msgs : x # m => /\ St(x)' = St(x) /\ (Open(x)' <=> Open(x))
                                 /\ (Closed(x)' <=> Closed(x)) /\ (Acked(x)' <=> Acked(x))
    BY <1>1, <2>4, ConstantsAssumption
    DEF St, Open, Closed, Acked, Reportable, DistinctJobs, TypeInv, TypeOK
  <2>6. /\ dpc'[m] # "none" => Open(m)' /\ ~(Acked(m)' /\ Reportable(m))
        /\ dpc'[m] \in {"chk2", "send"} => St(m)' = "completed"
        /\ dpc'[m] \in {"ack", "none"} => St(m)' \in Finished
    BY <1>1, <2>3, <2>4, ConstantsAssumption
    DEF SettleInv, DeliverySettles, St, Open, Acked, Reportable, Finished, TypeInv, TypeOK
  <2>7. Open(m)' \/ Closed(m)'
    BY <2>6 DEF Closed
  <2>8. ListsSettle'
    BY <1>1, <1>2, <2>3, <2>5, <2>7 DEF SettleInv, ListsSettle, TypeInv, TypeOK
  <2>9. HandSettles'
    BY <1>1, <1>2 DEF HandSettles, Keeping, Busy, InTry, Screening
  <2>10. DeliverySettles'
    BY <1>1, <2>3, <2>5, <2>6 DEF SettleInv, DeliverySettles
  <2>11. AllSettled'
    BY <2>3, <2>5, <2>6 DEF SettleInv, AllSettled, Reportable, Acked
  <2>. QED  BY <2>8, <2>9, <2>10, <2>11 DEF SettleInv
<1>. QED  BY <1>3, <1>4

\* A crash or a restart forgets lists, never a message; a shutdown ends the calm.
LEMMA SettleOutsideStep ==
  ASSUME TypeInv, IdleInv, ListInv, RunInv, SettleInv,
         \/ StopRequested \/ DrainStep \/ Exit \/ Crash \/ Boot \/ Enqueue
         \/ \E j \in Jobs : RequestCancel(j)
         \/ \E m \in Msgs : Trim(m)
         \/ UNCHANGED vars
  PROVE  SettleInv'
<1>. USE DEF taskVars, frameVars, cloudVars, redisVars, dlvVars, lifeVars, Keeping, InTry
<1>1. CASE StopRequested \/ DrainStep \/ Exit
  <2>1. stops' = stops + 1 \/ (Closing /\ stops' = stops)
    BY <1>1
    DEF StopRequested, DrainStep, DrainClean, DrainRaises, DrainTimesOut, DrainDue,
        CancelConsumer, Exit, ProcessDies, Closing
  <2>2. stops \in Nat /\ (Closing => stops > 0)
    BY ConstantsAssumption DEF TypeInv, TypeOK, RunInv, StopCounted
  <2>3. ~Calm'
    BY <2>1, <2>2 DEF Calm
  <2>. QED  BY <2>3 DEF SettleInv
<1>2. CASE Crash
  <2>1. /\ pc' = "off" /\ DropFrame /\ (\A m \in Msgs : dpc'[m] = "none")
        /\ UNCHANGED <<delivered, pel, status, faults, stops>>
    BY <1>2 DEF Crash, ProcessDies
  <2>2. (Calm' => Calm) /\ \A m \in Msgs : Acked(m)' => Acked(m)
    BY <2>1 DEF Calm, Acked
  <2>3. ListsSettle' /\ HandSettles'
    BY <2>1 DEF ListsSettle, HandSettles, DropFrame
  <2>. QED  BY <2>1, <2>2, <2>3, SettleKeep
<1>3. CASE \/ Boot \/ Enqueue
           \/ \E j \in Jobs : RequestCancel(j)
           \/ \E m \in Msgs : Trim(m)
           \/ UNCHANGED vars
  <2>1. /\ pc' = pc \/ pc' = "setup"
        /\ UNCHANGED <<delivered, pel, status, dpc, faults, stops, mode, msg, todo, batch, parsed>>
    BY <1>3
    DEF Boot, Enqueue, RequestCancel, Trim, CloudFrame, vars, otherVars, aroundVars
  <2>2. (Calm' => Calm) /\ \A m \in Msgs : Acked(m)' => Acked(m)
    BY <2>1 DEF Calm, Acked
  <2>3. ListsSettle /\ HandSettles => ListsSettle' /\ HandSettles'
    BY <2>1 DEF ListsSettle, HandSettles, Open, Closed, Reportable, St
  <2>. QED  BY <2>1, <2>2, <2>3, SettleKeep
<1>. QED  BY <1>1, <1>2, <1>3

\* The invariant about what is settled holds throughout.
LEMMA SettleCorrect ==
  ASSUME DistinctJobs
  PROVE  Spec => []SettleInv
<1>1. Init => SettleInv
  BY SettleInit
<1>2. TypeInv /\ IdleInv /\ ListInv /\ RunInv /\ SettleInv /\ [Next]_vars => SettleInv'
  BY DistinctJobs, SettleLoopStep, SettleTaskStep, SettleBatchStep, SettleDeliveryStep,
     SettleOutsideStep
  DEF Next, ConsumerStep
<1>. QED  BY <1>1, <1>2, TypeCorrect, IdleCorrect, ListCorrect, RunCorrect, PTL DEF Spec

\* While Redis answers and nobody stops the node, every job that was
\* acknowledged has a terminal status, whatever crashes in between.
THEOREM AckedJobsAreSettled ==
  ASSUME DistinctJobs
  PROVE  Spec => []AckedIsSettled
<1>1. SettleInv => AckedIsSettled
  BY DEF SettleInv, AllSettled, AckedIsSettled, Calm, St, Finished
<1>. QED  BY <1>1, SettleCorrect, PTL

-----------------------------------------------------------------------------
(* The ledger.  Every step of the node makes one entry in it or none: the  *)
(* entries are first found in the terms of the consumer, step by step, and *)
(* then read as steps of JobLedger.                                        *)

ledgerState == <<enqueued, delivered, pel, runs, status, hooks, cancelFlag>>

RecordEntry(m, s) ==
  /\ m \in delivered /\ St(m) # "cancelled"
  /\ \/ s = "executing" /\ St(m) \notin Finished
     \/ s = "completed" /\ runs[m] > 0
     \/ s = "failed"
     \/ s = "cancelled" /\ Flagged(m)
  /\ status' = [status EXCEPT ![JobOf[m]] = s]
  /\ UNCHANGED <<enqueued, delivered, pel, runs, hooks, cancelFlag>>

ReportEntry(m, s) ==
  /\ m \in delivered /\ St(m) # "cancelled"
  /\ s = "failed" \/ (s = "completed" /\ runs[m] > 0)
  /\ hooks' = [hooks EXCEPT ![JobOf[m]] = @ \union {s}]
  /\ UNCHANGED <<enqueued, delivered, pel, runs, status, cancelFlag>>

AckEntry(m) ==
  /\ m \in pel /\ pel' = pel \ {m}
  /\ Calm' /\ Reportable(m) => St(m) \in Finished \union {"failed"}
  /\ UNCHANGED <<enqueued, delivered, runs, status, hooks, cancelFlag>>

ReadEntry(S) ==
  /\ S # {} /\ \A m \in S : m \in Msgs /\ m <= enqueued /\ m \notin delivered
  /\ delivered' = delivered \union S /\ pel' = pel \union S
  /\ UNCHANGED <<enqueued, runs, status, hooks, cancelFlag>>

ExecuteEntry(S) ==
  /\ S # {} /\ \A m \in S : m \in delivered /\ St(m) \notin Finished
  /\ runs' = [m \in Msgs |-> IF m \in S THEN runs[m] + 1 ELSE runs[m]]
  /\ UNCHANGED <<enqueued, delivered, pel, status, hooks, cancelFlag>>

CloudEntry ==
  /\ \/ enqueued < NumMsgs /\ enqueued' = enqueued + 1 /\ UNCHANGED cancelFlag
     \/ UNCHANGED enqueued /\ \E j \in Jobs : cancelFlag' = cancelFlag \union {j}
  /\ UNCHANGED <<delivered, pel, runs, status, hooks>>

Entry ==
  \/ UNCHANGED ledgerState
  \/ \E m \in Msgs, s \in {"executing", "completed", "failed", "cancelled"} : RecordEntry(m, s)
  \/ \E m \in Msgs, s \in {"completed", "failed"} : ReportEntry(m, s)
  \/ \E m \in Msgs : AckEntry(m)
  \/ \E S \in SUBSET Msgs : ReadEntry(S) \/ ExecuteEntry(S)
  \/ CloudEntry

\* What the entries rest on.
LedgerInv == TypeInv /\ IdleInv /\ ListInv /\ RunInv /\ EarnInv /\ OrderInv /\ SettleInv

\* Passing an await, or an error of a Redis call, makes no entry.
LEMMA NoEntry ==
  ASSUME NEW p, NEW q, NEW K,
         Pass(p, q) \/ FaultRaised(K) \/ FaultInTry(K) \/ FaultInHandler(K)
  PROVE  Entry
  BY DEF Pass, FaultRaised, FaultInTry, FaultInHandler, Entry, ledgerState, otherVars,
         aroundVars, redisVars, cloudVars, hookVars

\* The task records a status for the job in hand.
LEMMA WriteEntry ==
  ASSUME LedgerInv, NEW p \in NeedsMsg, NEW s, NEW q, WriteStatus(p, s, q),
         \/ s = "executing" /\ p \in Unfinished
         \/ s = "completed" /\ p = "done"
         \/ s = "failed" /\ p = "fail"
         \/ s = "cancelled" /\ p \in {"mark", "markEarly"}
  PROVE  Entry
<1>1. /\ pc = p /\ msg \in delivered /\ msg \in Msgs
  BY DEF WriteStatus, At, LedgerInv, TypeInv, FrameOK, ListInv, ListsHandedOut
<1>2. UNCHANGED <<enqueued, delivered, pel, runs, hooks, cancelFlag>>
  BY DEF WriteStatus, aroundVars, cloudVars, hookVars
<1>3. status' = status \/ status' = [status EXCEPT ![JobOf[msg]] = s]
  BY DEF WriteStatus, SafeHSet, job
<1>4. St(msg) # "cancelled"
  BY <1>1 DEF LedgerInv, OrderInv, TaskOrder, Unfinished, InTry, Finished
<1>5. /\ s = "executing" => St(msg) \notin Finished
      /\ s = "completed" => runs[msg] > 0
      /\ s = "cancelled" => Flagged(msg)
  BY <1>1 DEF LedgerInv, OrderInv, TaskOrder, EarnInv, HasResult
<1>. QED  BY <1>1, <1>2, <1>3, <1>4, <1>5 DEF Entry, RecordEntry, ledgerState

\* A message is acknowledged, if it was pending.
LEMMA XAckEntry ==
  ASSUME NEW m \in Msgs, pel' \in {pel, pel \ {m}},
         Calm' /\ Reportable(m) => St(m) \in Finished \union {"failed"},
         UNCHANGED <<enqueued, delivered, runs, status, hooks, cancelFlag>>
  PROVE  Entry
  BY DEF Entry, AckEntry, ledgerState

\* The counts of failures, crashes and shutdowns only grow.
LEMMA CountsGrow ==
  ASSUME TypeInv, [Next]_vars
  PROVE  /\ faults' \in {faults, faults + 1} /\ stops' \in {stops, stops + 1}
         /\ hookFaults' \in {hookFaults, hookFaults + 1} /\ crashes' \in {crashes, crashes + 1}
<1>. USE LoseCounts DEF lifeVars, aroundVars, otherVars, hookVars, PostAccepted, PostRaises
<1>1. CASE LoopStep
  BY <1>1
  DEF LoopStep, Setup, FetchPending, NextMessage, FetchRecovered, LoopTest, ReadGroup,
      Dispatch, DispatchRaises, Pass, FaultRaised
<1>2. CASE ScreenStep
  BY <1>2
  DEF ScreenStep, GetStatus, GetFlag, MarkEarly, AckEarly, Pass, WriteStatus, SafeHSet,
      SafeXAck, FaultRaised
<1>3. CASE ProcessStep
  BY <1>3
  DEF ProcessStep, MarkExecuting, ExecutorFinishes, PollCancel, RequestRunnerCancel,
      ReapRunTask, CheckCancel, MarkCompleted, SendResult, CheckCancelOnError,
      MarkCancelled, MarkFailed, SendError, FinallyBlock, Pass, WriteStatus, SafeHSet,
      SafeXAck, FaultRaised, FaultInTry, FaultInHandler
<1>4. CASE BatchStep
  BY <1>4
  DEF BatchStep, BatchMarkExecuting, BatchStart, BatchSucceeds, BatchFallsBack, Pass,
      SafeHSet, FaultRaised
<1>5. ASSUME NEW m \in Msgs, DeliveryStep(m)
      PROVE  /\ faults' \in {faults, faults + 1} /\ UNCHANGED <<stops, crashes>>
             /\ hookFaults' \in {hookFaults, hookFaults + 1}
  BY <1>5, DeliveryMoves, DeliveryLeaves DEF SafeHSet, SafeXAck
<1>6. CASE \/ StopRequested \/ DrainStep \/ Exit \/ Crash \/ Boot \/ Enqueue
           \/ \E j \in Jobs : RequestCancel(j)
           \/ \E m \in Msgs : Trim(m)
           \/ UNCHANGED vars
  BY <1>6
  DEF StopRequested, DrainStep, DrainClean, DrainRaises, DrainTimesOut, CancelConsumer,
      Exit, Crash, ProcessDies, Boot, Enqueue, RequestCancel, Trim, CloudFrame, vars
<1>. QED  BY <1>1, <1>2, <1>3, <1>4, <1>5, <1>6 DEF Next, ConsumerStep

\* Once a Redis call has failed or the node was stopped there is no calm again.
LEMMA CalmStays ==
  ASSUME TypeInv, [Next]_vars
  PROVE  Calm' => Calm
<1>1. faults \in Nat /\ stops \in Nat
  BY ConstantsAssumption DEF TypeInv, TypeOK
<1>. QED  BY <1>1, CountsGrow DEF Calm

\* setup, recover_pending and consume_loop hand messages out, once.
LEMMA LoopEntry ==
  ASSUME LedgerInv, LoopStep
  PROVE  Entry
<1>1. CASE ReadGroup
  <2>. DEFINE new == FirstOf(Unread, ReadCount)
  <2>1. /\ UNCHANGED <<enqueued, runs, status, hooks, cancelFlag>>
        /\ \/ UNCHANGED <<delivered, pel>>
           \/ delivered' = delivered \union new /\ pel' = pel \union new
    BY <1>1 DEF ReadGroup, aroundVars, cloudVars, hookVars
  <2>2. new \in SUBSET Msgs /\ \A m \in new : m <= enqueued /\ m \notin delivered
    BY ConstantsAssumption DEF FirstOf, Unread, LedgerInv, TypeInv, TypeOK, Msgs
  <2>3. CASE new = {}
    BY <2>1, <2>3 DEF Entry, ledgerState
  <2>4. CASE new # {}
    <3>. HIDE DEF new
    <3>. QED  BY <2>1, <2>2, <2>4 DEF Entry, ReadEntry, ledgerState
  <2>. QED  BY <2>3, <2>4
<1>2. CASE ~ReadGroup
  BY <1>2
  DEF LoopStep, Setup, FetchPending, NextMessage, FetchRecovered, LoopTest,
      Dispatch, DispatchRaises, Pass, FaultRaised, otherVars, aroundVars, redisVars,
      cloudVars, hookVars, Entry, ledgerState
<1>. QED  BY <1>1, <1>2

\* The checks of a message and _process_message.
LEMMA ProcessEntry ==
  ASSUME LedgerInv, ScreenStep \/ ProcessStep
  PROVE  Entry
<1>. USE DEF aroundVars, redisVars, cloudVars, hookVars
<1>0. pc \in NeedsMsg => msg \in Msgs /\ msg \in delivered
  BY DEF LedgerInv, TypeInv, FrameOK, ListInv, ListsHandedOut
<1>1. CASE GetStatus
  BY <1>1, NoEntry DEF GetStatus
<1>2. CASE GetFlag
  BY <1>2 DEF GetFlag, Pass, FaultRaised, otherVars, Entry, ledgerState
<1>3. CASE MarkEarly \/ MarkExecuting
  BY <1>3, WriteEntry, NoEntry DEF MarkEarly, MarkExecuting, NeedsMsg, Unfinished
<1>4. CASE MarkCompleted \/ MarkCancelled \/ MarkFailed
  BY <1>4, WriteEntry, NoEntry DEF MarkCompleted, MarkCancelled, MarkFailed, NeedsMsg, InTry
<1>5. CASE AckEarly \/ FinallyBlock
  <2>1. CASE FaultRaised({"other"})
    BY <2>1, NoEntry
  <2>2. CASE ~FaultRaised({"other"})
    <3>1. /\ pc \in {"ackEarly", "fin"} /\ SafeXAck(msg) /\ stops' = stops
          /\ UNCHANGED <<enqueued, delivered, runs, status, hooks, cancelFlag>>
      BY <1>5, <2>2 DEF AckEarly, FinallyBlock, At, lifeVars
    <3>2. pel' \in {pel, pel \ {msg}} /\ (faults' = faults \/ faults' = faults + 1)
      BY <3>1, LoseCounts DEF SafeXAck, LedgerInv
    <3>3. Calm' /\ Reportable(msg) => St(msg) \in Finished \union {"failed"}
      BY <3>1, <3>2, CalmBefore DEF LedgerInv, SettleInv, HandSettles, Closed
    <3>. QED  BY <1>0, <3>1, <3>2, <3>3, XAckEntry DEF NeedsMsg
  <2>. QED  BY <2>1, <2>2
<1>6. CASE ExecutorFinishes
  <2>1. CASE Pass("run", "errChk")
    BY <2>1, NoEntry
  <2>2. CASE ~Pass("run", "errChk")
    <3>1. /\ pc = "run" /\ runs' = [runs EXCEPT ![msg] = @ + 1]
          /\ UNCHANGED <<enqueued, delivered, pel, status, hooks, cancelFlag>>
      BY <1>6, <2>2 DEF ExecutorFinishes, At
    <3>2. msg \in Msgs /\ msg \in delivered /\ St(msg) \notin Finished
      BY <1>0, <3>1 DEF NeedsMsg, InTry, LedgerInv, OrderInv, TaskOrder, Unfinished
    <3>3. runs' = [m \in Msgs |-> IF m \in {msg} THEN runs[m] + 1 ELSE runs[m]]
      BY <3>1, <3>2 DEF LedgerInv, TypeInv, TypeOK
    <3>4. ExecuteEntry({msg})
      BY <3>1, <3>2, <3>3 DEF ExecuteEntry
    <3>. QED  BY <3>2, <3>4 DEF Entry
  <2>. QED  BY <2>1, <2>2
<1>7. CASE PollCancel \/ RequestRunnerCancel \/ ReapRunTask \/ CheckCancelOnError
  BY <1>7, NoEntry DEF PollCancel, RequestRunnerCancel, ReapRunTask, CheckCancelOnError
<1>8. ASSUME NEW p, NEW q, CheckCancel(p, q)
      PROVE  Entry
  BY <1>8, NoEntry DEF CheckCancel
<1>9. CASE SendResult \/ SendError
  <2>1. PICK s \in {"completed", "failed"} :
          /\ pc = (IF s = "completed" THEN "send" ELSE "sendErr")
          /\ PostAccepted(job, s) \/ PostRaises(job, s)
    BY <1>9 DEF SendResult, SendError, At
  <2>2. UNCHANGED <<enqueued, delivered, pel, runs, status, cancelFlag>>
    BY <1>9 DEF SendResult, SendError
  <2>3. hooks' = hooks \/ hooks' = [hooks EXCEPT ![JobOf[msg]] = @ \union {s}]
    BY <2>1 DEF PostAccepted, PostRaises, job
  <2>4. msg \in Msgs /\ msg \in delivered /\ St(msg) # "cancelled"
    BY <1>0, <2>1 DEF NeedsMsg, InTry, LedgerInv, OrderInv, TaskOrder
  <2>5. s = "completed" => runs[msg] > 0
    BY <2>1 DEF LedgerInv, EarnInv, HasResult
  <2>. QED  BY <2>2, <2>3, <2>4, <2>5 DEF Entry, ReportEntry, ledgerState
<1>10. CASE ScreenStep
  BY <1>1, <1>2, <1>3, <1>5, <1>10 DEF ScreenStep
<1>11. CASE ProcessStep
  BY <1>3, <1>4, <1>5, <1>6, <1>7, <1>8, <1>9, <1>11 DEF ProcessStep
<1>. QED  BY <1>10, <1>11

\* _process_batch.
LEMMA BatchEntry ==
  ASSUME LedgerInv, BatchStep
  PROVE  Entry
<1>. USE DEF aroundVars, redisVars, cloudVars, hookVars
<1>1. CASE BatchMarkExecuting
  <2>1. CASE FaultRaised({"other"})
    BY <2>1, NoEntry
  <2>2. CASE ~FaultRaised({"other"})
    <3>1. PICK m \in todo : SafeHSet(JobOf[m], "executing")
      BY <1>1, <2>2 DEF BatchMarkExecuting
    <3>2. pc = "bExec" /\ UNCHANGED <<enqueued, delivered, pel, runs, hooks, cancelFlag>>
      BY <1>1, <2>2 DEF BatchMarkExecuting, At
    <3>3. m \in Msgs /\ m \in delivered /\ St(m) \notin Finished
      BY <3>2
      DEF LedgerInv, ListInv, ListsWalked, ListsHandedOut, OrderInv, TaskOrder, TypeInv, TypeOK
    <3>4. status' = status \/ status' = [status EXCEPT ![JobOf[m]] = "executing"]
      BY <3>1 DEF SafeHSet
    <3>. QED  BY <3>2, <3>3, <3>4 DEF Entry, RecordEntry, ledgerState, Finished
  <2>. QED  BY <2>1, <2>2
<1>2. CASE BatchStart \/ BatchFallsBack
  BY <1>2 DEF BatchStart, BatchFallsBack, Pass, otherVars, Entry, ledgerState
<1>3. CASE BatchSucceeds
  <2>1. /\ UNCHANGED <<enqueued, delivered, pel, status, hooks, cancelFlag>>
        /\ \/ UNCHANGED runs
           \/ runs' = [m \in Msgs |-> IF m \in parsed THEN runs[m] + 1 ELSE runs[m]]
    BY <1>3 DEF BatchSucceeds
  <2>2. parsed \in SUBSET Msgs /\ \A m \in parsed : m \in delivered /\ St(m) \notin Finished
    BY DEF LedgerInv, ListInv, ListsHandedOut, OrderInv, TaskOrder, TypeInv, TypeOK
  <2>3. CASE UNCHANGED runs
    BY <2>1, <2>3 DEF Entry, ledgerState
  <2>4. CASE ~UNCHANGED runs
    <3>1. parsed # {}
      BY <2>1, <2>4 DEF LedgerInv, TypeInv, TypeOK
    <3>2. ExecuteEntry(parsed)
      BY <2>1, <2>2, <2>4, <3>1 DEF ExecuteEntry
    <3>. QED  BY <2>2, <3>2 DEF Entry
  <2>. QED  BY <2>3, <2>4
<1>. QED  BY <1>1, <1>2, <1>3 DEF BatchStep

\* The delivery of one result of a batch.
LEMMA DeliveryEntry ==
  ASSUME LedgerInv, NEW m \in Msgs, DeliveryStep(m)
  PROVE  Entry
<1>1. /\ dpc[m] # "none" /\ UNCHANGED <<enqueued, delivered, runs, cancelFlag, stops>>
  BY DeliveryLeaves DEF LedgerInv, cloudVars, lifeVars
<1>2. m \in delivered /\ runs[m] > 0
  BY <1>1 DEF LedgerInv, ListInv, ListsHandedOut, EarnInv
<1>3. CASE UNCHANGED <<status, hooks, pel>>
  BY <1>1, <1>3 DEF Entry, ledgerState
<1>4. CASE /\ dpc[m] \in {"done", "mark"} /\ UNCHANGED <<hooks, pel>>
           /\ SafeHSet(JobOf[m], IF dpc[m] = "done" THEN "completed" ELSE "cancelled")
  <2>1. /\ St(m) # "cancelled"
        /\ dpc[m] = "mark" => Flagged(m)
    BY <1>4 DEF LedgerInv, OrderInv, DeliveryOrder, Finished
  <2>2. \/ status' = status
        \/ dpc[m] = "done" /\ status' = [status EXCEPT ![JobOf[m]] = "completed"]
        \/ dpc[m] = "mark" /\ status' = [status EXCEPT ![JobOf[m]] = "cancelled"]
    BY <1>4 DEF SafeHSet
  <2>. QED  BY <1>1, <1>2, <1>4, <2>1, <2>2 DEF Entry, RecordEntry, ledgerState
<1>5. CASE /\ dpc[m] = "send" /\ UNCHANGED <<status, pel>>
           /\ PostAccepted(JobOf[m], "completed") \/ PostRaises(JobOf[m], "completed")
  <2>1. hooks' = hooks \/ hooks' = [hooks EXCEPT ![JobOf[m]] = @ \union {"completed"}]
    BY <1>5 DEF PostAccepted, PostRaises
  <2>2. St(m) # "cancelled"
    BY <1>5 DEF LedgerInv, OrderInv, DeliveryOrder
  <2>. QED  BY <1>1, <1>2, <1>5, <2>1, <2>2 DEF Entry, ReportEntry, ledgerState
<1>6. CASE dpc[m] = "ack" /\ SafeXAck(m) /\ UNCHANGED <<status, hooks>>
  <2>1. pel' \in {pel, pel \ {m}} /\ (faults' = faults \/ faults' = faults + 1)
    BY <1>6, LoseCounts DEF SafeXAck, LedgerInv
  <2>2. Calm' => St(m) \in Finished \union {"failed"}
    BY <1>1, <1>6, <2>1, CalmBefore DEF LedgerInv, SettleInv, DeliverySettles
  <2>. QED  BY <1>1, <1>6, <2>1, <2>2, XAckEntry
<1>. QED  BY <1>3, <1>4, <1>5, <1>6, DeliveryMoves DEF LedgerInv

\* Shutdown, crash, restart and the cloud.
LEMMA OutsideEntry ==
  ASSUME LedgerInv,
         \/ StopRequested \/ DrainStep \/ Exit \/ Crash \/ Boot \/ Enqueue
         \/ \E j \in Jobs : RequestCancel(j)
         \/ \E m \in Msgs : Trim(m)
         \/ UNCHANGED vars
  PROVE  Entry
<1>. USE DEF redisVars, cloudVars, hookVars
<1>1. CASE DrainStep
  <2>1. CancelConsumer /\ sd = "draining"
    BY <1>1 DEF DrainStep, DrainClean, DrainRaises, DrainTimesOut, DrainDue
  <2>2. UNCHANGED <<enqueued, delivered, runs, hooks, cancelFlag, stops>>
    BY <2>1 DEF CancelConsumer
  <2>3. ~Calm'
    <3>1. stops \in Nat /\ stops > 0
      BY <2>1, ConstantsAssumption DEF LedgerInv, TypeInv, TypeOK, RunInv, StopCounted, Closing
    <3>. QED  BY <2>2, <3>1 DEF Calm
  <2>4. CASE UNCHANGED <<pel, status>>
    BY <2>2, <2>4 DEF Entry, ledgerState
  <2>5. CASE pc = "fin" /\ pel' \in {pel, pel \ {msg}} /\ status' = status
    <3>1. msg \in Msgs
      BY <2>5 DEF LedgerInv, TypeInv, FrameOK, NeedsMsg
    <3>. QED  BY <2>2, <2>3, <2>5, <3>1, XAckEntry
  <2>6. CASE pc = "exec" /\ pel' = pel /\ status' \in {status, [status EXCEPT ![job] = "executing"]}
    <3>1. msg \in Msgs /\ msg \in delivered /\ St(msg) \notin Finished
      BY <2>6
      DEF LedgerInv, TypeInv, FrameOK, NeedsMsg, ListInv, ListsHandedOut, OrderInv, TaskOrder,
          Unfinished
    <3>. QED  BY <2>2, <2>6, <3>1 DEF Entry, RecordEntry, ledgerState, Finished, job
  <2>. QED  BY <2>1, <2>4, <2>5, <2>6 DEF CancelConsumer
<1>2. CASE Enqueue \/ \E j \in Jobs : RequestCancel(j)
  BY <1>2 DEF Enqueue, RequestCancel, CloudFrame, Entry, CloudEntry
<1>3. CASE StopRequested \/ Exit \/ Crash \/ Boot \/ (\E m \in Msgs : Trim(m)) \/ UNCHANGED vars
  BY <1>3
  DEF StopRequested, Exit, Crash, ProcessDies, Boot, Trim, CloudFrame, vars, otherVars,
      aroundVars, Entry, ledgerState
<1>. QED  BY <1>1, <1>2, <1>3

\* Every step makes one entry or none.
LEMMA StepsAreEntries ==
  ASSUME LedgerInv, [Next]_vars
  PROVE  Entry
  BY LoopEntry, ProcessEntry, BatchEntry, DeliveryEntry, OutsideEntry DEF Next, ConsumerStep

\* Where a message is, in the ledger's terms.
LEMMA Places ==
  ASSUME LedgerInv, NEW m \in Msgs
  PROVE  /\ PlaceOf(m) = "unsent" <=> m > enqueued
         /\ PlaceOf(m) = "queued" <=> m <= enqueued /\ m \notin delivered
         /\ PlaceOf(m) = "pending" <=> m \in pel
         /\ PlaceOf(m) \in {"pending", "acked"} <=> m \in delivered
<1>1. m \in Int /\ enqueued \in Int /\ (m \in delivered => m <= enqueued)
      /\ (m \in pel => m \in delivered)
  BY ConstantsAssumption DEF LedgerInv, TypeInv, TypeOK, Msgs, ListInv, ListsHandedOut
<1>. QED  BY <1>1 DEF PlaceOf

\* A step keeps the place of every message it does not name.
LEMMA PlaceStays ==
  ASSUME NEW m, enqueued' = enqueued, m \in delivered' <=> m \in delivered,
         m \in pel' <=> m \in pel
  PROVE  PlaceOf(m)' = PlaceOf(m)
  BY DEF PlaceOf

\* An entry is a step of the ledger.
LEMMA EntriesAreLedgerSteps ==
  ASSUME LedgerInv, LedgerInv', Calm' => Calm, Entry
  PROVE  Ledger!LedgerNext
<1>. DEFINE place == [m \in Msgs |-> PlaceOf(m)]
<1>0. (faults = 0 /\ stops = 0)' \in {faults = 0 /\ stops = 0, FALSE}
  <2>1. CASE Calm'
    BY <2>1 DEF Calm
  <2>2. CASE ~Calm'
    BY <2>2 DEF Calm
  <2>. QED  BY <2>1, <2>2
<1>1. CASE UNCHANGED ledgerState
  <2>1. place' = place
    BY <1>1, PlaceStays DEF ledgerState
  <2>. QED  BY <1>0, <1>1, <2>1 DEF Ledger!LedgerNext, ledgerState
<1>2. ASSUME NEW m \in Msgs, NEW s \in {"executing", "completed", "failed", "cancelled"},
             RecordEntry(m, s)
      PROVE  Ledger!LedgerNext
  <2>1. place' = place
    BY <1>2, PlaceStays DEF RecordEntry
  <2>2. Ledger!HandedOut(JobOf[m]) /\ JobOf[m] \in Jobs
    BY <1>2, Places, ConstantsAssumption DEF RecordEntry, Ledger!HandedOut
  <2>3. Ledger!Record(JobOf[m], s)
    BY <1>2, <2>1, <2>2
    DEF RecordEntry, Ledger!Record, Ledger!Closed, Ledger!HasResult, St, Flagged, Finished
  <2>. QED  BY <1>0, <2>2, <2>3 DEF Ledger!LedgerNext
<1>3. ASSUME NEW m \in Msgs, NEW s \in {"completed", "failed"}, ReportEntry(m, s)
      PROVE  Ledger!LedgerNext
  <2>1. place' = place
    BY <1>3, PlaceStays DEF ReportEntry
  <2>2. Ledger!HandedOut(JobOf[m]) /\ JobOf[m] \in Jobs
    BY <1>3, Places, ConstantsAssumption DEF ReportEntry, Ledger!HandedOut
  <2>3. Ledger!Report(JobOf[m], s)
    BY <1>3, <2>1, <2>2 DEF ReportEntry, Ledger!Report, Ledger!HasResult, St
  <2>. QED  BY <1>0, <2>2, <2>3 DEF Ledger!LedgerNext
<1>4. ASSUME NEW m \in Msgs, AckEntry(m)
      PROVE  Ledger!LedgerNext
  <2>1. PlaceOf(m) = "pending" /\ PlaceOf(m)' = "acked"
    <3>1. PlaceOf(m) = "pending" /\ m \in delivered'
      BY <1>4, Places DEF AckEntry
    <3>2. m \in Int /\ enqueued' \in Int /\ m <= enqueued' /\ m \notin pel'
      BY <1>4, <3>1, ConstantsAssumption
      DEF AckEntry, LedgerInv, TypeInv, TypeOK, Msgs, ListInv, ListsHandedOut
    <3>. QED  BY <3>1, <3>2 DEF PlaceOf
  <2>2. \A x \in Msgs : x # m => PlaceOf(x)' = PlaceOf(x)
    BY <1>4, PlaceStays DEF AckEntry
  <2>3. place' = [place EXCEPT ![m] = "acked"]
    BY <2>1, <2>2
  <2>4. Calm' /\ Reportable(m) => Ledger!Settled(JobOf[m])
    BY <1>4 DEF AckEntry, Ledger!Settled, Ledger!Closed, St, Finished
  <2>5. Ledger!Acknowledge(m)
    BY <1>4, <2>1, <2>3, <2>4 DEF AckEntry, Ledger!Acknowledge, Calm
  <2>. QED  BY <1>0, <2>5 DEF Ledger!LedgerNext
<1>5. ASSUME NEW S \in SUBSET Msgs, ReadEntry(S)
      PROVE  Ledger!LedgerNext
  <2>1. \A m \in S : PlaceOf(m) = "queued"
    BY <1>5, Places DEF ReadEntry
  <2>2. \A m \in S : PlaceOf(m)' = "pending"
    <3>1. \A m \in S : m \in Int /\ enqueued' \in Int /\ m <= enqueued'
                       /\ m \in delivered' /\ m \in pel'
      BY <1>5, ConstantsAssumption DEF ReadEntry, LedgerInv, TypeInv, TypeOK, Msgs
    <3>. QED  BY <3>1 DEF PlaceOf
  <2>3. \A m \in Msgs : m \notin S => PlaceOf(m)' = PlaceOf(m)
    BY <1>5, PlaceStays DEF ReadEntry
  <2>4. place' = [m \in Msgs |-> IF m \in S THEN "pending" ELSE place[m]]
    BY <2>2, <2>3
  <2>5. Ledger!HandOut(S)
    BY <1>5, <2>1, <2>4 DEF ReadEntry, Ledger!HandOut
  <2>. QED  BY <1>0, <2>5 DEF Ledger!LedgerNext
<1>6. ASSUME NEW S \in SUBSET Msgs, ExecuteEntry(S)
      PROVE  Ledger!LedgerNext
  <2>1. place' = place
    BY <1>6, PlaceStays DEF ExecuteEntry
  <2>2. \A m \in S : PlaceOf(m) \in {"pending", "acked"}
    BY <1>6, Places DEF ExecuteEntry
  <2>3. Ledger!Execute(S)
    BY <1>6, <2>1, <2>2 DEF ExecuteEntry, Ledger!Execute, Ledger!Closed, St, Finished
  <2>. QED  BY <1>0, <2>3 DEF Ledger!LedgerNext
<1>7. CASE CloudEntry
  <2>1. CASE enqueued' = enqueued
    <3>1. place' = place
      BY <1>7, <2>1, PlaceStays DEF CloudEntry
    <3>2. cancelFlag' = cancelFlag \/ \E j \in Jobs : cancelFlag' = cancelFlag \union {j}
      BY <1>7 DEF CloudEntry
    <3>. QED  BY <1>0, <1>7, <3>1, <3>2 DEF CloudEntry, Ledger!LedgerNext, Ledger!Ask
  <2>2. CASE enqueued < NumMsgs /\ enqueued' = enqueued + 1 /\ UNCHANGED cancelFlag
    <3>0. enqueued \in Int /\ enqueued + 1 \in Msgs
      BY <2>2, ConstantsAssumption DEF LedgerInv, TypeInv, TypeOK, Msgs
    <3>1. PICK m \in Msgs : m = enqueued + 1
      BY <3>0
    <3>2. PlaceOf(m) = "unsent"
      BY <3>0, <3>1, Places
    <3>3. m \notin delivered' /\ m \notin pel'
      BY <1>7, <3>0, <3>1 DEF CloudEntry, LedgerInv, ListInv, ListsHandedOut
    <3>4. PlaceOf(m)' = "queued"
      BY <2>2, <3>0, <3>1, <3>3 DEF PlaceOf
    <3>5. \A x \in Msgs : x # m => PlaceOf(x)' = PlaceOf(x)
      <4>1. \A x \in Msgs : x \in Int
        BY DEF Msgs
      <4>. QED  BY <1>7, <2>2, <3>0, <3>1, <4>1 DEF CloudEntry, PlaceOf
    <3>6. place' = [place EXCEPT ![m] = "queued"]
      BY <3>4, <3>5
    <3>7. Ledger!Submit(m)
      BY <1>7, <2>2, <3>2, <3>6 DEF CloudEntry, Ledger!Submit
    <3>. QED  BY <1>0, <3>7 DEF Ledger!LedgerNext
  <2>. QED  BY <1>7, <2>1, <2>2 DEF CloudEntry
<1>. QED  BY <1>1, <1>2, <1>3, <1>4, <1>5, <1>6, <1>7 DEF Entry

\* What the ledger rests on holds throughout.
LEMMA LedgerCorrect ==
  ASSUME DistinctJobs
  PROVE  Spec => []LedgerInv
<1>1. TypeInv /\ IdleInv /\ ListInv /\ RunInv /\ EarnInv /\ OrderInv /\ SettleInv => LedgerInv
  BY DEF LedgerInv
<1>. QED
  BY <1>1, TypeCorrect, IdleCorrect, ListCorrect, RunCorrect, EarnCorrect, OrderCorrect,
     SettleCorrect, PTL

\* At first the ledger is empty.
LEMMA LedgerStarts == Init => Ledger!LedgerInit
<1>. SUFFICES ASSUME Init
              PROVE  Ledger!LedgerInit
  OBVIOUS
<1>1. \A m \in Msgs : PlaceOf(m) = "unsent"
  BY ConstantsAssumption DEF Init, PlaceOf, Msgs
<1>2. [m \in Msgs |-> PlaceOf(m)] = [m \in Msgs |-> "unsent"]
  BY <1>1
<1>3. (faults = 0 /\ stops = 0) = TRUE
  BY DEF Init
<1>. QED  BY <1>2, <1>3 DEF Init, Ledger!LedgerInit

\* The consumer implements the ledger: every step of its loop, its batches, its
\* deliveries, its crashes and its restarts is for the cloud one legal entry or
\* none, when every job has one message.
THEOREM ConsumerKeepsLedger ==
  ASSUME DistinctJobs
  PROVE  Spec => KeepsLedger
<1>1. Init => Ledger!LedgerInit
  BY LedgerStarts
<1>2. LedgerInv /\ LedgerInv' /\ [Next]_vars => [Ledger!LedgerNext]_(Ledger!ledgerVars)
  <2>1. LedgerInv /\ [Next]_vars => (Calm' => Calm) /\ Entry
    BY CalmStays, StepsAreEntries DEF LedgerInv
  <2>. QED  BY <2>1, EntriesAreLedgerSteps
<1>. QED  BY <1>1, <1>2, LedgerCorrect, PTL DEF Spec, KeepsLedger, Ledger!LedgerSpec

\* "cancelled" is final for every job: no recovery, no delivery left behind and
\* no second look at the message overwrites it or sends a webhook after it.
THEOREM CancellationIsFinal ==
  ASSUME DistinctJobs
  PROVE  Spec => CancelledIsFinal
<1>1. ASSUME LedgerInv, [Next]_vars, NEW j \in Jobs, status[j] = "cancelled"
      PROVE  status'[j] = "cancelled" /\ hooks'[j] = hooks[j]
  <2>1. Entry
    BY <1>1, StepsAreEntries
  <2>2. \A m \in Msgs : JobOf[m] \in Jobs
    BY ConstantsAssumption
  <2>3. \/ UNCHANGED <<status, hooks>>
        \/ \E m \in Msgs : \E s :
             /\ St(m) # "cancelled" /\ UNCHANGED hooks
             /\ status' = [status EXCEPT ![JobOf[m]] = s]
        \/ \E m \in Msgs : \E s :
             /\ St(m) # "cancelled" /\ UNCHANGED status
             /\ hooks' = [hooks EXCEPT ![JobOf[m]] = @ \union {s}]
    BY <2>1
    DEF Entry, ledgerState, RecordEntry, ReportEntry, AckEntry, ReadEntry, ExecuteEntry,
        CloudEntry
  <2>. QED  BY <1>1, <2>2, <2>3 DEF St, LedgerInv, TypeInv, TypeOK
<1>2. LedgerInv /\ [Next]_vars =>
        [\A j \in Jobs : status[j] = "cancelled" =>
           status'[j] = "cancelled" /\ hooks'[j] = hooks[j]]_vars
  BY <1>1
<1>. QED  BY <1>2, LedgerCorrect, PTL DEF Spec, CancelledIsFinal

-----------------------------------------------------------------------------
(* What is acknowledged is reported as it is recorded, while nothing has   *)
(* failed.  Until a job is reported nothing stands in its status hash but  *)
(* that it is executing, and no webhook was sent; from then on the status  *)
(* and the webhook agree, in the hands of the task and of a delivery alike.*)

Quiet == Calm /\ hookFaults = 0 /\ crashes = 0

Blank(m) == St(m) \in {"none", "executing"} /\ hooks[JobOf[m]] = {}

Told(m) ==
  \/ St(m) = "completed" /\ hooks[JobOf[m]] = {"completed"}
  \/ St(m) = "failed" /\ hooks[JobOf[m]] = {"failed"}
  \/ St(m) = "cancelled" /\ hooks[JobOf[m]] = {}

\* The awaits between the record of a job and its report, and after both.
Telling == {"chkSend", "send", "sendErr", "mark"}
Leaving == {"ackEarly", "fin"}

BeingTold(m) ==
  \/ msg = m /\ pc \in Telling \union Leaving
  \/ dpc[m] \in {"chk2", "send", "mark", "ack"}

TellBound(m) ==
  /\ Acked(m) => Told(m)
  /\ ~Acked(m) /\ ~BeingTold(m) => Blank(m)
  /\ msg = m /\ pc \in Telling => hooks[JobOf[m]] = {}
  /\ msg = m /\ pc \in Leaving => Told(m)
  /\ dpc[m] \in {"chk2", "send", "mark"} => hooks[JobOf[m]] = {}
  /\ dpc[m] = "ack" => Told(m)

TellInv == Quiet => \A m \in Msgs : Reportable(m) => TellBound(m)

\* A step at which nothing fails, with nothing failed before.
QuietStep ==
  /\ Quiet /\ UNCHANGED <<faults, hookFaults, crashes, stops>>
  /\ faults \in Nat /\ hookFaults \in Nat /\ crashes \in Nat /\ stops \in Nat

\* At first nothing is recorded, and no webhook sent.
LEMMA TellInit == Init => TellInv
<1>1. ASSUME Init, NEW m \in Msgs
      PROVE  TellBound(m)
  BY <1>1, ConstantsAssumption
  DEF Init, TellBound, Blank, Acked, St, Telling, Leaving
<1>. QED  BY <1>1 DEF TellInv

\* The first failure, crash or shutdown ends the quiet.
LEMMA QuietStays ==
  ASSUME TypeInv, [Next]_vars, Quiet'
  PROVE  QuietStep
<1>1. faults \in Nat /\ stops \in Nat /\ hookFaults \in Nat /\ crashes \in Nat
  BY ConstantsAssumption DEF TypeInv, TypeOK
<1>. QED  BY <1>1, CountsGrow DEF Quiet, Calm, QuietStep

\* In a quiet step no call raises.
LEMMA NothingRaises ==
  ASSUME TypeInv, QuietStep
  PROVE  /\ \A k : ~Lose(k)
         /\ \A j, s : ~PostRaises(j, s)
         /\ \A K : ~FaultRaised(K) /\ ~FaultInTry(K) /\ ~FaultInHandler(K)
<1>1. \A k : ~Lose(k)
  BY DEF QuietStep, Lose
<1>2. \A j, s : ~PostRaises(j, s)
  BY DEF QuietStep, PostRaises
<1>. QED  BY <1>1, <1>2 DEF FaultRaised, FaultInTry, FaultInHandler

\* A message in hand that is not being reported: nothing is known of its job.
LEMMA InHandBlank ==
  ASSUME LedgerInv, Quiet, TellInv, pc \in Keeping \ Telling, msg \in Msgs, Reportable(msg)
  PROVE  Blank(msg) /\ msg \in pel
<1>1. msg \in pel
  BY DEF LedgerInv, SettleInv, HandSettles, Open, Quiet
<1>2. dpc[msg] = "none"
  BY TaskAlone DEF LedgerInv, Keeping, Busy, Screening
<1>. QED
  BY <1>1, <1>2
  DEF TellInv, TellBound, BeingTold, Acked, Keeping, InTry, Telling, Leaving

\* A step that changes nothing about the job of m but where it stands.
LEMMA TellStay ==
  ASSUME NEW m \in Msgs, TellBound(m), St(m)' = St(m), hooks'[JobOf[m]] = hooks[JobOf[m]],
         Acked(m)' <=> Acked(m),
         BeingTold(m) => BeingTold(m)' \/ Acked(m),
         msg' = m /\ pc' \in Telling => (msg = m /\ pc \in Telling) \/ Blank(m),
         msg' = m /\ pc' \in Leaving => (msg = m /\ pc \in Leaving) \/ Told(m),
         dpc'[m] \in {"chk2", "send", "mark"} =>
           dpc[m] \in {"chk2", "send", "mark"} \/ Blank(m),
         dpc'[m] = "ack" => dpc[m] = "ack" \/ Told(m)
  PROVE  TellBound(m)'
<1>1. (Blank(m)' <=> Blank(m)) /\ (Told(m)' <=> Told(m))
  BY DEF Blank, Told
<1>. QED  BY <1>1 DEF TellBound, Blank

\* A step away from the reports.
LEMMA TellElsewhere ==
  ASSUME Quiet, TellInv, UNCHANGED <<status, hooks>>,
         pc \notin Telling \union Leaving,
         pc' \in Telling \union Leaving => msg' \in Msgs /\ ~Reportable(msg'),
         \A m \in Msgs : (Acked(m)' <=> Acked(m)),
         \A m \in Msgs : dpc'[m] = dpc[m] \/ (dpc[m] = "none" /\ dpc'[m] = "chk1")
  PROVE  TellInv'
<1>1. ASSUME NEW m \in Msgs, Reportable(m)
      PROVE  TellBound(m)'
  <2>1. TellBound(m) /\ St(m)' = St(m)
    BY <1>1 DEF TellInv, St
  <2>. QED  BY <1>1, <2>1, TellStay DEF BeingTold
<1>. QED  BY <1>1 DEF TellInv, Reportable

\* Passing an await.
LEMMA TellPass ==
  ASSUME LedgerInv, Quiet, TellInv, NEW p, NEW q, Pass(p, q),
         p \notin Leaving,
         p \in Telling => q \in Telling,
         q \in Telling => p \in Keeping,
         q \in Leaving => msg \in Msgs /\ (Told(msg) \/ ~Reportable(msg))
  PROVE  TellInv'
<1>1. /\ pc = p /\ pc' = q /\ UNCHANGED <<status, hooks, pel, delivered, dpc, msg>>
  BY DEF Pass, At, GoTo, otherVars, aroundVars, dlvVars, redisVars, frameVars, hookVars
<1>2. ASSUME NEW m \in Msgs, Reportable(m)
      PROVE  TellBound(m)'
  <2>1. TellBound(m) /\ St(m)' = St(m) /\ (Acked(m)' <=> Acked(m))
    BY <1>1, <1>2 DEF TellInv, St, Acked
  <2>2. BeingTold(m) => BeingTold(m)'
    BY <1>1 DEF BeingTold
  <2>3. msg = m /\ q \in Telling => p \in Telling \/ Blank(m)
    BY <1>1, <1>2, InHandBlank
  <2>. QED  BY <1>1, <1>2, <2>1, <2>2, <2>3, TellStay
<1>. QED  BY <1>2 DEF TellInv, Reportable

\* The task records a status for the job in hand.
LEMMA TellWrite ==
  ASSUME DistinctJobs, LedgerInv, TellInv, QuietStep,
         NEW p \in {"markEarly", "exec", "done", "mark", "fail"}, NEW s \in States, NEW q,
         WriteStatus(p, s, q),
         \/ s = "executing" /\ q \in {"run", "errChk"} /\ p \notin Telling
         \/ s = "completed" /\ q = "chkSend"
         \/ s = "failed" /\ q = "sendErr"
         \/ s = "cancelled" /\ q \in Leaving
  PROVE  TellInv'
<1>. USE DEF Keeping, InTry, Telling, Leaving
<1>1. /\ pc = p /\ pc' = q /\ UNCHANGED <<msg, dpc, delivered, pel, hooks>>
  BY DEF WriteStatus, At, GoTo, frameVars, aroundVars, dlvVars, hookVars
<1>2. status' = [status EXCEPT ![JobOf[msg]] = s]
  BY NothingRaises DEF WriteStatus, SafeHSet, job, LedgerInv
<1>3. msg \in Msgs
  BY <1>1 DEF LedgerInv, TypeInv, FrameOK, NeedsMsg
<1>4. \A m \in Msgs : dpc[m] = "none"
  BY <1>1, TaskAlone DEF Busy, Screening, LedgerInv
<1>5. \A m \in Msgs : m # msg => St(m)' = St(m)
  BY <1>2, <1>3, ConstantsAssumption DEF St, DistinctJobs, LedgerInv, TypeInv, TypeOK
<1>6. St(msg)' = s
  BY <1>1, <1>2, <1>3, ConstantsAssumption DEF St, LedgerInv, TypeInv, TypeOK
<1>7. Quiet
  BY DEF QuietStep
<1>8. ASSUME Reportable(msg)
      PROVE  TellBound(msg)'
  <2>1. msg \in pel
    BY <1>1, <1>7, <1>8 DEF LedgerInv, SettleInv, HandSettles, Open, Quiet
  <2>2. hooks[JobOf[msg]] = {}
    BY <1>1, <1>3, <1>7, <1>8, InHandBlank DEF TellInv, TellBound, Blank
  <2>3. ~Acked(msg)' /\ hooks'[JobOf[msg']] = {} /\ dpc'[msg'] = "none"
    BY <1>1, <1>3, <1>4, <2>1, <2>2 DEF Acked
  <2>. QED  BY <1>1, <1>6, <2>3 DEF TellBound, Blank, Told, BeingTold
<1>9. ASSUME NEW m \in Msgs, m # msg, Reportable(m)
      PROVE  TellBound(m)'
  BY <1>1, <1>4, <1>5, <1>7, <1>9, TellStay DEF TellInv, BeingTold, Acked
<1>10. ASSUME NEW m \in Msgs, m = msg, Reportable(m)
       PROVE  TellBound(m)'
  BY <1>1, <1>8, <1>10 DEF TellBound, Blank, Told, BeingTold, Acked, St
<1>. QED  BY <1>9, <1>10 DEF TellInv, Reportable

\* The task sends the webhook that the status calls for.
LEMMA TellSend ==
  ASSUME DistinctJobs, LedgerInv, TellInv, QuietStep, SendResult \/ SendError
  PROVE  TellInv'
<1>. USE DEF Keeping, InTry, Telling, Leaving
<1>1. PICK s \in {"completed", "failed"} :
        /\ pc = (IF s = "completed" THEN "send" ELSE "sendErr")
        /\ hooks' = [hooks EXCEPT ![JobOf[msg]] = @ \union {s}]
  BY NothingRaises DEF SendResult, SendError, At, PostAccepted, job, LedgerInv
<1>2. pc' = "fin" /\ UNCHANGED <<msg, dpc, delivered, pel, status>>
  BY NothingRaises
  DEF SendResult, SendError, GoTo, frameVars, dlvVars, redisVars, LedgerInv
<1>3. msg \in Msgs /\ Quiet
  BY <1>1 DEF LedgerInv, TypeInv, FrameOK, NeedsMsg, QuietStep
<1>4. \A m \in Msgs : dpc[m] = "none"
  BY <1>1, TaskAlone DEF Busy, Screening, LedgerInv
<1>5. ASSUME NEW m \in Msgs, m # msg, Reportable(m)
      PROVE  TellBound(m)'
  <2>1. hooks'[JobOf[m]] = hooks[JobOf[m]] /\ St(m)' = St(m)
    BY <1>1, <1>2, <1>3, <1>5, ConstantsAssumption
    DEF St, DistinctJobs, LedgerInv, TypeInv, TypeOK
  <2>. QED  BY <1>2, <1>3, <1>4, <1>5, <2>1, TellStay DEF TellInv, BeingTold, Acked
<1>6. ASSUME NEW m \in Msgs, m = msg, Reportable(m)
      PROVE  TellBound(m)'
  <2>1. m \in pel /\ St(m) = s
    BY <1>1, <1>3, <1>6 DEF LedgerInv, SettleInv, HandSettles, Open, Quiet
  <2>2. hooks[JobOf[m]] = {}
    BY <1>1, <1>3, <1>6 DEF TellInv, TellBound
  <2>3. hooks'[JobOf[m]] = {s}
    BY <1>1, <1>6, <2>2, ConstantsAssumption DEF LedgerInv, TypeInv, TypeOK
  <2>4. Told(m)' /\ ~Acked(m)'
    BY <1>2, <2>1, <2>3 DEF Told, St, Acked
  <2>. QED  BY <1>2, <1>4, <1>6, <2>4 DEF TellBound, BeingTold
<1>. QED  BY <1>5, <1>6 DEF TellInv, Reportable

\* The task acknowledges the message in hand.
LEMMA TellAck ==
  ASSUME LedgerInv, TellInv, QuietStep, AckEarly \/ FinallyBlock
  PROVE  TellInv'
<1>. USE DEF Keeping, InTry, Telling, Leaving
<1>1. /\ pc \in {"ackEarly", "fin"} /\ pc' \in {"next", "loop", "crashed", "ended"}
      /\ SafeXAck(msg) /\ UNCHANGED <<status, hooks, delivered, dpc>>
  BY NothingRaises
  DEF AckEarly, FinallyBlock, Raise, At, GoTo, aroundVars, dlvVars, hookVars, LedgerInv
<1>2. pel' = pel \ {msg}
  BY <1>1, NothingRaises DEF SafeXAck, LedgerInv
<1>3. msg \in Msgs /\ msg \in delivered /\ Quiet
  BY <1>1
  DEF LedgerInv, TypeInv, FrameOK, NeedsMsg, ListInv, ListsHandedOut, QuietStep
<1>4. \A m \in Msgs : dpc[m] = "none"
  BY <1>1, TaskAlone DEF Busy, Screening, LedgerInv
<1>5. ASSUME NEW m \in Msgs, m # msg, Reportable(m)
      PROVE  TellBound(m)'
  BY <1>1, <1>2, <1>3, <1>4, <1>5, TellStay DEF TellInv, BeingTold, Acked, St
<1>6. ASSUME NEW m \in Msgs, m = msg, Reportable(m)
      PROVE  TellBound(m)'
  <2>1. Told(m)
    BY <1>1, <1>3, <1>6 DEF TellInv, TellBound
  <2>2. Told(m)' /\ Acked(m)'
    BY <1>1, <1>2, <1>3, <1>6, <2>1 DEF Told, St, Acked
  <2>. QED  BY <1>1, <1>4, <2>2 DEF TellBound
<1>. QED  BY <1>5, <1>6 DEF TellInv, Reportable

\* setup, recover_pending and consume_loop report nothing.
LEMMA TellLoopStep ==
  ASSUME LedgerInv, TellInv, QuietStep, LoopStep
  PROVE  TellInv'
<1>. USE DEF Telling, Leaving
<1>0. Quiet /\ TypeInv
  BY DEF QuietStep, LedgerInv
<1>1. CASE Setup \/ LoopTest
  BY <1>0, <1>1, TellPass, NothingRaises DEF Setup, LoopTest
<1>2. CASE FetchRecovered
  <2>1. Pass("xrange", IF msg \in trimmed THEN "next" ELSE ScreenFrom(msg))
    BY <1>0, <1>2, NothingRaises DEF FetchRecovered
  <2>2. msg \in Msgs
    BY <2>1 DEF Pass, At, TypeInv, FrameOK, NeedsMsg, LedgerInv
  <2>3. ASSUME Pass("xrange", "ackEarly"), Kind[msg] = "noKeys"
        PROVE  TellInv'
    BY <1>0, <2>2, <2>3, TellPass DEF Reportable
  <2>4. ASSUME NEW q \in {"next", "status"}, Pass("xrange", q)
        PROVE  TellInv'
    BY <1>0, <2>4, TellPass
  <2>. QED  BY <2>1, <2>3, <2>4 DEF ScreenFrom
<1>3. CASE FetchPending \/ Dispatch \/ DispatchRaises
  <2>1. /\ pc \in {"pending", "got"} /\ pc' \in {"next", "loop", "pending", "crashed"}
        /\ UNCHANGED <<status, hooks, delivered, pel, dpc>>
    BY <1>0, <1>3, NothingRaises
    DEF FetchPending, Dispatch, DispatchRaises, AfterEmptyRead, Raise, At, otherVars,
        aroundVars, redisVars, hookVars, dlvVars
  <2>. QED  BY <1>0, <2>1, TellElsewhere DEF Acked
<1>4. CASE NextMessage
  <2>1. pc = "next" /\ UNCHANGED <<status, hooks, delivered, pel, dpc>>
    BY <1>4 DEF NextMessage, At, aroundVars, redisVars, hookVars, dlvVars
  <2>2. \/ pc' \in {"xrange", "status", "bExec", "loop"}
        \/ pc' = "ackEarly" /\ Kind[msg'] = "noKeys" /\ msg' \in todo
    BY <1>4 DEF NextMessage, ScreenFrom
  <2>3. pc' \in Telling \union Leaving => msg' \in Msgs /\ ~Reportable(msg')
    BY <2>2 DEF Reportable, LedgerInv, TypeInv, TypeOK
  <2>. QED  BY <1>0, <2>1, <2>3, TellElsewhere DEF Acked
<1>5. CASE ReadGroup
  <2>. DEFINE new == FirstOf(Unread, ReadCount)
  <2>1. /\ pc = "read" /\ pc' = "got" /\ UNCHANGED <<status, hooks, dpc>>
        /\ delivered' = delivered \union new /\ pel' = pel \union new
    BY <1>0, <1>5, NothingRaises DEF ReadGroup, At, aroundVars, hookVars, dlvVars
  <2>2. \A m \in new : m \notin delivered
    BY DEF FirstOf, Unread
  <2>3. \A m \in Msgs : Acked(m)' <=> Acked(m)
    <3>. HIDE DEF new
    <3>. QED  BY <2>1, <2>2 DEF Acked
  <2>. QED  BY <1>0, <2>1, <2>3, TellElsewhere
<1>. QED  BY <1>1, <1>2, <1>3, <1>4, <1>5 DEF LoopStep

\* The checks of a message, and _process_message.
LEMMA TellTaskStep ==
  ASSUME DistinctJobs, LedgerInv, TellInv, QuietStep, ScreenStep \/ ProcessStep
  PROVE  TellInv'
<1>. USE DEF Keeping, InTry, Telling, Leaving
<1>0. Quiet /\ TypeInv /\ (pc \in NeedsMsg => msg \in Msgs)
  BY DEF QuietStep, LedgerInv, TypeInv, FrameOK
<1>1. CASE GetStatus
  <2>1. Pass("status", IF St(msg) \in Finished THEN "ackEarly" ELSE "flag")
    BY <1>0, <1>1, NothingRaises DEF GetStatus, St, job
  <2>2. pc = "status" /\ msg \in Msgs
    BY <1>0, <2>1 DEF Pass, At, NeedsMsg
  <2>3. dpc[msg] = "none"
    BY <2>2, TaskAlone DEF LedgerInv, Screening
  <2>4. Reportable(msg) /\ St(msg) \in Finished => Told(msg)
    BY <1>0, <2>2, <2>3 DEF TellInv, TellBound, BeingTold, Blank, Finished
  <2>5. CASE St(msg) \in Finished
    BY <1>0, <2>1, <2>2, <2>4, <2>5, TellPass
  <2>6. CASE St(msg) \notin Finished
    BY <1>0, <2>1, <2>6, TellPass
  <2>. QED  BY <2>5, <2>6
<1>2. CASE GetFlag
  <2>1. CASE Pass("flag", "markEarly")
    BY <1>0, <2>1, TellPass
  <2>2. CASE ~Pass("flag", "markEarly")
    <3>1. /\ pc = "flag" /\ UNCHANGED <<status, hooks, delivered, pel, dpc, msg>>
          /\ \/ pc' \in {"next", "exec"}
             \/ pc' = "ackEarly" /\ Kind[msg] = "badIR" /\ mode = "batch"
      BY <1>0, <1>2, <2>2, NothingRaises
      DEF GetFlag, At, GoTo, frameVars, otherVars, aroundVars, redisVars, hookVars, dlvVars
    <3>2. pc' \in Telling \union Leaving => msg' \in Msgs /\ ~Reportable(msg')
      BY <1>0, <3>1 DEF NeedsMsg, Reportable, LedgerInv, ListInv, ListsWalked
    <3>. QED  BY <1>0, <3>1, <3>2, TellElsewhere DEF Acked
  <2>. QED  BY <2>1, <2>2
<1>3. CASE MarkEarly \/ MarkExecuting \/ MarkCompleted \/ MarkCancelled \/ MarkFailed
  <2>1. CASE WriteStatus("markEarly", "cancelled", "ackEarly")
    BY <2>1, TellWrite DEF States
  <2>2. ASSUME NEW q \in {"errChk", "run"}, WriteStatus("exec", "executing", q)
        PROVE  TellInv'
    BY <2>2, TellWrite DEF States
  <2>3. CASE WriteStatus("done", "completed", "chkSend")
    BY <2>3, TellWrite DEF States
  <2>4. CASE WriteStatus("mark", "cancelled", "fin")
    BY <2>4, TellWrite DEF States
  <2>5. CASE WriteStatus("fail", "failed", "sendErr")
    BY <2>5, TellWrite DEF States
  <2>. QED
    BY <1>0, <1>3, <2>1, <2>2, <2>3, <2>4, <2>5, NothingRaises
    DEF MarkEarly, MarkExecuting, MarkCompleted, MarkCancelled, MarkFailed
<1>4. CASE AckEarly \/ FinallyBlock
  BY <1>4, TellAck
<1>5. CASE ExecutorFinishes
  <2>1. pc = "run" /\ pc' \in {"errChk", "chkRun"}
        /\ UNCHANGED <<status, hooks, delivered, pel, dpc>>
    BY <1>5
    DEF ExecutorFinishes, Pass, At, GoTo, otherVars, aroundVars, redisVars, hookVars, dlvVars
  <2>. QED  BY <1>0, <2>1, TellElsewhere DEF Acked
<1>6. CASE PollCancel \/ RequestRunnerCancel \/ ReapRunTask \/ CheckCancelOnError
  BY <1>0, <1>6, TellPass, NothingRaises
  DEF PollCancel, RequestRunnerCancel, ReapRunTask, CheckCancelOnError
<1>7. ASSUME NEW p \in {"chkRun", "chkDone", "chkSend"}, NEW q \in {"chkDone", "done", "send"},
             p = "chkSend" <=> q = "send", CheckCancel(p, q)
      PROVE  TellInv'
  BY <1>0, <1>7, TellPass, NothingRaises DEF CheckCancel
<1>8. CASE SendResult \/ SendError
  BY <1>8, TellSend
<1>9. CASE ScreenStep
  BY <1>1, <1>2, <1>3, <1>4, <1>9 DEF ScreenStep
<1>10. CASE ProcessStep
  BY <1>3, <1>4, <1>5, <1>6, <1>7, <1>8, <1>10 DEF ProcessStep
<1>. QED  BY <1>9, <1>10

\* A batch marks jobs of which nothing is known, and hands them over.
LEMMA TellBatchStep ==
  ASSUME DistinctJobs, LedgerInv, TellInv, QuietStep, BatchStep
  PROVE  TellInv'
<1>. USE DEF Telling, Leaving
<1>0. Quiet /\ TypeInv
  BY DEF QuietStep, LedgerInv
<1>1. CASE BatchMarkExecuting
  <2>1. PICK x \in todo : SafeHSet(JobOf[x], "executing")
    BY <1>0, <1>1, NothingRaises DEF BatchMarkExecuting
  <2>2. pc = "bExec" /\ UNCHANGED <<pc, msg, dpc, delivered, pel, hooks>>
    BY <1>0, <1>1, NothingRaises DEF BatchMarkExecuting, At, aroundVars, hookVars, dlvVars
  <2>3. x \in Msgs /\ x \in parsed
    BY <2>2 DEF LedgerInv, ListInv, ListsWalked, TypeInv, TypeOK
  <2>4. status' = [status EXCEPT ![JobOf[x]] = "executing"]
    BY <1>0, <2>1, NothingRaises DEF SafeHSet
  <2>5. \A m \in Msgs : m # x => St(m)' = St(m)
    BY <2>3, <2>4, ConstantsAssumption DEF St, DistinctJobs, TypeInv, TypeOK
  <2>6. ASSUME NEW m \in Msgs, m # x, Reportable(m)
        PROVE  TellBound(m)'
    BY <1>0, <2>2, <2>5, <2>6, TellStay DEF TellInv, BeingTold, Acked
  <2>7. ASSUME NEW m \in Msgs, m = x, Reportable(m)
        PROVE  TellBound(m)'
    <3>1. m \in pel
      BY <1>0, <2>3, <2>7 DEF LedgerInv, SettleInv, ListsSettle, Open, Quiet
    <3>2. dpc[m] = "none"
      BY <2>2, TaskAlone DEF LedgerInv, Busy
    <3>3. Blank(m)
      BY <1>0, <2>2, <2>7, <3>1, <3>2 DEF TellInv, TellBound, BeingTold, Acked
    <3>4. St(m)' = "executing"
      BY <1>0, <2>3, <2>4, <2>7, ConstantsAssumption DEF St, TypeInv, TypeOK
    <3>. QED  BY <2>2, <3>1, <3>2, <3>3, <3>4 DEF TellBound, Blank, Acked
  <2>. QED  BY <2>6, <2>7 DEF TellInv, Reportable
<1>2. CASE BatchStart \/ BatchFallsBack
  <2>1. pc \in {"bExec", "bRun"} /\ pc' \in {"bRun", "next"}
        /\ UNCHANGED <<status, hooks, delivered, pel, dpc>>
    BY <1>2
    DEF BatchStart, BatchFallsBack, Pass, At, GoTo, otherVars, aroundVars, redisVars, hookVars,
        dlvVars
  <2>. QED  BY <1>0, <2>1, TellElsewhere DEF Acked
<1>3. CASE BatchSucceeds
  <2>1. /\ pc = "bRun" /\ pc' = "loop" /\ UNCHANGED <<status, hooks, delivered, pel>>
        /\ \A m \in Msgs : dpc'[m] = dpc[m] \/ dpc'[m] \in {"none", "chk1"}
    BY <1>3 DEF BatchSucceeds, At, redisVars, hookVars
  <2>2. \A m \in Msgs : dpc[m] = "none"
    BY <2>1, TaskAlone DEF LedgerInv, Busy
  <2>. QED  BY <1>0, <2>1, <2>2, TellElsewhere DEF Acked
<1>. QED  BY <1>1, <1>2, <1>3 DEF BatchStep

\* A delivery records its job, reports it, and acknowledges the message.
LEMMA TellDeliveryStep ==
  ASSUME DistinctJobs, LedgerInv, TellInv, QuietStep, NEW x \in Msgs, DeliveryStep(x)
  PROVE  TellInv'
<1>0. Quiet /\ TypeInv
  BY DEF QuietStep, LedgerInv
<1>1. /\ dpc[x] # "none" /\ \A m \in Msgs : m # x => dpc'[m] = dpc[m]
      /\ UNCHANGED <<pc, msg, delivered>>
  BY <1>0, DeliveryLeaves DEF taskVars, frameVars
<1>2. pc \notin Telling \union Leaving
  BY <1>1, TaskAlone DEF LedgerInv, Busy, InTry, Screening, Telling, Leaving
<1>3. \/ /\ dpc[x] \in {"chk1", "chk2"} /\ UNCHANGED <<status, hooks, pel>>
         /\ dpc'[x] \in {"mark", "done"} \/ dpc'[x] = "send"
         /\ dpc'[x] = "send" <=> dpc[x] = "chk2" /\ ~Flagged(x)
         /\ dpc'[x] = "done" => dpc[x] = "chk1"
      \/ /\ dpc[x] = "done" /\ dpc'[x] = "chk2" /\ UNCHANGED <<hooks, pel>>
         /\ status' = [status EXCEPT ![JobOf[x]] = "completed"]
      \/ /\ dpc[x] = "mark" /\ dpc'[x] = "ack" /\ UNCHANGED <<hooks, pel>>
         /\ status' = [status EXCEPT ![JobOf[x]] = "cancelled"]
      \/ /\ dpc[x] = "send" /\ dpc'[x] = "ack" /\ UNCHANGED <<status, pel>>
         /\ hooks' = [hooks EXCEPT ![JobOf[x]] = @ \union {"completed"}]
      \/ dpc[x] = "ack" /\ dpc'[x] = "none" /\ UNCHANGED <<status, hooks>> /\ pel' = pel \ {x}
  <2>1. faults' # faults + 1
    BY DEF QuietStep
  <2>. QED
    BY <1>0, <2>1, DeliveryMoves, NothingRaises DEF SafeHSet, SafeXAck, PostAccepted
<1>4. ASSUME NEW m \in Msgs, m # x, Reportable(m)
      PROVE  TellBound(m)'
  <2>1. /\ St(m)' = St(m) /\ hooks'[JobOf[m]] = hooks[JobOf[m]]
        /\ Acked(m)' <=> Acked(m)
    BY <1>1, <1>3, <1>4, ConstantsAssumption DEF St, Acked, DistinctJobs, TypeInv, TypeOK, LedgerInv
  <2>. QED  BY <1>0, <1>1, <1>4, <2>1, TellStay DEF TellInv, BeingTold
<1>5. ASSUME Reportable(x)
      PROVE  TellBound(x)'
  <2>1. x \in pel /\ x \in delivered
    BY <1>0, <1>1, <1>5
    DEF LedgerInv, SettleInv, DeliverySettles, Open, Quiet, ListInv, ListsHandedOut
  <2>2. TellBound(x)
    BY <1>0, <1>5 DEF TellInv
  <2>3. dpc[x] \in {"chk1", "done"} => Blank(x)
    BY <1>2, <2>1, <2>2 DEF TellBound, BeingTold, Acked
  <2>4. pc' \notin Telling \union Leaving
    BY <1>1, <1>2
  <2>5. CASE dpc[x] \in {"chk1", "chk2"} /\ UNCHANGED <<status, hooks, pel>>
    <3>1. /\ ~Acked(x)' /\ hooks'[JobOf[x]] = {}
          /\ dpc'[x] \in {"mark", "send"} \/ (dpc'[x] = "done" /\ Blank(x)')
      BY <1>3, <2>1, <2>2, <2>3, <2>5 DEF TellBound, Acked, Blank, St
    <3>. QED  BY <2>4, <3>1 DEF TellBound, BeingTold
  <2>6. CASE /\ dpc[x] = "done" /\ dpc'[x] = "chk2" /\ UNCHANGED <<hooks, pel>>
    BY <2>1, <2>3, <2>4, <2>6 DEF TellBound, BeingTold, Acked, Blank
  <2>7. CASE /\ dpc[x] = "mark" /\ dpc'[x] = "ack" /\ UNCHANGED <<hooks, pel>>
             /\ status' = [status EXCEPT ![JobOf[x]] = "cancelled"]
    <3>1. Told(x)' /\ ~Acked(x)'
      BY <2>1, <2>2, <2>7, ConstantsAssumption
      DEF Told, St, Acked, TellBound, LedgerInv, TypeInv, TypeOK
    <3>. QED  BY <2>4, <2>7, <3>1 DEF TellBound, BeingTold
  <2>8. CASE /\ dpc[x] = "send" /\ dpc'[x] = "ack" /\ UNCHANGED <<status, pel>>
             /\ hooks' = [hooks EXCEPT ![JobOf[x]] = @ \union {"completed"}]
    <3>1. St(x) = "completed"
      BY <1>0, <2>8 DEF LedgerInv, SettleInv, DeliverySettles, Quiet
    <3>2. hooks'[JobOf[x]] = {"completed"}
      BY <2>2, <2>8, ConstantsAssumption DEF TellBound, LedgerInv, TypeInv, TypeOK
    <3>3. Told(x)' /\ ~Acked(x)'
      BY <2>1, <2>8, <3>1, <3>2 DEF Told, St, Acked
    <3>. QED  BY <2>4, <2>8, <3>3 DEF TellBound, BeingTold
  <2>9. CASE dpc[x] = "ack" /\ dpc'[x] = "none" /\ UNCHANGED <<status, hooks>> /\ pel' = pel \ {x}
    <3>1. Told(x)' /\ Acked(x)'
      BY <1>1, <2>1, <2>2, <2>9 DEF TellBound, Told, St, Acked
    <3>. QED  BY <2>4, <2>9, <3>1 DEF TellBound, BeingTold
  <2>. QED  BY <1>3, <2>5, <2>6, <2>7, <2>8, <2>9
<1>. QED  BY <1>4, <1>5 DEF TellInv, Reportable

\* A restart and the cloud; a crash or a shutdown is not quiet.
LEMMA TellOutsideStep ==
  ASSUME LedgerInv, TellInv, QuietStep,
         \/ StopRequested \/ DrainStep \/ Exit \/ Crash \/ Boot \/ Enqueue
         \/ \E j \in Jobs : RequestCancel(j)
         \/ \E m \in Msgs : Trim(m)
         \/ UNCHANGED vars
  PROVE  TellInv'
<1>. USE DEF taskVars, frameVars, cloudVars, redisVars, dlvVars, lifeVars, hookVars
<1>1. CASE StopRequested \/ DrainStep \/ Exit
  <2>1. stops' = stops + 1 \/ Closing
    BY <1>1
    DEF StopRequested, DrainStep, DrainClean, DrainRaises, DrainTimesOut, DrainDue, Exit, Closing
  <2>. QED  BY <2>1 DEF LedgerInv, RunInv, StopCounted, QuietStep, Quiet, Calm
<1>2. CASE Crash
  BY <1>2 DEF Crash, QuietStep
<1>3. CASE Boot
  <2>1. pc = "off" /\ pc' = "setup" /\ UNCHANGED <<status, hooks, delivered, pel, dpc>>
    BY <1>3 DEF Boot, LedgerInv, IdleInv, Down
  <2>. QED  BY <2>1, TellElsewhere DEF QuietStep, Acked, Telling, Leaving
<1>4. CASE \/ Enqueue
           \/ \E j \in Jobs : RequestCancel(j)
           \/ \E m \in Msgs : Trim(m)
           \/ UNCHANGED vars
  <2>1. UNCHANGED <<pc, msg, status, hooks, delivered, pel, dpc>>
    BY <1>4 DEF Enqueue, RequestCancel, Trim, CloudFrame, vars, otherVars, aroundVars
  <2>2. ASSUME NEW m \in Msgs, Reportable(m)
        PROVE  TellBound(m)'
    BY <2>1, <2>2, TellStay DEF TellInv, QuietStep, St, Acked, BeingTold
  <2>. QED  BY <2>2 DEF TellInv, Reportable
<1>. QED  BY <1>1, <1>2, <1>3, <1>4

\* While nothing has failed, an acknowledged job was reported exactly as its
\* status says: one terminal webhook, and none for a cancelled job.
THEOREM AckedJobsAreReported ==
  ASSUME DistinctJobs
  PROVE  Spec => []AckedIsReported
<1>1. Init => TellInv
  BY TellInit
<1>2. LedgerInv /\ TellInv /\ [Next]_vars => TellInv'
  <2>. SUFFICES ASSUME LedgerInv, TellInv, [Next]_vars, Quiet'
                PROVE  TellInv'
    BY DEF TellInv
  <2>1. QuietStep
    BY QuietStays DEF LedgerInv
  <2>. QED
    BY <2>1, DistinctJobs, TellLoopStep, TellTaskStep, TellBatchStep, TellDeliveryStep,
       TellOutsideStep
    DEF Next, ConsumerStep
<1>3. TellInv => AckedIsReported
  BY DEF TellInv, TellBound, Told, St, Quiet, Calm, AckedIsReported
<1>. QED  BY <1>1, <1>2, <1>3, LedgerCorrect, PTL DEF Spec
=============================================================================
