--------------------------- MODULE ConsumerProofs ---------------------------
(***************************************************************************)
(* Theorems about RedisConsumer for every number of messages and jobs and  *)
(* every bound on faults, crashes and shutdowns.                           *)
(***************************************************************************)
EXTENDS ConsumerProperties, TLAPS

-----------------------------------------------------------------------------
(* Types.  A job is looked up only where the frame holds a message. *)

NeedsMsg == InTry \union {"xrange", "status", "flag", "markEarly", "ackEarly", "exec", "fin"}

FrameOK == pc \in NeedsMsg => msg \in Msgs

TypeInv == TypeOK /\ FrameOK

\* A consumer that has just been created is well typed.
LEMMA TypeInit == Init => TypeInv
  BY ConstantsAssumption
  DEF Init, TypeInv, TypeOK, FrameOK, NeedsMsg, InTry, Busy, Screening, Over, PCs,
      DPCs, States, ErrKinds, Msgs

\* An exception that reaches consume_loop leaves the task at the head of the
\* loop or dead, with an empty frame.
LEMMA RaiseTypes ==
  ASSUME TypeInv, NEW k, Raise(k)
  PROVE  /\ redisHealthy' \in BOOLEAN /\ failures' \in Nat
         /\ pc' \in {"loop", "crashed"} /\ exc' = "none" /\ ctx' = ctx
         /\ DropFrame
<1>1. redisHealthy \in BOOLEAN /\ failures \in Nat
  BY DEF TypeInv, TypeOK
<1>2. redisHealthy' = FALSE \/ redisHealthy' = redisHealthy
  BY DEF Raise
<1>3. failures' = failures + 1 \/ failures' = failures
  BY DEF Raise
<1>4. redisHealthy' \in BOOLEAN
  BY <1>1, <1>2
<1>5. failures' \in Nat
  BY <1>1, <1>3
<1>6. pc' \in {"loop", "crashed"}
  BY DEF Raise
<1>7. exc' = "none" /\ ctx' = ctx /\ DropFrame
  BY DEF Raise
<1>. QED  BY <1>4, <1>5, <1>6, <1>7

\* A Redis error that ends in consume_loop's handlers keeps the types.
LEMMA FaultRaisedTypes ==
  ASSUME TypeInv, NEW K, FaultRaised(K)
  PROVE  TypeInv'
<1>1. PICK k : Lose(k) /\ Raise(k)
  BY DEF FaultRaised
<1>2. /\ redisHealthy' \in BOOLEAN /\ failures' \in Nat
      /\ pc' \in {"loop", "crashed"} /\ exc' = "none" /\ ctx' = ctx
      /\ DropFrame
  BY <1>1, RaiseTypes
<1>3. UNCHANGED <<aroundVars, redisVars, ownVars>>
  BY DEF FaultRaised
<1>. QED
  BY <1>1, <1>2, <1>3, ConstantsAssumption
  DEF TypeInv, TypeOK, FrameOK, NeedsMsg, InTry, Busy, Screening, Over, PCs,
      ErrKinds, Msgs, DropFrame, Lose,
      aroundVars, cloudVars, redisVars, hookVars, ownVars, dlvVars, lifeVars

\* A step that only moves on to the next await keeps the types.
LEMMA PassTypes ==
  ASSUME TypeInv, NEW p, NEW q \in PCs, q \in NeedsMsg => msg \in Msgs, Pass(p, q)
  PROVE  TypeInv'
  BY DEF Pass, GoTo, TypeInv, TypeOK, FrameOK, otherVars, aroundVars, cloudVars,
         redisVars, hookVars, frameVars, ownVars, backoffVars, dlvVars, lifeVars

\* A status write of _safe_hset, lost or not, keeps the types.
LEMMA WriteStatusTypes ==
  ASSUME TypeInv, NEW p, NEW s \in States, NEW q \in PCs, msg \in Msgs,
         WriteStatus(p, s, q)
  PROVE  TypeInv'
<1>1. status' \in [Jobs -> States] /\ faults' \in 0 .. MaxFaults
  BY ConstantsAssumption DEF WriteStatus, SafeHSet, Lose, TypeInv, TypeOK
<1>. QED
  BY <1>1
  DEF WriteStatus, GoTo, TypeInv, TypeOK, FrameOK, aroundVars, cloudVars,
      hookVars, frameVars, ownVars, backoffVars, dlvVars, lifeVars

\* An error inside the try block of _process_message keeps the types.
LEMMA FaultInTryTypes ==
  ASSUME TypeInv, msg \in Msgs, NEW K, FaultInTry(K)
  PROVE  TypeInv'
  BY ConstantsAssumption
  DEF FaultInTry, Lose, GoTo, TypeInv, TypeOK, FrameOK, InTry, Busy, PCs, otherVars,
      aroundVars, cloudVars, redisVars, hookVars, frameVars, ownVars, backoffVars,
      dlvVars, lifeVars

\* An error inside the handlers of _process_message keeps the types.
LEMMA FaultInHandlerTypes ==
  ASSUME TypeInv, msg \in Msgs, NEW K, FaultInHandler(K)
  PROVE  TypeInv'
  BY ConstantsAssumption
  DEF FaultInHandler, Lose, TypeInv, TypeOK, FrameOK, Busy, PCs, ErrKinds, otherVars,
      aroundVars, cloudVars, redisVars, hookVars, frameVars, ownVars, backoffVars,
      dlvVars, lifeVars

\* The task's own steps of setup, recover_pending and consume_loop.
LEMMA TypeLoopStep ==
  ASSUME TypeInv, LoopStep
  PROVE  TypeInv'
<1>. USE ConstantsAssumption
     DEF TypeInv, TypeOK, FrameOK, NeedsMsg, InTry, Busy, Screening, Over, PCs,
         cloudVars, redisVars, hookVars, frameVars, ownVars, backoffVars, dlvVars,
         lifeVars, aroundVars, otherVars, At, DropFrame
<1>1. CASE Setup
  BY <1>1, PassTypes, FaultRaisedTypes DEF Setup
<1>2. CASE FetchPending
  <2>1. CASE At("pending") /\ FaultRaised(ErrKinds)
    BY <2>1, FaultRaisedTypes
  <2>2. FirstOf(pel, PendingCount) \subseteq pel
    BY DEF FirstOf
  <2>. QED  BY <1>2, <2>1, <2>2 DEF FetchPending
<1>3. CASE NextMessage
  <2>1. UNCHANGED <<aroundVars, redisVars, backoffVars, exc, running, currentJob, faults>>
    BY <1>3 DEF NextMessage
  <2>2. ASSUME NEW m \in todo,
               msg' = m /\ todo' = todo \ {m},
               pc' = IF mode = "recover" THEN "xrange" ELSE ScreenFrom(m),
               UNCHANGED <<ctx, mode, batch, parsed, idle>>
        PROVE  TypeInv'
    BY <2>1, <2>2 DEF ScreenFrom
  <2>3. CASE /\ idle' = FALSE
             /\ todo' = parsed /\ pc' = "bExec"
             /\ UNCHANGED <<ctx, mode, msg, batch, parsed>>
    <3>1. idle' \in BOOLEAN
      BY <2>3
    <3>. QED  BY <2>1, <2>3, <3>1
  <2>4. CASE /\ ctx' = "loop" /\ pc' = "loop"
             /\ DropFrame /\ UNCHANGED idle
    BY <2>1, <2>4
  <2>. QED  BY <1>3, <2>2, <2>3, <2>4 DEF NextMessage
<1>4. CASE FetchRecovered
  <2>1. CASE At("xrange") /\ FaultRaised(ErrKinds)
    BY <2>1, FaultRaisedTypes
  <2>2. CASE Pass("xrange", IF msg \in trimmed THEN "next" ELSE ScreenFrom(msg))
    <3>1. msg \in Msgs
      BY <2>2 DEF Pass
    <3>. QED  BY <2>2, <3>1, PassTypes DEF ScreenFrom
  <2>. QED  BY <1>4, <2>1, <2>2 DEF FetchRecovered
<1>5. CASE LoopTest
  BY <1>5, PassTypes DEF LoopTest
<1>6. CASE ReadGroup
  <2>. DEFINE new == FirstOf(Unread, ReadCount)
  <2>1. new \in SUBSET Msgs
    BY DEF FirstOf, Unread, Msgs
  <2>2. delivered' \in SUBSET Msgs /\ pel' \in SUBSET Msgs
    BY <1>6, <2>1 DEF ReadGroup
  <2>3. UNCHANGED <<aroundVars, ownVars, status>>
    BY <1>6 DEF ReadGroup
  <2>4. CASE \E k \in FaultKinds : Lose(k) /\ Raise(k)
    <3>1. PICK k \in FaultKinds : Lose(k) /\ Raise(k)
      BY <2>4
    <3>2. /\ redisHealthy' \in BOOLEAN /\ failures' \in Nat
          /\ pc' \in {"loop", "crashed"} /\ exc' = "none" /\ ctx' = ctx
          /\ DropFrame
      BY <3>1, RaiseTypes
    <3>3. faults' \in 0 .. MaxFaults
      BY <3>1 DEF Lose
    <3>. QED  BY <2>2, <2>3, <3>2, <3>3
  <2>5. CASE /\ todo' = new /\ batch' = new /\ pc' = "got"
             /\ redisHealthy' = TRUE /\ failures' = 0
             /\ UNCHANGED <<ctx, exc, mode, msg, parsed, faults>>
    BY <2>1, <2>2, <2>3, <2>5
  <2>. QED  BY <1>6, <2>4, <2>5 DEF ReadGroup
<1>7. CASE Dispatch
  BY <1>7 DEF Dispatch, AfterEmptyRead
<1>8. CASE DispatchRaises
  <2>1. /\ redisHealthy' \in BOOLEAN /\ failures' \in Nat
        /\ pc' \in {"loop", "crashed"} /\ exc' = "none" /\ ctx' = ctx
        /\ DropFrame
    BY <1>8, RaiseTypes DEF DispatchRaises
  <2>2. UNCHANGED <<aroundVars, redisVars, ownVars, faults>>
    BY <1>8 DEF DispatchRaises
  <2>. QED  BY <2>1, <2>2
<1>. QED  BY <1>1, <1>2, <1>3, <1>4, <1>5, <1>6, <1>7, <1>8 DEF LoopStep

\* The checks before a message is processed keep the types.
LEMMA TypeScreenStep ==
  ASSUME TypeInv, ScreenStep
  PROVE  TypeInv'
<1>. USE ConstantsAssumption
     DEF TypeInv, TypeOK, FrameOK, NeedsMsg, InTry, Busy, Screening, Over, PCs, States,
         cloudVars, redisVars, hookVars, frameVars, ownVars, backoffVars, dlvVars,
         lifeVars, aroundVars, otherVars, At, GoTo
<1>0. pc \in {"status", "flag", "markEarly", "ackEarly"} /\ msg \in Msgs /\ job \in Jobs
  BY DEF ScreenStep, GetStatus, GetFlag, MarkEarly, AckEarly, Pass, WriteStatus, job
<1>1. CASE GetStatus
  BY <1>0, <1>1, PassTypes, FaultRaisedTypes DEF GetStatus
<1>2. CASE GetFlag
  <2>1. CASE At("flag") /\ FaultRaised(ErrKinds)
    BY <2>1, FaultRaisedTypes
  <2>2. CASE Pass("flag", "markEarly")
    BY <1>0, <2>2, PassTypes
  <2>3. CASE /\ \/ pc' = "ackEarly" /\ UNCHANGED parsed
                \/ pc' = "next" /\ parsed' = parsed \union {msg}
             /\ UNCHANGED <<otherVars, ctx, exc, mode, msg, todo, batch, faults>>
    BY <1>0, <2>3
  <2>4. CASE /\ idle' = FALSE /\ currentJob' = job
             /\ GoTo("exec")
             /\ UNCHANGED <<aroundVars, redisVars, backoffVars, running, faults>>
    <3>1. idle' \in BOOLEAN
      BY <2>4
    <3>. QED  BY <1>0, <2>4, <3>1
  <2>. QED  BY <1>2, <2>1, <2>2, <2>3, <2>4 DEF GetFlag
<1>3. CASE MarkEarly
  BY <1>0, <1>3, WriteStatusTypes, FaultRaisedTypes DEF MarkEarly
<1>4. CASE AckEarly
  <2>1. CASE At("ackEarly") /\ FaultRaised({"other"})
    BY <2>1, FaultRaisedTypes
  <2>2. CASE SafeXAck(msg) /\ GoTo("next")
             /\ UNCHANGED <<aroundVars, ownVars, backoffVars, delivered, status>>
    BY <2>2 DEF SafeXAck, Lose
  <2>. QED  BY <1>4, <2>1, <2>2 DEF AckEarly
<1>. QED  BY <1>1, <1>2, <1>3, <1>4 DEF ScreenStep

\* The steps of _process_message keep the types.
LEMMA TypeProcessStep ==
  ASSUME TypeInv, ProcessStep
  PROVE  TypeInv'
<1>. USE ConstantsAssumption
     DEF TypeInv, TypeOK, FrameOK, NeedsMsg, InTry, Busy, Screening, Over, PCs, States,
         cloudVars, redisVars, hookVars, frameVars, ownVars, backoffVars, dlvVars,
         lifeVars, aroundVars, otherVars, At, GoTo
<1>0. msg \in Msgs
  BY DEF ProcessStep, MarkExecuting, ExecutorFinishes, PollCancel, RequestRunnerCancel,
         ReapRunTask, CheckCancel, MarkCompleted, SendResult, CheckCancelOnError,
         MarkCancelled, MarkFailed, SendError, FinallyBlock, Pass, WriteStatus
<1>1. CASE MarkExecuting
  BY <1>0, <1>1, WriteStatusTypes, FaultRaisedTypes DEF MarkExecuting
<1>2. CASE ExecutorFinishes
  <2>1. CASE Pass("run", "errChk")
    BY <1>0, <2>1, PassTypes
  <2>2. CASE /\ runs' = [runs EXCEPT ![msg] = @ + 1]
             /\ GoTo("chkRun")
             /\ UNCHANGED <<cloudVars, redisVars, hookVars, ownVars, backoffVars,
                            dlvVars, lifeVars, faults>>
    BY <1>0, <2>2
  <2>. QED  BY <1>2, <2>1, <2>2 DEF ExecutorFinishes
<1>3. CASE PollCancel
  BY <1>0, <1>3, PassTypes, FaultInTryTypes DEF PollCancel
<1>4. CASE RequestRunnerCancel \/ ReapRunTask
  BY <1>0, <1>4, PassTypes DEF RequestRunnerCancel, ReapRunTask
<1>5. ASSUME NEW p, NEW q \in InTry, CheckCancel(p, q)
      PROVE  TypeInv'
  BY <1>0, <1>5, PassTypes, FaultInTryTypes DEF CheckCancel
<1>6. CASE MarkCompleted
  BY <1>0, <1>6, WriteStatusTypes, FaultInTryTypes DEF MarkCompleted
<1>7. ASSUME NEW s \in {"completed", "failed"},
             PostAccepted(job, s) \/ PostRaises(job, s)
      PROVE  hooks' \in [Jobs -> SUBSET {"completed", "failed"}]
             /\ hookFaults' \in 0 .. MaxHookFaults
  BY <1>7 DEF PostAccepted, PostRaises
<1>8. CASE SendResult
  <2>1. hooks' \in [Jobs -> SUBSET {"completed", "failed"}]
        /\ hookFaults' \in 0 .. MaxHookFaults
    BY <1>7, <1>8 DEF SendResult
  <2>2. GoTo("fin") \/ GoTo("errChk")
    BY <1>8 DEF SendResult
  <2>. QED  BY <1>0, <1>8, <2>1, <2>2 DEF SendResult
<1>9. CASE CheckCancelOnError
  BY <1>0, <1>9, PassTypes, FaultInHandlerTypes DEF CheckCancelOnError
<1>10. CASE MarkCancelled
  BY <1>0, <1>10, WriteStatusTypes, FaultInHandlerTypes DEF MarkCancelled
<1>11. CASE MarkFailed
  BY <1>0, <1>11, WriteStatusTypes, FaultInHandlerTypes DEF MarkFailed
<1>12. CASE SendError
  <2>1. hooks' \in [Jobs -> SUBSET {"completed", "failed"}]
        /\ hookFaults' \in 0 .. MaxHookFaults
    BY <1>7, <1>12 DEF SendError
  <2>. QED  BY <1>0, <1>12, <2>1 DEF SendError
<1>13. CASE FinallyBlock
  <2>1. CASE At("fin") /\ FaultRaised({"other"})
    BY <2>1, FaultRaisedTypes
  <2>2. CASE /\ SafeXAck(msg)
             /\ currentJob' = "noJob" /\ idle' = TRUE
             /\ \/ GoTo("next") /\ UNCHANGED backoffVars
                \/ Raise(exc)
                \/ pc' = "ended" /\ exc' = "none" /\ DropFrame
                   /\ UNCHANGED <<ctx, backoffVars>>
             /\ UNCHANGED <<aroundVars, delivered, status, running>>
    <3>1. pel' \in SUBSET Msgs /\ faults' \in 0 .. MaxFaults
      BY <2>2 DEF SafeXAck, Lose
    <3>2. CASE Raise(exc)
      <4>1. /\ redisHealthy' \in BOOLEAN /\ failures' \in Nat
            /\ pc' \in {"loop", "crashed"} /\ exc' = "none" /\ ctx' = ctx
            /\ DropFrame
        BY <3>2, RaiseTypes
      <4>. QED  BY <2>2, <3>1, <4>1 DEF DropFrame
    <3>3. CASE GoTo("next") /\ UNCHANGED backoffVars
      BY <2>2, <3>1, <3>3
    <3>4. CASE pc' = "ended" /\ exc' = "none" /\ DropFrame
               /\ UNCHANGED <<ctx, backoffVars>>
      BY <2>2, <3>1, <3>4 DEF DropFrame
    <3>. QED  BY <2>2, <3>2, <3>3, <3>4
  <2>. QED  BY <1>13, <2>1, <2>2 DEF FinallyBlock
<1>. QED
  BY <1>1, <1>2, <1>3, <1>4, <1>5, <1>6, <1>8, <1>9, <1>10, <1>11, <1>12, <1>13
  DEF ProcessStep

\* The steps of _process_batch keep the types.
LEMMA TypeBatchStep ==
  ASSUME TypeInv, BatchStep
  PROVE  TypeInv'
<1>. USE ConstantsAssumption
     DEF TypeInv, TypeOK, FrameOK, NeedsMsg, InTry, Busy, Screening, Over, PCs, States,
         cloudVars, redisVars, hookVars, frameVars, ownVars, backoffVars, dlvVars,
         lifeVars, aroundVars, otherVars, At, DropFrame
<1>1. CASE BatchMarkExecuting
  <2>1. CASE FaultRaised({"other"})
    BY <2>1, FaultRaisedTypes
  <2>2. ASSUME NEW m \in todo,
               SafeHSet(JobOf[m], "executing"),
               todo' = todo \ {m},
               UNCHANGED <<aroundVars, ownVars, backoffVars, delivered, pel, pc, ctx,
                           exc, mode, msg, batch, parsed>>
        PROVE  TypeInv'
    BY <2>2 DEF SafeHSet, Lose
  <2>. QED  BY <1>1, <2>1, <2>2 DEF BatchMarkExecuting
<1>2. CASE BatchStart
  BY <1>2, PassTypes DEF BatchStart
<1>3. CASE BatchSucceeds
  <2>1. dpc' \in [Msgs -> DPCs] /\ runs' \in [Msgs -> Nat]
    BY <1>3 DEF BatchSucceeds, DPCs
  <2>2. dtask' \in {"running", "other"} /\ idle' \in BOOLEAN
    BY <1>3 DEF BatchSucceeds
  <2>. QED  BY <1>3, <2>1, <2>2 DEF BatchSucceeds, ErrKinds
<1>4. CASE BatchFallsBack
  BY <1>4 DEF BatchFallsBack
<1>. QED  BY <1>1, <1>2, <1>3, <1>4 DEF BatchStep

\* The deliveries of a batch.
LEMMA TypeDeliveryStep ==
  ASSUME TypeInv, NEW m \in Msgs, DeliveryStep(m)
  PROVE  TypeInv'
<1>. USE ConstantsAssumption
     DEF TypeInv, TypeOK, FrameOK, taskVars, frameVars, backoffVars, cloudVars, lifeVars,
         hookVars, DeliveryFrame
<1>1. ASSUME NEW p \in DPCs, DeliveryGoesTo(m, p)
      PROVE  dpc' \in [Msgs -> DPCs] /\ idle' \in BOOLEAN
             /\ dtask' \in ErrKinds \union {"none", "running", "ok", "cancelled"}
  BY <1>1 DEF DeliveryGoesTo
<1>2. ASSUME NEW K, DeliveryRaises(m, K)
      PROVE  /\ dpc' \in [Msgs -> DPCs] /\ idle' \in BOOLEAN
             /\ dtask' \in ErrKinds \union {"none", "running", "ok", "cancelled"}
             /\ faults' \in 0 .. MaxFaults
  <2>1. idle' = TRUE \/ idle' = idle
    BY <1>2 DEF DeliveryRaises
  <2>2. idle' \in BOOLEAN
    BY <2>1
  <2>. QED  BY <1>2, <2>2 DEF DeliveryRaises, Lose, DPCs
<1>3. CASE DeliveryChecks(m)
  <2>1. /\ dpc' \in [Msgs -> DPCs] /\ idle' \in BOOLEAN
        /\ dtask' \in ErrKinds \union {"none", "running", "ok", "cancelled"}
        /\ faults' \in 0 .. MaxFaults
    BY <1>1, <1>2, <1>3 DEF DeliveryChecks, DPCs
  <2>. QED  BY <1>3, <2>1 DEF DeliveryChecks
<1>4. CASE DeliveryMarks(m)
  <2>1. /\ dpc' \in [Msgs -> DPCs] /\ idle' \in BOOLEAN
        /\ dtask' \in ErrKinds \union {"none", "running", "ok", "cancelled"}
        /\ faults' \in 0 .. MaxFaults
    BY <1>1, <1>2, <1>4 DEF DeliveryMarks, DPCs, SafeHSet, Lose
  <2>2. status' \in [Jobs -> States]
    BY <1>4 DEF DeliveryMarks, SafeHSet, States
  <2>. QED  BY <1>4, <2>1, <2>2 DEF DeliveryMarks
<1>5. CASE DeliverySends(m)
  <2>1. /\ dpc' \in [Msgs -> DPCs] /\ idle' \in BOOLEAN
        /\ dtask' \in ErrKinds \union {"none", "running", "ok", "cancelled"}
    BY <1>1, <1>5 DEF DeliverySends, DPCs
  <2>2. hooks' \in [Jobs -> SUBSET {"completed", "failed"}]
        /\ hookFaults' \in 0 .. MaxHookFaults
    BY <1>5 DEF DeliverySends, PostAccepted, PostRaises
  <2>. QED  BY <1>5, <2>1, <2>2 DEF DeliverySends
<1>6. CASE DeliveryAcks(m)
  <2>1. /\ dpc' \in [Msgs -> DPCs] /\ idle' \in BOOLEAN
        /\ dtask' \in ErrKinds \union {"none", "running", "ok", "cancelled"}
        /\ faults' \in 0 .. MaxFaults
    BY <1>1, <1>2, <1>6 DEF DeliveryAcks, DPCs, SafeXAck, Lose
  <2>2. pel' \in SUBSET Msgs
    BY <1>6 DEF DeliveryAcks, SafeXAck
  <2>. QED  BY <1>6, <2>1, <2>2 DEF DeliveryAcks
<1>. QED  BY <1>3, <1>4, <1>5, <1>6 DEF DeliveryStep

\* Shutdown, crash and restart.
LEMMA TypeLifeStep ==
  ASSUME TypeInv, StopRequested \/ DrainStep \/ Exit \/ Crash \/ Boot
  PROVE  TypeInv'
<1>. USE ConstantsAssumption
     DEF TypeInv, TypeOK, FrameOK, NeedsMsg, InTry, Busy, Screening, Over, PCs,
         cloudVars, redisVars, hookVars, frameVars, taskVars, backoffVars, dlvVars,
         lifeVars, DropFrame
<1>1. CASE StopRequested
  <2>1. running' \in BOOLEAN
    BY <1>1 DEF StopRequested
  <2>. QED  BY <1>1, <2>1 DEF StopRequested
<1>2. ASSUME CancelConsumer,
             sd' \in {"up", "draining", "joining", "down"},
             drained' \in {"none", "clean", "timeout", "error"},
             dtask' \in ErrKinds \union {"none", "running", "ok", "cancelled"}
      PROVE  TypeInv'
  <2>1. dpc' \in [Msgs -> DPCs]
    BY <1>2 DEF CancelConsumer, DPCs
  <2>2. idle' \in BOOLEAN
    BY <1>2 DEF CancelConsumer
  <2>3. pel' \in SUBSET Msgs /\ status' \in [Jobs -> States]
    BY <1>2 DEF CancelConsumer, States
  <2>4. /\ pc' \in PCs /\ exc' \in ErrKinds \union {"none", "cancel"}
        /\ mode' \in {"none", "recover", "single", "batch"}
        /\ msg' \in Msgs \union {0}
        /\ todo' \in SUBSET Msgs /\ batch' \in SUBSET Msgs /\ parsed' \in SUBSET Msgs
        /\ pc' \in NeedsMsg => msg' \in Msgs
    BY <1>2 DEF CancelConsumer
  <2>5. UNCHANGED <<cloudVars, hookVars, backoffVars, delivered, ctx, running,
                    currentJob, crashes, stops, runs, faults>>
    BY <1>2 DEF CancelConsumer
  <2>. QED  BY <1>2, <2>1, <2>2, <2>3, <2>4, <2>5
<1>3. CASE DrainStep
  BY <1>2, <1>3 DEF DrainStep, DrainClean, DrainRaises, DrainTimesOut
<1>4. ASSUME ProcessDies, crashes' \in 0 .. MaxCrashes
      PROVE  TypeInv'
  <2>1. running' \in BOOLEAN /\ idle' \in BOOLEAN /\ redisHealthy' \in BOOLEAN
    BY <1>4 DEF ProcessDies
  <2>. QED  BY <1>4, <2>1 DEF ProcessDies, DPCs, ErrKinds
<1>5. CASE Exit
  BY <1>4, <1>5 DEF Exit
<1>6. CASE Crash
  BY <1>4, <1>6 DEF Crash
<1>7. CASE Boot
  <2>1. running' \in BOOLEAN
    BY <1>7 DEF Boot
  <2>. QED  BY <1>7, <2>1 DEF Boot
<1>. QED  BY <1>1, <1>3, <1>5, <1>6, <1>7

\* New jobs, cancel flags and trimming keep the types.
LEMMA TypeCloudStep ==
  ASSUME TypeInv,
         \/ Enqueue
         \/ \E j \in Jobs : RequestCancel(j)
         \/ \E m \in Msgs : Trim(m)
  PROVE  TypeInv'
  BY ConstantsAssumption
  DEF Enqueue, RequestCancel, Trim, CloudFrame, TypeInv, TypeOK, FrameOK, redisVars,
      hookVars, frameVars, taskVars, ownVars, backoffVars, dlvVars, lifeVars

\* A stuttering step keeps the types.
LEMMA TypeStutter ==
  ASSUME TypeInv, UNCHANGED vars
  PROVE  TypeInv'
  BY DEF TypeInv, TypeOK, FrameOK, vars, otherVars, aroundVars, cloudVars, redisVars,
         hookVars, frameVars, taskVars, ownVars, backoffVars, dlvVars, lifeVars

\* Every step keeps the types.
LEMMA TypeInductive ==
  ASSUME TypeInv, [Next]_vars
  PROVE  TypeInv'
  BY TypeLoopStep, TypeScreenStep, TypeProcessStep, TypeBatchStep, TypeDeliveryStep,
     TypeLifeStep, TypeCloudStep, TypeStutter
  DEF Next, ConsumerStep

\* The typing invariant, with the frame, holds throughout.
LEMMA TypeCorrect == Spec => []TypeInv
<1>1. Init => TypeInv
  BY TypeInit
<1>2. TypeInv /\ [Next]_vars => TypeInv'
  BY TypeInductive
<1>. QED  BY <1>1, <1>2, PTL DEF Spec

\* Whatever fails, crashes or is cancelled, all state keeps its type: a job
\* is never looked up without a message, no status, webhook or attribute
\* takes a value the code does not write.
THEOREM TypeSafety == Spec => []TypeOK
  BY TypeCorrect, PTL DEF TypeInv

-----------------------------------------------------------------------------
(* The idle event and the deliveries of a batch.                           *)
(*                                                                         *)
(* That the idle event is cleared while work is in progress is not         *)
(* inductive by itself: the deliveries set it, and they run beside the     *)
(* loop.  It holds because the loop keeps away from messages as long as it *)
(* refers to a delivery task (Apart), because no delivery outlives that    *)
(* reference (Owned), and because only a drain that timed out puts a       *)
(* CancelledError in the finally block (Cut).                              *)

Apart == dtask # "none" => pc \in {"loop", "read", "got"} \union Over

Owned == \A m \in Msgs : dpc[m] # "none" => dtask \in ErrKinds \union {"running"}

Cut ==
  /\ exc # "none" => pc = "fin"
  /\ exc = "cancel" => sd = "joining" /\ drained = "timeout"

Down == sd = "down" => pc = "off"

Cleared ==
  /\ pc \in Busy => ~idle
  /\ dtask = "running" => ~idle

IdleInv == Cleared /\ Apart /\ Owned /\ Cut /\ Down

\* A consumer that has just been created is idle and does nothing.
LEMMA IdleInit == Init => IdleInv
  BY DEF Init, IdleInv, Cleared, Apart, Owned, Cut, Down, Busy, InTry

\* A step of the task that leaves the deliveries and the shutdown alone and
\* clears the idle event where it starts to be busy.
LEMMA IdleTaskStep ==
  ASSUME IdleInv, pc \notin Over, ProcessUp,
         UNCHANGED <<dlvVars, sd, drained>>,
         pc' \in Busy => ~idle',
         dtask = "running" => idle' = idle,
         dtask # "none" => pc' \in {"loop", "read", "got"} \union Over,
         exc' = "none" \/ (pc' = "fin" /\ exc' \in ErrKinds)
  PROVE  IdleInv'
  BY DEF IdleInv, Cleared, Apart, Owned, Cut, Down, ProcessUp,
         dlvVars, ErrKinds

\* An error that ends in consume_loop's handlers leaves no job in progress.
LEMMA IdleFaultRaised ==
  ASSUME IdleInv, pc \notin Over, ProcessUp, NEW K, FaultRaised(K)
  PROVE  IdleInv'
<1>1. /\ UNCHANGED <<dlvVars, sd, drained, idle>>
      /\ pc' \in {"loop", "crashed"} /\ exc' = "none"
  BY DEF FaultRaised, Raise, aroundVars, lifeVars, dlvVars, ownVars
<1>. QED  BY <1>1, IdleTaskStep DEF Busy, InTry, Over

\* The loop looks at messages only without a delivery task.
LEMMA IdleLoopStep ==
  ASSUME TypeInv, IdleInv, LoopStep
  PROVE  IdleInv'
<1>. USE DEF TypeInv, TypeOK, IdleInv, Cleared, Apart, Cut, InTry, Busy,
             Screening, Over, PCs, ErrKinds, aroundVars, otherVars, dlvVars, lifeVars,
             ownVars, At
<1>1. CASE Setup
  BY <1>1, IdleTaskStep DEF Setup, Pass, GoTo, FaultRaised, Raise
<1>2. CASE FetchPending
  BY <1>2, IdleTaskStep DEF FetchPending, FaultRaised, Raise
<1>3. CASE NextMessage
  BY <1>3, IdleTaskStep DEF NextMessage, ScreenFrom
<1>4. CASE FetchRecovered
  BY <1>4, IdleTaskStep DEF FetchRecovered, ScreenFrom, Pass, GoTo, FaultRaised, Raise
<1>5. CASE LoopTest
  BY <1>5, IdleTaskStep DEF LoopTest, Pass, GoTo
<1>6. CASE ReadGroup
  BY <1>6, IdleTaskStep DEF ReadGroup, Raise
<1>7. CASE Dispatch
  BY <1>7 DEF Dispatch, DeliveryAwaited, Down, ProcessUp, AfterEmptyRead, Owned
<1>8. CASE DispatchRaises
  BY <1>8, IdleTaskStep DEF DispatchRaises, Raise
<1>. QED  BY <1>1, <1>2, <1>3, <1>4, <1>5, <1>6, <1>7, <1>8 DEF LoopStep

\* Screening a message clears the event when it ends in a job.
LEMMA IdleScreenStep ==
  ASSUME TypeInv, IdleInv, ScreenStep
  PROVE  IdleInv'
<1>. USE DEF TypeInv, TypeOK, IdleInv, Cleared, Apart, Cut, InTry, Busy,
             Screening, Over, PCs, ErrKinds, aroundVars, otherVars, dlvVars, lifeVars,
             ownVars, At, GoTo, FaultRaised, Raise
<1>1. CASE GetStatus
  BY <1>1, IdleTaskStep DEF GetStatus, Pass
<1>2. CASE GetFlag
  BY <1>2, IdleTaskStep DEF GetFlag, Pass
<1>3. CASE MarkEarly
  BY <1>3, IdleTaskStep DEF MarkEarly, WriteStatus
<1>4. CASE AckEarly
  BY <1>4, IdleTaskStep DEF AckEarly
<1>. QED  BY <1>1, <1>2, <1>3, <1>4 DEF ScreenStep

\* _process_message sets the event only when it leaves the finally block.
LEMMA IdleProcessStep ==
  ASSUME TypeInv, IdleInv, ProcessStep
  PROVE  IdleInv'
<1>. USE DEF TypeInv, TypeOK, IdleInv, Cleared, Apart, Cut, InTry, Busy,
             Screening, Over, PCs, ErrKinds, aroundVars, otherVars, dlvVars, lifeVars,
             ownVars, At, GoTo
<1>1. CASE MarkExecuting
  <2>1. CASE FaultRaised({"other"})
    BY <1>1, <2>1, IdleFaultRaised DEF MarkExecuting, WriteStatus
  <2>2. CASE \E q \in InTry : WriteStatus("exec", "executing", q)
    BY <2>2, IdleTaskStep DEF WriteStatus
  <2>. QED  BY <1>1, <2>1, <2>2 DEF MarkExecuting
<1>2. CASE ExecutorFinishes
  BY <1>2, IdleTaskStep DEF ExecutorFinishes, Pass
<1>3. CASE PollCancel \/ RequestRunnerCancel \/ ReapRunTask
  BY <1>3, IdleTaskStep
  DEF PollCancel, RequestRunnerCancel, ReapRunTask, Pass, FaultInTry
<1>4. ASSUME NEW p \in InTry, NEW q \in InTry, CheckCancel(p, q)
      PROVE  IdleInv'
  BY <1>4, IdleTaskStep DEF CheckCancel, Pass, FaultInTry
<1>5. CASE MarkCompleted
  BY <1>5, IdleTaskStep DEF MarkCompleted, WriteStatus, FaultInTry
<1>6. CASE SendResult \/ SendError
  BY <1>6, IdleTaskStep DEF SendResult, SendError
<1>7. CASE CheckCancelOnError
  BY <1>7, IdleTaskStep DEF CheckCancelOnError, Pass, FaultInHandler
<1>8. CASE MarkCancelled
  BY <1>8, IdleTaskStep DEF MarkCancelled, WriteStatus, FaultInHandler
<1>9. CASE MarkFailed
  BY <1>9, IdleTaskStep DEF MarkFailed, WriteStatus, FaultInHandler
<1>10. CASE FinallyBlock
  BY <1>10, IdleTaskStep DEF FinallyBlock, FaultRaised, Raise
<1>. QED
  BY <1>1, <1>2, <1>3, <1>4, <1>5, <1>6, <1>7, <1>8, <1>9, <1>10 DEF ProcessStep

\* _process_batch keeps the event cleared, up to the deliveries it starts.
LEMMA IdleBatchStep ==
  ASSUME TypeInv, IdleInv, BatchStep
  PROVE  IdleInv'
<1>. USE DEF TypeInv, TypeOK, IdleInv, Cleared, Apart, Cut, InTry, Busy,
             Screening, Over, PCs, ErrKinds, aroundVars, otherVars, dlvVars, lifeVars,
             ownVars, At
<1>1. CASE BatchMarkExecuting
  <2>1. CASE FaultRaised({"other"})
    BY <1>1, <2>1, IdleFaultRaised DEF BatchMarkExecuting
  <2>2. CASE ~FaultRaised({"other"})
    BY <1>1, <2>2, IdleTaskStep DEF BatchMarkExecuting
  <2>. QED  BY <2>1, <2>2
<1>2. CASE BatchStart
  BY <1>2, IdleTaskStep DEF BatchStart, Pass, GoTo
<1>3. CASE BatchSucceeds
  <2>1. dtask = "none" /\ \A m \in Msgs : dpc[m] = "none"
    BY <1>3 DEF BatchSucceeds, Owned
  <2>. QED  BY <1>3, <2>1 DEF BatchSucceeds, Owned, Down, ProcessUp
<1>4. CASE BatchFallsBack
  BY <1>4, IdleTaskStep DEF BatchFallsBack
<1>. QED  BY <1>1, <1>2, <1>3, <1>4 DEF BatchStep

\* A delivery sets the idle event only when its task ends, and then the loop
\* is not busy.
LEMMA IdleDeliveryStep ==
  ASSUME TypeInv, IdleInv, NEW m \in Msgs, DeliveryStep(m)
  PROVE  IdleInv'
<1>1. dpc[m] # "none" /\ ProcessUp /\ UNCHANGED <<pc, exc, sd, drained>>
  BY DEF DeliveryStep, DeliveryChecks, DeliveryMarks, DeliverySends, DeliveryAcks,
         DeliveryFrame, taskVars, lifeVars
<1>2. dtask \in ErrKinds \union {"running"} /\ pc \notin Busy
  BY <1>1 DEF IdleInv, Owned, Apart, Busy, InTry, Over, ErrKinds
<1>3. \/ \E p \in DPCs : DeliveryGoesTo(m, p)
      \/ DeliveryRaises(m, ErrKinds) \/ DeliveryRaises(m, {"other"})
  BY DEF DeliveryStep, DeliveryChecks, DeliveryMarks, DeliverySends, DeliveryAcks, DPCs
<1>4. /\ dtask' = "running" => ~idle'
      /\ dtask' # "none"
    BY <1>2, <1>3
    DEF DeliveryGoesTo, DeliveryRaises, IdleInv, Cleared, ErrKinds, TypeInv,
        TypeOK
<1>5. Owned'
  BY <1>2, <1>3
  DEF DeliveryGoesTo, DeliveryRaises, Owned, IdleInv, ErrKinds, TypeInv, TypeOK
<1>. QED
  BY <1>1, <1>2, <1>4, <1>5 DEF IdleInv, Cleared, Apart, Cut, Down,
      ProcessUp, ErrKinds

\* A clean or failing drain finds the task outside every job, since the idle
\* event is set; only after a timeout is a job cut.
LEMMA IdleLifeStep ==
  ASSUME TypeInv, IdleInv, StopRequested \/ DrainStep \/ Exit \/ Crash \/ Boot
  PROVE  IdleInv'
<1>. USE DEF TypeInv, TypeOK, IdleInv, Cleared, Apart, Cut, InTry, Busy,
             Screening, Over, PCs, ErrKinds, dlvVars, taskVars
<1>1. CASE StopRequested
  BY <1>1 DEF StopRequested, Owned, Down
<1>2. CASE DrainClean
  <2>1. pc \notin Busy /\ (\A m \in Msgs : dpc[m] = "none")
    BY <1>2 DEF DrainClean, DrainDue, Owned
  <2>. QED  BY <1>2, <2>1 DEF DrainClean, DrainDue, CancelConsumer, Owned, Down
<1>3. CASE DrainRaises
  <2>1. pc \notin Busy
    BY <1>3 DEF DrainRaises, DrainDue
  <2>. QED  BY <1>3, <2>1 DEF DrainRaises, DrainDue, CancelConsumer, Owned, Down
<1>4. CASE DrainTimesOut
  BY <1>4 DEF DrainTimesOut, CancelConsumer, Owned, Down
<1>5. CASE Exit \/ Crash
  BY <1>5 DEF Exit, Crash, ProcessDies, Owned, Down
<1>6. CASE Boot
  BY <1>6 DEF Boot, Owned, Down
<1>. QED  BY <1>1, <1>2, <1>3, <1>4, <1>5, <1>6 DEF DrainStep

\* Every step keeps the invariant about the idle event.
LEMMA IdleInductive ==
  ASSUME TypeInv, IdleInv, [Next]_vars
  PROVE  IdleInv'
<1>. USE DEF IdleInv, Cleared, Apart, Owned, Cut, Down
<1>1. CASE \/ Enqueue
           \/ \E j \in Jobs : RequestCancel(j)
           \/ \E m \in Msgs : Trim(m)
  BY <1>1
  DEF Enqueue, RequestCancel, Trim, CloudFrame, taskVars, ownVars, dlvVars, lifeVars
<1>2. CASE UNCHANGED vars
  BY <1>2 DEF vars, otherVars, aroundVars, taskVars, ownVars, dlvVars, lifeVars
<1>. QED
  BY <1>1, <1>2, IdleLoopStep, IdleScreenStep, IdleProcessStep, IdleBatchStep,
     IdleDeliveryStep, IdleLifeStep
  DEF Next, ConsumerStep

\* The invariant about the idle event holds throughout.
LEMMA IdleCorrect == Spec => []IdleInv
<1>1. Init => IdleInv
  BY IdleInit
<1>2. TypeInv /\ IdleInv /\ [Next]_vars => IdleInv'
  BY IdleInductive
<1>. QED  BY <1>1, <1>2, TypeCorrect, PTL DEF Spec

\* The idle event drain waits for is cleared whenever a job or a batch is in
\* progress; results are delivered with the event set only after one of their
\* deliveries has failed, and then drain finds the failed task.
THEOREM IdleEventIsSound == Spec => []BusyMeansNotIdle
<1>1. IdleInv => BusyMeansNotIdle
  BY DEF IdleInv, Cleared, Owned, BusyMeansNotIdle
<1>. QED  BY <1>1, IdleCorrect, PTL

\* After a clean drain nothing is left that could be cut: the task is over and
\* there is no delivery task.
DrainedInv == drained = "clean" => dtask = "none" /\ (pc \in Over \/ sd = "down")

\* Steps of the consumer task are steps of a task that is not over.
LEMMA TaskIsLive ==
  ASSUME ConsumerStep
  PROVE  pc \notin Over /\ ProcessUp /\ UNCHANGED drained
<1>. USE DEF At, Over
<1>1. CASE LoopStep
  BY <1>1
  DEF LoopStep, Setup, FetchPending, NextMessage, FetchRecovered, LoopTest, ReadGroup, Dispatch,
      DispatchRaises, Pass, FaultRaised, otherVars, aroundVars, lifeVars
<1>2. CASE ScreenStep
  BY <1>2
  DEF ScreenStep, GetStatus, GetFlag, MarkEarly, AckEarly, Pass, WriteStatus, FaultRaised,
      otherVars, aroundVars, lifeVars
<1>3. CASE ProcessStep
  BY <1>3
  DEF ProcessStep, MarkExecuting, ExecutorFinishes, PollCancel, RequestRunnerCancel, ReapRunTask,
      CheckCancel, MarkCompleted, SendResult, CheckCancelOnError, MarkCancelled, MarkFailed,
      SendError, FinallyBlock, Pass, WriteStatus, FaultRaised, FaultInTry, FaultInHandler,
      otherVars, aroundVars, lifeVars
<1>4. CASE BatchStep
  BY <1>4
  DEF BatchStep, BatchMarkExecuting, BatchStart, BatchSucceeds, BatchFallsBack, Pass, FaultRaised,
      otherVars, aroundVars, lifeVars
<1>. QED  BY <1>1, <1>2, <1>3, <1>4 DEF ConsumerStep

\* A drain is clean only when the idle event is set and no delivery has failed;
\* from then on the consumer does nothing until the process is started again.
LEMMA DrainedStep ==
  ASSUME TypeInv, IdleInv, DrainedInv, [Next]_vars
  PROVE  DrainedInv'
<1>1. CASE ConsumerStep
  BY <1>1, TaskIsLive DEF DrainedInv, ProcessUp
<1>2. ASSUME NEW m \in Msgs, DeliveryStep(m)
      PROVE  DrainedInv'
  <2>1. dtask # "none" /\ UNCHANGED drained
    BY <1>2
    DEF DeliveryStep, DeliveryChecks, DeliveryMarks, DeliverySends, DeliveryAcks, DeliveryFrame,
        lifeVars, IdleInv, Owned, ErrKinds
  <2>. QED  BY <2>1 DEF DrainedInv
<1>3. CASE DrainClean
  <2>1. pc \notin Busy /\ dtask' = "none"
    BY <1>3 DEF DrainClean, DrainDue, IdleInv, Cleared
  <2>2. pc' \in Over
    BY <1>3, <2>1 DEF DrainClean, CancelConsumer, Busy, Over, InTry, TypeInv, TypeOK
  <2>. QED  BY <2>1, <2>2 DEF DrainedInv
<1>4. CASE DrainRaises \/ DrainTimesOut \/ Boot
  BY <1>4 DEF DrainRaises, DrainTimesOut, Boot, DrainedInv
<1>5. CASE Exit \/ Crash
  BY <1>5 DEF Exit, Crash, ProcessDies, DrainedInv
<1>6. CASE StopRequested \/ UNCHANGED vars
  BY <1>6
  DEF StopRequested, DrainedInv, vars, otherVars, aroundVars, taskVars, dlvVars, lifeVars
<1>7. CASE \/ Enqueue
           \/ \E j \in Jobs : RequestCancel(j)
           \/ \E m \in Msgs : Trim(m)
  BY <1>7
  DEF Enqueue, RequestCancel, Trim, CloudFrame, DrainedInv, taskVars, dlvVars, lifeVars
<1>. QED  BY <1>1, <1>2, <1>3, <1>4, <1>5, <1>6, <1>7 DEF Next, DrainStep

\* A clean drain is never followed by the cancellation of a running job, and
\* leaves no result undelivered.
THEOREM CleanDrainIsClean == Spec => []CleanDrainCutsNoJob
<1>1. Init => DrainedInv
  BY DEF Init, DrainedInv
<1>2. TypeInv /\ IdleInv /\ DrainedInv /\ [Next]_vars => DrainedInv'
  BY DrainedStep
<1>3. IdleInv /\ DrainedInv => CleanDrainCutsNoJob
  BY DEF IdleInv, Owned, Cut, DrainedInv, CleanDrainCutsNoJob, ErrKinds
<1>. QED  BY <1>1, <1>2, <1>3, TypeCorrect, IdleCorrect, PTL DEF Spec

\* While any delivery of a batch is in progress, also one left behind by a
\* failed sibling, the loop touches no message.
THEOREM DeliveriesRunAlone == Spec => []DeliveryExcludesProcessing
<1>1. IdleInv => DeliveryExcludesProcessing
  BY DEF IdleInv, Owned, Apart, DeliveryExcludesProcessing, Busy, InTry, Screening,
         Over, ErrKinds
<1>. QED  BY <1>1, IdleCorrect, PTL

-----------------------------------------------------------------------------
(* Nothing completed without a result.                                     *)
(*                                                                         *)
(* The task writes or sends "completed" only between the executor's return *)
(* and the finally block, a delivery only for a message of a batch that    *)
(* returned; the count of results never decreases.                         *)

HasResult == {"chkRun", "chkDone", "done", "chkSend", "send"}

EarnInv ==
  /\ pc \in HasResult => runs[msg] > 0
  /\ \A m \in Msgs : dpc[m] # "none" => runs[m] > 0
  /\ CompletedIsEarned

\* At first nothing is completed.
LEMMA EarnInit == Init => EarnInv
  BY DEF Init, EarnInv, HasResult, CompletedIsEarned

\* A step that writes no "completed" and does not come upon a result.
LEMMA EarnPlainStep ==
  ASSUME EarnInv,
         UNCHANGED <<runs, hooks>>,
         \A m \in Msgs : dpc'[m] # "none" => dpc[m] # "none",
         \A j \in Jobs : status'[j] = "completed" => status[j] = "completed",
         pc' \in HasResult => pc \in HasResult /\ msg' = msg
  PROVE  EarnInv'
  BY DEF EarnInv, CompletedIsEarned

\* An error that ends in consume_loop's handlers completes nothing.
LEMMA EarnFaultRaised ==
  ASSUME EarnInv, NEW K, FaultRaised(K)
  PROVE  EarnInv'
<1>1. pc' \notin HasResult /\ UNCHANGED <<runs, hooks, dpc, status>>
  BY DEF FaultRaised, Raise, HasResult, aroundVars, hookVars, dlvVars, redisVars
<1>. QED  BY <1>1, EarnPlainStep

\* A step that only moves on completes nothing.
LEMMA EarnPass ==
  ASSUME EarnInv, NEW p, NEW q, q \in HasResult => p \in HasResult, Pass(p, q)
  PROVE  EarnInv'
<1>1. pc = p /\ pc' = q /\ UNCHANGED <<runs, hooks, dpc, status, msg>>
  BY DEF Pass, At, GoTo, otherVars, aroundVars, hookVars, dlvVars, redisVars, frameVars
<1>. QED  BY <1>1, EarnPlainStep

\* An error inside _process_message completes nothing.
LEMMA EarnFaultInTry ==
  ASSUME EarnInv, NEW K, FaultInTry(K) \/ FaultInHandler(K)
  PROVE  EarnInv'
<1>1. pc' \notin HasResult /\ UNCHANGED <<runs, hooks, dpc, status>>
  BY DEF FaultInTry, FaultInHandler, GoTo, HasResult, otherVars, aroundVars, hookVars,
         dlvVars, redisVars
<1>. QED  BY <1>1, EarnPlainStep

\* A status write other than "completed" completes nothing.
LEMMA EarnWriteStatus ==
  ASSUME TypeInv, EarnInv, NEW p, NEW s, s # "completed", NEW q, q \notin HasResult,
         WriteStatus(p, s, q)
  PROVE  EarnInv'
<1>1. pc' \notin HasResult /\ UNCHANGED <<runs, hooks, dpc>>
  BY DEF WriteStatus, GoTo, aroundVars, hookVars, dlvVars
<1>2. \A j \in Jobs : status'[j] = "completed" => status[j] = "completed"
  BY DEF WriteStatus, SafeHSet, TypeInv, TypeOK
<1>. QED  BY <1>1, <1>2, EarnPlainStep

\* setup, recover_pending and consume_loop complete nothing.
LEMMA EarnLoopStep ==
  ASSUME TypeInv, EarnInv, LoopStep
  PROVE  EarnInv'
<1>. USE DEF HasResult, aroundVars, otherVars, redisVars, hookVars, dlvVars, frameVars
<1>1. CASE Setup \/ LoopTest \/ FetchRecovered
  BY <1>1, EarnPass, EarnFaultRaised DEF Setup, LoopTest, FetchRecovered, ScreenFrom
<1>2. CASE FetchPending
  BY <1>2, EarnPlainStep, EarnFaultRaised DEF FetchPending
<1>3. CASE NextMessage
  BY <1>3, EarnPlainStep DEF NextMessage, ScreenFrom
<1>4. CASE ReadGroup
  BY <1>4, EarnPlainStep DEF ReadGroup, Raise
<1>5. CASE Dispatch
  BY <1>5, EarnPlainStep DEF Dispatch, AfterEmptyRead
<1>6. CASE DispatchRaises
  BY <1>6, EarnPlainStep DEF DispatchRaises, Raise
<1>. QED  BY <1>1, <1>2, <1>3, <1>4, <1>5, <1>6 DEF LoopStep

\* The checks before a message is processed complete nothing.
LEMMA EarnScreenStep ==
  ASSUME TypeInv, EarnInv, ScreenStep
  PROVE  EarnInv'
<1>. USE DEF HasResult, aroundVars, otherVars, redisVars, hookVars, dlvVars, frameVars, GoTo
<1>1. CASE GetStatus
  BY <1>1, EarnPass, EarnFaultRaised DEF GetStatus
<1>2. CASE GetFlag
  <2>1. CASE FaultRaised(ErrKinds)
    BY <2>1, EarnFaultRaised
  <2>2. CASE ~FaultRaised(ErrKinds)
    <3>1. pc' \notin HasResult /\ UNCHANGED <<runs, hooks, dpc, status>>
      BY <1>2, <2>2 DEF GetFlag, Pass
    <3>. QED  BY <3>1, EarnPlainStep
  <2>. QED  BY <2>1, <2>2
<1>3. CASE MarkEarly
  BY <1>3, EarnWriteStatus, EarnFaultRaised DEF MarkEarly
<1>4. CASE AckEarly
  BY <1>4, EarnPlainStep, EarnFaultRaised DEF AckEarly
<1>. QED  BY <1>1, <1>2, <1>3, <1>4 DEF ScreenStep

\* _process_message completes a job only after the executor returned.
LEMMA EarnProcessStep ==
  ASSUME TypeInv, EarnInv, ProcessStep
  PROVE  EarnInv'
<1>. USE DEF HasResult
<1>0. msg \in Msgs
  BY DEF TypeInv, FrameOK, NeedsMsg, InTry, At,
         ProcessStep, MarkExecuting, ExecutorFinishes, PollCancel, RequestRunnerCancel,
         ReapRunTask, CheckCancel, MarkCompleted, SendResult, CheckCancelOnError,
         MarkCancelled, MarkFailed, SendError, FinallyBlock, Pass, WriteStatus
<1>1. CASE MarkExecuting
  BY <1>1, EarnWriteStatus, EarnFaultRaised DEF MarkExecuting
<1>2. CASE ExecutorFinishes
  <2>1. CASE Pass("run", "errChk")
    BY <2>1, EarnPass
  <2>2. CASE runs' = [runs EXCEPT ![msg] = @ + 1] /\ ~Pass("run", "errChk")
    <3>1. UNCHANGED <<msg, dpc, status, hooks>>
      BY <1>2, <2>2 DEF ExecutorFinishes, GoTo, frameVars, redisVars, hookVars, dlvVars
    <3>2. /\ runs'[msg] > 0
          /\ \A m \in Msgs : runs'[m] >= runs[m] /\ runs[m] \in Nat /\ runs'[m] \in Nat
      BY <1>0, <2>2 DEF TypeInv, TypeOK
    <3>. QED  BY <3>1, <3>2 DEF EarnInv, CompletedIsEarned
  <2>. QED  BY <1>2, <2>1, <2>2 DEF ExecutorFinishes
<1>3. CASE PollCancel \/ RequestRunnerCancel \/ ReapRunTask
  BY <1>3, EarnPass, EarnFaultInTry DEF PollCancel, RequestRunnerCancel, ReapRunTask
<1>4. ASSUME NEW p \in HasResult, NEW q, CheckCancel(p, q)
      PROVE  EarnInv'
  BY <1>4, EarnPass, EarnFaultInTry DEF CheckCancel
<1>5. CASE MarkCompleted
  <2>1. CASE FaultInTry({"other"})
    BY <2>1, EarnFaultInTry
  <2>2. CASE WriteStatus("done", "completed", "chkSend")
    <3>1. /\ pc \in HasResult /\ UNCHANGED <<msg, runs, dpc, hooks>>
          /\ \A j \in Jobs : status'[j] = "completed" => status[j] = "completed" \/ j = job
      BY <2>2 DEF WriteStatus, SafeHSet, At, GoTo, aroundVars, hookVars, dlvVars,
                  frameVars, TypeInv, TypeOK
    <3>. QED  BY <1>0, <3>1 DEF EarnInv, CompletedIsEarned, job
  <2>. QED  BY <1>5, <2>1, <2>2 DEF MarkCompleted
<1>6. CASE SendResult
  <2>1. /\ pc \in HasResult /\ pc' \notin HasResult
        /\ UNCHANGED <<msg, runs, dpc, status>>
    BY <1>6 DEF SendResult, At, GoTo, redisVars, dlvVars, frameVars
  <2>2. \A j \in Jobs : "completed" \in hooks'[j] => "completed" \in hooks[j] \/ j = job
    BY <1>6 DEF SendResult, PostAccepted, PostRaises, TypeInv, TypeOK
  <2>. QED  BY <1>0, <2>1, <2>2 DEF EarnInv, CompletedIsEarned, job
<1>7. CASE CheckCancelOnError
  BY <1>7, EarnPass, EarnFaultInTry DEF CheckCancelOnError
<1>8. CASE MarkCancelled
  BY <1>8, EarnWriteStatus, EarnFaultInTry DEF MarkCancelled
<1>9. CASE MarkFailed
  BY <1>9, EarnWriteStatus, EarnFaultInTry DEF MarkFailed
<1>10. CASE SendError
  <2>1. pc' \notin HasResult /\ UNCHANGED <<runs, dpc, status>>
    BY <1>10 DEF SendError, GoTo, redisVars, dlvVars
  <2>2. \A j \in Jobs : "completed" \in hooks'[j] => "completed" \in hooks[j]
    BY <1>10 DEF SendError, PostAccepted, PostRaises, TypeInv, TypeOK
  <2>. QED  BY <2>1, <2>2 DEF EarnInv, CompletedIsEarned
<1>11. CASE FinallyBlock
  <2>1. CASE FaultRaised({"other"})
    BY <2>1, EarnFaultRaised
  <2>2. CASE ~FaultRaised({"other"})
    <3>1. pc' \notin HasResult /\ UNCHANGED <<runs, hooks, dpc, status>>
      BY <1>11, <2>2 DEF FinallyBlock, GoTo, Raise, aroundVars, hookVars, dlvVars
    <3>. QED  BY <3>1, EarnPlainStep
  <2>. QED  BY <2>1, <2>2
<1>. QED
  BY <1>1, <1>2, <1>3, <1>4, <1>5, <1>6, <1>7, <1>8, <1>9, <1>10, <1>11
  DEF ProcessStep

\* _process_batch hands over only results it has.
LEMMA EarnBatchStep ==
  ASSUME TypeInv, EarnInv, BatchStep
  PROVE  EarnInv'
<1>. USE DEF HasResult
<1>1. CASE BatchMarkExecuting
  <2>1. CASE FaultRaised({"other"})
    BY <2>1, EarnFaultRaised
  <2>2. CASE ~FaultRaised({"other"})
    <3>1. pc' = "bExec" /\ UNCHANGED <<runs, hooks, dpc>>
      BY <1>1, <2>2 DEF BatchMarkExecuting, At, aroundVars, hookVars, dlvVars
    <3>2. \A j \in Jobs : status'[j] = "completed" => status[j] = "completed"
      BY <1>1, <2>2 DEF BatchMarkExecuting, SafeHSet, TypeInv, TypeOK
    <3>. QED  BY <3>1, <3>2, EarnPlainStep
  <2>. QED  BY <2>1, <2>2
<1>2. CASE BatchStart
  BY <1>2, EarnPass DEF BatchStart
<1>3. CASE BatchSucceeds
  <2>1. pc' \notin HasResult /\ UNCHANGED <<status, hooks>>
    BY <1>3 DEF BatchSucceeds, redisVars, hookVars
  <2>2. \A m \in Msgs : runs[m] \in Nat /\ runs'[m] \in Nat /\ runs'[m] >= runs[m]
    BY <1>3 DEF BatchSucceeds, TypeInv, TypeOK
  <2>3. \A m \in Msgs : dpc'[m] # "none" => runs'[m] > 0
    BY <1>3, <2>2 DEF BatchSucceeds, TypeInv, TypeOK, EarnInv
  <2>. QED  BY <2>1, <2>2, <2>3 DEF EarnInv, CompletedIsEarned
<1>4. CASE BatchFallsBack
  BY <1>4, EarnPlainStep DEF BatchFallsBack, otherVars, aroundVars, redisVars, hookVars,
                             dlvVars
<1>. QED  BY <1>1, <1>2, <1>3, <1>4 DEF BatchStep

\* A delivery completes only a job of a batch that returned.
LEMMA EarnDeliveryStep ==
  ASSUME TypeInv, EarnInv, NEW m \in Msgs, DeliveryStep(m)
  PROVE  EarnInv'
<1>1. /\ dpc[m] # "none" /\ UNCHANGED <<pc, msg, runs>>
  BY DEF DeliveryStep, DeliveryChecks, DeliveryMarks, DeliverySends, DeliveryAcks,
         DeliveryFrame, taskVars, frameVars
<1>2. runs[m] > 0
  BY <1>1 DEF EarnInv
<1>3. \A x \in Msgs : dpc'[x] # "none" => dpc[x] # "none"
  BY <1>1
  DEF DeliveryStep, DeliveryChecks, DeliveryMarks, DeliverySends, DeliveryAcks,
      DeliveryGoesTo, DeliveryRaises, TypeInv, TypeOK
<1>4. \A j \in Jobs : status'[j] = "completed" => status[j] = "completed" \/ j = JobOf[m]
  BY DEF DeliveryStep, DeliveryChecks, DeliveryMarks, DeliverySends, DeliveryAcks,
         SafeHSet, TypeInv, TypeOK
<1>5. \A j \in Jobs : "completed" \in hooks'[j] => "completed" \in hooks[j] \/ j = JobOf[m]
  BY DEF DeliveryStep, DeliveryChecks, DeliveryMarks, DeliverySends, DeliveryAcks,
         PostAccepted, PostRaises, hookVars, TypeInv, TypeOK
<1>. QED  BY <1>1, <1>2, <1>3, <1>4, <1>5 DEF EarnInv, CompletedIsEarned

\* Shutdown, crash and restart complete nothing.
LEMMA EarnLifeStep ==
  ASSUME TypeInv, EarnInv, StopRequested \/ DrainStep \/ Exit \/ Crash \/ Boot
  PROVE  EarnInv'
<1>. USE DEF HasResult, redisVars, hookVars, taskVars, frameVars, dlvVars
<1>1. CASE StopRequested
  BY <1>1, EarnPlainStep DEF StopRequested
<1>2. CASE DrainStep
  <2>1. CancelConsumer
    BY <1>2 DEF DrainStep, DrainClean, DrainRaises, DrainTimesOut
  <2>2. UNCHANGED <<runs, hooks>> /\ (pc' \in HasResult => pc \in HasResult /\ msg' = msg)
    BY <2>1 DEF CancelConsumer
  <2>3. \A m \in Msgs : dpc'[m] # "none" => dpc[m] # "none"
    BY <2>1 DEF CancelConsumer
  <2>4. \A j \in Jobs : status'[j] = "completed" => status[j] = "completed"
    BY <2>1 DEF CancelConsumer, TypeInv, TypeOK
  <2>. QED  BY <2>2, <2>3, <2>4, EarnPlainStep
<1>3. CASE Exit \/ Crash
  BY <1>3, EarnPlainStep DEF Exit, Crash, ProcessDies
<1>4. CASE Boot
  BY <1>4, EarnPlainStep DEF Boot
<1>. QED  BY <1>1, <1>2, <1>3, <1>4

\* Every step keeps the invariant about results.
LEMMA EarnInductive ==
  ASSUME TypeInv, EarnInv, [Next]_vars
  PROVE  EarnInv'
<1>1. CASE \/ Enqueue
           \/ \E j \in Jobs : RequestCancel(j)
           \/ \E m \in Msgs : Trim(m)
           \/ UNCHANGED vars
  BY <1>1, EarnPlainStep
  DEF Enqueue, RequestCancel, Trim, CloudFrame, vars, otherVars, aroundVars, redisVars,
      hookVars, taskVars, frameVars, dlvVars
<1>. QED
  BY <1>1, EarnLoopStep, EarnScreenStep, EarnProcessStep, EarnBatchStep,
     EarnDeliveryStep, EarnLifeStep
  DEF Next, ConsumerStep

\* The invariant about results holds throughout.
LEMMA EarnCorrect == Spec => []EarnInv
<1>1. Init => EarnInv
  BY EarnInit
<1>2. TypeInv /\ EarnInv /\ [Next]_vars => EarnInv'
  BY EarnInductive
<1>. QED  BY <1>1, <1>2, TypeCorrect, PTL DEF Spec

\* No job is recorded or reported as completed that the executor never
\* produced a result for.
THEOREM CompletedNeedsResult == Spec => []CompletedIsEarned
<1>1. EarnInv => CompletedIsEarned
  BY DEF EarnInv
<1>. QED  BY <1>1, EarnCorrect, PTL

=============================================================================
