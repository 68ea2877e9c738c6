-------------------------- MODULE JobCircuitProofs --------------------------
(***************************************************************************)
(* Only validated circuits are executed: for every payload of every        *)
(* message, every interleaving and every sequence of faults and crashes.   *)
(***************************************************************************)
EXTENDS ConsumerRunProofs, JobCircuits

\* A message without keys is turned away before its status is read, and one
\* without a usable circuit before the executor is called or, in a batch,
\* before it is parsed.  Recovery and the fallback of a batch take the same way.
CheckedInv ==
  /\ pc \in {"status", "flag", "exec"} => Kind[msg] # "noKeys"
  /\ pc = "run" => Kind[msg] = "ok"
  /\ \A m \in parsed : Kind[m] = "ok"
  /\ \A m \in Msgs : runs[m] > 0 => Kind[m] = "ok"

\* At first nothing was executed.
LEMMA CheckedInit == Init => CheckedInv
  BY DEF Init, CheckedInv

\* A step that executes and parses nothing, and does not come closer to it.
LEMMA CheckedKeep ==
  ASSUME CheckedInv, parsed' \subseteq parsed, runs' = runs,
         pc' \in {"status", "flag", "exec"} =>
           msg' = msg /\ (pc \in {"status", "flag", "exec"} \/ Kind[msg] # "noKeys"),
         pc' = "run" => msg' = msg /\ Kind[msg] = "ok"
  PROVE  CheckedInv'
  BY DEF CheckedInv

\* An error of a Redis call, wherever it is handled.
LEMMA CheckedFault ==
  ASSUME CheckedInv, NEW K, FaultRaised(K) \/ FaultInTry(K) \/ FaultInHandler(K)
  PROVE  CheckedInv'
<1>1. pc' \in {"loop", "crashed", "errChk", "fin"} /\ parsed' \subseteq parsed /\ runs' = runs
  BY DEF FaultRaised, FaultInTry, FaultInHandler, Raise, DropFrame, GoTo, frameVars,
         otherVars, aroundVars
<1>. QED  BY <1>1, CheckedKeep

\* Passing an await or writing a status there.
LEMMA CheckedMove ==
  ASSUME CheckedInv, NEW p, NEW q, NEW s, Pass(p, q) \/ WriteStatus(p, s, q),
         q \in {"status", "flag", "exec"} =>
           p \in {"status", "flag", "exec"} \/ Kind[msg] # "noKeys",
         q = "run" => Kind[msg] = "ok"
  PROVE  CheckedInv'
<1>1. pc = p /\ pc' = q /\ UNCHANGED <<msg, parsed, runs>>
  BY DEF Pass, WriteStatus, At, GoTo, frameVars, otherVars, aroundVars
<1>. QED  BY <1>1, CheckedKeep

\* setup, recover_pending and consume_loop: a message without keys goes
\* straight to its acknowledgement.
LEMMA CheckedLoopStep ==
  ASSUME CheckedInv, LoopStep
  PROVE  CheckedInv'
<1>1. CASE Setup \/ LoopTest
  BY <1>1, CheckedMove, CheckedFault DEF Setup, LoopTest
<1>2. CASE FetchRecovered
  <2>1. ASSUME NEW q \in {"next", "ackEarly"}, Pass("xrange", q)
        PROVE  CheckedInv'
    BY <2>1, CheckedMove
  <2>2. ASSUME Pass("xrange", "status"), Kind[msg] # "noKeys"
        PROVE  CheckedInv'
    BY <2>2, CheckedMove
  <2>. QED  BY <1>2, <2>1, <2>2, CheckedFault DEF FetchRecovered, ScreenFrom
<1>3. CASE NextMessage
  <2>1. runs' = runs /\ parsed' \subseteq parsed
    BY <1>3 DEF NextMessage, DropFrame, aroundVars
  <2>2. \/ pc' \in {"xrange", "ackEarly", "bExec", "loop"}
        \/ pc' = "status" /\ Kind[msg'] # "noKeys"
    BY <1>3 DEF NextMessage, ScreenFrom
  <2>. QED  BY <2>1, <2>2 DEF CheckedInv
<1>4. CASE FetchPending \/ ReadGroup \/ Dispatch \/ DispatchRaises
  <2>1. /\ runs' = runs /\ parsed' \subseteq parsed
        /\ pc' \in {"next", "got", "loop", "pending", "crashed"}
    BY <1>4
    DEF FetchPending, ReadGroup, Dispatch, DispatchRaises, AfterEmptyRead, FaultRaised,
        Raise, DropFrame, otherVars, aroundVars
  <2>. QED  BY <2>1, CheckedKeep
<1>. QED  BY <1>1, <1>2, <1>3, <1>4 DEF LoopStep

\* The checks of a message: in a batch, an unusable circuit is not parsed.
LEMMA CheckedScreenStep ==
  ASSUME TypeInv, CheckedInv, ScreenStep
  PROVE  CheckedInv'
<1>1. CASE GetStatus \/ MarkEarly
  BY <1>1, CheckedMove, CheckedFault DEF GetStatus, MarkEarly
<1>2. CASE GetFlag
  <2>1. CASE FaultRaised(ErrKinds) \/ Pass("flag", "markEarly")
    BY <2>1, CheckedMove, CheckedFault
  <2>2. CASE ~(FaultRaised(ErrKinds) \/ Pass("flag", "markEarly"))
    <3>1. /\ pc = "flag" /\ msg' = msg /\ runs' = runs
          /\ \/ pc' \in {"ackEarly", "exec"} /\ parsed' = parsed
             \/ pc' = "next" /\ parsed' = parsed \union {msg} /\ Kind[msg] # "badIR"
      BY <1>2, <2>2 DEF GetFlag, At, GoTo, frameVars, otherVars, aroundVars
    <3>2. Kind[msg] \in {"ok", "badIR", "noKeys"} /\ Kind[msg] # "noKeys"
      BY <3>1, ConstantsAssumption DEF CheckedInv, TypeInv, FrameOK, NeedsMsg
    <3>. QED  BY <3>1, <3>2 DEF CheckedInv
  <2>. QED  BY <2>1, <2>2
<1>3. CASE AckEarly
  <2>1. CASE ~FaultRaised({"other"})
    <3>1. pc' = "next" /\ UNCHANGED <<parsed, runs>>
      BY <1>3, <2>1 DEF AckEarly, GoTo, frameVars, aroundVars
    <3>. QED  BY <3>1, CheckedKeep
  <2>. QED  BY <2>1, CheckedFault
<1>. QED  BY <1>1, <1>2, <1>3 DEF ScreenStep

\* _process_message: the executor is called with a circuit that was parsed.
LEMMA CheckedProcessStep ==
  ASSUME TypeInv, CheckedInv, ProcessStep
  PROVE  CheckedInv'
<1>1. CASE MarkExecuting
  <2>1. CASE WriteStatus("exec", "executing", IF Kind[msg] = "badIR" THEN "errChk" ELSE "run")
    <3>1. pc = "exec"
      BY <2>1 DEF WriteStatus, At
    <3>2. Kind[msg] \in {"ok", "badIR"}
      BY <3>1, ConstantsAssumption DEF CheckedInv, TypeInv, FrameOK, NeedsMsg
    <3>3. CASE Kind[msg] = "badIR"
      BY <2>1, <3>3, CheckedMove
    <3>4. CASE Kind[msg] = "ok"
      BY <2>1, <3>4, CheckedMove
    <3>. QED  BY <3>2, <3>3, <3>4
  <2>. QED  BY <1>1, <2>1, CheckedFault DEF MarkExecuting
<1>2. CASE ExecutorFinishes
  <2>1. pc = "run" /\ pc' \in {"chkRun", "errChk"} /\ parsed' = parsed
        /\ runs' \in {runs, [runs EXCEPT ![msg] = @ + 1]}
    BY <1>2 DEF ExecutorFinishes, Pass, At, GoTo, frameVars, otherVars, aroundVars
  <2>2. Kind[msg] = "ok"
    BY <2>1 DEF CheckedInv
  <2>. QED  BY <2>1, <2>2 DEF CheckedInv, TypeInv, TypeOK
<1>3. CASE PollCancel \/ RequestRunnerCancel \/ ReapRunTask \/ CheckCancelOnError
  BY <1>3, CheckedMove, CheckedFault
  DEF PollCancel, RequestRunnerCancel, ReapRunTask, CheckCancelOnError
<1>4. ASSUME NEW p, NEW q \in {"chkDone", "done", "send"}, CheckCancel(p, q)
      PROVE  CheckedInv'
  BY <1>4, CheckedMove, CheckedFault DEF CheckCancel
<1>5. CASE MarkCompleted \/ MarkCancelled \/ MarkFailed
  BY <1>5, CheckedMove, CheckedFault DEF MarkCompleted, MarkCancelled, MarkFailed
<1>6. CASE SendResult \/ SendError
  <2>1. pc' \in {"fin", "errChk"} /\ UNCHANGED <<parsed, runs>>
    BY <1>6 DEF SendResult, SendError, GoTo, frameVars
  <2>. QED  BY <2>1, CheckedKeep
<1>7. CASE FinallyBlock
  <2>1. CASE ~FaultRaised({"other"})
    <3>1. /\ pc' \in {"next", "loop", "crashed", "ended"}
          /\ parsed' \subseteq parsed /\ runs' = runs
      BY <1>7, <2>1 DEF FinallyBlock, Raise, DropFrame, GoTo, frameVars, aroundVars
    <3>. QED  BY <3>1, CheckedKeep
  <2>. QED  BY <2>1, CheckedFault
<1>. QED  BY <1>1, <1>2, <1>3, <1>4, <1>5, <1>6, <1>7 DEF ProcessStep

\* _process_batch: the executor gets the parsed messages only.
LEMMA CheckedBatchStep ==
  ASSUME TypeInv, CheckedInv, BatchStep
  PROVE  CheckedInv'
<1>1. CASE BatchSucceeds
  <2>1. /\ pc' = "loop" /\ parsed' = {}
        /\ \A m \in Msgs : m \notin parsed => runs'[m] = runs[m]
    BY <1>1 DEF BatchSucceeds, DropFrame
  <2>. QED  BY <2>1 DEF CheckedInv
<1>2. CASE BatchMarkExecuting \/ BatchStart \/ BatchFallsBack
  <2>1. /\ runs' = runs /\ parsed' \subseteq parsed
        /\ pc' \in {"bExec", "bRun", "next", "loop", "crashed"}
    BY <1>2
    DEF BatchMarkExecuting, BatchStart, BatchFallsBack, Pass, At, GoTo, frameVars,
        FaultRaised, Raise, DropFrame, otherVars, aroundVars
  <2>. QED  BY <2>1, CheckedKeep
<1>. QED  BY <1>1, <1>2 DEF BatchStep

\* Deliveries, shutdown, crash, restart and the cloud execute nothing.
LEMMA CheckedOutsideStep ==
  ASSUME TypeInv, CheckedInv,
         \/ \E m \in Msgs : DeliveryStep(m)
         \/ StopRequested \/ DrainStep \/ Exit \/ Crash \/ Boot \/ Enqueue
         \/ \E j \in Jobs : RequestCancel(j)
         \/ \E m \in Msgs : Trim(m)
         \/ UNCHANGED vars
  PROVE  CheckedInv'
<1>. USE DEF taskVars, frameVars
<1>1. ASSUME NEW m \in Msgs, DeliveryStep(m)
      PROVE  CheckedInv'
  <2>1. UNCHANGED <<pc, msg, parsed, runs>>
    BY <1>1, DeliveryLeaves
  <2>. QED  BY <2>1 DEF CheckedInv
<1>2. CASE DrainStep
  <2>1. CancelConsumer
    BY <1>2 DEF DrainStep, DrainClean, DrainRaises, DrainTimesOut
  <2>2. /\ pc' \in {"fin", "mark"} \union Over /\ parsed' \subseteq parsed /\ runs' = runs
    BY <2>1 DEF CancelConsumer, DropFrame, Over
  <2>. QED  BY <2>2, CheckedKeep DEF Over
<1>3. CASE Exit \/ Crash \/ Boot
  <2>1. pc' \in {"off", "setup"} /\ parsed' \subseteq parsed /\ runs' = runs
    BY <1>3 DEF Exit, Crash, ProcessDies, DropFrame, Boot
  <2>. QED  BY <2>1, CheckedKeep
<1>4. CASE \/ StopRequested \/ Enqueue
           \/ \E j \in Jobs : RequestCancel(j)
           \/ \E m \in Msgs : Trim(m)
           \/ UNCHANGED vars
  <2>1. UNCHANGED <<pc, msg, parsed, runs>>
    BY <1>4
    DEF StopRequested, Enqueue, RequestCancel, Trim, CloudFrame, vars, otherVars, aroundVars
  <2>. QED  BY <2>1 DEF CheckedInv
<1>. QED  BY <1>1, <1>2, <1>3, <1>4

\* A message that the consumer takes for a usable one carries a sound circuit:
\* what validate_consistency checks position by position is enough for all
\* qubits and gates of the circuit together.
LEMMA OkIsSound ==
  ASSUME NEW m \in Msgs, Kind[m] = "ok"
  PROVE  m \in Sound
<1>. DEFINE ir == Payload[m].ir
<1>1. Consistent(ir)
  BY PayloadAssumption DEF KindOfPayload, KindOf, ValidIR
<1>2. \A op \in Range(ir.gates) :
        /\ op.gate \in LegalGates(ir.target)
        /\ \A q \in Range(op.qubits) : q \in 0 .. ir.num_qubits - 1
  BY <1>1 DEF Consistent, InRange, Range
<1>3. \A q \in Range(ir.measurements) : q \in 0 .. ir.num_qubits - 1
  BY <1>1 DEF Consistent, InRange, Range
<1>4. (UNION {Range(op.qubits) : op \in Range(ir.gates)}) \union Range(ir.measurements)
        \subseteq 0 .. ir.num_qubits - 1
  <2>1. ASSUME NEW Q \in {Range(op.qubits) : op \in Range(ir.gates)}
        PROVE  Q \subseteq 0 .. ir.num_qubits - 1
    <3>. PICK op \in Range(ir.gates) : Q = Range(op.qubits)
      BY <2>1
    <3>. QED  BY <1>2
  <2>. QED  BY <1>3, <2>1
<1>. QED  BY <1>2, <1>4 DEF Sound

\* Whatever is recovered, retried or run as a batch, the executor only ever
\* produced results for circuits that stay on their register and within the
\* gate set of their target.
THEOREM ExecutedCircuitsAreSound == Spec => []OnlySoundCircuitsRun
<1>1. Init => CheckedInv
  BY CheckedInit
<1>2. TypeInv /\ CheckedInv /\ [Next]_vars => CheckedInv'
  BY CheckedLoopStep, CheckedScreenStep, CheckedProcessStep, CheckedBatchStep,
     CheckedOutsideStep
  DEF Next, ConsumerStep
<1>3. CheckedInv => OnlySoundCircuitsRun
  BY OkIsSound DEF CheckedInv, OnlySoundCircuitsRun
<1>. QED  BY <1>1, <1>2, <1>3, TypeCorrect, PTL DEF Spec
=============================================================================
