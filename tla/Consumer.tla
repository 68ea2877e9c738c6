------------------------------ MODULE Consumer ------------------------------
(***************************************************************************)
(* RedisConsumer (coda_node/server/consumer.py): the asyncio task that     *)
(* reads jobs from a Redis stream through a consumer group, runs them on   *)
(* the executor one by one or as a batch, reports them by webhook and      *)
(* acknowledges them, together with what it shares state with: the Redis   *)
(* server and the cloud (external), the background task that delivers the  *)
(* results of a batch, the drain-and-cancel sequence of the application's  *)
(* shutdown, and crashes and restarts of the process.                      *)
(*                                                                         *)
(* asyncio runs one task at a time and switches only at an await, so one   *)
(* action is one awaited call with the code up to the next one.  Messages  *)
(* are named by their position in the stream: every list the code walks    *)
(* (a read, XPENDING, a batch) is in stream order, so a set of messages    *)
(* walked from its lowest element stands for it.                           *)
(***************************************************************************)
EXTENDS Integers, FiniteSets

CONSTANTS
  NumMsgs,        \* messages the cloud may put in the stream
  Jobs,           \* job ids
  JobOf,          \* the job a message carries
  Kind,           \* "ok", "badIR" (unusable ir_json or shots), "noKeys" (no job_id or callback_url)
  Trimmable,      \* messages the producer may delete from the stream
  CanBatch,       \* the executor has a batch_run
  ResultsMatch,   \* batch_run returns one result for each job, as it should
  BatchReadCount, \* _BATCH_READ_COUNT
  PendingCount,   \* count of XPENDING
  PowLimit,       \* largest n such that 2.0 ** n is a float
  FaultKinds,     \* Redis errors: "conn" (connection lost), "other" (any other error)
  MaxFaults,      \* bound on failing Redis calls
  MaxHookFaults,  \* bound on webhook calls that raise
  MaxCrashes,     \* bound on crashes of the process
  MaxStops        \* bound on graceful shutdowns

Msgs == 1 .. NumMsgs
ErrKinds == {"conn", "other"}

ASSUME ConstantsAssumption ==
  /\ NumMsgs \in Nat
  /\ JobOf \in [Msgs -> Jobs]
  /\ Kind \in [Msgs -> {"ok", "badIR", "noKeys"}]
  /\ Trimmable \subseteq Msgs
  /\ CanBatch \in BOOLEAN /\ ResultsMatch \in BOOLEAN
  /\ BatchReadCount \in Nat \ {0}
  /\ PendingCount \in Nat \ {0}
  /\ PowLimit \in Nat
  /\ FaultKinds \subseteq ErrKinds
  /\ MaxFaults \in Nat
  /\ MaxHookFaults \in Nat
  /\ MaxCrashes \in Nat
  /\ MaxStops \in Nat

ASSUME NoJobAssumption == "noJob" \notin Jobs

VARIABLES
  \* the cloud: messages put in the stream, deleted from it, cancel flags,
  \* and the terminal webhooks it has received for each job
  enqueued, trimmed, cancelFlag, hooks,
  \* the Redis server: messages handed to the group, its pending entries
  \* list, and the state field of each job's status hash
  delivered, pel, status,
  \* the consumer task: where it waits, the frame of the calls in progress
  \* (message, messages left in the list being walked, the batch as read and
  \* as parsed) and an exception travelling through a finally block
  pc, ctx, mode, msg, todo, batch, parsed, exc,
  \* attributes of RedisConsumer
  running, idle, currentJob, redisHealthy, failures,
  \* _pending_batch_delivery: the state of that task and of each delivery in it
  dtask, dpc,
  \* the process: running, draining, joining the consumer task, or down
  sd, drained,
  \* history: executions of a message that produced a result
  runs,
  \* what has been spent of each bound
  faults, hookFaults, crashes, stops

cloudVars == <<enqueued, trimmed, cancelFlag>>
redisVars == <<delivered, pel, status>>
hookVars == <<hooks, hookFaults>>
frameVars == <<mode, msg, todo, batch, parsed>>
taskVars == <<pc, ctx, exc, frameVars>>
ownVars == <<running, idle, currentJob>>
backoffVars == <<redisHealthy, failures>>
dlvVars == <<dtask, dpc>>
lifeVars == <<sd, drained, crashes, stops>>
\* what a step of the task seldom touches, and all but its control
aroundVars == <<cloudVars, hookVars, dlvVars, lifeVars, runs>>
otherVars == <<aroundVars, redisVars, ownVars, backoffVars>>
vars == <<otherVars, taskVars, faults>>

-----------------------------------------------------------------------------
(* States *)

States == {"none", "executing", "completed", "failed", "cancelled"}
\* Mutant: a job found executing is taken for one that another run handles.
FinishedOrExecuting == {"completed", "cancelled", "executing"}
\* Mutant: a job that is already completed is taken up again.
OnlyCancelled == {"cancelled"}
Finished == {"completed", "cancelled"}

\* The awaits inside the try block of _process_message and its handlers.
InTry == {"run", "hook", "reap", "chkRun", "chkDone", "done", "chkSend", "send",
          "errChk", "fail", "sendErr", "mark"}

\* The awaits at which a job or a batch is being processed.
Busy == InTry \union {"exec", "fin", "bExec", "bRun"}

\* The awaits before a message is found to need processing.
Screening == {"next", "xrange", "status", "flag", "markEarly", "ackEarly"}

Over == {"ended", "crashed"}
PCs == Busy \union Screening \union Over \union {"off", "setup", "pending", "loop", "read", "got"}
DPCs == {"none", "chk1", "done", "chk2", "send", "mark", "ack"}

Lowest(S) == CHOOSE m \in S : \A x \in S : m <= x
FirstOf(S, n) == {m \in S : Cardinality({x \in S : x < m}) < n}

job == JobOf[msg]
\* Mutant: the cancel flag is not looked at.
FlagIgnored(m) == FALSE
Flagged(m) == JobOf[m] \in cancelFlag
ProcessUp == sd # "down"

\* Mutant: drain does not wait for the idle event.
DrainAtOnce == sd = "draining"

\* The event loop has been told that drain's wait on the idle event is over;
\* it resumes drain before it looks at the consumer's socket again.  (Python
\* 3.12, which .python-version asks for.  In 3.11 wait_for goes through a task of
\* its own, and the consumer may get in between.)
DrainDue == sd = "draining" /\ idle

-----------------------------------------------------------------------------
(* Calls to Redis and to the webhook endpoint *)

\* A Redis call raises an error of kind k.
Lose(k) == k \in FaultKinds /\ faults < MaxFaults /\ faults' = faults + 1

\* The outcomes of _safe_hset and _safe_xack that return: the server did it,
\* or the connection was lost before or after the server did it.
SafeHSet(j, s) ==
  \/ status' = [status EXCEPT ![j] = s] /\ UNCHANGED faults
  \/ Lose("conn") /\ status' \in {status, [status EXCEPT ![j] = s]}

\* Mutant: the acknowledgement is forgotten.
NoXAck(m) == UNCHANGED <<pel, faults>>

SafeXAck(m) ==
  \/ pel' = pel \ {m} /\ UNCHANGED faults
  \/ Lose("conn") /\ pel' \in {pel, pel \ {m}}

\* send_result and send_error: a POST is accepted, or every attempt failed
\* although the cloud may have received one of them.
PostAccepted(j, s) ==
  /\ hooks' = [hooks EXCEPT ![j] = @ \union {s}]
  /\ UNCHANGED hookFaults

PostRaises(j, s) ==
  /\ hookFaults < MaxHookFaults
  /\ hookFaults' = hookFaults + 1
  /\ hooks' \in {hooks, [hooks EXCEPT ![j] = @ \union {s}]}

-----------------------------------------------------------------------------
(* The consumer task: where it goes on *)

At(p) == pc = p /\ ProcessUp /\ ~DrainDue

GoTo(p) == pc' = p /\ UNCHANGED <<ctx, exc, frameVars>>

\* The calls in progress are left, by return or by an exception.
DropFrame ==
  /\ mode' = "none" /\ msg' = 0
  /\ todo' = {} /\ batch' = {} /\ parsed' = {}

\* Mutant: the exponent is one too large.
OverflowsEarly == failures >= PowLimit

\* 2.0 ** failures, computed before min caps the delay, is out of range.
BackoffOverflows == failures > PowLimit

\* An exception reaches consume_loop.  Before the loop nothing catches it.
\* In the loop a connection error backs off, unless computing the delay
\* raises in its turn; any other error waits one second.
Raise(k) ==
  LET caught == ctx = "loop"
      lost == caught /\ k = "conn"
  IN /\ redisHealthy' = IF lost THEN FALSE ELSE redisHealthy
     /\ failures' = IF lost THEN failures + 1 ELSE failures
     /\ pc' = IF ~caught \/ (lost /\ BackoffOverflows) THEN "crashed" ELSE "loop"
     /\ exc' = "none" /\ UNCHANGED ctx
     /\ DropFrame

\* A Redis call raises an error that the call itself does not catch (K):
\* outside every handler, inside the try block of _process_message, and
\* inside one of its except clauses.
FaultRaised(K) ==
  /\ \E k \in FaultKinds \intersect K : Lose(k) /\ Raise(k)
  /\ UNCHANGED <<aroundVars, redisVars, ownVars>>

\* Mutant: the error is swallowed and the job goes on as if it had run.
FaultSwallowed(K) ==
  /\ \E k \in FaultKinds \intersect K : Lose(k)
  /\ GoTo("chkDone")
  /\ UNCHANGED otherVars

FaultInTry(K) ==
  /\ \E k \in FaultKinds \intersect K : Lose(k)
  /\ GoTo("errChk")
  /\ UNCHANGED otherVars

FaultInHandler(K) ==
  /\ \E k \in FaultKinds \intersect K : Lose(k) /\ exc' = k
  /\ pc' = "fin"
  /\ UNCHANGED <<ctx, frameVars, otherVars>>

\* The task passes p; a status write at p succeeds or is skipped.
Pass(p, q) ==
  At(p) /\ GoTo(q) /\ UNCHANGED <<otherVars, faults>>

WriteStatus(p, s, q) ==
  /\ At(p)
  /\ SafeHSet(job, s)
  /\ GoTo(q)
  /\ UNCHANGED <<aroundVars, ownVars, backoffVars, delivered, pel>>

-----------------------------------------------------------------------------
(* setup, recover_pending and consume_loop *)

\* XGROUP CREATE; an existing group is no error.
Setup ==
  \/ Pass("setup", "pending")
  \/ At("setup") /\ FaultRaised(ErrKinds)

\* XPENDING of this consumer's own entries.
FetchPending ==
  \/ /\ At("pending")
     /\ todo' = FirstOf(pel, PendingCount)
     /\ mode' = "recover" /\ pc' = "next"
     /\ UNCHANGED <<otherVars, ctx, exc, msg, batch, parsed, faults>>
  \/ At("pending") /\ FaultRaised(ErrKinds)

ScreenFrom(m) == IF Kind[m] = "noKeys" THEN "ackEarly" ELSE "status"

\* The next message of the list being walked, or what follows the list: the
\* batch that was parsed from it, or the head of the loop.
NextMessage ==
  LET batchParsed == mode = "batch" /\ parsed # {} IN
  /\ At("next")
  /\ \/ \E m \in todo :
          /\ m = Lowest(todo)
          /\ msg' = m /\ todo' = todo \ {m}
          /\ pc' = IF mode = "recover" THEN "xrange" ELSE ScreenFrom(m)
          /\ UNCHANGED <<ctx, mode, batch, parsed, idle>>
     \/ /\ todo = {} /\ batchParsed
        /\ idle' = FALSE
        /\ todo' = parsed /\ pc' = "bExec"
        /\ UNCHANGED <<ctx, mode, msg, batch, parsed>>
     \/ /\ todo = {} /\ ~batchParsed
        /\ ctx' = "loop" /\ pc' = "loop"
        /\ DropFrame /\ UNCHANGED idle
  /\ UNCHANGED <<aroundVars, redisVars, backoffVars, exc, running, currentJob, faults>>

\* XRANGE of one pending id; a message no longer in the stream is skipped.
FetchRecovered ==
  \/ Pass("xrange", IF msg \in trimmed THEN "next" ELSE ScreenFrom(msg))
  \/ At("xrange") /\ FaultRaised(ErrKinds)

LoopTest == Pass("loop", IF running THEN "read" ELSE "ended")

\* Mutant: the range of unread messages is one too long.
UnreadPastEnd == (1 .. (enqueued + 1)) \ (delivered \union trimmed)

Unread == (1 .. enqueued) \ (delivered \union trimmed)
ReadCount == IF CanBatch THEN BatchReadCount ELSE 1

\* XREADGROUP: new messages, none when the block time passes, or an error,
\* which a lost connection may raise after the server handed them out.
ReadGroup ==
  LET new == FirstOf(Unread, ReadCount)
      handOut == delivered' = delivered \union new /\ pel' = pel \union new
  IN /\ At("read")
     /\ \/ /\ handOut
           /\ todo' = new /\ batch' = new /\ pc' = "got"
           /\ redisHealthy' = TRUE /\ failures' = 0
           /\ UNCHANGED <<ctx, exc, mode, msg, parsed, faults>>
        \/ \E k \in FaultKinds :
             /\ Lose(k) /\ Raise(k)
             /\ UNCHANGED <<delivered, pel>> \/ (k = "conn" /\ handOut)
     /\ UNCHANGED <<aroundVars, ownVars, status>>

\* Mutant: the pending delivery is looked at but not awaited.
DeliveryNotAwaited == dtask \in {"none", "ok", "running"}

\* A pending delivery is awaited until it has succeeded, or raises.
DeliveryAwaited == dtask \in {"none", "ok"}

\* Mutant: pending messages are recovered at startup only.
NoRecheck == {"loop"}

\* After an empty read recover_pending runs if the last check is old enough.
AfterEmptyRead == {"loop", "pending"}

\* Then the messages read are processed, as a batch or one by one.
Dispatch ==
  /\ At("got") /\ DeliveryAwaited
  /\ dtask' = "none"
  /\ \/ /\ todo # {}
        /\ mode' = IF CanBatch /\ Cardinality(todo) > 1 THEN "batch" ELSE "single"
        /\ pc' = "next"
     \/ /\ todo = {}
        /\ pc' \in AfterEmptyRead
        /\ UNCHANGED mode
  /\ UNCHANGED <<cloudVars, redisVars, hookVars, ownVars, backoffVars, lifeVars,
                 ctx, exc, msg, todo, batch, parsed, dpc, runs, faults>>

\* A failed delivery raises its exception at the await.  The reference to
\* the task is kept, the messages just read stay pending.
DispatchRaises ==
  /\ At("got") /\ dtask \in ErrKinds
  /\ Raise(dtask)
  /\ UNCHANGED <<aroundVars, redisVars, ownVars, faults>>

-----------------------------------------------------------------------------
(* The first part of _process_message and of _process_batch: a finished or *)
(* cancelled job is acknowledged and left                                  *)

GetStatus ==
  \/ Pass("status", IF status[job] \in Finished THEN "ackEarly" ELSE "flag")
  \/ At("status") /\ FaultRaised(ErrKinds)

\* The cancel flag is read.  In a batch the message is parsed next (an
\* unusable one is acknowledged and skipped); alone it becomes the current job.
GetFlag ==
  \/ At("flag") /\ Flagged(msg) /\ Pass("flag", "markEarly")
  \/ /\ At("flag") /\ ~Flagged(msg) /\ mode = "batch"
     /\ IF Kind[msg] = "badIR"
        THEN pc' = "ackEarly" /\ UNCHANGED parsed
        ELSE pc' = "next" /\ parsed' = parsed \union {msg}
     /\ UNCHANGED <<otherVars, ctx, exc, mode, msg, todo, batch, faults>>
  \/ /\ At("flag") /\ ~Flagged(msg) /\ mode # "batch"
     /\ idle' = FALSE /\ currentJob' = job
     /\ GoTo("exec")
     /\ UNCHANGED <<aroundVars, redisVars, backoffVars, running, faults>>
  \/ At("flag") /\ FaultRaised(ErrKinds)

MarkEarly ==
  \/ WriteStatus("markEarly", "cancelled", "ackEarly")
  \/ At("markEarly") /\ FaultRaised({"other"})

AckEarly ==
  \/ /\ At("ackEarly")
     /\ SafeXAck(msg)
     /\ GoTo("next")
     /\ UNCHANGED <<aroundVars, ownVars, backoffVars, delivered, status>>
  \/ At("ackEarly") /\ FaultRaised({"other"})

-----------------------------------------------------------------------------
(* _process_message, from the "executing" status on *)

MarkExecuting ==
  \/ WriteStatus("exec", "executing", IF Kind[msg] = "badIR" THEN "errChk" ELSE "run")
  \/ At("exec") /\ FaultRaised({"other"})

\* The executor (external) returns a result or raises.
ExecutorFinishes ==
  \/ /\ At("run")
     /\ runs' = [runs EXCEPT ![msg] = @ + 1]
     /\ GoTo("chkRun")
     /\ UNCHANGED <<cloudVars, redisVars, hookVars, ownVars, backoffVars, dlvVars,
                    lifeVars, faults>>
  \/ Pass("run", "errChk")

\* A poll of the cancel flag while the executor runs.
PollCancel ==
  \/ At("run") /\ Flagged(msg) /\ Pass("run", "hook")
  \/ At("run") /\ FaultInTry(ErrKinds)

\* The executor's cancel hook is called, whatever it raises is logged; then
\* the run task is cancelled and awaited, and its outcome ignored.
RequestRunnerCancel == Pass("hook", "reap")
ReapRunTask == Pass("reap", "mark")

\* A cancel check of the try block at p, followed by q.
CheckCancel(p, q) ==
  \/ Pass(p, IF Flagged(msg) THEN "mark" ELSE q)
  \/ At(p) /\ FaultInTry(ErrKinds)

MarkCompleted ==
  \/ WriteStatus("done", "completed", "chkSend")
  \/ At("done") /\ FaultInTry({"other"})

SendResult ==
  /\ At("send")
  /\ \/ PostAccepted(job, "completed") /\ GoTo("fin")
     \/ PostRaises(job, "completed") /\ GoTo("errChk")
  /\ UNCHANGED <<cloudVars, redisVars, ownVars, backoffVars, dlvVars, lifeVars, runs, faults>>

\* except Exception: a last cancel check, which may itself raise.
CheckCancelOnError ==
  \/ Pass("errChk", IF Flagged(msg) THEN "mark" ELSE "fail")
  \/ At("errChk") /\ FaultInHandler(ErrKinds)

\* Mutant: the handler of a cancelled job runs on into the error webhook.
MarkCancelledNoReturn == WriteStatus("mark", "cancelled", "sendErr")

MarkCancelled ==
  \/ WriteStatus("mark", "cancelled", "fin")
  \/ At("mark") /\ FaultInHandler({"other"})

\* Mutant: no error webhook follows the status.
MarkFailedSilently == WriteStatus("fail", "failed", "fin")

MarkFailed ==
  \/ WriteStatus("fail", "failed", "sendErr")
  \/ At("fail") /\ FaultInHandler({"other"})

\* The error webhook; its failure is logged.
SendError ==
  /\ At("sendErr")
  /\ PostAccepted(job, "failed") \/ PostRaises(job, "failed")
  /\ GoTo("fin")
  /\ UNCHANGED <<cloudVars, redisVars, ownVars, backoffVars, dlvVars, lifeVars, runs, faults>>

\* finally: XACK, then the attributes are reset and an exception in flight
\* goes on.  An XACK that raises leaves the attributes as they are.
FinallyBlock ==
  \/ /\ At("fin")
     /\ SafeXAck(msg)
     /\ currentJob' = "noJob" /\ idle' = TRUE
     /\ \/ exc = "none" /\ GoTo("next") /\ UNCHANGED backoffVars
        \/ exc \in ErrKinds /\ Raise(exc)
        \/ /\ exc = "cancel"
           /\ pc' = "ended" /\ exc' = "none" /\ DropFrame
           /\ UNCHANGED <<ctx, backoffVars>>
     /\ UNCHANGED <<aroundVars, delivered, status, running>>
  \/ At("fin") /\ FaultRaised({"other"})

-----------------------------------------------------------------------------
(* _process_batch, from the "executing" statuses on *)

BatchMarkExecuting ==
  /\ At("bExec")
  /\ \/ \E m \in todo :
          /\ m = Lowest(todo)
          /\ SafeHSet(JobOf[m], "executing")
          /\ todo' = todo \ {m}
          /\ UNCHANGED <<aroundVars, ownVars, backoffVars, delivered, pel, pc, ctx, exc,
                         mode, msg, batch, parsed>>
     \/ todo # {} /\ FaultRaised({"other"})

BatchStart == todo = {} /\ Pass("bExec", "bRun")

\* batch_run (external) returned: a background task delivers the results.
\* It fails before any delivery unless there is one result for each job.
BatchSucceeds ==
  /\ At("bRun")
  /\ \/ /\ dtask' = "running"
        /\ dpc' = [m \in Msgs |-> IF m \in parsed THEN "chk1" ELSE "none"]
        /\ runs' = [m \in Msgs |-> IF m \in parsed THEN runs[m] + 1 ELSE runs[m]]
        /\ UNCHANGED idle
     \/ /\ ~ResultsMatch
        /\ dtask' = "other" /\ idle' = TRUE
        /\ UNCHANGED <<dpc, runs>>
  /\ pc' = "loop" /\ DropFrame
  /\ UNCHANGED <<cloudVars, redisVars, hookVars, backoffVars, lifeVars, ctx, exc,
                 running, currentJob, faults>>

\* batch_run raised: every message as read is processed on its own.
BatchFallsBack ==
  /\ At("bRun")
  /\ mode' = "single" /\ todo' = batch /\ parsed' = {} /\ pc' = "next"
  /\ UNCHANGED <<otherVars, ctx, exc, msg, batch, faults>>

-----------------------------------------------------------------------------
(* _deliver_batch_results and its deliveries, one per message *)

\* Mutant: each delivery sets the idle event when it returns.
EachDeliverySetsIdle(m, p) ==
  /\ dpc' = [dpc EXCEPT ![m] = p]
  /\ idle' = (idle \/ p = "none")
  /\ UNCHANGED dtask

\* A delivery goes on to await p; when the last one returns, so does the task.
DeliveryGoesTo(m, p) ==
  LET last == p = "none" /\ \A x \in Msgs \ {m} : dpc[x] = "none" IN
  /\ dpc' = [dpc EXCEPT ![m] = p]
  /\ IF dtask = "running" /\ last
     THEN dtask' = "ok" /\ idle' = TRUE
     ELSE UNCHANGED <<dtask, idle>>

\* A delivery raises: gather passes the first exception on at once and
\* leaves the other deliveries running.
DeliveryRaises(m, K) ==
  \E k \in FaultKinds \intersect K :
    /\ Lose(k)
    /\ dpc' = [dpc EXCEPT ![m] = "none"]
    /\ IF dtask = "running"
       THEN dtask' = k /\ idle' = TRUE
       ELSE UNCHANGED <<dtask, idle>>

DeliveryFrame ==
  UNCHANGED <<cloudVars, backoffVars, lifeVars, taskVars, delivered, running,
              currentJob, runs>>

DeliveryChecks(m) ==
  /\ ProcessUp /\ dpc[m] \in {"chk1", "chk2"}
  /\ \/ /\ DeliveryGoesTo(m, IF Flagged(m) THEN "mark"
                             ELSE IF dpc[m] = "chk1" THEN "done" ELSE "send")
        /\ UNCHANGED faults
     \/ DeliveryRaises(m, ErrKinds)
  /\ UNCHANGED <<pel, status, hookVars>> /\ DeliveryFrame

DeliveryMarks(m) ==
  /\ ProcessUp /\ dpc[m] \in {"done", "mark"}
  /\ \/ /\ SafeHSet(JobOf[m], IF dpc[m] = "done" THEN "completed" ELSE "cancelled")
        /\ DeliveryGoesTo(m, IF dpc[m] = "done" THEN "chk2" ELSE "ack")
     \/ DeliveryRaises(m, {"other"}) /\ UNCHANGED status
  /\ UNCHANGED <<pel, hookVars>> /\ DeliveryFrame

\* The result webhook; its failure is logged.
DeliverySends(m) ==
  /\ ProcessUp /\ dpc[m] = "send"
  /\ PostAccepted(JobOf[m], "completed") \/ PostRaises(JobOf[m], "completed")
  /\ DeliveryGoesTo(m, "ack")
  /\ UNCHANGED <<pel, status, faults>> /\ DeliveryFrame

DeliveryAcks(m) ==
  /\ ProcessUp /\ dpc[m] = "ack"
  /\ \/ SafeXAck(m) /\ DeliveryGoesTo(m, "none")
     \/ DeliveryRaises(m, {"other"}) /\ UNCHANGED pel
  /\ UNCHANGED <<status, hookVars>> /\ DeliveryFrame

-----------------------------------------------------------------------------
(* Shutdown: lifespan calls drain, cancels the consumer task and joins it *)

\* CancelledError is raised at the await of the consumer task.  In the try
\* block it goes through the finally block, except where the run task is
\* being awaited: there it is swallowed.  A write in flight may have been
\* done, which differs from a cancellation one await later only at "exec" and
\* "fin".  A delivery being awaited is cancelled with its children.
CancelConsumer ==
  LET cutDelivery == pc = "got" /\ dtask = "running" IN
  /\ \/ /\ pc \in InTry \ {"reap"}
        /\ pc' = "fin" /\ exc' = "cancel"
        /\ UNCHANGED <<frameVars, pel, status>>
     \/ /\ pc = "reap"
        /\ pc' = "mark"
        /\ UNCHANGED <<exc, frameVars, pel, status>>
     \/ /\ pc \in Over
        /\ UNCHANGED <<pc, exc, frameVars, pel, status>>
     \/ /\ pc \in PCs \ (InTry \union Over)
        /\ pc' = "ended" /\ exc' = "none" /\ DropFrame
        /\ pel' \in {pel, IF pc = "fin" THEN pel \ {msg} ELSE pel}
        /\ status' \in {status, IF pc = "exec" THEN [status EXCEPT ![job] = "executing"]
                                ELSE status}
  /\ dpc' = IF cutDelivery THEN [m \in Msgs |-> "none"] ELSE dpc
  /\ idle' = (idle \/ cutDelivery)
  /\ UNCHANGED <<cloudVars, hookVars, backoffVars, delivered, ctx, running, currentJob,
                 crashes, stops, runs, faults>>

\* drain: stop(), then the wait for the idle event begins.
StopRequested ==
  /\ sd = "up" /\ stops < MaxStops
  /\ sd' = "draining" /\ stops' = stops + 1
  /\ running' = FALSE
  /\ UNCHANGED <<cloudVars, redisVars, hookVars, taskVars, backoffVars, dlvVars,
                 idle, currentJob, drained, crashes, runs, faults>>

\* The consumer is idle and no delivery is pending, or a finished one.
DrainClean ==
  /\ DrainDue /\ dtask \in {"none", "ok"}
  /\ sd' = "joining" /\ drained' = "clean"
  /\ dtask' = "none"
  /\ CancelConsumer

\* drain awaits a failed delivery and raises; the process ends, which
\* cancels the consumer task.
DrainRaises ==
  /\ DrainDue /\ dtask \in ErrKinds
  /\ sd' = "joining" /\ drained' = "error"
  /\ UNCHANGED dtask
  /\ CancelConsumer

\* Mutant: drain waits without a timeout.
DrainNeverTimesOut == FALSE

\* The timeout passes with the idle event cleared.
DrainTimesOut ==
  /\ sd = "draining" /\ ~idle
  /\ sd' = "joining" /\ drained' = "timeout"
  /\ dtask' = IF pc = "got" /\ dtask = "running" THEN "cancelled" ELSE dtask
  /\ CancelConsumer

\* The memory of the process is lost, what still runs in it is cut.
ProcessDies ==
  /\ sd' = "down"
  /\ pc' = "off" /\ ctx' = "start" /\ exc' = "none" /\ DropFrame
  /\ running' = FALSE /\ idle' = TRUE /\ currentJob' = "noJob"
  /\ redisHealthy' = TRUE /\ failures' = 0
  /\ dtask' = "none" /\ dpc' = [m \in Msgs |-> "none"]
  /\ UNCHANGED <<cloudVars, redisVars, hookVars, drained, stops, runs, faults>>

Exit ==
  /\ sd = "joining" /\ pc \in Over
  /\ ProcessDies /\ UNCHANGED crashes

Crash ==
  /\ ProcessUp /\ crashes < MaxCrashes
  /\ ProcessDies /\ crashes' = crashes + 1

Boot ==
  /\ sd = "down"
  /\ sd' = "up" /\ drained' = "none"
  /\ pc' = "setup" /\ running' = TRUE
  /\ UNCHANGED <<cloudVars, redisVars, hookVars, backoffVars, dlvVars, ctx, exc, frameVars,
                 idle, currentJob, crashes, stops, runs, faults>>

-----------------------------------------------------------------------------
(* The cloud (external): it adds jobs, asks for cancellation, trims the stream *)

CloudFrame ==
  UNCHANGED <<redisVars, hookVars, ownVars, backoffVars, taskVars, dlvVars, lifeVars,
              runs, faults>>

Enqueue ==
  /\ enqueued < NumMsgs
  /\ enqueued' = enqueued + 1
  /\ UNCHANGED <<trimmed, cancelFlag>> /\ CloudFrame

RequestCancel(j) ==
  /\ j \notin cancelFlag
  /\ cancelFlag' = cancelFlag \union {j}
  /\ UNCHANGED <<enqueued, trimmed>> /\ CloudFrame

Trim(m) ==
  /\ m \in Trimmable /\ m <= enqueued /\ m \notin trimmed
  /\ trimmed' = trimmed \union {m}
  /\ UNCHANGED <<enqueued, cancelFlag>> /\ CloudFrame

-----------------------------------------------------------------------------
Init ==
  /\ enqueued = 0 /\ trimmed = {} /\ cancelFlag = {}
  /\ hooks = [j \in Jobs |-> {}]
  /\ delivered = {} /\ pel = {} /\ status = [j \in Jobs |-> "none"]
  /\ pc = "setup" /\ ctx = "start" /\ exc = "none"
  /\ mode = "none" /\ msg = 0 /\ todo = {} /\ batch = {} /\ parsed = {}
  /\ running = TRUE /\ idle = TRUE /\ currentJob = "noJob"
  /\ redisHealthy = TRUE /\ failures = 0
  /\ dtask = "none" /\ dpc = [m \in Msgs |-> "none"]
  /\ sd = "up" /\ drained = "none"
  /\ runs = [m \in Msgs |-> 0]
  /\ faults = 0 /\ hookFaults = 0 /\ crashes = 0 /\ stops = 0

LoopStep ==
  \/ Setup \/ FetchPending \/ NextMessage \/ FetchRecovered
  \/ LoopTest \/ ReadGroup \/ Dispatch \/ DispatchRaises

ScreenStep == GetStatus \/ GetFlag \/ MarkEarly \/ AckEarly

ProcessStep ==
  \/ MarkExecuting \/ ExecutorFinishes \/ PollCancel
  \/ RequestRunnerCancel \/ ReapRunTask
  \/ CheckCancel("chkRun", "chkDone")
  \/ CheckCancel("chkDone", "done")
  \/ MarkCompleted
  \/ CheckCancel("chkSend", "send")
  \/ SendResult
  \/ CheckCancelOnError \/ MarkCancelled \/ MarkFailed \/ SendError
  \/ FinallyBlock

BatchStep == BatchMarkExecuting \/ BatchStart \/ BatchSucceeds \/ BatchFallsBack

DeliveryStep(m) ==
  DeliveryChecks(m) \/ DeliveryMarks(m) \/ DeliverySends(m) \/ DeliveryAcks(m)

ConsumerStep == LoopStep \/ ScreenStep \/ ProcessStep \/ BatchStep

DrainStep == DrainClean \/ DrainRaises \/ DrainTimesOut

Next ==
  \/ ConsumerStep
  \/ \E m \in Msgs : DeliveryStep(m)
  \/ StopRequested \/ DrainStep \/ Exit \/ Crash \/ Boot
  \/ Enqueue
  \/ \E j \in Jobs : RequestCancel(j)
  \/ \E m \in Msgs : Trim(m)

Spec == Init /\ [][Next]_vars
=============================================================================
