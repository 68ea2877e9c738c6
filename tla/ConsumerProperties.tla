------------------------- MODULE ConsumerProperties -------------------------
(***************************************************************************)
(* What RedisConsumer promises: the properties the runs check and the      *)
(* theorems of ConsumerProofs prove, and the fairness its liveness needs.  *)
(***************************************************************************)
EXTENDS Consumer

Acked(m) == m \in delivered /\ m \notin pel

\* The message m has a job the single path and the batch path both report.
Reportable(m) == Kind[m] = "ok" \/ (Kind[m] = "badIR" /\ ~CanBatch)

-----------------------------------------------------------------------------
(* Fairness *)

\* Every await of the consumer task and of the deliveries ends (Redis answers
\* or the call fails, the executor returns or raises, a POST runs out of
\* attempts) and asyncio resumes every task that is ready; a drain ends by its
\* timeout at the latest.
TaskFairness ==
  /\ WF_vars(ConsumerStep)
  /\ \A m \in Msgs : WF_vars(DeliveryStep(m))
  /\ WF_vars(DrainStep)
  /\ WF_vars(Exit)

\* The monotonic clock passes _PENDING_RECHECK_SECS: of infinitely many empty
\* reads, one is followed by recover_pending.
ClockFairness == SF_vars(Dispatch /\ pc' = "pending")

FairSpec == Spec /\ TaskFairness /\ ClockFairness

-----------------------------------------------------------------------------
(* Invariants *)

\* Type invariant of all state of the consumer, its deliveries, Redis and
\* the cloud.
TypeOK ==
  /\ enqueued \in 0 .. NumMsgs
  /\ trimmed \in SUBSET Msgs
  /\ cancelFlag \in SUBSET Jobs
  /\ hooks \in [Jobs -> SUBSET {"completed", "failed"}]
  /\ delivered \in SUBSET Msgs /\ pel \in SUBSET Msgs
  /\ status \in [Jobs -> States]
  /\ pc \in PCs /\ ctx \in {"start", "loop"}
  /\ exc \in ErrKinds \union {"none", "cancel"}
  /\ mode \in {"none", "recover", "single", "batch"}
  /\ msg \in Msgs \union {0}
  /\ todo \in SUBSET Msgs /\ batch \in SUBSET Msgs /\ parsed \in SUBSET Msgs
  /\ running \in BOOLEAN /\ idle \in BOOLEAN /\ redisHealthy \in BOOLEAN
  /\ currentJob \in Jobs \union {"noJob"}
  /\ failures \in Nat
  /\ dtask \in ErrKinds \union {"none", "running", "ok", "cancelled"}
  /\ dpc \in [Msgs -> DPCs]
  /\ sd \in {"up", "draining", "joining", "down"}
  /\ drained \in {"none", "clean", "timeout", "error"}
  /\ runs \in [Msgs -> Nat]
  /\ faults \in 0 .. MaxFaults /\ hookFaults \in 0 .. MaxHookFaults
  /\ crashes \in 0 .. MaxCrashes /\ stops \in 0 .. MaxStops

\* drain relies on the idle event: it is cleared while a job or a batch is being
\* processed, and while results of a batch are being delivered, as long as none of
\* the deliveries has failed.  When one fails, gather passes its exception on, the
\* finally block sets the event, and the others run on with the event set; the
\* failed task then stands behind the event for drain to find.
BusyMeansNotIdle ==
  /\ pc \in Busy => ~idle
  /\ \A m \in Msgs : dpc[m] # "none" /\ idle => dtask \in ErrKinds

\* A drain that reports success has not cut a job: the CancelledError that
\* follows it never travels through the finally block of _process_message, and
\* no delivery is in progress, not even one left behind by a failed sibling.
CleanDrainCutsNoJob ==
  drained = "clean" => exc # "cancel" /\ \A m \in Msgs : dpc[m] = "none"

\* The deliveries of a batch are over before the loop looks at any further
\* message, so that no message is delivered and processed at the same time,
\* even when one delivery has failed and left the others running.
DeliveryExcludesProcessing ==
  (\E m \in Msgs : dpc[m] # "none") => pc \notin Busy \union Screening \union {"pending"}

\* Nothing is recorded or reported as completed for a job that never
\* produced a result, after any mix of faults, fallbacks, crashes and restarts.
CompletedIsEarned ==
  \A j \in Jobs :
    status[j] = "completed" \/ "completed" \in hooks[j]
      => \E m \in Msgs : JobOf[m] = j /\ runs[m] > 0

\* While Redis answers and nobody shuts the node down, an acknowledged job has
\* a terminal status, also when the process crashed while it was executing: no
\* crash makes Redis forget an unfinished job.
AckedIsSettled ==
  faults = 0 /\ stops = 0 =>
    \A m \in Msgs :
      Acked(m) /\ Reportable(m) => status[JobOf[m]] \in {"completed", "failed", "cancelled"}

\* While nothing has failed, an acknowledged job has been reported exactly as its
\* status says: one kind of terminal webhook, and none for a cancelled job.
AckedIsReported ==
  faults = 0 /\ hookFaults = 0 /\ crashes = 0 /\ stops = 0 =>
    \A m \in Msgs :
      Acked(m) /\ Reportable(m) =>
        hooks[JobOf[m]] = CASE status[JobOf[m]] = "completed" -> {"completed"}
                            [] status[JobOf[m]] = "failed" -> {"failed"}
                            [] status[JobOf[m]] = "cancelled" -> {}
                            [] OTHER -> {"never reported"}

\* A message produces a second result only because a Redis call failed or the
\* process went down in between; a webhook that fails is no such reason.
RerunNeedsCause ==
  \A m \in Msgs : runs[m] <= 1 + faults + crashes + stops

\* Once it has entered its loop the consumer task outlives every sequence of
\* errors, up to the number of lost connections in a row at which the backoff
\* overflows; before the loop one error ends it.
LoopOutlivesErrors == pc = "crashed" => ctx = "start" \/ faults > PowLimit + 1

-----------------------------------------------------------------------------
(* Action and temporal properties *)

\* "cancelled" is final: no later step, recovery included, changes the status
\* of the job or reports it to the cloud.
CancelledIsFinal ==
  [][\A j \in Jobs : status[j] = "cancelled" =>
       status'[j] = "cancelled" /\ hooks'[j] = hooks[j]]_vars

\* Where the message m is in its life, as the cloud sees it.
PlaceOf(m) ==
  CASE m > enqueued -> "unsent"
    [] m <= enqueued /\ m \notin delivered -> "queued"
    [] m \in pel -> "pending"
    [] OTHER -> "acked"

Ledger == INSTANCE JobLedger WITH
  Owed <- {m \in Msgs : Reportable(m)},
  place <- [m \in Msgs |-> PlaceOf(m)],
  asked <- cancelFlag,
  calm <- faults = 0 /\ stops = 0

\* The consumer implements the ledger: whatever the loop, the batches, the
\* deliveries left behind, lost calls, crashes and restarts do, each step is
\* for the cloud one legal entry or none.  A message is given out once, a job
\* that is completed or cancelled is not executed again, "completed" stands for
\* a result, and a calm node settles a job before it acknowledges it.
KeepsLedger == Ledger!LedgerSpec

\* A job cancelled before its message is handed out is never executed.
CancelledWhileQueuedNeverRuns ==
  \A m \in Msgs :
    [](JobOf[m] \in cancelFlag /\ m \notin delivered => [](runs[m] = 0))

\* Unless the consumer task has died, every message that was put in the
\* stream is acknowledged in the end, also one that a lost connection or an
\* error left in the pending entries list.
EveryMessageIsAcked ==
  (<>[](pc # "crashed")) =>
    \A m \in Msgs : (m <= enqueued /\ m \notin trimmed) ~> Acked(m)

\* A shutdown that has begun ends, with the idle event stuck too.
ShutdownCompletes == (sd = "draining") ~> (sd = "down")

-----------------------------------------------------------------------------
(* What the documentation says and the code does not keep *)

\* docs/operations/GRACEFUL_SHUTDOWN.md: when the drain times out, the
\* message of the cancelled job "is **not** ACK'd".
CutJobStaysPending ==
  [][pc = "fin" /\ exc = "cancel" => msg \in pel']_vars

\* docs/jobs/INDEX.md: `completed` means "Execution succeeded, webhook sent."
CompletedMeansSent ==
  \A m \in Msgs :
    Acked(m) /\ status[JobOf[m]] = "completed" => "completed" \in hooks[JobOf[m]]

\* docs/jobs/CONSUMER.md: "a transient Redis outage during execution does not
\* prevent webhook delivery".
OutageKeepsResult ==
  \A m \in Msgs :
    Acked(m) /\ runs[m] > 0 /\ JobOf[m] \notin cancelFlag => hooks[JobOf[m]] # {}

=============================================================================
