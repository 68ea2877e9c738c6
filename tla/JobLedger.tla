----------------------------- MODULE JobLedger -----------------------------
(***************************************************************************)
(* What the node promises the cloud about its jobs, whatever runs inside   *)
(* it: where the message of a job is, how often it produced a result, what *)
(* the status hash says and which terminal webhooks were sent.  Consumer   *)
(* implements it, with its loop, its batches, its deliveries and its       *)
(* crashes hidden.                                                         *)
(***************************************************************************)
EXTENDS Integers

CONSTANTS
  Msgs, Jobs,
  JobOf,  \* the job a message carries
  Owed    \* messages whose job is settled before they are acknowledged

VARIABLES
  place,  \* of a message: "unsent", "queued", "pending" or "acked"
  runs,   \* results that a message has produced
  status, \* of a job, as in its status hash
  hooks,  \* terminal webhooks sent for a job
  asked,  \* jobs the cloud wants to be cancelled
  calm    \* Redis has answered and nobody has stopped the node so far

ledgerVars == <<place, runs, status, hooks, asked, calm>>

HandedOut(j) == \E m \in Msgs : JobOf[m] = j /\ place[m] \in {"pending", "acked"}
HasResult(j) == \E m \in Msgs : JobOf[m] = j /\ runs[m] > 0

\* Nothing more is executed for such a job.
Closed(j) == status[j] \in {"completed", "cancelled"}
Settled(j) == Closed(j) \/ status[j] = "failed"

Submit(m) ==
  /\ place[m] = "unsent"
  /\ place' = [place EXCEPT ![m] = "queued"]
  /\ UNCHANGED <<runs, status, hooks, asked>>

Ask(j) ==
  /\ asked' = asked \union {j}
  /\ UNCHANGED <<place, runs, status, hooks>>

\* The node is given messages that were never given out before.
HandOut(S) ==
  /\ S # {} /\ \A m \in S : place[m] = "queued"
  /\ place' = [m \in Msgs |-> IF m \in S THEN "pending" ELSE place[m]]
  /\ UNCHANGED <<runs, status, hooks, asked>>

\* The executor returns results, for one message or for those of a batch.
Execute(S) ==
  /\ S # {}
  /\ \A m \in S : place[m] \in {"pending", "acked"} /\ ~Closed(JobOf[m])
  /\ runs' = [m \in Msgs |-> IF m \in S THEN runs[m] + 1 ELSE runs[m]]
  /\ UNCHANGED <<place, status, hooks, asked>>

\* A status is recorded.  "completed" stands for a result, "cancelled" for a
\* request of the cloud, and nothing follows "cancelled".
Record(j, s) ==
  /\ HandedOut(j) /\ status[j] # "cancelled"
  /\ \/ s = "executing" /\ ~Closed(j)
     \/ s = "completed" /\ HasResult(j)
     \/ s = "failed"
     \/ s = "cancelled" /\ j \in asked
  /\ status' = [status EXCEPT ![j] = s]
  /\ UNCHANGED <<place, runs, hooks, asked>>

Report(j, s) ==
  /\ HandedOut(j) /\ status[j] # "cancelled"
  /\ s = "failed" \/ (s = "completed" /\ HasResult(j))
  /\ hooks' = [hooks EXCEPT ![j] = @ \union {s}]
  /\ UNCHANGED <<place, runs, status, asked>>

\* Redis forgets the message: an owed job is settled by then, unless something
\* has failed or the node was stopped.
Acknowledge(m) ==
  /\ place[m] = "pending"
  /\ m \in Owed /\ calm' => Settled(JobOf[m])
  /\ place' = [place EXCEPT ![m] = "acked"]
  /\ UNCHANGED <<runs, status, hooks, asked>>

LedgerInit ==
  /\ place = [m \in Msgs |-> "unsent"] /\ runs = [m \in Msgs |-> 0]
  /\ status = [j \in Jobs |-> "none"] /\ hooks = [j \in Jobs |-> {}]
  /\ asked = {} /\ calm = TRUE

LedgerNext ==
  /\ calm' \in {calm, FALSE}
  /\ \/ \E m \in Msgs : Submit(m) \/ Acknowledge(m)
     \/ \E S \in SUBSET Msgs : HandOut(S) \/ Execute(S)
     \/ \E j \in Jobs : Ask(j)
     \/ \E j \in Jobs, s \in {"executing", "completed", "failed", "cancelled"} : Record(j, s)
     \/ \E j \in Jobs, s \in {"completed", "failed"} : Report(j, s)
     \/ UNCHANGED <<place, runs, status, hooks, asked>>

LedgerSpec == LedgerInit /\ [][LedgerNext]_ledgerVars
=============================================================================
