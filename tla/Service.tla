------------------------------- MODULE Service -------------------------------
(***************************************************************************)
(* The node as a process of the machine it runs on: the commands start,    *)
(* stop, reset and stop-vpn (coda_node/server/cli.py, daemon.py), which    *)
(* find the background node by its PID file only, and the lifespan of the  *)
(* node (app.py) with the teardown that a signal starts.  Commands may     *)
(* overlap and die in the middle, and a process id may be given to another *)
(* program.  All commands are run by the user the nodes run as; programs   *)
(* of other users are seen as far as a signal to them is refused.          *)
(***************************************************************************)
EXTENDS Integers, FiniteSets

CONSTANTS
  Pids,         \* process ids
  Cmds,         \* commands that may be in progress at the same time
  MaxDisorder   \* bound on what the PID file is not made for: a command beside
                \* a start, a command that dies, a process start
                \* did not spawn, a tunnel taken away

ASSUME ServiceConstants ==
  /\ {"none", "absent", "empty"} \intersect Pids = {}
  /\ MaxDisorder \in Nat

VARIABLES
  \* a process id is free, another program's ("foreign"), one of another user's
  \* ("alien"), or a node's: where the node's lifespan is
  proc,
  busy,       \* nodes whose consumer task has a job or a batch in progress
  delivering, \* nodes in which results of a batch are being delivered, by a task
              \* of their own
  overdue,    \* nodes whose drain ran out of time
  cmd,        \* the commands in progress
  pidFile,    \* the process id in it, "absent", or "empty" between open and write
  creds,      \* the key and the config are on disk
  vpn,        \* nobody has called kill_openvpn_daemon since a node last got its
              \* tunnel (which daemons that reaches is module Node's)
  wiped,      \* history: a reset has returned in order, and neither a start nor
              \* disorder has come since
  disorder    \* history: what has been spent of MaxDisorder

jobVars == <<busy, delivering, overdue>>
nodeVars == <<proc, jobVars>>
fileVars == <<pidFile, creds, vpn>>
vars == <<nodeVars, cmd, fileVars, wiped, disorder>>

\* Where a process is that is no node.
Outside == {"free", "foreign", "alien"}

\* The awaits of the lifespan after its yield.
Teardown == {"watch", "heartbeat", "drain", "consumer", "close"}
Stages == Teardown \union {"boot", "bootTerm", "up"}
CmdPCs == {"idle", "check", "stale", "unlink", "spawn", "open", "fill",
           "ask", "read", "term", "wait", "rm", "vpn", "files"}

NoCmd == [kind |-> "none", pc |-> "idle", pid |-> "none"]
InProgress == {c \in Cmds : cmd[c].pc # "idle"}

Nodes == {p \in Pids : proc[p] \in Stages}

\* _process_exists, for which one that may not be signalled does not exist;
\* is_daemon_running
ProcessExists(p) == p \in Pids /\ proc[p] \notin {"free", "alien"}
IsDaemonRunning == pidFile \in Pids /\ ProcessExists(pidFile)

-----------------------------------------------------------------------------
(* The node *)

MovesTo(p, s) == proc' = [proc EXCEPT ![p] = s]
Ends(p) ==
  /\ MovesTo(p, "free")
  /\ busy' = busy \ {p} /\ delivering' = delivering \ {p} /\ overdue' = overdue \ {p}

NodeFrame == UNCHANGED <<cmd, pidFile, wiped, disorder>>

\* The lifespan yields: connected, tunnel up, credentials stored, tasks created.
\* uvicorn (external) binds the port next; a node that cannot is shut down.
BootEnds(p) ==
  /\ proc[p] = "boot"
  /\ MovesTo(p, IF \E q \in Pids : proc[q] = "up" THEN "watch" ELSE "up")
  /\ creds' = TRUE /\ vpn' = TRUE
  /\ UNCHANGED jobVars /\ NodeFrame

\* The startup fails, or a signal cut it short: there is no teardown.  How far
\* it got decides about the tunnel and the files (module Node).
BootFails(p) ==
  /\ proc[p] \in {"boot", "bootTerm"}
  /\ Ends(p)
  /\ creds' \in {creds, TRUE} /\ vpn' \in BOOLEAN
  /\ NodeFrame

\* The consumer takes jobs until drain stops it: what it has read by then it may
\* still take up while drain waits, and after a drain that ran out of time, when
\* its job lost the cancellation.  It awaits the delivery of a batch first.
TakeJob(p) ==
  /\ \/ proc[p] \in {"up", "watch", "heartbeat", "drain"}
     \/ proc[p] = "consumer" /\ p \in overdue
  /\ p \notin busy \union delivering
  /\ busy' = busy \union {p}
  /\ UNCHANGED <<proc, delivering, overdue, creds, vpn>> /\ NodeFrame

\* A job is reported, or is broken off by the cancelled task; the results of a
\* batch are left to a task of their own.
FinishJob(p) ==
  /\ p \in busy
  /\ busy' = busy \ {p}
  /\ delivering' \in {delivering, delivering \union {p}}
  /\ UNCHANGED <<proc, overdue, creds, vpn>> /\ NodeFrame

\* All results of a batch are delivered, or their deliveries have failed.
DeliveryEnds(p) ==
  /\ p \in delivering
  /\ delivering' = delivering \ {p}
  /\ UNCHANGED <<proc, busy, overdue, creds, vpn>> /\ NodeFrame

\* guard.stop and the join of the watch task, which raises what ended it.
JoinWatch(p) ==
  /\ proc[p] = "watch"
  /\ \/ MovesTo(p, "heartbeat") /\ UNCHANGED jobVars
     \/ Ends(p)
  /\ UNCHANGED <<creds, vpn>> /\ NodeFrame

\* heartbeat.close and the join of the heartbeat task, which catches every error.
CloseHeartbeat(p) ==
  /\ proc[p] = "heartbeat"
  /\ MovesTo(p, "drain")
  /\ UNCHANGED <<jobVars, creds, vpn>> /\ NodeFrame

\* drain: an idle consumer with nothing left to deliver, or the timeout, which
\* stops no delivery; then the consumer is cancelled.  A failed delivery of
\* results is raised.
Drain(p) ==
  /\ proc[p] = "drain"
  /\ \/ /\ MovesTo(p, "consumer")
        /\ \/ p \notin busy \union delivering /\ UNCHANGED overdue
           \/ overdue' = overdue \union {p}
        /\ UNCHANGED <<busy, delivering>>
     \/ Ends(p)
  /\ UNCHANGED <<creds, vpn>> /\ NodeFrame

\* Mutant: the consumer is cancelled and not waited for.
ConsumerNotJoined(p) ==
  /\ proc[p] = "consumer"
  /\ MovesTo(p, "close")
  /\ UNCHANGED <<jobVars, creds, vpn>> /\ NodeFrame

\* The join of the consumer task, which raises what ended it.  The task that
\* delivers the results of a batch is not joined.
JoinConsumer(p) ==
  /\ proc[p] = "consumer" /\ p \notin busy
  /\ \/ MovesTo(p, "close") /\ UNCHANGED jobVars
     \/ Ends(p)
  /\ UNCHANGED <<creds, vpn>> /\ NodeFrame

\* webhook.close, redis_client.aclose, kill_openvpn_daemon
CloseClients(p) ==
  /\ proc[p] = "close"
  /\ Ends(p)
  /\ vpn' = FALSE /\ UNCHANGED creds /\ NodeFrame

NodeCrashes(p) ==
  /\ proc[p] \in Stages
  /\ Ends(p)
  /\ UNCHANGED <<creds, vpn>> /\ NodeFrame

\* SIGTERM or SIGINT (uvicorn, external): a node that is up is torn down, one
\* that is starting ends early, one that is being torn down goes on.
Signalled(s) ==
  CASE s = "up" -> {"watch"}
    [] s = "boot" -> {"bootTerm"}
    [] s = "foreign" -> {"foreign", "free"}
    [] OTHER -> {s}

\* A signal that is not from a command: Ctrl-C in the terminal of a foreground
\* node, kill, the machine shutting down.
InterruptNode(p) ==
  /\ proc[p] \in {"boot", "up"}
  /\ \E s \in Signalled(proc[p]) : MovesTo(p, s)
  /\ UNCHANGED <<jobVars, creds, vpn>> /\ NodeFrame

-----------------------------------------------------------------------------
(* Commands *)

GoTo(c, q) == cmd' = [cmd EXCEPT ![c].pc = q]
Return(c) == cmd' = [cmd EXCEPT ![c] = NoCmd]
CmdAt(c, q) == cmd[c].pc = q
OnlyFiles == UNCHANGED <<nodeVars, creds, vpn, wiped, disorder>>

Orderly == disorder = 0
Disorder == disorder < MaxDisorder /\ disorder' = disorder + 1 /\ wiped' = FALSE

Begin(c, kind) ==
  /\ c \notin InProgress
  /\ cmd' = [cmd EXCEPT ![c] = [NoCmd EXCEPT !.kind = kind, !.pc =
       CASE kind = "start" -> "check" [] kind = "stop" -> "ask" [] kind = "reset" -> "read"]]
  /\ IF \E d \in InProgress : "start" \in {kind, cmd[d].kind}
     THEN Disorder
     ELSE wiped' = (wiped /\ kind # "start") /\ UNCHANGED disorder
  /\ UNCHANGED <<nodeVars, fileVars>>

\* Mutant: a start does not look for a running daemon.
NeverRefuses(c) == CmdAt(c, "check") /\ GoTo(c, "stale") /\ UNCHANGED pidFile /\ OnlyFiles

\* main and then start_daemon refuse to start beside a running daemon.
CheckNotRunning(c) ==
  /\ CmdAt(c, "check")
  /\ IF IsDaemonRunning THEN Return(c) ELSE GoTo(c, "stale")
  /\ UNCHANGED pidFile /\ OnlyFiles

FindStale(c) ==
  /\ CmdAt(c, "stale")
  /\ GoTo(c, IF pidFile = "absent" THEN "spawn" ELSE "unlink")
  /\ UNCHANGED pidFile /\ OnlyFiles

\* unlink raises when the file is gone by now.
UnlinkStale(c) ==
  /\ CmdAt(c, "unlink")
  /\ IF pidFile = "absent" THEN Return(c) ELSE GoTo(c, "spawn")
  /\ pidFile' = "absent" /\ OnlyFiles

\* Popen, which may raise.
Spawn(c) ==
  /\ CmdAt(c, "spawn")
  /\ \/ \E p \in Pids :
          /\ proc[p] = "free"
          /\ MovesTo(p, "boot") /\ UNCHANGED jobVars
          /\ cmd' = [cmd EXCEPT ![c].pc = "open", ![c].pid = p]
     \/ Return(c) /\ UNCHANGED nodeVars
  /\ UNCHANGED <<fileVars, wiped, disorder>>

\* write_text; a file that was unlinked after it was opened is not there again.
WritePidFile(c) ==
  /\ \/ CmdAt(c, "open") /\ pidFile' = "empty" /\ GoTo(c, "fill")
     \/ /\ CmdAt(c, "fill") /\ Return(c)
        /\ pidFile' = IF pidFile = "absent" THEN "absent" ELSE cmd[c].pid
  /\ OnlyFiles

\* stop_daemon returns; reset goes on.
StopReturns(c) == IF cmd[c].kind = "reset" THEN GoTo(c, "vpn") ELSE Return(c)

AskRunning(c) ==
  /\ CmdAt(c, "ask")
  /\ IF IsDaemonRunning THEN GoTo(c, "read") ELSE Return(c)
  /\ UNCHANGED pidFile /\ OnlyFiles

\* Mutant: what the file holds is taken for a process id.
ReadUnchecked(c) ==
  /\ CmdAt(c, "read")
  /\ cmd' = [cmd EXCEPT ![c].pc = "term", ![c].pid = pidFile]
  /\ UNCHANGED pidFile /\ OnlyFiles

\* read_daemon_pid: no file, or one without a number, is no process id.
ReadPid(c) ==
  /\ CmdAt(c, "read")
  /\ IF pidFile \in Pids
     THEN cmd' = [cmd EXCEPT ![c].pc = "term", ![c].pid = pidFile]
     ELSE StopReturns(c)
  /\ UNCHANGED pidFile /\ OnlyFiles

\* When it is probed or signalled, the process is found gone or not to be
\* signalled by this user: the PID file goes.
TargetGone(c) ==
  /\ CmdAt(c, "term") /\ ~ProcessExists(cmd[c].pid)
  /\ StopReturns(c)
  /\ pidFile' = "absent" /\ OnlyFiles

SendTerm(c) ==
  LET p == cmd[c].pid IN
  /\ CmdAt(c, "term") /\ ProcessExists(p)
  /\ \E s \in Signalled(proc[p]) : MovesTo(p, s)
  /\ UNCHANGED jobVars
  /\ GoTo(c, "wait")
  /\ UNCHANGED <<fileVars, wiped, disorder>>

SeeExit(c) ==
  /\ CmdAt(c, "wait") /\ ~ProcessExists(cmd[c].pid)
  /\ GoTo(c, "rm")
  /\ UNCHANGED pidFile /\ OnlyFiles

\* Mutant: stop has no deadline.
WaitsOn(c) ==
  /\ CmdAt(c, "wait") /\ ~ProcessExists(cmd[c].pid)
  /\ GoTo(c, "rm")
  /\ UNCHANGED pidFile /\ OnlyFiles

\* Mutant: at the deadline stop gives up.
GivesUp(c) ==
  /\ CmdAt(c, "wait") /\ ProcessExists(cmd[c].pid)
  /\ GoTo(c, "rm")
  /\ UNCHANGED pidFile /\ OnlyFiles

\* The deadline passes: SIGKILL, whatever the process is busy with.
SendKill(c) ==
  /\ CmdAt(c, "wait") /\ ProcessExists(cmd[c].pid)
  /\ Ends(cmd[c].pid)
  /\ GoTo(c, "rm")
  /\ UNCHANGED <<fileVars, wiped, disorder>>

UnlinkPidFile(c) ==
  /\ CmdAt(c, "rm")
  /\ StopReturns(c)
  /\ pidFile' = "absent" /\ OnlyFiles

\* The rest of reset: kill_openvpn_daemon, then every persisted file.
ResetKillsVpn(c) ==
  /\ CmdAt(c, "vpn") /\ GoTo(c, "files")
  /\ vpn' = FALSE
  /\ UNCHANGED <<nodeVars, pidFile, creds, wiped, disorder>>

ResetRemovesFiles(c) ==
  /\ CmdAt(c, "files") /\ Return(c)
  /\ pidFile' = "absent" /\ creds' = FALSE
  /\ wiped' = Orderly
  /\ UNCHANGED <<nodeVars, vpn, disorder>>

\* Ctrl-C, or an error the command does not handle.
CommandDies(c) ==
  /\ c \in InProgress /\ Disorder
  /\ Return(c)
  /\ UNCHANGED <<nodeVars, fileVars>>

\* coda stop-vpn: kill_openvpn_daemon, whoever needs the tunnel.
StopVpn ==
  /\ Disorder
  /\ vpn' = FALSE
  /\ UNCHANGED <<nodeVars, cmd, pidFile, creds>>

-----------------------------------------------------------------------------
(* Processes that start did not spawn *)

Stranger(p, s) ==
  /\ proc[p] = "free" /\ Disorder
  /\ MovesTo(p, s)
  /\ UNCHANGED <<jobVars, cmd, fileVars>>

\* coda start without --daemon: uvicorn runs in the command's own process.
StartForeground(p) == Stranger(p, "boot")

OtherProgramStarts(p) == Stranger(p, "foreign") \/ Stranger(p, "alien")

OtherProgramEnds(p) ==
  /\ proc[p] \in {"foreign", "alien"}
  /\ Ends(p)
  /\ UNCHANGED <<creds, vpn>> /\ NodeFrame

-----------------------------------------------------------------------------
Init ==
  /\ proc = [p \in Pids |-> "free"]
  /\ busy = {} /\ delivering = {} /\ overdue = {}
  /\ cmd = [c \in Cmds |-> NoCmd]
  /\ pidFile = "absent" /\ creds = FALSE /\ vpn = FALSE
  /\ wiped = FALSE /\ disorder = 0

NodeStep(p) ==
  \/ BootEnds(p) \/ BootFails(p) \/ TakeJob(p) \/ FinishJob(p) \/ DeliveryEnds(p)
  \/ JoinWatch(p) \/ CloseHeartbeat(p) \/ Drain(p) \/ JoinConsumer(p) \/ CloseClients(p)
  \/ NodeCrashes(p) \/ InterruptNode(p)

CommandStep(c) ==
  \/ CheckNotRunning(c) \/ FindStale(c) \/ UnlinkStale(c) \/ Spawn(c) \/ WritePidFile(c)
  \/ AskRunning(c) \/ ReadPid(c) \/ TargetGone(c) \/ SendTerm(c)
  \/ SeeExit(c) \/ SendKill(c) \/ UnlinkPidFile(c)
  \/ ResetKillsVpn(c) \/ ResetRemovesFiles(c)

Next ==
  \/ \E p \in Pids : NodeStep(p)
  \/ \E c \in Cmds : CommandStep(c) \/ CommandDies(c)
  \/ \E c \in Cmds, kind \in {"start", "stop", "reset"} : Begin(c, kind)
  \/ \E p \in Pids : StartForeground(p) \/ OtherProgramStarts(p) \/ OtherProgramEnds(p)
  \/ StopVpn

Spec == Init /\ [][Next]_vars

\* A command goes on: its wait has a deadline and nothing else in it blocks.
\* Of the node nothing is assumed: it may hang anywhere.
FairSpec ==
  /\ Spec
  /\ \A c \in Cmds : WF_vars(CommandStep(c))

-----------------------------------------------------------------------------
(* Properties *)

\* Type invariant of the processes, the commands and what they share.
ServiceTypeOK ==
  /\ proc \in [Pids -> Stages \union Outside]
  /\ busy \subseteq Nodes /\ delivering \subseteq Nodes /\ overdue \subseteq Nodes
  /\ cmd \in [Cmds -> [kind : {"none", "start", "stop", "reset"}, pc : CmdPCs,
                       pid : Pids \union {"none"}]]
  /\ pidFile \in Pids \union {"absent", "empty"}
  /\ creds \in BOOLEAN /\ vpn \in BOOLEAN /\ wiped \in BOOLEAN /\ disorder \in 0 .. MaxDisorder

\* Whatever stops and resets overlap and whenever nodes crash, one start at a
\* time means one node at most: two would read the stream as the same consumer
\* and execute each other's pending jobs.  A start that meets another command,
\* a command that dies and a node in the foreground each cost one node too many.
OneNode == Cardinality(Nodes) <= 1 + disorder

\* Without disorder the PID file is also enough to find it: between commands
\* status reports a running daemon exactly if a node runs, so a stop reaches it.
StatusIsTrue == Orderly /\ InProgress = {} => (IsDaemonRunning <=> Nodes # {})

\* A job in progress, and results being delivered, keep the tunnel, the Redis
\* client and the webhook client they need, through the whole teardown of their
\* node.  Only a delivery that outlasts the drain's timeout loses them: nothing
\* cancels or joins its task before the clients are closed.
JobKeepsItsMeans ==
  \A p \in busy \union (delivering \ overdue) : proc[p] # "close" /\ (Orderly => vpn)

\* From the moment a reset returns until the next start there is no node, no
\* credentials and no PID file: no node that the reset had to kill, and no other
\* stop or reset beside it, brings anything back.
ResetIsThorough == wiped => Nodes = {} /\ ~creds /\ pidFile = "absent"

\* Every command returns, however long a drain takes and wherever the node hangs.
CommandsReturn == \A c \in Cmds : []<>(c \notin InProgress)
=============================================================================
