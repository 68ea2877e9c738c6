# A TLA+ model of the Coda node

The Coda node (`src/src/coda_node`) connects a quantum device to the Coda
cloud. It provisions itself with a one-time token, keeps an OpenVPN tunnel,
reads jobs from a Redis stream, runs them on an executor, reports the results
by webhook and acknowledges them. These modules model the parts of it that
keep state and share it: what runs beside what, what survives a crash, what is
retried. Paths below are relative to the repository.

## 1. Inventory

| Part | State it keeps | Operations | Talks to |
|---|---|---|---|
| Job consumer, `server/consumer.py` | idle event, current job, backoff counter, reference to the delivery task; in Redis the pending entries list and a status hash per job | `setup`, `recover_pending`, `consume_loop`, `_process_message`, `_process_batch`, `_deliver_batch_results`, `stop`, `drain` | Redis, executor, webhook client; the lifespan cancels its task |
| Webhook client, `server/webhook.py` | none between calls | `send_result`, `send_error` with retries | cloud |
| Connect handshake, `vpn/service.py` | `Settings`, key file, config file, VPN profile | `connect_settings`, `_post_connect`, `apply_node_bundle`, `_persist_runtime_config` | cloud, file system |
| OpenVPN management, `vpn/service.py` | PID file, a daemon that outlives the node | `_start_openvpn`, `_wait_for_tunnel`, `kill_openvpn_daemon`, `ensure_persisted_vpn` | OpenVPN, `stop-vpn` and `reset` |
| Settings, `server/config.py` | environment merged with the persisted files | validators of `Settings` | file system |
| VPN guard, `vpn/guard.py` | service state | `preflight`, `watch`, `stop` | network, a callback of the application |
| Lifespan, `server/app.py` | the tasks of the node | startup, teardown, `/health`, `/ready` | all of the above |
| Heartbeat, `server/heartbeat.py` | running flag | `run`, `close` | consumer (reads), cloud |
| Background daemon, `server/daemon.py` | PID file | `start_daemon`, `stop_daemon`, status | operating system |
| Command line, `server/cli.py` | none | `start`, `stop`, `status`, `reset`, `stop-vpn`, `logs`, `doctor` | daemon, OpenVPN, files |
| Circuits, `server/ir.py`, `server/qasm.py` | none | validation, translation to OpenQASM and back | consumer |
| Executors, JWT | none that changes | load, run, sign | – |

What is hard here:

* **Two tasks on one stream.** The results of a batch are delivered by a
  background task while the loop reads on. The idle event, which the shutdown
  trusts, is cleared and set in three places.
* **Awaits everywhere.** Between a cancel check and the write that follows it
  the flag can change; a shutdown's `CancelledError` can arrive at each await.
* **Redis faults.** A lost connection leaves open whether the call was
  executed. Some calls swallow it, some do not, and one error handler makes a
  call that may fail again.
* **Crashes.** The status, the webhook and the acknowledgement are three
  steps; so are redeeming a token, storing the key and storing its id.
* **Processes that survive.** An OpenVPN daemon is known by its PID file only,
  and so is a node in the background. Commands of an operator overlap, die in
  the middle, and kill a node that is being torn down.
* **A check that is never about one moment.** The guard looks at the
  interface, then at names, then at endpoints, while the network changes.

The hazards are listed with their lines in `PROJECT.json`.

What makes each part correct:

* consumer: the idle event is sound, a clean drain cuts nothing, nothing is
  completed without a result, nothing is acknowledged unsettled, cancellation
  is final, every message is acknowledged in the end;
* connect and persistence: the files hold what the cloud accepts, a running
  node signs with a registered key, a start ends;
* OpenVPN management: no daemon that neither the PID file names nor anybody
  tried to stop, and none after a clean end or a reset;
* guard: what the application was told is true, and told once; READY rests on
  a full check, a lasting condition is noticed;
* commands and lifespan: one node at a time, which the PID file finds; a
  teardown that leaves a job its tunnel and clients; a reset whose effect lasts;
* circuits: nothing invalid reaches the executor, and OpenQASM text gives the
  circuit back it was made from.

## 2. Modules

| Module | Contents |
|---|---|
| `Consumer` | state and actions of `RedisConsumer`, Redis, the cloud's side of the stream, drain, crash and restart |
| `ConsumerProperties` | fairness and properties of the consumer |
| `JobLedger` | abstract specification: what the node promises the cloud about its jobs; `Consumer` implements it |
| `MCConsumer` | small instances for TLC |
| `ConsumerProofs` | theorems about the consumer: types, the idle event, earned completions |
| `ConsumerRunProofs` | how often a message is executed, and how long the loop lives |
| `ConsumerLedgerProofs` | `Consumer` implements `JobLedger`; what is acknowledged is settled and reported |
| `Node` | settings, connect handshake, files, OpenVPN, lifespan, commands; and their properties |
| `NodeProofs` | theorems about the credentials and the daemons |
| `Guard` | `VPNGuard` and the network; and its properties |
| `GuardProofs` | theorems about the guard |
| `Service` | the commands, the PID file, the node as a process and its teardown; and their properties |
| `ServiceProofs` | theorems about the commands and the teardown |
| `Circuit` | validation of circuits and their OpenQASM translation, as operators |
| `CircuitProofs` | the round-trip theorem |
| `JobCircuits` | `Consumer` with `Circuit`: messages carry circuits, and validation decides what the consumer sees |
| `JobCircuitProofs` | only validated circuits are executed |
| `MCCircuit` | a small instance of `JobCircuits` for TLC |

Operators whose comment begins with "Mutant" are wrong variants of the
definition after them. Substituting one must break a property; `PROJECT.json`
says which. No specification uses them.

### Consumer

asyncio switches tasks at awaits only, so one action is one awaited call with
the code up to the next await. `pc` names that await: `setup`, `pending` (XPENDING),
`loop`, `read` (XREADGROUP), `got` (a reply is in hand), the screening
awaits, the awaits of `_process_message` (`exec` … `fin`), those of
`_process_batch` (`bExec`, `bRun`), and `ended` or `crashed` for a task that is
over. `ctx` says whether an exception meets the handlers of the loop (`loop`) or
nothing (`start`: setup and the first recovery come before the `try`). `dtask`
is the task behind `_pending_batch_delivery` and `dpc` the deliveries gathered
in it, which go on when one of them fails.

Decisions worth knowing:

* A message is its position in the stream. Every list the code walks is in
  stream order, so a set walked from its lowest element stands for it.
* A `conn` fault is a lost connection: the server may have done what it was
  asked. `_safe_hset` and `_safe_xack` swallow it. An `other` fault is any
  other Redis error and is swallowed nowhere.
* A webhook call is accepted, or raises although the cloud may have received
  one of its attempts.
* `wait_for` on an event that is set returns without yielding (Python 3.12),
  and the loop resumes `drain` before it looks at the consumer's socket again.
  `DrainDue` therefore excludes consumer steps. `.python-version` asks for 3.12;
  `pyproject.toml` and the CI admit 3.11 too, where `wait_for` runs the wait in a
  task of its own and takes several turns of the event loop. There the
  consumer, if its read has just been answered, may take up a job after the event
  was seen, and `CleanDrainCutsNoJob` is not claimed. The second wait of `drain`,
  for a delivery, never meets a running one: the event is cleared while it runs.
* The shutdown's cancellation may hit any await. Where the code swallows it
  (`except (CancelledError, Exception)` around the cancelled run task) the
  consumer goes on, and so does the model.
* Timestamps, `last_job_at`, log lines and payloads are left out.

### Node

`pc` walks through one start of the node: `load` → `ensure` (→ `launchOld` →
`waitOld`) → `fetch` ⇄ `backoff` → `apply` (→ `detect` → `launchNew` →
`waitNew`) → six steps for two files (open, write, chmod) → `preflight` →
`executor` → `up`; a start with a token begins at `fetch`. A key is named by
the number of the token it was made for; 0 is no key. A file that is open for
writing is empty, which stands for a partial one too. A new file has mode 0644
until the chmod, an existing one keeps its mode. `Fails` is an exception that leaves
`connect_settings` or the lifespan; `forfeited` remembers the ends after which
the code itself leaves no good credentials on disk: after a reset, between
redeeming a token and storing its key, with a file truncated.

`KillOpenVpn` reaches one daemon at most, the one the PID file names, and removes
the file also when the signal is refused (`PermissionError`) or the file is not
legible. `termed` are the daemons that were sent SIGTERM, `spared` those whose
file was removed without. `lastExit` is how the last run ended, or that a reset
has come after it.

The cloud is external: it accepts an active token once and registers a key for
it, revoking the former one, and it accepts a JWT signed with the registered
key and id. OpenVPN is external: daemons come up, lose their tunnel, end.
`DetectionFails` is `detect_tun_interface` missing a tunnel (its command timed
out) or raising.

Not in the model: credentials given by environment variables, a reset while a
node runs in the foreground, the Windows branches, a 200 reply that is not JSON
(it ends the start as an unusable bundle does).

### Guard

One action per stage and target of `preflight`, with the network free to
change in between. `iface` means that the listing command reports a tunnel, so
a listing that times out is a short loss of `iface`. `previous` is the state
`watch` read before the awaits of the check. `Verdict` is the code after
the last await: the state, the comparison with `previous`, the callback (`call`),
and for the first check the decision of the lifespan to start or to refuse.
`told`, `seen` and `evidence` are history variables.

### Service

All commands are run by the user the nodes run as. A process id is free, another
program's (`foreign`), one of a program that this user may not signal (`alien`,
which `_process_exists` takes for no process), or a node's; a node is at `boot`,
`bootTerm` (signalled while it starts), `up`, or at the await of its teardown
that it has reached: `watch`, `heartbeat`, `drain`, `consumer`, `close`. `busy`
are the nodes whose consumer task has a job or a batch in progress, `delivering`
those in which the background task of a batch delivers its results, `overdue`
those whose drain ran out of time: the teardown joins the consumer task and never
the delivery. `cmd` holds two commands, each at its next
system call: `check`, `stale`, `unlink`, `spawn`, `open`, `fill` of a start;
`ask`, `read`, `term`, `wait`, `rm` of a stop; `read` … `rm`, `vpn`, `files` of a
reset. What stays abstract is what other modules detail: how a start of the
node proceeds and fails (`Node`), how a drain ends (`Consumer`).

* Checks that follow each other without an effect in between are one: the two
  tests of a start for a running daemon, the probe of a process and the SIGTERM
  after it, the last probe and the SIGKILL.
* A teardown step that joins a task raises what ended the task; the rest of
  the teardown is then skipped and the tunnel stays.
* uvicorn is external: it binds the port after the lifespan has started, so a
  second node connects first and is torn down then; a signalled node stops
  listening before its lifespan goes on.
* `reset` removes its files in one step.
* `vpn` says that nobody has called `kill_openvpn_daemon` since a node last got
  its tunnel, which is what a teardown or a command can take from a job. Which daemon
  such a call reaches, and that it may miss an older one, is module `Node`'s.
* `wiped` is a history variable: a reset has returned, and neither a start nor
  any disorder has come since.
* `disorder` counts what the PID file is not made for: a command beside a
  start, a command that dies, a node in the foreground, a process id given to
  another program, `stop-vpn`. The properties say what holds without it, and
  `OneNode` what each of them costs.

### Circuit

`ValidIR` is what pydantic and the validators of `ir.py` check; `KindOf` is what
the consumer makes of a message. An OpenQASM program is what the parser extracts
from the text: register sizes, gate lines, measured qubits, each list in order,
because the parser collects them independently. `FormatFloat` is printing an
angle and reading it back, any function whatever; the one thing assumed is that
-π/2 so printed is within the tolerance with which `ry` is recognised.

### JobLedger

A job has a message that is unsent, queued, pending or acknowledged, a number
of results, a status and the webhooks sent. `Consumer` is mapped to it by
`PlaceOf` and by `calm` (no Redis fault, no shutdown so far). The ledger forbids
to hand a message out twice, to execute a job that is completed or cancelled,
to record or report completion without a result, to touch a cancelled job, and,
while calm, to acknowledge a job that is not settled. A crash needs no entry of
its own: the ledger is outside of the process.

## 3. Runs

Passing runs (distinct states; each takes about two minutes or less on two cores):

| Run | Instance | Shows |
|---|---|---|
| `ConsumerSingle` (1.2 M) | 2 messages, one with unusable IR; 2 Redis faults, 1 webhook fault, 1 crash, 1 shutdown; backoff overflows at the second failure in a row | `TypeOK`, `CleanDrainCutsNoJob`, `RerunNeedsCause`, `AckedIsReported`, `LoopOutlivesErrors`, `KeepsLedger` |
| `ConsumerBatch` (0.2 M) | 2 messages as a batch, one of which may be trimmed from the stream, whose executor may return too few results; 1 fault, 1 shutdown | `BusyMeansNotIdle`, `CleanDrainCutsNoJob`, `DeliveryExcludesProcessing`, `CompletedIsEarned`, `ShutdownCompletes` |
| `ConsumerCancel` (0.6 M) | 3 messages, one without keys; cancellation at any time, 1 fault, 1 crash | `AckedIsSettled`, `CancelledIsFinal`, `CancelledWhileQueuedNeverRuns`, `KeepsLedger` |
| `ConsumerLive` (63 k) | 2 messages, a valid circuit and one that leaves its register; XPENDING returns one entry; 2 faults, 1 webhook fault | `EveryMessageIsAcked`, `OnlySoundCircuitsRun` |
| `NodeConnect` (0.5 M) | 2 OpenVPN processes, 2 tokens, 2 attempts, every kind of bundle; 2 faults, 1 drop, 1 crash | `NodeTypeOK`, `CredentialsKept`, `RunningKeyIsTrusted`, `NoOrphanDaemon`, `CleanEndStopsVpn`, `StartupEnds` |
| `GuardWatch` (0.4 M) | 2 targets, all settings, an arbitrary network | `GuardTypeOK`, `ToldTheTruth`, `ReadyIsFounded`, `CallbacksAreNews`, `WatchConverges` |
| `ServiceCommands` (0.5 M) | 3 process ids, 2 commands at a time, 1 disorder | `ServiceTypeOK`, `OneNode`, `StatusIsTrue`, `JobKeepsItsMeans`, `ResetIsThorough`, `CommandsReturn` |

Two messages are the least at which a list is walked, a batch is more than one
job and a delivery can fail beside another; nothing relates three messages
but the order of the list. Two faults are the least at which an error handler
fails too. Two tokens are the least at which an old key meets a new one. Three process
ids leave room for one node more than `OneNode` allows after one disorder; two
commands are the least that overlap, and with one disorder each kind of it is
met alone. `MCCircuit` also evaluates the round trip on every circuit of at
most one gate over three angles, where `CircuitProofs` proves it for all.
`PowLimit` is the largest exponent of the backoff that is a float, 1023 in the
code; `ConsumerSingle` scales it to 0 so that the overflow is reached.
A run of the consumer may end for good when its task has died, and the guard's
when it is stopped, so these runs do not check for deadlock; `NodeConnect` and
`ServiceCommands` do.

Runs in which TLC finds a statement of the documentation violated:

| Run | Documentation | What the code does |
|---|---|---|
| `DrainTimeoutAcks` | `docs/operations/GRACEFUL_SHUTDOWN.md:43`: the message of a job cut by the drain timeout is not acknowledged | the `finally` block acknowledges it (`consumer.py:623`) |
| `CompletedNotSent` | `docs/jobs/INDEX.md:65`: `completed` means the webhook was sent | the status is written first; after a crash recovery acknowledges the job unreported (`consumer.py:579`) |
| `DeliveryWedge` | `docs/jobs/CONSUMER.md:45`: the periodic recovery catches stuck messages | a failed batch delivery is awaited again after every read, for ever (`consumer.py:202`) |
| `OutageLosesResult` | `docs/jobs/CONSUMER.md:87`: a Redis outage does not prevent the webhook | the handler's own cancel check fails too, and the job is acknowledged without one (`consumer.py:603`) |
| `TornCredentials` | `docs/node/TOKEN_LIFECYCLE.md:85`: after the first run the token is no longer needed | each reconnect rewrites the files in place; a crash in between leaves an empty one (`service.py:119`) |

Met while modelling, without a run of their own: the idle event stays cleared
when every message of a failed batch is skipped (`consumer.py:456`; the drain
then takes its full timeout), and is set by the first failed delivery of a batch
while the others run on (`consumer.py:521`); a batch delivery that outlasts the
drain's timeout has its clients and its tunnel closed under it, since nothing
cancels or joins its task (`app.py:142`); an outage during setup ends the consumer while
`/health` stays green (`consumer.py:183`); `connect_settings` stops a
half-started VPN on a first run only, against its docstring
(`service.py:567` and `587`); a task that died makes the teardown skip
`kill_openvpn_daemon` (`app.py:128`); the guard goes from DEGRADED to
VPN_UNAVAILABLE without a callback (`guard.py:391`); after a crash or a dropped
tunnel a second OpenVPN daemon takes over the PID file (`service.py:628`), and
not even `reset` reaches the first one any more; a SIGTERM that is refused
removes the PID file all the same (`service.py:246`);
two starts at once, or one that dies before it has written the PID file, leave a
node that no command finds (`daemon.py:180`), and a PID file that outlives its
node lets `stop` end another program (`daemon.py:222`); a node that finds its
port taken kills the tunnel of the one that has it (`app.py:144`); `/ready`
stays green with a consumer that died in setup, since `redis_healthy` starts
true; `openqasm_to_ir` lets a ValidationError of `GateOp` and the ValueError of
`float("pi/2")` escape, against its docstring (`qasm.py:129` and `135`);
`rx`, `ry` and `rz`, legal for `cnot`, have no OpenQASM mapping there, although
`ir_to_openqasm` calls the duration of `id` the only known loss (`qasm.py:171`),
and angles are rounded to fifteen digits; a
two-qubit gate may name one qubit twice (`ir.py:157`).

## 4. Fairness

* `TaskFairness` (consumer): every await ends, since Redis answers or the call fails, a
  POST has a timeout and a number of attempts, and asyncio resumes what is
  ready. For the executor it is an assumption: the code has no job timeout. A
  drain ends by its timeout.
* `ClockFairness`: of infinitely many empty reads one comes after
  `_PENDING_RECHECK_SECS`; strong fairness because the reads in between disable it.
* `Node`: weak fairness of a startup step. Requests and the launch have
  timeouts, the wait for the tunnel a deadline. Nothing is assumed of the cloud,
  OpenVPN or the operator.
* `Guard`: weak fairness of the check. Each stage has a timeout, DNS the
  resolver's, and the sleep ends. Nothing is assumed of the network.
* `Service`: weak fairness of each command. Its wait has a deadline and nothing
  else in it blocks. Nothing is assumed of the nodes: they may hang anywhere.

## 5. Proofs

`ConsumerProofs` holds for every number of messages and jobs and every bound,
from the two assumptions of `Consumer` on its constants.

* `TypeSafety` (`TypeOK`), by `TypeInv`: `TypeOK` is not inductive, since a job
  is looked up by the message in hand; `FrameOK` says that there is one where
  it is needed.
* `IdleEventIsSound` (`BusyMeansNotIdle`), `CleanDrainIsClean`
  (`CleanDrainCutsNoJob`) and `DeliveriesRunAlone`
  (`DeliveryExcludesProcessing`), by `IdleInv`. The idle event is set by the
  deliveries, which run beside the loop, and by the first of them to fail while
  others still run. That this is harmless follows from
  `Cleared` (the event is cleared while the task is busy or the delivery task
  runs), `Apart` (the loop touches no message while it refers to a delivery task),
  `Owned` (deliveries in progress belong to a task that runs or has failed, and
  the reference to it is kept), `Cut` (only a drain that timed
  out puts a `CancelledError` in the `finally` block) and `Down`. For the clean
  drain `DrainedInv` adds that it leaves no delivery task and a task that is over.
* `CompletedNeedsResult` (`CompletedIsEarned`), by `EarnInv`: between the
  executor's return and the `finally` block, and in a delivery, a result exists.

`ConsumerRunProofs` and `ConsumerLedgerProofs` need to know which messages the
task still has before it: `ListInv` says that all lists hold messages that were
handed out, are empty outside a walk, and have lost the message in hand.

* `RerunsHaveCauses` (`RerunNeedsCause`), by `RunInv`. Every fault, crash and
  shutdown pays for one more execution. A pending message has run no more often
  than was paid for; one whose result is being reported may be one ahead, and it
  can fall back to pending by a fault, a crash or a shutdown only. A shutdown
  is counted when it is requested, so until the process has gone what is still
  before the executor must make do with one less (`Due`). This holds for
  messages that share a job too.
* `CancelledInQueueNeverRuns` (`CancelledWhileQueuedNeverRuns`), by
  `TurnedAway`: with its flag set a message is neither parsed for a batch nor
  at the executor, and no later look lets it past.
* `LoopSurvives` (`LoopOutlivesErrors`), by `LoopInv`: a lost connection is
  counted in `failures` at most once. The failed delivery of a batch raises the
  same error again and again, but each time after a read that reset the count.

The theorems of `ConsumerLedgerProofs` assume `DistinctJobs`, one message for
each job, after `docs/jobs/INDEX.md:52` ("Unique job identifier"). The consumer
relies on it without a check, and TLC shows that the theorems need it: with two
messages for one job a job that failed is executed again, which replaces its
status and its report, and in a batch one of the two can be cancelled between
the check and the report of the other.

* `AckedJobsAreSettled` (`AckedIsSettled`), by `OrderInv` and `SettleInv`.
  `OrderInv`: the status read when a message was looked at is still good until
  the job is reported, in the task and in a delivery, although others write
  statuses in between. `SettleInv`: wherever a message is about to be
  acknowledged its job has a terminal status, and until then it is pending.
* `ConsumerKeepsLedger` (`KeepsLedger`), the refinement. Each step is first
  classified in the consumer's own terms (`RecordEntry`, `ReportEntry`,
  `AckEntry`, `ReadEntry`, `ExecuteEntry`, `CloudEntry`, or nothing the cloud sees),
  which needs `LedgerInv`; `EntriesAreLedgerSteps` then maps each entry through
  `PlaceOf` and `calm` to a step of the ledger.
* `CancellationIsFinal` (`CancelledIsFinal`) follows from the same classification:
  no entry touches a cancelled job.
* `AckedJobsAreReported` (`AckedIsReported`), by `TellInv`: while nothing has
  failed the webhooks of a job are those its status calls for, except between
  the write of the status and the webhook after it.

`NodeProofs` holds for every number of tokens, daemons, attempts, faults,
drops and crashes.

* `NodeTypeCorrect` (`NodeTypeOK`).
* `KeyTrusted` (`RunningKeyIsTrusted`), by `KeyInv`: the cloud changes the key
  only while a request is under way, and a reconnect is answered only for the key
  it has.
* `CredentialsStayUsable` (`CredentialsKept`), by `DiskInv`: what the six file
  steps have written so far, and that a rewrite in place spoils only the content
  of the file it is at.
* `NoOrphans` (`NoOrphanDaemon`) and `CleanEnds` (`CleanEndStopsVpn`), by
  `SparedInv` and `VpnInv`: a daemon is launched only where none is left running
  that nobody tried to stop, which rests on its tunnel being visible once the wait
  for it is over. That is where a dropped or missed tunnel would break it, hence the
  premise. The tunnel seen may also be that of a daemon that refused its signal,
  and then the start launches none.

`ServiceProofs` holds for any number of process ids and of commands at a time.

* `ServiceTypeCorrect` (`ServiceTypeOK`) and `OneNodePerDisorder` (`OneNode`),
  by `ServiceInv`. Its core, `CountInv`, counts the nodes together with the starts
  that may still spawn one. Their excess over `disorder` is at most 1 when the PID
  file names a node that no command in progress will lose (`Anchored`) or when
  only starts are in progress (`Launching`), at most 2 while a start
  waits for the answer to its check (`Waiting`), and never more.
* `JobsKeepTheirMeans` (`JobKeepsItsMeans`), `StatusTellsTheTruth`
  (`StatusIsTrue`) and `ResetsAreThorough` (`ResetIsThorough`), by `MeansInv`, which
  has three parts. `JobInv`: no job outlives the join of the consumer, and what is
  left during the join and after it is of a drain that ran out of time. `OrderInv`:
  without disorder no process id is another program's, a node that serves has its
  tunnel, and no start meets another command. `WipedInv`: after a reset there is
  neither a node nor a start that could bring anything back, which rests on
  `CountInv` (a reset that comes to the files has no node left to account for).

`GuardProofs` holds for every set of targets, without assumptions.

* `GuardTypeSafety` (`GuardTypeOK`), `ApplicationIsToldTheTruth` (`ToldTheTruth`), `ReadyRestsOnACheck`
  (`ReadyIsFounded`) and `CallbacksBringNews` (`CallbacksAreNews`), by
  `GuardInv`. It adds `CheckIsTracked` (what a check has worked through without
  a failure is what it has seen good), `BootingIsFirst` (BOOTING is the
  first check) and `PreviousIsCurrent` (what `watch` read before the check is still
  the state after it, since only the check changes it).

`CircuitProofs` holds for every circuit of any length and every set of angles,
from `AnglesAssumption`.

* `RoundTrip`: a valid circuit whose gates all have an OpenQASM name is accepted
  when read back and equals the original with printed angles and `id` without
  duration. It reduces to one gate (`GateRoundTrip`), where validity of the shape is
  needed: a gate without parameters comes back without them.

`JobCircuitProofs` puts the validation and the consumer together, for every
payload of every message, from `PayloadAssumption` (the consumer sees what
`KindOf` makes of the payload).

* `ExecutedCircuitsAreSound` (`OnlySoundCircuitsRun`), by `CheckedInv`: loop,
  recovery, batch and the fallback of a batch all pass the validation before
  the executor.

Model-checked only: the liveness properties (`EveryMessageIsAcked`,
`ShutdownCompletes`, `StartupEnds`, `WatchConverges`, `CommandsReturn`), which
need fairness and ENABLED, and the properties of the five runs that
refute the documentation. Every other property of a run is a theorem.

## 6. Not modelled

The heartbeat's loop (it catches everything and only reads the consumer; its
close is a step of the teardown in `Service`), executors and device topology
(import machinery and the vendor's code; a run returns, raises or is
cancelled), JWT signing (which key signs is all that `Node` keeps), the attempts
inside one webhook call, the printing commands (`status`, `logs`, `doctor`), the
health endpoints, Windows branches.

## 7. Plan

Done: the consumer with the ledger it implements, the node's provisioning and
VPN life, the guard, the commands with the lifespan's teardown, the circuits;
and a proof of every safety property and of the refinement. Next, in this order:

1. What holds without `DistinctJobs`: the weaker forms of `AckedIsSettled` and
   `CancelledIsFinal` that two messages for one job leave true.
2. A bound on the failures of the guard and of the commands in terms of their
   causes, as `RunInv` has for executions: what is left of `NoOrphanDaemon`
   after one crash or one dropped tunnel.
3. Shorter proofs: the lemmas that several modules need about raising, passing an await and
   dropping the frame, stated once in `ConsumerProofs`.
