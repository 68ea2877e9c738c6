---------------------------- MODULE ServiceProofs ----------------------------
(***************************************************************************)
(* Theorems about the background node and the commands that start, stop    *)
(* and reset it, for any number of process ids and overlapping commands.   *)
(***************************************************************************)
EXTENDS Service, FiniteSetTheorems, TLAPS

-----------------------------------------------------------------------------
(* The inductive invariants *)

StartPCs == {"check", "stale", "unlink", "spawn", "open", "fill"}
EndPCs == {"rm", "vpn", "files"}

HasPid == {"open", "fill", "term", "wait"}

\* What a command does is what it was begun for, and it uses a process id only
\* once it has one.
KindInv ==
  \A c \in Cmds :
    /\ cmd[c].pc # "idle" => (cmd[c].kind = "start" <=> cmd[c].pc \in StartPCs)
    /\ cmd[c].pc \in HasPid => cmd[c].pid \in Pids

Starts == {c \in Cmds : cmd[c].pc \in StartPCs}
Stops == InProgress \ Starts

\* The starts that may still spawn a node.
Pending == {c \in Cmds : cmd[c].pc \in {"check", "stale", "unlink", "spawn"}}

\* The starts that found no running daemon.
Past == Starts \ {c \in Cmds : cmd[c].pc = "check"}

\* The PID file names a node, and whatever is in progress will not lose it.
Anchored ==
  /\ pidFile \in Nodes
  /\ Past = {}
  /\ \A c \in Cmds : /\ cmd[c].pc \notin EndPCs
                     /\ cmd[c].pc \in {"term", "wait"} => cmd[c].pid = pidFile

\* There are starts, nothing else, and the last of them to get as far as
\* writing the PID file leaves it with a node.
Launching ==
  /\ Starts # {} /\ Stops = {}
  /\ \A c \in Cmds : cmd[c].pc \in {"open", "fill"} => cmd[c].pid \in Nodes
  /\ pidFile = "absent" => Past = {} \/ \E c \in Past : cmd[c].pc # "fill"

\* A start that has not been answered yet.
Waiting == Starts # {} /\ InProgress \subseteq Starts \ Past /\ pidFile \in Nodes

\* The nodes there are, and the ones that may still come, beyond the disorder
\* that accounts for them.
Excess == Cardinality(Nodes) + Cardinality(Pending) - disorder

CountInv ==
  /\ IsFiniteSet(Nodes) /\ IsFiniteSet(Pending)
  /\ Excess <= 2
  /\ Excess = 2 => Waiting
  /\ Excess = 1 => Anchored \/ Launching

-----------------------------------------------------------------------------
(* What a step does to a command and to a process *)

Kinds == {"none", "start", "stop", "reset"}
CmdRecords == [kind : Kinds, pc : CmdPCs, pid : Pids \union {"none"}]

\* Command c, and no other, is now of this kind, at this place, with this pid.
Becomes(c, k, q, p) ==
  /\ cmd' \in [Cmds -> CmdRecords]
  /\ cmd'[c].kind = k /\ cmd'[c].pc = q /\ cmd'[c].pid = p
  /\ \A d \in Cmds \ {c} : cmd'[d] = cmd[d]

\* GoTo changes where a command is.
LEMMA GoToCmd ==
  ASSUME ServiceTypeOK, NEW c \in Cmds, NEW q \in CmdPCs, GoTo(c, q)
  PROVE  Becomes(c, cmd[c].kind, q, cmd[c].pid)
<1>1. cmd \in [Cmds -> CmdRecords]
  BY DEF ServiceTypeOK, CmdRecords, Kinds
<1>2. cmd' = [cmd EXCEPT ![c] = [cmd[c] EXCEPT !.pc = q]]
  BY DEF GoTo
<1>3. [cmd[c] EXCEPT !.pc = q] \in CmdRecords
  BY <1>1 DEF CmdRecords
<1>. QED  BY <1>1, <1>2, <1>3 DEF Becomes, CmdRecords

\* Return ends a command.
LEMMA ReturnCmd ==
  ASSUME ServiceTypeOK, NEW c \in Cmds, Return(c)
  PROVE  Becomes(c, "none", "idle", "none")
<1>1. cmd \in [Cmds -> CmdRecords]
  BY DEF ServiceTypeOK, CmdRecords, Kinds
<1>2. NoCmd \in CmdRecords
  BY DEF NoCmd, CmdRecords, Kinds, CmdPCs
<1>. QED  BY <1>1, <1>2 DEF Becomes, Return, NoCmd

\* Spawn and ReadPid note a process id.
LEMMA NotesPid ==
  ASSUME ServiceTypeOK, NEW c \in Cmds, NEW q \in CmdPCs, NEW p \in Pids,
         cmd' = [cmd EXCEPT ![c].pc = q, ![c].pid = p]
  PROVE  Becomes(c, cmd[c].kind, q, p)
<1>1. cmd \in [Cmds -> CmdRecords]
  BY DEF ServiceTypeOK, CmdRecords, Kinds
<1>. DEFINE r == [[cmd[c] EXCEPT !.pc = q] EXCEPT !.pid = p]
<1>2. cmd' = [cmd EXCEPT ![c] = r]
  <2>1. DOMAIN cmd = Cmds /\ c \in DOMAIN cmd
    BY <1>1
  <2>2. cmd' = [[cmd EXCEPT ![c] = [cmd[c] EXCEPT !.pc = q]]
                     EXCEPT ![c] = [[cmd EXCEPT ![c] = [cmd[c] EXCEPT !.pc = q]][c] EXCEPT !.pid = p]]
    OBVIOUS
  <2>. QED  BY <2>1, <2>2
<1>3. r \in CmdRecords /\ r.kind = cmd[c].kind /\ r.pc = q /\ r.pid = p
  BY <1>1 DEF CmdRecords
<1>. HIDE DEF r
<1>. QED  BY <1>1, <1>2, <1>3 DEF Becomes

\* A command begins at the first step of its kind.
LEMMA BeginsCmd ==
  ASSUME ServiceTypeOK, NEW c \in Cmds, NEW kind \in {"start", "stop", "reset"},
         Begin(c, kind)
  PROVE  \E q \in {"check", "ask", "read"} :
            /\ Becomes(c, kind, q, "none")
            /\ q = "check" <=> kind = "start"
<1>1. cmd \in [Cmds -> CmdRecords]
  BY DEF ServiceTypeOK, CmdRecords, Kinds
<1>. DEFINE first == CASE kind = "start" -> "check" [] kind = "stop" -> "ask"
                       [] kind = "reset" -> "read"
<1>2. first \in {"check", "ask", "read"} /\ (first = "check" <=> kind = "start")
  <2>1. CASE kind = "start"
    BY <2>1
  <2>2. CASE kind = "stop"
    BY <2>2
  <2>3. CASE kind = "reset"
    BY <2>3
  <2>. QED  BY <2>1, <2>2, <2>3
<1>3. cmd' = [cmd EXCEPT ![c] = [NoCmd EXCEPT !.kind = kind, !.pc = first]]
  BY DEF Begin
<1>. HIDE DEF first
<1>. DEFINE r == [[NoCmd EXCEPT !.kind = kind] EXCEPT !.pc = first]
<1>4. cmd' = [cmd EXCEPT ![c] = r]
  BY <1>3
<1>5. r \in CmdRecords /\ r.kind = kind /\ r.pc = first /\ r.pid = "none"
  <2>1. NoCmd \in CmdRecords /\ NoCmd.pid = "none" /\ kind \in Kinds /\ first \in CmdPCs
    BY <1>2 DEF NoCmd, CmdRecords, Kinds, CmdPCs
  <2>. QED  BY <2>1 DEF CmdRecords
<1>. HIDE DEF r
<1>6. Becomes(c, kind, first, "none")
  BY <1>1, <1>4, <1>5 DEF Becomes
<1>. QED  BY <1>2, <1>6

\* A signal leaves a node a node, and what is no node none.
LEMMA SignalledStages ==
  ASSUME NEW s \in Stages \union Outside
  PROVE  /\ s \in Stages => Signalled(s) \subseteq Stages
         /\ s \notin Stages => Signalled(s) \subseteq Outside
<1>. USE DEF Signalled, Stages, Teardown, Outside
<1>1. CASE s = "up"
  BY <1>1
<1>2. CASE s = "boot"
  BY <1>2
<1>3. CASE s = "foreign"
  BY <1>3
<1>4. CASE s \notin {"up", "boot", "foreign"}
  BY <1>4
<1>. QED  BY <1>1, <1>2, <1>3, <1>4

\* Only nodes work on jobs, deliver results and drain.
JobsOfNodes == busy \subseteq Nodes /\ delivering \subseteq Nodes /\ overdue \subseteq Nodes

\* A process that moves on within the lifespan, or outside it, leaves the set
\* of nodes as it is.
LEMMA NodesStay ==
  ASSUME ServiceTypeOK, NEW p \in Pids, NEW s \in Stages \union Outside,
         MovesTo(p, s), proc[p] \in Stages <=> s \in Stages
  PROVE  /\ proc' \in [Pids -> Stages \union Outside]
         /\ Nodes' = Nodes
  BY DEF ServiceTypeOK, MovesTo, Nodes

\* A spawned node is one more.
LEMMA NodesGain ==
  ASSUME ServiceTypeOK, NEW p \in Pids, NEW s \in Stages, MovesTo(p, s), proc[p] \notin Stages
  PROVE  /\ proc' \in [Pids -> Stages \union Outside]
         /\ Nodes' = Nodes \union {p} /\ p \notin Nodes
  BY DEF ServiceTypeOK, MovesTo, Nodes

\* A node that ends is one less, and does no job any more.
LEMMA NodesLose ==
  ASSUME ServiceTypeOK, NEW p \in Pids, Ends(p)
  PROVE  /\ proc' \in [Pids -> Stages \union Outside]
         /\ Nodes' = Nodes \ {p} /\ JobsOfNodes'
<1>1. "free" \notin Stages /\ "free" \in Outside
  BY DEF Stages, Teardown, Outside
<1>2. proc' \in [Pids -> Stages \union Outside] /\ Nodes' = Nodes \ {p}
  BY <1>1 DEF ServiceTypeOK, Ends, MovesTo, Nodes
<1>3. busy \subseteq Nodes /\ delivering \subseteq Nodes /\ overdue \subseteq Nodes
  BY DEF ServiceTypeOK
<1>. QED  BY <1>2, <1>3 DEF Ends, JobsOfNodes

-----------------------------------------------------------------------------
(* Types *)

\* A step of a node keeps the types, and gains no node.
LEMMA NodeStepTypes ==
  ASSUME ServiceTypeOK, NEW p \in Pids, NodeStep(p)
  PROVE  /\ ServiceTypeOK'
         /\ Nodes' = Nodes \/ Nodes' = Nodes \ {p}
         /\ UNCHANGED <<cmd, pidFile, wiped, disorder>>
<1>1. UNCHANGED <<cmd, pidFile, wiped, disorder>>
  BY DEF NodeStep, BootEnds, BootFails, TakeJob, FinishJob, DeliveryEnds, JoinWatch, CloseHeartbeat, Drain,
         JoinConsumer, CloseClients, NodeCrashes, InterruptNode, NodeFrame
<1>2. creds' \in BOOLEAN /\ vpn' \in BOOLEAN
  <2>1. CASE BootEnds(p)
    BY <2>1 DEF BootEnds
  <2>2. CASE BootFails(p)
    <3>1. creds' = creds \/ creds' = TRUE
      BY <2>2 DEF BootFails
    <3>2. creds' \in BOOLEAN
      BY <3>1 DEF ServiceTypeOK
    <3>. QED  BY <2>2, <3>2 DEF BootFails
  <2>3. CASE CloseClients(p)
    BY <2>3 DEF CloseClients, ServiceTypeOK
  <2>4. CASE ~BootEnds(p) /\ ~BootFails(p) /\ ~CloseClients(p)
    BY <2>4
    DEF NodeStep, TakeJob, FinishJob, DeliveryEnds, JoinWatch, CloseHeartbeat, Drain,
        JoinConsumer, NodeCrashes, InterruptNode, ServiceTypeOK
  <2>. QED  BY <2>1, <2>2, <2>3, <2>4
<1>3. JobsOfNodes
  BY DEF ServiceTypeOK, JobsOfNodes
<1>4. CASE Ends(p)
  BY <1>1, <1>2, <1>4, NodesLose DEF ServiceTypeOK, JobsOfNodes
<1>5. ASSUME NEW s \in Stages, MovesTo(p, s), proc[p] \in Stages,
             busy' = busy, delivering' = delivering, overdue' \subseteq overdue \union {p}
      PROVE  ServiceTypeOK' /\ Nodes' = Nodes
  <2>1. proc' \in [Pids -> Stages \union Outside] /\ Nodes' = Nodes
    BY <1>5, NodesStay
  <2>2. p \in Nodes
    BY <1>5 DEF Nodes
  <2>3. JobsOfNodes'
    BY <1>3, <1>5, <2>1, <2>2 DEF JobsOfNodes
  <2>. QED  BY <1>1, <1>2, <2>1, <2>3 DEF ServiceTypeOK, JobsOfNodes
<1>6. CASE BootEnds(p)
  BY <1>1, <1>5, <1>6 DEF BootEnds, Stages, Teardown, jobVars
<1>7. CASE InterruptNode(p)
  BY <1>1, <1>5, <1>7, SignalledStages DEF InterruptNode, Stages, jobVars
<1>8. CASE TakeJob(p) \/ FinishJob(p) \/ DeliveryEnds(p)
  <2>1. proc' = proc /\ overdue' = overdue /\ Nodes' = Nodes
    BY <1>8 DEF TakeJob, FinishJob, DeliveryEnds, Nodes
  <2>2. p \in Nodes
    BY <1>3, <1>8 DEF TakeJob, FinishJob, DeliveryEnds, JobsOfNodes, Nodes, Stages, Teardown
  <2>3. busy' \subseteq busy \union {p} /\ delivering' \subseteq delivering \union {p}
    BY <1>8 DEF TakeJob, FinishJob, DeliveryEnds
  <2>4. JobsOfNodes'
    BY <1>3, <2>1, <2>2, <2>3 DEF JobsOfNodes
  <2>. QED  BY <1>1, <1>2, <2>1, <2>4 DEF ServiceTypeOK, JobsOfNodes
<1>9. CASE ~Ends(p) /\ (JoinWatch(p) \/ CloseHeartbeat(p) \/ Drain(p) \/ JoinConsumer(p))
  BY <1>1, <1>5, <1>9
  DEF JoinWatch, CloseHeartbeat, Drain, JoinConsumer, Stages, Teardown, jobVars
<1>. QED
  BY <1>1, <1>4, <1>6, <1>7, <1>8, <1>9 DEF NodeStep, BootFails, CloseClients, NodeCrashes

\* A command's step on its own record and the PID file keeps the types.
LEMMA FileStepTypes ==
  ASSUME ServiceTypeOK, NEW c, NEW k, NEW q, NEW p, Becomes(c, k, q, p),
         pidFile' \in Pids \union {"absent", "empty"}, UNCHANGED nodeVars,
         creds' \in BOOLEAN, vpn' \in BOOLEAN, wiped' \in BOOLEAN, UNCHANGED disorder
  PROVE  ServiceTypeOK' /\ Nodes' = Nodes
  BY DEF ServiceTypeOK, Becomes, CmdRecords, Kinds, nodeVars, jobVars, Nodes

-----------------------------------------------------------------------------
(* How many nodes there may be *)

\* One element less, one less to count.
LEMMA CountLess ==
  ASSUME NEW S, IsFiniteSet(S), NEW x \in S
  PROVE  IsFiniteSet(S \ {x}) /\ Cardinality(S \ {x}) = Cardinality(S) - 1
  BY FS_RemoveElement

\* One element more, one more to count.
LEMMA CountMore ==
  ASSUME NEW S, IsFiniteSet(S), NEW x, x \notin S
  PROVE  IsFiniteSet(S \union {x}) /\ Cardinality(S \union {x}) = Cardinality(S) + 1
  BY FS_AddElement

\* What is counted are natural numbers.
LEMMA CountTypes ==
  ASSUME ServiceTypeOK, IsFiniteSet(Nodes), IsFiniteSet(Pending)
  PROVE  /\ Cardinality(Nodes) \in Nat /\ Cardinality(Pending) \in Nat
         /\ disorder \in Nat /\ Excess \in Int
  BY FS_CardinalityType, ServiceConstants DEF ServiceTypeOK, Excess

PendingPCs == {"check", "stale", "unlink", "spawn"}

\* A command that stays a pending start, or stays none, leaves the count as it is.
LEMMA SamePending ==
  ASSUME NEW c \in Cmds, NEW k, NEW q, NEW p, Becomes(c, k, q, p),
         cmd[c].pc \in PendingPCs <=> q \in PendingPCs
  PROVE  Pending' = Pending
  BY DEF Becomes, Pending, PendingPCs

\* A pending start that spawns, gives up or is refused is pending no more.
LEMMA LessPending ==
  ASSUME NEW c \in Cmds, NEW k, NEW q, NEW p, Becomes(c, k, q, p),
         cmd[c].pc \in PendingPCs, q \notin PendingPCs
  PROVE  c \in Pending /\ Pending' = Pending \ {c}
  BY DEF Becomes, Pending, PendingPCs

\* Whoever is told that the node is gone, and whoever cleans up after it, does
\* so when disorder accounts for all nodes there are.
LEMMA NoExcess ==
  ASSUME ServiceTypeOK, CountInv, NEW c \in Cmds,
         \/ cmd[c].pc \in EndPCs
         \/ cmd[c].pc \in {"term", "wait"} /\ cmd[c].pid \notin Nodes
  PROVE  Excess <= 0
<1>1. c \in InProgress /\ c \notin Starts /\ c \in Stops
  BY DEF InProgress, Starts, Stops, StartPCs, EndPCs
<1>2. ~Waiting /\ ~Launching
  BY <1>1 DEF Waiting, Launching
<1>3. ~Anchored
  BY DEF Anchored
<1>4. Excess \in Int
  BY CountTypes DEF CountInv
<1>. QED  BY <1>2, <1>3, <1>4 DEF CountInv

\* A start that found no running daemon stands for the excess.
LEMMA PastLaunches ==
  ASSUME ServiceTypeOK, CountInv, NEW c \in Cmds, cmd[c].pc \in StartPCs \ {"check"}
  PROVE  Excess <= 1 /\ (Excess = 1 => Launching)
<1>1. c \in Past
  BY DEF Past, Starts
<1>2. ~Anchored
  BY <1>1 DEF Anchored
<1>3. c \in InProgress
  BY DEF InProgress, StartPCs
<1>4. ~Waiting
  BY <1>1, <1>3 DEF Waiting
<1>5. Excess \in Int
  BY CountTypes DEF CountInv
<1>. QED  BY <1>2, <1>4, <1>5 DEF CountInv

\* Beside a stop there is excess only as long as the PID file names a node.
LEMMA StopAnchors ==
  ASSUME ServiceTypeOK, CountInv, NEW c \in Cmds,
         cmd[c].pc \in {"ask", "read", "term", "wait"}
  PROVE  Excess <= 1 /\ (Excess = 1 => Anchored)
<1>1. c \in InProgress /\ c \notin Starts /\ c \in Stops
  BY DEF InProgress, Starts, Stops, StartPCs
<1>2. ~Waiting /\ ~Launching
  BY <1>1 DEF Waiting, Launching
<1>3. Excess \in Int
  BY CountTypes DEF CountInv
<1>. QED  BY <1>2, <1>3 DEF CountInv

\* A node that ends takes its share of the count with it.
LEMMA NodeCount ==
  ASSUME ServiceTypeOK, CountInv, NEW p, Nodes' = Nodes \/ Nodes' = Nodes \ {p},
         UNCHANGED <<cmd, pidFile, disorder>>
  PROVE  CountInv'
<1>1. /\ Pending' = Pending /\ Starts' = Starts /\ Stops' = Stops /\ Past' = Past
      /\ InProgress' = InProgress
  BY DEF Pending, Starts, Stops, Past, InProgress
<1>2. CASE Nodes' = Nodes
  <2>1. Excess' = Excess /\ (Waiting => Waiting') /\ (Launching => Launching')
        /\ (Anchored => Anchored')
    BY <1>1, <1>2 DEF Excess, Waiting, Launching, Anchored
  <2>. QED  BY <1>1, <1>2, <2>1 DEF CountInv
<1>3. CASE Nodes' = Nodes \ {p} /\ p \in Nodes
  <2>1. IsFiniteSet(Nodes') /\ Excess' = Excess - 1
    BY <1>1, <1>3, CountLess, CountTypes DEF CountInv, Excess
  <2>2. Waiting => Launching'
    <3>. SUFFICES ASSUME Waiting PROVE Launching'
      OBVIOUS
    <3>1. Starts' # {} /\ Stops' = {} /\ Past' = {}
      BY <1>1 DEF Waiting, Stops, Past, Starts, InProgress, StartPCs
    <3>2. \A d \in Cmds : cmd'[d].pc \notin {"open", "fill"}
      BY <3>1 DEF Past, Starts, StartPCs
    <3>. QED  BY <3>1, <3>2 DEF Launching
  <2>. QED  BY <1>1, <2>1, <2>2, CountTypes DEF CountInv
<1>. QED  BY <1>2, <1>3

-----------------------------------------------------------------------------
(* The commands *)

\* A command's step keeps what commands are for.
LEMMA KindKept ==
  ASSUME KindInv, NEW c \in Cmds, NEW q, NEW p, NEW k, Becomes(c, k, q, p),
         q # "idle" => (k = "start" <=> q \in StartPCs),
         q \in HasPid => p \in Pids
  PROVE  KindInv'
  BY DEF KindInv, Becomes

\* A start that checks, finds a stale PID file and unlinks it.
LEMMA StartChecks ==
  ASSUME ServiceTypeOK, KindInv, CountInv, NEW c \in Cmds,
         CheckNotRunning(c) \/ FindStale(c) \/ UnlinkStale(c)
  PROVE  ServiceTypeOK' /\ KindInv' /\ CountInv'
<1>. USE DEF CmdAt
<1>1. /\ cmd[c].pc \in {"check", "stale", "unlink"} /\ UNCHANGED <<nodeVars, creds, vpn, wiped, disorder>>
      /\ pidFile' = pidFile \/ pidFile' = "absent"
  BY DEF CheckNotRunning, FindStale, UnlinkStale, OnlyFiles
<1>2. cmd[c].kind = "start"
  BY <1>1 DEF KindInv, StartPCs
<1>3. CASE Return(c)
  <2>1. Becomes(c, "none", "idle", "none")
    BY <1>3, ReturnCmd
  <2>2. ServiceTypeOK' /\ Nodes' = Nodes
    BY <1>1, <2>1, FileStepTypes DEF ServiceTypeOK
  <2>3. KindInv'
    BY <2>1, KindKept DEF HasPid
  <2>4. c \in Pending /\ Pending' = Pending \ {c}
    BY <1>1, <2>1, LessPending DEF PendingPCs
  <2>5. /\ IsFiniteSet(Pending') /\ IsFiniteSet(Nodes') /\ Excess' = Excess - 1
    BY <1>1, <2>2, <2>4, CountLess, CountTypes DEF CountInv, Excess
  <2>6. CASE Excess = 2
    <3>1. Waiting /\ cmd[c].pc = "check"
      BY <1>1, <2>6, PastLaunches DEF CountInv, StartPCs
    <3>2. pidFile' = pidFile
      BY <3>1 DEF CheckNotRunning, FindStale, UnlinkStale
    <3>3. \A d \in Cmds : cmd[d].pc \in {"idle", "check"}
      BY <3>1 DEF Waiting, InProgress, Past
    <3>4. \A d \in Cmds : cmd'[d].pc \in {"idle", "check"}
      BY <2>1, <3>3 DEF Becomes
    <3>5. Anchored'
      BY <2>2, <3>1, <3>2, <3>4 DEF Anchored, Waiting, Past, Starts, StartPCs, EndPCs
    <3>. QED  BY <2>2, <2>3, <2>5, <2>6, <3>5 DEF CountInv
  <2>. QED  BY <2>2, <2>3, <2>5, <2>6, CountTypes DEF CountInv
<1>4. ASSUME NEW q \in {"stale", "unlink", "spawn"}, GoTo(c, q),
             cmd[c].pc = "check" => ~IsDaemonRunning
      PROVE  ServiceTypeOK' /\ KindInv' /\ CountInv'
  <2>1. Becomes(c, "start", q, cmd[c].pid)
    BY <1>2, <1>4, GoToCmd DEF CmdPCs
  <2>2. ServiceTypeOK' /\ Nodes' = Nodes
    BY <1>1, <2>1, FileStepTypes DEF ServiceTypeOK
  <2>3. KindInv'
    BY <2>1, KindKept DEF StartPCs, HasPid
  <2>4. Pending' = Pending
    BY <1>1, <2>1, SamePending DEF PendingPCs
  <2>5. IsFiniteSet(Pending') /\ IsFiniteSet(Nodes') /\ Excess' = Excess
    BY <1>1, <2>2, <2>4 DEF CountInv, Excess
  <2>6. Excess <= 1 /\ (Excess = 1 => Launching)
    <3>1. CASE cmd[c].pc = "check"
      <4>1. ~IsDaemonRunning
        BY <1>4, <3>1
      <4>2. pidFile \notin Nodes
        BY <4>1 DEF IsDaemonRunning, ProcessExists, Nodes, Stages, Teardown
      <4>. QED  BY <4>2, CountTypes DEF CountInv, Waiting, Anchored
    <3>2. CASE cmd[c].pc # "check"
      BY <1>1, <3>2, PastLaunches DEF StartPCs
    <3>. QED  BY <3>1, <3>2
  <2>7. Launching => Launching'
    <3>. SUFFICES ASSUME Launching PROVE Launching'
      OBVIOUS
    <3>1. c \in Past' /\ cmd'[c].pc # "fill" /\ c \in Starts'
      BY <2>1 DEF Becomes, Past, Starts, StartPCs
    <3>2. Stops' = {}
      BY <1>1, <2>1 DEF Launching, Stops, InProgress, Starts, Becomes, StartPCs
    <3>3. \A d \in Cmds : cmd'[d].pc \in {"open", "fill"} => cmd'[d].pid \in Nodes'
      BY <2>1, <2>2 DEF Launching, Becomes
    <3>. QED  BY <3>1, <3>2, <3>3 DEF Launching
  <2>. QED  BY <2>2, <2>3, <2>5, <2>6, <2>7, CountTypes DEF CountInv
<1>. QED
  BY <1>3, <1>4 DEF CheckNotRunning, FindStale, UnlinkStale

\* A start that spawns its node, or fails to.
LEMMA StartSpawns ==
  ASSUME ServiceTypeOK, KindInv, CountInv, NEW c \in Cmds, Spawn(c)
  PROVE  ServiceTypeOK' /\ KindInv' /\ CountInv'
<1>1. cmd[c].pc = "spawn" /\ UNCHANGED <<fileVars, wiped, disorder>>
  BY DEF Spawn, CmdAt
<1>2. cmd[c].kind = "start"
  BY <1>1 DEF KindInv, StartPCs
<1>3. Excess <= 1 /\ (Excess = 1 => Launching)
  BY <1>1, PastLaunches DEF StartPCs
<1>4. CASE Return(c) /\ UNCHANGED nodeVars
  <2>1. Becomes(c, "none", "idle", "none")
    BY <1>4, ReturnCmd
  <2>2. ServiceTypeOK' /\ Nodes' = Nodes
    BY <1>1, <1>4, <2>1, FileStepTypes DEF ServiceTypeOK, fileVars
  <2>3. KindInv'
    BY <2>1, KindKept DEF HasPid
  <2>4. c \in Pending /\ Pending' = Pending \ {c}
    BY <1>1, <2>1, LessPending DEF PendingPCs
  <2>5. IsFiniteSet(Pending') /\ Cardinality(Pending') = Cardinality(Pending) - 1
    BY <2>4, CountLess DEF CountInv
  <2>6. Excess' = Excess - 1
    BY <1>1, <2>2, <2>5, CountTypes DEF CountInv, Excess
  <2>. QED  BY <1>3, <2>2, <2>3, <2>5, <2>6, CountTypes DEF CountInv
<1>5. ASSUME NEW p \in Pids, proc[p] = "free", MovesTo(p, "boot"), UNCHANGED jobVars,
             cmd' = [cmd EXCEPT ![c].pc = "open", ![c].pid = p]
      PROVE  ServiceTypeOK' /\ KindInv' /\ CountInv'
  <2>1. Becomes(c, "start", "open", p)
    BY <1>2, <1>5, NotesPid DEF CmdPCs
  <2>2. /\ proc' \in [Pids -> Stages \union Outside]
        /\ Nodes' = Nodes \union {p} /\ p \notin Nodes
    BY <1>5, NodesGain DEF Stages, Teardown
  <2>3. ServiceTypeOK'
    BY <1>1, <1>5, <2>1, <2>2 DEF ServiceTypeOK, Becomes, CmdRecords, Kinds, fileVars, jobVars
  <2>4. KindInv'
    BY <2>1, KindKept DEF StartPCs, HasPid
  <2>5. c \in Pending /\ Pending' = Pending \ {c}
    BY <1>1, <2>1, LessPending DEF PendingPCs
  <2>6. IsFiniteSet(Pending') /\ Cardinality(Pending') = Cardinality(Pending) - 1
    BY <2>5, CountLess DEF CountInv
  <2>7. IsFiniteSet(Nodes') /\ Cardinality(Nodes') = Cardinality(Nodes) + 1
    BY <2>2, CountMore DEF CountInv
  <2>8. Excess' = Excess
    BY <1>1, <2>6, <2>7, CountTypes DEF CountInv, Excess
  <2>9. Launching => Launching'
    <3>. SUFFICES ASSUME Launching PROVE Launching'
      OBVIOUS
    <3>1. c \in Past' /\ cmd'[c].pc # "fill" /\ c \in Starts'
      BY <2>1 DEF Becomes, Past, Starts, StartPCs
    <3>2. Stops' = {}
      BY <1>1, <2>1 DEF Launching, Stops, InProgress, Starts, Becomes, StartPCs
    <3>3. \A d \in Cmds : cmd'[d].pc \in {"open", "fill"} => cmd'[d].pid \in Nodes'
      BY <2>1, <2>2 DEF Launching, Becomes
    <3>. QED  BY <3>1, <3>2, <3>3 DEF Launching
  <2>. QED  BY <1>3, <2>3, <2>4, <2>6, <2>7, <2>8, <2>9, CountTypes DEF CountInv
<1>. QED  BY <1>4, <1>5 DEF Spawn

\* A start that writes the PID file of its node.
LEMMA StartWrites ==
  ASSUME ServiceTypeOK, KindInv, CountInv, NEW c \in Cmds, WritePidFile(c)
  PROVE  ServiceTypeOK' /\ KindInv' /\ CountInv'
<1>1. cmd[c].pc \in {"open", "fill"} /\ UNCHANGED <<nodeVars, creds, vpn, wiped, disorder>>
  BY DEF WritePidFile, CmdAt, OnlyFiles
<1>2. cmd[c].kind = "start" /\ cmd[c].pid \in Pids
  BY <1>1 DEF KindInv, StartPCs, HasPid
<1>3. Excess <= 1 /\ (Excess = 1 => Launching)
  BY <1>1, PastLaunches DEF StartPCs
<1>4. CASE cmd[c].pc = "open" /\ pidFile' = "empty" /\ GoTo(c, "fill")
  <2>1. Becomes(c, "start", "fill", cmd[c].pid)
    BY <1>2, <1>4, GoToCmd DEF CmdPCs
  <2>2. ServiceTypeOK' /\ Nodes' = Nodes
    BY <1>1, <1>4, <2>1, FileStepTypes DEF ServiceTypeOK
  <2>3. KindInv'
    BY <1>2, <2>1, KindKept DEF StartPCs
  <2>4. Pending' = Pending
    BY <1>4, <2>1, SamePending DEF PendingPCs
  <2>5. IsFiniteSet(Pending') /\ IsFiniteSet(Nodes') /\ Excess' = Excess
    BY <1>1, <2>2, <2>4 DEF CountInv, Excess
  <2>6. Launching => Launching'
    <3>. SUFFICES ASSUME Launching PROVE Launching'
      OBVIOUS
    <3>1. c \in Starts' /\ pidFile' # "absent"
      BY <1>4, <2>1 DEF Becomes, Starts, StartPCs
    <3>2. Stops' = {}
      BY <1>1, <2>1 DEF Launching, Stops, InProgress, Starts, Becomes, StartPCs
    <3>3. \A d \in Cmds : cmd'[d].pc \in {"open", "fill"} => cmd'[d].pid \in Nodes'
      BY <1>1, <2>1, <2>2 DEF Launching, Becomes
    <3>. QED  BY <3>1, <3>2, <3>3 DEF Launching
  <2>. QED  BY <1>3, <2>2, <2>3, <2>5, <2>6, CountTypes DEF CountInv
<1>5. CASE /\ cmd[c].pc = "fill" /\ Return(c)
           /\ pidFile' = IF pidFile = "absent" THEN "absent" ELSE cmd[c].pid
  <2>1. Becomes(c, "none", "idle", "none")
    BY <1>5, ReturnCmd
  <2>2. KindInv'
    BY <2>1, KindKept DEF HasPid
  <2>3. Pending' = Pending
    BY <1>5, <2>1, SamePending DEF PendingPCs
  <2>4. cmd[c].pid \in Pids
    BY <1>2
  <2>5. ServiceTypeOK' /\ Nodes' = Nodes
    BY <1>1, <1>5, <2>1, <2>4, FileStepTypes DEF ServiceTypeOK
  <2>6. IsFiniteSet(Pending') /\ IsFiniteSet(Nodes') /\ Excess' = Excess
    BY <1>1, <2>5, <2>3 DEF CountInv, Excess
  <2>7. Launching => Launching' \/ Anchored'
    <3>. SUFFICES ASSUME Launching PROVE Launching' \/ Anchored'
      OBVIOUS
    <3>1. cmd[c].pid \in Nodes /\ cmd[c].pid # "absent"
      BY <1>5, <2>4, ServiceConstants DEF Launching
    <3>2. Stops' = {} /\ Past' = Past \ {c} /\ Starts' = Starts \ {c} /\ c \in Past
      BY <1>5, <2>1 DEF Launching, Stops, InProgress, Starts, Past, Becomes, StartPCs
    <3>3. \A d \in Cmds : cmd'[d].pc \in {"open", "fill"} => cmd'[d].pid \in Nodes'
      BY <2>1, <2>5 DEF Launching, Becomes
    <3>4. pidFile' = "absent" => \E d \in Past' : cmd'[d].pc # "fill"
      <4>. SUFFICES ASSUME pidFile' = "absent" PROVE \E d \in Past' : cmd'[d].pc # "fill"
        OBVIOUS
      <4>1. pidFile = "absent"
        BY <1>5, <3>1
      <4>2. PICK d \in Past : cmd[d].pc # "fill"
        BY <3>2, <4>1 DEF Launching
      <4>. QED  BY <1>5, <2>1, <3>2, <4>2 DEF Becomes, Past, Starts
    <3>5. CASE Starts' # {}
      BY <3>2, <3>3, <3>4, <3>5 DEF Launching
    <3>6. CASE Starts' = {}
      <4>1. Past' = {} /\ InProgress' = {}
        BY <3>2, <3>6 DEF Past, Stops
      <4>2. pidFile' = cmd[c].pid
        BY <1>5, <3>4, <4>1
      <4>3. \A d \in Cmds : cmd'[d].pc = "idle"
        BY <4>1 DEF InProgress
      <4>. QED  BY <2>5, <3>1, <4>1, <4>2, <4>3 DEF Anchored, EndPCs
    <3>. QED  BY <3>5, <3>6
  <2>. QED  BY <1>3, <2>2, <2>5, <2>6, <2>7, CountTypes DEF CountInv
<1>. QED  BY <1>4, <1>5 DEF WritePidFile, CmdAt

\* A command that is no start moves on and nobody spawns: if a node is left
\* over, the PID file must still name it.
LEMMA StopMoves ==
  ASSUME ServiceTypeOK, ServiceTypeOK', CountInv, NEW c \in Cmds, NEW k, NEW q, NEW p,
         Becomes(c, k, q, p), cmd[c].pc \notin PendingPCs, q \notin PendingPCs,
         Nodes' = Nodes, UNCHANGED disorder, Excess <= 1, Excess = 1 => Anchored'
  PROVE  CountInv'
<1>1. Pending' = Pending
  BY SamePending
<1>2. Excess' = Excess
  BY <1>1 DEF Excess
<1>. QED  BY <1>1, <1>2, CountTypes DEF CountInv

\* What stop_daemon does when it returns.
LEMMA StopReturnsCmd ==
  ASSUME ServiceTypeOK, KindInv, NEW c \in Cmds, StopReturns(c), cmd[c].pc # "idle",
         cmd[c].pc \notin StartPCs
  PROVE  \E k, p : \/ Becomes(c, k, "idle", p)
                   \/ Becomes(c, k, "vpn", p) /\ k # "start"
  BY ReturnCmd, GoToCmd DEF StopReturns, KindInv, CmdPCs

\* stop and reset look for the node.
LEMMA StopLooks ==
  ASSUME ServiceTypeOK, KindInv, CountInv, NEW c \in Cmds, AskRunning(c) \/ ReadPid(c)
  PROVE  ServiceTypeOK' /\ KindInv' /\ CountInv'
<1>1. cmd[c].pc \in {"ask", "read"} /\ UNCHANGED <<nodeVars, creds, vpn, wiped, disorder, pidFile>>
  BY DEF AskRunning, ReadPid, CmdAt, OnlyFiles
<1>2. cmd[c].kind # "start"
  BY <1>1 DEF KindInv, StartPCs
<1>3. Excess <= 1 /\ (Excess = 1 => Anchored)
  BY <1>1, StopAnchors
<1>4. PICK k, q, p :
        /\ Becomes(c, k, q, p) /\ q \in {"idle", "read", "term", "vpn"}
        /\ q # "idle" => k # "start"
        /\ q = "term" => p = pidFile /\ pidFile \in Pids
        /\ q = "vpn" => pidFile \notin Pids
  <2>1. CASE AskRunning(c)
    BY <1>2, <2>1, ReturnCmd, GoToCmd DEF AskRunning, CmdPCs
  <2>2. CASE ReadPid(c) /\ pidFile \in Pids
    <3>1. PICK p \in Pids : p = pidFile
      BY <2>2
    <3>2. cmd' = [cmd EXCEPT ![c].pc = "term", ![c].pid = p]
      BY <2>2, <3>1 DEF ReadPid
    <3>3. Becomes(c, cmd[c].kind, "term", p)
      BY <3>2, NotesPid DEF CmdPCs
    <3>. QED  BY <1>2, <3>1, <3>3
  <2>3. CASE ReadPid(c) /\ pidFile \notin Pids
    <3>1. StopReturns(c)
      BY <2>3 DEF ReadPid
    <3>. QED  BY <1>1, <2>3, <3>1, StopReturnsCmd DEF StartPCs
  <2>. QED  BY <2>1, <2>2, <2>3
<1>5. ServiceTypeOK' /\ Nodes' = Nodes
  BY <1>1, <1>4, FileStepTypes DEF ServiceTypeOK
<1>6. KindInv'
  BY <1>4, KindKept DEF StartPCs, HasPid
<1>7. Anchored => Anchored'
  <2>. SUFFICES ASSUME Anchored PROVE Anchored'
    OBVIOUS
  <2>1. pidFile' \in Nodes' /\ pidFile \in Pids /\ pidFile' = pidFile
    BY <1>1, <1>5 DEF Anchored, Nodes
  <2>2. q \in {"idle", "read", "term"}
    BY <1>4, <2>1
  <2>3. Past' = {}
    BY <1>4, <2>2 DEF Anchored, Past, Starts, StartPCs, Becomes
  <2>4. \A d \in Cmds : /\ cmd'[d].pc \notin EndPCs
                        /\ cmd'[d].pc \in {"term", "wait"} => cmd'[d].pid = pidFile
    BY <1>4, <2>2 DEF Anchored, EndPCs, Becomes
  <2>. QED  BY <2>1, <2>3, <2>4 DEF Anchored
<1>8. CountInv'
  BY <1>1, <1>3, <1>4, <1>5, <1>7, StopMoves DEF PendingPCs
<1>. QED  BY <1>5, <1>6, <1>8

\* stop and reset clean up, or find the node gone.
LEMMA StopCleansUp ==
  ASSUME ServiceTypeOK, KindInv, CountInv, NEW c \in Cmds,
         \/ TargetGone(c) \/ SeeExit(c) \/ UnlinkPidFile(c)
         \/ ResetKillsVpn(c) \/ ResetRemovesFiles(c)
  PROVE  ServiceTypeOK' /\ KindInv' /\ CountInv' /\ Excess <= 0 /\ Nodes' = Nodes
<1>1. /\ \/ cmd[c].pc \in EndPCs
         \/ cmd[c].pc \in {"term", "wait"} /\ ~ProcessExists(cmd[c].pid)
      /\ UNCHANGED <<nodeVars, disorder>>
      /\ pidFile' \in {pidFile, "absent"}
  BY DEF TargetGone, SeeExit, UnlinkPidFile, ResetKillsVpn, ResetRemovesFiles, CmdAt, OnlyFiles,
         EndPCs
<1>2. vpn' \in BOOLEAN /\ creds' \in BOOLEAN /\ wiped' \in BOOLEAN
  <2>1. vpn' = vpn \/ vpn' = FALSE
    BY DEF TargetGone, SeeExit, UnlinkPidFile, ResetKillsVpn, ResetRemovesFiles, OnlyFiles
  <2>2. creds' = creds \/ creds' = FALSE
    BY DEF TargetGone, SeeExit, UnlinkPidFile, ResetKillsVpn, ResetRemovesFiles, OnlyFiles
  <2>3. wiped' = wiped \/ wiped' = Orderly
    BY DEF TargetGone, SeeExit, UnlinkPidFile, ResetKillsVpn, ResetRemovesFiles, OnlyFiles
  <2>. QED  BY <2>1, <2>2, <2>3 DEF ServiceTypeOK, Orderly
<1>3. Excess <= 0
  <2>1. CASE cmd[c].pc \in {"term", "wait"} /\ ~ProcessExists(cmd[c].pid)
    <3>1. cmd[c].pid \notin Nodes
      BY <2>1 DEF ProcessExists, Nodes, Stages, Teardown
    <3>. QED  BY <2>1, <3>1, NoExcess
  <2>. QED  BY <1>1, <2>1, NoExcess
<1>4. cmd[c].kind # "start" /\ cmd[c].pc # "idle" /\ cmd[c].pc \notin StartPCs
  BY <1>1 DEF KindInv, StartPCs, EndPCs
<1>5. PICK k, q, p : /\ Becomes(c, k, q, p) /\ q \in {"idle", "rm", "vpn", "files"}
                     /\ q # "idle" => k # "start"
  <2>1. CASE StopReturns(c)
    BY <1>4, <2>1, StopReturnsCmd
  <2>2. CASE Return(c)
    BY <2>2, ReturnCmd
  <2>3. ASSUME NEW q \in {"rm", "files"}, GoTo(c, q)
        PROVE  Becomes(c, cmd[c].kind, q, cmd[c].pid)
    BY <2>3, GoToCmd DEF CmdPCs
  <2>. QED
    BY <1>4, <2>1, <2>2, <2>3
    DEF TargetGone, SeeExit, UnlinkPidFile, ResetKillsVpn, ResetRemovesFiles
<1>6. ServiceTypeOK' /\ Nodes' = Nodes
  BY <1>1, <1>2, <1>5, FileStepTypes DEF ServiceTypeOK
<1>7. KindInv'
  BY <1>5, KindKept DEF StartPCs, HasPid
<1>8. cmd[c].pc \notin PendingPCs /\ q \notin PendingPCs
  BY <1>4, <1>5 DEF PendingPCs, StartPCs
<1>9. Excess \in Int
  BY CountTypes DEF CountInv
<1>10. CountInv'
  BY <1>1, <1>3, <1>5, <1>6, <1>8, <1>9, StopMoves
<1>. QED  BY <1>3, <1>6, <1>7, <1>10

\* stop and reset send SIGTERM.
LEMMA StopSignals ==
  ASSUME ServiceTypeOK, KindInv, CountInv, NEW c \in Cmds, SendTerm(c)
  PROVE  ServiceTypeOK' /\ KindInv' /\ CountInv' /\ Nodes' = Nodes
<1>. DEFINE p == cmd[c].pid
<1>1. cmd[c].pc = "term" /\ p \in Pids /\ UNCHANGED <<jobVars, fileVars, wiped, disorder>>
      /\ GoTo(c, "wait")
  BY DEF SendTerm, CmdAt, ProcessExists
<1>2. PICK s \in Signalled(proc[p]) : MovesTo(p, s)
  BY DEF SendTerm
<1>3. s \in Stages \union Outside /\ (proc[p] \in Stages <=> s \in Stages)
  BY <1>1, <1>2, SignalledStages DEF ServiceTypeOK, Stages, Teardown, Outside
<1>4. proc' \in [Pids -> Stages \union Outside] /\ Nodes' = Nodes
  BY <1>1, <1>2, <1>3, NodesStay
<1>5. cmd[c].kind # "start"
  BY <1>1 DEF KindInv, StartPCs
<1>6. Becomes(c, cmd[c].kind, "wait", p)
  BY <1>1, GoToCmd DEF CmdPCs
<1>7. ServiceTypeOK'
  BY <1>1, <1>4, <1>6 DEF ServiceTypeOK, Becomes, CmdRecords, Kinds, fileVars, jobVars
<1>8. KindInv'
  BY <1>1, <1>5, <1>6, KindKept DEF StartPCs
<1>9. Anchored => Anchored'
  <2>. SUFFICES ASSUME Anchored PROVE Anchored'
    OBVIOUS
  <2>1. pidFile' \in Nodes' /\ pidFile' = pidFile
    BY <1>1, <1>4 DEF Anchored, fileVars
  <2>2. Past' = {}
    BY <1>6 DEF Anchored, Past, Starts, StartPCs, Becomes
  <2>3. \A d \in Cmds : /\ cmd'[d].pc \notin EndPCs
                        /\ cmd'[d].pc \in {"term", "wait"} => cmd'[d].pid = pidFile
    BY <1>1, <1>6 DEF Anchored, EndPCs, Becomes
  <2>. QED  BY <2>1, <2>2, <2>3 DEF Anchored
<1>10. Excess <= 1 /\ (Excess = 1 => Anchored)
  BY <1>1, StopAnchors
<1>11. CountInv'
  BY <1>1, <1>4, <1>6, <1>7, <1>9, <1>10, StopMoves DEF PendingPCs
<1>. QED  BY <1>4, <1>7, <1>8, <1>11

\* stop and reset send SIGKILL at their deadline.
LEMMA StopKills ==
  ASSUME ServiceTypeOK, KindInv, CountInv, NEW c \in Cmds, SendKill(c)
  PROVE  ServiceTypeOK' /\ KindInv' /\ CountInv'
<1>. DEFINE p == cmd[c].pid
<1>1. cmd[c].pc = "wait" /\ p \in Pids /\ UNCHANGED <<fileVars, wiped, disorder>>
      /\ GoTo(c, "rm") /\ Ends(p)
  BY DEF SendKill, CmdAt, ProcessExists
<1>2. /\ proc' \in [Pids -> Stages \union Outside]
      /\ Nodes' = Nodes \ {p} /\ JobsOfNodes'
  BY <1>1, NodesLose
<1>3. cmd[c].kind # "start"
  BY <1>1 DEF KindInv, StartPCs
<1>4. Becomes(c, cmd[c].kind, "rm", p)
  BY <1>1, GoToCmd DEF CmdPCs
<1>5. ServiceTypeOK'
  BY <1>1, <1>2, <1>4
  DEF ServiceTypeOK, Becomes, CmdRecords, Kinds, fileVars, JobsOfNodes
<1>6. KindInv'
  BY <1>1, <1>3, <1>4, KindKept DEF StartPCs, HasPid
<1>7. Excess <= 1 /\ (Excess = 1 => Anchored)
  BY <1>1, StopAnchors
<1>8. Pending' = Pending
  BY <1>1, <1>4, SamePending DEF PendingPCs
<1>9. CASE p \notin Nodes
  <2>1. Excess <= 0 /\ Nodes' = Nodes
    BY <1>1, <1>2, <1>9, NoExcess
  <2>2. Excess' = Excess /\ Excess \in Int
    BY <1>1, <1>8, <2>1, CountTypes DEF CountInv, Excess
  <2>. QED  BY <1>2, <1>5, <1>6, <1>8, <2>1, <2>2 DEF CountInv
<1>10. CASE p \in Nodes
  <2>1. IsFiniteSet(Nodes') /\ Cardinality(Nodes') = Cardinality(Nodes) - 1
    BY <1>2, <1>10, CountLess DEF CountInv
  <2>2. Excess' = Excess - 1 /\ Excess \in Int
    BY <1>1, <1>8, <2>1, CountTypes DEF CountInv, Excess
  <2>. QED  BY <1>2, <1>5, <1>6, <1>7, <1>8, <2>1, <2>2 DEF CountInv
<1>. QED  BY <1>9, <1>10

\* A command begins.
LEMMA CommandBegins ==
  ASSUME ServiceTypeOK, KindInv, CountInv, NEW c \in Cmds,
         NEW kind \in {"start", "stop", "reset"}, Begin(c, kind)
  PROVE  ServiceTypeOK' /\ KindInv' /\ CountInv'
<1>1. PICK q \in {"check", "ask", "read"} :
        Becomes(c, kind, q, "none") /\ (q = "check" <=> kind = "start")
  BY BeginsCmd
<1>2. c \notin InProgress /\ cmd[c].pc = "idle" /\ UNCHANGED <<nodeVars, fileVars>>
  BY DEF Begin, InProgress
<1>3. disorder' \in 0 .. MaxDisorder /\ wiped' \in BOOLEAN
  <2>1. wiped \in BOOLEAN
    BY DEF ServiceTypeOK
  <2>2. wiped' \in BOOLEAN
    BY <2>1 DEF Begin, Disorder
  <2>. QED  BY <2>2, ServiceConstants DEF Begin, Disorder, ServiceTypeOK
<1>4. ServiceTypeOK' /\ Nodes' = Nodes /\ pidFile' = pidFile
  BY <1>1, <1>2, <1>3
  DEF ServiceTypeOK, Becomes, CmdRecords, Kinds, nodeVars, jobVars, fileVars, Nodes
<1>5. KindInv'
  BY <1>1, KindKept DEF StartPCs, HasPid
<1>6. InProgress' = InProgress \union {c} /\ Past' = Past /\ c \notin Past
  BY <1>1, <1>2 DEF InProgress, Past, Starts, StartPCs, Becomes
<1>7. Starts # {} <=> \E d \in InProgress : cmd[d].kind = "start"
  BY DEF KindInv, Starts, InProgress, StartPCs
<1>8. Anchored => Anchored'
  BY <1>1, <1>4, <1>6 DEF Anchored, Becomes, EndPCs
<1>9. CASE kind = "start"
  <2>1. q = "check" /\ c \notin Pending /\ Pending' = Pending \union {c}
        /\ Starts' = Starts \union {c} /\ Stops' = Stops
    BY <1>1, <1>2, <1>9 DEF Pending, Starts, Stops, InProgress, StartPCs, Becomes
  <2>2. IsFiniteSet(Pending') /\ Cardinality(Pending') = Cardinality(Pending) + 1
    BY <2>1, CountMore DEF CountInv
  <2>3. CASE InProgress = {}
    <3>1. UNCHANGED disorder
      BY <2>3 DEF Begin
    <3>2. Excess' = Excess + 1 /\ Excess \in Int
      BY <1>4, <2>2, <3>1, CountTypes DEF CountInv, Excess
    <3>3. Starts = {} /\ Stops = {} /\ Past = {}
      BY <2>3 DEF Starts, Stops, Past, InProgress, StartPCs
    <3>4. Excess <= 1 /\ (Excess = 1 => Anchored)
      BY <3>2, <3>3 DEF CountInv, Waiting, Launching
    <3>5. Anchored => Waiting'
      BY <1>4, <1>6, <2>1, <2>3, <3>3 DEF Anchored, Waiting
    <3>6. Launching'
      <4>1. \A d \in Cmds : cmd'[d].pc \notin {"open", "fill"}
        BY <1>6, <3>3 DEF Past, Starts, StartPCs
      <4>. QED  BY <1>6, <2>1, <3>3, <4>1 DEF Launching
    <3>. QED  BY <1>4, <1>5, <2>2, <3>2, <3>4, <3>5, <3>6 DEF CountInv
  <2>4. CASE InProgress # {}
    <3>1. disorder' = disorder + 1
      BY <1>9, <2>4 DEF Begin, Disorder
    <3>2. Excess' = Excess
      BY <1>4, <2>2, <3>1, CountTypes DEF CountInv, Excess
    <3>3. Waiting => Waiting'
      BY <1>4, <1>6, <2>1 DEF Waiting
    <3>4. Launching => Launching'
      <4>. SUFFICES ASSUME Launching PROVE Launching'
        OBVIOUS
      <4>1. \A d \in Cmds : cmd'[d].pc \in {"open", "fill"} => cmd'[d].pid \in Nodes'
        BY <1>1, <1>4 DEF Launching, Becomes
      <4>2. pidFile' = "absent" => Past' = {} \/ \E d \in Past' : cmd'[d].pc # "fill"
        BY <1>1, <1>4, <1>6 DEF Launching, Becomes, Past, Starts
      <4>. QED  BY <2>1, <4>1, <4>2 DEF Launching
    <3>. QED  BY <1>4, <1>5, <1>8, <2>2, <3>2, <3>3, <3>4 DEF CountInv
  <2>. QED  BY <2>3, <2>4
<1>10. CASE kind # "start"
  <2>1. q \in {"ask", "read"} /\ Pending' = Pending
    BY <1>1, <1>2, <1>10, SamePending DEF PendingPCs
  <2>2. CASE Starts # {}
    <3>1. disorder' = disorder + 1
      BY <1>7, <2>2 DEF Begin, Disorder
    <3>2. Excess' = Excess - 1 /\ Excess \in Int
      BY <1>4, <2>1, <3>1, CountTypes DEF CountInv, Excess
    <3>3. Waiting => Anchored
      BY DEF Waiting, Anchored, InProgress, Past, Starts, StartPCs, EndPCs
    <3>. QED  BY <1>4, <1>5, <1>8, <2>1, <3>2, <3>3 DEF CountInv
  <2>3. CASE Starts = {}
    <3>1. disorder' = disorder
      BY <1>7, <1>10, <2>3 DEF Begin
    <3>2. Excess' = Excess
      BY <1>4, <2>1, <3>1 DEF Excess
    <3>3. ~Waiting /\ ~Launching
      BY <2>3 DEF Waiting, Launching
    <3>. QED  BY <1>4, <1>5, <1>8, <2>1, <3>2, <3>3 DEF CountInv
  <2>. QED  BY <2>2, <2>3
<1>. QED  BY <1>9, <1>10

\* A command dies: whatever it leaves undone is disorder.
LEMMA CommandIsLost ==
  ASSUME ServiceTypeOK, KindInv, CountInv, NEW c \in Cmds, CommandDies(c)
  PROVE  ServiceTypeOK' /\ KindInv' /\ CountInv'
<1>1. Becomes(c, "none", "idle", "none")
  BY ReturnCmd DEF CommandDies
<1>2. /\ c \in InProgress /\ UNCHANGED <<nodeVars, fileVars>> /\ wiped' \in BOOLEAN
      /\ disorder' = disorder + 1 /\ disorder' \in 0 .. MaxDisorder
  <2>1. wiped' \in BOOLEAN
    BY DEF CommandDies, Disorder
  <2>. QED  BY <2>1, ServiceConstants DEF CommandDies, Disorder, ServiceTypeOK
<1>3. ServiceTypeOK' /\ Nodes' = Nodes
  BY <1>1, <1>2
  DEF ServiceTypeOK, Becomes, CmdRecords, Kinds, nodeVars, jobVars, fileVars, Nodes
<1>4. KindInv'
  BY <1>1, KindKept DEF HasPid
<1>5. CASE cmd[c].pc \in PendingPCs
  <2>1. c \in Pending /\ Pending' = Pending \ {c}
    BY <1>1, <1>5, LessPending DEF PendingPCs
  <2>2. IsFiniteSet(Pending') /\ Cardinality(Pending') = Cardinality(Pending) - 1
    BY <2>1, CountLess DEF CountInv
  <2>3. Excess' = Excess - 2 /\ Excess \in Int
    BY <1>2, <1>3, <2>2, CountTypes DEF CountInv, Excess
  <2>. QED  BY <1>3, <1>4, <2>2, <2>3 DEF CountInv
<1>6. CASE cmd[c].pc \notin PendingPCs
  <2>1. Pending' = Pending
    BY <1>1, <1>6, SamePending DEF PendingPCs
  <2>2. Excess' = Excess - 1 /\ Excess \in Int
    BY <1>2, <1>3, <2>1, CountTypes DEF CountInv, Excess
  <2>3. ~Waiting
    BY <1>2, <1>6 DEF Waiting, InProgress, Starts, Past, StartPCs, PendingPCs
  <2>. QED  BY <1>3, <1>4, <2>1, <2>2, <2>3 DEF CountInv
<1>. QED  BY <1>5, <1>6

\* The tunnel is taken away, or a process start did not spawn comes or goes.
LEMMA OthersInterfere ==
  ASSUME ServiceTypeOK, KindInv, CountInv,
         \/ StopVpn
         \/ \E p \in Pids : StartForeground(p) \/ OtherProgramStarts(p) \/ OtherProgramEnds(p)
  PROVE  ServiceTypeOK' /\ KindInv' /\ CountInv'
<1>1. cmd' = cmd /\ pidFile' = pidFile
  BY DEF StopVpn, StartForeground, OtherProgramStarts, OtherProgramEnds, Stranger, NodeFrame,
         fileVars
<1>2. KindInv'
  BY <1>1 DEF KindInv
<1>3. /\ Pending' = Pending /\ Starts' = Starts /\ Stops' = Stops /\ Past' = Past
      /\ InProgress' = InProgress
  BY <1>1 DEF Pending, Starts, Stops, Past, InProgress
<1>4. ASSUME Disorder, Nodes' = Nodes PROVE CountInv'
  <2>1. Excess' = Excess - 1 /\ Excess \in Int
    BY <1>3, <1>4, CountTypes DEF CountInv, Excess, Disorder
  <2>2. Waiting => Anchored'
    BY <1>1, <1>3, <1>4
    DEF Waiting, Anchored, InProgress, Past, Starts, StartPCs, EndPCs
  <2>. QED  BY <1>3, <1>4, <2>1, <2>2 DEF CountInv
<1>5. CASE StopVpn
  <2>1. vpn' \in BOOLEAN /\ wiped' \in BOOLEAN
    BY <1>5 DEF StopVpn, Disorder
  <2>2. Disorder /\ Nodes' = Nodes
    BY <1>5 DEF StopVpn, nodeVars, Nodes
  <2>3. ServiceTypeOK'
    BY <1>5, <2>1, <2>2, ServiceConstants
    DEF StopVpn, Disorder, ServiceTypeOK, nodeVars, jobVars
  <2>. QED  BY <1>2, <1>4, <2>2, <2>3
<1>6. ASSUME NEW p \in Pids, StartForeground(p) PROVE ServiceTypeOK' /\ CountInv'
  <2>1. proc[p] = "free" /\ MovesTo(p, "boot") /\ Disorder /\ UNCHANGED <<jobVars, cmd, fileVars>>
    BY <1>6 DEF StartForeground, Stranger
  <2>2. /\ proc' \in [Pids -> Stages \union Outside]
        /\ Nodes' = Nodes \union {p} /\ p \notin Nodes
    BY <2>1, NodesGain DEF Stages, Teardown
  <2>3. ServiceTypeOK'
    <3>1. wiped' \in BOOLEAN
      BY <2>1 DEF Disorder
    <3>. QED  BY <2>1, <2>2, <3>1, ServiceConstants DEF Disorder, ServiceTypeOK, fileVars, jobVars
  <2>4. IsFiniteSet(Nodes') /\ Cardinality(Nodes') = Cardinality(Nodes) + 1
    BY <2>2, CountMore DEF CountInv
  <2>5. Excess' = Excess
    BY <1>3, <2>1, <2>4, CountTypes DEF CountInv, Excess, Disorder
  <2>6. (Waiting => Waiting') /\ (Anchored => Anchored') /\ (Launching => Launching')
    BY <1>1, <1>3, <2>2 DEF Waiting, Anchored, Launching
  <2>. QED  BY <1>3, <2>3, <2>4, <2>5, <2>6 DEF CountInv
<1>7. ASSUME NEW p \in Pids, OtherProgramStarts(p) PROVE ServiceTypeOK' /\ CountInv'
  <2>1. PICK s \in {"foreign", "alien"} :
          /\ proc[p] = "free" /\ MovesTo(p, s) /\ Disorder
          /\ UNCHANGED <<jobVars, cmd, fileVars>>
    BY <1>7 DEF OtherProgramStarts, Stranger
  <2>2. proc' \in [Pids -> Stages \union Outside] /\ Nodes' = Nodes
    BY <2>1, NodesStay DEF Stages, Teardown, Outside
  <2>3. ServiceTypeOK'
    <3>1. wiped' \in BOOLEAN
      BY <2>1 DEF Disorder
    <3>. QED  BY <2>1, <2>2, <3>1, ServiceConstants DEF Disorder, ServiceTypeOK, fileVars, jobVars
  <2>. QED  BY <1>4, <2>1, <2>2, <2>3
<1>8. ASSUME NEW p \in Pids, OtherProgramEnds(p) PROVE ServiceTypeOK' /\ CountInv'
  <2>1. Ends(p) /\ UNCHANGED <<creds, vpn, cmd, pidFile, wiped, disorder>>
    BY <1>8 DEF OtherProgramEnds, NodeFrame
  <2>2. /\ proc' \in [Pids -> Stages \union Outside]
        /\ Nodes' = Nodes \ {p} /\ JobsOfNodes'
    BY <2>1, NodesLose
  <2>3. ServiceTypeOK'
    BY <2>1, <2>2 DEF ServiceTypeOK, JobsOfNodes
  <2>4. CountInv'
    BY <2>1, <2>2, NodeCount
  <2>. QED  BY <2>3, <2>4
<1>. QED  BY <1>2, <1>5, <1>6, <1>7, <1>8

ServiceInv == ServiceTypeOK /\ KindInv /\ CountInv

\* Before the first command there is nothing to count.
LEMMA ServiceInit == Init => ServiceInv
<1>. SUFFICES ASSUME Init PROVE ServiceInv
  OBVIOUS
<1>1. Nodes = {} /\ Pending = {}
  BY DEF Init, Nodes, Pending, NoCmd, Stages, Teardown
<1>2. creds \in BOOLEAN /\ vpn \in BOOLEAN /\ wiped \in BOOLEAN
  BY DEF Init
<1>3. NoCmd \in CmdRecords
  BY DEF NoCmd, CmdRecords, Kinds, CmdPCs
<1>4. ServiceTypeOK
  BY <1>2, <1>3, ServiceConstants DEF Init, ServiceTypeOK, CmdRecords, Kinds, Outside
<1>5. KindInv
  BY DEF Init, KindInv, NoCmd, HasPid
<1>6. IsFiniteSet({}) /\ Cardinality({}) = 0
  BY FS_EmptySet
<1>7. CountInv
  BY <1>1, <1>6 DEF Init, CountInv, Excess
<1>. QED  BY <1>4, <1>5, <1>7 DEF ServiceInv

\* Every step keeps the types, the kinds and the count.
LEMMA ServiceStep == ServiceInv /\ [Next]_vars => ServiceInv'
<1>. SUFFICES ASSUME ServiceInv, [Next]_vars PROVE ServiceInv'
  OBVIOUS
<1>. USE DEF ServiceInv
<1>1. ASSUME NEW p \in Pids, NodeStep(p) PROVE ServiceInv'
  <2>1. KindInv'
    BY <1>1, NodeStepTypes DEF KindInv
  <2>. QED  BY <1>1, <2>1, NodeStepTypes, NodeCount
<1>2. ASSUME NEW c \in Cmds, CommandStep(c) PROVE ServiceInv'
  BY <1>2, StartChecks, StartSpawns, StartWrites, StopLooks, StopCleansUp, StopSignals,
     StopKills
  DEF CommandStep
<1>3. ASSUME NEW c \in Cmds, CommandDies(c) PROVE ServiceInv'
  BY <1>3, CommandIsLost
<1>4. ASSUME NEW c \in Cmds, NEW kind \in {"start", "stop", "reset"}, Begin(c, kind)
      PROVE  ServiceInv'
  BY <1>4, CommandBegins
<1>5. CASE UNCHANGED vars
  <2>1. Nodes' = Nodes /\ UNCHANGED <<cmd, pidFile, disorder>>
    BY <1>5 DEF vars, nodeVars, jobVars, fileVars, Nodes
  <2>2. CountInv'
    BY <2>1, NodeCount
  <2>3. ServiceTypeOK' /\ KindInv'
    BY <1>5 DEF vars, nodeVars, jobVars, fileVars, ServiceTypeOK, KindInv, Nodes
  <2>. QED  BY <2>2, <2>3
<1>. QED  BY <1>1, <1>2, <1>3, <1>4, <1>5, OthersInterfere DEF Next

\* The processes, the commands and the files they share stay well typed,
\* whatever overlaps.
THEOREM ServiceTypeCorrect == Spec => []ServiceTypeOK
<1>1. ServiceInv => ServiceTypeOK
  BY DEF ServiceInv
<1>. QED  BY <1>1, ServiceInit, ServiceStep, PTL DEF Spec

\* At most one node runs per disorder, and one more.
LEMMA NodesBounded == ServiceInv => OneNode
<1>. SUFFICES ASSUME ServiceInv PROVE OneNode
  OBVIOUS
<1>1. /\ Cardinality(Nodes) \in Nat /\ Cardinality(Pending) \in Nat
      /\ disorder \in Nat /\ Excess \in Int
  BY CountTypes DEF ServiceInv, CountInv
<1>2. CASE Excess <= 1
  BY <1>1, <1>2 DEF Excess, OneNode
<1>3. CASE Excess = 2
  <2>1. PICK c \in Cmds : cmd[c].pc = "check"
    BY <1>3 DEF ServiceInv, CountInv, Waiting, Starts, Past, InProgress, StartPCs
  <2>2. Pending # {}
    BY <2>1 DEF Pending
  <2>3. Cardinality(Pending) # 0
    BY <2>2, FS_EmptySet DEF ServiceInv, CountInv
  <2>. QED  BY <1>1, <1>3, <2>3 DEF Excess, OneNode
<1>. QED  BY <1>1, <1>2, <1>3 DEF ServiceInv, CountInv

\* One start at a time means one node at most, whatever stops and resets
\* overlap with each other and whenever nodes crash; every start that meets
\* another command, command that dies and node in the foreground costs one more.
THEOREM OneNodePerDisorder == Spec => []OneNode
  BY ServiceInit, ServiceStep, NodesBounded, PTL DEF Spec

-----------------------------------------------------------------------------
(* What an orderly machine may rely on *)

\* Where a node may have a job in progress.
Serving == {"up", "watch", "heartbeat", "drain", "consumer"}

\* A job is worked on only until the consumer is joined; what is left when the
\* consumer is being joined, and after it, is of a drain that ran out of time.
JobOK(p) ==
  /\ p \in busy => proc[p] \in Serving
  /\ p \in delivering => proc[p] \in Serving \union {"close"}
  /\ proc[p] \in {"consumer", "close"} /\ p \notin overdue => p \notin busy \union delivering

JobInv == \A p \in Pids : JobOK(p)

\* On an orderly machine there are no strangers, a node that serves has its
\* tunnel, and no start meets another command.
OrderInv ==
  Orderly => /\ \A p \in Pids : proc[p] \notin {"foreign", "alien"}
             /\ \A p \in Pids : proc[p] \in Serving => vpn
             /\ Starts = {} \/ Stops = {}

\* Nobody is there to bring back what a reset removed.
WipedInv ==
  wiped => Orderly /\ Starts = {} /\ Nodes = {} /\ ~creds /\ pidFile = "absent"

MeansInv == JobInv /\ OrderInv /\ WipedInv

\* Two nodes are too many for an orderly machine.
LEMMA OrderlyOne ==
  ASSUME ServiceInv, Orderly, NEW p \in Nodes, NEW q \in Nodes
  PROVE  p = q
<1>. SUFFICES ASSUME p # q PROVE FALSE
  OBVIOUS
<1>1. IsFiniteSet(Nodes) /\ Cardinality(Nodes) \in Nat /\ Cardinality(Nodes) <= 1
  BY NodesBounded, CountTypes DEF ServiceInv, CountInv, OneNode, Orderly
<1>2. IsFiniteSet(Nodes \ {p}) /\ Cardinality(Nodes \ {p}) = Cardinality(Nodes) - 1
  BY <1>1, CountLess
<1>3. Cardinality(Nodes \ {p}) \in Nat /\ q \in Nodes \ {p}
  BY <1>2, FS_CardinalityType
<1>4. Cardinality(Nodes \ {p}) # 0
  BY <1>2, <1>3, FS_EmptySet
<1>. QED  BY <1>1, <1>2, <1>3, <1>4

\* Without excess and without disorder there is no node.
LEMMA OrderlyNone ==
  ASSUME ServiceInv, Orderly, Excess <= 0
  PROVE  Nodes = {}
<1>1. /\ Cardinality(Nodes) \in Nat /\ Cardinality(Pending) \in Nat
      /\ IsFiniteSet(Nodes)
  BY CountTypes DEF ServiceInv, CountInv
<1>2. Cardinality(Nodes) = 0
  BY <1>1 DEF Excess, Orderly
<1>. QED  BY <1>1, <1>2, FS_EmptySet

\* Disorder does not go away.
LEMMA OrderlyBefore ==
  ASSUME ServiceInv, [Next]_vars, Orderly'
  PROVE  Orderly /\ disorder' = disorder
<1>1. disorder \in Nat
  BY ServiceConstants DEF ServiceInv, ServiceTypeOK
<1>2. disorder' = disorder \/ disorder' = disorder + 1
  <2>1. ASSUME NEW p \in Pids, NodeStep(p) PROVE disorder' = disorder
    BY <2>1, NodeStepTypes DEF ServiceInv
  <2>2. ASSUME NEW c \in Cmds, CommandStep(c) PROVE disorder' = disorder
    BY <2>2 DEF CommandStep, CheckNotRunning, FindStale, UnlinkStale, Spawn, WritePidFile,
                AskRunning, ReadPid, TargetGone, SendTerm, SeeExit, SendKill, UnlinkPidFile,
                ResetKillsVpn, ResetRemovesFiles, OnlyFiles
  <2>. QED
    BY <2>1, <2>2
    DEF Next, CommandDies, Begin, StartForeground, OtherProgramStarts, OtherProgramEnds,
        Stranger, StopVpn, Disorder, NodeFrame, vars
<1>. QED  BY <1>1, <1>2 DEF Orderly

\* Every step keeps track of the jobs of every node.
LEMMA JobStep ==
  ASSUME ServiceTypeOK, JobInv, [Next]_vars
  PROVE  JobInv'
<1>0. proc \in [Pids -> Stages \union Outside]
  BY DEF ServiceTypeOK
<1>1. ASSUME NEW p \in Pids, JobOK(p)',
             \A q \in Pids \ {p} : /\ proc'[q] = proc[q] /\ (q \in busy' <=> q \in busy)
                                   /\ q \in delivering' <=> q \in delivering
                                   /\ q \in overdue' <=> q \in overdue
      PROVE  JobInv'
  BY <1>1 DEF JobInv, JobOK
<1>2. ASSUME NEW p \in Pids, NEW s, MovesTo(p, s), UNCHANGED jobVars,
             \/ proc[p] \notin Serving \union {"close"}
             \/ proc[p] # "consumer" /\ s \in Serving \ {"consumer"}
             \/ s = proc[p]
      PROVE  JobInv'
  <2>1. proc'[p] = s /\ \A q \in Pids \ {p} : proc'[q] = proc[q]
    BY <1>0, <1>2 DEF MovesTo
  <2>2. busy' = busy /\ delivering' = delivering /\ overdue' = overdue
    BY <1>2 DEF jobVars
  <2>3. JobOK(p)'
    BY <1>2, <2>1, <2>2 DEF JobInv, JobOK, Serving
  <2>. QED  BY <1>1, <2>1, <2>2, <2>3
<1>3. ASSUME NEW p \in Pids, Ends(p) PROVE JobInv'
  <2>1. JobOK(p)'
    BY <1>3 DEF Ends, JobOK
  <2>. QED  BY <1>0, <1>1, <1>3, <2>1 DEF Ends, MovesTo
<1>4. ASSUME UNCHANGED nodeVars PROVE JobInv'
  BY <1>4 DEF nodeVars, jobVars, JobInv, JobOK
<1>5. ASSUME NEW p \in Pids, TakeJob(p) \/ FinishJob(p) \/ DeliveryEnds(p) PROVE JobInv'
  <2>1. JobOK(p)
    BY DEF JobInv
  <2>2. JobOK(p)'
    BY <1>5, <2>1 DEF TakeJob, FinishJob, DeliveryEnds, JobOK, Serving
  <2>. QED  BY <1>1, <1>5, <2>2 DEF TakeJob, FinishJob, DeliveryEnds
<1>6. ASSUME NEW p \in Pids, Drain(p) \/ JoinConsumer(p) PROVE JobInv'
  <2>1. CASE Ends(p)
    BY <1>3, <2>1
  <2>2. CASE ~Ends(p) /\ Drain(p)
    <3>1. /\ MovesTo(p, "consumer") /\ UNCHANGED <<busy, delivering>>
          /\ \/ p \notin busy \union delivering /\ UNCHANGED overdue
             \/ overdue' = overdue \union {p}
      BY <2>2 DEF Drain
    <3>2. proc'[p] = "consumer" /\ \A q \in Pids \ {p} : proc'[q] = proc[q]
      BY <1>0, <3>1 DEF MovesTo
    <3>3. JobOK(p)'
      BY <3>1, <3>2 DEF JobOK, Serving
    <3>. QED  BY <1>1, <3>1, <3>2, <3>3
  <2>3. CASE ~Ends(p) /\ JoinConsumer(p)
    <3>1. /\ proc[p] = "consumer" /\ p \notin busy /\ MovesTo(p, "close")
          /\ busy' = busy /\ delivering' = delivering /\ overdue' = overdue
      BY <2>3 DEF JoinConsumer, jobVars
    <3>2. proc'[p] = "close" /\ \A q \in Pids \ {p} : proc'[q] = proc[q]
      BY <1>0, <3>1 DEF MovesTo
    <3>3. JobOK(p)'
      BY <3>1, <3>2 DEF JobInv, JobOK
    <3>. QED  BY <1>1, <3>1, <3>2, <3>3
  <2>. QED  BY <1>6, <2>1, <2>2, <2>3
<1>7. ASSUME NEW p \in Pids, NEW s \in Signalled(proc[p]), MovesTo(p, s), UNCHANGED jobVars
      PROVE  JobInv'
  <2>1. \/ proc[p] = "up" /\ s = "watch"
        \/ proc[p] = "boot"
        \/ proc[p] = "foreign"
        \/ s = proc[p]
    BY DEF Signalled
  <2>. QED  BY <1>2, <1>7, <2>1 DEF Serving
<1>8. ASSUME NEW p \in Pids, NodeStep(p) PROVE JobInv'
  <2>1. CASE BootEnds(p)
    BY <1>2, <2>1 DEF BootEnds, Serving
  <2>2. CASE JoinWatch(p) \/ CloseHeartbeat(p)
    BY <1>2, <1>3, <2>2 DEF JoinWatch, CloseHeartbeat, Serving
  <2>3. CASE InterruptNode(p)
    BY <1>7, <2>3 DEF InterruptNode
  <2>. QED
    BY <1>3, <1>5, <1>6, <1>8, <2>1, <2>2, <2>3 DEF NodeStep, BootFails, CloseClients, NodeCrashes
<1>9. ASSUME NEW c \in Cmds, CommandStep(c) PROVE JobInv'
  <2>1. CASE Spawn(c)
    BY <1>2, <1>4, <2>1 DEF Spawn, Serving
  <2>2. CASE SendTerm(c)
    <3>1. PICK p \in Pids : p = cmd[c].pid
      BY <2>2 DEF SendTerm, ProcessExists
    <3>. QED  BY <1>7, <2>2, <3>1 DEF SendTerm
  <2>3. CASE SendKill(c)
    BY <1>3, <2>3 DEF SendKill, ProcessExists
  <2>4. CASE UNCHANGED nodeVars
    BY <1>4, <2>4
  <2>. QED
    BY <1>9, <2>1, <2>2, <2>3, <2>4
    DEF CommandStep, CheckNotRunning, FindStale, UnlinkStale, WritePidFile, AskRunning,
        ReadPid, TargetGone, SeeExit, UnlinkPidFile, ResetKillsVpn, ResetRemovesFiles, OnlyFiles
<1>10. ASSUME NEW p \in Pids, NEW s, Stranger(p, s) PROVE JobInv'
  BY <1>2, <1>10 DEF Stranger, Serving
<1>11. CASE UNCHANGED vars
  BY <1>4, <1>11 DEF vars
<1>. QED
  BY <1>3, <1>4, <1>8, <1>9, <1>10, <1>11
  DEF Next, CommandDies, Begin, StopVpn, StartForeground, OtherProgramStarts, OtherProgramEnds

\* A command that goes on is still what it was begun for.
LEMMA SameCommands ==
  ASSUME ServiceTypeOK, KindInv, KindInv', NEW c \in Cmds, CommandStep(c)
  PROVE  c \in InProgress /\ Starts' \subseteq Starts /\ Stops' \subseteq Stops
<1>1. cmd[c].pc # "idle"
  BY DEF CommandStep, CheckNotRunning, FindStale, UnlinkStale, Spawn, WritePidFile, AskRunning,
         ReadPid, TargetGone, SendTerm, SeeExit, SendKill, UnlinkPidFile, ResetKillsVpn,
         ResetRemovesFiles, CmdAt
<1>2. ASSUME NEW k, NEW q, NEW p, Becomes(c, k, q, p), q = "idle" \/ k = cmd[c].kind
      PROVE  Starts' \subseteq Starts /\ Stops' \subseteq Stops
  <2>1. \A d \in Cmds : cmd'[d].pc # "idle" =>
          cmd[d].pc # "idle" /\ cmd'[d].kind = cmd[d].kind
    BY <1>1, <1>2 DEF Becomes
  <2>2. \A d \in Cmds : cmd'[d].pc # "idle" =>
          (cmd'[d].pc \in StartPCs <=> cmd[d].pc \in StartPCs)
    BY <2>1 DEF KindInv
  <2>. QED  BY <2>1, <2>2 DEF Starts, Stops, InProgress, StartPCs
<1>3. ASSUME NEW q \in CmdPCs, GoTo(c, q) PROVE Starts' \subseteq Starts /\ Stops' \subseteq Stops
  BY <1>2, <1>3, GoToCmd
<1>4. ASSUME Return(c) PROVE Starts' \subseteq Starts /\ Stops' \subseteq Stops
  BY <1>2, <1>4, ReturnCmd
<1>5. ASSUME NEW q \in CmdPCs, NEW p \in Pids, cmd' = [cmd EXCEPT ![c].pc = q, ![c].pid = p]
      PROVE  Starts' \subseteq Starts /\ Stops' \subseteq Stops
  BY <1>2, <1>5, NotesPid
<1>6. CASE StopReturns(c)
  BY <1>1, <1>3, <1>4, <1>6 DEF StopReturns, CmdPCs, InProgress
<1>7. CASE Spawn(c)
  BY <1>1, <1>4, <1>5, <1>7 DEF Spawn, CmdPCs, InProgress
<1>8. CASE ReadPid(c) /\ pidFile \in Pids
  BY <1>1, <1>5, <1>8 DEF ReadPid, CmdPCs, InProgress
<1>9. CASE ~StopReturns(c) /\ ~Spawn(c) /\ ~(ReadPid(c) /\ pidFile \in Pids)
  BY <1>1, <1>3, <1>4, <1>9
  DEF CommandStep, CheckNotRunning, FindStale, UnlinkStale, WritePidFile, AskRunning,
      ReadPid, TargetGone, SendTerm, SeeExit, SendKill, UnlinkPidFile, ResetKillsVpn,
      ResetRemovesFiles, CmdPCs, InProgress
<1>. QED  BY <1>6, <1>7, <1>8, <1>9

\* Only a node takes the steps of one.
LEMMA StepsOfNodes ==
  ASSUME ServiceTypeOK, NEW p \in Pids, NodeStep(p)
  PROVE  p \in Nodes
<1>1. CASE FinishJob(p) \/ DeliveryEnds(p)
  BY <1>1 DEF FinishJob, DeliveryEnds, ServiceTypeOK
<1>. QED
  BY <1>1
  DEF NodeStep, BootEnds, BootFails, TakeJob, JoinWatch, CloseHeartbeat, Drain,
      JoinConsumer, CloseClients, NodeCrashes, InterruptNode, Nodes, Stages, Teardown

\* Every step keeps an orderly machine in order.
LEMMA OrderStep ==
  ASSUME ServiceInv, ServiceInv', OrderInv, [Next]_vars
  PROVE  OrderInv'
<1>. SUFFICES ASSUME Orderly'
              PROVE  /\ \A p \in Pids : proc'[p] \notin {"foreign", "alien"}
                     /\ \A p \in Pids : proc'[p] \in Serving => vpn'
                     /\ Starts' = {} \/ Stops' = {}
  BY DEF OrderInv
<1>0. /\ proc \in [Pids -> Stages \union Outside] /\ ServiceTypeOK /\ KindInv /\ KindInv'
      /\ CountInv /\ disorder \in Nat
  BY ServiceConstants DEF ServiceInv, ServiceTypeOK
<1>1. Orderly /\ disorder' = disorder
  BY OrderlyBefore
<1>2. /\ \A p \in Pids : proc[p] \notin {"foreign", "alien"}
      /\ \A p \in Pids : proc[p] \in Serving => vpn
      /\ Starts = {} \/ Stops = {}
  BY <1>1 DEF OrderInv
<1>3. ~Disorder
  BY <1>0, <1>1 DEF Disorder
<1>. DEFINE Good == /\ \A p \in Pids : proc'[p] \notin {"foreign", "alien"}
                    /\ \A p \in Pids : proc'[p] \in Serving => vpn'
<1>4. ASSUME NEW p \in Pids, NEW s, MovesTo(p, s), s \notin {"foreign", "alien"},
             vpn' = vpn, s \in Serving => proc[p] \in Serving
      PROVE  Good
  BY <1>0, <1>2, <1>4 DEF MovesTo
<1>5. ASSUME UNCHANGED nodeVars, vpn' = vpn PROVE Good
  BY <1>2, <1>5 DEF nodeVars
<1>6. ASSUME UNCHANGED cmd PROVE Starts' = {} \/ Stops' = {}
  BY <1>2, <1>6 DEF Starts, Stops, InProgress
<1>7. ASSUME NEW p \in Pids, NEW s \in Signalled(proc[p]), MovesTo(p, s), vpn' = vpn PROVE Good
  <2>1. \/ proc[p] = "up" /\ s = "watch"
        \/ proc[p] = "boot" /\ s = "bootTerm"
        \/ s = proc[p]
    BY <1>2 DEF Signalled
  <2>. QED  BY <1>2, <1>4, <1>7, <2>1 DEF Serving
<1>8. ASSUME NEW p \in Pids, NodeStep(p) PROVE Good
  <2>1. \A q \in Pids \ {p} : proc[q] \notin Serving
    BY <1>0, <1>1, <1>8, StepsOfNodes, OrderlyOne DEF Nodes, Serving, Stages, Teardown
  <2>2. CASE BootEnds(p)
    <3>1. vpn' = TRUE /\ \E s \in {"up", "watch"} : MovesTo(p, s)
      BY <2>2 DEF BootEnds
    <3>2. \A q \in Pids : proc'[q] = proc[q] \/ proc'[q] \in {"up", "watch"}
      BY <1>0, <3>1 DEF MovesTo
    <3>. QED  BY <1>2, <3>1, <3>2
  <2>3. CASE MovesTo(p, "free")
    <3>1. \A q \in Pids : proc'[q] \notin Serving /\ (proc'[q] = proc[q] \/ proc'[q] = "free")
      BY <1>0, <2>1, <2>3 DEF MovesTo, Serving
    <3>. QED  BY <1>2, <3>1
  <2>4. CASE TakeJob(p) \/ FinishJob(p) \/ DeliveryEnds(p)
    BY <1>2, <2>4 DEF TakeJob, FinishJob, DeliveryEnds
  <2>5. CASE InterruptNode(p)
    BY <1>7, <2>5 DEF InterruptNode
  <2>6. CASE /\ ~MovesTo(p, "free")
             /\ JoinWatch(p) \/ CloseHeartbeat(p) \/ Drain(p) \/ JoinConsumer(p)
    BY <1>4, <2>6 DEF JoinWatch, CloseHeartbeat, Drain, JoinConsumer, Ends, Serving
  <2>. QED
    BY <1>8, <2>2, <2>3, <2>4, <2>5, <2>6
    DEF NodeStep, BootFails, CloseClients, NodeCrashes, Ends
<1>9. ASSUME NEW c \in Cmds, CommandStep(c) PROVE Good
  <2>1. CASE Spawn(c)
    BY <1>4, <1>5, <2>1 DEF Spawn, fileVars, Serving
  <2>2. CASE SendTerm(c)
    <3>1. PICK p \in Pids : p = cmd[c].pid
      BY <2>2 DEF SendTerm, ProcessExists
    <3>. QED  BY <1>7, <2>2, <3>1 DEF SendTerm, fileVars
  <2>3. CASE SendKill(c)
    BY <1>4, <2>3 DEF SendKill, ProcessExists, Ends, fileVars, Serving
  <2>4. CASE ResetKillsVpn(c)
    <3>1. Nodes = {} /\ UNCHANGED nodeVars
      BY <1>0, <1>1, <2>4, StopCleansUp, OrderlyNone DEF ResetKillsVpn
    <3>. QED  BY <1>2, <3>1 DEF nodeVars, Nodes, Serving, Stages, Teardown
  <2>5. CASE UNCHANGED nodeVars /\ vpn' = vpn
    BY <1>5, <2>5
  <2>. QED
    BY <1>9, <2>1, <2>2, <2>3, <2>4, <2>5
    DEF CommandStep, CheckNotRunning, FindStale, UnlinkStale, WritePidFile, AskRunning,
        ReadPid, TargetGone, SeeExit, UnlinkPidFile, ResetRemovesFiles, OnlyFiles
<1>10. ASSUME NEW c \in Cmds, NEW kind \in {"start", "stop", "reset"}, Begin(c, kind)
       PROVE  Good /\ (Starts' = {} \/ Stops' = {})
  <2>1. Good
    BY <1>5, <1>10 DEF Begin, fileVars
  <2>2. PICK q \in {"check", "ask", "read"} :
          Becomes(c, kind, q, "none") /\ (q = "check" <=> kind = "start")
    BY <1>0, <1>10, BeginsCmd
  <2>3. \A d \in InProgress : "start" \notin {kind, cmd[d].kind}
    BY <1>3, <1>10 DEF Begin
  <2>4. CASE kind = "start"
    <3>1. InProgress = {}
      BY <2>3, <2>4
    <3>. QED  BY <2>1, <2>2, <2>4, <3>1 DEF InProgress, Starts, Stops, StartPCs, Becomes
  <2>5. CASE kind # "start"
    <3>1. Starts = {}
      BY <1>0, <2>3 DEF Starts, InProgress, StartPCs, KindInv
    <3>. QED  BY <2>1, <2>2, <2>5, <3>1 DEF Starts, StartPCs, Becomes
  <2>. QED  BY <2>4, <2>5
<1>11. ASSUME NEW p \in Pids, OtherProgramEnds(p) PROVE Good
  BY <1>4, <1>11 DEF OtherProgramEnds, Ends, Serving
<1>12. CASE UNCHANGED vars
  BY <1>5, <1>6, <1>12 DEF vars, fileVars
<1>13. ASSUME NEW p \in Pids, NodeStep(p) PROVE Starts' = {} \/ Stops' = {}
  BY <1>0, <1>6, <1>13, NodeStepTypes
<1>14. ASSUME NEW c \in Cmds, CommandStep(c) PROVE Starts' = {} \/ Stops' = {}
  BY <1>0, <1>2, <1>14, SameCommands
<1>. HIDE DEF Good
<1>15. Good /\ (Starts' = {} \/ Stops' = {})
  BY <1>3, <1>6, <1>8, <1>9, <1>10, <1>11, <1>12, <1>13, <1>14
  DEF Next, CommandDies, StopVpn, StartForeground, OtherProgramStarts, OtherProgramEnds,
      Stranger, NodeFrame, Good
<1>. QED  BY <1>15 DEF Good

\* What a reset has removed stays away until the next start.
LEMMA WipedStep ==
  ASSUME ServiceInv, ServiceInv', OrderInv, WipedInv, [Next]_vars
  PROVE  WipedInv'
<1>. SUFFICES ASSUME wiped'
              PROVE  /\ Orderly' /\ Starts' = {} /\ Nodes' = {}
                     /\ ~creds' /\ pidFile' = "absent"
  BY DEF WipedInv
<1>0. ServiceTypeOK /\ KindInv /\ KindInv' /\ CountInv
  BY DEF ServiceInv
<1>. DEFINE Gone == /\ Orderly' /\ Starts' = {} /\ Nodes' = {}
                    /\ ~creds' /\ pidFile' = "absent"
<1>1. ~Disorder
  BY DEF Disorder
<1>2. ASSUME NEW p \in Pids, NodeStep(p) PROVE FALSE
  BY <1>0, <1>2, StepsOfNodes, NodeStepTypes DEF WipedInv
<1>3. ASSUME wiped, disorder' = disorder, Starts' = Starts, Nodes' \subseteq Nodes, creds' = creds,
             pidFile' = pidFile \/ pidFile' = "absent"
      PROVE  Gone
  BY <1>3 DEF WipedInv, Orderly
<1>4. ASSUME NEW c \in Cmds, CommandStep(c), ~ResetRemovesFiles(c) PROVE Gone
  <2>1. wiped' = wiped /\ disorder' = disorder /\ creds' = creds
    BY <1>4
    DEF CommandStep, CheckNotRunning, FindStale, UnlinkStale, Spawn, WritePidFile, AskRunning,
        ReadPid, TargetGone, SendTerm, SeeExit, SendKill, UnlinkPidFile, ResetKillsVpn,
        OnlyFiles, fileVars
  <2>2. Starts = {} /\ cmd[c].pc \notin StartPCs
    BY <2>1 DEF WipedInv, Starts
  <2>3. Starts' = Starts
    BY <1>0, <1>4, <2>2, SameCommands
  <2>4. ~Spawn(c) /\ ~WritePidFile(c)
    BY <2>2 DEF Spawn, WritePidFile, CmdAt, StartPCs
  <2>5. pidFile' = pidFile \/ pidFile' = "absent"
    BY <1>4, <2>4
    DEF CommandStep, CheckNotRunning, FindStale, UnlinkStale, AskRunning,
        ReadPid, TargetGone, SendTerm, SeeExit, SendKill, UnlinkPidFile, ResetKillsVpn, fileVars
  <2>6. Nodes' \subseteq Nodes
    <3>1. CASE SendTerm(c)
      BY <1>0, <3>1, StopSignals
    <3>2. CASE SendKill(c)
      BY <1>0, <3>2, NodesLose DEF SendKill, ProcessExists
    <3>3. CASE UNCHANGED nodeVars
      BY <3>3 DEF nodeVars, Nodes
    <3>. QED
      BY <1>4, <2>4, <3>1, <3>2, <3>3
      DEF CommandStep, CheckNotRunning, FindStale, UnlinkStale, AskRunning,
          ReadPid, TargetGone, SeeExit, UnlinkPidFile, ResetKillsVpn, OnlyFiles
  <2>. QED  BY <1>3, <2>1, <2>3, <2>5, <2>6
<1>5. ASSUME NEW c \in Cmds, ResetRemovesFiles(c) PROVE Gone
  <2>1. Orderly /\ disorder' = disorder /\ ~creds' /\ pidFile' = "absent" /\ cmd[c].pc = "files"
    BY <1>5 DEF ResetRemovesFiles, CmdAt
  <2>2. Nodes' = {}
    BY <1>0, <1>5, <2>1, StopCleansUp, OrderlyNone
  <2>3. c \in Stops
    BY <2>1 DEF Stops, Starts, InProgress, StartPCs
  <2>4. Starts' = {}
    BY <1>0, <1>5, <2>1, <2>3, SameCommands DEF OrderInv, CommandStep
  <2>. QED  BY <2>1, <2>2, <2>4 DEF Orderly
<1>6. ASSUME NEW c \in Cmds, NEW kind \in {"start", "stop", "reset"}, Begin(c, kind) PROVE Gone
  <2>1. wiped /\ kind # "start" /\ UNCHANGED <<disorder, nodeVars, fileVars>>
    BY <1>1, <1>6 DEF Begin
  <2>2. PICK q \in {"check", "ask", "read"} :
          Becomes(c, kind, q, "none") /\ (q = "check" <=> kind = "start")
    BY <1>0, <1>6, BeginsCmd
  <2>3. cmd[c].pc = "idle"
    BY <1>6 DEF Begin, InProgress
  <2>4. Starts' = Starts
    BY <2>1, <2>2, <2>3 DEF Starts, StartPCs, Becomes
  <2>. QED  BY <1>3, <2>1, <2>4 DEF nodeVars, fileVars, Nodes
<1>7. ASSUME NEW p \in Pids, OtherProgramEnds(p) PROVE Gone
  <2>1. Ends(p) /\ UNCHANGED <<creds, cmd, pidFile, wiped, disorder>>
    BY <1>7 DEF OtherProgramEnds, NodeFrame
  <2>2. Nodes' \subseteq Nodes /\ Starts' = Starts
    BY <1>0, <2>1, NodesLose DEF Starts
  <2>. QED  BY <1>3, <2>1, <2>2
<1>8. ASSUME UNCHANGED vars PROVE Gone
  BY <1>3, <1>8 DEF vars, nodeVars, fileVars, Nodes, Starts
<1>. HIDE DEF Gone
<1>9. Gone
  BY <1>1, <1>2, <1>4, <1>5, <1>6, <1>7, <1>8
  DEF Next, CommandDies, StopVpn, StartForeground, OtherProgramStarts, Stranger
<1>. QED  BY <1>9 DEF Gone

\* The invariants hold of every machine the commands are used on.
LEMMA MeansCorrect == Spec => [](ServiceInv /\ MeansInv)
<1>1. Init => MeansInv
  <2>. SUFFICES ASSUME Init PROVE MeansInv
    OBVIOUS
  <2>1. Starts = {} /\ ~wiped /\ busy = {} /\ delivering = {} /\ \A p \in Pids : proc[p] = "free"
    BY DEF Init, Starts, NoCmd, StartPCs
  <2>. QED  BY <2>1 DEF MeansInv, JobInv, JobOK, OrderInv, WipedInv, Serving
<1>2. ServiceInv /\ MeansInv /\ [Next]_vars => ServiceInv' /\ MeansInv'
  BY ServiceStep, JobStep, OrderStep, WipedStep DEF MeansInv, ServiceInv
<1>. QED  BY <1>1, <1>2, ServiceInit, PTL DEF Spec

\* A job in progress, and results being delivered, keep the tunnel, the Redis
\* client and the webhook client they need, through the whole teardown of their
\* node, unless the drain runs out of time before the results are delivered.
THEOREM JobsKeepTheirMeans == Spec => []JobKeepsItsMeans
<1>1. ServiceInv /\ MeansInv => JobKeepsItsMeans
  <2>. SUFFICES ASSUME ServiceInv, MeansInv, NEW p \in busy \union (delivering \ overdue)
                PROVE  proc[p] # "close" /\ (Orderly => vpn)
    BY DEF JobKeepsItsMeans
  <2>1. p \in Pids
    BY DEF ServiceInv, ServiceTypeOK, Nodes
  <2>2. proc[p] \in Serving
    BY <2>1 DEF MeansInv, JobInv, JobOK
  <2>. QED  BY <2>1, <2>2 DEF MeansInv, OrderInv, Serving
<1>. QED  BY <1>1, MeansCorrect, PTL

\* Between commands the PID file is enough to find the node: status reports a
\* running daemon exactly if a node runs.
THEOREM StatusTellsTheTruth == Spec => []StatusIsTrue
<1>1. ServiceInv /\ MeansInv => StatusIsTrue
  <2>. SUFFICES ASSUME ServiceInv, MeansInv, Orderly, InProgress = {}
                PROVE  IsDaemonRunning <=> Nodes # {}
    BY DEF StatusIsTrue
  <2>1. ASSUME IsDaemonRunning PROVE Nodes # {}
    BY <2>1
    DEF IsDaemonRunning, ProcessExists, MeansInv, OrderInv, ServiceInv, ServiceTypeOK, Nodes,
        Outside
  <2>2. ASSUME Nodes # {} PROVE IsDaemonRunning
    <3>1. Excess \in Int /\ ~(Excess <= 0)
      BY <2>2, OrderlyNone, CountTypes DEF ServiceInv, CountInv
    <3>2. ~Waiting /\ ~Launching
      BY DEF Waiting, Launching, Starts, InProgress, StartPCs
    <3>3. Anchored
      BY <3>1, <3>2 DEF ServiceInv, CountInv
    <3>. QED
      BY <3>3 DEF Anchored, IsDaemonRunning, ProcessExists, Nodes, Stages, Teardown
  <2>. QED  BY <2>1, <2>2
<1>. QED  BY <1>1, MeansCorrect, PTL

\* From the moment a reset returns until the next start there is no node, no
\* credentials and no PID file, also when the reset had to kill the node and
\* when other stops and resets run beside it.
THEOREM ResetsAreThorough == Spec => []ResetIsThorough
<1>1. MeansInv => ResetIsThorough
  BY DEF MeansInv, WipedInv, ResetIsThorough
<1>. QED  BY <1>1, MeansCorrect, PTL
=============================================================================
