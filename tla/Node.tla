-------------------------------- MODULE Node --------------------------------
(***************************************************************************)
(* The life of a node around its consumer: Settings() and the files it is  *)
(* loaded from (coda_node/server/config.py), the connect handshake, the    *)
(* bundle, the OpenVPN daemon and the files written for the next start     *)
(* (coda_node/vpn/service.py), and the lifespan that calls them and tears  *)
(* them down (coda_node/server/app.py), with crashes at every step.        *)
(*                                                                         *)
(* The cloud issues one-time tokens; redeeming one makes a key pair and    *)
(* revokes the previous one, so a key is named by the number of its token. *)
(* OpenVPN processes and the operator's commands run beside the node.      *)
(***************************************************************************)
EXTENDS Integers, FiniteSets

CONSTANTS
  Daemons,       \* process ids of OpenVPN daemons
  Bundles,       \* what a connect reply may be: "vpn" (required, with a profile),
                 \* "optional" (a profile that is not required), "https" (not
                 \* required, none), "bare" (no word on VPN), "unusable"
  AutoVpn,       \* node_auto_vpn
  AllowDegraded, \* allow_degraded_startup
  Retries,       \* node_connect_retries
  MaxTokens,     \* bound on tokens the operator creates
  MaxFaults,     \* bound on failing requests and disk writes
  MaxDrops,      \* bound on tunnels and daemons that go down by themselves and
                 \* on interface listings that miss a tunnel or raise
  MaxCrashes     \* bound on crashes of the node

ASSUME NodeConstants ==
  /\ "none" \notin Daemons
  /\ Bundles \subseteq {"vpn", "optional", "https", "bare", "unusable"}
  /\ AutoVpn \in BOOLEAN /\ AllowDegraded \in BOOLEAN
  /\ Retries \in Nat \ {0}
  /\ MaxTokens \in Nat /\ MaxFaults \in Nat
  /\ MaxDrops \in Nat /\ MaxCrashes \in Nat

VARIABLES
  \* the cloud: number of the last token, whether it can still be redeemed,
  \* and the key that is registered (0: none)
  tokens, tokenActive, cloudKey,
  \* files: private key, runtime config, VPN profile, OpenVPN's PID file
  keyFile, cfgFile, profile, pidFile,
  \* OpenVPN: daemons that run, that have a tunnel, that were sent SIGTERM, and
  \* whose PID file went although the signal did not reach them
  running, tunnels, termed, spared,
  \* the node: where it is, the attempt of _post_connect, the bundle at hand
  pc, attempt, bundle,
  \* Settings: node_token is set, jwt_private_key, jwt_key_id, vpn_required
  hasToken, key, keyId, vpnRequired,
  \* history: this process redeemed its token; while none runs, how the last one
  \* ended; the credentials on disk were given up
  redeemed, lastExit, forfeited,
  faults, drops, crashes

cloudVars == <<tokens, tokenActive, cloudKey>>
credVars == <<keyFile, cfgFile>>
vpnVars == <<profile, pidFile, running, tunnels, termed, spared>>
settingVars == <<hasToken, key, keyId, vpnRequired>>
nodeVars == <<pc, attempt, bundle, settingVars, redeemed, lastExit, forfeited>>
boundVars == <<faults, drops, crashes>>
vars == <<cloudVars, credVars, vpnVars, nodeVars, boundVars>>

Keys == 0 .. MaxTokens
FileModes == {"absent", "0644", "0600"}
NoFile == [mode |-> "absent", key |-> 0]
NoConfig == [mode |-> "absent", key |-> 0, vpn |-> TRUE]

Persisting == {"keyOpen", "keyWrite", "keyChmod", "cfgOpen", "cfgWrite", "cfgChmod"}

\* The try block of connect_settings.
InConnectTry == Persisting \union {"apply", "detect", "launchNew", "waitNew"}

Starting == InConnectTry \union {"load", "ensure", "launchOld", "waitOld", "fetch", "backoff",
                                "preflight", "executor"}
PCs == Starting \union {"down", "up"}

\* Where a file is open for writing and its old content is gone.
Torn == {"keyWrite", "cfgWrite"}

\* The credentials on disk are whole, readable and the ones the cloud accepts.
Usable ==
  /\ keyFile = [mode |-> "0600", key |-> cloudKey]
  /\ cfgFile.mode = "0600" /\ cfgFile.key = cloudKey

-----------------------------------------------------------------------------
(* The end of the process, and kill_openvpn_daemon *)

\* A request or a disk write goes wrong.
Fault == faults < MaxFaults /\ faults' = faults + 1 /\ UNCHANGED <<drops, crashes>>

\* The command that lists interfaces times out or raises.
Glitch == drops < MaxDrops /\ drops' = drops + 1 /\ UNCHANGED <<faults, crashes>>

\* SIGTERM to the process the PID file names, if it is one. The file goes, also
\* when the signal is not permitted or the file is not legible.
KillOpenVpn ==
  /\ \/ termed' = termed \union (running \intersect {pidFile}) /\ UNCHANGED spared
     \/ spared' = spared \union (running \intersect {pidFile}) /\ UNCHANGED termed
  /\ pidFile' = "none"
  /\ UNCHANGED <<running, tunnels>>

Ends(how) ==
  /\ pc' = "down" /\ attempt' = 1 /\ bundle' = "none"
  /\ hasToken' = FALSE /\ key' = 0 /\ keyId' = 0 /\ vpnRequired' = TRUE
  /\ redeemed' = FALSE
  /\ forfeited' = (forfeited \/ redeemed \/ pc \in Torn)
  /\ lastExit' = how

\* Mutant: the daemon is left to the next start.
FailureKeepsVpn == Ends("cleaned") /\ UNCHANGED vpnVars

\* An exception leaves connect_settings or the lifespan: a first run cleans up
\* the VPN if it got as far as its bundle.
Fails ==
  IF hasToken /\ pc \in InConnectTry
  THEN Ends("cleaned") /\ KillOpenVpn /\ UNCHANGED profile
  ELSE Ends("failed") /\ UNCHANGED vpnVars

GoTo(p) ==
  pc' = p /\ UNCHANGED <<attempt, bundle, settingVars, redeemed, lastExit, forfeited>>

-----------------------------------------------------------------------------
(* Settings() *)

StartWithToken ==
  /\ pc = "down"
  /\ \/ tokens < MaxTokens /\ tokens' = tokens + 1 /\ tokenActive' = TRUE
     \/ tokens > 0 /\ UNCHANGED <<tokens, tokenActive>>
  /\ pc' = "fetch" /\ hasToken' = TRUE /\ lastExit' = "none"
  /\ UNCHANGED <<cloudKey, credVars, vpnVars, boundVars, attempt, bundle, key, keyId,
                 vpnRequired, redeemed, forfeited>>

Start ==
  /\ pc = "down"
  /\ pc' = "load" /\ lastExit' = "none"
  /\ UNCHANGED <<cloudVars, credVars, vpnVars, boundVars, attempt, bundle, settingVars,
                 redeemed, forfeited>>

\* A file without mode 0600 is refused; a missing or empty one holds nothing,
\* and without a key and a key id there is nothing to connect with.
Loadable ==
  /\ cfgFile.mode = "0600" /\ cfgFile.key # 0
  /\ keyFile.mode = "0600" /\ keyFile.key # 0

LoadSettings ==
  /\ pc = "load"
  /\ \/ /\ Loadable
        /\ key' = keyFile.key /\ keyId' = cfgFile.key /\ vpnRequired' = cfgFile.vpn
        /\ pc' = "ensure"
        /\ UNCHANGED <<vpnVars, attempt, bundle, hasToken, redeemed, lastExit, forfeited>>
     \/ ~Loadable /\ Fails
  /\ UNCHANGED <<cloudVars, credVars, boundVars>>

-----------------------------------------------------------------------------
(* OpenVPN as the node handles it *)

\* ensure_persisted_vpn: the tunnel is restored from the stored profile,
\* unless one is found.
EnsurePersistedVpn ==
  /\ pc = "ensure"
  /\ IF ~AutoVpn THEN GoTo("fetch") /\ UNCHANGED vpnVars
     ELSE IF ~profile THEN IF vpnRequired THEN Fails ELSE GoTo("fetch") /\ UNCHANGED vpnVars
     ELSE GoTo(IF tunnels = {} THEN "launchOld" ELSE "fetch") /\ UNCHANGED vpnVars
  /\ UNCHANGED <<cloudVars, credVars, boundVars>>

\* detect_tun_interface misses a tunnel when its command takes too long, and
\* raises what it does not expect.
DetectionFails ==
  /\ \/ pc = "ensure" /\ AutoVpn /\ profile
     \/ pc \in {"detect", "waitOld", "waitNew"}
  /\ \/ pc = "ensure" /\ GoTo("launchOld") /\ UNCHANGED vpnVars
     \/ pc = "detect" /\ GoTo("launchNew") /\ UNCHANGED vpnVars
     \/ Fails
  /\ Glitch
  /\ UNCHANGED <<cloudVars, credVars>>

\* _start_openvpn: a daemon that has written its PID file, or an error.
StartOpenVpn(p, q) ==
  /\ pc = p
  /\ \/ \E d \in Daemons \ running :
          /\ running' = running \union {d} /\ pidFile' = d
          /\ GoTo(q)
          /\ UNCHANGED <<profile, tunnels, termed, spared>>
     \/ Fails
  /\ UNCHANGED <<cloudVars, credVars, boundVars>>

\* Mutant: the timeout leaves the daemon running.
TimeoutLeavesDaemon(p, q) ==
  /\ pc = p
  /\ \/ tunnels # {} /\ GoTo(q) /\ UNCHANGED vpnVars
     \/ Ends("failed") /\ UNCHANGED vpnVars
  /\ UNCHANGED <<cloudVars, credVars, boundVars>>

\* Mutant: the wait has no deadline.
WaitsForever(p, q) ==
  /\ pc = p
  /\ tunnels # {} /\ GoTo(q)
  /\ UNCHANGED <<cloudVars, credVars, vpnVars, boundVars>>

\* _wait_for_tunnel: an interface is found, or the timeout passes, which
\* kills the daemon and raises.
WaitForTunnel(p, q) ==
  /\ pc = p
  /\ \/ tunnels # {} /\ GoTo(q) /\ UNCHANGED vpnVars
     \/ /\ KillOpenVpn /\ UNCHANGED profile
        /\ Ends(IF hasToken /\ pc \in InConnectTry THEN "cleaned" ELSE "failed")
  /\ UNCHANGED <<cloudVars, credVars, boundVars>>

-----------------------------------------------------------------------------
(* The connect handshake *)

\* The cloud (external) accepts an active token and makes it a new key; it
\* accepts a JWT signed with the registered key and key id.
Accepts == IF hasToken THEN tokenActive ELSE key = cloudKey /\ keyId = cloudKey

CloudAccepts ==
  /\ Accepts
  /\ IF hasToken
     THEN cloudKey' = tokens /\ tokenActive' = FALSE /\ redeemed' = TRUE
     ELSE UNCHANGED <<cloudKey, tokenActive, redeemed>>
  /\ UNCHANGED tokens

Replied ==
  /\ pc = "fetch"
  /\ CloudAccepts
  /\ bundle' \in Bundles
  /\ pc' = "apply" /\ attempt' = 1
  /\ UNCHANGED <<credVars, vpnVars, boundVars, settingVars, lastExit, forfeited>>

\* A client error is not retried.
Rejected ==
  /\ pc = "fetch"
  /\ \/ ~Accepts /\ UNCHANGED boundVars
     \/ Fault
  /\ Fails
  /\ UNCHANGED <<cloudVars, credVars>>

\* A server or transport error; the cloud may have acted on a request whose
\* reply was lost.
AttemptFails ==
  /\ pc = "fetch"
  /\ Fault
  /\ CloudAccepts \/ UNCHANGED <<cloudVars, redeemed>>
  /\ pc' = "backoff"
  /\ UNCHANGED <<credVars, vpnVars, attempt, bundle, settingVars, lastExit, forfeited>>

\* Mutant: one attempt too many.
OneMoreAttempt ==
  /\ pc = "backoff"
  /\ \/ /\ attempt <= Retries
        /\ attempt' = attempt + 1 /\ pc' = "fetch"
        /\ UNCHANGED <<vpnVars, bundle, settingVars, redeemed, lastExit, forfeited>>
     \/ attempt > Retries /\ Fails
  /\ UNCHANGED <<cloudVars, credVars, boundVars>>

\* It is retried until the attempts are used up.
BackOff ==
  /\ pc = "backoff"
  /\ \/ /\ attempt < Retries
        /\ attempt' = attempt + 1 /\ pc' = "fetch"
        /\ UNCHANGED <<vpnVars, bundle, settingVars, redeemed, lastExit, forfeited>>
     \/ attempt = Retries /\ Fails
  /\ UNCHANGED <<cloudVars, credVars, boundVars>>

-----------------------------------------------------------------------------
(* apply_node_bundle *)

\* Mutant: the key id of the bundle is dropped.
BundleKeepsKeyId ==
  /\ key' = IF hasToken THEN cloudKey ELSE key
  /\ UNCHANGED keyId

\* The key comes with a redeemed token only, the key id with every bundle.
TakeCredentials ==
  /\ key' = IF hasToken THEN cloudKey ELSE key
  /\ keyId' = cloudKey

\* A bundle that lacks a field or a profile it requires, or whose profile is
\* refused, raises.
ApplyBundle ==
  /\ pc = "apply"
  /\ \/ /\ bundle # "unusable"
        /\ TakeCredentials
        /\ vpnRequired' = IF bundle = "bare" THEN vpnRequired ELSE bundle = "vpn"
        /\ IF AutoVpn /\ bundle \in {"vpn", "optional"}
           THEN profile' = TRUE /\ pc' = "detect"
           ELSE pc' = "keyOpen" /\ UNCHANGED profile
        /\ bundle' = "none"
        /\ UNCHANGED <<pidFile, running, tunnels, termed, spared, attempt, hasToken,
                       redeemed, lastExit, forfeited>>
     \/ bundle = "unusable" /\ Fails
  /\ UNCHANGED <<cloudVars, credVars, boundVars>>

DetectTunnel ==
  /\ pc = "detect"
  /\ GoTo(IF tunnels = {} THEN "launchNew" ELSE "keyOpen")
  /\ UNCHANGED <<cloudVars, credVars, vpnVars, boundVars>>

-----------------------------------------------------------------------------
(* _persist_runtime_config: _write_secure_text of the key, then the config *)

Opened(f) == [f EXCEPT !.mode = IF @ = "absent" THEN "0644" ELSE @, !.key = 0]

OpenFile ==
  /\ \/ pc = "keyOpen" /\ keyFile' = Opened(keyFile) /\ GoTo("keyWrite") /\ UNCHANGED cfgFile
     \/ pc = "cfgOpen" /\ cfgFile' = Opened(cfgFile) /\ GoTo("cfgWrite") /\ UNCHANGED keyFile
  /\ UNCHANGED <<cloudVars, vpnVars, boundVars>>

\* Mutant: the config keeps the key id it was created with.
FillFileKeepsId ==
  /\ \/ /\ pc = "keyWrite" /\ GoTo("keyChmod")
        /\ keyFile' = [keyFile EXCEPT !.key = key] /\ UNCHANGED cfgFile
     \/ /\ pc = "cfgWrite" /\ GoTo("cfgChmod")
        /\ cfgFile' = [cfgFile EXCEPT !.key = 1, !.vpn = vpnRequired] /\ UNCHANGED keyFile
  /\ UNCHANGED <<cloudVars, vpnVars, boundVars>>

FillFile ==
  /\ \/ /\ pc = "keyWrite" /\ GoTo("keyChmod")
        /\ keyFile' = [keyFile EXCEPT !.key = key] /\ UNCHANGED cfgFile
     \/ /\ pc = "cfgWrite" /\ GoTo("cfgChmod")
        /\ cfgFile' = [cfgFile EXCEPT !.key = keyId, !.vpn = vpnRequired] /\ UNCHANGED keyFile
  /\ UNCHANGED <<cloudVars, vpnVars, boundVars>>

WriteFails ==
  /\ pc \in Persisting
  /\ Fault
  /\ Fails
  /\ UNCHANGED <<cloudVars, credVars>>

\* After the second chmod the credentials of this process are on disk.
SecureFile ==
  /\ \/ /\ pc = "keyChmod" /\ keyFile' = [keyFile EXCEPT !.mode = "0600"]
        /\ GoTo("cfgOpen") /\ UNCHANGED cfgFile
     \/ /\ pc = "cfgChmod" /\ cfgFile' = [cfgFile EXCEPT !.mode = "0600"]
        /\ pc' = "preflight" /\ redeemed' = FALSE /\ forfeited' = FALSE
        /\ UNCHANGED <<keyFile, attempt, bundle, settingVars, lastExit>>
  /\ UNCHANGED <<cloudVars, vpnVars, boundVars>>

-----------------------------------------------------------------------------
(* The lifespan around connect_settings *)

\* guard.preflight: the checks pass, or they fail and are not required to pass.
Preflight ==
  /\ pc = "preflight"
  /\ \/ GoTo("executor") /\ UNCHANGED vpnVars
     \/ vpnRequired /\ ~AllowDegraded /\ Fails
  /\ UNCHANGED <<cloudVars, credVars, boundVars>>

\* load_executor (external) returns or raises; the tasks are created.
LoadExecutor ==
  /\ pc = "executor"
  /\ \/ GoTo("up") /\ UNCHANGED vpnVars
     \/ Fails
  /\ UNCHANGED <<cloudVars, credVars, boundVars>>

\* Shutdown ends with kill_openvpn_daemon, unless a task that is joined before
\* it raises what ended it.
Shutdown ==
  /\ pc = "up"
  /\ \/ Ends("graceful") /\ KillOpenVpn /\ UNCHANGED profile
     \/ Ends("failed") /\ UNCHANGED vpnVars
  /\ UNCHANGED <<cloudVars, credVars, boundVars>>

Crash ==
  /\ pc # "down" /\ crashes < MaxCrashes
  /\ crashes' = crashes + 1
  /\ Ends("crashed")
  /\ UNCHANGED <<cloudVars, credVars, vpnVars, faults, drops>>

-----------------------------------------------------------------------------
(* The operator's commands and the OpenVPN processes (external) *)

\* coda stop-vpn
StopVpn ==
  /\ pidFile # "none"
  /\ KillOpenVpn
  /\ UNCHANGED <<cloudVars, credVars, nodeVars, boundVars, profile>>

\* coda reset, once the node is stopped: it reaches the daemon of the PID file
\* and no other.
Reset ==
  /\ pc = "down"
  /\ KillOpenVpn
  /\ keyFile' = NoFile /\ cfgFile' = NoConfig /\ profile' = FALSE
  /\ forfeited' = TRUE /\ lastExit' = "reset"
  /\ UNCHANGED <<cloudVars, boundVars, pc, attempt, bundle, settingVars, redeemed>>

TunnelRises(d) ==
  /\ d \in running \ termed /\ d \notin tunnels
  /\ tunnels' = tunnels \union {d}
  /\ UNCHANGED <<cloudVars, credVars, nodeVars, boundVars, profile, pidFile, running, termed,
                 spared>>

TunnelFalls(d) ==
  /\ d \in tunnels /\ drops < MaxDrops
  /\ drops' = drops + 1
  /\ tunnels' = tunnels \ {d}
  /\ UNCHANGED <<cloudVars, credVars, nodeVars, profile, pidFile, running, termed, spared,
                 faults, crashes>>

\* A daemon ends: it was told to, or by itself.
DaemonExits(d) ==
  /\ d \in running
  /\ \/ d \in termed /\ UNCHANGED boundVars
     \/ drops < MaxDrops /\ drops' = drops + 1 /\ UNCHANGED <<faults, crashes>>
  /\ running' = running \ {d} /\ tunnels' = tunnels \ {d} /\ termed' = termed \ {d}
  /\ spared' = spared \ {d}
  /\ UNCHANGED <<cloudVars, credVars, nodeVars, profile, pidFile>>

-----------------------------------------------------------------------------
Init ==
  /\ tokens = 0 /\ tokenActive = FALSE /\ cloudKey = 0
  /\ keyFile = NoFile /\ cfgFile = NoConfig
  /\ profile = FALSE /\ pidFile = "none"
  /\ running = {} /\ tunnels = {} /\ termed = {} /\ spared = {}
  /\ pc = "down" /\ attempt = 1 /\ bundle = "none"
  /\ hasToken = FALSE /\ key = 0 /\ keyId = 0 /\ vpnRequired = TRUE
  /\ redeemed = FALSE /\ lastExit = "none" /\ forfeited = FALSE
  /\ faults = 0 /\ drops = 0 /\ crashes = 0

StartupStep ==
  \/ LoadSettings \/ EnsurePersistedVpn \/ DetectionFails
  \/ StartOpenVpn("launchOld", "waitOld") \/ WaitForTunnel("waitOld", "fetch")
  \/ Replied \/ Rejected \/ AttemptFails \/ BackOff
  \/ ApplyBundle \/ DetectTunnel
  \/ StartOpenVpn("launchNew", "waitNew") \/ WaitForTunnel("waitNew", "keyOpen")
  \/ OpenFile \/ FillFile \/ WriteFails \/ SecureFile
  \/ Preflight \/ LoadExecutor

Next ==
  \/ StartWithToken \/ Start
  \/ StartupStep
  \/ Shutdown \/ Crash
  \/ StopVpn \/ Reset
  \/ \E d \in Daemons : TunnelRises(d) \/ TunnelFalls(d) \/ DaemonExits(d)

Spec == Init /\ [][Next]_vars

\* Every await of the startup ends: requests and launches have timeouts, the
\* wait for the tunnel a deadline.
FairSpec == Spec /\ WF_vars(StartupStep)

-----------------------------------------------------------------------------
(* Properties *)

\* Type invariant of the cloud's view, the files, OpenVPN and the node.
NodeTypeOK ==
  /\ tokens \in Keys /\ tokenActive \in BOOLEAN /\ cloudKey \in Keys
  /\ keyFile \in [mode : FileModes, key : Keys]
  /\ cfgFile \in [mode : FileModes, key : Keys, vpn : BOOLEAN]
  /\ profile \in BOOLEAN /\ pidFile \in Daemons \union {"none"}
  /\ running \in SUBSET Daemons /\ tunnels \in SUBSET running
  /\ termed \in SUBSET running /\ spared \in SUBSET running
  /\ pc \in PCs /\ attempt \in 1 .. Retries
  /\ bundle \in Bundles \union {"none"}
  /\ hasToken \in BOOLEAN /\ key \in Keys /\ keyId \in Keys /\ vpnRequired \in BOOLEAN
  /\ redeemed \in BOOLEAN /\ forfeited \in BOOLEAN
  /\ lastExit \in {"none", "failed", "cleaned", "graceful", "crashed", "reset"}
  /\ faults \in 0 .. MaxFaults /\ drops \in 0 .. MaxDrops /\ crashes \in 0 .. MaxCrashes

\* The credentials on disk are always the ones the cloud accepts, so that the
\* next start can reconnect, except after a reset and when the process ended
\* between redeeming a token and storing its key, or with one of the files
\* opened for rewriting and not yet refilled.
CredentialsKept ==
  cloudKey = 0 \/ Usable \/ forfeited \/ redeemed \/ pc \in Torn

\* A node that has connected signs its webhooks and heartbeats with the key and
\* the key id the cloud has registered.
RunningKeyIsTrusted ==
  pc \in Persisting \union {"preflight", "executor", "up"} => key = cloudKey /\ keyId = cloudKey

\* While no tunnel drops or is missed and the node does not crash, every OpenVPN
\* daemon is told to stop, or was to be told and could not be, or is the one the
\* PID file names: no start, retry, failure or command loses a daemon that
\* nobody ever tried to stop.
NoOrphanDaemon ==
  crashes = 0 /\ drops = 0 => running \ (termed \union spared) \subseteq {pidFile}

\* After a graceful shutdown, after a first run that failed once it had its
\* bundle, and after a reset, every OpenVPN daemon that still runs has been told
\* to stop, or its signal was refused.
CleanEndStopsVpn ==
  crashes = 0 /\ drops = 0 /\ pc = "down" /\ lastExit \in {"graceful", "cleaned", "reset"}
    => running \subseteq termed \union spared

\* A start ends, with the node up or down.
StartupEnds == pc \in Starting ~> pc \in {"up", "down"}

\* docs/node/TOKEN_LIFECYCLE.md: after a first run, which has stored both files,
\* "the token is no longer needed. Subsequent restarts use JWT reconnect
\* automatically."
TokenNoLongerNeeded ==
  pc = "load" /\ keyFile.mode = "0600" /\ cfgFile.mode = "0600" => Usable
=============================================================================
