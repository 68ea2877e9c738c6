----------------------------- MODULE NodeProofs -----------------------------
(***************************************************************************)
(* Theorems about the start, the credentials and the VPN daemon of a node, *)
(* for every number of tokens, daemons, retries, faults, drops and crashes.*)
(***************************************************************************)
EXTENDS Node, TLAPS

-----------------------------------------------------------------------------
(* The inductive invariants *)

\* Where the credentials in Settings come from the last reply of the cloud.
Connected ==
  {"detect", "launchNew", "waitNew", "preflight", "executor", "up"} \union Persisting

\* The cloud changes the key only while a request is under way, and answers
\* only a token or the key it has.
KeyInv ==
  /\ pc \in Connected => key = cloudKey /\ keyId = cloudKey
  /\ pc = "apply" /\ ~hasToken => key = cloudKey

\* What _persist_runtime_config has done when it is at pc.
Written ==
  /\ pc = "keyChmod" => keyFile.key = cloudKey
  /\ pc \in {"cfgOpen", "cfgWrite", "cfgChmod"} => keyFile.mode = "0600" /\ keyFile.key = cloudKey
  /\ pc = "cfgChmod" => cfgFile.key = cloudKey

\* The credentials are the ones the cloud accepts, but for the content of the
\* file that is being rewritten.
UsableOnceWritten ==
  /\ keyFile.mode = "0600" /\ cfgFile.mode = "0600"
  /\ pc # "keyWrite" => keyFile.key = cloudKey
  /\ pc # "cfgWrite" => cfgFile.key = cloudKey

DiskInv == Written /\ (cloudKey = 0 \/ forfeited \/ redeemed \/ UsableOnceWritten)

\* No tunnel dropped or was missed, and the node did not crash.
Calm == crashes = 0 /\ drops = 0

\* The daemons that go on running and that nobody has tried to stop.
Lasting == running \ (termed \union spared)

Launching == {"launchOld", "launchNew"}
Waiting == {"waitOld", "waitNew"}

\* The PID file never names a daemon that was signalled before, whether or not
\* the signal was refused, so nobody stops one that refused it.
SparedInv == pidFile \notin spared \union termed /\ spared \intersect termed = {}

\* A daemon is launched only when there is none but those that could not be
\* stopped; one that got past the wait for its tunnel has it until it is
\* stopped, unless the tunnel that was found is one of those.
VpnInv ==
  Calm =>
    /\ Lasting \subseteq {pidFile}
    /\ pc \in Launching => tunnels \subseteq spared /\ Lasting = {}
    /\ pc \in Waiting => tunnels \subseteq spared \/ Lasting \subseteq tunnels
    /\ pc \notin Launching \union Waiting =>
         Lasting \subseteq tunnels \/ spared \intersect tunnels # {}
    /\ pc = "down" /\ lastExit \in {"graceful", "cleaned", "reset"} => Lasting = {}

-----------------------------------------------------------------------------
(* Types *)

\* A machine no node was ever started on is well typed.
LEMMA NodeTypeInit == Init => NodeTypeOK
<1>. SUFFICES ASSUME Init PROVE NodeTypeOK
  OBVIOUS
<1>1. /\ tokenActive \in BOOLEAN /\ profile \in BOOLEAN /\ hasToken \in BOOLEAN
      /\ vpnRequired \in BOOLEAN /\ redeemed \in BOOLEAN /\ forfeited \in BOOLEAN
  BY DEF Init
<1>2. /\ keyFile \in [mode : FileModes, key : Keys]
      /\ cfgFile \in [mode : FileModes, key : Keys, vpn : BOOLEAN]
  BY NodeConstants DEF Init, NoFile, NoConfig, FileModes, Keys
<1>. QED
  BY <1>1, <1>2, NodeConstants DEF Init, NodeTypeOK, Keys, PCs

\* However the process ends, the next one finds a well-typed node.
LEMMA EndsTypes ==
  ASSUME NodeTypeOK, NEW how \in {"failed", "cleaned", "graceful", "crashed"}, Ends(how)
  PROVE  /\ pc' = "down" /\ attempt' = 1 /\ bundle' = "none" /\ lastExit' = how
         /\ hasToken' \in BOOLEAN /\ key' \in Keys /\ keyId' \in Keys
         /\ vpnRequired' \in BOOLEAN /\ redeemed' \in BOOLEAN /\ forfeited' \in BOOLEAN
<1>1. forfeited' \in BOOLEAN
  BY DEF Ends
<1>2. redeemed' = FALSE /\ hasToken' = FALSE /\ vpnRequired' = TRUE
  BY DEF Ends
<1>3. redeemed' \in BOOLEAN /\ hasToken' \in BOOLEAN /\ vpnRequired' \in BOOLEAN
  BY <1>2
<1>. QED
  BY <1>1, <1>3, NodeConstants DEF Ends, Keys

\* kill_openvpn_daemon leaves the sets of daemons well typed.
LEMMA KillTypes ==
  ASSUME NodeTypeOK, KillOpenVpn
  PROVE  /\ pidFile' \in Daemons \union {"none"}
         /\ running' \in SUBSET Daemons /\ tunnels' \in SUBSET running'
         /\ termed' \in SUBSET running' /\ spared' \in SUBSET running'
  BY DEF NodeTypeOK, KillOpenVpn

\* What a failing start changes keeps its types.
LEMMA FailsTypes ==
  ASSUME NodeTypeOK, Fails
  PROVE  /\ pc' = "down" /\ attempt' = 1 /\ bundle' = "none"
         /\ lastExit' \in {"failed", "cleaned"}
         /\ hasToken' \in BOOLEAN /\ key' \in Keys /\ keyId' \in Keys
         /\ vpnRequired' \in BOOLEAN /\ redeemed' \in BOOLEAN /\ forfeited' \in BOOLEAN
         /\ profile' \in BOOLEAN /\ pidFile' \in Daemons \union {"none"}
         /\ running' \in SUBSET Daemons /\ tunnels' \in SUBSET running'
         /\ termed' \in SUBSET running' /\ spared' \in SUBSET running'
<1>1. CASE hasToken /\ pc \in InConnectTry
  <2>1. Ends("cleaned") /\ KillOpenVpn /\ UNCHANGED profile
    BY <1>1 DEF Fails
  <2>. QED  BY <2>1, EndsTypes, KillTypes DEF NodeTypeOK
<1>2. CASE ~(hasToken /\ pc \in InConnectTry)
  <2>1. Ends("failed") /\ UNCHANGED vpnVars
    BY <1>2 DEF Fails
  <2>2. /\ profile' \in BOOLEAN /\ pidFile' \in Daemons \union {"none"}
        /\ running' \in SUBSET Daemons /\ tunnels' \in SUBSET running'
        /\ termed' \in SUBSET running' /\ spared' \in SUBSET running'
    BY <2>1 DEF NodeTypeOK, vpnVars
  <2>. QED  BY <2>1, <2>2, EndsTypes
<1>. QED  BY <1>1, <1>2

\* A failing step of the start that leaves the cloud and the files alone
\* keeps the types.
LEMMA FailingStepTypes ==
  ASSUME NodeTypeOK, Fails, UNCHANGED <<cloudVars, credVars>>,
         Fault \/ Glitch \/ UNCHANGED boundVars
  PROVE  NodeTypeOK'
<1>1. faults' \in 0 .. MaxFaults /\ drops' \in 0 .. MaxDrops /\ crashes' \in 0 .. MaxCrashes
  BY NodeConstants DEF NodeTypeOK, Fault, Glitch, boundVars
<1>2. /\ tokens' \in Keys /\ tokenActive' \in BOOLEAN /\ cloudKey' \in Keys
      /\ keyFile' \in [mode : FileModes, key : Keys]
      /\ cfgFile' \in [mode : FileModes, key : Keys, vpn : BOOLEAN]
  BY DEF NodeTypeOK, cloudVars, credVars
<1>3. attempt' \in 1 .. Retries /\ pc' \in PCs /\ bundle' \in Bundles \union {"none"}
      /\ lastExit' \in {"none", "failed", "cleaned", "graceful", "crashed", "reset"}
  BY FailsTypes, NodeConstants DEF PCs
<1>. QED
  BY <1>1, <1>2, <1>3, FailsTypes DEF NodeTypeOK

\* A step that only moves on keeps the types.
LEMMA GoToTypes ==
  ASSUME NodeTypeOK, NEW q \in PCs, GoTo(q),
         UNCHANGED <<cloudVars, credVars, vpnVars, boundVars>>
  PROVE  NodeTypeOK'
  BY DEF NodeTypeOK, GoTo, cloudVars, credVars, vpnVars, settingVars, boundVars

\* The steps between the process and its first request keep the types.
LEMMA TypeRestoreStep ==
  ASSUME NodeTypeOK,
         \/ StartWithToken \/ Start \/ LoadSettings \/ EnsurePersistedVpn \/ DetectionFails
         \/ StartOpenVpn("launchOld", "waitOld") \/ WaitForTunnel("waitOld", "fetch")
         \/ StartOpenVpn("launchNew", "waitNew") \/ WaitForTunnel("waitNew", "keyOpen")
  PROVE  NodeTypeOK'
<1>. USE DEF PCs, Starting, InConnectTry, Persisting
<1>1. CASE StartWithToken
  <2>1. tokens' \in Keys
    BY <1>1, NodeConstants DEF StartWithToken, NodeTypeOK, Keys
  <2>2. tokenActive' \in BOOLEAN /\ hasToken' \in BOOLEAN
    BY <1>1 DEF StartWithToken, NodeTypeOK
  <2>. QED
    BY <1>1, <2>1, <2>2
    DEF StartWithToken, NodeTypeOK, credVars, vpnVars, boundVars
<1>2. CASE Start
  BY <1>2 DEF Start, NodeTypeOK, cloudVars, credVars, vpnVars, settingVars, boundVars
<1>3. CASE LoadSettings
  <2>1. CASE Fails
    BY <1>3, <2>1, FailingStepTypes DEF LoadSettings
  <2>2. CASE ~Fails
    <3>1. vpnRequired' \in BOOLEAN /\ key' \in Keys /\ keyId' \in Keys
      BY <1>3, <2>2 DEF LoadSettings, NodeTypeOK
    <3>. QED
      BY <1>3, <2>2, <3>1 DEF LoadSettings, NodeTypeOK, cloudVars, credVars, vpnVars, boundVars
  <2>. QED  BY <2>1, <2>2
<1>4. CASE EnsurePersistedVpn
  <2>1. Fails \/ (UNCHANGED vpnVars /\ \E q \in {"fetch", "launchOld"} : GoTo(q))
    BY <1>4 DEF EnsurePersistedVpn
  <2>. QED
    BY <1>4, <2>1, FailingStepTypes, GoToTypes DEF EnsurePersistedVpn
<1>5. CASE DetectionFails
  <2>1. Glitch /\ UNCHANGED <<cloudVars, credVars>>
    BY <1>5 DEF DetectionFails
  <2>2. Fails \/ (UNCHANGED vpnVars /\ \E q \in {"launchOld", "launchNew"} : GoTo(q))
    BY <1>5 DEF DetectionFails
  <2>3. CASE Fails
    BY <2>1, <2>3, FailingStepTypes
  <2>4. CASE UNCHANGED vpnVars /\ \E q \in {"launchOld", "launchNew"} : GoTo(q)
    BY <2>1, <2>4, NodeConstants
    DEF NodeTypeOK, GoTo, Glitch, cloudVars, credVars, vpnVars, settingVars
  <2>. QED  BY <2>2, <2>3, <2>4
<1>6. ASSUME NEW p, NEW q \in {"waitOld", "waitNew"}, StartOpenVpn(p, q)
      PROVE  NodeTypeOK'
  <2>1. CASE Fails
    BY <1>6, <2>1, FailingStepTypes DEF StartOpenVpn
  <2>2. CASE ~Fails
    <3>1. PICK d \in Daemons \ running :
            /\ running' = running \union {d} /\ pidFile' = d
            /\ GoTo(q) /\ UNCHANGED <<profile, tunnels, termed, spared>>
      BY <1>6, <2>2 DEF StartOpenVpn
    <3>. QED
      BY <1>6, <3>1
      DEF StartOpenVpn, NodeTypeOK, GoTo, cloudVars, credVars, settingVars, boundVars
  <2>. QED  BY <2>1, <2>2
<1>7. ASSUME NEW p, NEW q \in {"fetch", "keyOpen"}, WaitForTunnel(p, q)
      PROVE  NodeTypeOK'
  <2>1. CASE GoTo(q) /\ UNCHANGED vpnVars
    BY <1>7, <2>1, GoToTypes DEF WaitForTunnel
  <2>2. ASSUME NEW how \in {"cleaned", "failed"}, KillOpenVpn, Ends(how), UNCHANGED profile
        PROVE  NodeTypeOK'
    <3>1. /\ attempt' \in 1 .. Retries
          /\ lastExit' \in {"none", "failed", "cleaned", "graceful", "crashed", "reset"}
      BY <2>2, EndsTypes, NodeConstants
    <3>. QED
      BY <1>7, <2>2, <3>1, EndsTypes, KillTypes
      DEF WaitForTunnel, NodeTypeOK, cloudVars, credVars, boundVars
  <2>. QED  BY <1>7, <2>1, <2>2 DEF WaitForTunnel
<1>. QED  BY <1>1, <1>2, <1>3, <1>4, <1>5, <1>6, <1>7

\* The handshake and apply_node_bundle keep the types.
LEMMA TypeConnectStep ==
  ASSUME NodeTypeOK,
         Replied \/ Rejected \/ AttemptFails \/ BackOff \/ ApplyBundle \/ DetectTunnel
  PROVE  NodeTypeOK'
<1>. USE DEF PCs, Starting, InConnectTry, Persisting
<1>0. CloudAccepts => cloudKey' \in Keys /\ tokens' \in Keys
                      /\ tokenActive' \in BOOLEAN /\ redeemed' \in BOOLEAN
  <2>. SUFFICES ASSUME CloudAccepts
                PROVE  cloudKey' \in Keys /\ tokens' \in Keys
                       /\ tokenActive' \in BOOLEAN /\ redeemed' \in BOOLEAN
    OBVIOUS
  <2>1. CASE hasToken
    <3>1. tokenActive' = FALSE /\ redeemed' = TRUE /\ cloudKey' = tokens /\ tokens' = tokens
      BY <2>1 DEF CloudAccepts
    <3>2. tokenActive' \in BOOLEAN /\ redeemed' \in BOOLEAN
      BY <3>1
    <3>. QED  BY <3>1, <3>2 DEF NodeTypeOK
  <2>2. CASE ~hasToken
    BY <2>2 DEF CloudAccepts, NodeTypeOK
  <2>. QED  BY <2>1, <2>2
<1>1. CASE Replied
  <2>1. attempt' \in 1 .. Retries
    BY <1>1, NodeConstants DEF Replied
  <2>. QED
    BY <1>0, <1>1, <2>1
    DEF Replied, NodeTypeOK, credVars, vpnVars, settingVars, boundVars
<1>2. CASE Rejected
  BY <1>2, FailingStepTypes DEF Rejected
<1>3. CASE AttemptFails
  <2>1. /\ cloudKey' \in Keys /\ tokens' \in Keys
        /\ tokenActive' \in BOOLEAN /\ redeemed' \in BOOLEAN
    BY <1>0, <1>3 DEF AttemptFails, NodeTypeOK, cloudVars
  <2>2. faults' \in 0 .. MaxFaults /\ drops' \in 0 .. MaxDrops /\ crashes' \in 0 .. MaxCrashes
    BY <1>3, NodeConstants DEF AttemptFails, NodeTypeOK, Fault
  <2>. QED
    BY <1>3, <2>1, <2>2 DEF AttemptFails, NodeTypeOK, credVars, vpnVars, settingVars
<1>4. CASE BackOff
  <2>1. CASE Fails
    BY <1>4, <2>1, FailingStepTypes DEF BackOff
  <2>2. CASE ~Fails
    <3>1. attempt' \in 1 .. Retries
      BY <1>4, <2>2, NodeConstants DEF BackOff, NodeTypeOK
    <3>. QED
      BY <1>4, <2>2, <3>1
      DEF BackOff, NodeTypeOK, cloudVars, credVars, vpnVars, settingVars, boundVars
  <2>. QED  BY <2>1, <2>2
<1>5. CASE ApplyBundle
  <2>1. CASE Fails
    BY <1>5, <2>1, FailingStepTypes DEF ApplyBundle
  <2>2. CASE ~Fails
    <3>1. vpnRequired' = vpnRequired \/ vpnRequired' = (bundle = "vpn")
      BY <1>5, <2>2 DEF ApplyBundle
    <3>2. vpnRequired' \in BOOLEAN
      BY <3>1 DEF NodeTypeOK
    <3>3. profile' = TRUE \/ profile' = profile
      BY <1>5, <2>2 DEF ApplyBundle
    <3>4. profile' \in BOOLEAN
      BY <3>3 DEF NodeTypeOK
    <3>5. key' \in Keys /\ keyId' \in Keys
      BY <1>5, <2>2 DEF ApplyBundle, TakeCredentials, NodeTypeOK
    <3>6. pc' \in PCs
      BY <1>5, <2>2 DEF ApplyBundle
    <3>. QED
      BY <1>5, <2>2, <3>2, <3>4, <3>5, <3>6
      DEF ApplyBundle, NodeTypeOK, cloudVars, credVars, boundVars
  <2>. QED  BY <2>1, <2>2
<1>6. CASE DetectTunnel
  <2>1. \E q \in {"launchNew", "keyOpen"} : GoTo(q)
    BY <1>6 DEF DetectTunnel
  <2>. QED  BY <1>6, <2>1, GoToTypes DEF DetectTunnel
<1>. QED  BY <1>1, <1>2, <1>3, <1>4, <1>5, <1>6

\* Opening the key file for writing empties it and keeps its mode, if it had one.
LEMMA OpenedKey ==
  ASSUME NEW f \in [mode : FileModes, key : Keys]
  PROVE  /\ Opened(f) \in [mode : FileModes, key : Keys]
         /\ f.mode = "0600" => Opened(f).mode = "0600"
<1>. DEFINE m == IF f.mode = "absent" THEN "0644" ELSE f.mode
<1>1. m \in FileModes /\ 0 \in Keys /\ (f.mode = "0600" => m = "0600")
  BY NodeConstants DEF FileModes, Keys
<1>2. Opened(f) = [[f EXCEPT !.mode = m] EXCEPT !.key = 0]
  BY DEF Opened
<1>. HIDE DEF m
<1>. QED  BY <1>1, <1>2

\* Opening the config for writing empties it and keeps its mode, if it had one.
LEMMA OpenedConfig ==
  ASSUME NEW f \in [mode : FileModes, key : Keys, vpn : BOOLEAN]
  PROVE  /\ Opened(f) \in [mode : FileModes, key : Keys, vpn : BOOLEAN]
         /\ f.mode = "0600" => Opened(f).mode = "0600"
<1>. DEFINE m == IF f.mode = "absent" THEN "0644" ELSE f.mode
<1>1. m \in FileModes /\ 0 \in Keys /\ (f.mode = "0600" => m = "0600")
  BY NodeConstants DEF FileModes, Keys
<1>2. Opened(f) = [[f EXCEPT !.mode = m] EXCEPT !.key = 0]
  BY DEF Opened
<1>. HIDE DEF m
<1>. QED  BY <1>1, <1>2

\* _persist_runtime_config and the rest of the lifespan's start keep the types.
LEMMA TypePersistStep ==
  ASSUME NodeTypeOK,
         OpenFile \/ FillFile \/ WriteFails \/ SecureFile \/ Preflight \/ LoadExecutor
  PROVE  NodeTypeOK'
<1>. USE DEF PCs, Starting, InConnectTry, Persisting
<1>1. CASE OpenFile
  <2>1. /\ keyFile' \in [mode : FileModes, key : Keys]
        /\ cfgFile' \in [mode : FileModes, key : Keys, vpn : BOOLEAN]
    BY <1>1, OpenedKey, OpenedConfig DEF OpenFile, NodeTypeOK
  <2>. QED
    BY <1>1, <2>1
    DEF OpenFile, NodeTypeOK, GoTo, cloudVars, vpnVars, settingVars, boundVars
<1>2. CASE FillFile
  <2>1. /\ keyFile' \in [mode : FileModes, key : Keys]
        /\ cfgFile' \in [mode : FileModes, key : Keys, vpn : BOOLEAN]
    BY <1>2 DEF FillFile, NodeTypeOK
  <2>. QED
    BY <1>2, <2>1
    DEF FillFile, NodeTypeOK, GoTo, cloudVars, vpnVars, settingVars, boundVars
<1>3. CASE WriteFails
  BY <1>3, FailingStepTypes DEF WriteFails
<1>4. CASE SecureFile
  <2>1. /\ keyFile' \in [mode : FileModes, key : Keys]
        /\ cfgFile' \in [mode : FileModes, key : Keys, vpn : BOOLEAN]
    BY <1>4 DEF SecureFile, NodeTypeOK, FileModes
  <2>2. redeemed' \in BOOLEAN /\ forfeited' \in BOOLEAN
    BY <1>4 DEF SecureFile, NodeTypeOK, GoTo
  <2>. QED
    BY <1>4, <2>1, <2>2
    DEF SecureFile, NodeTypeOK, GoTo, cloudVars, vpnVars, settingVars, boundVars
<1>5. CASE Preflight
  BY <1>5, FailingStepTypes, GoToTypes DEF Preflight
<1>6. CASE LoadExecutor
  BY <1>6, FailingStepTypes, GoToTypes DEF LoadExecutor
<1>. QED  BY <1>1, <1>2, <1>3, <1>4, <1>5, <1>6

\* The end of the node, the operator's commands and OpenVPN keep the types.
LEMMA TypeOutsideStep ==
  ASSUME NodeTypeOK,
         \/ Shutdown \/ Crash \/ StopVpn \/ Reset
         \/ \E d \in Daemons : TunnelRises(d) \/ TunnelFalls(d) \/ DaemonExits(d)
  PROVE  NodeTypeOK'
<1>1. ASSUME NEW how \in {"graceful", "failed"}, Shutdown, Ends(how),
             (KillOpenVpn /\ UNCHANGED profile) \/ UNCHANGED vpnVars
      PROVE  NodeTypeOK'
  <2>1. /\ profile' \in BOOLEAN /\ pidFile' \in Daemons \union {"none"}
        /\ running' \in SUBSET Daemons /\ tunnels' \in SUBSET running'
        /\ termed' \in SUBSET running' /\ spared' \in SUBSET running'
    BY <1>1, KillTypes DEF NodeTypeOK, vpnVars
  <2>2. pc' \in PCs /\ attempt' \in 1 .. Retries
    BY <1>1, EndsTypes, NodeConstants DEF PCs
  <2>. QED
    BY <1>1, <2>1, <2>2, EndsTypes DEF Shutdown, NodeTypeOK, cloudVars, credVars, boundVars
<1>2. CASE Crash
  <2>1. Ends("crashed")
    BY <1>2 DEF Crash
  <2>2. pc' \in PCs /\ attempt' \in 1 .. Retries /\ crashes' \in 0 .. MaxCrashes
    BY <1>2, <2>1, EndsTypes, NodeConstants DEF Crash, PCs, NodeTypeOK
  <2>. QED
    BY <1>2, <2>1, <2>2, EndsTypes DEF Crash, NodeTypeOK, cloudVars, credVars, vpnVars
<1>3. CASE StopVpn
  BY <1>3, KillTypes
  DEF StopVpn, NodeTypeOK, cloudVars, credVars, nodeVars, settingVars, boundVars
<1>4. CASE Reset
  <2>1. forfeited' \in BOOLEAN /\ profile' \in BOOLEAN
    BY <1>4 DEF Reset
  <2>2. /\ keyFile' \in [mode : FileModes, key : Keys]
        /\ cfgFile' \in [mode : FileModes, key : Keys, vpn : BOOLEAN]
    BY <1>4, NodeConstants DEF Reset, NoFile, NoConfig, FileModes, Keys
  <2>. QED
    BY <1>4, <2>1, <2>2, KillTypes DEF Reset, NodeTypeOK, cloudVars, settingVars, boundVars
<1>5. ASSUME NEW d \in Daemons, TunnelRises(d) \/ TunnelFalls(d) \/ DaemonExits(d)
      PROVE  NodeTypeOK'
  <2>1. CASE TunnelRises(d)
    BY <2>1
    DEF TunnelRises, NodeTypeOK, cloudVars, credVars, nodeVars, settingVars, boundVars
  <2>2. CASE TunnelFalls(d)
    BY <2>2, NodeConstants
    DEF TunnelFalls, NodeTypeOK, cloudVars, credVars, nodeVars, settingVars
  <2>3. CASE DaemonExits(d)
    <3>1. /\ faults' \in 0 .. MaxFaults /\ drops' \in 0 .. MaxDrops
          /\ crashes' \in 0 .. MaxCrashes
      BY <2>3, NodeConstants DEF DaemonExits, NodeTypeOK, boundVars
    <3>. QED
      BY <2>3, <3>1 DEF DaemonExits, NodeTypeOK, cloudVars, credVars, nodeVars, settingVars
  <2>. QED  BY <1>5, <2>1, <2>2, <2>3
<1>. QED  BY <1>1, <1>2, <1>3, <1>4, <1>5 DEF Shutdown

\* Every step keeps the types.
LEMMA TypeStep == NodeTypeOK /\ [Next]_vars => NodeTypeOK'
<1>. SUFFICES ASSUME NodeTypeOK, [Next]_vars PROVE NodeTypeOK'
  OBVIOUS
<1>1. CASE UNCHANGED vars
  BY <1>1
  DEF vars, NodeTypeOK, cloudVars, credVars, vpnVars, nodeVars, settingVars, boundVars
<1>2. CASE Next
  BY <1>2, TypeRestoreStep, TypeConnectStep, TypePersistStep, TypeOutsideStep
  DEF Next, StartupStep
<1>. QED  BY <1>1, <1>2

\* The node, its files, the cloud and OpenVPN stay well typed through every
\* start, failure, command and crash.
THEOREM NodeTypeCorrect == Spec => []NodeTypeOK
  BY NodeTypeInit, TypeStep, PTL DEF Spec

-----------------------------------------------------------------------------
(* The credentials *)

\* What is common to the steps that end the process.
LEMMA FailsEnds == Fails => (Ends("cleaned") \/ Ends("failed"))
  BY DEF Fails

\* The cloud's key and the key of the process agree from apply_node_bundle on.
LEMMA KeyStep == KeyInv /\ [Next]_vars => KeyInv'
<1>. SUFFICES ASSUME KeyInv, [Next]_vars PROVE KeyInv'
  OBVIOUS
<1>. USE DEF KeyInv, Connected, Persisting
<1>0. ASSUME NEW how, Ends(how)
      PROVE  KeyInv'
  BY <1>0 DEF Ends
<1>1. CASE Fails
  BY <1>0, <1>1, FailsEnds
<1>2. CASE StartWithToken \/ Start
  BY <1>2 DEF StartWithToken, Start, GoTo
<1>3. CASE ~Fails /\ (LoadSettings \/ EnsurePersistedVpn)
  BY <1>3 DEF LoadSettings, EnsurePersistedVpn, GoTo, settingVars, cloudVars
<1>4. CASE ~Fails /\ DetectionFails
  BY <1>4 DEF DetectionFails, GoTo, settingVars, cloudVars
<1>5. CASE ~Fails /\ (StartOpenVpn("launchOld", "waitOld") \/ StartOpenVpn("launchNew", "waitNew"))
  BY <1>5 DEF StartOpenVpn, GoTo, settingVars, cloudVars
<1>6. CASE WaitForTunnel("waitOld", "fetch") \/ WaitForTunnel("waitNew", "keyOpen")
  BY <1>0, <1>6 DEF WaitForTunnel, GoTo, settingVars, cloudVars
<1>7. CASE Replied
  BY <1>7 DEF Replied, CloudAccepts, Accepts, settingVars
<1>8. CASE AttemptFails
  BY <1>8 DEF AttemptFails
<1>9. CASE ~Fails /\ (Rejected \/ BackOff \/ WriteFails)
  BY <1>9 DEF Rejected, BackOff, WriteFails
<1>10. CASE ~Fails /\ ApplyBundle
  BY <1>10 DEF ApplyBundle, TakeCredentials, cloudVars
<1>11. CASE DetectTunnel
  BY <1>11 DEF DetectTunnel, GoTo, settingVars, cloudVars
<1>12. CASE OpenFile \/ FillFile \/ SecureFile
  BY <1>12 DEF OpenFile, FillFile, SecureFile, GoTo, settingVars, cloudVars
<1>13. CASE ~Fails /\ (Preflight \/ LoadExecutor)
  BY <1>13 DEF Preflight, LoadExecutor, GoTo, settingVars, cloudVars
<1>14. CASE Shutdown \/ Crash
  BY <1>0, <1>14 DEF Shutdown, Crash
<1>15. CASE StopVpn \/ Reset \/ UNCHANGED vars
  BY <1>15 DEF StopVpn, Reset, vars, nodeVars, settingVars, cloudVars
<1>16. ASSUME NEW d \in Daemons, TunnelRises(d) \/ TunnelFalls(d) \/ DaemonExits(d)
       PROVE  KeyInv'
  BY <1>16 DEF TunnelRises, TunnelFalls, DaemonExits, nodeVars, settingVars, cloudVars
<1>. QED
  BY <1>1, <1>2, <1>3, <1>4, <1>5, <1>6, <1>7, <1>8, <1>9, <1>10, <1>11, <1>12, <1>13,
     <1>14, <1>15, <1>16
  DEF Next, StartupStep

\* A node that has connected signs its webhooks and heartbeats with the key and
\* the key id the cloud has registered, whatever tokens were redeemed, requests
\* lost and processes killed before.
THEOREM KeyTrusted == Spec => []RunningKeyIsTrusted
<1>1. Init => KeyInv
  BY DEF Init, KeyInv, Connected, Persisting
<1>2. KeyInv => RunningKeyIsTrusted
  BY DEF KeyInv, RunningKeyIsTrusted, Connected
<1>. QED  BY <1>1, <1>2, KeyStep, PTL DEF Spec

\* When the process ends, the credentials were given up if a file was open or
\* a redeemed key not yet stored, and are as good as before otherwise.
LEMMA EndsDisk ==
  ASSUME DiskInv, NEW how, Ends(how), UNCHANGED <<cloudVars, credVars>>
  PROVE  DiskInv'
<1>1. Written'
  BY DEF Ends, Written
<1>2. CASE cloudKey = 0
  BY <1>1, <1>2 DEF DiskInv, cloudVars
<1>3. CASE forfeited \/ redeemed \/ pc \in Torn
  BY <1>1, <1>3 DEF DiskInv, Ends
<1>4. CASE UsableOnceWritten /\ pc \notin Torn
  <2>1. UsableOnceWritten'
    BY <1>4 DEF UsableOnceWritten, Torn, Ends, cloudVars, credVars
  <2>. QED  BY <1>1, <2>1 DEF DiskInv
<1>. QED  BY <1>2, <1>3, <1>4 DEF DiskInv

\* A step outside _persist_runtime_config that leaves the cloud's key and the
\* files alone keeps what is on disk.
LEMMA ElsewhereDisk ==
  ASSUME DiskInv, UNCHANGED <<cloudKey, credVars, redeemed, forfeited>>,
         pc' \notin Persisting \ {"keyOpen"}, pc \notin Persisting
  PROVE  DiskInv'
  BY DEF DiskInv, Written, UsableOnceWritten, Persisting, credVars

\* What is on disk between two awaits of a process and of the ones after it.
LEMMA DiskStep == NodeTypeOK /\ KeyInv /\ DiskInv /\ [Next]_vars => DiskInv'
<1>. SUFFICES ASSUME NodeTypeOK, KeyInv, DiskInv, [Next]_vars PROVE DiskInv'
  OBVIOUS
<1>1. ASSUME Fails, UNCHANGED <<cloudVars, credVars>>
      PROVE  DiskInv'
  BY <1>1, EndsDisk, FailsEnds
<1>2. CASE StartWithToken \/ Start
  BY <1>2, ElsewhereDisk DEF StartWithToken, Start, GoTo, cloudVars, Persisting
<1>3. CASE LoadSettings \/ EnsurePersistedVpn \/ DetectionFails
  <2>1. UNCHANGED <<cloudVars, credVars>>
    BY <1>3 DEF LoadSettings, EnsurePersistedVpn, DetectionFails
  <2>2. CASE ~Fails
    <3>1. /\ pc \in {"load", "ensure", "detect"}
          /\ pc' \in {"ensure", "fetch", "launchOld", "launchNew"}
          /\ UNCHANGED <<redeemed, forfeited>>
      BY <1>3, <2>2 DEF LoadSettings, EnsurePersistedVpn, DetectionFails, GoTo
    <3>. QED  BY <2>1, <3>1, ElsewhereDisk DEF cloudVars, Persisting
  <2>. QED  BY <1>1, <2>1, <2>2
<1>4. CASE StartOpenVpn("launchOld", "waitOld") \/ StartOpenVpn("launchNew", "waitNew")
  <2>1. UNCHANGED <<cloudVars, credVars>>
    BY <1>4 DEF StartOpenVpn
  <2>2. CASE ~Fails
    BY <1>4, <2>1, <2>2, ElsewhereDisk DEF StartOpenVpn, GoTo, cloudVars, Persisting
  <2>. QED  BY <1>1, <2>1, <2>2
<1>5. CASE WaitForTunnel("waitOld", "fetch") \/ WaitForTunnel("waitNew", "keyOpen")
  BY <1>5, EndsDisk, ElsewhereDisk DEF WaitForTunnel, GoTo, cloudVars, Persisting
<1>6. CASE Replied \/ AttemptFails
  <2>1. pc = "fetch" /\ pc' \in {"apply", "backoff"} /\ UNCHANGED <<credVars, forfeited>>
    BY <1>6 DEF Replied, AttemptFails
  <2>2. CASE UNCHANGED <<cloudKey, redeemed>>
    BY <2>1, <2>2, ElsewhereDisk DEF Persisting
  <2>3. CASE redeemed'
    BY <2>1, <2>3 DEF DiskInv, Written
  <2>. QED  BY <1>6, <2>2, <2>3 DEF Replied, AttemptFails, CloudAccepts, cloudVars
<1>7. CASE Rejected \/ WriteFails
  BY <1>1, <1>7 DEF Rejected, WriteFails
<1>8. CASE BackOff
  BY <1>1, <1>8, ElsewhereDisk DEF BackOff, cloudVars, Persisting
<1>9. CASE ApplyBundle
  BY <1>1, <1>9, ElsewhereDisk DEF ApplyBundle, cloudVars, Persisting
<1>10. CASE DetectTunnel
  BY <1>10, ElsewhereDisk DEF DetectTunnel, GoTo, cloudVars, Persisting
<1>11. CASE OpenFile
  BY <1>11, OpenedKey, OpenedConfig
  DEF OpenFile, GoTo, NodeTypeOK, DiskInv, Written, UsableOnceWritten, cloudVars
<1>12. CASE FillFile
  <2>1. key = cloudKey /\ keyId = cloudKey
    BY <1>12 DEF FillFile, KeyInv, Connected, Persisting
  <2>. QED
    BY <1>12, <2>1
    DEF FillFile, GoTo, NodeTypeOK, DiskInv, Written, UsableOnceWritten, cloudVars
<1>13. CASE SecureFile
  BY <1>13
  DEF SecureFile, GoTo, NodeTypeOK, DiskInv, Written, UsableOnceWritten, cloudVars
<1>14. CASE Preflight \/ LoadExecutor
  BY <1>1, <1>14, ElsewhereDisk DEF Preflight, LoadExecutor, GoTo, cloudVars, Persisting
<1>15. CASE Shutdown \/ Crash
  BY <1>15, EndsDisk DEF Shutdown, Crash
<1>16. CASE Reset
  BY <1>16 DEF Reset, DiskInv, Written
<1>17. CASE StopVpn \/ UNCHANGED vars
  BY <1>17
  DEF StopVpn, vars, nodeVars, cloudVars, credVars, DiskInv, Written, UsableOnceWritten
<1>18. ASSUME NEW d \in Daemons, TunnelRises(d) \/ TunnelFalls(d) \/ DaemonExits(d)
       PROVE  DiskInv'
  BY <1>18
  DEF TunnelRises, TunnelFalls, DaemonExits, nodeVars, cloudVars, credVars, DiskInv,
      Written, UsableOnceWritten
<1>. QED
  BY <1>2, <1>3, <1>4, <1>5, <1>6, <1>7, <1>8, <1>9, <1>10, <1>11, <1>12, <1>13,
     <1>14, <1>15, <1>16, <1>17, <1>18
  DEF Next, StartupStep

\* The credentials on disk are the ones the cloud accepts, so that the next
\* start can reconnect, except after a reset and when a process ended between
\* redeeming a token and storing its key or with a file opened for rewriting:
\* no other crash, failed write or lost reply of _post_connect costs them.
THEOREM CredentialsStayUsable == Spec => []CredentialsKept
<1>1. Init => KeyInv /\ DiskInv
  BY DEF Init, KeyInv, DiskInv, Written, Connected, Persisting
<1>2. NodeTypeOK /\ DiskInv => CredentialsKept
  BY DEF NodeTypeOK, DiskInv, UsableOnceWritten, CredentialsKept, Usable, Torn
<1>3. NodeTypeOK /\ KeyInv /\ DiskInv /\ [Next]_vars => NodeTypeOK' /\ KeyInv' /\ DiskInv'
  BY TypeStep, KeyStep, DiskStep
<1>. QED  BY <1>1, <1>2, <1>3, NodeTypeInit, PTL DEF Spec

-----------------------------------------------------------------------------
(* The VPN daemon *)

\* kill_openvpn_daemon leaves no daemon it has not tried to stop, if the PID
\* file names the only one, and takes no tunnel away.
LEMMA KillsTheLast ==
  ASSUME NodeTypeOK, Lasting \subseteq {pidFile}, KillOpenVpn
  PROVE  Lasting' = {} /\ spared \subseteq spared' /\ tunnels' = tunnels
  BY DEF NodeTypeOK, KillOpenVpn, Lasting

\* A daemon leaves the PID file with its first signal, and is not signalled again.
LEMMA SparedStep == NodeTypeOK /\ SparedInv /\ [Next]_vars => SparedInv'
<1>. SUFFICES ASSUME NodeTypeOK, SparedInv, [Next]_vars PROVE SparedInv'
  OBVIOUS
<1>0. "none" \notin spared \union termed /\ spared \subseteq running /\ termed \subseteq running
  BY NodeConstants DEF NodeTypeOK
<1>1. ASSUME KillOpenVpn
      PROVE  SparedInv'
  <2>1. pidFile' \notin spared' \union termed'
    BY <1>0, <1>1, NodeConstants DEF KillOpenVpn, NodeTypeOK
  <2>2. spared' \intersect termed' = {}
    BY <1>1 DEF KillOpenVpn, SparedInv
  <2>. QED  BY <2>1, <2>2 DEF SparedInv
<1>2. CASE UNCHANGED <<pidFile, termed, spared>>
  BY <1>2 DEF SparedInv
<1>3. CASE Fails
  BY <1>1, <1>2, <1>3 DEF Fails, vpnVars
<1>4. CASE \/ StartWithToken \/ Start \/ LoadSettings \/ EnsurePersistedVpn \/ DetectionFails
           \/ Replied \/ Rejected \/ AttemptFails \/ BackOff \/ ApplyBundle \/ DetectTunnel
  BY <1>2, <1>3, <1>4
  DEF StartWithToken, Start, LoadSettings, EnsurePersistedVpn, DetectionFails, Replied,
      Rejected, AttemptFails, BackOff, ApplyBundle, DetectTunnel, vpnVars
<1>5. ASSUME NEW p, NEW q, StartOpenVpn(p, q)
      PROVE  SparedInv'
  BY <1>0, <1>3, <1>5 DEF StartOpenVpn, SparedInv
<1>6. ASSUME NEW p, NEW q, WaitForTunnel(p, q)
      PROVE  SparedInv'
  BY <1>1, <1>2, <1>6 DEF WaitForTunnel, vpnVars
<1>7. CASE OpenFile \/ FillFile \/ WriteFails \/ SecureFile \/ Preflight \/ LoadExecutor
  BY <1>2, <1>3, <1>7
  DEF OpenFile, FillFile, WriteFails, SecureFile, Preflight, LoadExecutor, vpnVars
<1>8. CASE Shutdown \/ Crash \/ StopVpn \/ Reset \/ UNCHANGED vars
  BY <1>1, <1>2, <1>8 DEF Shutdown, Crash, StopVpn, Reset, vars, vpnVars
<1>9. ASSUME NEW d \in Daemons, TunnelRises(d) \/ TunnelFalls(d) \/ DaemonExits(d)
      PROVE  SparedInv'
  BY <1>9 DEF TunnelRises, TunnelFalls, DaemonExits, SparedInv
<1>. QED
  BY <1>4, <1>5, <1>6, <1>7, <1>8, <1>9 DEF Next, StartupStep

\* A process that ends past the wait for its tunnel leaves no daemon that is
\* not found by the next start.
LEMMA EndsVpn ==
  ASSUME NodeTypeOK, VpnInv, NEW how, Ends(how), UNCHANGED <<drops, crashes>>,
         \/ KillOpenVpn
         \/ /\ UNCHANGED vpnVars /\ how \notin {"graceful", "cleaned", "reset"}
            /\ pc \notin Waiting
  PROVE  VpnInv'
<1>. SUFFICES ASSUME Calm' PROVE VpnInv'
  BY DEF VpnInv
<1>1. Calm /\ pc' = "down" /\ lastExit' = how
  BY DEF Calm, Ends
<1>2. CASE KillOpenVpn
  <2>1. Lasting' = {}
    BY <1>1, <1>2, KillsTheLast DEF VpnInv
  <2>. QED  BY <1>1, <2>1 DEF VpnInv, Launching, Waiting
<1>3. CASE UNCHANGED vpnVars /\ how \notin {"graceful", "cleaned", "reset"}
           /\ pc \notin Waiting
  <2>1. UNCHANGED <<Lasting, pidFile, tunnels, spared>>
    BY <1>3 DEF Lasting, vpnVars
  <2>2. Lasting \subseteq tunnels \/ spared \intersect tunnels # {}
    BY <1>1, <1>3 DEF VpnInv
  <2>. QED  BY <1>1, <1>3, <2>1, <2>2 DEF VpnInv, Launching, Waiting
<1>. QED  BY <1>2, <1>3

\* The same for a start that fails.
LEMMA FailsVpn ==
  ASSUME NodeTypeOK, VpnInv, Fails, UNCHANGED <<drops, crashes>>, pc \notin Waiting
  PROVE  VpnInv'
  BY EndsVpn DEF Fails

\* A step that is no launch and no wait, and leaves OpenVPN alone.
LEMMA ElsewhereVpn ==
  ASSUME VpnInv, UNCHANGED <<pidFile, running, tunnels, termed, spared, drops, crashes>>,
         pc \notin Launching \union Waiting,
         pc' \notin Launching \union Waiting \union {"down"}
  PROVE  VpnInv'
<1>1. UNCHANGED <<Lasting, Calm>>
  BY DEF Lasting, Calm
<1>. QED  BY <1>1 DEF VpnInv

\* A step that finds no tunnel and goes on to launch a daemon.
LEMMA ToLaunchVpn ==
  ASSUME VpnInv, UNCHANGED <<pidFile, running, tunnels, termed, spared, drops, crashes>>,
         tunnels = {}, pc \notin Launching \union Waiting, pc' \in Launching
  PROVE  VpnInv'
<1>1. UNCHANGED <<Lasting, Calm>>
  BY DEF Lasting, Calm
<1>2. pc' \notin Waiting \union {"down"}
  BY DEF Launching, Waiting
<1>. QED  BY <1>1, <1>2 DEF VpnInv

\* A daemon is launched only when none runs that anyone could still stop, and
\* is stopped before it is forgotten.
LEMMA VpnStep == NodeTypeOK /\ SparedInv /\ VpnInv /\ [Next]_vars => VpnInv'
<1>. SUFFICES ASSUME NodeTypeOK, SparedInv, VpnInv, [Next]_vars PROVE VpnInv'
  OBVIOUS
<1>1. CASE StartWithToken \/ Start
  BY <1>1, ElsewhereVpn DEF StartWithToken, Start, vpnVars, boundVars, Launching, Waiting
<1>2. CASE LoadSettings
  BY <1>2, FailsVpn, ElsewhereVpn DEF LoadSettings, vpnVars, boundVars, Launching, Waiting
<1>3. CASE EnsurePersistedVpn
  <2>1. CASE Fails
    BY <1>3, <2>1, FailsVpn DEF EnsurePersistedVpn, boundVars, Waiting
  <2>2. CASE ~Fails /\ pc' = "fetch"
    BY <1>3, <2>2, ElsewhereVpn
    DEF EnsurePersistedVpn, vpnVars, boundVars, Launching, Waiting
  <2>3. CASE ~Fails /\ pc' = "launchOld"
    BY <1>3, <2>3, ToLaunchVpn
    DEF EnsurePersistedVpn, GoTo, vpnVars, boundVars, Launching, Waiting
  <2>. QED  BY <1>3, <2>1, <2>2, <2>3 DEF EnsurePersistedVpn, GoTo
<1>4. CASE DetectionFails
  BY <1>4 DEF DetectionFails, Glitch, NodeTypeOK, VpnInv, Calm
<1>5. ASSUME NEW p \in Launching, NEW q \in Waiting, StartOpenVpn(p, q)
      PROVE  VpnInv'
  <2>1. CASE Fails
    BY <1>5, <2>1, FailsVpn DEF StartOpenVpn, boundVars, Launching, Waiting
  <2>2. CASE ~Fails
    <3>1. PICK d \in Daemons \ running :
            /\ running' = running \union {d} /\ pidFile' = d
            /\ GoTo(q) /\ UNCHANGED <<profile, tunnels, termed, spared>>
      BY <1>5, <2>2 DEF StartOpenVpn
    <3>2. pc = p /\ pc' = q /\ UNCHANGED <<drops, crashes>>
      BY <1>5, <3>1 DEF StartOpenVpn, GoTo, boundVars
    <3>3. Calm => tunnels' \subseteq spared' /\ Lasting' = {d}
      BY <3>1, <3>2 DEF VpnInv, Lasting, NodeTypeOK
    <3>. QED  BY <3>1, <3>2, <3>3 DEF VpnInv, Calm, Launching, Waiting
  <2>. QED  BY <2>1, <2>2
<1>6. ASSUME NEW p \in Waiting, NEW q \in {"fetch", "keyOpen"}, WaitForTunnel(p, q)
      PROVE  VpnInv'
  <2>1. CASE tunnels # {} /\ GoTo(q) /\ UNCHANGED vpnVars
    <3>1. pc = p /\ pc' = q /\ UNCHANGED <<drops, crashes, pidFile, tunnels, spared>>
      BY <1>6, <2>1 DEF WaitForTunnel, GoTo, vpnVars, boundVars
    <3>2. UNCHANGED <<Lasting, Calm>>
      BY <2>1, <3>1 DEF Lasting, Calm, vpnVars
    <3>3. Calm => Lasting \subseteq tunnels \/ spared \intersect tunnels # {}
      BY <2>1, <3>1 DEF VpnInv
    <3>. QED  BY <1>6, <3>1, <3>2, <3>3 DEF VpnInv, Launching, Waiting
  <2>2. ASSUME NEW how, KillOpenVpn, Ends(how)
        PROVE  VpnInv'
    BY <1>6, <2>2, EndsVpn DEF WaitForTunnel, boundVars
  <2>. QED  BY <1>6, <2>1, <2>2 DEF WaitForTunnel
<1>7. CASE Replied \/ AttemptFails
  BY <1>7, ElsewhereVpn
  DEF Replied, AttemptFails, Fault, vpnVars, boundVars, Launching, Waiting
<1>8. CASE Rejected \/ WriteFails
  BY <1>8, FailsVpn DEF Rejected, WriteFails, Fault, boundVars, Persisting, Waiting
<1>9. CASE BackOff
  BY <1>9, FailsVpn, ElsewhereVpn DEF BackOff, vpnVars, boundVars, Launching, Waiting
<1>10. CASE ApplyBundle
  BY <1>10, FailsVpn, ElsewhereVpn DEF ApplyBundle, boundVars, Launching, Waiting
<1>11. CASE DetectTunnel
  BY <1>11, ElsewhereVpn, ToLaunchVpn
  DEF DetectTunnel, GoTo, vpnVars, boundVars, Launching, Waiting
<1>12. CASE OpenFile \/ FillFile \/ SecureFile
  BY <1>12, ElsewhereVpn
  DEF OpenFile, FillFile, SecureFile, GoTo, vpnVars, boundVars, Launching, Waiting
<1>13. CASE Preflight \/ LoadExecutor
  BY <1>13, FailsVpn, ElsewhereVpn
  DEF Preflight, LoadExecutor, GoTo, vpnVars, boundVars, Launching, Waiting
<1>14. CASE Shutdown
  BY <1>14, EndsVpn DEF Shutdown, boundVars, Waiting
<1>15. CASE Crash
  BY <1>15 DEF Crash, NodeTypeOK, VpnInv, Calm
<1>16. CASE StopVpn
  <2>1. Calm => Lasting' = {} /\ spared \subseteq spared' /\ tunnels' = tunnels
    BY <1>16, KillsTheLast DEF StopVpn, VpnInv
  <2>2. UNCHANGED <<pc, lastExit, Calm>>
    BY <1>16 DEF StopVpn, nodeVars, boundVars, Calm
  <2>. QED  BY <2>1, <2>2 DEF VpnInv
<1>17. CASE Reset
  <2>1. Calm => Lasting' = {}
    BY <1>17, KillsTheLast DEF Reset, VpnInv
  <2>2. pc' = "down" /\ UNCHANGED Calm
    BY <1>17 DEF Reset, boundVars, Calm
  <2>. QED  BY <2>1, <2>2 DEF VpnInv, Launching, Waiting
<1>18. ASSUME NEW d \in Daemons, TunnelRises(d)
       PROVE  VpnInv'
  <2>1. /\ UNCHANGED <<pc, lastExit, pidFile, spared, Lasting, Calm>>
        /\ tunnels' = tunnels \union {d} /\ d \in running \ termed
    BY <1>18 DEF TunnelRises, nodeVars, boundVars, Calm, Lasting
  <2>2. d \in spared \/ d \in Lasting
    BY <2>1 DEF Lasting
  <2>3. CASE d \in spared
    BY <2>1, <2>3 DEF VpnInv
  <2>4. CASE d \in Lasting
    <3>1. Calm => Lasting \subseteq tunnels'
      BY <2>1, <2>4 DEF VpnInv
    <3>. QED  BY <2>1, <2>4, <3>1 DEF VpnInv
  <2>. QED  BY <2>2, <2>3, <2>4
<1>19. ASSUME NEW d \in Daemons, TunnelFalls(d)
       PROVE  VpnInv'
  BY <1>19 DEF TunnelFalls, NodeTypeOK, VpnInv, Calm
<1>20. ASSUME NEW d \in Daemons, DaemonExits(d)
       PROVE  VpnInv'
  <2>1. CASE d \in termed /\ UNCHANGED boundVars
    <3>1. UNCHANGED <<pc, lastExit, pidFile, spared, Lasting, Calm>>
          /\ tunnels' = tunnels \ {d}
      BY <1>20, <2>1
      DEF DaemonExits, SparedInv, nodeVars, boundVars, Calm, Lasting
    <3>2. d \notin Lasting /\ d \notin spared
      BY <2>1 DEF Lasting, SparedInv
    <3>. QED  BY <3>1, <3>2 DEF VpnInv
  <2>2. CASE drops' = drops + 1
    BY <2>2 DEF NodeTypeOK, VpnInv, Calm
  <2>. QED  BY <1>20, <2>1, <2>2 DEF DaemonExits
<1>21. CASE UNCHANGED vars
  <2>1. UNCHANGED <<pc, lastExit, pidFile, spared, tunnels, Lasting, Calm>>
    BY <1>21 DEF vars, nodeVars, vpnVars, boundVars, Calm, Lasting
  <2>. QED  BY <2>1 DEF VpnInv
<1>. QED
  BY <1>1, <1>2, <1>3, <1>4, <1>5, <1>6, <1>7, <1>8, <1>9, <1>10, <1>11, <1>12, <1>13,
     <1>14, <1>15, <1>16, <1>17, <1>18, <1>19, <1>20, <1>21
  DEF Next, StartupStep, Launching, Waiting

\* The invariant of the daemons holds from the first start on.
LEMMA VpnCorrect == Spec => [](NodeTypeOK /\ SparedInv /\ VpnInv)
<1>1. Init => SparedInv /\ VpnInv
  BY DEF Init, SparedInv, VpnInv, Lasting, Launching, Waiting
<1>2. NodeTypeOK /\ SparedInv /\ VpnInv /\ [Next]_vars => NodeTypeOK' /\ SparedInv' /\ VpnInv'
  BY TypeStep, SparedStep, VpnStep
<1>. QED  BY <1>1, <1>2, NodeTypeInit, PTL DEF Spec

\* While no tunnel drops or is missed and the node does not crash, no start,
\* retry, failure or command leaves a daemon that the PID file does not name
\* and that kill_openvpn_daemon never tried to stop.
THEOREM NoOrphans == Spec => []NoOrphanDaemon
<1>1. VpnInv => NoOrphanDaemon
  BY DEF VpnInv, NoOrphanDaemon, Calm, Lasting
<1>. QED  BY <1>1, VpnCorrect, PTL

\* After a graceful shutdown, after a first run that failed once it had its
\* bundle, and after a reset, every OpenVPN daemon that still runs has been told
\* to stop or refused the signal.
THEOREM CleanEnds == Spec => []CleanEndStopsVpn
<1>1. VpnInv => CleanEndStopsVpn
  BY DEF VpnInv, CleanEndStopsVpn, Calm, Lasting
<1>. QED  BY <1>1, VpnCorrect, PTL
=============================================================================
