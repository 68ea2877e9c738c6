----------------------------- MODULE GuardProofs -----------------------------
(***************************************************************************)
(* Theorems about VPNGuard, for any set of probe targets and any behaviour *)
(* of the network.                                                         *)
(***************************************************************************)
EXTENDS Guard, TLAPS

\* What the check under way has found good is what it has worked through
\* without a failure: the link between the evidence and the failures counted
\* so far that makes ReadyIsFounded inductive.
CheckIsTracked ==
  /\ pc \in {"resolve", "probe"} /\ required => seen.iface
  /\ pc = "resolve" => Targets \ (todo \union failed) \subseteq seen.resolved
  /\ pc = "probe" /\ required => seen.resolved = Targets
  /\ pc = "probe" => Targets \ (todo \union failed) \subseteq seen.answered

\* The state is BOOTING exactly while the first check runs or has raised.
BootingIsFirst == booting <=> state = "BOOTING"

\* The state watch read before a check is still the state when its verdict
\* falls: nothing else changes it meanwhile.
PreviousIsCurrent == pc \in {"detect", "resolve", "probe"} => previous = state

GuardInv ==
  /\ GuardTypeOK /\ CheckIsTracked /\ BootingIsFirst /\ PreviousIsCurrent
  /\ ToldTheTruth /\ ReadyIsFounded

-----------------------------------------------------------------------------
\* The guard starts well typed, with nothing told and nothing found.
LEMMA GuardInitInv == Init => GuardInv
<1> SUFFICES ASSUME Init PROVE GuardInv
  OBVIOUS
<1>1. NoEvidence \in Evidence
  BY DEF NoEvidence, Evidence
<1>2. GuardTypeOK
  BY <1>1 DEF Init, GuardTypeOK, ServiceStates
<1>3. CheckIsTracked /\ BootingIsFirst /\ PreviousIsCurrent /\ ToldTheTruth /\ ReadyIsFounded
  BY DEF Init, CheckIsTracked, BootingIsFirst, PreviousIsCurrent, ToldTheTruth, ReadyIsFounded
<1> QED
  BY <1>2, <1>3 DEF GuardInv

\* Every step of a check, of the watch task and of the network keeps the
\* bookkeeping of the check and the agreement of state, callbacks and evidence.
LEMMA GuardNextInv == GuardInv /\ [Next]_vars => GuardInv'
<1> SUFFICES ASSUME GuardInv, [Next]_vars PROVE GuardInv'
  OBVIOUS
<1> USE DEF GuardInv, GuardTypeOK, CheckIsTracked, BootingIsFirst, PreviousIsCurrent,
            ToldTheTruth, ReadyIsFounded, NoEvidence, Evidence, ServiceStates, netVars,
            settingVars, watchVars
<1>1. CASE Detect
  BY <1>1 DEF Detect, Stage, Verdict, SetState, Tell, CallReady, CallDegraded
<1>2. ASSUME NEW t \in Targets, Resolve(t) PROVE GuardInv'
  BY <1>2 DEF Resolve
<1>3. ASSUME NEW t \in Targets, Probe(t) PROVE GuardInv'
  BY <1>3 DEF Probe
<1>4. CASE Resolved
  BY <1>4 DEF Resolved, Stage, Verdict, SetState, Tell, CallReady, CallDegraded
<1>5. CASE Probed
  BY <1>5 DEF Probed, Verdict, SetState, Tell, CallReady, CallDegraded
<1>6. CASE Wake
  BY <1>6 DEF Wake
<1>7. CASE DetectRaises
  BY <1>7 DEF DetectRaises
<1>8. CASE Stop
  BY <1>8 DEF Stop, Watching
<1>9. CASE Network
  <2>1. /\ iface' \in BOOLEAN
        /\ resolving' \subseteq Targets
        /\ answering' \subseteq Targets
    BY <1>9 DEF Network
  <2>2. UNCHANGED <<required, degradedOk, state, pc, todo, failed, booting, previous, told, call,
                    seen, evidence>>
    BY <1>9 DEF Network
  <2> QED
    BY <2>1, <2>2
<1>10. CASE UNCHANGED vars
  BY <1>10 DEF vars
<1> QED
  BY <1>1, <1>2, <1>3, <1>4, <1>5, <1>6, <1>7, <1>8, <1>9, <1>10 DEF Next, CheckStep

\* The inductive invariant holds of every behaviour of the guard.
THEOREM GuardInvariant == Spec => []GuardInv
BY GuardInitInv, GuardNextInv, PTL DEF Spec

\* Every reachable state of the guard is well typed, and a host that has failed a
\* stage of the check is never in line for it again.
THEOREM GuardTypeSafety == Spec => []GuardTypeOK
<1>1. GuardInv => GuardTypeOK
  BY DEF GuardInv
<1> QED
  BY <1>1, GuardInvariant, PTL

\* The application's view of the VPN agrees with is_ready after any number of
\* failures and recoveries.
THEOREM ApplicationIsToldTheTruth == Spec => []ToldTheTruth
<1>1. GuardInv => ToldTheTruth
  BY DEF GuardInv
<1> QED
  BY <1>1, GuardInvariant, PTL

\* READY rests on a check in which the interface was there and every target
\* resolved and answered.
THEOREM ReadyRestsOnACheck == Spec => []ReadyIsFounded
<1>1. GuardInv => ReadyIsFounded
  BY DEF GuardInv
<1> QED
  BY <1>1, GuardInvariant, PTL

\* No callback repeats what the application already knows, whatever the network
\* does during and between the checks.
THEOREM CallbacksBringNews == Spec => CallbacksAreNews
<1> DEFINE News == call' # call /\ call' # "none" => told # (call' = "READY")
<1>1. GuardInv /\ [Next]_vars => [News]_vars
  <2> SUFFICES ASSUME GuardInv, Next PROVE News
    OBVIOUS
  <2>1. ASSUME NEW ok \in BOOLEAN, Tell(ok), pc \in {"detect", "resolve", "probe"} PROVE News
    BY <2>1
    DEF GuardInv, GuardTypeOK, BootingIsFirst, PreviousIsCurrent, ToldTheTruth, Tell,
        CallReady, CallDegraded
  <2>2. CASE call' \in {call, "none"}
    BY <2>2
  <2>3. CASE Detect \/ Resolved \/ Probed
    BY <2>1, <2>2, <2>3 DEF Detect, Resolved, Probed, Stage, Verdict, watchVars
  <2>4. CASE Wake \/ DetectRaises \/ Stop \/ Network
    BY <2>2, <2>4 DEF Wake, DetectRaises, Stop, Network, watchVars
  <2>5. ASSUME NEW t \in Targets, Resolve(t) \/ Probe(t) PROVE News
    BY <2>2, <2>5 DEF Resolve, Probe, watchVars
  <2> QED
    BY <2>3, <2>4, <2>5 DEF Next, CheckStep
<1> QED
  BY <1>1, GuardInvariant, PTL DEF Spec, CallbacksAreNews
=============================================================================
