-------------------------------- MODULE Guard --------------------------------
(***************************************************************************)
(* VPNGuard (coda_node/vpn/guard.py): preflight, run once before the node  *)
(* is up, and watch, the task that repeats it and tells the application    *)
(* when the service state changes.  A check takes several awaits while the *)
(* network goes its own way, so its verdict is put together from what each *)
(* stage saw at a different moment.                                        *)
(***************************************************************************)
EXTENDS Integers, FiniteSets

CONSTANT Targets \* hosts of the probe URLs

VARIABLES
  \* the network (external): a tunnel interface is up, hosts that resolve,
  \* hosts that answer a HEAD request with less than 500
  iface, resolving, answering,
  \* settings: vpn_required and allow_degraded_startup
  required, degradedOk,
  \* the guard: _state, where the check is, hosts left in the stage, hosts
  \* that failed in it, and whether the check is the one before the start
  state, pc, todo, failed, booting,
  \* watch: _state as it was when the check began; what the application was
  \* last told, by the result of the first check, then by the callback; the
  \* state the callback of the last check was made with, or "none"
  previous, told, call,
  \* history: what the check under way and the last finished one have found good
  seen, evidence

netVars == <<iface, resolving, answering>>
settingVars == <<required, degradedOk>>
watchVars == <<previous, told, call>>
vars == <<netVars, settingVars, state, pc, todo, failed, booting, watchVars, seen, evidence>>

ServiceStates == {"BOOTING", "VPN_UNAVAILABLE", "READY", "DEGRADED"}
Evidence == [iface : BOOLEAN, resolved : SUBSET Targets, answered : SUBSET Targets]
NoEvidence == [iface |-> FALSE, resolved |-> {}, answered |-> {}]

\* The watch task is alive.
Watching == pc \in {"sleep", "detect", "resolve", "probe"}

-----------------------------------------------------------------------------
(* The verdict of a check and what follows it at once *)

\* Mutant: the loss is told again by the next failing check.
LossToldAgain(ok) == ~ok /\ previous \in {"READY", "DEGRADED"}

\* The callback on_change is due when an unready guard got ready and when a
\* ready one did not stay so.
CallReady(ok) == ok /\ previous \notin {"READY", "BOOTING"}
CallDegraded(ok) == ~ok /\ previous = "READY"

\* The first check tells the lifespan its result; watch tells by the callback.
Tell(ok) ==
  /\ call' = IF booting THEN "none"
             ELSE IF CallReady(ok) THEN "READY"
             ELSE IF CallDegraded(ok) THEN "DEGRADED"
             ELSE "none"
  /\ told' = IF booting THEN ok ELSE IF call' = "none" THEN told ELSE call' = "READY"

\* preflight sets READY or VPN_UNAVAILABLE; watch turns a failure of a check
\* that began in READY into DEGRADED.
SetState(ok) ==
  state' = IF ok THEN "READY"
           ELSE IF ~booting /\ previous = "READY" THEN "DEGRADED"
           ELSE "VPN_UNAVAILABLE"

\* The check is over.  A failed first check refuses the start, unless the
\* settings allow for it; otherwise watch sleeps.
Verdict(ok) ==
  /\ SetState(ok) /\ Tell(ok)
  /\ pc' = IF booting /\ ~ok /\ ~degradedOk THEN "refused" ELSE "sleep"
  /\ booting' = FALSE
  /\ todo' = {} /\ failed' = {}
  /\ evidence' = seen' /\ UNCHANGED <<netVars, settingVars, previous>>

-----------------------------------------------------------------------------
(* preflight *)

\* A stage begins, over all targets.
Stage(p) ==
  /\ pc' = p /\ todo' = Targets /\ failed' = {}
  /\ UNCHANGED <<netVars, settingVars, state, booting, watchVars, evidence>>

\* detect_tun_interface: an interface is found, is missed although it is
\* required, or is missed and not required.
Detect ==
  /\ pc = "detect"
  /\ seen' = [NoEvidence EXCEPT !.iface = iface]
  /\ IF iface \/ ~required THEN Stage("resolve") ELSE Verdict(FALSE)

\* It may also raise, which no one catches: the start fails, or watch ends.
DetectRaises ==
  /\ pc = "detect"
  /\ pc' = IF booting THEN "refused" ELSE "dead"
  /\ UNCHANGED <<netVars, settingVars, state, todo, failed, booting, watchVars, seen, evidence>>

\* Mutant: a host that does not resolve stays in line for another try.
UnresolvedStaysQueued(t) ==
  /\ pc = "resolve" /\ t \in todo
  /\ IF t \in resolving
     THEN /\ seen' = [seen EXCEPT !.resolved = @ \union {t}]
          /\ todo' = todo \ {t} /\ UNCHANGED failed
     ELSE failed' = failed \union {t} /\ UNCHANGED <<seen, todo>>
  /\ UNCHANGED <<netVars, settingVars, state, pc, booting, watchVars, evidence>>

\* One host is looked up, or fails to be.
Resolve(t) ==
  /\ pc = "resolve" /\ t \in todo
  /\ todo' = todo \ {t}
  /\ IF t \in resolving
     THEN seen' = [seen EXCEPT !.resolved = @ \union {t}] /\ UNCHANGED failed
     ELSE failed' = failed \union {t} /\ UNCHANGED seen
  /\ UNCHANGED <<netVars, settingVars, state, pc, booting, watchVars, evidence>>

\* Mutant: failures to resolve are collected and forgotten.
ResolveFailuresForgotten ==
  /\ pc = "resolve" /\ todo = {}
  /\ UNCHANGED seen
  /\ Stage("probe")

Resolved ==
  /\ pc = "resolve" /\ todo = {}
  /\ UNCHANGED seen
  /\ IF failed # {} /\ required THEN Verdict(FALSE) ELSE Stage("probe")

\* One target is sent a HEAD request.
Probe(t) ==
  /\ pc = "probe" /\ t \in todo
  /\ todo' = todo \ {t}
  /\ IF t \in answering
     THEN seen' = [seen EXCEPT !.answered = @ \union {t}] /\ UNCHANGED failed
     ELSE failed' = failed \union {t} /\ UNCHANGED seen
  /\ UNCHANGED <<netVars, settingVars, state, pc, booting, watchVars, evidence>>

Probed ==
  /\ pc = "probe" /\ todo = {}
  /\ UNCHANGED seen
  /\ Verdict(failed = {} \/ ~required)

-----------------------------------------------------------------------------
(* watch and stop *)

\* Mutant: only an unready guard is checked again.
WakeUnready ==
  /\ pc = "sleep" /\ state # "READY"
  /\ pc' = "detect" /\ seen' = NoEvidence
  /\ previous' = state /\ call' = "none"
  /\ UNCHANGED <<netVars, settingVars, state, todo, failed, booting, told, evidence>>

\* Mutant: the previous state is read once, before the loop.
WakeKeepsPrevious ==
  /\ pc = "sleep"
  /\ pc' = "detect" /\ seen' = NoEvidence
  /\ call' = "none"
  /\ UNCHANGED <<netVars, settingVars, state, todo, failed, booting, previous, told, evidence>>

\* watch reads the state and begins a check.
Wake ==
  /\ pc = "sleep"
  /\ pc' = "detect" /\ seen' = NoEvidence
  /\ previous' = state /\ call' = "none"
  /\ UNCHANGED <<netVars, settingVars, state, todo, failed, booting, told, evidence>>

\* The lifespan stops the guard and cancels the watch task.
Stop ==
  /\ Watching /\ ~booting
  /\ pc' = "stopped"
  /\ UNCHANGED <<netVars, settingVars, state, todo, failed, booting, watchVars, seen, evidence>>

-----------------------------------------------------------------------------
(* The network *)

Network ==
  /\ \/ iface' = ~iface /\ UNCHANGED <<resolving, answering>>
     \/ \E t \in Targets :
          /\ resolving' = IF t \in resolving THEN resolving \ {t} ELSE resolving \union {t}
          /\ UNCHANGED <<iface, answering>>
     \/ \E t \in Targets :
          /\ answering' = IF t \in answering THEN answering \ {t} ELSE answering \union {t}
          /\ UNCHANGED <<iface, resolving>>
  /\ UNCHANGED <<settingVars, state, pc, todo, failed, booting, watchVars, seen, evidence>>

-----------------------------------------------------------------------------
Init ==
  /\ iface \in BOOLEAN /\ resolving \in SUBSET Targets /\ answering \in SUBSET Targets
  /\ required \in BOOLEAN /\ degradedOk \in BOOLEAN
  /\ state = "BOOTING" /\ pc = "detect" /\ todo = {} /\ failed = {} /\ booting = TRUE
  /\ previous = "BOOTING" /\ told = FALSE /\ call = "none"
  /\ seen = NoEvidence /\ evidence = NoEvidence

CheckStep ==
  \/ Detect
  \/ \E t \in Targets : Resolve(t) \/ Probe(t)
  \/ Resolved \/ Probed
  \/ Wake

Next == CheckStep \/ DetectRaises \/ Stop \/ Network

Spec == Init /\ [][Next]_vars

\* Each stage of a check ends (DNS, HTTP and the commands that list interfaces
\* have timeouts) and the sleep between checks does too.
FairSpec == Spec /\ WF_vars(CheckStep)

-----------------------------------------------------------------------------
(* Properties *)

\* Type invariant of the guard, its check and the network; a host that failed a
\* stage is not in line any more.
GuardTypeOK ==
  /\ iface \in BOOLEAN /\ required \in BOOLEAN /\ degradedOk \in BOOLEAN
  /\ booting \in BOOLEAN /\ told \in BOOLEAN
  /\ resolving \subseteq Targets /\ answering \subseteq Targets
  /\ todo \subseteq Targets /\ failed \subseteq Targets \ todo
  /\ state \in ServiceStates /\ previous \in ServiceStates
  /\ call \in {"none", "READY", "DEGRADED"}
  /\ pc \in {"detect", "resolve", "probe", "sleep", "refused", "dead", "stopped"}
  /\ seen \in Evidence /\ evidence \in Evidence

\* After the first check the application knows whether the guard is ready, at
\* every moment: no sequence of failures and recoveries makes the callbacks and
\* is_ready disagree.
ToldTheTruth == ~booting => (told <=> state = "READY")

\* A guard that requires the VPN is ready only if its last check found the
\* interface and every target resolving and answering, whatever changed while
\* the check ran.
ReadyIsFounded ==
  state = "READY" /\ required =>
    evidence = [iface |-> TRUE, resolved |-> Targets, answered |-> Targets]

\* A callback always brings news: the application is told READY only when it
\* took the node for not ready, and DEGRADED only when it took it for ready, so
\* the two alternate however often the network fails in between.
CallbacksAreNews ==
  [][call' # call /\ call' # "none" => told # (call' = "READY")]_vars

\* While the watch task lives, a network that stays healthy is found healthy in
\* the end, and one that has lost its tunnel for good is found so.
WatchConverges ==
  /\ <>[](Watching /\ iface /\ resolving = Targets /\ answering = Targets)
       => <>[](state = "READY")
  /\ <>[](Watching /\ required /\ ~iface) => <>[](state # "READY")
=============================================================================
