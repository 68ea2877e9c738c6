----------------------------- MODULE JobCircuits -----------------------------
(***************************************************************************)
(* The consumer together with the circuits its messages carry: what a      *)
(* message is to the consumer is what the validation of module Circuit     *)
(* makes of it.                                                            *)
(***************************************************************************)
EXTENDS ConsumerProperties, Circuit, Functions

CONSTANT Payload \* the fields of each message, as KindOf reads them

KindOfPayload == [m \in Msgs |-> KindOf(Payload[m])]

ASSUME PayloadAssumption == Kind = KindOfPayload

\* Messages whose circuit stays on the register it declares and in the gate set
\* of its target.
Sound ==
  {m \in Msgs :
    LET ir == Payload[m].ir
        ops == Range(ir.gates)
    IN  /\ \A op \in ops : op.gate \in LegalGates(ir.target)
        /\ (UNION {Range(op.qubits) : op \in ops}) \union Range(ir.measurements)
             \subseteq 0 .. ir.num_qubits - 1}

\* Only such a circuit reaches the executor, whichever delivery brings it, alone,
\* in a batch, or from the pending entries after a crash.
OnlySoundCircuitsRun == \A m \in Msgs : runs[m] > 0 => m \in Sound
=============================================================================
