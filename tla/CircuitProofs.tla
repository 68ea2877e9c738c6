---------------------------- MODULE CircuitProofs ----------------------------
(***************************************************************************)
(* Theorems about the circuits, for every valid circuit of any length.     *)
(***************************************************************************)
EXTENDS Circuit, TLAPS

\* Printing parameters keeps their number.
LEMMA PrintedType ==
  ASSUME NEW params \in Seq(Angles)
  PROVE  Printed(params) \in Seq(Angles) /\ Len(Printed(params)) = Len(params)
<1>1. \A j \in 1 .. Len(params) : FormatFloat[params[j]] \in Angles
  BY AnglesAssumption
<1> QED
  BY <1>1 DEF Printed

\* A gate that has an OpenQASM name comes back as itself, with its angles as
\* printed and id without its duration.
LEMMA GateRoundTrip ==
  ASSUME NEW op \in GateOp, NEW t \in Targets, GateShape(op),
         op.gate \in LegalGates(t), QasmName(op.gate, t) # "none"
  PROVE  /\ IRGate(ToQasmGate(op, t), t) = op.gate
         /\ FromQasmGate(ToQasmGate(op, t), t) = Kept(op)
         /\ GateShape(Kept(op))
<1>1. Printed(op.params) \in Seq(Angles) /\ Len(Printed(op.params)) = Len(op.params)
  BY PrintedType DEF GateOp
<1>2. \/ t = "cz" /\ op.gate \in {"rx", "ry", "rz", "cz", "id"}
      \/ t = "cnot" /\ op.gate \in {"x90", "y_minus_90", "virtual_z", "cnot", "id"}
  BY DEF Targets, LegalGates, QasmName
<1>3. IRGate(ToQasmGate(op, t), t) = op.gate
  BY <1>2, AnglesAssumption DEF IRGate, ToQasmGate, QasmName
<1>4. ParamCount(op.gate) = 0 => op.params = <<>> /\ Printed(op.params) = <<>>
  BY <1>1 DEF GateShape, GateOp
<1>5. FromQasmGate(ToQasmGate(op, t), t).params
        = IF op.gate = "id" THEN <<Zero>> ELSE Printed(op.params)
  BY <1>2, <1>3, <1>4 DEF FromQasmGate, ToQasmGate, ParamCount
<1>6. FromQasmGate(ToQasmGate(op, t), t) = Kept(op)
  BY <1>3, <1>5 DEF FromQasmGate, ToQasmGate, Kept
<1>7. GateShape(Kept(op))
  BY <1>1 DEF GateOp, GateShape, ParamCount, Kept
<1> QED
  BY <1>3, <1>6, <1>7

\* A valid circuit that can be written as OpenQASM is read back as the same
\* circuit, up to the duration of id, which ir_to_openqasm documents as lost, and
\* the rounding of angles to the digits _format_float prints, which it does not.
THEOREM RoundTrip ==
  ASSUME NEW ir \in NativeGateIR, ValidIR(ir), Serializable(ir)
  PROVE  RoundTrips(ir)
<1> DEFINE t == ir.target
           p == ToQasm(ir)
<1>1. t \in Targets /\ ir.gates \in Seq(GateOp)
  BY DEF ValidIR, NativeGateIR
<1>2. ASSUME NEW i \in DOMAIN ir.gates
      PROVE  /\ IRGate(p.gates[i], t) = ir.gates[i].gate
             /\ FromQasmGate(p.gates[i], t) = Kept(ir.gates[i])
             /\ GateShape(Kept(ir.gates[i]))
  <2>1. ir.gates[i] \in GateOp
    BY <1>1, <1>2
  <2>2. /\ GateShape(ir.gates[i]) /\ ir.gates[i].gate \in LegalGates(t)
        /\ QasmName(ir.gates[i].gate, t) # "none"
    BY <1>2 DEF ValidIR, Consistent, Serializable
  <2>3. p.gates[i] = ToQasmGate(ir.gates[i], t)
    BY <1>2 DEF ToQasm
  <2> QED
    BY <1>1, <2>1, <2>2, <2>3, GateRoundTrip
<1>3. p.registers[1] = ir.num_qubits /\ Len(p.registers) = 1 /\ p.measured = ir.measurements
      /\ DOMAIN p.gates = DOMAIN ir.gates
  BY DEF ToQasm
<1>4. [i \in DOMAIN p.gates |-> FromQasmGate(p.gates[i], t)]
        = [i \in DOMAIN ir.gates |-> Kept(ir.gates[i])]
  BY <1>2, <1>3
<1>5. FromQasm(p, t) = KeptIR(ir)
  BY <1>3, <1>4 DEF FromQasm, KeptIR
<1>6. ValidIR(KeptIR(ir))
  BY <1>2 DEF ValidIR, Consistent, KeptIR, Kept
<1>7. \A i \in DOMAIN p.gates : IRGate(p.gates[i], t) # "none"
  <2>1. ASSUME NEW i \in DOMAIN ir.gates PROVE ir.gates[i].gate # "none"
    <3>1. ir.gates[i] \in GateOp
      BY <1>1, <2>1
    <3> QED
      BY <3>1 DEF GateOp, NativeGates
  <2> QED
    BY <1>2, <1>3, <2>1
<1> QED
  BY <1>3, <1>5, <1>6, <1>7 DEF RoundTrips, Accepted
=============================================================================
