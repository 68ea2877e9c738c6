------------------------------- MODULE Circuit -------------------------------
(***************************************************************************)
(* The circuits the jobs carry: validation of the native-gate IR           *)
(* (coda_node/server/ir.py), which decides what a message is to the        *)
(* consumer, and the translation to OpenQASM and back (qasm.py).  Text is  *)
(* abstracted to what the parser takes from it, an angle to a value that   *)
(* printing may round.                                                     *)
(***************************************************************************)
EXTENDS Integers, Sequences

CONSTANTS
  Angles,         \* values of gate parameters
  Zero,           \* 0.0
  MinusHalfPi,    \* -_HALF_PI
  CloseToIt,      \* angles that math.isclose takes for it
  FormatFloat     \* the angle read back from the 15 digits _format_float prints

ASSUME AnglesAssumption ==
  /\ Zero \in Angles /\ MinusHalfPi \in Angles
  /\ FormatFloat \in [Angles -> Angles]
  /\ FormatFloat[MinusHalfPi] \in CloseToIt

-----------------------------------------------------------------------------
(* ir.py *)

NativeGates == {"rx", "ry", "rz", "cz", "iswap", "cp", "id", "x90", "y_minus_90",
                "virtual_z", "cnot"}

\* GATE_SPECS
QubitCount(g) == IF g \in {"cz", "iswap", "cp", "cnot"} THEN 2 ELSE 1
ParamCount(g) == IF g \in {"rx", "ry", "rz", "cp", "id", "virtual_z"} THEN 1 ELSE 0

\* LEGAL_GATES
Targets == {"cz", "iswap", "pcz", "cnot"}
LegalGates(t) ==
  {"rx", "ry", "rz", "id"} \union
  CASE t = "cz" -> {"cz"}
    [] t = "iswap" -> {"iswap"}
    [] t = "pcz" -> {"cp"}
    [] t = "cnot" -> {"x90", "y_minus_90", "virtual_z", "cnot"}

GateOp == [gate : NativeGates, qubits : Seq(Int), params : Seq(Angles)]
NativeGateIR == [target : STRING, num_qubits : Int, gates : Seq(GateOp),
                 measurements : Seq(Int)]

\* validate_gate_shape
GateShape(op) ==
  Len(op.qubits) = QubitCount(op.gate) /\ Len(op.params) = ParamCount(op.gate)

InRange(qubits, n) == \A i \in DOMAIN qubits : qubits[i] \in 0 .. n - 1

\* Mutant: the qubits of the gates are not compared with the register.
LegalAnywhere(ir) ==
  /\ \A i \in DOMAIN ir.gates : ir.gates[i].gate \in LegalGates(ir.target)
  /\ InRange(ir.measurements, ir.num_qubits)

\* validate_consistency
Consistent(ir) ==
  /\ \A i \in DOMAIN ir.gates :
       /\ ir.gates[i].gate \in LegalGates(ir.target)
       /\ InRange(ir.gates[i].qubits, ir.num_qubits)
  /\ InRange(ir.measurements, ir.num_qubits)

\* What construction of a NativeGateIR checks, its fields first.
ValidIR(ir) ==
  /\ ir.target \in Targets /\ ir.num_qubits \in 1 .. 50
  /\ \A i \in DOMAIN ir.gates : GateShape(ir.gates[i])
  /\ Consistent(ir)

\* What a message is to the consumer.  Its fields: job_id and callback_url are
\* there; ir_json has the schema and shots is a number; the circuit.
KindOf(message) ==
  IF ~message.keys THEN "noKeys"
  ELSE IF message.schema /\ ValidIR(message.ir) THEN "ok" ELSE "badIR"

-----------------------------------------------------------------------------
(* qasm.py.  A program is the list of its register sizes, of its gate lines *)
(* and of the qubits its measure lines read, each in the order of the text. *)

\* The OpenQASM name of an IR gate, for the gates and targets that have one.
\* virtual_z is in the table of cz although no valid circuit for cz has it.
QasmName(g, t) ==
  CASE t = "cz" /\ g \in {"rx", "ry", "rz", "cz", "id"} -> g
    [] t = "cz" /\ g = "virtual_z" -> "rz"
    [] t = "cnot" /\ g = "x90" -> "sx"
    [] t = "cnot" /\ g = "y_minus_90" -> "ry"
    [] t = "cnot" /\ g = "virtual_z" -> "rz"
    [] t = "cnot" /\ g = "cnot" -> "cx"
    [] t = "cnot" /\ g = "id" -> "id"
    [] OTHER -> "none"

Printed(params) == [j \in DOMAIN params |-> FormatFloat[params[j]]]

\* _ir_gate_to_openqasm: parameters are printed with the rotations only, and
\* y_minus_90 gets the angle it stands for.
ToQasmGate(op, t) ==
  [name |-> QasmName(op.gate, t),
   params |-> IF op.gate \in {"rx", "ry", "rz", "virtual_z"} THEN Printed(op.params)
              ELSE IF op.gate = "y_minus_90" THEN <<FormatFloat[MinusHalfPi]>>
              ELSE <<>>,
   qubits |-> op.qubits]

\* ir_to_openqasm raises unless every gate has a mapping.
Serializable(ir) ==
  \A i \in DOMAIN ir.gates : QasmName(ir.gates[i].gate, ir.target) # "none"

ToQasm(ir) ==
  [registers |-> <<ir.num_qubits>>,
   gates |-> [i \in DOMAIN ir.gates |-> ToQasmGate(ir.gates[i], ir.target)],
   measured |-> ir.measurements]

\* The IR gate for a gate line; ry is y_minus_90 on cnot, if its angle is that.
IRGate(q, t) ==
  CASE t = "cz" /\ q.name \in {"rx", "ry", "rz", "cz", "id"} -> q.name
    [] t = "cnot" /\ q.name = "sx" -> "x90"
    [] t = "cnot" /\ q.name = "rz" -> "virtual_z"
    [] t = "cnot" /\ q.name = "cx" -> "cnot"
    [] t = "cnot" /\ q.name = "id" -> "id"
    [] t = "cnot" /\ q.name = "ry" /\ Len(q.params) = 1 /\ q.params[1] \in CloseToIt -> "y_minus_90"
    [] OTHER -> "none"

\* _openqasm_gate_to_ir: the duration of id is lost, parameters of gates that
\* have none are ignored.
FromQasmGate(q, t) ==
  LET g == IRGate(q, t) IN
  [gate |-> g,
   params |-> IF g = "id" THEN <<Zero>>
              ELSE IF g \in {"rx", "ry", "rz", "virtual_z"} THEN q.params
              ELSE <<>>,
   qubits |-> q.qubits]

\* What openqasm_to_ir builds for a target, if it accepts the program.
FromQasm(p, t) ==
  [target |-> t, num_qubits |-> p.registers[1],
   gates |-> [i \in DOMAIN p.gates |-> FromQasmGate(p.gates[i], t)],
   measurements |-> p.measured]

\* It accepts one register, gates with a mapping, and a circuit that is valid.
Accepted(p, t) ==
  /\ Len(p.registers) = 1
  /\ \A i \in DOMAIN p.gates : IRGate(p.gates[i], t) # "none"
  /\ ValidIR(FromQasm(p, t))

-----------------------------------------------------------------------------
(* What the round trip is to give back *)

\* The operation itself, its angles as printed and id without a duration.
Kept(op) ==
  [gate |-> op.gate, qubits |-> op.qubits,
   params |-> IF op.gate = "id" THEN <<Zero>> ELSE Printed(op.params)]

KeptIR(ir) ==
  [target |-> ir.target, num_qubits |-> ir.num_qubits,
   gates |-> [i \in DOMAIN ir.gates |-> Kept(ir.gates[i])],
   measurements |-> ir.measurements]

RoundTrips(ir) ==
  Accepted(ToQasm(ir), ir.target) /\ FromQasm(ToQasm(ir), ir.target) = KeptIR(ir)
=============================================================================
