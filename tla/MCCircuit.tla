------------------------------ MODULE MCCircuit ------------------------------
(* An instance of the consumer with its circuits for TLC: one circuit that *)
(* validation accepts and one that it must not.                            *)
EXTENDS MCConsumer, JobCircuits

\* Angles in units of -pi/2 / 4: printing loses the last digit of 3.
SomeAngles == 0 .. 4
Rounding == [a \in SomeAngles |-> IF a = 3 THEN 2 ELSE a]

Bell ==
  [target |-> "cz", num_qubits |-> 2,
   gates |-> <<[gate |-> "ry", qubits |-> <<0>>, params |-> <<4>>],
               [gate |-> "cz", qubits |-> <<0, 1>>, params |-> <<>>]>>,
   measurements |-> <<0, 1>>]
\* one qubit more than the register has
PastTheRegister == [Bell EXCEPT !.num_qubits = 1, !.measurements = <<0>>]

\* Every circuit of at most one gate over few angles: what RoundTrip states for
\* every circuit, evaluated.
SmallOps ==
  [gate : NativeGates, qubits : {<<0>>, <<1>>, <<0, 1>>},
   params : {<<>>, <<0>>, <<3>>, <<4>>}]
SmallCircuits ==
  [target : Targets, num_qubits : 0 .. 2, gates : {<<>>} \union {<<op>> : op \in SmallOps},
   measurements : {<<>>, <<1>>}]

ASSUME SmallRoundTrips ==
  \A ir \in SmallCircuits : ValidIR(ir) /\ Serializable(ir) => RoundTrips(ir)

Message(circuit) == [keys |-> TRUE, schema |-> TRUE, ir |-> circuit]

BellAndBeyond == <<Message(Bell), Message(PastTheRegister)>>
=============================================================================
