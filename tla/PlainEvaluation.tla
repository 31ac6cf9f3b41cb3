-------------------------- MODULE PlainEvaluation --------------------------
(***************************************************************************)
(* What a garbled circuit promises: to compute what the circuit computes   *)
(* in the clear.  A circuit is built, garbling it succeeds or is refused,  *)
(* and then the circuit is evaluated on the bits of its input wires, gate  *)
(* after gate, any number of times.  An evaluation may be refused before   *)
(* it starts; once it has started it can only go on.                       *)
(***************************************************************************)
EXTENDS BooleanCircuit

VARIABLES
  given,     \* the bits of the input wires in this evaluation
  bits,      \* the bit of every wire so far
  walked,    \* gates evaluated so far
  outputs    \* the bits of the output wires

plainVars == <<circuit, stage, given, bits, walked, outputs>>

(* The inputs of one evaluation, and the constants of the circuit.         *)
InitialBits(input_bits) ==
  [w \in ToSet(circuit.input_wires) \cup DOMAIN ConstantBit |->
     IF w \in ToSet(circuit.input_wires) THEN input_bits[w] ELSE ConstantBit[w]]

Init ==
  /\ BuilderInit
  /\ given = NoEntries
  /\ bits = NoEntries
  /\ walked = 0
  /\ outputs = <<>>

(* How the circuit comes about is the builder's business.                  *)
Describe ==
  /\ stage = "build"
  /\ stage' \in {"build", "build_threw", "garble"}
  /\ UNCHANGED <<given, bits, walked, outputs>>

Prepare ==
  /\ stage = "garble"
  /\ stage' = "ready"
  /\ UNCHANGED <<circuit, given, bits, walked, outputs>>

Start(input_bits) ==
  /\ stage \in {"ready", "evaluated"}
  /\ given' = input_bits
  /\ bits' = InitialBits(input_bits)
  /\ walked' = 0
  /\ outputs' = <<>>
  /\ stage' = "evaluate"
  /\ UNCHANGED circuit

EvaluateNext ==
  /\ stage = "evaluate"
  /\ walked < Len(circuit.gates)
  /\ LET gate == circuit.gates[walked + 1]
     IN  /\ SetOn(bits, gate.inputs)
         /\ bits' = Assign(bits, gate.output,
                           EvalGate(gate.kind, Images(bits, gate.inputs)))
  /\ walked' = walked + 1
  /\ UNCHANGED <<circuit, stage, given, outputs>>

ReadOutputs ==
  /\ stage = "evaluate"
  /\ walked = Len(circuit.gates)
  /\ SetOn(bits, circuit.output_wires)
  /\ outputs' = Images(bits, circuit.output_wires)
  /\ stage' = "evaluated"
  /\ UNCHANGED <<circuit, given, bits, walked>>

Refuse ==
  /\ stage \in {"garble", "ready", "evaluated"}
  /\ stage' = "refused"
  /\ given' = NoEntries
  /\ bits' = NoEntries
  /\ walked' = 0
  /\ outputs' = <<>>
  /\ UNCHANGED circuit

Next ==
  \/ Describe
  \/ Prepare
  \/ \E input_bits \in [ToSet(circuit.input_wires) -> BOOLEAN] :
       Start(input_bits)
  \/ EvaluateNext
  \/ ReadOutputs
  \/ Refuse

Spec == Init /\ [][Next]_plainVars
=============================================================================
