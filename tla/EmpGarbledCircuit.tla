------------------------- MODULE EmpGarbledCircuit -------------------------
(***************************************************************************)
(* The half-gate backend.  EmpGarbledCircuit::Garble walks the circuit and *)
(* writes a transcript; Evaluate, in another process, walks the shape file *)
(* that setup wrote, on the labels of one input, and reads the transcript  *)
(* back in the same order.  Nothing in an entry says which gate it is for. *)
(*                                                                         *)
(* A label is a formal sum (exclusive or) of independent random blocks,    *)
(* written as the set of the blocks in it: two labels are equal exactly    *)
(* when the sets are.                                                      *)
(***************************************************************************)
EXTENDS BooleanCircuit

VARIABLES
  shape,           \* the circuit shape file
  artifact,        \* the artifact file, EmpGarbledCircuitArtifact
  zero_labels,     \* Garble's map: wire -> the label that stands for FALSE
  active_labels,   \* Evaluate's map: wire -> the label it holds
  input_bits,      \* Evaluate's argument
  read_cursor,     \* Evaluate's place in the transcript
  gate_index,      \* gates walked so far, by Garble or by Evaluate
  outputs          \* Evaluate's result

garbleVars == <<artifact, zero_labels, shape>>
evalVars == <<active_labels, input_bits, read_cursor, outputs>>
vars == <<circuit, stage, garbleVars, evalVars, gate_index>>

Delta == {<<"delta", 0>>}

(* Exclusive or of two blocks.                                             *)
Plus(lhs, rhs) == (lhs \ rhs) \cup (rhs \ lhs)

LabelOne(label_zero) == Plus(label_zero, Delta)

LabelOf(label_zero, bit) == IF bit THEN LabelOne(label_zero) ELSE label_zero

(* One RandomBlock per input and per constant; the output of the n-th AND  *)
(* gate is a hash and as good as a new block.                              *)
RandomBlock(wire) == {<<"wire", wire>>}
AndBlock(n) == {<<"and", n>>}

NoArtifact ==
  [input_wires |-> <<>>, output_wires |-> <<>>,
   public_input_labels |-> NoEntries, constant_labels |-> NoEntries,
   output_zero_labels |-> NoEntries, transcript |-> <<>>]

(* The gate that a walk over `gates` reaches next.                         *)
Gate(gates) == gates[gate_index + 1]

WellFormed(gate) == Len(gate.inputs) = Arity(gate.kind)

(* WriteBooleanCircuitShape keeps the ids of the constants and drops their *)
(* bits; ReadBooleanCircuitShape sets them all to false.                   *)
ShapeOf(built) ==
  [built EXCEPT
     !.constant_wires = [w \in DOMAIN @ |-> FALSE],
     !.secret_constant_wires = [w \in DOMAIN @ |-> FALSE]]

-----------------------------------------------------------------------------
(* HalfGateGen and HalfGateEva of the EMP library.  and_gate writes one    *)
(* entry (two blocks); the evaluator's and_gate turns the labels of that   *)
(* gate into the label of their conjunction, and any others into noise.    *)

AndEntry(lhs_zero, rhs_zero, n) ==
  [lhs |-> lhs_zero, rhs |-> rhs_zero, out |-> AndBlock(n)]

Noise(n) == {<<"noise", n>>}

AndGateEva(entry, lhs, rhs, n) ==
  IF lhs \in {entry.lhs, LabelOne(entry.lhs)}
       /\ rhs \in {entry.rhs, LabelOne(entry.rhs)}
  THEN LabelOf(entry.out, lhs # entry.lhs /\ rhs # entry.rhs)
  ELSE Noise(n)

-----------------------------------------------------------------------------
(* Garble                                                                  *)

InitialZeroLabels ==
  [w \in ToSet(circuit.input_wires) \cup DOMAIN ConstantBit |-> RandomBlock(w)]

(* Setup writes the shape before it garbles.                               *)
GarbleWires ==
  /\ stage = "garble"
  /\ shape' = ShapeOf(circuit)
  /\ zero_labels' = InitialZeroLabels
  /\ artifact' = [NoArtifact EXCEPT
       !.input_wires = circuit.input_wires,
       !.output_wires = circuit.output_wires,
       !.public_input_labels =
          [w \in ToSet(circuit.input_wires) |->
             [bit \in BOOLEAN |-> LabelOf(InitialZeroLabels[w], bit)]],
       !.constant_labels =
          [w \in DOMAIN ConstantBit |->
             LabelOf(InitialZeroLabels[w], ConstantBit[w])]]
  /\ gate_index' = 0
  /\ stage' = "garble_gates"
  /\ UNCHANGED <<circuit, evalVars>>

(* The zero label of a gate's output, from those of its inputs in order.   *)
OutputZero(kind, zeros, transcript) ==
  CASE kind = "And" -> AndBlock(Len(transcript) + 1)
    [] kind = "Xor" -> Plus(zeros[1], zeros[2])
    [] kind = "Not" -> zeros[1]
    [] kind = "Output" -> zeros[1]

Garbleable(gate) ==
  WellFormed(gate) /\ gate.kind # "Mux" /\ SetOn(zero_labels, gate.inputs)

GarbleGate ==
  /\ stage = "garble_gates"
  /\ gate_index < Len(circuit.gates)
  /\ Garbleable(Gate(circuit.gates))
  /\ LET gate == Gate(circuit.gates)
         zeros == Images(zero_labels, gate.inputs)
         transcript == artifact.transcript
     IN  /\ zero_labels' = Assign(zero_labels, gate.output,
                                  OutputZero(gate.kind, zeros, transcript))
         /\ artifact' = [artifact EXCEPT !.transcript =
              IF gate.kind = "And"
              THEN Append(@, AndEntry(zeros[1], zeros[2], Len(@) + 1))
              ELSE @]
  /\ gate_index' = gate_index + 1
  /\ UNCHANGED <<circuit, shape, stage, evalVars>>

(* A wrong number of inputs, a MUX gate, an unset wire: no artifact.       *)
GarbleGateThrows ==
  /\ stage = "garble_gates"
  /\ gate_index < Len(circuit.gates)
  /\ ~Garbleable(Gate(circuit.gates))
  /\ stage' = "garble_threw"
  /\ artifact' = NoArtifact
  /\ UNCHANGED <<circuit, shape, zero_labels, evalVars, gate_index>>

GarbleOutputs ==
  /\ stage = "garble_gates"
  /\ gate_index = Len(circuit.gates)
  /\ SetOn(zero_labels, circuit.output_wires)
  /\ artifact' = [artifact EXCEPT !.output_zero_labels =
       [w \in ToSet(circuit.output_wires) |-> zero_labels[w]]]
  /\ stage' = "garbled"
  /\ UNCHANGED <<circuit, shape, zero_labels, evalVars, gate_index>>

(* A later setup into the same directory that stops before its artifact is *)
(* written leaves the shape of another circuit: here one that lost, gained *)
(* or changed its last gate, or gained an output.                          *)
OtherShapes ==
  LET gates == shape.gates
      last == Len(gates)
  IN  {[shape EXCEPT !.output_wires = Append(@, 0)]}
      \cup {[shape EXCEPT !.gates = SubSeq(gates, 1, last - 1)]}
      \cup {[shape EXCEPT !.gates[last].kind = kind] :
              kind \in BitGateKind \ {gates[last].kind}}
      \cup {[shape EXCEPT !.wires = @ + 1,
               !.gates = Append(@, [gates[last] EXCEPT !.output = shape.wires])]}

SetupStopsAfterShape ==
  /\ stage = "garbled"
  /\ Len(shape.gates) > 0
  /\ shape' \in OtherShapes
  /\ stage' = "garbled_shape_replaced"
  /\ UNCHANGED <<circuit, artifact, zero_labels, evalVars, gate_index>>

-----------------------------------------------------------------------------
(* Evaluate; the runtime calls it once per iteration on one artifact.      *)

Evaluable == {"garbled", "garbled_shape_replaced", "evaluated"}

CountsMatch ==
  /\ Len(artifact.input_wires) = Len(shape.input_wires)
  /\ Len(artifact.output_wires) = Len(shape.output_wires)

EvaluateInputs(bits) ==
  /\ stage \in Evaluable
  /\ CountsMatch
  /\ ToSet(artifact.input_wires) \subseteq DOMAIN bits
  /\ input_bits' = bits
  /\ active_labels' =
       [w \in ToSet(artifact.input_wires) \cup DOMAIN artifact.constant_labels |->
          IF w \in ToSet(artifact.input_wires)
          THEN artifact.public_input_labels[w][bits[w]]
          ELSE artifact.constant_labels[w]]
  /\ read_cursor' = 0
  /\ gate_index' = 0
  /\ outputs' = <<>>
  /\ stage' = "evaluate_gates"
  /\ UNCHANGED <<circuit, garbleVars>>

EvaluateInputsThrow(bits) ==
  /\ stage \in Evaluable
  /\ ~CountsMatch \/ ~(ToSet(artifact.input_wires) \subseteq DOMAIN bits)
  /\ input_bits' = bits
  /\ stage' = "evaluate_threw"
  /\ UNCHANGED <<circuit, garbleVars, active_labels, read_cursor, gate_index,
                 outputs>>

(* Mutant: NOT leaves the active label, as Garble leaves the zero label.   *)
NotGateEvaKept(label) == label

(* Free NOT: the evaluator adds delta, and Garble left the zero label.     *)
NotGateEva(label) == LabelOne(label)

(* Mutant: the cursor stays where it is.                                   *)
CursorAfterStuck(kind) == read_cursor

(* recv_block moves the cursor past the entry that an AND gate reads.      *)
CursorAfter(kind) ==
  IF kind = "And" THEN read_cursor + 1 ELSE read_cursor

(* RequireWireLabel, the arity checks and the transcript's underflow.      *)
Walkable(gate) ==
  /\ WellFormed(gate) /\ gate.kind # "Mux" /\ SetOn(active_labels, gate.inputs)
  /\ gate.kind = "And" => read_cursor < Len(artifact.transcript)

EvaluateGate ==
  /\ stage = "evaluate_gates"
  /\ gate_index < Len(shape.gates)
  /\ Walkable(Gate(shape.gates))
  /\ LET gate == Gate(shape.gates)
         held == Images(active_labels, gate.inputs)
         output_label ==
           CASE gate.kind = "And" ->
                  AndGateEva(artifact.transcript[read_cursor + 1],
                             held[1], held[2], read_cursor)
             [] gate.kind = "Xor" -> Plus(held[1], held[2])
             [] gate.kind = "Not" -> NotGateEva(held[1])
             [] gate.kind = "Output" -> held[1]
     IN  /\ active_labels' = Assign(active_labels, gate.output, output_label)
         /\ read_cursor' = CursorAfter(gate.kind)
  /\ gate_index' = gate_index + 1
  /\ UNCHANGED <<circuit, stage, garbleVars, input_bits, outputs>>

(* A label that is neither of the output's two labels is not decoded.      *)
Decodable(wire) ==
  /\ wire \in DOMAIN active_labels
  /\ active_labels[wire] \in {artifact.output_zero_labels[wire],
                              LabelOne(artifact.output_zero_labels[wire])}

AllDecodable == \A wire \in ToSet(artifact.output_wires) : Decodable(wire)

EvaluateOutputs ==
  /\ stage = "evaluate_gates"
  /\ gate_index = Len(shape.gates)
  /\ AllDecodable
  /\ outputs' = [j \in 1 .. Len(artifact.output_wires) |->
       active_labels[artifact.output_wires[j]]
         # artifact.output_zero_labels[artifact.output_wires[j]]]
  /\ stage' = "evaluated"
  /\ UNCHANGED <<circuit, garbleVars, active_labels, input_bits, read_cursor,
                 gate_index>>

Stuck ==
  IF gate_index < Len(shape.gates) THEN ~Walkable(Gate(shape.gates))
                                   ELSE ~AllDecodable

EvaluateThrows ==
  /\ stage = "evaluate_gates"
  /\ Stuck
  /\ stage' = "evaluate_threw"
  /\ UNCHANGED <<circuit, garbleVars, evalVars, gate_index>>

-----------------------------------------------------------------------------

Init ==
  /\ BuilderInit
  /\ shape = EmptyCircuit
  /\ artifact = NoArtifact
  /\ zero_labels = NoEntries
  /\ active_labels = NoEntries
  /\ input_bits = NoEntries
  /\ read_cursor = 0
  /\ gate_index = 0
  /\ outputs = <<>>

Next ==
  \/ BuilderNext /\ UNCHANGED <<garbleVars, evalVars, gate_index>>
  \/ GarbleWires
  \/ GarbleGate
  \/ GarbleGateThrows
  \/ GarbleOutputs
  \/ SetupStopsAfterShape
  \/ \E bits \in InputBits : EvaluateInputs(bits)
  \/ \E bits \in InputBits : EvaluateInputsThrow(bits)
  \/ EvaluateGate
  \/ EvaluateOutputs
  \/ EvaluateThrows

Spec == Init /\ [][Next]_vars

-----------------------------------------------------------------------------

ShapeIsOfArtifact == shape = ShapeOf(circuit)

(* The labels held, read as the bits they stand for under the zero labels  *)
(* of Garble.  Any other label stands for none.                            *)
BitsHeld ==
  [w \in {v \in DOMAIN active_labels \cap DOMAIN zero_labels :
            active_labels[v] \in {zero_labels[v], LabelOne(zero_labels[v])}} |->
     active_labels[w] = LabelOne(zero_labels[w])]

Evaluating ==
  /\ stage \in {"evaluate_gates", "evaluated"}
  /\ ShapeIsOfArtifact

ClearStage ==
  CASE stage = "garble_gates"                          -> "garble"
    [] stage = "garbled"                               -> "ready"
    [] stage = "evaluate_gates" /\ Evaluating          -> "evaluate"
    [] stage = "evaluated" /\ Evaluating               -> stage
    [] stage \in {"build", "build_threw", "garble"}    -> stage
    [] OTHER                                           -> "refused"

ClearInputs  == IF Evaluating THEN input_bits ELSE NoEntries
ClearBits    == IF Evaluating THEN BitsHeld   ELSE NoEntries
ClearWalked  == IF Evaluating THEN gate_index ELSE 0
ClearOutputs == IF Evaluating THEN outputs    ELSE <<>>

Plain == INSTANCE PlainEvaluation WITH
  stage <- ClearStage, given <- ClearInputs, bits <- ClearBits,
  walked <- ClearWalked, outputs <- ClearOutputs

(* While Evaluate walks the shape of the circuit that was garbled, it does *)
(* what an evaluation in the clear does, gate by gate: every wire it has   *)
(* set holds the label of that wire's plain bit, constants with their bits *)
(* of setup time included, whatever the order of gates and however often a *)
(* wire is used, an evaluation that has started does not throw, and what   *)
(* it decodes are the circuit's outputs on the bits given, in the order of *)
(* the outputs, on the first and on every later Evaluate.                  *)
ImplementsPlainEvaluation == Plain!Spec

(* The walk reads the whole transcript: a shape with fewer AND gates is    *)
(* never noticed by the transcript's own check, so only the counts of      *)
(* gates of both walks keep the entries aligned.                           *)
TranscriptConsumed ==
  stage = "evaluated" /\ ShapeIsOfArtifact =>
    read_cursor = Len(artifact.transcript)
=============================================================================
