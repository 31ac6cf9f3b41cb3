----------------------- MODULE MinimalGarbledCircuit -----------------------
(***************************************************************************)
(* The table backend, used when EMP is not built in: Garble encrypts, for  *)
(* every gate and every row of its truth table, the label of the output    *)
(* under the labels of the inputs; EvaluateLabels looks for the row that   *)
(* opens under the labels it holds.  The evaluator needs the artifact only.*)
(*                                                                         *)
(* A label is its wire and its bit (MakeLabel, without collisions), and a  *)
(* row opens under exactly the labels it was encrypted with: what          *)
(* DerivePad and LabelTag achieve unless their 64-bit hashes collide.      *)
(***************************************************************************)
EXTENDS BooleanCircuit

VARIABLES
  artifact,       \* GarbledCircuitArtifact
  wire_labels,    \* EvaluateLabels' map: wire -> the label it holds
  input_bits,     \* the bits given to EncodeInputs
  gate_index,     \* gates walked so far, by Garble or by EvaluateLabels
  outputs         \* DecodeOutputs' result

evalVars == <<wire_labels, input_bits, outputs>>
vars == <<circuit, stage, artifact, evalVars, gate_index>>

MakeLabel(wire, bit) == <<wire, bit>>

NoArtifact ==
  [input_wires |-> <<>>, output_wires |-> <<>>,
   public_input_labels |-> NoEntries, constant_labels |-> NoEntries,
   output_decoding |-> NoEntries, gates |-> <<>>]

(* The walk's next gate: Garble reads the circuit's, EvaluateLabels the    *)
(* artifact's.                                                             *)
Gate(gates) == gates[gate_index + 1]

-----------------------------------------------------------------------------
(* Garble                                                                  *)

GarbleWires ==
  /\ stage = "garble"
  /\ artifact' = [NoArtifact EXCEPT
       !.input_wires = circuit.input_wires,
       !.output_wires = circuit.output_wires,
       !.public_input_labels =
          [w \in ToSet(circuit.input_wires) |->
             [bit \in BOOLEAN |-> MakeLabel(w, bit)]],
       !.constant_labels =
          [w \in DOMAIN ConstantBit |-> MakeLabel(w, ConstantBit[w])],
       !.output_decoding =
          [w \in ToSet(circuit.output_wires) |->
             [label \in {MakeLabel(w, bit) : bit \in BOOLEAN} |-> label[2]]]]
  /\ gate_index' = 0
  /\ stage' = "garble_gates"
  /\ UNCHANGED <<circuit, evalVars>>

(* Bit i of a row of the truth table is the value of the gate's input i.   *)
RowBits(row, count) == [i \in 1 .. count |-> (row \div 2^(i - 1)) % 2 = 1]

(* Mutant: the labels of a row are chosen by the bits in reverse.          *)
TableRowReversed(gate, row) ==
  LET bits == RowBits(row, Len(gate.inputs))
  IN  [opens_with |-> [i \in DOMAIN bits |->
                         MakeLabel(gate.inputs[i], bits[Len(bits) + 1 - i])],
       label |-> MakeLabel(gate.output, EvalGate(gate.kind, bits))]

TableRow(gate, row) ==
  LET bits == RowBits(row, Len(gate.inputs))
  IN  [opens_with |-> [i \in DOMAIN bits |-> MakeLabel(gate.inputs[i], bits[i])],
       label |-> MakeLabel(gate.output, EvalGate(gate.kind, bits))]

(* Mutant: the row in which every input is TRUE is left out.               *)
GarbleTableShort(gate) ==
  LET rows == 2^Len(gate.inputs) - 1
  IN  [j \in 1 .. rows |-> TableRow(gate, rows - j)]

(* The table, last row first.                                              *)
GarbleTable(gate) ==
  LET rows == 2^Len(gate.inputs)
  IN  [j \in 1 .. rows |-> TableRow(gate, rows - j)]

GarbleGate ==
  /\ stage = "garble_gates"
  /\ gate_index < Len(circuit.gates)
  /\ LET gate == Gate(circuit.gates)
     IN  /\ Len(gate.inputs) = Arity(gate.kind)
         /\ artifact' = [artifact EXCEPT !.gates = Append(@,
              [inputs |-> gate.inputs, output |-> gate.output,
               table |-> GarbleTable(gate)])]
  /\ gate_index' = gate_index + 1
  /\ UNCHANGED <<circuit, stage, evalVars>>

(* EvalGate throws on a wrong number of inputs; there is no artifact then. *)
GarbleGateThrows ==
  /\ stage = "garble_gates"
  /\ gate_index < Len(circuit.gates)
  /\ Len(Gate(circuit.gates).inputs) # Arity(Gate(circuit.gates).kind)
  /\ artifact' = NoArtifact
  /\ stage' = "garble_threw"
  /\ UNCHANGED <<circuit, evalVars, gate_index>>

GarbleReturns ==
  /\ stage = "garble_gates"
  /\ gate_index = Len(circuit.gates)
  /\ stage' = "garbled"
  /\ UNCHANGED <<circuit, artifact, evalVars, gate_index>>

-----------------------------------------------------------------------------
(* EncodeInputs, EvaluateLabels and DecodeOutputs, in the order in which   *)
(* the runtime calls them, once per iteration.                             *)

EncodeInputs(bits) ==
  /\ stage \in {"garbled", "evaluated"}
  /\ ToSet(artifact.input_wires) \subseteq DOMAIN bits
  /\ input_bits' = bits
  /\ wire_labels' =
       [w \in ToSet(artifact.input_wires) \cup DOMAIN artifact.constant_labels |->
          IF w \in ToSet(artifact.input_wires)
          THEN artifact.public_input_labels[w][bits[w]]
          ELSE artifact.constant_labels[w]]
  /\ gate_index' = 0
  /\ outputs' = <<>>
  /\ stage' = "evaluate_gates"
  /\ UNCHANGED <<circuit, artifact>>

EncodeInputsThrows(bits) ==
  /\ stage \in {"garbled", "evaluated"}
  /\ ~(ToSet(artifact.input_wires) \subseteq DOMAIN bits)
  /\ input_bits' = bits
  /\ stage' = "evaluate_threw"
  /\ UNCHANGED <<circuit, artifact, wire_labels, gate_index, outputs>>

Held(gate) == Images(wire_labels, gate.inputs)

Opens(gate) ==
  {j \in DOMAIN gate.table : gate.table[j].opens_with = Held(gate)}

(* The first row that opens gives the label.                               *)
EvaluateGate ==
  /\ stage = "evaluate_gates"
  /\ gate_index < Len(artifact.gates)
  /\ LET gate == Gate(artifact.gates)
     IN  /\ SetOn(wire_labels, gate.inputs)
         /\ \E j \in Opens(gate) :
              /\ \A k \in Opens(gate) : j <= k
              /\ wire_labels' = Assign(wire_labels, gate.output,
                                       gate.table[j].label)
  /\ gate_index' = gate_index + 1
  /\ UNCHANGED <<circuit, stage, artifact, input_bits, outputs>>

Decodable(wire) ==
  /\ wire \in DOMAIN wire_labels
  /\ wire_labels[wire] \in DOMAIN artifact.output_decoding[wire]

AllDecodable == \A wire \in ToSet(artifact.output_wires) : Decodable(wire)

DecodeOutputs ==
  /\ stage = "evaluate_gates"
  /\ gate_index = Len(artifact.gates)
  /\ AllDecodable
  /\ outputs' = [j \in 1 .. Len(artifact.output_wires) |->
       artifact.output_decoding[artifact.output_wires[j]]
                               [wire_labels[artifact.output_wires[j]]]]
  /\ stage' = "evaluated"
  /\ UNCHANGED <<circuit, artifact, wire_labels, input_bits, gate_index>>

-----------------------------------------------------------------------------

Init ==
  /\ BuilderInit
  /\ artifact = NoArtifact
  /\ wire_labels = NoEntries
  /\ input_bits = NoEntries
  /\ gate_index = 0
  /\ outputs = <<>>

Next ==
  \/ BuilderNext /\ UNCHANGED <<artifact, evalVars, gate_index>>
  \/ GarbleWires
  \/ GarbleGate
  \/ GarbleGateThrows
  \/ GarbleReturns
  \/ \E bits \in InputBits : EncodeInputs(bits)
  \/ \E bits \in InputBits : EncodeInputsThrows(bits)
  \/ EvaluateGate
  \/ DecodeOutputs

Spec == Init /\ [][Next]_vars

-----------------------------------------------------------------------------

(* The labels held, read as the bits they stand for.  A label of another   *)
(* wire stands for none.                                                   *)
BitsHeld ==
  [w \in {v \in DOMAIN wire_labels :
            wire_labels[v] \in {MakeLabel(v, bit) : bit \in BOOLEAN}} |->
     wire_labels[w] = MakeLabel(w, TRUE)]

Evaluating == stage \in {"evaluate_gates", "evaluated"}

ClearStage ==
  CASE stage = "garble_gates"                      -> "garble"
    [] stage = "garbled"                           -> "ready"
    [] stage = "evaluate_gates"                    -> "evaluate"
    [] stage \in {"garble_threw", "evaluate_threw"} -> "refused"
    [] OTHER                                       -> stage

ClearInputs  == IF Evaluating THEN input_bits ELSE NoEntries
ClearBits    == IF Evaluating THEN BitsHeld   ELSE NoEntries
ClearWalked  == IF Evaluating THEN gate_index ELSE 0
ClearOutputs == IF Evaluating THEN outputs    ELSE <<>>

Plain == INSTANCE PlainEvaluation WITH
  stage <- ClearStage, given <- ClearInputs, bits <- ClearBits,
  walked <- ClearWalked, outputs <- ClearOutputs

(* Evaluation on labels is evaluation in the clear, gate by gate: every    *)
(* wire that EvaluateLabels has set holds the label of that wire's plain   *)
(* bit and of no other wire (a row of the table pairs the labels of its    *)
(* input bits, in the order of the gate's inputs, with the label of the    *)
(* output bit), an evaluation that has started does not throw, and what it *)
(* decodes are the circuit's outputs on the bits given, in the order of    *)
(* the outputs, on the first and on every later evaluation.                *)
ImplementsPlainEvaluation == Plain!Spec

(* Exactly one row of the next gate's table opens, also when a gate reads  *)
(* one wire twice, and at the end every output decodes: EvaluateLabels and *)
(* DecodeOutputs have no throw left that an artifact of Garble can reach.  *)
WalkNeverThrows ==
  stage = "evaluate_gates" =>
    IF gate_index < Len(artifact.gates)
    THEN LET gate == Gate(artifact.gates)
         IN  SetOn(wire_labels, gate.inputs) /\ Cardinality(Opens(gate)) = 1
    ELSE AllDecodable
=============================================================================
