-------------------- MODULE MinimalGarbledCircuitProofs --------------------
(***************************************************************************)
(* The table backend computes on labels what the circuit computes in the   *)
(* clear, for every circuit the builder can describe: each step of it is a *)
(* step of PlainEvaluation or changes nothing there.                       *)
(***************************************************************************)
EXTENDS MinimalGarbledCircuit, BooleanCircuitTheorems, BitArithmetic

(* The artifact of the circuit after its first n gates.                    *)
GarbledGate(gate) ==
  [inputs |-> gate.inputs, output |-> gate.output, table |-> GarbleTable(gate)]

ArtifactOf(n) ==
  [input_wires |-> circuit.input_wires,
   output_wires |-> circuit.output_wires,
   public_input_labels |->
     [w \in ToSet(circuit.input_wires) |-> [bit \in BOOLEAN |-> MakeLabel(w, bit)]],
   constant_labels |-> [w \in DOMAIN ConstantBit |-> MakeLabel(w, ConstantBit[w])],
   output_decoding |->
     [w \in ToSet(circuit.output_wires) |->
        [label \in {MakeLabel(w, bit) : bit \in BOOLEAN} |-> label[2]]],
   gates |-> [i \in 1 .. n |-> GarbledGate(circuit.gates[i])]]

AritiesRight(n) ==
  \A i \in 1 .. n : Len(circuit.gates[i].inputs) = Arity(circuit.gates[i].kind)

Walked ==
  /\ gate_index \in 0 .. Len(circuit.gates)
  /\ artifact = ArtifactOf(gate_index)
  /\ AritiesRight(gate_index)

Whole ==
  /\ artifact = ArtifactOf(Len(circuit.gates))
  /\ AritiesRight(Len(circuit.gates))

(* What garbling has written is the artifact of the gates walked so far.   *)
GarblingInv == stage = "garble_gates" => Walked

(* The artifact that is evaluated is that of the whole circuit.            *)
GarbledInv == stage \in {"garbled", "evaluate_gates", "evaluated"} => Whole

(* The bits that labels stand for, and that all are of their own wires.    *)
BitsOf(labels) ==
  [w \in {v \in DOMAIN labels :
            labels[v] \in {MakeLabel(v, bit) : bit \in BOOLEAN}} |->
     labels[w] = MakeLabel(w, TRUE)]

OwnLabels(labels) ==
  \A w \in DOMAIN labels : labels[w] \in {MakeLabel(w, bit) : bit \in BOOLEAN}

(* A label that is held is a label of its own wire.                        *)
LabelsInv ==
  Evaluating =>
    /\ gate_index \in 0 .. Len(circuit.gates)
    /\ OwnLabels(wire_labels)

EvaluationInv == CircuitOK /\ GarblingInv /\ GarbledInv /\ LabelsInv

-----------------------------------------------------------------------------
(* Labels and rows.                                                        *)

(* Two labels of a wire are the same only if their bits are.               *)
LEMMA LabelOfBit ==
  ASSUME NEW w, NEW bit \in BOOLEAN, NEW other \in BOOLEAN,
         MakeLabel(w, bit) = MakeLabel(w, other)
  PROVE  bit = other
BY DEF MakeLabel

(* A row has one bit for every input of its gate.                          *)
LEMMA RowBitsAreBits ==
  ASSUME NEW row, NEW count \in Nat
  PROVE  RowBits(row, count) \in [1 .. count -> BOOLEAN]
BY DEF RowBits

-----------------------------------------------------------------------------
(* What a table row says.                                                  *)

(* A row pairs the labels of its bits with the label of the gate's bit.    *)
LEMMA RowPairsLabels ==
  ASSUME NEW gate \in BitGate, NEW row
  PROVE  LET n == Len(gate.inputs)
             bits == RowBits(row, n)
         IN  /\ TableRow(gate, row).opens_with =
                  [i \in 1 .. n |-> MakeLabel(gate.inputs[i], bits[i])]
             /\ TableRow(gate, row).label =
                  MakeLabel(gate.output, EvalGate(gate.kind, bits))
<1>1. Len(gate.inputs) \in Nat
  BY DEF BitGate
<1>2. DOMAIN RowBits(row, Len(gate.inputs)) = 1 .. Len(gate.inputs)
  BY DEF RowBits
<1> QED BY <1>2 DEF TableRow

(* Steps that change neither circuit nor artifact keep the artifact whole, *)
LEMMA WholeKept ==
  ASSUME Whole, UNCHANGED <<circuit, artifact>>
  PROVE  Whole'
BY DEF Whole, ArtifactOf, AritiesRight, ConstantBit

(* or as far as it was walked.                                             *)
LEMMA WalkedKept ==
  ASSUME Walked, UNCHANGED <<circuit, artifact, gate_index>>
  PROVE  Walked'
BY DEF Walked, ArtifactOf, AritiesRight, ConstantBit

(* One more gate in the artifact.                                          *)
LEMMA ArtifactGrows ==
  ASSUME NEW n \in Nat
  PROVE  ArtifactOf(n + 1) =
           [ArtifactOf(n) EXCEPT
              !.gates = Append(@, GarbledGate(circuit.gates[n + 1]))]
<1> DEFINE g(i) == GarbledGate(circuit.gates[i])
           walk(m) == [i \in 1 .. m |-> g(i)]
           public ==
             [w \in ToSet(circuit.input_wires) |->
                [bit \in BOOLEAN |-> MakeLabel(w, bit)]]
           constants == [w \in DOMAIN ConstantBit |-> MakeLabel(w, ConstantBit[w])]
           decoding ==
             [w \in ToSet(circuit.output_wires) |->
                [label \in {MakeLabel(w, bit) : bit \in BOOLEAN} |-> label[2]]]
<1>1. walk(n + 1) = Append(walk(n), g(n + 1))
  <2> HIDE DEF g
  <2>1. Len(walk(n)) = n
    OBVIOUS
  <2> QED BY <2>1
<1>2. \A m : ArtifactOf(m) =
        [input_wires |-> circuit.input_wires,
         output_wires |-> circuit.output_wires,
         public_input_labels |-> public, constant_labels |-> constants,
         output_decoding |-> decoding, gates |-> walk(m)]
  BY DEF ArtifactOf
<1> HIDE DEF public, constants, decoding, walk
<1>3. ArtifactOf(n).gates = walk(n)
  BY <1>2
<1>4. [ArtifactOf(n) EXCEPT !.gates = Append(walk(n), g(n + 1))] =
        [input_wires |-> circuit.input_wires,
         output_wires |-> circuit.output_wires,
         public_input_labels |-> public, constant_labels |-> constants,
         output_decoding |-> decoding, gates |-> Append(walk(n), g(n + 1))]
  BY <1>2
<1>5. ArtifactOf(n + 1) =
        [ArtifactOf(n) EXCEPT !.gates = Append(walk(n), g(n + 1))]
  BY <1>1, <1>2, <1>4
<1> QED BY <1>3, <1>5

-----------------------------------------------------------------------------
(* Labels and the bits they stand for.                                     *)

(* Labels of their own wires stand for the bits they are labels of.        *)
LEMMA BitsOfOwnLabels ==
  ASSUME NEW labels, OwnLabels(labels)
  PROVE  /\ DOMAIN BitsOf(labels) = DOMAIN labels
         /\ \A w \in DOMAIN labels :
              /\ BitsOf(labels)[w] \in BOOLEAN
              /\ labels[w] = MakeLabel(w, BitsOf(labels)[w])
<1>1. {v \in DOMAIN labels : labels[v] \in {MakeLabel(v, bit) : bit \in BOOLEAN}}
        = DOMAIN labels
  BY DEF OwnLabels
<1>2. DOMAIN BitsOf(labels) = DOMAIN labels
  BY <1>1 DEF BitsOf
<1>3. ASSUME NEW w \in DOMAIN labels
      PROVE  /\ BitsOf(labels)[w] \in BOOLEAN
             /\ labels[w] = MakeLabel(w, BitsOf(labels)[w])
  <2>1. BitsOf(labels)[w] = (labels[w] = MakeLabel(w, TRUE))
    BY <1>1, <1>3 DEF BitsOf
  <2>2. PICK bit \in BOOLEAN : labels[w] = MakeLabel(w, bit)
    BY <1>3 DEF OwnLabels
  <2>3. (labels[w] = MakeLabel(w, TRUE)) = bit
    <3>1. CASE bit = TRUE
      BY <2>2, <3>1
    <3>2. CASE bit = FALSE
      <4>1. labels[w] # MakeLabel(w, TRUE)
        BY <2>2, <3>2, LabelOfBit
      <4> QED BY <4>1, <3>2
    <3> QED BY <3>1, <3>2
  <2> QED BY <2>1, <2>2, <2>3
<1> QED BY <1>2, <1>3

(* The labels of given bits stand for those bits and for no others.        *)
LEMMA BitsOfLabels ==
  ASSUME NEW S, NEW bits \in [S -> BOOLEAN], NEW labels,
         DOMAIN labels = S,
         \A w \in S : labels[w] = MakeLabel(w, bits[w])
  PROVE  OwnLabels(labels) /\ BitsOf(labels) = bits
<1>1. \A w \in S : bits[w] \in BOOLEAN
  OBVIOUS
<1>2. OwnLabels(labels)
  BY <1>1 DEF OwnLabels
<1>3. /\ DOMAIN BitsOf(labels) = S
      /\ \A w \in S : /\ BitsOf(labels)[w] \in BOOLEAN
                      /\ labels[w] = MakeLabel(w, BitsOf(labels)[w])
  BY <1>2, BitsOfOwnLabels
<1>4. \A w \in S : BitsOf(labels)[w] = bits[w]
  BY <1>1, <1>3, LabelOfBit
<1>5. BitsOf(labels) = [w \in DOMAIN BitsOf(labels) |-> BitsOf(labels)[w]]
  BY DEF BitsOf
<1>6. bits = [w \in S |-> bits[w]]
  OBVIOUS
<1>7. [w \in DOMAIN BitsOf(labels) |-> BitsOf(labels)[w]] = [w \in S |-> bits[w]]
  BY <1>3, <1>4
<1> QED BY <1>2, <1>5, <1>6, <1>7

(* The two modules speak of the same circuit.                              *)
LEMMA SameWords ==
  /\ Plain!ConstantBit = ConstantBit
  /\ Plain!NoEntries = NoEntries
  /\ \A inputs : Plain!ToSet(inputs) = ToSet(inputs)
  /\ \A map, inputs : /\ Plain!Images(map, inputs) = Images(map, inputs)
                      /\ Plain!SetOn(map, inputs) = SetOn(map, inputs)
  /\ \A map, key, value :
       Plain!Assign(map, key, value) = Assign(map, key, value)
  /\ \A kind, inputs : Plain!EvalGate(kind, inputs) = EvalGate(kind, inputs)
BY DEF Plain!ConstantBit, ConstantBit, Plain!NoEntries, NoEntries,
       Plain!ToSet, ToSet, Plain!Images, Images, Plain!SetOn, SetOn,
       Plain!Assign, Assign, Plain!EvalGate, EvalGate

(* The bits a plain evaluation starts with, in this module's words.        *)
LEMMA InitialBitsAre ==
  ASSUME NEW bits
  PROVE  Plain!InitialBits(bits) =
           [w \in ToSet(circuit.input_wires) \cup DOMAIN ConstantBit |->
              IF w \in ToSet(circuit.input_wires) THEN bits[w]
                                                  ELSE ConstantBit[w]]
BY SameWords DEF Plain!InitialBits

(* What EncodeInputs hands out are the labels of the initial bits.         *)
LEMMA EncodedAreInitial ==
  ASSUME CircuitOK, NEW n, artifact = ArtifactOf(n),
         NEW bits \in InputBits, EncodeInputs(bits)
  PROVE  /\ bits \in [ToSet(circuit.input_wires) -> BOOLEAN]
         /\ OwnLabels(wire_labels')
         /\ BitsOf(wire_labels') = Plain!InitialBits(bits)
<1> DEFINE I == ToSet(circuit.input_wires)
           C == DOMAIN ConstantBit
           S == I \cup C
<1>1. /\ artifact.input_wires = circuit.input_wires
      /\ DOMAIN artifact.constant_labels = C
      /\ \A w \in I : \A bit \in BOOLEAN :
           artifact.public_input_labels[w][bit] = MakeLabel(w, bit)
      /\ \A w \in C : artifact.constant_labels[w] = MakeLabel(w, ConstantBit[w])
  BY DEF ArtifactOf
<1>2. bits \in [I -> BOOLEAN]
  <2>1. PICK wires \in SUBSET I : bits \in [wires -> BOOLEAN]
    BY DEF InputBits
  <2>2. I \subseteq DOMAIN bits
    BY <1>1 DEF EncodeInputs
  <2> QED BY <2>1, <2>2
<1>3. Plain!InitialBits(bits) \in [S -> BOOLEAN]
  <2>1. \A w \in C : ConstantBit[w] \in BOOLEAN
    BY ConstantsAreBits
  <2> QED BY <1>2, <2>1, InitialBitsAre
<1>4. DOMAIN wire_labels' = S
  BY <1>1 DEF EncodeInputs
<1>5. ASSUME NEW w \in S
      PROVE  wire_labels'[w] = MakeLabel(w, Plain!InitialBits(bits)[w])
  <2>1. wire_labels'[w] = IF w \in I THEN artifact.public_input_labels[w][bits[w]]
                                     ELSE artifact.constant_labels[w]
    BY <1>1, <1>5 DEF EncodeInputs
  <2>2. Plain!InitialBits(bits)[w] = IF w \in I THEN bits[w] ELSE ConstantBit[w]
    BY <1>5, InitialBitsAre
  <2>3. CASE w \in I
    <3>1. bits[w] \in BOOLEAN
      BY <1>2, <2>3
    <3> QED BY <1>1, <2>1, <2>2, <2>3, <3>1
  <2>4. CASE w \notin I
    BY <1>1, <1>5, <2>1, <2>2, <2>4
  <2> QED BY <2>3, <2>4
<1> HIDE DEF S, I, C
<1>6. OwnLabels(wire_labels') /\ BitsOf(wire_labels') = Plain!InitialBits(bits)
  BY <1>3, <1>4, <1>5, BitsOfLabels
<1> QED BY <1>2, <1>6 DEF I

-----------------------------------------------------------------------------
(* The steps.                                                              *)

(* The gates of a whole artifact are the garbled gates of the circuit.     *)
LEMMA ArtifactGates ==
  ASSUME CircuitOK, artifact = ArtifactOf(Len(circuit.gates))
  PROVE  /\ Len(circuit.gates) \in Nat
         /\ Len(artifact.gates) = Len(circuit.gates)
         /\ \A i \in 1 .. Len(circuit.gates) :
              /\ circuit.gates[i] \in BitGate
              /\ artifact.gates[i] = GarbledGate(circuit.gates[i])
<1>1. circuit.gates \in Seq(BitGate)
  BY DEF CircuitOK
<1>2. artifact.gates =
        [i \in 1 .. Len(circuit.gates) |-> GarbledGate(circuit.gates[i])]
  BY DEF ArtifactOf
<1> QED BY <1>1, <1>2

(* A row of the table opens with the labels of the bits the gate reads and *)
(* holds the label of the bit it gives.                                    *)
LEMMA OpenedRow ==
  ASSUME NEW gate \in BitGate, Len(gate.inputs) = Arity(gate.kind),
         NEW labels, OwnLabels(labels), SetOn(labels, gate.inputs),
         NEW j \in DOMAIN GarbleTable(gate),
         GarbleTable(gate)[j].opens_with = Images(labels, gate.inputs)
  PROVE  LET value == EvalGate(gate.kind, Images(BitsOf(labels), gate.inputs))
         IN  /\ value \in BOOLEAN
             /\ GarbleTable(gate)[j].label = MakeLabel(gate.output, value)
<1> DEFINE n == Len(gate.inputs)
           row == 2^n - j
           bits == RowBits(row, n)
<1>1. n \in Nat /\ gate.kind \in BitGateKind
  BY DEF BitGate
<1>2. GarbleTable(gate)[j] = TableRow(gate, row)
  BY DEF GarbleTable
<1>3. /\ TableRow(gate, row).opens_with =
           [i \in 1 .. n |-> MakeLabel(gate.inputs[i], bits[i])]
      /\ TableRow(gate, row).label =
           MakeLabel(gate.output, EvalGate(gate.kind, bits))
  BY RowPairsLabels
<1>4. bits \in [1 .. n -> BOOLEAN]
  BY <1>1, RowBitsAreBits
<1> HIDE DEF row, bits
<1>5. ASSUME NEW i \in 1 .. n
      PROVE  BitsOf(labels)[gate.inputs[i]] = bits[i]
  <2>1. labels[gate.inputs[i]] = MakeLabel(gate.inputs[i], bits[i])
    <3>1. Images(labels, gate.inputs)[i] = labels[gate.inputs[i]]
      BY DEF Images
    <3>2. GarbleTable(gate)[j].opens_with[i] =
            MakeLabel(gate.inputs[i], bits[i])
      BY <1>2, <1>3
    <3> QED BY <3>1, <3>2
  <2>2. gate.inputs[i] \in DOMAIN labels
    BY DEF SetOn, ToSet
  <2>3. /\ BitsOf(labels)[gate.inputs[i]] \in BOOLEAN
        /\ labels[gate.inputs[i]] =
             MakeLabel(gate.inputs[i], BitsOf(labels)[gate.inputs[i]])
    BY <2>2, BitsOfOwnLabels
  <2>4. bits[i] \in BOOLEAN
    BY <1>4
  <2> QED BY <2>1, <2>3, <2>4, LabelOfBit
<1>6. Images(BitsOf(labels), gate.inputs) = bits
  <2>1. bits = [i \in 1 .. n |-> bits[i]]
    BY <1>4
  <2> QED BY <1>5, <2>1 DEF Images
<1>7. EvalGate(gate.kind, bits) \in BOOLEAN
  BY <1>1, <1>4, GateGivesBit
<1> QED BY <1>2, <1>3, <1>6, <1>7

(* After EvaluateGate the labels held stand for the bits that a plain      *)
(* evaluation of the gate gives.                                           *)
LEMMA EvaluatedGate ==
  ASSUME EvaluationInv, EvaluateGate
  PROVE  LET gate == circuit.gates[gate_index + 1]
             bits == BitsOf(wire_labels)
         IN  /\ gate_index \in Nat /\ gate_index < Len(circuit.gates)
             /\ SetOn(bits, gate.inputs)
             /\ OwnLabels(wire_labels')
             /\ BitsOf(wire_labels') =
                  Assign(bits, gate.output,
                         EvalGate(gate.kind, Images(bits, gate.inputs)))
<1> DEFINE gate == circuit.gates[gate_index + 1]
           bits == BitsOf(wire_labels)
           value == EvalGate(gate.kind, Images(bits, gate.inputs))
<1>1. /\ CircuitOK
      /\ artifact = ArtifactOf(Len(circuit.gates))
      /\ AritiesRight(Len(circuit.gates))
      /\ gate_index \in 0 .. Len(circuit.gates)
      /\ OwnLabels(wire_labels)
  BY DEF EvaluationInv, GarbledInv, Whole, LabelsInv, Evaluating, EvaluateGate
<1>2. /\ gate_index \in Nat /\ gate_index < Len(circuit.gates)
      /\ gate_index + 1 \in 1 .. Len(circuit.gates)
  BY <1>1, ArtifactGates DEF EvaluateGate
<1>3. /\ gate \in BitGate
      /\ Gate(artifact.gates) = GarbledGate(gate)
      /\ Len(gate.inputs) = Arity(gate.kind)
  BY <1>1, <1>2, ArtifactGates DEF Gate, AritiesRight
<1>4. /\ GarbledGate(gate).inputs = gate.inputs
      /\ GarbledGate(gate).output = gate.output
      /\ GarbledGate(gate).table = GarbleTable(gate)
  BY DEF GarbledGate
<1> HIDE DEF gate
<1>5. SetOn(wire_labels, gate.inputs)
  BY <1>3, <1>4 DEF EvaluateGate
<1>6. PICK j \in DOMAIN GarbleTable(gate) :
        /\ GarbleTable(gate)[j].opens_with = Images(wire_labels, gate.inputs)
        /\ wire_labels' = Assign(wire_labels, gate.output,
                                 GarbleTable(gate)[j].label)
  BY <1>3, <1>4 DEF EvaluateGate, Opens, Held
<1>7. /\ value \in BOOLEAN
      /\ GarbleTable(gate)[j].label = MakeLabel(gate.output, value)
  BY <1>1, <1>3, <1>5, <1>6, OpenedRow
<1>8. /\ DOMAIN bits = DOMAIN wire_labels
      /\ \A w \in DOMAIN wire_labels :
           bits[w] \in BOOLEAN /\ wire_labels[w] = MakeLabel(w, bits[w])
  BY <1>1, BitsOfOwnLabels
<1> DEFINE S == DOMAIN wire_labels \cup {gate.output}
           after == Assign(bits, gate.output, value)
<1> HIDE DEF bits, value
<1>9. after \in [S -> BOOLEAN]
  BY <1>7, <1>8 DEF Assign
<1>10. DOMAIN wire_labels' = S
  BY <1>6 DEF Assign
<1>11. ASSUME NEW w \in S
       PROVE  wire_labels'[w] = MakeLabel(w, after[w])
  <2>1. CASE w = gate.output
    BY <1>6, <1>7, <2>1 DEF Assign
  <2>2. CASE w # gate.output
    <3>1. wire_labels'[w] = wire_labels[w]
      BY <1>6, <2>2 DEF Assign
    <3>2. after[w] = bits[w]
      BY <1>8, <2>2 DEF Assign
    <3> QED BY <1>8, <2>2, <3>1, <3>2
  <2> QED BY <2>1, <2>2
<1> HIDE DEF S, after
<1>12. OwnLabels(wire_labels') /\ BitsOf(wire_labels') = after
  BY <1>9, <1>10, <1>11, BitsOfLabels
<1>13. SetOn(bits, gate.inputs)
  BY <1>5, <1>8 DEF SetOn
<1> QED BY <1>2, <1>12, <1>13 DEF gate, bits, value, after

-----------------------------------------------------------------------------
(* The invariant is kept: what is garbled so far is the artifact of the    *)
(* gates walked, and every label held is of its own wire.                  *)

(* The invariant holds before anything is built.                           *)
LEMMA InvariantAtFirst == Init => EvaluationInv
<1> SUFFICES ASSUME Init PROVE EvaluationInv
  OBVIOUS
<1>1. CircuitOK /\ stage = "build"
  BY CircuitAtFirst DEF Init, BuilderInit
<1> QED BY <1>1 DEF EvaluationInv, GarblingInv, GarbledInv, LabelsInv, Evaluating

(* Every step keeps the invariant.                                         *)
LEMMA InvariantKept == EvaluationInv /\ [Next]_vars => EvaluationInv'
<1> SUFFICES ASSUME EvaluationInv, [Next]_vars PROVE EvaluationInv'
  OBVIOUS
<1> USE DEF EvaluationInv
<1>1. CASE BuilderNext /\ UNCHANGED <<artifact, evalVars, gate_index>>
  <2>1. CircuitOK'
    BY <1>1, BuilderKeepsCircuit
  <2>2. stage' \in {"build", "build_threw", "garble"}
    BY <1>1 DEF BuilderNext, AddInputWire, AddConstantWire,
       AddSecretConstantWire, AddGate, AddGateThrows, AddOutputWire,
       AddOutputWireThrows, Build
  <2> QED BY <2>1, <2>2 DEF GarblingInv, GarbledInv, LabelsInv, Evaluating
<1>2. CASE GarbleWires
  <2>1. CircuitOK' /\ UNCHANGED circuit /\ stage' = "garble_gates"
        /\ gate_index' = 0 /\ Len(circuit.gates) \in Nat
    BY <1>2, CircuitKept DEF GarbleWires
  <2>2. artifact' = ArtifactOf(0)
    <3>1. [i \in 1 .. 0 |-> GarbledGate(circuit.gates[i])] = <<>>
      OBVIOUS
    <3> QED BY <1>2, <3>1 DEF GarbleWires, NoArtifact, ArtifactOf
  <2>3. Walked'
    BY <2>1, <2>2 DEF Walked, ArtifactOf, AritiesRight, ConstantBit
  <2> QED BY <2>1, <2>3 DEF GarblingInv, GarbledInv, LabelsInv, Evaluating
<1>3. CASE GarbleGate
  <2>1. CircuitOK' /\ UNCHANGED circuit /\ Len(circuit.gates) \in Nat
        /\ stage' = "garble_gates" /\ gate_index' = gate_index + 1
    BY <1>3, CircuitKept DEF GarbleGate
  <2>2. Walked /\ gate_index \in Nat /\ gate_index < Len(circuit.gates)
    BY <1>3, <2>1 DEF GarbleGate, GarblingInv, Walked
  <2>3. artifact' = ArtifactOf(gate_index + 1)
    <3>1. artifact' = [artifact EXCEPT
            !.gates = Append(@, GarbledGate(circuit.gates[gate_index + 1]))]
      BY <1>3 DEF GarbleGate, GarbledGate, Gate
    <3> QED BY <2>2, <3>1, ArtifactGrows DEF Walked
  <2>4. AritiesRight(gate_index + 1)
    <3>1. Len(circuit.gates[gate_index + 1].inputs) =
            Arity(circuit.gates[gate_index + 1].kind)
      BY <1>3 DEF GarbleGate, Gate
    <3>2. \A i \in 1 .. gate_index + 1 :
            i \in 1 .. gate_index \/ i = gate_index + 1
      BY <2>2
    <3> QED BY <2>2, <3>1, <3>2 DEF Walked, AritiesRight
  <2>5. gate_index + 1 \in 0 .. Len(circuit.gates)
    BY <2>1, <2>2
  <2>6. Walked'
    BY <2>1, <2>3, <2>4, <2>5 DEF Walked, ArtifactOf, AritiesRight, ConstantBit
  <2> QED BY <2>1, <2>6 DEF GarblingInv, GarbledInv, LabelsInv, Evaluating
<1>4. CASE GarbleGateThrows
  <2>1. CircuitOK' /\ stage' = "garble_threw"
    BY <1>4, CircuitKept DEF GarbleGateThrows
  <2> QED BY <2>1 DEF GarblingInv, GarbledInv, LabelsInv, Evaluating
<1>5. CASE GarbleReturns
  <2>1. CircuitOK' /\ stage' = "garbled" /\ UNCHANGED <<circuit, artifact>>
    BY <1>5, CircuitKept DEF GarbleReturns
  <2>2. Whole
    BY <1>5 DEF GarbleReturns, GarblingInv, Walked, Whole
  <2> QED BY <2>1, <2>2, WholeKept DEF GarblingInv, GarbledInv, LabelsInv,
             Evaluating
<1>6. CASE \E bits \in InputBits : EncodeInputs(bits)
  <2>1. PICK bits \in InputBits : EncodeInputs(bits)
    BY <1>6
  <2>2. /\ CircuitOK' /\ stage' = "evaluate_gates"
        /\ UNCHANGED <<circuit, artifact>> /\ gate_index' = 0
        /\ Len(circuit.gates) \in Nat
    BY <2>1, CircuitKept DEF EncodeInputs
  <2>3. Whole
    BY <2>1 DEF EncodeInputs, GarbledInv
  <2>4. OwnLabels(wire_labels')
    BY <2>1, <2>3, EncodedAreInitial DEF Whole
  <2>5. LabelsInv'
    BY <2>2, <2>4 DEF LabelsInv
  <2> QED BY <2>2, <2>3, <2>5, WholeKept DEF GarblingInv, GarbledInv
<1>7. CASE \E bits \in InputBits : EncodeInputsThrows(bits)
  <2>1. CircuitOK' /\ stage' = "evaluate_threw"
    BY <1>7, CircuitKept DEF EncodeInputsThrows
  <2> QED BY <2>1 DEF GarblingInv, GarbledInv, LabelsInv, Evaluating
<1>8. CASE EvaluateGate
  <2>1. /\ CircuitOK' /\ stage = "evaluate_gates" /\ stage' = stage
        /\ UNCHANGED <<circuit, artifact>>
        /\ gate_index' = gate_index + 1 /\ Len(circuit.gates) \in Nat
    BY <1>8, CircuitKept DEF EvaluateGate
  <2>2. Whole
    BY <2>1 DEF GarbledInv
  <2>3. OwnLabels(wire_labels') /\ gate_index \in Nat
        /\ gate_index < Len(circuit.gates)
    BY <1>8, EvaluatedGate
  <2>4. LabelsInv'
    BY <2>1, <2>3 DEF LabelsInv
  <2> QED BY <2>1, <2>2, <2>4, WholeKept DEF GarblingInv, GarbledInv
<1>9. CASE DecodeOutputs
  <2>1. /\ CircuitOK' /\ stage = "evaluate_gates" /\ stage' = "evaluated"
        /\ UNCHANGED <<circuit, artifact, wire_labels, gate_index>>
    BY <1>9, CircuitKept DEF DecodeOutputs
  <2>2. Whole /\ gate_index \in 0 .. Len(circuit.gates) /\ OwnLabels(wire_labels)
    BY <2>1 DEF GarbledInv, LabelsInv, Evaluating
  <2>3. LabelsInv'
    BY <2>1, <2>2 DEF LabelsInv
  <2> QED BY <2>1, <2>2, <2>3, WholeKept DEF GarblingInv, GarbledInv
<1>10. CASE UNCHANGED vars
  <2>1. CircuitOK' /\ UNCHANGED <<circuit, stage, artifact, wire_labels, gate_index>>
    BY <1>10, CircuitKept DEF vars, evalVars
  <2>2. GarblingInv'
    BY <2>1, WalkedKept DEF GarblingInv
  <2>3. GarbledInv'
    BY <2>1, WholeKept DEF GarbledInv
  <2>4. LabelsInv'
    BY <2>1 DEF LabelsInv, Evaluating
  <2> QED BY <2>1, <2>2, <2>3, <2>4
<1> QED BY <1>1, <1>2, <1>3, <1>4, <1>5, <1>6, <1>7, <1>8, <1>9, <1>10 DEF Next

(* Whenever Garble has walked n gates, it has written the artifact of      *)
(* those n gates, and EvaluateLabels only ever holds labels of the wires   *)
(* it holds them for.                                                      *)
THEOREM Invariance == Spec => []EvaluationInv
BY InvariantAtFirst, InvariantKept, PTL DEF Spec

-----------------------------------------------------------------------------
(* No throw is left in the walk.                                           *)

(* A gate's table has exactly one row for the bits it reads.               *)
LEMMA SmallPowers == 2^0 = 1 /\ 2^1 = 2 /\ 2^2 = 4 /\ 2^3 = 8
<1>1. 2^(0 + 1) = 2 * 2^0 /\ 2^(1 + 1) = 2 * 2^1 /\ 2^(2 + 1) = 2 * 2^2
  BY PowerDoubles
<1> QED BY <1>1, PowerOfZero

(* Of the 2^n rows of a gate with n inputs exactly one has given bits.     *)
LEMMA RowOfBits ==
  ASSUME NEW n \in 1 .. 3, NEW bits \in [1 .. n -> BOOLEAN]
  PROVE  \E r \in 0 .. 2^n - 1 :
           \A row \in 0 .. 2^n - 1 : RowBits(row, n) = bits <=> row = r
<1> DEFINE digit(row, i) == (row \div 2^(i - 1)) % 2
<1>1. \A row : RowBits(row, n) = bits <=>
        \A i \in 1 .. n : (digit(row, i) = 1) = bits[i]
  <2> TAKE row
  <2>1. RowBits(row, n) = [i \in 1 .. n |-> digit(row, i) = 1]
    BY DEF RowBits
  <2>2. bits = [i \in 1 .. n |-> bits[i]]
    OBVIOUS
  <2> HIDE DEF digit
  <2> QED BY <2>1, <2>2
<1>2. \A row \in 0 .. 7 :
        digit(row, 1) = row % 2 /\ digit(row, 2) = (row \div 2) % 2
        /\ digit(row, 3) = (row \div 4) % 2
  BY SmallPowers
<1>3. \A i \in 1 .. n : bits[i] \in BOOLEAN
  OBVIOUS
<1> HIDE DEF digit
<1>4. CASE n = 1
  <2> DEFINE r == Bit(bits[1])
  <2>1. Bit(bits[1]) \in {0, 1} /\ (bits[1] <=> Bit(bits[1]) = 1)
    BY <1>3, <1>4 DEF Bit
  <2>2. \A row \in 0 .. 1 : digit(row, 1) = row
    BY <1>2
  <2>3. \A row \in 0 .. 1 : RowBits(row, n) = bits <=> row = r
    <3>1. \A row \in 0 .. 1 : RowBits(row, n) = bits <=> (digit(row, 1) = 1) = bits[1]
      BY <1>1, <1>4
    <3> QED BY <1>3, <1>4, <2>1, <2>2, <3>1
  <2>4. r \in 0 .. 1
    BY <2>1
  <2> QED BY <1>4, <2>3, <2>4, SmallPowers
<1>5. CASE n = 2
  <2> DEFINE r == Bit(bits[1]) + 2 * Bit(bits[2])
  <2>1. /\ Bit(bits[1]) \in {0, 1} /\ (bits[1] <=> Bit(bits[1]) = 1)
        /\ Bit(bits[2]) \in {0, 1} /\ (bits[2] <=> Bit(bits[2]) = 1)
    BY <1>3, <1>5 DEF Bit
  <2>2. \A row \in 0 .. 3 :
          /\ digit(row, 1) \in {0, 1} /\ digit(row, 2) \in {0, 1}
          /\ row = digit(row, 1) + 2 * digit(row, 2)
    BY <1>2
  <2>3. \A row \in 0 .. 3 : RowBits(row, n) = bits <=> row = r
    <3>1. \A row \in 0 .. 3 : RowBits(row, n) = bits <=>
            /\ (digit(row, 1) = 1) = bits[1]
            /\ (digit(row, 2) = 1) = bits[2]
      BY <1>1, <1>5
    <3>2. bits[1] \in BOOLEAN /\ bits[2] \in BOOLEAN
      BY <1>3, <1>5
    <3> QED BY <2>1, <2>2, <3>1, <3>2
  <2>4. r \in 0 .. 3
    BY <2>1
  <2> QED BY <1>5, <2>3, <2>4, SmallPowers
<1>6. CASE n = 3
  <2> DEFINE r == Bit(bits[1]) + 2 * Bit(bits[2]) + 4 * Bit(bits[3])
  <2>1. /\ Bit(bits[1]) \in {0, 1} /\ (bits[1] <=> Bit(bits[1]) = 1)
        /\ Bit(bits[2]) \in {0, 1} /\ (bits[2] <=> Bit(bits[2]) = 1)
        /\ Bit(bits[3]) \in {0, 1} /\ (bits[3] <=> Bit(bits[3]) = 1)
    BY <1>3, <1>6 DEF Bit
  <2>2. \A row \in 0 .. 7 :
          /\ digit(row, 1) \in {0, 1} /\ digit(row, 2) \in {0, 1}
          /\ digit(row, 3) \in {0, 1}
          /\ row = digit(row, 1) + 2 * digit(row, 2) + 4 * digit(row, 3)
    BY <1>2
  <2>3. \A row \in 0 .. 7 : RowBits(row, n) = bits <=> row = r
    <3>1. \A row \in 0 .. 7 : RowBits(row, n) = bits <=>
            /\ (digit(row, 1) = 1) = bits[1]
            /\ (digit(row, 2) = 1) = bits[2]
            /\ (digit(row, 3) = 1) = bits[3]
      BY <1>1, <1>6
    <3>2. bits[1] \in BOOLEAN /\ bits[2] \in BOOLEAN /\ bits[3] \in BOOLEAN
      BY <1>3, <1>6
    <3> QED BY <2>1, <2>2, <3>1, <3>2
  <2>4. r \in 0 .. 7
    BY <2>1
  <2> QED BY <1>6, <2>3, <2>4, SmallPowers
<1> QED BY <1>4, <1>5, <1>6

(* A row opens exactly if its bits are the bits of the labels held.        *)
LEMMA OneRowOpens ==
  ASSUME NEW gate \in BitGate, Len(gate.inputs) = Arity(gate.kind),
         NEW labels, OwnLabels(labels), SetOn(labels, gate.inputs)
  PROVE  Cardinality({j \in DOMAIN GarbleTable(gate) :
           GarbleTable(gate)[j].opens_with = Images(labels, gate.inputs)}) = 1
<1> DEFINE n == Len(gate.inputs)
           held == Images(labels, gate.inputs)
           bits == Images(BitsOf(labels), gate.inputs)
           rows == 2^n
           table == GarbleTable(gate)
           opens == {j \in DOMAIN table : table[j].opens_with = held}
<1>1. n \in 1 .. 3
  BY ArityIsNat DEF BitGate
<1>2. /\ bits \in [1 .. n -> BOOLEAN]
      /\ held = [i \in 1 .. n |-> MakeLabel(gate.inputs[i], bits[i])]
  <2>1. ASSUME NEW i \in 1 .. n
        PROVE  /\ BitsOf(labels)[gate.inputs[i]] \in BOOLEAN
               /\ labels[gate.inputs[i]] =
                    MakeLabel(gate.inputs[i], BitsOf(labels)[gate.inputs[i]])
    <3>1. gate.inputs[i] \in DOMAIN labels
      <4>1. gate.inputs \in Seq(Nat)
        BY DEF BitGate
      <4> QED BY <4>1 DEF SetOn, ToSet
    <3> QED BY <3>1, BitsOfOwnLabels
  <2>2. \A i \in 1 .. n : bits[i] = BitsOf(labels)[gate.inputs[i]]
    BY DEF Images
  <2> QED BY <2>1, <2>2 DEF Images
<1>3. DOMAIN table = 1 .. rows /\ \A j \in 1 .. rows :
        table[j].opens_with =
          [i \in 1 .. n |-> MakeLabel(gate.inputs[i], RowBits(rows - j, n)[i])]
  BY RowPairsLabels DEF GarbleTable
<1> HIDE DEF held, table, bits
<1>4. \A row : RowBits(row, n) \in [1 .. n -> BOOLEAN]
  BY <1>1, RowBitsAreBits
<1>5. \A j \in 1 .. rows : table[j].opens_with = held <=> RowBits(rows - j, n) = bits
  <2> TAKE j \in 1 .. rows
  <2> DEFINE mine == RowBits(rows - j, n)
  <2>1. mine \in [1 .. n -> BOOLEAN]
    BY <1>4
  <2>2. table[j].opens_with = [i \in 1 .. n |-> MakeLabel(gate.inputs[i], mine[i])]
    BY <1>3
  <2> HIDE DEF mine
  <2>3. ASSUME table[j].opens_with = held PROVE mine = bits
    <3>1. \A i \in 1 .. n : mine[i] \in BOOLEAN /\ bits[i] \in BOOLEAN
      BY <1>2, <2>1
    <3>2. \A i \in 1 .. n : MakeLabel(gate.inputs[i], mine[i]) =
                            MakeLabel(gate.inputs[i], bits[i])
      BY <1>2, <2>2, <2>3
    <3>3. \A i \in 1 .. n : mine[i] = bits[i]
      BY <3>1, <3>2, LabelOfBit
    <3> QED BY <1>2, <2>1, <3>3
  <2>4. ASSUME mine = bits PROVE table[j].opens_with = held
    BY <1>2, <2>2, <2>4
  <2> QED BY <2>3, <2>4 DEF mine
<1>6. PICK r \in 0 .. rows - 1 :
        \A row \in 0 .. rows - 1 : RowBits(row, n) = bits <=> row = r
  BY <1>1, <1>2, RowOfBits
<1>7. rows \in Nat
  BY <1>1, PowersAreNumbers
<1> HIDE DEF rows, n
<1>8. opens = {rows - r}
  <2>1. \A j \in 1 .. rows : rows - j \in 0 .. rows - 1
    BY <1>7
  <2>2. \A j \in 1 .. rows : RowBits(rows - j, n) = bits <=> j = rows - r
    <3>1. \A j \in 1 .. rows : rows - j = r <=> j = rows - r
      BY <1>6, <1>7
    <3> QED BY <1>6, <2>1, <3>1
  <2>3. rows - r \in 1 .. rows
    BY <1>6, <1>7
  <2> QED BY <1>3, <1>5, <2>2, <2>3
<1> QED BY <1>8, FS_Singleton DEF table, held

(* EvaluateLabels holds the label of every wire that is set before the     *)
(* gate it reaches.                                                        *)
LabelsSoFar ==
  stage = "evaluate_gates" => DOMAIN wire_labels = WiresAfter(gate_index)

WalkInv == EvaluationInv /\ WiresInOrder /\ LabelsSoFar

(* No walk has begun.                                                      *)
LEMMA WalkAtFirst == Init => WalkInv
<1> SUFFICES ASSUME Init PROVE WalkInv
  OBVIOUS
<1>1. WiresInOrder /\ stage = "build"
  BY CircuitAtFirst DEF Init, BuilderInit
<1> QED BY <1>1, InvariantAtFirst DEF WalkInv, LabelsSoFar

(* A gate's label is set once the walk has passed it, and not before.      *)
LEMMA WalkKept == WalkInv /\ [Next]_vars => WalkInv'
<1> SUFFICES ASSUME WalkInv, [Next]_vars PROVE WiresInOrder' /\ LabelsSoFar'
  BY InvariantKept DEF WalkInv
<1> USE DEF WalkInv
<1>1. CASE BuilderNext /\ UNCHANGED <<artifact, evalVars, gate_index>>
  <2>1. WiresInOrder'
    BY <1>1, BuilderKeepsOrder DEF EvaluationInv
  <2>2. stage' \in {"build", "build_threw", "garble"}
    BY <1>1 DEF BuilderNext, AddInputWire, AddConstantWire,
       AddSecretConstantWire, AddGate, AddGateThrows, AddOutputWire,
       AddOutputWireThrows, Build
  <2> QED BY <2>1, <2>2 DEF LabelsSoFar
<1>2. CASE \/ GarbleWires \/ GarbleGate \/ GarbleGateThrows \/ GarbleReturns
           \/ DecodeOutputs
           \/ \E bits \in InputBits : EncodeInputsThrows(bits)
  <2>1. UNCHANGED circuit /\ stage' # "evaluate_gates"
    BY <1>2 DEF GarbleWires, GarbleGate, GarbleGateThrows, GarbleReturns,
       DecodeOutputs, EncodeInputsThrows
  <2> QED BY <2>1, OrderKept DEF LabelsSoFar
<1>3. CASE \E bits \in InputBits : EncodeInputs(bits)
  <2>1. PICK bits \in InputBits : EncodeInputs(bits)
    BY <1>3
  <2>2. UNCHANGED circuit /\ gate_index' = 0 /\ Whole
    BY <2>1 DEF EncodeInputs, EvaluationInv, GarbledInv
  <2>3. DOMAIN wire_labels' = InitialWires
    BY <2>1, <2>2 DEF EncodeInputs, Whole, ArtifactOf, InitialWires
  <2>4. WiresAfter(gate_index)' = InitialWires
    BY <2>2 DEF WiresAfter, OutputsUpTo, InitialWires, ConstantBit
  <2> QED BY <2>2, <2>3, <2>4, OrderKept DEF LabelsSoFar
<1>4. CASE EvaluateGate
  <2> DEFINE gate == circuit.gates[gate_index + 1]
  <2>1. /\ stage = "evaluate_gates" /\ UNCHANGED circuit
        /\ gate_index' = gate_index + 1
    BY <1>4 DEF EvaluateGate
  <2>2. gate_index \in Nat /\ gate_index < Len(circuit.gates)
    BY <1>4, EvaluatedGate
  <2>3. DOMAIN wire_labels' = DOMAIN wire_labels \cup {gate.output}
    <3>1. /\ gate_index + 1 \in 1 .. Len(circuit.gates)
          /\ CircuitOK /\ artifact = ArtifactOf(Len(circuit.gates))
      BY <2>1, <2>2, ArtifactGates DEF EvaluationInv, GarbledInv, Whole
    <3>2. Gate(artifact.gates).output = gate.output
      <4>1. Gate(artifact.gates) = GarbledGate(gate)
        BY <3>1, ArtifactGates DEF Gate
      <4> QED BY <4>1 DEF GarbledGate
    <3> QED BY <1>4, <3>2 DEF EvaluateGate, Assign
  <2>4. WiresAfter(gate_index)' = WiresAfter(gate_index) \cup {gate.output}
    <3>1. WiresAfter(gate_index)' = WiresAfter(gate_index + 1)
      BY <2>1 DEF WiresAfter, OutputsUpTo, InitialWires, ConstantBit
    <3> QED BY <2>2, <3>1, NextWire
  <2> QED BY <2>1, <2>3, <2>4, OrderKept DEF LabelsSoFar
<1>5. CASE UNCHANGED vars
  BY <1>5, OrderKept DEF vars, evalVars, LabelsSoFar, WiresAfter, OutputsUpTo,
     InitialWires, ConstantBit
<1> QED BY <1>1, <1>2, <1>3, <1>4, <1>5 DEF Next

(* The next gate finds its labels and its row, and the end finds its       *)
(* outputs.                                                                *)
LEMMA WalkGoesOn == WalkInv => WalkNeverThrows
<1> SUFFICES ASSUME WalkInv, stage = "evaluate_gates"
             PROVE  IF gate_index < Len(artifact.gates)
                    THEN /\ SetOn(wire_labels, Gate(artifact.gates).inputs)
                         /\ Cardinality(Opens(Gate(artifact.gates))) = 1
                    ELSE AllDecodable
  BY DEF WalkNeverThrows
<1>1. /\ CircuitOK /\ WiresInOrder /\ OwnLabels(wire_labels)
      /\ artifact = ArtifactOf(Len(circuit.gates))
      /\ AritiesRight(Len(circuit.gates))
      /\ gate_index \in 0 .. Len(circuit.gates)
      /\ DOMAIN wire_labels = WiresAfter(gate_index)
  BY DEF WalkInv, LabelsSoFar, EvaluationInv, GarbledInv, Whole, LabelsInv,
         Evaluating
<1>2. Len(artifact.gates) = Len(circuit.gates) /\ Len(circuit.gates) \in Nat
  BY <1>1, ArtifactGates
<1>3. CASE gate_index < Len(artifact.gates)
  <2> DEFINE i == gate_index + 1
             gate == circuit.gates[i]
  <2>1. i \in 1 .. Len(circuit.gates) /\ i - 1 = gate_index
    BY <1>1, <1>2, <1>3
  <2>2. /\ gate \in BitGate /\ Gate(artifact.gates) = GarbledGate(gate)
        /\ Len(gate.inputs) = Arity(gate.kind)
    BY <1>1, <2>1, ArtifactGates DEF Gate, AritiesRight
  <2>3. SetOn(wire_labels, gate.inputs)
    BY <1>1, <2>1 DEF WiresInOrder, SetOn
  <2> HIDE DEF gate
  <2>4. /\ GarbledGate(gate).inputs = gate.inputs
        /\ GarbledGate(gate).table = GarbleTable(gate)
    BY DEF GarbledGate
  <2>5. Opens(Gate(artifact.gates)) =
          {j \in DOMAIN GarbleTable(gate) :
             GarbleTable(gate)[j].opens_with = Images(wire_labels, gate.inputs)}
    BY <2>2, <2>4 DEF Opens, Held
  <2>6. Cardinality(Opens(Gate(artifact.gates))) = 1
    BY <1>1, <2>2, <2>3, <2>5, OneRowOpens
  <2> QED BY <1>3, <2>2, <2>3, <2>4, <2>6
<1>4. CASE ~(gate_index < Len(artifact.gates))
  <2>1. gate_index = Len(circuit.gates)
    BY <1>1, <1>2, <1>4
  <2>2. ToSet(circuit.output_wires) \subseteq DOMAIN wire_labels
    BY <1>1, <2>1 DEF WiresInOrder
  <2>3. /\ artifact.output_wires = circuit.output_wires
        /\ \A w \in ToSet(circuit.output_wires) :
             DOMAIN artifact.output_decoding[w] = {MakeLabel(w, bit) : bit \in BOOLEAN}
    BY <1>1 DEF ArtifactOf
  <2>4. AllDecodable
    BY <1>1, <2>2, <2>3 DEF AllDecodable, Decodable, OwnLabels
  <2> QED BY <1>4, <2>4
<1> QED BY <1>3, <1>4

(* For every circuit, with gates that read one wire twice or wires that    *)
(* are also outputs, EvaluateLabels finds exactly one row of every table   *)
(* and DecodeOutputs decodes every output.                                 *)
THEOREM WalkIsDeterminate == Spec => []WalkNeverThrows
BY WalkAtFirst, WalkKept, WalkGoesOn, PTL DEF Spec

-----------------------------------------------------------------------------
(* The steps, seen in the clear.                                           *)

ClearIdle ==
  /\ ClearInputs = NoEntries
  /\ ClearBits = NoEntries
  /\ ClearWalked = 0
  /\ ClearOutputs = <<>>

ClearBusy ==
  /\ ClearInputs = input_bits
  /\ ClearBits = BitsOf(wire_labels)
  /\ ClearWalked = gate_index
  /\ ClearOutputs = outputs

StagesClear ==
  /\ stage \in {"build", "build_threw", "garble"} =>
       ClearStage = stage /\ ClearIdle
  /\ stage = "garble_gates" => ClearStage = "garble" /\ ClearIdle
  /\ stage = "garbled" => ClearStage = "ready" /\ ClearIdle
  /\ stage \in {"garble_threw", "evaluate_threw"} =>
       ClearStage = "refused" /\ ClearIdle
  /\ stage = "evaluate_gates" => ClearStage = "evaluate" /\ ClearBusy
  /\ stage = "evaluated" => ClearStage = "evaluated" /\ ClearBusy

(* How the stages look in the clear.                                       *)
LEMMA StagesAreClear == StagesClear /\ StagesClear'
BY DEF StagesClear, ClearStage, ClearIdle, ClearBusy, ClearInputs, ClearBits,
       ClearWalked, ClearOutputs, Evaluating, BitsHeld, BitsOf

(* The first state is a first state in the clear.                          *)
LEMMA InitIsPlain == Init => Plain!Init
<1> SUFFICES ASSUME Init PROVE Plain!Init
  OBVIOUS
<1>1. stage = "build" /\ circuit = EmptyCircuit
  BY DEF Init, BuilderInit
<1>2. ClearStage = "build" /\ ClearIdle
  BY <1>1, StagesAreClear DEF StagesClear
<1>3. Plain!EmptyCircuit = EmptyCircuit /\ Plain!NoEntries = NoEntries
  BY DEF Plain!EmptyCircuit, EmptyCircuit, Plain!NoEntries, NoEntries
<1> QED BY <1>1, <1>2, <1>3 DEF Plain!Init, Plain!BuilderInit, ClearIdle

(* EncodeInputs starts an evaluation on the bits given.                    *)
LEMMA EncodeStarts ==
  ASSUME EvaluationInv, NEW bits \in InputBits, EncodeInputs(bits)
  PROVE  Plain!Next
<1>1. /\ stage \in {"garbled", "evaluated"} /\ stage' = "evaluate_gates"
      /\ UNCHANGED circuit /\ gate_index' = 0 /\ outputs' = <<>>
      /\ input_bits' = bits
  BY DEF EncodeInputs
<1>2. CircuitOK /\ artifact = ArtifactOf(Len(circuit.gates))
  BY <1>1 DEF EvaluationInv, GarbledInv, Whole
<1>3. /\ bits \in [ToSet(circuit.input_wires) -> BOOLEAN]
      /\ BitsOf(wire_labels') = Plain!InitialBits(bits)
  BY <1>2, EncodedAreInitial
<1>4. ClearStage \in {"ready", "evaluated"}
  BY <1>1, StagesAreClear DEF StagesClear
<1>5. /\ ClearStage' = "evaluate" /\ ClearInputs' = bits
      /\ ClearBits' = Plain!InitialBits(bits)
      /\ ClearWalked' = 0 /\ ClearOutputs' = <<>>
  <2>1. ClearStage' = "evaluate" /\ ClearBusy'
    BY <1>1, StagesAreClear DEF StagesClear
  <2>2. BitsOf(wire_labels)' = BitsOf(wire_labels')
    BY DEF BitsOf
  <2> QED BY <1>1, <1>3, <2>1, <2>2 DEF ClearBusy
<1>6. Plain!Start(bits)
  BY <1>1, <1>4, <1>5 DEF Plain!Start
<1> QED BY <1>3, <1>6, SameWords DEF Plain!Next

(* One gate on labels is that gate on bits.                                *)
LEMMA EvaluatesNext ==
  ASSUME EvaluationInv, EvaluateGate
  PROVE  Plain!EvaluateNext
<1> DEFINE gate == circuit.gates[gate_index + 1]
           bits == BitsOf(wire_labels)
<1>1. /\ stage = "evaluate_gates" /\ gate_index' = gate_index + 1
      /\ UNCHANGED <<circuit, stage, input_bits, outputs>>
  BY DEF EvaluateGate
<1>2. /\ gate_index < Len(circuit.gates)
      /\ SetOn(bits, gate.inputs)
      /\ BitsOf(wire_labels') =
           Assign(bits, gate.output,
                  EvalGate(gate.kind, Images(bits, gate.inputs)))
  BY EvaluatedGate
<1>3. /\ ClearStage = "evaluate" /\ ClearInputs = input_bits
      /\ ClearBits = bits /\ ClearWalked = gate_index /\ ClearOutputs = outputs
  BY <1>1, StagesAreClear DEF StagesClear, ClearBusy
<1>4. /\ ClearStage' = "evaluate" /\ ClearInputs' = input_bits'
      /\ ClearBits' = BitsOf(wire_labels') /\ ClearWalked' = gate_index'
      /\ ClearOutputs' = outputs'
  <2>1. BitsOf(wire_labels)' = BitsOf(wire_labels')
    BY DEF BitsOf
  <2> QED BY <1>1, <2>1, StagesAreClear DEF StagesClear, ClearBusy
<1> HIDE DEF bits
<1> QED BY <1>1, <1>2, <1>3, <1>4, SameWords DEF Plain!EvaluateNext, gate

(* Decoding reads the bits of the output wires.                            *)
LEMMA DecodeReads ==
  ASSUME EvaluationInv, DecodeOutputs
  PROVE  Plain!ReadOutputs
<1> DEFINE bits == BitsOf(wire_labels)
           wires == circuit.output_wires
<1>1. /\ stage = "evaluate_gates" /\ stage' = "evaluated"
      /\ gate_index = Len(artifact.gates) /\ AllDecodable
      /\ UNCHANGED <<circuit, wire_labels, input_bits, gate_index>>
  BY DEF DecodeOutputs
<1>2. /\ CircuitOK /\ artifact = ArtifactOf(Len(circuit.gates))
      /\ OwnLabels(wire_labels)
  BY <1>1 DEF EvaluationInv, GarbledInv, Whole, LabelsInv, Evaluating
<1>3. gate_index = Len(circuit.gates)
  BY <1>1, <1>2, ArtifactGates
<1>4. /\ artifact.output_wires = wires
      /\ \A w \in ToSet(wires) : \A bit \in BOOLEAN :
           artifact.output_decoding[w][MakeLabel(w, bit)] = bit
  <2>1. artifact.output_wires = wires
    BY <1>2 DEF ArtifactOf
  <2>2. \A w \in ToSet(wires) : artifact.output_decoding[w] =
          [label \in {MakeLabel(w, bit) : bit \in BOOLEAN} |-> label[2]]
    BY <1>2 DEF ArtifactOf
  <2>3. \A w, bit : MakeLabel(w, bit)[2] = bit
    BY DEF MakeLabel
  <2>4. ASSUME NEW w \in ToSet(wires), NEW bit \in BOOLEAN
        PROVE  artifact.output_decoding[w][MakeLabel(w, bit)] = bit
    <3>1. MakeLabel(w, bit) \in {MakeLabel(w, b) : b \in BOOLEAN}
      OBVIOUS
    <3>2. \A label \in {MakeLabel(w, b) : b \in BOOLEAN} :
            artifact.output_decoding[w][label] = label[2]
      <4> DEFINE L == {MakeLabel(w, b) : b \in BOOLEAN}
                 d == artifact.output_decoding[w]
      <4>1. d = [label \in L |-> label[2]]
        BY <2>2
      <4> HIDE DEF L, d
      <4>2. \A label \in L : d[label] = label[2]
        BY <4>1
      <4> QED BY <4>2 DEF L, d
    <3> QED BY <2>3, <3>1, <3>2
  <2> QED BY <2>1, <2>4
<1>5. ToSet(wires) \subseteq DOMAIN wire_labels
  BY <1>1, <1>4 DEF AllDecodable, Decodable
<1>6. /\ DOMAIN bits = DOMAIN wire_labels
      /\ \A w \in DOMAIN wire_labels :
           bits[w] \in BOOLEAN /\ wire_labels[w] = MakeLabel(w, bits[w])
  BY <1>2, BitsOfOwnLabels
<1>7. outputs' = Images(bits, wires)
  <2>1. outputs' = [j \in 1 .. Len(wires) |->
          artifact.output_decoding[wires[j]][wire_labels[wires[j]]]]
    BY <1>4 DEF DecodeOutputs
  <2> HIDE DEF bits
  <2>2. ASSUME NEW j \in 1 .. Len(wires)
        PROVE  artifact.output_decoding[wires[j]][wire_labels[wires[j]]]
                 = bits[wires[j]]
    <3>1. wires[j] \in ToSet(wires)
      BY DEF ToSet
    <3> QED BY <1>4, <1>5, <1>6, <3>1
  <2> QED BY <2>1, <2>2 DEF Images
<1>8. SetOn(bits, wires)
  BY <1>5, <1>6 DEF SetOn
<1>9. /\ ClearStage = "evaluate" /\ ClearInputs = input_bits
      /\ ClearBits = bits /\ ClearWalked = gate_index
  BY <1>1, StagesAreClear DEF StagesClear, ClearBusy
<1>10. /\ ClearStage' = "evaluated" /\ ClearInputs' = input_bits'
       /\ ClearBits' = BitsOf(wire_labels)' /\ ClearWalked' = gate_index'
       /\ ClearOutputs' = outputs'
  BY <1>1, StagesAreClear DEF StagesClear, ClearBusy
<1>11. BitsOf(wire_labels)' = bits
  BY <1>1 DEF BitsOf
<1> HIDE DEF bits
<1> QED BY <1>1, <1>3, <1>7, <1>8, <1>9, <1>10, <1>11, SameWords
        DEF Plain!ReadOutputs

(* Every step is a step in the clear or changes nothing there.             *)
LEMMA StepIsPlain ==
  EvaluationInv /\ [Next]_vars => [Plain!Next]_(Plain!plainVars)
<1> SUFFICES ASSUME EvaluationInv, [Next]_vars
             PROVE  Plain!Next \/ UNCHANGED Plain!plainVars
  OBVIOUS
<1>1. CASE BuilderNext /\ UNCHANGED <<artifact, evalVars, gate_index>>
  <2>1. stage = "build" /\ stage' \in {"build", "build_threw", "garble"}
    BY <1>1 DEF BuilderNext, AddInputWire, AddConstantWire,
       AddSecretConstantWire, AddGate, AddGateThrows, AddOutputWire,
       AddOutputWireThrows, Build
  <2>2. ClearStage = "build" /\ ClearIdle /\ ClearStage' = stage' /\ ClearIdle'
    BY <2>1, StagesAreClear DEF StagesClear
  <2>3. Plain!Describe
    BY <2>1, <2>2 DEF Plain!Describe, ClearIdle, NoEntries
  <2> QED BY <2>3 DEF Plain!Next
<1>2. CASE GarbleWires \/ GarbleGate
  <2>1. /\ stage \in {"garble", "garble_gates"} /\ stage' = "garble_gates"
        /\ UNCHANGED circuit
    BY <1>2 DEF GarbleWires, GarbleGate
  <2>2. ClearStage = "garble" /\ ClearIdle /\ ClearStage' = "garble" /\ ClearIdle'
    BY <2>1, StagesAreClear DEF StagesClear
  <2> QED BY <2>1, <2>2 DEF Plain!plainVars, ClearIdle, NoEntries
<1>3. CASE GarbleGateThrows
  <2>1. stage = "garble_gates" /\ stage' = "garble_threw" /\ UNCHANGED circuit
    BY <1>3 DEF GarbleGateThrows
  <2>2. ClearStage = "garble" /\ ClearStage' = "refused" /\ ClearIdle'
    BY <2>1, StagesAreClear DEF StagesClear
  <2>3. Plain!Refuse
    BY <2>1, <2>2 DEF Plain!Refuse, Plain!NoEntries, ClearIdle, NoEntries
  <2> QED BY <2>3 DEF Plain!Next
<1>4. CASE GarbleReturns
  <2>1. stage = "garble_gates" /\ stage' = "garbled" /\ UNCHANGED circuit
    BY <1>4 DEF GarbleReturns
  <2>2. ClearStage = "garble" /\ ClearIdle /\ ClearStage' = "ready" /\ ClearIdle'
    BY <2>1, StagesAreClear DEF StagesClear
  <2>3. Plain!Prepare
    BY <2>1, <2>2 DEF Plain!Prepare, ClearIdle, NoEntries
  <2> QED BY <2>3 DEF Plain!Next
<1>5. CASE \E bits \in InputBits : EncodeInputs(bits)
  BY <1>5, EncodeStarts
<1>6. CASE \E bits \in InputBits : EncodeInputsThrows(bits)
  <2>1. /\ stage \in {"garbled", "evaluated"} /\ stage' = "evaluate_threw"
        /\ UNCHANGED circuit
    BY <1>6 DEF EncodeInputsThrows
  <2>2. /\ ClearStage \in {"ready", "evaluated"}
        /\ ClearStage' = "refused" /\ ClearIdle'
    BY <2>1, StagesAreClear DEF StagesClear
  <2>3. Plain!Refuse
    BY <2>1, <2>2 DEF Plain!Refuse, Plain!NoEntries, ClearIdle, NoEntries
  <2> QED BY <2>3 DEF Plain!Next
<1>7. CASE EvaluateGate
  BY <1>7, EvaluatesNext DEF Plain!Next
<1>8. CASE DecodeOutputs
  BY <1>8, DecodeReads DEF Plain!Next
<1>9. CASE UNCHANGED vars
  BY <1>9 DEF vars, evalVars, Plain!plainVars, ClearStage, ClearInputs,
     ClearBits, ClearWalked, ClearOutputs, Evaluating, BitsHeld
<1> QED BY <1>1, <1>2, <1>3, <1>4, <1>5, <1>6, <1>7, <1>8, <1>9 DEF Next

(* For every circuit, of any size and in any order of gates, evaluation on *)
(* labels is evaluation in the clear on the bits given, gate by gate, and  *)
(* its outputs are the circuit's.                                          *)
THEOREM TableBackendComputesPlainly == Spec => ImplementsPlainEvaluation
<1>1. EvaluationInv /\ [Next]_vars => [Plain!Next]_(Plain!plainVars)
  BY StepIsPlain
<1> QED BY <1>1, InitIsPlain, Invariance, PTL
        DEF Spec, ImplementsPlainEvaluation, Plain!Spec
=============================================================================
