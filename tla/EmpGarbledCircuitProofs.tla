---------------------- MODULE EmpGarbledCircuitProofs ----------------------
(***************************************************************************)
(* The half-gate backend computes on labels what the circuit computes in   *)
(* the clear, for every circuit the builder can describe, as long as the   *)
(* evaluator walks the shape of the circuit that was garbled.              *)
(*                                                                         *)
(* Garble and Evaluate share nothing but the artifact and the order of the *)
(* gates: the n-th entry of the transcript belongs to the n-th AND gate of *)
(* the garbler's walk and is read by the n-th AND gate of the evaluator's. *)
(***************************************************************************)
EXTENDS EmpGarbledCircuit, BooleanCircuitTheorems, FiniteSetTheorems,
        SequenceTheorems

Label == SUBSET ({"delta", "wire", "and", "noise"} \X Nat)
Entry == [lhs : Label, rhs : Label, out : Label]

(* The number of AND gates among the first n gates.                        *)
AndGates(n) == {i \in 1 .. n : circuit.gates[i].kind = "And"}
Ands(n) == Cardinality(AndGates(n))

(* The zero label of a gate's output, from the zero labels of all wires.   *)
ZeroOf(i, zeros) ==
  LET gate == circuit.gates[i]
  IN  CASE gate.kind = "And" -> AndBlock(Ands(i))
        [] gate.kind = "Xor" -> Plus(zeros[gate.inputs[1]], zeros[gate.inputs[2]])
        [] OTHER             -> zeros[gate.inputs[1]]

EntryOf(i, zeros) ==
  AndEntry(zeros[circuit.gates[i].inputs[1]],
           zeros[circuit.gates[i].inputs[2]], Ands(i))

(* What Garble has left of gate i: a zero label for its output and, for an *)
(* AND gate, the entry at the place of that gate among the AND gates.      *)
GateGarbled(i, zeros, transcript) ==
  LET gate == circuit.gates[i]
  IN  /\ WellFormed(gate) /\ gate.kind # "Mux"
      /\ zeros[gate.output] = ZeroOf(i, zeros)
      /\ gate.kind = "And" => transcript[Ands(i)] = EntryOf(i, zeros)

GarbledUpTo(n, zeros, transcript) ==
  /\ zeros \in [WiresAfter(n) -> Label]
  /\ \A w \in InitialWires : zeros[w] = RandomBlock(w)
  /\ transcript \in Seq(Entry)
  /\ Len(transcript) = Ands(n)
  /\ \A i \in 1 .. n : GateGarbled(i, zeros, transcript)

PublicLabels ==
  [w \in ToSet(circuit.input_wires) |->
     [bit \in BOOLEAN |-> LabelOf(RandomBlock(w), bit)]]

ConstantLabels ==
  [w \in DOMAIN ConstantBit |-> LabelOf(RandomBlock(w), ConstantBit[w])]

(* The artifact of the circuit, with what is known of its last two parts.  *)
ArtifactWith(decoding, transcript) ==
  [input_wires |-> circuit.input_wires, output_wires |-> circuit.output_wires,
   public_input_labels |-> PublicLabels, constant_labels |-> ConstantLabels,
   output_zero_labels |-> decoding, transcript |-> transcript]

ZerosOfOutputs == [w \in ToSet(circuit.output_wires) |-> zero_labels[w]]

Walked ==
  /\ gate_index \in 0 .. Len(circuit.gates)
  /\ artifact = ArtifactWith(NoEntries, artifact.transcript)
  /\ GarbledUpTo(gate_index, zero_labels, artifact.transcript)

Whole ==
  /\ artifact = ArtifactWith(ZerosOfOutputs, artifact.transcript)
  /\ GarbledUpTo(Len(circuit.gates), zero_labels, artifact.transcript)

(* What Garble has written after the gates walked so far.                  *)
GarblingInv == stage = "garble_gates" => Walked

(* The artifact that is evaluated is that of the whole circuit.            *)
GarbledInv ==
  stage \in {"garbled", "evaluate_gates", "evaluated"} /\ ShapeIsOfArtifact
    => Whole

(* The shape file is the circuit's until another setup replaces it.        *)
ShapeInv ==
  /\ stage \in {"garble_gates", "garbled"} => ShapeIsOfArtifact
  /\ stage = "garbled_shape_replaced" => ~ShapeIsOfArtifact

(* The bits that labels stand for under the zero labels, and that all of   *)
(* them stand for one.                                                     *)
BitsOf(labels, zeros) ==
  [w \in {v \in DOMAIN labels \cap DOMAIN zeros :
            labels[v] \in {zeros[v], LabelOne(zeros[v])}} |->
     labels[w] = LabelOne(zeros[w])]

OwnLabels(labels, zeros) ==
  /\ DOMAIN labels \subseteq DOMAIN zeros
  /\ \A w \in DOMAIN labels : labels[w] \in {zeros[w], LabelOne(zeros[w])}

(* The evaluator has set the wires that the garbler had set at this gate,  *)
(* each to one of its two labels, and read one entry per AND gate so far.  *)
WalkInv ==
  Evaluating =>
    /\ gate_index \in 0 .. Len(circuit.gates)
    /\ stage = "evaluated" => gate_index = Len(circuit.gates)
    /\ read_cursor = Ands(gate_index)
    /\ DOMAIN active_labels = WiresAfter(gate_index)
    /\ OwnLabels(active_labels, zero_labels)

HalfGatesInv ==
  CircuitOK /\ WiresInOrder /\ GarblingInv /\ GarbledInv /\ ShapeInv /\ WalkInv

-----------------------------------------------------------------------------
(* Labels.                                                                 *)

(* A wire's two labels differ.                                             *)
LEMMA LabelsDiffer ==
  ASSUME NEW zero
  PROVE  LabelOne(zero) # zero
<1> DEFINE d == <<"delta", 0>>
<1>1. d \in LabelOne(zero) <=> d \notin zero
  BY DEF LabelOne, Plus, Delta
<1> QED BY <1>1

(* What the gates do to labels when they do something to their bits.       *)
LEMMA LabelAlgebra ==
  ASSUME NEW z, NEW y, NEW a \in BOOLEAN, NEW b \in BOOLEAN
  PROVE  /\ LabelOne(LabelOf(z, a)) = LabelOf(z, ~a)
         /\ Plus(LabelOf(z, a), LabelOf(y, b)) = LabelOf(Plus(z, y), a # b)
<1>1. LabelOne(LabelOne(z)) = z
  BY DEF LabelOne, Plus
<1>2. LabelOne(LabelOf(z, a)) = LabelOf(z, ~a)
  BY <1>1 DEF LabelOf
<1>3. /\ Plus(LabelOne(z), y) = LabelOne(Plus(z, y))
      /\ Plus(z, LabelOne(y)) = LabelOne(Plus(z, y))
      /\ Plus(LabelOne(z), LabelOne(y)) = Plus(z, y)
  <2>1. Plus(LabelOne(z), y) = LabelOne(Plus(z, y))
    BY DEF LabelOne, Plus
  <2>2. Plus(z, LabelOne(y)) = LabelOne(Plus(z, y))
    BY DEF LabelOne, Plus
  <2>3. Plus(LabelOne(z), LabelOne(y)) = Plus(z, y)
    BY DEF LabelOne, Plus
  <2> QED BY <2>1, <2>2, <2>3
<1>4. Plus(LabelOf(z, a), LabelOf(y, b)) = LabelOf(Plus(z, y), a # b)
  <2>1. CASE a = TRUE /\ b = TRUE
    BY <1>3, <2>1 DEF LabelOf
  <2>2. CASE a = TRUE /\ b = FALSE
    BY <1>3, <2>2 DEF LabelOf
  <2>3. CASE a = FALSE /\ b = TRUE
    BY <1>3, <2>3 DEF LabelOf
  <2>4. CASE a = FALSE /\ b = FALSE
    BY <2>4 DEF LabelOf
  <2> QED BY <2>1, <2>2, <2>3, <2>4
<1> QED BY <1>2, <1>4

(* The half gate on labels of its own entry.                               *)
LEMMA HalfGate ==
  ASSUME NEW z, NEW y, NEW n, NEW m, NEW a \in BOOLEAN, NEW b \in BOOLEAN
  PROVE  AndGateEva(AndEntry(z, y, n), LabelOf(z, a), LabelOf(y, b), m) =
           LabelOf(AndBlock(n), a /\ b)
<1> DEFINE entry == AndEntry(z, y, n)
<1>1. entry.lhs = z /\ entry.rhs = y /\ entry.out = AndBlock(n)
  BY DEF AndEntry
<1>2. /\ LabelOf(z, a) \in {z, LabelOne(z)} /\ (LabelOf(z, a) # z) = a
      /\ LabelOf(y, b) \in {y, LabelOne(y)} /\ (LabelOf(y, b) # y) = b
  BY LabelsDiffer DEF LabelOf
<1> HIDE DEF entry
<1> QED BY <1>1, <1>2 DEF AndGateEva, entry

(* Blocks are labels, and so is the exclusive or of two labels.            *)
LEMMA LabelTypes ==
  /\ \A n \in Nat : RandomBlock(n) \in Label /\ AndBlock(n) \in Label
  /\ \A z, y \in Label : Plus(z, y) \in Label
BY DEF Label, RandomBlock, AndBlock, Plus

-----------------------------------------------------------------------------
(* Counting the AND gates.                                                 *)

(* The AND gates of a walk can be counted.                                 *)
LEMMA AndsAreFinite ==
  ASSUME NEW n \in Nat
  PROVE  IsFiniteSet(AndGates(n)) /\ Ands(n) \in Nat
<1>1. IsFiniteSet(1 .. n)
  BY FS_Interval
<1>2. AndGates(n) \subseteq 1 .. n
  BY DEF AndGates
<1>3. IsFiniteSet(AndGates(n))
  BY <1>1, <1>2, FS_Subset
<1> QED BY <1>3, FS_CardinalityType DEF Ands

(* A walk starts with none.                                                *)
LEMMA AndsStart == Ands(0) = 0
<1>1. AndGates(0) = {}
  BY DEF AndGates
<1> QED BY <1>1, FS_EmptySet DEF Ands

(* An AND gate adds one, any other gate none.                              *)
LEMMA AndsStep ==
  ASSUME NEW n \in Nat
  PROVE  Ands(n + 1) =
           IF circuit.gates[n + 1].kind = "And" THEN Ands(n) + 1 ELSE Ands(n)
<1>1. 1 .. n + 1 = (1 .. n) \cup {n + 1} /\ n + 1 \notin 1 .. n
  OBVIOUS
<1>2. IsFiniteSet(AndGates(n)) /\ n + 1 \notin AndGates(n)
  BY <1>1, AndsAreFinite DEF AndGates
<1>3. CASE circuit.gates[n + 1].kind = "And"
  <2>1. AndGates(n + 1) = AndGates(n) \cup {n + 1}
    BY <1>1, <1>3 DEF AndGates
  <2>2. Cardinality(AndGates(n) \cup {n + 1}) = Cardinality(AndGates(n)) + 1
    BY <1>2, FS_AddElement
  <2> QED BY <1>3, <2>1, <2>2 DEF Ands
<1>4. CASE circuit.gates[n + 1].kind # "And"
  <2>1. AndGates(n + 1) = AndGates(n)
    BY <1>1, <1>4 DEF AndGates
  <2> QED BY <1>4, <2>1 DEF Ands
<1> QED BY <1>3, <1>4

(* A longer walk has passed no fewer.                                      *)
LEMMA AndsGrow ==
  ASSUME NEW m \in Nat, NEW n \in Nat, m <= n
  PROVE  Ands(m) <= Ands(n)
<1>1. AndGates(m) \subseteq AndGates(n)
  BY DEF AndGates
<1>2. IsFiniteSet(AndGates(n))
  BY AndsAreFinite
<1> QED BY <1>1, <1>2, FS_Subset DEF Ands

(* The entry of an AND gate among the first n is in the transcript of the  *)
(* first n gates.                                                          *)
LEMMA EntryIsWritten ==
  ASSUME NEW n \in Nat, NEW i \in 1 .. n, circuit.gates[i].kind = "And"
  PROVE  /\ i - 1 \in Nat /\ Ands(i) = Ands(i - 1) + 1
         /\ Ands(i) \in 1 .. Ands(n) /\ Ands(i - 1) < Ands(n)
<1>1. i - 1 \in Nat /\ (i - 1) + 1 = i /\ i \in Nat /\ i <= n
  OBVIOUS
<1>2. Ands(i) = Ands(i - 1) + 1
  BY <1>1, AndsStep
<1>3. Ands(i - 1) \in Nat /\ Ands(n) \in Nat /\ Ands(i) <= Ands(n)
  BY <1>1, AndsAreFinite, AndsGrow
<1> QED BY <1>1, <1>2, <1>3

(* Steps that leave the circuit alone leave its wires and AND gates alone. *)
LEMMA CircuitParts ==
  ASSUME UNCHANGED circuit
  PROVE  /\ InitialWires' = InitialWires
         /\ \A n : WiresAfter(n)' = WiresAfter(n)
         /\ \A n : Ands(n)' = Ands(n)
BY DEF InitialWires, ConstantBit, WiresAfter, OutputsUpTo, Ands, AndGates

-----------------------------------------------------------------------------
(* Garbling one gate.                                                      *)

(* A gate that this backend garbles reads one wire or two.                 *)
LEMMA SmallArity ==
  ASSUME NEW gate \in BitGate, WellFormed(gate), gate.kind # "Mux"
  PROVE  /\ gate.kind \in {"And", "Xor", "Not", "Output"}
         /\ 1 \in 1 .. Len(gate.inputs) /\ Len(gate.inputs) \in Nat
         /\ gate.kind \in {"And", "Xor"} => 2 \in 1 .. Len(gate.inputs)
         /\ gate.kind \in {"Not", "Output"} => Len(gate.inputs) = 1
         /\ gate.kind \in {"And", "Xor"} => Len(gate.inputs) = 2
BY DEF BitGate, BitGateKind, WellFormed, Arity

(* What a gate leaves depends on the wires that are set before it only.    *)
LEMMA SameZeros ==
  ASSUME CircuitOK, WiresInOrder, NEW i \in 1 .. Len(circuit.gates),
         WellFormed(circuit.gates[i]), circuit.gates[i].kind # "Mux",
         NEW z, NEW y, \A w \in WiresAfter(i - 1) : z[w] = y[w]
  PROVE  /\ ZeroOf(i, z) = ZeroOf(i, y)
         /\ circuit.gates[i].kind = "And" => EntryOf(i, z) = EntryOf(i, y)
<1> DEFINE gate == circuit.gates[i]
<1>1. i - 1 \in Nat /\ i \in Nat
  BY DEF CircuitOK
<1>2. /\ gate \in BitGate
      /\ \A j \in 1 .. Len(gate.inputs) : gate.inputs[j] \in WiresAfter(i - 1)
  BY <1>1, GateWires
<1>3. /\ z[gate.inputs[1]] = y[gate.inputs[1]]
      /\ gate.kind \in {"And", "Xor"} => z[gate.inputs[2]] = y[gate.inputs[2]]
  BY <1>2, SmallArity
<1> HIDE DEF gate
<1> QED BY <1>3 DEF ZeroOf, EntryOf, gate

(* The step of Garble: a new zero label and, for an AND gate, a new entry. *)
LEMMA OneMoreGate ==
  ASSUME CircuitOK, WiresInOrder, NEW n \in Nat, n < Len(circuit.gates),
         NEW zeros, NEW transcript, GarbledUpTo(n, zeros, transcript),
         WellFormed(circuit.gates[n + 1]), circuit.gates[n + 1].kind # "Mux",
         NEW after, NEW written,
         after = Assign(zeros, circuit.gates[n + 1].output,
                        OutputZero(circuit.gates[n + 1].kind,
                                   Images(zeros, circuit.gates[n + 1].inputs),
                                   transcript)),
         written = IF circuit.gates[n + 1].kind = "And"
                   THEN Append(transcript,
                          AndEntry(Images(zeros, circuit.gates[n + 1].inputs)[1],
                                   Images(zeros, circuit.gates[n + 1].inputs)[2],
                                   Len(transcript) + 1))
                   ELSE transcript
  PROVE  GarbledUpTo(n + 1, after, written)
<1> DEFINE gate == circuit.gates[n + 1]
           wires == WiresAfter(n)
           one == zeros[gate.inputs[1]]
           two == zeros[gate.inputs[2]]
<1>1. /\ Len(circuit.gates) \in Nat /\ n + 1 \in 1 .. Len(circuit.gates)
      /\ (n + 1) - 1 = n
  BY DEF CircuitOK
<1>2. /\ gate \in BitGate
      /\ \A j \in 1 .. Len(gate.inputs) : gate.inputs[j] \in wires
  BY <1>1, GateWires
<1>3. gate.output \notin wires /\ WiresAfter(n + 1) = wires \cup {gate.output}
  BY <1>1, NextWire DEF WiresInOrder
<1>4. /\ zeros \in [wires -> Label] /\ transcript \in Seq(Entry)
      /\ Len(transcript) = Ands(n) /\ Ands(n) \in Nat
      /\ \A w \in InitialWires : zeros[w] = RandomBlock(w)
  BY AndsAreFinite DEF GarbledUpTo
<1>5. /\ gate.kind \in {"And", "Xor", "Not", "Output"} /\ one \in Label
      /\ gate.kind \in {"And", "Xor"} => two \in Label
      /\ Images(zeros, gate.inputs)[1] = one
      /\ gate.kind \in {"And", "Xor"} => Images(zeros, gate.inputs)[2] = two
  BY <1>2, <1>4, SmallArity DEF Images
<1>6. Ands(n + 1) = IF gate.kind = "And" THEN Ands(n) + 1 ELSE Ands(n)
  BY AndsStep
<1>7. OutputZero(gate.kind, Images(zeros, gate.inputs), transcript) =
        ZeroOf(n + 1, zeros)
  <2>1. CASE gate.kind = "And"
    BY <1>4, <1>6, <2>1 DEF OutputZero, ZeroOf
  <2>2. CASE gate.kind = "Xor"
    BY <1>5, <2>2 DEF OutputZero, ZeroOf
  <2>3. CASE gate.kind = "Not"
    BY <1>5, <2>3 DEF OutputZero, ZeroOf
  <2>4. CASE gate.kind = "Output"
    BY <1>5, <2>4 DEF OutputZero, ZeroOf
  <2> QED BY <1>5, <2>1, <2>2, <2>3, <2>4
<1>8. ZeroOf(n + 1, zeros) \in Label
  <2>1. Ands(n + 1) \in Nat
    BY <1>4, <1>6
  <2>2. AndBlock(Ands(n + 1)) \in Label
    BY <2>1, LabelTypes
  <2>3. gate.kind = "Xor" => Plus(one, two) \in Label
    BY <1>5, LabelTypes
  <2> QED BY <1>5, <2>2, <2>3 DEF ZeroOf
<1> HIDE DEF gate, wires, one, two
<1>9. /\ after \in [WiresAfter(n + 1) -> Label]
      /\ after[gate.output] = ZeroOf(n + 1, zeros)
      /\ \A w \in wires : after[w] = zeros[w]
  <2>1. after = [w \in wires \cup {gate.output} |->
                   IF w = gate.output THEN ZeroOf(n + 1, zeros) ELSE zeros[w]]
    BY <1>4, <1>7 DEF Assign, gate
  <2> QED BY <1>3, <1>4, <1>8, <2>1
<1>10. /\ written \in Seq(Entry) /\ Len(written) = Ands(n + 1)
       /\ \A k \in 1 .. Ands(n) : written[k] = transcript[k]
       /\ gate.kind = "And" => written[Ands(n + 1)] = AndEntry(one, two, Ands(n + 1))
  <2>1. CASE gate.kind = "And"
    <3> DEFINE entry == AndEntry(one, two, Ands(n) + 1)
    <3>1. written = Append(transcript, entry) /\ Ands(n + 1) = Ands(n) + 1
      BY <1>4, <1>5, <1>6, <2>1 DEF gate
    <3>2. entry \in Entry
      <4>1. AndBlock(Ands(n) + 1) \in Label
        BY <1>4, LabelTypes
      <4> QED BY <1>5, <2>1, <4>1 DEF AndEntry, Entry
    <3>3. AndEntry(one, two, Ands(n + 1)) = entry
      BY <3>1
    <3> HIDE DEF entry
    <3> QED BY <1>4, <2>1, <3>1, <3>2, <3>3
  <2>2. CASE gate.kind # "And"
    BY <1>4, <1>6, <2>2 DEF gate
  <2> QED BY <2>1, <2>2
<1>11. \A w \in InitialWires : after[w] = RandomBlock(w)
  BY <1>4, <1>9 DEF WiresAfter, wires
<1>12. ASSUME NEW i \in 1 .. n + 1
       PROVE  GateGarbled(i, after, written)
  <2>1. CASE i = n + 1
    <3>1. \A w \in WiresAfter((n + 1) - 1) : after[w] = zeros[w]
      BY <1>1, <1>9 DEF wires
    <3>2. /\ ZeroOf(n + 1, after) = ZeroOf(n + 1, zeros)
          /\ gate.kind = "And" => EntryOf(n + 1, after) = EntryOf(n + 1, zeros)
      BY <1>1, <3>1, SameZeros DEF gate
    <3>3. EntryOf(n + 1, zeros) = AndEntry(one, two, Ands(n + 1))
      BY DEF EntryOf, one, two, gate
    <3> QED BY <1>9, <1>10, <2>1, <3>2, <3>3 DEF GateGarbled, gate
  <2>2. CASE i # n + 1
    <3> DEFINE earlier == circuit.gates[i]
    <3>1. i \in 1 .. n /\ i \in 1 .. Len(circuit.gates) /\ i - 1 \in Nat /\ i - 1 <= n
      BY <1>1, <2>2
    <3>2. GateGarbled(i, zeros, transcript)
      BY <3>1 DEF GarbledUpTo
    <3>3. WellFormed(earlier) /\ earlier.kind # "Mux"
      BY <3>2 DEF GateGarbled
    <3>4. \A w \in WiresAfter(i - 1) : after[w] = zeros[w]
      BY <1>9, <3>1, WiresGrow DEF wires
    <3>5. /\ ZeroOf(i, after) = ZeroOf(i, zeros)
          /\ earlier.kind = "And" => EntryOf(i, after) = EntryOf(i, zeros)
      BY <3>1, <3>3, <3>4, SameZeros
    <3>6. after[earlier.output] = zeros[earlier.output]
      <4>1. earlier.output \in wires
        BY <3>1, GateWires DEF wires
      <4> QED BY <1>9, <4>1
    <3>7. earlier.kind = "And" => written[Ands(i)] = transcript[Ands(i)]
      <4>1. earlier.kind = "And" => Ands(i) \in 1 .. Ands(n)
        BY <3>1, EntryIsWritten
      <4> QED BY <1>10, <4>1
    <3> QED BY <3>2, <3>5, <3>6, <3>7 DEF GateGarbled
  <2> QED BY <2>1, <2>2
<1> QED BY <1>9, <1>10, <1>11, <1>12 DEF GarbledUpTo

-----------------------------------------------------------------------------
(* Labels and the bits they stand for.                                     *)

(* Labels of their own wires stand for the bits they are labels of.        *)
LEMMA BitsOfOwnLabels ==
  ASSUME NEW labels, NEW zeros, OwnLabels(labels, zeros)
  PROVE  /\ DOMAIN BitsOf(labels, zeros) = DOMAIN labels
         /\ \A w \in DOMAIN labels :
              /\ BitsOf(labels, zeros)[w] \in BOOLEAN
              /\ labels[w] = LabelOf(zeros[w], BitsOf(labels, zeros)[w])
<1>1. {v \in DOMAIN labels \cap DOMAIN zeros :
         labels[v] \in {zeros[v], LabelOne(zeros[v])}} = DOMAIN labels
  BY DEF OwnLabels
<1>2. DOMAIN BitsOf(labels, zeros) = DOMAIN labels
  BY <1>1 DEF BitsOf
<1>3. ASSUME NEW w \in DOMAIN labels
      PROVE  /\ BitsOf(labels, zeros)[w] \in BOOLEAN
             /\ labels[w] = LabelOf(zeros[w], BitsOf(labels, zeros)[w])
  <2>1. BitsOf(labels, zeros)[w] = (labels[w] = LabelOne(zeros[w]))
    BY <1>1 DEF BitsOf
  <2>2. labels[w] \in {zeros[w], LabelOne(zeros[w])}
    BY DEF OwnLabels
  <2>3. CASE labels[w] = LabelOne(zeros[w])
    BY <2>1, <2>3 DEF LabelOf
  <2>4. CASE labels[w] # LabelOne(zeros[w])
    BY <2>1, <2>2, <2>4 DEF LabelOf
  <2> QED BY <2>3, <2>4
<1> QED BY <1>2, <1>3

(* The labels of given bits stand for those bits and for no others.        *)
LEMMA BitsOfLabels ==
  ASSUME NEW S, NEW bits \in [S -> BOOLEAN], NEW labels, NEW zeros,
         DOMAIN labels = S, S \subseteq DOMAIN zeros,
         \A w \in S : labels[w] = LabelOf(zeros[w], bits[w])
  PROVE  OwnLabels(labels, zeros) /\ BitsOf(labels, zeros) = bits
<1>1. \A w \in S : bits[w] \in BOOLEAN
  OBVIOUS
<1>2. OwnLabels(labels, zeros)
  BY <1>1 DEF OwnLabels, LabelOf
<1>3. /\ DOMAIN BitsOf(labels, zeros) = S
      /\ \A w \in S : /\ BitsOf(labels, zeros)[w] \in BOOLEAN
                      /\ labels[w] = LabelOf(zeros[w], BitsOf(labels, zeros)[w])
  BY <1>2, BitsOfOwnLabels
<1>4. \A w \in S : BitsOf(labels, zeros)[w] = bits[w]
  <2> TAKE w \in S
  <2>1. LabelOf(zeros[w], BitsOf(labels, zeros)[w]) = LabelOf(zeros[w], bits[w])
    BY <1>3
  <2>2. /\ BitsOf(labels, zeros)[w] \in BOOLEAN /\ bits[w] \in BOOLEAN
        /\ LabelOne(zeros[w]) # zeros[w]
    BY <1>1, <1>3, LabelsDiffer
  <2> QED BY <2>1, <2>2 DEF LabelOf
<1>5. BitsOf(labels, zeros) =
        [w \in DOMAIN BitsOf(labels, zeros) |-> BitsOf(labels, zeros)[w]]
  BY DEF BitsOf
<1>6. bits = [w \in S |-> bits[w]]
  OBVIOUS
<1>7. [w \in DOMAIN BitsOf(labels, zeros) |-> BitsOf(labels, zeros)[w]]
        = [w \in S |-> bits[w]]
  BY <1>3, <1>4
<1> QED BY <1>2, <1>5, <1>6, <1>7

(* The two modules speak of the same circuit.                              *)
LEMMA SameWords ==
  /\ Plain!ConstantBit = ConstantBit
  /\ Plain!NoEntries = NoEntries
  /\ \A inputs : Plain!ToSet(inputs) = ToSet(inputs)
  /\ \A map, inputs : /\ Plain!Images(map, inputs) = Images(map, inputs)
                      /\ Plain!SetOn(map, inputs) = SetOn(map, inputs)
  /\ \A map, key, value :
       Plain!Assign(map, key, value) = Assign(map, key, value)
  /\ \A kind, inputs : Plain!EvalGate(kind, inputs) = EvalGate(kind, inputs)
BY DEF Plain!ConstantBit, ConstantBit, Plain!NoEntries, NoEntries,
       Plain!ToSet, ToSet, Plain!Images, Images, Plain!SetOn, SetOn,
       Plain!Assign, Assign, Plain!EvalGate, EvalGate

(* The bits a plain evaluation starts with, in this module's words.        *)
LEMMA InitialBitsAre ==
  ASSUME NEW bits
  PROVE  Plain!InitialBits(bits) =
           [w \in ToSet(circuit.input_wires) \cup DOMAIN ConstantBit |->
              IF w \in ToSet(circuit.input_wires) THEN bits[w]
                                                  ELSE ConstantBit[w]]
BY SameWords DEF Plain!InitialBits

(* What Evaluate starts with are the labels of the initial bits.           *)
LEMMA FirstLabels ==
  ASSUME CircuitOK, Whole, NEW bits \in InputBits, EvaluateInputs(bits)
  PROVE  /\ bits \in [ToSet(circuit.input_wires) -> BOOLEAN]
         /\ DOMAIN active_labels' = InitialWires
         /\ OwnLabels(active_labels', zero_labels)
         /\ BitsOf(active_labels', zero_labels) = Plain!InitialBits(bits)
<1> DEFINE I == ToSet(circuit.input_wires)
           C == DOMAIN ConstantBit
           S == I \cup C
<1>1. /\ artifact.input_wires = circuit.input_wires
      /\ artifact.public_input_labels = PublicLabels
      /\ artifact.constant_labels = ConstantLabels
  BY DEF Whole, ArtifactWith
<1>2. /\ DOMAIN artifact.constant_labels = C
      /\ \A w \in I : \A bit \in BOOLEAN :
           artifact.public_input_labels[w][bit] = LabelOf(RandomBlock(w), bit)
      /\ \A w \in C : artifact.constant_labels[w] =
           LabelOf(RandomBlock(w), ConstantBit[w])
  BY <1>1 DEF PublicLabels, ConstantLabels
<1>3. S \subseteq DOMAIN zero_labels /\ \A w \in S : zero_labels[w] = RandomBlock(w)
  BY DEF Whole, GarbledUpTo, WiresAfter, InitialWires
<1>4. bits \in [I -> BOOLEAN]
  <2>1. PICK wires \in SUBSET I : bits \in [wires -> BOOLEAN]
    BY DEF InputBits
  <2>2. I \subseteq DOMAIN bits
    BY <1>1 DEF EvaluateInputs
  <2> QED BY <2>1, <2>2
<1>5. Plain!InitialBits(bits) \in [S -> BOOLEAN]
  <2>1. \A w \in C : ConstantBit[w] \in BOOLEAN
    BY ConstantsAreBits
  <2> QED BY <1>4, <2>1, InitialBitsAre
<1>6. DOMAIN active_labels' = S
  BY <1>1, <1>2 DEF EvaluateInputs
<1>7. ASSUME NEW w \in S
      PROVE  active_labels'[w] = LabelOf(zero_labels[w], Plain!InitialBits(bits)[w])
  <2>1. active_labels'[w] =
          IF w \in I THEN artifact.public_input_labels[w][bits[w]]
                     ELSE artifact.constant_labels[w]
    BY <1>1, <1>2, <1>7 DEF EvaluateInputs
  <2>2. Plain!InitialBits(bits)[w] = IF w \in I THEN bits[w] ELSE ConstantBit[w]
    BY <1>7, InitialBitsAre
  <2>3. CASE w \in I
    <3>1. bits[w] \in BOOLEAN
      BY <1>4, <2>3
    <3> QED BY <1>2, <1>3, <2>1, <2>2, <2>3, <3>1
  <2>4. CASE w \notin I
    BY <1>2, <1>3, <1>7, <2>1, <2>2, <2>4
  <2> QED BY <2>3, <2>4
<1>8. S = InitialWires
  BY DEF InitialWires
<1> HIDE DEF S, I, C
<1>9. /\ OwnLabels(active_labels', zero_labels)
      /\ BitsOf(active_labels', zero_labels) = Plain!InitialBits(bits)
  BY <1>3, <1>5, <1>6, <1>7, BitsOfLabels
<1> QED BY <1>4, <1>6, <1>8, <1>9 DEF I

-----------------------------------------------------------------------------
(* Evaluating one gate.                                                    *)

(* The shape file drops the bits of the constants and nothing else that the *)
(* evaluator reads.                                                        *)
LEMMA ShapeIsTheCircuit ==
  ASSUME CircuitOK, ShapeIsOfArtifact
  PROVE  /\ shape.gates = circuit.gates
         /\ shape.input_wires = circuit.input_wires
         /\ shape.output_wires = circuit.output_wires
         /\ Len(circuit.gates) \in Nat
BY DEF CircuitOK, ShapeIsOfArtifact, ShapeOf

(* The label a gate gives stands for the bit the gate gives: an AND gate   *)
(* reads its own entry, and the bits of its inputs choose the label.       *)
LEMMA GateOnLabels ==
  ASSUME CircuitOK, WiresInOrder, NEW n \in Nat, n < Len(circuit.gates),
         NEW zeros, NEW transcript,
         GarbledUpTo(Len(circuit.gates), zeros, transcript),
         NEW labels, OwnLabels(labels, zeros), DOMAIN labels = WiresAfter(n)
  PROVE  LET gate == circuit.gates[n + 1]
             held == Images(labels, gate.inputs)
             bits == Images(BitsOf(labels, zeros), gate.inputs)
             label ==
               CASE gate.kind = "And" ->
                      AndGateEva(transcript[Ands(n) + 1], held[1], held[2], Ands(n))
                 [] gate.kind = "Xor" -> Plus(held[1], held[2])
                 [] gate.kind = "Not" -> NotGateEva(held[1])
                 [] gate.kind = "Output" -> held[1]
         IN  /\ gate.output \in DOMAIN zeros
             /\ SetOn(labels, gate.inputs)
             /\ EvalGate(gate.kind, bits) \in BOOLEAN
             /\ label = LabelOf(zeros[gate.output], EvalGate(gate.kind, bits))
<1> DEFINE gate == circuit.gates[n + 1]
           held == Images(labels, gate.inputs)
           bits == Images(BitsOf(labels, zeros), gate.inputs)
           one == zeros[gate.inputs[1]]
           two == zeros[gate.inputs[2]]
           label ==
             CASE gate.kind = "And" ->
                    AndGateEva(transcript[Ands(n) + 1], held[1], held[2], Ands(n))
               [] gate.kind = "Xor" -> Plus(held[1], held[2])
               [] gate.kind = "Not" -> NotGateEva(held[1])
               [] gate.kind = "Output" -> held[1]
<1>1. /\ Len(circuit.gates) \in Nat /\ n + 1 \in 1 .. Len(circuit.gates)
      /\ (n + 1) - 1 = n /\ n + 1 \in Nat
  BY DEF CircuitOK
<1>2. /\ gate \in BitGate
      /\ \A j \in 1 .. Len(gate.inputs) : gate.inputs[j] \in WiresAfter(n)
  BY <1>1, GateWires
<1>3. GateGarbled(n + 1, zeros, transcript)
  BY <1>1 DEF GarbledUpTo
<1>4. /\ WellFormed(gate) /\ gate.kind # "Mux"
      /\ zeros[gate.output] = ZeroOf(n + 1, zeros)
      /\ gate.kind = "And" =>
           transcript[Ands(n + 1)] = AndEntry(one, two, Ands(n + 1))
  BY <1>3 DEF GateGarbled, EntryOf
<1>5. gate.output \in DOMAIN zeros
  <2>1. gate.output \in WiresAfter(Len(circuit.gates))
    BY <1>1, GateWires
  <2> QED BY <2>1 DEF GarbledUpTo
<1>6. SetOn(labels, gate.inputs)
  BY <1>1 DEF WiresInOrder, SetOn
<1>7. ASSUME NEW j \in 1 .. Len(gate.inputs)
      PROVE  /\ bits[j] \in BOOLEAN
             /\ held[j] = LabelOf(zeros[gate.inputs[j]], bits[j])
  <2>1. gate.inputs[j] \in DOMAIN labels
    BY <1>2
  <2>2. /\ BitsOf(labels, zeros)[gate.inputs[j]] \in BOOLEAN
        /\ labels[gate.inputs[j]] =
             LabelOf(zeros[gate.inputs[j]], BitsOf(labels, zeros)[gate.inputs[j]])
    BY <2>1, BitsOfOwnLabels
  <2> QED BY <2>2 DEF Images
<1> HIDE DEF held, bits
<1>8. /\ gate.kind \in {"And", "Xor", "Not", "Output"}
      /\ bits[1] \in BOOLEAN /\ held[1] = LabelOf(one, bits[1])
      /\ gate.kind \in {"And", "Xor"} =>
           bits[2] \in BOOLEAN /\ held[2] = LabelOf(two, bits[2])
  BY <1>2, <1>4, <1>7, SmallArity
<1> HIDE DEF gate, one, two
<1>9. CASE gate.kind = "And"
  <2>1. Ands(n + 1) = Ands(n) + 1
    BY <1>9, AndsStep DEF gate
  <2>2. label = AndGateEva(AndEntry(one, two, Ands(n + 1)), LabelOf(one, bits[1]),
                           LabelOf(two, bits[2]), Ands(n))
    BY <1>4, <1>8, <1>9, <2>1
  <2>3. label = LabelOf(AndBlock(Ands(n + 1)), bits[1] /\ bits[2])
    BY <1>8, <1>9, <2>2, HalfGate
  <2>4. EvalGate(gate.kind, bits) = (bits[1] /\ bits[2])
    BY <1>9 DEF EvalGate
  <2>5. zeros[gate.output] = AndBlock(Ands(n + 1))
    BY <1>4, <1>9 DEF ZeroOf, gate
  <2>6. (bits[1] /\ bits[2]) \in BOOLEAN
    BY <1>8, <1>9
  <2> HIDE DEF label
  <2> QED BY <1>5, <1>6, <2>3, <2>4, <2>5, <2>6 DEF gate, label, held, bits
<1>10. CASE gate.kind = "Xor"
  <2>1. label = Plus(LabelOf(one, bits[1]), LabelOf(two, bits[2]))
    BY <1>8, <1>10
  <2>2. label = LabelOf(Plus(one, two), bits[1] # bits[2])
    BY <1>8, <1>10, <2>1, LabelAlgebra
  <2>3. EvalGate(gate.kind, bits) = (bits[1] # bits[2])
    BY <1>10 DEF EvalGate
  <2>4. zeros[gate.output] = Plus(one, two)
    BY <1>4, <1>10 DEF ZeroOf, gate, one, two
  <2>5. (bits[1] # bits[2]) \in BOOLEAN
    OBVIOUS
  <2> HIDE DEF label
  <2> QED BY <1>5, <1>6, <2>2, <2>3, <2>4, <2>5 DEF gate, label, held, bits
<1>11. CASE gate.kind = "Not"
  <2>1. label = LabelOne(LabelOf(one, bits[1]))
    BY <1>8, <1>11 DEF NotGateEva
  <2>2. label = LabelOf(one, ~bits[1])
    BY <1>8, <2>1, LabelAlgebra
  <2>3. EvalGate(gate.kind, bits) = ~bits[1]
    BY <1>11 DEF EvalGate
  <2>4. zeros[gate.output] = one
    BY <1>4, <1>11 DEF ZeroOf, gate, one
  <2>5. (~bits[1]) \in BOOLEAN
    OBVIOUS
  <2> HIDE DEF label
  <2> QED BY <1>5, <1>6, <2>2, <2>3, <2>4, <2>5 DEF gate, label, held, bits
<1>12. CASE gate.kind = "Output"
  <2>1. label = LabelOf(one, bits[1])
    BY <1>8, <1>12
  <2>2. EvalGate(gate.kind, bits) = bits[1]
    BY <1>12 DEF EvalGate
  <2>3. zeros[gate.output] = one
    BY <1>4, <1>12 DEF ZeroOf, gate, one
  <2> HIDE DEF label
  <2> QED BY <1>5, <1>6, <1>8, <2>1, <2>2, <2>3 DEF gate, label, held, bits
<1> QED BY <1>8, <1>9, <1>10, <1>11, <1>12

(* After EvaluateGate the labels held stand for the bits that a plain      *)
(* evaluation of the gate gives, and the cursor has passed the entries of  *)
(* the AND gates walked.                                                   *)
LEMMA EvaluatedGate ==
  ASSUME HalfGatesInv, EvaluateGate, ShapeIsOfArtifact
  PROVE  LET gate == circuit.gates[gate_index + 1]
             bits == BitsOf(active_labels, zero_labels)
         IN  /\ gate_index \in Nat /\ gate_index < Len(circuit.gates)
             /\ SetOn(bits, gate.inputs)
             /\ read_cursor' = Ands(gate_index + 1)
             /\ DOMAIN active_labels' = WiresAfter(gate_index + 1)
             /\ OwnLabels(active_labels', zero_labels)
             /\ BitsOf(active_labels', zero_labels) =
                  Assign(bits, gate.output,
                         EvalGate(gate.kind, Images(bits, gate.inputs)))
<1> DEFINE gate == circuit.gates[gate_index + 1]
           bits == BitsOf(active_labels, zero_labels)
           value == EvalGate(gate.kind, Images(bits, gate.inputs))
           held == Images(active_labels, gate.inputs)
           label ==
             CASE gate.kind = "And" ->
                    AndGateEva(artifact.transcript[read_cursor + 1],
                               held[1], held[2], read_cursor)
               [] gate.kind = "Xor" -> Plus(held[1], held[2])
               [] gate.kind = "Not" -> NotGateEva(held[1])
               [] gate.kind = "Output" -> held[1]
<1>1. /\ CircuitOK /\ WiresInOrder /\ Evaluating /\ Whole
      /\ gate_index \in 0 .. Len(circuit.gates)
      /\ read_cursor = Ands(gate_index)
      /\ DOMAIN active_labels = WiresAfter(gate_index)
      /\ OwnLabels(active_labels, zero_labels)
      /\ shape.gates = circuit.gates /\ Len(circuit.gates) \in Nat
  BY ShapeIsTheCircuit DEF HalfGatesInv, GarbledInv, WalkInv, Evaluating,
     EvaluateGate
<1>2. gate_index \in Nat /\ gate_index < Len(circuit.gates)
  BY <1>1 DEF EvaluateGate
<1>3. /\ active_labels' = Assign(active_labels, gate.output, label)
      /\ read_cursor' = IF gate.kind = "And" THEN read_cursor + 1 ELSE read_cursor
  BY <1>1 DEF EvaluateGate, Gate, CursorAfter
<1>4. /\ gate.output \in DOMAIN zero_labels
      /\ SetOn(active_labels, gate.inputs)
      /\ value \in BOOLEAN
      /\ label = LabelOf(zero_labels[gate.output], value)
  BY <1>1, <1>2, GateOnLabels DEF Whole
<1>5. read_cursor' = Ands(gate_index + 1)
  BY <1>1, <1>2, <1>3, AndsStep
<1> HIDE DEF label
<1>6. /\ DOMAIN bits = DOMAIN active_labels
      /\ \A w \in DOMAIN active_labels :
           /\ bits[w] \in BOOLEAN
           /\ active_labels[w] = LabelOf(zero_labels[w], bits[w])
  BY <1>1, BitsOfOwnLabels
<1> DEFINE S == DOMAIN active_labels \cup {gate.output}
           after == Assign(bits, gate.output, value)
<1> HIDE DEF bits, value
<1>7. after \in [S -> BOOLEAN]
  BY <1>4, <1>6 DEF Assign
<1>8. DOMAIN active_labels' = S
  BY <1>3 DEF Assign
<1>9. S \subseteq DOMAIN zero_labels
  BY <1>1, <1>4 DEF OwnLabels
<1>10. ASSUME NEW w \in S
       PROVE  active_labels'[w] = LabelOf(zero_labels[w], after[w])
  <2>1. CASE w = gate.output
    BY <1>3, <1>4, <2>1 DEF Assign
  <2>2. CASE w # gate.output
    <3>1. active_labels'[w] = active_labels[w]
      BY <1>3, <2>2 DEF Assign
    <3>2. after[w] = bits[w]
      BY <1>6, <2>2 DEF Assign
    <3> QED BY <1>6, <2>2, <3>1, <3>2
  <2> QED BY <2>1, <2>2
<1>11. S = WiresAfter(gate_index + 1)
  BY <1>1, <1>2, NextWire
<1> HIDE DEF S, after
<1>12. OwnLabels(active_labels', zero_labels) /\ BitsOf(active_labels', zero_labels) = after
  BY <1>7, <1>8, <1>9, <1>10, BitsOfLabels
<1>13. SetOn(bits, gate.inputs)
  BY <1>4, <1>6 DEF SetOn
<1> QED BY <1>2, <1>5, <1>8, <1>11, <1>12, <1>13 DEF gate, bits, value, after

-----------------------------------------------------------------------------
(* The invariant is kept.                                                  *)

(* What was garbled for this circuit is so in the next state.              *)
LEMMA WalkedThen ==
  ASSUME UNCHANGED circuit,
         gate_index' \in 0 .. Len(circuit.gates),
         artifact' = ArtifactWith(NoEntries, artifact'.transcript),
         GarbledUpTo(gate_index', zero_labels', artifact'.transcript)
  PROVE  Walked'
<1>1. GarbledUpTo(gate_index, zero_labels, artifact.transcript)'
  BY CircuitParts DEF GarbledUpTo, GateGarbled, ZeroOf, EntryOf, WellFormed
<1>2. artifact' = ArtifactWith(NoEntries, artifact.transcript)'
  BY DEF ArtifactWith, PublicLabels, ConstantLabels, ConstantBit
<1> QED BY <1>1, <1>2 DEF Walked

(* What was completed for this circuit is so in the next state.            *)
LEMMA WholeThen ==
  ASSUME UNCHANGED <<circuit, zero_labels>>,
         artifact' = ArtifactWith(ZerosOfOutputs, artifact'.transcript),
         GarbledUpTo(Len(circuit.gates), zero_labels, artifact'.transcript)
  PROVE  Whole'
<1>1. GarbledUpTo(Len(circuit.gates), zero_labels, artifact.transcript)'
  BY CircuitParts DEF GarbledUpTo, GateGarbled, ZeroOf, EntryOf, WellFormed
<1>2. artifact' = ArtifactWith(ZerosOfOutputs, artifact.transcript)'
  BY DEF ArtifactWith, ZerosOfOutputs, PublicLabels, ConstantLabels, ConstantBit
<1> QED BY <1>1, <1>2 DEF Whole

(* Steps that change neither labels nor artifact keep it whole.            *)
LEMMA WholeKept ==
  ASSUME Whole, UNCHANGED <<circuit, zero_labels, artifact>>
  PROVE  Whole'
BY WholeThen DEF Whole

(* Only a new shape file changes whose shape it is.                        *)
LEMMA ShapeKept ==
  ASSUME UNCHANGED <<circuit, shape>>
  PROVE  ShapeIsOfArtifact' <=> ShapeIsOfArtifact
BY DEF ShapeIsOfArtifact, ShapeOf

(* Another setup's shape is not the shape of this circuit.                 *)
LEMMA OtherShapesDiffer ==
  ASSUME CircuitOK, ShapeIsOfArtifact, SetupStopsAfterShape
  PROVE  ~ShapeIsOfArtifact'
<1> DEFINE gates == shape.gates
           last == Len(gates)
<1>1. /\ circuit.gates \in Seq(BitGate) /\ circuit.output_wires \in Seq(Nat)
      /\ DOMAIN circuit = {"wires", "input_wires", "output_wires",
                           "constant_wires", "secret_constant_wires", "gates"}
  BY DEF CircuitOK
<1>2. /\ gates = circuit.gates /\ shape.output_wires = circuit.output_wires
      /\ DOMAIN shape = DOMAIN circuit
  BY DEF ShapeIsOfArtifact, ShapeOf
<1>3. last \in Nat \ {0} /\ UNCHANGED circuit
  BY <1>1, <1>2 DEF SetupStopsAfterShape
<1>4. shape' # shape
  <2>1. shape' \in OtherShapes
    BY DEF SetupStopsAfterShape
  <2>2. Append(shape.output_wires, 0) # shape.output_wires
    <3>1. Len(Append(shape.output_wires, 0)) = Len(shape.output_wires) + 1
          /\ Len(shape.output_wires) \in Nat
      BY <1>1, <1>2
    <3> QED BY <3>1
  <2>3. SubSeq(gates, 1, last - 1) # gates
    <3>1. Len(SubSeq(gates, 1, last - 1)) = last - 1
      <4>1. gates \in Seq(BitGate) /\ last - 1 \in 0 .. Len(gates)
        BY <1>1, <1>2, <1>3
      <4> HIDE DEF gates, last
      <4>2. /\ 1 \in 1 .. Len(gates) + 1 /\ last - 1 \in 1 - 1 .. Len(gates)
            /\ last \in Nat
        BY <1>3, <4>1
      <4>3. Len(SubSeq(gates, 1, last - 1)) =
              IF 1 <= last - 1 THEN (last - 1) - 1 + 1 ELSE 0
        BY <4>1, <4>2, SubSeqProperties
      <4> QED BY <1>3, <4>3
    <3> QED BY <1>3, <3>1
  <2>4. ASSUME NEW gate PROVE Append(gates, gate) # gates
    <3>1. Len(Append(gates, gate)) = last + 1
      BY <1>1, <1>2, <1>3
    <3> QED BY <1>3, <3>1
  <2>5. CASE shape' = [shape EXCEPT !.output_wires = Append(@, 0)]
    <3>1. shape'.output_wires = Append(shape.output_wires, 0)
      BY <1>1, <1>2, <2>5
    <3> QED BY <2>2, <3>1
  <2>6. CASE shape' = [shape EXCEPT !.gates = SubSeq(gates, 1, last - 1)]
    <3>1. shape'.gates = SubSeq(gates, 1, last - 1)
      BY <1>1, <1>2, <2>6
    <3> QED BY <2>3, <3>1
  <2>7. CASE \E kind \in BitGateKind \ {gates[last].kind} :
               shape' = [shape EXCEPT !.gates[last].kind = kind]
    <3>1. PICK kind \in BitGateKind \ {gates[last].kind} :
            shape' = [shape EXCEPT !.gates[last].kind = kind]
      BY <2>7
    <3>2. gates[last] \in BitGate /\ last \in DOMAIN gates
      BY <1>1, <1>2, <1>3
    <3>3. shape'.gates = [gates EXCEPT ![last].kind = kind]
      BY <1>1, <1>2, <3>1
    <3>4. shape'.gates[last].kind = kind
      BY <3>2, <3>3 DEF BitGate
    <3> QED BY <3>1, <3>4
  <2>8. CASE shape' = [shape EXCEPT !.wires = @ + 1,
               !.gates = Append(@, [gates[last] EXCEPT !.output = shape.wires])]
    <3>1. shape'.gates = Append(gates, [gates[last] EXCEPT !.output = shape.wires])
      BY <1>1, <1>2, <2>8
    <3> QED BY <2>4, <3>1
  <2> QED BY <2>1, <2>5, <2>6, <2>7, <2>8 DEF OtherShapes
<1> QED BY <1>3, <1>4 DEF ShapeIsOfArtifact, ShapeOf

(* The invariant holds before anything is built.                           *)
LEMMA InvariantAtFirst == Init => HalfGatesInv
<1> SUFFICES ASSUME Init PROVE HalfGatesInv
  OBVIOUS
<1>1. CircuitOK /\ WiresInOrder /\ stage = "build"
  BY CircuitAtFirst DEF Init, BuilderInit
<1> QED BY <1>1 DEF HalfGatesInv, GarblingInv, GarbledInv, ShapeInv, WalkInv,
           Evaluating

(* Garble's first step labels the inputs and the constants.                *)
LEMMA FirstZeros ==
  ASSUME CircuitOK, WiresInOrder
  PROVE  GarbledUpTo(0, InitialZeroLabels, <<>>)
<1>1. WiresAfter(0) = InitialWires
  BY DEF WiresAfter, OutputsUpTo
<1>2. InitialWires \subseteq Nat
  <2>1. InitialWires \subseteq WireIds
    BY DEF WiresInOrder, WiresAfter
  <2>2. WireIds \subseteq Nat
    BY DEF WireIds, CircuitOK
  <2> QED BY <2>1, <2>2
<1>3. InitialZeroLabels = [w \in InitialWires |-> RandomBlock(w)]
  BY DEF InitialZeroLabels, InitialWires
<1>4. \A w \in InitialWires : RandomBlock(w) \in Label
  BY <1>2, LabelTypes
<1>5. InitialZeroLabels \in [WiresAfter(0) -> Label]
  BY <1>1, <1>3, <1>4
<1>6. <<>> \in Seq(Entry) /\ Len(<<>>) = Ands(0)
  BY AndsStart
<1> QED BY <1>3, <1>5, <1>6 DEF GarbledUpTo

(* An evaluation of the circuit's own shape does not get stuck.            *)
LEMMA NeverStuck ==
  ASSUME HalfGatesInv, stage = "evaluate_gates", ShapeIsOfArtifact
  PROVE  ~Stuck
<1>1. /\ CircuitOK /\ WiresInOrder /\ Whole
      /\ gate_index \in 0 .. Len(circuit.gates)
      /\ read_cursor = Ands(gate_index)
      /\ DOMAIN active_labels = WiresAfter(gate_index)
      /\ OwnLabels(active_labels, zero_labels)
      /\ shape.gates = circuit.gates /\ Len(circuit.gates) \in Nat
  BY ShapeIsTheCircuit DEF HalfGatesInv, GarbledInv, WalkInv, Evaluating
<1>2. ASSUME gate_index < Len(shape.gates)
      PROVE  Walkable(Gate(shape.gates))
  <2> DEFINE i == gate_index + 1
             gate == circuit.gates[i]
  <2>1. i \in 1 .. Len(circuit.gates) /\ i - 1 = gate_index /\ gate_index \in Nat
    BY <1>1, <1>2
  <2>2. GateGarbled(i, zero_labels, artifact.transcript)
        /\ Len(artifact.transcript) = Ands(Len(circuit.gates))
    BY <1>1, <2>1 DEF Whole, GarbledUpTo
  <2>3. WellFormed(gate) /\ gate.kind # "Mux"
    BY <2>2 DEF GateGarbled
  <2>4. SetOn(active_labels, gate.inputs)
    BY <1>1, <2>1 DEF WiresInOrder, SetOn
  <2>5. gate.kind = "And" => read_cursor < Len(artifact.transcript)
    BY <1>1, <2>1, <2>2, EntryIsWritten
  <2>6. Gate(shape.gates) = gate
    BY <1>1 DEF Gate
  <2> HIDE DEF gate
  <2> QED BY <2>3, <2>4, <2>5, <2>6 DEF Walkable
<1>3. ASSUME ~(gate_index < Len(shape.gates))
      PROVE  AllDecodable
  <2>1. gate_index = Len(circuit.gates)
    BY <1>1, <1>3
  <2>2. ToSet(circuit.output_wires) \subseteq DOMAIN active_labels
    BY <1>1, <2>1 DEF WiresInOrder
  <2>3. /\ artifact.output_wires = circuit.output_wires
        /\ \A w \in ToSet(circuit.output_wires) :
             artifact.output_zero_labels[w] = zero_labels[w]
    BY <1>1 DEF Whole, ArtifactWith, ZerosOfOutputs
  <2> QED BY <1>1, <2>2, <2>3 DEF AllDecodable, Decodable, OwnLabels
<1> QED BY <1>2, <1>3 DEF Stuck

(* Every step keeps the invariant.                                         *)
LEMMA InvariantKept == HalfGatesInv /\ [Next]_vars => HalfGatesInv'
<1> SUFFICES ASSUME HalfGatesInv, [Next]_vars PROVE HalfGatesInv'
  OBVIOUS
<1> USE DEF HalfGatesInv
<1>0. CircuitOK /\ WiresInOrder /\ Len(circuit.gates) \in Nat
  BY DEF CircuitOK
<1>1. CASE BuilderNext /\ UNCHANGED <<garbleVars, evalVars, gate_index>>
  <2>1. CircuitOK' /\ WiresInOrder'
    BY <1>0, <1>1, BuilderKeepsCircuit, BuilderKeepsOrder
  <2>2. stage' \in {"build", "build_threw", "garble"}
    BY <1>1 DEF BuilderNext, AddInputWire, AddConstantWire,
       AddSecretConstantWire, AddGate, AddGateThrows, AddOutputWire,
       AddOutputWireThrows, Build
  <2> QED BY <2>1, <2>2 DEF GarblingInv, GarbledInv, ShapeInv, WalkInv, Evaluating
<1>2. ASSUME UNCHANGED circuit
      PROVE  CircuitOK' /\ WiresInOrder'
  BY <1>0, <1>2, CircuitKept, OrderKept
<1>3. CASE GarbleWires
  <2>1. UNCHANGED circuit /\ stage' = "garble_gates" /\ gate_index' = 0
        /\ zero_labels' = InitialZeroLabels /\ shape' = ShapeOf(circuit)
    BY <1>3 DEF GarbleWires
  <2>2. artifact' = ArtifactWith(NoEntries, <<>>)
    <3>1. /\ PublicLabels = [w \in ToSet(circuit.input_wires) |->
                [bit \in BOOLEAN |-> LabelOf(InitialZeroLabels[w], bit)]]
          /\ ConstantLabels = [w \in DOMAIN ConstantBit |->
                LabelOf(InitialZeroLabels[w], ConstantBit[w])]
      BY DEF PublicLabels, ConstantLabels, InitialZeroLabels
    <3> QED BY <1>3, <3>1 DEF GarbleWires, NoArtifact, ArtifactWith
  <2>3. artifact'.transcript = <<>>
    BY <2>2 DEF ArtifactWith
  <2>4. Walked'
    BY <1>0, <2>1, <2>2, <2>3, FirstZeros, WalkedThen
  <2>5. ShapeIsOfArtifact'
    BY <2>1 DEF ShapeIsOfArtifact, ShapeOf
  <2> QED BY <1>2, <2>1, <2>4, <2>5 DEF GarblingInv, GarbledInv, ShapeInv, WalkInv,
             Evaluating
<1>4. CASE GarbleGate
  <2> DEFINE gate == circuit.gates[gate_index + 1]
             zeros == Images(zero_labels, gate.inputs)
             written == IF gate.kind = "And"
                        THEN Append(artifact.transcript,
                               AndEntry(zeros[1], zeros[2],
                                        Len(artifact.transcript) + 1))
                        ELSE artifact.transcript
  <2>1. /\ UNCHANGED <<circuit, shape>> /\ stage = "garble_gates"
        /\ stage' = "garble_gates" /\ gate_index' = gate_index + 1
        /\ gate_index < Len(circuit.gates)
        /\ WellFormed(gate) /\ gate.kind # "Mux"
        /\ zero_labels' = Assign(zero_labels, gate.output,
                    OutputZero(gate.kind, zeros, artifact.transcript))
        /\ artifact' = [artifact EXCEPT !.transcript = written]
    BY <1>4 DEF GarbleGate, Garbleable, Gate
  <2>2. Walked /\ gate_index \in Nat
    BY <2>1 DEF GarblingInv, Walked
  <2>3. GarbledUpTo(gate_index + 1, zero_labels', written)
    BY <1>0, <2>1, <2>2, OneMoreGate DEF Walked
  <2> HIDE DEF written
  <2>4. artifact' = ArtifactWith(NoEntries, written)
    BY <2>1, <2>2 DEF Walked, ArtifactWith
  <2>5. artifact'.transcript = written
    BY <2>4 DEF ArtifactWith
  <2>6. gate_index' \in 0 .. Len(circuit.gates)
    BY <1>0, <2>1, <2>2
  <2>7. Walked'
    BY <2>1, <2>3, <2>4, <2>5, <2>6, WalkedThen
  <2>8. ShapeIsOfArtifact'
    BY <2>1, ShapeKept DEF ShapeInv
  <2> QED BY <1>2, <2>1, <2>7, <2>8 DEF GarblingInv, GarbledInv, ShapeInv, WalkInv,
             Evaluating
<1>5. CASE GarbleGateThrows
  <2>1. UNCHANGED circuit /\ stage' = "garble_threw"
    BY <1>5 DEF GarbleGateThrows
  <2> QED BY <1>2, <2>1 DEF GarblingInv, GarbledInv, ShapeInv, WalkInv, Evaluating
<1>6. CASE GarbleOutputs
  <2>1. /\ UNCHANGED <<circuit, shape, zero_labels>> /\ stage = "garble_gates"
        /\ stage' = "garbled" /\ gate_index = Len(circuit.gates)
        /\ artifact' = [artifact EXCEPT !.output_zero_labels = ZerosOfOutputs]
    BY <1>6 DEF GarbleOutputs, ZerosOfOutputs
  <2>2. Walked
    BY <2>1 DEF GarblingInv
  <2>3. artifact' = ArtifactWith(ZerosOfOutputs, artifact.transcript)
    BY <2>1, <2>2 DEF Walked, ArtifactWith
  <2>4. artifact'.transcript = artifact.transcript
    BY <2>3 DEF ArtifactWith
  <2>5. Whole'
    BY <2>1, <2>2, <2>3, <2>4, WholeThen DEF Walked
  <2>6. ShapeIsOfArtifact'
    BY <2>1, ShapeKept DEF ShapeInv
  <2> QED BY <1>2, <2>1, <2>5, <2>6 DEF GarblingInv, GarbledInv, ShapeInv, WalkInv,
             Evaluating
<1>7. CASE SetupStopsAfterShape
  <2>1. /\ UNCHANGED circuit /\ stage = "garbled"
        /\ stage' = "garbled_shape_replaced"
    BY <1>7 DEF SetupStopsAfterShape
  <2>2. ~ShapeIsOfArtifact'
    BY <1>0, <1>7, <2>1, OtherShapesDiffer DEF ShapeInv
  <2> QED BY <1>2, <2>1, <2>2 DEF GarblingInv, GarbledInv, ShapeInv, WalkInv,
             Evaluating
<1>8. CASE \E bits \in InputBits : EvaluateInputs(bits)
  <2>1. PICK bits \in InputBits : EvaluateInputs(bits)
    BY <1>8
  <2>2. /\ UNCHANGED <<circuit, shape, artifact, zero_labels>>
        /\ stage \in {"garbled", "garbled_shape_replaced", "evaluated"}
        /\ stage' = "evaluate_gates" /\ gate_index' = 0 /\ read_cursor' = 0
    BY <2>1 DEF EvaluateInputs, Evaluable, garbleVars
  <2>3. CASE ShapeIsOfArtifact
    <3>1. Whole
      BY <2>2, <2>3 DEF GarbledInv, ShapeInv
    <3>2. Whole'
      BY <2>2, <3>1, WholeKept
    <3>3. DOMAIN active_labels' = InitialWires
          /\ OwnLabels(active_labels', zero_labels)
      BY <1>0, <2>1, <3>1, FirstLabels
    <3>4. Ands(gate_index)' = 0 /\ WiresAfter(gate_index)' = InitialWires
      <4>1. Ands(gate_index)' = Ands(0) /\ WiresAfter(gate_index)' = WiresAfter(0)
        BY <2>2, CircuitParts DEF Ands, AndGates, WiresAfter, OutputsUpTo
      <4>2. WiresAfter(0) = InitialWires
        BY DEF WiresAfter, OutputsUpTo
      <4> QED BY <4>1, <4>2, AndsStart
    <3>5. WalkInv'
      BY <1>0, <2>2, <3>3, <3>4 DEF WalkInv, OwnLabels
    <3> QED BY <1>2, <2>2, <3>2, <3>5 DEF GarblingInv, GarbledInv, ShapeInv
  <2>4. CASE ~ShapeIsOfArtifact
    <3>1. ~ShapeIsOfArtifact'
      BY <2>2, <2>4, ShapeKept
    <3> QED BY <1>2, <2>2, <3>1 DEF GarblingInv, GarbledInv, ShapeInv, WalkInv,
               Evaluating
  <2> QED BY <2>3, <2>4
<1>9. CASE (\E bits \in InputBits : EvaluateInputsThrow(bits)) \/ EvaluateThrows
  <2>1. UNCHANGED circuit /\ stage' = "evaluate_threw"
    BY <1>9 DEF EvaluateInputsThrow, EvaluateThrows
  <2> QED BY <1>2, <2>1 DEF GarblingInv, GarbledInv, ShapeInv, WalkInv, Evaluating
<1>10. CASE EvaluateGate
  <2>1. /\ UNCHANGED <<circuit, shape, artifact, zero_labels>>
        /\ stage = "evaluate_gates" /\ stage' = "evaluate_gates"
        /\ gate_index' = gate_index + 1
    BY <1>10 DEF EvaluateGate, garbleVars
  <2>2. CASE ShapeIsOfArtifact
    <3>1. Whole'
      BY <2>1, <2>2, WholeKept DEF GarbledInv
    <3>2. /\ gate_index \in Nat /\ gate_index < Len(circuit.gates)
          /\ read_cursor' = Ands(gate_index + 1)
          /\ DOMAIN active_labels' = WiresAfter(gate_index + 1)
          /\ OwnLabels(active_labels', zero_labels)
      BY <1>10, <2>2, EvaluatedGate
    <3>3. /\ Ands(gate_index)' = Ands(gate_index + 1)
          /\ WiresAfter(gate_index)' = WiresAfter(gate_index + 1)
      BY <2>1 DEF Ands, AndGates, WiresAfter, OutputsUpTo, InitialWires, ConstantBit
    <3>4. WalkInv'
      BY <1>0, <2>1, <3>2, <3>3 DEF WalkInv, OwnLabels
    <3> QED BY <1>2, <2>1, <3>1, <3>4 DEF GarblingInv, GarbledInv, ShapeInv
  <2>3. CASE ~ShapeIsOfArtifact
    <3>1. ~ShapeIsOfArtifact'
      BY <2>1, <2>3, ShapeKept
    <3> QED BY <1>2, <2>1, <3>1 DEF GarblingInv, GarbledInv, ShapeInv, WalkInv,
               Evaluating
  <2> QED BY <2>2, <2>3
<1>11. CASE EvaluateOutputs
  <2>1. /\ UNCHANGED <<circuit, shape, artifact, zero_labels, active_labels,
                       read_cursor, gate_index>>
        /\ stage = "evaluate_gates" /\ stage' = "evaluated"
        /\ gate_index = Len(shape.gates)
    BY <1>11 DEF EvaluateOutputs, garbleVars
  <2>2. CASE ShapeIsOfArtifact
    <3>1. Whole'
      BY <2>1, <2>2, WholeKept DEF GarbledInv
    <3>2. /\ gate_index = Len(circuit.gates)
          /\ read_cursor = Ands(gate_index)
          /\ DOMAIN active_labels = WiresAfter(gate_index)
          /\ OwnLabels(active_labels, zero_labels)
      BY <1>0, <2>1, <2>2, ShapeIsTheCircuit DEF WalkInv, Evaluating
    <3>3. /\ Ands(gate_index)' = Ands(gate_index)
          /\ WiresAfter(gate_index)' = WiresAfter(gate_index)
      BY <2>1 DEF Ands, AndGates, WiresAfter, OutputsUpTo, InitialWires, ConstantBit
    <3>4. WalkInv'
      BY <1>0, <2>1, <3>2, <3>3 DEF WalkInv, OwnLabels
    <3> QED BY <1>2, <2>1, <3>1, <3>4 DEF GarblingInv, GarbledInv, ShapeInv
  <2>3. CASE ~ShapeIsOfArtifact
    <3>1. ~ShapeIsOfArtifact'
      BY <2>1, <2>3, ShapeKept
    <3> QED BY <1>2, <2>1, <3>1 DEF GarblingInv, GarbledInv, ShapeInv, WalkInv,
               Evaluating
  <2> QED BY <2>2, <2>3
<1>12. CASE UNCHANGED vars
  <2>1. UNCHANGED <<circuit, stage, shape, artifact, zero_labels, active_labels,
                    read_cursor, gate_index>>
    BY <1>12 DEF vars, garbleVars, evalVars
  <2>2. GarblingInv'
    BY <2>1, WalkedThen DEF GarblingInv, Walked
  <2>3. GarbledInv' /\ ShapeInv'
    BY <2>1, ShapeKept, WholeKept DEF GarbledInv, ShapeInv
  <2>4. /\ Ands(gate_index)' = Ands(gate_index)
        /\ WiresAfter(gate_index)' = WiresAfter(gate_index)
    BY <2>1 DEF Ands, AndGates, WiresAfter, OutputsUpTo, InitialWires, ConstantBit
  <2>5. WalkInv'
    BY <2>1, <2>4, ShapeKept DEF WalkInv, OwnLabels, Evaluating
  <2> QED BY <1>2, <2>1, <2>2, <2>3, <2>5
<1> QED BY <1>1, <1>3, <1>4, <1>5, <1>6, <1>7, <1>8, <1>9, <1>10, <1>11, <1>12
        DEF Next

(* Garble's transcript holds the entries of the AND gates walked so far in *)
(* the order of the walk, and an evaluation of the circuit's own shape     *)
(* stands in it where its own gates put it, with labels of the garbler.    *)
THEOREM HalfGatesInvariance == Spec => []HalfGatesInv
BY InvariantAtFirst, InvariantKept, PTL DEF Spec

(* An evaluation of the circuit's own shape that has come to its end has   *)
(* read every entry of the transcript.                                     *)
THEOREM TranscriptIsConsumed == Spec => []TranscriptConsumed
<1>1. HalfGatesInv => TranscriptConsumed
  BY DEF HalfGatesInv, WalkInv, GarbledInv, Whole, GarbledUpTo, Evaluating,
         TranscriptConsumed
<1> QED BY <1>1, HalfGatesInvariance, PTL

-----------------------------------------------------------------------------
(* The steps, seen in the clear.                                           *)

ClearIdle ==
  /\ ClearInputs = NoEntries
  /\ ClearBits = NoEntries
  /\ ClearWalked = 0
  /\ ClearOutputs = <<>>

ClearBusy ==
  /\ ClearInputs = input_bits
  /\ ClearBits = BitsOf(active_labels, zero_labels)
  /\ ClearWalked = gate_index
  /\ ClearOutputs = outputs

StagesClear ==
  /\ stage \in {"build", "build_threw", "garble"} =>
       ClearStage = stage /\ ClearIdle
  /\ stage = "garble_gates" => ClearStage = "garble" /\ ClearIdle
  /\ stage = "garbled" => ClearStage = "ready" /\ ClearIdle
  /\ stage \in {"garble_threw", "evaluate_threw", "garbled_shape_replaced"} =>
       ClearStage = "refused" /\ ClearIdle
  /\ stage \in {"evaluate_gates", "evaluated"} /\ ~ShapeIsOfArtifact =>
       ClearStage = "refused" /\ ClearIdle
  /\ stage = "evaluate_gates" /\ ShapeIsOfArtifact =>
       ClearStage = "evaluate" /\ ClearBusy
  /\ stage = "evaluated" /\ ShapeIsOfArtifact =>
       ClearStage = "evaluated" /\ ClearBusy

(* How the stages look in the clear.                                       *)
LEMMA StagesAreClear == StagesClear /\ StagesClear'
BY DEF StagesClear, ClearStage, ClearIdle, ClearBusy, ClearInputs, ClearBits,
       ClearWalked, ClearOutputs, Evaluating, BitsHeld, BitsOf

(* The first state is a first state in the clear.                          *)
LEMMA InitIsPlain == Init => Plain!Init
<1> SUFFICES ASSUME Init PROVE Plain!Init
  OBVIOUS
<1>1. stage = "build" /\ circuit = EmptyCircuit
  BY DEF Init, BuilderInit
<1>2. ClearStage = "build" /\ ClearIdle
  BY <1>1, StagesAreClear DEF StagesClear
<1>3. Plain!EmptyCircuit = EmptyCircuit /\ Plain!NoEntries = NoEntries
  BY DEF Plain!EmptyCircuit, EmptyCircuit, Plain!NoEntries, NoEntries
<1> QED BY <1>1, <1>2, <1>3 DEF Plain!Init, Plain!BuilderInit, ClearIdle

(* Evaluate starts an evaluation on the bits given.                        *)
LEMMA EvaluateStarts ==
  ASSUME HalfGatesInv, ShapeIsOfArtifact,
         NEW bits \in InputBits, EvaluateInputs(bits)
  PROVE  Plain!Next
<1>1. /\ stage \in {"garbled", "garbled_shape_replaced", "evaluated"}
      /\ stage' = "evaluate_gates"
      /\ UNCHANGED <<circuit, shape, zero_labels>> /\ gate_index' = 0
      /\ outputs' = <<>> /\ input_bits' = bits
  BY DEF EvaluateInputs, Evaluable, garbleVars
<1>2. stage \in {"garbled", "evaluated"} /\ CircuitOK /\ Whole
  BY <1>1 DEF HalfGatesInv, ShapeInv, GarbledInv
<1>3. /\ bits \in [ToSet(circuit.input_wires) -> BOOLEAN]
      /\ BitsOf(active_labels', zero_labels) = Plain!InitialBits(bits)
  BY <1>2, FirstLabels
<1>4. ClearStage \in {"ready", "evaluated"}
  BY <1>2, StagesAreClear DEF StagesClear
<1>5. /\ ClearStage' = "evaluate" /\ ClearInputs' = bits
      /\ ClearBits' = Plain!InitialBits(bits)
      /\ ClearWalked' = 0 /\ ClearOutputs' = <<>>
  <2>1. ClearStage' = "evaluate" /\ ClearBusy'
    BY <1>1, ShapeKept, StagesAreClear DEF StagesClear
  <2>2. BitsOf(active_labels, zero_labels)' = BitsOf(active_labels', zero_labels)
    BY <1>1 DEF BitsOf
  <2> QED BY <1>1, <1>3, <2>1, <2>2 DEF ClearBusy
<1>6. Plain!Start(bits)
  BY <1>1, <1>4, <1>5 DEF Plain!Start
<1> QED BY <1>3, <1>6, SameWords DEF Plain!Next

(* One gate on labels is that gate on bits.                                *)
LEMMA EvaluatesNext ==
  ASSUME HalfGatesInv, ShapeIsOfArtifact, EvaluateGate
  PROVE  Plain!EvaluateNext
<1> DEFINE gate == circuit.gates[gate_index + 1]
           bits == BitsOf(active_labels, zero_labels)
<1>1. /\ stage = "evaluate_gates" /\ gate_index' = gate_index + 1
      /\ UNCHANGED <<circuit, stage, shape, zero_labels, input_bits, outputs>>
  BY DEF EvaluateGate, garbleVars
<1>2. /\ gate_index < Len(circuit.gates)
      /\ SetOn(bits, gate.inputs)
      /\ BitsOf(active_labels', zero_labels) =
           Assign(bits, gate.output,
                  EvalGate(gate.kind, Images(bits, gate.inputs)))
  BY EvaluatedGate
<1>3. /\ ClearStage = "evaluate" /\ ClearInputs = input_bits
      /\ ClearBits = bits /\ ClearWalked = gate_index /\ ClearOutputs = outputs
  BY <1>1, StagesAreClear DEF StagesClear, ClearBusy
<1>4. /\ ClearStage' = "evaluate" /\ ClearInputs' = input_bits'
      /\ ClearBits' = BitsOf(active_labels', zero_labels)
      /\ ClearWalked' = gate_index' /\ ClearOutputs' = outputs'
  <2>1. BitsOf(active_labels, zero_labels)' = BitsOf(active_labels', zero_labels)
    BY <1>1 DEF BitsOf
  <2> QED BY <1>1, <2>1, ShapeKept, StagesAreClear DEF StagesClear, ClearBusy
<1> HIDE DEF bits
<1> QED BY <1>1, <1>2, <1>3, <1>4, SameWords DEF Plain!EvaluateNext, gate

(* Decoding reads the bits of the output wires.                            *)
LEMMA DecodeReads ==
  ASSUME HalfGatesInv, ShapeIsOfArtifact, EvaluateOutputs
  PROVE  Plain!ReadOutputs
<1> DEFINE bits == BitsOf(active_labels, zero_labels)
           wires == circuit.output_wires
<1>1. /\ stage = "evaluate_gates" /\ stage' = "evaluated"
      /\ gate_index = Len(shape.gates) /\ AllDecodable
      /\ UNCHANGED <<circuit, shape, zero_labels, active_labels, input_bits,
                     gate_index>>
  BY DEF EvaluateOutputs, garbleVars
<1>2. /\ CircuitOK /\ Whole /\ OwnLabels(active_labels, zero_labels)
      /\ gate_index = Len(circuit.gates)
  BY <1>1, ShapeIsTheCircuit DEF HalfGatesInv, GarbledInv, WalkInv, Evaluating
<1>3. /\ artifact.output_wires = wires
      /\ \A w \in ToSet(wires) : artifact.output_zero_labels[w] = zero_labels[w]
  BY <1>2 DEF Whole, ArtifactWith, ZerosOfOutputs
<1>4. ToSet(wires) \subseteq DOMAIN active_labels
  BY <1>1, <1>3 DEF AllDecodable, Decodable
<1>5. /\ DOMAIN bits = DOMAIN active_labels
      /\ \A w \in DOMAIN active_labels :
           /\ bits[w] \in BOOLEAN
           /\ active_labels[w] = LabelOf(zero_labels[w], bits[w])
  BY <1>2, BitsOfOwnLabels
<1>6. outputs' = Images(bits, wires)
  <2>1. outputs' = [j \in 1 .. Len(wires) |->
          active_labels[wires[j]] # artifact.output_zero_labels[wires[j]]]
    BY <1>3 DEF EvaluateOutputs
  <2> HIDE DEF bits
  <2>2. ASSUME NEW j \in 1 .. Len(wires)
        PROVE  (active_labels[wires[j]] # artifact.output_zero_labels[wires[j]])
                 = bits[wires[j]]
    <3>1. wires[j] \in ToSet(wires)
      BY <1>2 DEF ToSet, CircuitOK
    <3>2. /\ artifact.output_zero_labels[wires[j]] = zero_labels[wires[j]]
          /\ bits[wires[j]] \in BOOLEAN
          /\ active_labels[wires[j]] =
               LabelOf(zero_labels[wires[j]], bits[wires[j]])
      BY <1>3, <1>4, <1>5, <3>1
    <3>3. LabelOne(zero_labels[wires[j]]) # zero_labels[wires[j]]
      BY LabelsDiffer
    <3> QED BY <3>2, <3>3 DEF LabelOf
  <2> QED BY <2>1, <2>2 DEF Images
<1>7. SetOn(bits, wires)
  BY <1>4, <1>5 DEF SetOn
<1>8. /\ ClearStage = "evaluate" /\ ClearInputs = input_bits
      /\ ClearBits = bits /\ ClearWalked = gate_index
  BY <1>1, StagesAreClear DEF StagesClear, ClearBusy
<1>9. /\ ClearStage' = "evaluated" /\ ClearInputs' = input_bits'
      /\ ClearBits' = BitsOf(active_labels, zero_labels)'
      /\ ClearWalked' = gate_index' /\ ClearOutputs' = outputs'
  BY <1>1, ShapeKept, StagesAreClear DEF StagesClear, ClearBusy
<1>10. BitsOf(active_labels, zero_labels)' = bits
  BY <1>1 DEF BitsOf
<1> HIDE DEF bits
<1> QED BY <1>1, <1>2, <1>6, <1>7, <1>8, <1>9, <1>10, SameWords
        DEF Plain!ReadOutputs

(* What is done with another circuit's shape is a refusal, seen from here. *)
LEMMA RefusalStays ==
  ASSUME UNCHANGED circuit, ClearStage = "refused", ClearIdle,
         ClearStage' = "refused", ClearIdle'
  PROVE  UNCHANGED Plain!plainVars
BY DEF Plain!plainVars, ClearIdle, NoEntries

(* Every step is a step in the clear or changes nothing there.             *)
LEMMA StepIsPlain ==
  HalfGatesInv /\ [Next]_vars => [Plain!Next]_(Plain!plainVars)
<1> SUFFICES ASSUME HalfGatesInv, [Next]_vars
             PROVE  Plain!Next \/ UNCHANGED Plain!plainVars
  OBVIOUS
<1>1. CASE BuilderNext /\ UNCHANGED <<garbleVars, evalVars, gate_index>>
  <2>1. stage = "build" /\ stage' \in {"build", "build_threw", "garble"}
    BY <1>1 DEF BuilderNext, AddInputWire, AddConstantWire,
       AddSecretConstantWire, AddGate, AddGateThrows, AddOutputWire,
       AddOutputWireThrows, Build
  <2>2. ClearStage = "build" /\ ClearIdle /\ ClearStage' = stage' /\ ClearIdle'
    BY <2>1, StagesAreClear DEF StagesClear
  <2>3. Plain!Describe
    BY <2>1, <2>2 DEF Plain!Describe, ClearIdle, NoEntries
  <2> QED BY <2>3 DEF Plain!Next
<1>2. CASE GarbleWires \/ GarbleGate
  <2>1. /\ stage \in {"garble", "garble_gates"} /\ stage' = "garble_gates"
        /\ UNCHANGED circuit
    BY <1>2 DEF GarbleWires, GarbleGate
  <2>2. ClearStage = "garble" /\ ClearIdle /\ ClearStage' = "garble" /\ ClearIdle'
    BY <2>1, StagesAreClear DEF StagesClear
  <2> QED BY <2>1, <2>2 DEF Plain!plainVars, ClearIdle, NoEntries
<1>3. CASE GarbleGateThrows
  <2>1. stage = "garble_gates" /\ stage' = "garble_threw" /\ UNCHANGED circuit
    BY <1>3 DEF GarbleGateThrows
  <2>2. ClearStage = "garble" /\ ClearStage' = "refused" /\ ClearIdle'
    BY <2>1, StagesAreClear DEF StagesClear
  <2>3. Plain!Refuse
    BY <2>1, <2>2 DEF Plain!Refuse, Plain!NoEntries, ClearIdle, NoEntries
  <2> QED BY <2>3 DEF Plain!Next
<1>4. CASE GarbleOutputs
  <2>1. stage = "garble_gates" /\ stage' = "garbled" /\ UNCHANGED circuit
    BY <1>4 DEF GarbleOutputs
  <2>2. ClearStage = "garble" /\ ClearIdle /\ ClearStage' = "ready" /\ ClearIdle'
    BY <2>1, StagesAreClear DEF StagesClear
  <2>3. Plain!Prepare
    BY <2>1, <2>2 DEF Plain!Prepare, ClearIdle, NoEntries
  <2> QED BY <2>3 DEF Plain!Next
<1>5. CASE SetupStopsAfterShape
  <2>1. /\ stage = "garbled" /\ stage' = "garbled_shape_replaced"
        /\ UNCHANGED circuit
    BY <1>5 DEF SetupStopsAfterShape
  <2>2. ClearStage = "ready" /\ ClearStage' = "refused" /\ ClearIdle'
    BY <2>1, StagesAreClear DEF StagesClear
  <2>3. Plain!Refuse
    BY <2>1, <2>2 DEF Plain!Refuse, Plain!NoEntries, ClearIdle, NoEntries
  <2> QED BY <2>3 DEF Plain!Next
<1>6. CASE \E bits \in InputBits : EvaluateInputs(bits)
  <2>1. PICK bits \in InputBits : EvaluateInputs(bits)
    BY <1>6
  <2>2. CASE ShapeIsOfArtifact
    BY <2>1, <2>2, EvaluateStarts
  <2>3. CASE ~ShapeIsOfArtifact
    <3>1. /\ stage \in {"garbled", "garbled_shape_replaced", "evaluated"}
          /\ stage' = "evaluate_gates" /\ UNCHANGED <<circuit, shape>>
      BY <2>1 DEF EvaluateInputs, Evaluable, garbleVars
    <3>2. stage \in {"garbled_shape_replaced", "evaluated"}
      BY <2>3, <3>1 DEF HalfGatesInv, ShapeInv
    <3>3. /\ ClearStage = "refused" /\ ClearIdle
          /\ ClearStage' = "refused" /\ ClearIdle'
      BY <2>3, <3>1, <3>2, ShapeKept, StagesAreClear DEF StagesClear
    <3> QED BY <3>1, <3>3, RefusalStays
  <2> QED BY <2>2, <2>3
<1>7. CASE \E bits \in InputBits : EvaluateInputsThrow(bits)
  <2>1. /\ stage \in {"garbled", "garbled_shape_replaced", "evaluated"}
        /\ stage' = "evaluate_threw" /\ UNCHANGED circuit
    BY <1>7 DEF EvaluateInputsThrow, Evaluable
  <2>2. ClearStage' = "refused" /\ ClearIdle'
    BY <2>1, StagesAreClear DEF StagesClear
  <2>3. CASE stage = "garbled" \/ (stage = "evaluated" /\ ShapeIsOfArtifact)
    <3>1. ClearStage \in {"ready", "evaluated"}
      BY <2>3, StagesAreClear DEF StagesClear
    <3>2. Plain!Refuse
      BY <2>1, <2>2, <3>1 DEF Plain!Refuse, Plain!NoEntries, ClearIdle, NoEntries
    <3> QED BY <3>2 DEF Plain!Next
  <2>4. CASE stage = "garbled_shape_replaced"
               \/ (stage = "evaluated" /\ ~ShapeIsOfArtifact)
    <3>1. ClearStage = "refused" /\ ClearIdle
      BY <2>4, StagesAreClear DEF StagesClear
    <3> QED BY <2>1, <2>2, <3>1, RefusalStays
  <2> QED BY <2>1, <2>3, <2>4
<1>8. CASE EvaluateGate
  <2>1. CASE ShapeIsOfArtifact
    BY <1>8, <2>1, EvaluatesNext DEF Plain!Next
  <2>2. CASE ~ShapeIsOfArtifact
    <3>1. /\ stage = "evaluate_gates" /\ stage' = "evaluate_gates"
          /\ UNCHANGED <<circuit, shape>>
      BY <1>8 DEF EvaluateGate, garbleVars
    <3>2. /\ ClearStage = "refused" /\ ClearIdle
          /\ ClearStage' = "refused" /\ ClearIdle'
      BY <2>2, <3>1, ShapeKept, StagesAreClear DEF StagesClear
    <3> QED BY <3>1, <3>2, RefusalStays
  <2> QED BY <2>1, <2>2
<1>9. CASE EvaluateOutputs
  <2>1. CASE ShapeIsOfArtifact
    BY <1>9, <2>1, DecodeReads DEF Plain!Next
  <2>2. CASE ~ShapeIsOfArtifact
    <3>1. /\ stage = "evaluate_gates" /\ stage' = "evaluated"
          /\ UNCHANGED <<circuit, shape>>
      BY <1>9 DEF EvaluateOutputs, garbleVars
    <3>2. /\ ClearStage = "refused" /\ ClearIdle
          /\ ClearStage' = "refused" /\ ClearIdle'
      BY <2>2, <3>1, ShapeKept, StagesAreClear DEF StagesClear
    <3> QED BY <3>1, <3>2, RefusalStays
  <2> QED BY <2>1, <2>2
<1>10. CASE EvaluateThrows
  <2>1. /\ stage = "evaluate_gates" /\ stage' = "evaluate_threw"
        /\ UNCHANGED circuit /\ ~ShapeIsOfArtifact
    BY <1>10, NeverStuck DEF EvaluateThrows
  <2>2. /\ ClearStage = "refused" /\ ClearIdle
        /\ ClearStage' = "refused" /\ ClearIdle'
    BY <2>1, StagesAreClear DEF StagesClear
  <2> QED BY <2>1, <2>2, RefusalStays
<1>11. CASE UNCHANGED vars
  BY <1>11 DEF vars, garbleVars, evalVars, Plain!plainVars, ClearStage,
     ClearInputs, ClearBits, ClearWalked, ClearOutputs, Evaluating, BitsHeld,
     ShapeIsOfArtifact, ShapeOf
<1> QED BY <1>1, <1>2, <1>3, <1>4, <1>5, <1>6, <1>7, <1>8, <1>9, <1>10, <1>11
        DEF Next

(* For every circuit, of any size and in any order of gates, an evaluation *)
(* of the shape that was garbled is an evaluation in the clear on the bits *)
(* given, gate by gate; it cannot stop half way, and its outputs are the   *)
(* circuit's.                                                              *)
THEOREM HalfGatesComputePlainly == Spec => ImplementsPlainEvaluation
<1>1. HalfGatesInv /\ [Next]_vars => [Plain!Next]_(Plain!plainVars)
  BY StepIsPlain
<1> QED BY <1>1, InitIsPlain, HalfGatesInvariance, PTL
        DEF Spec, ImplementsPlainEvaluation, Plain!Spec
=============================================================================
