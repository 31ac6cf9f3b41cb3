----------------------- MODULE BooleanCircuitTheorems -----------------------
(***************************************************************************)
(* What BooleanCircuitBuilder guarantees of every circuit it describes,    *)
(* whatever the order of the calls.  Both garblers walk the gates once, in *)
(* order, and look up the wires a gate reads in a map that holds only the  *)
(* wires set so far: that every lookup finds its wire, and that no gate    *)
(* overwrites a wire, is the builder's doing.                              *)
(***************************************************************************)
EXTENDS BooleanCircuit, TLAPS

BitGate == [kind : BitGateKind, inputs : Seq(Nat), output : Nat]
BitMap  == UNION {[wires -> BOOLEAN] : wires \in SUBSET Nat}

CircuitOK ==
  circuit \in [wires : Nat, input_wires : Seq(Nat), output_wires : Seq(Nat),
               constant_wires : BitMap, secret_constant_wires : BitMap,
               gates : Seq(BitGate)]

(* The wires that are set once n gates have been walked.                   *)
InitialWires == ToSet(circuit.input_wires) \cup DOMAIN ConstantBit
OutputsUpTo(n) == {circuit.gates[i].output : i \in 1 .. n}
WiresAfter(n) == InitialWires \cup OutputsUpTo(n)

(* A gate reads only wires that are set before it and sets a new one; when *)
(* all gates are walked, every wire of the circuit is set.                 *)
WiresInOrder ==
  /\ WiresAfter(Len(circuit.gates)) = WireIds
  /\ \A i \in 1 .. Len(circuit.gates) :
       /\ ToSet(circuit.gates[i].inputs) \subseteq WiresAfter(i - 1)
       /\ circuit.gates[i].output \notin WiresAfter(i - 1)
  /\ ToSet(circuit.output_wires) \subseteq WireIds

-----------------------------------------------------------------------------
(* The pieces of the model.                                                *)

(* A gate takes one to three inputs.                                       *)
LEMMA ArityIsNat == \A kind \in BitGateKind : Arity(kind) \in 1 .. 3
BY DEF BitGateKind, Arity

(* A gate on as many bits as it takes gives a bit.                         *)
LEMMA GateGivesBit ==
  ASSUME NEW kind \in BitGateKind, NEW inputs \in [1 .. Arity(kind) -> BOOLEAN]
  PROVE  EvalGate(kind, inputs) \in BOOLEAN
<1>1. CASE kind = "And"
  BY <1>1 DEF EvalGate
<1>2. CASE kind = "Xor"
  BY <1>2 DEF EvalGate
<1>3. CASE kind = "Not"
  BY <1>3 DEF EvalGate
<1>4. CASE kind = "Mux"
  <2>1. Arity(kind) = 3
    BY <1>4 DEF Arity
  <2>2. inputs[2] \in BOOLEAN /\ inputs[3] \in BOOLEAN
    BY <2>1
  <2>3. EvalGate(kind, inputs) = (IF inputs[1] THEN inputs[2] ELSE inputs[3])
    BY <1>4 DEF EvalGate
  <2> QED BY <2>2, <2>3
<1>5. CASE kind = "Output"
  <2>1. Arity(kind) = 1
    BY <1>5 DEF Arity
  <2>2. inputs[1] \in BOOLEAN
    BY <2>1
  <2>3. EvalGate(kind, inputs) = inputs[1]
    BY <1>5 DEF EvalGate
  <2> QED BY <2>2, <2>3
<1> QED BY <1>1, <1>2, <1>3, <1>4, <1>5 DEF BitGateKind

(* What the builder's maps of constants hold.                              *)
LEMMA AssignBit ==
  ASSUME NEW map \in BitMap, NEW key \in Nat, NEW value \in BOOLEAN
  PROVE  Assign(map, key, value) \in BitMap
<1>1. PICK wires \in SUBSET Nat : map \in [wires -> BOOLEAN]
  BY DEF BitMap
<1>2. Assign(map, key, value) \in [wires \cup {key} -> BOOLEAN]
  BY <1>1 DEF Assign
<1> QED BY <1>2 DEF BitMap

(* Public and secret constants alike are bits.                             *)
LEMMA ConstantsAreBits ==
  ASSUME CircuitOK
  PROVE  \A w \in DOMAIN ConstantBit : ConstantBit[w] \in BOOLEAN
<1>1. PICK S \in SUBSET Nat : circuit.constant_wires \in [S -> BOOLEAN]
  BY DEF CircuitOK, BitMap
<1>2. PICK T \in SUBSET Nat : circuit.secret_constant_wires \in [T -> BOOLEAN]
  BY DEF CircuitOK, BitMap
<1> QED BY <1>1, <1>2 DEF ConstantBit

-----------------------------------------------------------------------------
(* What the builder leaves is a circuit.                                   *)

(* What AddGate adds is a gate, whatever wires its caller named.           *)
LEMMA GateIsBitGate ==
  ASSUME circuit.wires \in Nat, NEW kind \in Kinds,
         NEW inputs \in GateInputs(kind)
  PROVE  [kind |-> kind, inputs |-> inputs, output |-> circuit.wires] \in BitGate
<1>1. kind \in BitGateKind
  BY KindsAssumption
<1>2. Arity(kind) \in Nat /\ 1 + (Arity(kind) % 2) \in Nat
  BY <1>1, ArityIsNat
<1>3. PICK n \in {Arity(kind), 1 + (Arity(kind) % 2)} :
        inputs \in [1 .. n -> 0 .. circuit.wires]
  BY DEF GateInputs
<1>4. n \in Nat
  BY <1>2, <1>3
<1>5. inputs \in [1 .. n -> Nat]
  BY <1>3
<1>6. inputs \in Seq(Nat)
  BY <1>4, <1>5
<1> QED BY <1>1, <1>6 DEF BitGate

(* Every call of the builder leaves a circuit.                             *)
LEMMA BuilderKeepsCircuit ==
  ASSUME CircuitOK, BuilderNext
  PROVE  CircuitOK'
<1> DEFINE c == circuit
<1>0. /\ c.wires \in Nat /\ c.input_wires \in Seq(Nat)
      /\ c.output_wires \in Seq(Nat) /\ c.constant_wires \in BitMap
      /\ c.secret_constant_wires \in BitMap /\ c.gates \in Seq(BitGate)
      /\ c = [wires |-> c.wires, input_wires |-> c.input_wires,
              output_wires |-> c.output_wires,
              constant_wires |-> c.constant_wires,
              secret_constant_wires |-> c.secret_constant_wires,
              gates |-> c.gates]
  BY DEF CircuitOK
<1>1. CASE AddInputWire
  <2>1. circuit' = [circuit EXCEPT !.wires = @ + 1,
                      !.input_wires = Append(@, circuit.wires)]
    BY <1>1 DEF AddInputWire
  <2>2. Append(c.input_wires, c.wires) \in Seq(Nat) /\ c.wires + 1 \in Nat
    BY <1>0
  <2> QED BY <1>0, <2>1, <2>2 DEF CircuitOK
<1>2. CASE \E value \in BOOLEAN : AddConstantWire(value)
  <2>1. PICK value \in BOOLEAN : AddConstantWire(value)
    BY <1>2
  <2>2. circuit' = [circuit EXCEPT !.wires = @ + 1,
                      !.constant_wires = Assign(@, circuit.wires, value)]
    BY <2>1 DEF AddConstantWire
  <2>3. Assign(c.constant_wires, c.wires, value) \in BitMap
    BY <1>0, AssignBit
  <2>4. c.wires + 1 \in Nat
    BY <1>0
  <2> QED BY <1>0, <2>2, <2>3, <2>4 DEF CircuitOK
<1>3. CASE \E value \in BOOLEAN : AddSecretConstantWire(value)
  <2>1. PICK value \in BOOLEAN : AddSecretConstantWire(value)
    BY <1>3
  <2>2. circuit' = [circuit EXCEPT !.wires = @ + 1,
                      !.secret_constant_wires = Assign(@, circuit.wires, value)]
    BY <2>1 DEF AddSecretConstantWire
  <2>3. Assign(c.secret_constant_wires, c.wires, value) \in BitMap
    BY <1>0, AssignBit
  <2>4. c.wires + 1 \in Nat
    BY <1>0
  <2> QED BY <1>0, <2>2, <2>3, <2>4 DEF CircuitOK
<1>4. CASE \E kind \in Kinds : \E inputs \in GateInputs(kind) :
             AddGate(kind, inputs)
  <2>0. PICK kind \in Kinds : \E inputs \in GateInputs(kind) :
          AddGate(kind, inputs)
    BY <1>4
  <2>1. PICK inputs \in GateInputs(kind) : AddGate(kind, inputs)
    BY <2>0
  <2>4. [kind |-> kind, inputs |-> inputs, output |-> c.wires] \in BitGate
    BY <1>0, GateIsBitGate
  <2>5. circuit' = [circuit EXCEPT !.wires = @ + 1, !.gates = Append(@,
          [kind |-> kind, inputs |-> inputs, output |-> circuit.wires])]
    BY <2>1 DEF AddGate
  <2>6. /\ Append(c.gates, [kind |-> kind, inputs |-> inputs,
                            output |-> c.wires]) \in Seq(BitGate)
        /\ c.wires + 1 \in Nat
    BY <1>0, <2>4
  <2> QED BY <1>0, <2>5, <2>6 DEF CircuitOK
<1>5. CASE \E wire \in 0 .. circuit.wires : AddOutputWire(wire)
  <2>1. PICK wire \in 0 .. circuit.wires : AddOutputWire(wire)
    BY <1>5
  <2>2. circuit' = [circuit EXCEPT !.output_wires = Append(@, wire)]
    BY <2>1 DEF AddOutputWire
  <2>3. Append(c.output_wires, wire) \in Seq(Nat)
    BY <1>0, <2>1
  <2> QED BY <1>0, <2>2, <2>3 DEF CircuitOK
<1>6. CASE UNCHANGED circuit
  BY <1>6 DEF CircuitOK
<1> QED BY <1>1, <1>2, <1>3, <1>4, <1>5, <1>6 DEF BuilderNext, AddGateThrows,
           AddOutputWireThrows, Build

(* A step that leaves the circuit alone leaves it a circuit,               *)
LEMMA CircuitKept ==
  ASSUME CircuitOK, UNCHANGED circuit
  PROVE  CircuitOK' /\ Len(circuit.gates) \in Nat
BY DEF CircuitOK

(* and leaves its wires in order.                                          *)
LEMMA OrderKept ==
  ASSUME WiresInOrder, UNCHANGED circuit
  PROVE  WiresInOrder'
BY DEF WiresInOrder, WiresAfter, OutputsUpTo, InitialWires, ConstantBit, WireIds

(* The builder starts with a circuit without wires.                        *)
LEMMA CircuitAtFirst ==
  ASSUME BuilderInit
  PROVE  CircuitOK /\ WiresInOrder
<1>1. NoEntries \in BitMap
  <2>1. NoEntries \in [{} -> BOOLEAN]
    BY DEF NoEntries
  <2> QED BY <2>1 DEF BitMap
<1>2. CircuitOK
  BY <1>1 DEF BuilderInit, EmptyCircuit, CircuitOK
<1>3. /\ circuit.wires = 0 /\ circuit.gates = <<>>
      /\ circuit.input_wires = <<>> /\ circuit.output_wires = <<>>
      /\ circuit.constant_wires = NoEntries
      /\ circuit.secret_constant_wires = NoEntries
  BY DEF BuilderInit, EmptyCircuit
<1>4. InitialWires = {}
  BY <1>3 DEF InitialWires, ConstantBit, NoEntries, ToSet
<1>5. Len(circuit.gates) = 0 /\ WireIds = {}
  BY <1>3 DEF WireIds
<1>6. WiresAfter(Len(circuit.gates)) = {}
  BY <1>4, <1>5 DEF WiresAfter, OutputsUpTo
<1>7. ToSet(circuit.output_wires) = {}
  BY <1>3 DEF ToSet
<1> QED BY <1>2, <1>5, <1>6, <1>7 DEF WiresInOrder

-----------------------------------------------------------------------------
(* Order of the wires.                                                     *)

(* What a sequence holds after one more element.                           *)
LEMMA ToSetAppend ==
  ASSUME NEW S, NEW s \in Seq(S), NEW e \in S
  PROVE  ToSet(Append(s, e)) = ToSet(s) \cup {e}
<1>1. /\ Len(Append(s, e)) = Len(s) + 1 /\ Len(s) \in Nat
      /\ DOMAIN Append(s, e) = 1 .. Len(s) + 1 /\ DOMAIN s = 1 .. Len(s)
      /\ \A i \in 1 .. Len(s) : Append(s, e)[i] = s[i]
      /\ Append(s, e)[Len(s) + 1] = e
  OBVIOUS
<1>2. 1 .. Len(s) + 1 = (1 .. Len(s)) \cup {Len(s) + 1}
  BY <1>1
<1> HIDE DEF ToSet
<1>3. ToSet(s) = {s[i] : i \in 1 .. Len(s)}
  BY <1>1 DEF ToSet
<1>4. ToSet(Append(s, e)) =
        {Append(s, e)[i] : i \in (1 .. Len(s)) \cup {Len(s) + 1}}
  BY <1>1, <1>2 DEF ToSet
<1> QED BY <1>1, <1>3, <1>4

(* One more gate, one more wire.                                           *)
LEMMA NextWire ==
  ASSUME NEW n \in Nat
  PROVE  WiresAfter(n + 1) = WiresAfter(n) \cup {circuit.gates[n + 1].output}
<1>1. 1 .. n + 1 = (1 .. n) \cup {n + 1}
  OBVIOUS
<1>2. OutputsUpTo(n + 1) = OutputsUpTo(n) \cup {circuit.gates[n + 1].output}
  BY <1>1 DEF OutputsUpTo
<1> QED BY <1>2 DEF WiresAfter

(* What is set stays set.                                                  *)
LEMMA WiresGrow ==
  ASSUME NEW m, NEW n, m \in Nat, n \in Nat, m <= n
  PROVE  WiresAfter(m) \subseteq WiresAfter(n)
BY DEF WiresAfter, OutputsUpTo

(* The wires of a gate, seen later in the walk.                            *)
LEMMA GateWires ==
  ASSUME CircuitOK, WiresInOrder, NEW n \in Nat,
         NEW i \in 1 .. Len(circuit.gates), i - 1 <= n
  PROVE  LET gate == circuit.gates[i]
         IN  /\ gate \in BitGate
             /\ \A j \in 1 .. Len(gate.inputs) : gate.inputs[j] \in WiresAfter(n)
             /\ i <= n => gate.output \in WiresAfter(n)
<1> DEFINE gate == circuit.gates[i]
<1>1. circuit.gates \in Seq(BitGate) /\ Len(circuit.gates) \in Nat
  BY DEF CircuitOK
<1>2. gate \in BitGate
  BY <1>1
<1>3. i - 1 \in Nat /\ WiresAfter(i - 1) \subseteq WiresAfter(n)
  <2>1. i - 1 \in Nat
    BY <1>1
  <2> QED BY <2>1, WiresGrow
<1>4. ToSet(gate.inputs) \subseteq WiresAfter(n)
  BY <1>3 DEF WiresInOrder
<1>5. gate.inputs \in Seq(Nat)
  BY <1>2 DEF BitGate
<1>6. \A j \in 1 .. Len(gate.inputs) : gate.inputs[j] \in WiresAfter(n)
  <2> HIDE DEF gate
  <2>1. DOMAIN gate.inputs = 1 .. Len(gate.inputs)
    BY <1>5
  <2> QED BY <1>4, <2>1 DEF ToSet
<1>7. i <= n => gate.output \in WiresAfter(n)
  BY DEF WiresAfter, OutputsUpTo
<1> QED BY <1>2, <1>6, <1>7

(* A wire that is an input or a constant from now on is new to all gates.  *)
LEMMA InitialWireAdded ==
  ASSUME CircuitOK, WiresInOrder,
         circuit'.wires = circuit.wires + 1,
         circuit'.gates = circuit.gates,
         circuit'.output_wires = circuit.output_wires,
         InitialWires' = InitialWires \cup {circuit.wires}
  PROVE  WiresInOrder'
<1> DEFINE new == circuit.wires
           gates == circuit.gates
<1>1. new \in Nat /\ Len(gates) \in Nat
  BY DEF CircuitOK
<1>2. WireIds' = WireIds \cup {new} /\ new \notin WireIds
  BY <1>1 DEF WireIds
<1>3. \A n : WiresAfter(n)' = WiresAfter(n) \cup {new}
  BY DEF WiresAfter, OutputsUpTo
<1>4. ASSUME NEW i \in 1 .. Len(gates)
      PROVE  /\ ToSet(gates[i].inputs) \subseteq WiresAfter(i - 1)'
             /\ gates[i].output \notin WiresAfter(i - 1)'
  <2>1. gates[i].output \in WiresAfter(Len(gates))
    BY DEF WiresAfter, OutputsUpTo
  <2>2. gates[i].output # new
    BY <1>2, <2>1 DEF WiresInOrder
  <2> QED BY <1>3, <2>2 DEF WiresInOrder
<1>5. ToSet(circuit'.output_wires) \subseteq WireIds'
  BY <1>2 DEF WiresInOrder
<1>6. WiresAfter(Len(circuit.gates))' = WireIds'
  BY <1>2, <1>3 DEF WiresInOrder
<1> QED BY <1>4, <1>5, <1>6 DEF WiresInOrder

(* A gate on wires that exist sets the next one.                           *)
LEMMA GateAdded ==
  ASSUME CircuitOK, WiresInOrder, NEW gate \in BitGate,
         ToSet(gate.inputs) \subseteq WireIds, gate.output = circuit.wires,
         circuit'.wires = circuit.wires + 1,
         circuit'.gates = Append(circuit.gates, gate),
         circuit'.output_wires = circuit.output_wires,
         InitialWires' = InitialWires
  PROVE  WiresInOrder'
<1> DEFINE gates == circuit.gates
           after == Append(gates, gate)
<1>0. PICK last : last = Len(gates) + 1
  OBVIOUS
<1>1. /\ circuit.wires \in Nat /\ Len(gates) \in Nat /\ Len(after) = last
      /\ \A i \in 1 .. Len(gates) : after[i] = gates[i]
      /\ after[last] = gate
  BY <1>0 DEF CircuitOK
<1>2. WireIds' = WireIds \cup {gate.output} /\ gate.output \notin WireIds
  BY <1>1 DEF WireIds
<1>3. circuit'.gates = after
  OBVIOUS
<1> HIDE DEF after
<1>4. \A n \in 0 .. Len(gates) : OutputsUpTo(n)' = OutputsUpTo(n)
  <2>1. \A n \in 0 .. Len(gates) : \A i \in 1 .. n : after[i] = gates[i]
    BY <1>1
  <2> QED BY <1>3, <2>1 DEF OutputsUpTo
<1>5. \A n \in 0 .. Len(gates) : WiresAfter(n)' = WiresAfter(n)
  BY <1>4 DEF WiresAfter
<1>6. WiresAfter(last)' = WiresAfter(Len(gates)) \cup {gate.output}
  <2>1. 1 .. last = (1 .. Len(gates)) \cup {last}
    BY <1>0, <1>1
  <2>2. OutputsUpTo(last)' = {after[i].output : i \in (1 .. Len(gates)) \cup {last}}
    BY <1>3, <2>1 DEF OutputsUpTo
  <2>3. OutputsUpTo(last)' = OutputsUpTo(Len(gates)) \cup {gate.output}
    BY <1>1, <2>2 DEF OutputsUpTo
  <2> QED BY <2>3 DEF WiresAfter
<1>7. ASSUME NEW i \in 1 .. last
      PROVE  /\ ToSet(after[i].inputs) \subseteq WiresAfter(i - 1)'
             /\ after[i].output \notin WiresAfter(i - 1)'
  <2>1. i - 1 \in 0 .. Len(gates)
    BY <1>0, <1>1
  <2>2. WiresAfter(i - 1)' = WiresAfter(i - 1)
    BY <1>5, <2>1
  <2>3. CASE i = last
    <3>1. after[i] = gate /\ i - 1 = Len(gates)
      BY <1>0, <1>1, <2>3
    <3> QED BY <1>2, <2>2, <3>1 DEF WiresInOrder
  <2>4. CASE i # last
    <3>1. i \in 1 .. Len(gates) /\ after[i] = gates[i]
      BY <1>0, <1>1, <2>4
    <3> QED BY <2>2, <3>1 DEF WiresInOrder
  <2> QED BY <2>3, <2>4
<1>8. ToSet(circuit'.output_wires) \subseteq WireIds'
  BY <1>2 DEF WiresInOrder
<1>9. WiresAfter(Len(circuit.gates))' = WireIds'
  <2>1. WiresAfter(Len(circuit.gates))' = WiresAfter(last)'
    BY <1>1, <1>3
  <2> QED BY <1>2, <1>6, <2>1 DEF WiresInOrder
<1> QED BY <1>1, <1>3, <1>7, <1>8, <1>9 DEF WiresInOrder

(* Every call of the builder keeps the order of the wires.                 *)
LEMMA BuilderKeepsOrder ==
  ASSUME CircuitOK, WiresInOrder, BuilderNext
  PROVE  WiresInOrder'
<1> DEFINE c == circuit
<1>0. /\ c.wires \in Nat /\ c.input_wires \in Seq(Nat)
      /\ c.output_wires \in Seq(Nat) /\ c.gates \in Seq(BitGate)
      /\ c = [wires |-> c.wires, input_wires |-> c.input_wires,
              output_wires |-> c.output_wires,
              constant_wires |-> c.constant_wires,
              secret_constant_wires |-> c.secret_constant_wires,
              gates |-> c.gates]
  BY DEF CircuitOK
<1>1. CASE AddInputWire
  <2>1. circuit' = [circuit EXCEPT !.wires = @ + 1,
                      !.input_wires = Append(@, circuit.wires)]
    BY <1>1 DEF AddInputWire
  <2>2. /\ circuit'.wires = c.wires + 1 /\ circuit'.gates = c.gates
        /\ circuit'.output_wires = c.output_wires
        /\ circuit'.input_wires = Append(c.input_wires, c.wires)
        /\ circuit'.constant_wires = c.constant_wires
        /\ circuit'.secret_constant_wires = c.secret_constant_wires
    BY <1>0, <2>1
  <2>3. ToSet(circuit'.input_wires) = ToSet(c.input_wires) \cup {c.wires}
    BY <1>0, <2>2, ToSetAppend
  <2>4. InitialWires' = InitialWires \cup {circuit.wires}
    BY <2>2, <2>3 DEF InitialWires, ConstantBit
  <2> QED BY <2>2, <2>4, InitialWireAdded
<1>2. CASE \E value \in BOOLEAN : AddConstantWire(value)
  <2>1. PICK value \in BOOLEAN : AddConstantWire(value)
    BY <1>2
  <2>2. circuit' = [circuit EXCEPT !.wires = @ + 1,
                      !.constant_wires = Assign(@, circuit.wires, value)]
    BY <2>1 DEF AddConstantWire
  <2>3. /\ circuit'.wires = c.wires + 1 /\ circuit'.gates = c.gates
        /\ circuit'.output_wires = c.output_wires
        /\ circuit'.input_wires = c.input_wires
        /\ circuit'.constant_wires = Assign(c.constant_wires, c.wires, value)
        /\ circuit'.secret_constant_wires = c.secret_constant_wires
    BY <1>0, <2>2
  <2>4. DOMAIN circuit'.constant_wires = DOMAIN c.constant_wires \cup {c.wires}
    BY <2>3 DEF Assign
  <2>5. InitialWires' = InitialWires \cup {circuit.wires}
    BY <2>3, <2>4 DEF InitialWires, ConstantBit
  <2> QED BY <2>3, <2>5, InitialWireAdded
<1>3. CASE \E value \in BOOLEAN : AddSecretConstantWire(value)
  <2>1. PICK value \in BOOLEAN : AddSecretConstantWire(value)
    BY <1>3
  <2>2. circuit' = [circuit EXCEPT !.wires = @ + 1,
                      !.secret_constant_wires = Assign(@, circuit.wires, value)]
    BY <2>1 DEF AddSecretConstantWire
  <2>3. /\ circuit'.wires = c.wires + 1 /\ circuit'.gates = c.gates
        /\ circuit'.output_wires = c.output_wires
        /\ circuit'.input_wires = c.input_wires
        /\ circuit'.constant_wires = c.constant_wires
        /\ circuit'.secret_constant_wires =
             Assign(c.secret_constant_wires, c.wires, value)
    BY <1>0, <2>2
  <2>4. DOMAIN circuit'.secret_constant_wires =
          DOMAIN c.secret_constant_wires \cup {c.wires}
    BY <2>3 DEF Assign
  <2>5. InitialWires' = InitialWires \cup {circuit.wires}
    BY <2>3, <2>4 DEF InitialWires, ConstantBit
  <2> QED BY <2>3, <2>5, InitialWireAdded
<1>4. CASE \E kind \in Kinds : \E inputs \in GateInputs(kind) :
             AddGate(kind, inputs)
  <2>0. PICK kind \in Kinds : \E inputs \in GateInputs(kind) :
          AddGate(kind, inputs)
    BY <1>4
  <2>1. PICK inputs \in GateInputs(kind) : AddGate(kind, inputs)
    BY <2>0
  <2> DEFINE gate == [kind |-> kind, inputs |-> inputs, output |-> circuit.wires]
  <2>2. circuit' = [circuit EXCEPT !.wires = @ + 1, !.gates = Append(@, gate)]
    BY <2>1 DEF AddGate
  <2>3. gate \in BitGate
    BY <1>0, GateIsBitGate
  <2>4. ToSet(gate.inputs) \subseteq WireIds /\ gate.output = circuit.wires
    BY <2>1 DEF AddGate
  <2> HIDE DEF gate
  <2>5. /\ circuit'.wires = c.wires + 1
        /\ circuit'.gates = Append(c.gates, gate)
        /\ circuit'.output_wires = c.output_wires
        /\ circuit'.input_wires = c.input_wires
        /\ circuit'.constant_wires = c.constant_wires
        /\ circuit'.secret_constant_wires = c.secret_constant_wires
    BY <1>0, <2>2
  <2>6. InitialWires' = InitialWires
    BY <2>5 DEF InitialWires, ConstantBit
  <2> QED BY <2>3, <2>4, <2>5, <2>6, GateAdded
<1>5. CASE \E wire \in 0 .. circuit.wires : AddOutputWire(wire)
  <2>1. PICK wire \in 0 .. circuit.wires : AddOutputWire(wire)
    BY <1>5
  <2>2. circuit' = [circuit EXCEPT !.output_wires = Append(@, wire)]
        /\ wire \in WireIds
    BY <2>1 DEF AddOutputWire
  <2>3. /\ circuit'.wires = c.wires /\ circuit'.gates = c.gates
        /\ circuit'.output_wires = Append(c.output_wires, wire)
        /\ circuit'.input_wires = c.input_wires
        /\ circuit'.constant_wires = c.constant_wires
        /\ circuit'.secret_constant_wires = c.secret_constant_wires
    BY <1>0, <2>2
  <2>4. ToSet(circuit'.output_wires) = ToSet(c.output_wires) \cup {wire}
    <3>1. wire \in Nat
      BY <1>0
    <3>2. ToSet(Append(c.output_wires, wire)) = ToSet(c.output_wires) \cup {wire}
      <4> HIDE DEF c
      <4>1. c.output_wires \in Seq(Nat)
        BY <1>0
      <4> QED BY <3>1, <4>1, ToSetAppend
    <3> QED BY <2>3, <3>2
  <2>5. WireIds' = WireIds /\ \A n : WiresAfter(n)' = WiresAfter(n)
    BY <2>3 DEF WireIds, WiresAfter, OutputsUpTo, InitialWires, ConstantBit
  <2> QED BY <2>2, <2>3, <2>4, <2>5 DEF WiresInOrder
<1>6. CASE UNCHANGED circuit
  BY <1>6, OrderKept
<1> QED BY <1>1, <1>2, <1>3, <1>4, <1>5, <1>6 DEF BuilderNext, AddGateThrows,
           AddOutputWireThrows, Build
=============================================================================
