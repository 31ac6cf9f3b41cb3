--------------------------- MODULE BooleanCircuit ---------------------------
(***************************************************************************)
(* BooleanCircuitBuilder: the calls that describe a circuit wire by wire   *)
(* and gate by gate, and the plain meaning of what they describe.  Both    *)
(* garblers walk the gates in the order in which they were added and rely  *)
(* on every gate reading wires that an earlier call created.               *)
(*                                                                         *)
(* Wire names are left out: no garbler reads them.  A wire is its id, and  *)
(* the ids in wire_index_ are 0 .. circuit.wires - 1.                      *)
(***************************************************************************)
EXTENDS Integers, SequencesExt

CONSTANTS
  Kinds,                                             \* gate kinds in use
  MaxInputs, MaxConstants, MaxGates, MaxOutputs      \* bounds on the calls

BitGateKind == {"And", "Xor", "Not", "Mux", "Output"}

ASSUME KindsAssumption == Kinds \subseteq BitGateKind

VARIABLES
  circuit,      \* the BooleanCircuit
  stage         \* how far the caller is: "build", "garble", ...

Arity(kind) ==
  CASE kind \in {"And", "Xor"}    -> 2
    [] kind \in {"Not", "Output"} -> 1
    [] kind = "Mux"               -> 3

(* EvalGate on input bits in the order of the gate's inputs.               *)
EvalGate(kind, inputs) ==
  CASE kind = "And"    -> inputs[1] /\ inputs[2]
    [] kind = "Xor"    -> inputs[1] # inputs[2]
    [] kind = "Not"    -> ~inputs[1]
    [] kind = "Mux"    -> IF inputs[1] THEN inputs[2] ELSE inputs[3]
    [] kind = "Output" -> inputs[1]

(* map[key] = value of a C++ map, and the map without entries.             *)
Assign(map, key, value) ==
  [k \in DOMAIN map \cup {key} |-> IF k = key THEN value ELSE map[k]]

NoEntries == [k \in {} |-> FALSE]

(* The images of a gate's inputs under a map that is set on them.          *)
Images(map, inputs) == [j \in 1 .. Len(inputs) |-> map[inputs[j]]]

SetOn(map, inputs) == ToSet(inputs) \subseteq DOMAIN map

-----------------------------------------------------------------------------

EmptyCircuit ==
  [wires |-> 0, input_wires |-> <<>>, output_wires |-> <<>>,
   constant_wires |-> NoEntries, secret_constant_wires |-> NoEntries,
   gates |-> <<>>]

WireIds == 0 .. circuit.wires - 1

(* Public and secret constants get their labels in the same way.           *)
ConstantBit ==
  [w \in DOMAIN circuit.constant_wires
           \cup DOMAIN circuit.secret_constant_wires |->
     IF w \in DOMAIN circuit.constant_wires
     THEN circuit.constant_wires[w] ELSE circuit.secret_constant_wires[w]]

AddInputWire ==
  /\ Len(circuit.input_wires) < MaxInputs
  /\ circuit' = [circuit EXCEPT
       !.wires = @ + 1,
       !.input_wires = Append(@, circuit.wires)]
  /\ UNCHANGED stage

AddConstantWire(value) ==
  /\ Cardinality(DOMAIN ConstantBit) < MaxConstants
  /\ circuit' = [circuit EXCEPT
       !.wires = @ + 1,
       !.constant_wires = Assign(@, circuit.wires, value)]
  /\ UNCHANGED stage

AddSecretConstantWire(value) ==
  /\ Cardinality(DOMAIN ConstantBit) < MaxConstants
  /\ circuit' = [circuit EXCEPT
       !.wires = @ + 1,
       !.secret_constant_wires = Assign(@, circuit.wires, value)]
  /\ UNCHANGED stage

AddGate(kind, inputs) ==
  /\ Len(circuit.gates) < MaxGates
  /\ ToSet(inputs) \subseteq WireIds
  /\ circuit' = [circuit EXCEPT
       !.wires = @ + 1,
       !.gates = Append(@,
         [kind |-> kind, inputs |-> inputs, output |-> circuit.wires])]
  /\ UNCHANGED stage

(* The builder throws on a wire it does not know and keeps its circuit.    *)
AddGateThrows(inputs) ==
  /\ Len(circuit.gates) < MaxGates
  /\ ~(ToSet(inputs) \subseteq WireIds)
  /\ stage' = "build_threw"
  /\ UNCHANGED circuit

AddOutputWire(wire) ==
  /\ Len(circuit.output_wires) < MaxOutputs
  /\ wire \in WireIds
  /\ circuit' = [circuit EXCEPT !.output_wires = Append(@, wire)]
  /\ UNCHANGED stage

AddOutputWireThrows(wire) ==
  /\ Len(circuit.output_wires) < MaxOutputs
  /\ wire \notin WireIds
  /\ stage' = "build_threw"
  /\ UNCHANGED circuit

Build ==
  /\ stage' = "garble"
  /\ UNCHANGED circuit

(* AddGate counts nothing: a caller may pass one input too few or too many *)
(* and may name a wire that does not exist (here the next id).             *)
GateInputs(kind) ==
  UNION {[1 .. n -> 0 .. circuit.wires] :
           n \in {Arity(kind), 1 + (Arity(kind) % 2)}}

BuilderInit ==
  /\ circuit = EmptyCircuit
  /\ stage = "build"

BuilderNext ==
  /\ stage = "build"
  /\ \/ AddInputWire
     \/ \E value \in BOOLEAN : AddConstantWire(value)
     \/ \E value \in BOOLEAN : AddSecretConstantWire(value)
     \/ \E kind \in Kinds : \E inputs \in GateInputs(kind) :
          AddGate(kind, inputs)
     \/ \E kind \in Kinds : \E inputs \in GateInputs(kind) :
          AddGateThrows(inputs)
     \/ \E wire \in 0 .. circuit.wires : AddOutputWire(wire)
     \/ \E wire \in 0 .. circuit.wires : AddOutputWireThrows(wire)
     \/ Build

-----------------------------------------------------------------------------
(* A caller may set the bits of some of the input wires only.              *)
InputBits == UNION {[wires -> BOOLEAN] :
                      wires \in SUBSET ToSet(circuit.input_wires)}
=============================================================================
