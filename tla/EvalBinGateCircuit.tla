------------------------- MODULE EvalBinGateCircuit -------------------------
(***************************************************************************)
(* OpenFHEEvalBinGateCircuit: an OpenFHE gate on two LWE ciphertexts as a  *)
(* Boolean circuit.  It adds the ciphertexts, decrypts the sum with the    *)
(* demo key in it, looks the result up and encrypts it under a fixed mask. *)
(* A ciphertext is held as the values of its wires.                        *)
(*                                                                         *)
(* BuildDemoEvalBinGate takes the wires of any two ciphertexts, so gates   *)
(* are evaluated one after the other on a pair of registers.               *)
(***************************************************************************)
EXTENDS BitCircuits, Sequences

CONSTANTS
  InputMasks,     \* the masks of the ciphertexts given to the circuit
  InputNoise      \* their noise; encryption proper adds a little

(* q = 16 with plaintexts scaled by 4: what decrypts is noise of -2 .. 1.  *)
ASSUME GateInputAssumption ==
  /\ InputMasks \subseteq [1 .. 4 -> 0 .. 15]
  /\ InputNoise \subseteq -2 .. 1

VARIABLES
  registers,      \* two ciphertexts, wire by wire
  messages,       \* history: the bits they stand for
  noise,          \* history: the noise they carry
  truncated       \* history: a gate has met noise below zero

gateVars == <<registers, messages, noise, truncated>>

kDimension == 4
kModulusBits == 4
Positions == 0 .. kModulusBits - 1
Registers == {1, 2}

OpenFHEBinGateKind == {"And", "Or", "Xor", "Xnor"}

FixedDemoSecretKey == <<TRUE, FALSE, TRUE, TRUE>>
FixedDemoMask == <<3, 5, 6, 1>>

-----------------------------------------------------------------------------

AddModulo(lhs, rhs, carry_in) ==
  LET carry[k \in Positions] ==
        IF k = 0 THEN carry_in
        ELSE CarryBit(lhs[k - 1], rhs[k - 1], carry[k - 1])
  IN  [k \in Positions |-> SumBit(lhs[k], rhs[k], carry[k])]

SubtractModulo(lhs, rhs) ==
  AddModulo(lhs, [k \in Positions |-> ~rhs[k]], TRUE)

SelectBySecretBit(value, secret_bit) ==
  [k \in Positions |-> value[k] /\ secret_bit]

DotProductModQ(mask) ==
  LET total[i \in 0 .. kDimension] ==
        IF i = 0 THEN ConstantBits(kModulusBits, 0)
        ELSE AddModulo(total[i - 1],
                       SelectBySecretBit(mask[i], FixedDemoSecretKey[i]), FALSE)
  IN  total[kDimension]

PhaseBits(ct) == SubtractModulo(ct.body, DotProductModQ(ct.mask))

BootstrapPlaceholderLut(gate, phase_bits) ==
  CASE gate = "And"  -> phase_bits[3]
    [] gate = "Or"   -> BuildOr(phase_bits[2], phase_bits[3])
    [] gate = "Xor"  -> phase_bits[3]
    [] gate = "Xnor" -> ~phase_bits[3]

FixedMaskEncryptBit(message) ==
  LET mask == [i \in 1 .. kDimension |->
                 ConstantBits(kModulusBits, FixedDemoMask[i])]
  IN  [mask |-> mask,
       body |-> AddModulo([ConstantBits(kModulusBits, 0) EXCEPT ![2] = message],
                          DotProductModQ(mask), FALSE)]

AddCiphertextWires(lhs, rhs) ==
  [mask |-> [i \in 1 .. kDimension |->
               AddModulo(lhs.mask[i], rhs.mask[i], FALSE)],
   body |-> AddModulo(lhs.body, rhs.body, FALSE)]

(* Mutant: the sum is not doubled for XNOR.                                *)
PrebootstrapXorOnly(gate, lhs, rhs) ==
  LET sum == AddCiphertextWires(lhs, rhs)
  IN  IF gate = "Xor" THEN AddCiphertextWires(sum, sum) ELSE sum

Prebootstrap(gate, lhs, rhs) ==
  LET sum == AddCiphertextWires(lhs, rhs)
  IN  IF gate \in {"Xor", "Xnor"} THEN AddCiphertextWires(sum, sum) ELSE sum

BuildDemoEvalBinGate(gate, lhs, rhs) ==
  FixedMaskEncryptBit(
    BootstrapPlaceholderLut(gate, PhaseBits(Prebootstrap(gate, lhs, rhs))))

-----------------------------------------------------------------------------
(* Ciphertexts as numbers: what a caller encrypts and decrypts.            *)

DemoPad(mask) ==
  (mask[1] * Bit(FixedDemoSecretKey[1]) + mask[2] * Bit(FixedDemoSecretKey[2])
   + mask[3] * Bit(FixedDemoSecretKey[3]) + mask[4] * Bit(FixedDemoSecretKey[4]))
  % 16

DemoCiphertext(mask, message, error) ==
  [mask |-> [i \in 1 .. kDimension |-> ConstantBits(kModulusBits, mask[i])],
   body |-> ConstantBits(kModulusBits,
                         (DemoPad(mask) + 4 * Bit(message) + error) % 16)]

PhaseOf(ct) ==
  (Value(ct.body, kModulusBits)
   - DemoPad([i \in 1 .. kDimension |-> Value(ct.mask[i], kModulusBits)])) % 16

Expected(gate, lhs, rhs) ==
  CASE gate = "And"  -> lhs /\ rhs
    [] gate = "Or"   -> lhs \/ rhs
    [] gate = "Xor"  -> lhs # rhs
    [] gate = "Xnor" -> lhs = rhs

GateInit ==
  \E masks \in [Registers -> InputMasks] :
    /\ messages \in [Registers -> BOOLEAN]
    /\ noise \in [Registers -> InputNoise]
    /\ registers = [r \in Registers |->
                      DemoCiphertext(masks[r], messages[r], noise[r])]
    /\ truncated = FALSE

EvalBinGateInto(gate, lhs, rhs, out) ==
  /\ registers' = [registers EXCEPT
       ![out] = BuildDemoEvalBinGate(gate, registers[lhs], registers[rhs])]
  /\ messages' = [messages EXCEPT
       ![out] = Expected(gate, messages[lhs], messages[rhs])]
  /\ noise' = [noise EXCEPT ![out] = 0]
  /\ truncated' = (truncated \/ noise[lhs] + noise[rhs] < 0)

GateNext ==
  \E gate \in OpenFHEBinGateKind : \E lhs, rhs, out \in Registers :
    EvalBinGateInto(gate, lhs, rhs, out)

-----------------------------------------------------------------------------

(* However gates follow each other on these registers, the ciphertext of a *)
(* gate's output encrypts the gate of the plain bits, and the noise of its *)
(* inputs is gone, as after a bootstrapping.  The look-up truncates the    *)
(* phase where decryption rounds it: the inputs' noise must not add up to  *)
(* less than zero.                                                         *)
GatesComposeWithoutNoise ==
  ~truncated =>
    \A r \in Registers :
      PhaseOf(registers[r]) = (4 * Bit(messages[r]) + noise[r]) % 16
=============================================================================
