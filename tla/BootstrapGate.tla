--------------------------- MODULE BootstrapGate ---------------------------
(***************************************************************************)
(* EvalBinGate of the reference, stage by stage: add (and double), set up  *)
(* the accumulator, rotate it once per coefficient of the mask, extract a  *)
(* ciphertext from it and switch that to the small key.                    *)
(*                                                                         *)
(* The source leaves open how OpenFHE's keys fill its arrays.  The keys    *)
(* here are what the arithmetic calls for: a row encrypts 1 or 0 times the *)
(* gadget under a ring secret, a switching row a coefficient of that       *)
(* secret times the powers of the base.  Or no keys are loaded, as in the  *)
(* test: the arrays are zero.                                              *)
(***************************************************************************)
EXTENDS BootstrapArithmetic

CONSTANTS
  RingSecret, RowMask,        \* polynomials
  SwitchMask,                 \* a mask of the small dimension
  GateMasks, GateNoise        \* the ciphertexts given to the gate

ASSUME KeyAssumption ==
  /\ RingSecret \in [Ring -> {-1, 0, 1}]
  /\ RowMask \in [Ring -> 0 .. RingModulus - 1]
  /\ SwitchMask \in [Lwe -> Int]
  /\ GateMasks \subseteq [Lwe -> 0 .. CiphertextModulus - 1]
  /\ GateNoise \subseteq Int

VARIABLES
  request,          \* the gate and the messages, noise and masks given to it
  material_loaded,
  boot_stage,       \* "start", "rotate", "extract", "switch", "done"
  rotated,          \* coefficients of the mask done
  prebootstrap, accumulator, large_lwe, gate_output

bootVars == <<request, material_loaded, boot_stage, rotated, prebootstrap,
              accumulator, large_lwe, gate_output>>

GateKind == {"And", "Xor"}

(* A key row: the message times B, B^2, ..., on a for the even digits and  *)
(* on b for the odd ones, each under the mask.                             *)
BootstrapKeyRow(message) ==
  LET pad == MultiplyPolynomials(RowMask, RingSecret)
  IN  [digit \in Digits |->
         LET weight == message * Power(GadgetBase, digit \div 2 + 1)
         IN  [a |-> [RowMask EXCEPT ![0] =
                       ModRing(@ + (IF digit % 2 = 0 THEN weight ELSE 0))],
              b |-> [pad EXCEPT ![0] =
                       ModRing(@ + (IF digit % 2 = 0 THEN 0 ELSE weight))]]]

KeyRowOfZero == BootstrapKeyRow(0)
KeyRowOfOne  == BootstrapKeyRow(1)

SwitchingKey ==
  [i \in Ring |-> [d \in SwitchDigits |->
     LET mask == [j \in Lwe |-> ModQ((i + d + 1) * SwitchMask[j])]
     IN  [a |-> mask,
          b |-> ModQ(DotWithFixedHsk([a |-> mask, b |-> 0])
                       + RingSecret[i] * Power(KeySwitchBase, d))]]]

NoSwitchingKey == [i \in Ring |-> [d \in SwitchDigits |-> ZeroCiphertext]]

Encrypted(mask, message, noise) ==
  [a |-> mask,
   b |-> ModQ(DotWithFixedHsk([a |-> mask, b |-> 0])
                + (IF message THEN EncodedOne ELSE 0) + noise)]

-----------------------------------------------------------------------------

(* Mutant: XOR does not double.                                            *)
PrebootstrapUndoubled(gate, lhs, rhs) == AddCiphertexts(lhs, rhs)

GatePrebootstrap(gate, lhs, rhs) ==
  LET sum == AddCiphertexts(lhs, rhs)
  IN  IF gate = "Xor" THEN AddCiphertexts(sum, sum) ELSE sum

StartGate ==
  /\ boot_stage = "start"
  /\ prebootstrap' =
       GatePrebootstrap(request.gate,
         Encrypted(request.masks[1], request.messages[1], request.noise[1]),
         Encrypted(request.masks[2], request.messages[2], request.noise[2]))
  /\ accumulator' = InitGateAccumulator(request.gate, prebootstrap')
  /\ boot_stage' = IF material_loaded THEN "rotate" ELSE "extract"
  /\ UNCHANGED <<request, material_loaded, rotated, large_lwe, gate_output>>

RotationExponent(i) == ModSwitchToMonomialExponent(ModQ(- prebootstrap.a[i]))

(* EvalAccCGGI's loop.                                                     *)
RotateNext ==
  /\ boot_stage = "rotate"
  /\ rotated < LweDimension
  /\ accumulator' = AddToAccCGGI(
       IF FixedHsk[rotated] = 1 THEN KeyRowOfOne ELSE KeyRowOfZero,
       IF FixedHsk[rotated] = -1 THEN KeyRowOfOne ELSE KeyRowOfZero,
       RotationExponent(rotated), accumulator)
  /\ rotated' = rotated + 1
  /\ boot_stage' = IF rotated' = LweDimension THEN "extract" ELSE "rotate"
  /\ UNCHANGED <<request, material_loaded, prebootstrap, large_lwe, gate_output>>

Extract ==
  /\ boot_stage = "extract"
  /\ large_lwe' = ExtractLweFromAccumulator(accumulator)
  /\ boot_stage' = "switch"
  /\ UNCHANGED <<request, material_loaded, rotated, prebootstrap, accumulator,
                 gate_output>>

SwitchToSmall ==
  /\ boot_stage = "switch"
  /\ gate_output' = SwitchCTtoqn(
       IF material_loaded THEN SwitchingKey ELSE NoSwitchingKey, large_lwe)
  /\ boot_stage' = "done"
  /\ UNCHANGED <<request, material_loaded, rotated, prebootstrap, accumulator,
                 large_lwe>>

BootInit ==
  /\ request \in [gate : GateKind, masks : [{1, 2} -> GateMasks],
                  messages : [{1, 2} -> BOOLEAN], noise : [{1, 2} -> GateNoise]]
  /\ material_loaded \in BOOLEAN
  /\ boot_stage = "start"
  /\ rotated = 0
  /\ prebootstrap = ZeroCiphertext
  /\ accumulator = [a |-> ZeroPolynomial, b |-> ZeroPolynomial]
  /\ large_lwe = [a |-> ZeroPolynomial, b |-> 0]
  /\ gate_output = ZeroCiphertext

BootNext == StartGate \/ RotateNext \/ Extract \/ SwitchToSmall

-----------------------------------------------------------------------------

GateOf(gate, lhs, rhs) == IF gate = "And" THEN lhs /\ rhs ELSE lhs # rhs

(* X^m * p modulo X^N + 1, and the phase of an accumulator: b - a * z.     *)
Turned(p, m) ==
  [k \in Ring |->
     LET i == (k - m) % (2 * RingDimension)
     IN  IF i < RingDimension THEN p[i] ELSE - p[i - RingDimension]]

RingPhase(acc) ==
  LET pad == MultiplyPolynomials(acc.a, RingSecret)
  IN  [k \in Ring |-> ModRing(acc.b[k] - pad[k])]

Weight == SumTo(RingDimension, [k \in Ring |-> RingSecret[k] * RingSecret[k]])

(* The lowest digit is dropped, and next to Q/2 the highest one overflows. *)
DigitError ==
  GadgetBase \div 2 + Power(GadgetBase, GadgetDigits) - RingModulus

(* The accumulator holds the gate for every phase at once: turned by the   *)
(* exponent for what b still lacks to the phase of two messages, it has    *)
(* at X^0 the sign of their gate, for all noise from -q/8 up to below q/8, *)
(* although half of the phases wrap around in X^N = -1.                    *)
AccumulatorTurnsToTheGate ==
  boot_stage \in {"rotate", "extract"} /\ rotated = 0 =>
    \A lhs, rhs \in BOOLEAN : \A e \in - Eighth .. Eighth - 1 :
      LET target == GatePrebootstrap(request.gate,
                      Encrypted([i \in Lwe |-> 0], lhs, e),
                      Encrypted([i \in Lwe |-> 0], rhs, 0)).b
          turn == ModSwitchToMonomialExponent(ModQ(target - prebootstrap.b))
      IN  MultiplyByNegacyclicMonomial(accumulator.b, turn)[0] =
            IF GateOf(request.gate, lhs, rhs)
            THEN AccumulatorPositiveMessage ELSE AccumulatorNegativeMessage

(* A step of EvalAccCGGI adds to the phase of the accumulator the phase    *)
(* turned by m if the coefficient of the key is 1, by -m if it is -1, and  *)
(* nothing if it is 0, up to the error of the decomposition.               *)
StepTurnsByKeyBit ==
  [][RotateNext =>
       LET before == RingPhase(accumulator)
           after  == RingPhase(accumulator')
           turned == Turned(before, FixedHsk[rotated] * RotationExponent(rotated))
           expected(k) == before[k] + FixedHsk[rotated]^2 * turned[k]
       IN  \A k \in Ring :
             LET off == CenteredRingValue(ModRing(after[k] - expected(k)))
             IN  off \in - DigitError * (1 + Weight) .. DigitError * (1 + Weight)
    ]_bootVars

(* Key switching: the phase under the small key is the scaled phase under  *)
(* the ring secret, exactly, whatever was extracted.                       *)
SwitchingKeepsPhase ==
  boot_stage = "done" =>
    PhaseWithFixedHsk(gate_output) =
      ModQ(ScaleRingQToQ(large_lwe.b)
           - SumTo(RingDimension, [i \in Ring |-> ScaleRingQToQ(large_lwe.a[i])
               * (IF material_loaded THEN RingSecret[i] ELSE 0)]))

(* Where nothing has to be rotated, one gate on two ciphertexts decrypts   *)
(* to the gate of their messages.                                          *)
UnmaskedGateDecrypts ==
  boot_stage = "done" /\ ~material_loaded
    /\ (\A i \in Lwe : prebootstrap.a[i] = 0)
    /\ request.noise[1] + request.noise[2] \in - Eighth .. Eighth - 1 =>
      DecFixedHsk(gate_output) =
        GateOf(request.gate, request.messages[1], request.messages[2])
=============================================================================
