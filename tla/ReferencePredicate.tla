------------------------- MODULE ReferencePredicate -------------------------
(***************************************************************************)
(* ControlledReveal of the reference: the comparison of two integers that  *)
(* are encrypted bit by bit, from gates whose outputs are inputs of EvalNot*)
(* and of other gates, and the decryption of the result.  As in the test,  *)
(* no keys are loaded and the ciphertexts have no mask, so that there is   *)
(* nothing to rotate: EvalAccCGGI returns at once.                         *)
(***************************************************************************)
EXTENDS BootstrapArithmetic

CONSTANTS
  IntegerBits,    \* 4 in the source
  Operands        \* integers of so many bits

VARIABLES
  x, bound,       \* the integers
  greater,        \* the ciphertext carried from bit to bit
  bit_index,      \* bits done
  revealed        \* what ControlledReveal returns, once it has

predicateVars == <<x, bound, greater, bit_index, revealed>>

BitCiphertext(number, i) ==
  [ZeroCiphertext EXCEPT !.b = IF (number \div 2^i) % 2 = 1 THEN EncodedOne ELSE 0]

EvalBinGate(gate, lhs, rhs) ==
  LET sum == AddCiphertexts(lhs, rhs)
      prebootstrap == IF gate = "Xor" THEN AddCiphertexts(sum, sum) ELSE sum
  IN  SwitchCTtoqn([i \in Ring |-> [d \in SwitchDigits |-> ZeroCiphertext]],
                   ExtractLweFromAccumulator(
                     InitGateAccumulator(gate, prebootstrap)))

Generate(i) ==
  EvalBinGate("And", EvalNot(BitCiphertext(bound, i)), BitCiphertext(x, i))

FirstBit ==
  /\ bit_index = 0
  /\ greater' = Generate(0)
  /\ bit_index' = 1
  /\ UNCHANGED <<x, bound, revealed>>

NextBit ==
  /\ bit_index \in 1 .. IntegerBits - 1
  /\ LET xor_bits == EvalBinGate("Xor", BitCiphertext(bound, bit_index),
                                        BitCiphertext(x, bit_index))
         propagate == EvalBinGate("And", EvalNot(xor_bits), greater)
     IN  greater' = EvalBinGate("Xor", Generate(bit_index), propagate)
  /\ bit_index' = bit_index + 1
  /\ UNCHANGED <<x, bound, revealed>>

ControlledReveal ==
  /\ bit_index = IntegerBits
  /\ revealed = <<>>
  /\ revealed' = <<DecFixedHsk(EvalNot(greater))>>
  /\ UNCHANGED <<x, bound, greater, bit_index>>

PredicateInit ==
  /\ x \in Operands /\ bound \in Operands
  /\ greater = ZeroCiphertext
  /\ bit_index = 0
  /\ revealed = <<>>

PredicateNext == FirstBit \/ NextBit \/ ControlledReveal

PredicateSpec == PredicateInit /\ [][PredicateNext]_predicateVars

(* A ternary key for the run.                                              *)
AlternatingHsk == [i \in Lwe |-> IF i % 2 = 0 THEN 1 ELSE -1]

(* What the source says of its function: it reveals Dec_hsk(OpenFHE.Eval(  *)
(* [x <= b], x', b')).                                                     *)
RevealsThePredicate == revealed # <<>> => revealed = <<x <= bound>>
=============================================================================
