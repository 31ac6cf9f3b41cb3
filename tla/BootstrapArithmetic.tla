------------------------ MODULE BootstrapArithmetic ------------------------
(***************************************************************************)
(* openfhe_controlled_reveal_reference.cpp: an OpenFHE gate with its       *)
(* bootstrapping, written out in integer arithmetic so that it can be      *)
(* lowered to gates.  Arrays are functions from 0.                         *)
(*                                                                         *)
(* The constants are the source's, with smaller values: the ring modulus   *)
(* is a little below GadgetBase^GadgetDigits, as there.                    *)
(***************************************************************************)
EXTENDS Integers

CONSTANTS
  LweDimension, CiphertextModulus,    \* n and q: 64 and 512
  RingDimension, RingModulus,         \* N and Q: 512 and 134215681
  GadgetBase, GadgetDigits,           \* 512 and 3
  KeySwitchBase, KeySwitchDigits,     \* 25 and 6
  FixedHsk                            \* the ternary secret key

Digits       == 0 .. 2 * (GadgetDigits - 1) - 1    \* of an accumulator
SwitchDigits == 0 .. KeySwitchDigits - 1
Lwe          == 0 .. LweDimension - 1
Ring         == 0 .. RingDimension - 1

(* What a loop over 0 .. n - 1 adds up, and a number times itself.         *)
SumTo(n, terms) ==
  LET sum[k \in 0 .. n] == IF k = 0 THEN 0 ELSE sum[k - 1] + terms[k - 1]
  IN  sum[n]

Power(base, n) ==
  LET power[k \in Nat] == IF k = 0 THEN 1 ELSE base * power[k - 1]
  IN  power[n]

(* p = 4.  Every phase of a gate is a multiple of q/8, and the accumulator *)
(* has a coefficient for each of q/2 phases.  Q is so much above q that a  *)
(* coefficient scaled down is off by less than 1.                          *)
ASSUME ParameterAssumption ==
  /\ LweDimension \in Nat \ {0}
  /\ CiphertextModulus \in Nat \ {0} /\ CiphertextModulus % 8 = 0
  /\ RingDimension \in Nat \ {0}
  /\ RingDimension % (CiphertextModulus \div 2) = 0
  /\ RingModulus \in Nat /\ RingModulus >= 2 * CiphertextModulus
  /\ GadgetBase \in Nat \ {0} /\ GadgetDigits \in Nat \ {0}
  /\ RingModulus <= Power(GadgetBase, GadgetDigits)
  /\ KeySwitchBase \in Nat \ {0} /\ KeySwitchDigits \in Nat
  /\ CiphertextModulus <= Power(KeySwitchBase, KeySwitchDigits)
  /\ FixedHsk \in [Lwe -> {-1, 0, 1}]

EncodedOne == CiphertextModulus \div 4
Eighth == CiphertextModulus \div 8

AccumulatorPositiveMessage == RingModulus \div 8 + 1
AccumulatorNegativeMessage == RingModulus - AccumulatorPositiveMessage

ModQ(value) == value % CiphertextModulus
ModRing(value) == value % RingModulus

-----------------------------------------------------------------------------
(* Ciphertexts: [a, b].                                                    *)

ZeroCiphertext == [a |-> [i \in Lwe |-> 0], b |-> 0]

AddCiphertexts(lhs, rhs) ==
  [a |-> [i \in Lwe |-> ModQ(lhs.a[i] + rhs.a[i])], b |-> ModQ(lhs.b + rhs.b)]

EvalNot(value) ==
  [a |-> [i \in Lwe |-> ModQ(- value.a[i])], b |-> ModQ(EncodedOne - value.b)]

MulBySecretCoeffModQ(value, secret_coeff) == ModQ(value * secret_coeff)

DotWithFixedHsk(value) ==
  ModQ(SumTo(LweDimension,
         [i \in Lwe |-> MulBySecretCoeffModQ(value.a[i], FixedHsk[i])]))

PhaseWithFixedHsk(value) == ModQ(value.b - DotWithFixedHsk(value))

DecFixedHsk(value) ==
  LET rounded == ModQ(PhaseWithFixedHsk(value) + Eighth)
  IN  ((4 * rounded) \div CiphertextModulus) % 2 = 1

-----------------------------------------------------------------------------
(* Polynomials modulo X^N + 1, and accumulators [a, b] of two of them.     *)

ZeroPolynomial == [k \in Ring |-> 0]

AddPolynomials(lhs, rhs) == [k \in Ring |-> ModRing(lhs[k] + rhs[k])]

AddAccumulator(lhs, rhs) ==
  [a |-> AddPolynomials(lhs.a, rhs.a), b |-> AddPolynomials(lhs.b, rhs.b)]

(* X^2N = 1 and X^N = -1: a shift of N or more changes every sign.         *)
MultiplyByNegacyclicMonomial(value, exponent) ==
  LET wrapped_exponent == exponent % (2 * RingDimension)
      negacyclic == wrapped_exponent >= RingDimension
      shift == wrapped_exponent % RingDimension
  IN  [k \in Ring |->
         LET source  == (k - shift) % RingDimension
             wrapped == source + shift >= RingDimension
         IN  ModRing(IF negacyclic # wrapped THEN - value[source]
                                             ELSE value[source])]

MultiplyAccumulatorByNegacyclicMonomial(value, exponent) ==
  [a |-> MultiplyByNegacyclicMonomial(value.a, exponent),
   b |-> MultiplyByNegacyclicMonomial(value.b, exponent)]

MultiplyPolynomials(lhs, rhs) ==
  [k \in Ring |->
     ModRing(SumTo(RingDimension, [i \in Ring |->
               IF i <= k THEN lhs[i] * rhs[k - i]
               ELSE - lhs[i] * rhs[k - i + RingDimension]]))]

-----------------------------------------------------------------------------
(* The accumulator of a gate.                                              *)

GateConstant(gate) == IF gate = "And" THEN 7 * Eighth ELSE 6 * Eighth

GateAccumulatorRange(gate) ==
  LET q1 == GateConstant(gate)
      q2 == ModQ(q1 + CiphertextModulus \div 2)
  IN  IF q1 >= q2 THEN [lb |-> q2, ub |-> q1, swap |-> TRUE]
                  ELSE [lb |-> q1, ub |-> q2, swap |-> FALSE]

(* Mutant: the bounds of the half-open range are both out.                 *)
InOpenRange(value, lb, ub) == value > lb /\ value < ub

InHalfOpenRange(value, lb, ub) == value >= lb /\ value < ub

(* One coefficient in N/(q/2) is set, for the phases b, b - 1, ...         *)
InitGateAccumulator(gate, prebootstrap) ==
  LET range  == GateAccumulatorRange(gate)
      lv     == IF range.swap THEN AccumulatorPositiveMessage
                              ELSE AccumulatorNegativeMessage
      uv     == IF range.swap THEN AccumulatorNegativeMessage
                              ELSE AccumulatorPositiveMessage
      factor == RingDimension \div (CiphertextModulus \div 2)
  IN  [a |-> ZeroPolynomial,
       b |-> [k \in Ring |->
                IF k % factor # 0 THEN 0
                ELSE IF InHalfOpenRange(ModQ(prebootstrap.b - k \div factor),
                                        range.lb, range.ub)
                THEN lv ELSE uv]]

-----------------------------------------------------------------------------
(* Blind rotation.                                                         *)

CenteredRingValue(value) ==
  IF value < RingModulus \div 2 THEN value ELSE value - RingModulus

(* The remainder in -B/2 .. B/2 - 1.                                       *)
SignedBaseRemainder(value) ==
  ((value + GadgetBase \div 2) % GadgetBase) - GadgetBase \div 2

(* The signed digits of a coefficient, without the lowest one.             *)
DecomposeScalarIntoDigits(value) ==
  LET rest[d \in 0 .. GadgetDigits] ==
        IF d = 0 THEN CenteredRingValue(value)
        ELSE (rest[d - 1] - SignedBaseRemainder(rest[d - 1])) \div GadgetBase
  IN  [d \in 0 .. GadgetDigits - 2 |-> SignedBaseRemainder(rest[d + 1])]

(* Even digits are those of a, odd digits those of b.                      *)
SignedDigitDecomposeAccumulator(input) ==
  [digit \in Digits |->
     [k \in Ring |-> ModRing(DecomposeScalarIntoDigits(
        IF digit % 2 = 0 THEN input.a[k] ELSE input.b[k])[digit \div 2])]]

ExternalProductCGGI(decomposed, key_row) ==
  LET Product(part, digit) ==
        MultiplyPolynomials(decomposed[digit], key_row[digit][part])
      sum[count \in 0 .. 2 * (GadgetDigits - 1)] ==
        IF count = 0 THEN [a |-> ZeroPolynomial, b |-> ZeroPolynomial]
        ELSE AddAccumulator(sum[count - 1],
               [a |-> Product("a", count - 1), b |-> Product("b", count - 1)])
  IN  sum[2 * (GadgetDigits - 1)]

ModSwitchToMonomialExponent(value) ==
  (2 * RingDimension * value + CiphertextModulus \div 2) \div CiphertextModulus

(* Mutant: the product with the second key is rotated the same way.        *)
AddToAccOneWay(positive_key, negative_key, monomial_exponent, accumulator) ==
  LET decomposed == SignedDigitDecomposeAccumulator(accumulator)
      positive_index == monomial_exponent % (2 * RingDimension)
      Rotated(key) == MultiplyAccumulatorByNegacyclicMonomial(
                        ExternalProductCGGI(decomposed, key), positive_index)
  IN  AddAccumulator(AddAccumulator(accumulator, Rotated(positive_key)),
                     Rotated(negative_key))

AddToAccCGGI(positive_key, negative_key, monomial_exponent, accumulator) ==
  LET decomposed == SignedDigitDecomposeAccumulator(accumulator)
      positive_index == monomial_exponent % (2 * RingDimension)
      negative_index == (- positive_index) % (2 * RingDimension)
      Rotated(key, index) == MultiplyAccumulatorByNegacyclicMonomial(
                               ExternalProductCGGI(decomposed, key), index)
  IN  AddAccumulator(
        AddAccumulator(accumulator, Rotated(positive_key, positive_index)),
        Rotated(negative_key, negative_index))

-----------------------------------------------------------------------------
(* Back to a ciphertext of the small dimension.                            *)

ExtractLweFromAccumulator(accumulator) ==
  [a |-> [i \in Ring |->
            accumulator.a[IF i = 0 THEN 0 ELSE RingDimension - i]],
   b |-> accumulator.b[0]]

ScaleRingQToQ(value) ==
  ModQ((value * CiphertextModulus + RingModulus \div 2) \div RingModulus)

(* The value after some divisions by the base.                             *)
Shifted(value, divisions) ==
  LET shifted[k \in Nat] ==
        IF k = 0 THEN value ELSE shifted[k - 1] \div KeySwitchBase
  IN  shifted[divisions]

(* Mutant: one division too many.                                          *)
KeySwitchDigitNext(value, digit_index) ==
  Shifted(value, digit_index + 1) % KeySwitchBase

KeySwitchDigit(value, digit_index) ==
  Shifted(value, digit_index) % KeySwitchBase

(* The corrections of one coefficient: scaled digit by digit, and          *)
(* subtracted from what the coefficients before have left.                 *)
SwitchCoefficient(out, switching_row, scaled) ==
  LET Corrections(part) ==
        SumTo(KeySwitchDigits,
          [d \in SwitchDigits |-> part[d] * KeySwitchDigit(scaled, d)])
  IN  [a |-> [j \in Lwe |-> ModQ(out.a[j] -
                Corrections([d \in SwitchDigits |-> switching_row[d].a[j]]))],
       b |-> ModQ(out.b -
                Corrections([d \in SwitchDigits |-> switching_row[d].b]))]

SwitchCTtoqn(switching, large_ct) ==
  LET out[i \in 0 .. RingDimension] ==
        IF i = 0 THEN [ZeroCiphertext EXCEPT !.b = ScaleRingQToQ(large_ct.b)]
        ELSE SwitchCoefficient(out[i - 1], switching[i - 1],
                               ScaleRingQToQ(large_ct.a[i - 1]))
  IN  out[RingDimension]
=============================================================================
