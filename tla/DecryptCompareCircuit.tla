----------------------- MODULE DecryptCompareCircuit -----------------------
(***************************************************************************)
(* The circuit that setup garbles and the runtime evaluates: it decrypts   *)
(* two LWE integers under the secret constants of the key and compares     *)
(* them.  A wire is its value, so a step of this module is what a run of   *)
(* gates computes: one term of the dot product with the key, the end of a  *)
(* decryption, the comparison.  LWEInteger's Decode is the reference.      *)
(***************************************************************************)
EXTENDS LWEInteger, BitCircuits

CONSTANTS
  ModulusBits, PlaintextBits,   \* the widths of q and of p
  SecretKeys,                   \* ternary keys, as sequences of residues
  LeftOperands, RightOperands   \* the ciphertexts put on the input wires

(* ValidateParams                                                          *)
ASSUME ParamsAssumption ==
  /\ ModulusBits \in Nat \ {0} /\ 2^ModulusBits = CiphertextModulus
  /\ PlaintextBits \in Nat \ {0} /\ 2^PlaintextBits = PlaintextModulus
  /\ \A hsk \in SecretKeys :
       hsk \in Seq(Residues) /\ Len(hsk) > 0 /\ IsTernary(hsk)
  /\ LeftOperands \cup RightOperands \subseteq Ciphertext

VARIABLES
  hsk_mod_q,     \* the key whose coefficients are the secret constants
  operands,      \* the two ciphertexts, "lhs" and "rhs"
  current,       \* the operand being decrypted
  terms,         \* the terms of its dot product done
  total,         \* the wires that accumulate its pad
  plain,         \* the message bits of the operands decrypted so far
  output         \* <<>>, then the output wire

circuitVars ==
  <<hsk_mod_q, operands, current, terms, total, plain, output>>

Word == Vectors(ModulusBits)

WordOf(value) == ConstantBits(ModulusBits, value)

ZeroBits == WordOf(0)

(* AddModulo: the carry out of the last position is dropped.               *)
AddModulo(lhs, rhs, carry_in) ==
  LET carry[k \in 0 .. ModulusBits] ==
        IF k = 0 THEN carry_in
        ELSE CarryBit(lhs[k - 1], rhs[k - 1], carry[k - 1])
  IN  [k \in 0 .. ModulusBits - 1 |-> SumBit(lhs[k], rhs[k], carry[k])]

SubtractModulo(lhs, rhs) ==
  AddModulo(lhs, [k \in 0 .. ModulusBits - 1 |-> ~rhs[k]], TRUE)

NegateModulo(value) == SubtractModulo(ZeroBits, value)

SelectVector(select, if_true, if_false) ==
  [k \in 0 .. ModulusBits - 1 |-> Select(select, if_true[k], if_false[k])]

(* Mutant: a coefficient -1 is taken for 1.                                *)
SecretCoefficientTermUnsigned(value, coefficient) ==
  SelectVector(coefficient % CiphertextModulus # 0, value, ZeroBits)

(* Two secret bits stand for a coefficient: nonzero and negative.          *)
SecretCoefficientTerm(value, coefficient) ==
  LET nonzero  == coefficient % CiphertextModulus # 0
      negative == coefficient = CiphertextModulus - 1
      signed_term == SelectVector(negative, NegateModulo(value), value)
  IN  SelectVector(nonzero, signed_term, ZeroBits)

(* Mutant: the phase is cut off instead of rounded.                        *)
RoundingOffsetNone == 0

RoundingOffset == CiphertextModulus \div (2 * PlaintextModulus)

(* phase = body - pad, rounded, and cut down to its upper bits.            *)
MessageBits(body, pad) ==
  LET phase   == SubtractModulo(WordOf(body), pad)
      rounded == AddModulo(phase, WordOf(RoundingOffset), FALSE)
      shift   == ModulusBits - PlaintextBits
  IN  [k \in 0 .. PlaintextBits - 1 |-> rounded[shift + k]]

(* Mutant: the least significant bit is looked at first.                   *)
LessOrEqualUp(lhs, rhs) ==
  LET state[k \in 0 .. PlaintextBits] ==
        IF k = 0 THEN [greater |-> FALSE, prefix_equal |-> TRUE]
        ELSE [greater |-> GreaterHere(state[k - 1].greater,
                 state[k - 1].prefix_equal, lhs[k - 1], rhs[k - 1]),
              prefix_equal |-> EqualHere(state[k - 1].prefix_equal,
                 lhs[k - 1], rhs[k - 1])]
  IN  ~state[PlaintextBits].greater

LessOrEqual(lhs, rhs) ==
  LET top == PlaintextBits
      state[k \in 0 .. top] ==
        IF k = 0 THEN [greater |-> FALSE, prefix_equal |-> TRUE]
        ELSE [greater |-> GreaterHere(state[k - 1].greater,
                 state[k - 1].prefix_equal, lhs[top - k], rhs[top - k]),
              prefix_equal |-> EqualHere(state[k - 1].prefix_equal,
                 lhs[top - k], rhs[top - k])]
  IN  ~state[top].greater

Init ==
  /\ hsk_mod_q \in SecretKeys
  /\ operands \in [lhs : {c \in LeftOperands : Dimension(c) = Len(hsk_mod_q)},
                   rhs : {c \in RightOperands : Dimension(c) = Len(hsk_mod_q)}]
  /\ current = "lhs"
  /\ terms = 0
  /\ total = ZeroBits
  /\ plain = [operand \in {} |-> <<>>]
  /\ output = <<>>

(* One turn of DotProductWithSecret.                                       *)
AccumulateTerm ==
  /\ current \in {"lhs", "rhs"}
  /\ terms < Len(hsk_mod_q)
  /\ LET a == WordOf(operands[current].a[terms + 1])
     IN  total' = AddModulo(total,
                    SecretCoefficientTerm(a, hsk_mod_q[terms + 1]), FALSE)
  /\ terms' = terms + 1
  /\ UNCHANGED <<hsk_mod_q, operands, current, plain, output>>

(* The rest of BuildDecrypt; then the other operand, or the comparison.    *)
FinishDecrypt ==
  /\ current \in {"lhs", "rhs"}
  /\ terms = Len(hsk_mod_q)
  /\ plain' = [operand \in DOMAIN plain \cup {current} |->
                 IF operand = current
                 THEN MessageBits(operands[current].body, total)
                 ELSE plain[operand]]
  /\ current' = IF current = "lhs" THEN "rhs" ELSE "compare"
  /\ terms' = 0
  /\ total' = ZeroBits
  /\ UNCHANGED <<hsk_mod_q, operands, output>>

Compare ==
  /\ current = "compare"
  /\ output' = <<LessOrEqual(plain["lhs"], plain["rhs"])>>
  /\ current' = "done"
  /\ UNCHANGED <<hsk_mod_q, operands, terms, total, plain>>

Next == AccumulateTerm \/ FinishDecrypt \/ Compare

Spec == Init /\ [][Next]_circuitVars
-----------------------------------------------------------------------------
(* After every term the accumulated wires hold the pad of the coefficients *)
(* done, reduced modulo q: negation, selection and dropped carries never   *)
(* leave the residue of the reference.                                     *)
PadAccumulates ==
  current \in {"lhs", "rhs"} =>
    Value(total, ModulusBits) =
      Pad(operands[current], SubSeq(hsk_mod_q, 1, terms))

(* The message bits are OpenFHE's rounding of the phase, below q and       *)
(* around 0 alike.                                                         *)
DecryptsOperands ==
  \A operand \in DOMAIN plain :
    Value(plain[operand], PlaintextBits) = Decode(operands[operand], hsk_mod_q)

(* The one output bit is the predicate over the two plaintexts: what the   *)
(* pipeline takes a garbled evaluation to be.                              *)
PredicateOverPlaintexts ==
  output # <<>> =>
    (output[1] <=>
       Decode(operands["lhs"], hsk_mod_q) <= Decode(operands["rhs"], hsk_mod_q))
=============================================================================
