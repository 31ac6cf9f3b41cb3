---------------------------- MODULE RippleAdder ----------------------------
(***************************************************************************)
(* The four ripple-carry loops of the program, one bit position per step:  *)
(* AddModulo and SubtractModulo, which the decrypt-compare circuit chains  *)
(* into a decryption modulo q = 2^Width, and the homomorphic Add and       *)
(* Increment of the bit-sliced loop.  All drop the last carry.             *)
(***************************************************************************)
EXTENDS RippleOperands

VARIABLES
  op,                 \* which of the four loops
  i,                  \* the next bit position
  carry,              \* the carry into position i
  sum,                \* the bits 0 .. i - 1 of the result
  l_value, r_value, s_value, weight
                      \* history: the numbers in bits 0 .. i - 1, and 2^i

adderVars ==
  <<op, lhs, rhs, i, carry, sum, l_value, r_value, s_value, weight>>

Operations == {"AddModulo", "SubtractModulo", "Add", "Increment"}

(* What the carry into position 0 is worth.  Subtraction adds the inverted *)
(* operand and one; Increment starts with the carry x[0].                  *)
CarryIn(operation) == operation \in {"SubtractModulo", "Increment"}

AdderInit ==
  /\ op \in Operations
  /\ lhs \in Vectors(Width)
  /\ rhs \in Vectors(Width)
  /\ i = 0
  /\ carry = CarryIn(op)
  /\ sum = [j \in {} |-> FALSE]
  /\ l_value = 0 /\ r_value = 0 /\ s_value = 0 /\ weight = 1

(* A result bit is appended, and the next position has twice the weight.   *)
Emit(s) ==
  /\ sum' = [j \in 0 .. i |-> IF j = i THEN s ELSE sum[j]]
  /\ s_value' = s_value + Bit(s) * weight
  /\ l_value' = l_value + Bit(lhs[i]) * weight
  /\ r_value' = r_value + Bit(rhs[i]) * weight
  /\ weight' = 2 * weight
  /\ i' = i + 1
  /\ UNCHANGED <<op, lhs, rhs>>

(* AddModulo, and SubtractModulo through it.                               *)
AddModuloBit ==
  /\ i < Width
  /\ op \in {"AddModulo", "SubtractModulo"}
  /\ LET r == IF op = "SubtractModulo" THEN ~rhs[i] ELSE rhs[i]
     IN  /\ Emit(SumBit(lhs[i], r, carry))
         /\ carry' = CarryBit(lhs[i], r, carry)

(* FHEArithmetic::Add has no carry into its first bit, and joins the two   *)
(* carries with an XOR.                                                    *)
AddFirstBit ==
  /\ i < Width /\ i = 0 /\ op = "Add"
  /\ Emit(Xor(lhs[i], rhs[i]))
  /\ carry' = (lhs[i] /\ rhs[i])

AddNextBit ==
  /\ i < Width /\ i > 0 /\ op = "Add"
  /\ LET xor_bits == Xor(lhs[i], rhs[i])
     IN  /\ Emit(Xor(xor_bits, carry))
         /\ carry' = Xor(lhs[i] /\ rhs[i], xor_bits /\ carry)

IncrementFirstBit ==
  /\ i < Width /\ i = 0 /\ op = "Increment"
  /\ Emit(~lhs[i])
  /\ carry' = lhs[i]

(* Mutant: the carry of the first bit is kept for all bits.                *)
IncrementNextBitStuck ==
  /\ i < Width /\ i > 0 /\ op = "Increment"
  /\ Emit(Xor(lhs[i], carry))
  /\ carry' = carry

IncrementNextBit ==
  /\ i < Width /\ i > 0 /\ op = "Increment"
  /\ Emit(Xor(lhs[i], carry))
  /\ carry' = (lhs[i] /\ carry)

AdderNext ==
  \/ AddModuloBit \/ AddFirstBit \/ AddNextBit
  \/ IncrementFirstBit \/ IncrementNextBit

AdderSpec == AdderInit /\ [][AdderNext]_adderVars
-----------------------------------------------------------------------------
AdderTypeOK ==
  /\ op \in Operations
  /\ lhs \in Vectors(Width) /\ rhs \in Vectors(Width)
  /\ i \in 0 .. Width
  /\ carry \in BOOLEAN
  /\ sum \in [0 .. i - 1 -> BOOLEAN]
  /\ l_value \in Nat /\ r_value \in Nat /\ s_value \in Nat
  /\ weight \in Nat \ {0}

(* The number that the result stands for, before it is reduced.            *)
Exact(l, r) ==
  IF op = "SubtractModulo" THEN l - r
  ELSE IF op = "Increment" THEN l + 1
  ELSE l + r

(* The loop invariant: no carry is lost or counted twice on the way up.    *)
NothingLost ==
  /\ l_value < weight /\ r_value < weight /\ s_value < weight
  /\ Exact(l_value, r_value) =
       s_value + weight * (IF op = "SubtractModulo"
                           THEN Bit(carry) - 1 ELSE Bit(carry))

(* After every bit the result is the exact one modulo 2^i: in particular a *)
(* difference below zero and a sum beyond the width wrap around.           *)
SumIsModular == s_value = Exact(l_value, r_value) % weight

(* The same for the operands' full vectors at the end of the loop.         *)
ResultIsModular ==
  i = Width =>
    Value(sum, Width) =
      Exact(Value(lhs, Width), Value(rhs, Width)) % 2^Width
=============================================================================
