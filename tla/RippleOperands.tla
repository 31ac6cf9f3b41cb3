--------------------------- MODULE RippleOperands ---------------------------
(***************************************************************************)
(* The two bit vectors that the adder and the comparator loops walk over.  *)
(***************************************************************************)
EXTENDS BitCircuits

CONSTANT Width        \* bits per operand

ASSUME WidthAssumption == Width \in Nat \ {0}

VARIABLES lhs, rhs    \* the operands, all bits
=============================================================================
