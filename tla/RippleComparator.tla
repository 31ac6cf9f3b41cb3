-------------------------- MODULE RippleComparator --------------------------
(***************************************************************************)
(* The program's two comparator loops, one bit position per step.  The     *)
(* decrypt-compare circuit walks from the most significant bit down        *)
(* (BuildLessOrEqual); the controlled-reveal circuit, its homomorphic twin *)
(* and FHECompare walk from the least significant bit up.                  *)
(***************************************************************************)
EXTENDS RippleOperands

VARIABLES
  order,              \* "msb" first or "lsb" first
  offset,             \* positions done
  greater,            \* x > bound on the positions done
  prefix_equal,       \* msb: x = bound on the positions done
  predicate,          \* <<>>, then <<x <= bound>>
  x_value, bound_value, x_weight
                      \* history: the numbers in the positions done, 2^offset

comparatorVars ==
  <<order, lhs, rhs, offset, greater, prefix_equal, predicate,
    x_value, bound_value, x_weight>>

ComparatorInit ==
  /\ order \in {"msb", "lsb"}
  /\ lhs \in Vectors(Width)
  /\ rhs \in Vectors(Width)
  /\ offset = 0
  /\ greater = FALSE
  /\ prefix_equal = TRUE
  /\ predicate = <<>>
  /\ x_value = 0 /\ bound_value = 0 /\ x_weight = 1

(* Mutant: the bits are walked from the wrong end.                         *)
MsbPositionUp(off) == off

MsbPosition(off) == Width - 1 - off

MsbBit ==
  /\ order = "msb" /\ offset < Width
  /\ LET l == lhs[MsbPosition(offset)]
         r == rhs[MsbPosition(offset)]
     IN  /\ greater' = GreaterHere(greater, prefix_equal, l, r)
         /\ prefix_equal' = EqualHere(prefix_equal, l, r)
         /\ x_value' = 2 * x_value + Bit(l)
         /\ bound_value' = 2 * bound_value + Bit(r)
  /\ offset' = offset + 1
  /\ x_weight' = 2 * x_weight
  /\ UNCHANGED <<order, lhs, rhs, predicate>>

LsbHistory ==
  /\ x_value' = x_value + Bit(lhs[offset]) * x_weight
  /\ bound_value' = bound_value + Bit(rhs[offset]) * x_weight
  /\ x_weight' = 2 * x_weight
  /\ offset' = offset + 1
  /\ UNCHANGED <<order, lhs, rhs, prefix_equal, predicate>>

LsbFirstBit ==
  /\ order = "lsb" /\ offset = 0
  /\ greater' = (~rhs[0] /\ lhs[0])
  /\ LsbHistory

LsbNextBit ==
  /\ order = "lsb" /\ offset \in 1 .. Width - 1
  /\ greater' = GreaterUpTo(greater, lhs[offset], rhs[offset])
  /\ LsbHistory

Conclude ==
  /\ offset = Width
  /\ predicate = <<>>
  /\ predicate' = <<~greater>>
  /\ UNCHANGED <<order, lhs, rhs, offset, greater, prefix_equal,
                 x_value, bound_value, x_weight>>

ComparatorNext == MsbBit \/ LsbFirstBit \/ LsbNextBit \/ Conclude

ComparatorSpec == ComparatorInit /\ [][ComparatorNext]_comparatorVars
-----------------------------------------------------------------------------
ComparatorTypeOK ==
  /\ order \in {"msb", "lsb"}
  /\ lhs \in Vectors(Width) /\ rhs \in Vectors(Width)
  /\ offset \in 0 .. Width
  /\ greater \in BOOLEAN /\ prefix_equal \in BOOLEAN
  /\ predicate \in {<<>>, <<TRUE>>, <<FALSE>>}
  /\ x_value \in Nat /\ bound_value \in Nat
  /\ x_weight \in Nat \ {0}

(* The loop invariant of both orders: greater and prefix_equal order the   *)
(* numbers on the positions done.                                          *)
PrefixOrdered ==
  /\ x_value < x_weight /\ bound_value < x_weight
  /\ greater <=> x_value > bound_value
  /\ order = "msb" => (prefix_equal <=> x_value = bound_value)

(* The revealed bit is x <= bound, from either end.                        *)
PredicateIsLessOrEqual ==
  predicate # <<>> => (predicate[1] <=> x_value <= bound_value)

(* The same for the operands' full vectors.                                *)
PredicateOfOperands ==
  predicate # <<>> =>
    (predicate[1] <=> Value(lhs, Width) <= Value(rhs, Width))
=============================================================================
