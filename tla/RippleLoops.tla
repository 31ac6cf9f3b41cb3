---------------------------- MODULE RippleLoops ----------------------------
(***************************************************************************)
(* The ripple loops over all operands: one of the adders first, then one   *)
(* of the comparators over the same operands.                              *)
(***************************************************************************)
EXTENDS RippleAdder, RippleComparator

LoopsInit == AdderInit /\ ComparatorInit

LoopsNext ==
  \/ /\ AdderNext
     /\ UNCHANGED <<order, offset, greater, prefix_equal, predicate,
                    x_value, bound_value, x_weight>>
  \/ /\ i = Width
     /\ ComparatorNext
     /\ UNCHANGED <<op, i, carry, sum, l_value, r_value, s_value, weight>>

LoopsSpec == LoopsInit /\ [][LoopsNext]_<<adderVars, comparatorVars>>
=============================================================================
