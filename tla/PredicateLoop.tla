---------------------------- MODULE PredicateLoop ----------------------------
(***************************************************************************)
(* What the encrypted loop promises, over plaintexts: `while x <= b: x++`  *)
(* reveals the predicate x <= b of every iteration and nothing else, and   *)
(* stops at the first FALSE.  There is no modulus here, hence no           *)
(* wraparound, no noise and no iteration guard: an implementation that can *)
(* wrap, mis-decode or hit its guard does not refine this specification.   *)
(***************************************************************************)
EXTENDS Integers, Sequences

CONSTANT Values       \* the plaintexts the two operands are drawn from

VARIABLES phase, x, bound, revealed

loopVars == <<phase, x, bound, revealed>>

Quiet ==
  /\ phase = "idle"
  /\ x = 0
  /\ bound = 0
  /\ revealed = <<>>

Init == Quiet

(* An evaluator starts on x = a and b.                                     *)
Begin ==
  /\ phase # "loop"
  /\ phase' = "loop"
  /\ x' \in Values
  /\ bound' \in Values
  /\ revealed' = <<>>

RevealTrue ==
  /\ phase = "loop"
  /\ x <= bound
  /\ revealed' = Append(revealed, TRUE)
  /\ x' = x + 1
  /\ UNCHANGED <<phase, bound>>

RevealFalse ==
  /\ phase = "loop"
  /\ x > bound
  /\ revealed' = Append(revealed, FALSE)
  /\ phase' = "done"
  /\ UNCHANGED <<x, bound>>

(* The evaluator is killed, or its result is left behind.                  *)
Leave == phase # "idle" /\ Quiet'

Next == Begin \/ RevealTrue \/ RevealFalse \/ Leave

Spec == Init /\ [][Next]_loopVars
=============================================================================
