------------------------ MODULE ControlledRevealLoop ------------------------
(***************************************************************************)
(* The older loops over integers that are encrypted bit by bit: demo_loop, *)
(* which reveals [x <= b] for two ciphertexts, and fixed_runtime_demo,     *)
(* whose circuit has the bound compiled in.  Both add one' until the       *)
(* predicate is FALSE.  They have neither setup's check of the bound nor   *)
(* an iteration guard, and the sum drops its last carry.                   *)
(*                                                                         *)
(* A ciphertext of one bit is the bit.  (The mock's ciphertext is one; an  *)
(* OpenFHE gate bootstraps, so no noise builds up in this loop.)           *)
(***************************************************************************)
EXTENDS BitCircuits, Sequences

CONSTANTS
  Width,            \* bits per integer: 4 in both programs
  Starts, Bounds    \* the endpoints: 3 and 7 in both programs

ASSUME LoopAssumption ==
  /\ Width \in Nat \ {0}
  /\ Starts \cup Bounds \subseteq 0 .. 2^Width - 1

VARIABLES
  predicate_gc,     \* "garbled", "garbled fixed" or "direct"
  state, bound,     \* the bits of x and of b
  iterations,
  revealed,         \* history: the predicates shown
  phase             \* "loop" or "done"

revealVars == <<predicate_gc, state, bound, iterations, revealed, phase>>

(* Bound: the counters of a loop that does not end.                        *)
MaxRevealed == 2^Width + 1

-----------------------------------------------------------------------------

(* Mutant: the carry stops at the first bit.                               *)
AddOneBit(lhs, rhs) ==
  [k \in 0 .. Width - 1 |->
     IF k = 1 THEN Xor(Xor(lhs[1], rhs[1]), lhs[0] /\ rhs[0])
     ELSE Xor(lhs[k], rhs[k])]

(* Add: the carry out of the last bit is dropped.                          *)
Add(lhs, rhs) ==
  LET carry[k \in 1 .. Width] ==
        IF k = 1 THEN lhs[0] /\ rhs[0]
        ELSE Xor(lhs[k - 1] /\ rhs[k - 1],
                 Xor(lhs[k - 1], rhs[k - 1]) /\ carry[k - 1])
  IN  [k \in 0 .. Width - 1 |->
         IF k = 0 THEN Xor(lhs[0], rhs[0])
         ELSE Xor(Xor(lhs[k], rhs[k]), carry[k])]

(* Mutant: the comparison starts from "greater" and makes x < b of x <= b. *)
PredicateMessageStrict(x, b) ==
  LET greater[k \in 0 .. Width - 1] ==
        IF k = 0 THEN ~b[0] \/ x[0]
        ELSE GreaterUpTo(greater[k - 1], x[k], b[k])
  IN  ~greater[Width - 1]

(* EvalLessOrEqualPredicate, and its circuit BuildLessOrEqualComparator.   *)
PredicateMessage(x, b) ==
  LET greater[k \in 0 .. Width - 1] ==
        IF k = 0 THEN ~b[0] /\ x[0]
        ELSE GreaterUpTo(greater[k - 1], x[k], b[k])
  IN  ~greater[Width - 1]

(* BuildDemoPredicateDecrypt: q = 16, p = 4, the demo key on the demo mask.*)
DecryptPad ==
  LET hsk  == <<1, 0, 1, 1>>
      mask == <<3, 5, 6, 1>>
  IN  (hsk[1] * mask[1] + hsk[2] * mask[2] + hsk[3] * mask[3]
         + hsk[4] * mask[4]) % 16

(* Mutant: the message is not scaled by q / p.                             *)
EncodedMessageUnscaled(msg) == Bit(msg)

(* The message goes on wire 2.                                             *)
EncodedMessage(msg) == 4 * Bit(msg)

DemoPredicateDecrypt(msg) ==
  LET ct_body == (EncodedMessage(msg) + DecryptPad) % 16
      phase_value == (ct_body + 16 - DecryptPad) % 16
      rounded_phase == (phase_value + 2) % 16
  IN  (rounded_phase \div 4) % 2 = 1

(* The garbled evaluators run the circuit with the embedded decryption,    *)
(* the direct one decrypts the predicate's ciphertext.                     *)
Evaluate(x, b) ==
  IF predicate_gc = "direct" THEN PredicateMessage(x, b)
  ELSE DemoPredicateDecrypt(PredicateMessage(x, b))

-----------------------------------------------------------------------------

RevealInit ==
  /\ predicate_gc \in {"garbled", "garbled fixed", "direct"}
  /\ \E a \in Starts : state = ConstantBits(Width, a)
  /\ \E b \in Bounds : bound = ConstantBits(Width, b)
  /\ iterations = 0
  /\ revealed = <<>>
  /\ phase = "loop"

Push(predicate) ==
  revealed' = IF Len(revealed) < MaxRevealed THEN Append(revealed, predicate)
              ELSE revealed

RevealTrue ==
  /\ phase = "loop"
  /\ Evaluate(state, bound)
  /\ Push(TRUE)
  /\ iterations' = IF iterations < MaxRevealed THEN iterations + 1
                   ELSE iterations
  /\ state' = Add(state, ConstantBits(Width, 1))
  /\ UNCHANGED <<predicate_gc, bound, phase>>

RevealFalse ==
  /\ phase = "loop"
  /\ ~Evaluate(state, bound)
  /\ Push(FALSE)
  /\ phase' = "done"
  /\ UNCHANGED <<predicate_gc, state, bound, iterations>>

RevealNext == RevealTrue \/ RevealFalse

-----------------------------------------------------------------------------

NumberOf(bits) == Value(bits, Width)

Top == 2^Width - 1

BelowTop == {bits \in Vectors(Width) : NumberOf(bits) < Top}

(* Below the top value the sum reaches b + 1, and the loop ends.           *)
EndsBelowTop == (bound \in BelowTop) ~> (phase = "done")

(* With the top value as its bound the loop never ends: every integer of   *)
(* the width is at most b, the sum wraps around to 0, and there is nothing *)
(* like the v2 setup's wraparound check in front of it.                    *)
TopBoundNeverEnds == phase = "done" => NumberOf(bound) < Top

(* A loop that can end is the plaintext loop, predicate for predicate: a   *)
(* wrapped sum, a lost carry or a message decrypted wrong would show.      *)
CanEnd == NumberOf(bound) < Top

PlainPhase == IF CanEnd THEN phase ELSE "idle"
PlainX == IF CanEnd THEN NumberOf(state) ELSE 0
PlainBound == IF CanEnd THEN NumberOf(bound) ELSE 0
PlainRevealed == IF CanEnd THEN revealed ELSE <<>>

PlainLoop == INSTANCE PredicateLoop WITH
  Values <- 0 .. Top, phase <- PlainPhase, x <- PlainX, bound <- PlainBound,
  revealed <- PlainRevealed

StepsOfPlainLoop == [][PlainLoop!Next]_(PlainLoop!loopVars)
=============================================================================
