---------------------------- MODULE BitCircuits ----------------------------
(***************************************************************************)
(* What the gates that the circuit builders chain together compute on one  *)
(* bit position.  A wire is its value, a vector of wires is a function     *)
(* from 0 .. width - 1 to BOOLEAN, least significant bit at 0.             *)
(***************************************************************************)
EXTENDS Integers

Vectors(width) == [0 .. width - 1 -> BOOLEAN]

Bit(b) == IF b THEN 1 ELSE 0

(* The number a vector stands for: the reference the circuits are held to. *)
Value(bits, width) ==
  LET sum[k \in Nat] ==
        IF k = 0 THEN 0 ELSE sum[k - 1] + Bit(bits[k - 1]) * 2^(k - 1)
  IN  sum[width]

(* The bits that SetBits and ConstantBits put on the wires for a number.   *)
ConstantBits(width, value) ==
  [i \in 0 .. width - 1 |-> (value \div 2^i) % 2 = 1]

Xor(l, r) == l # r

(* (l XOR r) XOR (l AND r)                                                 *)
BuildOr(l, r) == Xor(Xor(l, r), l /\ r)

SumBit(l, r, carry) == Xor(Xor(l, r), carry)

(* Mutant: the propagated carry is lost.                                   *)
CarryBitGenerated(l, r, carry) == l /\ r

CarryBit(l, r, carry) == BuildOr(l /\ r, Xor(l, r) /\ carry)

(* Both gates of a selection must not be on at once for the XOR to join.   *)
Select(select, if_true, if_false) ==
  Xor(select /\ if_true, ~select /\ if_false)

(* The comparator from the most significant bit down: greater stays, and   *)
(* only an equal prefix lets a bit decide.                                 *)
GreaterHere(greater, prefix_equal, l, r) ==
  BuildOr(greater, prefix_equal /\ (l /\ ~r))

(* Mutant: an equal bit makes an unequal prefix equal again.               *)
EqualHereOnly(prefix_equal, l, r) == ~Xor(l, r)

EqualHere(prefix_equal, l, r) == prefix_equal /\ ~Xor(l, r)

(* The comparator from the least significant bit up: the last bit that     *)
(* differs decides.                                                        *)
GreaterUpTo(greater, x, bound) ==
  Xor(~bound /\ x, ~Xor(bound, x) /\ greater)
=============================================================================
