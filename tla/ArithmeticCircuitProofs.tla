---------------------- MODULE ArithmeticCircuitProofs ----------------------
(***************************************************************************)
(* The arithmetic of the circuits is right for all parameters.  The ripple *)
(* loops, for every width: no carry is lost, the result is the exact one   *)
(* modulo 2^Width, and the comparators order the operands.  The            *)
(* decrypt-compare circuit, for every power-of-two modulus, dimension,     *)
(* ternary key and ciphertext: its output is the predicate over the        *)
(* plaintexts.                                                             *)
(***************************************************************************)
EXTENDS RippleLoops, DecryptCompareCircuit, BitArithmetic, SequenceTheorems

(* What one position puts into the sum besides the carry.                  *)
Contribution(l, r) ==
  IF op = "SubtractModulo" THEN Bit(l) + 1 - Bit(r)
  ELSE IF op = "Increment" THEN Bit(l)
  ELSE Bit(l) + Bit(r)

AdderInv ==
  /\ AdderTypeOK
  /\ i = 0 => carry = CarryIn(op)
  /\ NothingLost

(* A step that neither loses nor invents a carry preserves the invariant.  *)
LEMMA EmitPreserves ==
  ASSUME AdderInv, i < Width, NEW s \in BOOLEAN, NEW k \in BOOLEAN,
         Emit(s), carry' = k,
         Contribution(lhs[i], rhs[i]) + Bit(carry) = Bit(s) + 2 * Bit(k)
  PROVE  AdderInv'
<1> DEFINE A == Bit(lhs[i])
           R == Bit(rhs[i])
           C == Bit(carry)
           S == Bit(s)
           K == Bit(k)
           w == weight
<1>1. A \in {0, 1} /\ R \in {0, 1} /\ C \in {0, 1} /\ S \in {0, 1}
      /\ K \in {0, 1}
  BY BitIsNumber
<1>2. /\ l_value \in Nat /\ r_value \in Nat /\ s_value \in Nat
      /\ w \in Nat \ {0} /\ i \in 0 .. Width /\ op \in Operations
      /\ l_value < w /\ r_value < w /\ s_value < w
  BY DEF AdderInv, AdderTypeOK, NothingLost
<1>3. /\ op' = op /\ i' = i + 1 /\ weight' = 2 * w
      /\ l_value' = l_value + A * w /\ r_value' = r_value + R * w
      /\ s_value' = s_value + S * w
      /\ lhs' = lhs /\ rhs' = rhs
  BY DEF Emit
<1>4. Exact(l_value, r_value)
        = s_value + w * (IF op = "SubtractModulo" THEN C - 1 ELSE C)
  BY DEF AdderInv, NothingLost
<1>5. Contribution(lhs[i], rhs[i]) =
        IF op = "SubtractModulo" THEN A + 1 - R
        ELSE IF op = "Increment" THEN A ELSE A + R
  BY DEF Contribution
<1>6. Bit(carry') = K
  OBVIOUS
<1>7. sum' \in [0 .. i' - 1 -> BOOLEAN]
  <2>1. sum \in [0 .. i - 1 -> BOOLEAN]
    BY DEF AdderInv, AdderTypeOK
  <2>2. 0 .. i' - 1 = 0 .. i
    BY <1>2, <1>3
  <2>3. \A j \in 0 .. i : (IF j = i THEN s ELSE sum[j]) \in BOOLEAN
    <3> TAKE j \in 0 .. i
    <3>1. CASE j = i
      BY <3>1
    <3>2. CASE j # i
      <4>1. j \in 0 .. i - 1
        BY <3>2, <1>2
      <4>2. sum[j] \in BOOLEAN
        BY <2>1, <4>1, Zenon
      <4> QED BY <3>2, <4>2, Zenon
    <3> QED BY <3>1, <3>2
  <2>4. sum' = [j \in 0 .. i |-> IF j = i THEN s ELSE sum[j]]
    BY DEF Emit
  <2> QED BY <2>2, <2>3, <2>4, Zenon
<1> HIDE DEF A, R, C, S, K, w
<1>8. /\ l_value' \in Nat /\ r_value' \in Nat /\ s_value' \in Nat
      /\ weight' \in Nat \ {0}
      /\ l_value' < weight' /\ r_value' < weight' /\ s_value' < weight'
  <2>1. \A b \in {0, 1} : b * w \in Nat /\ b * w <= w
    BY <1>2
  <2>2. A * w \in Nat /\ A * w <= w /\ R * w \in Nat /\ R * w <= w
        /\ S * w \in Nat /\ S * w <= w
    BY <1>1, <2>1
  <2> QED BY <1>2, <1>3, <2>2
<1>9. Exact(l_value, r_value)' =
        s_value' + weight' * (IF op = "SubtractModulo" THEN K - 1 ELSE K)
  <2>0. A * w \in Nat /\ R * w \in Nat
    BY <1>1, <1>2
  <2>1. CASE op = "SubtractModulo"
    <3>1. l_value - r_value = s_value + w * (C - 1)
      BY <1>4, <2>1 DEF Exact
    <3>2. (A + 1 - R) + C = S + 2 * K
      BY <1>5, <2>1 DEF C, S, K
    <3>3. (l_value + A * w) - (r_value + R * w)
            = (s_value + S * w) + (2 * w) * (K - 1)
      BY <1>1, <1>2, <3>1, <3>2, SMTT(30)
    <3> QED BY <1>3, <2>1, <3>3 DEF Exact
  <2>2. CASE op = "Increment"
    <3>1. l_value + 1 = s_value + w * C
      BY <1>4, <2>2 DEF Exact
    <3>2. A + C = S + 2 * K
      BY <1>5, <2>2 DEF C, S, K
    <3>3. (l_value + A * w) + 1 = (s_value + S * w) + (2 * w) * K
      BY <1>1, <1>2, <3>1, <3>2, SMTT(30)
    <3> QED BY <1>3, <2>2, <3>3 DEF Exact
  <2>3. CASE op \notin {"SubtractModulo", "Increment"}
    <3>1. l_value + r_value = s_value + w * C
      BY <1>4, <2>3 DEF Exact
    <3>2. (A + R) + C = S + 2 * K
      BY <1>5, <2>3 DEF C, S, K
    <3>3. (l_value + A * w) + (r_value + R * w)
            = (s_value + S * w) + (2 * w) * K
      BY <1>1, <1>2, <3>1, <3>2, SMTT(30)
    <3> QED BY <1>3, <2>3, <3>3 DEF Exact
  <2> QED BY <2>1, <2>2, <2>3
<1>10. AdderTypeOK'
  <2>1. /\ op \in Operations /\ lhs \in Vectors(Width)
        /\ rhs \in Vectors(Width) /\ Width \in Nat
    BY WidthAssumption DEF AdderInv, AdderTypeOK
  <2>2. i' \in 0 .. Width
    BY <1>2, <1>3, <2>1
  <2>3. carry' \in BOOLEAN
    OBVIOUS
  <2> QED BY <1>3, <1>7, <1>8, <2>1, <2>2, <2>3 DEF AdderTypeOK
<1>11. NothingLost'
  BY <1>3, <1>6, <1>8, <1>9 DEF NothingLost
<1>12. i' # 0
  BY <1>2, <1>3
<1> QED BY <1>10, <1>11, <1>12 DEF AdderInv

(* The operand bits that a step reads.                                     *)
LEMMA OperandBits ==
  ASSUME AdderTypeOK, i < Width
  PROVE  lhs[i] \in BOOLEAN /\ rhs[i] \in BOOLEAN /\ carry \in BOOLEAN
<1>1. i \in 0 .. Width - 1
  BY WidthAssumption DEF AdderTypeOK
<1> QED BY <1>1 DEF AdderTypeOK, Vectors

(* The loops start in the invariant.                                       *)
LEMMA AdderStarts == AdderInit => AdderInv
<1> SUFFICES ASSUME AdderInit PROVE AdderInv
  OBVIOUS
<1>1. CarryIn(op) \in BOOLEAN
  BY DEF CarryIn
<1>2. sum \in [0 .. i - 1 -> BOOLEAN]
  <2>1. 0 .. i - 1 = {} /\ sum = [j \in {} |-> FALSE]
    BY DEF AdderInit
  <2>2. [j \in {} |-> FALSE] \in [{} -> BOOLEAN]
    OBVIOUS
  <2> QED BY <2>1, <2>2
<1>3. AdderTypeOK
  BY <1>1, <1>2, WidthAssumption DEF AdderInit, AdderTypeOK
<1>4. NothingLost
  <2>1. Exact(0, 0) = IF op = "Increment" THEN 1 ELSE 0
    BY DEF Exact
  <2>2. Bit(carry) = IF op \in {"SubtractModulo", "Increment"} THEN 1 ELSE 0
    BY DEF AdderInit, CarryIn, Bit
  <2> QED BY <2>1, <2>2 DEF AdderInit, NothingLost
<1> QED BY <1>3, <1>4 DEF AdderInv, AdderInit

(* Every loop preserves the invariant.                                     *)
LEMMA AdderStep == AdderInv /\ [AdderNext]_adderVars => AdderInv'
<1> SUFFICES ASSUME AdderInv, [AdderNext]_adderVars PROVE AdderInv'
  OBVIOUS
<1>0. AdderTypeOK /\ (i = 0 => carry = CarryIn(op))
  BY DEF AdderInv
<1>1. Bit(TRUE) = 1 /\ Bit(FALSE) = 0
  BY DEF Bit
<1>2. \A b \in BOOLEAN : Bit(~b) = 1 - Bit(b)
  BY DEF Bit
<1>3. CASE AddModuloBit
  <2> DEFINE r == IF op = "SubtractModulo" THEN ~rhs[i] ELSE rhs[i]
             s == SumBit(lhs[i], r, carry)
             k == CarryBit(lhs[i], r, carry)
  <2>1. /\ i < Width /\ op \in {"AddModulo", "SubtractModulo"}
        /\ Emit(s) /\ carry' = k
    BY <1>3 DEF AddModuloBit
  <2>2. lhs[i] \in BOOLEAN /\ rhs[i] \in BOOLEAN /\ carry \in BOOLEAN
    BY <1>0, <2>1, OperandBits
  <2>3. r \in BOOLEAN
    BY <2>2
  <2> HIDE DEF r
  <2>4. /\ s \in BOOLEAN /\ k \in BOOLEAN
        /\ Bit(lhs[i]) + Bit(r) + Bit(carry) = Bit(s) + 2 * Bit(k)
    BY <2>2, <2>3, FullAdder
  <2>5. Bit(r) = IF op = "SubtractModulo" THEN 1 - Bit(rhs[i]) ELSE Bit(rhs[i])
    BY <1>2, <2>2 DEF r
  <2> HIDE DEF s, k
  <2>6. Contribution(lhs[i], rhs[i]) + Bit(carry) = Bit(s) + 2 * Bit(k)
    <3>1. /\ Bit(lhs[i]) \in Int /\ Bit(rhs[i]) \in Int /\ Bit(carry) \in Int
      BY BitIsNumber
    <3>2. Contribution(lhs[i], rhs[i]) = Bit(lhs[i]) + Bit(r)
      BY <2>1, <2>5, <3>1 DEF Contribution
    <3> QED BY <2>4, <3>2
  <2> QED BY <2>1, <2>4, <2>6, EmitPreserves
<1>4. CASE AddFirstBit
  <2>1. /\ i < Width /\ i = 0 /\ op = "Add" /\ Emit(Xor(lhs[i], rhs[i]))
        /\ carry' = (lhs[i] /\ rhs[i])
    BY <1>4 DEF AddFirstBit
  <2>2. lhs[i] \in BOOLEAN /\ rhs[i] \in BOOLEAN
    BY <1>0, <2>1, OperandBits
  <2>3. carry = FALSE
    <3>1. op \notin {"SubtractModulo", "Increment"}
      BY <2>1
    <3>2. ~CarryIn(op)
      BY <3>1 DEF CarryIn
    <3>3. carry = CarryIn(op) /\ carry \in BOOLEAN
      BY <1>0, <2>1, OperandBits
    <3> QED BY <3>2, <3>3, Zenon
  <2>4. /\ Xor(lhs[i], rhs[i]) = SumBit(lhs[i], rhs[i], FALSE)
        /\ (lhs[i] /\ rhs[i]) = CarryBit(lhs[i], rhs[i], FALSE)
    BY <2>2, Zenon DEF SumBit, CarryBit, BuildOr, Xor
  <2>5. /\ SumBit(lhs[i], rhs[i], FALSE) \in BOOLEAN
        /\ CarryBit(lhs[i], rhs[i], FALSE) \in BOOLEAN
        /\ Bit(lhs[i]) + Bit(rhs[i]) + Bit(FALSE)
             = Bit(SumBit(lhs[i], rhs[i], FALSE))
                 + 2 * Bit(CarryBit(lhs[i], rhs[i], FALSE))
    BY <2>2, FullAdder
  <2>6. Contribution(lhs[i], rhs[i]) + Bit(carry)
          = Bit(SumBit(lhs[i], rhs[i], FALSE))
              + 2 * Bit(CarryBit(lhs[i], rhs[i], FALSE))
    BY <2>1, <2>3, <2>5 DEF Contribution
  <2>7. /\ Emit(SumBit(lhs[i], rhs[i], FALSE))
        /\ carry' = CarryBit(lhs[i], rhs[i], FALSE)
    BY <2>1, <2>4, Zenon
  <2> QED BY <2>1, <2>5, <2>6, <2>7, EmitPreserves
<1>5. CASE AddNextBit
  <2> DEFINE s == SumBit(lhs[i], rhs[i], carry)
             k == CarryBit(lhs[i], rhs[i], carry)
  <2>1. /\ i < Width /\ op = "Add"
        /\ Emit(Xor(Xor(lhs[i], rhs[i]), carry))
        /\ carry' = Xor(lhs[i] /\ rhs[i], Xor(lhs[i], rhs[i]) /\ carry)
    BY <1>5 DEF AddNextBit
  <2>2. lhs[i] \in BOOLEAN /\ rhs[i] \in BOOLEAN /\ carry \in BOOLEAN
    BY <1>0, <2>1, OperandBits
  <2>3. /\ Xor(Xor(lhs[i], rhs[i]), carry) = s
        /\ Xor(lhs[i] /\ rhs[i], Xor(lhs[i], rhs[i]) /\ carry) = k
    BY <2>2, Zenon DEF SumBit, CarryBit, BuildOr, Xor
  <2>4. /\ s \in BOOLEAN /\ k \in BOOLEAN
        /\ Bit(lhs[i]) + Bit(rhs[i]) + Bit(carry) = Bit(s) + 2 * Bit(k)
    BY <2>2, FullAdder
  <2> HIDE DEF s, k
  <2>5. Contribution(lhs[i], rhs[i]) + Bit(carry) = Bit(s) + 2 * Bit(k)
    BY <2>1, <2>4 DEF Contribution
  <2>6. Emit(s) /\ carry' = k
    BY <2>1, <2>3, Zenon
  <2> QED BY <2>1, <2>4, <2>5, <2>6, EmitPreserves
<1>6. CASE IncrementFirstBit
  <2>1. /\ i < Width /\ i = 0 /\ op = "Increment" /\ Emit(~lhs[i])
        /\ carry' = lhs[i]
    BY <1>6 DEF IncrementFirstBit
  <2>2. lhs[i] \in BOOLEAN /\ (~lhs[i]) \in BOOLEAN
    BY <1>0, <2>1, OperandBits
  <2>3. carry = TRUE
    BY <1>0, <2>1 DEF CarryIn
  <2>4. Bit(~lhs[i]) = 1 - Bit(lhs[i]) /\ Bit(lhs[i]) \in {0, 1}
        /\ Bit(carry) = 1
    BY <1>1, <1>2, <2>2, <2>3, BitIsNumber
  <2>5. Contribution(lhs[i], rhs[i]) = Bit(lhs[i])
    BY <2>1 DEF Contribution
  <2>6. Contribution(lhs[i], rhs[i]) + Bit(carry)
          = Bit(~lhs[i]) + 2 * Bit(lhs[i])
    BY <2>4, <2>5
  <2> QED BY <2>1, <2>2, <2>6, EmitPreserves
<1>7. CASE IncrementNextBit
  <2> DEFINE s == SumBit(lhs[i], FALSE, carry)
             k == CarryBit(lhs[i], FALSE, carry)
  <2>1. /\ i < Width /\ op = "Increment"
        /\ Emit(Xor(lhs[i], carry)) /\ carry' = (lhs[i] /\ carry)
    BY <1>7 DEF IncrementNextBit
  <2>2. lhs[i] \in BOOLEAN /\ carry \in BOOLEAN
    BY <1>0, <2>1, OperandBits
  <2>3. Xor(lhs[i], carry) = s /\ (lhs[i] /\ carry) = k
    BY <2>2, Zenon DEF SumBit, CarryBit, BuildOr, Xor
  <2>4. /\ s \in BOOLEAN /\ k \in BOOLEAN
        /\ Bit(lhs[i]) + Bit(FALSE) + Bit(carry) = Bit(s) + 2 * Bit(k)
    BY <2>2, FullAdder
  <2> HIDE DEF s, k
  <2>5. Bit(lhs[i]) \in Int /\ Bit(carry) \in Int
    BY BitIsNumber
  <2>6. Contribution(lhs[i], rhs[i]) + Bit(carry) = Bit(s) + 2 * Bit(k)
    <3>1. Contribution(lhs[i], rhs[i]) = Bit(lhs[i])
      BY <2>1 DEF Contribution
    <3>2. Bit(lhs[i]) + 0 + Bit(carry) = Bit(s) + 2 * Bit(k)
      BY <1>1, <2>4, Zenon
    <3> QED BY <2>5, <3>1, <3>2
  <2>7. Emit(s) /\ carry' = k
    BY <2>1, <2>3, Zenon
  <2> QED BY <2>1, <2>4, <2>6, <2>7, EmitPreserves
<1>8. CASE UNCHANGED adderVars
  BY <1>8 DEF adderVars, AdderInv, AdderTypeOK, NothingLost, Exact
<1> QED BY <1>3, <1>4, <1>5, <1>6, <1>7, <1>8 DEF AdderNext

(* AddModulo, SubtractModulo, Add and Increment lose no carry at any width. *)
THEOREM AdderLosesNothing == AdderSpec => []NothingLost
<1>1. AdderInv => NothingLost
  BY DEF AdderInv
<1> QED BY <1>1, AdderStarts, AdderStep, PTL DEF AdderSpec

(* What they produce is the exact result modulo 2^i, wrapping included.    *)
THEOREM AdderIsModular == AdderSpec => []SumIsModular
<1>1. AdderInv => SumIsModular
  <2> SUFFICES ASSUME AdderInv PROVE SumIsModular
    OBVIOUS
  <2> DEFINE c == IF op = "SubtractModulo" THEN Bit(carry) - 1 ELSE Bit(carry)
             e == Exact(l_value, r_value)
  <2>1. /\ s_value \in Nat /\ weight \in Nat \ {0} /\ s_value < weight
        /\ e = s_value + weight * c
    BY DEF AdderInv, AdderTypeOK, NothingLost
  <2>2. c \in Int
    <3>1. Bit(carry) \in Int
      BY BitIsNumber
    <3> QED BY <3>1
  <2> HIDE DEF c
  <2>3. e \in Int
    <3>1. weight * c \in Int
      BY <2>1, <2>2
    <3> QED BY <2>1, <3>1
  <2> HIDE DEF e
  <2>4. /\ e \div weight \in Int /\ e % weight \in 0 .. weight - 1
        /\ e = weight * (e \div weight) + (e % weight)
    BY <2>1, <2>3, DivMod
  <2>5. s_value \in 0 .. weight - 1
    BY <2>1
  <2>6. weight * c + s_value = weight * (e \div weight) + (e % weight)
    <3>1. weight * c \in Int
      BY <2>1, <2>2
    <3> QED BY <2>1, <2>4, <3>1
  <2>7. s_value = e % weight
    BY <2>1, <2>2, <2>4, <2>5, <2>6, RemainderUnique
  <2> QED BY <2>7 DEF SumIsModular, e
<1> QED BY <1>1, AdderStarts, AdderStep, PTL DEF AdderSpec

(* The histories are the numbers in the positions that are done.           *)
AdderHistory ==
  /\ weight = 2^i
  /\ l_value = Value(lhs, i) /\ r_value = Value(rhs, i)
  /\ s_value = Value(sum, i)

(* Emitting one more sum bit leaves the record of the earlier positions.   *)
LEMMA EmitKeepsHistory ==
  ASSUME AdderTypeOK, AdderHistory, NEW s, Emit(s)
  PROVE  AdderHistory'
<1>1. i \in Nat /\ i' = i + 1 /\ lhs' = lhs /\ rhs' = rhs
  BY WidthAssumption DEF AdderTypeOK, Emit
<1>2. weight' = 2^i'
  BY <1>1, PowerDoubles DEF AdderHistory, Emit
<1>3. l_value' = Value(lhs', i') /\ r_value' = Value(rhs', i')
  BY <1>1, ValueRecursion DEF AdderHistory, Emit
<1>4. s_value' = Value(sum', i')
  <2> DEFINE t == sum'
  <2>1. t = [j \in 0 .. i |-> IF j = i THEN s ELSE sum[j]]
    BY DEF Emit
  <2>2. \A j \in 0 .. i - 1 : t[j] = sum[j]
    BY <1>1, <2>1
  <2>3. t[i] = s
    BY <1>1, <2>1
  <2> HIDE DEF t
  <2>4. Value(t, i) = Value(sum, i)
    BY <1>1, <2>2, ValueSame
  <2>5. Value(t, i + 1) = Value(t, i) + Bit(s) * 2^i
    BY <1>1, <2>3, ValueRecursion
  <2>6. s_value' = s_value + Bit(s) * weight
    BY DEF Emit
  <2> QED BY <1>1, <2>4, <2>5, <2>6 DEF AdderHistory, t
<1> QED BY <1>2, <1>3, <1>4 DEF AdderHistory

(* Every step of the adder keeps the record of its positions.              *)
LEMMA HistoryStep ==
  AdderTypeOK /\ AdderHistory /\ [AdderNext]_adderVars => AdderHistory'
<1> SUFFICES ASSUME AdderTypeOK, AdderHistory, [AdderNext]_adderVars
             PROVE  AdderHistory'
  OBVIOUS
<1>1. CASE AdderNext
  <2>1. \E s : Emit(s)
    BY <1>1, Zenon DEF AdderNext, AddModuloBit, AddFirstBit, AddNextBit,
                       IncrementFirstBit, IncrementNextBit
  <2> QED BY <2>1, EmitKeepsHistory
<1>2. CASE UNCHANGED adderVars
  BY <1>2 DEF adderVars, AdderHistory
<1> QED BY <1>1, <1>2

(* The adder starts with an empty record.                                  *)
LEMMA HistoryStarts == AdderInit => AdderHistory
BY ValueRecursion, PowerOfZero DEF AdderInit, AdderHistory

(* Of the whole operands: AddModulo, SubtractModulo, Add and Increment     *)
(* yield their sum, difference or successor modulo 2^Width.                *)
THEOREM ResultOfAdder == AdderSpec => []ResultIsModular
<1>1. AdderHistory /\ SumIsModular => ResultIsModular
  BY DEF AdderHistory, SumIsModular, ResultIsModular
<1>2. AdderInv => AdderTypeOK
  BY DEF AdderInv
<1> QED BY <1>1, <1>2, AdderStarts, AdderStep, HistoryStarts, HistoryStep,
           AdderIsModular, PTL DEF AdderSpec


-----------------------------------------------------------------------------
ComparatorInv ==
  /\ ComparatorTypeOK
  /\ offset = 0 => x_value = 0 /\ bound_value = 0 /\ x_weight = 1
  /\ PrefixOrdered
  /\ PredicateIsLessOrEqual
  /\ predicate # <<>> => offset = Width

(* Both loops preserve the invariant.                                      *)
LEMMA ComparatorStep ==
  ComparatorInv /\ [ComparatorNext]_comparatorVars => ComparatorInv'
<1> SUFFICES ASSUME ComparatorInv, [ComparatorNext]_comparatorVars
             PROVE  ComparatorInv'
  OBVIOUS
<1>0. /\ order \in {"msb", "lsb"}
      /\ lhs \in Vectors(Width) /\ rhs \in Vectors(Width)
      /\ offset \in 0 .. Width
      /\ greater \in BOOLEAN /\ prefix_equal \in BOOLEAN
      /\ x_value \in Nat /\ bound_value \in Nat /\ x_weight \in Nat \ {0}
      /\ offset = 0 => x_value = 0 /\ bound_value = 0 /\ x_weight = 1
      /\ x_value < x_weight /\ bound_value < x_weight
      /\ greater <=> x_value > bound_value
      /\ order = "msb" => (prefix_equal <=> x_value = bound_value)
      /\ predicate # <<>> => offset = Width
      /\ predicate \in {<<>>, <<TRUE>>, <<FALSE>>}
      /\ Width \in Nat \ {0}
  BY WidthAssumption DEF ComparatorInv, ComparatorTypeOK, PrefixOrdered
<1>b. \A b \in BOOLEAN : Bit(b) \in {0, 1}
  BY DEF Bit
<1>1. CASE MsbBit
  <2> DEFINE l == lhs[MsbPosition(offset)]
             r == rhs[MsbPosition(offset)]
  <2>1. /\ order = "msb" /\ offset < Width /\ offset' = offset + 1
        /\ greater' = GreaterHere(greater, prefix_equal, l, r)
        /\ prefix_equal' = EqualHere(prefix_equal, l, r)
        /\ x_value' = 2 * x_value + Bit(l) /\ bound_value' = 2 * bound_value + Bit(r)
        /\ x_weight' = 2 * x_weight
        /\ order' = order /\ lhs' = lhs /\ rhs' = rhs /\ predicate' = predicate
    BY <1>1 DEF MsbBit
  <2>2. l \in BOOLEAN /\ r \in BOOLEAN
    <3>1. MsbPosition(offset) \in 0 .. Width - 1
      BY <1>0, <2>1 DEF MsbPosition
    <3> QED BY <1>0, <3>1 DEF Vectors
  <2>3. predicate = <<>>
    BY <1>0, <2>1
  <2> HIDE DEF l, r
  <2>4. /\ greater' \in BOOLEAN /\ prefix_equal' \in BOOLEAN
        /\ greater' <=> (greater \/ (prefix_equal /\ l /\ ~r))
        /\ prefix_equal' <=> (prefix_equal /\ (l <=> r))
    <3>1. greater \in BOOLEAN /\ prefix_equal \in BOOLEAN
      BY <1>0
    <3>2. /\ greater' \in BOOLEAN
          /\ greater' <=> (greater \/ (prefix_equal /\ l /\ ~r))
      BY <2>1, <2>2, <3>1 DEF GreaterHere, BuildOr, Xor
    <3>3. /\ prefix_equal' \in BOOLEAN
          /\ prefix_equal' <=> (prefix_equal /\ (l <=> r))
      BY <2>1, <2>2, <3>1 DEF EqualHere, Xor
    <3> QED BY <3>2, <3>3
  <2>5. /\ x_value' > bound_value'
             <=> (x_value > bound_value \/ (x_value = bound_value /\ l /\ ~r))
        /\ x_value' = bound_value' <=> (x_value = bound_value /\ (l <=> r))
    BY <1>0, <2>1, <2>2, MsbOrder
  <2>6. /\ x_value' \in Nat /\ bound_value' \in Nat /\ x_weight' \in Nat \ {0}
        /\ x_value' < x_weight' /\ bound_value' < x_weight'
        /\ offset' \in 0 .. Width /\ offset' # 0
    BY <1>0, <1>b, <2>1, <2>2
  <2>7. /\ greater' <=> x_value' > bound_value'
        /\ prefix_equal' <=> x_value' = bound_value'
    BY <1>0, <2>1, <2>4, <2>5, Zenon
  <2> QED BY <1>0, <2>1, <2>3, <2>4, <2>6, <2>7
          DEF ComparatorInv, ComparatorTypeOK, PrefixOrdered, PredicateIsLessOrEqual
<1>2. CASE LsbFirstBit \/ LsbNextBit
  <2> DEFINE l == lhs[offset]
             r == rhs[offset]
  <2>1. /\ order = "lsb" /\ offset < Width /\ LsbHistory
    BY <1>0, <1>2 DEF LsbFirstBit, LsbNextBit
  <2>2. /\ offset' = offset + 1 /\ x_weight' = 2 * x_weight
        /\ x_value' = x_value + Bit(l) * x_weight
        /\ bound_value' = bound_value + Bit(r) * x_weight
        /\ order' = order /\ lhs' = lhs /\ rhs' = rhs /\ predicate' = predicate
        /\ prefix_equal' = prefix_equal
    BY <2>1 DEF LsbHistory
  <2>3. l \in BOOLEAN /\ r \in BOOLEAN
    <3>1. offset \in 0 .. Width - 1
      BY <1>0, <2>1
    <3> QED BY <1>0, <3>1 DEF Vectors
  <2>4. predicate = <<>>
    BY <1>0, <2>1
  <2>5. /\ greater' \in BOOLEAN
        /\ greater' <=> ((l /\ ~r) \/ ((l <=> r) /\ greater))
    <3>1. CASE LsbFirstBit
      <4>1. offset = 0 /\ greater' = (~rhs[0] /\ lhs[0])
        BY <3>1 DEF LsbFirstBit
      <4>2. ~greater
        BY <1>0, <4>1
      <4>3. greater' = (~r /\ l)
        BY <4>1
      <4> HIDE DEF l, r
      <4> QED BY <2>3, <4>2, <4>3, Zenon
    <3>2. CASE LsbNextBit
      <4>1. greater' = GreaterUpTo(greater, l, r)
        BY <3>2 DEF LsbNextBit
      <4> HIDE DEF l, r
      <4> QED BY <1>0, <2>3, <4>1, ComparatorGates
    <3> QED BY <1>2, <3>1, <3>2
  <2> HIDE DEF l, r
  <2>6. /\ x_value' > bound_value'
             <=> ((l /\ ~r) \/ ((l <=> r) /\ x_value > bound_value))
        /\ x_value' \in Nat /\ x_value' < x_weight'
        /\ bound_value' \in Nat /\ bound_value' < x_weight'
    <3>1. /\ (x_value + Bit(l) * x_weight > bound_value + Bit(r) * x_weight)
               <=> ((l /\ ~r) \/ ((l <=> r) /\ x_value > bound_value))
          /\ x_value + Bit(l) * x_weight \in Nat
          /\ x_value + Bit(l) * x_weight < 2 * x_weight
          /\ bound_value + Bit(r) * x_weight \in Nat
          /\ bound_value + Bit(r) * x_weight < 2 * x_weight
      <4>1. /\ x_value \in Nat /\ bound_value \in Nat /\ x_weight \in Nat
            /\ x_value < x_weight /\ bound_value < x_weight
        BY <1>0
      <4> QED BY <2>3, <4>1, LsbOrder
    <3> QED BY <2>2, <3>1, Zenon
  <2>7. greater' <=> x_value' > bound_value'
    BY <1>0, <2>5, <2>6, Zenon
  <2>8. x_weight' \in Nat \ {0} /\ offset' \in 0 .. Width /\ offset' # 0
    BY <1>0, <2>1, <2>2
  <2> QED BY <1>0, <2>1, <2>2, <2>4, <2>5, <2>6, <2>7, <2>8
          DEF ComparatorInv, ComparatorTypeOK, PrefixOrdered, PredicateIsLessOrEqual
<1>3. CASE Conclude
  <2>1. /\ offset = Width /\ predicate' = <<~greater>>
        /\ UNCHANGED <<order, lhs, rhs, offset, greater, prefix_equal,
                       x_value, bound_value, x_weight>>
    BY <1>3 DEF Conclude
  <2>2. predicate' \in {<<TRUE>>, <<FALSE>>}
    BY <1>0, <2>1
  <2>3. predicate'[1] <=> x_value <= bound_value
    <3>1. predicate'[1] = ~greater
      BY <2>1
    <3>2. x_value <= bound_value <=> ~(x_value > bound_value)
      BY <1>0
    <3> QED BY <1>0, <3>1, <3>2, Zenon
  <2> QED BY <1>0, <2>1, <2>2, <2>3
          DEF ComparatorInv, ComparatorTypeOK, PrefixOrdered, PredicateIsLessOrEqual
<1>4. CASE UNCHANGED comparatorVars
  BY <1>4 DEF comparatorVars, ComparatorInv, ComparatorTypeOK, PrefixOrdered,
              PredicateIsLessOrEqual
<1> QED BY <1>1, <1>2, <1>3, <1>4 DEF ComparatorNext

(* The loops start in the invariant.                                       *)
LEMMA ComparatorStarts == ComparatorInit => ComparatorInv
<1> SUFFICES ASSUME ComparatorInit PROVE ComparatorInv
  OBVIOUS
<1>1. ComparatorTypeOK
  <2>1. /\ order \in {"msb", "lsb"} /\ lhs \in Vectors(Width)
        /\ rhs \in Vectors(Width) /\ offset \in 0 .. Width
    BY WidthAssumption DEF ComparatorInit
  <2>2. greater \in BOOLEAN /\ prefix_equal \in BOOLEAN
    BY DEF ComparatorInit
  <2>3. predicate \in {<<>>, <<TRUE>>, <<FALSE>>}
    BY Zenon DEF ComparatorInit
  <2>4. x_value \in Nat /\ bound_value \in Nat /\ x_weight \in Nat \ {0}
    BY DEF ComparatorInit
  <2> QED BY <2>1, <2>2, <2>3, <2>4 DEF ComparatorTypeOK
<1>2. PrefixOrdered
  <2>1. /\ x_value = 0 /\ bound_value = 0 /\ x_weight = 1
        /\ ~greater /\ prefix_equal
    BY DEF ComparatorInit
  <2> QED BY <2>1 DEF PrefixOrdered
<1>3. predicate = <<>> /\ x_value = 0 /\ bound_value = 0 /\ x_weight = 1
  BY DEF ComparatorInit
<1> QED BY <1>1, <1>2, <1>3 DEF ComparatorInv, PredicateIsLessOrEqual

(* greater and prefix_equal order the positions done, from either end.     *)
THEOREM PrefixIsOrdered == ComparatorSpec => []PrefixOrdered
<1>1. ComparatorInv => PrefixOrdered
  BY DEF ComparatorInv
<1> QED BY <1>1, ComparatorStarts, ComparatorStep, PTL DEF ComparatorSpec

(* The bit that the comparator yields is x <= bound, at any width.         *)
THEOREM ComparatorIsLessOrEqual == ComparatorSpec => []PredicateIsLessOrEqual
<1>1. ComparatorInv => PredicateIsLessOrEqual
  BY DEF ComparatorInv
<1> QED BY <1>1, ComparatorStarts, ComparatorStep, PTL DEF ComparatorSpec

(* The histories of the comparators: from the least significant bit up     *)
(* they are the numbers in the positions done, from the most significant   *)
(* bit down they are what the operands are without the bits still to come. *)
ComparatorHistory ==
  /\ order = "lsb" =>
       /\ x_weight = 2^offset
       /\ x_value = Value(lhs, offset) /\ bound_value = Value(rhs, offset)
  /\ order = "msb" =>
       LET left == Width - offset
       IN  /\ Value(lhs, Width) = x_value * 2^left + Value(lhs, left)
           /\ Value(rhs, Width) = bound_value * 2^left + Value(rhs, left)

(* Every step of the comparator keeps the record of its prefixes.          *)
LEMMA ComparatorHistoryStep ==
  /\ ComparatorTypeOK /\ ComparatorHistory /\ [ComparatorNext]_comparatorVars
  => ComparatorHistory'
<1> SUFFICES ASSUME ComparatorTypeOK, ComparatorHistory,
                    [ComparatorNext]_comparatorVars
             PROVE  ComparatorHistory'
  OBVIOUS
<1>0. offset \in 0 .. Width /\ Width \in Nat /\ x_value \in Nat
      /\ bound_value \in Nat
  BY WidthAssumption DEF ComparatorTypeOK
<1>1. CASE MsbBit
  <2> DEFINE p == MsbPosition(offset)
  <2>1. /\ order = "msb" /\ offset < Width /\ offset' = offset + 1
        /\ x_value' = 2 * x_value + Bit(lhs[p])
        /\ bound_value' = 2 * bound_value + Bit(rhs[p])
        /\ order' = order /\ lhs' = lhs /\ rhs' = rhs
    BY <1>1 DEF MsbBit
  <2>2. p \in Nat /\ Width - offset = p + 1 /\ Width - (offset + 1) = p
    BY <1>0, <2>1 DEF MsbPosition
  <2> HIDE DEF p
  <2>3. /\ Value(lhs, Width) = x_value * 2^(p + 1) + Value(lhs, p + 1)
        /\ Value(rhs, Width) = bound_value * 2^(p + 1) + Value(rhs, p + 1)
    BY <2>1, <2>2 DEF ComparatorHistory
  <2>4. /\ Value(lhs, Width) = x_value' * 2^p + Value(lhs, p)
        /\ Value(rhs, Width) = bound_value' * 2^p + Value(rhs, p)
    BY <1>0, <2>1, <2>2, <2>3, PrefixGrows
  <2> QED BY <2>1, <2>2, <2>4 DEF ComparatorHistory
<1>2. CASE LsbFirstBit \/ LsbNextBit
  <2>1. /\ order = "lsb" /\ offset' = offset + 1 /\ order' = order
        /\ x_weight' = 2 * x_weight
        /\ x_value' = x_value + Bit(lhs[offset]) * x_weight
        /\ bound_value' = bound_value + Bit(rhs[offset]) * x_weight
        /\ lhs' = lhs /\ rhs' = rhs
    BY <1>2 DEF LsbFirstBit, LsbNextBit, LsbHistory
  <2>2. /\ x_weight = 2^offset
        /\ x_value = Value(lhs, offset) /\ bound_value = Value(rhs, offset)
    BY <2>1 DEF ComparatorHistory
  <2>3. offset \in Nat
    BY <1>0
  <2>4. x_weight' = 2^(offset + 1)
    BY <2>1, <2>2, <2>3, PowerDoubles
  <2>5. /\ x_value' = Value(lhs, offset + 1)
        /\ bound_value' = Value(rhs, offset + 1)
    BY <2>1, <2>2, <2>3, ValueRecursion
  <2> QED BY <2>1, <2>4, <2>5 DEF ComparatorHistory
<1>3. CASE Conclude \/ UNCHANGED comparatorVars
  BY <1>3 DEF Conclude, comparatorVars, ComparatorHistory
<1> QED BY <1>1, <1>2, <1>3 DEF ComparatorNext

(* The comparator starts with an empty record.                             *)
LEMMA ComparatorHistoryStarts == ComparatorInit => ComparatorHistory
<1> SUFFICES ASSUME ComparatorInit PROVE ComparatorHistory
  OBVIOUS
<1>1. /\ x_value = 0 /\ bound_value = 0 /\ x_weight = 1 /\ offset = 0
  BY DEF ComparatorInit
<1>2. Width \in Nat /\ Width - 0 = Width
  BY WidthAssumption
<1>3. 2^Width \in Nat /\ Value(lhs, Width) \in Nat /\ Value(rhs, Width) \in Nat
  BY <1>2, PowersAreNumbers, ValueBound
<1>4. Value(lhs, 0) = 0 /\ Value(rhs, 0) = 0 /\ 2^0 = 1
  BY ValueRecursion, PowerOfZero
<1> HIDE DEF ComparatorInit
<1> DEFINE P == 2^Width
           L == Value(lhs, Width)
           R == Value(rhs, Width)
<1> HIDE DEF P, L, R
<1>5. L = 0 * P + L /\ R = 0 * P + R
  BY <1>3 DEF P, L, R
<1> QED BY <1>1, <1>2, <1>4, <1>5 DEF ComparatorHistory, P, L, R

(* The revealed bit compares the whole operands, from either end.          *)
THEOREM ComparatorOfOperands == ComparatorSpec => []PredicateOfOperands
<1>1. ComparatorInv /\ ComparatorHistory => PredicateOfOperands
  <2> SUFFICES ASSUME ComparatorInv, ComparatorHistory, predicate # <<>>
               PROVE  predicate[1] <=> Value(lhs, Width) <= Value(rhs, Width)
    BY DEF PredicateOfOperands
  <2>1. /\ predicate[1] <=> x_value <= bound_value
        /\ offset = Width /\ x_value \in Nat /\ bound_value \in Nat
        /\ order \in {"msb", "lsb"}
    BY DEF ComparatorInv, PredicateIsLessOrEqual, ComparatorTypeOK
  <2>2. Width \in Nat /\ Width - Width = 0
    BY WidthAssumption
  <2>3. Value(lhs, 0) = 0 /\ Value(rhs, 0) = 0 /\ 2^0 = 1
    BY ValueRecursion, PowerOfZero
  <2>4. Value(lhs, Width) = x_value /\ Value(rhs, Width) = bound_value
    <3>1. CASE order = "lsb"
      BY <2>1, <3>1 DEF ComparatorHistory
    <3>2. CASE order = "msb"
      <4>1. /\ Value(lhs, Width) = x_value * 2^0 + Value(lhs, 0)
            /\ Value(rhs, Width) = bound_value * 2^0 + Value(rhs, 0)
        BY <2>1, <2>2, <3>2 DEF ComparatorHistory
      <4>2. x_value * 1 + 0 = x_value /\ bound_value * 1 + 0 = bound_value
        BY <2>1
      <4> QED BY <2>3, <4>1, <4>2
    <3> QED BY <2>1, <3>1, <3>2
  <2> QED BY <2>1, <2>4
<1>2. ComparatorInv => ComparatorTypeOK
  BY DEF ComparatorInv
<1> QED BY <1>1, <1>2, ComparatorStarts, ComparatorStep,
           ComparatorHistoryStarts, ComparatorHistoryStep, PTL
        DEF ComparatorSpec

-----------------------------------------------------------------------------
(* The two loops over the same operands leave each other alone, so what    *)
(* holds of each of them holds when one runs after the other.              *)
THEOREM LoopsRunBoth == LoopsSpec => AdderSpec /\ ComparatorSpec
<1>1. LoopsInit => AdderInit /\ ComparatorInit
  BY DEF LoopsInit
<1>2. [LoopsNext]_<<adderVars, comparatorVars>>
        => [AdderNext]_adderVars /\ [ComparatorNext]_comparatorVars
  <2> SUFFICES ASSUME [LoopsNext]_<<adderVars, comparatorVars>>
               PROVE  [AdderNext]_adderVars /\ [ComparatorNext]_comparatorVars
    OBVIOUS
  <2>1. CASE /\ AdderNext
             /\ UNCHANGED <<order, offset, greater, prefix_equal, predicate,
                            x_value, bound_value, x_weight>>
    <3>1. lhs' = lhs /\ rhs' = rhs
      BY <2>1 DEF AdderNext, AddModuloBit, AddFirstBit, AddNextBit,
                  IncrementFirstBit, IncrementNextBit, Emit
    <3> QED BY <2>1, <3>1 DEF comparatorVars
  <2>2. CASE /\ ComparatorNext
             /\ UNCHANGED <<op, i, carry, sum, l_value, r_value, s_value,
                            weight>>
    <3>1. lhs' = lhs /\ rhs' = rhs
      BY <2>2 DEF ComparatorNext, MsbBit, LsbFirstBit, LsbNextBit,
                  LsbHistory, Conclude
    <3> QED BY <2>2, <3>1 DEF adderVars
  <2>3. CASE UNCHANGED <<adderVars, comparatorVars>>
    BY <2>3
  <2> QED BY <2>1, <2>2, <2>3 DEF LoopsNext
<1> QED BY <1>1, <1>2, PTL DEF LoopsSpec, AdderSpec, ComparatorSpec

(* Any of the adders and then any of the comparators, at every width.      *)
THEOREM LoopsAreCorrect == LoopsSpec => [](ResultIsModular /\ PredicateOfOperands)
BY LoopsRunBoth, ResultOfAdder, ComparatorOfOperands, PTL

-----------------------------------------------------------------------------
(* The decrypt-compare circuit.                                            *)

(* The moduli are powers of two, and a plaintext is shorter than a word.   *)
LEMMA Moduli ==
  /\ CiphertextModulus \in Nat \ {0} /\ CiphertextModulus >= 2
  /\ PlaintextModulus \in Nat \ {0}
  /\ ModulusBits \in Nat /\ PlaintextBits \in Nat
  /\ 2^ModulusBits = CiphertextModulus
  /\ 2^PlaintextBits = PlaintextModulus
  /\ ModulusBits - PlaintextBits \in Nat
<1>1. /\ CiphertextModulus \in Nat \ {0} /\ PlaintextModulus \in Nat \ {0}
      /\ CiphertextModulus % (2 * PlaintextModulus) = 0
  BY ModulusAssumption
<1>2. /\ ModulusBits \in Nat \ {0} /\ 2^ModulusBits = CiphertextModulus
      /\ PlaintextBits \in Nat \ {0} /\ 2^PlaintextBits = PlaintextModulus
  BY ParamsAssumption
<1> DEFINE q == CiphertextModulus
           p == PlaintextModulus
           P == 2 * p
<1>3. q > p
  <2>1. P \in Nat \ {0} /\ P > p
    BY <1>1
  <2>2. q \div P \in Int /\ q = P * (q \div P) + (q % P)
    <3> HIDE DEF P
    <3> QED BY <1>1, <2>1, DivMod
  <2> DEFINE d == q \div P
  <2>3. q = P * d /\ d \in Int
    BY <1>1, <2>1, <2>2
  <2> HIDE DEF d, P, q
  <2>4. d >= 1
    <3>1. P \in Nat /\ P > 0 /\ q > 0
      BY <1>1, <2>1 DEF q
    <3>2. \A e \in Nat : P * e >= 0
      BY <3>1
    <3>3. ASSUME d <= 0 PROVE FALSE
      <4>1. -d \in Nat
        BY <2>3, <3>3
      <4>2. P * (-d) >= 0
        BY <3>2, <4>1
      <4>3. P * (-d) = -(P * d)
        BY <2>3, <3>1, SMTT(30)
      <4>4. P * d \in Int
        BY <2>3, <3>1
      <4> QED BY <2>3, <3>1, <4>2, <4>3, <4>4
    <3> QED BY <2>3, <3>3
  <2>5. P * d >= P
    BY <2>1, <2>3, <2>4, SMTT(30)
  <2> QED BY <1>1, <2>1, <2>3, <2>5 DEF q
<1>4. ~ (ModulusBits <= PlaintextBits)
  <2> SUFFICES ASSUME ModulusBits <= PlaintextBits PROVE FALSE
    OBVIOUS
  <2>1. 2^ModulusBits <= 2^PlaintextBits
    BY <1>2, PowerGrows
  <2> QED BY <1>1, <1>2, <1>3, <2>1
<1>5. CiphertextModulus >= 2
  <2>1. p >= 1
    BY <1>1
  <2> QED BY <1>1, <1>3, <2>1
<1> QED BY <1>1, <1>2, <1>4, <1>5

(* Values of words are residues.                                           *)
LEMMA WordValue ==
  ASSUME NEW word
  PROVE  /\ Value(word, ModulusBits) \in Residues
         /\ Value(word, ModulusBits) \in Nat
<1>1. Value(word, ModulusBits) \in 0 .. 2^ModulusBits - 1
  BY ValueBound, Moduli
<1> QED BY <1>1, Moduli DEF Residues

(* A residue modulo q fits in the bits of the modulus.                     *)
LEMMA WordOfResidue ==
  ASSUME NEW x \in Residues
  PROVE  WordOf(x) \in Word /\ Value(WordOf(x), ModulusBits) = x
<1>1. x \in Nat /\ x \in 0 .. CiphertextModulus - 1
  BY Moduli DEF Residues
<1>2. WordOf(x) \in Word /\ Value(WordOf(x), ModulusBits) = x % 2^ModulusBits
  BY <1>1, Moduli, ValueOfConstant DEF WordOf, Word
<1>3. x % CiphertextModulus = x
  BY <1>1, Moduli, ResidueMod
<1> QED BY <1>2, <1>3, Moduli

(* AddModulo adds modulo q: the dropped carry is the reduction.            *)
LEMMA AddModuloSum ==
  ASSUME NEW l \in Word, NEW r \in Word, NEW c \in BOOLEAN
  PROVE  /\ AddModulo(l, r, c) \in Word
         /\ Value(AddModulo(l, r, c), ModulusBits)
              = (Value(l, ModulusBits) + Value(r, ModulusBits) + Bit(c))
                  % CiphertextModulus
<1> DEFINE M == ModulusBits
           q == CiphertextModulus
<1>0. M \in Nat /\ q \in Nat \ {0} /\ 2^M = q
  BY Moduli
<1>1. \A k \in 0 .. M - 1 : l[k] \in BOOLEAN /\ r[k] \in BOOLEAN
  BY DEF Word, Vectors
<1> DEFINE step == [k \in Nat |-> [v \in BOOLEAN |->
                      IF k < M THEN CarryBit(l[k], r[k], v) ELSE v]]
           carries[k \in 0 .. M] ==
             IF k = 0 THEN c
             ELSE CarryBit(l[k - 1], r[k - 1], carries[k - 1])
           s == [k \in 0 .. M - 1 |-> SumBit(l[k], r[k], carries[k])]
<1>2. step \in [Nat -> [BOOLEAN -> BOOLEAN]]
  <2>1. ASSUME NEW k \in Nat, NEW v \in BOOLEAN
        PROVE  (IF k < M THEN CarryBit(l[k], r[k], v) ELSE v) \in BOOLEAN
    <3>1. CASE k < M
      <4>1. l[k] \in BOOLEAN /\ r[k] \in BOOLEAN
        BY <1>0, <1>1, <3>1
      <4> QED BY <3>1, <4>1, FullAdder
    <3>2. CASE ~ (k < M)
      BY <3>2
    <3> QED BY <3>1, <3>2
  <2> QED BY <2>1
<1>3. \A k \in 0 .. M - 1 : \A v \in BOOLEAN :
        step[k][v] = CarryBit(l[k], r[k], v)
  BY <1>0
<1> HIDE DEF step
<1>4. PICK f \in [0 .. M -> BOOLEAN] : Follows(f, c, step, M)
  <2>1. Recursion(BOOLEAN, c, step)
    BY <1>2 DEF Recursion
  <2> QED BY <1>0, <2>1, RecursionPartial
<1>5. f[0] = c /\ \A k \in 0 .. M - 1 : f[k + 1] = CarryBit(l[k], r[k], f[k])
  <2>1. \A k \in 0 .. M - 1 : f[k] \in BOOLEAN
    BY <1>0
  <2> QED BY <1>3, <1>4, <2>1 DEF Follows
<1>6. \E g : g = [k \in 0 .. M |-> IF k = 0 THEN c
                       ELSE CarryBit(l[k - 1], r[k - 1], g[k - 1])]
  <2>1. ASSUME NEW k \in 0 .. M
        PROVE  f[k] = IF k = 0 THEN c
                      ELSE CarryBit(l[k - 1], r[k - 1], f[k - 1])
    <3>1. CASE k = 0
      BY <1>5, <3>1
    <3>2. CASE k # 0
      <4>1. k - 1 \in 0 .. M - 1 /\ (k - 1) + 1 = k
        BY <1>0, <3>2
      <4> QED BY <1>5, <3>2, <4>1
    <3> QED BY <3>1, <3>2
  <2>2. f = [k \in 0 .. M |-> IF k = 0 THEN c
                       ELSE CarryBit(l[k - 1], r[k - 1], f[k - 1])]
    BY <2>1
  <2> QED BY <2>2
<1>7. carries = [k \in 0 .. M |-> IF k = 0 THEN c
                 ELSE CarryBit(l[k - 1], r[k - 1], carries[k - 1])]
  BY <1>6
<1>8. AddModulo(l, r, c) = s
  BY DEF AddModulo
<1> HIDE DEF carries
<1>9. /\ carries[0] = c
      /\ \A k \in 0 .. M - 1 : carries[k + 1] = CarryBit(l[k], r[k], carries[k])
  <2>1. carries[0] = c
    BY <1>0, <1>7
  <2>2. ASSUME NEW k \in 0 .. M - 1
        PROVE  carries[k + 1] = CarryBit(l[k], r[k], carries[k])
    <3>1. k + 1 \in 0 .. M /\ k + 1 # 0 /\ (k + 1) - 1 = k
      BY <1>0
    <3> QED BY <1>7, <3>1
  <2> QED BY <2>1, <2>2
<1>10. \A k \in 0 .. M - 1 : s[k] = SumBit(l[k], r[k], carries[k])
  OBVIOUS
<1>11. DOMAIN s = 0 .. M - 1 /\ s = [k \in 0 .. M - 1 |-> s[k]]
  OBVIOUS
<1> HIDE DEF s
<1>12. /\ \A k \in 0 .. M : carries[k] \in BOOLEAN
       /\ \A k \in 0 .. M - 1 : s[k] \in BOOLEAN
       /\ Value(l, M) + Value(r, M) + Bit(carries[0])
            = Value(s, M) + Bit(carries[M]) * 2^M
  <2>1. Ripples(l, r, carries, s, M)
    BY <1>1, <1>9, <1>10 DEF Ripples
  <2> QED BY <1>0, <2>1, RippleSum
<1>13. s \in Word
  BY <1>11, <1>12 DEF Word, Vectors
<1>14. Value(s, M) = (Value(l, M) + Value(r, M) + Bit(c)) % q
  <2> DEFINE V == Value(s, M)
             T == Value(l, M) + Value(r, M) + Bit(c)
             K == Bit(carries[M])
  <2>1. V \in 0 .. q - 1 /\ K \in {0, 1} /\ T = V + K * q
    BY <1>0, <1>9, <1>12, ValueBound, BitIsNumber
  <2> HIDE DEF V, T, K, q
  <2>2. T = V + q * K /\ V \in Int /\ K \in Int
    BY <1>0, <2>1
  <2>3. T % q = V % q
    BY <1>0, <2>2, ModMultiple
  <2>4. V % q = V
    BY <1>0, <2>1, ResidueMod
  <2> QED BY <2>3, <2>4 DEF V, T
<1> QED BY <1>8, <1>13, <1>14

(* SubtractModulo subtracts modulo q: the inverted operand and one.        *)
LEMMA SubtractModuloDifference ==
  ASSUME NEW l \in Word, NEW r \in Word
  PROVE  /\ SubtractModulo(l, r) \in Word
         /\ Value(SubtractModulo(l, r), ModulusBits)
              = (Value(l, ModulusBits) - Value(r, ModulusBits))
                  % CiphertextModulus
<1> DEFINE M == ModulusBits
           q == CiphertextModulus
           inverse == [k \in 0 .. M - 1 |-> ~r[k]]
           L == Value(l, M)
           R == Value(r, M)
           I == Value(inverse, M)
<1>0. M \in Nat /\ q \in Nat \ {0} /\ 2^M = q
  BY Moduli
<1>1. inverse \in Word
  BY DEF Word, Vectors
<1>2. SubtractModulo(l, r) = AddModulo(l, inverse, TRUE)
  BY DEF SubtractModulo
<1>3. \A k \in 0 .. M - 1 : inverse[k] = ~r[k]
  OBVIOUS
<1> HIDE DEF inverse
<1>4. I = q - 1 - R
  BY <1>0, <1>3, ValueInverted DEF Word
<1>5. /\ AddModulo(l, inverse, TRUE) \in Word
      /\ Value(AddModulo(l, inverse, TRUE), M) = (L + I + Bit(TRUE)) % q
  BY <1>1, AddModuloSum
<1>6. L \in Int /\ R \in Int
  BY WordValue
<1>7. Bit(TRUE) = 1
  BY DEF Bit
<1> HIDE DEF L, R, I, q
<1> DEFINE D == L - R
           one == 1
<1>8. L + I + 1 = D + q * one /\ D \in Int /\ one \in Int
  BY <1>0, <1>4, <1>6
<1>9. (D + q * one) % q = D % q
  <2> HIDE DEF D, one
  <2> QED BY <1>0, <1>8, ModMultiple DEF q
<1>10. (L + I + Bit(TRUE)) % q = (L - R) % q
  BY <1>7, <1>8, <1>9
<1> QED BY <1>2, <1>5, <1>10 DEF L, R, q

(* A selection takes one of its operands.                                  *)
LEMMA Selection ==
  ASSUME NEW l \in Word, NEW r \in Word
  PROVE  /\ SelectVector(TRUE, l, r) = l
         /\ SelectVector(FALSE, l, r) = r
<1> DEFINE D == 0 .. ModulusBits - 1
<1>1. \A a, b \in BOOLEAN : Select(TRUE, a, b) = a /\ Select(FALSE, a, b) = b
  BY DEF Select, Xor
<1>2. l \in [D -> BOOLEAN] /\ r \in [D -> BOOLEAN]
  BY DEF Word, Vectors
<1> HIDE DEF D
<1>3. \A k \in D : Select(TRUE, l[k], r[k]) = l[k] /\ Select(FALSE, l[k], r[k]) = r[k]
  BY <1>1, <1>2
<1>4. /\ [k \in D |-> Select(TRUE, l[k], r[k])] = l
      /\ [k \in D |-> Select(FALSE, l[k], r[k])] = r
  BY <1>2, <1>3
<1> QED BY <1>4 DEF SelectVector, D

(* The two secret bits of a coefficient multiply by it modulo q.           *)
LEMMA TermIsProduct ==
  ASSUME NEW v \in Word, NEW h \in {0, 1, CiphertextModulus - 1}
  PROVE  /\ SecretCoefficientTerm(v, h) \in Word
         /\ Value(SecretCoefficientTerm(v, h), ModulusBits)
              = MulMod(Value(v, ModulusBits), h)
<1> DEFINE M == ModulusBits
           q == CiphertextModulus
           V == Value(v, M)
           nonzero == h % q # 0
           negative == h = q - 1
           N == NegateModulo(v)
           signed == SelectVector(negative, N, v)
<1>0. M \in Nat /\ q \in Nat \ {0} /\ q >= 2
  BY Moduli
<1>1. V \in 0 .. q - 1
  BY WordValue DEF Residues
<1>2. ZeroBits \in Word /\ Value(ZeroBits, M) = 0
  <2>1. 0 \in Residues
    BY <1>0 DEF Residues
  <2> QED BY <2>1, WordOfResidue DEF ZeroBits
<1>3. N \in Word /\ Value(N, M) = (0 - V) % q
  BY <1>2, SubtractModuloDifference DEF NegateModulo
<1>4. h % q = h
  <2>1. h \in 0 .. q - 1
    BY <1>0
  <2> QED BY <1>0, <2>1, ResidueMod
<1>5. SecretCoefficientTerm(v, h) = SelectVector(nonzero, signed, ZeroBits)
  BY Zenon DEF SecretCoefficientTerm
<1>6. CASE h = 0
  <2>1. nonzero = FALSE
    BY <1>4, <1>6
  <2>2. signed \in Word
    BY <1>3, Selection
  <2>3. SecretCoefficientTerm(v, h) = ZeroBits
    BY <1>2, <1>5, <2>1, <2>2, Selection
  <2>4. MulMod(V, h) = 0
    <3>1. V * 0 = 0 /\ 0 \in 0 .. q - 1
      BY <1>0, <1>1
    <3>2. 0 % q = 0
      BY <1>0, <3>1, ResidueMod
    <3> QED BY <1>6, <3>1, <3>2 DEF MulMod
  <2> QED BY <1>2, <2>3, <2>4
<1>7. CASE h = q - 1
  <2>1. nonzero = TRUE /\ negative = TRUE
    BY <1>0, <1>4, <1>7
  <2>2. SecretCoefficientTerm(v, h) = N
    BY <1>2, <1>3, <1>5, <2>1, Selection
  <2>3. MulMod(V, h) = (0 - V) % q
    <3> HIDE DEF V, q
    <3>1. V * (q - 1) = (0 - V) + q * V /\ 0 - V \in Int /\ V \in Int
      BY <1>0, <1>1, SMTT(30)
    <3>2. ((0 - V) + q * V) % q = (0 - V) % q
      BY <1>0, <3>1, ModMultiple
    <3> QED BY <1>7, <3>1, <3>2 DEF MulMod, q
  <2> QED BY <1>3, <2>2, <2>3
<1>8. CASE h = 1 /\ h # q - 1
  <2>1. nonzero = TRUE /\ negative = FALSE
    BY <1>4, <1>8
  <2>2. signed = v
    BY <1>3, <2>1, Selection
  <2>3. SecretCoefficientTerm(v, h) = v
    BY <1>2, <1>5, <2>1, <2>2, Selection
  <2>4. MulMod(V, h) = V
    <3>1. V * 1 = V
      BY <1>1
    <3>2. V % q = V
      BY <1>0, <1>1, ResidueMod
    <3> QED BY <1>8, <3>1, <3>2 DEF MulMod
  <2> QED BY <2>3, <2>4
<1> QED BY <1>6, <1>7, <1>8

-----------------------------------------------------------------------------
(* The reference pad, one coefficient after the other.                     *)
PadStep(c, hsk) ==
  [k \in Nat |-> [v \in Int |->
     IF k < Len(hsk) THEN AddMod(v, MulMod(c.a[k + 1], hsk[k + 1])) ELSE v]]

(* The reduced sums and products of the code are residues.                 *)
LEMMA ResidueArithmetic ==
  /\ Residues \subseteq Int
  /\ \A u, v \in Int : AddMod(u, v) \in Residues /\ MulMod(u, v) \in Residues
<1> DEFINE q == CiphertextModulus
<1>0. q \in Nat \ {0}
  BY Moduli
<1>1. Residues \subseteq Int
  BY <1>0 DEF Residues
<1>2. \A u \in Int : u % q \in 0 .. (q - 1)
  BY <1>0, DivMod
<1> HIDE DEF q
<1>3. ASSUME NEW u \in Int, NEW v \in Int
      PROVE  AddMod(u, v) \in Residues /\ MulMod(u, v) \in Residues
  <2>1. u + v \in Int /\ u * v \in Int
    BY SMT
  <2>2. (u + v) % q \in 0 .. (q - 1) /\ (u * v) % q \in 0 .. (q - 1)
    BY <1>2, <2>1
  <2> QED BY <2>2 DEF AddMod, MulMod, Residues, q
<1> QED BY <1>1, <1>3

(* The pad of a prefix of the key is where its terms, one by one, lead.    *)
LEMMA PadOfPrefix ==
  ASSUME NEW c \in Ciphertext, NEW hsk \in Seq(Residues),
         Len(c.a) = Len(hsk), NEW n \in 0 .. Len(hsk)
  PROVE  \E f \in [0 .. n -> Int] :
           /\ Follows(f, 0, PadStep(c, hsk), n)
           /\ Pad(c, SubSeq(hsk, 1, n)) = f[n]
<1> DEFINE step == PadStep(c, hsk)
           part == SubSeq(hsk, 1, n)
           N == Len(part)
           sums[k \in 0 .. N] ==
             IF k = 0 THEN 0 ELSE AddMod(sums[k - 1], MulMod(c.a[k], part[k]))
<1>0. Len(hsk) \in Nat /\ n \in Nat
  OBVIOUS
<1>1. N = n /\ \A k \in 1 .. n : part[k] = hsk[k]
  BY <1>0
<1>2. \A k \in 1 .. Len(hsk) : c.a[k] \in Int /\ hsk[k] \in Int
  <2>1. c.a \in Seq(Residues)
    BY DEF Ciphertext
  <2>2. \A k \in 1 .. Len(hsk) : c.a[k] \in Residues /\ hsk[k] \in Residues
    BY <2>1
  <2> QED BY <2>2, ResidueArithmetic
<1>3. step \in [Nat -> [Int -> Int]]
  <2>1. ASSUME NEW k \in Nat, NEW v \in Int
        PROVE  (IF k < Len(hsk) THEN AddMod(v, MulMod(c.a[k + 1], hsk[k + 1]))
                ELSE v) \in Int
    <3>1. CASE k < Len(hsk)
      <4>1. k + 1 \in 1 .. Len(hsk)
        BY <1>0, <3>1
      <4>2. c.a[k + 1] \in Int /\ hsk[k + 1] \in Int
        BY <1>2, <4>1, Zenon
      <4> QED BY <3>1, <4>2, ResidueArithmetic
    <3>2. CASE ~ (k < Len(hsk))
      BY <3>2
    <3> QED BY <3>1, <3>2
  <2> QED BY <2>1 DEF PadStep
<1>4. \A k \in 0 .. n - 1, v \in Int :
        step[k][v] = AddMod(v, MulMod(c.a[k + 1], hsk[k + 1]))
  BY <1>0 DEF PadStep
<1> HIDE DEF step, part
<1>5. PICK f \in [0 .. n -> Int] : Follows(f, 0, step, n)
  <2>1. Recursion(Int, 0, step)
    <3>1. 0 \in Int
      OBVIOUS
    <3> QED BY <1>3, <3>1, Zenon DEF Recursion
  <2> QED BY <1>0, <2>1, RecursionPartial
<1>6. ASSUME NEW k \in 0 .. n
      PROVE  f[k] = IF k = 0 THEN 0
                    ELSE AddMod(f[k - 1], MulMod(c.a[k], part[k]))
  <2>1. CASE k = 0
    BY <1>5, <2>1 DEF Follows
  <2>2. CASE k # 0
    <3> DEFINE j == k - 1
    <3>1. j \in 0 .. n - 1 /\ j + 1 = k /\ k \in 1 .. n /\ j \in 0 .. n
      BY <1>0, <2>2
    <3>2. f[j] \in Int
      BY <3>1
    <3>3. f[j + 1] = step[j][f[j]]
      BY <1>5, <3>1 DEF Follows
    <3>4. step[j][f[j]] = AddMod(f[j], MulMod(c.a[j + 1], hsk[j + 1]))
      BY <1>4, <3>1, <3>2
    <3>5. part[k] = hsk[k]
      BY <1>1, <3>1
    <3> QED BY <2>2, <3>1, <3>3, <3>4, <3>5
  <2> QED BY <2>1, <2>2
<1>7. f = [k \in 0 .. N |-> IF k = 0 THEN 0
                 ELSE AddMod(f[k - 1], MulMod(c.a[k], part[k]))]
  BY <1>1, <1>6
<1>8. \E g : g = [k \in 0 .. N |-> IF k = 0 THEN 0
                 ELSE AddMod(g[k - 1], MulMod(c.a[k], part[k]))]
  BY <1>7
<1>9. sums = [k \in 0 .. N |-> IF k = 0 THEN 0
                 ELSE AddMod(sums[k - 1], MulMod(c.a[k], part[k]))]
  BY <1>8
<1>10. Pad(c, part) = sums[N]
  BY DEF Pad
<1> HIDE DEF sums, N
<1> DEFINE T == {k \in Nat : k <= n => sums[k] = f[k]}
<1>11. 0 \in T
  BY <1>0, <1>1, <1>6, <1>9
<1>12. ASSUME NEW k \in Nat, k \in T
       PROVE  k + 1 \in T
  <2> SUFFICES ASSUME k + 1 <= n PROVE sums[k + 1] = f[k + 1]
    OBVIOUS
  <2>1. k + 1 \in 0 .. n /\ k + 1 # 0 /\ (k + 1) - 1 = k /\ sums[k] = f[k]
    BY <1>0, <1>12
  <2> DEFINE j == k + 1
  <2> HIDE DEF j, T
  <2>2. j \in 0 .. n /\ j # 0 /\ j - 1 = k
    BY <2>1 DEF j
  <2>3. sums[j] = AddMod(sums[k], MulMod(c.a[j], part[j]))
    BY <1>1, <1>9, <2>2
  <2>4. f[j] = AddMod(f[k], MulMod(c.a[j], part[j]))
    BY <1>6, <2>2
  <2> QED BY <2>1, <2>3, <2>4 DEF j
<1> HIDE DEF T
<1>13. Nat \subseteq T
  BY <1>11, <1>12, SetInduction
<1>14. sums[N] = f[n]
  BY <1>0, <1>1, <1>13 DEF T
<1> QED BY <1>5, <1>10, <1>14 DEF step, part

(* One more coefficient.                                                   *)
LEMMA PadGrows ==
  ASSUME NEW c \in Ciphertext, NEW hsk \in Seq(Residues),
         Len(c.a) = Len(hsk), NEW n \in Nat, n < Len(hsk)
  PROVE  /\ Pad(c, SubSeq(hsk, 1, n)) \in Int
         /\ Pad(c, SubSeq(hsk, 1, n + 1))
              = AddMod(Pad(c, SubSeq(hsk, 1, n)),
                       MulMod(c.a[n + 1], hsk[n + 1]))
<1> DEFINE step == PadStep(c, hsk)
           m == n + 1
<1>0. n \in 0 .. Len(hsk) /\ m \in 0 .. Len(hsk) /\ m \in Nat
  OBVIOUS
<1>1. PICK f \in [0 .. n -> Int] :
        Follows(f, 0, step, n) /\ Pad(c, SubSeq(hsk, 1, n)) = f[n]
  BY <1>0, PadOfPrefix
<1> HIDE DEF m
<1>2. PICK g \in [0 .. m -> Int] :
        Follows(g, 0, step, m) /\ Pad(c, SubSeq(hsk, 1, m)) = g[m]
  BY <1>0, PadOfPrefix
<1>3. f[n] \in Int
  OBVIOUS
<1> HIDE DEF step
<1>4. \A k \in Nat : k <= n /\ k <= m => f[k] = g[k]
  <2>1. n \in Nat /\ m \in Nat /\ Follows(f, 0, step, n) /\ Follows(g, 0, step, m)
    BY <1>0, <1>1, <1>2
  <2> HIDE DEF step
  <2> QED BY <2>1, RecursionUnique
<1>5. g[n] = f[n]
  BY <1>4 DEF m
<1>6. g[n + 1] = step[n][g[n]]
  <2>1. \A k \in 0 .. m - 1 : g[k + 1] = step[k][g[k]]
    BY <1>2, Zenon DEF Follows
  <2>2. n \in 0 .. m - 1
    BY DEF m
  <2> QED BY <2>1, <2>2, Zenon
<1>7. step[n][g[n]] = AddMod(g[n], MulMod(c.a[n + 1], hsk[n + 1]))
  BY <1>3, <1>5 DEF step, PadStep
<1> QED BY <1>1, <1>2, <1>3, <1>5, <1>6, <1>7 DEF m

(* No term, no pad.                                                        *)
LEMMA PadStarts ==
  ASSUME NEW c \in Ciphertext, NEW hsk \in Seq(Residues),
         Len(c.a) = Len(hsk)
  PROVE  Pad(c, SubSeq(hsk, 1, 0)) = 0
<1>1. 0 \in 0 .. Len(hsk)
  OBVIOUS
<1>2. PICK f : Follows(f, 0, PadStep(c, hsk), 0)
                 /\ Pad(c, SubSeq(hsk, 1, 0)) = f[0]
  BY <1>1, PadOfPrefix
<1> QED BY <1>2 DEF Follows

-----------------------------------------------------------------------------
(* The end of a decryption and the comparison.                             *)

(* After the last term the accumulator holds the pad of the whole key.     *)
LEMMA PadOfWholeKey ==
  ASSUME NEW c \in Ciphertext, NEW hsk \in Seq(Residues),
         Len(c.a) = Len(hsk), NEW pad \in Word,
         Value(pad, ModulusBits) = Pad(c, SubSeq(hsk, 1, Len(hsk)))
  PROVE  Value(pad, ModulusBits) = Pad(c, hsk)
<1>1. SubSeq(hsk, 1, Len(hsk)) = hsk
  OBVIOUS
<1> QED BY <1>1

(* The upper bits of the rounded phase are the decoded plaintext.          *)
LEMMA MessageIsDecoded ==
  ASSUME NEW c \in Ciphertext, NEW hsk \in Seq(Residues), NEW pad \in Word,
         Value(pad, ModulusBits) = Pad(c, hsk)
  PROVE  /\ MessageBits(c.body, pad) \in Vectors(PlaintextBits)
         /\ Value(MessageBits(c.body, pad), PlaintextBits) = Decode(c, hsk)
<1> DEFINE M == ModulusBits
           W == PlaintextBits
           q == CiphertextModulus
           p == PlaintextModulus
           shift == M - W
           O == RoundingOffset
           phase == SubtractModulo(WordOf(c.body), pad)
           rounded == AddModulo(phase, WordOf(O), FALSE)
           msg == [k \in 0 .. W - 1 |-> rounded[shift + k]]
           B == c.body
           D == Pad(c, hsk)
           H == Value(phase, M)
           R == Value(rounded, M)
<1>0. /\ M \in Nat /\ W \in Nat /\ shift \in Nat /\ shift + W = M
      /\ q \in Nat \ {0} /\ p \in Nat \ {0} /\ 2^M = q /\ 2^W = p
  BY Moduli
<1>1. B \in Residues /\ D \in Residues /\ Residues \subseteq Int
  BY WordValue, ResidueArithmetic DEF Ciphertext
<1>2. MessageBits(c.body, pad) = msg
  BY DEF MessageBits
<1>3. phase \in Word /\ H = (B - D) % q
  <2> DEFINE b == WordOf(B)
  <2>1. b \in Word /\ Value(b, M) = B
    BY <1>1, WordOfResidue
  <2> HIDE DEF b
  <2>2. /\ SubtractModulo(b, pad) \in Word
        /\ Value(SubtractModulo(b, pad), M) = (Value(b, M) - Value(pad, M)) % q
    BY <2>1, SubtractModuloDifference
  <2> QED BY <2>1, <2>2 DEF b
<1>4. H = Phase(c, hsk)
  <2> DEFINE E == B - D
             one == 1
  <2>1. E \in Int /\ one \in Int /\ B + q - D = E + q * one
    <3>1. B \in Int /\ D \in Int
      BY <1>1
    <3> HIDE DEF B, D, q
    <3> QED BY <1>0, <3>1 DEF q
  <2> HIDE DEF E, one
  <2>2. (E + q * one) % q = E % q
    BY <1>0, <2>1, ModMultiple
  <2> QED BY <1>3, <2>1, <2>2 DEF Phase, E
<1>5. O \in Residues
  <2> DEFINE Q == 2 * p
             d == q \div Q
  <2>1. Q \in Nat \ {0} /\ Q >= 2
    BY <1>0
  <2> HIDE DEF Q
  <2>2. d \in Int /\ q % Q \in 0 .. Q - 1 /\ q = Q * d + (q % Q)
    BY <1>0, <2>1, DivMod
  <2>3. O = d
    BY DEF RoundingOffset, Q
  <2>4. q % Q = 0
    BY ModulusAssumption DEF Q
  <2> HIDE DEF d, q
  <2>5. q = Q * d
    <3>1. Q * d \in Int
      BY <2>1, <2>2
    <3> QED BY <2>2, <2>4, <3>1
  <2>6. d >= 0
    <3>1. ASSUME d < 0 PROVE FALSE
      <4> DEFINE e == -d
      <4>1. e \in Nat /\ d = -e
        BY <2>2, <3>1
      <4> HIDE DEF e
      <4>2. Q * e >= 0 /\ Q * e \in Int
        BY <2>1, <4>1
      <4>3. Q * d = -(Q * e)
        BY <2>1, <4>1, SMTT(30)
      <4> QED BY <1>0, <2>5, <4>2, <4>3
    <3> QED BY <2>2, <3>1
  <2>7. d < q
    <3>1. d >= 1
      BY <1>0, <2>1, <2>2, <2>5, <2>6
    <3>2. Q * d >= 2 * d
      BY <2>1, <2>2, <2>6, SMTT(30)
    <3> QED BY <1>0, <2>2, <2>5, <3>1, <3>2
  <2> QED BY <1>0, <2>2, <2>3, <2>6, <2>7 DEF Residues, q
<1>6. /\ rounded \in Word
      /\ R = (H + O) % q /\ R \in 0 .. q - 1
  <2>1. WordOf(O) \in Word /\ Value(WordOf(O), M) = O
    BY <1>5, WordOfResidue
  <2>2. Bit(FALSE) = 0 /\ H + O + 0 = H + O
    BY <1>1, <1>5, WordValue DEF Bit
  <2>3. rounded \in Word /\ R = (H + Value(WordOf(O), M) + Bit(FALSE)) % q
    BY <1>3, <2>1, AddModuloSum
  <2>4. R \in 0 .. q - 1
    BY WordValue DEF Residues
  <2> QED BY <2>1, <2>2, <2>3, <2>4
<1>7. R = Rounded(c, hsk)
  BY <1>4, <1>6 DEF Rounded, RoundingOffset
<1>8. msg \in Vectors(W)
  <2>1. \A k \in 0 .. W - 1 : rounded[shift + k] \in BOOLEAN
    <3> TAKE k \in 0 .. W - 1
    <3>1. shift + k \in 0 .. M - 1
      BY <1>0
    <3> QED BY <1>6, <3>1 DEF Word, Vectors
  <2> QED BY <2>1 DEF Vectors
<1>9. Value(msg, W) = Decode(c, hsk)
  <2> DEFINE P == 2^shift
             V == Value(msg, W)
             L == Value(rounded, shift)
  <2>1. P \in Nat \ {0} /\ q = P * p
    BY <1>0, PowerIsPositive, PowerAdds
  <2>2. V \in Nat /\ L \in 0 .. P - 1
    <3>1. V \in 0 .. 2^W - 1 /\ L \in 0 .. 2^shift - 1
      <4> HIDE DEF msg, rounded, shift
      <4> QED BY <1>0, ValueBound
    <3> HIDE DEF V, L, shift, W
    <3>2. V \in Nat
      BY <1>0, <3>1, PowersAreNumbers
    <3> QED BY <3>1, <3>2
  <2>3. \A k \in 0 .. W - 1 : msg[k] = rounded[shift + k]
    OBVIOUS
  <2> HIDE DEF msg, rounded
  <2>4. R = P * V + L
    <3>1. Value(rounded, shift + W) = P * V + L
      BY <1>0, <2>3, UpperBits
    <3> QED BY <1>0, <3>1
  <2> HIDE DEF P, V, L, R, q, p
  <2>5. p * R = q * V + p * L
    BY <1>0, <2>1, <2>2, <2>4, SMTT(30) DEF q, p
  <2>6. p * L \in 0 .. q - 1
    <3>1. p * L \in Nat
      BY <1>0, <2>2
    <3>2. P - 1 - L \in Nat
      BY <2>1, <2>2
    <3>3. p * (P - 1 - L) >= 0
      BY <1>0, <3>2
    <3>4. p * (P - 1 - L) = q - p - p * L
      BY <1>0, <2>1, <2>2, SMTT(30)
    <3>5. q - p - p * L >= 0 /\ p > 0
      BY <1>0, <3>3, <3>4
    <3> QED BY <1>0, <3>1, <3>5
  <2> DEFINE r == p * L
  <2>0. r \in 0 .. (q - 1)
    BY <2>6
  <2> HIDE DEF r
  <2>7. (q * V + r) \div q = V
    <3>1. V \in Int /\ q \in Nat \ {0}
      BY <1>0, <2>2 DEF q
    <3> QED BY <2>0, <3>1, QuotientUnique
  <2>8. Decode(c, hsk) = (p * R) \div q
    BY <1>7 DEF Decode, p, q
  <2> QED BY <2>5, <2>7, <2>8 DEF r, V
<1> QED BY <1>2, <1>8, <1>9

(* The comparator orders the numbers of its operands.                      *)
LEMMA LessOrEqualOrders ==
  ASSUME NEW l \in Vectors(PlaintextBits), NEW r \in Vectors(PlaintextBits)
  PROVE  LessOrEqual(l, r)
           <=> Value(l, PlaintextBits) <= Value(r, PlaintextBits)
<1> DEFINE top == PlaintextBits
           start == [greater |-> FALSE, prefix_equal |-> TRUE]
           S == [greater : BOOLEAN, prefix_equal : BOOLEAN]
           After(v, k) == [greater |-> GreaterHere(v.greater, v.prefix_equal,
                                        l[top - k], r[top - k]),
                          prefix_equal |-> EqualHere(v.prefix_equal,
                                             l[top - k], r[top - k])]
           step == [k \in Nat |-> [v \in S |->
                      IF k < top THEN After(v, k + 1) ELSE v]]
           state[k \in 0 .. top] ==
             IF k = 0 THEN [greater |-> FALSE, prefix_equal |-> TRUE]
             ELSE [greater |-> GreaterHere(state[k - 1].greater,
                      state[k - 1].prefix_equal, l[top - k], r[top - k]),
                   prefix_equal |-> EqualHere(state[k - 1].prefix_equal,
                      l[top - k], r[top - k])]
<1>0. top \in Nat /\ \A k \in 0 .. top - 1 : l[k] \in BOOLEAN /\ r[k] \in BOOLEAN
  BY Moduli DEF Vectors
<1>1. LessOrEqual(l, r) = ~state[top].greater
  BY DEF LessOrEqual
<1>2. ASSUME NEW k \in 1 .. top, NEW v \in S
      PROVE  /\ After(v, k) \in S
             /\ After(v, k).greater
                  <=> (v.greater \/ (v.prefix_equal /\ l[top - k] /\ ~r[top - k]))
             /\ After(v, k).prefix_equal
                  <=> (v.prefix_equal /\ (l[top - k] <=> r[top - k]))
  <2>1. top - k \in 0 .. top - 1
    BY <1>0
  <2>2. l[top - k] \in BOOLEAN /\ r[top - k] \in BOOLEAN
        /\ v.greater \in BOOLEAN /\ v.prefix_equal \in BOOLEAN
    BY <1>0, <2>1
  <2>3. /\ After(v, k).greater
             = GreaterHere(v.greater, v.prefix_equal, l[top - k], r[top - k])
        /\ After(v, k).prefix_equal
             = EqualHere(v.prefix_equal, l[top - k], r[top - k])
    OBVIOUS
  <2>4. /\ After(v, k).greater \in BOOLEAN
        /\ After(v, k).greater
             <=> (v.greater \/ (v.prefix_equal /\ l[top - k] /\ ~r[top - k]))
    BY <2>2, <2>3 DEF GreaterHere, BuildOr, Xor
  <2>5. /\ After(v, k).prefix_equal \in BOOLEAN
        /\ After(v, k).prefix_equal
             <=> (v.prefix_equal /\ (l[top - k] <=> r[top - k]))
    BY <2>2, <2>3 DEF EqualHere, Xor
  <2>6. After(v, k) \in S
    BY <2>4, <2>5
  <2> QED BY <2>4, <2>5, <2>6
<1> HIDE DEF After
<1>3. step \in [Nat -> [S -> S]]
  <2>1. ASSUME NEW k \in Nat, NEW v \in S
        PROVE  (IF k < top THEN After(v, k + 1) ELSE v) \in S
    <3>1. CASE k < top
      <4>1. k + 1 \in 1 .. top
        BY <1>0, <3>1
      <4> HIDE DEF S
      <4>2. After(v, k + 1) \in S
        BY <1>2, <4>1
      <4> QED BY <3>1, <4>2
    <3>2. CASE ~ (k < top)
      BY <3>2
    <3> QED BY <3>1, <3>2
  <2> HIDE DEF S
  <2> QED BY <2>1
<1>4. \A k \in 0 .. top - 1 : \A v \in S : step[k][v] = After(v, k + 1)
  BY <1>0
<1>5. start \in S
  OBVIOUS
<1> HIDE DEF step, S, start
<1>6. PICK f \in [0 .. top -> S] : Follows(f, start, step, top)
  <2>1. Recursion(S, start, step)
    BY <1>3, <1>5 DEF Recursion
  <2> QED BY <1>0, <2>1, RecursionPartial
<1>7. f[0] = start /\ \A k \in 0 .. top - 1 : f[k + 1] = After(f[k], k + 1)
  <2>1. \A k \in 0 .. top - 1 : f[k] \in S
    BY <1>0
  <2> QED BY <1>4, <1>6, <2>1 DEF Follows
<1>8. \A k \in 0 .. top : f[k] = IF k = 0 THEN start ELSE After(f[k - 1], k)
  <2> TAKE k \in 0 .. top
  <2>1. CASE k = 0
    BY <1>7, <2>1
  <2>2. CASE k # 0
    <3>1. k - 1 \in 0 .. top - 1 /\ (k - 1) + 1 = k
      BY <1>0, <2>2
    <3> QED BY <1>7, <2>2, <3>1
  <2> QED BY <2>1, <2>2
<1>9. \E g : g = [k \in 0 .. top |-> IF k = 0 THEN start ELSE After(g[k - 1], k)]
  <2>1. f = [k \in 0 .. top |-> IF k = 0 THEN start ELSE After(f[k - 1], k)]
    BY <1>8
  <2> QED BY <2>1
<1>10. state = [k \in 0 .. top |->
                  IF k = 0 THEN start ELSE After(state[k - 1], k)]
  BY <1>9 DEF After, start
<1> HIDE DEF state
<1>11. state[0] = start
  BY <1>0, <1>10
<1>12. \A k \in 0 .. top - 1 : state[k + 1] = After(state[k], k + 1)
  <2> TAKE k \in 0 .. top - 1
  <2>1. k + 1 \in 0 .. top /\ k + 1 # 0 /\ (k + 1) - 1 = k
    BY <1>0
  <2> QED BY <1>10, <2>1
<1> DEFINE L == Value(l, top)
           R == Value(r, top)
           Ordered(k, x, y) ==
             /\ L = x * 2^(top - k) + Value(l, top - k)
             /\ R = y * 2^(top - k) + Value(r, top - k)
             /\ state[k].greater <=> x > y
             /\ state[k].prefix_equal <=> x = y
           T == {k \in Nat : k <= top =>
                   state[k] \in S /\ \E x, y \in Nat : Ordered(k, x, y)}
<1>13. 0 \in T
  <2>1. Ordered(0, 0, 0)
    <3>1. top - 0 = top /\ L \in Nat /\ R \in Nat /\ 2^top \in Nat
      BY <1>0, ValueBound, PowersAreNumbers
    <3> DEFINE P == 2^top
    <3> HIDE DEF P, L, R
    <3>2. L = 0 * P + L /\ R = 0 * P + R
      BY <3>1 DEF P
    <3>3. ~state[0].greater /\ state[0].prefix_equal
      BY <1>11 DEF start
    <3> QED BY <3>1, <3>2, <3>3 DEF P, L, R
  <2>2. state[0] \in S
    BY <1>5, <1>11
  <2> HIDE DEF Ordered
  <2> QED BY <2>1, <2>2
<1>14. ASSUME NEW k \in Nat, k \in T
       PROVE  k + 1 \in T
  <2> SUFFICES ASSUME k + 1 <= top
               PROVE  state[k + 1] \in S /\ \E x, y \in Nat : Ordered(k + 1, x, y)
    OBVIOUS
  <2>1. PICK x, y \in Nat : Ordered(k, x, y)
    <3> HIDE DEF Ordered
    <3>1. k <= top
      BY <1>0
    <3> QED BY <1>14, <3>1
  <2> DEFINE j == top - (k + 1)
             a == l[j]
             b == r[j]
             v == state[k]
  <2>2. j \in Nat /\ top - k = j + 1 /\ j \in 0 .. top - 1
        /\ k \in 0 .. top - 1 /\ k + 1 \in 1 .. top
    BY <1>0
  <2>3. v \in S
    BY <1>0, <1>14
  <2>4. state[k + 1] = After(v, k + 1)
    BY <1>12, <2>2
  <2>5. /\ state[k + 1] \in S
        /\ state[k + 1].greater <=> (v.greater \/ (v.prefix_equal /\ a /\ ~b))
        /\ state[k + 1].prefix_equal <=> (v.prefix_equal /\ (a <=> b))
    BY <1>2, <2>2, <2>3, <2>4
  <2>6. a \in BOOLEAN /\ b \in BOOLEAN
    BY <1>0, <2>2
  <2> HIDE DEF a, b
  <2> DEFINE X == 2 * x + Bit(a)
             Y == 2 * y + Bit(b)
  <2>7. /\ L = x * 2^(j + 1) + Value(l, j + 1)
        /\ R = y * 2^(j + 1) + Value(r, j + 1)
        /\ v.greater <=> x > y
        /\ v.prefix_equal <=> x = y
    BY <2>1, <2>2
  <2>8. (X > Y <=> (x > y \/ (x = y /\ a /\ ~b)))
        /\ (X = Y <=> (x = y /\ (a <=> b))) /\ X \in Nat /\ Y \in Nat
    BY <2>6, MsbOrder, BitIsNumber
  <2> HIDE DEF v, j
  <2>9. L = X * 2^j + Value(l, j) /\ R = Y * 2^j + Value(r, j)
    BY <2>2, <2>7, PrefixGrows DEF a, b
  <2> HIDE DEF X, Y
  <2>10. /\ state[k + 1].greater <=> X > Y
         /\ state[k + 1].prefix_equal <=> X = Y
    BY <2>5, <2>7, <2>8, Zenon
  <2>11. Ordered(k + 1, X, Y)
    BY <2>9, <2>10 DEF j
  <2> HIDE DEF Ordered
  <2> QED BY <2>5, <2>8, <2>11
<1> HIDE DEF T
<1>15. Nat \subseteq T
  BY <1>13, <1>14, SetInduction
<1>16. PICK x, y \in Nat : Ordered(top, x, y)
  <2> HIDE DEF Ordered
  <2>1. top \in T /\ top <= top
    BY <1>0, <1>15
  <2> QED BY <2>1 DEF T
<1>17. L = x /\ R = y
  <2>0. Value(l, 0) = 0 /\ Value(r, 0) = 0
    BY ValueRecursion
  <2>1. top - top = 0 /\ 2^0 = 1 /\ Value(l, 0) = 0 /\ Value(r, 0) = 0
    BY <1>0, <2>0, PowerOfZero
  <2>2. L = x * 2^(top - top) + Value(l, top - top)
        /\ R = y * 2^(top - top) + Value(r, top - top)
    BY <1>16
  <2>3. L = x * 1 + 0 /\ R = y * 1 + 0
    BY <2>1, <2>2
  <2> QED BY <2>3
<1>18. state[top].greater <=> x > y
  BY <1>16
<1> HIDE DEF L, R
<1>19. (x <= y) <=> ~ (x > y)
  OBVIOUS
<1> QED BY <1>1, <1>17, <1>18, <1>19 DEF L, R

-----------------------------------------------------------------------------
(* The invariant: what is decrypted already, and the three properties.     *)

Decrypted ==
  IF current = "lhs" THEN {}
  ELSE IF current = "rhs" THEN {"lhs"} ELSE {"lhs", "rhs"}

CircuitTypeOK ==
  /\ hsk_mod_q \in SecretKeys
  /\ \A operand \in {"lhs", "rhs"} :
       /\ operands[operand] \in Ciphertext
       /\ Dimension(operands[operand]) = Len(hsk_mod_q)
  /\ current \in {"lhs", "rhs", "compare", "done"}
  /\ terms \in 0 .. Len(hsk_mod_q)
  /\ total \in Word
  /\ plain \in [Decrypted -> Vectors(PlaintextBits)]
  /\ output \in {<<>>, <<TRUE>>, <<FALSE>>}
  /\ output # <<>> => current = "done"

CircuitInv ==
  /\ CircuitTypeOK
  /\ PadAccumulates
  /\ DecryptsOperands
  /\ PredicateOverPlaintexts

(* The key and both operands are of residues, of one length.               *)
LEMMA KeyOfCircuit ==
  ASSUME CircuitTypeOK
  PROVE  /\ hsk_mod_q \in Seq(Residues)
         /\ Len(hsk_mod_q) \in Nat
         /\ \A k \in 1 .. Len(hsk_mod_q) :
              hsk_mod_q[k] \in {0, 1, CiphertextModulus - 1}
         /\ \A operand \in {"lhs", "rhs"} :
              /\ operands[operand] \in Ciphertext
              /\ Len(operands[operand].a) = Len(hsk_mod_q)
              /\ operands[operand].a \in Seq(Residues)
<1>1. hsk_mod_q \in SecretKeys
  BY DEF CircuitTypeOK
<1>2. hsk_mod_q \in Seq(Residues) /\ IsTernary(hsk_mod_q)
  BY <1>1, ParamsAssumption
<1>3. \A operand \in {"lhs", "rhs"} :
        operands[operand] \in Ciphertext
        /\ Len(operands[operand].a) = Len(hsk_mod_q)
  BY DEF CircuitTypeOK, Dimension
<1>4. \A c \in Ciphertext : c.a \in Seq(Residues)
  BY DEF Ciphertext
<1>5. Len(hsk_mod_q) \in Nat
  BY <1>2
<1> QED BY <1>2, <1>3, <1>4, <1>5 DEF IsTernary

(* The wires the accumulator starts from stand for 0.                      *)
LEMMA ZeroWires == ZeroBits \in Word /\ Value(ZeroBits, ModulusBits) = 0
<1>1. 0 \in Residues
  BY Moduli DEF Residues
<1> QED BY <1>1, WordOfResidue DEF ZeroBits

(* The circuit starts with an empty accumulator.                           *)
LEMMA CircuitStarts == Init => CircuitInv
<1> SUFFICES ASSUME Init PROVE CircuitInv
  OBVIOUS
<1>1. /\ hsk_mod_q \in SecretKeys /\ current = "lhs" /\ terms = 0
      /\ total = ZeroBits /\ output = <<>>
      /\ plain = [operand \in {} |-> <<>>]
      /\ operands["lhs"] \in LeftOperands /\ operands["rhs"] \in RightOperands
      /\ Dimension(operands["lhs"]) = Len(hsk_mod_q)
      /\ Dimension(operands["rhs"]) = Len(hsk_mod_q)
  BY DEF Init
<1>2. hsk_mod_q \in Seq(Residues)
  BY <1>1, ParamsAssumption
<1>3. CircuitTypeOK
  <2>1. LeftOperands \subseteq Ciphertext /\ RightOperands \subseteq Ciphertext
    BY ParamsAssumption
  <2>2. terms \in 0 .. Len(hsk_mod_q)
    BY <1>1, <1>2
  <2>3. plain \in [Decrypted -> Vectors(PlaintextBits)]
    BY <1>1 DEF Decrypted
  <2>4. total \in Word
    BY <1>1, ZeroWires
  <2>5. output \in {<<>>, <<TRUE>>, <<FALSE>>}
    BY <1>1, Zenon
  <2> QED BY <1>1, <2>1, <2>2, <2>3, <2>4, <2>5 DEF CircuitTypeOK
<1>4. PadAccumulates
  <2>1. Pad(operands["lhs"], SubSeq(hsk_mod_q, 1, 0)) = 0
    BY <1>2, <1>3, KeyOfCircuit, PadStarts
  <2> QED BY <1>1, <2>1, ZeroWires DEF PadAccumulates
<1>5. DecryptsOperands /\ PredicateOverPlaintexts
  BY <1>1 DEF DecryptsOperands, PredicateOverPlaintexts
<1> QED BY <1>3, <1>4, <1>5 DEF CircuitInv

(* Selecting a term and adding it modulo q keeps the invariant.            *)
LEMMA TermStep == CircuitInv /\ AccumulateTerm => CircuitInv'
<1> SUFFICES ASSUME CircuitInv, AccumulateTerm PROVE CircuitInv'
  OBVIOUS
<1> DEFINE c == operands[current]
           h == hsk_mod_q[terms + 1]
           a == WordOf(c.a[terms + 1])
           term == SecretCoefficientTerm(a, h)
<1>0. CircuitTypeOK /\ PadAccumulates /\ DecryptsOperands
      /\ PredicateOverPlaintexts
  BY DEF CircuitInv
<1>1. /\ current \in {"lhs", "rhs"} /\ terms < Len(hsk_mod_q)
      /\ total' = AddModulo(total, term, FALSE) /\ terms' = terms + 1
      /\ hsk_mod_q' = hsk_mod_q /\ operands' = operands
      /\ current' = current /\ plain' = plain /\ output' = output
  BY DEF AccumulateTerm
<1>2. /\ hsk_mod_q \in Seq(Residues) /\ Len(hsk_mod_q) \in Nat
      /\ c \in Ciphertext /\ Len(c.a) = Len(hsk_mod_q)
      /\ c.a \in Seq(Residues)
      /\ terms \in Nat /\ terms + 1 \in 1 .. Len(hsk_mod_q)
      /\ total \in Word
  <2>1. terms \in 0 .. Len(hsk_mod_q) /\ total \in Word
    BY <1>0 DEF CircuitTypeOK
  <2> QED BY <1>0, <1>1, <2>1, KeyOfCircuit
<1>3. h \in {0, 1, CiphertextModulus - 1} /\ c.a[terms + 1] \in Residues
  BY <1>0, <1>2, KeyOfCircuit
<1> HIDE DEF c, h
<1>4. a \in Word /\ Value(a, ModulusBits) = c.a[terms + 1]
  BY <1>3, WordOfResidue
<1> HIDE DEF a
<1>5. term \in Word /\ Value(term, ModulusBits) = MulMod(c.a[terms + 1], h)
  BY <1>3, <1>4, TermIsProduct
<1> HIDE DEF term
<1>6. /\ total' \in Word
      /\ Value(total', ModulusBits)
           = (Value(total, ModulusBits) + MulMod(c.a[terms + 1], h) + Bit(FALSE))
               % CiphertextModulus
  <2>1. FALSE \in BOOLEAN
    OBVIOUS
  <2>2. /\ AddModulo(total, term, FALSE) \in Word
        /\ Value(AddModulo(total, term, FALSE), ModulusBits)
             = (Value(total, ModulusBits) + Value(term, ModulusBits)
                  + Bit(FALSE)) % CiphertextModulus
    BY <1>2, <1>5, <2>1, AddModuloSum, Zenon
  <2> QED BY <1>1, <1>5, <2>2, Zenon
<1>7. Value(total, ModulusBits) = Pad(c, SubSeq(hsk_mod_q, 1, terms))
  BY <1>0, <1>1 DEF PadAccumulates, c
<1>8. Value(total', ModulusBits) = Pad(c, SubSeq(hsk_mod_q, 1, terms + 1))
  <2> DEFINE V == Value(total, ModulusBits)
             m == MulMod(c.a[terms + 1], h)
  <2>1. V \in Int /\ m \in Int
    <3>1. V \in Int
      BY WordValue
    <3>2. c.a[terms + 1] \in Int /\ h \in Int
      <4>1. CiphertextModulus \in Int
        BY Moduli
      <4>2. h \in Int
        BY <1>3, <4>1
      <4> QED BY <1>3, <4>2, ResidueArithmetic
    <3>3. \A u \in Residues : u \in Int
      BY ResidueArithmetic
    <3> QED BY <3>1, <3>2, <3>3, ResidueArithmetic
  <2>2. Pad(c, SubSeq(hsk_mod_q, 1, terms + 1)) = AddMod(V, m)
    BY <1>1, <1>2, <1>7, PadGrows DEF h
  <2> HIDE DEF V, m
  <2>3. V + m + Bit(FALSE) = V + m
    BY <2>1 DEF Bit
  <2> QED BY <1>6, <2>2, <2>3 DEF AddMod, V, m
<1>9. PadAccumulates'
  BY <1>1, <1>8 DEF PadAccumulates, c
<1>10. CircuitTypeOK'
  <2>1. terms' \in 0 .. Len(hsk_mod_q)
    BY <1>1, <1>2
  <2> QED BY <1>0, <1>1, <1>6, <2>1 DEF CircuitTypeOK, Decrypted
<1>11. DecryptsOperands' /\ PredicateOverPlaintexts'
  BY <1>0, <1>1 DEF DecryptsOperands, PredicateOverPlaintexts
<1> QED BY <1>9, <1>10, <1>11 DEF CircuitInv

(* Subtracting the pad and comparing with the threshold keeps the          *)
(* invariant.                                                              *)
LEMMA DecryptStep == CircuitInv /\ FinishDecrypt => CircuitInv'
<1> SUFFICES ASSUME CircuitInv, FinishDecrypt PROVE CircuitInv'
  OBVIOUS
<1> DEFINE c == operands[current]
           msg == MessageBits(c.body, total)
<1>0. CircuitTypeOK /\ PadAccumulates /\ DecryptsOperands
      /\ PredicateOverPlaintexts
  BY DEF CircuitInv
<1>1. /\ current \in {"lhs", "rhs"} /\ terms = Len(hsk_mod_q)
      /\ plain' = [operand \in DOMAIN plain \cup {current} |->
                     IF operand = current THEN msg ELSE plain[operand]]
      /\ current' = IF current = "lhs" THEN "rhs" ELSE "compare"
      /\ terms' = 0 /\ total' = ZeroBits
      /\ hsk_mod_q' = hsk_mod_q /\ operands' = operands
      /\ output' = output
  BY DEF FinishDecrypt
<1>2. /\ hsk_mod_q \in Seq(Residues) /\ Len(hsk_mod_q) \in Nat
      /\ c \in Ciphertext /\ Len(c.a) = Len(hsk_mod_q)
  BY <1>0, <1>1, KeyOfCircuit
<1>3. /\ total \in Word /\ plain \in [Decrypted -> Vectors(PlaintextBits)]
  BY <1>0 DEF CircuitTypeOK
<1>4. Value(total, ModulusBits) = Pad(c, SubSeq(hsk_mod_q, 1, Len(hsk_mod_q)))
  BY <1>0, <1>1 DEF PadAccumulates
<1> HIDE DEF c
<1>5. Value(total, ModulusBits) = Pad(c, hsk_mod_q)
  BY <1>2, <1>3, <1>4, PadOfWholeKey
<1>6. /\ msg \in Vectors(PlaintextBits)
      /\ Value(msg, PlaintextBits) = Decode(c, hsk_mod_q)
  BY <1>2, <1>3, <1>5, MessageIsDecoded
<1> HIDE DEF msg
<1>7. output = <<>> /\ output' = <<>>
  BY <1>0, <1>1 DEF CircuitTypeOK
<1>8. Decrypted' = Decrypted \cup {current} /\ DOMAIN plain = Decrypted
  BY <1>1, <1>3 DEF Decrypted
<1>9. plain' \in [Decrypted' -> Vectors(PlaintextBits)]
  <2> DEFINE old == Decrypted
             new == Decrypted \cup {current}
  <2>1. \A operand \in new :
          (IF operand = current THEN msg ELSE plain[operand])
             \in Vectors(PlaintextBits)
    BY <1>3, <1>6
  <2>2. plain' = [operand \in new |->
                    IF operand = current THEN msg ELSE plain[operand]]
    BY <1>1, <1>8
  <2> HIDE DEF new
  <2>3. plain' \in [new -> Vectors(PlaintextBits)]
    BY <2>1, <2>2, Zenon
  <2> QED BY <1>8, <2>3 DEF new
<1>10. CircuitTypeOK'
  <2>1. terms' \in 0 .. Len(hsk_mod_q') /\ total' \in Word
    BY <1>1, <1>2, ZeroWires
  <2>2. current' \in {"lhs", "rhs", "compare", "done"}
    BY <1>1
  <2>3. /\ hsk_mod_q' \in SecretKeys
        /\ \A operand \in {"lhs", "rhs"} :
             /\ operands'[operand] \in Ciphertext
             /\ Dimension(operands'[operand]) = Len(hsk_mod_q')
    BY <1>0, <1>1 DEF CircuitTypeOK
  <2>4. output' \in {<<>>, <<TRUE>>, <<FALSE>>}
    BY <1>7, Zenon
  <2> QED BY <1>7, <1>9, <2>1, <2>2, <2>3, <2>4 DEF CircuitTypeOK
<1>11. PadAccumulates'
  <2> SUFFICES ASSUME current' \in {"lhs", "rhs"}
               PROVE  Value(total', ModulusBits) =
                        Pad(operands'[current'], SubSeq(hsk_mod_q', 1, terms'))
    BY DEF PadAccumulates
  <2> DEFINE d == operands[current']
  <2>1. d \in Ciphertext /\ Len(d.a) = Len(hsk_mod_q)
    BY <1>0, KeyOfCircuit
  <2> HIDE DEF d
  <2>2. Pad(d, SubSeq(hsk_mod_q, 1, 0)) = 0
    BY <1>2, <2>1, PadStarts
  <2> QED BY <1>1, <2>2, ZeroWires DEF d
<1>12. DecryptsOperands'
  <2> SUFFICES ASSUME NEW operand \in DOMAIN plain'
               PROVE  Value(plain'[operand], PlaintextBits)
                        = Decode(operands'[operand], hsk_mod_q')
    BY DEF DecryptsOperands
  <2>1. CASE operand = current
    BY <1>1, <1>6, <2>1 DEF c
  <2>2. CASE operand # current
    <3>1. operand \in DOMAIN plain /\ plain'[operand] = plain[operand]
      BY <1>1, <2>2
    <3> QED BY <1>0, <1>1, <3>1 DEF DecryptsOperands
  <2> QED BY <2>1, <2>2
<1>13. PredicateOverPlaintexts'
  BY <1>7 DEF PredicateOverPlaintexts
<1> QED BY <1>10, <1>11, <1>12, <1>13 DEF CircuitInv

(* Comparing the two messages keeps the invariant.                         *)
LEMMA CompareStep == CircuitInv /\ Compare => CircuitInv'
<1> SUFFICES ASSUME CircuitInv, Compare PROVE CircuitInv'
  OBVIOUS
<1> DEFINE l == plain["lhs"]
           r == plain["rhs"]
<1>0. CircuitTypeOK /\ PadAccumulates /\ DecryptsOperands
      /\ PredicateOverPlaintexts
  BY DEF CircuitInv
<1>1. /\ current = "compare" /\ output' = <<LessOrEqual(l, r)>>
      /\ current' = "done"
      /\ hsk_mod_q' = hsk_mod_q /\ operands' = operands /\ terms' = terms
      /\ total' = total /\ plain' = plain
  BY DEF Compare
<1>2. Decrypted = {"lhs", "rhs"} /\ Decrypted' = {"lhs", "rhs"}
  BY <1>1 DEF Decrypted
<1>3. plain \in [{"lhs", "rhs"} -> Vectors(PlaintextBits)]
  BY <1>0, <1>2 DEF CircuitTypeOK
<1>4. /\ l \in Vectors(PlaintextBits) /\ r \in Vectors(PlaintextBits)
      /\ Value(l, PlaintextBits) = Decode(operands["lhs"], hsk_mod_q)
      /\ Value(r, PlaintextBits) = Decode(operands["rhs"], hsk_mod_q)
  BY <1>0, <1>3 DEF DecryptsOperands
<1> HIDE DEF l, r
<1>5. LessOrEqual(l, r) <=> Value(l, PlaintextBits) <= Value(r, PlaintextBits)
  BY <1>4, LessOrEqualOrders
<1>6. LessOrEqual(l, r) \in BOOLEAN
  BY DEF LessOrEqual
<1> DEFINE b == LessOrEqual(l, r)
<1> HIDE DEF b
<1>7. output' \in {<<>>, <<TRUE>>, <<FALSE>>} /\ output'[1] = b
  BY <1>1, <1>6 DEF b
<1>8. CircuitTypeOK'
  BY <1>0, <1>1, <1>2, <1>3, <1>7 DEF CircuitTypeOK
<1>9. PredicateOverPlaintexts'
  BY <1>1, <1>4, <1>5, <1>7 DEF PredicateOverPlaintexts, b
<1>10. PadAccumulates' /\ DecryptsOperands'
  BY <1>0, <1>1 DEF PadAccumulates, DecryptsOperands
<1> QED BY <1>8, <1>9, <1>10 DEF CircuitInv

(* Every step keeps the invariant.                                         *)
LEMMA CircuitStep == CircuitInv /\ [Next]_circuitVars => CircuitInv'
<1> SUFFICES ASSUME CircuitInv, UNCHANGED circuitVars PROVE CircuitInv'
  BY TermStep, DecryptStep, CompareStep DEF Next
<1> QED BY DEF circuitVars, CircuitInv, CircuitTypeOK, Decrypted, PadAccumulates,
               DecryptsOperands, PredicateOverPlaintexts

(* The accumulated wires hold the pad of the coefficients done, modulo q:  *)
(* no negation, selection or dropped carry leaves the reference's residue. *)
THEOREM PadIsAccumulated == Spec => []PadAccumulates
<1>1. CircuitInv => PadAccumulates
  BY DEF CircuitInv
<1> QED BY <1>1, CircuitStarts, CircuitStep, PTL DEF Spec

(* The message bits are what OpenFHE's rounding decodes, for every power-  *)
(* of-two modulus, dimension, ternary key and ciphertext.                  *)
THEOREM OperandsAreDecrypted == Spec => []DecryptsOperands
<1>1. CircuitInv => DecryptsOperands
  BY DEF CircuitInv
<1> QED BY <1>1, CircuitStarts, CircuitStep, PTL DEF Spec

(* The output wire is the predicate over the two plaintexts.               *)
THEOREM OutputIsPredicate == Spec => []PredicateOverPlaintexts
<1>1. CircuitInv => PredicateOverPlaintexts
  BY DEF CircuitInv
<1> QED BY <1>1, CircuitStarts, CircuitStep, PTL DEF Spec
=============================================================================
