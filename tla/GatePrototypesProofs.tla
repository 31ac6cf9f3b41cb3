------------------------ MODULE GatePrototypesProofs ------------------------
(***************************************************************************)
(* The demo loops over encrypted bits, for every width, start and bound;   *)
(* the circuit of gates on ciphertexts, for every mask and noise; and one  *)
(* gate of the bootstrapping reference, for all its parameters, keys and   *)
(* ciphertexts.                                                            *)
(***************************************************************************)
EXTENDS GatePrototypes, BitArithmetic, SequenceTheorems

-----------------------------------------------------------------------------
(* The gate circuit: words of four bits.                                   *)

Word4 == Vectors(4)
GateCiphertext == [mask : [1 .. 4 -> Word4], body : Word4]

(* What four bits stand for.                                               *)
LEMMA ValueOfFour ==
  ASSUME NEW w
  PROVE  Value(w, 4) = Bit(w[0]) + 2 * Bit(w[1]) + 4 * Bit(w[2]) + 8 * Bit(w[3])
<1>1. 2^0 = 1 /\ 2^1 = 2 /\ 2^2 = 4 /\ 2^3 = 8
  <2>1. 2^(0 + 1) = 2 * 2^0 /\ 2^(1 + 1) = 2 * 2^1 /\ 2^(2 + 1) = 2 * 2^2
    BY PowerDoubles
  <2> QED BY <2>1, PowerOfZero
<1>2. /\ Value(w, 0) = 0
      /\ Value(w, 0 + 1) = Value(w, 0) + Bit(w[0]) * 2^0
      /\ Value(w, 1 + 1) = Value(w, 1) + Bit(w[1]) * 2^1
      /\ Value(w, 2 + 1) = Value(w, 2) + Bit(w[2]) * 2^2
      /\ Value(w, 3 + 1) = Value(w, 3) + Bit(w[3]) * 2^3
  BY ValueRecursion
<1>3. /\ Bit(w[0]) \in {0, 1} /\ Bit(w[1]) \in {0, 1}
      /\ Bit(w[2]) \in {0, 1} /\ Bit(w[3]) \in {0, 1}
  BY BitIsNumber
<1> QED BY <1>1, <1>2, <1>3

(* AddModulo drops the carry out of the last bit, which is addition        *)
(* modulo 16.                                                              *)
LEMMA AddIsModular ==
  ASSUME NEW l \in Word4, NEW r \in Word4, NEW c \in BOOLEAN
  PROVE  /\ AddModulo(l, r, c) \in Word4
         /\ Value(AddModulo(l, r, c), 4)
              = (Value(l, 4) + Value(r, 4) + Bit(c)) % 16
<1> DEFINE c1 == CarryBit(l[0], r[0], c)
           c2 == CarryBit(l[1], r[1], c1)
           c3 == CarryBit(l[2], r[2], c2)
           c4 == CarryBit(l[3], r[3], c3)
           s0 == SumBit(l[0], r[0], c)
           s1 == SumBit(l[1], r[1], c1)
           s2 == SumBit(l[2], r[2], c2)
           s3 == SumBit(l[3], r[3], c3)
           carry[k \in Positions] ==
             IF k = 0 THEN c
             ELSE CarryBit(l[k - 1], r[k - 1], carry[k - 1])
           s == [k \in Positions |-> SumBit(l[k], r[k], carry[k])]
<1>1. Positions = {0, 1, 2, 3}
  BY DEF Positions, kModulusBits
<1>2. /\ l[0] \in BOOLEAN /\ l[1] \in BOOLEAN /\ l[2] \in BOOLEAN
      /\ l[3] \in BOOLEAN /\ r[0] \in BOOLEAN /\ r[1] \in BOOLEAN
      /\ r[2] \in BOOLEAN /\ r[3] \in BOOLEAN
  BY DEF Word4, Vectors
<1>3. /\ s0 \in BOOLEAN /\ c1 \in BOOLEAN
      /\ Bit(l[0]) + Bit(r[0]) + Bit(c) = Bit(s0) + 2 * Bit(c1)
  BY <1>2, FullAdder
<1> HIDE DEF c1
<1>4. /\ s1 \in BOOLEAN /\ c2 \in BOOLEAN
      /\ Bit(l[1]) + Bit(r[1]) + Bit(c1) = Bit(s1) + 2 * Bit(c2)
  BY <1>2, <1>3, FullAdder
<1> HIDE DEF c2
<1>5. /\ s2 \in BOOLEAN /\ c3 \in BOOLEAN
      /\ Bit(l[2]) + Bit(r[2]) + Bit(c2) = Bit(s2) + 2 * Bit(c3)
  BY <1>2, <1>4, FullAdder
<1> HIDE DEF c3
<1>6. /\ s3 \in BOOLEAN /\ c4 \in BOOLEAN
      /\ Bit(l[3]) + Bit(r[3]) + Bit(c3) = Bit(s3) + 2 * Bit(c4)
  BY <1>2, <1>5, FullAdder
<1>7. \E g : g = [k \in Positions |->
                    IF k = 0 THEN c
                    ELSE CarryBit(l[k - 1], r[k - 1], g[k - 1])]
  <2> DEFINE g == [k \in Positions |->
                     IF k = 0 THEN c ELSE IF k = 1 THEN c1
                     ELSE IF k = 2 THEN c2 ELSE c3]
  <2>1. g[0] = c /\ g[1] = c1 /\ g[2] = c2 /\ g[3] = c3
    BY <1>1
  <2>2. ASSUME NEW k \in Positions
        PROVE  g[k] = IF k = 0 THEN c
                      ELSE CarryBit(l[k - 1], r[k - 1], g[k - 1])
    <3> HIDE DEF g
    <3>1. CASE k = 0
      BY <2>1, <3>1
    <3>2. CASE k = 1
      BY <2>1, <3>2 DEF c1
    <3>3. CASE k = 2
      BY <2>1, <3>3 DEF c2
    <3>4. CASE k = 3
      BY <2>1, <3>4 DEF c3
    <3> QED BY <1>1, <3>1, <3>2, <3>3, <3>4
  <2>3. g = [k \in Positions |-> IF k = 0 THEN c
                    ELSE CarryBit(l[k - 1], r[k - 1], g[k - 1])]
    BY <2>2
  <2> QED BY <2>3
<1>8. carry = [k \in Positions |->
                 IF k = 0 THEN c
                 ELSE CarryBit(l[k - 1], r[k - 1], carry[k - 1])]
  BY <1>7
<1>9. AddModulo(l, r, c) = s
  BY DEF AddModulo
<1> HIDE DEF carry
<1>10. carry[0] = c /\ carry[1] = c1 /\ carry[2] = c2 /\ carry[3] = c3
  <2>0. /\ carry[0] = c
        /\ carry[1] = CarryBit(l[0], r[0], carry[0])
        /\ carry[2] = CarryBit(l[1], r[1], carry[1])
        /\ carry[3] = CarryBit(l[2], r[2], carry[2])
    <3>1. \A k \in Positions : carry[k] =
            IF k = 0 THEN c ELSE CarryBit(l[k - 1], r[k - 1], carry[k - 1])
      BY <1>8
    <3>2. 1 - 1 = 0 /\ 2 - 1 = 1 /\ 3 - 1 = 2
      OBVIOUS
    <3> QED BY <1>1, <3>1, <3>2
  <2> QED BY <2>0 DEF c1, c2, c3
<1>11. s[0] = s0 /\ s[1] = s1 /\ s[2] = s2 /\ s[3] = s3
  BY <1>1, <1>10
<1>12. s \in Word4
  <2>1. \A k \in Positions : s[k] \in BOOLEAN
    BY <1>1, <1>3, <1>4, <1>5, <1>6, <1>11
  <2>2. 0 .. 4 - 1 = Positions
    BY DEF Positions, kModulusBits
  <2> QED BY <2>1, <2>2 DEF Word4, Vectors
<1> HIDE DEF s, s0, s1, s2, s3, c4
<1>13. Value(l, 4) + Value(r, 4) + Bit(c) = Value(s, 4) + 16 * Bit(c4)
       /\ Value(s, 4) \in 0 .. 15 /\ Bit(c4) \in {0, 1}
  <2>1. /\ Value(l, 4) = Bit(l[0]) + 2 * Bit(l[1]) + 4 * Bit(l[2]) + 8 * Bit(l[3])
        /\ Value(r, 4) = Bit(r[0]) + 2 * Bit(r[1]) + 4 * Bit(r[2]) + 8 * Bit(r[3])
        /\ Value(s, 4) = Bit(s0) + 2 * Bit(s1) + 4 * Bit(s2) + 8 * Bit(s3)
    BY <1>11, ValueOfFour
  <2>2. \A b : Bit(b) \in {0, 1}
    BY BitIsNumber
  <2>3. /\ Bit(l[0]) \in {0, 1} /\ Bit(l[1]) \in {0, 1} /\ Bit(l[2]) \in {0, 1}
        /\ Bit(l[3]) \in {0, 1} /\ Bit(r[0]) \in {0, 1} /\ Bit(r[1]) \in {0, 1}
        /\ Bit(r[2]) \in {0, 1} /\ Bit(r[3]) \in {0, 1} /\ Bit(s0) \in {0, 1}
        /\ Bit(s1) \in {0, 1} /\ Bit(s2) \in {0, 1} /\ Bit(s3) \in {0, 1}
        /\ Bit(c) \in {0, 1} /\ Bit(c1) \in {0, 1} /\ Bit(c2) \in {0, 1}
        /\ Bit(c3) \in {0, 1} /\ Bit(c4) \in {0, 1}
    BY <2>2
  <2> QED BY <1>3, <1>4, <1>5, <1>6, <2>1, <2>3
<1>14. (Value(s, 4) + 16 * Bit(c4)) % 16 = Value(s, 4)
  <2>1. (Value(s, 4) + 16 * Bit(c4)) % 16 = Value(s, 4) % 16
    BY <1>13, ModMultiple
  <2> QED BY <1>13, <2>1, ResidueMod
<1> QED BY <1>9, <1>12, <1>13, <1>14

(* A word is a number below 16.                                            *)
LEMMA WordIsNumber ==
  ASSUME NEW w
  PROVE  Value(w, 4) \in 0 .. 15
<1>1. \A b : Bit(b) \in {0, 1}
  BY BitIsNumber
<1>2. /\ Bit(w[0]) \in {0, 1} /\ Bit(w[1]) \in {0, 1}
      /\ Bit(w[2]) \in {0, 1} /\ Bit(w[3]) \in {0, 1}
  BY <1>1
<1> QED BY <1>2, ValueOfFour

(* The two carries that go in.                                             *)
Sum(l, r)      == AddModulo(l, r, FALSE)
SumAndOne(l, r) == AddModulo(l, r, TRUE)

(* Both are sums modulo 16.                                                *)
LEMMA WordSums ==
  ASSUME NEW l \in Word4, NEW r \in Word4
  PROVE  /\ Sum(l, r) \in Word4
         /\ SumAndOne(l, r) \in Word4
         /\ Value(Sum(l, r), 4) = (Value(l, 4) + Value(r, 4)) % 16
         /\ Value(SumAndOne(l, r), 4) = (Value(l, 4) + Value(r, 4) + 1) % 16
<1> DEFINE zero == Bit(FALSE)
           one == Bit(TRUE)
<1>1. \A c \in BOOLEAN :
        /\ AddModulo(l, r, c) \in Word4
        /\ Value(AddModulo(l, r, c), 4)
             = (Value(l, 4) + Value(r, 4) + Bit(c)) % 16
  BY AddIsModular
<1>2. /\ Sum(l, r) \in Word4
      /\ Value(Sum(l, r), 4) = (Value(l, 4) + Value(r, 4) + zero) % 16
  BY <1>1, Zenon DEF Sum
<1>3. /\ SumAndOne(l, r) \in Word4
      /\ Value(SumAndOne(l, r), 4) = (Value(l, 4) + Value(r, 4) + one) % 16
  BY <1>1, Zenon DEF SumAndOne
<1>4. zero = 0 /\ one = 1
  BY DEF Bit
<1>5. Value(l, 4) \in 0 .. 15 /\ Value(r, 4) \in 0 .. 15
  BY WordIsNumber
<1> HIDE DEF zero, one
<1> QED BY <1>2, <1>3, <1>4, <1>5

(* Reduction of a sum of reduced numbers.                                  *)
LEMMA ModSums ==
  ASSUME NEW x \in Int, NEW y \in Int
  PROVE  /\ x % 16 \in 0 .. 15
         /\ ((x % 16) + y) % 16 = (x + y) % 16
         /\ ((x % 16) + (y % 16)) % 16 = (x + y) % 16
         /\ ((x % 16) - (y % 16)) % 16 = (x - y) % 16
BY SMTT(30)

(* SubtractModulo is subtraction modulo 16.                                *)
LEMMA SubtractIsModular ==
  ASSUME NEW l \in Word4, NEW r \in Word4
  PROVE  /\ SubtractModulo(l, r) \in Word4
         /\ Value(SubtractModulo(l, r), 4) = (Value(l, 4) - Value(r, 4)) % 16
<1> DEFINE inverse == [k \in Positions |-> ~r[k]]
<1>1. Positions = 0 .. 4 - 1
  BY DEF Positions, kModulusBits
<1>2. inverse \in Word4
  BY <1>1 DEF Word4, Vectors
<1>3. \A k \in 0 .. 4 - 1 : inverse[k] = ~r[k]
  BY <1>1
<1>4. SubtractModulo(l, r) = SumAndOne(l, inverse)
  BY DEF SubtractModulo, SumAndOne
<1> HIDE DEF inverse
<1>5. Value(inverse, 4) = 2^4 - 1 - Value(r, 4)
  BY <1>3, ValueInverted DEF Word4
<1>6. 2^4 = 16
  <2>1. 2^(0 + 1) = 2 * 2^0 /\ 2^(1 + 1) = 2 * 2^1 /\ 2^(2 + 1) = 2 * 2^2
        /\ 2^(3 + 1) = 2 * 2^3
    BY PowerDoubles
  <2> QED BY <2>1, PowerOfZero
<1>7. Value(l, 4) \in 0 .. 15 /\ Value(r, 4) \in 0 .. 15
  BY WordIsNumber
<1>9. /\ SubtractModulo(l, r) \in Word4
      /\ Value(SubtractModulo(l, r), 4)
           = (Value(l, 4) + Value(inverse, 4) + 1) % 16
  BY <1>2, <1>4, WordSums
<1>10. Value(l, 4) + Value(inverse, 4) + 1 = Value(l, 4) - Value(r, 4) + 16 * 1
  BY <1>5, <1>6, <1>7
<1>11. (Value(l, 4) - Value(r, 4) + 16 * 1) % 16 = (Value(l, 4) - Value(r, 4)) % 16
  BY <1>7, ModMultiple
<1> QED BY <1>9, <1>10, <1>11

(* A coefficient of the key keeps a mask entry or clears it.               *)
LEMMA SelectedWord ==
  ASSUME NEW w \in Word4, NEW b \in BOOLEAN
  PROVE  /\ SelectBySecretBit(w, b) \in Word4
         /\ Value(SelectBySecretBit(w, b), 4) = IF b THEN Value(w, 4) ELSE 0
<1>1. Positions = 0 .. 4 - 1
  BY DEF Positions, kModulusBits
<1> DEFINE v == SelectBySecretBit(w, b)
<1>2. v = [k \in 0 .. 4 - 1 |-> w[k] /\ b]
  BY <1>1 DEF SelectBySecretBit
<1>3. \A k \in 0 .. 4 - 1 : w[k] \in BOOLEAN
  BY DEF Word4, Vectors
<1>4. v \in Word4
  BY <1>2, <1>3 DEF Word4, Vectors
<1>5. CASE b
  <2>1. v = w
    BY <1>2, <1>3, <1>5 DEF Word4, Vectors
  <2> QED BY <1>4, <1>5, <2>1
<1>6. CASE ~b
  <2>1. ~v[0] /\ ~v[1] /\ ~v[2] /\ ~v[3]
    BY <1>2, <1>6
  <2> HIDE DEF v
  <2>2. Bit(v[0]) = 0 /\ Bit(v[1]) = 0 /\ Bit(v[2]) = 0 /\ Bit(v[3]) = 0
    BY <2>1 DEF Bit
  <2>3. Value(v, 4) = 0
    BY <2>2, ValueOfFour
  <2> QED BY <1>4, <1>6, <2>3 DEF v
<1> QED BY <1>5, <1>6

(* The wires of a number below 16.                                         *)
LEMMA ConstantWord ==
  ASSUME NEW x \in 0 .. 15
  PROVE  /\ ConstantBits(kModulusBits, x) \in Word4
         /\ Value(ConstantBits(kModulusBits, x), 4) = x
<1>1. 2^4 = 16
  <2>1. 2^(0 + 1) = 2 * 2^0 /\ 2^(1 + 1) = 2 * 2^1 /\ 2^(2 + 1) = 2 * 2^2
        /\ 2^(3 + 1) = 2 * 2^3
    BY PowerDoubles
  <2> QED BY <2>1, PowerOfZero
<1>2. x % 16 = x
  BY SMTT(30)
<1>3. x \in Nat /\ 4 \in Nat
  OBVIOUS
<1>4. /\ ConstantBits(4, x) \in Vectors(4)
      /\ Value(ConstantBits(4, x), 4) = x % 2^4
  BY <1>3, ValueOfConstant
<1> QED BY <1>1, <1>2, <1>4 DEF Word4, kModulusBits

(* The dot product with the embedded key, term by term.                    *)
LEMMA DotProduct ==
  ASSUME NEW mask \in [1 .. 4 -> Word4]
  PROVE  /\ DotProductModQ(mask) \in Word4
         /\ Value(DotProductModQ(mask), 4)
              = (Value(mask[1], 4) + Value(mask[3], 4) + Value(mask[4], 4)) % 16
<1> DEFINE key == FixedDemoSecretKey
           zero == ConstantBits(kModulusBits, 0)
           term(i) == SelectBySecretBit(mask[i], key[i])
           next(i, t) == Sum(t, term(i))
           t1 == next(1, zero)
           t2 == next(2, t1)
           t3 == next(3, t2)
           t4 == next(4, t3)
           total[i \in 0 .. kDimension] ==
             IF i = 0 THEN zero ELSE next(i, total[i - 1])
<1>1. DotProductModQ(mask) = total[4]
  BY DEF DotProductModQ, kDimension, Sum
<1>2. 0 .. kDimension = {0, 1, 2, 3, 4}
  BY DEF kDimension
<1>3. \A i \in 1 .. 4 :
        /\ term(i) \in Word4
        /\ Value(term(i), 4) = IF key[i] THEN Value(mask[i], 4) ELSE 0
  <2> TAKE i \in 1 .. 4
  <2>1. mask[i] \in Word4
    OBVIOUS
  <2>2. /\ key[1] \in BOOLEAN /\ key[2] \in BOOLEAN
        /\ key[3] \in BOOLEAN /\ key[4] \in BOOLEAN
    BY DEF FixedDemoSecretKey
  <2> HIDE DEF key
  <2>3. i \in {1, 2, 3, 4}
    OBVIOUS
  <2>4. key[i] \in BOOLEAN
    BY <2>2, <2>3
  <2> QED BY <2>1, <2>4, SelectedWord
<1>4. key[1] /\ ~key[2] /\ key[3] /\ key[4]
  BY DEF FixedDemoSecretKey
<1>5. \A i \in 1 .. 4 : \A t \in Word4 :
        /\ next(i, t) \in Word4
        /\ Value(next(i, t), 4) = (Value(t, 4) + Value(term(i), 4)) % 16
  <2> HIDE DEF term
  <2> QED BY <1>3, WordSums
<1>6. zero \in Word4 /\ Value(zero, 4) = 0
  BY ConstantWord
<1> HIDE DEF zero, next, term, key
<1>7. \E g : g = [i \in 0 .. kDimension |->
                    IF i = 0 THEN zero ELSE next(i, g[i - 1])]
  <2> DEFINE g == [i \in 0 .. kDimension |->
                     IF i = 0 THEN zero ELSE IF i = 1 THEN t1
                     ELSE IF i = 2 THEN t2 ELSE IF i = 3 THEN t3 ELSE t4]
  <2>1. g[0] = zero /\ g[1] = t1 /\ g[2] = t2 /\ g[3] = t3 /\ g[4] = t4
    <3> HIDE DEF t1, t2, t3, t4
    <3> QED BY <1>2
  <2>2. ASSUME NEW i \in 0 .. kDimension
        PROVE  g[i] = IF i = 0 THEN zero ELSE next(i, g[i - 1])
    <3> HIDE DEF g
    <3>1. 1 - 1 = 0 /\ 2 - 1 = 1 /\ 3 - 1 = 2 /\ 4 - 1 = 3
      OBVIOUS
    <3> QED BY <1>2, <2>1, <3>1
  <2>3. g = [i \in 0 .. kDimension |->
               IF i = 0 THEN zero ELSE next(i, g[i - 1])]
    BY <2>2
  <2> QED BY <2>3
<1>8. total = [i \in 0 .. kDimension |->
                 IF i = 0 THEN zero ELSE next(i, total[i - 1])]
  BY <1>7
<1> HIDE DEF total
<1>9. total[4] = t4
  <2>1. \A i \in 0 .. kDimension :
          total[i] = IF i = 0 THEN zero ELSE next(i, total[i - 1])
    BY <1>8
  <2>2. 1 - 1 = 0 /\ 2 - 1 = 1 /\ 3 - 1 = 2 /\ 4 - 1 = 3
    OBVIOUS
  <2>3. /\ total[0] = zero /\ total[1] = next(1, total[0])
        /\ total[2] = next(2, total[1]) /\ total[3] = next(3, total[2])
        /\ total[4] = next(4, total[3])
    BY <1>2, <2>1, <2>2
  <2> QED BY <2>3
<1> DEFINE a == Value(mask[1], 4)
           b == Value(mask[3], 4)
           d == Value(mask[4], 4)
<1>10. a \in 0 .. 15 /\ b \in 0 .. 15 /\ d \in 0 .. 15
  BY WordIsNumber
<1>11. /\ Value(term(1), 4) = a /\ Value(term(2), 4) = 0
       /\ Value(term(3), 4) = b /\ Value(term(4), 4) = d
  BY <1>3, <1>4
<1> HIDE DEF a, b, d
<1>12. t1 \in Word4 /\ Value(t1, 4) = a
  <2>1. t1 \in Word4 /\ Value(t1, 4) = (0 + a) % 16
    BY <1>5, <1>6, <1>11
  <2> QED BY <1>10, <2>1, ResidueMod
<1> HIDE DEF t1
<1>13. t2 \in Word4 /\ Value(t2, 4) = a
  <2>1. t2 \in Word4 /\ Value(t2, 4) = (a + 0) % 16
    BY <1>5, <1>11, <1>12
  <2> QED BY <1>10, <2>1, ResidueMod
<1> HIDE DEF t2
<1>14. t3 \in Word4 /\ Value(t3, 4) = (a + b) % 16
  BY <1>5, <1>11, <1>13
<1> HIDE DEF t3
<1>15. t4 \in Word4 /\ Value(t4, 4) = (((a + b) % 16) + d) % 16
  BY <1>5, <1>11, <1>14
<1>16. (((a + b) % 16) + d) % 16 = (a + b + d) % 16
  <2>1. a + b \in Int /\ d \in Int
    BY <1>10
  <2> QED BY <2>1, ModSums
<1> QED BY <1>1, <1>9, <1>15, <1>16 DEF a, b, d

(* The pad of the demo key on a mask of numbers.                           *)
LEMMA PadOfMask ==
  ASSUME NEW numbers \in [1 .. 4 -> 0 .. 15]
  PROVE  /\ DemoPad(numbers) = (numbers[1] + numbers[3] + numbers[4]) % 16
         /\ DemoPad(numbers) \in 0 .. 15
<1> DEFINE key == FixedDemoSecretKey
<1>1. /\ Bit(key[1]) = 1 /\ Bit(key[2]) = 0
      /\ Bit(key[3]) = 1 /\ Bit(key[4]) = 1
  BY DEF FixedDemoSecretKey, Bit
<1>2. /\ numbers[1] \in 0 .. 15 /\ numbers[2] \in 0 .. 15
      /\ numbers[3] \in 0 .. 15 /\ numbers[4] \in 0 .. 15
  OBVIOUS
<1>3. DemoPad(numbers) =
        (numbers[1] * Bit(key[1]) + numbers[2] * Bit(key[2])
           + numbers[3] * Bit(key[3]) + numbers[4] * Bit(key[4])) % 16
  BY DEF DemoPad
<1> HIDE DEF key
<1>4. numbers[1] * Bit(key[1]) + numbers[2] * Bit(key[2])
        + numbers[3] * Bit(key[3]) + numbers[4] * Bit(key[4])
          = numbers[1] + numbers[3] + numbers[4]
  BY <1>1, <1>2
<1>5. numbers[1] + numbers[3] + numbers[4] \in Int
  BY <1>2
<1> QED BY <1>3, <1>4, <1>5, ModSums

(* The numbers on the wires of a mask.                                     *)
NumbersOf(mask) == [i \in 1 .. kDimension |-> Value(mask[i], kModulusBits)]

(* They are residues of the modulus.                                       *)
LEMMA MaskNumbers ==
  ASSUME NEW mask \in [1 .. 4 -> Word4]
  PROVE  /\ NumbersOf(mask) \in [1 .. 4 -> 0 .. 15]
         /\ \A i \in 1 .. 4 : NumbersOf(mask)[i] = Value(mask[i], 4)
BY WordIsNumber DEF NumbersOf, kDimension, kModulusBits

(* The circuit's dot product is the pad.                                   *)
LEMMA DotProductIsPad ==
  ASSUME NEW mask \in [1 .. 4 -> Word4]
  PROVE  /\ DotProductModQ(mask) \in Word4
         /\ Value(DotProductModQ(mask), 4) = DemoPad(NumbersOf(mask))
         /\ DemoPad(NumbersOf(mask)) \in 0 .. 15
<1>1. NumbersOf(mask) \in [1 .. 4 -> 0 .. 15]
  BY MaskNumbers
<1>2. DemoPad(NumbersOf(mask)) =
        (NumbersOf(mask)[1] + NumbersOf(mask)[3] + NumbersOf(mask)[4]) % 16
  BY <1>1, PadOfMask
<1>3. DemoPad(NumbersOf(mask)) =
        (Value(mask[1], 4) + Value(mask[3], 4) + Value(mask[4], 4)) % 16
  BY <1>2, MaskNumbers
<1> QED BY <1>1, <1>3, DotProduct, PadOfMask

(* The wires of the phase hold the phase.                                  *)
LEMMA PhaseOfWires ==
  ASSUME NEW ct \in GateCiphertext
  PROVE  /\ PhaseBits(ct) \in Word4
         /\ Value(PhaseBits(ct), 4) = PhaseOf(ct)
         /\ PhaseOf(ct) = (Value(ct.body, 4) - DemoPad(NumbersOf(ct.mask))) % 16
<1>1. ct.mask \in [1 .. 4 -> Word4] /\ ct.body \in Word4
  BY DEF GateCiphertext
<1>2. PhaseOf(ct) = (Value(ct.body, 4) - DemoPad(NumbersOf(ct.mask))) % 16
  BY DEF PhaseOf, NumbersOf, kModulusBits
<1> QED BY <1>1, <1>2, DotProductIsPad, SubtractIsModular DEF PhaseBits

(* Ciphertexts are added component by component, and so are their phases.  *)
LEMMA AddedCiphertexts ==
  ASSUME NEW lhs \in GateCiphertext, NEW rhs \in GateCiphertext
  PROVE  /\ AddCiphertextWires(lhs, rhs) \in GateCiphertext
         /\ PhaseOf(AddCiphertextWires(lhs, rhs))
              = (PhaseOf(lhs) + PhaseOf(rhs)) % 16
<1> DEFINE sum == AddCiphertextWires(lhs, rhs)
           L(i) == Value(lhs.mask[i], 4)
           R(i) == Value(rhs.mask[i], 4)
           S(i) == Value(sum.mask[i], 4)
<1>1. /\ lhs.mask \in [1 .. 4 -> Word4] /\ lhs.body \in Word4
      /\ rhs.mask \in [1 .. 4 -> Word4] /\ rhs.body \in Word4
  BY DEF GateCiphertext
<1>2. /\ sum.body = Sum(lhs.body, rhs.body)
      /\ sum.mask = [i \in 1 .. 4 |-> Sum(lhs.mask[i], rhs.mask[i])]
      /\ sum = [mask |-> sum.mask, body |-> sum.body]
  BY DEF AddCiphertextWires, kDimension, Sum
<1> HIDE DEF sum
<1>3. \A i \in 1 .. 4 : sum.mask[i] \in Word4 /\ S(i) = (L(i) + R(i)) % 16
  <2> TAKE i \in 1 .. 4
  <2>1. lhs.mask[i] \in Word4 /\ rhs.mask[i] \in Word4
    BY <1>1
  <2>2. sum.mask[i] = Sum(lhs.mask[i], rhs.mask[i])
    BY <1>2
  <2> QED BY <2>1, <2>2, WordSums
<1>4. sum.body \in Word4
      /\ Value(sum.body, 4) = (Value(lhs.body, 4) + Value(rhs.body, 4)) % 16
  BY <1>1, <1>2, WordSums
<1>5. sum.mask \in [1 .. 4 -> Word4]
  BY <1>2, <1>3
<1>6. sum \in GateCiphertext
  BY <1>2, <1>4, <1>5 DEF GateCiphertext
<1>7. /\ DemoPad(NumbersOf(lhs.mask)) = (L(1) + L(3) + L(4)) % 16
      /\ DemoPad(NumbersOf(rhs.mask)) = (R(1) + R(3) + R(4)) % 16
      /\ DemoPad(NumbersOf(sum.mask)) = (S(1) + S(3) + S(4)) % 16
  BY <1>1, <1>5, DotProductIsPad, DotProduct
<1>8. /\ S(1) = (L(1) + R(1)) % 16 /\ S(3) = (L(3) + R(3)) % 16
      /\ S(4) = (L(4) + R(4)) % 16
  BY <1>3
<1>9. /\ PhaseOf(lhs) = (Value(lhs.body, 4) - DemoPad(NumbersOf(lhs.mask))) % 16
      /\ PhaseOf(rhs) = (Value(rhs.body, 4) - DemoPad(NumbersOf(rhs.mask))) % 16
      /\ PhaseOf(sum) = (Value(sum.body, 4) - DemoPad(NumbersOf(sum.mask))) % 16
  BY <1>6, PhaseOfWires
<1> DEFINE l1 == L(1)  l3 == L(3)  l4 == L(4)  lb == Value(lhs.body, 4)
           r1 == R(1)  r3 == R(3)  r4 == R(4)  rb == Value(rhs.body, 4)
<1>10. /\ l1 \in Int /\ l3 \in Int /\ l4 \in Int /\ lb \in Int
       /\ r1 \in Int /\ r3 \in Int /\ r4 \in Int /\ rb \in Int
  BY WordIsNumber
<1>11. PhaseOf(lhs) = (lb - ((l1 + l3 + l4) % 16)) % 16
       /\ PhaseOf(rhs) = (rb - ((r1 + r3 + r4) % 16)) % 16
       /\ PhaseOf(sum) = (((lb + rb) % 16)
            - ((((l1 + r1) % 16) + ((l3 + r3) % 16) + ((l4 + r4) % 16)) % 16))
                % 16
  BY <1>4, <1>7, <1>8, <1>9
<1> HIDE DEF l1, l3, l4, lb, r1, r3, r4, rb
<1>12. PhaseOf(sum) = (PhaseOf(lhs) + PhaseOf(rhs)) % 16
  BY <1>10, <1>11, SMTT(60)
<1> QED BY <1>6, <1>12 DEF sum

(* A ciphertext under the demo key, of any mask, message and noise.        *)
LEMMA GivenCiphertext ==
  ASSUME NEW mask \in [1 .. 4 -> 0 .. 15], NEW message \in BOOLEAN,
         NEW error \in Int
  PROVE  /\ DemoCiphertext(mask, message, error) \in GateCiphertext
         /\ PhaseOf(DemoCiphertext(mask, message, error))
              = (4 * Bit(message) + error) % 16
<1> DEFINE ct == DemoCiphertext(mask, message, error)
           m == Bit(message)
           pad == DemoPad(mask)
           b == (pad + 4 * m + error) % 16
<1>1. /\ ct = [mask |-> ct.mask, body |-> ct.body]
      /\ ct.mask = [i \in 1 .. 4 |-> ConstantBits(kModulusBits, mask[i])]
      /\ ct.body = ConstantBits(kModulusBits, b)
  BY DEF DemoCiphertext, kDimension
<1>2. pad \in 0 .. 15 /\ m \in {0, 1}
  BY PadOfMask, BitIsNumber
<1> HIDE DEF ct, m, pad
<1>3. b \in 0 .. 15
  BY <1>2, ModSums
<1>4. ct.body \in Word4 /\ Value(ct.body, 4) = b
  BY <1>1, <1>3, ConstantWord
<1>5. /\ ct.mask \in [1 .. 4 -> Word4]
      /\ \A i \in 1 .. 4 : Value(ct.mask[i], 4) = mask[i]
  BY <1>1, ConstantWord
<1>6. ct \in GateCiphertext
  BY <1>1, <1>4, <1>5 DEF GateCiphertext
<1>7. NumbersOf(ct.mask) = mask
  BY <1>5 DEF NumbersOf, kDimension, kModulusBits
<1>8. PhaseOf(ct) = (b - pad) % 16
  BY <1>4, <1>6, <1>7, PhaseOfWires DEF pad
<1>9. (((pad + 4 * m + error) % 16) - pad) % 16 = (4 * m + error) % 16
  <2>1. /\ pad + 4 * m + error \in Int /\ - pad \in Int
        /\ (pad + 4 * m + error) + (- pad) = 4 * m + error
    BY <1>2
  <2>2. (((pad + 4 * m + error) % 16) + (- pad)) % 16
          = ((pad + 4 * m + error) + (- pad)) % 16
    BY <2>1, ModSums
  <2> QED BY <1>2, <2>1, <2>2, ModSums
<1> QED BY <1>6, <1>8, <1>9 DEF ct, m

(* What a gate encrypts has the bit in its phase and no noise.             *)
LEMMA EncryptedBit ==
  ASSUME NEW message \in BOOLEAN
  PROVE  /\ FixedMaskEncryptBit(message) \in GateCiphertext
         /\ PhaseOf(FixedMaskEncryptBit(message)) = 4 * Bit(message)
<1> DEFINE ct == FixedMaskEncryptBit(message)
           bits == [ConstantBits(kModulusBits, 0) EXCEPT ![2] = message]
           m == Bit(message)
           pad == DemoPad(NumbersOf(ct.mask))
<1>1. /\ ct = [mask |-> ct.mask, body |-> ct.body]
      /\ ct.mask = [i \in 1 .. 4 |-> ConstantBits(kModulusBits, FixedDemoMask[i])]
      /\ ct.body = Sum(bits, DotProductModQ(ct.mask))
  BY DEF FixedMaskEncryptBit, kDimension, Sum
<1>2. ct.mask \in [1 .. 4 -> Word4]
  <2>1. \A i \in 1 .. 4 : FixedDemoMask[i] \in 0 .. 15
    BY DEF FixedDemoMask
  <2> HIDE DEF ct
  <2> QED BY <1>1, <2>1, ConstantWord
<1>3. bits \in Word4 /\ Value(bits, 4) = 4 * m
  <2> DEFINE none == ConstantBits(kModulusBits, 0)
  <2>1. none \in Word4 /\ Value(none, 4) = 0
    BY ConstantWord
  <2>2. DOMAIN none = 0 .. 3 /\ \A i \in 0 .. 3 : none[i] \in BOOLEAN
    BY <2>1 DEF Word4, Vectors
  <2>3. bits = [none EXCEPT ![2] = message]
    OBVIOUS
  <2> HIDE DEF none, bits, m
  <2>4. bits \in Word4
    BY <2>1, <2>3 DEF Word4, Vectors
  <2>5. /\ Bit(bits[0]) = Bit(none[0]) /\ Bit(bits[1]) = Bit(none[1])
        /\ Bit(bits[3]) = Bit(none[3]) /\ Bit(bits[2]) = m
    BY <2>2, <2>3 DEF m
  <2>6. \A x : Bit(x) \in {0, 1}
    BY BitIsNumber
  <2>7. /\ Bit(none[0]) \in {0, 1} /\ Bit(none[1]) \in {0, 1}
        /\ Bit(none[2]) \in {0, 1} /\ Bit(none[3]) \in {0, 1} /\ m \in {0, 1}
    BY <2>6 DEF m
  <2>8. /\ Bit(none[0]) = 0 /\ Bit(none[1]) = 0 /\ Bit(none[3]) = 0
    BY <2>1, <2>7, ValueOfFour
  <2>9. Value(bits, 4) = 4 * m
    BY <2>5, <2>7, <2>8, ValueOfFour
  <2> QED BY <2>4, <2>9
<1> HIDE DEF ct, bits
<1>4. /\ DotProductModQ(ct.mask) \in Word4
      /\ Value(DotProductModQ(ct.mask), 4) = pad /\ pad \in 0 .. 15
  BY <1>2, DotProductIsPad
<1>5. ct.body \in Word4 /\ Value(ct.body, 4) = (4 * m + pad) % 16
  BY <1>1, <1>3, <1>4, WordSums
<1>6. ct \in GateCiphertext
  BY <1>1, <1>2, <1>5 DEF GateCiphertext
<1>7. m \in {0, 1}
  BY BitIsNumber
<1>8. PhaseOf(ct) = (((4 * m + pad) % 16) - pad) % 16
  BY <1>5, <1>6, PhaseOfWires
<1> HIDE DEF pad, m
<1>9. (((4 * m + pad) % 16) - pad) % 16 = 4 * m
  BY <1>4, <1>7, SMTT(30)
<1> QED BY <1>6, <1>8, <1>9 DEF ct, m

(* What is doubled for XOR and XNOR only.                                  *)
LEMMA Prebootstrapped ==
  ASSUME NEW lhs \in GateCiphertext, NEW rhs \in GateCiphertext,
         NEW gate \in OpenFHEBinGateKind
  PROVE  /\ Prebootstrap(gate, lhs, rhs) \in GateCiphertext
         /\ PhaseOf(Prebootstrap(gate, lhs, rhs)) =
              (IF gate \in {"Xor", "Xnor"}
               THEN 2 * (PhaseOf(lhs) + PhaseOf(rhs))
               ELSE PhaseOf(lhs) + PhaseOf(rhs)) % 16
<1> DEFINE sum == AddCiphertextWires(lhs, rhs)
           s == PhaseOf(lhs) + PhaseOf(rhs)
<1>1. sum \in GateCiphertext /\ PhaseOf(sum) = s % 16
  BY AddedCiphertexts
<1>2. s \in Int
  <2>1. \A ct \in GateCiphertext : PhaseOf(ct) \in Int
    BY PhaseOfWires, WordIsNumber
  <2> QED BY <2>1
<1> HIDE DEF sum, s
<1>3. CASE gate \in {"Xor", "Xnor"}
  <2>1. Prebootstrap(gate, lhs, rhs) = AddCiphertextWires(sum, sum)
    BY <1>3 DEF Prebootstrap, sum
  <2>2. /\ AddCiphertextWires(sum, sum) \in GateCiphertext
        /\ PhaseOf(AddCiphertextWires(sum, sum)) = ((s % 16) + (s % 16)) % 16
    BY <1>1, AddedCiphertexts
  <2>3. ((s % 16) + (s % 16)) % 16 = (2 * s) % 16
    BY <1>2, ModSums
  <2> QED BY <1>3, <2>1, <2>2, <2>3 DEF s
<1>4. CASE gate \notin {"Xor", "Xnor"}
  <2>1. Prebootstrap(gate, lhs, rhs) = sum
    BY <1>4 DEF Prebootstrap, sum
  <2> QED BY <1>1, <1>4, <2>1 DEF s
<1> QED BY <1>3, <1>4

(* The table stands for the gate as long as the noise of the two inputs    *)
(* adds up to 0, 1 or 2: it truncates the phase.                           *)
LEMMA LookUp ==
  ASSUME NEW gate \in OpenFHEBinGateKind, NEW w \in Word4,
         NEW x \in BOOLEAN, NEW y \in BOOLEAN, NEW e \in 0 .. 2,
         Value(w, 4) = (IF gate \in {"Xor", "Xnor"}
                        THEN 2 * (4 * Bit(x) + 4 * Bit(y) + e)
                        ELSE 4 * Bit(x) + 4 * Bit(y) + e) % 16
  PROVE  BootstrapPlaceholderLut(gate, w) <=> Expected(gate, x, y)
<1>1. /\ w[0] \in BOOLEAN /\ w[1] \in BOOLEAN
      /\ w[2] \in BOOLEAN /\ w[3] \in BOOLEAN
  BY DEF Word4, Vectors
<1> DEFINE s == 4 * Bit(x) + 4 * Bit(y) + e
           b0 == Bit(w[0])
           b1 == Bit(w[1])
           b2 == Bit(w[2])
           b3 == Bit(w[3])
<1>2. /\ b0 \in {0, 1} /\ b1 \in {0, 1} /\ b2 \in {0, 1} /\ b3 \in {0, 1}
      /\ Bit(x) \in {0, 1} /\ Bit(y) \in {0, 1}
  <2>1. \A b : Bit(b) \in {0, 1}
    BY BitIsNumber
  <2> QED BY <2>1
<1>3. Value(w, 4) = b0 + 2 * b1 + 4 * b2 + 8 * b3
  BY ValueOfFour
<1>4. /\ w[2] <=> b2 = 1
      /\ w[3] <=> b3 = 1
      /\ x <=> Bit(x) = 1
      /\ y <=> Bit(y) = 1
  BY <1>1 DEF Bit
<1> HIDE DEF b0, b1, b2, b3
<1>5. CASE gate = "And"
  <2>1. Value(w, 4) = s % 16
    BY <1>5
  <2>2. b3 = 1 <=> Bit(x) = 1 /\ Bit(y) = 1
    BY <1>2, <1>3, <2>1
  <2>3. BootstrapPlaceholderLut(gate, w) = w[3] /\ Expected(gate, x, y) = (x /\ y)
    BY <1>5 DEF BootstrapPlaceholderLut, Expected
  <2> QED BY <1>4, <2>2, <2>3, Zenon
<1>6. CASE gate = "Or"
  <2>1. Value(w, 4) = s % 16
    BY <1>6
  <2>2. (b2 = 1 \/ b3 = 1) <=> (Bit(x) = 1 \/ Bit(y) = 1)
    <3>1. s \in 0 .. 10
      BY <1>2
    <3>2. Value(w, 4) = s
      BY <2>1, <3>1
    <3>3. CASE Bit(x) = 1 \/ Bit(y) = 1
      <4>1. s >= 4
        BY <1>2, <3>3
      <4> HIDE DEF s
      <4> QED BY <1>2, <1>3, <3>1, <3>2, <3>3, <4>1
    <3>4. CASE Bit(x) = 0 /\ Bit(y) = 0
      <4>1. s <= 2
        BY <3>4
      <4> HIDE DEF s
      <4> QED BY <1>2, <1>3, <3>1, <3>2, <3>4, <4>1
    <3> QED BY <1>2, <3>3, <3>4
  <2>3. /\ BootstrapPlaceholderLut(gate, w) = BuildOr(w[2], w[3])
        /\ Expected(gate, x, y) = (x \/ y)
    BY <1>6 DEF BootstrapPlaceholderLut, Expected
  <2>4. BuildOr(w[2], w[3]) <=> w[2] \/ w[3]
    BY <1>1 DEF BuildOr, Xor
  <2> QED BY <1>4, <2>2, <2>3, <2>4, Zenon
<1>7. CASE gate \in {"Xor", "Xnor"}
  <2>1. Value(w, 4) = (2 * s) % 16
    BY <1>7
  <2>2. b3 = 1 <=> ~(Bit(x) = 1 <=> Bit(y) = 1)
    BY <1>2, <1>3, <2>1
  <2>3. w[3] <=> ~(x <=> y)
    BY <1>4, <2>2, Zenon
  <2>4. CASE gate = "Xor"
    <3>1. BootstrapPlaceholderLut(gate, w) = w[3] /\ Expected(gate, x, y) = (x # y)
      BY <2>4 DEF BootstrapPlaceholderLut, Expected
    <3> QED BY <1>1, <2>3, <3>1
  <2>5. CASE gate = "Xnor"
    <3>1. /\ BootstrapPlaceholderLut(gate, w) = ~w[3]
          /\ Expected(gate, x, y) = (x = y)
      BY <2>5 DEF BootstrapPlaceholderLut, Expected
    <3> QED BY <1>1, <2>3, <3>1
  <2> QED BY <1>7, <2>4, <2>5
<1> QED BY <1>5, <1>6, <1>7 DEF OpenFHEBinGateKind

(* Both are bits, whatever the phase.                                      *)
LEMMA GateBits ==
  ASSUME NEW gate \in OpenFHEBinGateKind, NEW w \in Word4,
         NEW x \in BOOLEAN, NEW y \in BOOLEAN
  PROVE  /\ BootstrapPlaceholderLut(gate, w) \in BOOLEAN
         /\ Expected(gate, x, y) \in BOOLEAN
<1>1. w[2] \in BOOLEAN /\ w[3] \in BOOLEAN
  BY DEF Word4, Vectors
<1>2. BuildOr(w[2], w[3]) \in BOOLEAN
  BY <1>1 DEF BuildOr, Xor
<1>3. gate \in {"And", "Or", "Xor", "Xnor"}
  BY DEF OpenFHEBinGateKind
<1>4. BootstrapPlaceholderLut(gate, w) \in BOOLEAN
  BY <1>1, <1>2, <1>3 DEF BootstrapPlaceholderLut
<1>5. Expected(gate, x, y) \in BOOLEAN
  BY <1>3 DEF Expected
<1> QED BY <1>4, <1>5

(* The registers hold ciphertexts of the messages, with the noise.         *)
RegisterInv ==
  IF program = "circuit"
  THEN /\ registers \in [Registers -> GateCiphertext]
       /\ messages \in [Registers -> BOOLEAN]
       /\ noise \in [Registers -> -2 .. 1]
       /\ truncated \in BOOLEAN
       /\ GatesComposeWithoutNoise
  ELSE truncated

(* One gate, on what two registers hold.                                   *)
LEMMA GateIsEvaluated ==
  ASSUME NEW gate \in OpenFHEBinGateKind,
         NEW lhs \in GateCiphertext, NEW rhs \in GateCiphertext,
         NEW x \in BOOLEAN, NEW y \in BOOLEAN,
         NEW m \in -2 .. 1, NEW n \in -2 .. 1
  PROVE  LET ct == BuildDemoEvalBinGate(gate, lhs, rhs)
         IN  /\ ct \in GateCiphertext
             /\ /\ m + n >= 0
                /\ PhaseOf(lhs) = (4 * Bit(x) + m) % 16
                /\ PhaseOf(rhs) = (4 * Bit(y) + n) % 16
                => PhaseOf(ct) = 4 * Bit(Expected(gate, x, y))
<1> DEFINE sum == Prebootstrap(gate, lhs, rhs)
           w == PhaseBits(sum)
           bit == BootstrapPlaceholderLut(gate, w)
           ct == BuildDemoEvalBinGate(gate, lhs, rhs)
           s == PhaseOf(lhs) + PhaseOf(rhs)
           e == m + n
<1>1. /\ sum \in GateCiphertext
      /\ PhaseOf(sum) = (IF gate \in {"Xor", "Xnor"} THEN 2 * s ELSE s) % 16
  BY Prebootstrapped
<1>2. ct = FixedMaskEncryptBit(bit)
  BY DEF BuildDemoEvalBinGate
<1> HIDE DEF sum, ct
<1>3. w \in Word4 /\ Value(w, 4) = PhaseOf(sum)
  BY <1>1, PhaseOfWires
<1> HIDE DEF w
<1>4. bit \in BOOLEAN
  BY <1>3, GateBits
<1> HIDE DEF bit
<1>5. ct \in GateCiphertext /\ PhaseOf(ct) = 4 * Bit(bit)
  BY <1>2, <1>4, EncryptedBit
<1>6. ASSUME e >= 0, PhaseOf(lhs) = (4 * Bit(x) + m) % 16,
             PhaseOf(rhs) = (4 * Bit(y) + n) % 16
      PROVE  bit <=> Expected(gate, x, y)
  <2> DEFINE t == 4 * Bit(x) + 4 * Bit(y) + e
  <2>1. Bit(x) \in {0, 1} /\ Bit(y) \in {0, 1} /\ e \in 0 .. 2
    BY <1>6, BitIsNumber
  <2>2. (IF gate \in {"Xor", "Xnor"} THEN 2 * s ELSE s) % 16
          = (IF gate \in {"Xor", "Xnor"} THEN 2 * t ELSE t) % 16
    <3>1. CASE gate \in {"Xor", "Xnor"}
      <4>1. (2 * s) % 16 = (2 * t) % 16
        BY <1>6, <2>1, SMTT(30)
      <4> QED BY <3>1, <4>1
    <3>2. CASE gate \notin {"Xor", "Xnor"}
      <4>1. s % 16 = t % 16
        BY <1>6, <2>1, SMTT(30)
      <4> QED BY <3>2, <4>1
    <3> QED BY <3>1, <3>2
  <2>3. Value(w, 4) = (IF gate \in {"Xor", "Xnor"} THEN 2 * t ELSE t) % 16
    BY <1>1, <1>3, <2>2
  <2> HIDE DEF e
  <2> QED BY <1>3, <2>1, <2>3, LookUp DEF bit
<1>7. Expected(gate, x, y) \in BOOLEAN
  BY <1>3, GateBits
<1>8. (bit <=> Expected(gate, x, y)) => Bit(bit) = Bit(Expected(gate, x, y))
  BY <1>4, <1>7 DEF Bit
<1> QED BY <1>5, <1>6, <1>8 DEF ct

(* The registers at the start.                                             *)
LEMMA RegistersAtFirst == Init => RegisterInv
<1> SUFFICES ASSUME Init PROVE RegisterInv
  OBVIOUS
<1>1. CASE program # "circuit"
  BY <1>1 DEF Init, NoRegisters, RegisterInv
<1>2. CASE program = "circuit"
  <2>1. GateInit
    BY <1>2 DEF Init
  <2>2. PICK masks \in [Registers -> InputMasks] :
          /\ messages \in [Registers -> BOOLEAN]
          /\ noise \in [Registers -> InputNoise]
          /\ registers = [r \in Registers |->
                            DemoCiphertext(masks[r], messages[r], noise[r])]
          /\ truncated = FALSE
    BY <2>1 DEF GateInit
  <2>3. /\ InputMasks \subseteq [1 .. 4 -> 0 .. 15]
        /\ InputNoise \subseteq -2 .. 1
    BY GateInputAssumption
  <2>4. noise \in [Registers -> -2 .. 1]
    BY <2>2, <2>3
  <2>5. \A r \in Registers :
          /\ registers[r] \in GateCiphertext
          /\ PhaseOf(registers[r]) = (4 * Bit(messages[r]) + noise[r]) % 16
    <3> TAKE r \in Registers
    <3>1. /\ masks[r] \in [1 .. 4 -> 0 .. 15] /\ messages[r] \in BOOLEAN
          /\ noise[r] \in Int
      BY <2>2, <2>3, <2>4
    <3>2. registers[r] = DemoCiphertext(masks[r], messages[r], noise[r])
      BY <2>2
    <3> QED BY <3>1, <3>2, GivenCiphertext
  <2>6. registers \in [Registers -> GateCiphertext]
    BY <2>2, <2>5
  <2>7. GatesComposeWithoutNoise
    BY <2>5 DEF GatesComposeWithoutNoise
  <2> QED BY <1>2, <2>2, <2>4, <2>6, <2>7 DEF RegisterInv
<1> QED BY <1>1, <1>2

(* A gate replaces one register by a ciphertext without noise; the others  *)
(* are as they were.                                                       *)
LEMMA RegistersKept == RegisterInv /\ [Next]_vars => RegisterInv'
<1> SUFFICES ASSUME RegisterInv, [Next]_vars PROVE RegisterInv'
  OBVIOUS
<1>1. CASE GateStep
  <2>1. program = "circuit" /\ program' = program
    BY <1>1 DEF GateStep
  <2>2. PICK gate \in OpenFHEBinGateKind :
          \E lhs, rhs, out \in Registers : EvalBinGateInto(gate, lhs, rhs, out)
    BY <1>1 DEF GateStep, GateNext
  <2>3. PICK lhs \in Registers, rhs \in Registers, out \in Registers :
          EvalBinGateInto(gate, lhs, rhs, out)
    BY <2>2
  <2> DEFINE ct == BuildDemoEvalBinGate(gate, registers[lhs], registers[rhs])
             m == Expected(gate, messages[lhs], messages[rhs])
  <2>4. /\ registers' = [registers EXCEPT ![out] = ct]
        /\ messages' = [messages EXCEPT ![out] = m]
        /\ noise' = [noise EXCEPT ![out] = 0]
        /\ truncated' = (truncated \/ noise[lhs] + noise[rhs] < 0)
    BY <2>3 DEF EvalBinGateInto
  <2>5. /\ registers \in [Registers -> GateCiphertext]
        /\ messages \in [Registers -> BOOLEAN]
        /\ noise \in [Registers -> -2 .. 1]
        /\ truncated \in BOOLEAN /\ GatesComposeWithoutNoise
    BY <2>1 DEF RegisterInv
  <2>6. /\ registers[lhs] \in GateCiphertext /\ registers[rhs] \in GateCiphertext
        /\ messages[lhs] \in BOOLEAN /\ messages[rhs] \in BOOLEAN
        /\ noise[lhs] \in -2 .. 1 /\ noise[rhs] \in -2 .. 1
    BY <2>5
  <2>7. m \in BOOLEAN
    <3>1. ConstantBits(kModulusBits, 0) \in Word4
      BY ConstantWord
    <3> QED BY <2>6, <3>1, GateBits
  <2>8. /\ ct \in GateCiphertext
        /\ /\ noise[lhs] + noise[rhs] >= 0
           /\ PhaseOf(registers[lhs]) = (4 * Bit(messages[lhs]) + noise[lhs]) % 16
           /\ PhaseOf(registers[rhs]) = (4 * Bit(messages[rhs]) + noise[rhs]) % 16
           => PhaseOf(ct) = 4 * Bit(m)
    BY <2>6, GateIsEvaluated
  <2> HIDE DEF ct, m
  <2>9. /\ registers' \in [Registers -> GateCiphertext]
        /\ messages' \in [Registers -> BOOLEAN]
        /\ noise' \in [Registers -> -2 .. 1]
        /\ truncated' \in BOOLEAN
    BY <2>4, <2>5, <2>7, <2>8
  <2>10. ASSUME ~truncated', NEW r \in Registers
         PROVE  PhaseOf(registers'[r]) = (4 * Bit(messages'[r]) + noise'[r]) % 16
    <3>1. ~truncated /\ noise[lhs] + noise[rhs] >= 0
      <4>1. ~truncated /\ ~ (noise[lhs] + noise[rhs] < 0)
        BY <2>4, <2>10
      <4>2. noise[lhs] \in Int /\ noise[rhs] \in Int
        BY <2>6
      <4> QED BY <4>1, <4>2
    <3>2. \A k \in Registers :
            PhaseOf(registers[k]) = (4 * Bit(messages[k]) + noise[k]) % 16
      BY <2>5, <3>1 DEF GatesComposeWithoutNoise
    <3>3. CASE r # out
      <4>1. /\ registers'[r] = registers[r] /\ messages'[r] = messages[r]
            /\ noise'[r] = noise[r]
        BY <2>4, <2>5, <3>3
      <4> QED BY <3>2, <4>1
    <3>4. CASE r = out
      <4>1. registers'[r] = ct /\ messages'[r] = m /\ noise'[r] = 0
        BY <2>4, <2>5, <3>4
      <4>2. PhaseOf(ct) = 4 * Bit(m)
        BY <2>8, <3>1, <3>2
      <4>3. Bit(m) \in {0, 1}
        BY BitIsNumber
      <4>4. (4 * Bit(m) + 0) % 16 = 4 * Bit(m)
        BY <4>3
      <4> QED BY <4>1, <4>2, <4>4
    <3> QED BY <3>3, <3>4
  <2>11. GatesComposeWithoutNoise'
    BY <2>10 DEF GatesComposeWithoutNoise
  <2> QED BY <2>1, <2>9, <2>11 DEF RegisterInv
<1>2. CASE UNCHANGED <<program, gateVars>>
  <2>1. UNCHANGED <<program, registers, messages, noise, truncated>>
    BY <1>2 DEF gateVars
  <2>2. GatesComposeWithoutNoise => GatesComposeWithoutNoise'
    BY <2>1 DEF GatesComposeWithoutNoise
  <2> QED BY <2>1, <2>2 DEF RegisterInv
<1> QED BY <1>1, <1>2 DEF Next, RevealStep, BootStep, vars

(* However gates follow each other on the registers, with any masks and    *)
(* any noise that decrypts: the ciphertexts are those of the plain bits,   *)
(* and a gate leaves no noise, unless noise below zero met the look-up.    *)
THEOREM GatesCompose == Spec => []GatesComposeWithoutNoise
<1>1. RegisterInv => GatesComposeWithoutNoise
  BY DEF RegisterInv, GatesComposeWithoutNoise
<1> QED BY <1>1, RegistersAtFirst, RegistersKept, PTL DEF Spec

-----------------------------------------------------------------------------
(* The demo loops: integers of any width, bit by bit.                      *)

(* The width and its greatest number.                                      *)
LEMMA Widths ==
  /\ Width \in Nat \ {0} /\ 2^Width \in Nat \ {0} /\ 2^Width >= 2
  /\ Top = 2^Width - 1 /\ Top >= 1
  /\ MaxRevealed = 2^Width + 1
<1>1. Width \in Nat \ {0}
  BY LoopAssumption
<1>2. 2^Width \in Nat \ {0}
  BY <1>1, PowerIsPositive
<1>3. 2^Width >= 2
  <2>1. Width - 1 \in Nat /\ (Width - 1) + 1 = Width
    BY <1>1
  <2>2. 2^(Width - 1) \in Nat \ {0} /\ 2^((Width - 1) + 1) = 2 * 2^(Width - 1)
    BY <2>1, PowerIsPositive, PowerDoubles
  <2> QED BY <2>1, <2>2
<1> QED BY <1>1, <1>2, <1>3 DEF Top, MaxRevealed

(* Add drops the last carry, which is addition modulo 2^Width.             *)
LEMMA AddDropsCarry ==
  ASSUME NEW lhs \in Vectors(Width), NEW rhs \in Vectors(Width)
  PROVE  /\ Add(lhs, rhs) \in Vectors(Width)
         /\ NumberOf(Add(lhs, rhs)) = (NumberOf(lhs) + NumberOf(rhs)) % 2^Width
<1> DEFINE carry[k \in 1 .. Width] ==
             IF k = 1 THEN lhs[0] /\ rhs[0]
             ELSE Xor(lhs[k - 1] /\ rhs[k - 1],
                      Xor(lhs[k - 1], rhs[k - 1]) /\ carry[k - 1])
           s == [k \in 0 .. Width - 1 |->
                   IF k = 0 THEN Xor(lhs[0], rhs[0])
                   ELSE Xor(Xor(lhs[k], rhs[k]), carry[k])]
           step == [k \in Nat |-> [v \in BOOLEAN |->
                      IF k < Width THEN CarryBit(lhs[k], rhs[k], v) ELSE v]]
<1>1. Width \in Nat \ {0}
  BY Widths
<1>2. \A k \in 0 .. Width - 1 : lhs[k] \in BOOLEAN /\ rhs[k] \in BOOLEAN
  BY DEF Vectors
<1>3. step \in [Nat -> [BOOLEAN -> BOOLEAN]]
  <2>1. ASSUME NEW k \in Nat, NEW v \in BOOLEAN
        PROVE  (IF k < Width THEN CarryBit(lhs[k], rhs[k], v) ELSE v) \in BOOLEAN
    <3>1. CASE k < Width
      <4>1. lhs[k] \in BOOLEAN /\ rhs[k] \in BOOLEAN
        BY <1>1, <1>2, <3>1
      <4> QED BY <3>1, <4>1, FullAdder
    <3>2. CASE ~ (k < Width)
      BY <3>2
    <3> QED BY <3>1, <3>2
  <2> QED BY <2>1
<1>4. \A k \in 0 .. Width - 1 : \A v \in BOOLEAN :
        step[k][v] = CarryBit(lhs[k], rhs[k], v)
  BY <1>1
<1> HIDE DEF step
<1>5. PICK f \in [0 .. Width -> BOOLEAN] : Follows(f, FALSE, step, Width)
  <2>1. Recursion(BOOLEAN, FALSE, step)
    BY <1>3 DEF Recursion
  <2> QED BY <1>1, <2>1, RecursionPartial
<1>6. /\ ~f[0] /\ f[0] \in BOOLEAN
      /\ \A k \in 0 .. Width - 1 :
           f[k] \in BOOLEAN /\ f[k + 1] = CarryBit(lhs[k], rhs[k], f[k])
  <2>1. \A k \in 0 .. Width - 1 : f[k] \in BOOLEAN
    BY <1>1
  <2>2. f[0] = FALSE
    BY <1>5, Zenon DEF Follows
  <2>3. \A k \in 0 .. Width - 1 : f[k + 1] = step[k][f[k]]
    BY <1>5 DEF Follows
  <2>4. f[0] \in BOOLEAN /\ ~f[0]
    BY <2>2
  <2> QED BY <1>4, <2>1, <2>3, <2>4
<1>7. \E g : g = [k \in 1 .. Width |->
                    IF k = 1 THEN lhs[0] /\ rhs[0]
                    ELSE Xor(lhs[k - 1] /\ rhs[k - 1],
                             Xor(lhs[k - 1], rhs[k - 1]) /\ g[k - 1])]
  <2> DEFINE g == [k \in 1 .. Width |-> f[k]]
  <2>1. ASSUME NEW k \in 1 .. Width
        PROVE  f[k] = IF k = 1 THEN lhs[0] /\ rhs[0]
                      ELSE Xor(lhs[k - 1] /\ rhs[k - 1],
                               Xor(lhs[k - 1], rhs[k - 1]) /\ g[k - 1])
    <3>1. /\ k - 1 \in 0 .. Width - 1 /\ (k - 1) + 1 = k
          /\ lhs[k - 1] \in BOOLEAN /\ rhs[k - 1] \in BOOLEAN
      BY <1>1, <1>2
    <3>2. f[k] = CarryBit(lhs[k - 1], rhs[k - 1], f[k - 1])
          /\ f[k - 1] \in BOOLEAN
      BY <1>6, <3>1
    <3>3. CASE k = 1
      <4>1. k - 1 = 0
        BY <3>3
      <4>2. ~ f[k - 1]
        BY <1>6, <4>1
      <4>3. CarryBit(lhs[k - 1], rhs[k - 1], f[k - 1])
              = (lhs[k - 1] /\ rhs[k - 1])
        BY <3>1, <3>2, <4>2 DEF CarryBit, BuildOr, Xor
      <4>4. f[k] = (lhs[0] /\ rhs[0])
        BY <3>2, <4>1, <4>3
      <4> QED BY <3>3, <4>4
    <3>4. CASE k # 1
      <4>1. k - 1 \in 1 .. Width
        BY <1>1, <3>4
      <4>2. g[k - 1] = f[k - 1]
        BY <4>1
      <4>3. CarryBit(lhs[k - 1], rhs[k - 1], f[k - 1])
              = Xor(lhs[k - 1] /\ rhs[k - 1],
                    Xor(lhs[k - 1], rhs[k - 1]) /\ f[k - 1])
        BY <3>1, <3>2 DEF CarryBit, BuildOr, Xor
      <4>4. f[k] = Xor(lhs[k - 1] /\ rhs[k - 1],
                       Xor(lhs[k - 1], rhs[k - 1]) /\ f[k - 1])
        BY <3>2, <4>3, Zenon
      <4> QED BY <3>4, <4>2, <4>4
    <3> QED BY <3>3, <3>4
  <2>2. g = [k \in 1 .. Width |->
               IF k = 1 THEN lhs[0] /\ rhs[0]
               ELSE Xor(lhs[k - 1] /\ rhs[k - 1],
                        Xor(lhs[k - 1], rhs[k - 1]) /\ g[k - 1])]
    BY <2>1
  <2> QED BY <2>2
<1>8. carry = [k \in 1 .. Width |->
                 IF k = 1 THEN lhs[0] /\ rhs[0]
                 ELSE Xor(lhs[k - 1] /\ rhs[k - 1],
                          Xor(lhs[k - 1], rhs[k - 1]) /\ carry[k - 1])]
  BY <1>7
<1>9. Add(lhs, rhs) = s
  BY DEF Add
<1>10. s \in [0 .. Width - 1 -> BOOLEAN]
  BY DEF Xor
<1> DEFINE c == [k \in 0 .. Width |-> IF k = 0 THEN f[0] ELSE carry[k]]
<1> HIDE DEF carry
<1>11. \A k \in 1 .. Width : carry[k] \in BOOLEAN
  <2> TAKE k \in 1 .. Width
  <2>1. CASE k = 1
    <3>1. carry[k] = (lhs[0] /\ rhs[0])
      BY <1>8, <2>1
    <3> QED BY <3>1
  <2>2. CASE k # 1
    <3>1. carry[k] = Xor(lhs[k - 1] /\ rhs[k - 1],
                         Xor(lhs[k - 1], rhs[k - 1]) /\ carry[k - 1])
      BY <1>8, <2>2
    <3> QED BY <3>1 DEF Xor
  <2> QED BY <2>1, <2>2
<1>12. ASSUME NEW k \in 0 .. Width - 1
       PROVE  /\ c[k] \in BOOLEAN
              /\ c[k + 1] = CarryBit(lhs[k], rhs[k], c[k])
              /\ s[k] = SumBit(lhs[k], rhs[k], c[k])
  <2>1. lhs[k] \in BOOLEAN /\ rhs[k] \in BOOLEAN
    BY <1>2
  <2>2. k + 1 \in 1 .. Width /\ k + 1 \in 0 .. Width /\ k \in 0 .. Width
        /\ (k + 1) - 1 = k /\ k + 1 # 0
    BY <1>1
  <2>3. c[k + 1] = carry[k + 1]
    BY <2>2
  <2>4. CASE k = 0
    <3>1. c[k] = f[0] /\ k + 1 = 1
      BY <2>2, <2>4
    <3>2. carry[k + 1] = (lhs[0] /\ rhs[0])
      BY <1>8, <2>2, <3>1
    <3>3. s[k] = Xor(lhs[0], rhs[0])
      BY <2>4
    <3>4. c[k] \in BOOLEAN /\ ~c[k]
      BY <1>6, <3>1
    <3> HIDE DEF c, s
    <3>5. carry[k + 1] = (lhs[k] /\ rhs[k]) /\ s[k] = Xor(lhs[k], rhs[k])
      BY <2>4, <3>2, <3>3
    <3>6. /\ CarryBit(lhs[k], rhs[k], c[k]) = (lhs[k] /\ rhs[k])
          /\ SumBit(lhs[k], rhs[k], c[k]) = Xor(lhs[k], rhs[k])
      BY <2>1, <3>4 DEF CarryBit, SumBit, BuildOr, Xor
    <3> QED BY <2>3, <3>4, <3>5, <3>6, Zenon
  <2>5. CASE k # 0
    <3>1. c[k] = carry[k] /\ k \in 1 .. Width /\ k + 1 # 1
      BY <1>1, <2>2, <2>5
    <3>2. carry[k] \in BOOLEAN
      BY <1>11, <3>1
    <3>3. carry[k + 1] = Xor(lhs[k] /\ rhs[k],
                             Xor(lhs[k], rhs[k]) /\ carry[k])
      BY <1>8, <2>2, <3>1
    <3>4. s[k] = Xor(Xor(lhs[k], rhs[k]), carry[k])
      BY <2>5
    <3> HIDE DEF c, s
    <3>5. /\ CarryBit(lhs[k], rhs[k], carry[k])
               = Xor(lhs[k] /\ rhs[k], Xor(lhs[k], rhs[k]) /\ carry[k])
          /\ SumBit(lhs[k], rhs[k], carry[k])
               = Xor(Xor(lhs[k], rhs[k]), carry[k])
      BY <2>1, <3>2 DEF CarryBit, SumBit, BuildOr, Xor
    <3> QED BY <2>3, <3>1, <3>2, <3>3, <3>4, <3>5
  <2> QED BY <2>4, <2>5
<1>13. c[0] = f[0] /\ c[0] \in BOOLEAN /\ ~c[0]
  <2>1. c[0] = f[0]
    BY <1>1
  <2> QED BY <1>6, <2>1
<1> HIDE DEF c, s
<1>14. /\ \A k \in 0 .. Width : c[k] \in BOOLEAN
       /\ Value(lhs, Width) + Value(rhs, Width) + Bit(c[0])
            = Value(s, Width) + Bit(c[Width]) * 2^Width
  <2>1. Ripples(lhs, rhs, c, s, Width)
    BY <1>1, <1>2, <1>12, <1>13 DEF Ripples
  <2> QED BY <1>1, <1>2, <2>1, RippleSum
<1> DEFINE P == 2^Width
           L == Value(lhs, Width)
           R == Value(rhs, Width)
           V == Value(s, Width)
           b == Bit(c[Width])
<1>15. P \in Nat \ {0} /\ V \in 0 .. P - 1 /\ L \in Int /\ R \in Int
  BY <1>1, PowerIsPositive, ValueBound
<1>16. b \in {0, 1} /\ Bit(c[0]) = 0
  BY <1>13, BitIsNumber DEF Bit
<1>17. L + R = V + b * P
  BY <1>14, <1>15, <1>16
<1>18. (L + R) % P = V
  <2> HIDE DEF L, R, V, P, b
  <2>1. L + R = V + P * b
    BY <1>15, <1>16, <1>17
  <2>2. (V + P * b) % P = V % P
    <3>1. V \in Int /\ b \in Int
      BY <1>15, <1>16
    <3> QED BY <1>15, <3>1, ModMultiple
  <2>3. V % P = V
    BY <1>15, ResidueMod
  <2> QED BY <2>1, <2>2, <2>3
<1> QED BY <1>9, <1>10, <1>18 DEF L, R, V, P, NumberOf, Vectors

(* The comparator from the least significant bit up orders the numbers.    *)
LEMMA LastDifferenceDecides ==
  ASSUME NEW w \in Nat, NEW l, NEW r, NEW c,
         \A k \in 0 .. w - 1 : l[k] \in BOOLEAN /\ r[k] \in BOOLEAN,
         c[0] \in BOOLEAN, ~c[0],
         \A k \in 0 .. w - 1 : c[k + 1] = GreaterUpTo(c[k], l[k], r[k])
  PROVE  c[w] \in BOOLEAN /\ (c[w] <=> Value(l, w) > Value(r, w))
<1> DEFINE Ordered(n) == c[n] <=> Value(l, n) > Value(r, n)
           S == {n \in Nat : n <= w => c[n] \in BOOLEAN /\ Ordered(n)}
<1>1. 0 \in S
  <2>1. ~ (Value(l, 0) > Value(r, 0))
    BY ValueRecursion
  <2> QED BY <2>1
<1>2. ASSUME NEW n \in Nat, n \in S
      PROVE  n + 1 \in S
  <2> SUFFICES ASSUME n + 1 <= w PROVE c[n + 1] \in BOOLEAN /\ Ordered(n + 1)
    OBVIOUS
  <2> DEFINE P == 2^n
             x == Value(l, n)
             y == Value(r, n)
             a == l[n]
             b == r[n]
  <2>1. c[n] \in BOOLEAN /\ (c[n] <=> x > y)
    BY <1>2
  <2>2. n \in 0 .. w - 1
    OBVIOUS
  <2>3. a \in BOOLEAN /\ b \in BOOLEAN /\ c[n + 1] = GreaterUpTo(c[n], a, b)
    BY <2>2
  <2>4. /\ P \in Nat /\ x \in 0 .. P - 1 /\ y \in 0 .. P - 1
        /\ Value(l, n + 1) = x + Bit(a) * P
        /\ Value(r, n + 1) = y + Bit(b) * P
    BY PowersAreNumbers, ValueBound, ValueRecursion
  <2> HIDE DEF P, x, y, a, b
  <2>5. /\ c[n + 1] \in BOOLEAN
        /\ c[n + 1] <=> ((a /\ ~b) \/ ((a <=> b) /\ c[n]))
    <3>1. /\ GreaterUpTo(c[n], a, b) \in BOOLEAN
          /\ GreaterUpTo(c[n], a, b) <=> ((a /\ ~b) \/ ((a <=> b) /\ c[n]))
      BY <2>1, <2>3, ComparatorGates, Zenon
    <3> QED BY <2>3, <3>1, Zenon
  <2>6. (x + Bit(a) * P > y + Bit(b) * P)
          <=> ((a /\ ~b) \/ ((a <=> b) /\ x > y))
    BY <2>3, <2>4, LsbOrder
  <2>7. (Value(l, n + 1) > Value(r, n + 1))
          <=> ((a /\ ~b) \/ ((a <=> b) /\ c[n]))
    <3>1. (Value(l, n + 1) > Value(r, n + 1))
            <=> (x + Bit(a) * P > y + Bit(b) * P)
      BY <2>4
    <3> QED BY <2>1, <2>6, <3>1, Zenon
  <2> QED BY <2>5, <2>7, Zenon
<1> HIDE DEF S
<1>3. Nat \subseteq S
  BY <1>1, <1>2, SetInduction
<1> QED BY <1>3 DEF S

(* The predicate is the order of the two numbers.                          *)
LEMMA PredicateIsOrder ==
  ASSUME NEW x \in Vectors(Width), NEW b \in Vectors(Width)
  PROVE  /\ PredicateMessage(x, b) \in BOOLEAN
         /\ PredicateMessage(x, b) <=> NumberOf(x) <= NumberOf(b)
<1> DEFINE greater[k \in 0 .. Width - 1] ==
             IF k = 0 THEN ~b[0] /\ x[0]
             ELSE GreaterUpTo(greater[k - 1], x[k], b[k])
           step == [k \in Nat |-> [v \in BOOLEAN |->
                      IF k < Width THEN GreaterUpTo(v, x[k], b[k]) ELSE v]]
<1>1. Width \in Nat \ {0}
  BY Widths
<1>2. \A k \in 0 .. Width - 1 : x[k] \in BOOLEAN /\ b[k] \in BOOLEAN
  BY DEF Vectors
<1>3. step \in [Nat -> [BOOLEAN -> BOOLEAN]]
  <2>1. ASSUME NEW k \in Nat, NEW v \in BOOLEAN
        PROVE  (IF k < Width THEN GreaterUpTo(v, x[k], b[k]) ELSE v) \in BOOLEAN
    <3>1. CASE k < Width
      <4>1. x[k] \in BOOLEAN /\ b[k] \in BOOLEAN
        BY <1>1, <1>2, <3>1
      <4> QED BY <3>1, <4>1, ComparatorGates
    <3>2. CASE ~ (k < Width)
      BY <3>2
    <3> QED BY <3>1, <3>2
  <2> QED BY <2>1
<1>4. \A k \in 0 .. Width - 1 : \A v \in BOOLEAN :
        step[k][v] = GreaterUpTo(v, x[k], b[k])
  BY <1>1
<1> HIDE DEF step
<1>5. PICK f \in [0 .. Width -> BOOLEAN] : Follows(f, FALSE, step, Width)
  <2>1. Recursion(BOOLEAN, FALSE, step)
    BY <1>3 DEF Recursion
  <2> QED BY <1>1, <2>1, RecursionPartial
<1>6. /\ ~f[0] /\ f[0] \in BOOLEAN
      /\ \A k \in 0 .. Width - 1 :
           f[k] \in BOOLEAN /\ f[k + 1] = GreaterUpTo(f[k], x[k], b[k])
  <2>1. \A k \in 0 .. Width - 1 : f[k] \in BOOLEAN
    BY <1>1
  <2>2. f[0] = FALSE
    BY <1>5, Zenon DEF Follows
  <2>3. \A k \in 0 .. Width - 1 : f[k + 1] = step[k][f[k]]
    BY <1>5 DEF Follows
  <2>4. f[0] \in BOOLEAN /\ ~f[0]
    BY <2>2
  <2> QED BY <1>4, <2>1, <2>3, <2>4
<1>7. ASSUME NEW l \in BOOLEAN, NEW r \in BOOLEAN, NEW g \in BOOLEAN, ~g
      PROVE  GreaterUpTo(g, l, r) = (~r /\ l)
  BY <1>7 DEF GreaterUpTo, Xor
<1>8. \E g : g = [k \in 0 .. Width - 1 |->
                    IF k = 0 THEN ~b[0] /\ x[0]
                    ELSE GreaterUpTo(g[k - 1], x[k], b[k])]
  <2> DEFINE g == [k \in 0 .. Width - 1 |-> f[k + 1]]
  <2>1. ASSUME NEW k \in 0 .. Width - 1
        PROVE  f[k + 1] = IF k = 0 THEN ~b[0] /\ x[0]
                          ELSE GreaterUpTo(g[k - 1], x[k], b[k])
    <3>1. f[k + 1] = GreaterUpTo(f[k], x[k], b[k])
      BY <1>6
    <3>2. CASE k = 0
      <4>1. x[k] \in BOOLEAN /\ b[k] \in BOOLEAN
        BY <1>2
      <4>2. f[k] \in BOOLEAN /\ ~f[k]
        BY <1>6, <3>2
      <4>3. f[k + 1] = (~b[k] /\ x[k])
        BY <1>7, <3>1, <4>1, <4>2
      <4> QED BY <3>2, <4>3
    <3>3. CASE k # 0
      <4>1. k - 1 \in 0 .. Width - 1 /\ (k - 1) + 1 = k
        BY <1>1, <3>3
      <4>2. g[k - 1] = f[k]
        BY <4>1
      <4> QED BY <3>1, <3>3, <4>2
    <3> QED BY <3>2, <3>3
  <2>2. g = [k \in 0 .. Width - 1 |->
               IF k = 0 THEN ~b[0] /\ x[0]
               ELSE GreaterUpTo(g[k - 1], x[k], b[k])]
    BY <2>1
  <2> QED BY <2>2
<1>9. greater = [k \in 0 .. Width - 1 |->
                   IF k = 0 THEN ~b[0] /\ x[0]
                   ELSE GreaterUpTo(greater[k - 1], x[k], b[k])]
  BY <1>8
<1>10. PredicateMessage(x, b) = ~greater[Width - 1]
  BY DEF PredicateMessage
<1> DEFINE c == [k \in 0 .. Width |-> IF k = 0 THEN f[0] ELSE greater[k - 1]]
<1> HIDE DEF greater
<1>11. \A k \in 0 .. Width - 1 : greater[k] \in BOOLEAN
  <2> TAKE k \in 0 .. Width - 1
  <2>1. CASE k = 0
    <3>1. greater[k] = (~b[0] /\ x[0])
      BY <1>9, <2>1
    <3> QED BY <3>1
  <2>2. CASE k # 0
    <3>1. greater[k] = GreaterUpTo(greater[k - 1], x[k], b[k])
      BY <1>9, <2>2
    <3> QED BY <3>1 DEF GreaterUpTo, Xor
  <2> QED BY <2>1, <2>2
<1>12. c[0] = f[0] /\ c[Width] = greater[Width - 1]
       /\ \A k \in 0 .. Width - 1 : c[k + 1] = greater[k]
  <2>1. 0 \in 0 .. Width /\ Width \in 0 .. Width /\ Width # 0
    BY <1>1
  <2>2. \A k \in 0 .. Width - 1 :
          k + 1 \in 0 .. Width /\ k + 1 # 0 /\ (k + 1) - 1 = k
    BY <1>1
  <2> QED BY <2>1, <2>2
<1>13. ASSUME NEW k \in 0 .. Width - 1
       PROVE  c[k + 1] = GreaterUpTo(c[k], x[k], b[k])
  <2>1. x[k] \in BOOLEAN /\ b[k] \in BOOLEAN
    BY <1>2
  <2>2. CASE k = 0
    <3>1. c[k] = f[0]
      BY <1>12, <2>2
    <3>2. c[k] \in BOOLEAN /\ ~c[k]
      BY <1>6, <3>1
    <3>3. c[k + 1] = (~b[k] /\ x[k])
      BY <1>9, <1>12, <2>2
    <3> HIDE DEF c
    <3> QED BY <1>7, <2>1, <3>2, <3>3
  <2>3. CASE k # 0
    <3>1. c[k] = greater[k - 1]
      BY <1>1, <2>3
    <3>2. greater[k] = GreaterUpTo(greater[k - 1], x[k], b[k])
      BY <1>9, <2>3
    <3> QED BY <1>12, <3>1, <3>2
  <2> QED BY <2>2, <2>3
<1>14. c[0] \in BOOLEAN /\ ~c[0]
  BY <1>6, <1>12
<1> HIDE DEF c
<1>15. c[Width] <=> Value(x, Width) > Value(b, Width)
  BY <1>1, <1>2, <1>13, <1>14, LastDifferenceDecides
<1>16. Value(x, Width) \in Nat /\ Value(b, Width) \in Nat
  BY <1>1, ValueBound, PowersAreNumbers
<1>17. NumberOf(x) <= NumberOf(b) <=> ~ (Value(x, Width) > Value(b, Width))
  BY <1>16 DEF NumberOf
<1>18. PredicateMessage(x, b) = ~c[Width]
  BY <1>10, <1>12
<1> QED BY <1>15, <1>17, <1>18, Zenon

(* The embedded decryption returns the message it is given.                *)
LEMMA DemoDecrypts ==
  ASSUME NEW msg \in BOOLEAN
  PROVE  DemoPredicateDecrypt(msg) <=> msg
<1> DEFINE e == EncodedMessage(msg)
           c == (e + DecryptPad) % 16
           p == (c + 16 - DecryptPad) % 16
           r == (p + 2) % 16
<1>1. DecryptPad = 10
  BY DEF DecryptPad
<1>2. e \in {0, 4} /\ (msg <=> e = 4)
  BY DEF EncodedMessage, Bit
<1>3. DemoPredicateDecrypt(msg) <=> (r \div 4) % 2 = 1
  BY DEF DemoPredicateDecrypt
<1>4. c = (e + 10) % 16 /\ p = (c + 6) % 16
  <2> HIDE DEF e
  <2>1. c = (e + 10) % 16 /\ c \in Int
    BY <1>1, <1>2
  <2> HIDE DEF c
  <2>2. c + 16 - DecryptPad = c + 6
    BY <1>1, <2>1
  <2> QED BY <2>1, <2>2
<1> HIDE DEF e, c, p
<1>5. ((r \div 4) % 2 = 1) <=> e = 4
  <2>1. CASE e = 0
    <3>1. c = 10
      BY <1>4, <2>1
    <3>2. p = 0
      BY <1>4, <3>1
    <3>3. r = 2
      BY <3>2
    <3> QED BY <2>1, <3>3
  <2>2. CASE e = 4
    <3>1. c = 14
      BY <1>4, <2>2
    <3>2. p = 4
      BY <1>4, <3>1
    <3>3. r = 6
      BY <3>2
    <3> QED BY <2>2, <3>3
  <2> QED BY <1>2, <2>1, <2>2
<1> QED BY <1>2, <1>3, <1>5, Zenon

(* What the evaluators show of two integers is their order.                *)
LEMMA EvaluateIsOrder ==
  ASSUME NEW x \in Vectors(Width), NEW b \in Vectors(Width)
  PROVE  Evaluate(x, b) <=> NumberOf(x) <= NumberOf(b)
<1>1. /\ PredicateMessage(x, b) \in BOOLEAN
      /\ PredicateMessage(x, b) <=> NumberOf(x) <= NumberOf(b)
  BY PredicateIsOrder
<1>2. DemoPredicateDecrypt(PredicateMessage(x, b)) <=> PredicateMessage(x, b)
  BY <1>1, DemoDecrypts
<1>3. Evaluate(x, b) <=> PredicateMessage(x, b)
  BY <1>2 DEF Evaluate
<1> QED BY <1>1, <1>3, Zenon

(* The two integers fit the width; a loop whose bound is below the top has *)
(* revealed no more than the integer has grown, so it has not wrapped; and *)
(* a loop that has ended had such a bound.                                 *)
LoopInv ==
  /\ state \in Vectors(Width) /\ bound \in Vectors(Width)
  /\ phase \in {"loop", "done"}
  /\ revealed \in Seq(BOOLEAN)
  /\ TopBoundNeverEnds
  /\ phase = "loop" /\ CanEnd => Len(revealed) <= NumberOf(state)

(* The numbers of the width.                                               *)
LEMMA NumbersOfWidth == \A bits : NumberOf(bits) \in 0 .. Top
<1> TAKE bits
<1>1. Value(bits, Width) \in 0 .. 2^Width - 1
  BY Widths, ValueBound
<1> QED BY <1>1 DEF NumberOf, Top

(* A loop starts on an endpoint, and has shown nothing.                    *)
LEMMA LoopAtFirst == Init => LoopInv
<1> SUFFICES ASSUME Init PROVE LoopInv
  OBVIOUS
<1>1. \A a \in Nat : ConstantBits(Width, a) \in Vectors(Width)
                    /\ NumberOf(ConstantBits(Width, a)) = a % 2^Width
  BY Widths, ValueOfConstant DEF NumberOf
<1>2. <<>> \in Seq(BOOLEAN) /\ Len(<<>>) = 0
  BY EmptySeq
<1>3. CASE program = "loop"
  <2>1. RevealInit
    BY <1>3 DEF Init
  <2>2. PICK a \in Starts : state = ConstantBits(Width, a)
    BY <2>1 DEF RevealInit
  <2>3. PICK b \in Bounds : bound = ConstantBits(Width, b)
    BY <2>1 DEF RevealInit
  <2>4. a \in Nat /\ b \in Nat
    BY LoopAssumption
  <2>5. phase = "loop" /\ revealed = <<>>
    BY <2>1 DEF RevealInit
  <2>6. state \in Vectors(Width) /\ bound \in Vectors(Width)
    BY <1>1, <2>2, <2>3, <2>4
  <2> QED BY <1>2, <2>5, <2>6, NumbersOfWidth DEF LoopInv, TopBoundNeverEnds
<1>4. CASE program # "loop"
  <2>1. NoLoop
    BY <1>4 DEF Init
  <2>2. /\ phase = "done" /\ revealed = <<>>
        /\ state = ConstantBits(Width, 0) /\ bound = ConstantBits(Width, 0)
    BY <2>1 DEF NoLoop
  <2>3. 0 % 2^Width = 0
    <3> DEFINE P == 2^Width
    <3>1. P \in Nat \ {0} /\ 0 \in 0 .. P - 1
      BY Widths
    <3> QED BY <3>1, ResidueMod
  <2>4. bound \in Vectors(Width) /\ NumberOf(bound) = 0
    BY <1>1, <2>2, <2>3
  <2> QED BY <1>1, <1>2, <2>2, <2>4, Widths DEF LoopInv, TopBoundNeverEnds
<1> QED BY <1>3, <1>4

(* One more iteration: the integer grows by one, which wraps only if the   *)
(* bound is the top.                                                       *)
LEMMA IterationOfLoop ==
  ASSUME LoopInv, RevealTrue
  PROVE  /\ state' \in Vectors(Width) /\ bound' = bound /\ phase' = "loop"
         /\ phase = "loop" /\ revealed' \in Seq(BOOLEAN)
         /\ CanEnd => /\ NumberOf(state) <= NumberOf(bound)
                      /\ NumberOf(state') = NumberOf(state) + 1
                      /\ revealed' = Append(revealed, TRUE)
                      /\ Len(revealed') <= NumberOf(state')
<1> DEFINE one == ConstantBits(Width, 1)
           P == 2^Width
           s == NumberOf(state)
           b == NumberOf(bound)
<1>1. state \in Vectors(Width) /\ bound \in Vectors(Width)
      /\ revealed \in Seq(BOOLEAN)
      /\ (phase = "loop" /\ CanEnd => Len(revealed) <= s)
  BY DEF LoopInv
<1>2. /\ phase = "loop" /\ phase' = phase /\ bound' = bound
      /\ Evaluate(state, bound) /\ state' = Add(state, one)
      /\ revealed' = IF Len(revealed) < MaxRevealed
                     THEN Append(revealed, TRUE) ELSE revealed
  BY DEF RevealTrue, Push
<1>3. P \in Nat \ {0} /\ P >= 2 /\ Top = P - 1 /\ MaxRevealed = P + 1
  BY Widths
<1>4. s \in 0 .. Top /\ b \in 0 .. Top
  BY NumbersOfWidth
<1>5. one \in Vectors(Width) /\ NumberOf(one) = 1
  <2>1. one \in Vectors(Width) /\ NumberOf(one) = 1 % P
    BY Widths, ValueOfConstant DEF NumberOf
  <2> HIDE DEF P
  <2>2. 1 \in 0 .. P - 1
    BY <1>3
  <2>3. 1 % P = 1
    BY <1>3, <2>2, ResidueMod
  <2> QED BY <2>1, <2>3
<1> HIDE DEF one
<1>6. state' \in Vectors(Width) /\ NumberOf(state') = (s + 1) % P
  BY <1>1, <1>2, <1>5, AddDropsCarry
<1>7. s <= b
  BY <1>1, <1>2, EvaluateIsOrder
<1>8. revealed' \in Seq(BOOLEAN)
  BY <1>1, <1>2, AppendProperties
<1>9. ASSUME CanEnd
      PROVE  /\ NumberOf(state') = s + 1 /\ revealed' = Append(revealed, TRUE)
             /\ Len(revealed') <= NumberOf(state')
  <2>1. s + 1 \in 0 .. P - 1
    BY <1>3, <1>4, <1>7, <1>9 DEF CanEnd
  <2>2. (s + 1) % P = s + 1
    <3> HIDE DEF P, s
    <3> QED BY <1>3, <2>1, ResidueMod
  <2>3. NumberOf(state') = s + 1
    BY <1>6, <2>2
  <2>4. Len(revealed) <= s
    BY <1>1, <1>2, <1>9
  <2>5. Len(revealed) \in Nat /\ Len(revealed) < MaxRevealed
    <3>1. Len(revealed) \in Nat
      BY <1>1, LenProperties
    <3> HIDE DEF P, s
    <3> QED BY <1>3, <1>4, <2>4, <3>1
  <2>6. revealed' = Append(revealed, TRUE)
    BY <1>2, <2>5
  <2>7. Len(revealed') = Len(revealed) + 1
    BY <1>1, <2>6, AppendProperties
  <2> HIDE DEF s
  <2> QED BY <1>4, <2>3, <2>4, <2>5, <2>6, <2>7
<1> QED BY <1>2, <1>6, <1>7, <1>8, <1>9

(* The last iteration: only a bound below the top is ever exceeded.        *)
LEMMA LastOfLoop ==
  ASSUME LoopInv, RevealFalse
  PROVE  /\ state' = state /\ bound' = bound
         /\ phase = "loop" /\ phase' = "done"
         /\ CanEnd /\ NumberOf(state) > NumberOf(bound)
         /\ revealed' = Append(revealed, FALSE)
         /\ revealed' \in Seq(BOOLEAN)
<1>1. state \in Vectors(Width) /\ bound \in Vectors(Width)
      /\ revealed \in Seq(BOOLEAN)
      /\ (phase = "loop" /\ CanEnd => Len(revealed) <= NumberOf(state))
  BY DEF LoopInv
<1>2. /\ phase = "loop" /\ phase' = "done" /\ bound' = bound /\ state' = state
      /\ ~Evaluate(state, bound)
      /\ revealed' = IF Len(revealed) < MaxRevealed
                     THEN Append(revealed, FALSE) ELSE revealed
  BY DEF RevealFalse, Push
<1>3. NumberOf(state) \in 0 .. Top /\ NumberOf(bound) \in 0 .. Top
      /\ Top = 2^Width - 1 /\ MaxRevealed = 2^Width + 1 /\ 2^Width \in Nat
  BY NumbersOfWidth, Widths
<1>4. ~ (NumberOf(state) <= NumberOf(bound))
  BY <1>1, <1>2, EvaluateIsOrder
<1>5. CanEnd /\ NumberOf(state) > NumberOf(bound)
  BY <1>3, <1>4, Widths DEF CanEnd
<1>6. Len(revealed) < MaxRevealed
  <2>1. Len(revealed) \in Nat /\ Len(revealed) <= NumberOf(state)
    BY <1>1, <1>2, <1>5, LenProperties
  <2> QED BY <1>3, <2>1
<1>7. revealed' = Append(revealed, FALSE)
  BY <1>2, <1>6
<1>8. revealed' \in Seq(BOOLEAN)
  BY <1>1, <1>7, AppendProperties
<1> QED BY <1>2, <1>5, <1>7, <1>8

(* The loop's invariant is inductive.                                      *)
LEMMA LoopKept == LoopInv /\ [Next]_vars => LoopInv'
<1> SUFFICES ASSUME LoopInv, [Next]_vars PROVE LoopInv'
  OBVIOUS
<1>0. TopBoundNeverEnds
  BY DEF LoopInv
<1>1. CASE RevealTrue
  <2>1. CanEnd' => CanEnd
    BY <1>1, IterationOfLoop DEF CanEnd
  <2> QED BY <1>1, <2>1, IterationOfLoop DEF LoopInv, TopBoundNeverEnds
<1>2. CASE RevealFalse
  BY <1>2, LastOfLoop DEF LoopInv, TopBoundNeverEnds, CanEnd
<1>3. CASE UNCHANGED revealVars
  BY <1>3 DEF LoopInv, TopBoundNeverEnds, CanEnd, revealVars
<1> QED BY <1>1, <1>2, <1>3
        DEF Next, RevealStep, RevealNext, GateStep, BootStep, vars

(* A demo loop whose bound is the top value of its width never ends: every *)
(* integer of the width is at most the bound, and the sum wraps.           *)
THEOREM LoopStopsBelowTop == Spec => []TopBoundNeverEnds
<1>1. LoopInv => TopBoundNeverEnds
  BY DEF LoopInv
<1> QED BY <1>1, LoopAtFirst, LoopKept, PTL DEF Spec

(* A demo loop that can end is the plaintext loop, step by step: on these  *)
(* endpoints no sum wraps, no carry is lost and no predicate is decrypted  *)
(* wrong, whichever of the evaluators shows it.                            *)
THEOREM LoopIsPlainLoop == Spec => StepsOfPlainLoop
<1>1. ASSUME LoopInv, [Next]_vars
      PROVE  [PlainLoop!Next]_(PlainLoop!loopVars)
  <2>1. CASE RevealTrue
    <3>1. CASE CanEnd
      <4>1. CanEnd'
        BY <2>1, <3>1, <1>1, IterationOfLoop DEF CanEnd
      <4>2. /\ PlainPhase = "loop" /\ PlainPhase' = "loop"
            /\ PlainX = NumberOf(state) /\ PlainBound = NumberOf(bound)
            /\ PlainBound' = PlainBound
            /\ PlainX' = PlainX + 1 /\ PlainX <= PlainBound
            /\ PlainRevealed' = Append(PlainRevealed, TRUE)
        BY <1>1, <2>1, <3>1, <4>1, IterationOfLoop
           DEF PlainPhase, PlainX, PlainBound, PlainRevealed
      <4> QED BY <4>2 DEF PlainLoop!Next, PlainLoop!RevealTrue
    <3>2. CASE ~CanEnd
      <4>1. ~CanEnd'
        BY <1>1, <2>1, <3>2, IterationOfLoop DEF CanEnd
      <4> QED BY <3>2, <4>1
            DEF PlainPhase, PlainX, PlainBound, PlainRevealed,
                PlainLoop!loopVars
    <3> QED BY <3>1, <3>2
  <2>2. CASE RevealFalse
    <3>1. CanEnd /\ CanEnd'
      BY <1>1, <2>2, LastOfLoop DEF CanEnd
    <3>2. /\ PlainPhase = "loop" /\ PlainPhase' = "done"
          /\ PlainX > PlainBound
          /\ PlainRevealed' = Append(PlainRevealed, FALSE)
          /\ PlainX' = PlainX /\ PlainBound' = PlainBound
      BY <1>1, <2>2, <3>1, LastOfLoop
         DEF PlainPhase, PlainX, PlainBound, PlainRevealed
    <3> QED BY <3>2 DEF PlainLoop!Next, PlainLoop!RevealFalse
  <2>3. CASE UNCHANGED revealVars
    <3>1. UNCHANGED <<phase, state, bound, revealed>>
      BY <2>3 DEF revealVars
    <3> QED BY <3>1
          DEF PlainPhase, PlainX, PlainBound, PlainRevealed, CanEnd,
              PlainLoop!loopVars
  <2> QED BY <1>1, <2>1, <2>2, <2>3
          DEF Next, RevealStep, RevealNext, GateStep, BootStep, vars
<1> QED BY <1>1, LoopAtFirst, LoopKept, PTL DEF Spec, StepsOfPlainLoop

-----------------------------------------------------------------------------
(* The bootstrapping reference: sums, powers and digits.                   *)

(* A sum has one term more with every turn of its loop.                    *)
LEMMA SumRecursion ==
  ASSUME NEW n \in Nat, NEW terms, \A k \in 0 .. n - 1 : terms[k] \in Int
  PROVE  /\ SumTo(0, terms) = 0
         /\ \A m \in 0 .. n : SumTo(m, terms) \in Int
         /\ \A m \in 0 .. n - 1 :
              SumTo(m + 1, terms) = SumTo(m, terms) + terms[m]
<1> DEFINE step == [k \in Nat |-> [v \in Int |->
                      IF k < n THEN v + terms[k] ELSE v]]
<1>1. step \in [Nat -> [Int -> Int]]
  <2>1. ASSUME NEW k \in Nat, NEW v \in Int
        PROVE  (IF k < n THEN v + terms[k] ELSE v) \in Int
    <3>1. CASE k < n
      <4>1. k \in 0 .. n - 1
        BY <3>1
      <4> QED BY <3>1, <4>1
    <3>2. CASE ~ (k < n)
      BY <3>2
    <3> QED BY <3>1, <3>2
  <2> QED BY <2>1
<1>2. \A k \in 0 .. n - 1 : \A v \in Int : step[k][v] = v + terms[k]
  OBVIOUS
<1> HIDE DEF step
<1>3. PICK f : Solves(f, Int, 0, step)
  <2>1. Recursion(Int, 0, step)
    BY <1>1 DEF Recursion
  <2> QED BY <2>1, RecursionExists
<1>4. /\ f \in [Nat -> Int] /\ f[0] = 0
      /\ \A k \in 0 .. n - 1 : f[k + 1] = f[k] + terms[k]
  <2>1. f \in [Nat -> Int] /\ f[0] = 0
    BY <1>3 DEF Solves
  <2>2. ASSUME NEW k \in 0 .. n - 1
        PROVE  f[k + 1] = f[k] + terms[k]
    <3>1. k \in Nat /\ f[k] \in Int
      BY <2>1
    <3>2. f[k + 1] = step[k][f[k]]
      BY <1>3, <3>1 DEF Solves
    <3> QED BY <1>2, <3>1, <3>2
  <2> QED BY <2>1, <2>2
<1>5. ASSUME NEW m \in 0 .. n
      PROVE  SumTo(m, terms) = f[m]
  <2> DEFINE sum[k \in 0 .. m] ==
               IF k = 0 THEN 0 ELSE sum[k - 1] + terms[k - 1]
  <2>1. \E g : g = [k \in 0 .. m |->
                      IF k = 0 THEN 0 ELSE g[k - 1] + terms[k - 1]]
    <3> DEFINE g == [k \in 0 .. m |-> f[k]]
    <3>1. ASSUME NEW k \in 0 .. m
          PROVE  f[k] = IF k = 0 THEN 0 ELSE g[k - 1] + terms[k - 1]
      <4>1. CASE k = 0
        BY <1>4, <4>1
      <4>2. CASE k # 0
        <5>1. k - 1 \in 0 .. m /\ k - 1 \in 0 .. n - 1 /\ (k - 1) + 1 = k
          BY <4>2
        <5>2. g[k - 1] = f[k - 1]
          BY <5>1
        <5> QED BY <1>4, <4>2, <5>1, <5>2
      <4> QED BY <4>1, <4>2
    <3>2. g = [k \in 0 .. m |->
                 IF k = 0 THEN 0 ELSE g[k - 1] + terms[k - 1]]
      BY <3>1
    <3> QED BY <3>2
  <2>2. sum = [k \in 0 .. m |->
                 IF k = 0 THEN 0 ELSE sum[k - 1] + terms[k - 1]]
    BY <2>1
  <2>3. SumTo(m, terms) = sum[m]
    BY DEF SumTo
  <2> HIDE DEF sum
  <2> DEFINE T == {k \in Nat : k <= m => sum[k] = f[k]}
  <2>4. 0 \in T
    BY <1>4, <2>2
  <2>5. ASSUME NEW k \in Nat, k \in T
        PROVE  k + 1 \in T
    <3> SUFFICES ASSUME k + 1 <= m PROVE sum[k + 1] = f[k + 1]
      OBVIOUS
    <3>1. k + 1 \in 0 .. m /\ k + 1 # 0 /\ (k + 1) - 1 = k
          /\ k \in 0 .. n - 1
      OBVIOUS
    <3>2. sum[k] = f[k]
      BY <2>5
    <3> QED BY <1>4, <2>2, <3>1, <3>2
  <2> HIDE DEF T
  <2>6. Nat \subseteq T
    BY <2>4, <2>5, SetInduction
  <2> QED BY <2>3, <2>6 DEF T
<1>6. ASSUME NEW m \in 0 .. n - 1
      PROVE  SumTo(m + 1, terms) = SumTo(m, terms) + terms[m]
  <2>1. m \in 0 .. n /\ m + 1 \in 0 .. n
    OBVIOUS
  <2> QED BY <1>4, <1>5, <2>1
<1>7. \A m \in 0 .. n : SumTo(m, terms) \in Int
  BY <1>4, <1>5
<1>8. SumTo(0, terms) = 0
  <2>1. 0 \in 0 .. n
    OBVIOUS
  <2> QED BY <1>4, <1>5, <2>1
<1> QED BY <1>6, <1>7, <1>8

(* A sum of integers is one.                                               *)
LEMMA SumIsInteger ==
  ASSUME NEW n \in Nat, NEW f, \A k \in 0 .. n - 1 : f[k] \in Int
  PROVE  SumTo(n, f) \in Int
<1>1. n \in 0 .. n
  OBVIOUS
<1>2. \A m \in 0 .. n : SumTo(m, f) \in Int
  BY SumRecursion
<1> QED BY <1>1, <1>2

(* A power has one factor more with every turn of its loop.                *)
LEMMA PowerRecursion ==
  ASSUME NEW base \in Nat \ {0}
  PROVE  /\ Power(base, 0) = 1
         /\ \A n \in Nat : /\ Power(base, n) \in Nat \ {0}
                           /\ Power(base, n + 1) = base * Power(base, n)
<1> DEFINE power[k \in Nat] == IF k = 0 THEN 1 ELSE base * power[k - 1]
           step == [k \in Nat |-> [v \in Nat \ {0} |-> base * v]]
<1>1. step \in [Nat -> [Nat \ {0} -> Nat \ {0}]]
  <2>1. \A v \in Nat \ {0} : base * v \in Nat \ {0}
    OBVIOUS
  <2> QED BY <2>1
<1>2. \A k \in Nat : \A v \in Nat \ {0} : step[k][v] = base * v
  OBVIOUS
<1> HIDE DEF step
<1>3. PICK f : Solves(f, Nat \ {0}, 1, step)
  <2>1. Recursion(Nat \ {0}, 1, step)
    BY <1>1 DEF Recursion
  <2> QED BY <2>1, RecursionExists
<1>4. f \in [Nat -> Nat \ {0}] /\ f[0] = 1
      /\ \A k \in Nat : f[k + 1] = base * f[k]
  BY <1>2, <1>3 DEF Solves
<1>5. f = [k \in Nat |-> IF k = 0 THEN 1 ELSE base * f[k - 1]]
  <2>1. ASSUME NEW k \in Nat, k # 0
        PROVE  f[k] = base * f[k - 1]
    <3>1. k - 1 \in Nat /\ (k - 1) + 1 = k
      BY <2>1
    <3> QED BY <1>4, <3>1
  <2> QED BY <1>4, <2>1
<1>6. power = [k \in Nat |-> IF k = 0 THEN 1 ELSE base * power[k - 1]]
  BY <1>5
<1>7. \A n \in Nat : Power(base, n) = power[n]
  BY DEF Power
<1> HIDE DEF power
<1> DEFINE T == {n \in Nat : power[n] \in Nat \ {0}}
<1>8. power[0] = 1
  BY <1>6
<1>9. \A n \in Nat : power[n + 1] = base * power[n]
  <2> TAKE n \in Nat
  <2>1. n + 1 \in Nat /\ n + 1 # 0 /\ (n + 1) - 1 = n
    OBVIOUS
  <2> QED BY <1>6, <2>1
<1>10. \A n \in Nat : n \in T => n + 1 \in T
  <2>1. \A v \in Nat \ {0} : base * v \in Nat \ {0}
    OBVIOUS
  <2> QED BY <1>9, <2>1
<1>11. 0 \in T
  BY <1>8
<1> HIDE DEF T
<1>12. Nat \subseteq T
  BY <1>10, <1>11, SetInduction
<1> QED BY <1>7, <1>8, <1>9, <1>12 DEF T

(* One division by the base more with every turn.                          *)
LEMMA ShiftRecursion ==
  ASSUME NEW value \in Nat
  PROVE  /\ Shifted(value, 0) = value
         /\ \A n \in Nat :
              /\ Shifted(value, n) \in Nat
              /\ Shifted(value, n + 1) = Shifted(value, n) \div KeySwitchBase
<1> DEFINE B == KeySwitchBase
           shifted[k \in Nat] ==
             IF k = 0 THEN value ELSE shifted[k - 1] \div KeySwitchBase
           step == [k \in Nat |-> [v \in Nat |-> v \div B]]
<1>0. B \in Nat \ {0}
  BY ParameterAssumption
<1>1. \A v \in Nat : v \div B \in Nat
  <2> TAKE v \in Nat
  <2> HIDE DEF B
  <2> QED BY <1>0, SMT
<1>2. step \in [Nat -> [Nat -> Nat]]
  BY <1>1
<1>3. \A k, v \in Nat : step[k][v] = v \div B
  OBVIOUS
<1> HIDE DEF step
<1>4. PICK f : Solves(f, Nat, value, step)
  <2>1. Recursion(Nat, value, step)
    BY <1>2 DEF Recursion
  <2> QED BY <2>1, RecursionExists
<1>5. f \in [Nat -> Nat] /\ f[0] = value
      /\ \A k \in Nat : f[k + 1] = f[k] \div B
  BY <1>3, <1>4 DEF Solves
<1>6. f = [k \in Nat |-> IF k = 0 THEN value ELSE f[k - 1] \div KeySwitchBase]
  <2>1. ASSUME NEW k \in Nat, k # 0
        PROVE  f[k] = f[k - 1] \div KeySwitchBase
    <3>1. k - 1 \in Nat /\ (k - 1) + 1 = k
      BY <2>1
    <3> QED BY <1>5, <3>1
  <2> QED BY <1>5, <2>1
<1>7. shifted = [k \in Nat |->
                   IF k = 0 THEN value ELSE shifted[k - 1] \div KeySwitchBase]
  BY <1>6
<1>8. \A n \in Nat : Shifted(value, n) = shifted[n]
  BY DEF Shifted
<1> HIDE DEF shifted
<1> DEFINE T == {n \in Nat : shifted[n] \in Nat}
<1>9. shifted[0] = value
  BY <1>7
<1>10. \A n \in Nat : shifted[n + 1] = shifted[n] \div B
  <2> TAKE n \in Nat
  <2>1. n + 1 \in Nat /\ n + 1 # 0 /\ (n + 1) - 1 = n
    OBVIOUS
  <2> QED BY <1>7, <2>1
<1> HIDE DEF B
<1>11. \A n \in Nat : n \in T => n + 1 \in T
  BY <1>1, <1>10
<1>12. 0 \in T
  BY <1>9
<1> HIDE DEF T
<1>13. Nat \subseteq T
  BY <1>11, <1>12, SetInduction
<1> QED BY <1>8, <1>9, <1>10, <1>13 DEF T, B

(* Sums of equal terms are equal.                                          *)
LEMMA SumSame ==
  ASSUME NEW n \in Nat, NEW f, NEW g,
         \A k \in 0 .. n - 1 : f[k] \in Int /\ g[k] = f[k]
  PROVE  SumTo(n, g) = SumTo(n, f)
<1> DEFINE S == {m \in Nat : m <= n => SumTo(m, g) = SumTo(m, f)}
<1>1. \A k \in 0 .. n - 1 : f[k] \in Int /\ g[k] \in Int
  OBVIOUS
<1>2. 0 \in S
  BY <1>1, SumRecursion
<1>3. ASSUME NEW m \in Nat, m \in S
      PROVE  m + 1 \in S
  <2> SUFFICES ASSUME m + 1 <= n PROVE SumTo(m + 1, g) = SumTo(m + 1, f)
    OBVIOUS
  <2>1. m \in 0 .. n - 1 /\ SumTo(m, g) = SumTo(m, f)
    BY <1>3
  <2>2. /\ SumTo(m + 1, f) = SumTo(m, f) + f[m]
        /\ SumTo(m + 1, g) = SumTo(m, g) + g[m]
    BY <1>1, <2>1, SumRecursion
  <2> QED BY <2>1, <2>2
<1> HIDE DEF S
<1>4. Nat \subseteq S
  BY <1>2, <1>3, SetInduction
<1> QED BY <1>4 DEF S

(* The sum of sums.                                                        *)
LEMMA SumAdds ==
  ASSUME NEW n \in Nat, NEW f, NEW g, NEW h,
         \A k \in 0 .. n - 1 : f[k] \in Int /\ g[k] \in Int
                                 /\ h[k] = f[k] + g[k]
  PROVE  SumTo(n, h) = SumTo(n, f) + SumTo(n, g)
<1> DEFINE S == {m \in Nat : m <= n =>
                   SumTo(m, h) = SumTo(m, f) + SumTo(m, g)}
<1>1. \A k \in 0 .. n - 1 : f[k] \in Int /\ g[k] \in Int /\ h[k] \in Int
  OBVIOUS
<1>2. 0 \in S
  BY <1>1, SumRecursion
<1>3. ASSUME NEW m \in Nat, m \in S
      PROVE  m + 1 \in S
  <2> SUFFICES ASSUME m + 1 <= n
               PROVE  SumTo(m + 1, h) = SumTo(m + 1, f) + SumTo(m + 1, g)
    OBVIOUS
  <2>1. m \in 0 .. n - 1 /\ m \in 0 .. n
        /\ SumTo(m, h) = SumTo(m, f) + SumTo(m, g)
    BY <1>3
  <2>2. /\ SumTo(m + 1, f) = SumTo(m, f) + f[m]
        /\ SumTo(m + 1, g) = SumTo(m, g) + g[m]
        /\ SumTo(m + 1, h) = SumTo(m, h) + h[m]
        /\ SumTo(m, f) \in Int /\ SumTo(m, g) \in Int
    BY <1>1, <2>1, SumRecursion
  <2>3. h[m] = f[m] + g[m] /\ f[m] \in Int /\ g[m] \in Int
    BY <2>1
  <2> QED BY <2>1, <2>2, <2>3
<1> HIDE DEF S
<1>4. Nat \subseteq S
  BY <1>2, <1>3, SetInduction
<1> QED BY <1>4 DEF S

(* A common factor of a sum.                                               *)
LEMMA SumTimes ==
  ASSUME NEW n \in Nat, NEW c \in Int, NEW f, NEW g,
         \A k \in 0 .. n - 1 : f[k] \in Int /\ g[k] = c * f[k]
  PROVE  SumTo(n, g) = c * SumTo(n, f)
<1> DEFINE S == {m \in Nat : m <= n => SumTo(m, g) = c * SumTo(m, f)}
<1>1. \A k \in 0 .. n - 1 : f[k] \in Int /\ g[k] \in Int
  OBVIOUS
<1>2. 0 \in S
  <2>1. SumTo(0, f) = 0 /\ SumTo(0, g) = 0
    BY <1>1, SumRecursion
  <2>2. c * 0 = 0
    OBVIOUS
  <2> QED BY <2>1, <2>2
<1>3. ASSUME NEW m \in Nat, m \in S
      PROVE  m + 1 \in S
  <2> SUFFICES ASSUME m + 1 <= n
               PROVE  SumTo(m + 1, g) = c * SumTo(m + 1, f)
    OBVIOUS
  <2>1. m \in 0 .. n - 1 /\ m \in 0 .. n /\ SumTo(m, g) = c * SumTo(m, f)
    BY <1>3
  <2>2. /\ SumTo(m + 1, f) = SumTo(m, f) + f[m]
        /\ SumTo(m + 1, g) = SumTo(m, g) + g[m]
        /\ SumTo(m, f) \in Int
    BY <1>1, <2>1, SumRecursion
  <2>3. g[m] = c * f[m] /\ f[m] \in Int
    BY <2>1
  <2> DEFINE x == SumTo(m, f)
             y == f[m]
  <2>4. c * (x + y) = c * x + c * y
    <3> HIDE DEF x, y
    <3> QED BY <2>2, <2>3, SMT DEF x, y
  <2> QED BY <2>1, <2>2, <2>3, <2>4
<1> HIDE DEF S
<1>4. Nat \subseteq S
  BY <1>2, <1>3, SetInduction
<1> QED BY <1>4 DEF S

(* The sums of the rows and of the columns of a matrix of integers.        *)
RowsAndColumns(m, n, F, G, rows, columns) ==
  /\ \A i \in 0 .. m - 1 : rows[i] = SumTo(n, F[i])
  /\ \A j \in 0 .. n - 1 : columns[j] = SumTo(m, G[j])
  /\ \A i \in 0 .. m - 1 : \A j \in 0 .. n - 1 :
       F[i][j] \in Int /\ G[j][i] \in Int /\ G[j][i] = F[i][j]

(* A sum of sums may be added up in either order.                          *)
LEMMA SumSwap ==
  ASSUME NEW m \in Nat, NEW n \in Nat, NEW F, NEW G, NEW rows, NEW columns,
         RowsAndColumns(m, n, F, G, rows, columns)
  PROVE  SumTo(m, rows) = SumTo(n, columns)
<1> USE DEF RowsAndColumns
<1> DEFINE part == [k \in 0 .. m |-> [j \in 0 .. n - 1 |-> SumTo(k, G[j])]]
           S == {k \in Nat : k <= m => SumTo(k, rows) = SumTo(n, part[k])}
<1>1. \A i \in 0 .. m - 1 : rows[i] \in Int
  <2> TAKE i \in 0 .. m - 1
  <2>1. \A j \in 0 .. n - 1 : F[i][j] \in Int
    OBVIOUS
  <2>2. SumTo(n, F[i]) \in Int
    <3> DEFINE f == F[i]
    <3>1. \A j \in 0 .. n - 1 : f[j] \in Int
      BY <2>1
    <3> HIDE DEF f
    <3>2. SumTo(n, f) \in Int
      BY <3>1, SumIsInteger
    <3> QED BY <3>2 DEF f
  <2> QED BY <2>2
<1>2. \A j \in 0 .. n - 1 :
        /\ SumTo(0, G[j]) = 0
        /\ \A k \in 0 .. m : SumTo(k, G[j]) \in Int
        /\ \A k \in 0 .. m - 1 : SumTo(k + 1, G[j]) = SumTo(k, G[j]) + F[k][j]
  <2> TAKE j \in 0 .. n - 1
  <2> DEFINE g == G[j]
  <2>1. \A i \in 0 .. m - 1 : g[i] \in Int /\ g[i] = F[i][j]
    OBVIOUS
  <2> HIDE DEF g
  <2>2. \A i \in 0 .. m - 1 : g[i] \in Int
    BY <2>1
  <2>3. /\ SumTo(0, g) = 0
        /\ \A k \in 0 .. m : SumTo(k, g) \in Int
        /\ \A k \in 0 .. m - 1 : SumTo(k + 1, g) = SumTo(k, g) + g[k]
    BY <2>2, SumRecursion
  <2>4. \A k \in 0 .. m - 1 : SumTo(k + 1, g) = SumTo(k, g) + F[k][j]
    BY <2>1, <2>3
  <2> QED BY <2>3, <2>4 DEF g
<1>3. \A k \in 0 .. m : \A j \in 0 .. n - 1 : part[k][j] = SumTo(k, G[j])
  OBVIOUS
<1>4. SumTo(n, part[m]) = SumTo(n, columns)
  <2> DEFINE f == part[m]
  <2>1. m \in 0 .. m
    OBVIOUS
  <2>2. \A j \in 0 .. n - 1 : columns[j] \in Int /\ f[j] = columns[j]
    BY <1>2, <1>3, <2>1
  <2> HIDE DEF f
  <2>3. SumTo(n, f) = SumTo(n, columns)
    BY <2>2, SumSame
  <2> QED BY <2>3 DEF f
<1> HIDE DEF part
<1>5. 0 \in S
  <2>1. SumTo(0, rows) = 0
    BY <1>1, SumRecursion
  <2> DEFINE zero == part[0]
  <2>2. \A j \in 0 .. n - 1 : zero[j] \in Int /\ zero[j] = 0 * zero[j]
    <3>1. 0 \in 0 .. m
      OBVIOUS
    <3> QED BY <1>2, <1>3, <3>1
  <2> HIDE DEF zero
  <2>3. SumTo(n, zero) = 0 * SumTo(n, zero)
    BY <2>2, SumTimes
  <2>4. SumTo(n, zero) \in Int
    BY <2>2, SumIsInteger
  <2>5. SumTo(n, zero) = 0
    BY <2>3, <2>4
  <2> QED BY <2>1, <2>5 DEF zero
<1>6. ASSUME NEW k \in Nat, k \in S
      PROVE  k + 1 \in S
  <2> SUFFICES ASSUME k + 1 <= m
               PROVE  SumTo(k + 1, rows) = SumTo(n, part[k + 1])
    OBVIOUS
  <2>1. k \in 0 .. m - 1 /\ k \in 0 .. m /\ k + 1 \in 0 .. m
        /\ SumTo(k, rows) = SumTo(n, part[k])
    BY <1>6
  <2>2. SumTo(k + 1, rows) = SumTo(k, rows) + SumTo(n, F[k])
    <3>1. SumTo(k + 1, rows) = SumTo(k, rows) + rows[k]
      BY <1>1, <2>1, SumRecursion
    <3> QED BY <2>1, <3>1
  <2> DEFINE f == part[k]
             g == F[k]
             h == part[k + 1]
  <2>3. \A j \in 0 .. n - 1 : f[j] \in Int /\ g[j] \in Int
                                /\ h[j] = f[j] + g[j]
    BY <1>2, <1>3, <2>1
  <2> HIDE DEF f, g, h
  <2>4. SumTo(n, h) = SumTo(n, f) + SumTo(n, g)
    BY <2>3, SumAdds
  <2> QED BY <2>1, <2>2, <2>4 DEF f, g, h
<1> HIDE DEF S
<1>7. Nat \subseteq S
  BY <1>5, <1>6, SetInduction
<1>8. SumTo(m, rows) = SumTo(n, part[m])
  BY <1>7 DEF S
<1> QED BY <1>4, <1>8

(* Numbers that differ by a multiple of the ciphertext modulus.            *)
Same(u, v) == \E k \in Int : u = v + CiphertextModulus * k

(* They have one residue, and a number and its residue are two of them.    *)
LEMMA SameResidue ==
  ASSUME NEW u \in Int, NEW v \in Int
  PROVE  /\ Same(u, v) => ModQ(u) = ModQ(v)
         /\ Same(ModQ(u), u) /\ Same(u, u)
         /\ ModQ(u) \in 0 .. CiphertextModulus - 1
<1> DEFINE q == CiphertextModulus
<1>0. q \in Nat \ {0}
  BY ParameterAssumption
<1>1. Same(u, v) => u % q = v % q
  <2> SUFFICES ASSUME Same(u, v) PROVE u % q = v % q
    OBVIOUS
  <2>1. PICK k \in Int : u = v + q * k
    BY DEF Same
  <2> HIDE DEF q
  <2> QED BY <1>0, <2>1, ModMultiple
<1>2. u \div q \in Int /\ u % q \in 0 .. q - 1
      /\ u = q * (u \div q) + (u % q)
  BY <1>0, DivMod
<1>3. Same(u % q, u)
  <2> DEFINE d == u \div q
             r == u % q
             k == 0 - d
  <2> HIDE DEF d, r, q
  <2>1. r = u + q * k /\ k \in Int
    BY <1>0, <1>2, SMT DEF d, r
  <2> QED BY <2>1 DEF Same, r, q
<1>4. Same(u, u)
  <2> HIDE DEF q
  <2>1. u = u + q * 0
    BY <1>0
  <2> QED BY <2>1 DEF Same, q
<1> QED BY <1>1, <1>2, <1>3, <1>4 DEF ModQ

(* They may stand for each other in sums, differences and products.        *)
LEMMA SameCombine ==
  ASSUME NEW u \in Int, NEW v \in Int, NEW x \in Int, NEW y \in Int,
         NEW c \in Int, Same(u, v), Same(x, y)
  PROVE  /\ Same(u + x, v + y) /\ Same(u - x, v - y) /\ Same(u * c, v * c)
         /\ Same(v, u)
<1> DEFINE q == CiphertextModulus
<1>0. q \in Int
  BY ParameterAssumption
<1>1. PICK k \in Int : u = v + q * k
  BY DEF Same
<1>2. PICK m \in Int : x = y + q * m
  BY DEF Same
<1> HIDE DEF q
<1>3. q * (k + m) = q * k + q * m /\ q * (k - m) = q * k - q * m
      /\ (v + q * k) * c = v * c + q * (k * c) /\ q * (0 - k) = 0 - q * k
      /\ k * c \in Int /\ q * k \in Int /\ q * m \in Int
  BY <1>0, SMT
<1>4. u + x = (v + y) + q * (k + m) /\ u - x = (v - y) + q * (k - m)
      /\ u * c = v * c + q * (k * c) /\ v = u + q * (0 - k)
  BY <1>0, <1>1, <1>2, <1>3
<1> QED BY <1>3, <1>4 DEF Same, q

(* And for each other in turn.                                             *)
LEMMA SameTransitive ==
  ASSUME NEW u \in Int, NEW v \in Int, NEW x \in Int, Same(u, v), Same(v, x)
  PROVE  Same(u, x)
<1> DEFINE q == CiphertextModulus
<1>0. q \in Int
  BY ParameterAssumption
<1>1. PICK k \in Int : u = v + q * k
  BY DEF Same
<1>2. PICK m \in Int : v = x + q * m
  BY DEF Same
<1> HIDE DEF q
<1>3. u = x + q * (m + k)
  <2>1. q * (m + k) = q * m + q * k /\ q * m \in Int /\ q * k \in Int
    BY <1>0, SMT
  <2> QED BY <1>1, <1>2, <2>1
<1> QED BY <1>3 DEF Same, q

(* And as the terms of a sum.                                              *)
LEMMA SumSameResidue ==
  ASSUME NEW n \in Nat, NEW f, NEW g,
         \A k \in 0 .. n - 1 : f[k] \in Int /\ g[k] \in Int /\ Same(f[k], g[k])
  PROVE  Same(SumTo(n, f), SumTo(n, g))
<1> DEFINE S == {m \in Nat : m <= n => Same(SumTo(m, f), SumTo(m, g))}
<1>1. 0 \in S
  <2>1. SumTo(0, f) = 0 /\ SumTo(0, g) = 0
    BY SumRecursion
  <2> QED BY <2>1, SameResidue
<1>2. ASSUME NEW m \in Nat, m \in S
      PROVE  m + 1 \in S
  <2> SUFFICES ASSUME m + 1 <= n PROVE Same(SumTo(m + 1, f), SumTo(m + 1, g))
    OBVIOUS
  <2>1. m \in 0 .. n - 1 /\ m \in 0 .. n /\ Same(SumTo(m, f), SumTo(m, g))
    BY <1>2
  <2>2. /\ SumTo(m + 1, f) = SumTo(m, f) + f[m]
        /\ SumTo(m + 1, g) = SumTo(m, g) + g[m]
        /\ SumTo(m, f) \in Int /\ SumTo(m, g) \in Int
    BY <2>1, SumRecursion
  <2> QED BY <2>1, <2>2, SameCombine
<1> HIDE DEF S
<1>3. Nat \subseteq S
  BY <1>1, <1>2, SetInduction
<1> QED BY <1>3 DEF S

(* The inner product with the key, and what the code computes of it.       *)
Dot(a) == SumTo(LweDimension, [i \in Lwe |-> a[i] * FixedHsk[i]])

LweCiphertext == [a : [Lwe -> Int], b : Int]

(* The code reduces every product and the sum.                             *)
LEMMA DotResidue ==
  ASSUME NEW value, \A i \in Lwe : value.a[i] \in Int
  PROVE  /\ Dot(value.a) \in Int
         /\ DotWithFixedHsk(value) \in 0 .. CiphertextModulus - 1
         /\ Same(DotWithFixedHsk(value), Dot(value.a))
<1> DEFINE n == LweDimension
           f == [i \in Lwe |-> MulBySecretCoeffModQ(value.a[i], FixedHsk[i])]
           g == [i \in Lwe |-> value.a[i] * FixedHsk[i]]
<1>0. n \in Nat /\ Lwe = 0 .. n - 1 /\ n \in 0 .. n
      /\ \A i \in Lwe : FixedHsk[i] \in Int
  BY ParameterAssumption DEF Lwe
<1>1. \A i \in Lwe : value.a[i] * FixedHsk[i] \in Int
  BY <1>0
<1>2. \A i \in Lwe : g[i] \in Int /\ f[i] = ModQ(g[i])
  BY <1>1 DEF MulBySecretCoeffModQ
<1> HIDE DEF f, g
<1>3. \A i \in Lwe : f[i] \in Int /\ Same(f[i], g[i])
  <2> TAKE i \in Lwe
  <2>1. g[i] \in Int /\ f[i] = ModQ(g[i])
    BY <1>2
  <2> QED BY <2>1, SameResidue, ParameterAssumption
<1>4. SumTo(n, f) \in Int /\ SumTo(n, g) \in Int /\ Same(SumTo(n, f), SumTo(n, g))
  BY <1>0, <1>2, <1>3, SumRecursion, SumSameResidue
<1>5. DotWithFixedHsk(value) = ModQ(SumTo(n, f)) /\ Dot(value.a) = SumTo(n, g)
  BY DEF DotWithFixedHsk, Dot, f, g
<1>6. Same(ModQ(SumTo(n, f)), SumTo(n, f))
      /\ ModQ(SumTo(n, f)) \in 0 .. CiphertextModulus - 1
      /\ ModQ(SumTo(n, f)) \in Int
  BY <1>4, SameResidue, ParameterAssumption
<1> QED BY <1>4, <1>5, <1>6, SameTransitive

(* Products of numbers and of integers.                                    *)
LEMMA Products ==
  /\ \A x, y \in Nat : x * y \in Nat
  /\ \A x, y \in Int : x * y \in Int
<1>1. ASSUME NEW x \in Nat, NEW y \in Nat PROVE x * y \in Nat
  BY SMT
<1>2. ASSUME NEW x \in Int, NEW y \in Int PROVE x * y \in Int
  BY SMT
<1> QED BY <1>1, <1>2

(* A number below a power of B, what is left of it after some divisions by *)
(* B, and the remainders.                                                  *)
Digitised(B, D, rest, power, digit, terms) ==
  /\ rest \in [Nat -> Nat] /\ power \in [Nat -> Nat \ {0}]
  /\ digit \in [Nat -> Nat]
  /\ power[0] = 1 /\ \A m \in Nat : power[m + 1] = B * power[m]
  /\ \A m \in Nat : rest[m] = B * rest[m + 1] + digit[m]
  /\ \A k \in 0 .. D - 1 : terms[k] = power[k] * digit[k]
  /\ rest[0] < power[D]

(* Digits and what is left add up to the number, at every position.        *)
LEMMA DigitsAddUp ==
  ASSUME NEW B \in Nat \ {0}, NEW D \in Nat,
         NEW rest, NEW power, NEW digit, NEW terms,
         Digitised(B, D, rest, power, digit, terms)
  PROVE  SumTo(D, terms) = rest[0]
<1>0. /\ rest \in [Nat -> Nat] /\ power \in [Nat -> Nat \ {0}]
      /\ digit \in [Nat -> Nat]
      /\ power[0] = 1 /\ \A m \in Nat : power[m + 1] = B * power[m]
      /\ \A m \in Nat : rest[m] = B * rest[m + 1] + digit[m]
      /\ \A k \in 0 .. D - 1 : terms[k] = power[k] * digit[k]
      /\ rest[0] < power[D]
  BY DEF Digitised
<1>9. \A m \in Nat : /\ rest[m] \in Nat /\ power[m] \in Nat /\ digit[m] \in Nat
                     /\ rest[m + 1] \in Nat
  <2>1. \A m \in Nat : m + 1 \in Nat
    OBVIOUS
  <2>2. \A m \in Nat : power[m] \in Nat
    <3>1. \A v \in Nat \ {0} : v \in Nat
      OBVIOUS
    <3> QED BY <1>0, <3>1, Zenon
  <2>3. \A m \in Nat : rest[m] \in Nat /\ digit[m] \in Nat
    BY <1>0, Zenon
  <2> QED BY <2>1, <2>2, <2>3, Zenon
<1> DEFINE S == {m \in Nat : m <= D => /\ SumTo(m, terms) \in Nat
                                       /\ rest[0] = SumTo(m, terms)
                                                      + power[m] * rest[m]}
<1>1. \A k \in 0 .. D - 1 : terms[k] \in Nat
  <2> TAKE k \in 0 .. D - 1
  <2> DEFINE x == power[k]
             y == digit[k]
  <2>1. x \in Nat /\ y \in Nat /\ terms[k] = x * y
    <3>1. k \in Nat
      OBVIOUS
    <3> QED BY <1>0, <1>9, <3>1, Zenon
  <2> HIDE DEF x, y
  <2>2. x * y \in Nat
    BY <2>1, Products
  <2> QED BY <2>1, <2>2, Zenon
<1>2. /\ SumTo(0, terms) = 0
      /\ \A m \in 0 .. D - 1 : SumTo(m + 1, terms) = SumTo(m, terms) + terms[m]
  <2> HIDE DEF S
  <2>1. \A k \in 0 .. D - 1 : terms[k] \in Int
    <3>1. Nat \subseteq Int
      OBVIOUS
    <3> QED BY <1>1, <3>1, Zenon
  <2> QED BY <2>1, SumRecursion
<1>3. 0 \in S
  <2>1. 0 \in Nat /\ rest[0] \in Nat /\ power[0] = 1
    BY <1>0
  <2>2. /\ SumTo(0, terms) \in Nat
        /\ rest[0] = SumTo(0, terms) + power[0] * rest[0]
    <3> DEFINE r == rest[0]
    <3>1. r \in Nat /\ power[0] = 1 /\ SumTo(0, terms) = 0
      BY <1>2, <2>1
    <3> HIDE DEF r
    <3>2. r = 0 + 1 * r
      BY <3>1
    <3> QED BY <3>1, <3>2 DEF r
  <2> QED BY <2>1, <2>2, Zenon
<1>4. ASSUME NEW m \in Nat, m \in S
      PROVE  m + 1 \in S
  <2> SUFFICES ASSUME m + 1 <= D
               PROVE  /\ SumTo(m + 1, terms) \in Nat
                      /\ rest[0] = SumTo(m + 1, terms)
                                     + power[m + 1] * rest[m + 1]
    OBVIOUS
  <2> DEFINE s == SumTo(m, terms)
             a == rest[m]
             b == rest[m + 1]
             g == digit[m]
             p == power[m]
  <2>1. m \in 0 .. D - 1 /\ s \in Nat /\ rest[0] = s + p * a
    BY <1>4
  <2>2. SumTo(m + 1, terms) = s + p * g
    <3>1. terms[m] = p * g
      BY <1>0, <2>1, Zenon
    <3> QED BY <1>2, <2>1, <3>1, Zenon
  <2>3. /\ g \in Nat /\ p \in Nat /\ b \in Nat
        /\ power[m + 1] = B * p /\ a = B * b + g
    BY <1>0, <1>9, Zenon
  <2> HIDE DEF s, a, b, g, p
  <2>4. p * (B * b + g) = (B * p) * b + p * g /\ p * g \in Nat
        /\ (B * p) * b \in Nat
    BY <2>3, SMT
  <2>5. s + p * g \in Nat /\ s + p * a = s + p * g + (B * p) * b
    <3> DEFINE x == p * a
               y == p * g
               z == (B * p) * b
    <3>1. p * a = p * (B * b + g)
      BY <2>3
    <3>2. x = z + y /\ y \in Nat /\ z \in Nat
      BY <2>4, <3>1
    <3> HIDE DEF x, y, z
    <3>3. s + y \in Nat /\ s + x = s + y + z
      BY <2>1, <3>2
    <3> QED BY <3>3 DEF x, y, z
  <2> QED BY <2>1, <2>2, <2>3, <2>5 DEF b
<1> HIDE DEF S
<1>5. Nat \subseteq S
  BY <1>3, <1>4, SetInduction
<1> DEFINE s == SumTo(D, terms)
           r == rest[D]
           p == power[D]
           v == rest[0]
<1>6. s \in Nat /\ v = s + p * r
  BY <1>5 DEF S
<1>7. r \in Nat /\ p \in Nat \ {0} /\ v \in Nat /\ v < p
  BY <1>0
<1> HIDE DEF s, r, p, v
<1>8. r = 0
  <2>1. r >= 1 => p * r >= p
    BY <1>7, SMT
  <2> DEFINE x == p * r
  <2>2. x \in Nat
    BY <1>7, SMT
  <2>3. v = s + x /\ (r >= 1 => x >= p)
    BY <1>6, <2>1
  <2> HIDE DEF x
  <2> QED BY <1>6, <1>7, <2>2, <2>3
<1>10. v = s
  <2>1. p * 0 = 0
    BY <1>7
  <2> QED BY <1>6, <1>7, <1>8, <2>1
<1> QED BY <1>10 DEF v, s

(* The digits of a residue are the residue.                                *)
LEMMA DigitsAreNumber ==
  ASSUME NEW v \in 0 .. CiphertextModulus - 1, NEW terms,
         \A d \in SwitchDigits :
           terms[d] = Power(KeySwitchBase, d) * KeySwitchDigit(v, d)
  PROVE  /\ \A d \in SwitchDigits : KeySwitchDigit(v, d) \in Nat
         /\ SumTo(KeySwitchDigits, terms) = v
<1> DEFINE rest == [m \in Nat |-> Shifted(v, m)]
           power == [m \in Nat |-> Power(KeySwitchBase, m)]
           digit == [m \in Nat |-> KeySwitchDigit(v, m)]
<1>0. /\ KeySwitchBase \in Nat \ {0} /\ KeySwitchDigits \in Nat
      /\ CiphertextModulus \in Nat
      /\ CiphertextModulus <= Power(KeySwitchBase, KeySwitchDigits)
      /\ v \in Nat /\ SwitchDigits = 0 .. KeySwitchDigits - 1
  BY ParameterAssumption DEF SwitchDigits
<1>1. /\ Shifted(v, 0) = v
      /\ \A m \in Nat :
           /\ Shifted(v, m) \in Nat
           /\ Shifted(v, m + 1) = Shifted(v, m) \div KeySwitchBase
  BY <1>0, ShiftRecursion
<1>2. /\ Power(KeySwitchBase, 0) = 1
      /\ \A m \in Nat :
           /\ Power(KeySwitchBase, m) \in Nat \ {0}
           /\ Power(KeySwitchBase, m + 1)
                = KeySwitchBase * Power(KeySwitchBase, m)
  BY <1>0, PowerRecursion
<1>3. ASSUME NEW m \in Nat
      PROVE  /\ KeySwitchDigit(v, m) \in Nat
             /\ Shifted(v, m)
                  = KeySwitchBase * Shifted(v, m + 1) + KeySwitchDigit(v, m)
  <2> DEFINE r == Shifted(v, m)
  <2>1. r \in Int
    BY <1>1
  <2>2. KeySwitchDigit(v, m) = r % KeySwitchBase
        /\ Shifted(v, m + 1) = r \div KeySwitchBase
    BY <1>1 DEF KeySwitchDigit
  <2> HIDE DEF r
  <2>3. r % KeySwitchBase \in 0 .. KeySwitchBase - 1
        /\ r = KeySwitchBase * (r \div KeySwitchBase) + (r % KeySwitchBase)
    BY <1>0, <2>1, DivMod
  <2>4. r % KeySwitchBase \in Nat
    BY <1>0, <2>3
  <2> QED BY <2>2, <2>3, <2>4 DEF r
<1>4. /\ rest \in [Nat -> Nat] /\ power \in [Nat -> Nat \ {0}]
      /\ digit \in [Nat -> Nat]
  BY <1>1, <1>2, <1>3
<1>5. power[0] = 1 /\ \A m \in Nat : power[m + 1] = KeySwitchBase * power[m]
  BY <1>2
<1>6. \A m \in Nat : rest[m] = KeySwitchBase * rest[m + 1] + digit[m]
  BY <1>3
<1>7. \A k \in 0 .. KeySwitchDigits - 1 : terms[k] = power[k] * digit[k]
  BY <1>0
<1>8. rest[0] = v /\ rest[0] < power[KeySwitchDigits]
  <2>1. rest[0] = v
    BY <1>1
  <2>2. power[KeySwitchDigits] = Power(KeySwitchBase, KeySwitchDigits)
        /\ Power(KeySwitchBase, KeySwitchDigits) \in Nat
    BY <1>0, <1>2
  <2> HIDE DEF rest, power
  <2> QED BY <1>0, <2>1, <2>2
<1> HIDE DEF rest, power, digit
<1>9. SumTo(KeySwitchDigits, terms) = rest[0]
  <2>1. KeySwitchBase \in Nat \ {0} /\ KeySwitchDigits \in Nat
    BY <1>0
  <2>2. Digitised(KeySwitchBase, KeySwitchDigits, rest, power, digit, terms)
    BY <1>4, <1>5, <1>6, <1>7, <1>8, Zenon DEF Digitised
  <2> QED BY <2>1, <2>2, DigitsAddUp
<1>10. \A d \in SwitchDigits : d \in Nat
  BY <1>0
<1> QED BY <1>3, <1>8, <1>9, <1>10, Zenon

(* D rows A of n integers, weighted by a digit each, and a key s: the sums *)
(* of the weighted columns times the key, and of the rows' products with   *)
(* the key, weighted.                                                      *)
Weighted(n, D, A, s, digit, col, row, x, y) ==
  /\ \A d \in 0 .. D - 1 : digit[d] \in Int
  /\ \A j \in 0 .. n - 1 : s[j] \in Int
  /\ \A d \in 0 .. D - 1 : \A j \in 0 .. n - 1 : A[d][j] \in Int
  /\ \A j \in 0 .. n - 1 : \A d \in 0 .. D - 1 :
       col[j][d] = A[d][j] * digit[d] /\ row[d][j] = A[d][j] * s[j]
  /\ \A j \in 0 .. n - 1 : x[j] = SumTo(D, col[j]) * s[j]
  /\ \A d \in 0 .. D - 1 : y[d] = SumTo(n, row[d]) * digit[d]

Combined(n, D, col, row, x, y) ==
  /\ \A j \in 0 .. n - 1 : SumTo(D, col[j]) \in Int
  /\ \A d \in 0 .. D - 1 : SumTo(n, row[d]) \in Int
  /\ SumTo(n, x) = SumTo(D, y)

(* They are the same.                                                      *)
LEMMA RowsCombine ==
  ASSUME NEW n \in Nat, NEW D \in Nat, NEW A, NEW s, NEW digit,
         NEW col, NEW row, NEW x, NEW y,
         Weighted(n, D, A, s, digit, col, row, x, y)
  PROVE  Combined(n, D, col, row, x, y)
<1>0. /\ \A d \in 0 .. D - 1 : digit[d] \in Int
      /\ \A j \in 0 .. n - 1 : s[j] \in Int
      /\ \A d \in 0 .. D - 1 : \A j \in 0 .. n - 1 : A[d][j] \in Int
      /\ \A j \in 0 .. n - 1 : \A d \in 0 .. D - 1 :
           col[j][d] = A[d][j] * digit[d] /\ row[d][j] = A[d][j] * s[j]
      /\ \A j \in 0 .. n - 1 : x[j] = SumTo(D, col[j]) * s[j]
      /\ \A d \in 0 .. D - 1 : y[d] = SumTo(n, row[d]) * digit[d]
  BY DEF Weighted
<1> DEFINE F == [j \in 0 .. n - 1 |-> [d \in 0 .. D - 1 |-> s[j] * col[j][d]]]
           G == [d \in 0 .. D - 1 |-> [j \in 0 .. n - 1 |-> digit[d] * row[d][j]]]
<1>1. \A j \in 0 .. n - 1 : \A d \in 0 .. D - 1 :
        /\ F[j][d] = s[j] * col[j][d] /\ G[d][j] = digit[d] * row[d][j]
  OBVIOUS
<1> HIDE DEF F, G
<1>2. \A j \in 0 .. n - 1 : \A d \in 0 .. D - 1 :
        /\ F[j][d] \in Int /\ col[j][d] \in Int /\ row[d][j] \in Int
        /\ G[d][j] \in Int /\ G[d][j] = F[j][d]
  <2> TAKE j \in 0 .. n - 1
  <2> TAKE d \in 0 .. D - 1
  <2> DEFINE u == A[d][j]
             v == digit[d]
             w == s[j]
  <2>1. u \in Int /\ v \in Int /\ w \in Int
    BY <1>0
  <2>2. /\ col[j][d] = u * v /\ row[d][j] = u * w
        /\ F[j][d] = w * col[j][d] /\ G[d][j] = v * row[d][j]
    BY <1>0, <1>1
  <2> HIDE DEF u, v, w
  <2>3. /\ u * v \in Int /\ u * w \in Int /\ w * (u * v) \in Int
        /\ w * (u * v) = v * (u * w) /\ v * (u * w) \in Int
    BY <2>1, SMT
  <2>4. F[j][d] = w * (u * v) /\ G[d][j] = v * (u * w)
    BY <2>2
  <2> QED BY <2>2, <2>3, <2>4
<1>3. ASSUME NEW j \in 0 .. n - 1
      PROVE  SumTo(D, col[j]) \in Int /\ x[j] = SumTo(D, F[j])
  <2> DEFINE f == col[j]
             g == F[j]
             c == s[j]
  <2>1. \A d \in 0 .. D - 1 : f[d] \in Int /\ g[d] = c * f[d]
    BY <1>1, <1>2
  <2>2. c \in Int /\ x[j] = SumTo(D, f) * c
    BY <1>0
  <2> HIDE DEF f, g, c
  <2>3. SumTo(D, g) = c * SumTo(D, f)
    BY <2>1, <2>2, SumTimes, Zenon
  <2>4. SumTo(D, f) \in Int
    BY <2>1, SumIsInteger
  <2>5. x[j] = SumTo(D, g)
    BY <2>2, <2>3, <2>4
  <2> QED BY <2>4, <2>5 DEF f, g
<1>4. ASSUME NEW d \in 0 .. D - 1
      PROVE  SumTo(n, row[d]) \in Int /\ y[d] = SumTo(n, G[d])
  <2> DEFINE f == row[d]
             g == G[d]
             c == digit[d]
  <2>1. \A j \in 0 .. n - 1 : f[j] \in Int /\ g[j] = c * f[j]
    BY <1>1, <1>2
  <2>2. c \in Int /\ y[d] = SumTo(n, f) * c
    BY <1>0
  <2> HIDE DEF f, g, c
  <2>3. SumTo(n, g) = c * SumTo(n, f)
    BY <2>1, <2>2, SumTimes, Zenon
  <2>4. SumTo(n, f) \in Int
    BY <2>1, SumIsInteger
  <2>5. y[d] = SumTo(n, g)
    BY <2>2, <2>3, <2>4
  <2> QED BY <2>4, <2>5 DEF f, g
<1>5. /\ \A j \in 0 .. n - 1 : x[j] = SumTo(D, F[j])
      /\ \A d \in 0 .. D - 1 : y[d] = SumTo(n, G[d])
  BY <1>3, <1>4
<1>6. \A j \in 0 .. n - 1 : \A d \in 0 .. D - 1 :
        F[j][d] \in Int /\ G[d][j] \in Int /\ G[d][j] = F[j][d]
  BY <1>2
<1>7. SumTo(n, x) = SumTo(D, y)
  <2>1. RowsAndColumns(n, D, F, G, x, y)
    BY <1>5, <1>6, Zenon DEF RowsAndColumns
  <2> QED BY <2>1, SumSwap
<1> QED BY <1>3, <1>4, <1>7 DEF Combined

(* A row of a switching key: at digit d a ciphertext of z times the        *)
(* power of the base.                                                      *)
RowOf(row, z) ==
  \A d \in SwitchDigits :
    /\ row[d].b \in Int /\ \A j \in Lwe : row[d].a[j] \in Int
    /\ Same(row[d].b, Dot(row[d].a) + z * Power(KeySwitchBase, d))

(* What a ciphertext's body has over its mask's product with the key.      *)
Excess(ct) == ct.b - Dot(ct.a)

(* One coefficient's corrections take its product with z off the phase.    *)
LEMMA CoefficientSwitched ==
  ASSUME NEW out \in LweCiphertext, NEW row, NEW z \in Int, RowOf(row, z),
         NEW scaled \in 0 .. CiphertextModulus - 1
  PROVE  LET new == SwitchCoefficient(out, row, scaled)
         IN  /\ new \in LweCiphertext
             /\ Excess(new) \in Int /\ Excess(out) \in Int
             /\ Same(Excess(new), Excess(out) - scaled * z)
<1> DEFINE n == LweDimension
           D == KeySwitchDigits
           q == CiphertextModulus
           digit == [d \in SwitchDigits |-> KeySwitchDigit(scaled, d)]
           A == [d \in SwitchDigits |-> row[d].a]
           power == [d \in SwitchDigits |-> Power(KeySwitchBase, d)]
           dots == [d \in SwitchDigits |-> Dot(A[d]) * digit[d]]
           weighted == [d \in SwitchDigits |-> power[d] * digit[d]]
           zweighted == [d \in SwitchDigits |-> z * weighted[d]]
           wanted == [d \in SwitchDigits |->
                        (Dot(A[d]) + z * power[d]) * digit[d]]
           bterms == [d \in SwitchDigits |-> row[d].b * digit[d]]
           line == [d \in SwitchDigits |-> [j \in Lwe |-> A[d][j] * FixedHsk[j]]]
           column == [j \in Lwe |-> [d \in SwitchDigits |-> A[d][j] * digit[d]]]
           corr == [j \in Lwe |-> SumTo(D, column[j])]
           cs == [j \in Lwe |-> corr[j] * FixedHsk[j]]
           corrb == SumTo(D, bterms)
           new == SwitchCoefficient(out, row, scaled)
<1>0. /\ n \in Nat /\ D \in Nat /\ q \in Nat \ {0} /\ n \in 0 .. n /\ D \in 0 .. D
      /\ Lwe = 0 .. n - 1 /\ SwitchDigits = 0 .. D - 1
      /\ KeySwitchBase \in Nat \ {0} /\ \A j \in Lwe : FixedHsk[j] \in Int
      /\ scaled \in Int
  BY ParameterAssumption DEF Lwe, SwitchDigits
<1>1. /\ \A d \in SwitchDigits : digit[d] \in Int
      /\ \A d \in SwitchDigits : power[d] \in Int
      /\ SumTo(D, weighted) = scaled
  <2>1. \A d \in SwitchDigits :
          weighted[d] = Power(KeySwitchBase, d) * KeySwitchDigit(scaled, d)
    OBVIOUS
  <2> HIDE DEF weighted
  <2>2. /\ \A d \in SwitchDigits : KeySwitchDigit(scaled, d) \in Nat
        /\ SumTo(D, weighted) = scaled
    BY <2>1, DigitsAreNumber
  <2>3. \A d \in Nat : Power(KeySwitchBase, d) \in Nat
    BY <1>0, PowerRecursion
  <2>4. \A d \in SwitchDigits : d \in Nat
    BY <1>0
  <2>5. /\ \A d \in SwitchDigits : digit[d] \in Nat
        /\ \A d \in SwitchDigits : power[d] \in Nat
    BY <2>2, <2>3, <2>4
  <2> QED BY <2>2, <2>5
<1>2. /\ \A d \in SwitchDigits : \A j \in Lwe : A[d][j] \in Int
      /\ \A d \in SwitchDigits : row[d].b \in Int
      /\ \A d \in SwitchDigits : Same(row[d].b, Dot(A[d]) + z * power[d])
  BY DEF RowOf
<1>3. /\ new.b = ModQ(out.b - corrb)
      /\ \A j \in Lwe : new.a[j] = ModQ(out.a[j] - corr[j])
      /\ new = [a |-> [j \in Lwe |-> ModQ(out.a[j] - corr[j])],
                b |-> ModQ(out.b - corrb)]
  <2>1. \A j \in Lwe :
          SumTo(D, [d \in SwitchDigits |->
            [e \in SwitchDigits |-> row[e].a[j]][d] * KeySwitchDigit(scaled, d)])
          = corr[j]
    <3> TAKE j \in Lwe
    <3>1. [d \in SwitchDigits |->
             [e \in SwitchDigits |-> row[e].a[j]][d] * KeySwitchDigit(scaled, d)]
          = column[j]
      OBVIOUS
    <3> HIDE DEF column
    <3> QED BY <3>1
  <2>2. SumTo(D, [d \in SwitchDigits |->
            [e \in SwitchDigits |-> row[e].b][d] * KeySwitchDigit(scaled, d)])
          = corrb
    <3>1. [d \in SwitchDigits |->
             [e \in SwitchDigits |-> row[e].b][d] * KeySwitchDigit(scaled, d)]
          = bterms
      OBVIOUS
    <3> HIDE DEF bterms
    <3> QED BY <3>1
  <2> HIDE DEF corr, corrb
  <2>3. new = [a |-> [j \in Lwe |-> ModQ(out.a[j] - corr[j])],
               b |-> ModQ(out.b - corrb)]
    BY <2>1, <2>2 DEF SwitchCoefficient
  <2> HIDE DEF new
  <2> QED BY <2>3
<1>4. /\ \A d \in SwitchDigits : /\ dots[d] = Dot(A[d]) * digit[d]
                                 /\ weighted[d] = power[d] * digit[d]
                                 /\ zweighted[d] = z * weighted[d]
                                 /\ wanted[d] = (Dot(A[d]) + z * power[d]) * digit[d]
                                 /\ bterms[d] = row[d].b * digit[d]
      /\ \A j \in Lwe : corr[j] = SumTo(D, column[j])
      /\ \A j \in Lwe : cs[j] = corr[j] * FixedHsk[j]
      /\ \A j \in Lwe : \A d \in SwitchDigits :
           /\ column[j][d] = A[d][j] * digit[d]
           /\ line[d][j] = A[d][j] * FixedHsk[j]
      /\ \A d \in SwitchDigits : Dot(A[d]) = SumTo(n, line[d])
  <2>1. \A d \in SwitchDigits : line[d] = [j \in Lwe |-> A[d][j] * FixedHsk[j]]
    OBVIOUS
  <2>2. \A d \in SwitchDigits : Dot(A[d]) = SumTo(n, line[d])
    BY <2>1, Zenon DEF Dot
  <2> QED BY <2>2
<1> HIDE DEF n, D, q, digit, A, power, dots, weighted, zweighted, wanted, bterms,
             line, column, corr, cs, corrb, new
<1>5. /\ \A j \in Lwe : corr[j] \in Int
      /\ \A d \in SwitchDigits : Dot(A[d]) \in Int
      /\ SumTo(n, cs) = SumTo(D, dots)
  <2>1. /\ \A d \in 0 .. D - 1 : digit[d] \in Int
        /\ \A j \in 0 .. n - 1 : FixedHsk[j] \in Int
        /\ \A d \in 0 .. D - 1 : \A j \in 0 .. n - 1 : A[d][j] \in Int
    BY <1>0, <1>1, <1>2
  <2>2. /\ \A j \in 0 .. n - 1 : \A d \in 0 .. D - 1 :
             /\ column[j][d] = A[d][j] * digit[d]
             /\ line[d][j] = A[d][j] * FixedHsk[j]
        /\ \A j \in 0 .. n - 1 : cs[j] = SumTo(D, column[j]) * FixedHsk[j]
        /\ \A d \in 0 .. D - 1 : dots[d] = SumTo(n, line[d]) * digit[d]
    BY <1>0, <1>4
  <2>3. /\ \A j \in 0 .. n - 1 : SumTo(D, column[j]) \in Int
        /\ \A d \in 0 .. D - 1 : SumTo(n, line[d]) \in Int
        /\ SumTo(n, cs) = SumTo(D, dots)
    <3>1. n \in Nat /\ D \in Nat
      BY <1>0
    <3>2. Weighted(n, D, A, FixedHsk, digit, column, line, cs, dots)
      BY <2>1, <2>2, Zenon DEF Weighted
    <3>3. Combined(n, D, column, line, cs, dots)
      BY <3>1, <3>2, RowsCombine, Zenon
    <3> QED BY <3>3 DEF Combined
  <2> QED BY <1>0, <1>4, <2>3
<1>6. Same(corrb, SumTo(D, dots) + z * scaled) /\ corrb \in Int
      /\ SumTo(D, dots) \in Int
  <2>1. \A d \in 0 .. D - 1 :
          /\ dots[d] \in Int /\ weighted[d] \in Int /\ zweighted[d] \in Int
          /\ wanted[d] = dots[d] + zweighted[d]
          /\ bterms[d] \in Int /\ wanted[d] \in Int
          /\ Same(bterms[d], wanted[d])
    <3> SUFFICES ASSUME NEW d \in SwitchDigits
                 PROVE  /\ dots[d] \in Int /\ weighted[d] \in Int
                        /\ zweighted[d] \in Int
                        /\ wanted[d] = dots[d] + zweighted[d]
                        /\ bterms[d] \in Int /\ wanted[d] \in Int
                        /\ Same(bterms[d], wanted[d])
      BY <1>0
    <3> DEFINE x == Dot(A[d])
               g == digit[d]
               p == power[d]
               b == row[d].b
    <3>1. x \in Int /\ g \in Int /\ p \in Int /\ b \in Int /\ z \in Int
          /\ Same(b, x + z * p)
      BY <1>1, <1>2, <1>5
    <3>2. /\ dots[d] = x * g /\ weighted[d] = p * g
          /\ zweighted[d] = z * (p * g) /\ wanted[d] = (x + z * p) * g
          /\ bterms[d] = b * g
      BY <1>4
    <3> HIDE DEF x, g, p, b
    <3>3. /\ x * g \in Int /\ p * g \in Int /\ z * (p * g) \in Int
          /\ (x + z * p) * g = x * g + z * (p * g) /\ b * g \in Int
          /\ (x + z * p) * g \in Int /\ x + z * p \in Int
      BY <3>1, SMT
    <3>4. Same(b * g, (x + z * p) * g)
      <4> DEFINE y == x + z * p
      <4>1. b \in Int /\ y \in Int /\ g \in Int /\ Same(b, y)
        BY <3>1, <3>3
      <4> HIDE DEF y
      <4>2. Same(b * g, y * g)
        BY <4>1, SameCombine, Zenon
      <4> QED BY <4>2 DEF y
    <3> QED BY <3>2, <3>3, <3>4
  <2>2. /\ SumTo(D, wanted) = SumTo(D, dots) + SumTo(D, zweighted)
        /\ SumTo(D, dots) \in Int /\ SumTo(D, wanted) \in Int
        /\ SumTo(D, bterms) \in Int
    <3>1. SumTo(D, wanted) = SumTo(D, dots) + SumTo(D, zweighted)
      <4>1. D \in Nat
        BY <1>0
      <4>2. \A d \in 0 .. D - 1 : dots[d] \in Int /\ zweighted[d] \in Int
                                     /\ wanted[d] = dots[d] + zweighted[d]
        BY <2>1
      <4> QED BY <4>1, <4>2, SumAdds, Zenon
    <3> QED BY <1>0, <2>1, <3>1, SumIsInteger
  <2>3. SumTo(D, zweighted) = z * SumTo(D, weighted)
    <3>1. \A d \in 0 .. D - 1 : weighted[d] \in Int /\ zweighted[d] = z * weighted[d]
      BY <1>0, <1>4, <2>1
    <3> QED BY <1>0, <3>1, SumTimes
  <2>4. Same(SumTo(D, bterms), SumTo(D, wanted))
    BY <1>0, <2>1, SumSameResidue
  <2> QED BY <1>1, <2>2, <2>3, <2>4 DEF corrb
<1>7. /\ new.b \in Int /\ Same(new.b, out.b - corrb)
      /\ \A j \in Lwe : new.a[j] \in Int /\ Same(new.a[j], out.a[j] - corr[j])
      /\ out.b \in Int /\ \A j \in Lwe : out.a[j] \in Int
      /\ new \in LweCiphertext
  <2>1. out.b \in Int /\ \A j \in Lwe : out.a[j] \in Int
    BY DEF LweCiphertext
  <2>2. \A v \in Int : ModQ(v) \in Int /\ Same(ModQ(v), v)
    <3> TAKE v \in Int
    <3>1. ModQ(v) \in 0 .. CiphertextModulus - 1 /\ Same(ModQ(v), v)
      BY SameResidue
    <3> QED BY <3>1
  <2>3. out.b - corrb \in Int /\ \A j \in Lwe : out.a[j] - corr[j] \in Int
    BY <1>5, <1>6, <2>1
  <2>4. new \in LweCiphertext
    BY <1>3, <2>2, <2>3 DEF LweCiphertext
  <2> QED BY <1>3, <2>1, <2>2, <2>3, <2>4
<1> DEFINE f == [j \in 0 .. n - 1 |-> out.a[j] * FixedHsk[j]]
           g == cs
           h == [j \in 0 .. n - 1 |-> (out.a[j] - corr[j]) * FixedHsk[j]]
           k == [j \in 0 .. n - 1 |-> new.a[j] * FixedHsk[j]]
           minus == [j \in 0 .. n - 1 |-> (-1) * g[j]]
<1>8. \A j \in 0 .. n - 1 :
        /\ f[j] \in Int /\ g[j] \in Int /\ h[j] \in Int /\ k[j] \in Int
        /\ minus[j] \in Int /\ minus[j] = (-1) * g[j]
        /\ h[j] = f[j] + minus[j] /\ Same(k[j], h[j])
  <2> SUFFICES ASSUME NEW j \in 0 .. n - 1
               PROVE  /\ f[j] \in Int /\ g[j] \in Int /\ h[j] \in Int
                      /\ k[j] \in Int /\ minus[j] \in Int
                      /\ minus[j] = (-1) * g[j]
                      /\ h[j] = f[j] + minus[j] /\ Same(k[j], h[j])
    OBVIOUS
  <2> DEFINE u == out.a[j]
             v == corr[j]
             w == new.a[j]
             s == FixedHsk[j]
  <2>1. u \in Int /\ v \in Int /\ w \in Int /\ s \in Int /\ Same(w, u - v)
    BY <1>0, <1>5, <1>7
  <2>2. f[j] = u * s /\ g[j] = v * s /\ h[j] = (u - v) * s /\ k[j] = w * s
        /\ minus[j] = (-1) * (v * s)
    BY <1>0, <1>4
  <2> HIDE DEF u, v, w, s, f, g, h, k, minus
  <2>3. /\ u * s \in Int /\ v * s \in Int /\ (u - v) * s \in Int /\ w * s \in Int
        /\ (u - v) * s = u * s + (-1) * (v * s) /\ (-1) * (v * s) \in Int
        /\ u - v \in Int
    BY <2>1, SMT
  <2>4. Same(w * s, (u - v) * s)
    <3> DEFINE t == u - v
    <3>1. w \in Int /\ t \in Int /\ s \in Int /\ Same(w, t)
      BY <2>1, <2>3
    <3> HIDE DEF t
    <3>2. Same(w * s, t * s)
      BY <3>1, SameCombine, Zenon
    <3> QED BY <3>2 DEF t
  <2> QED BY <2>2, <2>3, <2>4
<1>9. Dot(out.a) = SumTo(n, f) /\ Dot(new.a) = SumTo(n, k)
      /\ SumTo(n, g) = SumTo(D, dots)
  BY <1>0, <1>5 DEF Dot, n
<1> HIDE DEF f, g, h, k, minus
<1>10. /\ SumTo(n, f) \in Int /\ SumTo(n, g) \in Int /\ SumTo(n, h) \in Int
       /\ SumTo(n, k) \in Int
       /\ SumTo(n, h) = SumTo(n, f) + SumTo(n, minus)
       /\ SumTo(n, minus) = (-1) * SumTo(n, g)
       /\ Same(SumTo(n, k), SumTo(n, h))
  <2>1. -1 \in Int
    OBVIOUS
  <2>2. SumTo(n, minus) = (-1) * SumTo(n, g)
    BY <1>0, <1>8, <2>1, SumTimes
  <2>3. SumTo(n, h) = SumTo(n, f) + SumTo(n, minus)
    <3>1. n \in Nat
      BY <1>0
    <3>2. \A j \in 0 .. n - 1 : f[j] \in Int /\ minus[j] \in Int
                                   /\ h[j] = f[j] + minus[j]
      BY <1>8
    <3> QED BY <3>1, <3>2, SumAdds, Zenon
  <2>4. Same(SumTo(n, k), SumTo(n, h))
    BY <1>0, <1>8, SumSameResidue
  <2> QED BY <1>0, <1>8, <2>2, <2>3, <2>4, SumIsInteger
<1> DEFINE dotout == SumTo(n, f)
           dotnew == SumTo(n, k)
           sumdots == SumTo(D, dots)
<1>11. /\ Same(dotnew, dotout - sumdots) /\ dotnew \in Int /\ dotout \in Int
       /\ sumdots \in Int /\ z * scaled \in Int
  <2>1. (-1) * SumTo(n, g) = 0 - SumTo(n, g)
    BY <1>10
  <2>2. SumTo(n, h) = dotout - sumdots
    BY <1>9, <1>10, <2>1
  <2>3. z * scaled \in Int
    BY <1>0, SMT
  <2> QED BY <1>6, <1>10, <2>2, <2>3
<1> DEFINE bo == out.b
           bn == new.b
<1>12. /\ Same(bn, bo - corrb) /\ Same(corrb, sumdots + z * scaled)
       /\ bn \in Int /\ bo \in Int /\ corrb \in Int
  BY <1>6, <1>7
<1>13. Excess(new) = bn - dotnew /\ Excess(out) = bo - dotout
  BY <1>9 DEF Excess
<1> DEFINE zs == z * scaled
<1> HIDE DEF dotout, dotnew, sumdots, bo, bn, zs
<1>14. Same(bn - dotnew, (bo - dotout) - zs)
  <2>0. zs \in Int /\ Same(corrb, sumdots + zs)
    BY <1>11, <1>12 DEF zs
  <2>1. /\ bo - corrb \in Int /\ bo - (sumdots + zs) \in Int
        /\ sumdots + zs \in Int /\ dotout - sumdots \in Int
        /\ bn - dotnew \in Int
        /\ (bo - corrb) - (dotout - sumdots) \in Int
        /\ (bo - (sumdots + zs)) - (dotout - sumdots) \in Int
        /\ (bo - (sumdots + zs)) - (dotout - sumdots) = (bo - dotout) - zs
    BY <1>11, <1>12, <2>0
  <2>2. Same(bn - dotnew, (bo - corrb) - (dotout - sumdots))
    BY <1>11, <1>12, <2>1, SameCombine
  <2>3. Same(bo, bo)
    BY <1>12, SameResidue
  <2>4. Same(bo - corrb, bo - (sumdots + zs))
    BY <1>12, <2>0, <2>1, <2>3, SameCombine
  <2>5. Same(dotout - sumdots, dotout - sumdots)
    BY <2>1, SameResidue
  <2>6. Same((bo - corrb) - (dotout - sumdots),
             (bo - (sumdots + zs)) - (dotout - sumdots))
    BY <2>1, <2>4, <2>5, SameCombine
  <2>7. Same(bn - dotnew, (bo - (sumdots + zs)) - (dotout - sumdots))
    BY <2>1, <2>2, <2>6, SameTransitive
  <2> QED BY <2>1, <2>7
<1>15. zs = scaled * z
  BY <1>0 DEF zs
<1> QED BY <1>7, <1>11, <1>12, <1>13, <1>14, <1>15 DEF new

(* A coefficient scaled down is a residue.                                 *)
LEMMA ScaledResidue ==
  ASSUME NEW v \in Int
  PROVE  ScaleRingQToQ(v) \in 0 .. CiphertextModulus - 1
<1> DEFINE x == v * CiphertextModulus
           y == x + RingModulus \div 2
           w == y \div RingModulus
<1>0. CiphertextModulus \in Nat \ {0} /\ RingModulus \in Nat \ {0}
  BY ParameterAssumption
<1>1. x \in Int
  BY <1>0, Products
<1>2. RingModulus \div 2 \in Int
  BY <1>0
<1>3. y \in Int
  BY <1>1, <1>2
<1>4. w \in Int
  <2> HIDE DEF y
  <2> QED BY <1>0, <1>3, DivMod
<1>5. ScaleRingQToQ(v) = ModQ(w)
  BY DEF ScaleRingQToQ
<1> HIDE DEF w
<1> QED BY <1>4, <1>5, SameResidue

(* The zero mask.                                                          *)
LEMMA DotOfZero ==
  ASSUME NEW a, \A j \in Lwe : a[j] = 0
  PROVE  Dot(a) = 0
<1> DEFINE n == LweDimension
           f == [j \in Lwe |-> a[j] * FixedHsk[j]]
<1>0. n \in Nat /\ Lwe = 0 .. n - 1 /\ \A j \in Lwe : FixedHsk[j] \in Int
  BY ParameterAssumption DEF Lwe
<1>1. \A j \in Lwe : f[j] = 0
  <2> TAKE j \in Lwe
  <2>1. FixedHsk[j] \in Int
    BY <1>0
  <2>2. 0 * FixedHsk[j] = 0
    BY <2>1
  <2> QED BY <2>2
<1>2. Dot(a) = SumTo(n, f)
  BY DEF Dot
<1> HIDE DEF f, n
<1>3. \A j \in 0 .. n - 1 : f[j] \in Int /\ f[j] = 0 * f[j]
  BY <1>0, <1>1
<1>4. SumTo(n, f) = 0 * SumTo(n, f)
  BY <1>0, <1>3, SumTimes
<1>5. SumTo(n, f) \in Int
  BY <1>0, <1>3, SumIsInteger
<1> QED BY <1>2, <1>4, <1>5

(* A switching key for the coefficients of a ring secret z.                *)
KeyOf(switching, z) ==
  \A i \in Ring : z[i] \in Int /\ RowOf(switching[i], z[i])

LargeLwe == [a : [Ring -> Int], b : Int]

(* Switching a ciphertext keeps its phase, coefficients scaled down.       *)
LEMMA CiphertextSwitched ==
  ASSUME NEW switching, NEW z, KeyOf(switching, z), NEW large \in LargeLwe,
         NEW terms,
         \A i \in Ring : terms[i] = ScaleRingQToQ(large.a[i]) * z[i]
  PROVE  LET ct == SwitchCTtoqn(switching, large)
         IN  /\ ct \in LweCiphertext
             /\ Same(Excess(ct),
                     ScaleRingQToQ(large.b) - SumTo(RingDimension, terms))
<1> DEFINE N == RingDimension
           scaled == [i \in Ring |-> ScaleRingQToQ(large.a[i])]
           first == [ZeroCiphertext EXCEPT !.b = ScaleRingQToQ(large.b)]
           Next1(v, i) == SwitchCoefficient(v, switching[i], scaled[i])
           step == [i \in Nat |-> [v \in LweCiphertext |->
                      IF i < N THEN Next1(v, i) ELSE v]]
           out[i \in 0 .. N] ==
             IF i = 0 THEN first
             ELSE SwitchCoefficient(out[i - 1], switching[i - 1],
                                    ScaleRingQToQ(large.a[i - 1]))
<1>0. N \in Nat /\ Ring = 0 .. N - 1
  BY ParameterAssumption DEF Ring
<1>1. \A i \in Ring : /\ scaled[i] \in 0 .. CiphertextModulus - 1
                      /\ scaled[i] = ScaleRingQToQ(large.a[i])
                      /\ z[i] \in Int /\ RowOf(switching[i], z[i])
                      /\ terms[i] = scaled[i] * z[i]
  <2> TAKE i \in Ring
  <2>1. large.a[i] \in Int
    BY DEF LargeLwe
  <2>2. scaled[i] = ScaleRingQToQ(large.a[i])
    OBVIOUS
  <2> HIDE DEF scaled
  <2>3. scaled[i] \in 0 .. CiphertextModulus - 1
    BY <2>1, <2>2, ScaledResidue
  <2>4. z[i] \in Int /\ RowOf(switching[i], z[i])
    BY DEF KeyOf
  <2> QED BY <2>2, <2>3, <2>4
<1>2. first \in LweCiphertext /\ Excess(first) = ScaleRingQToQ(large.b)
      /\ ScaleRingQToQ(large.b) \in Int
  <2> DEFINE zeros == [j \in Lwe |-> 0]
             b == ScaleRingQToQ(large.b)
  <2>1. large.b \in Int
    BY DEF LargeLwe
  <2>2. b \in 0 .. CiphertextModulus - 1
    BY <2>1, ScaledResidue
  <2>3. b \in Int
    BY <2>2
  <2>4. \A j \in Lwe : zeros[j] = 0
    OBVIOUS
  <2>5. first = [a |-> zeros, b |-> b]
    BY DEF ZeroCiphertext
  <2>6. zeros \in [Lwe -> Int]
    OBVIOUS
  <2> HIDE DEF b, zeros, first
  <2>7. Dot(zeros) = 0
    BY <2>4, DotOfZero
  <2>8. first \in LweCiphertext /\ first.a = zeros /\ first.b = b
    BY <2>3, <2>5, <2>6 DEF LweCiphertext
  <2> QED BY <2>3, <2>7, <2>8 DEF Excess, b
<1> HIDE DEF scaled, first
<1>3. ASSUME NEW i \in Ring, NEW v \in LweCiphertext
      PROVE  /\ Next1(v, i) \in LweCiphertext
             /\ Excess(Next1(v, i)) \in Int /\ Excess(v) \in Int
             /\ Same(Excess(Next1(v, i)), Excess(v) - terms[i])
             /\ terms[i] \in Int
  <2> DEFINE r == switching[i]
             s == scaled[i]
             y == z[i]
  <2>1. s \in 0 .. CiphertextModulus - 1 /\ y \in Int /\ RowOf(r, y)
        /\ terms[i] = s * y
    BY <1>1
  <2> HIDE DEF r, s, y
  <2>2. LET new == SwitchCoefficient(v, r, s)
        IN  /\ new \in LweCiphertext
            /\ Excess(new) \in Int /\ Excess(v) \in Int
            /\ Same(Excess(new), Excess(v) - s * y)
    BY <2>1, CoefficientSwitched
  <2>3. s * y \in Int
    <3>1. s \in Int
      BY <2>1, ParameterAssumption
    <3> QED BY <2>1, <3>1, Products
  <2> QED BY <2>1, <2>2, <2>3 DEF r, s
<1>4. step \in [Nat -> [LweCiphertext -> LweCiphertext]]
  <2>1. ASSUME NEW i \in Nat, NEW v \in LweCiphertext
        PROVE  (IF i < N THEN Next1(v, i) ELSE v) \in LweCiphertext
    <3>1. CASE i < N
      <4>1. i \in Ring
        BY <1>0, <3>1
      <4> HIDE DEF Next1
      <4> QED BY <1>3, <3>1, <4>1
    <3>2. CASE ~ (i < N)
      BY <3>2
    <3> QED BY <3>1, <3>2
  <2> HIDE DEF Next1
  <2> QED BY <2>1
<1>5. \A i \in Ring : \A v \in LweCiphertext :
        step[i][v] = SwitchCoefficient(v, switching[i], scaled[i])
  BY <1>0
<1> HIDE DEF step
<1>6. PICK f : Solves(f, LweCiphertext, first, step)
  <2>1. Recursion(LweCiphertext, first, step)
    BY <1>2, <1>4 DEF Recursion
  <2> QED BY <2>1, RecursionExists
<1>7. /\ f[0] = first /\ \A i \in Nat : f[i] \in LweCiphertext
      /\ \A i \in Ring :
           f[i + 1] = SwitchCoefficient(f[i], switching[i], scaled[i])
  <2>1. f \in [Nat -> LweCiphertext] /\ f[0] = first
        /\ \A i \in Nat : f[i + 1] = step[i][f[i]]
    BY <1>6 DEF Solves
  <2>2. \A i \in Nat : f[i] \in LweCiphertext
    BY <2>1
  <2>3. \A i \in Ring : i \in Nat
    BY <1>0
  <2> QED BY <1>5, <2>1, <2>2, <2>3
<1>8. \E g : g = [i \in 0 .. N |->
                    IF i = 0 THEN first
                    ELSE SwitchCoefficient(g[i - 1], switching[i - 1],
                                           ScaleRingQToQ(large.a[i - 1]))]
  <2> DEFINE g == [i \in 0 .. N |-> f[i]]
  <2>1. ASSUME NEW i \in 0 .. N
        PROVE  f[i] = IF i = 0 THEN first
                      ELSE SwitchCoefficient(g[i - 1], switching[i - 1],
                                             ScaleRingQToQ(large.a[i - 1]))
    <3>1. CASE i = 0
      BY <1>7, <3>1
    <3>2. CASE i # 0
      <4> DEFINE k == i - 1
      <4>1. k \in Ring /\ k \in 0 .. N /\ k + 1 = i
        BY <1>0, <3>2
      <4>2. g[k] = f[k]
        BY <4>1
      <4> HIDE DEF k
      <4>3. f[k + 1] = SwitchCoefficient(f[k], switching[k], scaled[k])
            /\ scaled[k] = ScaleRingQToQ(large.a[k])
        BY <1>1, <1>7, <4>1
      <4>4. f[i] = SwitchCoefficient(g[k], switching[k],
                                     ScaleRingQToQ(large.a[k]))
        BY <4>1, <4>2, <4>3
      <4> QED BY <3>2, <4>4 DEF k
    <3> QED BY <3>1, <3>2
  <2>2. g = [i \in 0 .. N |->
               IF i = 0 THEN first
               ELSE SwitchCoefficient(g[i - 1], switching[i - 1],
                                      ScaleRingQToQ(large.a[i - 1]))]
    BY <2>1
  <2> QED BY <2>2
<1>9. out = [i \in 0 .. N |->
               IF i = 0 THEN first
               ELSE SwitchCoefficient(out[i - 1], switching[i - 1],
                                      ScaleRingQToQ(large.a[i - 1]))]
  BY <1>8
<1>10. SwitchCTtoqn(switching, large) = out[N]
  BY DEF SwitchCTtoqn, first
<1> HIDE DEF out
<1> DEFINE T == {i \in Nat : i <= N => out[i] = f[i]}
<1>11. 0 \in T
  BY <1>0, <1>7, <1>9
<1>12. ASSUME NEW i \in Nat, i \in T
       PROVE  i + 1 \in T
  <2> SUFFICES ASSUME i + 1 <= N PROVE out[i + 1] = f[i + 1]
    OBVIOUS
  <2>1. i \in Ring /\ i + 1 \in 0 .. N /\ i + 1 # 0 /\ (i + 1) - 1 = i
        /\ out[i] = f[i]
    BY <1>0, <1>12
  <2>2. out[i + 1] = SwitchCoefficient(out[i], switching[i],
                                       ScaleRingQToQ(large.a[i]))
    BY <1>9, <2>1
  <2>3. scaled[i] = ScaleRingQToQ(large.a[i])
    BY <1>1, <2>1
  <2> QED BY <1>7, <2>1, <2>2, <2>3
<1> HIDE DEF T
<1>13. Nat \subseteq T
  BY <1>11, <1>12, SetInduction
<1>14. out[N] = f[N]
  BY <1>0, <1>13 DEF T
<1> DEFINE b == ScaleRingQToQ(large.b)
           S == {m \in Nat : m <= N =>
                   Same(Excess(f[m]), b - SumTo(m, terms))}
<1> HIDE DEF b
<1>15. b \in Int /\ Excess(f[0]) = b
  BY <1>2, <1>7 DEF b
<1>16. \A i \in 0 .. N - 1 : terms[i] \in Int
  <2> TAKE i \in 0 .. N - 1
  <2>1. i \in Ring
    BY <1>0
  <2> HIDE DEF Next1
  <2> QED BY <1>2, <1>3, <2>1
<1>17. /\ SumTo(0, terms) = 0
       /\ \A m \in 0 .. N : SumTo(m, terms) \in Int
       /\ \A m \in 0 .. N - 1 :
            SumTo(m + 1, terms) = SumTo(m, terms) + terms[m]
  BY <1>0, <1>16, SumRecursion
<1>18. 0 \in S
  <2>1. b - 0 = b
    BY <1>15
  <2>2. Same(b, b)
    BY <1>15, SameResidue
  <2> QED BY <1>15, <1>17, <2>1, <2>2
<1>19. ASSUME NEW m \in Nat, m \in S
       PROVE  m + 1 \in S
  <2> SUFFICES ASSUME m + 1 <= N
               PROVE  Same(Excess(f[m + 1]), b - SumTo(m + 1, terms))
    OBVIOUS
  <2> DEFINE u == Excess(f[m])
             v == Excess(f[m + 1])
             s == SumTo(m, terms)
             t == terms[m]
  <2>1. m \in Ring /\ m \in 0 .. N - 1 /\ m \in 0 .. N /\ Same(u, b - s)
    BY <1>0, <1>19
  <2>2. f[m] \in LweCiphertext
        /\ f[m + 1] = SwitchCoefficient(f[m], switching[m], scaled[m])
    BY <1>7, <2>1
  <2>3. v \in Int /\ u \in Int /\ Same(v, u - t) /\ t \in Int
    BY <1>3, <2>1, <2>2
  <2>4. SumTo(m + 1, terms) = s + t /\ s \in Int
    BY <1>17, <2>1
  <2> HIDE DEF u, v, s, t
  <2>5. Same(u - t, (b - s) - t)
    <3>1. Same(t, t)
      BY <2>3, SameResidue
    <3>2. b - s \in Int
      BY <1>15, <2>4
    <3> DEFINE w == b - s
    <3> HIDE DEF w
    <3>3. Same(u - t, w - t)
      BY <2>1, <2>3, <3>1, <3>2, SameCombine DEF w
    <3> QED BY <3>3 DEF w
  <2>6. /\ u - t \in Int /\ (b - s) - t \in Int
        /\ (b - s) - t = b - (s + t)
    BY <1>15, <2>3, <2>4
  <2>7. Same(v, (b - s) - t)
    BY <2>3, <2>5, <2>6, SameTransitive
  <2> QED BY <2>4, <2>6, <2>7 DEF v
<1> HIDE DEF S
<1>20. Nat \subseteq S
  BY <1>18, <1>19, SetInduction
<1>21. Same(Excess(f[N]), b - SumTo(N, terms))
  BY <1>0, <1>20 DEF S
<1>22. f[N] \in LweCiphertext
  BY <1>0, <1>7
<1> QED BY <1>10, <1>14, <1>21, <1>22 DEF b

(* What decryption with the small key sees.                                *)
LEMMA PhaseIsExcess ==
  ASSUME NEW ct \in LweCiphertext
  PROVE  /\ Excess(ct) \in Int
         /\ PhaseWithFixedHsk(ct) = ModQ(Excess(ct))
<1> DEFINE d == Dot(ct.a)
           e == DotWithFixedHsk(ct)
           b == ct.b
<1>1. b \in Int /\ \A j \in Lwe : ct.a[j] \in Int
  BY DEF LweCiphertext
<1>2. d \in Int /\ e \in 0 .. CiphertextModulus - 1 /\ Same(e, d)
  BY <1>1, DotResidue
<1>3. e \in Int
  BY <1>2, ParameterAssumption
<1>4. Excess(ct) = b - d /\ PhaseWithFixedHsk(ct) = ModQ(b - e)
  BY DEF Excess, PhaseWithFixedHsk
<1> HIDE DEF b, d, e
<1>5. Same(b, b)
  BY <1>1, SameResidue
<1>6. Same(b - e, b - d)
  BY <1>1, <1>2, <1>3, <1>5, SameCombine
<1>7. ModQ(b - e) = ModQ(b - d)
  <2>1. b - e \in Int /\ b - d \in Int
    BY <1>1, <1>2, <1>3
  <2> QED BY <1>6, <2>1, SameResidue
<1>8. b - d \in Int
  BY <1>1, <1>2
<1> QED BY <1>4, <1>7, <1>8

(* The rows of the switching key are a key of the ring secret, the absent  *)
(* one a key of zeros.                                                     *)
NoSecret == [i \in Ring |-> 0]

(* The switching key is one of the ring's secret.                          *)
LEMMA SwitchingKeyOf == KeyOf(SwitchingKey, RingSecret)
<1>0. /\ \A i \in Ring : RingSecret[i] \in Int
      /\ \A j \in Lwe : SwitchMask[j] \in Int
      /\ RingDimension \in Nat /\ KeySwitchDigits \in Nat
      /\ KeySwitchBase \in Nat \ {0}
      /\ Ring = 0 .. RingDimension - 1
      /\ SwitchDigits = 0 .. KeySwitchDigits - 1
  <2>1. \A i \in Ring : RingSecret[i] \in Int
    BY KeyAssumption
  <2>2. \A j \in Lwe : SwitchMask[j] \in Int
    BY KeyAssumption
  <2> QED BY <2>1, <2>2, ParameterAssumption DEF Ring, SwitchDigits
<1>1. ASSUME NEW i \in Ring, NEW d \in SwitchDigits
      PROVE  LET row == SwitchingKey[i][d]
             IN  /\ row.b \in Int /\ \A j \in Lwe : row.a[j] \in Int
                 /\ Same(row.b, Dot(row.a)
                                  + RingSecret[i] * Power(KeySwitchBase, d))
  <2> DEFINE mask == [j \in Lwe |-> ModQ((i + d + 1) * SwitchMask[j])]
             ct == [a |-> mask, b |-> 0]
             w == RingSecret[i] * Power(KeySwitchBase, d)
             e == DotWithFixedHsk(ct)
             b == ModQ(e + w)
  <2>1. SwitchingKey[i][d] = [a |-> mask, b |-> b]
    BY DEF SwitchingKey
  <2>2. \A j \in Lwe : mask[j] \in Int
    <3> TAKE j \in Lwe
    <3> DEFINE m == i + d + 1
               s == SwitchMask[j]
    <3>1. m \in Int /\ s \in Int
      BY <1>0
    <3>2. mask[j] = ModQ(m * s)
      OBVIOUS
    <3> HIDE DEF m, s, mask
    <3>3. m * s \in Int
      BY <3>1, Products
    <3>4. ModQ(m * s) \in Int
      BY <3>3, SameResidue, ParameterAssumption
    <3> QED BY <3>2, <3>4
  <2>3. w \in Int
    <3> DEFINE z == RingSecret[i]
               p == Power(KeySwitchBase, d)
    <3>1. z \in Int /\ p \in Int
      <4>1. d \in Nat
        BY <1>0
      <4> QED BY <1>0, <4>1, PowerRecursion
    <3>2. w = z * p
      OBVIOUS
    <3> HIDE DEF z, p, w
    <3> QED BY <3>1, <3>2, Products
  <2> HIDE DEF mask, w
  <2>4. ct.a = mask
    OBVIOUS
  <2> HIDE DEF ct
  <2>5. /\ Dot(mask) \in Int /\ e \in 0 .. CiphertextModulus - 1
        /\ Same(e, Dot(mask))
    BY <2>2, <2>4, DotResidue
  <2>6. e \in Int
    BY <2>5, ParameterAssumption
  <2> DEFINE dot == Dot(mask)
  <2> HIDE DEF e, dot
  <2>7. Same(w, w)
    BY <2>3, SameResidue
  <2>8. dot \in Int /\ Same(e, dot)
    BY <2>5 DEF dot
  <2>9. Same(e + w, dot + w) /\ e + w \in Int /\ dot + w \in Int
    BY <2>3, <2>6, <2>7, <2>8, SameCombine
  <2>10. Same(b, e + w) /\ b \in Int
    BY <2>9, SameResidue, ParameterAssumption
  <2> HIDE DEF b
  <2>11. Same(b, dot + w)
    BY <2>9, <2>10, SameTransitive
  <2> QED BY <2>1, <2>2, <2>10, <2>11 DEF dot, w
<1> QED BY <1>0, <1>1 DEF KeyOf, RowOf

(* The rows of zeros are a key of no secret.                               *)
LEMMA NoSwitchingKeyOf == KeyOf(NoSwitchingKey, NoSecret)
<1>0. /\ KeySwitchDigits \in Nat /\ KeySwitchBase \in Nat \ {0}
      /\ SwitchDigits = 0 .. KeySwitchDigits - 1
  BY ParameterAssumption DEF SwitchDigits
<1>1. ASSUME NEW i \in Ring, NEW d \in SwitchDigits
      PROVE  LET row == NoSwitchingKey[i][d]
             IN  /\ row.b \in Int /\ \A j \in Lwe : row.a[j] \in Int
                 /\ Same(row.b, Dot(row.a)
                                  + NoSecret[i] * Power(KeySwitchBase, d))
  <2> DEFINE zeros == [j \in Lwe |-> 0]
             p == Power(KeySwitchBase, d)
  <2>1. NoSwitchingKey[i][d] = [a |-> zeros, b |-> 0]
    BY DEF NoSwitchingKey, ZeroCiphertext
  <2>2. \A j \in Lwe : zeros[j] = 0
    OBVIOUS
  <2> HIDE DEF zeros
  <2>3. Dot(zeros) = 0
    BY <2>2, DotOfZero
  <2>4. p \in Int
    BY <1>0, PowerRecursion
  <2>5. NoSecret[i] = 0
    BY DEF NoSecret
  <2> HIDE DEF p
  <2>6. Dot(zeros) + NoSecret[i] * p = 0
    <3>1. 0 * p = 0
      BY <2>4
    <3> QED BY <2>3, <2>5, <3>1
  <2>7. Same(0, 0)
    BY SameResidue
  <2> QED BY <2>1, <2>2, <2>6, <2>7 DEF p
<1>2. \A i \in Ring : NoSecret[i] \in Int
  BY DEF NoSecret
<1> QED BY <1>1, <1>2 DEF KeyOf, RowOf

-----------------------------------------------------------------------------
(* What the accumulator may hold.                                          *)

Polynomial == [Ring -> Int]
Accumulator == [a : Polynomial, b : Polynomial]

(* The ring has a coefficient, and residues of it are integers.            *)
LEMMA RingIsInterval ==
  /\ RingDimension \in Nat \ {0} /\ Ring = 0 .. RingDimension - 1
  /\ \A v \in Int : ModRing(v) \in Int
<1>1. RingModulus \in Nat \ {0}
  BY ParameterAssumption
<1>2. \A v \in Int : ModRing(v) \in Int
  BY <1>1, DivMod DEF ModRing
<1> QED BY <1>2, ParameterAssumption DEF Ring

(* Sums, turns and products of polynomials of integers.                    *)
LEMMA SumOfPolynomials ==
  ASSUME NEW f \in Polynomial, NEW g \in Polynomial
  PROVE  AddPolynomials(f, g) \in Polynomial
<1>1. \A k \in Ring : f[k] + g[k] \in Int
  BY DEF Polynomial
<1> QED BY <1>1, RingIsInterval DEF AddPolynomials, Polynomial

(* A turn of a polynomial.                                                 *)
LEMMA TurnedIsPolynomial ==
  ASSUME NEW f \in Polynomial, NEW e \in Int
  PROVE  MultiplyByNegacyclicMonomial(f, e) \in Polynomial
<1> DEFINE N == RingDimension
           wrapped_exponent == e % (2 * N)
           negacyclic == wrapped_exponent >= N
           shift == wrapped_exponent % N
           Source(k) == (k - shift) % N
           Wrapped(k) == Source(k) + shift >= N
           Turn(k) == ModRing(IF negacyclic # Wrapped(k) THEN - f[Source(k)]
                                                         ELSE f[Source(k)])
<1>1. MultiplyByNegacyclicMonomial(f, e) = [k \in Ring |-> Turn(k)]
  BY DEF MultiplyByNegacyclicMonomial
<1>2. shift \in Int
  <2>1. N \in Nat \ {0} /\ 2 * N \in Nat \ {0}
    BY RingIsInterval
  <2>2. wrapped_exponent \in Int
    <3> DEFINE M == 2 * N
    <3> HIDE DEF M
    <3>1. M \in Nat \ {0} /\ e % M \in 0 .. M - 1
      BY <2>1, DivMod DEF M
    <3> QED BY <3>1 DEF M
  <2> HIDE DEF wrapped_exponent, N
  <2> QED BY <2>1, <2>2, DivMod
<1>3. ASSUME NEW k \in Ring
      PROVE  Turn(k) \in Int
  <2>1. Source(k) \in Ring
    <3>1. k \in Int /\ N \in Nat \ {0} /\ Ring = 0 .. N - 1
      BY RingIsInterval
    <3> HIDE DEF shift, N
    <3>2. k - shift \in Int
      BY <1>2, <3>1
    <3> QED BY <3>1, <3>2, DivMod
  <2> DEFINE x == f[Source(k)]
             y == IF negacyclic # Wrapped(k) THEN - x ELSE x
  <2>2. x \in Int /\ Turn(k) = ModRing(y)
    <3> HIDE DEF Source
    <3> QED BY <2>1 DEF Polynomial
  <2> HIDE DEF x, negacyclic, Wrapped, Turn
  <2>3. y \in Int
    BY <2>2
  <2> HIDE DEF y
  <2> QED BY <2>2, <2>3, RingIsInterval
<1> HIDE DEF Turn
<1> QED BY <1>1, <1>3 DEF Polynomial

(* A product of polynomials.                                               *)
LEMMA ProductIsPolynomial ==
  ASSUME NEW f \in Polynomial, NEW g \in Polynomial
  PROVE  MultiplyPolynomials(f, g) \in Polynomial
<1> DEFINE N == RingDimension
           Term(k) == [i \in Ring |-> IF i <= k THEN f[i] * g[k - i]
                                      ELSE - f[i] * g[k - i + N]]
<1>0. N \in Nat /\ Ring = 0 .. N - 1
  BY RingIsInterval
<1>1. ASSUME NEW k \in Ring, NEW i \in Ring
      PROVE  Term(k)[i] \in Int
  <2> DEFINE x == f[i]
             y == g[k - i]
             z == g[k - i + N]
  <2>1. x \in Int
    BY DEF Polynomial
  <2>2. CASE i <= k
    <3>1. k - i \in Ring
      BY <1>0, <2>2
    <3>2. y \in Int
      BY <3>1 DEF Polynomial
    <3>3. Term(k)[i] = x * y
      BY <2>2
    <3> HIDE DEF x, y, Term
    <3> QED BY <2>1, <3>2, <3>3, Products
  <2>3. CASE ~ (i <= k)
    <3>1. k - i + N \in Ring
      BY <1>0, <2>3
    <3>2. z \in Int
      BY <3>1 DEF Polynomial
    <3>3. Term(k)[i] = - (x * z)
      BY <2>3
    <3> HIDE DEF x, z, Term
    <3>4. x * z \in Int
      BY <2>1, <3>2, Products
    <3> QED BY <3>3, <3>4
  <2> QED BY <2>2, <2>3
<1>2. ASSUME NEW k \in Ring
      PROVE  ModRing(SumTo(N, Term(k))) \in Int
  <2> DEFINE terms == Term(k)
  <2>1. \A i \in 0 .. N - 1 : terms[i] \in Int
    BY <1>0, <1>1
  <2> HIDE DEF terms
  <2>2. SumTo(N, terms) \in Int
    BY <1>0, <2>1, SumIsInteger
  <2> QED BY <2>2, RingIsInterval DEF terms
<1>3. MultiplyPolynomials(f, g) = [k \in Ring |-> ModRing(SumTo(N, Term(k)))]
  BY DEF MultiplyPolynomials
<1> HIDE DEF Term
<1> QED BY <1>2, <1>3 DEF Polynomial

-----------------------------------------------------------------------------
(* The digits of a coefficient are integers.                               *)
LEMMA DigitsOfScalar ==
  ASSUME NEW v \in Int
  PROVE  \A d \in 0 .. GadgetDigits - 2 :
           DecomposeScalarIntoDigits(v)[d] \in Int
<1> DEFINE D == GadgetDigits
           B == GadgetBase
           first == CenteredRingValue(v)
           rest[d \in 0 .. D] ==
             IF d = 0 THEN first
             ELSE (rest[d - 1] - SignedBaseRemainder(rest[d - 1])) \div B
           Shift(x) == (x - SignedBaseRemainder(x)) \div B
           step == [d \in Nat |-> [x \in Int |-> Shift(x)]]
<1>0. D \in Nat /\ B \in Nat \ {0}
  BY ParameterAssumption
<1>1. \A x \in Int : SignedBaseRemainder(x) \in Int /\ Shift(x) \in Int
  <2> TAKE x \in Int
  <2> DEFINE h == B \div 2
             y == x + h
             r == y % B
             s == r - h
             z == x - s
  <2>1. h \in Int
    <3> HIDE DEF B
    <3> QED BY <1>0, SMT
  <2>2. y \in Int
    <3> HIDE DEF h
    <3> QED BY <2>1
  <2>3. r \in Int
    <3> HIDE DEF y, B
    <3>1. r \in 0 .. B - 1
      BY <1>0, <2>2, DivMod
    <3> QED BY <1>0, <3>1
  <2>4. SignedBaseRemainder(x) = s
    BY DEF SignedBaseRemainder
  <2>5. s \in Int /\ z \in Int
    <3> HIDE DEF r, h
    <3> QED BY <2>1, <2>3
  <2>6. z \div B \in Int
    <3> HIDE DEF z, B
    <3> QED BY <1>0, <2>5, DivMod
  <2>7. Shift(x) = z \div B
    BY <2>4
  <2> HIDE DEF z, s
  <2> QED BY <2>4, <2>5, <2>6, <2>7
<1>2. first \in Int
  <2>1. RingModulus \in Nat
    BY ParameterAssumption
  <2> QED BY <2>1 DEF CenteredRingValue
<1>3. \A d \in Nat : \A x \in Int : step[d][x] = Shift(x)
  OBVIOUS
<1>4. step \in [Nat -> [Int -> Int]]
  <2> HIDE DEF Shift
  <2> QED BY <1>1
<1> HIDE DEF step, first
<1>5. PICK f : Solves(f, Int, first, step)
  <2>1. Recursion(Int, first, step)
    BY <1>2, <1>4 DEF Recursion
  <2> QED BY <2>1, RecursionExists
<1>6. f \in [Nat -> Int] /\ f[0] = first /\ \A d \in Nat : f[d + 1] = Shift(f[d])
  <2> HIDE DEF Shift
  <2> QED BY <1>3, <1>5 DEF Solves
<1>7. \E g : g = [d \in 0 .. D |->
                    IF d = 0 THEN first
                    ELSE (g[d - 1] - SignedBaseRemainder(g[d - 1])) \div B]
  <2> DEFINE g == [d \in 0 .. D |-> f[d]]
  <2>1. ASSUME NEW d \in 0 .. D
        PROVE  g[d] = IF d = 0 THEN first ELSE Shift(g[d - 1])
    <3>1. CASE d = 0
      BY <1>6, <3>1
    <3>2. CASE d # 0
      <4>1. d - 1 \in Nat /\ d - 1 \in 0 .. D /\ (d - 1) + 1 = d
        BY <1>0, <3>2
      <4> HIDE DEF Shift
      <4> QED BY <1>6, <3>2, <4>1
    <3> QED BY <3>1, <3>2
  <2>2. g = [d \in 0 .. D |-> IF d = 0 THEN first ELSE Shift(g[d - 1])]
    <3> HIDE DEF Shift
    <3>1. g = [d \in 0 .. D |-> g[d]]
      OBVIOUS
    <3> HIDE DEF g
    <3> QED BY <2>1, <3>1
  <2> HIDE DEF g
  <2> QED BY <2>2
<1>8. rest = [d \in 0 .. D |->
                IF d = 0 THEN first
                ELSE (rest[d - 1] - SignedBaseRemainder(rest[d - 1])) \div B]
  BY <1>7
<1>9. DecomposeScalarIntoDigits(v) =
        [d \in 0 .. D - 2 |-> SignedBaseRemainder(rest[d + 1])]
  BY DEF DecomposeScalarIntoDigits, first
<1> HIDE DEF rest
<1> DEFINE T == {d \in Nat : d <= D => rest[d] \in Int}
<1>10. 0 \in T
  BY <1>0, <1>2, <1>8
<1>11. ASSUME NEW d \in Nat, d \in T
       PROVE  d + 1 \in T
  <2> SUFFICES ASSUME d + 1 <= D PROVE rest[d + 1] \in Int
    OBVIOUS
  <2>1. d + 1 \in 0 .. D /\ d + 1 # 0 /\ (d + 1) - 1 = d /\ rest[d] \in Int
    BY <1>0, <1>11
  <2>2. rest[d + 1] = Shift(rest[d])
    BY <1>8, <2>1
  <2> HIDE DEF Shift
  <2> QED BY <1>1, <2>1, <2>2
<1> HIDE DEF T
<1>12. Nat \subseteq T
  BY <1>10, <1>11, SetInduction
<1>13. ASSUME NEW d \in 0 .. D - 2
       PROVE  SignedBaseRemainder(rest[d + 1]) \in Int
  <2>1. d + 1 \in Nat /\ d + 1 <= D
    BY <1>0
  <2>2. rest[d + 1] \in Int
    BY <1>12, <2>1 DEF T
  <2> HIDE DEF Shift
  <2> QED BY <1>1, <2>2
<1> QED BY <1>9, <1>13

DigitPolynomials == [Digits -> Polynomial]

(* An accumulator is decomposed into polynomials of digits.                *)
LEMMA DigitsOfAccumulator ==
  ASSUME NEW acc \in Accumulator
  PROVE  SignedDigitDecomposeAccumulator(acc) \in DigitPolynomials
<1>1. ASSUME NEW digit \in Digits, NEW k \in Ring
      PROVE  ModRing(DecomposeScalarIntoDigits(
               IF digit % 2 = 0 THEN acc.a[k] ELSE acc.b[k])[digit \div 2])
                 \in Int
  <2> DEFINE v == IF digit % 2 = 0 THEN acc.a[k] ELSE acc.b[k]
             d == digit \div 2
  <2>1. v \in Int
    <3>1. acc.a[k] \in Int /\ acc.b[k] \in Int
      BY DEF Accumulator, Polynomial
    <3> QED BY <3>1
  <2>2. d \in 0 .. GadgetDigits - 2
    BY ParameterAssumption DEF Digits
  <2> HIDE DEF v, d
  <2>3. DecomposeScalarIntoDigits(v)[d] \in Int
    BY <2>1, <2>2, DigitsOfScalar
  <2> QED BY <2>3, RingIsInterval DEF v, d
<1> QED BY <1>1 DEF SignedDigitDecomposeAccumulator, DigitPolynomials, Polynomial

(* Key rows: an accumulator for every digit.                               *)
KeyRows == [Digits -> Accumulator]

(* A sum of accumulators.                                                  *)
LEMMA SumOfAccumulators ==
  ASSUME NEW x \in Accumulator, NEW y \in Accumulator
  PROVE  AddAccumulator(x, y) \in Accumulator
<1>1. /\ x.a \in Polynomial /\ y.a \in Polynomial
      /\ x.b \in Polynomial /\ y.b \in Polynomial
  BY DEF Accumulator
<1>2. /\ AddPolynomials(x.a, y.a) \in Polynomial
      /\ AddPolynomials(x.b, y.b) \in Polynomial
  BY <1>1, SumOfPolynomials
<1> QED BY <1>2 DEF AddAccumulator, Accumulator

(* The external product with a row of key material.                        *)
LEMMA ExternalProductIsAccumulator ==
  ASSUME NEW decomposed \in DigitPolynomials, NEW key \in KeyRows
  PROVE  ExternalProductCGGI(decomposed, key) \in Accumulator
<1> DEFINE C == 2 * (GadgetDigits - 1)
           Product(part, digit) ==
             MultiplyPolynomials(decomposed[digit], key[digit][part])
           Pair(digit) == [a |-> Product("a", digit), b |-> Product("b", digit)]
           first == [a |-> ZeroPolynomial, b |-> ZeroPolynomial]
           sum[count \in 0 .. C] ==
             IF count = 0 THEN first
             ELSE AddAccumulator(sum[count - 1],
                    [a |-> Product("a", count - 1), b |-> Product("b", count - 1)])
           step == [c \in Nat |-> [x \in Accumulator |->
                      IF c < C THEN AddAccumulator(x, Pair(c)) ELSE x]]
<1>0. C \in Nat /\ Digits = 0 .. C - 1
  BY ParameterAssumption DEF Digits
<1>1. first \in Accumulator
  BY DEF ZeroPolynomial, Polynomial, Accumulator
<1>2. ASSUME NEW c \in Digits, NEW x \in Accumulator
      PROVE  AddAccumulator(x, Pair(c)) \in Accumulator
  <2>1. /\ decomposed[c] \in Polynomial
        /\ key[c].a \in Polynomial /\ key[c].b \in Polynomial
    BY DEF DigitPolynomials, KeyRows, Accumulator
  <2>2. Product("a", c) \in Polynomial /\ Product("b", c) \in Polynomial
    <3>1. key[c]["a"] = key[c].a /\ key[c]["b"] = key[c].b
      OBVIOUS
    <3> QED BY <2>1, <3>1, ProductIsPolynomial
  <2> HIDE DEF Product
  <2>3. Pair(c) \in Accumulator
    BY <2>2 DEF Accumulator
  <2> HIDE DEF Pair
  <2> QED BY <2>3, SumOfAccumulators
<1>3. step \in [Nat -> [Accumulator -> Accumulator]]
  <2>1. ASSUME NEW c \in Nat, NEW x \in Accumulator
        PROVE  (IF c < C THEN AddAccumulator(x, Pair(c)) ELSE x) \in Accumulator
    <3>1. CASE c < C
      <4>1. c \in Digits
        BY <1>0, <3>1
      <4> HIDE DEF Pair, C
      <4> QED BY <1>2, <3>1, <4>1
    <3>2. CASE ~ (c < C)
      BY <3>2
    <3> QED BY <3>1, <3>2
  <2> HIDE DEF Pair, C
  <2> QED BY <2>1
<1>4. \A c \in Digits : \A x \in Accumulator :
        step[c][x] = AddAccumulator(x, Pair(c))
  <2> HIDE DEF Pair
  <2> QED BY <1>0
<1> HIDE DEF step
<1>5. PICK f : Solves(f, Accumulator, first, step)
  <2>1. Recursion(Accumulator, first, step)
    BY <1>1, <1>3 DEF Recursion
  <2> HIDE DEF first
  <2> QED BY <2>1, RecursionExists
<1>6. /\ f[0] = first /\ \A c \in Nat : f[c] \in Accumulator
      /\ \A c \in Digits : f[c + 1] = AddAccumulator(f[c], Pair(c))
  <2> HIDE DEF Pair, C, first
  <2>1. f \in [Nat -> Accumulator] /\ f[0] = first
        /\ \A c \in Nat : f[c + 1] = step[c][f[c]]
    BY <1>5 DEF Solves
  <2>2. \A c \in Nat : f[c] \in Accumulator
    BY <2>1
  <2>3. \A c \in Digits : c \in Nat
    BY <1>0
  <2> QED BY <1>4, <2>1, <2>2, <2>3
<1> HIDE DEF first, C
<1>7. \E g : g = [c \in 0 .. C |->
                    IF c = 0 THEN first
                    ELSE AddAccumulator(g[c - 1],
                           [a |-> Product("a", c - 1), b |-> Product("b", c - 1)])]
  <2> DEFINE g == [c \in 0 .. C |-> f[c]]
  <2> HIDE DEF Product
  <2>1. ASSUME NEW c \in 0 .. C
        PROVE  g[c] = IF c = 0 THEN first
                      ELSE AddAccumulator(g[c - 1],
                             [a |-> Product("a", c - 1),
                              b |-> Product("b", c - 1)])
    <3>1. CASE c = 0
      BY <1>6, <3>1
    <3>2. CASE c # 0
      <4> DEFINE k == c - 1
      <4>1. k \in Digits /\ k \in 0 .. C /\ k + 1 = c
        BY <1>0, <3>2
      <4> HIDE DEF k
      <4>2. f[k + 1] = AddAccumulator(f[k],
                         [a |-> Product("a", k), b |-> Product("b", k)])
        BY <1>6, <4>1
      <4>3. g[c] = f[k + 1] /\ g[k] = f[k]
        BY <4>1
      <4> QED BY <3>2, <4>2, <4>3 DEF k
    <3> QED BY <3>1, <3>2
  <2>2. g = [c \in 0 .. C |->
               IF c = 0 THEN first
               ELSE AddAccumulator(g[c - 1],
                      [a |-> Product("a", c - 1), b |-> Product("b", c - 1)])]
    <3>1. g = [c \in 0 .. C |-> g[c]]
      OBVIOUS
    <3> HIDE DEF g
    <3> QED BY <2>1, <3>1
  <2> HIDE DEF g
  <2> QED BY <2>2
<1>8. sum = [c \in 0 .. C |->
               IF c = 0 THEN first
               ELSE AddAccumulator(sum[c - 1],
                      [a |-> Product("a", c - 1), b |-> Product("b", c - 1)])]
  <2> HIDE DEF Product
  <2> QED BY <1>7
<1>9. ExternalProductCGGI(decomposed, key) = sum[C]
  BY DEF ExternalProductCGGI, first, C
<1> HIDE DEF sum
<1> DEFINE T == {c \in Nat : c <= C => sum[c] \in Accumulator}
<1>10. 0 \in T
  <2>1. sum[0] = first
    <3> HIDE DEF Product
    <3> QED BY <1>0, <1>8
  <2> QED BY <1>1, <2>1 DEF first
<1>11. ASSUME NEW c \in Nat, c \in T
       PROVE  c + 1 \in T
  <2> SUFFICES ASSUME c + 1 <= C PROVE sum[c + 1] \in Accumulator
    OBVIOUS
  <2>1. c + 1 \in 0 .. C /\ c + 1 # 0 /\ (c + 1) - 1 = c
        /\ sum[c] \in Accumulator /\ c \in Digits
    BY <1>0, <1>11
  <2>2. sum[c + 1] = AddAccumulator(sum[c], Pair(c))
    <3> HIDE DEF Product
    <3> QED BY <1>8, <2>1
  <2> HIDE DEF Pair
  <2> QED BY <1>2, <2>1, <2>2
<1> HIDE DEF T
<1>12. Nat \subseteq T
  BY <1>10, <1>11, SetInduction
<1> QED BY <1>0, <1>9, <1>12 DEF T

(* A row of the bootstrapping key.                                         *)
LEMMA KeyRowsAreRows ==
  ASSUME NEW message \in {0, 1}
  PROVE  BootstrapKeyRow(message) \in KeyRows
<1> DEFINE pad == MultiplyPolynomials(RowMask, RingSecret)
           Weight1(digit) == message * Power(GadgetBase, digit \div 2 + 1)
           Row(digit) ==
             [a |-> [RowMask EXCEPT ![0] =
                ModRing(@ + (IF digit % 2 = 0 THEN Weight1(digit) ELSE 0))],
              b |-> [pad EXCEPT ![0] =
                ModRing(@ + (IF digit % 2 = 0 THEN 0 ELSE Weight1(digit)))]]
<1>1. RowMask \in Polynomial
  <2>1. \A k \in Ring : RowMask[k] \in Int /\ RowMask = [j \in Ring |-> RowMask[j]]
    BY KeyAssumption, ParameterAssumption
  <2>2. RowMask = [j \in Ring |-> RowMask[j]]
    BY KeyAssumption
  <2> QED BY <2>1, <2>2 DEF Polynomial
<1>2. RingSecret \in Polynomial
  BY KeyAssumption DEF Polynomial
<1>3. pad \in Polynomial
  BY <1>1, <1>2, ProductIsPolynomial
<1>4. ASSUME NEW f \in Polynomial, NEW w \in Int
      PROVE  [f EXCEPT ![0] = ModRing(@ + w)] \in Polynomial
  <2>1. 0 \in Ring
    BY RingIsInterval
  <2>2. f[0] + w \in Int
    BY <2>1 DEF Polynomial
  <2>3. ModRing(f[0] + w) \in Int
    BY <2>2, RingIsInterval
  <2> QED BY <2>3 DEF Polynomial
<1>5. ASSUME NEW digit \in Digits
      PROVE  Row(digit) \in Accumulator
  <2> DEFINE p == Power(GadgetBase, digit \div 2 + 1)
             w == Weight1(digit)
  <2>1. p \in Int
    <3> DEFINE e == digit \div 2 + 1
    <3>1. e \in Nat
      BY ParameterAssumption DEF Digits
    <3> HIDE DEF e
    <3>2. Power(GadgetBase, e) \in Nat \ {0}
      BY <3>1, PowerRecursion, ParameterAssumption
    <3> QED BY <3>2 DEF e
  <2>2. w \in Int
    <3>1. w = message * p
      OBVIOUS
    <3>2. message \in Int
      OBVIOUS
    <3> HIDE DEF p, w
    <3> QED BY <2>1, <3>1, <3>2, Products
  <2> DEFINE x == IF digit % 2 = 0 THEN w ELSE 0
             y == IF digit % 2 = 0 THEN 0 ELSE w
  <2>3. x \in Int /\ y \in Int
    <3> HIDE DEF w
    <3> QED BY <2>2
  <2>4. Row(digit) = [a |-> [RowMask EXCEPT ![0] = ModRing(@ + x)],
                      b |-> [pad EXCEPT ![0] = ModRing(@ + y)]]
    OBVIOUS
  <2> DEFINE mask == [RowMask EXCEPT ![0] = ModRing(@ + x)]
             body == [pad EXCEPT ![0] = ModRing(@ + y)]
  <2> HIDE DEF x, y, pad, w
  <2>5. mask \in Polynomial /\ body \in Polynomial
    BY <1>1, <1>3, <1>4, <2>3
  <2>6. Row(digit) = [a |-> mask, b |-> body]
    BY <2>4
  <2> HIDE DEF mask, body, Row
  <2> QED BY <2>5, <2>6 DEF Accumulator
<1>6. BootstrapKeyRow(message) = [digit \in Digits |-> Row(digit)]
  BY DEF BootstrapKeyRow
<1> HIDE DEF Row
<1> QED BY <1>5, <1>6 DEF KeyRows

(* A turn of an accumulator.                                               *)
LEMMA TurnedIsAccumulator ==
  ASSUME NEW acc \in Accumulator, NEW e \in Int
  PROVE  MultiplyAccumulatorByNegacyclicMonomial(acc, e) \in Accumulator
<1>1. acc.a \in Polynomial /\ acc.b \in Polynomial
  BY DEF Accumulator
<1> QED BY <1>1, TurnedIsPolynomial
        DEF MultiplyAccumulatorByNegacyclicMonomial, Accumulator

(* A step of the blind rotation.                                           *)
LEMMA RotatedIsAccumulator ==
  ASSUME NEW positive_key \in KeyRows, NEW negative_key \in KeyRows,
         NEW e \in Int, NEW acc \in Accumulator
  PROVE  AddToAccCGGI(positive_key, negative_key, e, acc) \in Accumulator
<1> DEFINE decomposed == SignedDigitDecomposeAccumulator(acc)
           positive_index == e % (2 * RingDimension)
           negative_index == (- positive_index) % (2 * RingDimension)
           Rotated(key, index) == MultiplyAccumulatorByNegacyclicMonomial(
                                    ExternalProductCGGI(decomposed, key), index)
<1>1. decomposed \in DigitPolynomials
  BY DigitsOfAccumulator
<1>2. positive_index \in Int /\ negative_index \in Int
  <2> DEFINE M == 2 * RingDimension
  <2>1. M \in Nat \ {0}
    BY RingIsInterval
  <2> HIDE DEF M
  <2>2. \A x \in Int : x % M \in Int
    BY <2>1, DivMod
  <2>3. e % M \in Int
    BY <2>2
  <2> DEFINE p == e % M
             r == - p
  <2>4. r \in Int
    <3> HIDE DEF p
    <3> QED BY <2>3 DEF p
  <2> HIDE DEF r
  <2>5. r % M \in Int
    BY <2>2, <2>4
  <2> QED BY <2>3, <2>5 DEF M, r
<1> HIDE DEF decomposed
<1>3. ASSUME NEW key \in KeyRows, NEW index \in Int
      PROVE  Rotated(key, index) \in Accumulator
  BY <1>1, ExternalProductIsAccumulator, TurnedIsAccumulator
<1> DEFINE x == Rotated(positive_key, positive_index)
           y == Rotated(negative_key, negative_index)
<1> HIDE DEF Rotated, positive_index, negative_index
<1>4. x \in Accumulator /\ y \in Accumulator
  BY <1>2, <1>3
<1>5. AddToAccCGGI(positive_key, negative_key, e, acc) =
        AddAccumulator(AddAccumulator(acc, x), y)
  BY DEF AddToAccCGGI, decomposed, positive_index, negative_index, Rotated
<1> HIDE DEF x, y
<1> QED BY <1>4, <1>5, SumOfAccumulators

(* The accumulator that a gate starts with.                                *)
LEMMA GateAccumulator ==
  ASSUME NEW gate, NEW ct
  PROVE  InitGateAccumulator(gate, ct) \in Accumulator
<1>1. AccumulatorPositiveMessage \in Int /\ AccumulatorNegativeMessage \in Int
  BY ParameterAssumption
     DEF AccumulatorPositiveMessage, AccumulatorNegativeMessage
<1>2. ASSUME NEW swap
      PROVE  /\ (IF swap THEN AccumulatorPositiveMessage
                         ELSE AccumulatorNegativeMessage) \in Int
             /\ (IF swap THEN AccumulatorNegativeMessage
                         ELSE AccumulatorPositiveMessage) \in Int
  BY <1>1
<1>3. ZeroPolynomial \in Polynomial
  BY DEF ZeroPolynomial, Polynomial
<1> DEFINE range == GateAccumulatorRange(gate)
           lv == IF range.swap THEN AccumulatorPositiveMessage
                               ELSE AccumulatorNegativeMessage
           uv == IF range.swap THEN AccumulatorNegativeMessage
                               ELSE AccumulatorPositiveMessage
           factor == RingDimension \div (CiphertextModulus \div 2)
           Coefficient(k) ==
             IF k % factor # 0 THEN 0
             ELSE IF InHalfOpenRange(ModQ(ct.b - k \div factor),
                                     range.lb, range.ub) THEN lv ELSE uv
<1>4. lv \in Int /\ uv \in Int
  BY <1>2
<1>5. InitGateAccumulator(gate, ct) =
        [a |-> ZeroPolynomial, b |-> [k \in Ring |-> Coefficient(k)]]
  BY DEF InitGateAccumulator
<1> HIDE DEF lv, uv, range, factor
<1>6. \A k \in Ring : Coefficient(k) \in Int
  BY <1>4
<1> HIDE DEF Coefficient
<1> QED BY <1>3, <1>5, <1>6 DEF Accumulator, Polynomial

(* What is extracted from an accumulator.                                  *)
LEMMA ExtractedIsLarge ==
  ASSUME NEW acc \in Accumulator
  PROVE  ExtractLweFromAccumulator(acc) \in LargeLwe
<1>1. \A i \in Ring : (IF i = 0 THEN 0 ELSE RingDimension - i) \in Ring
  BY RingIsInterval
<1>2. 0 \in Ring
  BY RingIsInterval
<1> QED BY <1>1, <1>2
        DEF ExtractLweFromAccumulator, LargeLwe, Accumulator, Polynomial

-----------------------------------------------------------------------------
(* Ciphertexts that a gate is given and what it makes of them.             *)
LEMMA SumOfCiphertexts ==
  ASSUME NEW x \in LweCiphertext, NEW y \in LweCiphertext
  PROVE  /\ AddCiphertexts(x, y) \in LweCiphertext
         /\ Same(AddCiphertexts(x, y).b, x.b + y.b)
<1>1. \A v \in Int : ModQ(v) \in Int
  BY SameResidue, ParameterAssumption
<1>2. x.b + y.b \in Int /\ \A j \in Lwe : x.a[j] + y.a[j] \in Int
  BY DEF LweCiphertext
<1>3. AddCiphertexts(x, y).b = ModQ(x.b + y.b)
  BY DEF AddCiphertexts
<1>4. AddCiphertexts(x, y) \in LweCiphertext
  BY <1>1, <1>2 DEF AddCiphertexts, LweCiphertext
<1> QED BY <1>2, <1>3, <1>4, SameResidue

(* An encryption of a message.                                             *)
LEMMA EncryptedIsCiphertext ==
  ASSUME NEW mask \in [Lwe -> Int], NEW message \in BOOLEAN, NEW e \in Int
  PROVE  Encrypted(mask, message, e) \in LweCiphertext
<1> DEFINE ct == [a |-> mask, b |-> 0]
           d == DotWithFixedHsk(ct)
           m == IF message THEN EncodedOne ELSE 0
<1>1. d \in Int
  <2>1. \A j \in Lwe : ct.a[j] \in Int
    OBVIOUS
  <2> HIDE DEF ct
  <2>2. d \in 0 .. CiphertextModulus - 1
    BY <2>1, DotResidue
  <2> QED BY <2>2, ParameterAssumption
<1>2. m \in Int
  BY ParameterAssumption DEF EncodedOne
<1> HIDE DEF d, m
<1>3. d + m + e \in Int
  BY <1>1, <1>2
<1>4. ModQ(d + m + e) \in Int
  BY <1>3, SameResidue, ParameterAssumption
<1>5. Encrypted(mask, message, e) = [a |-> mask, b |-> ModQ(d + m + e)]
  BY DEF Encrypted, d, m
<1> QED BY <1>4, <1>5 DEF LweCiphertext

(* The linear part of a gate.                                              *)
LEMMA PrebootstrapIsCiphertext ==
  ASSUME NEW x \in LweCiphertext, NEW y \in LweCiphertext, NEW gate
  PROVE  GatePrebootstrap(gate, x, y) \in LweCiphertext
BY SumOfCiphertexts DEF GatePrebootstrap

(* An exponent of a turn.                                                  *)
LEMMA ExponentIsNumber ==
  ASSUME NEW v \in Int
  PROVE  ModSwitchToMonomialExponent(v) \in Int
<1> DEFINE N2 == 2 * RingDimension
           p == N2 * v
           s == p + CiphertextModulus \div 2
<1>0. CiphertextModulus \in Nat \ {0}
  BY ParameterAssumption
<1>1. N2 \in Int /\ CiphertextModulus \div 2 \in Int
  BY <1>0, RingIsInterval
<1>2. p \in Int
  <2> HIDE DEF N2
  <2> QED BY <1>1, Products
<1>3. s \in Int
  <2> HIDE DEF p
  <2> QED BY <1>1, <1>2
<1>4. ModSwitchToMonomialExponent(v) = s \div CiphertextModulus
  BY DEF ModSwitchToMonomialExponent
<1> HIDE DEF s
<1> QED BY <1>0, <1>3, <1>4, DivMod

-----------------------------------------------------------------------------
(* The stages of a gate.                                                   *)

Requests ==
  [gate : GateKind, masks : [{1, 2} -> GateMasks],
   messages : [{1, 2} -> BOOLEAN], noise : [{1, 2} -> GateNoise]]

Given(i) == Encrypted(request.masks[i], request.messages[i], request.noise[i])

Switching == IF material_loaded THEN SwitchingKey ELSE NoSwitchingKey

BootStage == {"start", "rotate", "extract", "switch", "done"}

(* What has been computed at each stage.                                   *)
BootInv ==
  /\ program # "reference" => boot_stage = "idle"
  /\ program = "reference" =>
       /\ request \in Requests /\ material_loaded \in BOOLEAN
       /\ boot_stage \in BootStage /\ rotated \in 0 .. LweDimension
       /\ prebootstrap \in LweCiphertext
       /\ accumulator \in Accumulator /\ large_lwe \in LargeLwe
       /\ boot_stage = "start" \/ ~ material_loaded => rotated = 0
       /\ boot_stage = "rotate" => material_loaded
       /\ boot_stage # "start" =>
            prebootstrap = GatePrebootstrap(request.gate, Given(1), Given(2))
       /\ boot_stage # "start" /\ rotated = 0 =>
            accumulator = InitGateAccumulator(request.gate, prebootstrap)
       /\ boot_stage \in {"switch", "done"} =>
            large_lwe = ExtractLweFromAccumulator(accumulator)
       /\ boot_stage = "done" =>
            gate_output = SwitchCTtoqn(Switching, large_lwe)

(* The invariant holds at first,                                           *)
LEMMA BootAtFirst == Init => BootInv
<1> SUFFICES ASSUME Init PROVE BootInv
  OBVIOUS
<1>1. CASE program = "loop" /\ NoBootstrap
  BY <1>1 DEF NoBootstrap, BootInv
<1>2. CASE program = "circuit" /\ NoBootstrap
  BY <1>2 DEF NoBootstrap, BootInv
<1>3. CASE program = "reference" /\ BootInit
  <2>1. ZeroPolynomial \in Polynomial /\ ZeroCiphertext \in LweCiphertext
    BY DEF ZeroPolynomial, Polynomial, ZeroCiphertext, LweCiphertext
  <2>2. /\ [a |-> ZeroPolynomial, b |-> ZeroPolynomial] \in Accumulator
        /\ [a |-> ZeroPolynomial, b |-> 0] \in LargeLwe
    BY <2>1 DEF Accumulator, LargeLwe, Polynomial
  <2>3. 0 \in 0 .. LweDimension
    BY ParameterAssumption
  <2> QED BY <1>3, <2>1, <2>2, <2>3 DEF BootInit, BootInv, Requests, BootStage
<1> QED BY <1>1, <1>2, <1>3 DEF Init

(* Both ciphertexts given are some.                                        *)
LEMMA GivenAreCiphertexts ==
  ASSUME request \in Requests
  PROVE  Given(1) \in LweCiphertext /\ Given(2) \in LweCiphertext
<1>1. ASSUME NEW i \in {1, 2}
      PROVE  Given(i) \in LweCiphertext
  <2>1. /\ request.masks[i] \in GateMasks /\ request.messages[i] \in BOOLEAN
        /\ request.noise[i] \in GateNoise
    BY DEF Requests
  <2>2. request.masks[i] \in [Lwe -> Int]
    <3>1. 0 .. CiphertextModulus - 1 \subseteq Int
      BY ParameterAssumption
    <3> QED BY <2>1, <3>1, KeyAssumption
  <2>3. request.noise[i] \in Int
    BY <2>1, KeyAssumption
  <2> QED BY <2>1, <2>2, <2>3, EncryptedIsCiphertext DEF Given
<1> QED BY <1>1

(* the start of a gate keeps it,                                           *)
LEMMA StartGateKeeps ==
  BootInv /\ program = "reference" /\ StartGate /\ program' = program
    => BootInv'
<1> SUFFICES ASSUME BootInv, program = "reference", StartGate,
                    program' = program
             PROVE  BootInv'
  OBVIOUS
<1>1. /\ request \in Requests /\ material_loaded \in BOOLEAN
      /\ rotated = 0 /\ large_lwe \in LargeLwe
      /\ request' = request /\ material_loaded' = material_loaded
      /\ rotated' = rotated /\ large_lwe' = large_lwe
      /\ boot_stage' = IF material_loaded THEN "rotate" ELSE "extract"
  BY DEF BootInv, StartGate
<1>2. /\ prebootstrap' = GatePrebootstrap(request.gate, Given(1), Given(2))
      /\ accumulator' = InitGateAccumulator(request.gate, prebootstrap')
  BY DEF StartGate, Given
<1>3. Given(1)' = Given(1) /\ Given(2)' = Given(2)
  BY <1>1 DEF Given
<1>4. prebootstrap' \in LweCiphertext
  BY <1>1, <1>2, GivenAreCiphertexts, PrebootstrapIsCiphertext
<1>5. accumulator' \in Accumulator
  BY <1>2, GateAccumulator
<1>6. rotated' \in 0 .. LweDimension /\ boot_stage' \in BootStage
      /\ boot_stage' \notin {"start", "switch", "done"}
  BY <1>1, ParameterAssumption DEF BootStage
<1> QED BY <1>1, <1>2, <1>3, <1>4, <1>5, <1>6 DEF BootInv

(* so does a step of the blind rotation,                                   *)
LEMMA RotateKeeps ==
  BootInv /\ program = "reference" /\ RotateNext /\ program' = program
    => BootInv'
<1> SUFFICES ASSUME BootInv, program = "reference", RotateNext,
                    program' = program
             PROVE  BootInv'
  OBVIOUS
<1>1. /\ request \in Requests /\ material_loaded \in BOOLEAN
      /\ rotated \in 0 .. LweDimension /\ rotated < LweDimension
      /\ large_lwe \in LargeLwe
      /\ prebootstrap \in LweCiphertext /\ accumulator \in Accumulator
      /\ prebootstrap = GatePrebootstrap(request.gate, Given(1), Given(2))
      /\ request' = request /\ material_loaded' = material_loaded
      /\ rotated' = rotated + 1 /\ large_lwe' = large_lwe
      /\ prebootstrap' = prebootstrap
      /\ boot_stage' = IF rotated' = LweDimension THEN "extract" ELSE "rotate"
  BY DEF BootInv, RotateNext
<1>2. material_loaded
  <2>1. boot_stage = "rotate"
    BY DEF RotateNext
  <2> QED BY <2>1 DEF BootInv
<1>3. rotated' \in 0 .. LweDimension /\ rotated' # 0
      /\ boot_stage' \in BootStage
      /\ boot_stage' \notin {"start", "switch", "done"}
  BY <1>1, ParameterAssumption DEF BootStage
<1>4. accumulator' \in Accumulator
  <2> DEFINE e == RotationExponent(rotated)
             x == IF FixedHsk[rotated] = 1 THEN KeyRowOfOne ELSE KeyRowOfZero
             y == IF FixedHsk[rotated] = -1 THEN KeyRowOfOne ELSE KeyRowOfZero
  <2>1. x \in KeyRows /\ y \in KeyRows
    <3>1. KeyRowOfOne \in KeyRows /\ KeyRowOfZero \in KeyRows
      BY KeyRowsAreRows DEF KeyRowOfOne, KeyRowOfZero
    <3> QED BY <3>1
  <2>2. e \in Int
    <3> DEFINE v == ModQ(- prebootstrap.a[rotated])
    <3>1. rotated \in Lwe
      BY <1>1, ParameterAssumption DEF Lwe
    <3>2. prebootstrap.a[rotated] \in Int
      BY <1>1, <3>1 DEF LweCiphertext
    <3>3. - prebootstrap.a[rotated] \in Int
      BY <3>2
    <3>4. v \in Int
      BY <3>3, SameResidue, ParameterAssumption
    <3>5. e = ModSwitchToMonomialExponent(v)
      BY DEF RotationExponent
    <3> HIDE DEF v, e
    <3> QED BY <3>4, <3>5, ExponentIsNumber
  <2>3. accumulator' = AddToAccCGGI(x, y, e, accumulator)
    BY DEF RotateNext
  <2> HIDE DEF x, y, e
  <2> QED BY <1>1, <2>1, <2>2, <2>3, RotatedIsAccumulator
<1>5. Given(1)' = Given(1) /\ Given(2)' = Given(2)
  BY <1>1 DEF Given
<1> QED BY <1>1, <1>2, <1>3, <1>4, <1>5 DEF BootInv

(* the extraction,                                                         *)
LEMMA ExtractKeeps ==
  BootInv /\ program = "reference" /\ Extract /\ program' = program
    => BootInv'
<1> SUFFICES ASSUME BootInv, program = "reference", Extract,
                    program' = program
             PROVE  BootInv'
  OBVIOUS
<1>1. /\ boot_stage = "extract" /\ boot_stage' = "switch"
      /\ large_lwe' = ExtractLweFromAccumulator(accumulator)
      /\ request' = request /\ material_loaded' = material_loaded
      /\ rotated' = rotated /\ prebootstrap' = prebootstrap
      /\ accumulator' = accumulator
  BY DEF Extract
<1>2. accumulator \in Accumulator
  BY DEF BootInv
<1>3. large_lwe' \in LargeLwe
  BY <1>1, <1>2, ExtractedIsLarge
<1>4. Given(1)' = Given(1) /\ Given(2)' = Given(2)
  BY <1>1 DEF Given
<1> QED BY <1>1, <1>3, <1>4 DEF BootInv, BootStage

(* and the switch to the small key;                                        *)
LEMMA SwitchKeeps ==
  BootInv /\ program = "reference" /\ SwitchToSmall /\ program' = program
    => BootInv'
<1> SUFFICES ASSUME BootInv, program = "reference", SwitchToSmall,
                    program' = program
             PROVE  BootInv'
  OBVIOUS
<1>1. /\ boot_stage = "switch" /\ boot_stage' = "done"
      /\ gate_output' = SwitchCTtoqn(Switching, large_lwe)
      /\ request' = request /\ material_loaded' = material_loaded
      /\ rotated' = rotated /\ prebootstrap' = prebootstrap
      /\ accumulator' = accumulator /\ large_lwe' = large_lwe
  BY DEF SwitchToSmall, Switching
<1>2. Given(1)' = Given(1) /\ Given(2)' = Given(2) /\ Switching' = Switching
  BY <1>1 DEF Given, Switching
<1> QED BY <1>1, <1>2 DEF BootInv, BootStage

(* and so every step does.                                                 *)
LEMMA BootKept == BootInv /\ [Next]_vars => BootInv'
<1> SUFFICES ASSUME BootInv, [Next]_vars PROVE BootInv'
  OBVIOUS
<1>1. CASE UNCHANGED <<program, bootVars>>
  BY <1>1 DEF BootInv, bootVars, Given, Switching
<1>2. CASE RevealStep
  BY <1>1, <1>2 DEF RevealStep
<1>3. CASE GateStep
  BY <1>1, <1>3 DEF GateStep
<1>4. CASE BootStep
  <2>1. program = "reference" /\ program' = program /\ BootNext
    BY <1>4 DEF BootStep
  <2> QED BY <2>1, StartGateKeeps, RotateKeeps, ExtractKeeps, SwitchKeeps
          DEF BootNext
<1>5. CASE UNCHANGED vars
  BY <1>1, <1>5 DEF vars
<1> QED BY <1>2, <1>3, <1>4, <1>5 DEF Next

(* What the invariant says of the output is the phase it has.              *)
LEMMA SwitchingKeepsIt == BootInv => SwitchingKeepsPhase
<1> SUFFICES ASSUME BootInv, boot_stage = "done"
             PROVE  PhaseWithFixedHsk(gate_output) =
                      ModQ(ScaleRingQToQ(large_lwe.b)
                        - SumTo(RingDimension,
                            [i \in Ring |-> ScaleRingQToQ(large_lwe.a[i])
                               * (IF material_loaded THEN RingSecret[i] ELSE 0)]))
  BY DEF SwitchingKeepsPhase
<1> DEFINE z == IF material_loaded THEN RingSecret ELSE NoSecret
           terms == [i \in Ring |-> ScaleRingQToQ(large_lwe.a[i])
                       * (IF material_loaded THEN RingSecret[i] ELSE 0)]
           ct == SwitchCTtoqn(Switching, large_lwe)
<1>1. /\ gate_output = ct /\ large_lwe \in LargeLwe
      /\ material_loaded \in BOOLEAN
  BY DEF BootInv
<1>2. KeyOf(Switching, z)
  BY <1>1, SwitchingKeyOf, NoSwitchingKeyOf DEF Switching
<1>3. \A i \in Ring : terms[i] = ScaleRingQToQ(large_lwe.a[i]) * z[i]
  BY DEF NoSecret
<1>4. \A i \in Ring : terms[i] \in Int
  <2> TAKE i \in Ring
  <2> DEFINE x == ScaleRingQToQ(large_lwe.a[i])
             y == z[i]
  <2>1. large_lwe.a[i] \in Int
    BY <1>1 DEF LargeLwe
  <2>2. x \in Int
    BY <2>1, ScaledResidue, ParameterAssumption
  <2>3. y \in Int
    BY <1>2 DEF KeyOf
  <2>4. terms[i] = x * y
    BY <1>3
  <2> HIDE DEF x, y, terms, z
  <2> QED BY <2>2, <2>3, <2>4, Products
<1> HIDE DEF terms, ct, z
<1>5. /\ ct \in LweCiphertext
      /\ Same(Excess(ct), ScaleRingQToQ(large_lwe.b)
                            - SumTo(RingDimension, terms))
  BY <1>1, <1>2, <1>3, CiphertextSwitched DEF ct
<1> DEFINE u == Excess(ct)
           v == ScaleRingQToQ(large_lwe.b) - SumTo(RingDimension, terms)
<1>6. u \in Int /\ PhaseWithFixedHsk(gate_output) = ModQ(u)
  BY <1>1, <1>5, PhaseIsExcess
<1>7. v \in Int
  <2>1. SumTo(RingDimension, terms) \in Int
    BY <1>4, RingIsInterval, SumIsInteger
  <2>2. large_lwe.b \in Int
    BY <1>1 DEF LargeLwe
  <2>3. ScaleRingQToQ(large_lwe.b) \in Int
    BY <2>2, ScaledResidue, ParameterAssumption
  <2> QED BY <2>1, <2>3
<1>8. Same(u, v)
  BY <1>5
<1>9. PhaseWithFixedHsk(gate_output) = ModQ(v)
  <2> HIDE DEF u, v
  <2> QED BY <1>6, <1>7, <1>8, SameResidue
<1> QED BY <1>9 DEF terms

(* Switching to the small key keeps the phase, for every key and every     *)
(* ciphertext extracted (SwitchCTtoqn): the digits of a coefficient add up *)
(* to it, and each row's noise-free phase is the secret times its power.   *)
THEOREM SwitchingIsExact == Spec => []SwitchingKeepsPhase
<1>1. Init => BootInv
  BY BootAtFirst
<1>2. BootInv /\ [Next]_vars => BootInv'
  BY BootKept
<1>3. BootInv => SwitchingKeepsPhase
  BY SwitchingKeepsIt
<1> QED BY <1>1, <1>2, <1>3, PTL DEF Spec

(* A number off by at most one modulus.                                    *)
LEMMA WrappedOnce ==
  ASSUME NEW m \in Nat \ {0}, NEW x \in - m .. 2 * m - 1
  PROVE  x % m = IF x < 0 THEN x + m ELSE IF x < m THEN x ELSE x - m
<1>1. CASE x < 0
  <2>1. x + m \in 0 .. m - 1 /\ m * 1 = m
    BY <1>1
  <2>2. (x + m) % m = x % m
    <3>1. x \in Int /\ 1 \in Int
      OBVIOUS
    <3>2. (x + m * 1) % m = x % m
      BY <3>1, ModMultiple
    <3> QED BY <2>1, <3>2
  <2> QED BY <1>1, <2>1, <2>2, ResidueMod
<1>2. CASE x >= 0 /\ x < m
  BY <1>2, ResidueMod
<1>3. CASE x >= m
  <2>1. x - m \in 0 .. m - 1 /\ m * (-1) = - m /\ x + (- m) = x - m
    BY <1>3
  <2>2. (x - m) % m = x % m
    <3>1. x \in Int /\ -1 \in Int
      OBVIOUS
    <3>2. (x + m * (-1)) % m = x % m
      BY <3>1, ModMultiple
    <3>3. x + m * (-1) = x - m
      BY <2>1
    <3> QED BY <3>2, <3>3
  <2> QED BY <1>3, <2>1, <2>2, ResidueMod
<1> QED BY <1>1, <1>2, <1>3

Factor == RingDimension \div (CiphertextModulus \div 2)

(* The modulus in eighths, the ring in coefficients per phase, and the two *)
(* messages, each the other's opposite.                                    *)
LEMMA Moduli ==
  /\ Eighth \in Nat \ {0} /\ CiphertextModulus = 8 * Eighth
  /\ CiphertextModulus \div 2 = 4 * Eighth
  /\ Factor \in Nat \ {0} /\ RingDimension = (4 * Eighth) * Factor
<1> DEFINE q == CiphertextModulus
           H == q \div 2
           N == RingDimension
<1>1. q \in Nat \ {0} /\ q % 8 = 0 /\ N \in Nat \ {0} /\ N % H = 0
  BY ParameterAssumption
<1>2. Eighth \in Nat \ {0} /\ q = 8 * Eighth /\ H = 4 * Eighth
  <2> HIDE DEF q
  <2> QED BY <1>1 DEF Eighth, q
<1> DEFINE f == N \div H
<1>3. f \in Int /\ N = H * f + (N % H)
  <2>1. H \in Nat \ {0} /\ N \in Int
    BY <1>1, <1>2
  <2> HIDE DEF H, N
  <2> QED BY <2>1, DivMod
<1>4. f \in Nat \ {0} /\ N = H * f
  <2> HIDE DEF f, H, N
  <2>1. N = H * f
    BY <1>1, <1>2, <1>3
  <2>2. H \in Nat \ {0} /\ N \in Nat \ {0} /\ f \in Int
    BY <1>1, <1>2, <1>3
  <2>3. f > 0
    BY <2>1, <2>2, SMT
  <2> QED BY <2>1, <2>2, <2>3
<1> QED BY <1>2, <1>4 DEF Factor

(* The two messages of the accumulator.                                    *)
LEMMA Messages ==
  /\ AccumulatorPositiveMessage \in 1 .. RingModulus - 1
  /\ AccumulatorNegativeMessage \in 1 .. RingModulus - 1
  /\ AccumulatorNegativeMessage = RingModulus - AccumulatorPositiveMessage
  /\ RingModulus \in Nat \ {0}
<1>1. RingModulus \in Nat /\ RingModulus >= 16
  BY ParameterAssumption, Moduli
<1> QED BY <1>1 DEF AccumulatorPositiveMessage, AccumulatorNegativeMessage

(* Each is the other's opposite.                                           *)
LEMMA Opposites ==
  /\ ModRing(AccumulatorPositiveMessage) = AccumulatorPositiveMessage
  /\ ModRing(AccumulatorNegativeMessage) = AccumulatorNegativeMessage
  /\ ModRing(- AccumulatorPositiveMessage) = AccumulatorNegativeMessage
  /\ ModRing(- AccumulatorNegativeMessage) = AccumulatorPositiveMessage
<1> DEFINE p == AccumulatorPositiveMessage
           n == AccumulatorNegativeMessage
           m == RingModulus
<1> HIDE DEF p, n, m
<1>1. /\ p \in 1 .. m - 1 /\ n \in 1 .. m - 1 /\ n = m - p
      /\ m \in Nat \ {0}
  BY Messages DEF p, n, m
<1>2. /\ p \in - m .. 2 * m - 1 /\ n \in - m .. 2 * m - 1
      /\ (- p) \in - m .. 2 * m - 1 /\ (- n) \in - m .. 2 * m - 1
  BY <1>1
<1>3. p % m = p /\ n % m = n
  BY <1>1, ResidueMod
<1>4. (- p) % m = n
  <2> DEFINE x == - p
  <2>1. x \in - m .. 2 * m - 1 /\ x < 0 /\ x + m = n
    BY <1>1
  <2> HIDE DEF x
  <2> QED BY <1>1, <2>1, WrappedOnce DEF x
<1>5. (- n) % m = p
  <2> DEFINE x == - n
  <2>1. x \in - m .. 2 * m - 1 /\ x < 0 /\ x + m = p
    BY <1>1
  <2> HIDE DEF x
  <2> QED BY <1>1, <2>1, WrappedOnce DEF x
<1> QED BY <1>3, <1>4, <1>5 DEF p, n, m, ModRing

-----------------------------------------------------------------------------
(* What the accumulator holds for a phase: the positive message in half of *)
(* the circle, from 3q/8 for AND and from 2q/8 for XOR.                    *)
Low(gate) == IF gate = "And" THEN 3 * Eighth ELSE 2 * Eighth

Level(gate, x) ==
  IF InHalfOpenRange(x, Low(gate), Low(gate) + 4 * Eighth)
  THEN AccumulatorPositiveMessage ELSE AccumulatorNegativeMessage

(* A gate's range is half of the circle, from its lower end.               *)
LEMMA RangeOfGate ==
  ASSUME NEW gate
  PROVE  GateAccumulatorRange(gate) =
           [lb |-> Low(gate), ub |-> Low(gate) + 4 * Eighth, swap |-> TRUE]
<1> DEFINE q1 == GateConstant(gate)
           q2 == ModQ(q1 + CiphertextModulus \div 2)
           E == Eighth
           L == Low(gate)
<1>1. E \in Nat \ {0} /\ CiphertextModulus = 8 * E
      /\ CiphertextModulus \div 2 = 4 * E
  BY Moduli
<1>2. q1 = L + 4 * E /\ L \in {3 * E, 2 * E}
  BY <1>1 DEF GateConstant, Low
<1> HIDE DEF E, L
<1>3. q2 = L
  <2> DEFINE x == q1 + CiphertextModulus \div 2
             m == CiphertextModulus
  <2> HIDE DEF q1
  <2>1. x = L + 8 * E /\ m = 8 * E
    BY <1>1, <1>2
  <2>2. x \in - m .. 2 * m - 1 /\ x >= m /\ x - m = L /\ m \in Nat \ {0}
    BY <1>1, <1>2, <2>1
  <2> HIDE DEF x, m
  <2>3. x % m = L
    <3>1. ~ (x < 0) /\ ~ (x < m)
      BY <2>2
    <3> HIDE DEF L
    <3> QED BY <2>2, <3>1, WrappedOnce
  <2> QED BY <2>3 DEF ModQ, x, m
<1> HIDE DEF q1, q2
<1>4. q1 >= q2
  BY <1>1, <1>2, <1>3
<1>5. GateAccumulatorRange(gate) =
        IF q1 >= q2 THEN [lb |-> q2, ub |-> q1, swap |-> TRUE]
        ELSE [lb |-> q1, ub |-> q2, swap |-> FALSE]
  BY DEF GateAccumulatorRange, q1, q2
<1> QED BY <1>2, <1>3, <1>4, <1>5 DEF E, L

(* The coefficients that are set.                                          *)
LEMMA CoefficientOfPhase ==
  ASSUME NEW gate, NEW ct, NEW j \in 0 .. 4 * Eighth - 1
  PROVE  /\ Factor * j \in Ring
         /\ InitGateAccumulator(gate, ct).b[Factor * j] =
              Level(gate, ModQ(ct.b - j))
<1> DEFINE f == Factor
           H == 4 * Eighth
           k == f * j
           N == RingDimension
<1>1. /\ f \in Nat \ {0} /\ H \in Nat \ {0} /\ N = H * f
      /\ N \in Nat \ {0} /\ Ring = 0 .. N - 1
      /\ CiphertextModulus \div 2 = H
  BY Moduli, RingIsInterval
<1>2. j \in Nat /\ j <= H - 1
  BY Moduli
<1> HIDE DEF f, H, N
<1>3. k \in 0 .. N - 1
  <2>1. k >= 0 /\ k \in Int
    BY <1>1, <1>2, SMT
  <2>2. f * (H - 1 - j) >= 0
    <3>1. H - 1 - j \in Nat
      BY <1>1, <1>2
    <3> QED BY <1>1, <3>1, SMT
  <2>3. f * (H - 1 - j) = H * f - f - k
    BY <1>1, <1>2, SMT
  <2> HIDE DEF k
  <2>4. k <= N - f
    <3>1. H * f - f - k >= 0
      BY <2>2, <2>3
    <3> QED BY <1>1, <2>1, <3>1
  <2> QED BY <1>1, <2>1, <2>4
<1>4. k \div f = j /\ k % f = 0
  <2>1. 0 \in 0 .. f - 1 /\ k = f * j + 0 /\ k \in Int
    BY <1>1, <1>3
  <2>2. k \div f = j
    BY <1>1, <1>2, <2>1, QuotientUnique
  <2>3. k = f * (k \div f) + (k % f) /\ k % f \in 0 .. f - 1
    <3> HIDE DEF k
    <3> QED BY <1>1, <2>1, DivMod
  <2> DEFINE r == k % f
             t == f * j
  <2>4. t + r = t + 0 /\ r \in 0 .. f - 1 /\ t \in Int
    BY <2>1, <2>2, <2>3
  <2> HIDE DEF r, t
  <2>5. r = 0
    BY <1>1, <2>4
  <2> QED BY <2>2, <2>5 DEF r
<1>5. GateAccumulatorRange(gate) =
        [lb |-> Low(gate), ub |-> Low(gate) + 4 * Eighth, swap |-> TRUE]
  BY RangeOfGate
<1>6. InitGateAccumulator(gate, ct).b[k] =
        IF k % f # 0 THEN 0
        ELSE IF InHalfOpenRange(ModQ(ct.b - k \div f), Low(gate),
                                Low(gate) + 4 * Eighth)
        THEN AccumulatorPositiveMessage ELSE AccumulatorNegativeMessage
  <2>1. k \in Ring
    BY <1>1, <1>3
  <2> HIDE DEF k
  <2> QED BY <1>5, <2>1 DEF InitGateAccumulator, f, Factor
<1>7. InitGateAccumulator(gate, ct).b[k] = Level(gate, ModQ(ct.b - j))
  <2> HIDE DEF k
  <2> QED BY <1>4, <1>6 DEF Level
<1>8. k \in Ring
  BY <1>1, <1>3
<1> QED BY <1>7, <1>8 DEF f

(* Half a turn changes the message to its opposite.                        *)
LEMMA LevelIsAntiperiodic ==
  ASSUME NEW gate \in GateKind, NEW x \in 0 .. 8 * Eighth - 1
  PROVE  ModRing(- Level(gate, (x - 4 * Eighth) % (8 * Eighth))) =
           Level(gate, x)
<1> DEFINE E == Eighth
           m == 8 * E
           y == x - 4 * E
           z == y % m
           L == Low(gate)
<1>1. E \in Nat \ {0} /\ m \in Nat \ {0} /\ m = 8 * E
  BY Moduli
<1>2. L \in {3 * E, 2 * E}
  BY DEF Low
<1>3. y \in - m .. 2 * m - 1 /\ y < m
  BY <1>1
<1> HIDE DEF E, L
<1>4. z = IF y < 0 THEN y + m ELSE y
  <2> HIDE DEF m, y
  <2> QED BY <1>1, <1>3, WrappedOnce
<1> HIDE DEF z
<1>5. InHalfOpenRange(z, L, L + 4 * E) <=> ~ InHalfOpenRange(x, L, L + 4 * E)
  BY <1>1, <1>2, <1>4 DEF InHalfOpenRange, E
<1>6. ModRing(- Level(gate, z)) = Level(gate, x)
  BY <1>5, Opposites DEF Level, E, L
<1> QED BY <1>6 DEF z, E

(* What a turn brings to X^0, in each half of the circle.                  *)
LEMMA TurnedToConstant ==
  ASSUME NEW p, NEW m \in 0 .. 2 * RingDimension - 1
  PROVE  LET c == MultiplyByNegacyclicMonomial(p, m)[0]
             N == RingDimension
         IN  /\ m = 0 => c = ModRing(p[0])
             /\ m \in 1 .. N - 1 => c = ModRing(- p[N - m])
             /\ m = N => c = ModRing(- p[0])
             /\ m > N => c = ModRing(p[2 * N - m])
<1> DEFINE N == RingDimension
           M == 2 * N
           wrapped_exponent == m % M
           negacyclic == wrapped_exponent >= N
           shift == wrapped_exponent % N
           source == (0 - shift) % N
           wrapped == source + shift >= N
           c == MultiplyByNegacyclicMonomial(p, m)[0]
<1>1. N \in Nat \ {0} /\ M \in Nat \ {0} /\ 0 \in Ring /\ M = 2 * N
      /\ m \in 0 .. M - 1
  BY RingIsInterval
<1>2. c = ModRing(IF negacyclic # wrapped THEN - p[source] ELSE p[source])
  BY <1>1 DEF MultiplyByNegacyclicMonomial
<1>3. wrapped_exponent = m
  <2> HIDE DEF M
  <2> QED BY <1>1, ResidueMod
<1>4. shift = IF m < N THEN m ELSE m - N
  <2>1. m \in - N .. 2 * N - 1 /\ ~ (m < 0)
    BY <1>1
  <2> HIDE DEF N, wrapped_exponent
  <2> QED BY <1>1, <1>3, <2>1, WrappedOnce
<1> HIDE DEF wrapped_exponent, c
<1>5. shift \in 0 .. N - 1
  <2> HIDE DEF shift
  <2> QED BY <1>1, <1>4
<1>6. source = IF shift = 0 THEN 0 ELSE N - shift
  <2> DEFINE x == 0 - shift
  <2> HIDE DEF shift, N
  <2>1. x \in - N .. 2 * N - 1 /\ x < N
    BY <1>1, <1>5
  <2>2. x < 0 <=> shift # 0
    BY <1>1, <1>5
  <2>3. x % N = IF x < 0 THEN x + N ELSE x
    <3> HIDE DEF x
    <3> QED BY <1>1, <2>1, WrappedOnce
  <2>4. shift # 0 => x + N = N - shift
    BY <1>1, <1>5
  <2>5. shift = 0 => x = 0
    OBVIOUS
  <2>6. source = x % N
    OBVIOUS
  <2> HIDE DEF x, source
  <2> QED BY <2>2, <2>3, <2>4, <2>5, <2>6
<1> HIDE DEF shift, source
<1>7. /\ (wrapped <=> shift # 0) /\ (negacyclic <=> m >= N)
      /\ wrapped \in BOOLEAN /\ negacyclic \in BOOLEAN
  BY <1>1, <1>3, <1>5, <1>6
<1> HIDE DEF wrapped, negacyclic
<1>8. m = 0 => c = ModRing(p[0])
  <2> SUFFICES ASSUME m = 0 PROVE c = ModRing(p[0])
    OBVIOUS
  <2>1. shift = 0 /\ source = 0 /\ ~ (m >= N)
    BY <1>1, <1>4, <1>6
  <2> QED BY <1>2, <1>7, <2>1
<1>9. m \in 1 .. N - 1 => c = ModRing(- p[N - m])
  <2> SUFFICES ASSUME m \in 1 .. N - 1 PROVE c = ModRing(- p[N - m])
    OBVIOUS
  <2>1. shift = m /\ shift # 0 /\ ~ (m >= N)
    BY <1>1, <1>4
  <2>2. source = N - m
    BY <1>6, <2>1
  <2> QED BY <1>2, <1>7, <2>1, <2>2
<1>10. m = N => c = ModRing(- p[0])
  <2> SUFFICES ASSUME m = N PROVE c = ModRing(- p[0])
    OBVIOUS
  <2>1. shift = 0 /\ source = 0 /\ m >= N
    BY <1>1, <1>4, <1>6
  <2> QED BY <1>2, <1>7, <2>1
<1>11. m > N => c = ModRing(p[2 * N - m])
  <2> SUFFICES ASSUME m > N PROVE c = ModRing(p[2 * N - m])
    OBVIOUS
  <2>1. shift = m - N /\ shift # 0 /\ m >= N
    BY <1>1, <1>4
  <2>2. source = 2 * N - m
    BY <1>1, <1>6, <2>1
  <2> QED BY <1>2, <1>7, <2>1, <2>2
<1> QED BY <1>8, <1>9, <1>10, <1>11 DEF c

(* A phase is turned by as many coefficients as lie between two phases.    *)
LEMMA ExponentOfPhase ==
  ASSUME NEW v \in Nat
  PROVE  ModSwitchToMonomialExponent(v) = Factor * v
<1> DEFINE f == Factor
           E == Eighth
           q == CiphertextModulus
           N == RingDimension
           w == f * v
           h == q \div 2
<1>1. /\ f \in Nat \ {0} /\ E \in Nat \ {0} /\ q = 8 * E /\ h = 4 * E
      /\ N = (4 * E) * f
  BY Moduli
<1>2. ModSwitchToMonomialExponent(v) = (2 * N * v + h) \div q
  BY DEF ModSwitchToMonomialExponent
<1> HIDE DEF f, E, q, N, h
<1>3. w \in Nat
  BY <1>1, Products
<1>4. 2 * N * v = q * w
  BY <1>1, SMT
<1> HIDE DEF w
<1>5. h \in 0 .. q - 1 /\ q \in Nat \ {0} /\ w \in Int
  BY <1>1, <1>3
<1>6. (q * w + h) \div q = w
  BY <1>5, QuotientUnique
<1> QED BY <1>2, <1>4, <1>6 DEF w, f

(* Turned by what b lacks to a phase, the accumulator of a gate has at X^0 *)
(* the message of that phase, wherever between the two the circle wraps.   *)
LEMMA TurnedToPhase ==
  ASSUME NEW gate \in GateKind, NEW ct,
         ct.b \in 0 .. CiphertextModulus - 1,
         NEW t \in 0 .. CiphertextModulus - 1
  PROVE  LET turn == ModSwitchToMonomialExponent(ModQ(t - ct.b))
         IN  MultiplyByNegacyclicMonomial(
               InitGateAccumulator(gate, ct).b, turn)[0] = Level(gate, t)
<1> DEFINE E == Eighth
           q == CiphertextModulus
           H == 4 * E
           f == Factor
           N == RingDimension
           b == ct.b
           v == ModQ(t - b)
           p == InitGateAccumulator(gate, ct).b
           m == ModSwitchToMonomialExponent(v)
           c == MultiplyByNegacyclicMonomial(p, m)[0]
<1>1. /\ E \in Nat \ {0} /\ q = 8 * E /\ H = 4 * E /\ q \in Nat \ {0}
      /\ f \in Nat \ {0} /\ N = H * f
      /\ b \in 0 .. q - 1 /\ t \in 0 .. q - 1
  BY Moduli
<1>2. \A x \in - q .. 2 * q - 1 :
        ModQ(x) = IF x < 0 THEN x + q ELSE IF x < q THEN x ELSE x - q
  <2> TAKE x \in - q .. 2 * q - 1
  <2>1. x % q = IF x < 0 THEN x + q ELSE IF x < q THEN x ELSE x - q
    <3> HIDE DEF q
    <3> QED BY <1>1, WrappedOnce
  <2> QED BY <2>1 DEF ModQ
<1>3. v = IF t < b THEN (t - b) + q ELSE t - b
  <2> DEFINE x == t - b
  <2> HIDE DEF q, b
  <2>1. x \in - q .. 2 * q - 1 /\ x < q /\ (x < 0 <=> t < b)
    BY <1>1
  <2> HIDE DEF x
  <2>2. ModQ(x) = IF x < 0 THEN x + q ELSE x
    BY <1>2, <2>1
  <2> QED BY <2>1, <2>2 DEF x
<1> HIDE DEF v
<1>4. v \in 0 .. q - 1
  <2> HIDE DEF q, b
  <2> QED BY <1>1, <1>3
<1>5. m = f * v
  <2>1. v \in Nat
    BY <1>1, <1>4
  <2> QED BY <2>1, ExponentOfPhase
<1>6. \A j \in 0 .. H - 1 : p[f * j] = Level(gate, ModQ(b - j))
  BY CoefficientOfPhase
<1>7. \A x \in 0 .. q - 1 :
        ModRing(- Level(gate, ModQ(x - H))) = Level(gate, x)
  <2> TAKE x \in 0 .. q - 1
  <2>1. x \in 0 .. 8 * E - 1
    BY <1>1
  <2>2. ModRing(- Level(gate, (x - 4 * E) % (8 * E))) = Level(gate, x)
    <3> HIDE DEF Level
    <3> QED BY <2>1, LevelIsAntiperiodic
  <2> QED BY <1>1, <2>2 DEF ModQ
<1>8. \A x : ModRing(Level(gate, x)) = Level(gate, x)
  BY Opposites DEF Level
<1>9. \A x \in 0 .. q - 1 : ModQ(x) = x
  <2> HIDE DEF q
  <2> QED BY <1>1, <1>2
<1> HIDE DEF p
<1>10. f * 0 = 0
  <2> HIDE DEF f
  <2> QED BY <1>1
<1>11. p[0] = Level(gate, b)
  <2>1. 0 \in 0 .. H - 1 /\ b - 0 = b
    <3> HIDE DEF H, b
    <3> QED BY <1>1
  <2>2. p[f * 0] = Level(gate, ModQ(b - 0))
    BY <1>6, <2>1
  <2> QED BY <1>1, <1>9, <1>10, <2>1, <2>2
<1> USE DEF E
<1> HIDE DEF E, q, H, f, N, b, m
<1>12. N \in Nat \ {0} /\ 2 * N = f * q /\ N = f * H /\ H \in Nat \ {0}
  <2>1. H \in Nat \ {0} /\ q = 2 * H
    BY <1>1
  <2>2. f * H \in Nat \ {0} /\ f * (2 * H) = 2 * (f * H) /\ f * H = H * f
    BY <1>1, <2>1, SMT
  <2> QED BY <1>1, <2>1, <2>2
<1>13. ASSUME NEW x \in Nat, NEW y \in Nat, x < y
       PROVE  f * x < f * y /\ f * x \in Nat /\ f * y \in Nat
              /\ f * y - f * x = f * (y - x)
  <2>1. y - x \in Nat \ {0}
    BY <1>13
  <2>2. f * (y - x) \in Nat \ {0}
    BY <1>1, <2>1, SMT
  <2>3. f * y - f * x = f * (y - x) /\ f * x \in Nat /\ f * y \in Nat
    BY <1>1, SMT
  <2> DEFINE fx == f * x
             fy == f * y
             d == f * (y - x)
  <2> HIDE DEF fx, fy, d
  <2>4. fx < fy
    <3>1. fy - fx = d /\ d \in Nat \ {0} /\ fx \in Nat /\ fy \in Nat
      BY <2>2, <2>3 DEF fx, fy, d
    <3> QED BY <3>1
  <2> QED BY <2>3, <2>4 DEF fx, fy
<1>14. m \in 0 .. 2 * N - 1
  <2>1. v \in Nat /\ q \in Nat /\ v < q
    BY <1>1, <1>4
  <2>2. f * v < f * q /\ f * v \in Nat
    BY <1>13, <2>1
  <2>3. m < 2 * N /\ m \in Nat
    BY <1>5, <1>12, <2>2
  <2> QED BY <1>12, <2>3
<1>15. /\ m = 0 => c = ModRing(p[0])
       /\ m \in 1 .. N - 1 => c = ModRing(- p[N - m])
       /\ m = N => c = ModRing(- p[0])
       /\ m > N => c = ModRing(p[2 * N - m])
  BY <1>14, TurnedToConstant DEF N
<1> HIDE DEF c
<1>16. CASE v = 0
  <2>1. m = 0
    BY <1>5, <1>10, <1>16
  <2>2. t = b
    BY <1>1, <1>3, <1>16
  <2> QED BY <1>8, <1>11, <1>15, <2>1, <2>2 DEF c, m, v, p, b
<1>17. CASE v \in 1 .. H - 1
  <2> DEFINE j == H - v
  <2>1. 0 \in Nat /\ v \in Nat /\ H \in Nat /\ 0 < v /\ v < H
    BY <1>12, <1>17
  <2>2. f * 0 < f * v /\ f * v < f * H /\ f * H - f * v = f * j
        /\ f * v \in Nat
    BY <1>13, <2>1
  <2>3. m \in 1 .. N - 1 /\ N - m = f * j
    <3> HIDE DEF j
    <3>1. 0 < m /\ m < N /\ N - m = f * j /\ m \in Nat
      BY <1>5, <1>10, <1>12, <2>2
    <3> QED BY <1>12, <3>1
  <2>4. j \in 0 .. H - 1
    BY <1>12, <1>17
  <2>5. ModQ(b - j) = ModQ(t - H)
    <3>1. b - j \in - q .. 2 * q - 1 /\ t - H \in - q .. 2 * q - 1
      BY <1>1, <1>17
    <3>2. /\ ModQ(b - j) = IF b - j < 0 THEN (b - j) + q
                           ELSE IF b - j < q THEN b - j ELSE (b - j) - q
          /\ ModQ(t - H) = IF t - H < 0 THEN (t - H) + q
                           ELSE IF t - H < q THEN t - H ELSE (t - H) - q
      BY <1>2, <3>1
    <3> QED BY <1>1, <1>3, <1>17, <3>2
  <2> HIDE DEF j
  <2>6. c = ModRing(- Level(gate, ModQ(t - H)))
    BY <1>6, <1>15, <2>3, <2>4, <2>5
  <2>7. c = Level(gate, t)
    BY <1>1, <1>7, <2>6
  <2> QED BY <2>7 DEF c, m, v, p, b
<1>18. CASE v = H
  <2>1. m = N
    BY <1>5, <1>12, <1>18
  <2>2. ModQ(t - H) = b
    <3>1. t - H \in - q .. 2 * q - 1
      BY <1>1
    <3>2. ModQ(t - H) = IF t - H < 0 THEN (t - H) + q
                        ELSE IF t - H < q THEN t - H ELSE (t - H) - q
      BY <1>2, <3>1
    <3> QED BY <1>1, <1>3, <1>18, <3>2
  <2>3. c = ModRing(- Level(gate, ModQ(t - H)))
    BY <1>11, <1>15, <2>1, <2>2
  <2>4. c = Level(gate, t)
    BY <1>1, <1>7, <2>3
  <2> QED BY <2>4 DEF c, m, v, p, b
<1>19. CASE v > H
  <2> DEFINE j == q - v
  <2>1. H \in Nat /\ v \in Nat /\ q \in Nat /\ H < v /\ v < q
    BY <1>1, <1>4, <1>12, <1>19
  <2>2. f * H < f * v /\ f * q - f * v = f * j
    BY <1>13, <2>1
  <2>3. m > N /\ 2 * N - m = f * j
    <3> HIDE DEF j
    <3>1. N < m
      BY <1>5, <1>12, <2>2
    <3>2. N \in Nat /\ m \in Nat
      BY <1>12, <1>14
    <3> QED BY <1>5, <1>12, <2>2, <3>1, <3>2
  <2>4. j \in 0 .. H - 1
    BY <1>1, <1>19, <1>4
  <2>5. ModQ(b - j) = t
    <3>1. b - j \in - q .. 2 * q - 1
      BY <1>1, <1>4
    <3>2. ModQ(b - j) = IF b - j < 0 THEN (b - j) + q
                        ELSE IF b - j < q THEN b - j ELSE (b - j) - q
      BY <1>2, <3>1
    <3> QED BY <1>1, <1>3, <1>4, <3>2
  <2> HIDE DEF j
  <2>6. c = Level(gate, t)
    BY <1>6, <1>8, <1>15, <2>3, <2>4, <2>5
  <2> QED BY <2>6 DEF c, m, v, p, b
<1>20. v = 0 \/ v \in 1 .. H - 1 \/ v = H \/ v > H
  BY <1>1, <1>4, <1>12
<1> QED BY <1>16, <1>17, <1>18, <1>19, <1>20

(* What a gate sums up of two messages and noise, in eighths.              *)
MessageOf(message) == IF message THEN 2 * Eighth ELSE 0

GateSum(gate, lhs, rhs, e) ==
  LET sum == MessageOf(lhs) + MessageOf(rhs) + e
  IN  IF gate = "Xor" THEN 2 * sum ELSE sum

MessageFor(bit) ==
  IF bit THEN AccumulatorPositiveMessage ELSE AccumulatorNegativeMessage

(* The gate's half of the circle is where its sums are when it is true.    *)
LEMMA LevelOfSum ==
  ASSUME NEW gate \in GateKind, NEW lhs \in BOOLEAN, NEW rhs \in BOOLEAN,
         NEW e \in - Eighth .. Eighth - 1
  PROVE  /\ GateSum(gate, lhs, rhs, e) \in Int
         /\ Level(gate, ModQ(GateSum(gate, lhs, rhs, e))) =
              MessageFor(GateOf(gate, lhs, rhs))
<1> DEFINE E == Eighth
           q == CiphertextModulus
           x == GateSum(gate, lhs, rhs, e)
           l == MessageOf(lhs)
           r == MessageOf(rhs)
           L == Low(gate)
           y == ModQ(x)
<1>1. E \in Nat \ {0} /\ q = 8 * E /\ q \in Nat \ {0} /\ e \in - E .. E - 1
  BY Moduli
<1>2. l = (IF lhs THEN 2 * E ELSE 0) /\ r = (IF rhs THEN 2 * E ELSE 0)
  BY DEF MessageOf
<1>3. x = IF gate = "Xor" THEN 2 * (l + r + e) ELSE l + r + e
  BY DEF GateSum
<1>4. L = IF gate = "And" THEN 3 * E ELSE 2 * E
  BY DEF Low
<1> HIDE DEF E, q, x, l, r, L
<1>5. x \in - q .. 2 * q - 1
  BY <1>1, <1>2, <1>3
<1>6. y = IF x < 0 THEN x + q ELSE IF x < q THEN x ELSE x - q
  <2>1. x % q = IF x < 0 THEN x + q ELSE IF x < q THEN x ELSE x - q
    BY <1>1, <1>5, WrappedOnce
  <2> QED BY <2>1 DEF ModQ, q
<1> HIDE DEF y
<1>7. CASE gate = "And"
  <2>1. (y >= L /\ y < L + 4 * E) <=> (lhs /\ rhs)
    BY <1>1, <1>2, <1>3, <1>4, <1>6, <1>7
  <2>2. GateOf(gate, lhs, rhs) <=> (lhs /\ rhs)
    BY <1>7 DEF GateOf
  <2>3. Level(gate, y) = MessageFor(GateOf(gate, lhs, rhs))
    BY <2>1, <2>2 DEF Level, InHalfOpenRange, MessageFor, L, E
  <2> QED BY <1>1, <1>5, <2>3 DEF x, y
<1>8. CASE gate = "Xor"
  <2>1. (y >= L /\ y < L + 4 * E) <=> (lhs # rhs)
    BY <1>1, <1>2, <1>3, <1>4, <1>6, <1>8
  <2>2. GateOf(gate, lhs, rhs) <=> (lhs # rhs)
    BY <1>8 DEF GateOf
  <2>3. Level(gate, y) = MessageFor(GateOf(gate, lhs, rhs))
    BY <2>1, <2>2 DEF Level, InHalfOpenRange, MessageFor, L, E
  <2> QED BY <1>1, <1>5, <2>3 DEF x, y
<1> QED BY <1>7, <1>8 DEF GateKind

(* Adding ciphertexts adds their phases.                                   *)
LEMMA DotAdds ==
  ASSUME NEW x \in LweCiphertext, NEW y \in LweCiphertext
  PROVE  Same(Dot(AddCiphertexts(x, y).a), Dot(x.a) + Dot(y.a))
<1> DEFINE n == LweDimension
           s == AddCiphertexts(x, y).a
           f == [j \in Lwe |-> x.a[j] * FixedHsk[j]]
           g == [j \in Lwe |-> y.a[j] * FixedHsk[j]]
           h == [j \in Lwe |-> f[j] + g[j]]
           k == [j \in Lwe |-> s[j] * FixedHsk[j]]
<1>0. n \in Nat /\ Lwe = 0 .. n - 1 /\ \A j \in Lwe : FixedHsk[j] \in Int
  BY ParameterAssumption DEF Lwe
<1>1. \A j \in Lwe : x.a[j] \in Int /\ y.a[j] \in Int
  BY DEF LweCiphertext
<1>2. \A j \in Lwe : s[j] = ModQ(x.a[j] + y.a[j])
  BY DEF AddCiphertexts
<1> HIDE DEF s
<1>3. ASSUME NEW j \in Lwe
      PROVE  /\ f[j] \in Int /\ g[j] \in Int /\ h[j] = f[j] + g[j]
             /\ h[j] \in Int /\ k[j] \in Int /\ Same(k[j], h[j])
  <2> DEFINE u == x.a[j]
             v == y.a[j]
             z == FixedHsk[j]
             m == s[j]
  <2>1. u \in Int /\ v \in Int /\ z \in Int
    BY <1>0, <1>1
  <2>2. f[j] = u * z /\ g[j] = v * z /\ h[j] = f[j] + g[j] /\ k[j] = m * z
    OBVIOUS
  <2>3. m = ModQ(u + v)
    BY <1>2
  <2> HIDE DEF u, v, z, m, f, g, h, k
  <2>4. u + v \in Int
    BY <2>1
  <2>5. Same(m, u + v) /\ m \in Int
    BY <2>3, <2>4, SameResidue, ParameterAssumption
  <2>6. u * z \in Int /\ v * z \in Int /\ m * z \in Int
    BY <2>1, <2>5, Products
  <2>7. (u + v) * z = u * z + v * z
    BY <2>1, SMT
  <2>8. Same(m * z, (u + v) * z)
    <3>1. Same(m, m) /\ z \in Int
      BY <2>1, <2>5, SameResidue
    <3> DEFINE w == u + v
    <3> HIDE DEF w
    <3>2. Same(m * z, w * z)
      BY <2>4, <2>5, <3>1, SameCombine DEF w
    <3> QED BY <3>2 DEF w
  <2>9. u * z + v * z \in Int
    BY <2>6
  <2> QED BY <2>2, <2>6, <2>7, <2>8, <2>9
<1>4. Dot(x.a) = SumTo(n, f) /\ Dot(y.a) = SumTo(n, g) /\ Dot(s) = SumTo(n, k)
  BY DEF Dot
<1> HIDE DEF f, g, h, k, n
<1>5. SumTo(n, h) = SumTo(n, f) + SumTo(n, g)
  <2>1. \A j \in 0 .. n - 1 : f[j] \in Int /\ g[j] \in Int
                                /\ h[j] = f[j] + g[j]
    BY <1>0, <1>3
  <2> QED BY <1>0, <2>1, SumAdds
<1>6. Same(SumTo(n, k), SumTo(n, h))
  <2>1. \A j \in 0 .. n - 1 : k[j] \in Int /\ h[j] \in Int /\ Same(k[j], h[j])
    BY <1>0, <1>3
  <2> QED BY <1>0, <2>1, SumSameResidue
<1> QED BY <1>4, <1>5, <1>6 DEF s

(* A product with the key is an integer.                                   *)
LEMMA DotIsInteger ==
  ASSUME NEW x \in LweCiphertext
  PROVE  Dot(x.a) \in Int /\ x.b \in Int
<1>1. \A j \in Lwe : x.a[j] \in Int
  BY DEF LweCiphertext
<1> QED BY <1>1, DotResidue DEF LweCiphertext

(* Phases of a sum.                                                        *)
LEMMA PhasesAdd ==
  ASSUME NEW x \in LweCiphertext, NEW y \in LweCiphertext
  PROVE  LET sum == AddCiphertexts(x, y)
         IN  /\ sum \in LweCiphertext /\ sum.b \in 0 .. CiphertextModulus - 1
             /\ Excess(x) \in Int /\ Excess(y) \in Int
             /\ Same(Excess(sum), Excess(x) + Excess(y))
<1> DEFINE sum == AddCiphertexts(x, y)
           bs == sum.b
           ds == Dot(sum.a)
           bx == x.b
           dx == Dot(x.a)
           by == y.b
           dy == Dot(y.a)
<1>1. sum \in LweCiphertext /\ Same(bs, bx + by)
  BY SumOfCiphertexts
<1>2. Same(ds, dx + dy)
  BY DotAdds
<1>3. bs = ModQ(bx + by)
  BY DEF AddCiphertexts
<1> HIDE DEF sum
<1>4. /\ bs \in Int /\ ds \in Int /\ bx \in Int /\ dx \in Int
      /\ by \in Int /\ dy \in Int
  BY <1>1, DotIsInteger
<1>5. Excess(sum) = bs - ds /\ Excess(x) = bx - dx /\ Excess(y) = by - dy
  BY DEF Excess
<1> HIDE DEF bs, ds, bx, dx, by, dy
<1> DEFINE u == bx + by
           v == dx + dy
<1>6. u \in Int /\ v \in Int /\ u - v = (bx - dx) + (by - dy)
  BY <1>4
<1>7. Same(bs, u) /\ Same(ds, v) /\ bs = ModQ(u)
  BY <1>1, <1>2, <1>3 DEF bs, ds, bx, dx, by, dy
<1> HIDE DEF u, v
<1>8. Same(bs - ds, u - v)
  BY <1>4, <1>6, <1>7, SameCombine
<1>9. bs \in 0 .. CiphertextModulus - 1
  BY <1>6, <1>7, SameResidue
<1>10. bx - dx \in Int /\ by - dy \in Int
  BY <1>4
<1> QED BY <1>1, <1>5, <1>6, <1>8, <1>9, <1>10 DEF sum, bs

(* The phase of an encryption is its message and its noise.                *)
LEMMA EncryptedPhase ==
  ASSUME NEW mask \in [Lwe -> Int], NEW message \in BOOLEAN, NEW e \in Int
  PROVE  LET ct == Encrypted(mask, message, e)
         IN  /\ ct \in LweCiphertext
             /\ Excess(ct) \in Int /\ MessageOf(message) + e \in Int
             /\ Same(Excess(ct), MessageOf(message) + e)
<1> DEFINE zero == [a |-> mask, b |-> 0]
           c == DotWithFixedHsk(zero)
           d == Dot(mask)
           m == MessageOf(message)
           w == m + e
           b == ModQ(c + w)
<1>1. m = IF message THEN EncodedOne ELSE 0
  <2>1. EncodedOne = 2 * Eighth
    BY Moduli DEF EncodedOne
  <2> QED BY <2>1 DEF MessageOf
<1>2. m \in Int
  BY Moduli DEF MessageOf
<1>3. d \in Int /\ c \in 0 .. CiphertextModulus - 1 /\ Same(c, d)
  <2>1. (\A j \in Lwe : zero.a[j] \in Int) /\ zero.a = mask
    OBVIOUS
  <2> HIDE DEF zero
  <2> QED BY <2>1, DotResidue
<1>4. c \in Int
  BY <1>3, ParameterAssumption
<1>5. Encrypted(mask, message, e) =
        [a |-> mask, b |-> ModQ(c + (IF message THEN EncodedOne ELSE 0) + e)]
  BY DEF Encrypted
<1> HIDE DEF c, d, m
<1>6. c + (IF message THEN EncodedOne ELSE 0) + e = c + w /\ w \in Int
      /\ c + w \in Int
  BY <1>1, <1>2, <1>4
<1>7. Encrypted(mask, message, e) = [a |-> mask, b |-> b]
  BY <1>5, <1>6
<1>8. Same(b, c + w) /\ b \in Int
  BY <1>6, SameResidue, ParameterAssumption
<1> HIDE DEF b, w
<1>9. Same(c + w, d + w)
  <2>1. Same(w, w)
    BY <1>6, SameResidue
  <2> QED BY <1>3, <1>4, <1>6, <2>1, SameCombine
<1>10. d + w \in Int
  BY <1>3, <1>6
<1>11. Same(b, d + w)
  BY <1>6, <1>8, <1>9, <1>10, SameTransitive
<1>12. Same(b - d, (d + w) - d)
  <2>1. Same(d, d)
    BY <1>3, SameResidue
  <2> DEFINE s == d + w
  <2> HIDE DEF s
  <2>2. Same(b - d, s - d)
    BY <1>3, <1>8, <1>10, <1>11, <2>1, SameCombine DEF s
  <2> QED BY <2>2 DEF s
<1>13. (d + w) - d = w /\ b - d \in Int
  BY <1>3, <1>6, <1>8
<1>14. Excess(Encrypted(mask, message, e)) = b - d
  BY <1>7 DEF Excess, d
<1>15. Encrypted(mask, message, e) \in LweCiphertext
  BY <1>7, <1>8 DEF LweCiphertext
<1> QED BY <1>6, <1>12, <1>13, <1>14, <1>15 DEF w, m

(* The phase of the ciphertext that is bootstrapped.                       *)
LEMMA PrebootstrapPhase ==
  ASSUME NEW gate \in GateKind, NEW x \in LweCiphertext, NEW y \in LweCiphertext,
         NEW lhs \in BOOLEAN, NEW rhs \in BOOLEAN, NEW e1 \in Int, NEW e2 \in Int,
         Same(Excess(x), MessageOf(lhs) + e1),
         Same(Excess(y), MessageOf(rhs) + e2)
  PROVE  LET ct == GatePrebootstrap(gate, x, y)
         IN  /\ ct \in LweCiphertext /\ ct.b \in 0 .. CiphertextModulus - 1
             /\ Excess(ct) \in Int /\ GateSum(gate, lhs, rhs, e1 + e2) \in Int
             /\ Same(Excess(ct), GateSum(gate, lhs, rhs, e1 + e2))
<1> DEFINE sum == AddCiphertexts(x, y)
           double == AddCiphertexts(sum, sum)
           l == MessageOf(lhs)
           r == MessageOf(rhs)
           u == l + e1
           v == r + e2
           w == u + v
           ex == Excess(x)
           ey == Excess(y)
           es == Excess(sum)
           ed == Excess(double)
<1>1. l \in Int /\ r \in Int
  BY Moduli DEF MessageOf
<1>2. GateSum(gate, lhs, rhs, e1 + e2) =
        IF gate = "Xor" THEN 2 * (l + r + (e1 + e2)) ELSE l + r + (e1 + e2)
  BY DEF GateSum
<1>3. GatePrebootstrap(gate, x, y) = IF gate = "Xor" THEN double ELSE sum
  BY DEF GatePrebootstrap
<1>4. /\ sum \in LweCiphertext /\ sum.b \in 0 .. CiphertextModulus - 1
      /\ ex \in Int /\ ey \in Int /\ Same(es, ex + ey)
  BY PhasesAdd
<1> HIDE DEF sum
<1>5. /\ double \in LweCiphertext /\ double.b \in 0 .. CiphertextModulus - 1
      /\ es \in Int /\ Same(ed, es + es)
  BY <1>4, PhasesAdd
<1> HIDE DEF double
<1>6. ed \in Int
  BY <1>5, PhaseIsExcess
<1>7. u \in Int /\ v \in Int /\ w \in Int /\ Same(ex, u) /\ Same(ey, v)
  BY <1>1
<1> HIDE DEF u, v, ex, ey, es, ed
<1>8. Same(es, w)
  <2>1. Same(ex + ey, u + v)
    BY <1>4, <1>7, SameCombine
  <2>2. ex + ey \in Int
    BY <1>4
  <2> QED BY <1>4, <1>5, <1>7, <2>1, <2>2, SameTransitive
<1>9. Same(ed, w + w) /\ w + w \in Int
  <2>1. w + w \in Int /\ es + es \in Int
    BY <1>5, <1>7
  <2> HIDE DEF w
  <2>2. Same(es + es, w + w)
    BY <1>5, <1>7, <1>8, SameCombine
  <2> QED BY <1>5, <1>6, <2>1, <2>2, SameTransitive
<1>10. l + r + (e1 + e2) = w /\ 2 * (l + r + (e1 + e2)) = w + w
  <2> HIDE DEF l, r
  <2> QED BY <1>1 DEF w, u, v
<1> HIDE DEF w, l, r
<1> QED BY <1>2, <1>3, <1>4, <1>5, <1>6, <1>7, <1>8, <1>9, <1>10 DEF es, ed

(* Residues that are the same are equal.                                   *)
LEMMA SameIsEqual ==
  ASSUME NEW u \in 0 .. CiphertextModulus - 1, NEW v \in Int, Same(u, v)
  PROVE  u = ModQ(v)
<1>1. CiphertextModulus \in Nat \ {0} /\ u \in Int
  BY ParameterAssumption
<1>2. u % CiphertextModulus = u
  BY <1>1, ResidueMod
<1>3. ModQ(u) = ModQ(v)
  BY <1>1, SameResidue
<1> QED BY <1>2, <1>3 DEF ModQ

(* Nothing masked adds nothing to the phase.                               *)
LEMMA NoMask ==
  /\ [i \in Lwe |-> 0] \in [Lwe -> Int] /\ Dot([i \in Lwe |-> 0]) = 0
<1> DEFINE zeros == [i \in Lwe |-> 0]
<1>1. zeros \in [Lwe -> Int] /\ \A j \in Lwe : zeros[j] = 0
  OBVIOUS
<1> HIDE DEF zeros
<1>2. Dot(zeros) = 0
  BY <1>1, DotOfZero
<1> QED BY <1>1, <1>2 DEF zeros

(* The body of what is bootstrapped when nothing is masked.                *)
LEMMA UnmaskedBody ==
  ASSUME NEW gate \in GateKind, NEW x \in LweCiphertext, NEW y \in LweCiphertext,
         NEW lhs \in BOOLEAN, NEW rhs \in BOOLEAN, NEW e1 \in Int, NEW e2 \in Int,
         Same(Excess(x), MessageOf(lhs) + e1),
         Same(Excess(y), MessageOf(rhs) + e2),
         Dot(GatePrebootstrap(gate, x, y).a) = 0
  PROVE  GatePrebootstrap(gate, x, y).b = ModQ(GateSum(gate, lhs, rhs, e1 + e2))
<1> DEFINE ct == GatePrebootstrap(gate, x, y)
           s == GateSum(gate, lhs, rhs, e1 + e2)
           b == ct.b
<1>1. /\ ct \in LweCiphertext /\ b \in 0 .. CiphertextModulus - 1
      /\ s \in Int /\ Same(Excess(ct), s)
  BY PrebootstrapPhase
<1>2. Excess(ct) = b - 0
  BY DEF Excess
<1>3. b - 0 = b
  <2> HIDE DEF b
  <2> QED BY <1>1, ParameterAssumption
<1> HIDE DEF b, s, ct
<1> QED BY <1>1, <1>2, <1>3, SameIsEqual DEF b, s, ct

(* AddCiphertexts of unmasked ciphertexts is unmasked.                     *)
LEMMA StaysUnmasked ==
  ASSUME NEW gate, NEW x, NEW y, \A j \in Lwe : x.a[j] = 0 /\ y.a[j] = 0
  PROVE  \A j \in Lwe : GatePrebootstrap(gate, x, y).a[j] = 0
<1>1. ModQ(0 + 0) = 0
  <2>1. CiphertextModulus \in Nat \ {0} /\ 0 \in 0 .. CiphertextModulus - 1
    BY ParameterAssumption
  <2>2. 0 % CiphertextModulus = 0
    BY <2>1, ResidueMod
  <2> QED BY <2>2 DEF ModQ
<1> DEFINE sum == AddCiphertexts(x, y)
<1>2. \A j \in Lwe : sum.a[j] = 0
  BY <1>1 DEF AddCiphertexts
<1>3. \A j \in Lwe : AddCiphertexts(sum, sum).a[j] = 0
  <2> HIDE DEF sum
  <2> QED BY <1>1, <1>2 DEF AddCiphertexts
<1> HIDE DEF sum
<1>4. GatePrebootstrap(gate, x, y) =
        IF gate = "Xor" THEN AddCiphertexts(sum, sum) ELSE sum
  BY DEF GatePrebootstrap, sum
<1> QED BY <1>2, <1>3, <1>4

(* The ciphertext that is bootstrapped.                                    *)
LEMMA PrebootstrapOfRequest ==
  ASSUME BootInv, program = "reference", boot_stage # "start"
  PROVE  LET r == request
         IN  /\ r.gate \in GateKind
             /\ r.messages[1] \in BOOLEAN /\ r.messages[2] \in BOOLEAN
             /\ r.noise[1] \in Int /\ r.noise[2] \in Int
             /\ prebootstrap = GatePrebootstrap(r.gate, Given(1), Given(2))
             /\ Given(1) \in LweCiphertext /\ Given(2) \in LweCiphertext
             /\ Same(Excess(Given(1)), MessageOf(r.messages[1]) + r.noise[1])
             /\ Same(Excess(Given(2)), MessageOf(r.messages[2]) + r.noise[2])
             /\ prebootstrap.b \in 0 .. CiphertextModulus - 1
<1>1. /\ request \in Requests
      /\ prebootstrap = GatePrebootstrap(request.gate, Given(1), Given(2))
  BY DEF BootInv
<1>2. request.gate \in GateKind
  BY <1>1 DEF Requests
<1>3. ASSUME NEW i \in {1, 2}
      PROVE  /\ request.messages[i] \in BOOLEAN /\ request.noise[i] \in Int
             /\ Given(i) \in LweCiphertext
             /\ Same(Excess(Given(i)),
                     MessageOf(request.messages[i]) + request.noise[i])
  <2>1. /\ request.masks[i] \in GateMasks /\ request.messages[i] \in BOOLEAN
        /\ request.noise[i] \in GateNoise
    BY <1>1 DEF Requests
  <2>2. request.masks[i] \in [Lwe -> Int]
    <3>1. 0 .. CiphertextModulus - 1 \subseteq Int
      BY ParameterAssumption
    <3> QED BY <2>1, <3>1, KeyAssumption
  <2>3. request.noise[i] \in Int
    BY <2>1, KeyAssumption
  <2> QED BY <2>1, <2>2, <2>3, EncryptedPhase DEF Given
<1>4. prebootstrap.b \in 0 .. CiphertextModulus - 1
  BY <1>1, <1>2, <1>3, PrebootstrapPhase
<1> QED BY <1>1, <1>2, <1>3, <1>4

(* What a turn to a sum of messages shows is their gate.                   *)
LEMMA AccumulatorTurns == BootInv => AccumulatorTurnsToTheGate
<1> SUFFICES ASSUME BootInv, boot_stage \in {"rotate", "extract"}, rotated = 0,
                    NEW lhs \in BOOLEAN, NEW rhs \in BOOLEAN,
                    NEW e \in - Eighth .. Eighth - 1
             PROVE  LET target == GatePrebootstrap(request.gate,
                                    Encrypted([i \in Lwe |-> 0], lhs, e),
                                    Encrypted([i \in Lwe |-> 0], rhs, 0)).b
                        turn == ModSwitchToMonomialExponent(
                                  ModQ(target - prebootstrap.b))
                    IN  MultiplyByNegacyclicMonomial(accumulator.b, turn)[0] =
                          IF GateOf(request.gate, lhs, rhs)
                          THEN AccumulatorPositiveMessage
                          ELSE AccumulatorNegativeMessage
  BY DEF AccumulatorTurnsToTheGate
<1> DEFINE gate == request.gate
           zeros == [i \in Lwe |-> 0]
           x == Encrypted(zeros, lhs, e)
           y == Encrypted(zeros, rhs, 0)
           target == GatePrebootstrap(gate, x, y).b
           turn == ModSwitchToMonomialExponent(ModQ(target - prebootstrap.b))
<1>1. program = "reference" /\ boot_stage # "start"
  BY DEF BootInv
<1>2. /\ gate \in GateKind /\ prebootstrap.b \in 0 .. CiphertextModulus - 1
      /\ accumulator = InitGateAccumulator(gate, prebootstrap)
  BY <1>1, PrebootstrapOfRequest DEF BootInv
<1>3. e \in Int /\ e + 0 = e
  BY Moduli
<1>4. /\ x \in LweCiphertext /\ y \in LweCiphertext
      /\ Same(Excess(x), MessageOf(lhs) + e)
      /\ Same(Excess(y), MessageOf(rhs) + 0)
  <2>1. zeros \in [Lwe -> Int]
    BY NoMask
  <2> HIDE DEF zeros
  <2>2. 0 \in Int
    OBVIOUS
  <2> QED BY <1>3, <2>1, <2>2, EncryptedPhase
<1>5. \A j \in Lwe : x.a[j] = 0 /\ y.a[j] = 0
  BY DEF Encrypted
<1> HIDE DEF x, y
<1>6. Dot(GatePrebootstrap(gate, x, y).a) = 0
  <2> DEFINE a == GatePrebootstrap(gate, x, y).a
  <2>1. \A j \in Lwe : a[j] = 0
    BY <1>5, StaysUnmasked
  <2> HIDE DEF a
  <2>2. Dot(a) = 0
    BY <2>1, DotOfZero
  <2> QED BY <2>2 DEF a
<1>7. target = ModQ(GateSum(gate, lhs, rhs, e)) /\ target \in 0 .. CiphertextModulus - 1
  <2> HIDE DEF gate
  <2>1. target = ModQ(GateSum(gate, lhs, rhs, e + 0))
    BY <1>2, <1>3, <1>4, <1>6, UnmaskedBody
  <2>2. target \in 0 .. CiphertextModulus - 1
    BY <1>2, <1>3, <1>4, PrebootstrapPhase
  <2> QED BY <1>3, <2>1, <2>2
<1> HIDE DEF target, gate
<1>8. MultiplyByNegacyclicMonomial(accumulator.b, turn)[0] = Level(gate, target)
  BY <1>2, <1>7, TurnedToPhase
<1>9. Level(gate, target) = MessageFor(GateOf(gate, lhs, rhs))
  BY <1>2, <1>7, LevelOfSum
<1> QED BY <1>8, <1>9 DEF MessageFor, target, gate, x, y

(* The accumulator holds the gate for all phases (InitGateAccumulator), at *)
(* every parameter: turned to the phase of two messages under any noise of *)
(* less than an eighth, it shows their gate at X^0.                        *)
THEOREM AccumulatorHoldsGate == Spec => []AccumulatorTurnsToTheGate
<1>1. Init => BootInv
  BY BootAtFirst
<1>2. BootInv /\ [Next]_vars => BootInv'
  BY BootKept
<1>3. BootInv => AccumulatorTurnsToTheGate
  BY AccumulatorTurns
<1> QED BY <1>1, <1>2, <1>3, PTL DEF Spec

-----------------------------------------------------------------------------
(* The messages of the accumulator, scaled to the ciphertext modulus.      *)
LEMMA ScaledMessages ==
  /\ ScaleRingQToQ(AccumulatorPositiveMessage) \in {Eighth, Eighth + 1}
  /\ ScaleRingQToQ(AccumulatorNegativeMessage) = 7 * Eighth
<1> DEFINE E == Eighth
           Q == RingModulus
           q == CiphertextModulus
           p == AccumulatorPositiveMessage
           n == AccumulatorNegativeMessage
           a == Q \div 8
           r == Q % 8
           h == Q \div 2
           d == E * (8 - r)
<1>1. E \in Nat \ {0} /\ q = 8 * E /\ Q \in Nat \ {0} /\ Q >= 2 * q /\ Q >= 16
      /\ q \in Nat \ {0}
  BY Moduli, ParameterAssumption
<1> HIDE DEF E, Q, q
<1>2. /\ Q = 8 * a + r /\ r \in 0 .. 7 /\ a \in Nat
      /\ h \in Nat /\ (Q = 2 * h \/ Q = 2 * h + 1)
  BY <1>1
<1>3. p = a + 1 /\ n = Q - (a + 1)
  BY DEF AccumulatorPositiveMessage, AccumulatorNegativeMessage, Q
<1> HIDE DEF a, r, h, p, n
<1>4. d \in Int /\ d >= E /\ d <= q
  <2>1. (8 - r) \in 1 .. 8
    BY <1>2
  <2> DEFINE m == 8 - r
  <2> HIDE DEF m
  <2>2. m \in 1 .. 8
    BY <2>1 DEF m
  <2>3. d = E * m
    BY DEF m
  <2>4. E * m \in Int /\ E * m >= E /\ E * m <= 8 * E
    BY <1>1, <2>2, SMT
  <2> QED BY <1>1, <2>3, <2>4
<1>5. p * q = Q * E + d
  <2>1. p * q = (a + 1) * (8 * E)
    BY <1>1, <1>3
  <2>2. (a + 1) * (8 * E) = (8 * a) * E + 8 * E
    BY <1>1, <1>2, SMT
  <2>3. d = 8 * E - r * E
    BY <1>1, <1>2, SMT
  <2>4. Q * E = (8 * a) * E + r * E
    BY <1>1, <1>2, SMT
  <2> DEFINE x == (8 * a) * E
             y == r * E
             z == Q * E
  <2>5. x \in Int /\ y \in Int
    BY <1>1, <1>2, Products
  <2> HIDE DEF x, y, z, d
  <2>6. p * q = x + 8 * E /\ d = 8 * E - y /\ z = x + y
    BY <2>1, <2>2, <2>3, <2>4 DEF x, y, z
  <2>7. x + 8 * E = z + d
    BY <1>1, <2>5, <2>6
  <2> QED BY <2>6, <2>7 DEF z
<1> HIDE DEF d
<1>6. \A m \in Nat : m < q => ModQ(m) = m
  <2> TAKE m \in Nat
  <2> SUFFICES ASSUME m < q PROVE ModQ(m) = m
    OBVIOUS
  <2>1. m \in 0 .. q - 1
    BY <1>1
  <2>2. m % q = m
    BY <1>1, <2>1, ResidueMod
  <2> QED BY <2>2 DEF ModQ, q
<1>7. ScaleRingQToQ(p) \in {E, E + 1}
  <2> DEFINE s == d + h
  <2>1. ScaleRingQToQ(p) = ModQ((Q * E + d + h) \div Q)
    BY <1>5 DEF ScaleRingQToQ, Q, q, h
  <2>2. CASE s < Q
    <3>1. s \in 0 .. Q - 1 /\ E \in Int
      BY <1>1, <1>2, <1>4, <2>2
    <3>2. (Q * E + s) \div Q = E
      <4> HIDE DEF s
      <4> QED BY <1>1, <3>1, QuotientUnique
    <3>3. Q * E + d + h = Q * E + s
      <4> DEFINE z == Q * E
      <4>1. z \in Int
        BY <1>1, Products
      <4> HIDE DEF z
      <4>2. z + d + h = z + s
        BY <1>2, <1>4, <4>1
      <4> QED BY <4>2 DEF z
    <3>4. E < q /\ E \in Nat
      BY <1>1
    <3> QED BY <1>6, <2>1, <3>2, <3>3, <3>4
  <2>3. CASE s >= Q
    <3>1. s = Q /\ E + 1 \in Int
      BY <1>1, <1>2, <1>4, <2>3
    <3>2. (Q * (E + 1) + 0) \div Q = E + 1
      <4>1. 0 \in 0 .. Q - 1
        BY <1>1
      <4> QED BY <1>1, <3>1, <4>1, QuotientUnique
    <3>3. Q * E + d + h = Q * (E + 1) + 0
      <4>1. Q * (E + 1) = Q * E + Q
        BY <1>1, SMT
      <4> DEFINE z == Q * E
      <4>2. z \in Int
        BY <1>1, Products
      <4> HIDE DEF z
      <4>3. z + d + h = z + Q + 0
        BY <1>1, <1>2, <1>4, <3>1, <4>2
      <4>4. Q * (E + 1) = z + Q
        BY <4>1 DEF z
      <4> QED BY <4>3, <4>4 DEF z
    <3>4. E + 1 < q /\ E + 1 \in Nat
      BY <1>1
    <3> QED BY <1>6, <2>1, <3>2, <3>3, <3>4
  <2>4. s \in Int
    BY <1>2, <1>4
  <2> HIDE DEF s
  <2> QED BY <1>1, <2>2, <2>3, <2>4
<1>8. ScaleRingQToQ(n) = 7 * E
  <2> DEFINE s == h - d
             z == Q * E
  <2>1. ScaleRingQToQ(n) = ModQ((n * q + h) \div Q)
    BY DEF ScaleRingQToQ, Q, q, h
  <2>2. z \in Int
    BY <1>1, Products
  <2>3. n * q = Q * (8 * E) - p * q
    <3>1. n = Q - p /\ p \in Int
      BY <1>1, <1>2, <1>3
    <3>2. (Q - p) * q = Q * q - p * q
      BY <1>1, <3>1, SMT
    <3> QED BY <1>1, <3>1, <3>2
  <2>4. Q * (8 * E) = 8 * z /\ Q * (7 * E) = 7 * z
    BY <1>1, SMT
  <2>5. p * q = z + d
    BY <1>5
  <2> HIDE DEF z
  <2>6. n * q + h = 7 * z + s
    <3>1. n * q = 8 * z - (z + d)
      BY <2>3, <2>4, <2>5
    <3> QED BY <1>2, <1>4, <2>2, <3>1
  <2>7. s \in 0 .. Q - 1
    BY <1>1, <1>2, <1>4
  <2> HIDE DEF s
  <2>8. (Q * (7 * E) + s) \div Q = 7 * E
    <3>1. 7 * E \in Int
      BY <1>1
    <3> QED BY <1>1, <2>7, <3>1, QuotientUnique
  <2>9. 7 * E \in Nat /\ 7 * E < q
    BY <1>1
  <2> QED BY <1>6, <2>1, <2>4, <2>6, <2>8, <2>9
<1> QED BY <1>7, <1>8 DEF p, n, E

(* The rounding of decryption.                                             *)
LEMMA RoundedPhase ==
  ASSUME NEW ct, NEW u, PhaseWithFixedHsk(ct) = u
  PROVE  /\ u \in {Eighth, Eighth + 1} => DecFixedHsk(ct) = TRUE
         /\ u = 7 * Eighth => DecFixedHsk(ct) = FALSE
<1> DEFINE E == Eighth
           q == CiphertextModulus
           x == u + E
           rounded == ModQ(x)
<1>1. E \in Nat \ {0} /\ q = 8 * E /\ q \in Nat \ {0}
  BY Moduli
<1>2. DecFixedHsk(ct) = (((4 * rounded) \div q) % 2 = 1)
  BY DEF DecFixedHsk
<1>3. rounded = x % q
  BY DEF ModQ
<1> HIDE DEF E, q, rounded
<1>4. ASSUME u \in {E, E + 1}
      PROVE  DecFixedHsk(ct) = TRUE
  <2> DEFINE s == 4 * rounded - q
  <2>1. x \in 0 .. q - 1 /\ x \in {2 * E, 2 * E + 1}
    BY <1>1, <1>4
  <2>2. rounded \in {2 * E, 2 * E + 1}
    <3> HIDE DEF x
    <3> QED BY <1>1, <1>3, <2>1, ResidueMod
  <2>3. s \in 0 .. q - 1 /\ q * 1 + s = 4 * rounded
    BY <1>1, <2>2
  <2> HIDE DEF s
  <2>4. (q * 1 + s) \div q = 1
    <3>1. 1 \in Int
      OBVIOUS
    <3> QED BY <1>1, <2>3, <3>1, QuotientUnique
  <2>5. (4 * rounded) \div q = 1
    BY <2>3, <2>4
  <2>6. ((4 * rounded) \div q) % 2 = 1
    BY <2>5
  <2> QED BY <1>2, <2>6, Zenon
<1>5. ASSUME u = 7 * E
      PROVE  DecFixedHsk(ct) = FALSE
  <2>1. x = q /\ x \in - q .. 2 * q - 1 /\ ~ (x < 0) /\ ~ (x < q) /\ x - q = 0
    BY <1>1, <1>5
  <2>2. rounded = 0
    <3> HIDE DEF x
    <3> QED BY <1>1, <1>3, <2>1, WrappedOnce
  <2>3. (4 * rounded) \div q = 0
    <3>1. 0 \in 0 .. q - 1 /\ 0 \in Int /\ q * 0 + 0 = 4 * rounded
      BY <1>1, <2>2
    <3>2. (q * 0 + 0) \div q = 0
      BY <1>1, <3>1, QuotientUnique
    <3> QED BY <3>1, <3>2
  <2>4. ~ (((4 * rounded) \div q) % 2 = 1)
    BY <2>3
  <2> QED BY <1>2, <2>4, Zenon
<1> QED BY <1>4, <1>5 DEF E

(* What is decrypted when no key is needed.                                *)
LEMMA UnmaskedDecrypts == BootInv => UnmaskedGateDecrypts
<1> SUFFICES ASSUME BootInv, boot_stage = "done", ~ material_loaded,
                    \A i \in Lwe : prebootstrap.a[i] = 0,
                    request.noise[1] + request.noise[2] \in - Eighth .. Eighth - 1
             PROVE  DecFixedHsk(gate_output) =
                      GateOf(request.gate, request.messages[1],
                             request.messages[2])
  BY DEF UnmaskedGateDecrypts
<1> DEFINE gate == request.gate
           l == request.messages[1]
           r == request.messages[2]
           e1 == request.noise[1]
           e2 == request.noise[2]
           g == GateOf(gate, l, r)
           b == prebootstrap.b
           m == MessageFor(g)
           s == ScaleRingQToQ(m)
<1>1. program = "reference" /\ boot_stage # "start"
  BY DEF BootInv
<1>2. /\ gate \in GateKind /\ l \in BOOLEAN /\ r \in BOOLEAN
      /\ e1 \in Int /\ e2 \in Int
      /\ prebootstrap = GatePrebootstrap(gate, Given(1), Given(2))
      /\ Given(1) \in LweCiphertext /\ Given(2) \in LweCiphertext
      /\ Same(Excess(Given(1)), MessageOf(l) + e1)
      /\ Same(Excess(Given(2)), MessageOf(r) + e2)
      /\ b \in 0 .. CiphertextModulus - 1
  BY <1>1, PrebootstrapOfRequest
<1>3. /\ accumulator = InitGateAccumulator(gate, prebootstrap)
      /\ large_lwe = ExtractLweFromAccumulator(accumulator)
  BY <1>1 DEF BootInv
<1>4. e1 + e2 \in - Eighth .. Eighth - 1
  OBVIOUS
<1> HIDE DEF gate, l, r, e1, e2
<1>5. b = ModQ(GateSum(gate, l, r, e1 + e2))
  <2>1. Dot(prebootstrap.a) = 0
    BY DotOfZero
  <2> QED BY <1>2, <2>1, UnmaskedBody
<1>6. Level(gate, b) = m
  BY <1>2, <1>4, <1>5, LevelOfSum
<1>7. accumulator.b[0] = m
  <2>1. 0 \in 0 .. 4 * Eighth - 1 /\ Factor * 0 = 0
    BY Moduli
  <2>2. InitGateAccumulator(gate, prebootstrap).b[Factor * 0] =
          Level(gate, ModQ(prebootstrap.b - 0))
    BY <2>1, CoefficientOfPhase
  <2>3. ModQ(b - 0) = b
    <3>1. CiphertextModulus \in Nat \ {0}
      BY ParameterAssumption
    <3>2. b - 0 = b
      BY <1>2, <3>1
    <3>3. b % CiphertextModulus = b
      <4> HIDE DEF b
      <4> QED BY <1>2, <3>1, ResidueMod
    <3> QED BY <3>2, <3>3 DEF ModQ
  <2> QED BY <1>3, <1>6, <2>1, <2>2, <2>3
<1>8. large_lwe.b = m
  BY <1>3, <1>7 DEF ExtractLweFromAccumulator
<1>9. SwitchingKeepsPhase
  BY SwitchingKeepsIt
<1> DEFINE terms == [i \in Ring |-> ScaleRingQToQ(large_lwe.a[i])
                       * (IF material_loaded THEN RingSecret[i] ELSE 0)]
<1>10. PhaseWithFixedHsk(gate_output) = ModQ(s - SumTo(RingDimension, terms))
  BY <1>8, <1>9 DEF SwitchingKeepsPhase
<1>11. SumTo(RingDimension, terms) = 0
  <2> DEFINE n == RingDimension
  <2>1. \A i \in 0 .. n - 1 : terms[i] = 0
    <3> TAKE i \in 0 .. n - 1
    <3>1. i \in Ring
      BY RingIsInterval
    <3> DEFINE v == ScaleRingQToQ(large_lwe.a[i])
    <3>2. v \in Int
      <4>1. large_lwe \in LargeLwe
        BY <1>1 DEF BootInv
      <4>2. large_lwe.a[i] \in Int
        BY <3>1, <4>1 DEF LargeLwe
      <4> QED BY <4>2, ScaledResidue, ParameterAssumption
    <3>3. terms[i] = v * 0
      BY <3>1
    <3> HIDE DEF v, terms
    <3> QED BY <3>2, <3>3
  <2>2. n \in Nat
    BY RingIsInterval
  <2> HIDE DEF terms, n
  <2>3. \A i \in 0 .. n - 1 : terms[i] \in Int /\ terms[i] = 0 * terms[i]
    BY <2>1
  <2>4. SumTo(n, terms) = 0 * SumTo(n, terms)
    BY <2>2, <2>3, SumTimes
  <2>5. SumTo(n, terms) \in Int
    BY <2>2, <2>3, SumIsInteger
  <2>6. SumTo(n, terms) = 0
    BY <2>4, <2>5
  <2> QED BY <2>6 DEF n
<1> HIDE DEF terms
<1>12. s = IF g THEN ScaleRingQToQ(AccumulatorPositiveMessage)
           ELSE ScaleRingQToQ(AccumulatorNegativeMessage)
  BY DEF MessageFor
<1>13. g \in BOOLEAN
  BY <1>2 DEF GateOf, GateKind
<1> HIDE DEF s, g
<1>14. (g => s \in {Eighth, Eighth + 1}) /\ (~ g => s = 7 * Eighth)
  BY <1>12, ScaledMessages
<1>15. PhaseWithFixedHsk(gate_output) = s
  <2>1. s \in 0 .. CiphertextModulus - 1 /\ CiphertextModulus \in Nat \ {0}
    BY <1>13, <1>14, Moduli
  <2>2. s - 0 = s
    BY <2>1
  <2>3. s % CiphertextModulus = s
    BY <2>1, ResidueMod
  <2> QED BY <1>10, <1>11, <2>2, <2>3 DEF ModQ
<1>16. g => DecFixedHsk(gate_output) = TRUE
  BY <1>14, <1>15, RoundedPhase
<1>17. ~ g => DecFixedHsk(gate_output) = FALSE
  BY <1>14, <1>15, RoundedPhase
<1>18. DecFixedHsk(gate_output) = g
  BY <1>13, <1>16, <1>17
<1> QED BY <1>18 DEF g, gate, l, r

(* One gate without a mask decrypts to the gate of its messages, for every *)
(* noise below an eighth: initialisation, extraction, scaling and rounding *)
(* together (EvalBinGate with no key material).                            *)
THEOREM UnmaskedGateIsRight == Spec => []UnmaskedGateDecrypts
<1>1. Init => BootInv
  BY BootAtFirst
<1>2. BootInv /\ [Next]_vars => BootInv'
  BY BootKept
<1>3. BootInv => UnmaskedGateDecrypts
  BY UnmaskedDecrypts
<1> QED BY <1>1, <1>2, <1>3, PTL DEF Spec
=============================================================================
