---------------------- MODULE LWERuntimePipelineProofs ----------------------
(***************************************************************************)
(* Proofs about the pipeline for all moduli, keys, ciphertexts and bounds. *)
(* IInv is inductive: one lemma per part of it, one step per action.       *)
(* Then, about the showcase script: its steps keep the pipeline's          *)
(* invariant and two of its own, from which its promises follow.           *)
(***************************************************************************)
EXTENDS ShowcaseDriver, LWERuntimePipelineInv, BitArithmetic, SequenceTheorems

(* LWE integer addition for all moduli and all dimensions.                 *)

(* The ciphertext modulus is a positive number.                            *)
LEMMA ModulusType == CiphertextModulus \in Nat \ {0}
BY ModulusAssumption

(* AddMod never leaves the residues.                                       *)
LEMMA AddModType ==
  ASSUME NEW u \in Int, NEW v \in Int
  PROVE  AddMod(u, v) \in Residues
<1>1. u + v \in Int
  OBVIOUS
<1> QED BY <1>1, DivMod, ModulusType DEF AddMod, Residues

(* What the mask of a ciphertext looks like.                               *)
LEMMA CiphertextMask ==
  ASSUME NEW c \in Ciphertext
  PROVE  /\ Len(c.a) \in Nat
         /\ c.a \in [1 .. Len(c.a) -> Residues]
         /\ \A i \in 1 .. Len(c.a) : c.a[i] \in Int
         /\ c.body \in Residues
         /\ c.body \in Int
<1>1. c.a \in Seq(Residues) /\ c.body \in Residues
  BY DEF Ciphertext
<1>2. Len(c.a) \in Nat /\ c.a \in [1 .. Len(c.a) -> Residues]
  BY <1>1, LenProperties
<1>3. Residues \subseteq Int
  BY ModulusType DEF Residues
<1> QED BY <1>1, <1>2, <1>3

(* Adding ciphertexts of one dimension gives a ciphertext of it.           *)
LEMMA AddCiphertextsType ==
  ASSUME NEW c \in Ciphertext, NEW one \in Ciphertext,
         Len(c.a) = Len(one.a)
  PROVE  /\ AddCiphertextsModQ(c, one) \in Ciphertext
         /\ Len(AddCiphertextsModQ(c, one).a) = Len(c.a)
<1> DEFINE n == Len(c.a)
           a == [i \in 1 .. n |-> AddMod(c.a[i], one.a[i])]
<1>1. n \in Nat /\ \A i \in 1 .. n : c.a[i] \in Int /\ one.a[i] \in Int
  BY CiphertextMask
<1>2. a \in [1 .. n -> Residues]
  BY <1>1, AddModType
<1>3. a \in Seq(Residues) /\ Len(a) = n
  BY <1>1, <1>2, SeqDef, LenProperties
<1>4. AddMod(c.body, one.body) \in Residues
  BY CiphertextMask, AddModType
<1> QED BY <1>3, <1>4 DEF AddCiphertextsModQ, Ciphertext

(* A ciphertext plus no one' is the ciphertext.                            *)
LEMMA AddTimesZero ==
  ASSUME NEW c \in Ciphertext, NEW one \in Ciphertext,
         Len(c.a) = Len(one.a)
  PROVE  AddTimes(c, one, 0) = c
<1>1. \A u \in Residues, v \in Int : (u + 0 * v) % CiphertextModulus = u
  <2> TAKE u \in Residues, v \in Int
  <2>1. u + 0 * v = u
    BY ModulusType DEF Residues
  <2> QED BY <2>1, ModulusType, ResidueMod DEF Residues
<1>2. \A i \in 1 .. Len(c.a) : c.a[i] \in Residues /\ one.a[i] \in Int
  BY CiphertextMask
<1>3. c.body \in Residues /\ one.body \in Int
  BY CiphertextMask
<1>4. (c.body + 0 * one.body) % CiphertextModulus = c.body
  BY <1>1, <1>3
<1>5. [i \in 1 .. Len(c.a) |->
         (c.a[i] + 0 * one.a[i]) % CiphertextModulus] = c.a
  <2>1. \A i \in 1 .. Len(c.a) :
          (c.a[i] + 0 * one.a[i]) % CiphertextModulus = c.a[i]
    BY <1>1, <1>2
  <2> QED BY <2>1, CiphertextMask
<1>6. c = [a |-> c.a, body |-> c.body]
  BY DEF Ciphertext
<1> QED BY <1>4, <1>5, <1>6 DEF AddTimes

(* The loop's invariant: adding one' to the k-fold sum gives the (k+1)-fold *)
(* sum, so the setup chain and the runtime loop walk the same ciphertexts. *)
LEMMA AddTimesStep ==
  ASSUME NEW c \in Ciphertext, NEW one \in Ciphertext,
         Len(c.a) = Len(one.a), NEW k \in Nat
  PROVE  AddCiphertextsModQ(AddTimes(c, one, k), one)
           = AddTimes(c, one, k + 1)
<1> DEFINE q == CiphertextModulus
           n == Len(c.a)
           a == [i \in 1 .. n |-> (c.a[i] + k * one.a[i]) % q]
<1>1. \A u \in Int, v \in Int :
        AddMod((u + k * v) % q, v) = (u + (k + 1) * v) % q
  <2> TAKE u \in Int, v \in Int
  <2>1. u + k * v \in Int
    BY SMT
  <2>2. AddMod((u + k * v) % q, v) = ((u + k * v) + v) % q
    BY <2>1, ModAdd, ModulusType DEF AddMod
  <2>3. (u + k * v) + v = u + (k + 1) * v
    BY SMT
  <2> QED BY <2>2, <2>3
<1>2. n \in Nat /\ \A i \in 1 .. n : c.a[i] \in Int /\ one.a[i] \in Int
  BY CiphertextMask
<1>3. a \in Seq(Int) /\ Len(a) = n
  <2>1. \A i \in 1 .. n : c.a[i] + k * one.a[i] \in Int
    BY <1>2, SMT
  <2>2. \A i \in 1 .. n : (c.a[i] + k * one.a[i]) % q \in Int
    <3>1. \A u \in Int : u % q \in Int
      BY ModulusType, DivMod
    <3> HIDE DEF q
    <3> QED BY <2>1, <3>1
  <2>3. a \in [1 .. n -> Int]
    BY <2>2
  <2> QED BY <1>2, <2>3, SeqDef, LenProperties
<1>4. [i \in 1 .. Len(a) |-> AddMod(a[i], one.a[i])]
        = [i \in 1 .. n |-> (c.a[i] + (k + 1) * one.a[i]) % q]
  <2>1. \A i \in 1 .. n :
          AddMod(a[i], one.a[i]) = (c.a[i] + (k + 1) * one.a[i]) % q
    BY <1>1, <1>2
  <2> QED BY <1>3, <2>1
<1>5. AddMod((c.body + k * one.body) % q, one.body)
        = (c.body + (k + 1) * one.body) % q
  BY <1>1, CiphertextMask
<1> QED BY <1>4, <1>5 DEF AddTimes, AddCiphertextsModQ

-----------------------------------------------------------------------------
(* Decoding and the words of the machine.                                  *)

(* The pad of a ciphertext is a number: the recursion ends at the key's    *)
(* last coefficient, and every sum on the way is reduced.                  *)
LEMMA PadType ==
  ASSUME NEW c \in Ciphertext, NEW hsk \in Seq(Residues),
         Len(c.a) = Len(hsk)
  PROVE  Pad(c, hsk) \in Int
<1> DEFINE n == Len(hsk)
           term == [k \in 1 .. n |-> MulMod(c.a[k], hsk[k])]
           step == [k \in Nat |-> [v \in Int |->
                      IF k < n THEN AddMod(v, term[k + 1]) ELSE v]]
           sum[i \in 0 .. Len(hsk)] ==
             IF i = 0 THEN 0 ELSE AddMod(sum[i - 1], MulMod(c.a[i], hsk[i]))
<1>1. n \in Nat /\ \A k \in 1 .. n : c.a[k] \in Int /\ hsk[k] \in Int
  <2>1. Residues \subseteq Int
    BY ModulusType DEF Residues
  <2>2. \A k \in 1 .. n : hsk[k] \in Residues
    OBVIOUS
  <2> QED BY <2>1, <2>2, CiphertextMask
<1>2. \A u \in Int, v \in Int : AddMod(u, v) \in Int /\ MulMod(u, v) \in Int
  <2> TAKE u \in Int, v \in Int
  <2>1. u + v \in Int /\ u * v \in Int
    BY SMT
  <2> QED BY <2>1, DivMod, ModulusType DEF AddMod, MulMod
<1>3. \A k \in 1 .. n : term[k] \in Int
  BY <1>1, <1>2
<1>4. sum = [i \in 0 .. n |-> IF i = 0 THEN 0
               ELSE AddMod(sum[i - 1], MulMod(c.a[i], hsk[i]))]
  <2>1. Recursion(Int, 0, step)
    <3>1. 0 \in Int
      OBVIOUS
    <3>2. step \in [Nat -> [Int -> Int]]
      <4>1. ASSUME NEW k \in Nat, NEW v \in Int
            PROVE  (IF k < n THEN AddMod(v, term[k + 1]) ELSE v) \in Int
        <5>1. k < n => k + 1 \in 1 .. n
          BY <1>1
        <5> HIDE DEF term, n
        <5> QED BY <1>2, <1>3, <5>1
      <4> HIDE DEF term, n
      <4> QED BY <4>1
    <3> HIDE DEF step
    <3> QED BY <3>1, <3>2, Zenon DEF Recursion
  <2>2. PICK f \in [0 .. n -> Int] : Follows(f, 0, step, n)
    <3> HIDE DEF step, n
    <3> QED BY <1>1, <2>1, RecursionPartial
  <2>3. ASSUME NEW i \in 0 .. n
        PROVE  f[i] = IF i = 0 THEN 0
                      ELSE AddMod(f[i - 1], MulMod(c.a[i], hsk[i]))
    <3>1. CASE i = 0
      BY <2>2, <3>1 DEF Follows
    <3>2. CASE i # 0
      <4> DEFINE j == i - 1
      <4>1. j \in 0 .. n - 1 /\ j + 1 = i /\ i \in 1 .. n /\ j \in 0 .. n
            /\ j \in Nat /\ j < n
        BY <1>1, <3>2
      <4>2. f[j] \in Int
        BY <4>1
      <4> HIDE DEF j, n
      <4>3. f[j + 1] = step[j][f[j]]
        BY <2>2, <4>1 DEF Follows
      <4>4. step[j][f[j]] = AddMod(f[j], term[j + 1])
        BY <4>1, <4>2
      <4>5. term[i] = MulMod(c.a[i], hsk[i])
        BY <4>1
      <4> HIDE DEF step, term
      <4>6. f[i] = AddMod(f[j], MulMod(c.a[i], hsk[i]))
        BY <4>1, <4>3, <4>4, <4>5
      <4> QED BY <3>2, <4>6 DEF j
    <3> QED BY <3>1, <3>2
  <2>4. f = [i \in 0 .. n |-> IF i = 0 THEN 0
               ELSE AddMod(f[i - 1], MulMod(c.a[i], hsk[i]))]
    BY <2>3
  <2>5. \E g : g = [i \in 0 .. n |-> IF i = 0 THEN 0
               ELSE AddMod(g[i - 1], MulMod(c.a[i], hsk[i]))]
    BY <2>4
  <2> QED BY <2>5
<1>5. Pad(c, hsk) = sum[n]
  BY DEF Pad
<1> HIDE DEF sum, n, term, step
<1> DEFINE T == {k \in Nat : k <= n => sum[k] \in Int}
<1>6. 0 \in T
  BY <1>1, <1>4
<1>7. ASSUME NEW k \in Nat, k \in T
      PROVE  k + 1 \in T
  <2> SUFFICES ASSUME k + 1 <= n PROVE sum[k + 1] \in Int
    OBVIOUS
  <2> DEFINE j == k + 1
  <2>1. j \in 1 .. n /\ j \in 0 .. n /\ j # 0 /\ j - 1 = k /\ sum[k] \in Int
    BY <1>1, <1>7
  <2> HIDE DEF j, T
  <2>2. sum[j] = AddMod(sum[k], MulMod(c.a[j], hsk[j]))
    BY <1>4, <2>1
  <2>3. MulMod(c.a[j], hsk[j]) \in Int
    BY <1>1, <1>2, <2>1
  <2> QED BY <1>2, <2>1, <2>2, <2>3 DEF j
<1> HIDE DEF T
<1>8. Nat \subseteq T
  BY <1>6, <1>7, SetInduction
<1> QED BY <1>1, <1>5, <1>8 DEF T

(* Whatever is decoded is a plaintext.                                     *)
LEMMA DecodeType ==
  ASSUME NEW c \in Ciphertext, NEW hsk \in Seq(Residues),
         Len(c.a) = Len(hsk)
  PROVE  Decode(c, hsk) \in Plaintexts
<1> DEFINE q == CiphertextModulus
           p == PlaintextModulus
           half == q \div (2 * p)
           R == Rounded(c, hsk)
<1>1. q \in Nat \ {0} /\ p \in Nat \ {0}
  BY ModulusAssumption
<1>2. Phase(c, hsk) \in Int
  <2>1. Pad(c, hsk) \in Int /\ c.body \in Int
    BY PadType, CiphertextMask
  <2>2. \A u \in Int, v \in Int : (u + q - v) % q \in Int
    <3> TAKE u \in Int, v \in Int
    <3>1. u + q - v \in Int
      BY <1>1
    <3> HIDE DEF q
    <3> QED BY <1>1, <3>1, DivMod
  <2> QED BY <2>1, <2>2 DEF Phase
<1>3. half \in Int
  <2>1. 2 * p \in Nat \ {0}
    BY <1>1
  <2> HIDE DEF p, q
  <2> QED BY <1>1, <2>1, DivMod
<1>4. R \in 0 .. (q - 1)
  <2>1. Phase(c, hsk) + half \in Int
    BY <1>2, <1>3
  <2> QED BY <1>1, <2>1, DivMod DEF Rounded
<1> DEFINE d == (p * R) \div q
           t == (p * R) % q
<1>5. d \in Int /\ t \in 0 .. (q - 1) /\ p * R = q * d + t
  <2>1. p * R \in Int
    BY <1>1, <1>4
  <2> HIDE DEF p, q, R
  <2> QED BY <1>1, <2>1, DivMod
<1>6. Decode(c, hsk) = d
  BY DEF Decode
<1> HIDE DEF d, t, p, q, R
<1>7. p * R >= 0 /\ p * R < p * q
  BY <1>1, <1>4, SMTT(30)
<1>8. d >= 0
  <2> SUFFICES ASSUME d <= -1 PROVE FALSE
    BY <1>5
  <2>1. q * d <= -q
    BY <1>1, <1>5, SMTT(30)
  <2> QED BY <1>1, <1>4, <1>5, <1>7, <2>1, SMTT(30)
<1>9. d < p
  <2> SUFFICES ASSUME d >= p PROVE FALSE
    BY <1>1, <1>5
  <2>1. q * d >= q * p
    BY <1>1, <1>5, SMTT(30)
  <2>2. q * p = p * q
    BY <1>1, SMTT(30)
  <2> QED BY <1>1, <1>4, <1>5, <1>7, <2>1, <2>2, SMTT(30)
<1> QED BY <1>1, <1>5, <1>6, <1>8, <1>9 DEF Plaintexts, p

(* There is a word 0.                                                      *)
LEMMA ZeroIsWord == 0 \in Words
BY WordAssumption, ModulusAssumption DEF Words

(* Sums of words that are words do not wrap around.                        *)
LEMMA NoWrap ==
  ASSUME NEW u \in Nat, NEW v \in Nat
  PROVE  /\ AddU64(u, v) \in Words
         /\ u + v < WordModulus => AddU64(u, v) = u + v
<1>1. u + v \in Nat /\ u + v \in Int /\ WordModulus \in Nat \ {0}
  BY WordAssumption, ModulusAssumption
<1>2. (u + v) % WordModulus \in 0 .. (WordModulus - 1)
  BY <1>1, DivMod
<1>3. u + v < WordModulus => (u + v) % WordModulus = u + v
  BY <1>1, ResidueMod
<1> QED BY <1>2, <1>3 DEF AddU64, Words

-----------------------------------------------------------------------------
(* A file that is neither missing nor torn has its content.                *)
LEMMA IntactFiles ==
  ASSUME TypeOK
  PROVE  /\ Intact(full) <=> full \in Material
         /\ Intact(origin) <=> origin \in Material
         /\ Intact(dir.shape) <=> dir.shape \in [dimension : Nat]
         /\ Intact(dir.artifact) <=>
              dir.artifact \in [backend : Builds, hsk : Seq(Residues)]
         /\ Intact(dir.runtime) <=> dir.runtime \in RuntimeMaterial
<1> USE FileAssumption DEF Intact
<1>1. dir.shape \in [dimension : Nat] \cup {Nothing, Torn}
  BY DEF TypeOK, Directory
<1>2. dir.artifact \in [backend : Builds, hsk : Seq(Residues)]
                         \cup {Nothing, Torn}
  BY DEF TypeOK, Directory
<1>3. dir.runtime \in RuntimeMaterial \cup {Nothing, Torn}
  BY DEF TypeOK, Directory
<1>4. full \in Material \cup {Nothing, Torn} /\ origin \in Material \cup {Nothing}
  BY DEF TypeOK
<1> HIDE DEF Intact
<1>5. \A mark : Intact(mark) <=> mark \notin {Nothing, Torn}
  BY DEF Intact
<1> QED BY <1>1, <1>2, <1>3, <1>4, <1>5

(* The k-fold sum is a ciphertext of the same dimension.                   *)
LEMMA AddTimesType ==
  ASSUME NEW c \in Ciphertext, NEW one \in Ciphertext,
         Len(c.a) = Len(one.a), NEW k \in Nat
  PROVE  /\ AddTimes(c, one, k) \in Ciphertext
         /\ Len(AddTimes(c, one, k).a) = Len(c.a)
<1> DEFINE q == CiphertextModulus
           n == Len(c.a)
           a == [i \in 1 .. n |-> (c.a[i] + k * one.a[i]) % q]
<1>1. \A u \in Int, v \in Int : (u + k * v) % q \in Residues
  <2> TAKE u \in Int, v \in Int
  <2>1. u + k * v \in Int
    BY SMT
  <2> QED BY <2>1, DivMod, ModulusType DEF Residues
<1>2. n \in Nat /\ \A i \in 1 .. n : c.a[i] \in Int /\ one.a[i] \in Int
  BY CiphertextMask
<1>3. a \in [1 .. n -> Residues]
  BY <1>1, <1>2
<1>4. a \in Seq(Residues) /\ Len(a) = n
  <2> HIDE DEF a, n
  <2> QED BY <1>2, <1>3, SeqDef, LenProperties
<1>5. (c.body + k * one.body) % q \in Residues
  BY <1>1, CiphertextMask
<1> QED BY <1>4, <1>5 DEF AddTimes, Ciphertext

(* An artifact of the operands' dimension reads exactly the two operands   *)
(* from the wires.                                                         *)
LEMMA WiredOperands ==
  ASSUME NEW lhs \in Ciphertext, NEW rhs \in Ciphertext,
         Dimension(lhs) = Dimension(rhs)
  PROVE  /\ WiredCiphertext(lhs, rhs, 0, Dimension(lhs)) = lhs
         /\ WiredCiphertext(lhs, rhs, Dimension(lhs) + 1, Dimension(lhs)) = rhs
<1> DEFINE n == Len(lhs.a)
<1>1. n \in Nat /\ lhs.a = [i \in 1 .. n |-> lhs.a[i]]
      /\ rhs.a = [i \in 1 .. n |-> rhs.a[i]]
  BY CiphertextMask DEF Dimension
<1>2. lhs = [a |-> lhs.a, body |-> lhs.body]
      /\ rhs = [a |-> rhs.a, body |-> rhs.body]
  BY DEF Ciphertext
<1> HIDE DEF n
<1>3. \A i \in 1 .. n : InputWord(lhs, rhs, 0 + i) = lhs.a[i]
  BY <1>1 DEF InputWord, Dimension, n
<1>4. InputWord(lhs, rhs, 0 + n + 1) = lhs.body
  BY <1>1 DEF InputWord, Dimension, n
<1>5. \A i \in 1 .. n : InputWord(lhs, rhs, (n + 1) + i) = rhs.a[i]
  <2> TAKE i \in 1 .. n
  <2>1. /\ ~((n + 1) + i <= n) /\ (n + 1) + i # n + 1
        /\ (n + 1) + i <= 2 * n + 1 /\ ((n + 1) + i) - n - 1 = i
    BY <1>1
  <2> QED BY <2>1 DEF InputWord, Dimension, n
<1>6. InputWord(lhs, rhs, (n + 1) + n + 1) = rhs.body
  <2>1. /\ ~((n + 1) + n + 1 <= n) /\ (n + 1) + n + 1 # n + 1
        /\ ~((n + 1) + n + 1 <= 2 * n + 1)
    BY <1>1
  <2> QED BY <2>1 DEF InputWord, Dimension, n
<1>7. [i \in 1 .. n |-> InputWord(lhs, rhs, 0 + i)] = lhs.a
  BY <1>1, <1>3
<1>8. [i \in 1 .. n |-> InputWord(lhs, rhs, (n + 1) + i)] = rhs.a
  BY <1>1, <1>5
<1>9. Dimension(lhs) = n
  BY DEF n, Dimension
<1> QED BY <1>2, <1>4, <1>6, <1>7, <1>8, <1>9 DEF WiredCiphertext
-----------------------------------------------------------------------------
(* The pipeline starts in the invariant.                                   *)
LEMMA InitInv == Init => IInv
<1> SUFFICES ASSUME Init PROVE IInv
  OBVIOUS
<1> USE DEF Init
<1>1. Nothing \notin Material /\ Nothing \notin RuntimeMaterial
      /\ Nothing \notin [backend : Builds, hsk : Seq(Residues)]
  BY FileAssumption
<1>2. dir \in Directory
  BY DEF EmptyDir, Directory
<1>3. TypeOK
  BY <1>2 DEF TypeOK, Ended
<1>4. SetupInv
  BY DEF SetupInv, SetupBusy, Writing
<1>5. DirInv /\ RunInv /\ FreshInv /\ WrittenInv
  BY <1>1 DEF DirInv, RunInv, FreshInv, WrittenInv, RuntimeLoaded, EmptyDir
<1> QED BY <1>3, <1>4, <1>5 DEF IInv

(* What the exporter writes is a full material that decrypts.              *)
LEMMA ExportedMaterial ==
  ASSUME Export
  PROVE  full' \in Material /\ Decrypts(full')
<1>1. PICK hsk \in Keys, a \in Plaintexts, b \in Plaintexts,
           one \in Plaintexts :
        \E a_prime \in EncryptVerify[hsk][a],
           b_prime \in EncryptVerify[hsk][b],
           one_prime \in EncryptVerify[hsk][one] :
          full' = [hsk |-> hsk, a_prime |-> a_prime, b_prime |-> b_prime,
                   one_prime |-> one_prime, a_plaintext |-> a,
                   b_plaintext |-> b, one_plaintext |-> one]
  BY DEF Export, ExportOf
<1>2. PICK a_prime \in EncryptVerify[hsk][a],
           b_prime \in EncryptVerify[hsk][b],
           one_prime \in EncryptVerify[hsk][one] :
          full' = [hsk |-> hsk, a_prime |-> a_prime, b_prime |-> b_prime,
                   one_prime |-> one_prime, a_plaintext |-> a,
                   b_plaintext |-> b, one_plaintext |-> one]
  BY <1>1
<1>3. \A m \in Plaintexts : EncryptVerify[hsk][m] =
        {c \in Ciphertexts :
           Dimension(c) = Len(hsk) /\ Decode(c, hsk) = m}
  BY DEF EncryptVerify
<1>4. hsk \in Seq(Residues) /\ Ciphertexts \subseteq Ciphertext
  BY InputAssumption
<1>5. /\ a_prime \in Ciphertext /\ b_prime \in Ciphertext
      /\ one_prime \in Ciphertext
  BY <1>3, <1>4
<1>6. Decode(a_prime, hsk) = a /\ Decode(b_prime, hsk) = b
  BY <1>3
<1>9. Plaintexts \subseteq Words
  BY ModulusAssumption, WordAssumption DEF Plaintexts, Words
<1>7. full' \in Material
  BY <1>2, <1>4, <1>5, <1>9 DEF Material
<1>8. Decrypts(full')
  BY <1>2, <1>6 DEF Decrypts
<1> QED BY <1>7, <1>8

(* What an action leaves of the directory's type.                          *)
LEMMA DirectoryType ==
  ASSUME dir \in Directory,
         \/ UNCHANGED dir
         \/ dir' = EmptyDir
         \/ \E file \in [dimension : Nat] \cup {Torn} :
              dir' = [dir EXCEPT !.shape = file]
         \/ \E file \in [backend : Builds, hsk : Seq(Residues)] \cup {Torn} :
              dir' = [dir EXCEPT !.artifact = file]
         \/ \E file \in RuntimeMaterial \cup {Torn} :
              dir' = [dir EXCEPT !.runtime = file]
  PROVE  dir' \in Directory
<1>1. CASE UNCHANGED dir \/ dir' = EmptyDir
  BY <1>1 DEF Directory, EmptyDir
<1>2. ASSUME NEW file \in [dimension : Nat] \cup {Torn},
             dir' = [dir EXCEPT !.shape = file]
      PROVE  dir' \in Directory
  BY <1>2 DEF Directory
<1>3. ASSUME NEW file \in [backend : Builds, hsk : Seq(Residues)] \cup {Torn},
             dir' = [dir EXCEPT !.artifact = file]
      PROVE  dir' \in Directory
  BY <1>3 DEF Directory
<1>4. ASSUME NEW file \in RuntimeMaterial \cup {Torn},
             dir' = [dir EXCEPT !.runtime = file]
      PROVE  dir' \in Directory
  BY <1>4 DEF Directory
<1> QED BY <1>1, <1>2, <1>3, <1>4

(* Type correctness is preserved, given the rest of the invariant.         *)
LEMMA TypeInductive == IInv /\ [Next]_vars => TypeOK'
<1> SUFFICES ASSUME IInv, [Next]_vars PROVE TypeOK'
  OBVIOUS
<1> DEFINE Pcs == Ended \cup SetupBusy \cup {"rt_loop"}
<1>0. TypeOK /\ SetupInv /\ DirInv /\ RunInv
  BY DEF IInv
<1>a. /\ full \in Material \cup {Nothing, Torn} /\ dir \in Directory
      /\ origin \in Material \cup {Nothing} /\ pc \in Pcs
      /\ setup \in SetupLocals \cup {Nothing}
      /\ rt \in RuntimeLocals \cup {Nothing} /\ exports \in Nat
  BY <1>0 DEF TypeOK, SetupLocals, RuntimeLocals
<1>b. SUFFICES
        /\ full' \in Material \cup {Nothing, Torn} /\ dir' \in Directory
        /\ origin' \in Material \cup {Nothing} /\ pc' \in Pcs
        /\ setup' \in SetupLocals \cup {Nothing}
        /\ rt' \in RuntimeLocals \cup {Nothing} /\ exports' \in Nat
  BY DEF TypeOK, SetupLocals, RuntimeLocals
<1>c. pc \in SetupBusy => setup \in SetupLocals /\ setup.material \in Material
  BY <1>0 DEF SetupInv, SetupLocals
<1>d. /\ "validate" \in SetupBusy /\ "write_shape" \in SetupBusy
      /\ "write_artifact" \in SetupBusy /\ "write_runtime" \in SetupBusy
      /\ "write_manifest" \in SetupBusy
  BY DEF SetupBusy, Writing
<1>e. /\ {"idle", "exported", "setup_done", "setup_failed",
          "setup_noise_unsafe", "rt_done", "rt_refused", "rt_guard",
          "rt_error", "rt_loop"} \subseteq Pcs
      /\ SetupBusy \subseteq Pcs
  BY DEF Ended
<1> HIDE DEF Pcs
<1>f. PrepareDirectory => dir' \in Directory /\ origin' \in Material \cup {Nothing}
  BY <1>a, DirectoryType DEF PrepareDirectory
<1>1. CASE Export
  BY <1>1, <1>a, <1>e, <1>f, ExportedMaterial DEF Export, ExportOf
<1>2. CASE ExportFails
  BY <1>2, <1>a, <1>e, <1>f DEF ExportFails
<1>3. CASE SupplyMaterial
  BY <1>3, <1>a, <1>e, InputAssumption DEF SupplyMaterial
<1>4. CASE StartSetup
  <2>1. full \in Material
    BY <1>0, <1>4, IntactFiles DEF StartSetup
  <2>2. setup' \in SetupLocals
    BY <1>4, <2>1, ZeroIsWord DEF StartSetup, SetupLocals, Material
  <2> QED BY <1>4, <2>2, <1>a, <1>d, <1>e DEF StartSetup
<1>5. CASE RefuseSetup
  BY <1>5, <1>a, <1>e DEF RefuseSetup
<1>6. CASE ValidateStep
  <2>1. setup' \in SetupLocals
    <3> DEFINE m == setup.material
               s == IF AddsOne(setup)
                    THEN AddCiphertextsModQ(setup.state, m.one_prime)
                    ELSE setup.state
    <3>1. setup \in SetupLocals /\ m \in Material
      BY <1>6, <1>c, <1>d DEF ValidateStep
    <3>2. /\ setup.state \in Ciphertext /\ m.one_prime \in Ciphertext
          /\ AddsOne(setup) => Len(setup.state.a) = Len(m.one_prime.a)
      BY <1>6, <3>1
         DEF ValidateStep, CanAddOne, SetupLocals, Material, Dimension
    <3>3. s \in Ciphertext
      BY <3>2, AddCiphertextsType
    <3>4. setup' = [setup EXCEPT !.state = s, !.step = AddU64(@, 1)]
      BY <1>6, <3>1 DEF ValidateStep, SetupLocals
    <3>5. AddU64(setup.step, 1) \in Words
      <4>1. setup.step \in Nat
        BY <3>1, WordAssumption DEF SetupLocals, Words
      <4> QED BY <4>1, NoWrap
    <3> HIDE DEF s
    <3>6. setup' = [material |-> m, state |-> s, step |-> AddU64(setup.step, 1)]
      BY <3>1, <3>4 DEF SetupLocals
    <3> QED BY <3>1, <3>3, <3>5, <3>6 DEF SetupLocals
  <2> QED BY <1>6, <2>1, <1>a DEF ValidateStep
<1>7. CASE ValidateLast
  BY <1>7, <1>a, <1>d, <1>e DEF ValidateLast
<1>8. CASE ValidateRejects
  BY <1>8, <1>a, <1>e DEF ValidateRejects
<1>9. CASE WriteShape
  <2>1. Len(setup.material.hsk) \in Nat
    BY <1>9, <1>c, <1>d, LenProperties DEF WriteShape, Material
  <2>2. dir' \in Directory
    BY <1>9, <1>a, <2>1, DirectoryType DEF WriteShape
  <2> QED BY <1>9, <2>2, <1>a, <1>d, <1>e DEF WriteShape
<1>10. CASE WriteArtifact
  <2>1. setup.material.hsk \in Seq(Residues)
    BY <1>10, <1>c, <1>d DEF WriteArtifact, Material
  <2>2. dir' \in Directory
    BY <1>10, <1>a, <2>1, DirectoryType DEF WriteArtifact
  <2> QED BY <1>10, <2>2, <1>a, <1>d, <1>e DEF WriteArtifact
<1>11. CASE WriteRuntimeMaterial
  <2>1. setup.material \in Material
    BY <1>11, <1>c, <1>d DEF WriteRuntimeMaterial
  <2>2. ToRuntimeMaterial(setup.material) \in RuntimeMaterial
    BY <2>1 DEF ToRuntimeMaterial, Material, RuntimeMaterial
  <2>3. dir' \in Directory
    BY <1>11, <1>a, <2>2, DirectoryType DEF WriteRuntimeMaterial
  <2> QED BY <1>11, <2>1, <2>3, <1>a, <1>d, <1>e DEF WriteRuntimeMaterial
<1>12. CASE RuntimeMaterialThrows \/ DescribeThrows
  BY <1>12, <1>a, <1>e DEF RuntimeMaterialThrows, DescribeThrows
<1>13. CASE WriteManifest
  BY <1>13, <1>a, <1>e DEF WriteManifest
<1>14. CASE SetupKilled
  <2>1. dir' \in Directory
    BY <1>14, <1>a, DirectoryType DEF SetupKilled, WriteCutShort
  <2> QED BY <1>14, <2>1, <1>a, <1>e DEF SetupKilled, WriteCutShort
<1>23. CASE WriteCutUnnoticed
  <2>1. dir' \in Directory
    BY <1>23, <1>a, DirectoryType DEF WriteCutUnnoticed, WriteCutShort
  <2>2. pc' \in Pcs
    BY <1>23, <1>d, <1>e DEF WriteCutUnnoticed, WriteCutShort, NextFile
  <2> QED BY <1>23, <2>1, <2>2, <1>a DEF WriteCutUnnoticed, WriteCutShort
<1>15. CASE StartRuntime
  <2>1. PICK backend \in Builds :
          /\ Loadable(backend)
          /\ rt' = [backend |-> backend, state |-> dir.runtime.a_prime,
                    iterations |-> 0, predicate_sequence |-> <<>>]
    BY <1>15 DEF StartRuntime
  <2>2. dir.runtime \in RuntimeMaterial
    BY <2>1, <1>0, IntactFiles DEF Loadable
  <2>3. dir.runtime.a_prime \in Ciphertext
    BY <2>2 DEF RuntimeMaterial
  <2>4. <<>> \in Seq(BOOLEAN)
    BY EmptySeq
  <2>5. rt' \in RuntimeLocals
    BY <2>1, <2>3, <2>4 DEF RuntimeLocals
  <2> QED BY <1>15, <2>5, <1>a, <1>e DEF StartRuntime
<1>16. CASE RefuseRuntime
  BY <1>16, <1>a, <1>e DEF RefuseRuntime
<1>17. CASE RuntimeThrows
  BY <1>17, <1>a, <1>e DEF RuntimeThrows
<1>h. pc = "rt_loop" =>
        /\ rt \in RuntimeLocals
        /\ \A predicate \in BOOLEAN : PushPredicate(predicate) \in Seq(BOOLEAN)
  <2>1. SUFFICES ASSUME pc = "rt_loop"
        PROVE /\ rt \in RuntimeLocals
              /\ \A predicate \in BOOLEAN : PushPredicate(predicate) \in Seq(BOOLEAN)
    OBVIOUS
  <2>2. rt \in RuntimeLocals
    BY <2>1, <1>0 DEF RunInv, RuntimeLoaded
  <2>3. rt.predicate_sequence \in Seq(BOOLEAN)
    BY <2>2 DEF RuntimeLocals
  <2>4. \A predicate \in BOOLEAN :
          Append(rt.predicate_sequence, predicate) \in Seq(BOOLEAN)
    BY <2>3, AppendProperties
  <2> QED BY <2>2, <2>3, <2>4 DEF PushPredicate
<1>18. CASE RuntimeContinues
  <2> DEFINE s == AddCiphertextsModQ(rt.state, dir.runtime.one_prime)
  <2>1. /\ rt \in RuntimeLocals /\ origin \in Material
        /\ Dimension(rt.state) = Dimension(origin.a_prime)
    BY <1>18, <1>0 DEF RuntimeContinues, RunInv, RuntimeLoaded
  <2>2. /\ RuntimeConsistent(origin)
        /\ dir.runtime = ToRuntimeMaterial(origin)
    BY <2>1, <1>0 DEF DirInv
  <2>3. /\ rt.state \in Ciphertext /\ dir.runtime.one_prime \in Ciphertext
        /\ Len(rt.state.a) = Len(dir.runtime.one_prime.a)
    BY <2>1, <2>2 DEF RuntimeLocals, Material, ToRuntimeMaterial,
                      RuntimeConsistent, Dimension
  <2>4. s \in Ciphertext
    BY <2>3, AddCiphertextsType
  <2>5. PushPredicate(TRUE) \in Seq(BOOLEAN)
    BY <1>18, <1>h DEF RuntimeContinues
  <2>6. rt' = [rt EXCEPT !.predicate_sequence = PushPredicate(TRUE),
                         !.iterations = @ + 1, !.state = s]
    BY <1>18 DEF RuntimeContinues, NextIteration
  <2> HIDE DEF s
  <2>7. rt' = [backend |-> rt.backend, state |-> s,
              iterations |-> rt.iterations + 1,
              predicate_sequence |-> PushPredicate(TRUE)]
    BY <2>1, <2>6 DEF RuntimeLocals
  <2>8. rt.iterations + 1 \in Nat /\ rt.backend \in Builds
    BY <2>1 DEF RuntimeLocals
  <2>9. rt' \in RuntimeLocals
    BY <2>4, <2>5, <2>7, <2>8 DEF RuntimeLocals
  <2> QED BY <1>18, <2>9, <1>a, <1>e DEF RuntimeContinues
<1>19. CASE RuntimeHitsGuard
  <2>1. rt \in RuntimeLocals /\ PushPredicate(TRUE) \in Seq(BOOLEAN)
    BY <1>19, <1>h DEF RuntimeHitsGuard
  <2>2. rt' = [backend |-> rt.backend, state |-> rt.state,
              iterations |-> rt.iterations + 1,
              predicate_sequence |-> PushPredicate(TRUE)]
    BY <1>19, <2>1 DEF RuntimeHitsGuard, RuntimeLocals, NextIteration
  <2>3. rt.iterations + 1 \in Nat /\ rt.backend \in Builds
        /\ rt.state \in Ciphertext
    BY <2>1 DEF RuntimeLocals
  <2>4. rt' \in RuntimeLocals
    BY <2>1, <2>2, <2>3 DEF RuntimeLocals
  <2> QED BY <1>19, <2>4, <1>a, <1>e DEF RuntimeHitsGuard
<1>20. CASE RuntimeFinishes
  <2>1. rt \in RuntimeLocals /\ PushPredicate(FALSE) \in Seq(BOOLEAN)
    BY <1>20, <1>h DEF RuntimeFinishes
  <2>2. rt' \in RuntimeLocals
    BY <1>20, <2>1 DEF RuntimeFinishes, RuntimeLocals
  <2> QED BY <1>20, <2>2, <1>a, <1>e DEF RuntimeFinishes
<1>21. CASE RuntimeKilled
  BY <1>21, <1>a, <1>e DEF RuntimeKilled
<1>22. CASE UNCHANGED vars
  BY <1>22, <1>a DEF vars
<1> QED
  BY <1>1, <1>2, <1>3, <1>4, <1>5, <1>6, <1>7, <1>8, <1>9, <1>10, <1>11,
     <1>12, <1>13, <1>14, <1>15, <1>16, <1>17, <1>18, <1>19, <1>20, <1>21,
     <1>22, <1>23 DEF Next, SetupStep, RuntimeStep
-----------------------------------------------------------------------------
(* The plaintexts of a material, its number of steps and its ciphertexts.  *)
LEMMA MaterialFacts ==
  ASSUME NEW m \in Material
  PROVE  /\ m.a_plaintext \in Nat /\ m.b_plaintext \in Nat
         /\ m.a_plaintext < WordModulus /\ m.b_plaintext < WordModulus
         /\ Increments(m) \in Int
         /\ Ascending(m) => /\ TotalSteps(m) \in Nat
                            /\ Increments(m) \in Nat \ {0}
         /\ Ascending(m) /\ ~BothWrap(m) => TotalSteps(m) = Increments(m)
         /\ m.a_prime \in Ciphertext /\ m.b_prime \in Ciphertext
         /\ m.one_prime \in Ciphertext
         /\ m.hsk \in Seq(Residues)
         /\ Len(m.hsk) \in Nat
<1>1. m.hsk \in Seq(Residues) /\ Len(m.hsk) \in Nat
  BY LenProperties DEF Material
<1>2. /\ m.a_plaintext \in 0 .. (WordModulus - 1)
      /\ m.b_plaintext \in 0 .. (WordModulus - 1)
  BY DEF Material, Words
<1>3. WordModulus \in Nat
  BY WordAssumption
<1>4. /\ m.a_prime \in Ciphertext /\ m.b_prime \in Ciphertext
      /\ m.one_prime \in Ciphertext
  BY DEF Material
<1>5. ASSUME Ascending(m)
      PROVE  /\ TotalSteps(m) \in Nat /\ Increments(m) \in Nat \ {0}
             /\ ~BothWrap(m) => TotalSteps(m) = Increments(m)
  <2> DEFINE d == m.b_plaintext - m.a_plaintext
  <2>1. d \in Nat /\ Increments(m) = d + 1
    BY <1>2, <1>3, <1>5 DEF Ascending, Increments
  <2>2. ~BothWrap(m) => d + 1 < WordModulus
    BY <1>2, <1>3, <1>5 DEF Ascending, BothWrap
  <2>3. TotalSteps(m) = AddU64(d, 1)
    BY DEF TotalSteps
  <2> HIDE DEF d
  <2>4. Words \subseteq Nat /\ 1 \in Nat
    BY <1>3 DEF Words
  <2>5. /\ AddU64(d, 1) \in Words
        /\ d + 1 < WordModulus => AddU64(d, 1) = d + 1
    BY <2>1, <2>4, NoWrap
  <2>6. Increments(m) \in Nat \ {0}
    BY <2>1
  <2> QED BY <2>1, <2>2, <2>3, <2>4, <2>5, <2>6
<1> QED BY <1>1, <1>2, <1>3, <1>4, <1>5 DEF Increments

(* A material that decrypts has plaintexts below p, which do not wrap.     *)
LEMMA DecryptsBelow ==
  ASSUME NEW m \in Material, CircuitParams(m), Decrypts(m)
  PROVE  /\ m.a_plaintext \in Plaintexts /\ m.b_plaintext \in Plaintexts
         /\ ~BothWrap(m)
<1>1. /\ Len(m.a_prime.a) = Len(m.hsk) /\ Len(m.b_prime.a) = Len(m.hsk)
  BY DEF CircuitParams, Dimension
<1>2. m.a_plaintext \in Plaintexts /\ m.b_plaintext \in Plaintexts
  BY <1>1, MaterialFacts, DecodeType DEF Decrypts
<1> QED BY <1>2, ModulusAssumption, WordAssumption DEF Plaintexts, BothWrap

(* One more decoded sum extends the counted prefix of the chain.           *)
LEMMA CountsNext ==
  ASSUME NEW m, NEW n \in Nat, Counts(m, n),
         Decode(AddTimes(m.a_prime, m.one_prime, n), m.hsk)
           = m.a_plaintext + n
  PROVE  Counts(m, n + 1)
<1> SUFFICES ASSUME NEW k \in 0 .. (n + 1) - 1
             PROVE  Decode(AddTimes(m.a_prime, m.one_prime, k), m.hsk)
                      = m.a_plaintext + k
  BY DEF Counts
<1>1. k \in 0 .. n - 1 \/ k = n
  OBVIOUS
<1> QED BY <1>1 DEF Counts

(* The setup tool's loop walks the chain and decodes every sum of it.      *)
LEMMA SetupInductive == IInv /\ [Next]_vars => SetupInv'
<1> SUFFICES ASSUME IInv, [Next]_vars PROVE SetupInv'
  OBVIOUS
<1>0. TypeOK /\ SetupInv
  BY DEF IInv
<1>a. pc \in Ended => pc \notin SetupBusy
  BY DEF Ended, SetupBusy, Writing
<1>b. pc' \notin SetupBusy => SetupInv'
  BY DEF SetupInv, SetupBusy
<1>c. /\ Writing \subseteq SetupBusy /\ "validate" \in SetupBusy
      /\ "validate" \notin Writing
      /\ SetupBusy = Writing \cup {"validate"}
  BY DEF SetupBusy, Writing
<1>d. /\ \A p \in Ended : p \notin SetupBusy
      /\ "rt_loop" \notin SetupBusy
      /\ {"idle", "exported", "setup_done", "setup_failed",
          "setup_noise_unsafe", "rt_done", "rt_refused", "rt_guard",
          "rt_error"} \subseteq Ended
  BY DEF Ended, SetupBusy, Writing
<1>e. ASSUME pc \in Writing, pc' \in Writing, UNCHANGED <<full, setup>>
      PROVE  SetupInv'
  BY <1>e, <1>0, <1>c DEF SetupInv, SetupLocals
<1>1. CASE Export \/ ExportFails \/ SupplyMaterial
  BY <1>1, <1>b, <1>d DEF Export, ExportOf, ExportFails, SupplyMaterial
<1>4. CASE StartSetup
  <2> DEFINE m == full
  <2>1. m \in Material
    BY <1>0, <1>4, IntactFiles DEF StartSetup
  <2>2. /\ m.a_prime \in Ciphertext /\ m.one_prime \in Ciphertext
        /\ Ascending(m) => TotalSteps(m) \in Nat
    BY <2>1, MaterialFacts
  <2>3. /\ full' = full /\ CircuitParams(full) /\ LoopBounds(full)
        /\ setup' = [material |-> m, state |-> m.a_prime, step |-> 0]
        /\ pc' = IF Ascending(m) THEN "validate" ELSE "write_shape"
    BY <1>4 DEF StartSetup, Ascending
  <2>4. setup' \in SetupLocals /\ setup'.material = full'
        /\ setup'.state = m.a_prime /\ setup'.step = 0
    BY <2>1, <2>2, <2>3, ZeroIsWord DEF SetupLocals
  <2>5. Counts(full, 0)
    BY DEF Counts
  <2>6. RuntimeConsistent(full) =>
          m.a_prime = AddTimes(full.a_prime, full.one_prime, 0)
    BY <2>2, AddTimesZero DEF RuntimeConsistent, Dimension
  <2>7. CASE Ascending(m)
    <3>1. pc' = "validate"
      BY <2>3, <2>7
    <3> QED BY <2>1, <2>2, <2>3, <2>4, <2>5, <2>6, <2>7, <3>1, <1>c DEF SetupInv
  <2>8. CASE ~Ascending(m)
    <3>1. pc' = "write_shape"
      BY <2>3, <2>8
    <3>2. Accepted(full)
      BY <2>3, <2>8 DEF Accepted
    <3> QED BY <2>1, <2>3, <2>4, <3>1, <3>2, <1>c DEF SetupInv
  <2> QED BY <2>7, <2>8
<1>5. CASE RefuseSetup
  BY <1>5, <1>b, <1>d DEF RefuseSetup
<1>v. pc = "validate" =>
        /\ full \in Material /\ setup \in SetupLocals
        /\ setup.material = full
        /\ CircuitParams(full) /\ LoopBounds(full) /\ Ascending(full)
        /\ setup.step \in Nat /\ setup.step <= TotalSteps(full)
        /\ setup.step = 0 => setup.state = full.a_prime
        /\ setup.step > 0 => RuntimeConsistent(full)
        /\ RuntimeConsistent(full) =>
             setup.state = AddTimes(full.a_prime, full.one_prime, setup.step)
        /\ Counts(full, setup.step)
  <2>1. setup \in SetupLocals => setup.step \in Nat
    BY WordAssumption DEF SetupLocals, Words
  <2> QED BY <2>1, <1>0, <1>c DEF SetupInv
<1>w. ASSUME pc = "validate", StepDecodes(setup)
      PROVE  /\ full.a_plaintext + setup.step < PlaintextModulus
             /\ Decode(setup.state, full.hsk) = full.a_plaintext + setup.step
             /\ AddU64(setup.step, 1) = setup.step + 1
             /\ full.a_plaintext + setup.step + 1 < WordModulus
  <2> DEFINE a == full.a_plaintext
             k == setup.step
  <2>0. /\ a \in Nat /\ a < WordModulus /\ k \in Nat
        /\ PlaintextModulus < WordModulus /\ WordModulus \in Nat
        /\ PlaintextModulus \in Nat
    BY <1>w, <1>v, MaterialFacts, WordAssumption, ModulusAssumption
  <2>1. /\ setup.state \in Ciphertext /\ full.hsk \in Seq(Residues)
        /\ Len(setup.state.a) = Len(full.hsk)
    <3>1. full.a_prime \in Ciphertext /\ full.one_prime \in Ciphertext
          /\ Len(full.a_prime.a) = Len(full.hsk)
      BY <1>w, <1>v, MaterialFacts DEF CircuitParams, Dimension
    <3>2. CASE k = 0
      BY <3>1, <3>2, <1>w, <1>v, MaterialFacts
    <3>3. CASE k > 0
      <4>1. /\ Len(full.a_prime.a) = Len(full.one_prime.a)
            /\ setup.state = AddTimes(full.a_prime, full.one_prime, k)
        BY <3>3, <1>w, <1>v DEF RuntimeConsistent, Dimension
      <4> QED BY <3>1, <4>1, <2>0, <1>w, <1>v, AddTimesType, MaterialFacts
    <3> QED BY <3>2, <3>3, <2>0
  <2>2. Decode(setup.state, full.hsk) \in Plaintexts
    BY <2>1, DecodeType
  <2>3. Decode(setup.state, full.hsk) = AddU64(a, k)
    BY <1>w, <1>v DEF StepDecodes
  <2>4. a + k < WordModulus
    <3>1. CASE k = 0
      BY <3>1, <2>0
    <3>2. CASE k > 0
      <4> DEFINE j == k - 1
                 s == AddTimes(full.a_prime, full.one_prime, j)
      <4>1. j \in Nat /\ j \in 0 .. k - 1 /\ k = j + 1
        BY <2>0, <3>2
      <4>2. Decode(s, full.hsk) = a + j
        BY <4>1, <1>w, <1>v DEF Counts
      <4>3. /\ full.a_prime \in Ciphertext /\ full.one_prime \in Ciphertext
            /\ Len(full.a_prime.a) = Len(full.hsk)
            /\ Len(full.a_prime.a) = Len(full.one_prime.a)
        BY <3>2, <1>w, <1>v, MaterialFacts
           DEF CircuitParams, RuntimeConsistent, Dimension
      <4>4. s \in Ciphertext /\ Len(s.a) = Len(full.hsk)
        BY <4>1, <4>3, AddTimesType
      <4> HIDE DEF s, j
      <4>5. Decode(s, full.hsk) \in Plaintexts
        BY <2>1, <4>4, DecodeType
      <4> QED BY <2>0, <4>1, <4>2, <4>5 DEF Plaintexts
    <3> QED BY <3>1, <3>2, <2>0
  <2>5. AddU64(a, k) = a + k
    BY <2>0, <2>4, NoWrap
  <2>6. a + k < PlaintextModulus
    BY <2>0, <2>2, <2>3, <2>5 DEF Plaintexts
  <2>7. k + 1 < WordModulus /\ a + k + 1 < WordModulus
    BY <2>0, <2>6
  <2>8. AddU64(k, 1) = k + 1
    <3>1. 1 \in Nat
      OBVIOUS
    <3> QED BY <2>0, <2>7, <3>1, NoWrap
  <2> QED BY <2>3, <2>5, <2>6, <2>7, <2>8
<1>x. ASSUME pc = "validate", StepDecodes(setup), RuntimeConsistent(full)
      PROVE  Counts(full, setup.step + 1)
  <2>1. Decode(AddTimes(full.a_prime, full.one_prime, setup.step), full.hsk)
          = full.a_plaintext + setup.step
    BY <1>x, <1>v, <1>w
  <2> QED BY <2>1, <1>x, <1>v, CountsNext
<1>6. CASE ValidateStep
  <2> DEFINE k == setup.step
             s == AddCiphertextsModQ(setup.state, full.one_prime)
  <2>1. /\ pc = "validate" /\ pc' = "validate" /\ full' = full
        /\ StepDecodes(setup) /\ AddU64(k, 1) <= TotalSteps(full)
        /\ AddU64(k, 1) = k + 1
    <3>1. pc = "validate" /\ StepDecodes(setup) /\ MoreSteps(setup)
      BY <1>6 DEF ValidateStep
    <3> QED BY <3>1, <1>6, <1>v, <1>w DEF ValidateStep, MoreSteps
  <2>0. k \in Nat /\ TotalSteps(full) \in Nat /\ k + 1 <= TotalSteps(full)
    BY <2>1, <1>v, MaterialFacts
  <2>a. AddsOne(setup) /\ CanAddOne(setup)
    <3>1. AddsOne(setup)
      BY <2>0, <2>1, <1>v DEF AddsOne
    <3> QED BY <3>1, <1>6 DEF ValidateStep
  <2>2. setup' = [material |-> full, state |-> s, step |-> k + 1]
    BY <1>6, <2>1, <2>a, <1>v DEF ValidateStep, SetupLocals
  <2>b. /\ setup.state \in Ciphertext /\ full.one_prime \in Ciphertext
        /\ Len(setup.state.a) = Len(full.one_prime.a)
    BY <2>1, <2>a, <1>v DEF CanAddOne, SetupLocals, Material, Dimension
  <2>3. setup' \in SetupLocals
    <3>5. s \in Ciphertext
      BY <2>b, AddCiphertextsType
    <3>6. k + 1 \in Words
      <4>1. 1 \in Nat
        OBVIOUS
      <4> QED BY <2>0, <2>1, <4>1, NoWrap
    <3> HIDE DEF s, k
    <3> QED BY <2>1, <2>2, <3>5, <3>6, <1>v DEF SetupLocals
  <2>4. RuntimeConsistent(full)
    <3>1. CASE k = 0
      BY <3>1, <2>1, <2>a, <1>v DEF RuntimeConsistent, CircuitParams, CanAddOne
    <3>2. CASE k > 0
      BY <3>2, <2>1, <1>v
    <3> QED BY <3>1, <3>2, <2>0
  <2>5. s = AddTimes(full.a_prime, full.one_prime, k + 1)
    <3>1. /\ full.a_prime \in Ciphertext /\ full.one_prime \in Ciphertext
          /\ Len(full.a_prime.a) = Len(full.one_prime.a)
      BY <2>1, <2>4, <1>v, MaterialFacts DEF RuntimeConsistent, Dimension
    <3>2. setup.state = AddTimes(full.a_prime, full.one_prime, k)
      BY <2>1, <2>4, <1>v
    <3>3. AddCiphertextsModQ(AddTimes(full.a_prime, full.one_prime, k),
                             full.one_prime)
            = AddTimes(full.a_prime, full.one_prime, k + 1)
      <4> HIDE DEF k
      <4> QED BY <3>1, <2>0, AddTimesStep
    <3> HIDE DEF k
    <3> QED BY <3>2, <3>3
  <2>6. Counts(full, k + 1)
    BY <2>1, <2>4, <1>x
  <2>7. /\ setup'.material = full /\ setup'.step = k + 1
        /\ setup'.state = AddTimes(full.a_prime, full.one_prime, k + 1)
        /\ k + 1 # 0 /\ k + 1 > 0
    BY <2>0, <2>2, <2>5
  <2> HIDE DEF k, s
  <2> QED BY <2>0, <2>1, <2>3, <2>4, <2>6, <2>7, <1>v, <1>c DEF SetupInv
<1>7. CASE ValidateLast
  <2> DEFINE k == setup.step
  <2>1. /\ pc = "validate" /\ pc' = "write_shape"
        /\ full' = full /\ setup' = setup
        /\ StepDecodes(setup) /\ ~MoreSteps(setup)
    BY <1>7 DEF ValidateLast
  <2>2. /\ k \in Nat /\ TotalSteps(full) \in Nat
        /\ k = TotalSteps(full)
    <3>1. /\ k \in Nat /\ k <= TotalSteps(full) /\ TotalSteps(full) \in Nat
          /\ ~(k + 1 <= TotalSteps(full))
      BY <2>1, <1>v, <1>w, MaterialFacts DEF MoreSteps
    <3> QED BY <3>1
  <2>3. ASSUME ~BothWrap(full)
        PROVE  /\ full.b_plaintext + 1 < PlaintextModulus
               /\ RuntimeConsistent(full)
               /\ Counts(full, Increments(full) + 1)
    <3>1. k = Increments(full) /\ k > 0
      BY <2>1, <2>2, <2>3, <1>v, MaterialFacts
    <3>2. RuntimeConsistent(full)
      BY <2>1, <3>1, <1>v
    <3>3. Counts(full, Increments(full) + 1)
      BY <2>1, <3>1, <3>2, <1>x
    <3>4. full.b_plaintext + 1 = full.a_plaintext + k
      BY <2>1, <3>1, <1>v, MaterialFacts DEF Increments
    <3>5. full.a_plaintext + k < PlaintextModulus
      BY <2>1, <1>w
    <3> QED BY <3>2, <3>3, <3>4, <3>5
  <2>4. Accepted(full)
    BY <2>1, <2>3, <1>v DEF Accepted
  <2> QED BY <2>1, <2>4, <1>v, <1>c DEF SetupInv, SetupLocals
<1>8. CASE ValidateRejects
  BY <1>8, <1>b, <1>d DEF ValidateRejects
<1>9. CASE WriteShape \/ WriteArtifact \/ WriteRuntimeMaterial
           \/ WriteCutUnnoticed
  <2>1. pc \in Writing /\ pc' \in Writing /\ UNCHANGED <<full, setup>>
    BY <1>9 DEF WriteShape, WriteArtifact, WriteRuntimeMaterial, Writing,
                WriteCutUnnoticed, WriteCutShort, NextFile
  <2> QED BY <2>1, <1>e
<1>10. CASE RuntimeMaterialThrows \/ DescribeThrows \/ WriteManifest
            \/ SetupKilled
  BY <1>10, <1>b, <1>d DEF RuntimeMaterialThrows, DescribeThrows,
     WriteManifest, SetupKilled
<1>11. CASE StartRuntime \/ RefuseRuntime \/ RuntimeStep \/ RuntimeKilled
  <2>1. pc' \notin SetupBusy
    BY <1>11, <1>d DEF StartRuntime, RefuseRuntime, RuntimeKilled, RuntimeStep,
       RuntimeThrows, RuntimeContinues, RuntimeHitsGuard, RuntimeFinishes
  <2> QED BY <2>1, <1>b
<1>12. CASE UNCHANGED vars
  BY <1>12, <1>0 DEF vars, SetupInv, SetupLocals
<1> QED BY <1>1, <1>4, <1>5, <1>6, <1>7, <1>8, <1>9, <1>10, <1>11, <1>12
           DEF Next, SetupStep
-----------------------------------------------------------------------------
(* Only an accepted material's ciphertexts are written to the directory.   *)
LEMMA DirInductive == IInv /\ [Next]_vars => DirInv'
<1> SUFFICES ASSUME IInv, [Next]_vars PROVE DirInv'
  OBVIOUS
<1>0. SetupInv /\ DirInv
  BY DEF IInv
<1>a. ASSUME UNCHANGED <<dir.runtime, origin>>
      PROVE  DirInv'
  BY <1>a, <1>0 DEF DirInv
<1>b. ASSUME dir'.runtime \in {Nothing, Torn}, origin' = Nothing
      PROVE  DirInv'
  BY <1>b, FileAssumption DEF DirInv
<1>c. PrepareDirectory => DirInv'
  BY <1>a, <1>b DEF PrepareDirectory, EmptyDir
<1>t. dir \in Directory
  BY DEF IInv, TypeOK
<1>1. CASE Export \/ ExportFails
  BY <1>1, <1>c DEF Export, ExportOf, ExportFails
<1>2. CASE SupplyMaterial \/ StartSetup \/ RefuseSetup \/ ValidateStep
           \/ ValidateLast \/ ValidateRejects \/ RuntimeMaterialThrows
           \/ DescribeThrows \/ WriteManifest \/ StartRuntime
           \/ RefuseRuntime \/ RuntimeStep \/ RuntimeKilled
           \/ UNCHANGED vars
  <2>1. UNCHANGED <<dir, origin>>
    BY <1>2 DEF SupplyMaterial, StartSetup, RefuseSetup, ValidateStep,
       ValidateLast, ValidateRejects, RuntimeMaterialThrows, DescribeThrows,
       WriteManifest, StartRuntime, RefuseRuntime, RuntimeStep,
       RuntimeKilled, RuntimeThrows, RuntimeContinues, RuntimeHitsGuard, RuntimeFinishes, vars
  <2> QED BY <2>1, <1>a
<1>3. CASE WriteShape \/ WriteArtifact
  <2>1. UNCHANGED <<dir.runtime, origin>>
    BY <1>3, <1>t DEF WriteShape, WriteArtifact, Directory
  <2> QED BY <2>1, <1>a
<1>4. CASE WriteRuntimeMaterial
  <2>1. /\ origin' = full /\ full \in Material /\ Accepted(full)
        /\ RuntimeConsistent(full)
    BY <1>4, <1>0 DEF WriteRuntimeMaterial, SetupInv, SetupBusy, Writing
  <2>2. dir'.runtime = ToRuntimeMaterial(full)
    BY <1>4, <1>0, <1>t DEF WriteRuntimeMaterial, SetupInv, SetupBusy, Writing,
                            Directory
  <2>3. dir'.runtime \in RuntimeMaterial
    BY <2>1, <2>2 DEF ToRuntimeMaterial, Material, RuntimeMaterial
  <2> QED BY <2>1, <2>2, <2>3 DEF DirInv
<1>5. CASE SetupKilled \/ WriteCutUnnoticed
  <2>1. \/ UNCHANGED <<dir.runtime, origin>>
        \/ dir'.runtime \in {Nothing, Torn} /\ origin' = Nothing
    BY <1>5, <1>t DEF SetupKilled, WriteCutUnnoticed, WriteCutShort, Directory
  <2> QED BY <2>1, <1>a, <1>b
<1> QED BY <1>1, <1>2, <1>3, <1>4, <1>5 DEF Next, SetupStep

(* Over coherent files the loop's predicate is that of the plaintext loop, *)
(* and every decoded sum is the one that setup has decoded before.         *)
LEMMA CoherentIteration ==
  ASSUME IInv, Coherent, pc = "rt_loop"
  PROVE  /\ rt \in RuntimeLocals /\ origin \in Material
         /\ dir.runtime = ToRuntimeMaterial(origin)
         /\ rt.iterations \in Nat /\ rt.iterations <= Count(origin)
         /\ rt.iterations <= kMaxDemoIterations
         /\ ~EvaluationThrows(rt.state)
         /\ EvaluatePredicate(rt.state, dir.runtime.b_prime) <=>
              origin.a_plaintext + rt.iterations <= origin.b_plaintext
         /\ Ascending(origin) => Increments(origin) <= PlaintextModulus - 1
<1> DEFINE m == origin
           k == rt.iterations
<1>0. /\ TypeOK /\ SetupInv /\ DirInv /\ RunInv /\ RuntimeLoaded
  BY DEF IInv, RuntimeLoaded
<1>1. /\ rt \in RuntimeLocals /\ m \in Material
      /\ dir.artifact \in [backend : Builds, hsk : Seq(Residues)]
      /\ k <= Count(m)
      /\ rt.state = AddTimes(m.a_prime, m.one_prime, k)
  BY <1>0 DEF RunInv
<1>2. /\ Accepted(m) /\ RuntimeConsistent(m)
      /\ dir.runtime = ToRuntimeMaterial(m)
  BY <1>0, <1>1 DEF DirInv
<1>3. /\ m.a_plaintext \in Nat /\ m.b_plaintext \in Nat
      /\ Increments(m) \in Int
      /\ Ascending(m) => Increments(m) \in Nat \ {0}
      /\ m.a_prime \in Ciphertext /\ m.b_prime \in Ciphertext
      /\ m.one_prime \in Ciphertext /\ Len(m.hsk) \in Nat
  BY <1>1, MaterialFacts
<1>4. k \in Nat
  BY <1>1 DEF RuntimeLocals
<1>5. dir.artifact.hsk = m.hsk /\ Decrypts(m)
  BY DEF Coherent
<1>b. ~BothWrap(m)
  BY <1>1, <1>2, <1>5, DecryptsBelow DEF Accepted
<1>6. Decode(rt.state, m.hsk) = m.a_plaintext + k
  <2>1. CASE Ascending(m)
    <3>1. k \in 0 .. (Increments(m) + 1) - 1
      BY <1>1, <1>3, <1>4, <2>1 DEF Count
    <3>2. Counts(m, Increments(m) + 1)
      BY <1>2, <1>b, <2>1 DEF Accepted
    <3> QED BY <1>1, <3>1, <3>2 DEF Counts
  <2>2. CASE ~Ascending(m)
    <3>1. k = 0
      BY <1>1, <1>4, <2>2 DEF Count
    <3>2. rt.state = m.a_prime
      BY <1>1, <1>2, <1>3, <3>1, AddTimesZero DEF RuntimeConsistent, Dimension
    <3> QED BY <1>3, <1>5, <3>1, <3>2 DEF Decrypts
  <2> QED BY <2>1, <2>2
<1>7. Decode(m.b_prime, m.hsk) = m.b_plaintext
  BY <1>5 DEF Decrypts
<1>8. /\ rt.state \in Ciphertext
      /\ Dimension(rt.state) = Dimension(m.b_prime)
      /\ Dimension(rt.state) = Len(m.hsk)
  BY <1>1, <1>2, <1>3, <1>4, AddTimesType
     DEF Dimension, RuntimeConsistent, Accepted, CircuitParams
<1>9. dir.runtime.b_prime = m.b_prime
  BY <1>2 DEF ToRuntimeMaterial
<1>10. ~EvaluationThrows(rt.state)
  BY <1>3, <1>5, <1>8 DEF EvaluationThrows
<1>11. EvaluatePredicate(rt.state, m.b_prime) <=>
         m.a_plaintext + k <= m.b_plaintext
  <2>1. /\ WiredCiphertext(rt.state, m.b_prime, 0, Len(m.hsk)) = rt.state
        /\ WiredCiphertext(rt.state, m.b_prime, Len(m.hsk) + 1, Len(m.hsk))
             = m.b_prime
    BY <1>3, <1>8, WiredOperands
  <2> QED BY <1>5, <1>6, <1>7, <2>1 DEF EvaluatePredicate
<1>12. Ascending(m) => Increments(m) <= PlaintextModulus - 1
  <2>1. Ascending(m) => m.b_plaintext + 1 < PlaintextModulus
    BY <1>2, <1>b DEF Accepted
  <2> QED BY <1>3, <2>1, ModulusAssumption DEF Increments
<1>13. k <= kMaxDemoIterations
  BY <1>1, <1>3, <1>4, <1>12, GuardAssumption, ModulusAssumption DEF Count
<1> QED BY <1>1, <1>2, <1>4, <1>9, <1>10, <1>11, <1>12, <1>13

(* Below its bound the history is kept in full.                            *)
LEMMA PushKept ==
  ASSUME NEW k \in Nat, k < MaxSequence, NEW predicate \in BOOLEAN,
         rt.predicate_sequence = [i \in 1 .. k |-> TRUE]
  PROVE  PushPredicate(predicate) =
           [i \in 1 .. k + 1 |-> IF i <= k THEN TRUE ELSE predicate]
<1> DEFINE s == [i \in 1 .. k |-> TRUE]
<1>1. s \in [1 .. k -> BOOLEAN]
  OBVIOUS
<1>2. s \in Seq(BOOLEAN) /\ Len(s) = k
  <2> HIDE DEF s
  <2> QED BY <1>1, SeqDef, LenProperties
<1>3. Append(s, predicate) =
        [i \in 1 .. k + 1 |-> IF i <= k THEN TRUE ELSE predicate]
  <2> DEFINE t == Append(s, predicate)
  <2>1. \A i \in 1 .. k : s[i] = TRUE
    OBVIOUS
  <2>2. /\ t \in Seq(BOOLEAN) /\ Len(t) = k + 1
        /\ \A i \in 1 .. k : t[i] = s[i]
        /\ t[k + 1] = predicate
    <3> HIDE DEF s
    <3> QED BY <1>2, AppendProperties
  <2>3. t \in [1 .. k + 1 -> BOOLEAN]
    <3> HIDE DEF t
    <3> QED BY <2>2, LenProperties
  <2> HIDE DEF t, s
  <2>4. ASSUME NEW i \in 1 .. k + 1
        PROVE  t[i] = IF i <= k THEN TRUE ELSE predicate
    <3>1. \/ i \in 1 .. k /\ i <= k
          \/ i = k + 1 /\ ~(i <= k)
      OBVIOUS
    <3> QED BY <2>1, <2>2, <3>1, Zenon
  <2>5. t = [i \in 1 .. k + 1 |-> IF i <= k THEN TRUE ELSE predicate]
    BY <2>3, <2>4
  <2> QED BY <2>5 DEF t
<1>4. PushPredicate(predicate) = Append(s, predicate)
  <2>1. rt.predicate_sequence = s
    OBVIOUS
  <2> HIDE DEF s
  <2> QED BY <1>2, <2>1 DEF PushPredicate
<1> QED BY <1>3, <1>4

(* The runtime's loop walks the counted chain and reveals its predicates.  *)
LEMMA RunInductive == IInv /\ [Next]_vars => RunInv'
<1> SUFFICES ASSUME IInv, [Next]_vars PROVE RunInv'
  OBVIOUS
<1>0. TypeOK /\ DirInv /\ RunInv
  BY DEF IInv
<1>t. TypeOK'
  BY TypeInductive
<1>a. ~RuntimeLoaded' => RunInv'
  BY DEF RunInv
<1>b. Coherent => origin \in Material
  BY <1>0, IntactFiles DEF Coherent
<1>1. CASE Export \/ ExportFails \/ SupplyMaterial \/ StartSetup
           \/ RefuseSetup \/ ValidateStep \/ ValidateLast \/ ValidateRejects
           \/ WriteShape \/ WriteArtifact \/ WriteRuntimeMaterial
           \/ RuntimeMaterialThrows \/ DescribeThrows \/ WriteManifest
           \/ SetupKilled \/ WriteCutUnnoticed
           \/ RefuseRuntime \/ RuntimeKilled
  BY <1>1, <1>a DEF RuntimeLoaded, Export, ExportOf, ExportFails, SupplyMaterial,
     StartSetup, RefuseSetup, ValidateStep, ValidateLast, ValidateRejects,
     WriteShape, WriteArtifact, WriteRuntimeMaterial, RuntimeMaterialThrows,
     DescribeThrows, WriteManifest, SetupKilled, RefuseRuntime, RuntimeKilled,
     WriteCutUnnoticed, WriteCutShort, NextFile
<1>2. CASE StartRuntime
  <2>1. PICK backend \in Builds :
          /\ Loadable(backend)
          /\ rt' = [backend |-> backend, state |-> dir.runtime.a_prime,
                    iterations |-> 0, predicate_sequence |-> <<>>]
    BY <1>2 DEF StartRuntime
  <2>2. /\ dir.runtime \in RuntimeMaterial
        /\ dir.artifact \in [backend : Builds, hsk : Seq(Residues)]
    BY <2>1, <1>0, IntactFiles DEF Loadable
  <2>3. /\ origin \in Material /\ RuntimeConsistent(origin)
        /\ dir.runtime = ToRuntimeMaterial(origin)
    BY <2>2, <1>0 DEF DirInv
  <2>4. /\ pc' = "rt_loop" /\ dir' = dir /\ origin' = origin
        /\ rt'.state = origin.a_prime /\ rt'.iterations = 0
        /\ rt'.predicate_sequence = <<>>
    BY <1>2, <2>1, <2>3 DEF StartRuntime, ToRuntimeMaterial
  <2>5. rt' \in RuntimeLocals
    <3>1. rt' \in RuntimeLocals \cup {Nothing}
      BY <1>t DEF TypeOK, RuntimeLocals
    <3>2. <<>> \in Seq(BOOLEAN)
      BY EmptySeq
    <3>3. origin.a_prime \in Ciphertext
      BY <2>3, MaterialFacts
    <3> QED BY <2>1, <2>3, <3>2, <3>3 DEF RuntimeLocals, ToRuntimeMaterial
  <2>6. /\ 0 <= Count(origin)
        /\ origin.a_prime = AddTimes(origin.a_prime, origin.one_prime, 0)
    BY <2>3, MaterialFacts, AddTimesZero
       DEF Count, RuntimeConsistent, Dimension
  <2>7. <<>> = [i \in 1 .. 0 |-> TRUE]
    BY EmptySeq, SeqDef
  <2> QED BY <2>2, <2>3, <2>4, <2>5, <2>6, <2>7 DEF RunInv
<1>l. /\ pc = "rt_loop" =>
           /\ rt \in RuntimeLocals
           /\ origin \in Material
           /\ dir.artifact \in [backend : Builds, hsk : Seq(Residues)]
           /\ Dimension(rt.state) = Dimension(origin.a_prime)
      /\ Coherent /\ pc = "rt_loop" =>
           /\ rt.state = AddTimes(origin.a_prime, origin.one_prime,
                                  rt.iterations)
           /\ rt.predicate_sequence = [i \in 1 .. rt.iterations |-> TRUE]
  BY <1>0 DEF RunInv, RuntimeLoaded
<1>f. ASSUME Coherent, pc = "rt_loop"
      PROVE  /\ origin.a_plaintext \in Nat /\ origin.b_plaintext \in Nat
             /\ Increments(origin) \in Int
             /\ Ascending(origin) => Increments(origin) \in Nat \ {0}
  BY <1>b, <1>f, MaterialFacts
<1>3. CASE RuntimeThrows
  <2>1. ~Coherent /\ pc = "rt_loop"
    BY <1>3, CoherentIteration DEF RuntimeThrows
  <2>2. /\ rt' = rt /\ dir' = dir /\ origin' = origin /\ pc' = "rt_error"
        /\ ~Coherent'
    BY <1>3, <2>1 DEF RuntimeThrows, Coherent
  <2> QED BY <2>1, <2>2, <1>l DEF RunInv
<1>4. CASE RuntimeContinues
  <2> DEFINE k == rt.iterations
             s == AddCiphertextsModQ(rt.state, dir.runtime.one_prime)
  <2>1. /\ pc = "rt_loop" /\ pc' = "rt_loop" /\ dir' = dir
        /\ origin' = origin
    BY <1>4 DEF RuntimeContinues
  <2>2. rt' = [backend |-> rt.backend, state |-> s, iterations |-> k + 1,
              predicate_sequence |-> PushPredicate(TRUE)]
    BY <1>4, <2>1, <1>l DEF RuntimeContinues, NextIteration, RuntimeLocals
  <2>3. /\ RuntimeConsistent(origin) /\ dir.runtime = ToRuntimeMaterial(origin)
        /\ dir.runtime.one_prime = origin.one_prime
    BY <2>1, <1>l, <1>0 DEF DirInv, ToRuntimeMaterial
  <2>4. /\ rt.state \in Ciphertext /\ origin.one_prime \in Ciphertext
        /\ origin.a_prime \in Ciphertext
        /\ Len(rt.state.a) = Len(origin.one_prime.a)
        /\ Len(origin.a_prime.a) = Len(origin.one_prime.a)
    BY <2>1, <2>3, <1>l, MaterialFacts
       DEF RuntimeConsistent, Dimension, RuntimeLocals
  <2>5. s \in Ciphertext /\ Dimension(s) = Dimension(origin.a_prime)
    BY <2>1, <2>3, <2>4, <1>l, AddCiphertextsType DEF Dimension
  <2>6. rt' \in RuntimeLocals
    <3>1. PushPredicate(TRUE) \in Seq(BOOLEAN)
      <4>1. rt.predicate_sequence \in Seq(BOOLEAN)
        BY <2>1, <1>l DEF RuntimeLocals
      <4> QED BY <4>1, AppendProperties DEF PushPredicate
    <3>2. rt.backend \in Builds /\ k + 1 \in Nat
      BY <2>1, <1>l DEF RuntimeLocals
    <3> HIDE DEF s, k
    <3> QED BY <2>2, <2>5, <3>1, <3>2 DEF RuntimeLocals
  <2>7. ASSUME Coherent
        PROVE  /\ k + 1 <= Count(origin)
               /\ s = AddTimes(origin.a_prime, origin.one_prime, k + 1)
               /\ PushPredicate(TRUE) = [i \in 1 .. k + 1 |-> TRUE]
    <3>1. /\ k \in Nat /\ k <= kMaxDemoIterations
          /\ origin.a_plaintext + k <= origin.b_plaintext
      BY <2>1, <2>7, <1>4, CoherentIteration DEF RuntimeContinues
    <3>2. k + 1 <= Count(origin)
      BY <2>1, <2>7, <3>1, <1>f DEF Count, Ascending, Increments
    <3>3. s = AddTimes(origin.a_prime, origin.one_prime, k + 1)
      <4>1. s = AddCiphertextsModQ(AddTimes(origin.a_prime,
                                     origin.one_prime, k), origin.one_prime)
        BY <2>1, <2>3, <2>7, <1>l
      <4> HIDE DEF s, k
      <4> QED BY <2>4, <3>1, <4>1, AddTimesStep
    <3>4. k < MaxSequence
      BY <3>1, GuardAssumption
    <3>5. PushPredicate(TRUE)
            = [i \in 1 .. k + 1 |-> IF i <= k THEN TRUE ELSE TRUE]
      BY <2>1, <2>7, <3>1, <3>4, <1>l, PushKept
    <3> QED BY <3>2, <3>3, <3>5
  <2> HIDE DEF s, k
  <2>8. Coherent' => Coherent
    BY <2>1 DEF Coherent
  <2> QED BY <2>1, <2>2, <2>5, <2>6, <2>7, <2>8, <1>l DEF RunInv
<1>5. CASE RuntimeHitsGuard
  <2> DEFINE k == rt.iterations
  <2>1. /\ pc = "rt_loop" /\ pc' = "rt_guard" /\ dir' = dir
        /\ origin' = origin
        /\ EvaluatePredicate(rt.state, dir.runtime.b_prime)
        /\ ~(k + 1 <= kMaxDemoIterations)
    BY <1>5 DEF RuntimeHitsGuard, NextIteration
  <2>2. ~Coherent
    <3> SUFFICES ASSUME Coherent PROVE FALSE
      OBVIOUS
    <3>1. /\ k \in Nat /\ origin.a_plaintext + k <= origin.b_plaintext
          /\ Ascending(origin) => Increments(origin) <= PlaintextModulus - 1
      BY <2>1, CoherentIteration
    <3>2. k + 1 <= PlaintextModulus - 1
      BY <2>1, <3>1, <1>f, ModulusAssumption DEF Ascending, Increments
    <3> QED BY <2>1, <3>1, <3>2, GuardAssumption, ModulusAssumption
  <2>3. ~Coherent'
    BY <2>1, <2>2 DEF Coherent
  <2>4. rt' \in RuntimeLocals /\ rt'.state = rt.state
    <3>1. rt' = [backend |-> rt.backend, state |-> rt.state,
                iterations |-> k + 1,
                predicate_sequence |-> PushPredicate(TRUE)]
      BY <1>5, <2>1, <1>l DEF RuntimeHitsGuard, NextIteration, RuntimeLocals
    <3>2. PushPredicate(TRUE) \in Seq(BOOLEAN)
      <4>1. rt.predicate_sequence \in Seq(BOOLEAN)
        BY <2>1, <1>l DEF RuntimeLocals
      <4> QED BY <4>1, AppendProperties DEF PushPredicate
    <3>3. rt.backend \in Builds /\ k + 1 \in Nat /\ rt.state \in Ciphertext
      BY <2>1, <1>l DEF RuntimeLocals
    <3> QED BY <3>1, <3>2, <3>3 DEF RuntimeLocals
  <2> QED BY <2>1, <2>3, <2>4, <1>l DEF RunInv
<1>6. CASE RuntimeFinishes
  <2> DEFINE k == rt.iterations
             n == Count(origin)
  <2>1. /\ pc = "rt_loop" /\ pc' = "rt_done" /\ dir' = dir
        /\ origin' = origin
    BY <1>6 DEF RuntimeFinishes
  <2>2. rt' = [backend |-> rt.backend, state |-> rt.state,
              iterations |-> k, predicate_sequence |-> PushPredicate(FALSE)]
    BY <1>6, <2>1, <1>l DEF RuntimeFinishes, RuntimeLocals
  <2>3. rt' \in RuntimeLocals
    <3>1. PushPredicate(FALSE) \in Seq(BOOLEAN)
      <4>1. rt.predicate_sequence \in Seq(BOOLEAN)
        BY <2>1, <1>l DEF RuntimeLocals
      <4> QED BY <4>1, AppendProperties DEF PushPredicate
    <3> QED BY <2>1, <2>2, <3>1, <1>l DEF RuntimeLocals
  <2>4. ASSUME Coherent
        PROVE  PushPredicate(FALSE) =
                 IdealSequence(origin.a_plaintext, origin.b_plaintext)
    <3>1. /\ k \in Nat /\ k <= n /\ k <= kMaxDemoIterations
          /\ ~(origin.a_plaintext + k <= origin.b_plaintext)
      BY <1>6, <2>1, <2>4, CoherentIteration DEF RuntimeFinishes
    <3>2. k = n
      BY <2>1, <2>4, <3>1, <1>f DEF Count, Ascending, Increments
    <3>3. k < MaxSequence
      BY <3>1, GuardAssumption
    <3>4. PushPredicate(FALSE)
            = [i \in 1 .. k + 1 |-> IF i <= k THEN TRUE ELSE FALSE]
      BY <2>1, <2>4, <3>1, <3>3, <1>l, PushKept
    <3>5. n = IF origin.a_plaintext <= origin.b_plaintext
              THEN origin.b_plaintext - origin.a_plaintext + 1 ELSE 0
      BY DEF Count, Ascending, Increments
    <3>6. IdealSequence(origin.a_plaintext, origin.b_plaintext)
            = [i \in 1 .. n + 1 |-> i <= n]
      BY <3>5 DEF IdealSequence
    <3>7. [i \in 1 .. k + 1 |-> IF i <= k THEN TRUE ELSE FALSE]
            = [i \in 1 .. k + 1 |-> i <= k]
      <4>1. \A i \in 1 .. k + 1 :
              (IF i <= k THEN TRUE ELSE FALSE) = (i <= k)
        <5> TAKE i \in 1 .. k + 1
        <5>1. (i <= k) \in BOOLEAN
          BY <3>1, SMT
        <5> QED BY <5>1, Zenon
      <4> QED BY <4>1, Zenon
    <3> HIDE DEF k, n
    <3> QED BY <3>2, <3>4, <3>6, <3>7
  <2> HIDE DEF k, n
  <2>5. Coherent' => Coherent
    BY <2>1 DEF Coherent
  <2> QED BY <2>1, <2>2, <2>3, <2>4, <2>5, <1>l DEF RunInv
<1>7. CASE UNCHANGED vars
  BY <1>7, <1>0 DEF vars, RunInv, RuntimeLoaded, Coherent
<1> QED BY <1>1, <1>2, <1>3, <1>4, <1>5, <1>6, <1>7
        DEF Next, SetupStep, RuntimeStep

(* A directory emptied before each export holds that export's files only.  *)
LEMMA FreshInductive == IInv /\ [Next]_vars => FreshInv'
<1> SUFFICES ASSUME IInv, [Next]_vars, FreshDirectory PROVE FreshInv'
  BY DEF FreshInv
<1> DEFINE Artifacts == [backend : Builds, hsk : Seq(Residues)]
<1>0. /\ full \in Material => Decrypts(full)
      /\ dir.artifact \in Artifacts =>
           full \in Material /\ dir.artifact.hsk = full.hsk
      /\ origin \in Material => origin = full
  BY DEF IInv, FreshInv
<1>b. SUFFICES
        /\ full' \in Material => Decrypts(full')
        /\ dir'.artifact \in Artifacts =>
             full' \in Material /\ dir'.artifact.hsk = full'.hsk
        /\ origin' \in Material => origin' = full'
  BY DEF FreshInv, Decrypts
<1>n. \A mark \in {Nothing, Torn} : mark \notin Material /\ mark \notin Artifacts
  BY FileAssumption
<1>t. dir \in Directory
  BY DEF IInv, TypeOK
<1> HIDE DEF Artifacts
<1>p. PrepareDirectory => dir'.artifact = Nothing /\ origin' = Nothing
  BY DEF PrepareDirectory, EmptyDir
<1>s. pc \in SetupBusy => full \in Material /\ setup.material = full
  BY DEF IInv, SetupInv
<1>1. CASE Export
  BY <1>1, <1>n, <1>p, ExportedMaterial DEF Export, ExportOf
<1>2. CASE ExportFails
  BY <1>2, <1>0, <1>n, <1>p DEF ExportFails
<1>3. CASE SupplyMaterial
  BY <1>3 DEF SupplyMaterial
<1>4. CASE StartSetup \/ RefuseSetup \/ ValidateStep \/ ValidateLast
           \/ ValidateRejects \/ RuntimeMaterialThrows \/ DescribeThrows
           \/ WriteManifest
           \/ StartRuntime \/ RefuseRuntime \/ RuntimeStep \/ RuntimeKilled
           \/ UNCHANGED vars
  <2>1. UNCHANGED <<full, dir, origin>>
    BY <1>4 DEF StartSetup, RefuseSetup, ValidateStep, ValidateLast,
       ValidateRejects, RuntimeMaterialThrows, DescribeThrows, WriteManifest,
       StartRuntime,
       RefuseRuntime, RuntimeStep, RuntimeKilled, RuntimeThrows,
       RuntimeContinues, RuntimeHitsGuard, RuntimeFinishes, vars
  <2> QED BY <2>1, <1>0
<1>5. CASE WriteShape
  <2>1. /\ dir'.artifact = dir.artifact /\ UNCHANGED <<full, origin>>
    BY <1>5, <1>t DEF WriteShape, Directory
  <2> QED BY <2>1, <1>0
<1>6. CASE WriteArtifact
  <2>1. /\ dir'.artifact.hsk = full.hsk /\ full \in Material
        /\ UNCHANGED <<full, origin>>
    BY <1>6, <1>t, <1>s DEF WriteArtifact, Directory, SetupBusy, Writing
  <2> QED BY <2>1, <1>0
<1>7. CASE WriteRuntimeMaterial
  <2>1. /\ dir'.artifact = dir.artifact /\ full' = full /\ origin' = full
    BY <1>7, <1>t, <1>s DEF WriteRuntimeMaterial, Directory, SetupBusy, Writing
  <2> QED BY <2>1, <1>0
<1>8. CASE SetupKilled \/ WriteCutUnnoticed
  <2>1. /\ dir'.artifact \in {dir.artifact, Torn} /\ full' = full
        /\ origin' \in {origin, Nothing}
    BY <1>8, <1>t DEF SetupKilled, WriteCutUnnoticed, WriteCutShort, Directory
  <2> QED BY <2>1, <1>0, <1>n
<1> QED BY <1>1, <1>2, <1>3, <1>4, <1>5, <1>6, <1>7, <1>8
        DEF Next, SetupStep

(* One file after the other is replaced by the full material's.            *)
LEMMA WrittenInductive == IInv /\ [Next]_vars => WrittenInv'
<1> SUFFICES ASSUME IInv, [Next]_vars PROVE WrittenInv'
  OBVIOUS
<1> DEFINE Artifacts == [backend : Builds, hsk : Seq(Residues)]
           After == {"write_artifact", "write_runtime", "write_manifest",
                     "setup_done"}
<1>0. WrittenInv /\ dir \in Directory /\ dir' \in Directory
  BY TypeInductive DEF IInv, TypeOK
<1>s. pc \in SetupBusy =>
        full \in Material /\ setup.material = full /\ CircuitParams(full)
  BY DEF IInv, SetupInv
<1>w. /\ "write_shape" \in SetupBusy /\ "write_artifact" \in SetupBusy
      /\ "write_runtime" \in SetupBusy /\ "write_manifest" \in SetupBusy
  BY DEF SetupBusy, Writing
<1>a. ASSUME pc' \notin After
      PROVE  WrittenInv'
  BY <1>a DEF WrittenInv
<1>1. CASE \/ Export \/ ExportFails \/ SupplyMaterial \/ StartSetup
           \/ RefuseSetup \/ ValidateStep \/ ValidateLast \/ ValidateRejects
           \/ DescribeThrows \/ RuntimeMaterialThrows \/ SetupKilled
           \/ StartRuntime \/ RefuseRuntime \/ RuntimeStep \/ RuntimeKilled
  <2>1. pc' \notin After
    BY <1>1 DEF Export, ExportOf, ExportFails, SupplyMaterial, StartSetup,
       RefuseSetup, ValidateStep, ValidateLast, ValidateRejects,
       DescribeThrows, RuntimeMaterialThrows, SetupKilled, StartRuntime,
       RefuseRuntime, RuntimeStep, RuntimeThrows, RuntimeContinues,
       RuntimeHitsGuard, RuntimeFinishes, RuntimeKilled
  <2> QED BY <2>1, <1>a
<1> HIDE DEF After, Artifacts
<1>2. CASE WriteShape
  <2>1. /\ pc' = "write_artifact" /\ full' = full
        /\ dir'.shape = [dimension |-> Len(full.hsk)]
        /\ full \in Material /\ CircuitParams(full)
    BY <1>2, <1>0, <1>s, <1>w DEF WriteShape, Directory
  <2> QED BY <2>1 DEF WrittenInv, BelongsTo
<1>3. CASE WriteArtifact
  <2>1. PICK backend \in Builds :
          dir' = [dir EXCEPT
            !.artifact = [backend |-> backend, hsk |-> full.hsk]]
    BY <1>3, <1>s, <1>w DEF WriteArtifact
  <2>2. /\ pc = "write_artifact" /\ pc' = "write_runtime" /\ full' = full
        /\ dir'.shape = dir.shape
        /\ dir'.artifact = [backend |-> backend, hsk |-> full.hsk]
        /\ full \in Material /\ CircuitParams(full)
    BY <1>3, <2>1, <1>0, <1>s, <1>w DEF WriteArtifact, Directory
  <2>3. ArtifactBelongs(full.hsk)'
    <3>1. full.hsk \in Seq(Residues)
      BY <2>2 DEF Material
    <3>2. dir'.artifact \in [backend : Builds, hsk : Seq(Residues)]
          /\ dir'.artifact.hsk = full'.hsk
      BY <2>2, <3>1
    <3> QED BY <3>2 DEF ArtifactBelongs
  <2> QED BY <2>2, <2>3, <1>0 DEF WrittenInv
<1>4. CASE WriteRuntimeMaterial
  <2>1. /\ pc = "write_runtime" /\ pc' = "write_manifest" /\ full' = full
        /\ dir'.shape = dir.shape /\ dir'.artifact = dir.artifact
        /\ dir'.runtime = ToRuntimeMaterial(full)
    BY <1>4, <1>0, <1>s, <1>w DEF WriteRuntimeMaterial, Directory
  <2> QED BY <2>1, <1>0 DEF WrittenInv, ArtifactBelongs, BelongsTo
<1>5. CASE WriteManifest
  <2>1. /\ pc = "write_manifest" /\ pc' = "setup_done"
        /\ full' = full /\ dir' = dir
    BY <1>5 DEF WriteManifest
  <2> QED BY <2>1, <1>0 DEF WrittenInv, ArtifactBelongs
<1>6. CASE WriteCutUnnoticed
  <2>0. full' = full /\ WriteCutShort /\ pc' = NextFile[pc]
    BY <1>6 DEF WriteCutUnnoticed
  <2>1. CASE pc = "write_shape"
    <3>1. /\ pc' = "write_artifact" /\ dir'.shape = Torn
          /\ full \in Material /\ CircuitParams(full)
      BY <2>0, <2>1, <1>0, <1>s, <1>w
         DEF WriteCutShort, NextFile, Directory
    <3> QED BY <2>0, <3>1 DEF WrittenInv, BelongsTo
  <2>2. CASE pc = "write_artifact"
    <3>1. /\ pc' = "write_runtime" /\ dir'.artifact = Torn
          /\ dir'.shape = dir.shape
      BY <2>0, <2>2, <1>0 DEF WriteCutShort, NextFile, Directory
    <3> QED BY <2>0, <2>2, <3>1, <1>0 DEF WrittenInv, ArtifactBelongs
  <2>3. CASE pc = "write_runtime"
    <3>1. /\ pc' = "write_manifest" /\ dir'.runtime = Torn
          /\ dir'.shape = dir.shape /\ dir'.artifact = dir.artifact
      BY <2>0, <2>3, <1>0 DEF WriteCutShort, NextFile, Directory
    <3> QED BY <2>0, <2>3, <3>1, <1>0
            DEF WrittenInv, ArtifactBelongs, BelongsTo
  <2> QED BY <2>0, <2>1, <2>2, <2>3 DEF WriteCutShort
<1>7. CASE UNCHANGED vars
  BY <1>7, <1>0 DEF vars, WrittenInv, ArtifactBelongs
<1> QED BY <1>1, <1>2, <1>3, <1>4, <1>5, <1>6, <1>7 DEF Next, SetupStep

(* IInv is an invariant.                                                   *)
THEOREM Invariance == Spec => []IInv
<1>1. Init => IInv
  BY InitInv
<1>2. IInv /\ [Next]_vars => IInv'
  <2> SUFFICES ASSUME IInv, [Next]_vars PROVE IInv'
    OBVIOUS
  <2>1. TypeOK'
    BY TypeInductive
  <2>2. SetupInv'
    BY SetupInductive
  <2>3. DirInv'
    BY DirInductive
  <2>4. RunInv'
    BY RunInductive
  <2>5. FreshInv'
    BY FreshInductive
  <2>6. WrittenInv'
    BY WrittenInductive
  <2> QED BY <2>1, <2>2, <2>3, <2>4, <2>5, <2>6 DEF IInv
<1> QED BY <1>1, <1>2, PTL DEF Spec
-----------------------------------------------------------------------------
(***************************************************************************)
(* The properties.                                                         *)
(***************************************************************************)
(* Every value the three programs pass on is in range.                     *)
THEOREM TypeCorrect == Spec => []TypeOK
<1>1. IInv => TypeOK
  BY DEF IInv
<1> QED BY <1>1, Invariance, PTL

(* A finished run over files that belong together reveals exactly the      *)
(* predicates of the plaintext loop, whatever key, noise and modulus.      *)
THEOREM RevealIsExact == Spec => []ExactReveal
<1>1. IInv => ExactReveal
  <2> SUFFICES ASSUME IInv, pc = "rt_done", Coherent
               PROVE  rt.predicate_sequence =
                        IdealSequence(origin.a_plaintext, origin.b_plaintext)
    BY DEF ExactReveal
  <2> QED BY DEF IInv, RunInv, RuntimeLoaded
<1> QED BY <1>1, Invariance, PTL

(* Over such files no run ends in the guard or in an evaluation error.     *)
THEOREM CoherentRunEnds == Spec => []CoherentRunEndsByPredicate
<1>1. IInv => CoherentRunEndsByPredicate
  BY DEF IInv, RunInv, RuntimeLoaded, CoherentRunEndsByPredicate
<1> QED BY <1>1, Invariance, PTL

(* Whatever words a material gives for its plaintexts: once installed, it  *)
(* counts from a to b + 1 without wrap and drift, except from 0 to 2^64-1. *)
THEOREM InstalledCounts == Spec => []InstalledMaterialCounts
<1>1. IInv => InstalledMaterialCounts
  <2> SUFFICES ASSUME IInv, Intact(origin), Ascending(origin),
                      ~BothWrap(origin)
               PROVE  /\ origin.b_plaintext + 1 < PlaintextModulus
                      /\ \A k \in 0 .. Increments(origin) :
                           Decode(AddTimes(origin.a_prime, origin.one_prime, k),
                                  origin.hsk) = origin.a_plaintext + k
    BY DEF InstalledMaterialCounts, Ascending, Increments
  <2>1. origin \in Material /\ Accepted(origin)
    BY IntactFiles DEF IInv, DirInv
  <2>2. /\ origin.b_plaintext + 1 < PlaintextModulus
        /\ Counts(origin, Increments(origin) + 1)
    BY <2>1 DEF Accepted
  <2>3. Increments(origin) \in Nat
    BY <2>1, MaterialFacts
  <2>4. 0 .. Increments(origin) = 0 .. (Increments(origin) + 1) - 1
    BY <2>3
  <2> QED BY <2>2, <2>4 DEF Counts
<1> QED BY <1>1, Invariance, PTL

(* A setup run that reports success leaves nothing of another material,    *)
(* whatever mixture earlier runs have left.                                *)
THEOREM SuccessBelongs == Spec => []SuccessBelongsTogether
<1>1. IInv => SuccessBelongsTogether
  <2> SUFFICES ASSUME IInv, pc = "setup_done"
               PROVE  /\ BelongsTo(dir.shape, [dimension |-> Len(full.hsk)])
                      /\ \/ dir.artifact = Torn
                         \/ /\ Intact(dir.artifact)
                            /\ dir.artifact.hsk = full.hsk
                      /\ BelongsTo(dir.runtime, ToRuntimeMaterial(full))
    BY DEF SuccessBelongsTogether
  <2>1. ArtifactBelongs(full.hsk)
    BY DEF IInv, WrittenInv
  <2>2. \/ dir.artifact = Torn
        \/ Intact(dir.artifact) /\ dir.artifact.hsk = full.hsk
    BY <2>1, IntactFiles DEF IInv, ArtifactBelongs
  <2> QED BY <2>2 DEF IInv, WrittenInv
<1> QED BY <1>1, Invariance, PTL

(* What the runtime has loaded from an emptied directory belongs together. *)
LEMMA LoadedIsCoherent ==
  ASSUME IInv, FreshDirectory, RuntimeLoaded
  PROVE  Coherent
<1>1. /\ origin \in Material
      /\ dir.artifact \in [backend : Builds, hsk : Seq(Residues)]
  BY DEF IInv, RunInv
<1>2. /\ dir.artifact.hsk = full.hsk /\ origin = full
      /\ full \in Material /\ Decrypts(full)
  BY <1>1 DEF IInv, FreshInv
<1>3. Intact(origin) /\ Intact(dir.artifact)
  BY <1>1, IntactFiles DEF IInv
<1> QED BY <1>2, <1>3 DEF Coherent

(* A driver that empties the directory never runs files of two exports.    *)
THEOREM FreshIsCoherent == Spec => []FreshDirectoryIsCoherent
<1>1. IInv => FreshDirectoryIsCoherent
  BY LoadedIsCoherent DEF FreshDirectoryIsCoherent
<1> QED BY <1>1, Invariance, PTL

(* Every step of a fresh-directory driver is one of the plaintext loop or  *)
(* leaves the plaintext loop alone.                                        *)
LEMMA StepSimulation ==
  ASSUME FreshDirectory, IInv, [Next]_vars
  PROVE  [PlainLoop!Next]_PlainLoop!loopVars
<1>0. RuntimeLoaded => Coherent /\ Looping /\ origin \in Material
  BY LoadedIsCoherent DEF Looping, Coherent, IInv, RunInv
<1>i. Looping => RuntimeLoaded
  BY DEF Looping
<1>a. ~RuntimeLoaded => ~Looping
  BY DEF Looping
<1>b. ~RuntimeLoaded' => ~Looping'
  BY DEF Looping
<1>1. CASE ~RuntimeLoaded'
  <2>1. CASE ~Looping
    BY <1>1, <1>b, <2>1 DEF PlainLoop!loopVars
  <2>2. CASE Looping
    BY <1>1, <1>b, <2>2 DEF PlainLoop!Next, PlainLoop!Leave, PlainLoop!Quiet
  <2> QED BY <2>1, <2>2
<1>2. CASE StartRuntime
  <2>1. TypeOK' /\ RunInv' /\ FreshInv'
    BY TypeInductive, RunInductive, FreshInductive
  <2>2. /\ pc \in Ended /\ pc' = "rt_loop" /\ origin' = origin
        /\ rt'.iterations = 0 /\ rt'.predicate_sequence = <<>>
    BY <1>2 DEF StartRuntime
  <2>3. origin \in Material /\ Intact(origin)
    <3>1. origin' \in Material
      BY <2>1, <2>2 DEF RunInv, RuntimeLoaded
    <3> QED BY <2>2, <3>1, IntactFiles DEF IInv
  <2>4. Looping'
    BY <2>2, <2>3 DEF Looping, RuntimeLoaded, Intact
  <2>5. pc # "rt_loop"
    BY <2>2 DEF Ended
  <2>6. /\ origin.a_plaintext + 0 \in Plaintexts
        /\ origin.b_plaintext \in Plaintexts
    <3>0. Accepted(origin) /\ Decrypts(origin)
      BY <2>3 DEF IInv, DirInv, FreshInv
    <3>1. origin.a_plaintext \in Plaintexts /\ origin.b_plaintext \in Plaintexts
      BY <2>3, <3>0, DecryptsBelow DEF Accepted
    <3> QED BY <3>1, ModulusAssumption DEF Plaintexts
  <2> QED BY <2>2, <2>4, <2>5, <2>6 DEF PlainLoop!Next, PlainLoop!Begin
<1>f. ASSUME pc = "rt_loop"
      PROVE  /\ Coherent /\ Looping /\ Intact(origin)
             /\ rt \in RuntimeLocals /\ ~EvaluationThrows(rt.state)
             /\ rt.iterations \in Nat
             /\ rt.iterations <= kMaxDemoIterations
             /\ EvaluatePredicate(rt.state, dir.runtime.b_prime) <=>
                  origin.a_plaintext + rt.iterations <= origin.b_plaintext
             /\ origin.a_plaintext \in Nat /\ origin.b_plaintext \in Nat
             /\ rt.predicate_sequence = [i \in 1 .. rt.iterations |-> TRUE]
  <2>1. Coherent /\ Looping /\ origin \in Material
    BY <1>f, <1>0 DEF RuntimeLoaded
  <2>2. /\ origin.a_plaintext \in Nat /\ origin.b_plaintext \in Nat
    BY <2>1, MaterialFacts
  <2>3. rt.predicate_sequence = [i \in 1 .. rt.iterations |-> TRUE]
    BY <1>f, <2>1 DEF IInv, RunInv, RuntimeLoaded
  <2> QED BY <1>f, <2>1, <2>2, <2>3, CoherentIteration DEF Looping
<1>h. ASSUME pc = "rt_loop", NEW predicate \in BOOLEAN
      PROVE  PushPredicate(predicate) = Append(rt.predicate_sequence, predicate)
  <2>1. rt.iterations < MaxSequence
    BY <1>h, <1>f, GuardAssumption
  <2>2. Len(rt.predicate_sequence) = rt.iterations
    <3>1. rt.predicate_sequence \in Seq(BOOLEAN)
      BY <1>h, <1>f DEF RuntimeLocals
    <3>2. DOMAIN rt.predicate_sequence = 1 .. rt.iterations
      BY <1>h, <1>f
    <3> QED BY <1>h, <1>f, <3>1, <3>2, LenProperties
  <2> QED BY <2>1, <2>2 DEF PushPredicate
<1>3. CASE RuntimeThrows
  BY <1>3, <1>f DEF RuntimeThrows
<1>4. CASE RuntimeContinues
  <2>1. /\ pc = "rt_loop" /\ pc' = pc /\ origin' = origin
        /\ rt'.iterations = rt.iterations + 1
        /\ rt'.predicate_sequence = PushPredicate(TRUE)
        /\ EvaluatePredicate(rt.state, dir.runtime.b_prime)
    BY <1>4, <1>f DEF RuntimeContinues, NextIteration, RuntimeLocals
  <2>2. Looping /\ Looping'
    BY <2>1, <1>f DEF Looping, RuntimeLoaded, Intact
  <2>3. /\ origin.a_plaintext + rt.iterations <= origin.b_plaintext
        /\ origin.a_plaintext + rt'.iterations
             = (origin.a_plaintext + rt.iterations) + 1
    BY <2>1, <1>f
  <2>4. rt'.predicate_sequence = Append(rt.predicate_sequence, TRUE)
    BY <2>1, <1>h, Zenon
  <2> QED BY <2>1, <2>2, <2>3, <2>4 DEF PlainLoop!Next, PlainLoop!RevealTrue
<1>5. CASE RuntimeHitsGuard
  <2>1. ~RuntimeHitsGuard
    BY <1>f, <1>5, CoherentIteration, RunInductive
       DEF RuntimeHitsGuard, RunInv, RuntimeLoaded, Coherent
  <2> QED BY <1>5, <2>1
<1>6. CASE RuntimeFinishes
  <2>1. /\ pc = "rt_loop" /\ pc' = "rt_done" /\ origin' = origin
        /\ rt'.iterations = rt.iterations
        /\ rt'.predicate_sequence = PushPredicate(FALSE)
        /\ ~EvaluatePredicate(rt.state, dir.runtime.b_prime)
    BY <1>6, <1>f DEF RuntimeFinishes, RuntimeLocals
  <2>2. Looping /\ Looping'
    BY <2>1, <1>f DEF Looping, RuntimeLoaded, Intact
  <2>3. origin.a_plaintext + rt.iterations > origin.b_plaintext
    BY <2>1, <1>f
  <2>4. rt'.predicate_sequence = Append(rt.predicate_sequence, FALSE)
    BY <2>1, <1>h, Zenon
  <2> QED BY <2>1, <2>2, <2>3, <2>4 DEF PlainLoop!Next, PlainLoop!RevealFalse
<1>7. CASE UNCHANGED vars
  <2>1. UNCHANGED <<pc, origin, rt>>
    BY <1>7 DEF vars
  <2> QED BY <2>1 DEF PlainLoop!loopVars, Looping, RuntimeLoaded, Intact
<1>8. CASE Export \/ ExportFails \/ SupplyMaterial \/ StartSetup
           \/ RefuseSetup \/ SetupStep \/ SetupKilled \/ WriteCutUnnoticed
           \/ RefuseRuntime \/ RuntimeKilled
  <2>1. ~RuntimeLoaded'
    <3>1. CASE SetupStep
      <4>1. pc' = "validate" \/ pc' \in Writing \/ pc' \in {"setup_noise_unsafe",
              "setup_failed", "setup_done"}
        BY <3>1 DEF SetupStep, ValidateStep, ValidateLast, ValidateRejects,
           WriteShape, WriteArtifact, WriteRuntimeMaterial,
           RuntimeMaterialThrows, DescribeThrows, WriteManifest, Writing
      <4> QED BY <4>1 DEF RuntimeLoaded, Writing
    <3>2. CASE ~SetupStep
      BY <1>8, <3>2 DEF RuntimeLoaded, Export, ExportOf, ExportFails, SupplyMaterial,
         StartSetup, RefuseSetup, SetupKilled, RefuseRuntime, RuntimeKilled,
         WriteCutUnnoticed, WriteCutShort, NextFile
    <3> QED BY <3>1, <3>2
  <2> QED BY <2>1, <1>1
<1> QED BY <1>2, <1>3, <1>4, <1>5, <1>6, <1>7, <1>8 DEF Next, RuntimeStep

(* With a driver that empties the directory, the encrypted loop implements *)
(* the plaintext loop for all keys, noises, moduli and bounds.             *)
THEOREM FreshRefinesPlainLoop ==
  ASSUME FreshDirectory
  PROVE  Spec => RefinesPlainLoop
<1>1. Init => PlainLoop!Init
  BY DEF Init, PlainLoop!Init, PlainLoop!Quiet, Looping, RuntimeLoaded
<1>2. IInv /\ [Next]_vars => [PlainLoop!Next]_PlainLoop!loopVars
  BY StepSimulation
<1> QED BY <1>1, <1>2, Invariance, PTL DEF Spec, RefinesPlainLoop, PlainLoop!Spec

-----------------------------------------------------------------------------
(* The showcase script, for all keys, ciphertexts, noises and attempts.    *)

(* Where the script is, it knows how the program it ran has ended, that    *)
(* the material is the showcase's, and what the runtime directory holds.   *)
DriverInv ==
  /\ stage \in StagesEnded \cup StagesBusy
  /\ ~out_dir => stage = "not_run"
  /\ ~out_dir \/ stage = "keys" =>
       dir = EmptyDir /\ full = Nothing /\ exports = 0
  /\ full \in Material =>
       /\ full.a_plaintext = ShowcaseA /\ full.b_plaintext = ShowcaseB
       /\ full.hsk = key
  /\ stage \in {"keys", "attempt", "start_setup"} => dir = EmptyDir
  /\ stage = "setup" /\ pc \in {"validate", "setup_noise_unsafe"} =>
       dir = EmptyDir
  /\ stage \in {"attempt", "start_setup", "setup"} => key \in Keys
  /\ stage = "setup" => pc \in {"idle", "setup_done", "setup_failed",
                                "setup_noise_unsafe"} \cup SetupBusy
  /\ stage = "start_runtime" => Audit
  /\ stage = "runtime" =>
       pc \in {"rt_loop", "rt_done", "rt_guard", "rt_error", "idle"}
  /\ stage = "done" => pc = "rt_done"

(* What setup accepts, whatever the noise.                                 *)
Acceptable(material) ==
  /\ material \in Material
  /\ CircuitParams(material) /\ RuntimeConsistent(material)
  /\ LoopBounds(material) /\ ValidateParams(material)

(* As long as nothing has gone wrong around the programs.                  *)
UndisturbedInv ==
  ~disturbed =>
    /\ Torn \notin {dir.shape, dir.artifact, dir.runtime}
    /\ stage \in {"start_setup", "setup"} => Acceptable(full)
    /\ stage = "setup" => pc \in {"setup_done", "setup_noise_unsafe"}
                                   \cup SetupBusy
    /\ stage = "audit" => Audit
    /\ stage = "runtime" => pc # "idle"
    /\ stage = "attempt" => exports = 0 \/ pc = "setup_noise_unsafe"
    /\ stage = "failed" =>
         ~AttemptsLeft /\ (exports > 0 => pc = "setup_noise_unsafe")

(* The driver starts where the pipeline does.                              *)
LEMMA DriverStarts == DriverInit => Init /\ DriverInv /\ UndisturbedInv
<1> SUFFICES ASSUME DriverInit PROVE Init /\ DriverInv /\ UndisturbedInv
  OBVIOUS
<1>1. /\ Init /\ full = Nothing /\ dir = EmptyDir /\ exports = 0
      /\ stage = "not_run" /\ out_dir = FALSE
  BY DEF DriverInit, Init
<1>2. full \notin Material
  BY <1>1, FileAssumption
<1>3. DriverInv
  BY <1>1, <1>2 DEF DriverInv, StagesEnded
<1>4. UndisturbedInv
  BY <1>1, FileAssumption DEF UndisturbedInv, EmptyDir
<1> QED BY <1>1, <1>3, <1>4

(* Every step of the script is a step of the pipeline or leaves it alone.  *)
LEMMA DriverStepSimulation ==
  ASSUME DriverInv, [DriverNext]_driverVars
  PROVE  [Next]_vars
<1>1. CASE UNCHANGED driverVars
  BY <1>1 DEF driverVars, vars
<1>2. CASE StartShowcase \/ RefuseDirectory \/ GenerateKeys
  BY <1>2 DEF StartShowcase, RefuseDirectory, GenerateKeys
<1>3. CASE \/ NoAttemptLeft \/ SetupSucceeded \/ RetryAttempt
           \/ SetupNotRetried \/ AuditPasses \/ AuditFails
           \/ RuntimeSucceeded \/ RuntimeFailed \/ BuildOrKeysFail
  BY <1>3 DEF NoAttemptLeft, SetupSucceeded, RetryAttempt, SetupNotRetried,
     AuditPasses, AuditFails, RuntimeSucceeded, RuntimeFailed,
     BuildOrKeysFail, Script
<1>4. CASE ExportAttempt
  <2>1. ExportOf(key, ShowcaseA, ShowcaseB, 1)
    BY <1>4 DEF ExportAttempt, Runs
  <2>2. key \in Keys
    BY <1>4 DEF ExportAttempt, Runs, DriverInv
  <2> QED BY <2>1, <2>2, ShowcaseAssumption DEF Export, Next
<1>5. CASE ExportAttemptFails \/ ExportCutUnnoticed
  BY <1>5 DEF ExportAttemptFails, ExportCutUnnoticed, Runs, Next
<1>6. CASE \/ DriverStartsSetup \/ DriverSetupStep \/ DriverSetupFault
           \/ DriverStartsRuntime \/ DriverRuntimeStep
           \/ DriverRuntimeKilled
  BY <1>6 DEF DriverStartsSetup, DriverSetupStep, DriverSetupFault,
     DriverStartsRuntime, DriverRuntimeStep, DriverRuntimeKilled, Runs, Next
<1>7. CASE Interrupted
  BY <1>7 DEF Interrupted, Next
<1> QED BY <1>1, <1>2, <1>3, <1>4, <1>5, <1>6, <1>7
     DEF DriverNext, DriverStep, DriverFault, Undisturbed

-----------------------------------------------------------------------------
(***************************************************************************)
(* What the programs do to the state that the script relies on.            *)
(***************************************************************************)
(* No program but the exporter replaces the full material.                 *)
LEMMA FullIsKept ==
  ASSUME \/ StartSetup \/ RefuseSetup \/ SetupStep \/ WriteCutUnnoticed
         \/ SetupKilled \/ StartRuntime \/ RefuseRuntime \/ RuntimeStep
         \/ RuntimeKilled
  PROVE  full' = full
<1>1. CASE SetupStep
  BY <1>1 DEF SetupStep, ValidateStep, ValidateLast, ValidateRejects,
     WriteShape, DescribeThrows, WriteArtifact, WriteRuntimeMaterial,
     RuntimeMaterialThrows, WriteManifest
<1>2. CASE RuntimeStep
  BY <1>2 DEF RuntimeStep, RuntimeThrows, RuntimeContinues,
     RuntimeHitsGuard, RuntimeFinishes
<1>3. CASE \/ StartSetup \/ RefuseSetup \/ WriteCutUnnoticed \/ SetupKilled
           \/ StartRuntime \/ RefuseRuntime \/ RuntimeKilled
  BY <1>3 DEF StartSetup, RefuseSetup, WriteCutUnnoticed, SetupKilled,
     StartRuntime, RefuseRuntime, RuntimeKilled
<1> QED BY <1>1, <1>2, <1>3

(* Setup finds the noise before it writes anything.                        *)
LEMMA NoiseIsFoundFirst ==
  ASSUME SetupStep
  PROVE  /\ pc' \in {"setup_done", "setup_failed", "setup_noise_unsafe"}
                      \cup SetupBusy
         /\ pc' \in {"validate", "setup_noise_unsafe"} =>
              pc = "validate" /\ dir' = dir
BY DEF SetupStep, ValidateStep, ValidateLast, ValidateRejects, WriteShape,
   DescribeThrows, WriteArtifact, WriteRuntimeMaterial,
   RuntimeMaterialThrows, WriteManifest, SetupBusy, Writing

(* A step of the runtime loops, finishes, hits the guard or fails.         *)
LEMMA RuntimeStepEnds ==
  ASSUME RuntimeStep
  PROVE  pc' \in {"rt_loop", "rt_done", "rt_guard", "rt_error"}
BY DEF RuntimeStep, RuntimeThrows, RuntimeContinues, RuntimeHitsGuard,
   RuntimeFinishes

(* The audit asks for all that the runtime asks for.                       *)
LEMMA AuditedIsLoadable ==
  ASSUME IInv, Audit
  PROVE  \A backend \in Builds : Loadable(backend)
<1>1. /\ Intact(dir.shape) /\ Intact(dir.artifact) /\ Intact(dir.runtime)
      /\ RuntimeConsistent(dir.runtime)
      /\ dir.shape.dimension = Dimension(dir.runtime.a_prime)
  BY DEF Audit
<1>2. dir.artifact \in [backend : Builds, hsk : Seq(Residues)]
  BY <1>1, IntactFiles DEF IInv
<1>3. \A backend \in Builds : dir.artifact.backend = backend
  BY <1>2, ShowcaseAssumption
<1> QED BY <1>1, <1>3 DEF Loadable

(* Every step of the driver keeps its invariant.                           *)
LEMMA DriverInductive ==
  ASSUME IInv, IInv', DriverInv, [DriverNext]_driverVars
  PROVE  DriverInv'
<1> USE DEF DriverInv, StagesBusy, StagesEnded
<1>1. CASE UNCHANGED driverVars
  BY <1>1 DEF driverVars, Audit
<1>2. CASE StartShowcase
  BY <1>2 DEF StartShowcase, MayCreate, vars
<1>3. CASE RefuseDirectory
  BY <1>3 DEF RefuseDirectory, MayCreate, vars
<1>4. CASE GenerateKeys
  <2>1. full' = Nothing /\ dir' = EmptyDir
    BY <1>4 DEF GenerateKeys, vars
  <2>2. full' \notin Material
    BY <2>1, FileAssumption
  <2> QED BY <1>4, <2>1, <2>2 DEF GenerateKeys, vars
<1>5. CASE \/ NoAttemptLeft \/ BuildOrKeysFail \/ SetupSucceeded
           \/ RetryAttempt \/ SetupNotRetried \/ AuditFails
           \/ RuntimeSucceeded \/ RuntimeFailed
  BY <1>5 DEF NoAttemptLeft, BuildOrKeysFail, SetupSucceeded, RetryAttempt,
     Retryable, SetupNotRetried, AuditFails, RuntimeSucceeded,
     RuntimeFailed, Script, vars
<1>6. CASE AuditPasses
  <2>1. Audit'
    BY <1>6 DEF AuditPasses, Audit, Script, vars
  <2> QED BY <1>6, <2>1 DEF AuditPasses, Script, vars
<1>7. CASE ExportAttempt
  <2>1. /\ full'.a_plaintext = ShowcaseA /\ full'.b_plaintext = ShowcaseB
        /\ full'.hsk = key /\ key' = key
        /\ dir' = EmptyDir
    BY <1>7, ShowcaseAssumption
       DEF ExportAttempt, Runs, ExportOf, PrepareDirectory
  <2> QED BY <1>7, <2>1 DEF ExportAttempt, Runs
<1>8. CASE ExportAttemptFails \/ ExportCutUnnoticed
  <2>1. dir' = EmptyDir /\ full' \in {full, Torn}
    BY <1>8, ShowcaseAssumption DEF ExportAttemptFails, ExportCutUnnoticed,
       Runs, ExportFails, PrepareDirectory
  <2>2. full' \in Material => full' = full
    BY <2>1, FileAssumption
  <2> QED BY <1>8, <2>1, <2>2 DEF ExportAttemptFails, ExportCutUnnoticed, Runs
<1>9. CASE DriverStartsSetup
  <2>1. /\ full' = full /\ dir' = dir
        /\ pc' \in {"validate", "write_shape", "setup_failed"}
    BY <1>9 DEF DriverStartsSetup, Runs, StartSetup, RefuseSetup
  <2> QED BY <1>9, <2>1 DEF DriverStartsSetup, Runs, SetupBusy, Writing
<1>10. CASE DriverSetupStep
  <2>1. SetupStep
    BY <1>10 DEF DriverSetupStep, Runs
  <2> QED BY <1>10, <2>1, FullIsKept, NoiseIsFoundFirst
          DEF DriverSetupStep, Runs
<1>11. CASE DriverSetupFault
  <2>1. WriteCutUnnoticed \/ SetupKilled
    BY <1>11 DEF DriverSetupFault, Runs
  <2>2. pc' \in Writing \cup {"idle"}
    BY <2>1 DEF WriteCutUnnoticed, WriteCutShort, SetupKilled, NextFile,
       Writing
  <2> QED BY <1>11, <2>1, <2>2, FullIsKept
          DEF DriverSetupFault, Runs, SetupBusy, Writing
<1>12. CASE DriverStartsRuntime
  <2>1. StartRuntime \/ RefuseRuntime
    BY <1>12 DEF DriverStartsRuntime, Runs
  <2>2. ~RefuseRuntime
    BY <1>12, AuditedIsLoadable DEF DriverStartsRuntime, Runs, RefuseRuntime
  <2>3. pc' = "rt_loop"
    BY <2>1, <2>2 DEF StartRuntime
  <2> QED BY <1>12, <2>1, <2>3, FullIsKept DEF DriverStartsRuntime, Runs
<1>13. CASE DriverRuntimeStep \/ DriverRuntimeKilled
  <2>1. RuntimeStep \/ RuntimeKilled
    BY <1>13 DEF DriverRuntimeStep, DriverRuntimeKilled, Runs
  <2>2. pc' \in {"rt_loop", "rt_done", "rt_guard", "rt_error", "idle"}
    BY <2>1, RuntimeStepEnds DEF RuntimeKilled
  <2> QED BY <1>13, <2>1, <2>2, FullIsKept
          DEF DriverRuntimeStep, DriverRuntimeKilled, Runs
<1>14. CASE Interrupted
  <2>1. full' = full
    BY <1>14, FullIsKept DEF Interrupted, vars
  <2> QED BY <1>14, <2>1 DEF Interrupted
<1> QED BY <1>1, <1>2, <1>3, <1>4, <1>5, <1>6, <1>7, <1>8, <1>9, <1>10,
           <1>11, <1>12, <1>13, <1>14
        DEF DriverNext, DriverStep, DriverFault, Undisturbed

(* The exporter's material is refused for its noise only.                  *)
LEMMA ExportedIsAcceptable ==
  ASSUME ExportOf(key, ShowcaseA, ShowcaseB, 1), key \in Keys
  PROVE  Acceptable(full')
<1>1. PICK a_prime \in EncryptVerify[key][ShowcaseA],
           b_prime \in EncryptVerify[key][ShowcaseB],
           one_prime \in EncryptVerify[key][1] :
        full' = [hsk |-> key, a_prime |-> a_prime, b_prime |-> b_prime,
                 one_prime |-> one_prime, a_plaintext |-> ShowcaseA,
                 b_plaintext |-> ShowcaseB, one_plaintext |-> 1]
  BY DEF ExportOf
<1>2. /\ ShowcaseA \in Plaintexts /\ ShowcaseB \in Plaintexts
      /\ 1 \in Plaintexts
  BY ShowcaseAssumption
<1>3. \A m \in Plaintexts : EncryptVerify[key][m] =
        {c \in Ciphertexts :
           Dimension(c) = Len(key) /\ Decode(c, key) = m}
  BY DEF EncryptVerify
<1>4. /\ Dimension(a_prime) = Len(key) /\ Dimension(b_prime) = Len(key)
      /\ Dimension(one_prime) = Len(key)
  BY <1>2, <1>3
<1>5. full' \in Material
  BY <1>2, ExportedMaterial DEF Export
<1>6. LoopBounds(full')
  <2>1. ShowcaseB \in Nat /\ ShowcaseB + 1 < WordModulus
    BY <1>2, PlainShowcaseAssumption, WordAssumption, ModulusAssumption
       DEF Plaintexts
  <2>2. AddU64(ShowcaseB, 1) = ShowcaseB + 1
    <3>1. 1 \in Nat
      OBVIOUS
    <3> QED BY <2>1, <3>1, NoWrap
  <2> QED BY <1>1, <2>2, PlainShowcaseAssumption DEF LoopBounds
<1>7. ValidateParams(full')
  BY <1>1, PlainShowcaseAssumption DEF ValidateParams
<1> QED BY <1>1, <1>4, <1>5, <1>6, <1>7
        DEF Acceptable, CircuitParams, RuntimeConsistent

(* Setup does not fail over such a material, unless a sum has drifted.     *)
LEMMA SetupFailsForNoise ==
  ASSUME IInv, SetupStep, Acceptable(full)
  PROVE  pc' # "setup_failed"
<1>s. pc \in SetupBusy => full \in Material /\ setup.material = full
  BY DEF IInv, SetupInv
<1>w. /\ "write_shape" \in SetupBusy /\ "write_runtime" \in SetupBusy
      /\ "validate" \in SetupBusy
  BY DEF SetupBusy, Writing
<1>1. CASE ValidateRejects
  <2> SUFFICES ASSUME pc = "validate", ~CanAddOne(setup) PROVE FALSE
    BY <1>1 DEF ValidateRejects
  <2>1. /\ setup.state = AddTimes(full.a_prime, full.one_prime, setup.step)
        /\ setup \in SetupLocals
    BY <1>w DEF IInv, SetupInv, Acceptable
  <2>2. setup.step \in Nat
    BY <2>1, WordAssumption DEF SetupLocals, Words
  <2>3. /\ full.a_prime \in Ciphertext /\ full.one_prime \in Ciphertext
        /\ Len(full.a_prime.a) = Len(full.one_prime.a)
    BY MaterialFacts DEF Acceptable, RuntimeConsistent, Dimension
  <2>4. Len(setup.state.a) = Len(full.one_prime.a)
    BY <2>1, <2>2, <2>3, AddTimesType
  <2> QED BY <2>4, <1>s, <1>w DEF CanAddOne, Dimension
<1>2. CASE DescribeThrows
  BY <1>2, <1>s, <1>w DEF DescribeThrows, Acceptable
<1>3. CASE RuntimeMaterialThrows
  BY <1>3, <1>s, <1>w DEF RuntimeMaterialThrows, Acceptable
<1>4. CASE \/ ValidateStep \/ ValidateLast \/ WriteShape \/ WriteArtifact
           \/ WriteRuntimeMaterial \/ WriteManifest
  BY <1>4 DEF ValidateStep, ValidateLast, WriteShape, WriteArtifact,
     WriteRuntimeMaterial, WriteManifest
<1> QED BY <1>1, <1>2, <1>3, <1>4 DEF SetupStep

(* Only a write that is cut leaves a torn file.                            *)
LEMMA SetupTearsNothing ==
  ASSUME IInv, SetupStep, Torn \notin {dir.shape, dir.artifact, dir.runtime}
  PROVE  Torn \notin {dir'.shape, dir'.artifact, dir'.runtime}
<1> DEFINE Artifacts == [backend : Builds, hsk : Seq(Residues)]
<1>0. /\ dir \in Directory
      /\ pc \in SetupBusy => full \in Material /\ setup.material = full
  BY DEF IInv, TypeOK, SetupInv
<1>w. /\ "write_shape" \in SetupBusy /\ "write_artifact" \in SetupBusy
      /\ "write_runtime" \in SetupBusy
  BY DEF SetupBusy, Writing
<1>n. Torn \notin [dimension : Nat] /\ Torn \notin RuntimeMaterial
      /\ Torn \notin Artifacts
  BY FileAssumption
<1>1. CASE WriteShape
  <2>1. /\ dir' = [dir EXCEPT !.shape = [dimension |-> Len(full.hsk)]]
        /\ Len(full.hsk) \in Nat
    BY <1>1, <1>0, <1>w, MaterialFacts DEF WriteShape
  <2>2. [dimension |-> Len(full.hsk)] \in [dimension : Nat]
    BY <2>1
  <2> QED BY <2>1, <2>2, <1>0, <1>n DEF Directory
<1>2. CASE WriteArtifact
  <2>1. PICK backend \in Builds :
          dir' = [dir EXCEPT
            !.artifact = [backend |-> backend, hsk |-> full.hsk]]
    BY <1>2, <1>0, <1>w DEF WriteArtifact
  <2>2. [backend |-> backend, hsk |-> full.hsk] \in Artifacts
    BY <1>2, <1>0, <1>w, MaterialFacts DEF WriteArtifact
  <2> HIDE DEF Artifacts
  <2> QED BY <2>1, <2>2, <1>0, <1>n DEF Directory
<1>3. CASE WriteRuntimeMaterial
  <2>1. /\ dir' = [dir EXCEPT !.runtime = ToRuntimeMaterial(full)]
        /\ full \in Material
    BY <1>3, <1>0, <1>w DEF WriteRuntimeMaterial
  <2>2. ToRuntimeMaterial(full) \in RuntimeMaterial
    BY <2>1 DEF ToRuntimeMaterial, Material, RuntimeMaterial
  <2> QED BY <2>1, <2>2, <1>0, <1>n DEF Directory
<1>4. CASE \/ ValidateStep \/ ValidateLast \/ ValidateRejects
           \/ DescribeThrows \/ RuntimeMaterialThrows \/ WriteManifest
  BY <1>4 DEF ValidateStep, ValidateLast, ValidateRejects, DescribeThrows,
     RuntimeMaterialThrows, WriteManifest
<1> QED BY <1>1, <1>2, <1>3, <1>4 DEF SetupStep

(* What setup reports to have written, and nothing has cut, is audited     *)
(* with success.                                                           *)
LEMMA WrittenIsAudited ==
  ASSUME IInv, pc = "setup_done",
         Torn \notin {dir.shape, dir.artifact, dir.runtime}
  PROVE  Audit
<1>1. /\ full \in Material /\ CircuitParams(full)
      /\ dir.shape = [dimension |-> Len(full.hsk)]
      /\ dir.artifact \in [backend : Builds, hsk : Seq(Residues)]
      /\ dir.artifact.hsk = full.hsk
      /\ dir.runtime = ToRuntimeMaterial(full)
  BY DEF IInv, WrittenInv, BelongsTo, ArtifactBelongs
<1>2. Len(full.hsk) \in Nat
  BY <1>1, MaterialFacts
<1>3. /\ Intact(full) /\ Intact(dir.shape) /\ Intact(dir.artifact)
      /\ Intact(dir.runtime)
  <2>1. dir.shape \in [dimension : Nat]
    BY <1>1, <1>2
  <2>2. dir.runtime \in RuntimeMaterial
    BY <1>1 DEF ToRuntimeMaterial, Material, RuntimeMaterial
  <2> QED BY <1>1, <2>1, <2>2, IntactFiles DEF IInv
<1>4. RuntimeConsistent(dir.runtime)
  <2>1. origin \in Material
    BY <1>3, IntactFiles DEF IInv, DirInv
  <2>2. RuntimeConsistent(origin) /\ dir.runtime = ToRuntimeMaterial(origin)
    BY <2>1 DEF IInv, DirInv
  <2>3. /\ dir.runtime.a_prime = origin.a_prime
        /\ dir.runtime.b_prime = origin.b_prime
        /\ dir.runtime.one_prime = origin.one_prime
    BY <2>2 DEF ToRuntimeMaterial
  <2> QED BY <2>2, <2>3 DEF RuntimeConsistent
<1>5. dir.runtime.a_prime = full.a_prime
  BY <1>1 DEF ToRuntimeMaterial
<1> QED BY <1>1, <1>3, <1>4, <1>5 DEF Audit, CircuitParams

(* A runtime of the driver does not fail.                                  *)
LEMMA DriverRunsWell ==
  ASSUME IInv, DriverInv, stage = "runtime"
  PROVE  pc \in {"rt_loop", "rt_done", "idle"}
<1>1. pc \in {"rt_loop", "rt_done", "rt_guard", "rt_error", "idle"}
  BY DEF DriverInv
<1>2. CASE RuntimeLoaded
  <2>1. Coherent
    BY <1>2, LoadedIsCoherent, ShowcaseAssumption
  <2> QED BY <1>1, <1>2, <2>1 DEF IInv, RunInv
<1> QED BY <1>1, <1>2 DEF RuntimeLoaded

(* With nothing wrong around the programs, the script goes wrong for noise *)
(* only.                                                                   *)
LEMMA UndisturbedInductive ==
  ASSUME IInv, DriverInv, UndisturbedInv, [DriverNext]_driverVars
  PROVE  UndisturbedInv'
<1> SUFFICES ASSUME ~disturbed' PROVE UndisturbedInv'
  BY DEF UndisturbedInv
<1>1. CASE UNCHANGED driverVars
  BY <1>1 DEF driverVars, UndisturbedInv, Audit, AttemptsLeft
<1> SUFFICES ASSUME DriverNext PROVE UndisturbedInv'
  BY <1>1
<1>2. ~disturbed /\ (StartShowcase \/ RefuseDirectory \/ DriverStep)
  BY DEF DriverNext, Undisturbed
<1>0. /\ Torn \notin {dir.shape, dir.artifact, dir.runtime}
      /\ stage \in {"start_setup", "setup"} => Acceptable(full)
      /\ stage = "setup" => pc \in {"setup_done", "setup_noise_unsafe"}
                                     \cup SetupBusy
      /\ stage = "audit" => Audit
      /\ stage = "runtime" => pc # "idle"
      /\ stage = "attempt" => exports = 0 \/ pc = "setup_noise_unsafe"
  BY <1>2 DEF UndisturbedInv
<1>a. ASSUME UNCHANGED dir,
             stage' \in {"keys", "refused", "start_runtime", "done"}
      PROVE  UndisturbedInv'
  BY <1>a, <1>0 DEF UndisturbedInv
<1>3. CASE StartShowcase \/ RefuseDirectory
  BY <1>3, <1>a DEF StartShowcase, RefuseDirectory, vars
<1>4. CASE GenerateKeys
  <2>1. UNCHANGED vars /\ stage' = "attempt" /\ exports = 0
    BY <1>4 DEF GenerateKeys, DriverInv
  <2> QED BY <2>1, <1>0 DEF UndisturbedInv, vars
<1>5. CASE ExportAttempt
  <2>1. /\ stage' = "start_setup" /\ dir' = EmptyDir
        /\ ExportOf(key, ShowcaseA, ShowcaseB, 1)
    BY <1>5, ShowcaseAssumption
       DEF ExportAttempt, Runs, ExportOf, PrepareDirectory
  <2>2. Acceptable(full)'
    BY <1>5, <2>1, ExportedIsAcceptable DEF ExportAttempt, Runs, DriverInv,
       Acceptable
  <2>3. Torn \notin {dir'.shape, dir'.artifact, dir'.runtime}
    BY <2>1, FileAssumption DEF EmptyDir
  <2> QED BY <2>1, <2>2, <2>3 DEF UndisturbedInv
<1>6. CASE NoAttemptLeft
  <2>1. /\ UNCHANGED vars /\ stage' = "failed" /\ ~AttemptsLeft
        /\ exports = 0 \/ pc = "setup_noise_unsafe"
    BY <1>6, <1>0 DEF NoAttemptLeft, Script
  <2> QED BY <2>1, <1>0 DEF UndisturbedInv, vars, AttemptsLeft
<1>7. CASE DriverStartsSetup
  <2>1. /\ stage = "start_setup" /\ stage' = "setup"
        /\ StartSetup \/ RefuseSetup
    BY <1>7 DEF DriverStartsSetup, Runs
  <2>2. Acceptable(full)
    BY <2>1, <1>0
  <2>3. Intact(full) /\ CircuitParams(full) /\ LoopBounds(full)
    BY <2>2, IntactFiles DEF Acceptable, IInv
  <2>4. StartSetup
    BY <2>1, <2>3 DEF RefuseSetup
  <2>5. /\ UNCHANGED <<full, dir>> /\ pc' \in SetupBusy
    BY <2>4 DEF StartSetup, SetupBusy, Writing
  <2> QED BY <2>1, <2>2, <2>5, <1>0 DEF UndisturbedInv, Acceptable
<1>8. CASE DriverSetupStep
  <2>1. /\ stage = "setup" /\ stage' = "setup" /\ SetupStep
        /\ Acceptable(full)
    BY <1>8, <1>0 DEF DriverSetupStep, Runs
  <2>2. full' = full
    BY <2>1, FullIsKept
  <2>3. pc' \in {"setup_done", "setup_noise_unsafe"} \cup SetupBusy
    BY <2>1, NoiseIsFoundFirst, SetupFailsForNoise
  <2>4. Torn \notin {dir'.shape, dir'.artifact, dir'.runtime}
    BY <2>1, <1>0, SetupTearsNothing
  <2> QED BY <2>1, <2>2, <2>3, <2>4 DEF UndisturbedInv, Acceptable
<1>9. CASE SetupSucceeded
  <2>1. pc = "setup_done" /\ UNCHANGED vars /\ stage' = "audit"
    BY <1>9 DEF SetupSucceeded, Script
  <2>2. Audit
    BY <2>1, <1>0, WrittenIsAudited
  <2>3. Audit'
    BY <2>1, <2>2 DEF Audit, vars
  <2> QED BY <2>1, <2>3, <1>0 DEF UndisturbedInv, vars
<1>10. CASE RetryAttempt
  <2>1. /\ pc = "setup_noise_unsafe" /\ UNCHANGED vars
        /\ stage' = "attempt"
    BY <1>10 DEF RetryAttempt, Retryable, Script
  <2> QED BY <2>1, <1>0 DEF UndisturbedInv, vars
<1>11. CASE SetupNotRetried
  <2>1. stage = "setup" /\ pc \in {"setup_failed", "idle"}
    BY <1>11 DEF SetupNotRetried, Retryable, Script
  <2>2. pc \notin {"setup_done", "setup_noise_unsafe"} \cup SetupBusy
    BY <2>1 DEF SetupBusy, Writing
  <2> QED BY <2>1, <2>2, <1>0
<1>12. CASE AuditPasses
  BY <1>12, <1>a DEF AuditPasses, Script, vars
<1>13. CASE AuditFails
  BY <1>13, <1>0 DEF AuditFails, Script
<1>14. CASE DriverStartsRuntime
  <2>1. /\ stage' = "runtime" /\ UNCHANGED dir
        /\ pc' \in {"rt_loop", "rt_refused"}
    BY <1>14 DEF DriverStartsRuntime, Runs, StartRuntime, RefuseRuntime
  <2> QED BY <2>1, <1>0 DEF UndisturbedInv
<1>15. CASE DriverRuntimeStep
  <2>1. stage' = "runtime" /\ RuntimeStep
    BY <1>15 DEF DriverRuntimeStep, Runs
  <2>2. UNCHANGED dir
    BY <2>1 DEF RuntimeStep, RuntimeThrows, RuntimeContinues,
       RuntimeHitsGuard, RuntimeFinishes
  <2> QED BY <2>1, <2>2, <1>0, RuntimeStepEnds DEF UndisturbedInv
<1>16. CASE RuntimeSucceeded
  BY <1>16, <1>a DEF RuntimeSucceeded, Script, vars
<1>17. CASE RuntimeFailed
  <2>1. stage = "runtime" /\ pc \notin {"rt_loop", "rt_done"}
    BY <1>17 DEF RuntimeFailed, Script
  <2> QED BY <2>1, <1>0, DriverRunsWell
<1> QED BY <1>2, <1>3, <1>4, <1>5, <1>6, <1>7, <1>8, <1>9, <1>10, <1>11,
           <1>12, <1>13, <1>14, <1>15, <1>16, <1>17 DEF DriverStep
-----------------------------------------------------------------------------
(* The script keeps the pipeline's invariant and its own.                  *)
LEMMA DriverInvariance == DriverSpec => [](IInv /\ DriverInv /\ UndisturbedInv)
<1>1. DriverInit => IInv /\ DriverInv /\ UndisturbedInv
  BY DriverStarts, InitInv
<1>2. IInv /\ DriverInv /\ UndisturbedInv /\ [DriverNext]_driverVars
        => (IInv /\ DriverInv /\ UndisturbedInv)'
  <2> SUFFICES ASSUME IInv, DriverInv, UndisturbedInv,
                      [DriverNext]_driverVars
               PROVE  IInv' /\ DriverInv' /\ UndisturbedInv'
    OBVIOUS
  <2>1. [Next]_vars
    BY DriverStepSimulation
  <2>2. IInv'
    BY <2>1, TypeInductive, SetupInductive, DirInductive, RunInductive,
       FreshInductive, WrittenInductive DEF IInv
  <2> QED BY <2>2, DriverInductive, UndisturbedInductive
<1> QED BY <1>1, <1>2, PTL DEF DriverSpec

(* A showcase that ends well has revealed the plaintext loop's predicates. *)
THEOREM ShowcaseReveals == DriverSpec => []ShowcaseIsExact
<1>1. IInv /\ DriverInv => ShowcaseIsExact
  <2> SUFFICES ASSUME IInv, DriverInv, stage = "done"
               PROVE  rt.predicate_sequence =
                        IdealSequence(ShowcaseA, ShowcaseB)
    BY DEF ShowcaseIsExact
  <2>1. pc = "rt_done" /\ RuntimeLoaded
    BY DEF DriverInv, RuntimeLoaded
  <2>2. Coherent
    BY <2>1, LoadedIsCoherent, ShowcaseAssumption
  <2>3. origin = full /\ full \in Material
    BY <2>1, ShowcaseAssumption DEF IInv, RunInv, FreshInv
  <2>4. rt.predicate_sequence =
          IdealSequence(origin.a_plaintext, origin.b_plaintext)
    BY <2>1, <2>2 DEF IInv, RunInv
  <2> QED BY <2>3, <2>4 DEF DriverInv
<1> QED BY <1>1, DriverInvariance, PTL

(* After the audit, the runtime is not refused, does not throw, and does   *)
(* not end in its guard.                                                   *)
THEOREM AuditedFinishes == DriverSpec => []AuditedRuntimeFinishes
<1>1. IInv /\ DriverInv => AuditedRuntimeFinishes
  <2> SUFFICES ASSUME IInv, DriverInv, stage = "runtime"
               PROVE  pc \notin {"rt_refused", "rt_guard", "rt_error"}
    BY DEF AuditedRuntimeFinishes
  <2> QED BY DriverRunsWell
<1> QED BY <1>1, DriverInvariance, PTL

(* An attempt that is given up has left nothing behind.                    *)
THEOREM RejectedLeavesNothing == DriverSpec => []RejectedAttemptLeavesNothing
<1>1. DriverInv => RejectedAttemptLeavesNothing
  BY DEF DriverInv, RejectedAttemptLeavesNothing
<1> QED BY <1>1, DriverInvariance, PTL

(* A showcase that nothing disturbs fails only after its last attempt was  *)
(* unsafe for the loop.                                                    *)
THEOREM UndisturbedFailsForNoise == DriverSpec => []FailsForNoiseOnly
<1>1. UndisturbedInv => FailsForNoiseOnly
  BY DEF UndisturbedInv, FailsForNoiseOnly
<1> QED BY <1>1, DriverInvariance, PTL

(* The full material and the artifact are always of the key they lie with. *)
THEOREM FilesKeepTheirKey == DriverSpec => []KeyBelongsToFiles
<1>1. IInv /\ DriverInv => KeyBelongsToFiles
  <2> SUFFICES ASSUME IInv, DriverInv PROVE KeyBelongsToFiles
    OBVIOUS
  <2>1. Intact(full) => full \in Material
    BY IntactFiles DEF IInv
  <2>2. Intact(dir.artifact) =>
          full \in Material /\ dir.artifact.hsk = full.hsk
    BY IntactFiles, ShowcaseAssumption DEF IInv, FreshInv
  <2> QED BY <2>1, <2>2 DEF DriverInv, KeyBelongsToFiles
<1> QED BY <1>1, DriverInvariance, PTL
=============================================================================
