----------------------------- MODULE LWEInteger -----------------------------
(***************************************************************************)
(* The LWE integer arithmetic that the exporter, the setup tool and the    *)
(* runtime each carry their own copy of.  A ciphertext is a mask a of      *)
(* residues, one per coefficient of the secret key, and a body; a secret   *)
(* key is the sequence hsk_mod_q of its coefficients modulo q.             *)
(***************************************************************************)
EXTENDS Integers, Sequences

CONSTANTS
  PlaintextModulus,    \* p: 16 in the program
  CiphertextModulus    \* q: a power of two, 512 for TOY, 1024 for STD128

(* ValidateParams of the decrypt-compare circuit refuses other moduli.     *)
ASSUME ModulusAssumption ==
  /\ PlaintextModulus \in Nat \ {0}
  /\ CiphertextModulus \in Nat \ {0}
  /\ CiphertextModulus % (2 * PlaintextModulus) = 0

Plaintexts == 0 .. (PlaintextModulus - 1)
Residues   == 0 .. (CiphertextModulus - 1)
Ciphertext == [a : Seq(Residues), body : Residues]

Dimension(c) == Len(c.a)

(* Mutant: the sum is not reduced.                                         *)
AddModUnreduced(lhs, rhs) == lhs + rhs

AddMod(lhs, rhs) == (lhs + rhs) % CiphertextModulus
MulMod(lhs, rhs) == (lhs * rhs) % CiphertextModulus

(* AddCiphertextsModQ: coefficient by coefficient, body with body.         *)
AddCiphertextsModQ(lhs, rhs) ==
  [a    |-> [i \in 1 .. Len(lhs.a) |-> AddMod(lhs.a[i], rhs.a[i])],
   body |-> AddMod(lhs.body, rhs.body)]

(* The k-fold sum c + one + ... + one in closed form, a reference for what *)
(* adding one ciphertext after the other must give.                        *)
AddTimes(c, one, k) ==
  [a    |-> [i \in 1 .. Len(c.a) |->
               (c.a[i] + k * one.a[i]) % CiphertextModulus],
   body |-> (c.body + k * one.body) % CiphertextModulus]

(* The pad <a, hsk> mod q, accumulated from the first coefficient on.      *)
Pad(c, hsk) ==
  LET sum[i \in 0 .. Len(hsk)] ==
        IF i = 0 THEN 0 ELSE AddMod(sum[i - 1], MulMod(c.a[i], hsk[i]))
  IN  sum[Len(hsk)]

Phase(c, hsk) ==
  (c.body + CiphertextModulus - Pad(c, hsk)) % CiphertextModulus

(* Half a plaintext step is added before the division, so that a phase     *)
(* just below q rounds to 0 and not to p.                                  *)
Rounded(c, hsk) ==
  (Phase(c, hsk) + CiphertextModulus \div (2 * PlaintextModulus))
    % CiphertextModulus

Decode(c, hsk) ==
  (PlaintextModulus * Rounded(c, hsk)) \div CiphertextModulus

(* The only secret coefficients the circuit accepts: 0, 1 and -1 mod q.    *)
IsTernary(hsk) ==
  \A i \in 1 .. Len(hsk) : hsk[i] \in {0, 1, CiphertextModulus - 1}
=============================================================================
