------------------------- MODULE MCRuntimePipeline -------------------------
(***************************************************************************)
(* Instances of the pipeline for TLC: q = 16, p = 4, so that a plaintext   *)
(* step is 4 wide and a fresh ciphertext decrypts with any of the four     *)
(* noises -2 .. 1, and ternary keys of one or two coefficients.            *)
(***************************************************************************)
EXTENDS LWERuntimePipeline

Minus1 == CiphertextModulus - 1

(* All the noises, one mask: every material there is for these keys.       *)
MCKeys == {<<1>>, <<Minus1>>}
MCCiphertexts == [a : {<<5>>}, body : Residues]

(* Few ciphertexts, but keys of two dimensions: the bodies decrypt to      *)
(* 0, 1, 2 under <<1>>, to 3, 0, 1 under <<-1>> and to 0, 1 under <<1, 0>>. *)
MCRebuildKeys == {<<1>>, <<Minus1>>, <<1, 0>>}
MCRebuildCiphertexts ==
  [a : {<<6>>}, body : {6, 10, 14}] \cup [a : {<<6, 9>>}, body : {6, 10}]

(* Two of these bodies are enough for a 1 under every key.                 *)
MCMixedCiphertexts == {c \in MCRebuildCiphertexts : c.a = <<6, 9>> \/ c.body # 6}

(* Materials a user wrote or edited: an a > b whose one' has another       *)
(* length, a b' whose body does not decrypt to its plaintext, a one' of    *)
(* another length that the increment chain meets, a key that is not        *)
(* ternary, and a > b with a one' that is not Enc(1).  The last two claim   *)
(* the greatest word for b: from 0 both sums of setup's bounds wrap around *)
(* and no step is decoded but the first; from 1 the loop's own condition   *)
(* never ends it, with a one' that is Enc(0).                              *)
UserMaterial(hsk, a, b, one, am, bm) ==
  [hsk |-> hsk, a_prime |-> a, b_prime |-> b, one_prime |-> one,
   a_plaintext |-> am, b_plaintext |-> bm, one_plaintext |-> 1]
Short(body) == [a |-> <<6>>, body |-> body]
Long(body) == [a |-> <<6, 9>>, body |-> body]
MCUserMaterials ==
  {UserMaterial(<<1>>, Short(14), Short(6), Long(10), 2, 0),
   UserMaterial(<<1>>, Short(6), Short(14), Short(10), 0, 1),
   UserMaterial(<<1>>, Short(6), Short(10), Long(10), 0, 1),
   UserMaterial(<<2>>, Short(14), Short(6), Short(10), 2, 0),
   UserMaterial(<<1>>, Short(14), Short(6), Short(14), 2, 0),
   UserMaterial(<<1>>, Short(6), Short(14), Short(10), 0, WordModulus - 1),
   UserMaterial(<<1>>, Short(10), Short(14), Short(6), 1, WordModulus - 1)}
=============================================================================
