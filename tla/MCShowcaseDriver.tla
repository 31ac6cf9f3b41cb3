------------------------- MODULE MCShowcaseDriver -------------------------
(***************************************************************************)
(* The showcase for TLC: q = 16, p = 4, ternary keys of one coefficient,   *)
(* and ciphertexts with noise -2, 0 and 1 of the four noises that decrypt: *)
(* most materials are unsafe for the loop, some are safe.                  *)
(***************************************************************************)
EXTENDS ShowcaseDriver

MCKeys == {<<1>>, <<CiphertextModulus - 1>>}
MCCiphertexts == [a : {<<4>>}, body : {b \in Residues : b % 4 # 3}]
=============================================================================
