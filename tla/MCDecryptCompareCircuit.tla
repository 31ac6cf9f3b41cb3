---------------------- MODULE MCDecryptCompareCircuit ----------------------
(***************************************************************************)
(* Instances of the circuit for TLC: q = 16, p = 4, every ternary key of   *)
(* one and of two coefficients, every body, and masks that wrap.           *)
(***************************************************************************)
EXTENDS DecryptCompareCircuit

Ternary == {0, 1, CiphertextModulus - 1}

MCSecretKeys == [1 .. 1 -> Ternary] \cup [1 .. 2 -> Ternary]

Masked(masks, bodies) == [a : masks, body : bodies]

MCLeftOperands == Masked({<<0>>, <<1>>, <<8>>, <<15>>, <<5, 11>>, <<15, 9>>}, Residues)

(* Bodies on both sides of every rounding boundary.                        *)
MCRightOperands == Masked({<<7>>, <<3, 14>>}, {1, 2, 5, 6, 9, 10, 13, 14, 15})
=============================================================================
