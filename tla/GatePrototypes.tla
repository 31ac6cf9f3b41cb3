--------------------------- MODULE GatePrototypes ---------------------------
(***************************************************************************)
(* The older, bit-by-bit programs: in each behaviour either a loop over    *)
(* encrypted bits, or a circuit of gates on LWE ciphertexts, or one gate   *)
(* of the bootstrapping reference.                                         *)
(***************************************************************************)
EXTENDS ControlledRevealLoop, EvalBinGateCircuit, BootstrapGate

VARIABLE program

NoLoop ==
  /\ predicate_gc = "direct" /\ phase = "done"
  /\ state = ConstantBits(Width, 0) /\ bound = ConstantBits(Width, 0)
  /\ iterations = 0 /\ revealed = <<>>

NoRegisters ==
  /\ registers = <<>> /\ messages = <<>> /\ noise = <<>>
  /\ truncated = TRUE

NoBootstrap ==
  /\ request = <<>> /\ material_loaded = FALSE
  /\ boot_stage = "idle" /\ rotated = 0
  /\ prebootstrap = <<>> /\ accumulator = <<>>
  /\ large_lwe = <<>> /\ gate_output = <<>>

Init ==
  \/ program = "loop"      /\ RevealInit /\ NoRegisters /\ NoBootstrap
  \/ program = "circuit"   /\ GateInit   /\ NoLoop      /\ NoBootstrap
  \/ program = "reference" /\ BootInit   /\ NoLoop      /\ NoRegisters

RevealStep ==
  /\ program = "loop"
  /\ RevealNext
  /\ UNCHANGED <<program, gateVars, bootVars>>

GateStep ==
  /\ program = "circuit"
  /\ GateNext
  /\ UNCHANGED <<program, revealVars, bootVars>>

BootStep ==
  /\ program = "reference"
  /\ BootNext
  /\ UNCHANGED <<program, revealVars, gateVars>>

Next == RevealStep \/ GateStep \/ BootStep

vars == <<program, revealVars, gateVars, bootVars>>

(* A loop that has started runs until it ends.                             *)
Spec == Init /\ [][Next]_vars /\ WF_vars(RevealStep)

-----------------------------------------------------------------------------
(* The instance that is checked.                                           *)

MCMasks == {FixedDemoMask, <<15, 0, 9, 4>>}
MCNoise == -2 .. 1

MCHsk == [i \in Lwe |-> IF i = 0 THEN 1 ELSE -1]
MCRingSecret ==
  [k \in Ring |-> CASE k = 1 -> 1 [] k = 6 -> -1 [] OTHER -> 0]
MCRowMask == [k \in Ring |-> (37 * k * k + 5) % RingModulus]
MCSwitchMask == [i \in Lwe |-> 3 + 4 * i]
MCGateMasks == {[i \in Lwe |-> 0], [i \in Lwe |-> 3 + 8 * i]}
MCGateNoise == {-1, 2}
=============================================================================
