----------------------- MODULE LWERuntimePipelineInv -----------------------
(***************************************************************************)
(* The inductive invariant of the pipeline, in parts.                      *)
(***************************************************************************)
EXTENDS LWERuntimePipeline

SetupLocals == [material : Material, state : Ciphertext, step : Words]
RuntimeLocals == [backend : Builds, state : Ciphertext, iterations : Nat,
                  predicate_sequence : Seq(BOOLEAN)]

(* The first n sums of the increment chain decrypt to a, a + 1, ...        *)
Counts(material, n) ==
  \A k \in 0 .. n - 1 :
    Decode(AddTimes(material.a_prime, material.one_prime, k), material.hsk)
      = material.a_plaintext + k

Ascending(material) == material.a_plaintext <= material.b_plaintext

(* The increments from a to b + 1, as a number and not as a word.          *)
Increments(material) == material.b_plaintext - material.a_plaintext + 1

(* What ValidateRuntimeLoopBounds establishes when it returns.             *)
Accepted(material) ==
  /\ CircuitParams(material)
  /\ LoopBounds(material)
  /\ Ascending(material) /\ ~BothWrap(material) =>
       /\ material.b_plaintext + 1 < PlaintextModulus
       /\ RuntimeConsistent(material)
       /\ Counts(material, Increments(material) + 1)

(* The setup tool's local state is the chain over the file it has read.    *)
SetupInv ==
  /\ pc \in SetupBusy =>
       /\ full \in Material
       /\ setup \in SetupLocals
       /\ setup.material = full
       /\ CircuitParams(full) /\ LoopBounds(full)
  /\ pc = "validate" =>
       /\ Ascending(full)
       /\ setup.step <= TotalSteps(full)
       /\ setup.step = 0 => setup.state = full.a_prime
       /\ setup.step > 0 => RuntimeConsistent(full)
       /\ RuntimeConsistent(full) =>
            setup.state = AddTimes(full.a_prime, full.one_prime, setup.step)
       /\ Counts(full, setup.step)
  /\ pc \in Writing => Accepted(full)

(* A runtime material file is the accepted origin's, stripped.             *)
DirInv ==
  /\ dir.runtime \in RuntimeMaterial <=> origin \in Material
  /\ origin \in Material =>
       /\ Accepted(origin)
       /\ RuntimeConsistent(origin)
       /\ dir.runtime = ToRuntimeMaterial(origin)

(* How many times the loop body runs.                                      *)
Count(material) == IF Ascending(material) THEN Increments(material) ELSE 0

(* The runtime walks the chain that setup has decrypted.                   *)
RunInv ==
  RuntimeLoaded =>
    /\ rt \in RuntimeLocals
    /\ origin \in Material
    /\ dir.artifact \in [backend : Builds, hsk : Seq(Residues)]
    /\ Dimension(rt.state) = Dimension(origin.a_prime)
    /\ Coherent =>
         /\ pc \in {"rt_loop", "rt_done"}
         /\ pc = "rt_loop" =>
              /\ rt.iterations <= Count(origin)
              /\ rt.state = AddTimes(origin.a_prime, origin.one_prime,
                                     rt.iterations)
              /\ rt.predicate_sequence = [i \in 1 .. rt.iterations |-> TRUE]
         /\ pc = "rt_done" =>
              rt.predicate_sequence =
                IdealSequence(origin.a_plaintext, origin.b_plaintext)

(* An emptied directory holds files of the current export only.            *)
FreshInv ==
  FreshDirectory =>
    /\ full \in Material => Decrypts(full)
    /\ dir.artifact \in [backend : Builds, hsk : Seq(Residues)] =>
         full \in Material /\ dir.artifact.hsk = full.hsk
    /\ origin \in Material => origin = full

(* Setup replaces the three files in turn, whatever is there.              *)
ArtifactBelongs(hsk) ==
  \/ dir.artifact = Torn
  \/ /\ dir.artifact \in [backend : Builds, hsk : Seq(Residues)]
     /\ dir.artifact.hsk = hsk

WrittenInv ==
  /\ pc \in {"write_artifact", "write_runtime", "write_manifest",
            "setup_done"} =>
       /\ full \in Material /\ CircuitParams(full)
       /\ BelongsTo(dir.shape, [dimension |-> Len(full.hsk)])
  /\ pc \in {"write_runtime", "write_manifest", "setup_done"} =>
       ArtifactBelongs(full.hsk)
  /\ pc \in {"write_manifest", "setup_done"} =>
       BelongsTo(dir.runtime, ToRuntimeMaterial(full))

IInv == TypeOK /\ SetupInv /\ DirInv /\ RunInv /\ FreshInv /\ WrittenInv
=============================================================================
