------------------------- MODULE LWERuntimePipeline -------------------------
(***************************************************************************)
(* The v2 path from the exporter to the evaluator.  Three programs run one *)
(* after the other and meet only in files:                                 *)
(*                                                                         *)
(*   export   writes the full setup material (key, ciphertexts, plaintexts)*)
(*   setup    checks it, then writes circuit shape, garbled artifact and   *)
(*            runtime material, one file after the other, into a directory *)
(*   runtime  loads the three files and runs `while x' <= b'` on them      *)
(*                                                                         *)
(* Any program may be killed at any of its steps, and a file whose write   *)
(* was cut short is Torn.  The programs' state is lost with them; the      *)
(* files stay for the next program, whichever that is.                     *)
(*                                                                         *)
(* Evaluating an intact artifact is modelled by its functionality, the     *)
(* predicate Dec(lhs) <= Dec(rhs) under the key garbled into it.           *)
(***************************************************************************)
EXTENDS LWEInteger

CONSTANTS
  Keys,                \* the secret keys key generation may produce
  Ciphertexts,         \* the ciphertexts encryption may produce
  UserMaterials,       \* full materials a user may hand to setup instead
  Builds,              \* the GC backends the binaries are built with
  kMaxDemoIterations,  \* the runtime's iteration guard: 64 in the program
  WordModulus,         \* where a uint64_t wraps around: 2^64 in the program
  MaxExports,          \* bound: how often the full material is replaced
  MaxSequence,         \* bound: predicates kept in a run's history
  FreshDirectory,      \* TRUE: a driver empties the directory before export
  Nothing, Torn        \* no file (or no program), and a file cut short

(* The parser takes any word for a plaintext and compares it with          *)
(* manual_dec only.  It takes any word for a residue, too, but every use   *)
(* of one is modulo q, and q divides 2^64.                                 *)
Words == 0 .. (WordModulus - 1)

Material ==
  [hsk : Seq(Residues),
   a_prime : Ciphertext, b_prime : Ciphertext, one_prime : Ciphertext,
   a_plaintext : Words, b_plaintext : Words, one_plaintext : Words]
RuntimeMaterial ==
  [a_prime : Ciphertext, b_prime : Ciphertext, one_prime : Ciphertext]

ASSUME InputAssumption ==
  /\ Keys \subseteq Seq(Residues)
  /\ Ciphertexts \subseteq Ciphertext
  /\ UserMaterials \subseteq Material
  /\ FreshDirectory \in BOOLEAN
  /\ MaxExports \in Nat

(* The plaintext modulus is itself held in a word.                         *)
ASSUME WordAssumption ==
  /\ WordModulus \in Nat
  /\ PlaintextModulus < WordModulus

(* The guard is beyond any count from a to b + 1 below p: 64 against 16.   *)
ASSUME GuardAssumption ==
  /\ kMaxDemoIterations \in Nat
  /\ kMaxDemoIterations >= PlaintextModulus - 1
  /\ MaxSequence \in Nat
  /\ MaxSequence > kMaxDemoIterations

(* A missing file is not a torn one, and neither is file content.          *)
ASSUME FileAssumption ==
  /\ Nothing # Torn
  /\ \A mark \in {Nothing, Torn} :
       /\ mark \notin Material
       /\ mark \notin RuntimeMaterial
       /\ mark \notin [dimension : Nat]
       /\ mark \notin [backend : Builds, hsk : Seq(Residues)]

VARIABLES
  full,      \* the full setup material file
  dir,       \* the runtime directory: its shape, artifact and runtime files
  origin,    \* history: the full material dir.runtime was written from
  pc,        \* what runs, or how the last program ended
  setup,     \* the setup tool's locals
  rt,        \* the runtime's locals
  exports    \* bound: counts the replacements of the full material

vars == <<full, dir, origin, pc, setup, rt, exports>>

Ended == {"idle", "exported", "setup_done", "setup_failed",
          "setup_noise_unsafe", "rt_done", "rt_refused", "rt_guard",
          "rt_error"}
Writing == {"write_shape", "write_artifact", "write_runtime",
            "write_manifest"}
SetupBusy == {"validate"} \cup Writing

EmptyDir == [shape |-> Nothing, artifact |-> Nothing, runtime |-> Nothing]

Intact(file) == file \notin {Nothing, Torn}

Init ==
  /\ full = Nothing
  /\ dir = EmptyDir
  /\ origin = Nothing
  /\ pc = "idle"
  /\ setup = Nothing
  /\ rt = Nothing
  /\ exports = 0
-----------------------------------------------------------------------------
(***************************************************************************)
(* The exporter.                                                           *)
(***************************************************************************)
(* Encryption may draw any mask and noise; both decryptions of the fresh   *)
(* ciphertext must give the plaintext back, or the export fails.           *)
EncryptVerify ==
  [hsk \in Keys |-> [plaintext \in Plaintexts |->
     {c \in Ciphertexts :
        Dimension(c) = Len(hsk) /\ Decode(c, hsk) = plaintext}]]

(* No other program runs; the bound on replacements is not used up.        *)
MayExport == pc \in Ended /\ exports < MaxExports

(* The driver's `rm -rf runtime_dir` in front of every export.             *)
PrepareDirectory ==
  IF FreshDirectory
  THEN dir' = EmptyDir /\ origin' = Nothing
  ELSE UNCHANGED <<dir, origin>>

ExportOf(hsk, a, b, one) ==
  /\ MayExport
  /\ exports' = exports + 1
  /\ \E a_prime \in EncryptVerify[hsk][a],
        b_prime \in EncryptVerify[hsk][b],
        one_prime \in EncryptVerify[hsk][one] :
       full' = [hsk |-> hsk,
                a_prime |-> a_prime, b_prime |-> b_prime,
                one_prime |-> one_prime,
                a_plaintext |-> a, b_plaintext |-> b,
                one_plaintext |-> one]
  /\ PrepareDirectory
  /\ pc' = "exported"
  /\ setup' = Nothing
  /\ rt' = Nothing

Export ==
  \E hsk \in Keys, a, b, one \in Plaintexts : ExportOf(hsk, a, b, one)

(* A verification fails before the file is opened, or the write is cut.    *)
ExportFails ==
  /\ MayExport
  /\ exports' = exports + 1
  /\ full' \in {full, Torn}
  /\ PrepareDirectory
  /\ pc' = "idle"
  /\ setup' = Nothing
  /\ rt' = Nothing

(* Outside the drivers a user may point setup at a file of their own.      *)
SupplyMaterial ==
  /\ ~FreshDirectory
  /\ MayExport
  /\ exports' = exports + 1
  /\ full' \in UserMaterials
  /\ pc' = "exported"
  /\ setup' = Nothing
  /\ rt' = Nothing
  /\ UNCHANGED <<dir, origin>>
-----------------------------------------------------------------------------
(***************************************************************************)
(* The setup tool.                                                         *)
(***************************************************************************)
(* CircuitParams, as the file is read: a' and b' against the key, not one'.*)
CircuitParams(material) ==
  /\ Dimension(material.a_prime) = Dimension(material.b_prime)
  /\ Dimension(material.a_prime) = Len(material.hsk)

(* ValidateParams, when the circuit is described after the loop's check.   *)
ValidateParams(material) ==
  /\ Len(material.hsk) > 0
  /\ IsTernary(material.hsk)

AddU64(lhs, rhs) == (lhs + rhs) % WordModulus

(* The checks of ValidateRuntimeLoopBounds ahead of its loop.  With the    *)
(* greatest word for b the sum wraps around to 0 and passes.               *)
LoopBounds(material) ==
  /\ material.one_plaintext = 1
  /\ material.a_plaintext <= material.b_plaintext =>
       AddU64(material.b_plaintext, material.one_plaintext)
         < PlaintextModulus

(* Mutant: the state after the last added one' is not decoded.             *)
TotalStepsShort(material) == material.b_plaintext - material.a_plaintext

(* For 0 and the greatest word, the number of steps wraps around to 0.     *)
TotalSteps(material) ==
  AddU64(material.b_plaintext - material.a_plaintext, 1)

(* With a > b the increment chain is not decoded at all.                   *)
StartSetup ==
  /\ pc \in Ended
  /\ Intact(full)
  /\ CircuitParams(full)
  /\ LoopBounds(full)
  /\ setup' = [material |-> full, state |-> full.a_prime, step |-> 0]
  /\ pc' = IF full.a_plaintext <= full.b_plaintext
           THEN "validate" ELSE "write_shape"
  /\ rt' = Nothing
  /\ UNCHANGED <<full, dir, origin, exports>>

RefuseSetup ==
  /\ pc \in Ended
  /\ \/ ~Intact(full)
     \/ /\ Intact(full)
        /\ ~(CircuitParams(full) /\ LoopBounds(full))
  /\ pc' = "setup_failed"
  /\ setup' = Nothing
  /\ rt' = Nothing
  /\ UNCHANGED <<full, dir, origin, exports>>

(* Mutant: only the first state is decoded.                                *)
StepDecodesFirst(s) ==
  \/ s.step > 0
  \/ Decode(s.state, s.material.hsk) = s.material.a_plaintext

StepDecodes(s) ==
  Decode(s.state, s.material.hsk) = AddU64(s.material.a_plaintext, s.step)

(* Whether `++step; step <= total_steps` goes on.                          *)
MoreSteps(s) == AddU64(s.step, 1) <= TotalSteps(s.material)

(* `step != total_steps`: one' is added, which throws for another length.  *)
AddsOne(s) == s.step # TotalSteps(s.material)
CanAddOne(s) == Dimension(s.material.one_prime) = Dimension(s.state)

(* One iteration of the chain x', x' + one', x' + one' + one', ...         *)
ValidateStep ==
  /\ pc = "validate"
  /\ StepDecodes(setup)
  /\ AddsOne(setup) => CanAddOne(setup)
  /\ MoreSteps(setup)
  /\ setup' = [setup EXCEPT
       !.state = IF AddsOne(setup)
                 THEN AddCiphertextsModQ(@, setup.material.one_prime) ELSE @,
       !.step = AddU64(@, 1)]
  /\ UNCHANGED <<full, dir, origin, pc, rt, exports>>

ValidateLast ==
  /\ pc = "validate"
  /\ StepDecodes(setup)
  /\ AddsOne(setup) => CanAddOne(setup)
  /\ ~MoreSteps(setup)
  /\ pc' = "write_shape"
  /\ UNCHANGED <<full, dir, origin, setup, rt, exports>>

(* A chain that drifts is "noise-unsafe"; a one' of another length throws. *)
ValidateRejects ==
  /\ pc = "validate"
  /\ \/ /\ ~StepDecodes(setup)
        /\ pc' = "setup_noise_unsafe"
     \/ /\ StepDecodes(setup)
        /\ AddsOne(setup) /\ ~CanAddOne(setup)
        /\ pc' = "setup_failed"
  /\ setup' = Nothing
  /\ UNCHANGED <<full, dir, origin, rt, exports>>

(* The wires and gates depend on the parameters only, not on the key.      *)
WriteShape ==
  /\ pc = "write_shape"
  /\ ValidateParams(setup.material)
  /\ dir' = [dir EXCEPT
       !.shape = [dimension |-> Len(setup.material.hsk)]]
  /\ pc' = "write_artifact"
  /\ UNCHANGED <<full, origin, setup, rt, exports>>

(* The circuit cannot be described, and no file has been touched.          *)
DescribeThrows ==
  /\ pc = "write_shape"
  /\ ~ValidateParams(setup.material)
  /\ pc' = "setup_failed"
  /\ setup' = Nothing
  /\ UNCHANGED <<full, dir, origin, rt, exports>>

(* Mutant: an artifact that is already there is kept.                      *)
WriteArtifactOnce ==
  /\ pc = "write_artifact"
  /\ IF Intact(dir.artifact)
     THEN UNCHANGED dir
     ELSE \E backend \in Builds :
            dir' = [dir EXCEPT
              !.artifact = [backend |-> backend, hsk |-> setup.material.hsk]]
  /\ pc' = "write_runtime"
  /\ UNCHANGED <<full, origin, setup, rt, exports>>

(* Garble embeds the coefficients of the key as active labels.             *)
WriteArtifact ==
  /\ pc = "write_artifact"
  /\ \E backend \in Builds :
       dir' = [dir EXCEPT
         !.artifact = [backend |-> backend, hsk |-> setup.material.hsk]]
  /\ pc' = "write_runtime"
  /\ UNCHANGED <<full, origin, setup, rt, exports>>

RuntimeConsistent(m) ==
  /\ Dimension(m.a_prime) = Dimension(m.b_prime)
  /\ Dimension(m.a_prime) = Dimension(m.one_prime)

(* Mutant: the operands are swapped.                                       *)
ToRuntimeMaterialSwapped(material) ==
  [a_prime |-> material.b_prime, b_prime |-> material.a_prime,
   one_prime |-> material.one_prime]

(* Only the ciphertexts leave: no key, no plaintext.                       *)
ToRuntimeMaterial(material) ==
  [a_prime |-> material.a_prime, b_prime |-> material.b_prime,
   one_prime |-> material.one_prime]

WriteRuntimeMaterial ==
  /\ pc = "write_runtime"
  /\ RuntimeConsistent(setup.material)
  /\ dir' = [dir EXCEPT !.runtime = ToRuntimeMaterial(setup.material)]
  /\ origin' = setup.material
  /\ pc' = "write_manifest"
  /\ UNCHANGED <<full, setup, rt, exports>>

(* ToRuntimeMaterial throws, with shape and artifact already replaced.     *)
RuntimeMaterialThrows ==
  /\ pc = "write_runtime"
  /\ ~RuntimeConsistent(setup.material)
  /\ pc' = "setup_failed"
  /\ setup' = Nothing
  /\ UNCHANGED <<full, dir, origin, rt, exports>>

WriteManifest ==
  /\ pc = "write_manifest"
  /\ pc' = "setup_done"
  /\ setup' = Nothing
  /\ UNCHANGED <<full, dir, origin, rt, exports>>

(* The file that setup is at is cut short.                                 *)
WriteCutShort ==
  \/ /\ pc = "write_shape"
     /\ ValidateParams(setup.material)
     /\ dir' = [dir EXCEPT !.shape = Torn]
     /\ UNCHANGED origin
  \/ /\ pc = "write_artifact"
     /\ dir' = [dir EXCEPT !.artifact = Torn]
     /\ UNCHANGED origin
  \/ /\ pc = "write_runtime"
     /\ RuntimeConsistent(setup.material)
     /\ dir' = [dir EXCEPT !.runtime = Torn]
     /\ origin' = Nothing

NextFile ==
  [write_shape |-> "write_artifact", write_artifact |-> "write_runtime",
   write_runtime |-> "write_manifest"]

(* A writer looks at its stream before the stream is flushed: when the     *)
(* last of the buffer does not fit on the disk, setup does not notice.     *)
WriteCutUnnoticed ==
  /\ WriteCutShort
  /\ pc' = NextFile[pc]
  /\ UNCHANGED <<full, setup, rt, exports>>

(* Setup is killed, or a write fails, before, within or between files.     *)
SetupKilled ==
  /\ pc \in SetupBusy
  /\ UNCHANGED <<dir, origin>> \/ WriteCutShort
  /\ pc' = "idle"
  /\ setup' = Nothing
  /\ UNCHANGED <<full, rt, exports>>
-----------------------------------------------------------------------------
(***************************************************************************)
(* The evaluator runtime.                                                  *)
(***************************************************************************)
(* What the runtime checks before its loop: three readable files, the      *)
(* artifact's backend, and the shape's input length against the material.  *)
(* An intact file reads back as it was written: RuntimeFile shows that the *)
(* artifact and shape readers do so where arguments are evaluated in order.*)
Loadable(backend) ==
  /\ Intact(dir.shape) /\ Intact(dir.artifact) /\ Intact(dir.runtime)
  /\ dir.artifact.backend = backend
  /\ RuntimeConsistent(dir.runtime)
  /\ dir.shape.dimension = Dimension(dir.runtime.a_prime)

StartRuntime ==
  /\ pc \in Ended
  /\ \E backend \in Builds :
       /\ Loadable(backend)
       /\ rt' = [backend |-> backend, state |-> dir.runtime.a_prime,
                 iterations |-> 0, predicate_sequence |-> <<>>]
  /\ pc' = "rt_loop"
  /\ setup' = Nothing
  /\ UNCHANGED <<full, dir, origin, exports>>

RefuseRuntime ==
  /\ pc \in Ended
  /\ \E backend \in Builds : ~Loadable(backend)
  /\ pc' = "rt_refused"
  /\ setup' = Nothing
  /\ rt' = Nothing
  /\ UNCHANGED <<full, dir, origin, exports>>

(* The i-th word on the circuit's input wires: lhs.a, lhs.body, rhs.a,     *)
(* rhs.body, in the order in which the circuit declares them.              *)
InputWord(lhs, rhs, i) ==
  LET n == Dimension(lhs)
  IN  IF i <= n THEN lhs.a[i]
      ELSE IF i = n + 1 THEN lhs.body
      ELSE IF i <= 2 * n + 1 THEN rhs.a[i - n - 1]
      ELSE rhs.body

(* The ciphertext an artifact of dimension n reads from the wires on.      *)
WiredCiphertext(lhs, rhs, first, n) ==
  [a    |-> [i \in 1 .. n |-> InputWord(lhs, rhs, first + i)],
   body |-> InputWord(lhs, rhs, first + n + 1)]

(* The EMP evaluator compares wire counts; the in-repo one only misses     *)
(* the wires that the shape does not have.                                 *)
EvaluationThrows(lhs) ==
  \/ Len(dir.artifact.hsk) > Dimension(lhs)
  \/ /\ rt.backend = "EMP"
     /\ Len(dir.artifact.hsk) # Dimension(lhs)

EvaluatePredicate(lhs, rhs) ==
  LET hsk == dir.artifact.hsk
      n   == Len(hsk)
  IN  Decode(WiredCiphertext(lhs, rhs, 0, n), hsk) <=
        Decode(WiredCiphertext(lhs, rhs, n + 1, n), hsk)

PushPredicate(predicate) ==
  IF Len(rt.predicate_sequence) < MaxSequence
  THEN Append(rt.predicate_sequence, predicate)
  ELSE rt.predicate_sequence

RuntimeThrows ==
  /\ pc = "rt_loop"
  /\ EvaluationThrows(rt.state)
  /\ pc' = "rt_error"
  /\ UNCHANGED <<full, dir, origin, setup, rt, exports>>

(* Mutants: the iteration is counted twice, or not at all.                 *)
NextIterationTwice(iterations) == iterations + 2
NextIterationNone(iterations) == iterations

NextIteration(iterations) == iterations + 1

(* [Dec(x') <= Dec(b')] is TRUE: count, check the guard, add one'.         *)
RuntimeContinues ==
  /\ pc = "rt_loop"
  /\ ~EvaluationThrows(rt.state)
  /\ EvaluatePredicate(rt.state, dir.runtime.b_prime)
  /\ NextIteration(rt.iterations) <= kMaxDemoIterations
  /\ rt' = [rt EXCEPT
       !.predicate_sequence = PushPredicate(TRUE),
       !.iterations = NextIteration(@),
       !.state = AddCiphertextsModQ(@, dir.runtime.one_prime)]
  /\ UNCHANGED <<full, dir, origin, pc, setup, exports>>

RuntimeHitsGuard ==
  /\ pc = "rt_loop"
  /\ ~EvaluationThrows(rt.state)
  /\ EvaluatePredicate(rt.state, dir.runtime.b_prime)
  /\ ~(NextIteration(rt.iterations) <= kMaxDemoIterations)
  /\ rt' = [rt EXCEPT
       !.predicate_sequence = PushPredicate(TRUE),
       !.iterations = NextIteration(@)]
  /\ pc' = "rt_guard"
  /\ UNCHANGED <<full, dir, origin, setup, exports>>

RuntimeFinishes ==
  /\ pc = "rt_loop"
  /\ ~EvaluationThrows(rt.state)
  /\ ~EvaluatePredicate(rt.state, dir.runtime.b_prime)
  /\ rt' = [rt EXCEPT !.predicate_sequence = PushPredicate(FALSE)]
  /\ pc' = "rt_done"
  /\ UNCHANGED <<full, dir, origin, setup, exports>>

RuntimeKilled ==
  /\ pc = "rt_loop"
  /\ pc' = "idle"
  /\ rt' = Nothing
  /\ UNCHANGED <<full, dir, origin, setup, exports>>
-----------------------------------------------------------------------------
SetupStep ==
  \/ ValidateStep \/ ValidateLast \/ ValidateRejects
  \/ WriteShape \/ DescribeThrows \/ WriteArtifact
  \/ WriteRuntimeMaterial \/ RuntimeMaterialThrows \/ WriteManifest

RuntimeStep ==
  \/ RuntimeThrows \/ RuntimeContinues \/ RuntimeHitsGuard \/ RuntimeFinishes

Next ==
  \/ Export \/ ExportFails \/ SupplyMaterial
  \/ StartSetup \/ RefuseSetup \/ SetupStep
  \/ WriteCutUnnoticed \/ SetupKilled
  \/ StartRuntime \/ RefuseRuntime \/ RuntimeStep \/ RuntimeKilled

(* A started program is scheduled until it ends; nothing has to be         *)
(* started, and nothing has to be killed.                                  *)
Fairness == WF_vars(SetupStep) /\ WF_vars(RuntimeStep)

Spec == Init /\ [][Next]_vars
FairSpec == Spec /\ Fairness
-----------------------------------------------------------------------------
(***************************************************************************)
(* Properties.                                                             *)
(***************************************************************************)
Directory ==
  [shape    : [dimension : Nat] \cup {Nothing, Torn},
   artifact : [backend : Builds, hsk : Seq(Residues)] \cup {Nothing, Torn},
   runtime  : RuntimeMaterial \cup {Nothing, Torn}]

(* Every value the programs pass on is in range; in particular ciphertext  *)
(* sums stay reduced modulo q in setup and in the runtime alike.           *)
TypeOK ==
  /\ full \in Material \cup {Nothing, Torn}
  /\ dir \in Directory
  /\ origin \in Material \cup {Nothing}
  /\ pc \in Ended \cup SetupBusy \cup {"rt_loop"}
  /\ setup \in [material : Material, state : Ciphertext, step : Words]
                 \cup {Nothing}
  /\ rt \in [backend : Builds, state : Ciphertext, iterations : Nat,
              predicate_sequence : Seq(BOOLEAN)] \cup {Nothing}
  /\ exports \in Nat

(* The ciphertexts decrypt to the plaintexts recorded next to them.        *)
Decrypts(material) ==
  /\ Decode(material.a_prime, material.hsk) = material.a_plaintext
  /\ Decode(material.b_prime, material.hsk) = material.b_plaintext

RuntimeLoaded == pc \in {"rt_loop", "rt_done", "rt_guard", "rt_error"}

(* The three files of the directory belong together.                       *)
Coherent ==
  /\ Intact(origin)
  /\ Intact(dir.artifact)
  /\ dir.artifact.hsk = origin.hsk
  /\ Decrypts(origin)

(* What `while a <= b: a++` reveals: TRUE for each of a .. b, then FALSE.  *)
IdealSequence(a, b) ==
  LET n == IF a <= b THEN b - a + 1 ELSE 0
  IN  [i \in 1 .. n + 1 |-> i <= n]

(* A finished run over files that belong together reveals exactly the      *)
(* predicates of the plaintext loop: noise that builds up over the added   *)
(* one', the rounding and the last step b + 1 never change a bit of it.    *)
ExactReveal ==
  pc = "rt_done" /\ Coherent =>
    rt.predicate_sequence =
      IdealSequence(origin.a_plaintext, origin.b_plaintext)

(* Over such files the runtime does not end in its iteration guard or in   *)
(* an evaluation error: what setup accepted terminates by its predicate.   *)
CoherentRunEndsByPredicate ==
  Coherent => pc \notin {"rt_guard", "rt_error"}

(* With a driver that empties the directory before every export, whatever  *)
(* was killed where: a runtime that gets past its checks never sees files  *)
(* of two different exports.                                               *)
FreshDirectoryIsCoherent ==
  FreshDirectory /\ RuntimeLoaded => Coherent

(* From 0 to the greatest word: the one pair of plaintexts for which both  *)
(* sums of ValidateRuntimeLoopBounds wrap around, to no steps below p.     *)
BothWrap(material) ==
  material.a_plaintext = 0 /\ material.b_plaintext = WordModulus - 1

(* What setup lets into the directory can be counted from a to b + 1 with  *)
(* no wraparound and no drift, whatever plaintexts the file claims.  The   *)
(* checks miss one pair.  (A material with a > b is not counted.)          *)
InstalledMaterialCounts ==
  Intact(origin) /\ origin.a_plaintext <= origin.b_plaintext
    /\ ~BothWrap(origin)
  => /\ origin.b_plaintext + 1 < PlaintextModulus
     /\ \A k \in 0 .. origin.b_plaintext - origin.a_plaintext + 1 :
          Decode(AddTimes(origin.a_prime, origin.one_prime, k), origin.hsk)
            = origin.a_plaintext + k

(* A file that is cut, or belongs to the full material as it is now.       *)
BelongsTo(file, content) == file = Torn \/ file = content

(* A setup run that reports success has replaced whatever mixture earlier  *)
(* runs left, killed or thrown between their files: nothing of another     *)
(* material is left in the directory, though a file may have been cut.     *)
SuccessBelongsTogether ==
  pc = "setup_done" =>
    /\ BelongsTo(dir.shape, [dimension |-> Len(full.hsk)])
    /\ \/ dir.artifact = Torn
       \/ Intact(dir.artifact) /\ dir.artifact.hsk = full.hsk
    /\ BelongsTo(dir.runtime, ToRuntimeMaterial(full))

(* A started runtime ends, whatever files it was given: with files of two  *)
(* exports the predicate may stay TRUE for ever, and the guard ends it.    *)
RuntimeEnds == (pc = "rt_loop") ~> (pc \in Ended)

(* A started setup run ends.                                               *)
SetupEnds == (pc \in SetupBusy) ~> (pc \in Ended)

(* The encrypted loop implements the plaintext loop.  x is a + iterations: *)
(* it is not reduced modulo p.                                             *)
Looping == RuntimeLoaded /\ Intact(origin)
PlainLoop == INSTANCE PredicateLoop WITH
  Values   <- Plaintexts,
  phase    <- IF ~Looping THEN "idle"
              ELSE IF pc = "rt_loop" THEN "loop"
              ELSE IF pc = "rt_done" THEN "done" ELSE "failed",
  x        <- IF Looping THEN origin.a_plaintext + rt.iterations ELSE 0,
  bound    <- IF Looping THEN origin.b_plaintext ELSE 0,
  revealed <- IF Looping THEN rt.predicate_sequence ELSE <<>>

(* Every program run of a fresh-directory driver refines PredicateLoop.    *)
RefinesPlainLoop == PlainLoop!Spec

(* Every writer ends in Require(out, "failed to write ..."), for the       *)
(* runtime material openfhe_lwe_int_material.cpp:271-272: a setup run that *)
(* reports success has written its three files.                            *)
SuccessMeansWritten ==
  pc = "setup_done" =>
    Intact(dir.shape) /\ Intact(dir.artifact) /\ Intact(dir.runtime)
=============================================================================
