# FHE-ControlFlow: TLA+ verification project

FHE-ControlFlow runs the loop

    for (x = a; x <= b; x += one) ...

on encrypted `a`, `b` and `one`.  A party with the secret key (setup) builds a
Boolean circuit that decrypts `x'` and `b'` with the key inside and compares
them, garbles it, and leaves the garbled circuit and three ciphertexts in a
directory.  A party without the key (runtime) evaluates the garbled circuit
once per iteration, learns only the predicate bit, and adds `one'` to `x'` while
the bit is 1.  This directory models that system in TLA+, checks the models
with TLC and proves theorems about them with TLAPS.

Source paths are relative to the repository root.

## 1. The system

The programs are sequential and talk to each other through files.  What is
concurrent is the life of the files: setup is a sequence of separate writes
over a directory that may hold the files of another run, any program can die
between two steps, and the runtime loads whatever is there.

| Component | State | Operations | Interacts with | What makes it correct |
|---|---|---|---|---|
| Exporter `tools/export_openfhe_lwe_int_material.cpp` | the full material file | encrypt, verify with both decryptions, write | setup reads its file | each ciphertext decrypts to its plaintext |
| Setup `tools/setup_openfhe_lwe_int_gc_material.cpp` | full material, chain state, runtime directory | check bounds, decode the chain, write shape, artifact, runtime material, manifest | reads full material; calls circuit builder and garbler | nothing is installed unless `a, a+1, ..., b+1` decode; the files of one run belong together |
| Runtime `examples/openfhe_lwe_int_runtime_demo.cpp` | state `x'`, iterations, revealed bits | load and check, evaluate, add, guard | reads setup's directory; calls the evaluator | reveals what the plaintext loop reveals; ends |
| Material `src/gc/openfhe_lwe_int_material.*` | - | parse, check, strip the key, write | exporter, setup, runtime | a cut or foreign file is refused |
| Decrypt-compare circuit `src/gc/openfhe_lwe_int_decrypt_compare_circuit.*` | wires of the circuit under construction | adders, terms, dot product, rounding, comparator | circuit builder | it computes `Dec(x') <= Dec(b')` with setup's integer decryption |
| Circuit builder `src/gc/boolean_circuit.*` | circuit so far | add wires, gates, outputs | both garblers, shape file | wires defined before use |
| EMP backend `src/gc/emp_garbled_circuit.*` | zero labels, transcript, cursor, active labels | `Garble`, `Evaluate` | EMP library | an active label encodes the plain bit; the cursor meets its gate |
| In-repo backend `src/gc/minimal_garbled_circuit.*` | labels, tables | `Garble`, `EncodeInputs`, `EvaluateLabels`, `DecodeOutputs` | - | exactly one row opens, and it is the right one |
| Artifact and shape files `src/gc/active_garbled_circuit_io.cpp`, `src/gc/boolean_circuit_io.cpp` | file, read position | write, read | setup writes, runtime reads | read back as written, or refused |
| Demo loops `examples/demo_loop.cpp`, `examples/fixed_runtime_demo.cpp` with `src/gc/controlled_reveal_circuit.cpp`, `src/gc/openfhe_lwe_decryption_circuit.cpp`, `src/gc/garbled_predicate_evaluator.cpp`, `src/algorithms/` | bit vectors, iterations | compare, reveal, add | either backend, or direct decryption | reveal what the plaintext loop reveals |
| Drivers `run_std128_showcase.sh`, `build_mock.sh` | output directory, key, attempts | empty the directory, export, setup, retry, audit, runtime | all programs | retries only what left nothing; fails for noise alone unless disturbed; keeps key and files together; ends |
| Audit `tools/audit_openfhe_lwe_int_runtime_boundary.cpp` | - | compare sizes, scan the runtime directory | drivers | what it passes the runtime finishes, and discloses no key and no plaintext |
| EvalBinGate demo `src/gc/openfhe_eval_bin_gate_circuit.cpp` | wires of two ciphertexts | add, decrypt inside the circuit, look up, encrypt | circuit builder, dump tool | a gate's output is an input of the next |
| Bootstrapping reference `src/gc/openfhe_controlled_reveal_reference.cpp` | accumulator, coefficients rotated | gate, rotation by external product, extraction, key switching, comparator | its test | every stage keeps the phase it claims to keep; the comparator reveals `x <= b` |
| Key and key material tools `tools/generate_openfhe_keypair.cpp` and others | - | serialise | OpenFHE | - |

The hard behaviours are: a directory with files of several runs, or cut files
(crashes, full disk); noise that grows with every addition; dropped carries and
the wrap-around modulo q; the transcript of one circuit walked by another;
64-bit sums of plaintexts that wrap around; argument order that the compiler chooses; loops without a guard; text files that
end anywhere; retries by the reason of a failure; gadget digits and negacyclic
turns of a bootstrapping that no test looks into.
`PROJECT.json` lists each at its line with the properties that would catch it.

## 2. Modules

| Module | What it is | Code |
|---|---|---|
| `LWEInteger` | residues, homomorphic addition, decryption as setup computes it | setup 29-81, exporter 30-68 |
| `PredicateLoop` | abstract specification: the plaintext loop and what it reveals | - |
| `LWERuntimePipeline` | exporter, setup, directory, runtime, crashes | the v2 programs |
| `LWERuntimePipelineInv` | the inductive invariant | - |
| `LWERuntimePipelineProofs` | the theorems about the pipeline and about the script | - |
| `MCRuntimePipeline` | its small instances | - |
| `BitArithmetic` | lemmas on `%`, powers of two, bit vectors as numbers, and recursive functions over the naturals | - |
| `ShowcaseDriver`, `MCShowcaseDriver` | the showcase script over the pipeline | `run_std128_showcase.sh`, audit |
| `MaterialText` | the `key = value` files: exporter, setup, runtime, audit | `openfhe_lwe_int_material.cpp`, exporter 94-164, audit |
| `RuntimeFile` | the three binary formats | the two `*_io.cpp` |
| `MaterialFiles` | either kind of file, for one run | - |
| `MaterialFilesProofs` | the theorems about the binary files, for any contents, and about the text files, for any sound material | - |
| `BitCircuits` | one bit position of each adder and comparator | decrypt-compare 18-118, comparator loops |
| `RippleOperands`, `RippleAdder` | the four adder loops | decrypt-compare 47-92, `fhe_arithmetic.cpp` |
| `RippleComparator` | the two comparator loops | decrypt-compare 279-314, `controlled_reveal_circuit.cpp` |
| `RippleLoops` | an adder, then a comparator on the same operands, for one run | - |
| `DecryptCompareCircuit`, `MCDecryptCompareCircuit` | the whole circuit on words, against `LWEInteger` | decrypt-compare |
| `ArithmeticCircuitProofs` | the theorems about the loops and the circuit, for every width, dimension, key and ciphertext | - |
| `BooleanCircuit` | circuits that the builder can build, gate by gate | `boolean_circuit.*` |
| `BooleanCircuitTheorems` | what the builder guarantees of every circuit; both backends' proofs rest on it | - |
| `PlainEvaluation` | abstract specification: a circuit evaluated in the clear, any number of times | - |
| `EmpGarbledCircuit` | half-gates garbling; implements `PlainEvaluation` | `emp_garbled_circuit.*` |
| `EmpGarbledCircuitProofs` | that refinement and the cursor, proved for every circuit | - |
| `MinimalGarbledCircuit` | the in-repo backend; implements `PlainEvaluation` | `minimal_garbled_circuit.*` |
| `MinimalGarbledCircuitProofs` | that refinement and the walk, proved for every circuit | - |
| `ControlledRevealLoop` | the bitwise demo loops, over `BitCircuits` and `PredicateLoop` | demos |
| `EvalBinGateCircuit` | gates on ciphertexts held as wires, one after the other | `openfhe_eval_bin_gate_circuit.cpp` |
| `BootstrapArithmetic` | the arithmetic of the bootstrapping reference | `openfhe_controlled_reveal_reference.cpp` |
| `BootstrapGate` | one gate of it, stage by stage | the same, 335-567 |
| `ReferencePredicate` | its comparator | the same, 558-620 |
| `GatePrototypes` | the loops, the gate circuit or the bootstrapping, for one run | - |
| `GatePrototypesProofs` | the theorems about the loops, the gate circuit and the bootstrapping | - |

How they fit together: `LWERuntimePipeline` evaluates a predicate as "decode
both operands under the artifact's key".  `DecryptCompareCircuit` shows that the
circuit computes that, and `OutputIsPredicate` proves it for every size;
`RippleAdder` and `RippleComparator` show it iteration by iteration for the
loops the circuit is made of; the two garbled-circuit modules implement
`PlainEvaluation`, that is, a garbled circuit evaluates to the circuit, which is
proved of both;
`RuntimeFile` and `MaterialText` show when a file read is the file written, and
that a cut one is refused; `ShowcaseDriver` composes the programs as the script
does: every step of it is one of the pipeline or leaves the pipeline's variables
alone, as its definitions show, so what is proved of the pipeline holds there.

### LWERuntimePipeline

`full` is the full material file, `dir` the runtime directory (three files, each
`Nothing`, `Torn` or its content), `pc` the running program and its place,
`setup` and `rt` the locals.  `origin` is a history variable: the full material
the runtime material was derived from.  One action per step of a program:
`Export`, `ExportFails`, `SupplyMaterial` (a user's own file: the parser accepts
more than the exporter writes); `StartSetup`, `RefuseSetup`, `ValidateStep`,
`ValidateLast`, `ValidateRejects`, `WriteShape`, `DescribeThrows`,
`WriteArtifact`, `WriteRuntimeMaterial`, `RuntimeMaterialThrows`,
`WriteManifest`; `StartRuntime`, `RefuseRuntime`, `RuntimeThrows`,
`RuntimeContinues`, `RuntimeHitsGuard`, `RuntimeFinishes`.  `SetupKilled` and
`RuntimeKilled` stop a program anywhere, with the file being written whole, old
or cut; `WriteCutUnnoticed` is the full disk that setup does not notice.
Plaintexts are words below `WordModulus`, 2^64 in the program: the parser takes any
word, and setup's two sums of plaintexts (97, 104) are sums of words (`AddU64`).  The
loop over the chain is split as the code has it: `MoreSteps` is its condition,
`StepDecodes` its check, `AddsOne` and `CanAddOne` its addition.
`FreshDirectory` says whether the driver empties the directory before every
export (`run_std128_showcase.sh:93`) or not (`build_mock.sh`).

What is abstracted: encryption is the choice of any ciphertext that decrypts
back (the exporter verifies that); OpenFHE's own decryption and the tool's agree
on a verified ciphertext; residues are reduced, since every tool uses masks and
bodies modulo q only and q divides 2^64; an artifact is the key embedded in it and its backend;
the shape is its dimension, since `Describe` depends on the parameters and not
on the key; a text file that was cut is refused (`MaterialText` shows it).

### ShowcaseDriver

Adds the script's `stage`, `out_dir` and `key` to the pipeline's variables, and the
history variable `disturbed`, which is set by a fault and never reset.  An
action of the script either reads the exit status of the program that ended, or
starts a program, or lets it make one of the pipeline's steps.  Setup's failures
are told apart as the script tells them apart, by the text in its log: only
"noise-unsafe" leads to another attempt.  `BuildOrKeysFail`, `ExportAttemptFails`,
`ExportCutUnnoticed`, `DriverSetupFault`, `DriverRuntimeKilled` and `Interrupted`
are the faults (`DriverFault`); an exporter that fails its own verification counts as
one, since that is OpenFHE's decryption disagreeing with its encryption.  All other
steps are `Undisturbed`.  `StartShowcase` and `RefuseDirectory` are a first and a later
call of the script over the same output directory.

### MaterialText

A file is a sequence of lines: a key of a section with a number, a vector, a format
name, a vector without its bracket, or nothing.  `Heads` are all files that a cut can
leave of one; inside a value that is also a shorter number, which parses.  `Field`,
`Parses`, `CiphertextParses` and the two consistency checks (`PairUniform`, `Uniform`)
decide what each reader takes.  `ExportMaterial`, `PrepareRuntime`, `LoadRuntime` and
`Audit` are the programs.  Of the audit's scan, the names of key files and binary
files are left out, and so is that a line cut behind `hsk.s_raw` would still be
found: the model drops the line, and the code refuses more than the model.
`ExportAstray` is an export whose second argument lies in
the runtime directory, beside the runtime material or over it.

### The other modules

- `RippleAdder` and `RippleComparator` have one action per kind of loop
  iteration.  The history variables `l_value`, `r_value`, `weight` hold the
  numbers in the positions done.
- `DecryptCompareCircuit` has one action per term of the dot product, one for
  rounding and one for the comparison; wires carry values of
  `[0 .. width - 1 -> BOOLEAN]`.
- `EmpGarbledCircuit`: a 128-bit block is a set of symbols and XOR is symmetric
  difference, so two blocks are equal only if the algebra says so.  The AND gate
  of the EMP library is external: it turns the two labels it was garbled for
  into the right output label and everything else into noise.
  `SetupStopsAfterShape` replaces the shape by that of another circuit, which is
  what an interrupted setup leaves.
- `PlainEvaluation` has no labels: `Start` takes the bits of the inputs,
  `EvaluateNext` sets one wire, `ReadOutputs` reads the outputs.  The backends map
  their labels to the bits they stand for; `EmpGarbledCircuit` only while it walks
  the shape of its own circuit.
- `MinimalGarbledCircuit`: labels are the pair of wire and bit, as in
  `MakeLabel`.  There is no action in which `EvaluateLabels` throws:
  `WalkNeverThrows` shows that it cannot on an artifact that `Garble` returned.
- `RuntimeFile`: a file is a sequence of cells; an integer or a bool is one
  cell, a block two, a string or vector a count and its cells.  Argument order
  is a constant.  The nested sections of the in-repo backend's gate table and
  output decoding are sections of their own.  The reader of the shape also takes the
  magic of an older version (`boolean_circuit_io.cpp:111-113`), which no writer of the
  repository writes; it is left out.
- `ControlledRevealLoop` has the garbled, the fixed-bound and the direct path.  The
  size checks of `garbled_predicate_evaluator.cpp` that throw, and the order in which
  it pairs wires with bits, are left out: the loops only call it with operands of the
  circuit's width.  The demo decryption inside the circuit is on numbers.
- `EvalBinGateCircuit`: `BuildDemoEvalBinGate` on two registers, whose result
  replaces one of them.  The repository builds and dumps single gates; the sequence
  of gates is the model's, and what it shows is that they would compose.  The circuit embeds the demo key and mask and looks the
  sum of the phases up in a table that stands in for the bootstrapping.
- `BootstrapArithmetic` is the reference function by function, on arrays indexed
  from 0.  With its constants set to small values it gives gate for gate what the
  C++ file gives when compiled with the same values.
- `BootstrapGate`: `RotateNext` is one pass of `EvalAccCGGI` over a coefficient of
  the mask.  The file leaves open how OpenFHE's keys fill its arrays (74-78); the
  layout of the keys here is this project's, what the file's arithmetic calls for, and
  they have no noise; or they are all zero, as in its test.

## 3. Runs

Deadlock is checked except where the modelled program really stops for good
(a loop that is done, a circuit that is evaluated).

| Run | What it shows | Bounds, and why they are enough |
|---|---|---|
| `noise` | material that setup installs counts, and exporter, setup and runtime together implement `PredicateLoop` | q = 16, p = 4 and words of three bits, so a plaintext is 4 wide and noise -2 .. 1 decodes: every plaintext and noise, chains that drift at every step; guard 3 = p - 1, the longest legal loop (the code has 64 for p = 16) |
| `showcase` | it ends; what it audits the runtime finishes; what it gives up left nothing; undisturbed it fails for noise alone; key, material and artifact belong together; what it ended well is exact | two attempts (one given up, one last), three of four noises, one mask; a second call of the script after the end |
| `mixed` | setup and runtime end, under weak fairness of their steps; what setup reports as written belongs together; and what a coherent mixture of files reveals, without reaching the guard | three exports without emptying, so that each of the three files can be of another run; a user's own materials with keys and `one'` of other lengths, and two that claim the greatest word for `b` |
| `full_disk` (violated) | finding 2 | one export |
| `ripple_loops` | the loop invariants | all operands of width 4 (first, inner and last positions; the proofs are for every width) |
| `decrypt_compare` | the circuit decrypts as setup does | all ternary keys of two coefficients, masks on and around 0 and q; the proof is for all sizes |
| `emp` | refinement of `PlainEvaluation`, cursor; own and foreign shape | one input, one constant, two gates of every kind over any wires, one output: enough for AND after AND, AND after NOT, a wire used twice, an output that is an input, and a shape that lost, gained or changed a gate; for its own shape the proof is for every circuit |
| `minimal` | one row opens; refinement of `PlainEvaluation` | the same; the proof is for every circuit |
| `material_files` | binary files: read back or refused. Text files: what the runtime loads was exported, a cut is refused, a whole file only for a reason, the audit finds keys and plaintexts | at most two records per section; cut after every cell. One coefficient; cut in every line; a second export anywhere |
| `any_order` (violated) | finding 1 | the same |
| `gate_prototypes` | which demo loops end, and as what; gates compose; accumulator, rotation, key switching | every start and bound of three bits; two registers, all noises that decrypt, two masks; the reference with n = 2, q = 16, N = 16, Q = 509 (a little below 8^3, as its modulus is below its base's power), 3 switching digits: two rotations in either direction (the key has 1 and -1), every wrap of the ring, digits with carry |
| `reference_predicate` (violated) | finding 3 | all pairs of the source's four bits |

Fairness.  `FairSpec` has weak fairness of `SetupStep` and of `RuntimeStep`: a
started sequential program is scheduled until it ends.  Nothing has to be
started, nothing has to be killed, and no disk has to fill up.
`DriverFairness` is the same for the script and the programs it waits for: weak
fairness of `DriverStep`, which holds no fault, so that a script that starts ends
also when no fault comes.  `GatePrototypes` has weak fairness of the demo loop
(`RevealStep`) for the same reason; its other programs need none.

Every property has a mutant in `PROJECT.json`, an operator beside the definition
it replaces, with the bug that the property would find.

## 4. Findings

1. `any_order`: `active_garbled_circuit_io.cpp:228`, `:234`, `:246` and `:278`
   read a stream twice within the arguments of one call.  C++ leaves the order to
   the compiler, and g++ evaluates the last argument first.  Built with g++ 12,
   `fixed_runtime_demo` dies on the file that `setup_fixed_gc_material` wrote.
   `:261` and `:270` are braced lists, whose order is defined.  The other runs
   assume a compiler that reads from the first to the last (`MaterialFiles.cfg`).
2. `full_disk`: every writer checks its stream before the last buffer is flushed
   (`openfhe_lwe_int_material.cpp:271`, `active_garbled_circuit_io.cpp:195`,
   `boolean_circuit_io.cpp:103`), so a full disk can cut or empty a file while
   setup reports success.  The runtime refuses the file (`CutFileIsRefused`).

3. `reference_predicate`: `ControlledReveal` of the bootstrapping reference is
   said to be `Dec_hsk(OpenFHE.Eval([x <= b], x', b'))`
   (`openfhe_controlled_reveal_reference.cpp:584-588`, `:612-614`).  A gate returns a
   ciphertext of phase -q/8 or +q/8, as `InitGateAccumulator` fills the accumulator,
   and nothing adds the q/8 that would make it 0 or q/4, which is what `EvalNot` and
   the next gate expect.  64 of the 256 pairs are revealed wrong, in the C++ as in
   the model; the test calls the function and looks at no result.  Two things that
   the same file does differently from the scheme it follows do not show in this
   run, since nothing is rotated there: `ExtractLweFromAccumulator` takes the
   coefficients a[N - i] without the sign that X^N = -1 gives them, and
   `AddToAccCGGI` multiplies by X^m where the scheme has X^m - 1, so that the
   accumulator is added to and not turned.  `StepTurnsByKeyBit` states what a step
   does do.

Not a finding, but worth knowing: the greatest integer of the width as a bound
makes the demo loops endless (`TopBoundNeverEnds`); setup has a check against it
and the demos have none.

That check, "b + one must stay below plaintext modulus"
(`setup_openfhe_lwe_int_gc_material.cpp:97-100`), is a sum of 64-bit words, and no
reader bounds a plaintext by p.  A material that claims a = 0 and b = 2^64 - 1 passes it;
`total_steps` (104) wraps around to 0 as well, and setup installs a material of
which it has decoded `a'` alone.  For a = 1 the condition `step <= total_steps` is
always true; the loop ends since a state decodes below p and the step number passes p
(`SetupEnds`).  The exporter writes no such material (it takes plaintexts below
p), and `InstalledMaterialCounts` names the one pair it does not speak of
(`BothWrap`); the runs `mixed` and `noise` have the sums as words, and `mixed` is given both
materials.

The audit's search for `.plaintext=` never matches what
the exporter writes, ` = ` with blanks; that a full material in the runtime
directory is found rests on the other words it looks for, among them `hsk.s_raw`
(`AuditedDisclosesNothing`).  The script's own
`rm -rf` is a second line of defence: an attempt that is given up has written
nothing (`RejectedAttemptLeavesNothing`).

Without the driver's `rm -rf` the runtime may
load files of several setup runs.  It compares the format and the dimensions
(`openfhe_lwe_int_material.cpp:294-306`, `openfhe_lwe_int_runtime_demo.cpp:149-154`),
and nothing ties the runtime material to the artifact beside it.  What it then
reveals is arbitrary, but it ends (`RuntimeEnds`); this is why `ExactReveal` and
`CoherentRunEndsByPredicate` speak of coherent files.  What setup promises is
`SuccessBelongsTogether`: when it reports success nothing of another material is left
in the directory, though a file may be cut.  Where every export empties the directory,
loaded files are those of one setup (`FreshIsCoherent`, which is proved and needs no
run of its own).

## 5. Proofs

TLAPS checks every theorem and lemma for all values of the constants.
Assumptions: q and p positive with 2p dividing q (`ModulusAssumption`; the
circuit's `ValidateParams` refuses others); p is a word (`WordAssumption`); keys,
ciphertexts and user materials are of their types, with any words for plaintexts
(`InputAssumption`); the guard is at least p - 1
(`GuardAssumption`; 64 against 15 in the program); `Nothing` and `Torn` are no
file contents and differ (`FileAssumption`); the showcase's plaintexts leave room
below p and keys are ternary (`PlainShowcaseAssumption`, 3 and 7 below 16 in the
script); the width of a vector is a natural number; the
starts and bounds of a demo loop fit in its width (`LoopAssumption`); parameters
and keys of the bootstrapping reference are of their types, with the relations
named below (`ParameterAssumption`, `KeyAssumption`).
They are named `ASSUME`s that TLC evaluates for every instance.

`LWERuntimePipelineProofs`.  `Invariance` proves `IInv` of
`LWERuntimePipelineInv` inductive.  The properties are not: `ExactReveal` speaks
of a loop that ended and needs to know where the loop was in each iteration,
which needs the decodings that setup made before, perhaps many programs ago.
`IInv` therefore carries (a) the types; (b) for setup, that it works on the
present full material, that its state is `a' + step * one'` and that the states
before it decode as `a`, ..., `a + step - 1`; (c) that `dir.runtime` is a material
only if it was derived from `origin`, and that `origin` was accepted, its whole
chain decoded; (d) for a runtime over coherent files, that it is in its loop or
done, its state is `a' + iterations * one'` and every bit so far was TRUE; (e) in a
directory that is emptied, that an artifact and a runtime material there are of
the present full material, whose operands decrypt; (f) for setup behind its writes, that each
file written so far is of its material or cut (`WrittenInv`).
Of the chain, (b) and (c) say nothing for the pair of words on which both sums wrap; for
all others the count of steps as a word is the count as a number, which `NoWrap` and
`DecryptsBelow` show: a decoding is below p, so a chain that decodes does not get to
where a word wraps.

From it follow `TypeCorrect`, `InstalledCounts`, `SuccessBelongs`, `RevealIsExact`,
`CoherentRunEnds`, `FreshIsCoherent`, and `FreshRefinesPlainLoop`: initial states
map to initial states and every step to a step of `PredicateLoop` or a stutter.

The second part of the module is about the script, of which `IInv` holds as well.
`DriverInv` says what the script adds: that what stands in the directory at each
stage was written by the attempt it is in, and that material and artifact are of its
key; from it follow `ShowcaseReveals`, `AuditedFinishes`, `RejectedLeavesNothing` and
`FilesKeepTheirKey`.  `UndisturbedInv` is about a script with nothing wrong around it:
what the exporter has verified has bounds and lengths that setup accepts
(`ExportedIsAcceptable`), so setup can only end in success or in noise
(`SetupFailsForNoise`); no file is cut (`SetupTearsNothing`), so the audit passes
(`WrittenIsAudited`) and the runtime ends by its predicate (`DriverRunsWell`).  What
is left is `UndisturbedFailsForNoise`.

`BitArithmetic`.  The value of a vector, `Value`, is a function defined by
recursion over its width.  That such functions exist and follow their defining
equation is proved here (`RecursionExists`, `RecursionPartial`), from the least
element that every non-empty set of naturals has: the library's own induction
theorems take an operator as a parameter, which no prover here instantiates, so a
predicate to be proved by induction is given as a set.  The rest is `%` and `\div`, powers of
two, what a vector's value says of its bits (`ValueBound`, `ValueOfConstant`) and
the two facts every loop comes down to: a ripple adder's bits and carry are the sum
(`RippleSum`), and the two orders of comparison order the vectors.

`ArithmeticCircuitProofs`.  Its first part is about the loops.  `AdderInv` and `ComparatorInv` are the loop invariants, with
the numbers in the positions done as history variables (`AdderLosesNothing`,
`PrefixIsOrdered`).  That these are the numbers the vectors stand for is a second
invariant (`AdderHistory`, `ComparatorHistory`), and with it `ResultOfAdder` and
`ComparatorOfOperands` speak of operands and result alone, for every width.
`LoopsRunBoth` and `LoopsAreCorrect` say the same of the two loops in one system.

The second part is about the decrypt-compare circuit.  `CircuitInv` says that the wires hold words, that the
accumulated words have the value of the pad of the coefficients done, and that the
plaintext words decode the operands.  The work is in the steps: `AddModulo`
drops its last carry and is addition modulo q, since q is 2 to the width
(`AddModuloSum`), subtraction is addition of the inverse and one
(`SubtractModuloDifference`), a ternary coefficient adds 0, 1 or -1 times the mask,
also where the residue passes 0, and the rounding keeps the upper bits of a
phase that may have wrapped.  From it follow `PadIsAccumulated`,
`OperandsAreDecrypted` and `OutputIsPredicate`, for every modulus that is a power of
two, every dimension, ternary key and ciphertext.

`BooleanCircuitTheorems`.  Both garblers look up the wires of a gate in a map of
the wires set so far and assume what the builder ensures by numbering wires in the
order of its calls: `WiresInOrder`, that a gate reads only wires set before it,
sets a new one, and that the whole walk sets every wire.  `BuilderKeepsCircuit`
and `BuilderKeepsOrder` prove it for every sequence of calls: an input or a
constant that is added after gates is one that every gate written so far did not set.

`MinimalGarbledCircuitProofs`.  `TableBackendComputesPlainly` is the refinement of
`PlainEvaluation`, for circuits of any size and shape.  The simulation needs to
know what a row means long after it was written, so `EvaluationInv` says (a) that
the circuit is one the builder makes; (b) that while gates are garbled the artifact
is that of the gates walked, and their arities are right, or `EvalGate` would have
thrown; (c) that the artifact evaluated is that of the whole circuit; (d) that a
label that is held is a label of its own wire.  A row that opens under the labels
held was then made from the very bits they stand for (`OpenedRow`), whichever row
it is, and its label is that of the gate's bit.  That labels do not collide is the
definition of `MakeLabel`.  `WalkIsDeterminate` adds that there is always exactly one
such row, also for a gate that reads a wire twice: the labels of all wires set so far
are held (`LabelsSoFar`, with `WiresInOrder`), and of the 2^n rows of a gate with
n inputs exactly one is that of given bits (`RowOfBits`).

`EmpGarbledCircuitProofs`.  Here the evaluator does not look for a row: it takes the
next entry of the transcript and trusts that it belongs to the gate.  `HalfGatesInv`
says (a) that after n gates the garbler has a zero label for every wire set by then, which
is random for an initial wire and follows from the gate for the others, and a
transcript with one entry per AND gate so far, `Ands(n)`, made of the zero labels of
that gate's inputs; (b) that the artifact evaluated is that of the whole circuit; (c) that the
shape beside it is the circuit's unless another setup replaced it; (d) that on that shape
the evaluator has read `Ands(n)` entries after n gates and holds for each wire set by
then the zero label or the zero label plus delta.  (d) is inductive because (a) places
the entry of a gate where (d) makes the evaluator read, which is what keeps garbler
and evaluator aligned although they share no index.  A NOT leaves the zero label
alone and adds delta to the label; a XOR adds both; the entry of an AND turns the
two labels of its inputs into a label of its output, since they are those it was made for.
`TranscriptIsConsumed` and `HalfGatesComputePlainly` follow, and on the way that
`Evaluate` cannot throw on the shape of its own circuit (`NeverStuck`).  Nothing is claimed of
a foreign shape, which the model allows and the run explores.

`GatePrototypesProofs`.  Of the demo loops, for every width: the loop that drops its
last carry is addition modulo 2 to the width (`AddDropsCarry`), each of the three
comparators is the order of the numbers its vectors stand for (`PredicateIsOrder`), and
the circuit that encrypts and decrypts the predicate inside returns it
(`DemoDecrypts`).  From that, `LoopStopsBelowTop`: a loop that ended has a
bound below the greatest number.  And `LoopIsPlainLoop`: where the bound is
below it, every step is one of `PredicateLoop` on the numbers or a stutter, since a
state that is at most such a bound has a successor, so no sum wraps.  The invariant
`LoopInv` adds that no more predicates are shown than the number of the state,
which keeps the history below the bound the model puts on it.
`GatesCompose` is about the gate circuit, for every input mask and noise that decrypts:
a register has the phase of its message and noise (`RegisterInv`).  Inside the
circuit, sums drop their carries modulo 16 and so do the phases; the dot product of
wires is the pad of the numbers (`DotProductIsPad`); and where the noise of two inputs
does not add up to less than zero, truncating the phase finds the gate's bit
(`LookUp`), which is encrypted anew, without noise.

The third part of the module is one gate of the bootstrapping reference, for all
parameters under `ParameterAssumption` (which the source's constants meet: q a multiple
of 8, N a multiple of q/2, Q at least 2q, the digits enough for q), all keys, masks
and noises.  Sums, powers and divisions are recursive functions of one number
(`SumTo`, `Power`, `Shifted`), whose equations are proved (`SumRecursion`, ...), with
what sums obey: common factors, sums of sums in either order (`SumSwap`), equal
residues (`Same`).  `BootInv` says what each stage has computed: the ciphertext that
is bootstrapped is that of the request, the accumulator, until a coefficient is
rotated, is the gate's, and what is extracted and put out follows from it; the rotation
itself only keeps its type.  On it rest three theorems.
- `SwitchingIsExact`: the digits of a coefficient add up to it, so the corrections of
  its row take exactly coefficient times secret off the phase under the small key
  (`CoefficientSwitched`), and all rows together the whole product
  (`CiphertextSwitched`).  It is exact because the rows of the key have no noise.
- `AccumulatorHoldsGate`: the turn by the distance of two phases brings the
  coefficient of the one phase to X^0, and changes its sign if it passes X^N
  (`TurnedToPhase`); the coefficient half a circle away has the opposite message since
  the half-open range is half of the circle (`LevelIsAntiperiodic`), so the two signs
  agree.  The sums of a gate lie in its half of the circle exactly where the gate is
  true (`LevelOfSum`); with both ends in or both out they would not.
- `UnmaskedGateIsRight`: where no mask is left, `ScaledMessages` and `RoundedPhase`:
  the two messages scale to q/8, at small moduli one above, and to 7q/8, which round
  to 1 and to 0.
That `ScaledMessages` leaves q/8 where a bit is q/4 is the reason for the third
finding.

`MaterialFilesProofs`.  A binary file has no tags: what a number is depends only on
where the reader believes to be.  `FileInv` says (a) that the file on disk is a
beginning of what was to be written (`OnDisk`); (b) that a reader of the writer's own
format has loaded the first sections of what was written and is exactly behind them
in the file, and that a reader of the other backend has loaded nothing; (c) that a
reader has refused only a file that is cut or not its own.  (b) is inductive because
of what one read does, which the lemmas establish for a field, a record, a counted
section and a file in turn: where the cells of a value lie in the file as far as the
file goes, the reader returns that value and stands behind it, or throws, and it throws
only if the file ends before the value does (`ReadTo`).  The loops of writer and
reader are recursive functions; that the k-th piece lies where the k-th read looks
for it is `PartMatches`, and that a loop is where it should be after k pieces is shown by
induction over k on sets of naturals (`LoopsAgree`).  With it `FileIsReadAsWritten`,
`CutFileNeverLoads` and `WholeFileIsNotRefused` hold for every number of records, and
`AnyContentIsReadAsWritten` says the same of any contents whatever: no value of a
field can be mistaken for a size or a count.  They assume `InOrder`, a compiler that reads the
arguments of a call from the first to the last; finding 1 is what happens otherwise.

A text file has names in front of its values, and the proof is of another kind.
`LinesOfFullMaterial` and `LinesOfRuntimeMaterial` say where the lines are: every line
of a key carries the value of that field (`Writes`), so that it does not matter which
one a reader takes, and the last line is the only one of its key.  A cut therefore
takes the value of the last line away (`LastLineIsCut`) or leaves what is no value for
its reader (`HeadOfValue`): a vector without its bracket, or nothing of a number of one
digit.  The last line of the full material is the manual_dec of one', which is 1:
this, and that the reader looks at manual_dec at all, is what `SetupTakesNoCutMaterial`
rests on; for a longer number the comparison with its plaintext would have to do it.
For the audit `SecretComesFirst`: in whatever an exporter left the name of the secret
key is in front of every plaintext.  `TextInv` then says what lies where once setup has
taken the material.  The properties are not inductive without it: `LoadedIsExported`
needs to know of the runtime's file that it is a head of what setup derived or of what
an exporter left over it, and of the latter that no reader of the runtime takes it
(`FullIsNoRuntime`).  `AnySoundMaterialIsExported` says all four of every material of
which its readers' checks are true and no mask of which is the secret key
(`SoundMaterial`; `MaterialsAreSound` for those of the run).

Only model-checked:
- liveness (`RuntimeEnds`, `SetupEnds`, `ShowcaseEnds`, `EndsBelowTop`) and anything
  with `ENABLED`, which are beyond the prover;
- `StepTurnsByKeyBit`, what one rotation of the bootstrapping reference does to the
  phase: a proof needs that the product of polynomials modulo X^N + 1 associates and
  a bound on the error of the signed digits, summed over the key.

## 6. Not modelled

- OpenFHE and EMP themselves.
- `tools/prepare_openfhe_constants.cpp`, `export_openfhe_eval_key_material.cpp`,
  `evaluator_runtime_material_check.cpp`: each is one straight line of calls into
  OpenFHE and its serialisation, with no state of its own, and no other program of
  the v2 path reads what they write.  A model would say that what was serialised is
  deserialised.  `generate_openfhe_keypair.cpp` is one step of the script.
- `src/fhe/` and `src/gates/`: a gate is the Boolean function it computes, mock or
  real.
- `FHECompare`, which no program calls; the text dump of circuits; console output,
  timing and directory listings of the drivers.
- Wire names and the scalar header fields of the binary formats, each read by a
  statement of its own (`RuntimeFile` keeps all sections).
- Moduli that differ between the ciphertexts of one material in
  `LWERuntimePipeline` (refused by the same checks as dimensions).
- Building and dispatching in `build_mock.sh`; that it does not empty its directory
  is `FreshDirectory = FALSE`.
- Decryption of the demos under other keys than the embedded one; the fixed-bound
  tools' own files, whose format is that of `RuntimeFile`.

## 7. Plan

Done, in this order: the pipeline with its arithmetic, invariant and proofs; the
bit circuits with theirs; the decrypt-compare circuit; the builder; both
garblers; the binary files; the demo loops; the showcase script and its proofs;
the text files and the audit; the plain evaluation that both garblers implement,
proved for the table backend; the gate circuit and the bootstrapping reference.

Proved since: the adders and comparators on whole vectors, the decrypt-compare
circuit, the builder's order of wires, the walk of the table backend, the
half-gate backend, the demo loops, the gate circuit, the binary and the text files
and, of the bootstrapping reference, the accumulator, the key switch and the gate without masks.

Next to prove: `StepTurnsByKeyBit`, first for key material of zeros and then with the
error bound.
