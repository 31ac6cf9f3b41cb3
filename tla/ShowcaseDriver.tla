--------------------------- MODULE ShowcaseDriver ---------------------------
(***************************************************************************)
(* run_std128_showcase.sh: one key pair, then export and setup until a     *)
(* material is safe for the loop, the boundary audit, and the runtime.     *)
(*                                                                         *)
(* The script starts every program of the pipeline and reads its exit      *)
(* status, and setup's log.  It runs under `set -euo pipefail`: a program  *)
(* that fails ends it, except for setup, which is called in an `if`.  The  *)
(* script adds its own state to the pipeline's and constrains when each    *)
(* program may be started; what the programs do is the pipeline's.         *)
(***************************************************************************)
EXTENDS LWERuntimePipeline

CONSTANTS
  ShowcaseA, ShowcaseB,  \* the plaintexts the exporter is run with: 3 and 7
  max_attempts           \* STD128_SHOWCASE_MAX_ATTEMPTS, 5 unless it is set

(* All programs are built at once, with one backend; the bound on exports  *)
(* leaves room for all attempts.                                           *)
ASSUME ShowcaseAssumption ==
  /\ FreshDirectory
  /\ \E backend \in Builds : Builds = {backend}
  /\ ShowcaseA \in Plaintexts /\ ShowcaseB \in Plaintexts
  /\ 1 \in Plaintexts
  /\ max_attempts \in 0 .. MaxExports

(* 3 and 7 leave room below p = 16, and OpenFHE's keys are ternary.        *)
ASSUME PlainShowcaseAssumption ==
  /\ ShowcaseB + 1 < PlaintextModulus
  /\ \A hsk \in Keys : Len(hsk) > 0 /\ IsTernary(hsk)

VARIABLES
  stage,      \* where the script is, or how it has ended
  out_dir,    \* the output directory exists
  key,        \* the secret key in its key directory
  disturbed   \* history: something outside of the programs has gone wrong

driverVars ==
  <<full, dir, origin, pc, setup, rt, exports, stage, out_dir, key, disturbed>>

StagesEnded == {"not_run", "refused", "failed", "done"}
StagesBusy ==
  {"keys", "attempt", "start_setup", "setup", "audit", "start_runtime",
   "runtime"}

DriverInit ==
  /\ Init
  /\ stage = "not_run"
  /\ out_dir = FALSE
  /\ key = Nothing
  /\ disturbed = FALSE

(* A step of the script alone, and a step of a program it runs.            *)
Script(from, to) ==
  /\ stage = from
  /\ stage' = to
  /\ UNCHANGED <<vars, out_dir, key>>

Runs(from, program, to) ==
  /\ stage = from
  /\ program
  /\ stage' = to
  /\ UNCHANGED <<out_dir, key>>
-----------------------------------------------------------------------------
(* Mutant: the output directory of an earlier run is used again.           *)
MayCreateAny == TRUE

MayCreate == ~out_dir

StartShowcase ==
  /\ stage \in StagesEnded
  /\ MayCreate
  /\ stage' = "keys"
  /\ out_dir' = TRUE
  /\ UNCHANGED <<vars, key>>

(* Whatever an earlier run left is for the user to delete.                 *)
RefuseDirectory ==
  /\ stage \in StagesEnded
  /\ ~MayCreate
  /\ stage' = "refused"
  /\ UNCHANGED <<vars, out_dir, key>>

(* The programs are built and a key pair is made, once for all attempts.   *)
GenerateKeys ==
  /\ stage = "keys"
  /\ key' \in Keys
  /\ stage' = "attempt"
  /\ UNCHANGED <<vars, out_dir>>

BuildOrKeysFail == Script("keys", "failed")

(* Mutant: there is always another attempt.                                *)
AttemptsLeftAlways == TRUE

(* exports counts the passes through the loop.                             *)
AttemptsLeft == exports < max_attempts

ExportAttempt ==
  /\ AttemptsLeft
  /\ Runs("attempt", ExportOf(key, ShowcaseA, ShowcaseB, 1), "start_setup")

(* The exporter's exit status ends the script; but it never looks at its   *)
(* stream after the first field, and a file the disk has no room for looks *)
(* like a file that was written.                                           *)
ExportAttemptFails ==
  /\ AttemptsLeft
  /\ Runs("attempt", ExportFails, "failed")

ExportCutUnnoticed ==
  /\ AttemptsLeft
  /\ Runs("attempt", ExportFails /\ full' = Torn, "start_setup")

NoAttemptLeft == ~AttemptsLeft /\ Script("attempt", "failed")

DriverStartsSetup == Runs("start_setup", StartSetup \/ RefuseSetup, "setup")

DriverSetupStep == Runs("setup", SetupStep, "setup")

(* The disk is full, or setup is killed.                                   *)
DriverSetupFault == Runs("setup", WriteCutUnnoticed \/ SetupKilled, "setup")

SetupSucceeded == pc = "setup_done" /\ Script("setup", "audit")

(* Mutant: grep looks for a text that setup prints for another failure.    *)
RetryableOther == pc = "setup_failed"

(* Mutant: every failure of setup is tried again, whatever the log says.   *)
RetryableAny == pc \in {"setup_noise_unsafe", "setup_failed", "idle"}

(* `grep -q "noise-unsafe ..."` over setup's log.                          *)
Retryable == pc = "setup_noise_unsafe"

RetryAttempt == Retryable /\ Script("setup", "attempt")

SetupNotRetried ==
  /\ pc \in {"setup_noise_unsafe", "setup_failed", "idle"}
  /\ ~Retryable
  /\ Script("setup", "failed")

(* Mutant: the audit looks for the files and not into them.                *)
AuditPresence ==
  \A file \in {full, dir.shape, dir.artifact, dir.runtime} : file # Nothing

(* The audit reads all four files with the readers that setup and runtime  *)
(* use, and ties the number of input wires to the runtime material and the *)
(* number of secret wires to the key.  (What it looks for in the bytes,    *)
(* names of secret fields, no file of the model can have.)                 *)
Audit ==
  /\ Intact(full) /\ CircuitParams(full)
  /\ Intact(dir.shape) /\ Intact(dir.artifact) /\ Intact(dir.runtime)
  /\ RuntimeConsistent(dir.runtime)
  /\ dir.shape.dimension = Dimension(dir.runtime.a_prime)
  /\ dir.shape.dimension = Len(full.hsk)
  /\ Len(dir.artifact.hsk) = dir.shape.dimension

AuditPasses == Audit /\ Script("audit", "start_runtime")

AuditFails == ~Audit /\ Script("audit", "failed")

DriverStartsRuntime ==
  Runs("start_runtime", StartRuntime \/ RefuseRuntime, "runtime")

DriverRuntimeStep == Runs("runtime", RuntimeStep, "runtime")

DriverRuntimeKilled == Runs("runtime", RuntimeKilled, "runtime")

RuntimeSucceeded == pc = "rt_done" /\ Script("runtime", "done")

(* pipefail: tee's status does not hide the runtime's.                     *)
RuntimeFailed ==
  /\ pc \in {"rt_refused", "rt_guard", "rt_error", "idle"}
  /\ Script("runtime", "failed")

(* An interrupt ends the script and the program it runs.                   *)
Interrupted ==
  /\ stage \in StagesBusy
  /\ stage' = "failed"
  /\ UNCHANGED <<out_dir, key>>
  /\ IF pc \in SetupBusy THEN SetupKilled
     ELSE IF pc = "rt_loop" THEN RuntimeKilled
     ELSE UNCHANGED vars
-----------------------------------------------------------------------------
DriverStep ==
  \/ GenerateKeys \/ ExportAttempt \/ NoAttemptLeft
  \/ DriverStartsSetup \/ DriverSetupStep
  \/ SetupSucceeded \/ RetryAttempt \/ SetupNotRetried
  \/ AuditPasses \/ AuditFails
  \/ DriverStartsRuntime \/ DriverRuntimeStep
  \/ RuntimeSucceeded \/ RuntimeFailed

(* A full disk, a kill, an interrupt, or a program that cannot be built or *)
(* run for want of something outside of the model.                         *)
DriverFault ==
  \/ BuildOrKeysFail \/ ExportAttemptFails \/ ExportCutUnnoticed
  \/ DriverSetupFault \/ DriverRuntimeKilled
  \/ Interrupted

Undisturbed(step) == step /\ UNCHANGED disturbed

DriverNext ==
  \/ Undisturbed(StartShowcase) \/ Undisturbed(RefuseDirectory)
  \/ Undisturbed(DriverStep)
  \/ DriverFault /\ disturbed' = TRUE

(* A started script runs on: each program it waits for is scheduled, and   *)
(* so is the script.  No failure has to happen.                            *)
DriverFairness == WF_driverVars(Undisturbed(DriverStep))

DriverSpec == DriverInit /\ [][DriverNext]_driverVars
DriverFairSpec == DriverSpec /\ DriverFairness
-----------------------------------------------------------------------------
(* A showcase that ends well has revealed the predicates of the plaintext  *)
(* loop from 3 to 7, whatever noise, retries, cuts and kills came before.  *)
ShowcaseIsExact ==
  stage = "done" =>
    rt.predicate_sequence = IdealSequence(ShowcaseA, ShowcaseB)

(* What the audit lets through the runtime loads and finishes: it is not   *)
(* refused, does not throw and does not end in its guard.                  *)
AuditedRuntimeFinishes ==
  stage = "runtime" => pc \notin {"rt_refused", "rt_guard", "rt_error"}

(* An attempt that is given up for another one has left nothing in the     *)
(* runtime directory: noise is found before anything is written.           *)
RejectedAttemptLeavesNothing == stage = "attempt" => dir = EmptyDir

(* With nothing wrong around it, the showcase fails for one reason only:   *)
(* the last material it was allowed to try was unsafe for the loop, too.   *)
(* What the exporter has verified setup refuses for its noise alone, and   *)
(* what setup has written passes the audit and the runtime.                *)
FailsForNoiseOnly ==
  stage = "failed" /\ ~disturbed =>
    ~AttemptsLeft /\ (exports > 0 => pc = "setup_noise_unsafe")

(* A script that is started ends, after at most max_attempts attempts.     *)
ShowcaseEnds == (stage \in StagesBusy) ~> (stage \in StagesEnded)

(* Whatever a showcase leaves behind, and whoever runs the script again,   *)
(* the full material and the artifact are of the key in the key directory. *)
KeyBelongsToFiles ==
  /\ Intact(full) => full.hsk = key
  /\ Intact(dir.artifact) => dir.artifact.hsk = key
=============================================================================
