------------------------------- MODULE Replay -------------------------------
(***************************************************************************)
(* The replay command (replay_execute in analysis.py).  The witness says   *)
(* where its program and request were and what their digests are; the      *)
(* command chooses once whether to run those files or the copies embedded  *)
(* in the witness, then validates and executes through the process effect  *)
(* of the native core, and compares the signature of that run with the     *)
(* signature of the witness.                                               *)
(***************************************************************************)
EXTENDS Recording

VARIABLE replaying   \* the replay in progress

replayVars == <<recordingVars, replaying>>

NotReplaying == [step |-> "idle"]
ReplayInit == replaying = NotReplaying

\* Mutant of ReplayInputs: the copy of the program runs on the request file.
ReplayInputsMixed ==
  IF witness.kept /\ disk.program = witness.program /\ disk.request = witness.request
  THEN [where |-> "files"]
  ELSE IF witness.embeds
       THEN [where |-> "copies", program |-> witness.program, request |-> disk.request]
       ELSE [where |-> "unavailable"]

\* _ReplayInputs: the files, when both are still there with their digests;
\* else both embedded copies, in a directory of their own.
ReplayInputs ==
  IF witness.kept /\ disk.program = witness.program /\ disk.request = witness.request
  THEN [where |-> "files"]
  ELSE IF witness.embeds
       THEN [where |-> "copies", program |-> witness.program, request |-> witness.asked]
       ELSE [where |-> "unavailable"]

\* What a process reads when it runs on those inputs.
FilesOf(inputs) ==
  IF inputs.where = "files" THEN disk
  ELSE [program |-> inputs.program, request |-> inputs.request]

ReplayReport(status) ==
  [kind |-> "replay", status |-> status,
   exit |-> IF status = "reproduced" THEN "success" ELSE "failure"]

\* A replay that established nothing (_blocked_replay).
BlockReplay == replaying' = NotReplaying /\ report' = ReplayReport("blocked")

\* A deterministic replay is never possible, and a witness of an imported test
\* is not replayed: the run alone would not repeat the verdict of its test.
StartReplay ==
  /\ replaying = NotReplaying
  /\ witness # NoWitness
  /\ \E deterministic \in BOOLEAN :
       IF deterministic \/ witness.test # NoTest THEN BlockReplay
       ELSE replaying' = [step |-> "open"] /\ report' = NoReport
  /\ UNCHANGED <<worldVars, witness, recording>>

\* The executable and the libraries of the recipe may be gone or changed; then
\* the digests are compared, once.
OpenReplay ==
  /\ replaying.step = "open"
  /\ \E gone \in BOOLEAN :
       /\ Mishap(gone)
       /\ IF gone \/ ReplayInputs.where = "unavailable" THEN BlockReplay
          ELSE /\ replaying' = [step |-> "validate", inputs |-> ReplayInputs]
               /\ UNCHANGED report
  /\ UNCHANGED <<runtime, disk, witness, recording>>

\* Mutant of Reproduces: the identity of the failure is not compared.
ReproducesClass(observed) ==
  LET recorded == WitnessSignature(witness.outcome)
  IN observed.failure_class = recorded.failure_class /\ observed.status = recorded.status

\* The signature of a re-execution is that of the witness.
Reproduces(observed) == observed = WitnessSignature(witness.outcome)

CompareReplay(observed) ==
  /\ replaying' = NotReplaying
  /\ report' = ReplayReport(IF Reproduces(observed) THEN "reproduced" ELSE "mismatch")

\* validate, through the process effect of the core, which may fail.  Only a
\* document that says the program is invalid ends the replay here: one that
\* did not fit, or that came too late, is no document.
ValidateReplay ==
  /\ replaying.step = "validate"
  /\ \E down, late \in BOOLEAN :
       /\ ~(down /\ late)
       /\ Mishap(down \/ late)
       /\ LET result == Printed(FilesOf(replaying.inputs), late)
          IN CASE down -> BlockReplay
               [] ~down /\ ~late /\ ~result.valid /\ ~result.long ->
                    CompareReplay(ValidationSignature)
               [] OTHER -> /\ replaying' = [replaying EXCEPT !.step = "execute"]
                           /\ UNCHANGED report
  /\ UNCHANGED <<runtime, disk, witness, recording>>

\* execute, through the same effect.
ExecuteReplay ==
  /\ replaying.step = "execute"
  /\ \E down, late \in BOOLEAN :
       /\ ~(down /\ late)
       /\ Mishap(down \/ late)
       /\ IF down THEN BlockReplay
          ELSE CompareReplay(ExecutionSignature(Printed(FilesOf(replaying.inputs), late)))
  /\ UNCHANGED <<runtime, disk, witness, recording>>

ReplayStep == OpenReplay \/ ValidateReplay \/ ExecuteReplay
=============================================================================
