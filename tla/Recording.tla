------------------------------ MODULE Recording ------------------------------
(***************************************************************************)
(* The record command (build_witness in runner.py): one run of a program   *)
(* on a request becomes a witness.  The command reads the program and the  *)
(* request several times, and runs the executable once or, when the        *)
(* observe command prints no observation, again: each read and each run is *)
(* an action, and a developer may edit the files between any two of them.  *)
(*                                                                         *)
(* A version of a program is what its bytes, and so its digest, stand for; *)
(* a request is the sequence of its integer arguments.  runtime is what    *)
(* the language does and does not change: runtime.runs[p][r] is the result *)
(* of p on r, runtime.maps[p] the compiler's correspondence of p,          *)
(* runtime.mapped whether programs have a source map, and runtime.embeds   *)
(* whether they are short enough to be embedded in a witness.              *)
(***************************************************************************)
EXTENDS Provenance, Bench

CONSTANTS
  Runtimes,     \* what the language may do
  Programs,     \* versions of the program file
  Requests,     \* versions of the request file a developer writes
  Tests,        \* imported test results, NoTest among them
  Policies,     \* what the observe command may be asked to keep
  DefaultLimit  \* the default of --max-events

ASSUME TestAssumption == NoTest \in Tests
ASSUME PolicyAssumption ==   \* the command line refuses others
  /\ \A p \in Policies : p.events \in Nat /\ p.values \in Nat
  /\ \A p \in Policies : p.capture = "selected" => p.ops # {}
ASSUME DefaultAssumption == DefaultLimit \in Nat
ASSUME RequestAssumption == Requests \subseteq Seq(Int)

VARIABLES
  runtime,    \* what the language does
  disk,       \* the program and the request file
  witness,    \* the witness file, NoWitness before the first recording
  recording   \* the recording in progress

worldVars == <<runtime, disk, trouble>>
recordingVars == <<worldVars, witness, report, recording>>

NoWitness == [kind |-> "none"]
NotRecording == [step |-> "idle"]

RecordingInit ==
  /\ runtime \in Runtimes
  /\ disk \in [program : Programs, request : Requests]
  /\ trouble = MaxTrouble
  /\ witness = NoWitness
  /\ report = NoReport
  /\ recording = NotRecording

\* A process that does not end before its deadline leaves no document.
Killed(result) == [result EXCEPT !.ends = FALSE, !.status = "none", !.failure = NoId,
                                 !.effect = FALSE]

\* What a run prints: nothing when the machine is too slow this time.
Printed(files, late) ==
  LET result == runtime.runs[files.program][files.request]
  IN IF late THEN Killed(result) ELSE result

\* The developer edits the program or the request.
Edit ==
  /\ trouble > 0
  /\ trouble' = trouble - 1
  /\ \/ \E p \in Programs : p # disk.program /\ disk' = [disk EXCEPT !.program = p]
     \/ \E r \in Requests : r # disk.request /\ disk' = [disk EXCEPT !.request = r]
  /\ UNCHANGED <<runtime, witness, report, recording>>

\* An imported FAIL is kept even under failure-only, which would keep nothing
\* of a test function that returns its verdict.
EffectiveCapture(capture, test) ==
  IF capture = "failure-only" /\ test.verdict = "FAIL" THEN "bounded" ELSE capture

\* A capture policy: --capture, --operation, --max-events and --max-values.
Policy(capture, ops, events, values) ==
  [capture |-> capture, ops |-> ops, events |-> events, values |-> values]

\* record: the arguments of the command are fixed, nothing has run.
StartRecording(test, policy) ==
  recording' = [step |-> "observe", test |-> test,
                policy |-> Policy(EffectiveCapture(policy.capture, test), policy.ops,
                                  policy.events, policy.values)]

\* A record with more fields, or with others in their place.
With(r, fields) ==
  [f \in DOMAIN r \cup DOMAIN fields |-> IF f \in DOMAIN fields THEN fields[f] ELSE r[f]]

\* The observe command prints an observation of the runs it knows, accepts and
\* sees the end of.
IsObservation(result) == result.wrapped /\ result.valid /\ result.ends /\ result.status # "none"

\* observe_request: the request is loaded, the program runs under observation.
\* An executable that prints no observation (an old one, a program it refuses,
\* a run it did not finish) is asked to execute the program instead.
Observe ==
  /\ recording.step = "observe"
  /\ \E late \in BOOLEAN :
       /\ Mishap(late)
       /\ LET result == Printed(disk, late)
              native == IsObservation(result)
          IN recording' =
               IF native
               THEN With(recording,
                         [step |-> "index", native |-> TRUE, ran |-> disk, loaded |-> disk.request,
                          result |-> result,
                          stream |-> Observed(result, recording.policy)])
               ELSE [recording EXCEPT !.step = "execute"]
  /\ UNCHANGED <<runtime, disk, witness, report>>

\* execute_request: the request is loaded again and the program runs again.
Execute ==
  /\ recording.step = "execute"
  /\ \E late \in BOOLEAN :
       /\ Mishap(late)
       /\ recording' = With(recording,
                            [step |-> "index", native |-> FALSE, ran |-> disk, loaded |-> disk.request,
                             result |-> Printed(disk, late), stream |-> NoStream])
  /\ UNCHANGED <<runtime, disk, witness, report>>

\* _native_static_index, or collect_static with its validation of the program
\* as it is on disk by now.
IndexStatics ==
  /\ recording.step = "index"
  /\ LET fresh == runtime.runs[disk.program][disk.request]
     IN recording' =
          With(recording,
               [step   |-> "classify",
                valid  |-> IF recording.native THEN TRUE ELSE fresh.valid,
                mapped |-> recording.native /\ runtime.mapped,
                map    |-> IF recording.native THEN runtime.maps[recording.ran.program]
                           ELSE runtime.maps[disk.program]])
  /\ UNCHANGED <<worldVars, witness, report>>

\* classify_with_native_core and _outcome: an invocation of the core may fail.
ClassifyRun ==
  /\ recording.step = "classify"
  /\ \E coreUp \in BOOLEAN :
       /\ Mishap(~coreUp)
       /\ LET judged == [recording.result EXCEPT !.valid = recording.valid]
          IN recording' = With(recording, [step    |-> "seal",
                                           outcome |-> Outcome(judged, recording.test, coreUp)])
  /\ UNCHANGED <<runtime, disk, witness, report>>

\* The execution document the trace is made of: none of a killed run, and one
\* that is marked a compile failure when the program was refused.
TracedExecution(result, valid, outcome) ==
  LET run == IF result.ends THEN result
             ELSE [result EXCEPT !.steps = <<>>, !.effects = <<>>, !.cut = FALSE]
  IN IF valid THEN run
     ELSE [run EXCEPT !.status = "compile_failure", !.failure = outcome.failure]

\* The witness of a run r: what ran, the digests and copies of its inputs, and
\* whether the request file stays where the replay recipe says it is.
NewWitness(r) ==
  [kind |-> "witness", ran |-> r.ran, program |-> r.program, request |-> r.request,
   asked |-> r.loaded, embeds |-> runtime.embeds, kept |-> r.kept, test |-> r.test,
   policy |-> r.policy, native |-> r.native, stream |-> r.stream,
   mapped |-> r.mapped, map |-> r.map, outcome |-> r.outcome,
   trace |-> MakeTrace(r.native, r.valid, r.stream,
                       TracedExecution(r.result, r.valid, r.outcome), r.policy.events)]

\* _cmd_record: only a run that returned, or whose test failed, is a success.
RecordExit(made) ==
  IF made.outcome.failure_class \in {"success", "test_failure"} THEN "success" ELSE "failure"

\* The trace, the program and request references and the replay recipe; the
\* digests are of the files as they are now, the embedded request is the one
\* that was loaded for the run.
SealWitness ==
  /\ recording.step = "seal"
  /\ LET made == NewWitness(With(recording, [program |-> disk.program,
                                             request |-> disk.request, kept |-> TRUE]))
     IN /\ witness' = made
        /\ report' = [kind |-> "record", exit |-> RecordExit(made)]
  /\ recording' = NotRecording
  /\ UNCHANGED worldVars

RecordingStep == Observe \/ Execute \/ IndexStatics \/ ClassifyRun \/ SealWitness

\* record, when no other command runs.
Record ==
  /\ recording = NotRecording
  /\ \E test \in Tests, policy \in Policies : StartRecording(test, policy)
  /\ report' = NoReport
  /\ UNCHANGED <<worldVars, witness>>
=============================================================================
